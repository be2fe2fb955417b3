-------------------------------- MODULE Gallery --------------------------------
(***************************************************************************)
(* face_service/recognizer.py, adaptive.py and the enrollment commands of  *)
(* service.py: the enrolled faces and the adaptive ring, each in memory    *)
(* and in a file of its own, the photographs they are built from, and a    *)
(* service process that may die between any two steps of a command.        *)
(***************************************************************************)
EXTENDS Integers, Sequences

CONSTANTS
  MaxSessions,  \* bound: photo sessions ever taken
  MaxSize,      \* cfg.adaptive_max_size
  Cooldown,     \* cfg.adaptive_cooldown_s
  MaxTime       \* bound: the wall clock stays in 0 .. MaxTime

ASSUME GalleryAssumption ==
  MaxSessions \in Nat /\ MaxSize \in Nat \ {0} /\ Cooldown \in Nat /\ MaxTime \in Nat

VARIABLES
  up,         \* is the service process alive?
  serving,    \* the step its command has reached
  replacing,  \* is the build one with "replace"?
  embedFile,  \* embeddings.npz: the sessions it was built from, {} for no file
  ringFile,   \* adaptive.npz: the ring saved last, << >> for no file
  images,     \* the sessions with photographs in ENROLL_DIR
  pending,    \* those in ENROLL_PENDING_DIR
  base,       \* _enroll_refs, {} for None
  ring,       \* the AdaptiveStore in memory
  refs,       \* _refs, the matching set
  on,         \* cfg.adaptive_gallery
  now,        \* time.time()
  sessions,   \* history: sessions taken so far
  erased,     \* history: the sessions a clear has answered for
  torn,       \* history: a ring file outlived its enrollment
  toggled     \* history: the feature was switched since memory and files agreed

files == <<embedFile, ringFile>>
photos == <<images, pending, sessions>>
memory == <<base, ring, refs>>
settings == <<on, now>>
command == <<serving, replacing>>
galleryVars == <<up, command, files, photos, memory, settings, erased, torn, toggled>>

Sessions == 1 .. MaxSessions
Entries == [of : SUBSET Sessions, at : Nat]
None == [base |-> {}, ring |-> << >>]
Servings == {"idle", "clear ring", "promote", "remove embeddings", "remove images"}

Idle == up /\ serving = "idle"

\* _refresh_refs: the enrolled embeddings followed by the ring's.
Matching(b, r) == [base |-> b, ring |-> r]

\* add: first in, first out, down to adaptive_max_size.
Kept(r) == IF Len(r) > MaxSize THEN Tail(r) ELSE r

-----------------------------------------------------------------------------
(* The wizard's photographs *)

\* A session joins those already in ENROLL_DIR, or waits in the pending one,
\* which a Replace session empties first.
Capture ==
  /\ serving = "idle" /\ sessions < MaxSessions
  /\ sessions' = sessions + 1
  /\ \/ images' = images \cup {sessions + 1} /\ UNCHANGED pending
     \/ pending' = {sessions + 1} /\ UNCHANGED images
  /\ UNCHANGED <<up, command, files, memory, settings, erased, torn, toggled>>

\* The wizard is closed over a Replace session that was not built.
Discard ==
  /\ serving = "idle" /\ pending # {}
  /\ pending' = {}
  /\ UNCHANGED <<up, command, files, images, sessions, memory, settings, erased,
                 torn, toggled>>

-----------------------------------------------------------------------------
(* build_enrollment *)

\* Mutant of Build, for RingAnchored: the ring survives a new baseline.
BuildKeepsRing(replace) ==
  /\ Idle
  /\ embedFile' \in (SUBSET IF replace THEN pending ELSE images) \ {{}}
  /\ base' = embedFile' /\ refs' = Matching(embedFile', ring)
  /\ serving' = (IF replace THEN "promote" ELSE "idle") /\ replacing' = replace
  /\ UNCHANGED <<up, ringFile, photos, ring, settings, erased, torn, toggled>>

\* Photographs of some sessions pass the quality check, and enough of them: the
\* new file is renamed over the old one. Until then a build that fails has
\* changed nothing.
Build(replace) ==
  /\ Idle
  /\ embedFile' \in (SUBSET IF replace THEN pending ELSE images) \ {{}}
  /\ base' = embedFile'
  /\ serving' = "clear ring" /\ replacing' = replace
  /\ UNCHANGED <<up, ringFile, photos, ring, refs, settings, erased, torn, toggled>>

\* A new baseline drops the ring: in memory first, then its file. A file that
\* cannot be unlinked fails the build, before the matching set is refreshed.
ClearRing ==
  /\ up /\ serving = "clear ring"
  /\ ring' = << >>
  /\ \/ /\ ringFile' = << >>
        /\ refs' = Matching(base, << >>)
        /\ torn' = FALSE /\ toggled' = FALSE
        /\ serving' = IF replacing THEN "promote" ELSE "idle"
     \/ /\ ringFile # << >>
        /\ torn' = TRUE
        /\ serving' = "idle"
        /\ UNCHANGED <<ringFile, refs, toggled>>
  /\ UNCHANGED <<up, replacing, embedFile, photos, base, settings, erased>>

\* Replace: the photographs of the old sessions go, one after the other, then
\* the new ones take their place. Any of these calls may raise.
Promote ==
  /\ up /\ serving = "promote"
  /\ \/ \E s \in images :
          images' = images \ {s} /\ UNCHANGED <<pending, serving>>
     \/ images = {} /\ images' = pending /\ pending' = {} /\ serving' = "idle"
     \/ serving' = "idle" /\ UNCHANGED <<images, pending>>
  /\ UNCHANGED <<up, replacing, files, sessions, memory, settings, erased, torn,
                 toggled>>

-----------------------------------------------------------------------------
(* clear_enrollment *)

\* Mutant of ClearMemory, for ClearForgets: the matching set stays in use.
ClearKeepsMatching ==
  /\ Idle
  /\ base' = {} /\ ring' = << >> /\ ringFile' = << >>
  /\ torn' = FALSE
  /\ serving' = "remove embeddings"
  /\ UNCHANGED <<up, replacing, embedFile, photos, refs, settings, erased, toggled>>

\* The gallery is forgotten in memory, the ring with its file. If the file
\* stays, the command fails there, with the matching set as it was.
ClearMemory ==
  /\ Idle
  /\ base' = {} /\ ring' = << >>
  /\ \/ /\ ringFile' = << >> /\ refs' = None
        /\ torn' = FALSE
        /\ serving' = "remove embeddings"
     \/ /\ ringFile # << >>
        /\ torn' = TRUE
        /\ UNCHANGED <<ringFile, refs, serving>>
  /\ UNCHANGED <<up, replacing, embedFile, photos, settings, erased, toggled>>

\* embeddings.npz is deleted. A failure is kept for the answer: it leaves no
\* step at which the clear could still succeed.
RemoveEmbeddings ==
  /\ up /\ serving = "remove embeddings"
  /\ \/ embedFile' = {} /\ serving' = "remove images" /\ UNCHANGED <<images, pending>>
     \/ /\ embedFile # {} /\ UNCHANGED embedFile
        /\ serving' = "idle"
        /\ images' \in SUBSET images /\ pending' \in SUBSET pending
  /\ UNCHANGED <<up, replacing, ringFile, sessions, memory, settings, erased, torn,
                 toggled>>

\* The enroll tree goes; the answer is "ok" only if nothing of it is left.
RemoveImages ==
  /\ up /\ serving = "remove images"
  /\ images' \in SUBSET images /\ pending' \in SUBSET pending
  /\ erased' = IF images' = {} /\ pending' = {} THEN 1 .. sessions ELSE erased
  /\ serving' = "idle"
  /\ UNCHANGED <<up, replacing, files, sessions, memory, settings, torn, toggled>>

-----------------------------------------------------------------------------
(* Recognition *)

\* load: without embeddings.npz the ring's file is an orphan and goes (or its
\* unlink raises); with it, the ring is read only while the feature is on.
\* AdaptiveStore.load, which leaves the ring as it was when there is no file.
StoredRing == IF on /\ ringFile # << >> THEN ringFile ELSE ring

Load ==
  IF embedFile = {}
  THEN /\ ring' = << >>
       /\ \/ ringFile' = << >> /\ torn' = FALSE
          \/ ringFile # << >> /\ torn' = TRUE /\ UNCHANGED ringFile
       /\ UNCHANGED <<embedFile, base, refs>>
  ELSE /\ base' = embedFile
       /\ ring' = StoredRing
       /\ refs' = Matching(base', ring')
       /\ UNCHANGED <<files, torn>>

\* analyze_frame without a matching set tries to load one.
Analyze ==
  /\ Idle /\ refs = None
  /\ Load
  /\ UNCHANGED <<up, command, photos, settings, erased, toggled>>

\* maybe_adapt, after a delivered grant: a face within the ceiling of the
\* enrolled baseline joins the ring, unless the last one did so just now. A
\* save that fails takes the entry back out of memory.
OffersToAdapt == Idle /\ on
MayAdapt ==
  /\ OffersToAdapt /\ base # {} /\ refs # None
  /\ ring # << >> => now - ring[Len(ring)].at >= Cooldown

\* Mutant of Adapt, for MemoryIsDisk: a failed save leaves the entry in memory.
AdaptNoRollback ==
  /\ MayAdapt
  /\ ring' = Kept(Append(ring, [of |-> base, at |-> now]))
  /\ \/ ringFile' = ring' /\ refs' = Matching(base, ring')
     \/ UNCHANGED <<ringFile, refs>>
  /\ UNCHANGED <<up, command, embedFile, photos, base, settings, erased, torn, toggled>>

Adapt ==
  /\ MayAdapt
  /\ \/ /\ ring' = Kept(Append(ring, [of |-> base, at |-> now]))
        /\ ringFile' = ring'
        /\ refs' = Matching(base, ring')
     \/ UNCHANGED <<ring, ringFile, refs>>
  /\ UNCHANGED <<up, command, embedFile, photos, base, settings, erased, torn, toggled>>

-----------------------------------------------------------------------------
(* The process, its settings and the clock *)

\* reload_config hands the recognizer a cfg with the feature switched; what is
\* loaded stays loaded.
Reload ==
  /\ Idle
  /\ on' = ~on /\ toggled' = TRUE
  /\ UNCHANGED <<up, command, files, photos, memory, now, erased, torn>>

ClockMoves ==
  /\ now' \in 0 .. MaxTime
  /\ UNCHANGED <<up, command, files, photos, memory, on, erased, torn, toggled>>

\* Killed: a build cut off here has replaced one of its two files.
Die ==
  /\ up /\ up' = FALSE
  /\ serving' = "idle"
  /\ base' = {} /\ ring' = << >> /\ refs' = None
  /\ torn' = (torn \/ (serving = "clear ring" /\ ringFile # << >>))
  /\ UNCHANGED <<replacing, files, photos, settings, erased, toggled>>

\* The next process loads what it finds.
Start ==
  /\ ~up /\ up' = TRUE
  /\ Load
  /\ toggled' = FALSE
  /\ UNCHANGED <<command, photos, settings, erased>>

GalleryInit ==
  /\ up = FALSE /\ serving = "idle" /\ replacing = FALSE
  /\ embedFile = {} /\ ringFile = << >>
  /\ images = {} /\ pending = {} /\ sessions = 0
  /\ base = {} /\ ring = << >> /\ refs = None
  /\ on \in BOOLEAN /\ now = 0
  /\ erased = {} /\ torn = FALSE /\ toggled = FALSE

GalleryNext ==
  \/ Capture \/ Discard
  \/ \E replace \in BOOLEAN : Build(replace)
  \/ ClearRing \/ Promote
  \/ ClearMemory \/ RemoveEmbeddings \/ RemoveImages
  \/ Analyze \/ Adapt
  \/ Reload \/ ClockMoves \/ Die \/ Start

GallerySpec == GalleryInit /\ [][GalleryNext]_galleryVars

-----------------------------------------------------------------------------
(* Properties *)

Rings == {r \in Seq(Entries) : Len(r) <= MaxSize}
Galleries == [base : SUBSET Sessions, ring : Rings]

\* Every variable has its type, no ring is longer than adaptive_max_size, and
\* a process that is down holds no gallery.
GalleryTypeOK ==
  /\ up \in BOOLEAN /\ serving \in Servings /\ replacing \in BOOLEAN
  /\ embedFile \in SUBSET Sessions /\ ringFile \in Rings
  /\ images \in SUBSET Sessions /\ pending \in SUBSET Sessions
  /\ sessions \in 0 .. MaxSessions /\ erased \in SUBSET Sessions
  /\ base \in SUBSET Sessions /\ ring \in Rings /\ refs \in Galleries
  /\ on \in BOOLEAN /\ now \in Nat
  /\ torn \in BOOLEAN /\ toggled \in BOOLEAN
  /\ ~up => serving = "idle" /\ refs = None /\ ring = << >> /\ base = {}

Anchored(r, b) == \A i \in DOMAIN r : r[i].of = b
Spaced(r) == \A i \in 1 .. Len(r) - 1 : r[i + 1].at - r[i].at >= Cooldown

\* Whatever is matched beyond the enrolled faces was accepted against those
\* very faces, and one cooldown at least after the entry before it: a build, a
\* clear, a restart and the feature's switch never leave the ring of another
\* enrollment in use, except after a build that was killed between its two
\* files or a ring file that could not be deleted (torn).
RingAnchored ==
  /\ ~torn => Anchored(refs.ring, refs.base)
  /\ Spaced(refs.ring)

\* What the next process will load.
OnDisk == Matching(embedFile, IF on THEN ringFile ELSE << >>)

\* Between the two files of a build, after a torn one or a switch of the feature
\* aside, the matching set is empty, or it and the ring are those a restart
\* would bring: a save that fails, a clear that gets half way, a build killed or
\* refused never leave the service matching faces its files do not hold.
MemoryIsDisk ==
  (up /\ ~torn /\ ~toggled /\ serving # "clear ring")
    => refs = None \/ (refs = OnDisk /\ ring = OnDisk.ring)

\* No face whose deletion was answered with "ok" is ever matched again,
\* whatever was pending, half promoted or in the ring at that time.
ClearForgets ==
  /\ refs.base \cap erased = {}
  /\ \A i \in DOMAIN refs.ring : refs.ring[i].of \cap erased = {}
=============================================================================
