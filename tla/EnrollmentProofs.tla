-------------------------- MODULE EnrollmentProofs --------------------------
(***************************************************************************)
(* Proofs about enrolment at its two ends: the recognizer's gallery in the *)
(* service and the enrolment window. Every theorem is about the            *)
(* specification of one of the two alone.                                  *)
(***************************************************************************)
EXTENDS Gallery, Wizard, TLAPS

-----------------------------------------------------------------------------
(***************************************************************************)
(* Gallery, for every number of sessions, every capacity and every         *)
(* cooldown. The invariant says, step by step of a command, which of the   *)
(* matching set, the baseline, the ring and the two files agree.           *)
(***************************************************************************)

-----------------------------------------------------------------------------
(* The ring *)

\* The ring after an addition is a ring, and holds what it held and the entry.
LEMMA KeptRing ==
  ASSUME NEW r \in Rings, NEW e \in Entries
  PROVE  LET k == Kept(Append(r, e)) IN
         /\ k \in Rings
         /\ \A i \in DOMAIN k : k[i] = e \/ \E j \in DOMAIN r : k[i] = r[j]
<1>1. /\ Append(r, e) \in Seq(Entries) /\ Len(Append(r, e)) = Len(r) + 1
      /\ \A i \in 1 .. Len(r) : Append(r, e)[i] = r[i]
      /\ Append(r, e)[Len(r) + 1] = e
  BY DEF Rings
<1>2. CASE Len(r) + 1 > MaxSize
  <2>1. Kept(Append(r, e)) = Tail(Append(r, e))
    BY <1>1, <1>2 DEF Kept
  <2>2. /\ Tail(Append(r, e)) \in Seq(Entries)
        /\ Len(Tail(Append(r, e))) = Len(r)
        /\ \A i \in 1 .. Len(r) : Tail(Append(r, e))[i] = Append(r, e)[i + 1]
    BY <1>1 DEF Rings
  <2> QED BY <1>1, <2>1, <2>2 DEF Rings
<1>3. CASE ~(Len(r) + 1 > MaxSize)
  <2>1. Kept(Append(r, e)) = Append(r, e)
    BY <1>1, <1>3 DEF Kept
  <2> QED BY <1>1, <1>3, <2>1, GalleryAssumption DEF Rings
<1> QED BY <1>2, <1>3

\* One cooldown between two entries is kept by an addition one cooldown later.
LEMMA KeptSpaced ==
  ASSUME NEW r \in Rings, NEW e \in Entries, Spaced(r),
         r # << >> => e.at - r[Len(r)].at >= Cooldown
  PROVE  Spaced(Kept(Append(r, e)))
<1>1. /\ Append(r, e) \in Seq(Entries) /\ Len(Append(r, e)) = Len(r) + 1
      /\ \A i \in 1 .. Len(r) : Append(r, e)[i] = r[i]
      /\ Append(r, e)[Len(r) + 1] = e
  BY DEF Rings
<1>2. Spaced(Append(r, e))
  <2> SUFFICES ASSUME NEW i \in 1 .. Len(r)
               PROVE  Append(r, e)[i + 1].at - Append(r, e)[i].at >= Cooldown
    BY <1>1 DEF Spaced, Rings
  <2>1. CASE i = Len(r)
    BY <1>1, <2>1 DEF Rings
  <2>2. CASE i # Len(r)
    BY <1>1, <2>2 DEF Rings, Spaced
  <2> QED BY <2>1, <2>2
<1>3. CASE Len(r) + 1 > MaxSize
  <2>1. Kept(Append(r, e)) = Tail(Append(r, e))
    BY <1>1, <1>3 DEF Kept
  <2>2. /\ Len(Tail(Append(r, e))) = Len(r)
        /\ \A i \in 1 .. Len(r) : Tail(Append(r, e))[i] = Append(r, e)[i + 1]
    BY <1>1 DEF Rings
  <2> QED BY <1>1, <1>2, <2>1, <2>2 DEF Spaced, Rings
<1>4. CASE ~(Len(r) + 1 > MaxSize)
  BY <1>1, <1>2, <1>4 DEF Kept
<1> QED BY <1>3, <1>4

-----------------------------------------------------------------------------
(* The invariant *)

\* No command stands between the two files of a build, and none left them so.
Whole == ~torn /\ serving # "clear ring"

NothingMatched == (Whole /\ refs = None) => ring = << >> /\ base = {}
AllMatched == (Whole /\ refs # None) => refs = Matching(base, ring) /\ base = embedFile
FileAnchored == Whole => Anchored(ringFile, embedFile)
RingOfBase == Whole => Anchored(ring, base)
OldAnchored == (~torn /\ serving = "clear ring") => Anchored(refs.ring, refs.base)
Forgotten ==
  serving \in {"remove embeddings", "remove images"}
    => base = {} /\ ring = << >> /\ ringFile = << >> /\ refs = None
FileGone == serving = "remove images" => embedFile = {}
BaseOnDisk == base # {} => base = embedFile
Rebuilt == serving = "clear ring" => base # {}
RingOnDisk ==
  (up /\ Whole /\ ~toggled /\ refs # None) => ring = IF on THEN ringFile ELSE << >>

\* How memory and files agree, step by step.
Agreement ==
  /\ NothingMatched /\ AllMatched
  /\ FileAnchored /\ RingOfBase /\ OldAnchored
  /\ Forgotten /\ FileGone /\ BaseOnDisk /\ Rebuilt
  /\ RingOnDisk

\* One cooldown between neighbours, wherever a ring is.
AllSpaced == Spaced(ring) /\ Spaced(ringFile) /\ Spaced(refs.ring)

Clean(r, x) == \A i \in DOMAIN r : r[i].of \cap x = {}

\* A session that was cleared is nowhere any more.
Erasure ==
  /\ erased \subseteq 1 .. sessions
  /\ embedFile \cap erased = {} /\ images \cap erased = {} /\ pending \cap erased = {}
  /\ base \cap erased = {} /\ refs.base \cap erased = {}
  /\ Clean(ring, erased) /\ Clean(ringFile, erased) /\ Clean(refs.ring, erased)

\* What holds of a ring without entries.
LEMMA EmptyRing ==
  /\ << >> \in Rings /\ Spaced(<< >>)
  /\ \A b : Anchored(<< >>, b)
  /\ \A b : Clean(<< >>, b)
<1>1. << >> \in Seq(Entries) /\ Len(<< >>) = 0 /\ DOMAIN << >> = {}
  OBVIOUS
<1>2. << >> \in Rings
  BY <1>1, GalleryAssumption DEF Rings
<1>3. Spaced(<< >>)
  BY <1>1 DEF Spaced
<1> QED BY <1>1, <1>2, <1>3 DEF Anchored, Clean

\* What a matching set made of a baseline and a ring is.
LEMMA MatchingFields ==
  /\ \A b, r : Matching(b, r).base = b /\ Matching(b, r).ring = r
  /\ None.base = {} /\ None.ring = << >>
BY DEF Matching, None

\* A matching set with a baseline is not empty.
LEMMA MatchingSome == \A b, r : b # {} => Matching(b, r) # None
BY DEF Matching, None

\* Its type.
LEMMA MatchingType ==
  /\ \A b \in SUBSET Sessions, r \in Rings : Matching(b, r) \in Galleries
  /\ None \in Galleries
BY EmptyRing DEF Matching, None, Galleries

\* The face that joins the ring, and the ring it joins.
LEMMA Joining ==
  ASSUME GalleryTypeOK, Adapt
  PROVE  LET e == [of |-> base, at |-> now]
             k == Kept(Append(ring, e)) IN
         /\ e \in Entries /\ k \in Rings
         /\ \A i \in DOMAIN k : k[i] = e \/ \E j \in DOMAIN ring : k[i] = ring[j]
         /\ Spaced(ring) => Spaced(k)
         /\ Anchored(ring, base) => Anchored(k, base)
         /\ \A x : (base \cap x = {} /\ Clean(ring, x)) => Clean(k, x)
<1> DEFINE e == [of |-> base, at |-> now]
           k == Kept(Append(ring, e))
<1>1. e \in Entries /\ e.of = base /\ e.at = now /\ ring \in Rings
  BY DEF GalleryTypeOK, Entries
<1>2. ring # << >> => e.at - ring[Len(ring)].at >= Cooldown
  BY <1>1 DEF Adapt, MayAdapt, OffersToAdapt
<1> HIDE DEF e
<1>3. /\ k \in Rings
      /\ \A i \in DOMAIN k : k[i] = e \/ \E j \in DOMAIN ring : k[i] = ring[j]
  BY <1>1, KeptRing
<1>4. Spaced(ring) => Spaced(k)
  BY <1>1, <1>2, KeptSpaced
<1> HIDE DEF k
<1>5. Anchored(ring, base) => Anchored(k, base)
  BY <1>1, <1>3 DEF Anchored
<1>6. \A x : (base \cap x = {} /\ Clean(ring, x)) => Clean(k, x)
  BY <1>1, <1>3 DEF Clean
<1> QED BY <1>1, <1>3, <1>4, <1>5, <1>6 DEF e, k

\* The same of the step, which may also fail.
LEMMA JoinedFrame ==
  ASSUME Adapt
  PROVE  /\ on /\ base # {} /\ refs # None /\ serving = "idle"
         /\ UNCHANGED <<up, command, embedFile, photos, base, settings, erased, torn,
                        toggled>>
BY DEF Adapt, MayAdapt, OffersToAdapt, Idle

\* What it leaves is typed.
LEMMA JoinedType ==
  ASSUME GalleryTypeOK, Adapt
  PROVE  ring' \in Rings /\ ringFile' \in Rings /\ refs' \in Galleries
<1>1. /\ base \in SUBSET Sessions /\ ring \in Rings /\ ringFile \in Rings
      /\ refs \in Galleries
  BY DEF GalleryTypeOK
<1>2. Kept(Append(ring, [of |-> base, at |-> now])) \in Rings
  BY Joining
<1> QED BY <1>1, <1>2, MatchingType DEF Adapt

\* It keeps the cooldown.
LEMMA JoinedSpaced ==
  ASSUME GalleryTypeOK, Adapt, Spaced(ring), Spaced(ringFile), Spaced(refs.ring)
  PROVE  Spaced(ring') /\ Spaced(ringFile') /\ Spaced(refs'.ring)
<1>1. Spaced(Kept(Append(ring, [of |-> base, at |-> now])))
  BY Joining
<1> QED BY <1>1, MatchingFields DEF Adapt

\* It keeps the ring with its baseline.
LEMMA JoinedAnchored ==
  ASSUME GalleryTypeOK, Adapt
  PROVE  \/ /\ Anchored(ring, base) => Anchored(ring', base)
            /\ ringFile' = ring' /\ refs' = Matching(base, ring')
         \/ UNCHANGED <<ring, ringFile, refs>>
<1>1. Anchored(ring, base)
        => Anchored(Kept(Append(ring, [of |-> base, at |-> now])), base)
  BY Joining
<1> QED BY <1>1 DEF Adapt

\* It brings no session the baseline does not hold.
LEMMA JoinedClean ==
  ASSUME GalleryTypeOK, Adapt, NEW x, base \cap x = {}, Clean(ring, x)
  PROVE  Clean(ring', x)
<1>1. Clean(Kept(Append(ring, [of |-> base, at |-> now])), x)
  BY Joining
<1> QED BY <1>1 DEF Adapt

\* Every step keeps the types.
LEMMA GalleryTypeStep ==
  ASSUME GalleryTypeOK, [GalleryNext]_galleryVars
  PROVE  GalleryTypeOK'
<1>1. CASE Capture
  <2>1. sessions + 1 \in Sessions /\ sessions + 1 \in 0 .. MaxSessions
    BY <1>1, GalleryAssumption DEF Capture, GalleryTypeOK, Sessions
  <2>2. images' \in SUBSET Sessions /\ pending' \in SUBSET Sessions
    BY <1>1, <2>1 DEF Capture, GalleryTypeOK
  <2> QED
    BY <1>1, <2>1, <2>2 DEF Capture, command, files, memory, settings, GalleryTypeOK
<1>2. CASE Discard
  BY EmptyRing, MatchingType, <1>2
  DEF Discard, command, files, memory, settings, GalleryTypeOK
<1>3. ASSUME NEW replace \in BOOLEAN, Build(replace) PROVE GalleryTypeOK'
  BY EmptyRing, MatchingType, <1>3
  DEF Servings, Build, Idle, photos, settings, GalleryTypeOK
<1>4. CASE ClearRing
  BY EmptyRing, MatchingType, <1>4
  DEF ClearRing, photos, settings, GalleryTypeOK, Servings
<1>5. CASE Promote
  BY EmptyRing, MatchingType, <1>5
  DEF Promote, files, memory, settings, GalleryTypeOK, Servings
<1>6. CASE ClearMemory
  BY EmptyRing, MatchingType, <1>6
  DEF ClearMemory, Idle, photos, settings, GalleryTypeOK, Servings
<1>7. CASE RemoveEmbeddings
  BY EmptyRing, MatchingType, <1>7
  DEF RemoveEmbeddings, memory, settings, GalleryTypeOK, Servings
<1>8. CASE RemoveImages
  <2>1. 1 .. sessions \in SUBSET Sessions
    BY GalleryAssumption DEF GalleryTypeOK, Sessions
  <2>2. /\ images' \in SUBSET Sessions /\ pending' \in SUBSET Sessions
        /\ erased' \in SUBSET Sessions /\ up /\ serving' = "idle"
    BY <1>8, <2>1 DEF Servings, RemoveImages, GalleryTypeOK
  <2> QED
    BY <1>8, <2>2 DEF RemoveImages, files, memory, settings, GalleryTypeOK, Servings
<1>9. CASE Analyze
  BY EmptyRing, MatchingType, <1>9
  DEF Analyze, Idle, Load, StoredRing, command, files, photos, settings, GalleryTypeOK
<1>10. CASE Adapt
  BY <1>10, JoinedFrame, JoinedType
  DEF command, photos, settings, GalleryTypeOK
<1>11. CASE Reload
  BY EmptyRing, MatchingType, <1>11
  DEF Reload, Idle, command, files, photos, memory, GalleryTypeOK
<1>12. CASE ClockMoves
  BY EmptyRing, MatchingType, <1>12
  DEF ClockMoves, command, files, photos, memory, GalleryTypeOK
<1>13. CASE Die
  BY EmptyRing, MatchingType, <1>13
  DEF Die, files, photos, settings, GalleryTypeOK, Servings
<1>14. CASE Start
  BY EmptyRing, MatchingType, <1>14
  DEF Start, Load, StoredRing, command, files, photos, settings, GalleryTypeOK
<1>15. CASE UNCHANGED galleryVars
  BY <1>15 DEF galleryVars, command, files, photos, memory, settings, GalleryTypeOK
<1> QED BY <1>1, <1>2, <1>3, <1>4, <1>5, <1>6, <1>7, <1>8, <1>9, <1>10, <1>11,
           <1>12, <1>13, <1>14, <1>15 DEF GalleryNext

\* Without a matching set, memory is empty.
LEMMA NothingMatchedStep ==
  ASSUME GalleryTypeOK, Agreement, [GalleryNext]_galleryVars
  PROVE  NothingMatched'
<1>1. CASE Capture
  BY EmptyRing, MatchingSome, <1>1
  DEF Capture, command, files, memory, settings, Whole, Agreement, NothingMatched,
      Rebuilt, BaseOnDisk, Forgotten
<1>2. CASE Discard
  BY EmptyRing, MatchingSome, <1>2
  DEF Discard, command, files, memory, settings, Whole, Agreement, NothingMatched,
      Rebuilt, BaseOnDisk, Forgotten
<1>3. ASSUME NEW replace \in BOOLEAN, Build(replace) PROVE NothingMatched'
  BY EmptyRing, MatchingSome, <1>3
  DEF Build, Idle, photos, settings, Whole, Agreement, NothingMatched, Rebuilt,
      BaseOnDisk, Forgotten
<1>4. CASE ClearRing
  BY EmptyRing, MatchingSome, <1>4
  DEF ClearRing, photos, settings, Whole, Agreement, NothingMatched, Rebuilt,
      BaseOnDisk, Forgotten
<1>5. CASE Promote
  BY EmptyRing, MatchingSome, <1>5
  DEF Promote, files, memory, settings, Whole, Agreement, NothingMatched, Rebuilt,
      BaseOnDisk, Forgotten
<1>6. CASE ClearMemory
  BY EmptyRing, MatchingSome, <1>6
  DEF ClearMemory, Idle, photos, settings, Whole, Agreement, NothingMatched,
      Rebuilt, BaseOnDisk, Forgotten
<1>7. CASE RemoveEmbeddings
  BY EmptyRing, MatchingSome, <1>7
  DEF RemoveEmbeddings, memory, settings, Whole, Agreement, NothingMatched,
      Rebuilt, BaseOnDisk, Forgotten
<1>8. CASE RemoveImages
  BY EmptyRing, MatchingSome, <1>8
  DEF RemoveImages, files, memory, settings, Whole, Agreement, NothingMatched,
      Rebuilt, BaseOnDisk, Forgotten
<1>9. CASE Analyze
  BY EmptyRing, MatchingSome, <1>9
  DEF GalleryTypeOK, Analyze, Idle, Load, StoredRing, command, files, photos, settings, Whole,
      Agreement, NothingMatched, Rebuilt, BaseOnDisk, Forgotten
<1>10. CASE Adapt
  BY <1>10, JoinedFrame, JoinedAnchored, MatchingSome
  DEF command, photos, settings, Whole, Agreement, NothingMatched, Rebuilt,
      BaseOnDisk, Forgotten
<1>11. CASE Reload
  BY EmptyRing, MatchingSome, <1>11
  DEF Reload, Idle, command, files, photos, memory, Whole, Agreement,
      NothingMatched, Rebuilt, BaseOnDisk, Forgotten
<1>12. CASE ClockMoves
  BY EmptyRing, MatchingSome, <1>12
  DEF ClockMoves, command, files, photos, memory, Whole, Agreement, NothingMatched,
      Rebuilt, BaseOnDisk, Forgotten
<1>13. CASE Die
  BY EmptyRing, MatchingSome, <1>13
  DEF Die, files, photos, settings, Whole, Agreement, NothingMatched, Rebuilt,
      BaseOnDisk, Forgotten
<1>14. CASE Start
  BY EmptyRing, MatchingSome, <1>14
  DEF GalleryTypeOK, Start, Load, StoredRing, command, files, photos, settings, Whole,
      Agreement, NothingMatched, Rebuilt, BaseOnDisk, Forgotten
<1>15. CASE UNCHANGED galleryVars
  BY <1>15 DEF galleryVars, command, files, photos, memory, settings, Whole,
     Agreement, NothingMatched, Rebuilt, BaseOnDisk, Forgotten
<1> QED BY <1>1, <1>2, <1>3, <1>4, <1>5, <1>6, <1>7, <1>8, <1>9, <1>10, <1>11,
           <1>12, <1>13, <1>14, <1>15 DEF GalleryNext

\* With one, it is made of memory, and memory is the file.
LEMMA AllMatchedStep ==
  ASSUME GalleryTypeOK, Agreement, [GalleryNext]_galleryVars
  PROVE  AllMatched'
<1>1. CASE Capture
  BY EmptyRing, MatchingSome, <1>1
  DEF Capture, command, files, memory, settings, Whole, Agreement, AllMatched,
      Rebuilt, BaseOnDisk, Forgotten, NothingMatched
<1>2. CASE Discard
  BY EmptyRing, MatchingSome, <1>2
  DEF Discard, command, files, memory, settings, Whole, Agreement, AllMatched,
      Rebuilt, BaseOnDisk, Forgotten, NothingMatched
<1>3. ASSUME NEW replace \in BOOLEAN, Build(replace) PROVE AllMatched'
  BY EmptyRing, MatchingSome, <1>3
  DEF Build, Idle, photos, settings, Whole, Agreement, AllMatched, Rebuilt,
      BaseOnDisk, Forgotten, NothingMatched
<1>4. CASE ClearRing
  BY EmptyRing, MatchingSome, <1>4
  DEF ClearRing, photos, settings, Whole, Agreement, AllMatched, Rebuilt,
      BaseOnDisk, Forgotten, NothingMatched
<1>5. CASE Promote
  BY EmptyRing, MatchingSome, <1>5
  DEF Promote, files, memory, settings, Whole, Agreement, AllMatched, Rebuilt,
      BaseOnDisk, Forgotten, NothingMatched
<1>6. CASE ClearMemory
  BY EmptyRing, MatchingSome, <1>6
  DEF ClearMemory, Idle, photos, settings, Whole, Agreement, AllMatched, Rebuilt,
      BaseOnDisk, Forgotten, NothingMatched
<1>7. CASE RemoveEmbeddings
  BY EmptyRing, MatchingSome, <1>7
  DEF RemoveEmbeddings, memory, settings, Whole, Agreement, AllMatched, Rebuilt,
      BaseOnDisk, Forgotten, NothingMatched
<1>8. CASE RemoveImages
  BY EmptyRing, MatchingSome, <1>8
  DEF RemoveImages, files, memory, settings, Whole, Agreement, AllMatched, Rebuilt,
      BaseOnDisk, Forgotten, NothingMatched
<1>9. CASE Analyze
  BY EmptyRing, MatchingSome, <1>9
  DEF GalleryTypeOK, Analyze, Idle, Load, StoredRing, command, files, photos, settings, Whole,
      Agreement, AllMatched, Rebuilt, BaseOnDisk, Forgotten, NothingMatched
<1>10. CASE Adapt
  BY <1>10, JoinedFrame, JoinedAnchored
  DEF command, photos, settings, Whole, Agreement, AllMatched, Rebuilt, BaseOnDisk,
      Forgotten, NothingMatched
<1>11. CASE Reload
  BY EmptyRing, MatchingSome, <1>11
  DEF Reload, Idle, command, files, photos, memory, Whole, Agreement, AllMatched,
      Rebuilt, BaseOnDisk, Forgotten, NothingMatched
<1>12. CASE ClockMoves
  BY EmptyRing, MatchingSome, <1>12
  DEF ClockMoves, command, files, photos, memory, Whole, Agreement, AllMatched,
      Rebuilt, BaseOnDisk, Forgotten, NothingMatched
<1>13. CASE Die
  BY EmptyRing, MatchingSome, <1>13
  DEF Die, files, photos, settings, Whole, Agreement, AllMatched, Rebuilt,
      BaseOnDisk, Forgotten, NothingMatched
<1>14. CASE Start
  BY EmptyRing, MatchingSome, <1>14
  DEF GalleryTypeOK, Start, Load, StoredRing, command, files, photos, settings, Whole,
      Agreement, AllMatched, Rebuilt, BaseOnDisk, Forgotten, NothingMatched
<1>15. CASE UNCHANGED galleryVars
  BY <1>15 DEF galleryVars, command, files, photos, memory, settings, Whole,
     Agreement, AllMatched, Rebuilt, BaseOnDisk, Forgotten, NothingMatched
<1> QED BY <1>1, <1>2, <1>3, <1>4, <1>5, <1>6, <1>7, <1>8, <1>9, <1>10, <1>11,
           <1>12, <1>13, <1>14, <1>15 DEF GalleryNext

\* The ring's file belongs to the embeddings' file.
LEMMA FileAnchoredStep ==
  ASSUME GalleryTypeOK, Agreement, [GalleryNext]_galleryVars
  PROVE  FileAnchored'
<1>1. CASE Capture
  BY EmptyRing, <1>1
  DEF Capture, command, files, memory, settings, Whole, Agreement, FileAnchored,
      AllMatched, RingOfBase, Forgotten, FileGone
<1>2. CASE Discard
  BY EmptyRing, <1>2
  DEF Discard, command, files, memory, settings, Whole, Agreement, FileAnchored,
      AllMatched, RingOfBase, Forgotten, FileGone
<1>3. ASSUME NEW replace \in BOOLEAN, Build(replace) PROVE FileAnchored'
  BY EmptyRing, <1>3
  DEF Build, Idle, photos, settings, Whole, Agreement, FileAnchored, AllMatched,
      RingOfBase, Forgotten, FileGone
<1>4. CASE ClearRing
  BY EmptyRing, <1>4
  DEF ClearRing, photos, settings, Whole, Agreement, FileAnchored, AllMatched,
      RingOfBase, Forgotten, FileGone
<1>5. CASE Promote
  BY EmptyRing, <1>5
  DEF Promote, files, memory, settings, Whole, Agreement, FileAnchored, AllMatched,
      RingOfBase, Forgotten, FileGone
<1>6. CASE ClearMemory
  BY EmptyRing, <1>6
  DEF ClearMemory, Idle, photos, settings, Whole, Agreement, FileAnchored,
      AllMatched, RingOfBase, Forgotten, FileGone
<1>7. CASE RemoveEmbeddings
  BY EmptyRing, <1>7
  DEF RemoveEmbeddings, memory, settings, Whole, Agreement, FileAnchored,
      AllMatched, RingOfBase, Forgotten, FileGone
<1>8. CASE RemoveImages
  BY EmptyRing, <1>8
  DEF RemoveImages, files, memory, settings, Whole, Agreement, FileAnchored,
      AllMatched, RingOfBase, Forgotten, FileGone
<1>9. CASE Analyze
  BY EmptyRing, <1>9
  DEF GalleryTypeOK, Analyze, Idle, Load, StoredRing, command, files, photos, settings, Whole,
      Agreement, FileAnchored, AllMatched, RingOfBase, Forgotten, FileGone
<1>10. CASE Adapt
  BY <1>10, JoinedFrame, JoinedAnchored
  DEF command, photos, settings, Whole, Agreement, FileAnchored, AllMatched,
      RingOfBase, Forgotten, FileGone
<1>11. CASE Reload
  BY EmptyRing, <1>11
  DEF Reload, Idle, command, files, photos, memory, Whole, Agreement, FileAnchored,
      AllMatched, RingOfBase, Forgotten, FileGone
<1>12. CASE ClockMoves
  BY EmptyRing, <1>12
  DEF ClockMoves, command, files, photos, memory, Whole, Agreement, FileAnchored,
      AllMatched, RingOfBase, Forgotten, FileGone
<1>13. CASE Die
  BY EmptyRing, <1>13
  DEF Die, files, photos, settings, Whole, Agreement, FileAnchored, AllMatched,
      RingOfBase, Forgotten, FileGone
<1>14. CASE Start
  BY EmptyRing, <1>14
  DEF GalleryTypeOK, Start, Load, StoredRing, command, files, photos, settings, Whole,
      Agreement, FileAnchored, AllMatched, RingOfBase, Forgotten, FileGone
<1>15. CASE UNCHANGED galleryVars
  BY <1>15 DEF galleryVars, command, files, photos, memory, settings, Whole,
     Agreement, FileAnchored, AllMatched, RingOfBase, Forgotten, FileGone
<1> QED BY <1>1, <1>2, <1>3, <1>4, <1>5, <1>6, <1>7, <1>8, <1>9, <1>10, <1>11,
           <1>12, <1>13, <1>14, <1>15 DEF GalleryNext

\* The ring belongs to the baseline.
LEMMA RingOfBaseStep ==
  ASSUME GalleryTypeOK, Agreement, [GalleryNext]_galleryVars
  PROVE  RingOfBase'
<1>1. CASE Capture
  BY EmptyRing, <1>1
  DEF Capture, command, files, memory, settings, Whole, Agreement, RingOfBase,
      NothingMatched, FileAnchored, AllMatched
<1>2. CASE Discard
  BY EmptyRing, <1>2
  DEF Discard, command, files, memory, settings, Whole, Agreement, RingOfBase,
      NothingMatched, FileAnchored, AllMatched
<1>3. ASSUME NEW replace \in BOOLEAN, Build(replace) PROVE RingOfBase'
  BY EmptyRing, <1>3
  DEF Build, Idle, photos, settings, Whole, Agreement, RingOfBase, NothingMatched,
      FileAnchored, AllMatched
<1>4. CASE ClearRing
  BY EmptyRing, <1>4
  DEF ClearRing, photos, settings, Whole, Agreement, RingOfBase, NothingMatched,
      FileAnchored, AllMatched
<1>5. CASE Promote
  BY EmptyRing, <1>5
  DEF Promote, files, memory, settings, Whole, Agreement, RingOfBase,
      NothingMatched, FileAnchored, AllMatched
<1>6. CASE ClearMemory
  BY EmptyRing, <1>6
  DEF ClearMemory, Idle, photos, settings, Whole, Agreement, RingOfBase,
      NothingMatched, FileAnchored, AllMatched
<1>7. CASE RemoveEmbeddings
  BY EmptyRing, <1>7
  DEF RemoveEmbeddings, memory, settings, Whole, Agreement, RingOfBase,
      NothingMatched, FileAnchored, AllMatched
<1>8. CASE RemoveImages
  BY EmptyRing, <1>8
  DEF RemoveImages, files, memory, settings, Whole, Agreement, RingOfBase,
      NothingMatched, FileAnchored, AllMatched
<1>9. CASE Analyze
  BY EmptyRing, <1>9
  DEF GalleryTypeOK, Analyze, Idle, Load, StoredRing, command, files, photos, settings, Whole,
      Agreement, RingOfBase, NothingMatched, FileAnchored, AllMatched
<1>10. CASE Adapt
  BY <1>10, JoinedFrame, JoinedAnchored
  DEF command, photos, settings, Whole, Agreement, RingOfBase, NothingMatched,
      FileAnchored, AllMatched
<1>11. CASE Reload
  BY EmptyRing, <1>11
  DEF Reload, Idle, command, files, photos, memory, Whole, Agreement, RingOfBase,
      NothingMatched, FileAnchored, AllMatched
<1>12. CASE ClockMoves
  BY EmptyRing, <1>12
  DEF ClockMoves, command, files, photos, memory, Whole, Agreement, RingOfBase,
      NothingMatched, FileAnchored, AllMatched
<1>13. CASE Die
  BY EmptyRing, <1>13
  DEF Die, files, photos, settings, Whole, Agreement, RingOfBase, NothingMatched,
      FileAnchored, AllMatched
<1>14. CASE Start
  BY EmptyRing, <1>14
  DEF GalleryTypeOK, Start, Load, StoredRing, command, files, photos, settings, Whole,
      Agreement, RingOfBase, NothingMatched, FileAnchored, AllMatched
<1>15. CASE UNCHANGED galleryVars
  BY <1>15 DEF galleryVars, command, files, photos, memory, settings, Whole,
     Agreement, RingOfBase, NothingMatched, FileAnchored, AllMatched
<1> QED BY <1>1, <1>2, <1>3, <1>4, <1>5, <1>6, <1>7, <1>8, <1>9, <1>10, <1>11,
           <1>12, <1>13, <1>14, <1>15 DEF GalleryNext

\* In the middle of a build the old matching set is still consistent.
LEMMA OldAnchoredStep ==
  ASSUME GalleryTypeOK, Agreement, [GalleryNext]_galleryVars
  PROVE  OldAnchored'
<1>1. CASE Capture
  BY EmptyRing, MatchingFields, <1>1
  DEF Capture, command, files, memory, settings, Whole, Agreement, OldAnchored,
      NothingMatched, AllMatched, RingOfBase
<1>2. CASE Discard
  BY EmptyRing, MatchingFields, <1>2
  DEF Discard, command, files, memory, settings, Whole, Agreement, OldAnchored,
      NothingMatched, AllMatched, RingOfBase
<1>3. ASSUME NEW replace \in BOOLEAN, Build(replace) PROVE OldAnchored'
  <2>1. ~torn' => Whole
    BY <1>3 DEF Build, Idle, Whole
  <2>2. CASE refs = None
    BY <1>3, <2>2, EmptyRing, MatchingFields DEF Build, Idle, OldAnchored
  <2>3. (Whole /\ refs # None) => Anchored(refs.ring, refs.base)
    BY MatchingFields DEF Agreement, AllMatched, RingOfBase
  <2>4. UNCHANGED <<refs, torn>>
    BY <1>3 DEF Build
  <2> QED BY <2>1, <2>2, <2>3, <2>4 DEF OldAnchored
<1>4. CASE ClearRing
  BY EmptyRing, MatchingFields, <1>4
  DEF ClearRing, photos, settings, Whole, Agreement, OldAnchored, NothingMatched,
      AllMatched, RingOfBase
<1>5. CASE Promote
  BY EmptyRing, MatchingFields, <1>5
  DEF Promote, files, memory, settings, Whole, Agreement, OldAnchored,
      NothingMatched, AllMatched, RingOfBase
<1>6. CASE ClearMemory
  BY EmptyRing, MatchingFields, <1>6
  DEF ClearMemory, Idle, photos, settings, Whole, Agreement, OldAnchored,
      NothingMatched, AllMatched, RingOfBase
<1>7. CASE RemoveEmbeddings
  BY EmptyRing, MatchingFields, <1>7
  DEF RemoveEmbeddings, memory, settings, Whole, Agreement, OldAnchored,
      NothingMatched, AllMatched, RingOfBase
<1>8. CASE RemoveImages
  BY EmptyRing, MatchingFields, <1>8
  DEF RemoveImages, files, memory, settings, Whole, Agreement, OldAnchored,
      NothingMatched, AllMatched, RingOfBase
<1>9. CASE Analyze
  BY EmptyRing, MatchingFields, <1>9
  DEF GalleryTypeOK, Analyze, Idle, Load, StoredRing, command, files, photos, settings, Whole,
      Agreement, OldAnchored, NothingMatched, AllMatched, RingOfBase
<1>10. CASE Adapt
  BY <1>10, JoinedFrame, JoinedAnchored
  DEF command, photos, settings, Whole, Agreement, OldAnchored, NothingMatched,
      AllMatched, RingOfBase
<1>11. CASE Reload
  BY EmptyRing, MatchingFields, <1>11
  DEF Reload, Idle, command, files, photos, memory, Whole, Agreement, OldAnchored,
      NothingMatched, AllMatched, RingOfBase
<1>12. CASE ClockMoves
  BY EmptyRing, MatchingFields, <1>12
  DEF ClockMoves, command, files, photos, memory, Whole, Agreement, OldAnchored,
      NothingMatched, AllMatched, RingOfBase
<1>13. CASE Die
  BY EmptyRing, MatchingFields, <1>13
  DEF Die, files, photos, settings, Whole, Agreement, OldAnchored, NothingMatched,
      AllMatched, RingOfBase
<1>14. CASE Start
  BY EmptyRing, MatchingFields, <1>14
  DEF GalleryTypeOK, Start, Load, StoredRing, command, files, photos, settings, Whole,
      Agreement, OldAnchored, NothingMatched, AllMatched, RingOfBase
<1>15. CASE UNCHANGED galleryVars
  BY <1>15 DEF galleryVars, command, files, photos, memory, settings, Whole,
     Agreement, OldAnchored, NothingMatched, AllMatched, RingOfBase
<1> QED BY <1>1, <1>2, <1>3, <1>4, <1>5, <1>6, <1>7, <1>8, <1>9, <1>10, <1>11,
           <1>12, <1>13, <1>14, <1>15 DEF GalleryNext

\* A clear that answers has emptied memory.
LEMMA ForgottenStep ==
  ASSUME GalleryTypeOK, Agreement, [GalleryNext]_galleryVars
  PROVE  Forgotten'
<1>1. CASE Capture
  BY EmptyRing, <1>1
  DEF Capture, command, files, memory, settings, Whole, Agreement, Forgotten
<1>2. CASE Discard
  BY EmptyRing, <1>2
  DEF Discard, command, files, memory, settings, Whole, Agreement, Forgotten
<1>3. ASSUME NEW replace \in BOOLEAN, Build(replace) PROVE Forgotten'
  BY EmptyRing, <1>3
  DEF Build, Idle, photos, settings, Whole, Agreement, Forgotten
<1>4. CASE ClearRing
  BY EmptyRing, <1>4
  DEF ClearRing, photos, settings, Whole, Agreement, Forgotten
<1>5. CASE Promote
  BY EmptyRing, <1>5
  DEF Promote, files, memory, settings, Whole, Agreement, Forgotten
<1>6. CASE ClearMemory
  BY EmptyRing, <1>6
  DEF ClearMemory, Idle, photos, settings, Whole, Agreement, Forgotten
<1>7. CASE RemoveEmbeddings
  BY EmptyRing, <1>7
  DEF RemoveEmbeddings, memory, settings, Whole, Agreement, Forgotten
<1>8. CASE RemoveImages
  BY EmptyRing, <1>8
  DEF RemoveImages, files, memory, settings, Whole, Agreement, Forgotten
<1>9. CASE Analyze
  BY EmptyRing, <1>9
  DEF GalleryTypeOK, Analyze, Idle, Load, StoredRing, command, files, photos, settings, Whole,
      Agreement, Forgotten
<1>10. CASE Adapt
  BY <1>10, JoinedFrame, JoinedAnchored
  DEF command, photos, settings, Whole, Agreement, Forgotten
<1>11. CASE Reload
  BY EmptyRing, <1>11
  DEF Reload, Idle, command, files, photos, memory, Whole, Agreement, Forgotten
<1>12. CASE ClockMoves
  BY EmptyRing, <1>12
  DEF ClockMoves, command, files, photos, memory, Whole, Agreement, Forgotten
<1>13. CASE Die
  BY EmptyRing, <1>13
  DEF Die, files, photos, settings, Whole, Agreement, Forgotten
<1>14. CASE Start
  BY EmptyRing, <1>14
  DEF GalleryTypeOK, Start, Load, StoredRing, command, files, photos, settings, Whole,
      Agreement, Forgotten
<1>15. CASE UNCHANGED galleryVars
  BY <1>15 DEF galleryVars, command, files, photos, memory, settings, Whole,
     Agreement, Forgotten
<1> QED BY <1>1, <1>2, <1>3, <1>4, <1>5, <1>6, <1>7, <1>8, <1>9, <1>10, <1>11,
           <1>12, <1>13, <1>14, <1>15 DEF GalleryNext

\* Its last step finds no file.
LEMMA FileGoneStep ==
  ASSUME GalleryTypeOK, Agreement, [GalleryNext]_galleryVars
  PROVE  FileGone'
<1>1. CASE Capture
  BY EmptyRing, <1>1
  DEF Capture, command, files, memory, settings, Whole, Agreement, FileGone,
      Forgotten
<1>2. CASE Discard
  BY EmptyRing, <1>2
  DEF Discard, command, files, memory, settings, Whole, Agreement, FileGone,
      Forgotten
<1>3. ASSUME NEW replace \in BOOLEAN, Build(replace) PROVE FileGone'
  BY EmptyRing, <1>3
  DEF Build, Idle, photos, settings, Whole, Agreement, FileGone, Forgotten
<1>4. CASE ClearRing
  BY EmptyRing, <1>4
  DEF ClearRing, photos, settings, Whole, Agreement, FileGone, Forgotten
<1>5. CASE Promote
  BY EmptyRing, <1>5
  DEF Promote, files, memory, settings, Whole, Agreement, FileGone, Forgotten
<1>6. CASE ClearMemory
  BY EmptyRing, <1>6
  DEF ClearMemory, Idle, photos, settings, Whole, Agreement, FileGone, Forgotten
<1>7. CASE RemoveEmbeddings
  BY EmptyRing, <1>7
  DEF RemoveEmbeddings, memory, settings, Whole, Agreement, FileGone, Forgotten
<1>8. CASE RemoveImages
  BY EmptyRing, <1>8
  DEF RemoveImages, files, memory, settings, Whole, Agreement, FileGone, Forgotten
<1>9. CASE Analyze
  BY EmptyRing, <1>9
  DEF GalleryTypeOK, Analyze, Idle, Load, StoredRing, command, files, photos, settings, Whole,
      Agreement, FileGone, Forgotten
<1>10. CASE Adapt
  BY <1>10, JoinedFrame, JoinedAnchored
  DEF command, photos, settings, Whole, Agreement, FileGone, Forgotten
<1>11. CASE Reload
  BY EmptyRing, <1>11
  DEF Reload, Idle, command, files, photos, memory, Whole, Agreement, FileGone,
      Forgotten
<1>12. CASE ClockMoves
  BY EmptyRing, <1>12
  DEF ClockMoves, command, files, photos, memory, Whole, Agreement, FileGone,
      Forgotten
<1>13. CASE Die
  BY EmptyRing, <1>13
  DEF Die, files, photos, settings, Whole, Agreement, FileGone, Forgotten
<1>14. CASE Start
  BY EmptyRing, <1>14
  DEF GalleryTypeOK, Start, Load, StoredRing, command, files, photos, settings, Whole,
      Agreement, FileGone, Forgotten
<1>15. CASE UNCHANGED galleryVars
  BY <1>15 DEF galleryVars, command, files, photos, memory, settings, Whole,
     Agreement, FileGone, Forgotten
<1> QED BY <1>1, <1>2, <1>3, <1>4, <1>5, <1>6, <1>7, <1>8, <1>9, <1>10, <1>11,
           <1>12, <1>13, <1>14, <1>15 DEF GalleryNext

\* A baseline is what the file holds.
LEMMA BaseOnDiskStep ==
  ASSUME GalleryTypeOK, Agreement, [GalleryNext]_galleryVars
  PROVE  BaseOnDisk'
<1>1. CASE Capture
  BY EmptyRing, <1>1
  DEF Capture, command, files, memory, settings, Whole, Agreement, BaseOnDisk,
      Forgotten
<1>2. CASE Discard
  BY EmptyRing, <1>2
  DEF Discard, command, files, memory, settings, Whole, Agreement, BaseOnDisk,
      Forgotten
<1>3. ASSUME NEW replace \in BOOLEAN, Build(replace) PROVE BaseOnDisk'
  BY EmptyRing, <1>3
  DEF Build, Idle, photos, settings, Whole, Agreement, BaseOnDisk, Forgotten
<1>4. CASE ClearRing
  BY EmptyRing, <1>4
  DEF ClearRing, photos, settings, Whole, Agreement, BaseOnDisk, Forgotten
<1>5. CASE Promote
  BY EmptyRing, <1>5
  DEF Promote, files, memory, settings, Whole, Agreement, BaseOnDisk, Forgotten
<1>6. CASE ClearMemory
  BY EmptyRing, <1>6
  DEF ClearMemory, Idle, photos, settings, Whole, Agreement, BaseOnDisk, Forgotten
<1>7. CASE RemoveEmbeddings
  BY EmptyRing, <1>7
  DEF RemoveEmbeddings, memory, settings, Whole, Agreement, BaseOnDisk, Forgotten
<1>8. CASE RemoveImages
  BY EmptyRing, <1>8
  DEF RemoveImages, files, memory, settings, Whole, Agreement, BaseOnDisk, Forgotten
<1>9. CASE Analyze
  BY EmptyRing, <1>9
  DEF GalleryTypeOK, Analyze, Idle, Load, StoredRing, command, files, photos, settings, Whole,
      Agreement, BaseOnDisk, Forgotten
<1>10. CASE Adapt
  BY <1>10, JoinedFrame, JoinedAnchored
  DEF command, photos, settings, Whole, Agreement, BaseOnDisk, Forgotten
<1>11. CASE Reload
  BY EmptyRing, <1>11
  DEF Reload, Idle, command, files, photos, memory, Whole, Agreement, BaseOnDisk,
      Forgotten
<1>12. CASE ClockMoves
  BY EmptyRing, <1>12
  DEF ClockMoves, command, files, photos, memory, Whole, Agreement, BaseOnDisk,
      Forgotten
<1>13. CASE Die
  BY EmptyRing, <1>13
  DEF Die, files, photos, settings, Whole, Agreement, BaseOnDisk, Forgotten
<1>14. CASE Start
  BY EmptyRing, <1>14
  DEF GalleryTypeOK, Start, Load, StoredRing, command, files, photos, settings, Whole,
      Agreement, BaseOnDisk, Forgotten
<1>15. CASE UNCHANGED galleryVars
  BY <1>15 DEF galleryVars, command, files, photos, memory, settings, Whole,
     Agreement, BaseOnDisk, Forgotten
<1> QED BY <1>1, <1>2, <1>3, <1>4, <1>5, <1>6, <1>7, <1>8, <1>9, <1>10, <1>11,
           <1>12, <1>13, <1>14, <1>15 DEF GalleryNext

\* A build has a baseline.
LEMMA RebuiltStep ==
  ASSUME GalleryTypeOK, Agreement, [GalleryNext]_galleryVars
  PROVE  Rebuilt'
<1>1. CASE Capture
  BY EmptyRing, <1>1
  DEF Capture, command, files, memory, settings, Whole, Agreement, Rebuilt
<1>2. CASE Discard
  BY EmptyRing, <1>2
  DEF Discard, command, files, memory, settings, Whole, Agreement, Rebuilt
<1>3. ASSUME NEW replace \in BOOLEAN, Build(replace) PROVE Rebuilt'
  BY EmptyRing, <1>3
  DEF Build, Idle, photos, settings, Whole, Agreement, Rebuilt
<1>4. CASE ClearRing
  BY EmptyRing, <1>4
  DEF ClearRing, photos, settings, Whole, Agreement, Rebuilt
<1>5. CASE Promote
  BY EmptyRing, <1>5
  DEF Promote, files, memory, settings, Whole, Agreement, Rebuilt
<1>6. CASE ClearMemory
  BY EmptyRing, <1>6
  DEF ClearMemory, Idle, photos, settings, Whole, Agreement, Rebuilt
<1>7. CASE RemoveEmbeddings
  BY EmptyRing, <1>7
  DEF RemoveEmbeddings, memory, settings, Whole, Agreement, Rebuilt
<1>8. CASE RemoveImages
  BY EmptyRing, <1>8
  DEF RemoveImages, files, memory, settings, Whole, Agreement, Rebuilt
<1>9. CASE Analyze
  BY EmptyRing, <1>9
  DEF GalleryTypeOK, Analyze, Idle, Load, StoredRing, command, files, photos, settings, Whole,
      Agreement, Rebuilt
<1>10. CASE Adapt
  BY <1>10, JoinedFrame, JoinedAnchored
  DEF command, photos, settings, Whole, Agreement, Rebuilt
<1>11. CASE Reload
  BY EmptyRing, <1>11
  DEF Reload, Idle, command, files, photos, memory, Whole, Agreement, Rebuilt
<1>12. CASE ClockMoves
  BY EmptyRing, <1>12
  DEF ClockMoves, command, files, photos, memory, Whole, Agreement, Rebuilt
<1>13. CASE Die
  BY EmptyRing, <1>13
  DEF Die, files, photos, settings, Whole, Agreement, Rebuilt
<1>14. CASE Start
  BY EmptyRing, <1>14
  DEF GalleryTypeOK, Start, Load, StoredRing, command, files, photos, settings, Whole,
      Agreement, Rebuilt
<1>15. CASE UNCHANGED galleryVars
  BY <1>15 DEF galleryVars, command, files, photos, memory, settings, Whole,
     Agreement, Rebuilt
<1> QED BY <1>1, <1>2, <1>3, <1>4, <1>5, <1>6, <1>7, <1>8, <1>9, <1>10, <1>11,
           <1>12, <1>13, <1>14, <1>15 DEF GalleryNext

\* The ring in memory is the saved one.
LEMMA RingOnDiskStep ==
  ASSUME GalleryTypeOK, Agreement, [GalleryNext]_galleryVars
  PROVE  RingOnDisk'
<1>1. CASE Capture
  BY EmptyRing, <1>1
  DEF Capture, command, files, memory, settings, Whole, Agreement, RingOnDisk,
      NothingMatched, AllMatched, Forgotten, FileGone
<1>2. CASE Discard
  BY EmptyRing, <1>2
  DEF Discard, command, files, memory, settings, Whole, Agreement, RingOnDisk,
      NothingMatched, AllMatched, Forgotten, FileGone
<1>3. ASSUME NEW replace \in BOOLEAN, Build(replace) PROVE RingOnDisk'
  BY EmptyRing, <1>3
  DEF Build, Idle, photos, settings, Whole, Agreement, RingOnDisk, NothingMatched,
      AllMatched, Forgotten, FileGone
<1>4. CASE ClearRing
  BY EmptyRing, <1>4
  DEF ClearRing, photos, settings, Whole, Agreement, RingOnDisk, NothingMatched,
      AllMatched, Forgotten, FileGone
<1>5. CASE Promote
  BY EmptyRing, <1>5
  DEF Promote, files, memory, settings, Whole, Agreement, RingOnDisk,
      NothingMatched, AllMatched, Forgotten, FileGone
<1>6. CASE ClearMemory
  BY EmptyRing, <1>6
  DEF ClearMemory, Idle, photos, settings, Whole, Agreement, RingOnDisk,
      NothingMatched, AllMatched, Forgotten, FileGone
<1>7. CASE RemoveEmbeddings
  BY EmptyRing, <1>7
  DEF RemoveEmbeddings, memory, settings, Whole, Agreement, RingOnDisk,
      NothingMatched, AllMatched, Forgotten, FileGone
<1>8. CASE RemoveImages
  BY EmptyRing, <1>8
  DEF RemoveImages, files, memory, settings, Whole, Agreement, RingOnDisk,
      NothingMatched, AllMatched, Forgotten, FileGone
<1>9. CASE Analyze
  BY EmptyRing, <1>9
  DEF GalleryTypeOK, Analyze, Idle, Load, StoredRing, command, files, photos, settings, Whole,
      Agreement, RingOnDisk, NothingMatched, AllMatched, Forgotten, FileGone
<1>10. CASE Adapt
  <2>1. on /\ UNCHANGED <<up, serving, on, torn, toggled>> /\ refs # None
    BY <1>10, JoinedFrame DEF command, settings
  <2>2. CASE ringFile' = ring'
    BY <2>1, <2>2 DEF RingOnDisk
  <2>3. CASE UNCHANGED <<ring, ringFile, refs>>
    BY <2>1, <2>3 DEF RingOnDisk, Agreement, Whole
  <2> QED BY <1>10, <2>2, <2>3, JoinedAnchored
<1>11. CASE Reload
  BY EmptyRing, <1>11
  DEF Reload, Idle, command, files, photos, memory, Whole, Agreement, RingOnDisk,
      NothingMatched, AllMatched, Forgotten, FileGone
<1>12. CASE ClockMoves
  BY EmptyRing, <1>12
  DEF ClockMoves, command, files, photos, memory, Whole, Agreement, RingOnDisk,
      NothingMatched, AllMatched, Forgotten, FileGone
<1>13. CASE Die
  BY EmptyRing, <1>13
  DEF Die, files, photos, settings, Whole, Agreement, RingOnDisk, NothingMatched,
      AllMatched, Forgotten, FileGone
<1>14. CASE Start
  BY EmptyRing, <1>14
  DEF GalleryTypeOK, Start, Load, StoredRing, command, files, photos, settings, Whole,
      Agreement, RingOnDisk, NothingMatched, AllMatched, Forgotten, FileGone
<1>15. CASE UNCHANGED galleryVars
  BY <1>15 DEF galleryVars, command, files, photos, memory, settings, Whole,
     Agreement, RingOnDisk, NothingMatched, AllMatched, Forgotten, FileGone
<1> QED BY <1>1, <1>2, <1>3, <1>4, <1>5, <1>6, <1>7, <1>8, <1>9, <1>10, <1>11,
           <1>12, <1>13, <1>14, <1>15 DEF GalleryNext

\* No step brings two entries closer.
LEMMA SpacedStep ==
  ASSUME GalleryTypeOK, AllSpaced, [GalleryNext]_galleryVars
  PROVE  AllSpaced'
<1>1. CASE Capture
  BY EmptyRing, MatchingFields, <1>1
  DEF Capture, command, files, memory, settings, AllSpaced
<1>2. CASE Discard
  BY EmptyRing, MatchingFields, <1>2
  DEF Discard, command, files, memory, settings, AllSpaced
<1>3. ASSUME NEW replace \in BOOLEAN, Build(replace) PROVE AllSpaced'
  BY EmptyRing, MatchingFields, <1>3
  DEF Build, Idle, photos, settings, AllSpaced
<1>4. CASE ClearRing
  <2>1. /\ ring' = << >> /\ (ringFile' = << >> \/ ringFile' = ringFile)
        /\ refs' = Matching(base, << >>) \/ refs' = refs
    BY <1>4 DEF ClearRing
  <2>2. refs'.ring = << >> \/ refs' = refs
    BY <2>1, MatchingFields
  <2> QED BY <2>1, <2>2, EmptyRing DEF AllSpaced
<1>5. CASE Promote
  BY EmptyRing, MatchingFields, <1>5
  DEF Promote, files, memory, settings, AllSpaced
<1>6. CASE ClearMemory
  BY EmptyRing, MatchingFields, <1>6
  DEF None, ClearMemory, Idle, photos, settings, AllSpaced
<1>7. CASE RemoveEmbeddings
  BY EmptyRing, MatchingFields, <1>7
  DEF RemoveEmbeddings, memory, settings, AllSpaced
<1>8. CASE RemoveImages
  BY EmptyRing, MatchingFields, <1>8
  DEF RemoveImages, files, memory, settings, AllSpaced
<1>9. CASE Analyze
  BY EmptyRing, MatchingFields, <1>9
  DEF Analyze, Idle, Load, StoredRing, command, files, photos, settings, AllSpaced
<1>10. CASE Adapt
  BY <1>10, JoinedSpaced DEF AllSpaced
<1>11. CASE Reload
  BY EmptyRing, MatchingFields, <1>11
  DEF Reload, Idle, command, files, photos, memory, AllSpaced
<1>12. CASE ClockMoves
  BY EmptyRing, MatchingFields, <1>12
  DEF ClockMoves, command, files, photos, memory, AllSpaced
<1>13. CASE Die
  BY EmptyRing, MatchingFields, <1>13
  DEF None, Die, files, photos, settings, AllSpaced
<1>14. CASE Start
  BY EmptyRing, MatchingFields, <1>14
  DEF Start, Load, StoredRing, command, files, photos, settings, AllSpaced
<1>15. CASE UNCHANGED galleryVars
  BY <1>15 DEF galleryVars, command, files, photos, memory, settings, AllSpaced
<1> QED BY <1>1, <1>2, <1>3, <1>4, <1>5, <1>6, <1>7, <1>8, <1>9, <1>10, <1>11,
           <1>12, <1>13, <1>14, <1>15 DEF GalleryNext

\* No step brings back a cleared session, and a clear leaves nothing of any.
LEMMA ErasureStep ==
  ASSUME GalleryTypeOK, Agreement, Erasure, [GalleryNext]_galleryVars
  PROVE  Erasure'
<1>1. CASE Capture
  <2>1. UNCHANGED <<embedFile, ringFile, base, ring, refs, erased>>
    BY <1>1 DEF Capture, files, memory
  <2>2. /\ sessions \in Nat /\ sessions' = sessions + 1
        /\ images' \subseteq images \cup {sessions + 1}
        /\ pending' \subseteq pending \cup {sessions + 1}
    BY <1>1 DEF Capture, GalleryTypeOK
  <2>3. erased \subseteq 1 .. sessions /\ sessions + 1 \notin erased
    BY <2>2 DEF Erasure
  <2>4. erased' \subseteq 1 .. sessions'
    BY <2>1, <2>2, <2>3
  <2>5. images' \cap erased' = {} /\ pending' \cap erased' = {}
    BY <2>1, <2>2, <2>3 DEF Erasure
  <2> QED BY <2>1, <2>4, <2>5 DEF Erasure
<1>2. CASE Discard
  BY EmptyRing, MatchingFields, <1>2
  DEF Discard, command, files, memory, settings, Erasure
<1>3. ASSUME NEW replace \in BOOLEAN, Build(replace) PROVE Erasure'
  BY EmptyRing, MatchingFields, <1>3
  DEF Build, Idle, photos, settings, Erasure
<1>4. CASE ClearRing
  <2>1. /\ ring' = << >> /\ (ringFile' = << >> \/ ringFile' = ringFile)
        /\ refs' = Matching(base, << >>) \/ refs' = refs
        /\ UNCHANGED <<embedFile, images, pending, sessions, base, erased>>
    BY <1>4 DEF ClearRing, photos
  <2>2. (refs'.ring = << >> /\ refs'.base = base) \/ refs' = refs
    BY <2>1, MatchingFields
  <2> QED BY <2>1, <2>2, EmptyRing DEF Erasure
<1>5. CASE Promote
  BY EmptyRing, MatchingFields, <1>5
  DEF Promote, files, memory, settings, Erasure
<1>6. CASE ClearMemory
  BY EmptyRing, MatchingFields, <1>6
  DEF ClearMemory, Idle, photos, settings, Erasure
<1>7. CASE RemoveEmbeddings
  BY EmptyRing, MatchingFields, <1>7
  DEF RemoveEmbeddings, memory, settings, Erasure
<1>8. CASE RemoveImages
  <2>1. /\ base = {} /\ ring = << >> /\ ringFile = << >> /\ refs = None
        /\ embedFile = {}
    BY <1>8 DEF RemoveImages, Agreement, Forgotten, FileGone
  <2>2. UNCHANGED <<embedFile, ringFile, base, ring, refs, sessions>>
    BY <1>8 DEF RemoveImages, files, memory
  <2>3. images' \in SUBSET images /\ pending' \in SUBSET pending
    BY <1>8 DEF RemoveImages
  <2>4. CASE images' = {} /\ pending' = {}
    <3>1. erased' = 1 .. sessions
      BY <1>8, <2>4 DEF RemoveImages
    <3> QED BY <2>1, <2>2, <2>4, <3>1, EmptyRing, MatchingFields DEF Erasure
  <2>5. CASE ~(images' = {} /\ pending' = {})
    <3>1. erased' = erased
      BY <1>8, <2>5 DEF RemoveImages
    <3> QED BY <2>2, <2>3, <3>1 DEF Erasure
  <2> QED BY <2>4, <2>5
<1>9. CASE Analyze
  BY EmptyRing, MatchingFields, <1>9
  DEF Analyze, Idle, Load, StoredRing, command, files, photos, settings, Erasure
<1>10. CASE Adapt
  <2>1. UNCHANGED <<embedFile, images, pending, sessions, base, erased>>
    BY <1>10, JoinedFrame DEF photos
  <2>2. Clean(ring', erased)
    BY <1>10, JoinedClean DEF Erasure
  <2>3. \/ ringFile' = ring' /\ refs'.base = base /\ refs'.ring = ring'
        \/ UNCHANGED <<ring, ringFile, refs>>
    BY <1>10, JoinedAnchored, MatchingFields
  <2> QED BY <2>1, <2>2, <2>3 DEF Erasure
<1>11. CASE Reload
  BY EmptyRing, MatchingFields, <1>11
  DEF Reload, Idle, command, files, photos, memory, Erasure
<1>12. CASE ClockMoves
  BY EmptyRing, MatchingFields, <1>12
  DEF ClockMoves, command, files, photos, memory, Erasure
<1>13. CASE Die
  BY EmptyRing, MatchingFields, <1>13
  DEF Die, files, photos, settings, Erasure
<1>14. CASE Start
  BY EmptyRing, MatchingFields, <1>14
  DEF Start, Load, StoredRing, command, files, photos, settings, Erasure
<1>15. CASE UNCHANGED galleryVars
  BY <1>15 DEF galleryVars, command, files, photos, memory, settings, Erasure
<1> QED BY <1>1, <1>2, <1>3, <1>4, <1>5, <1>6, <1>7, <1>8, <1>9, <1>10, <1>11,
           <1>12, <1>13, <1>14, <1>15 DEF GalleryNext

-----------------------------------------------------------------------------
(* The theorems *)

GalleryInv == GalleryTypeOK /\ Agreement /\ AllSpaced /\ Erasure

\* The invariant of every behaviour.
THEOREM GalleryInvariant == GallerySpec => []GalleryInv
<1>1. GalleryInit => GalleryInv
  <2> SUFFICES ASSUME GalleryInit PROVE GalleryInv
    OBVIOUS
  <2>1. GalleryTypeOK
    <3>1. {} \in SUBSET Sessions /\ 0 \in 0 .. MaxSessions /\ 0 \in Nat
      BY GalleryAssumption
    <3> QED BY <3>1, EmptyRing, MatchingType DEF GalleryInit, GalleryTypeOK, Servings
  <2>2. Agreement
    BY EmptyRing
    DEF GalleryInit, Agreement, Whole, NothingMatched, AllMatched, FileAnchored,
        RingOfBase, OldAnchored, Forgotten, FileGone, BaseOnDisk, Rebuilt, RingOnDisk
  <2>3. AllSpaced /\ Erasure
    BY EmptyRing DEF GalleryInit, AllSpaced, Erasure, None
  <2> QED BY <2>1, <2>2, <2>3 DEF GalleryInv
<1>2. GalleryInv /\ [GalleryNext]_galleryVars => GalleryInv'
  <2> SUFFICES ASSUME GalleryInv, [GalleryNext]_galleryVars PROVE GalleryInv'
    OBVIOUS
  <2>1. GalleryTypeOK /\ Agreement /\ AllSpaced /\ Erasure
    BY DEF GalleryInv
  <2>2. GalleryTypeOK' /\ AllSpaced' /\ Erasure'
    BY <2>1, GalleryTypeStep, SpacedStep, ErasureStep
  <2>3. NothingMatched' /\ AllMatched' /\ FileAnchored' /\ RingOfBase' /\ OldAnchored'
    BY <2>1, NothingMatchedStep, AllMatchedStep, FileAnchoredStep, RingOfBaseStep,
       OldAnchoredStep
  <2>4. Forgotten' /\ FileGone' /\ BaseOnDisk' /\ Rebuilt' /\ RingOnDisk'
    BY <2>1, ForgottenStep, FileGoneStep, BaseOnDiskStep, RebuiltStep,
       RingOnDiskStep
  <2>5. Agreement'
    BY <2>3, <2>4 DEF Agreement
  <2> QED BY <2>2, <2>5 DEF GalleryInv
<1> QED BY <1>1, <1>2, PTL DEF GallerySpec

\* Types, and the capacity of every ring, for every capacity and every schedule.
THEOREM GalleryIsTyped == GallerySpec => []GalleryTypeOK
<1>1. GalleryInv => GalleryTypeOK
  BY DEF GalleryInv
<1> QED BY <1>1, GalleryInvariant, PTL

\* Every face in the matching set was accepted against the enrolled faces it is
\* used with, one cooldown after the one before.
THEOREM AlwaysAnchored == GallerySpec => []RingAnchored
<1>1. GalleryInv => RingAnchored
  <2> SUFFICES ASSUME GalleryInv PROVE RingAnchored
    OBVIOUS
  <2>1. CASE serving = "clear ring"
    BY <2>1 DEF GalleryInv, Agreement, OldAnchored, AllSpaced, RingAnchored
  <2>2. CASE serving # "clear ring" /\ refs = None
    BY <2>2, EmptyRing DEF None, RingAnchored
  <2>3. CASE serving # "clear ring" /\ refs # None
    BY <2>3, MatchingFields
    DEF GalleryInv, Agreement, AllMatched, RingOfBase, AllSpaced, RingAnchored,
        Whole
  <2> QED BY <2>1, <2>2, <2>3
<1> QED BY <1>1, GalleryInvariant, PTL

\* What is matched is what a restart would load.
THEOREM AlwaysOnDisk == GallerySpec => []MemoryIsDisk
<1>1. GalleryInv => MemoryIsDisk
  BY MatchingFields
  DEF GalleryInv, Agreement, AllMatched, RingOnDisk, MemoryIsDisk, OnDisk, Whole
<1> QED BY <1>1, GalleryInvariant, PTL

\* A face that was cleared is never matched again.
THEOREM NeverRemembered == GallerySpec => []ClearForgets
<1>1. GalleryInv => ClearForgets
  BY DEF GalleryInv, Erasure, Clean, ClearForgets
<1> QED BY <1>1, GalleryInvariant, PTL

-----------------------------------------------------------------------------
(***************************************************************************)
(* Wizard, for every lease, renewal and length of the queue. The invariant *)
(* has a part for what waits for the window's thread, for the lease, for   *)
(* the build under way and for the guidance line.                          *)
(***************************************************************************)

\* The queue of after(): what waits in it, and in which order.
Holds(s, what) == \E i \in 1 .. Len(s) : s[i] = what
Once(s, what) == \A i, j \in 1 .. Len(s) : (s[i] = what /\ s[j] = what) => i = j
NoLateCoach(s) ==
  \A i, j \in 1 .. Len(s) : (i < j /\ s[i] = "built") => s[j] # "coach"
Ordered(s) ==
  Once(s, "waited") /\ Once(s, "built") /\ Once(s, "wiped") /\ NoLateCoach(s)
Room(s) ==
  MaxQueue + (IF Holds(s, "built") THEN 1 ELSE 0)
           + (IF Holds(s, "wiped") THEN 1 ELSE 0)

\* A call that is still to be answered is not in the queue already.
QueueInv ==
  /\ Ordered(posted) /\ Len(posted) <= Room(posted)
  /\ waiting => ~Holds(posted, "waited")
  /\ builder # "none" \/ window = "finishing" => ~Holds(posted, "built")
  /\ wiper # "none" => ~Holds(posted, "wiped")

\* Nothing of the process is left when it is gone.
GoneInv ==
  window = "gone" =>
    /\ posted = << >> /\ line = "other" /\ cam = "none" /\ ~capture /\ ~waiting
    /\ frame = "none"
    /\ mode = "none" /\ builder = "none" /\ wiper = "none" /\ ~building

\* The camera is opened once, with a new lease; then what is left of the lease
\* and the time since the last renewal make up for a whole one, a missed renewal
\* being worth Renew.
CameraWhere ==
  /\ (waiting \/ Holds(posted, "waited")) => cam = "none"
  /\ capture => cam \in {"looping", "renewing", "hung"}
  /\ (window \in {"releasing", "discarding"} /\ cam \notin {"none", "ended"}) => lapsed
LeaseLeft ==
  /\ (cam = "opening" /\ ~lapsed) => lease = Lease /\ failures = 0
  /\ (capture /\ ~lapsed) =>
       /\ failures \in {0, 1}
       /\ lease + since + (IF failures = 1 THEN Renew ELSE 0) >= Lease
LeaseInv == CameraWhere /\ LeaseLeft

\* A build the wizard waits for is under way, and reads what was asked for.
BuildWhere ==
  /\ (builder # "none" \/ Holds(posted, "built") \/ window = "finishing") => building
  /\ builder # "none" => window # "finishing"
  /\ builder = "served" => busyWith = "build" /\ reading = request

\* Its photographs are those of the session that asked for it, and so are all.
SessionKept ==
  /\ (builder \in {"calling", "served"} /\ request = "pending") =>
       (mode = "replace" \/ crossed) /\ (old => stuck)
  /\ (mode = "replace" /\ old) => stuck
  /\ spoiled => crossed
  /\ fresh => mode = "replace" \/ forsaken
BuildInv == BuildWhere /\ SessionKept

\* No advice is waiting when the outcome is shown, nor is any to come.
GuideInv ==
  (window = "finishing" \/ line = "outcome") => pinned /\ ~Holds(posted, "coach")

\* A frame that runs on beside a build, or past a line that was pinned since it
\* looked, is the one that was caught; what it writes belongs to its session.
FrameInv ==
  /\ (frame # "none" /\ building) => caught
  /\ (frame = "advise" /\ pinned) => caught
  /\ frame = "pending" => mode = "replace" \/ forsaken

WizardInv ==
  WizardTypeOK /\ QueueInv /\ GoneInv /\ LeaseInv /\ BuildInv /\ FrameInv /\ GuideInv

Messages == {"waited", "coach", "late", "full", "built", "wiped"}

\* The empty queue.
LEMMA EmptyQueue ==
  /\ << >> \in Seq(Messages) /\ Len(<< >>) = 0 /\ Ordered(<< >>)
  /\ \A what : ~Holds(<< >>, what)
BY DEF Ordered, Once, NoLateCoach, Holds

\* One more message.
LEMMA Posts ==
  ASSUME NEW s \in Seq(Messages), NEW x \in Messages
  PROVE  /\ Append(s, x) \in Seq(Messages)
         /\ Len(Append(s, x)) = Len(s) + 1
         /\ \A what : Holds(Append(s, x), what) <=> Holds(s, what) \/ what = x
         /\ \A what : (Once(s, what) /\ (what = x => ~Holds(s, what)))
                        => Once(Append(s, x), what)
         /\ (NoLateCoach(s) /\ (x = "coach" => ~Holds(s, "built")))
              => NoLateCoach(Append(s, x))
<1>1. /\ Append(s, x) \in Seq(Messages) /\ Len(Append(s, x)) = Len(s) + 1
      /\ Len(s) \in Nat
      /\ \A i \in 1 .. Len(s) : Append(s, x)[i] = s[i]
      /\ Append(s, x)[Len(s) + 1] = x
      /\ 1 .. Len(s) + 1 = (1 .. Len(s)) \cup {Len(s) + 1}
  OBVIOUS
<1> DEFINE t == Append(s, x)
           n == Len(s)
<1>2. \A what : Holds(t, what) <=> Holds(s, what) \/ what = x
  BY <1>1 DEF Holds
<1>3. ASSUME NEW what, Once(s, what), what = x => ~Holds(s, what)
      PROVE  Once(t, what)
  BY <1>1, <1>3 DEF Once, Holds
<1>4. ASSUME NoLateCoach(s), x = "coach" => ~Holds(s, "built")
      PROVE  NoLateCoach(t)
  BY <1>1, <1>4 DEF NoLateCoach, Holds
<1> QED
  BY <1>1, <1>2, <1>3, <1>4

\* One message less: the oldest.
LEMMA Takes ==
  ASSUME NEW s \in Seq(Messages), s # << >>
  PROVE  /\ Tail(s) \in Seq(Messages) /\ Head(s) \in Messages
         /\ Len(Tail(s)) = Len(s) - 1
         /\ \A what : /\ Holds(Tail(s), what) => Holds(s, what)
                      /\ Holds(s, what) => Holds(Tail(s), what) \/ what = Head(s)
                      /\ Once(s, what) => Once(Tail(s), what)
                      /\ Once(s, what) /\ what = Head(s) => ~Holds(Tail(s), what)
         /\ Holds(s, Head(s))
         /\ NoLateCoach(s) => NoLateCoach(Tail(s))
         /\ NoLateCoach(s) /\ Head(s) = "built" => ~Holds(Tail(s), "coach")
<1> DEFINE t == Tail(s)
           n == Len(s)
<1>1. /\ t \in Seq(Messages) /\ n \in Nat \ {0} /\ Len(t) = n - 1
      /\ Head(s) = s[1] /\ s[1] \in Messages
      /\ \A i \in 1 .. n - 1 : t[i] = s[i + 1] /\ i + 1 \in 1 .. n
      /\ \A i \in 1 .. n : i = 1 \/ i - 1 \in 1 .. n - 1
      /\ \A i \in 1 .. n - 1 : (i + 1) - 1 = i
  OBVIOUS
<1>2. \A i \in 2 .. n : s[i] = t[i - 1]
  BY <1>1
<1> HIDE DEF t, n
<1>3. \A what : Holds(t, what) => Holds(s, what)
  BY <1>1 DEF Holds, n
<1>4. \A what : Holds(s, what) => Holds(t, what) \/ what = s[1]
  <2> SUFFICES ASSUME NEW i \in 1 .. n, i # 1 PROVE Holds(t, s[i])
    BY DEF Holds, n
  <2>1. i - 1 \in 1 .. n - 1 /\ s[i] = t[i - 1]
    BY <1>1, <1>2
  <2> QED
    BY <1>1, <2>1 DEF Holds
<1>5. \A what : Once(s, what) => Once(t, what)
  <2> SUFFICES ASSUME NEW what, Once(s, what) PROVE Once(t, what)
    OBVIOUS
  <2> SUFFICES ASSUME NEW i \in 1 .. n - 1, NEW j \in 1 .. n - 1,
                      t[i] = what, t[j] = what
               PROVE  i = j
    BY <1>1 DEF Once
  <2>1. i + 1 \in 1 .. n /\ j + 1 \in 1 .. n /\ s[i + 1] = what /\ s[j + 1] = what
    BY <1>1
  <2>2. i + 1 = j + 1
    BY <2>1 DEF Once, n
  <2> QED
    BY <2>2
<1>6. ASSUME NEW what, Once(s, what), what = s[1] PROVE ~Holds(t, what)
  <2> SUFFICES ASSUME NEW i \in 1 .. n - 1, t[i] = what PROVE FALSE
    BY <1>1 DEF Holds
  <2>1. i + 1 \in 1 .. n /\ s[i + 1] = what /\ 1 \in 1 .. n
    BY <1>1
  <2>2. i + 1 = 1
    BY <1>6, <2>1 DEF Once, n
  <2> QED
    BY <2>2
<1>7. Holds(s, s[1])
  BY <1>1 DEF Holds, n
<1>8. ASSUME NoLateCoach(s) PROVE NoLateCoach(t)
  <2> SUFFICES ASSUME NEW i \in 1 .. n - 1, NEW j \in 1 .. n - 1, i < j, t[i] = "built"
               PROVE  t[j] # "coach"
    BY <1>1 DEF NoLateCoach
  <2>1. i + 1 \in 1 .. n /\ j + 1 \in 1 .. n /\ i + 1 < j + 1
        /\ t[i] = s[i + 1] /\ t[j] = s[j + 1]
    BY <1>1
  <2> QED
    BY <1>8, <2>1 DEF NoLateCoach, n
<1>9. ASSUME NoLateCoach(s), s[1] = "built" PROVE ~Holds(t, "coach")
  <2> SUFFICES ASSUME NEW i \in 1 .. n - 1, t[i] = "coach" PROVE FALSE
    BY <1>1 DEF Holds
  <2>1. i + 1 \in 1 .. n /\ 1 \in 1 .. n /\ 1 < i + 1 /\ s[i + 1] = "coach"
    BY <1>1
  <2> QED
    BY <1>9, <2>1 DEF NoLateCoach, n
<1> QED
  BY <1>1, <1>3, <1>4, <1>5, <1>6, <1>7, <1>8, <1>9 DEF t, n

\* What the queue and its length are when one of them is handled, or one more
\* waits that was not there.
LEMMA OneLess ==
  ASSUME posted \in Seq(Messages), MaxQueue \in Nat, QueueInv, NEW what, Handles(what)
  PROVE  /\ posted' = Tail(posted) /\ posted' \in Seq(Messages)
         /\ Ordered(posted') /\ Len(posted') <= Room(posted')
         /\ Len(posted') \in Nat /\ Len(posted') < Len(posted)
         /\ \A x : Holds(posted', x) => Holds(posted, x)
         /\ what \in {"waited", "built", "wiped"} => ~Holds(posted', what)
         /\ what = "built" => ~Holds(posted', "coach")
         /\ Holds(posted, what)
<1>1. posted # << >> /\ Head(posted) = what /\ posted' = Tail(posted)
  BY DEF Handles
<1>2. /\ posted' \in Seq(Messages) /\ Len(posted') = Len(posted) - 1
      /\ \A x : /\ Holds(posted', x) => Holds(posted, x)
                /\ Holds(posted, x) => Holds(posted', x) \/ x = what
                /\ Once(posted, x) => Once(posted', x)
                /\ Once(posted, x) /\ x = what => ~Holds(posted', x)
      /\ Holds(posted, what)
      /\ NoLateCoach(posted) => NoLateCoach(posted')
      /\ NoLateCoach(posted) /\ what = "built" => ~Holds(posted', "coach")
  BY <1>1, Takes
<1>3. Ordered(posted) /\ Len(posted) <= Room(posted)
  BY DEF QueueInv
<1>4. Ordered(posted')
  BY <1>2, <1>3 DEF Ordered
<1>5. what \in {"waited", "built", "wiped"} => ~Holds(posted', what)
  BY <1>2, <1>3 DEF Ordered
<1>6. what = "built" => ~Holds(posted', "coach")
  BY <1>2, <1>3 DEF Ordered
<1>7. Len(posted) \in Nat /\ Len(posted') \in Nat
  BY <1>2
<1>8. Holds(posted, "built") => Holds(posted', "built") \/ what = "built"
  BY <1>2
<1>9. Holds(posted, "wiped") => Holds(posted', "wiped") \/ what = "wiped"
  BY <1>2
<1>10. Len(posted') <= Room(posted')
  BY <1>2, <1>3, <1>7, <1>8, <1>9 DEF Room
<1> QED
  BY <1>1, <1>2, <1>4, <1>5, <1>6, <1>7, <1>10

\* Another program's call puts it there only while it has room.
LEMMA OneMore ==
  ASSUME NEW s \in Seq(Messages), MaxQueue \in Nat, Ordered(s), Len(s) <= Room(s),
         NEW x \in Messages, x \in {"waited", "built", "wiped"} => ~Holds(s, x),
         x = "coach" => ~Holds(s, "built"),
         x \in {"built", "wiped"} \/ Len(s) < MaxQueue
  PROVE  /\ Append(s, x) \in Seq(Messages)
         /\ Ordered(Append(s, x)) /\ Len(Append(s, x)) <= Room(Append(s, x))
         /\ \A what : Holds(Append(s, x), what) <=> Holds(s, what) \/ what = x
         /\ Len(Append(s, x)) = Len(s) + 1 /\ Len(s) \in Nat
<1> DEFINE t == Append(s, x)
<1>1. /\ t \in Seq(Messages) /\ Len(t) = Len(s) + 1
      /\ \A what : Holds(t, what) <=> Holds(s, what) \/ what = x
      /\ \A what : (Once(s, what) /\ (what = x => ~Holds(s, what))) => Once(t, what)
      /\ (NoLateCoach(s) /\ (x = "coach" => ~Holds(s, "built"))) => NoLateCoach(t)
  BY Posts
<1>2. Len(s) \in Nat
  OBVIOUS
<1> HIDE DEF t
<1>3. Ordered(t)
  BY <1>1 DEF Ordered
<1>4. /\ Holds(t, "built") <=> Holds(s, "built") \/ x = "built"
      /\ Holds(t, "wiped") <=> Holds(s, "wiped") \/ x = "wiped"
  BY <1>1
<1>5. CASE x = "built"
  <2>1. ~Holds(s, "built")
    BY <1>5
  <2> QED
    BY <1>1, <1>2, <1>3, <1>4, <1>5, <2>1 DEF Room, t
<1>6. CASE x = "wiped"
  <2>1. ~Holds(s, "wiped")
    BY <1>6
  <2> QED
    BY <1>1, <1>2, <1>3, <1>4, <1>6, <2>1 DEF Room, t
<1>7. CASE x \notin {"built", "wiped"}
  <2>1. Len(t) <= MaxQueue
    BY <1>1, <1>2, <1>7
  <2>2. Len(t) <= Room(t)
    BY <1>1, <1>2, <2>1 DEF Room
  <2> QED
    BY <1>1, <1>2, <1>3, <2>2 DEF t
<1> QED
  BY <1>5, <1>6, <1>7

\* What a frame leaves alone, and which way it moves the rest.
LEMMA FrameDoes ==
  ASSUME Frame
  PROVE  /\ UNCHANGED <<window, line, startable, wipeable, leaseOk, cam, capture, since,
                        failures, lapsed, building, mode, builder, wiper, waiting,
                        request, alive, busyWith, reading, lease, embedded, old,
                        stuck, crossed, forsaken>>
         /\ frame' \in {"none", "pin", "advise", "arm", "full", "pins", "tells", "aim",
                        "enroll", "pending"}
         /\ caught' \in {caught, FALSE}
         /\ pinned' \in {pinned, TRUE}
         /\ armed' \in {armed, FALSE}
         /\ \/ UNCHANGED <<enrolled, fresh, spoiled>>
            \/ /\ frame \in {"enroll", "pending"}
               /\ enrolled' = (enrolled \/ frame = "enroll")
               /\ fresh' = (fresh \/ frame = "pending")
               /\ spoiled' = (spoiled \/ (Awaited(frame) /\ ~caught))
<1>1. /\ \/ FrameBegins \/ LooksAtPin \/ Advises \/ LooksAtArm
         \/ Disarms \/ Pins \/ Tells \/ Aims \/ Saves
      /\ UNCHANGED <<leaseOk, cam, capture, since, failures, lapsed, builder, wiper,
                     waiting, request, alive, busyWith, reading, lease, stuck, crossed,
                     forsaken>>
  BY DEF Frame, calls, server
<1>2. CASE FrameBegins \/ LooksAtPin \/ Advises
  BY <1>1, <1>2 DEF FrameBegins, LooksAtPin, Advises, FrameEnds, FrameGoesOn, ui,
    session, folders
<1>3. CASE LooksAtArm \/ Disarms \/ Pins \/ Tells
  BY <1>1, <1>3 DEF LooksAtArm, Disarms, Pins, Tells, FrameEnds, FrameGoesOn, ui,
    session, folders
<1>4. CASE Aims
  BY <1>1, <1>4 DEF Aims, Folder, FrameGoesOn, ui, session, folders
<1>5. CASE Saves
  BY <1>1, <1>5 DEF Saves, FrameEnds, ui, session, folders
<1> QED
  BY <1>1, <1>2, <1>3, <1>4, <1>5

\* And it never takes back that the line is pinned.
LEMMA FramePins ==
  ASSUME Frame, pinned
  PROVE  pinned'
<1>1. CASE FrameBegins \/ LooksAtPin \/ LooksAtArm \/ Disarms \/ Aims \/ Saves
  BY <1>1 DEF FrameBegins, LooksAtPin, LooksAtArm, Disarms, Aims, Saves, ui
<1>2. CASE Advises \/ Pins \/ Tells
  BY <1>2 DEF Advises, Pins, Tells
<1> QED
  BY <1>1, <1>2 DEF Frame

\* A frame leaves the queue as it is, or adds its advice, which is late if it was
\* caught, or says that there are as many photographs as were asked for.
LEMMA FramePosts ==
  ASSUME posted \in Seq(Messages), MaxQueue \in Nat, QueueInv, BuildInv, FrameInv, Frame
  PROVE  /\ posted' \in Seq(Messages)
         /\ Ordered(posted') /\ Len(posted') <= Room(posted')
         /\ \A x : Holds(posted', x) =>
              Holds(posted, x) \/ x \in {"full", "late"} \/ (x = "coach" /\ ~pinned)
<1>1. \/ posted' = posted
      \/ /\ Len(posted) < MaxQueue
         /\ \/ frame = "advise" /\ caught /\ posted' = Append(posted, "late")
            \/ frame = "advise" /\ ~caught /\ posted' = Append(posted, "coach")
            \/ posted' = Append(posted, "full")
  <2>1. CASE Advises \/ Tells
    BY <2>1 DEF Advises, Tells, Post
  <2>2. CASE FrameBegins \/ LooksAtPin \/ LooksAtArm \/ Disarms \/ Pins \/ Aims \/ Saves
    BY <2>2 DEF FrameBegins, LooksAtPin, LooksAtArm, Disarms, Pins, Aims, Saves, ui
  <2> QED
    BY <2>1, <2>2 DEF Frame
<1>2. Ordered(posted) /\ Len(posted) <= Room(posted)
  BY DEF QueueInv
<1>3. /\ Len(posted) \in Nat /\ "coach" \in Messages /\ "full" \in Messages
      /\ "late" \in Messages
  BY DEF Messages
<1>4. CASE posted' = posted
  BY <1>2, <1>4
<1>5. CASE /\ Len(posted) < MaxQueue /\ frame = "advise" /\ ~caught
           /\ posted' = Append(posted, "coach")
  <2>1. ~pinned /\ ~building
    BY <1>5 DEF FrameInv
  <2>2. ~Holds(posted, "built")
    BY <2>1 DEF BuildInv, BuildWhere
  <2> QED
    BY <1>2, <1>3, <1>5, <2>1, <2>2, OneMore
<1>6. CASE Len(posted) < MaxQueue /\ posted' = Append(posted, "full")
  BY <1>2, <1>3, <1>6, OneMore
<1>7. CASE Len(posted) < MaxQueue /\ posted' = Append(posted, "late")
  BY <1>2, <1>3, <1>7, OneMore
<1> QED
  BY <1>1, <1>4, <1>5, <1>6, <1>7

\* Plain types.
Places ==
  /\ window \in {"open", "finishing", "joining", "releasing", "discarding", "gone"}
  /\ line \in {"other", "coach", "late", "outcome"}
  /\ frame \in {"none", "pin", "advise", "arm", "full", "pins", "tells", "aim", "enroll",
               "pending"}
  /\ cam \in {"none", "opening", "looping", "renewing", "hung", "ended"}
  /\ mode \in {"none", "add", "replace"}
  /\ builder \in {"none", "calling", "served", "answered"}
  /\ wiper \in {"none", "calling", "served", "answered"}
  /\ busyWith \in {"none", "build", "clear"}
  /\ reading \in {"none", "enroll", "pending"}
  /\ request \in {"none", "enroll", "pending"}
Flags ==
  /\ pinned \in BOOLEAN /\ startable \in BOOLEAN /\ wipeable \in BOOLEAN
  /\ waiting \in BOOLEAN /\ leaseOk \in BOOLEAN /\ capture \in BOOLEAN
  /\ armed \in BOOLEAN /\ building \in BOOLEAN /\ alive \in BOOLEAN
  /\ lapsed \in BOOLEAN /\ enrolled \in BOOLEAN /\ embedded \in BOOLEAN
  /\ fresh \in BOOLEAN /\ old \in BOOLEAN /\ spoiled \in BOOLEAN /\ stuck \in BOOLEAN
  /\ crossed \in BOOLEAN /\ forsaken \in BOOLEAN /\ caught \in BOOLEAN
Numbers == since \in 0 .. Renew /\ failures \in 0 .. 2 /\ lease \in 0 .. Lease
Queued == posted \in Seq(Messages) /\ Len(posted) <= MaxQueue + 2

LEMMA PlainTypes == WizardTypeOK <=> Places /\ Flags /\ Numbers /\ Queued
<1>1. WizardTypeOK => Places /\ Flags /\ Numbers /\ Queued
  BY DEF WizardTypeOK, Places, Flags, Numbers, Queued, Messages
<1>2. Places /\ Flags /\ Numbers /\ Queued => WizardTypeOK
  BY DEF WizardTypeOK, Places, Flags, Numbers, Queued, Messages
<1> QED
  BY <1>1, <1>2

\* Places are typed, action by action.
LEMMA PlacesStep ==
  ASSUME Places, [WizardNext]_wizardVars
  PROVE  Places'
<1>1. ASSUME WaitOver PROVE Places'
  BY <1>1 DEF WaitOver, Post, camera, session, server, folders, record, Running,
    Places
<1>2. ASSUME OnWaited PROVE Places'
  BY <1>2 DEF OnWaited, Handles, AskLease, Guide, session, calls, folders, record,
    Usable, Places
<1>3. ASSUME CameraOpens PROVE Places'
  BY <1>3 DEF CameraOpens, ui, session, calls, server, folders, record, Places
<1>4. ASSUME StartRenewal PROVE Places'
  BY <1>4 DEF StartRenewal, Running, ui, session, calls, server, folders, record,
    Places
<1>5. ASSUME RenewalReturns PROVE Places'
  BY <1>5 DEF RenewalReturns, AskLease, ui, session, calls, folders, record, Places
<1>6. ASSUME ReadHangs PROVE Places'
  BY <1>6 DEF ReadHangs, ui, session, calls, server, folders, record, Places
<1>7. ASSUME ReadReturns PROVE Places'
  BY <1>7 DEF ReadReturns, ui, session, calls, server, folders, record, Places
<1>8. ASSUME LoopEnds PROVE Places'
  BY <1>8 DEF LoopEnds, Running, ui, session, calls, server, folders, record, Places
<1>9. ASSUME Frame PROVE Places'
  BY <1>9, FrameDoes DEF Places
<1>10. ASSUME OnCoach PROVE Places'
  BY <1>10 DEF OnCoach, Handles, camera, session, calls, server, folders, record,
    Usable, Places
<1>11. ASSUME OnFull PROVE Places'
  BY <1>11 DEF OnFull, Handles, Guide, camera, session, calls, server, folders,
    record, Usable, Places
<1>12. ASSUME StopCapture PROVE Places'
  BY <1>12 DEF StopCapture, Usable, Guide, camera, calls, server, folders, record,
    Places
<1>13. ASSUME StartCapture PROVE Places'
  BY <1>13 DEF StartCapture, Usable, Choose, Guide, camera, calls, server,
    EmptyPending, Awaited, Places
<1>14. ASSUME OnBuild PROVE Places'
  BY <1>14 DEF OnBuild, Usable, HasShots, Folder, Guide, camera, server, folders,
    Places
<1>15. ASSUME BuildAnswered PROVE Places'
  BY <1>15 DEF BuildAnswered, Post, camera, session, server, folders, record, Running,
    Places
<1>16. ASSUME BuildGivesUp PROVE Places'
  BY <1>16 DEF BuildGivesUp, ui, camera, session, server, folders, Places
<1>17. ASSUME OnBuilt PROVE Places'
  BY <1>17 DEF OnBuilt, Handles, camera, session, calls, server, folders, record,
    Usable, Places
<1>18. ASSUME BuildOver PROVE Places'
  BY <1>18 DEF BuildOver, camera, calls, server, folders, record, Places
<1>19. ASSUME OnWipe PROVE Places'
  BY <1>19 DEF OnWipe, Usable, camera, session, server, folders, record, Places
<1>20. ASSUME WipeAnswered PROVE Places'
  BY <1>20 DEF WipeAnswered, Post, camera, session, server, folders, record, Running,
    Places
<1>21. ASSUME WipeGivesUp PROVE Places'
  BY <1>21 DEF WipeGivesUp, ui, camera, session, server, folders, record, Places
<1>22. ASSUME OnWiped PROVE Places'
  BY <1>22 DEF OnWiped, Handles, Guide, camera, calls, server, folders, Usable, Places
<1>23. ASSUME OnClose PROVE Places'
  BY <1>23 DEF OnClose, Usable, camera, calls, server, folders, record, Places
<1>24. ASSUME Joined PROVE Places'
  BY <1>24 DEF Joined, session, calls, server, folders, record, Places
<1>25. ASSUME ReleaseLease PROVE Places'
  BY <1>25 DEF ReleaseLease, camera, session, calls, folders, record, Places
<1>26. ASSUME DiscardPending PROVE Places'
  BY <1>26 DEF DiscardPending, Exits, EmptyPending, Awaited, Guide, server, Places
<1>27. ASSUME Launched PROVE Places'
  BY <1>27 DEF Launched, WindowOpens, camera, session, server, Places
<1>28. ASSUME Killed PROVE Places'
  BY <1>28 DEF Killed, Exits, Guide, server, Places
<1>29. ASSUME ServeBuild PROVE Places'
  BY <1>29 DEF ServeBuild, ui, camera, session, folders, Places
<1>30. ASSUME BuildEnds PROVE Places'
  BY <1>30 DEF BuildEnds, HasShots, folders, ui, camera, session, record, Places
<1>31. ASSUME ServeClear PROVE Places'
  BY <1>31 DEF ServeClear, ui, camera, session, folders, record, Places
<1>32. ASSUME ClearEnds PROVE Places'
  BY <1>32 DEF ClearEnds, ui, camera, session, record, Places
<1>33. ASSUME ServiceDies PROVE Places'
  BY <1>33 DEF ServiceDies, ui, session, folders, record, Places
<1>34. ASSUME ServiceStarts PROVE Places'
  BY <1>34 DEF ServiceStarts, ui, camera, session, calls, folders, record, Places
<1>35. ASSUME Pass PROVE Places'
  BY <1>35 DEF Pass, ui, session, calls, folders, record, Places
<1>36. ASSUME UNCHANGED wizardVars PROVE Places'
  BY <1>36 DEF wizardVars, ui, camera, session, calls, server, folders, record, Places
<1> QED
  BY <1>1, <1>2, <1>3, <1>4, <1>5, <1>6, <1>7, <1>8, <1>9, <1>10, <1>11, <1>12, <1>13,
    <1>14, <1>15, <1>16, <1>17, <1>18, <1>19, <1>20, <1>21, <1>22, <1>23, <1>24,
    <1>25, <1>26, <1>27, <1>28, <1>29, <1>30, <1>31, <1>32, <1>33, <1>34, <1>35, <1>36
  DEF WizardNext, CameraNext, ButtonsNext, CloseNext, ServiceNext

\* So are flags.
LEMMA FlagsStep ==
  ASSUME Flags, [WizardNext]_wizardVars
  PROVE  Flags'
<1>1. ASSUME WaitOver PROVE Flags'
  <2>1. waiting' \in BOOLEAN
    BY <1>1 DEF WaitOver, Post, camera, session, server, folders, record, Running,
      Flags
  <2>2. UNCHANGED <<pinned, startable, wipeable, leaseOk, capture, armed, building,
    alive, lapsed, enrolled, embedded, fresh, old, spoiled, stuck, crossed, forsaken, caught>>
    BY <1>1 DEF WaitOver, Post, camera, session, server, folders, record, Running
  <2> QED
    BY ONLY Flags, <2>1, <2>2 DEF Flags
<1>2. ASSUME OnWaited PROVE Flags'
  <2>1. leaseOk' \in BOOLEAN /\ startable' \in BOOLEAN /\ lapsed' \in BOOLEAN
    BY <1>2 DEF OnWaited, Handles, AskLease, Guide, session, calls, folders, record,
      Usable, Flags
  <2>2. UNCHANGED <<pinned, wipeable, waiting, capture, armed, building, alive,
    enrolled, embedded, fresh, old, spoiled, stuck, crossed, forsaken, caught>>
    BY <1>2 DEF OnWaited, Handles, AskLease, Guide, session, calls, folders, record,
      Usable
  <2> QED
    BY ONLY Flags, <2>1, <2>2 DEF Flags
<1>3. ASSUME CameraOpens PROVE Flags'
  <2>1. capture' \in BOOLEAN
    BY <1>3 DEF CameraOpens, ui, session, calls, server, folders, record, Flags
  <2>2. UNCHANGED <<pinned, startable, wipeable, waiting, leaseOk, armed, building,
    alive, lapsed, enrolled, embedded, fresh, old, spoiled, stuck, crossed, forsaken, caught>>
    BY <1>3 DEF CameraOpens, ui, session, calls, server, folders, record
  <2> QED
    BY ONLY Flags, <2>1, <2>2 DEF Flags
<1>4. ASSUME StartRenewal PROVE Flags'
  BY <1>4 DEF StartRenewal, Running, ui, session, calls, server, folders, record,
    Flags
<1>5. ASSUME RenewalReturns PROVE Flags'
  <2>1. lapsed' \in BOOLEAN
    BY <1>5 DEF RenewalReturns, AskLease, ui, session, calls, folders, record, Flags
  <2>2. UNCHANGED <<pinned, startable, wipeable, waiting, leaseOk, capture, armed,
    building, alive, enrolled, embedded, fresh, old, spoiled, stuck, crossed, forsaken, caught>>
    BY <1>5 DEF RenewalReturns, AskLease, ui, session, calls, folders, record
  <2> QED
    BY ONLY Flags, <2>1, <2>2 DEF Flags
<1>6. ASSUME ReadHangs PROVE Flags'
  BY <1>6 DEF ReadHangs, ui, session, calls, server, folders, record, Flags
<1>7. ASSUME ReadReturns PROVE Flags'
  BY <1>7 DEF ReadReturns, ui, session, calls, server, folders, record, Flags
<1>8. ASSUME LoopEnds PROVE Flags'
  <2>1. capture' \in BOOLEAN
    BY <1>8 DEF LoopEnds, Running, ui, session, calls, server, folders, record, Flags
  <2>2. UNCHANGED <<pinned, startable, wipeable, waiting, leaseOk, armed, building,
    alive, lapsed, enrolled, embedded, fresh, old, spoiled, stuck, crossed, forsaken, caught>>
    BY <1>8 DEF LoopEnds, Running, ui, session, calls, server, folders, record
  <2> QED
    BY ONLY Flags, <2>1, <2>2 DEF Flags
<1>9. ASSUME Frame PROVE Flags'
  <2>1. enrolled' \in BOOLEAN /\ fresh' \in BOOLEAN /\ spoiled' \in BOOLEAN
        /\ armed' \in BOOLEAN /\ pinned' \in BOOLEAN /\ caught' \in BOOLEAN
    BY <1>9, FrameDoes DEF Flags
  <2>2. UNCHANGED <<startable, wipeable, waiting, leaseOk, capture, building, alive,
    lapsed, embedded, old, stuck, crossed, forsaken>>
    BY <1>9, FrameDoes
  <2> QED
    BY ONLY Flags, <2>1, <2>2 DEF Flags
<1>10. ASSUME OnCoach PROVE Flags'
  BY <1>10 DEF OnCoach, Handles, camera, session, calls, server, folders, record,
    Usable, Flags
<1>11. ASSUME OnFull PROVE Flags'
  BY <1>11 DEF OnFull, Handles, Guide, camera, session, calls, server, folders,
    record, Usable, Flags
<1>12. ASSUME StopCapture PROVE Flags'
  <2>1. armed' \in BOOLEAN
    BY <1>12 DEF StopCapture, Usable, Guide, camera, calls, server, folders, record,
      Flags
  <2>2. UNCHANGED <<pinned, startable, wipeable, waiting, leaseOk, capture, building,
    alive, lapsed, enrolled, embedded, fresh, old, spoiled, stuck, crossed, forsaken, caught>>
    BY <1>12 DEF StopCapture, Usable, Guide, camera, calls, server, folders, record
  <2> QED
    BY ONLY Flags, <2>1, <2>2 DEF Flags
<1>13. ASSUME StartCapture PROVE Flags'
  <2>1. armed' \in BOOLEAN /\ pinned' \in BOOLEAN /\ fresh' \in BOOLEAN
        /\ old' \in BOOLEAN /\ stuck' \in BOOLEAN /\ spoiled' \in BOOLEAN
        /\ forsaken' \in BOOLEAN
    BY <1>13 DEF StartCapture, Usable, Choose, Guide, camera, calls, server,
      EmptyPending, Awaited, Flags
  <2>2. UNCHANGED <<startable, wipeable, waiting, leaseOk, capture, building, alive,
    lapsed, enrolled, embedded, crossed, caught>>
    BY <1>13 DEF StartCapture, Usable, Choose, Guide, camera, calls, server,
      EmptyPending, Awaited
  <2> QED
    BY ONLY Flags, <2>1, <2>2 DEF Flags
<1>14. ASSUME OnBuild PROVE Flags'
  <2>1. building' \in BOOLEAN /\ armed' \in BOOLEAN /\ startable' \in BOOLEAN
        /\ wipeable' \in BOOLEAN /\ caught' \in BOOLEAN
    BY <1>14 DEF OnBuild, Usable, HasShots, Folder, Guide, camera, server, folders,
      Flags
  <2>2. UNCHANGED <<pinned, waiting, leaseOk, capture, alive, lapsed, enrolled,
    embedded, fresh, old, spoiled, stuck, crossed, forsaken>>
    BY <1>14 DEF OnBuild, Usable, HasShots, Folder, Guide, camera, server, folders
  <2> QED
    BY ONLY Flags, <2>1, <2>2 DEF Flags
<1>15. ASSUME BuildAnswered PROVE Flags'
  BY <1>15 DEF BuildAnswered, Post, camera, session, server, folders, record, Running,
    Flags
<1>16. ASSUME BuildGivesUp PROVE Flags'
  BY <1>16 DEF BuildGivesUp, ui, camera, session, server, folders, record, Flags
<1>17. ASSUME OnBuilt PROVE Flags'
  BY <1>17 DEF OnBuilt, Handles, camera, session, calls, server, folders, record,
    Usable, Flags
<1>18. ASSUME BuildOver PROVE Flags'
  <2>1. building' \in BOOLEAN /\ startable' \in BOOLEAN /\ wipeable' \in BOOLEAN
    BY <1>18 DEF BuildOver, camera, calls, server, folders, record, Flags
  <2>2. UNCHANGED <<pinned, waiting, leaseOk, capture, armed, alive, lapsed, enrolled,
    embedded, fresh, old, spoiled, stuck, crossed, forsaken, caught>>
    BY <1>18 DEF BuildOver, camera, calls, server, folders, record
  <2> QED
    BY ONLY Flags, <2>1, <2>2 DEF Flags
<1>19. ASSUME OnWipe PROVE Flags'
  <2>1. wipeable' \in BOOLEAN
    BY <1>19 DEF OnWipe, Usable, camera, session, server, folders, record, Flags
  <2>2. UNCHANGED <<pinned, startable, waiting, leaseOk, capture, armed, building,
    alive, lapsed, enrolled, embedded, fresh, old, spoiled, stuck, crossed, forsaken, caught>>
    BY <1>19 DEF OnWipe, Usable, camera, session, server, folders, record
  <2> QED
    BY ONLY Flags, <2>1, <2>2 DEF Flags
<1>20. ASSUME WipeAnswered PROVE Flags'
  BY <1>20 DEF WipeAnswered, Post, camera, session, server, folders, record, Running,
    Flags
<1>21. ASSUME WipeGivesUp PROVE Flags'
  BY <1>21 DEF WipeGivesUp, ui, camera, session, server, folders, record, Flags
<1>22. ASSUME OnWiped PROVE Flags'
  <2>1. wipeable' \in BOOLEAN /\ pinned' \in BOOLEAN /\ forsaken' \in BOOLEAN
        /\ crossed' \in BOOLEAN
    BY <1>22 DEF OnWiped, Handles, Guide, camera, calls, server, folders, Usable, Flags
  <2>2. UNCHANGED <<startable, waiting, leaseOk, capture, armed, building, alive,
    lapsed, enrolled, embedded, fresh, old, spoiled, stuck, caught>>
    BY <1>22 DEF OnWiped, Handles, Guide, camera, calls, server, folders, Usable
  <2> QED
    BY ONLY Flags, <2>1, <2>2 DEF Flags
<1>23. ASSUME OnClose PROVE Flags'
  <2>1. armed' \in BOOLEAN
    BY <1>23 DEF OnClose, Usable, camera, calls, server, folders, record, Flags
  <2>2. UNCHANGED <<pinned, startable, wipeable, waiting, leaseOk, capture, building,
    alive, lapsed, enrolled, embedded, fresh, old, spoiled, stuck, crossed, forsaken, caught>>
    BY <1>23 DEF OnClose, Usable, camera, calls, server, folders, record
  <2> QED
    BY ONLY Flags, <2>1, <2>2 DEF Flags
<1>24. ASSUME Joined PROVE Flags'
  BY <1>24 DEF Joined, session, calls, server, folders, record, Flags
<1>25. ASSUME ReleaseLease PROVE Flags'
  BY <1>25 DEF ReleaseLease, camera, session, calls, folders, record, Flags
<1>26. ASSUME DiscardPending PROVE Flags'
  BY <1>26 DEF DiscardPending, Exits, EmptyPending, Awaited, Guide, server, Flags
<1>27. ASSUME Launched PROVE Flags'
  <2>1. old' = (old \/ fresh) /\ waiting' = TRUE /\ fresh' = FALSE /\ forsaken' = FALSE
        /\ spoiled' = FALSE /\ stuck' = FALSE /\ crossed' = FALSE
    BY ONLY <1>27 DEF Launched, WindowOpens
  <2>2. UNCHANGED <<pinned, startable, wipeable, leaseOk, capture, armed, building,
    alive, lapsed, enrolled, embedded, caught>>
    BY ONLY <1>27 DEF Launched, camera, session, server
  <2>3. old' \in BOOLEAN /\ waiting' \in BOOLEAN /\ fresh' \in BOOLEAN
        /\ forsaken' \in BOOLEAN /\ spoiled' \in BOOLEAN /\ stuck' \in BOOLEAN
        /\ crossed' \in BOOLEAN
    BY ONLY <2>1
  <2> QED
    BY ONLY Flags, <2>2, <2>3 DEF Flags
<1>28. ASSUME Killed PROVE Flags'
  BY <1>28 DEF Killed, Exits, Guide, server, Flags
<1>29. ASSUME ServeBuild PROVE Flags'
  BY <1>29 DEF ServeBuild, ui, camera, session, folders, record, Flags
<1>30. ASSUME BuildEnds PROVE Flags'
  <2>1. embedded' \in BOOLEAN /\ enrolled' \in BOOLEAN /\ fresh' \in BOOLEAN
        /\ old' \in BOOLEAN
    BY <1>30 DEF BuildEnds, HasShots, folders, ui, camera, session, record, Flags
  <2>2. UNCHANGED <<pinned, startable, wipeable, waiting, leaseOk, capture, armed,
    building, alive, lapsed, spoiled, stuck, crossed, forsaken, caught>>
    BY <1>30 DEF BuildEnds, HasShots, folders, ui, camera, session, record
  <2> QED
    BY ONLY Flags, <2>1, <2>2 DEF Flags
<1>31. ASSUME ServeClear PROVE Flags'
  BY <1>31 DEF ServeClear, ui, camera, session, folders, record, Flags
<1>32. ASSUME ClearEnds PROVE Flags'
  <2>1. enrolled' \in BOOLEAN /\ embedded' \in BOOLEAN /\ fresh' \in BOOLEAN
        /\ old' \in BOOLEAN
    BY <1>32 DEF ClearEnds, ui, camera, session, record, Flags
  <2>2. UNCHANGED <<pinned, startable, wipeable, waiting, leaseOk, capture, armed,
    building, alive, lapsed, spoiled, stuck, crossed, forsaken, caught>>
    BY <1>32 DEF ClearEnds, ui, camera, session, record
  <2> QED
    BY ONLY Flags, <2>1, <2>2 DEF Flags
<1>33. ASSUME ServiceDies PROVE Flags'
  <2>1. alive' \in BOOLEAN /\ lapsed' \in BOOLEAN
    BY <1>33 DEF ServiceDies, ui, session, folders, record, Flags
  <2>2. UNCHANGED <<pinned, startable, wipeable, waiting, leaseOk, capture, armed,
    building, enrolled, embedded, fresh, old, spoiled, stuck, crossed, forsaken, caught>>
    BY <1>33 DEF ServiceDies, ui, session, folders, record
  <2> QED
    BY ONLY Flags, <2>1, <2>2 DEF Flags
<1>34. ASSUME ServiceStarts PROVE Flags'
  BY <1>34 DEF ServiceStarts, ui, camera, session, calls, folders, record, Flags
<1>35. ASSUME Pass PROVE Flags'
  BY <1>35 DEF Pass, ui, session, calls, folders, record, Flags
<1>36. ASSUME UNCHANGED wizardVars PROVE Flags'
  BY <1>36 DEF wizardVars, ui, camera, session, calls, server, folders, record, Flags
<1> QED
  BY <1>1, <1>2, <1>3, <1>4, <1>5, <1>6, <1>7, <1>8, <1>9, <1>10, <1>11, <1>12, <1>13,
    <1>14, <1>15, <1>16, <1>17, <1>18, <1>19, <1>20, <1>21, <1>22, <1>23, <1>24,
    <1>25, <1>26, <1>27, <1>28, <1>29, <1>30, <1>31, <1>32, <1>33, <1>34, <1>35, <1>36
  DEF WizardNext, CameraNext, ButtonsNext, CloseNext, ServiceNext

\* And times.
LEMMA NumbersStep ==
  ASSUME Numbers, [WizardNext]_wizardVars
  PROVE  Numbers'
<1>1. ASSUME WaitOver PROVE Numbers'
  BY <1>1, WizardAssumption DEF WaitOver, Post, camera, session, server, folders,
    record, Running, Numbers
<1>2. ASSUME OnWaited PROVE Numbers'
  BY <1>2, WizardAssumption DEF OnWaited, Handles, AskLease, Guide, session, calls,
    folders, record, Usable, Numbers
<1>3. ASSUME CameraOpens PROVE Numbers'
  BY <1>3, WizardAssumption DEF CameraOpens, ui, session, calls, server, folders,
    record, Numbers
<1>4. ASSUME StartRenewal PROVE Numbers'
  BY <1>4, WizardAssumption DEF StartRenewal, Running, ui, session, calls, server,
    folders, record, Numbers
<1>5. ASSUME RenewalReturns PROVE Numbers'
  BY <1>5, WizardAssumption DEF RenewalReturns, AskLease, ui, session, calls, folders,
    record, Numbers
<1>6. ASSUME ReadHangs PROVE Numbers'
  BY <1>6, WizardAssumption DEF ReadHangs, ui, session, calls, server, folders,
    record, Numbers
<1>7. ASSUME ReadReturns PROVE Numbers'
  BY <1>7, WizardAssumption DEF ReadReturns, ui, session, calls, server, folders,
    record, Numbers
<1>8. ASSUME LoopEnds PROVE Numbers'
  BY <1>8, WizardAssumption DEF LoopEnds, Running, ui, session, calls, server,
    folders, record, Numbers
<1>9. ASSUME Frame PROVE Numbers'
  BY <1>9, FrameDoes DEF Numbers
<1>10. ASSUME OnCoach PROVE Numbers'
  BY <1>10, WizardAssumption DEF OnCoach, Handles, camera, session, calls, server,
    folders, record, Usable, Numbers
<1>11. ASSUME OnFull PROVE Numbers'
  BY <1>11, WizardAssumption DEF OnFull, Handles, Guide, camera, session, calls,
    server, folders, record, Usable, Numbers
<1>12. ASSUME StopCapture PROVE Numbers'
  BY <1>12, WizardAssumption DEF StopCapture, Usable, Guide, camera, calls, server,
    folders, record, Numbers
<1>13. ASSUME StartCapture PROVE Numbers'
  BY <1>13, WizardAssumption DEF StartCapture, Usable, Choose, Guide, camera, calls,
    server, EmptyPending, Awaited, Numbers
<1>14. ASSUME OnBuild PROVE Numbers'
  BY <1>14, WizardAssumption DEF OnBuild, Usable, HasShots, Folder, Guide, camera,
    server, folders, Numbers
<1>15. ASSUME BuildAnswered PROVE Numbers'
  BY <1>15, WizardAssumption DEF BuildAnswered, Post, camera, session, server,
    folders, record, Running, Numbers
<1>16. ASSUME BuildGivesUp PROVE Numbers'
  BY <1>16, WizardAssumption DEF BuildGivesUp, ui, camera, session, server, folders,
    Numbers
<1>17. ASSUME OnBuilt PROVE Numbers'
  BY <1>17, WizardAssumption DEF OnBuilt, Handles, camera, session, calls, server,
    folders, record, Usable, Numbers
<1>18. ASSUME BuildOver PROVE Numbers'
  BY <1>18, WizardAssumption DEF BuildOver, camera, calls, server, folders, record,
    Numbers
<1>19. ASSUME OnWipe PROVE Numbers'
  BY <1>19, WizardAssumption DEF OnWipe, Usable, camera, session, server, folders,
    record, Numbers
<1>20. ASSUME WipeAnswered PROVE Numbers'
  BY <1>20, WizardAssumption DEF WipeAnswered, Post, camera, session, server, folders,
    record, Running, Numbers
<1>21. ASSUME WipeGivesUp PROVE Numbers'
  BY <1>21, WizardAssumption DEF WipeGivesUp, ui, camera, session, server, folders,
    record, Numbers
<1>22. ASSUME OnWiped PROVE Numbers'
  BY <1>22, WizardAssumption DEF OnWiped, Handles, Guide, camera, calls, server,
    folders, Usable, Numbers
<1>23. ASSUME OnClose PROVE Numbers'
  BY <1>23, WizardAssumption DEF OnClose, Usable, camera, calls, server, folders,
    record, Numbers
<1>24. ASSUME Joined PROVE Numbers'
  BY <1>24, WizardAssumption DEF Joined, session, calls, server, folders, record,
    Numbers
<1>25. ASSUME ReleaseLease PROVE Numbers'
  BY <1>25, WizardAssumption DEF ReleaseLease, camera, session, calls, folders,
    record, Numbers
<1>26. ASSUME DiscardPending PROVE Numbers'
  BY <1>26, WizardAssumption DEF DiscardPending, Exits, EmptyPending, Awaited, Guide,
    server, Numbers
<1>27. ASSUME Launched PROVE Numbers'
  BY <1>27, WizardAssumption DEF Launched, WindowOpens, camera, session, server,
    Numbers
<1>28. ASSUME Killed PROVE Numbers'
  BY <1>28, WizardAssumption DEF Killed, Exits, Guide, server, Numbers
<1>29. ASSUME ServeBuild PROVE Numbers'
  BY <1>29, WizardAssumption DEF ServeBuild, ui, camera, session, folders, Numbers
<1>30. ASSUME BuildEnds PROVE Numbers'
  BY <1>30, WizardAssumption DEF BuildEnds, HasShots, folders, ui, camera, session,
    record, Numbers
<1>31. ASSUME ServeClear PROVE Numbers'
  BY <1>31, WizardAssumption DEF ServeClear, ui, camera, session, folders, record,
    Numbers
<1>32. ASSUME ClearEnds PROVE Numbers'
  BY <1>32, WizardAssumption DEF ClearEnds, ui, camera, session, record, Numbers
<1>33. ASSUME ServiceDies PROVE Numbers'
  BY <1>33, WizardAssumption DEF ServiceDies, ui, session, folders, record, Numbers
<1>34. ASSUME ServiceStarts PROVE Numbers'
  BY <1>34, WizardAssumption DEF ServiceStarts, ui, camera, session, calls, folders,
    record, Numbers
<1>35. ASSUME Pass PROVE Numbers'
  BY <1>35, WizardAssumption DEF Pass, ui, session, calls, folders, record, Numbers
<1>36. ASSUME UNCHANGED wizardVars PROVE Numbers'
  BY <1>36, WizardAssumption DEF wizardVars, ui, camera, session, calls, server,
    folders, record, Numbers
<1> QED
  BY <1>1, <1>2, <1>3, <1>4, <1>5, <1>6, <1>7, <1>8, <1>9, <1>10, <1>11, <1>12, <1>13,
    <1>14, <1>15, <1>16, <1>17, <1>18, <1>19, <1>20, <1>21, <1>22, <1>23, <1>24,
    <1>25, <1>26, <1>27, <1>28, <1>29, <1>30, <1>31, <1>32, <1>33, <1>34, <1>35, <1>36
  DEF WizardNext, CameraNext, ButtonsNext, CloseNext, ServiceNext

\* What waits for the window's thread, and what its coming and going says.
LEMMA QueueStep ==
  ASSUME posted \in Seq(Messages), QueueInv, BuildInv, FrameInv, GoneInv,
         [WizardNext]_wizardVars
  PROVE  /\ posted' \in Seq(Messages) /\ QueueInv'
         /\ Holds(posted', "waited") => Holds(posted, "waited") \/ waiting
         /\ Holds(posted', "built") => Holds(posted, "built") \/ builder = "answered"
         /\ Holds(posted', "coach") => Holds(posted, "coach") \/ ~pinned
         /\ OnWaited => Holds(posted, "waited") /\ ~Holds(posted', "waited")
         /\ OnBuilt => /\ Holds(posted, "built")
                       /\ ~Holds(posted', "built") /\ ~Holds(posted', "coach")
         /\ OnCoach => line' = "late" \/ Holds(posted, "coach")
<1> DEFINE
      Sound == posted' \in Seq(Messages) /\ QueueInv'
      Waited == Holds(posted', "waited") => Holds(posted, "waited") \/ waiting
      Built == Holds(posted', "built") => Holds(posted, "built") \/ builder = "answered"
      Coached == Holds(posted', "coach") => Holds(posted, "coach") \/ ~pinned
      Aside == /\ posted' = posted
               /\ waiting' => waiting
               /\ (builder' # "none" \/ window' = "finishing")
                    => (builder # "none" \/ window = "finishing")
               /\ wiper' # "none" => wiper # "none"
<1>1. /\ MaxQueue \in Nat /\ Len(posted) \in Nat
      /\ Ordered(posted) /\ Len(posted) <= Room(posted)
      /\ "waited" \in Messages /\ "built" \in Messages /\ "wiped" \in Messages
  BY WizardAssumption DEF QueueInv, Messages
<1>2. ASSUME Aside PROVE Sound /\ Waited /\ Built /\ Coached
  <2>1. posted' = posted
    BY <1>2
  <2>2. Ordered(posted') /\ Len(posted') <= Room(posted')
    BY <1>1, <2>1
  <2> QED
    BY <1>2, <2>1, <2>2 DEF QueueInv
<1>3. posted' = << >> => Sound /\ Waited /\ Built /\ Coached
  <2> SUFFICES ASSUME posted' = << >> PROVE Sound /\ Waited /\ Built /\ Coached
    OBVIOUS
  <2>1. Ordered(posted') /\ Len(posted') = 0 /\ \A x : ~Holds(posted', x)
        /\ posted' \in Seq(Messages)
    BY EmptyQueue
  <2>2. Len(posted') <= Room(posted')
    BY <1>1, <2>1 DEF Room
  <2> QED
    BY <2>1, <2>2 DEF QueueInv
<1>4. ASSUME \/ CameraOpens \/ StartRenewal \/ RenewalReturns \/ ReadHangs \/ ReadReturns
             \/ LoopEnds \/ StopCapture \/ StartCapture
      PROVE  Aside
  BY <1>4 DEF CameraOpens, ui, session, calls, server, folders, record, StartRenewal,
    Running, RenewalReturns, AskLease, ReadHangs, ReadReturns, LoopEnds, StopCapture,
    Usable, Guide, camera, StartCapture, Choose, EmptyPending, Awaited
<1>5. ASSUME \/ BuildGivesUp \/ BuildOver \/ WipeGivesUp \/ OnClose \/ ReleaseLease
             \/ ServeBuild
      PROVE  Aside
  BY <1>5 DEF BuildGivesUp, ui, camera, session, server, folders, BuildOver, calls,
    record, WipeGivesUp, OnClose, Usable, ReleaseLease, ServeBuild
<1>6. ASSUME BuildEnds
      PROVE  Aside
  BY <1>6 DEF BuildEnds, HasShots, folders, ui, camera, session, record
<1>7. ASSUME ServeClear \/ ServiceStarts \/ Pass
      PROVE  Aside
  BY <1>7 DEF ServeClear, ui, camera, session, folders, record, ServiceStarts, calls,
    Pass
<1>8. ASSUME ClearEnds
      PROVE  Aside
  BY <1>8 DEF ClearEnds, ui, camera, session, record
<1>9. ASSUME ServiceDies
      PROVE  Aside
  BY <1>9 DEF ServiceDies, ui, session, folders, record
<1>10. ASSUME UNCHANGED wizardVars PROVE Aside
  BY <1>10 DEF wizardVars, ui, camera, session, calls, server, folders, record
<1>11. ASSUME OnBuild PROVE Sound /\ Waited /\ Built /\ Coached
  <2>1. posted' = posted /\ waiting' = waiting /\ wiper' = wiper /\ ~building
    BY <1>11 DEF OnBuild
  <2> QED
    BY <2>1 DEF QueueInv, BuildInv, BuildWhere
<1>12. ASSUME OnWipe PROVE Sound /\ Waited /\ Built /\ Coached
  <2>1. /\ posted' = posted /\ waiting' = waiting /\ builder' = builder
        /\ window' = window /\ \A i \in DOMAIN posted : posted[i] # "wiped"
    BY <1>12 DEF OnWipe
  <2>2. ~Holds(posted, "wiped")
    BY <2>1 DEF Holds
  <2> QED
    BY <2>1, <2>2 DEF QueueInv
<1>13. ASSUME DiscardPending \/ Killed \/ Joined \/ Launched PROVE posted' = << >>
  BY <1>13 DEF DiscardPending, Killed, Joined, Launched, WindowOpens, Exits, GoneInv
<1>14. ASSUME WaitOver PROVE Sound /\ Waited /\ Built /\ Coached
  <2>1. /\ waiting /\ ~waiting' /\ Len(posted) < MaxQueue
        /\ posted' = posted \/ posted' = Append(posted, "waited")
        /\ builder' = builder /\ window' = window /\ wiper' = wiper
    BY <1>14 DEF WaitOver, Post
  <2>2. CASE posted' = posted
    BY <2>1, <2>2 DEF QueueInv
  <2>3. CASE posted' = Append(posted, "waited")
    <3>1. ~Holds(posted, "waited") /\ Len(posted) < MaxQueue
      BY <1>1, <2>1 DEF QueueInv
    <3>2. /\ posted' \in Seq(Messages) /\ Ordered(posted')
          /\ Len(posted') <= Room(posted')
          /\ \A x : Holds(posted', x) <=> Holds(posted, x) \/ x = "waited"
      BY <1>1, <2>3, <3>1, OneMore
    <3> QED
      BY <2>1, <3>2 DEF QueueInv
  <2> QED
    BY <2>1, <2>2, <2>3
<1>15. ASSUME BuildAnswered PROVE Sound /\ Waited /\ Built /\ Coached
  <2>1. /\ builder = "answered" /\ builder' = "none" /\ wiper' = wiper
        /\ posted' = posted \/ posted' = Append(posted, "built")
        /\ waiting' = waiting /\ window' = window
    BY <1>15 DEF BuildAnswered, Post
  <2>2. CASE posted' = posted
    BY <2>1, <2>2 DEF QueueInv
  <2>3. CASE posted' = Append(posted, "built")
    <3>1. ~Holds(posted, "built") /\ window # "finishing"
      BY <2>1 DEF QueueInv, BuildInv, BuildWhere
    <3>2. /\ posted' \in Seq(Messages) /\ Ordered(posted')
          /\ Len(posted') <= Room(posted')
          /\ \A x : Holds(posted', x) <=> Holds(posted, x) \/ x = "built"
      BY <1>1, <2>3, <3>1, OneMore
    <3> QED
      BY <2>1, <3>1, <3>2 DEF QueueInv
  <2> QED
    BY <2>1, <2>2, <2>3
<1>16. ASSUME WipeAnswered PROVE Sound /\ Waited /\ Built /\ Coached
  <2>1. /\ wiper = "answered" /\ wiper' = "none" /\ builder' = builder
        /\ posted' = posted \/ posted' = Append(posted, "wiped")
        /\ waiting' = waiting /\ window' = window
    BY <1>16 DEF WipeAnswered, Post
  <2>2. CASE posted' = posted
    BY <2>1, <2>2 DEF QueueInv
  <2>3. CASE posted' = Append(posted, "wiped")
    <3>1. ~Holds(posted, "wiped")
      BY <2>1 DEF QueueInv
    <3>2. /\ posted' \in Seq(Messages) /\ Ordered(posted')
          /\ Len(posted') <= Room(posted')
          /\ \A x : Holds(posted', x) <=> Holds(posted, x) \/ x = "wiped"
      BY <1>1, <2>3, <3>1, OneMore
    <3> QED
      BY <2>1, <3>1, <3>2 DEF QueueInv
  <2> QED
    BY <2>1, <2>2, <2>3
<1>17. ASSUME Frame PROVE Sound /\ Waited /\ Built /\ Coached
  <2>1. waiting' = waiting /\ builder' = builder /\ wiper' = wiper /\ window' = window
    BY <1>17, FrameDoes
  <2>2. /\ posted' \in Seq(Messages) /\ Ordered(posted')
        /\ Len(posted') <= Room(posted')
        /\ \A x : Holds(posted', x) =>
             Holds(posted, x) \/ x \in {"full", "late"} \/ (x = "coach" /\ ~pinned)
    BY <1>17, <1>1, FramePosts
  <2> QED
    BY <1>17, <2>1, <2>2 DEF QueueInv
<1>18. ASSUME NEW what, Handles(what), waiting' = waiting, builder' = builder,
             wiper' = wiper,
             window' = "finishing" => window = "finishing" \/ what = "built"
      PROVE  /\ Sound /\ Waited /\ Built /\ Coached
             /\ Holds(posted, what)
             /\ what \in {"waited", "built", "wiped"} => ~Holds(posted', what)
             /\ what = "built" => ~Holds(posted', "coach")
  <2>1. /\ posted' \in Seq(Messages) /\ Ordered(posted')
        /\ Len(posted') <= Room(posted')
        /\ \A x : Holds(posted', x) => Holds(posted, x)
        /\ Holds(posted, what)
        /\ what \in {"waited", "built", "wiped"} => ~Holds(posted', what)
        /\ what = "built" => ~Holds(posted', "coach")
    BY <1>18, <1>1, OneLess
  <2> QED
    BY <1>18, <2>1 DEF QueueInv
<1>19. ASSUME OnWaited
      PROVE  /\ Sound /\ Waited /\ Built /\ Coached
             /\ Holds(posted, "waited")
             /\ ~Holds(posted', "waited")
  <2>1. Handles("waited") /\ waiting' = waiting /\ builder' = builder /\ wiper' = wiper
    BY <1>19 DEF OnWaited, calls
  <2>2. window' = "finishing" => window = "finishing" \/ "waited" = "built"
    BY <1>19 DEF OnWaited
  <2> QED
    BY <1>18, <2>1, <2>2
<1>20. ASSUME OnCoach
      PROVE  /\ Sound /\ Waited /\ Built /\ Coached
             /\ line' = "late" \/ Holds(posted, "coach")
  <2>1. PICK what \in {"coach", "late"} : Handles(what) /\ line' = what
    BY <1>20 DEF OnCoach
  <2>2. /\ waiting' = waiting /\ builder' = builder /\ wiper' = wiper
        /\ window' = "finishing" => window = "finishing" \/ what = "built"
    BY <1>20 DEF OnCoach, calls
  <2>3. Sound /\ Waited /\ Built /\ Coached /\ Holds(posted, what)
    BY <1>18, <2>1, <2>2
  <2> QED
    BY <2>1, <2>3
<1>21. ASSUME OnFull
      PROVE  /\ Sound /\ Waited /\ Built /\ Coached
             /\ Holds(posted, "full")
  <2>1. Handles("full") /\ waiting' = waiting /\ builder' = builder /\ wiper' = wiper
    BY <1>21 DEF OnFull, calls
  <2>2. window' = "finishing" => window = "finishing" \/ "full" = "built"
    BY <1>21 DEF OnFull
  <2> QED
    BY <1>18, <2>1, <2>2
<1>22. ASSUME OnBuilt
      PROVE  /\ Sound /\ Waited /\ Built /\ Coached
             /\ Holds(posted, "built")
             /\ ~Holds(posted', "built")
             /\ ~Holds(posted', "coach")
  <2>1. Handles("built") /\ waiting' = waiting /\ builder' = builder /\ wiper' = wiper
    BY <1>22 DEF OnBuilt, calls
  <2>2. window' = "finishing" => window = "finishing" \/ "built" = "built"
    BY <1>22 DEF OnBuilt
  <2> QED
    BY <1>18, <2>1, <2>2
<1>23. ASSUME OnWiped
      PROVE  /\ Sound /\ Waited /\ Built /\ Coached
             /\ Holds(posted, "wiped")
  <2>1. Handles("wiped") /\ waiting' = waiting /\ builder' = builder /\ wiper' = wiper
    BY <1>23 DEF OnWiped, calls
  <2>2. window' = "finishing" => window = "finishing" \/ "wiped" = "built"
    BY <1>23 DEF OnWiped
  <2> QED
    BY <1>18, <2>1, <2>2
<1> HIDE DEF Sound, Waited, Built, Coached, Aside
<1>24. Sound /\ Waited /\ Built /\ Coached
  BY <1>2, <1>3, <1>4, <1>10, <1>11, <1>12, <1>13, <1>14, <1>15, <1>16, <1>17,
     <1>19, <1>20, <1>21, <1>22, <1>23, <1>5, <1>6, <1>7, <1>8,
     <1>9
  DEF WizardNext, CameraNext, ButtonsNext, CloseNext, ServiceNext
<1> QED
  BY <1>24, <1>19, <1>20, <1>22 DEF Sound, Waited, Built, Coached

\* The process leaves nothing behind.
LEMMA GoneStep ==
  ASSUME Places, GoneInv,
         [WizardNext]_wizardVars
  PROVE  GoneInv'
<1>1. ASSUME DiscardPending \/ Killed
      PROVE  GoneInv'
  BY <1>1 DEF DiscardPending, Exits, EmptyPending, Awaited, Guide, server, Killed,
    GoneInv, Places
<1>2. ASSUME WaitOver \/ OnWaited \/ CameraOpens
      PROVE  GoneInv'
  BY <1>2 DEF WaitOver, Post, camera, session, server, folders, record, Running,
    OnWaited, Handles, AskLease, Guide, calls, Usable, CameraOpens, ui, GoneInv,
    Places
<1>3. ASSUME StartRenewal \/ RenewalReturns \/ ReadHangs \/ ReadReturns \/ LoopEnds
      PROVE  GoneInv'
  BY <1>3 DEF StartRenewal, Running, ui, session, calls, server, folders, record,
    RenewalReturns, AskLease, ReadHangs, ReadReturns, LoopEnds, GoneInv, Places
<1>4. ASSUME Frame
      PROVE  GoneInv'
  <2>1. window' = window
    BY <1>4, FrameDoes
  <2>2. window # "gone"
    BY <1>4 DEF Frame, FrameBegins, LooksAtPin, Advises, LooksAtArm, Disarms, Pins, Tells,
      Aims, Saves, GoneInv
  <2> QED
    BY <2>1, <2>2 DEF GoneInv
<1>5. ASSUME StartCapture
      PROVE  GoneInv'
  BY <1>5 DEF StartCapture, Usable, Choose, Guide, camera, calls, server,
    EmptyPending, Awaited, GoneInv, Places
<1>6. ASSUME OnBuild \/ BuildAnswered \/ BuildGivesUp \/ OnBuilt \/ BuildOver
      PROVE  GoneInv'
  BY <1>6 DEF OnBuild, Usable, HasShots, Folder, Guide, camera, server, folders,
    BuildAnswered, Post, session, record, Running, BuildGivesUp, ui, OnBuilt, Handles,
    calls, BuildOver, GoneInv, Places
<1>7. ASSUME OnCoach \/ OnFull \/ OnWiped
      PROVE  GoneInv'
  BY <1>7 DEF OnCoach, Handles, camera, session, calls, server, folders, record,
    Usable, OnFull, Guide, OnWiped, GoneInv, Places
<1>8. ASSUME StopCapture \/ OnWipe \/ WipeAnswered \/ WipeGivesUp
      PROVE  GoneInv'
  BY <1>8 DEF StopCapture, Usable, Guide, camera, calls, server, folders, record,
    OnWipe, session, WipeAnswered, Post, Running, WipeGivesUp, ui, GoneInv, Places
<1>9. ASSUME OnClose \/ Joined \/ ReleaseLease \/ Launched
      PROVE  GoneInv'
  BY <1>9 DEF OnClose, Usable, camera, calls, server, folders, record, Joined,
    session, ReleaseLease, Launched, WindowOpens, GoneInv, Places
<1>10. ASSUME ServeBuild \/ ServeClear \/ ServiceStarts \/ Pass
      PROVE  GoneInv'
  BY <1>10 DEF ServeBuild, ui, camera, session, folders, ServeClear, record,
    ServiceStarts, calls, Pass, GoneInv, Places
<1>11. ASSUME BuildEnds
      PROVE  GoneInv'
  BY <1>11 DEF BuildEnds, HasShots, folders, ui, camera, session, record, GoneInv,
    Places
<1>12. ASSUME ClearEnds
      PROVE  GoneInv'
  BY <1>12 DEF ClearEnds, ui, camera, session, record, GoneInv, Places
<1>13. ASSUME ServiceDies
      PROVE  GoneInv'
  BY <1>13 DEF ServiceDies, ui, session, folders, record, GoneInv, Places
<1>14. ASSUME UNCHANGED wizardVars PROVE GoneInv'
  BY <1>14 DEF wizardVars, ui, camera, session, calls, server, folders, record,
    GoneInv, Places
<1> QED
  BY <1>1, <1>2, <1>3, <1>4, <1>5, <1>6, <1>7, <1>8, <1>9, <1>10, <1>11, <1>12, <1>13,
    <1>14
  DEF WizardNext, CameraNext, ButtonsNext, CloseNext, ServiceNext

\* The outcome is shown to a queue without advice.
LEMMA GuideStep ==
  ASSUME GuideInv,
         Holds(posted', "coach") => Holds(posted, "coach") \/ ~pinned,
         OnBuilt => ~Holds(posted', "coach"),
         [WizardNext]_wizardVars
  PROVE  GuideInv'
<1> DEFINE Aside == /\ pinned => pinned'
                    /\ window' = "finishing" => window = "finishing"
                    /\ line' = "outcome" => line = "outcome"
<1>a. ASSUME Aside PROVE GuideInv'
  BY <1>a DEF GuideInv
<1>1. ASSUME OnBuilt \/ BuildOver \/ StartCapture \/ OnWiped
      PROVE  GuideInv'
  BY <1>1 DEF OnBuilt, Handles, camera, session, calls, server, folders, record,
    Usable, BuildOver, StartCapture, Choose, Guide, EmptyPending, Awaited, OnWiped,
    GuideInv
<1>2. ASSUME DiscardPending \/ Killed
      PROVE  GuideInv'
  BY <1>2 DEF DiscardPending, Exits, EmptyPending, Awaited, Guide, server, Killed,
    GuideInv
<1>3. ASSUME \/ WaitOver \/ CameraOpens \/ StartRenewal \/ ReadHangs \/ ReadReturns
             \/ LoopEnds
      PROVE  Aside
  BY <1>3 DEF WaitOver, Post, camera, session, server, folders, record, Running,
    CameraOpens, ui, calls, StartRenewal, ReadHangs, ReadReturns, LoopEnds
<1>4. ASSUME OnWaited
      PROVE  Aside
  BY <1>4 DEF OnWaited, Handles, AskLease, Guide, session, calls, folders, record,
    Usable
<1>5. ASSUME RenewalReturns
      PROVE  Aside
  BY <1>5 DEF RenewalReturns, AskLease, ui, session, calls, folders, record
<1>6. ASSUME Frame
      PROVE  Aside
  BY <1>6, FrameDoes, FramePins
<1>7. ASSUME \/ OnCoach \/ OnFull \/ StopCapture \/ OnBuild \/ BuildAnswered
             \/ BuildGivesUp \/ OnWipe \/ WipeAnswered \/ WipeGivesUp \/ OnClose
             \/ Joined \/ ReleaseLease \/ Launched \/ ServeBuild \/ ServeClear
             \/ ServiceStarts \/ Pass
      PROVE  Aside
  BY <1>7 DEF OnCoach, Handles, camera, session, calls, server, folders, record,
    Usable, OnFull, Guide, StopCapture, OnBuild, HasShots, Folder, BuildAnswered,
    Post, Running, BuildGivesUp, ui, OnWipe, WipeAnswered, WipeGivesUp, OnClose,
    Joined, ReleaseLease, Launched, WindowOpens, ServeBuild, ServeClear,
    ServiceStarts, Pass
<1>8. ASSUME BuildEnds
      PROVE  Aside
  BY <1>8 DEF BuildEnds, HasShots, folders, ui, camera, session, record
<1>9. ASSUME ClearEnds
      PROVE  Aside
  BY <1>9 DEF ClearEnds, ui, camera, session, record
<1>10. ASSUME ServiceDies
      PROVE  Aside
  BY <1>10 DEF ServiceDies, ui, session, folders, record
<1>11. ASSUME UNCHANGED wizardVars PROVE GuideInv'
  BY <1>11 DEF wizardVars, ui, camera, session, calls, server, folders, record,
    GuideInv
<1> QED
  BY <1>1, <1>2, <1>3, <1>4, <1>5, <1>6, <1>7, <1>8, <1>9, <1>10, <1>11, <1>a
  DEF WizardNext, CameraNext, ButtonsNext, CloseNext, ServiceNext

\* The wizard is building from the call to the outcome.
LEMMA BuildStep ==
  ASSUME BuildWhere, GoneInv',
         (builder # "none" \/ window = "finishing") => ~Holds(posted, "built"),
         Holds(posted', "built") => Holds(posted, "built") \/ builder = "answered",
         OnBuilt => Holds(posted, "built") /\ ~Holds(posted', "built"),
         [WizardNext]_wizardVars
  PROVE  BuildWhere'
<1> DEFINE Aside == /\ building' = building
                    /\ \/ builder' = builder /\ request' = request
                       \/ builder' \in {"answered", "none"}
                    /\ builder' # "none" => builder # "none"
                    /\ (builder = "served" /\ builder' = "served") =>
                         busyWith' = busyWith /\ reading' = reading
                    /\ window' = "finishing" => window = "finishing"
<1>a. ASSUME Aside PROVE BuildWhere'
  BY <1>a DEF BuildWhere
<1>g. window' = "gone" => ~Holds(posted', "built")
  BY EmptyQueue DEF GoneInv
<1>1. ASSUME \/ WaitOver \/ CameraOpens \/ StartRenewal \/ ReadHangs \/ ReadReturns
             \/ LoopEnds
      PROVE  Aside
  BY <1>1 DEF WaitOver, Post, camera, session, server, folders, record, Running,
    CameraOpens, ui, calls, StartRenewal, ReadHangs, ReadReturns, LoopEnds
<1>2. ASSUME OnWaited
      PROVE  Aside
  BY <1>2 DEF OnWaited, Handles, AskLease, Guide, session, calls, folders, record,
    Usable
<1>3. ASSUME RenewalReturns
      PROVE  Aside
  BY <1>3 DEF RenewalReturns, AskLease, ui, session, calls, folders, record
<1>4. ASSUME Frame
      PROVE  Aside
  BY <1>4, FrameDoes
<1>5. ASSUME \/ OnCoach \/ OnFull \/ StopCapture \/ StartCapture \/ BuildAnswered
             \/ BuildGivesUp
      PROVE  Aside
  BY <1>5 DEF OnCoach, Handles, camera, session, calls, server, folders, record,
    Usable, OnFull, Guide, StopCapture, StartCapture, Choose, EmptyPending, Awaited,
    BuildAnswered, Post, Running, BuildGivesUp, ui
<1>6. ASSUME OnBuild \/ BuildOver
      PROVE  BuildWhere'
  BY <1>6 DEF OnBuild, Usable, HasShots, Folder, Guide, camera, server, folders,
    BuildOver, calls, record, BuildWhere
<1>7. ASSUME OnBuilt
      PROVE  BuildWhere'
  BY <1>7 DEF OnBuilt, Handles, camera, session, calls, server, folders, record,
    Usable, BuildWhere
<1>8. ASSUME \/ OnWipe \/ WipeAnswered \/ WipeGivesUp \/ OnClose \/ Joined
             \/ ReleaseLease \/ Launched
      PROVE  Aside
  BY <1>8 DEF OnWipe, Usable, camera, session, server, folders, record, WipeAnswered,
    Post, Running, WipeGivesUp, ui, OnClose, calls, Joined, ReleaseLease, Launched,
    WindowOpens
<1>9. ASSUME OnWiped
      PROVE  Aside
  BY <1>9 DEF OnWiped, Handles, Guide, camera, calls, server, folders, Usable
<1>10. ASSUME DiscardPending \/ Killed
      PROVE  BuildWhere'
  BY <1>10, <1>g DEF DiscardPending, Exits, EmptyPending, Awaited, Guide, server,
    Killed, BuildWhere
<1>11. ASSUME ServeBuild
      PROVE  BuildWhere'
  BY <1>11 DEF ServeBuild, ui, camera, session, folders, BuildWhere
<1>12. ASSUME ServeClear
      PROVE  BuildWhere'
  BY <1>12 DEF ServeClear, ui, camera, session, folders, record, BuildWhere
<1>13. ASSUME ServiceStarts \/ Pass
      PROVE  Aside
  BY <1>13 DEF ServiceStarts, ui, camera, session, calls, folders, record, Pass
<1>14. ASSUME BuildEnds
      PROVE  Aside
  BY <1>14 DEF BuildEnds, HasShots, folders, ui, camera, session, record
<1>15. ASSUME ClearEnds
      PROVE  BuildWhere'
  BY <1>15 DEF ClearEnds, ui, camera, session, record, BuildWhere
<1>16. ASSUME ServiceDies
      PROVE  Aside
  BY <1>16 DEF ServiceDies, ui, session, folders, record
<1>17. ASSUME UNCHANGED wizardVars PROVE BuildWhere'
  BY <1>17 DEF wizardVars, ui, camera, session, calls, server, folders, record,
    BuildWhere
<1> QED
  BY <1>1, <1>2, <1>3, <1>4, <1>5, <1>6, <1>7, <1>8, <1>9, <1>10, <1>11, <1>12, <1>13,
    <1>14, <1>15, <1>16, <1>17, <1>a
  DEF WizardNext, CameraNext, ButtonsNext, CloseNext, ServiceNext

\* Only the frame under way at the click goes on beside a build.
LEMMA FrameStep ==
  ASSUME FrameInv, BuildWhere, GoneInv, OnBuilt => Holds(posted, "built"),
         [WizardNext]_wizardVars
  PROVE  FrameInv'
<1> DEFINE Aside == /\ UNCHANGED <<frame, caught>>
                    /\ building' => building
                    /\ pinned' => pinned
                    /\ mode' = mode \/ (mode # "replace" /\ mode' = "add")
                    /\ forsaken => forsaken'
<1>a. ASSUME Aside PROVE FrameInv'
  BY <1>a DEF FrameInv
<1>1. ASSUME \/ WaitOver \/ CameraOpens \/ StartRenewal \/ ReadHangs \/ ReadReturns
             \/ LoopEnds
      PROVE  Aside
  BY <1>1 DEF WaitOver, Post, camera, session, server, folders, record, Running,
    CameraOpens, ui, calls, StartRenewal, ReadHangs, ReadReturns, LoopEnds
<1>2. ASSUME OnWaited
      PROVE  Aside
  BY <1>2 DEF OnWaited, Handles, AskLease, Guide, session, calls, folders, record,
    Usable
<1>3. ASSUME RenewalReturns
      PROVE  Aside
  BY <1>3 DEF RenewalReturns, AskLease, ui, session, calls, folders, record
<1>4. ASSUME \/ OnCoach \/ OnFull \/ StopCapture \/ BuildAnswered \/ BuildGivesUp
             \/ BuildOver
      PROVE  Aside
  BY <1>4 DEF OnCoach, Handles, camera, session, calls, server, folders, record,
    Usable, OnFull, Guide, StopCapture, BuildAnswered, Post, Running, BuildGivesUp,
    ui, BuildOver
<1>5. ASSUME \/ OnWipe \/ WipeAnswered \/ WipeGivesUp \/ OnClose \/ Joined
             \/ ReleaseLease
      PROVE  Aside
  BY <1>5 DEF OnWipe, Usable, camera, session, server, folders, record, WipeAnswered,
    Post, Running, WipeGivesUp, ui, OnClose, calls, Joined, ReleaseLease
<1>6. ASSUME BuildEnds
      PROVE  Aside
  BY <1>6 DEF BuildEnds, HasShots, folders, ui, camera, session, record
<1>7. ASSUME ClearEnds
      PROVE  Aside
  BY <1>7 DEF ClearEnds, ui, camera, session, record
<1>8. ASSUME ServiceDies
      PROVE  Aside
  BY <1>8 DEF ServiceDies, ui, session, folders, record
<1>9. ASSUME ServeBuild \/ ServeClear \/ ServiceStarts \/ Pass
      PROVE  Aside
  BY <1>9 DEF ServeBuild, ServeClear, ui, camera, session, folders, record,
    ServiceStarts, calls, Pass
<1>10. ASSUME Frame
      PROVE  FrameInv'
  <2>1. UNCHANGED <<building, mode, forsaken>>
    BY <1>10, FrameDoes
  <2>2. CASE FrameBegins
    BY <2>1, <2>2 DEF FrameBegins, FrameGoesOn, FrameInv
  <2>3. CASE LooksAtPin
    BY <2>1, <2>3 DEF LooksAtPin, FrameGoesOn, FrameInv, ui
  <2>4. CASE LooksAtArm
    BY <2>1, <2>4 DEF LooksAtArm, FrameGoesOn, FrameEnds, FrameInv
  <2>5. CASE Aims
    BY <2>1, <2>5 DEF Aims, Folder, FrameGoesOn, FrameInv
  <2>6. CASE Advises \/ Disarms \/ Pins \/ Tells \/ Saves
    BY <2>1, <2>6 DEF Advises, Disarms, Pins, Tells, Saves, FrameGoesOn, FrameEnds,
      FrameInv
  <2> QED
    BY <1>10, <2>2, <2>3, <2>4, <2>5, <2>6 DEF Frame
<1>11. ASSUME StartCapture
      PROVE  FrameInv'
  <2>1. UNCHANGED <<frame, caught, building>> /\ pinned' = FALSE /\ Choose
    BY <1>11 DEF StartCapture, camera
  <2>2. \/ UNCHANGED <<mode, forsaken>>
        \/ mode = "none" /\ mode' = "add" /\ UNCHANGED forsaken
        \/ mode' = "replace"
    BY <2>1 DEF Choose
  <2> QED
    BY <2>1, <2>2 DEF FrameInv
<1>12. ASSUME OnBuild
      PROVE  FrameInv'
  <2>1. caught' = (frame # "none") /\ UNCHANGED <<frame, mode, forsaken>>
    BY <1>12 DEF OnBuild, camera
  <2>2. frame' # "none" => caught'
    BY <2>1
  <2> QED
    BY <2>1, <2>2 DEF FrameInv
<1>13. ASSUME OnBuilt
      PROVE  FrameInv'
  <2>1. UNCHANGED <<frame, caught, building, mode, forsaken>>
    BY <1>13 DEF OnBuilt, camera, session, record
  <2>2. building
    BY <1>13 DEF BuildWhere
  <2> QED
    BY <2>1, <2>2 DEF FrameInv
<1>14. ASSUME OnWiped
      PROVE  FrameInv'
  <2>1. UNCHANGED <<frame, caught, building>> /\ pinned' = FALSE
        /\ forsaken' = (forsaken \/ mode = "replace")
    BY <1>14 DEF OnWiped, camera
  <2> QED
    BY <2>1 DEF FrameInv
<1>15. ASSUME DiscardPending \/ Killed
      PROVE  FrameInv'
  BY <1>15 DEF DiscardPending, Killed, Exits, FrameInv
<1>16. ASSUME Launched
      PROVE  FrameInv'
  BY <1>16 DEF Launched, WindowOpens, camera, GoneInv, FrameInv
<1>17. ASSUME UNCHANGED wizardVars PROVE Aside
  BY <1>17 DEF wizardVars, ui, camera, session, calls, server, folders, record
<1> QED
  BY <1>1, <1>2, <1>3, <1>4, <1>5, <1>6, <1>7, <1>8, <1>9, <1>10, <1>11, <1>12, <1>13,
    <1>14, <1>15, <1>16, <1>17, <1>a
  DEF WizardNext, CameraNext, ButtonsNext, CloseNext, ServiceNext

\* Photographs of a session are not touched while the wizard waits for its build.
LEMMA SessionStep ==
  ASSUME SessionKept, BuildWhere, FrameInv, Places, GoneInv,
         [WizardNext]_wizardVars
  PROVE  SessionKept'
<1> DEFINE Aside ==
      /\ UNCHANGED <<mode, crossed, spoiled, forsaken, stuck>>
      /\ old' => old
      /\ fresh' => fresh
      /\ (builder' = builder /\ request' = request) \/ builder' \in {"answered", "none"}
<1>a. ASSUME Aside PROVE SessionKept'
  BY <1>a DEF SessionKept
<1>b. ASSUME ~building, NEW dir PROVE ~Awaited(dir)
  BY <1>b DEF BuildWhere, Awaited
<1>1. ASSUME \/ WaitOver \/ CameraOpens \/ StartRenewal \/ ReadHangs \/ ReadReturns
             \/ LoopEnds
      PROVE  Aside
  BY <1>1 DEF WaitOver, Post, camera, session, server, folders, record, Running,
    CameraOpens, ui, calls, StartRenewal, ReadHangs, ReadReturns, LoopEnds
<1>2. ASSUME OnWaited
      PROVE  Aside
  BY <1>2 DEF OnWaited, Handles, AskLease, Guide, session, calls, folders, record,
    Usable
<1>3. ASSUME RenewalReturns
      PROVE  Aside
  BY <1>3 DEF RenewalReturns, AskLease, ui, session, calls, folders, record
<1>4. ASSUME \/ OnCoach \/ OnFull \/ StopCapture \/ BuildAnswered \/ BuildGivesUp
             \/ BuildOver \/ OnBuilt
      PROVE  Aside
  BY <1>4 DEF OnCoach, Handles, camera, session, calls, server, folders, record,
    Usable, OnFull, Guide, StopCapture, BuildAnswered, Post, Running, BuildGivesUp,
    ui, BuildOver, OnBuilt
<1>5. ASSUME \/ OnWipe \/ WipeAnswered \/ WipeGivesUp \/ OnClose \/ Joined
             \/ ReleaseLease
      PROVE  Aside
  BY <1>5 DEF OnWipe, Usable, camera, session, server, folders, record, WipeAnswered,
    Post, Running, WipeGivesUp, ui, OnClose, calls, Joined, ReleaseLease
<1>6. ASSUME BuildEnds
      PROVE  Aside
  <2>1. /\ UNCHANGED <<mode, crossed, spoiled, forsaken, stuck, request>>
        /\ builder' = builder \/ builder' = "answered"
        /\ \/ fresh' = (fresh /\ reading # "pending") /\ old' = (old /\ reading # "pending")
           \/ UNCHANGED <<fresh, old>>
    BY <1>6 DEF BuildEnds, folders, session, record
  <2>2. CASE fresh' = (fresh /\ reading # "pending") /\ old' = (old /\ reading # "pending")
    <3>1. fresh' => fresh
      BY ONLY <2>2
    <3>2. old' => old
      BY ONLY <2>2
    <3> QED
      BY <2>1, <3>1, <3>2
  <2>3. CASE UNCHANGED <<fresh, old>>
    BY <2>1, <2>3
  <2> QED
    BY <2>1, <2>2, <2>3
<1>7. ASSUME ClearEnds
      PROVE  Aside
  BY <1>7 DEF ClearEnds, ui, camera, session, record
<1>8. ASSUME ServiceDies
      PROVE  Aside
  BY <1>8 DEF ServiceDies, ui, session, folders, record
<1>9. ASSUME ServeClear \/ ServiceStarts \/ Pass
      PROVE  Aside
  BY <1>9 DEF ServeClear, ui, camera, session, folders, record, ServiceStarts, calls,
    Pass
<1>10. ASSUME Frame
      PROVE  SessionKept'
  <2>1. /\ UNCHANGED <<mode, builder, request, old, stuck, crossed, forsaken>>
        /\ \/ UNCHANGED <<fresh, spoiled>>
           \/ /\ frame \in {"enroll", "pending"}
              /\ fresh' = (fresh \/ frame = "pending")
              /\ spoiled' = (spoiled \/ (Awaited(frame) /\ ~caught))
    BY <1>10, FrameDoes
  <2>2. (Awaited(frame) /\ frame # "none") => caught
    BY <1>b DEF FrameInv
  <2>3. spoiled' => spoiled
    BY <2>1, <2>2
  <2>4. fresh' => fresh \/ mode = "replace" \/ forsaken
    BY <2>1 DEF FrameInv
  <2> QED
    BY <2>1, <2>3, <2>4 DEF SessionKept
<1>11. ASSUME StartCapture
      PROVE  SessionKept'
  <2>1. UNCHANGED <<builder, request, crossed>> /\ Choose
    BY <1>11 DEF StartCapture, calls
  <2>2. CASE UNCHANGED <<mode, fresh, old, stuck, spoiled, forsaken>>
    BY <2>1, <2>2 DEF SessionKept
  <2>3. CASE mode = "none" /\ mode' = "add"
             /\ UNCHANGED <<fresh, old, stuck, spoiled, forsaken>>
    BY <2>1, <2>3 DEF SessionKept
  <2>4. CASE /\ mode = "none" /\ mode' = "replace" /\ EmptyPending
             /\ spoiled' = (spoiled \/ Awaited("pending"))
    <3>1. ~fresh' /\ (old' => stuck')
      BY <2>4 DEF EmptyPending
    <3>2. Awaited("pending") => crossed
      BY <2>4 DEF SessionKept, BuildWhere, Awaited
    <3>3. spoiled' => spoiled \/ Awaited("pending")
      BY <2>4
    <3> QED
      BY <2>1, <2>4, <3>1, <3>2, <3>3 DEF SessionKept
  <2> QED
    BY <2>1, <2>2, <2>3, <2>4 DEF Choose
<1>12. ASSUME OnBuild
      PROVE  SessionKept'
  BY <1>12 DEF OnBuild, Usable, HasShots, Folder, Guide, camera, server, folders,
    SessionKept
<1>13. ASSUME OnWiped
      PROVE  SessionKept'
  <2>1. /\ mode' = "none" /\ UNCHANGED <<builder, request, spoiled, stuck, fresh, old>>
        /\ forsaken' = (forsaken \/ mode = "replace")
        /\ crossed' = (crossed \/ building)
    BY <1>13 DEF OnWiped, calls, folders
  <2>2. (crossed => crossed') /\ (building => crossed')
    BY <2>1
  <2>3. (forsaken => forsaken') /\ (mode = "replace" => forsaken')
    BY <2>1
  <2>4. builder # "none" => building
    BY DEF BuildWhere
  <2> QED
    BY <2>1, <2>2, <2>3, <2>4 DEF SessionKept
<1>14. ASSUME ServeBuild
      PROVE  SessionKept'
  BY <1>14 DEF ServeBuild, ui, camera, session, folders, record, SessionKept
<1>15. ASSUME DiscardPending
      PROVE  SessionKept'
  <2>1. mode' = "none" /\ builder' = "none" /\ crossed' = crossed
    BY <1>15 DEF DiscardPending, Exits
  <2>2. CASE /\ ~building /\ EmptyPending
             /\ spoiled' = (spoiled \/ Awaited("pending")) /\ UNCHANGED forsaken
    <3>1. ~fresh'
      BY <2>2 DEF EmptyPending
    <3>2. spoiled' => spoiled
      BY <1>b, <2>2
    <3> QED
      BY <2>1, <3>1, <3>2 DEF SessionKept
  <2>3. CASE /\ mode # "replace" \/ building
             /\ forsaken' = (forsaken \/ building)
             /\ UNCHANGED <<fresh, old, stuck, spoiled>>
    <3>1. (forsaken => forsaken') /\ (building => forsaken')
      BY <2>3
    <3> QED
      BY <2>1, <2>3, <3>1 DEF SessionKept
  <2> QED
    BY <1>15, <2>2, <2>3 DEF DiscardPending
<1>16. ASSUME Killed
      PROVE  SessionKept'
  BY <1>16 DEF Killed, Exits, Guide, server, SessionKept
<1>17. ASSUME Launched
      PROVE  SessionKept'
  <2>1. /\ mode = "none" /\ builder = "none" /\ UNCHANGED <<mode, builder>>
        /\ fresh' = FALSE /\ spoiled' = FALSE
    BY <1>17 DEF Launched, WindowOpens, GoneInv, session
  <2> QED
    BY <2>1 DEF SessionKept
<1>18. ASSUME UNCHANGED wizardVars PROVE SessionKept'
  BY <1>18 DEF wizardVars, ui, camera, session, calls, server, folders, record,
    SessionKept
<1> QED
  BY <1>1, <1>2, <1>3, <1>4, <1>5, <1>6, <1>7, <1>8, <1>9, <1>10, <1>11, <1>12, <1>13,
    <1>14, <1>15, <1>16, <1>17, <1>18, <1>a
  DEF WizardNext, CameraNext, ButtonsNext, CloseNext, ServiceNext

\* The camera is opened once, and closed before the lease is released or known to
\* be lapsed.
LEMMA CameraStep ==
  ASSUME CameraWhere, GoneInv, waiting => ~Holds(posted, "waited"),
         Holds(posted', "waited") => Holds(posted, "waited") \/ waiting,
         OnWaited => Holds(posted, "waited") /\ ~Holds(posted', "waited"),
         [WizardNext]_wizardVars
  PROVE  CameraWhere'
<1> DEFINE Aside == /\ cam' = cam
                    /\ waiting' => waiting
                    /\ capture' => capture
                    /\ lapsed => lapsed'
                    /\ window' \in {"releasing", "discarding"}
                         => window \in {"releasing", "discarding"}
<1>a. ASSUME Aside PROVE CameraWhere'
  BY <1>a DEF CameraWhere
<1>1. ASSUME WaitOver
      PROVE  Aside
  BY <1>1 DEF WaitOver, Post, camera, session, server, folders, record, Running
<1>2. ASSUME Frame
      PROVE  Aside
  BY <1>2, FrameDoes
<1>3. ASSUME BuildEnds
      PROVE  Aside
  BY <1>3 DEF BuildEnds, HasShots, folders, ui, camera, session, record
<1>4. ASSUME ClearEnds
      PROVE  Aside
  BY <1>4 DEF ClearEnds, ui, camera, session, record
<1>5. ASSUME ServiceDies
      PROVE  Aside
  BY <1>5 DEF ServiceDies, ui, session, folders, record
<1>6. ASSUME Pass
      PROVE  Aside
  BY <1>6 DEF Pass, ui, session, calls, folders, record
<1>7. ASSUME \/ OnCoach \/ OnFull \/ StopCapture \/ OnBuild \/ BuildAnswered
             \/ BuildGivesUp
      PROVE  Aside
  BY <1>7 DEF OnCoach, Handles, camera, session, calls, server, folders, record,
    Usable, OnFull, Guide, StopCapture, OnBuild, HasShots, Folder, BuildAnswered,
    Post, Running, BuildGivesUp, ui
<1>8. ASSUME BuildOver \/ OnBuilt \/ OnWipe \/ WipeAnswered \/ WipeGivesUp
      PROVE  Aside
  BY <1>8 DEF BuildOver, camera, calls, server, folders, record, OnBuilt, Handles,
    session, Usable, OnWipe, WipeAnswered, Post, Running, WipeGivesUp, ui
<1>9. ASSUME StartCapture
      PROVE  Aside
  BY <1>9 DEF StartCapture, Usable, Choose, Guide, camera, calls, server,
    EmptyPending, Awaited
<1>10. ASSUME OnWiped
      PROVE  Aside
  BY <1>10 DEF OnWiped, Handles, Guide, camera, calls, server, folders, Usable
<1>11. ASSUME OnClose \/ ReleaseLease
      PROVE  Aside
  BY <1>11 DEF OnClose, Usable, camera, calls, server, folders, record, ReleaseLease,
    session
<1>12. ASSUME ServeBuild \/ ServeClear \/ ServiceStarts
      PROVE  Aside
  BY <1>12 DEF ServeBuild, ui, camera, session, folders, ServeClear, record,
    ServiceStarts, calls
<1>13. ASSUME OnWaited
      PROVE  CameraWhere'
  <2>1. /\ ~waiting /\ cam = "none" /\ ~capture
        /\ window' = window /\ waiting' = waiting /\ capture' = capture /\ window = "open"
    BY <1>13 DEF OnWaited, Handles, Usable, calls, CameraWhere
  <2> QED
    BY <1>13, <2>1 DEF CameraWhere
<1>14. ASSUME CameraOpens
      PROVE  CameraWhere'
  <2>1. /\ cam = "opening" /\ UNCHANGED <<window, waiting, lapsed>>
        /\ \/ cam' = "looping" /\ capture' = TRUE
           \/ cam' = "ended" /\ UNCHANGED capture
    BY <1>14 DEF CameraOpens, ui, calls
  <2>2. ~waiting /\ ~Holds(posted, "waited") /\ ~capture
    BY <2>1 DEF CameraWhere
  <2> QED
    BY <2>1, <2>2 DEF CameraWhere
<1>15. ASSUME StartRenewal \/ ReadHangs \/ ReadReturns \/ LoopEnds
      PROVE  CameraWhere'
  BY <1>15 DEF StartRenewal, Running, ui, session, calls, server, folders, record,
    ReadHangs, ReadReturns, LoopEnds, CameraWhere
<1>16. ASSUME RenewalReturns
      PROVE  CameraWhere'
  <2>1. /\ cam = "renewing" /\ cam' = "looping" /\ UNCHANGED <<window, waiting, capture>>
        /\ window \in {"releasing", "discarding"} /\ lapsed => lapsed'
    BY <1>16 DEF RenewalReturns, ui, calls
  <2> QED
    BY <2>1 DEF CameraWhere
<1>17. ASSUME Joined
      PROVE  CameraWhere'
  <2>1. /\ UNCHANGED <<cam, capture, waiting>>
        /\ lapsed' = (lapsed \/ cam \notin {"none", "ended"})
    BY <1>17 DEF Joined, calls
  <2>2. cam \notin {"none", "ended"} => lapsed'
    BY <2>1
  <2> QED
    BY <2>1, <2>2 DEF CameraWhere
<1>18. ASSUME DiscardPending \/ Killed
      PROVE  CameraWhere'
  BY <1>18 DEF DiscardPending, Exits, EmptyPending, Awaited, Guide, server, Killed,
    CameraWhere
<1>19. ASSUME Launched
      PROVE  CameraWhere'
  <2>1. cam' = "none" /\ ~capture' /\ window' = "open"
    BY <1>19 DEF Launched, WindowOpens, GoneInv, camera
  <2> QED
    BY <2>1 DEF CameraWhere
<1>20. ASSUME UNCHANGED wizardVars PROVE CameraWhere'
  BY <1>20 DEF wizardVars, ui, camera, session, calls, server, folders, record,
    CameraWhere
<1> QED
  BY <1>1, <1>2, <1>3, <1>4, <1>5, <1>6, <1>7, <1>8, <1>9, <1>10, <1>11, <1>12, <1>13,
    <1>14, <1>15, <1>16, <1>17, <1>18, <1>19, <1>20, <1>a
  DEF WizardNext, CameraNext, ButtonsNext, CloseNext, ServiceNext

\* What is left of the lease and the time since the last renewal.
LEMMA LeaseStep ==
  ASSUME LeaseLeft, CameraWhere, Numbers, OnWaited => Holds(posted, "waited"),
         [WizardNext]_wizardVars
  PROVE  LeaseLeft'
<1> DEFINE Aside == /\ cam' = "opening" => cam = "opening"
                    /\ capture' => capture
                    /\ lapsed => lapsed'
                    /\ UNCHANGED <<lease, since, failures>>
<1>a. ASSUME Aside PROVE LeaseLeft'
  BY <1>a DEF LeaseLeft
<1>n. /\ Lease \in Nat /\ Renew \in Nat /\ 2 * Renew < Lease
      /\ since \in Nat /\ since <= Renew /\ failures \in 0 .. 2 /\ lease \in Nat
  BY WizardAssumption DEF Numbers
<1>1. ASSUME WaitOver
      PROVE  Aside
  BY <1>1 DEF WaitOver, Post, camera, session, server, folders, record, Running
<1>2. ASSUME Frame
      PROVE  Aside
  BY <1>2, FrameDoes
<1>3. ASSUME BuildEnds
      PROVE  Aside
  BY <1>3 DEF BuildEnds, HasShots, folders, ui, camera, session, record
<1>4. ASSUME ClearEnds
      PROVE  Aside
  BY <1>4 DEF ClearEnds, ui, camera, session, record
<1>5. ASSUME \/ OnCoach \/ OnFull \/ StopCapture \/ OnBuild \/ BuildAnswered
             \/ BuildGivesUp
      PROVE  Aside
  BY <1>5 DEF OnCoach, Handles, camera, session, calls, server, folders, record,
    Usable, OnFull, Guide, StopCapture, OnBuild, HasShots, Folder, BuildAnswered,
    Post, Running, BuildGivesUp, ui
<1>6. ASSUME BuildOver \/ OnBuilt \/ OnWipe \/ WipeAnswered \/ WipeGivesUp
      PROVE  Aside
  BY <1>6 DEF BuildOver, camera, calls, server, folders, record, OnBuilt, Handles,
    session, Usable, OnWipe, WipeAnswered, Post, Running, WipeGivesUp, ui
<1>7. ASSUME StartCapture
      PROVE  Aside
  BY <1>7 DEF StartCapture, Usable, Choose, Guide, camera, calls, server,
    EmptyPending, Awaited
<1>8. ASSUME OnWiped
      PROVE  Aside
  BY <1>8 DEF OnWiped, Handles, Guide, camera, calls, server, folders, Usable
<1>9. ASSUME OnClose
      PROVE  Aside
  BY <1>9 DEF OnClose, Usable, camera, calls, server, folders, record
<1>10. ASSUME ServeBuild \/ ServeClear \/ ServiceStarts
      PROVE  Aside
  BY <1>10 DEF ServeBuild, ui, camera, session, folders, ServeClear, record,
    ServiceStarts, calls
<1>11. ASSUME StartRenewal \/ ReadHangs \/ ReadReturns
      PROVE  Aside
  BY <1>11 DEF StartRenewal, Running, ui, session, calls, server, folders, record,
    ReadHangs, ReadReturns
<1>12. ASSUME LoopEnds
      PROVE  Aside
  BY <1>12 DEF LoopEnds, Running, ui, session, calls, server, folders, record
<1>13. ASSUME Joined
      PROVE  Aside
  BY <1>13 DEF Joined, session, calls, server, folders, record
<1>14. ASSUME Launched
      PROVE  Aside
  BY <1>14 DEF Launched, WindowOpens, camera, session, server
<1>15. ASSUME OnWaited
      PROVE  LeaseLeft'
  <2>1. cam = "none" /\ ~capture
    BY <1>15 DEF CameraWhere
  <2>2. PICK answered \in BOOLEAN :
          /\ AskLease(answered) /\ failures' = 0 /\ capture' = capture
          /\ cam' = IF answered THEN "opening" ELSE cam
    BY <1>15 DEF OnWaited
  <2>3. cam' = "opening" => lease' = Lease
    BY <2>1, <2>2 DEF AskLease
  <2> QED
    BY <2>1, <2>2, <2>3 DEF LeaseLeft
<1>16. ASSUME CameraOpens
      PROVE  LeaseLeft'
  <2>1. /\ cam = "opening" /\ UNCHANGED <<lapsed, lease, failures>>
        /\ \/ cam' = "looping" /\ since' = 0
           \/ cam' = "ended" /\ UNCHANGED capture
    BY <1>16 DEF CameraOpens, server
  <2>2. ~capture
    BY <2>1 DEF CameraWhere
  <2>3. ~lapsed => lease = Lease /\ failures = 0
    BY <2>1 DEF LeaseLeft
  <2>4. CASE cam' = "looping" /\ since' = 0
    BY <1>n, <2>1, <2>3, <2>4 DEF LeaseLeft
  <2>5. CASE cam' = "ended" /\ UNCHANGED capture
    BY <2>2, <2>5 DEF LeaseLeft
  <2> QED
    BY <2>1, <2>4, <2>5
<1>17. ASSUME RenewalReturns
      PROVE  LeaseLeft'
  <2>1. PICK answered \in BOOLEAN :
          /\ AskLease(answered)
          /\ failures' = IF answered THEN 0 ELSE IF failures < 2 THEN failures + 1 ELSE 2
          /\ lapsed' = IF answered THEN window \notin {"open", "finishing", "joining"}
                       ELSE lapsed \/ failures' = 2
    BY <1>17 DEF RenewalReturns
  <2>2. since' = 0 /\ cam' = "looping" /\ capture' = capture
    BY <1>17 DEF RenewalReturns
  <2>3. CASE answered
    <3>1. lease' = Lease /\ failures' = 0
      BY <2>1, <2>3 DEF AskLease
    <3> QED
      BY <1>n, <2>2, <3>1 DEF LeaseLeft
  <2>4. CASE ~answered
    <3> SUFFICES ASSUME capture, ~lapsed'
                 PROVE  /\ failures' \in {0, 1}
                        /\ lease' + since' + (IF failures' = 1 THEN Renew ELSE 0) >= Lease
      BY <2>2 DEF LeaseLeft
    <3>1. lapsed' <=> (lapsed \/ failures' = 2)
      BY <2>1, <2>4
    <3>2. ~lapsed /\ failures' # 2
      BY <3>1
    <3>3. failures \in {0, 1} /\ lease + since + (IF failures = 1 THEN Renew ELSE 0) >= Lease
      BY <3>2 DEF LeaseLeft
    <3>4. failures' = IF failures < 2 THEN failures + 1 ELSE 2
      BY <2>1, <2>4
    <3>5. failures = 0 /\ failures' = 1
      BY <3>2, <3>3, <3>4
    <3>6. lease' = lease \/ lease' = Lease
      BY <2>1 DEF AskLease
    <3>7. since' = 0
      BY <2>2
    <3> QED
      BY ONLY <1>n, <3>3, <3>5, <3>6, <3>7
  <2> QED
    BY <2>3, <2>4
<1>18. ASSUME ReleaseLease
      PROVE  LeaseLeft'
  <2>1. window = "releasing" /\ UNCHANGED <<cam, capture, lapsed, since, failures>>
    BY <1>18 DEF ReleaseLease, camera
  <2>2. (capture \/ cam = "opening") => lapsed
    BY <2>1 DEF CameraWhere
  <2> QED
    BY <2>1, <2>2 DEF LeaseLeft
<1>19. ASSUME DiscardPending \/ Killed
      PROVE  LeaseLeft'
  BY <1>19 DEF DiscardPending, Exits, EmptyPending, Awaited, Guide, server, Killed,
    LeaseLeft
<1>20. ASSUME ServiceDies
      PROVE  LeaseLeft'
  BY <1>20 DEF ServiceDies, ui, session, folders, record, LeaseLeft
<1>21. ASSUME Pass
      PROVE  LeaseLeft'
  <2>1. /\ UNCHANGED <<cam, capture, failures>> /\ cam # "renewing"
        /\ ~(cam = "looping" /\ since >= Renew)
        /\ lease' = IF lease = 0 THEN 0 ELSE lease - 1
        /\ since' = IF since < Renew /\ cam \in {"looping", "hung"} THEN since + 1
                    ELSE since
    BY <1>21 DEF Pass
  <2>2. lapsed' = (lapsed \/ cam = "opening" \/ (cam = "hung" /\ since >= Renew))
    BY <1>21 DEF Pass
  <2>3. lapsed' <=> (lapsed \/ cam = "opening" \/ (cam = "hung" /\ since >= Renew))
    BY <2>2
  <2> SUFFICES ASSUME capture, ~lapsed'
               PROVE  /\ failures' \in {0, 1}
                      /\ lease' + since' + (IF failures' = 1 THEN Renew ELSE 0) >= Lease
    BY <2>1, <2>3 DEF LeaseLeft
  <2>4. failures \in {0, 1} /\ lease + since + (IF failures = 1 THEN Renew ELSE 0) >= Lease
    BY <2>3 DEF LeaseLeft
  <2>5. cam \in {"looping", "hung"} /\ ~(since >= Renew)
    BY <2>1, <2>3 DEF CameraWhere
  <2>6. since' = since + 1 /\ failures' = failures
    BY <1>n, <2>1, <2>5
  <2>7. lease # 0 /\ lease' = lease - 1
    BY <1>n, <2>1, <2>4, <2>5
  <2> QED
    BY ONLY <1>n, <2>4, <2>6, <2>7
<1>22. ASSUME UNCHANGED wizardVars PROVE LeaseLeft'
  BY <1>22 DEF wizardVars, ui, camera, session, calls, server, folders, record,
    LeaseLeft
<1> QED
  BY <1>1, <1>2, <1>3, <1>4, <1>5, <1>6, <1>7, <1>8, <1>9, <1>10, <1>11, <1>12, <1>13,
    <1>14, <1>15, <1>16, <1>17, <1>18, <1>19, <1>20, <1>21, <1>22, <1>a
  DEF WizardNext, CameraNext, ButtonsNext, CloseNext, ServiceNext

LEMMA WizardInvariant == WizardSpec => []WizardInv
<1>1. WizardInit => WizardInv
  <2> SUFFICES ASSUME WizardInit PROVE WizardInv
    OBVIOUS
  <2>1. posted = << >> /\ Ordered(posted) /\ Len(posted) = 0 /\ posted \in Seq(Messages)
        /\ \A x : ~Holds(posted, x)
    BY EmptyQueue DEF WizardInit
  <2>2. MaxQueue \in Nat /\ Lease \in Nat /\ Renew \in Nat
    BY WizardAssumption
  <2>3. Len(posted) <= Room(posted) /\ Queued
    BY <2>1, <2>2 DEF Room, Queued
  <2>4. Places /\ Numbers
    BY <2>2 DEF WizardInit, Places, Numbers
  <2>5. Flags
    BY DEF WizardInit, Flags
  <2>6. QueueInv
    BY <2>1, <2>3 DEF QueueInv, WizardInit
  <2>7. GoneInv /\ LeaseInv /\ BuildInv /\ FrameInv /\ GuideInv
    BY <2>1 DEF WizardInit, GoneInv, LeaseInv, CameraWhere, LeaseLeft, BuildInv,
      BuildWhere, SessionKept, FrameInv, GuideInv
  <2> QED
    BY <2>3, <2>4, <2>5, <2>6, <2>7, PlainTypes DEF WizardInv
<1>2. WizardInv /\ [WizardNext]_wizardVars => WizardInv'
  <2> SUFFICES ASSUME WizardInv, [WizardNext]_wizardVars PROVE WizardInv'
    OBVIOUS
  <2>1. /\ Places /\ Flags /\ Numbers /\ Queued /\ QueueInv /\ GoneInv /\ CameraWhere
        /\ LeaseLeft /\ BuildInv /\ BuildWhere /\ SessionKept /\ FrameInv /\ GuideInv
        /\ posted \in Seq(Messages)
    BY PlainTypes DEF WizardInv, LeaseInv, BuildInv, Queued
  <2>2. Places' /\ Flags' /\ Numbers' /\ GoneInv' /\ SessionKept'
    BY <2>1, PlacesStep, FlagsStep, NumbersStep, GoneStep, SessionStep
  <2>3. /\ posted' \in Seq(Messages) /\ QueueInv'
        /\ Holds(posted', "waited") => Holds(posted, "waited") \/ waiting
        /\ Holds(posted', "built") => Holds(posted, "built") \/ builder = "answered"
        /\ Holds(posted', "coach") => Holds(posted, "coach") \/ ~pinned
        /\ OnWaited => Holds(posted, "waited") /\ ~Holds(posted', "waited")
        /\ OnBuilt => /\ Holds(posted, "built")
                      /\ ~Holds(posted', "built") /\ ~Holds(posted', "coach")
    BY <2>1, QueueStep
  <2>4. /\ waiting => ~Holds(posted, "waited")
        /\ (builder # "none" \/ window = "finishing") => ~Holds(posted, "built")
    BY <2>1 DEF QueueInv
  <2>5. BuildWhere'
    BY <2>1, <2>2, <2>3, <2>4, BuildStep
  <2>6. CameraWhere'
    BY <2>1, <2>3, <2>4, CameraStep
  <2>7. LeaseLeft'
    BY <2>1, <2>3, LeaseStep
  <2>8. GuideInv'
    BY <2>1, <2>3, GuideStep
  <2>f. FrameInv'
    BY <2>1, <2>3, FrameStep
  <2>9. Queued'
    <3>1. Len(posted') \in Nat /\ Len(posted') <= Room(posted') /\ MaxQueue \in Nat
      BY <2>3, WizardAssumption DEF QueueInv
    <3>2. Room(posted') <= MaxQueue + 2
      BY <3>1 DEF Room
    <3>3. Room(posted') \in Nat
      BY <3>1 DEF Room
    <3> QED
      BY <2>3, <3>1, <3>2, <3>3 DEF Queued
  <2>10. WizardTypeOK'
    <3>1. (Places /\ Flags /\ Numbers /\ Queued)' => WizardTypeOK'
      BY DEF WizardTypeOK, Places, Flags, Numbers, Queued, Messages
    <3> QED
      BY <2>2, <2>9, <3>1
  <2> QED
    BY <2>2, <2>3, <2>5, <2>6, <2>7, <2>8, <2>f, <2>10 DEF WizardInv, LeaseInv, BuildInv
<1> QED
  BY <1>1, <1>2, PTL DEF WizardSpec

\* The wizard's state is typed; its queue in particular never holds more than two
\* calls beyond its bound, however the long calls end (enroll_gui.py).
THEOREM WizardIsTyped == WizardSpec => []WizardTypeOK
<1>1. WizardInv => WizardTypeOK
  BY DEF WizardInv
<1> QED
  BY <1>1, WizardInvariant, PTL

\* The webcam is held under a lease that is in force, unless it has a reason to be
\* over (enroll_gui.py _camera_loop, service.py pause_camera).
THEOREM WebcamIsLeased == WizardSpec => []LeaseCovers
<1>1. WizardInv => LeaseCovers
  <2> SUFFICES ASSUME WizardInv, capture, ~lapsed PROVE lease > 0
    BY DEF LeaseCovers
  <2>1. /\ since \in Nat /\ since <= Renew /\ lease \in Nat
        /\ Renew \in Nat /\ Lease \in Nat /\ 2 * Renew < Lease
    BY WizardAssumption, PlainTypes DEF WizardInv, Numbers
  <2>2. lease + since + (IF failures = 1 THEN Renew ELSE 0) >= Lease
    BY DEF WizardInv, LeaseInv, LeaseLeft
  <2> QED
    BY ONLY <2>1, <2>2
<1> QED
  BY <1>1, WizardInvariant, PTL

\* The photographs of a session have one fate: what a build reads is left alone while
\* the wizard waits for it, but by a frame under way at the click, a replace is built from this session alone, and nothing
\* unbuilt is left behind (enroll_gui.py _choose_mode, _on_build, _on_close;
\* service.py _build_replace).
THEOREM SessionsAreWhole == WizardSpec => []SessionWhole
<1>1. WizardInv => SessionWhole
  BY DEF WizardInv, BuildInv, BuildWhere, SessionKept, GoneInv, SessionWhole, Awaited
<1> QED
  BY <1>1, WizardInvariant, PTL

\* No advice takes the place of an outcome, but a frame's that had looked at _building
\* before the click: no other was waiting when the line was pinned, and none is
\* posted while it is (enroll_gui.py done, _process_capture).
THEOREM OutcomesStay == WizardSpec => OutcomeStays
<1>1. WizardInv /\ [WizardNext]_wizardVars => [line = "outcome" => line' # "coach"]_line
  <2> SUFFICES ASSUME WizardInv, WizardNext, line = "outcome", line' = "coach"
               PROVE  FALSE
    BY DEF wizardVars, ui
  <2>1. /\ posted \in Seq(Messages) /\ QueueInv /\ BuildInv /\ FrameInv /\ GoneInv
        /\ ~Holds(posted, "coach")
    BY PlainTypes DEF WizardInv, GuideInv, Queued
  <2>2. ~OnCoach
    BY <2>1, QueueStep
  <2>3. ~(WaitOver \/ CameraOpens \/ StartRenewal \/ ReadHangs \/ ReadReturns)
    BY DEF WaitOver, Post, camera, session, server, folders, record, Running,
      CameraOpens, ui, calls, StartRenewal, ReadHangs, ReadReturns
  <2>4. ~(LoopEnds \/ OnFull \/ StopCapture \/ OnBuild \/ BuildAnswered)
    BY DEF LoopEnds, Running, ui, session, calls, server, folders, record, OnFull,
      Handles, Guide, camera, Usable, StopCapture, OnBuild, HasShots, Folder,
      BuildAnswered, Post
  <2>5. ~(BuildGivesUp \/ OnBuilt \/ BuildOver \/ OnWipe \/ WipeAnswered)
    BY DEF BuildGivesUp, ui, camera, session, server, folders, OnBuilt, Handles,
      calls, record, Usable, BuildOver, OnWipe, WipeAnswered, Post, Running
  <2>6. ~(WipeGivesUp \/ OnClose \/ Joined \/ ReleaseLease \/ Launched)
    BY DEF WipeGivesUp, ui, camera, session, server, folders, record, OnClose, Usable,
      calls, Joined, ReleaseLease, Launched, WindowOpens
  <2>7. ~(ServeBuild \/ ServeClear \/ ServiceStarts \/ Pass)
    BY DEF ServeBuild, ui, camera, session, folders, ServeClear, record,
      ServiceStarts, calls, Pass
  <2>8. ~(OnWaited)
    BY DEF OnWaited, Handles, AskLease, Guide, session, calls, folders, record, Usable
  <2>9. ~(RenewalReturns)
    BY DEF RenewalReturns, AskLease, ui, session, calls, folders, record
  <2>10. ~(Frame)
    BY FrameDoes
  <2>11. ~(StartCapture)
    BY DEF StartCapture, Usable, Choose, Guide, camera, calls, server, EmptyPending,
      Awaited
  <2>12. ~(OnWiped)
    BY DEF OnWiped, Handles, Guide, camera, calls, server, folders, Usable
  <2>13. ~(DiscardPending)
    BY DEF DiscardPending, Exits, EmptyPending, Awaited, Guide, server
  <2>14. ~(Killed)
    BY DEF Killed, Exits, Guide, server
  <2>15. ~(BuildEnds)
    BY DEF BuildEnds, HasShots, folders, ui, camera, session, record
  <2>16. ~(ClearEnds)
    BY DEF ClearEnds, ui, camera, session, record
  <2>17. ~(ServiceDies)
    BY DEF ServiceDies, ui, session, folders, record
  <2> QED
    BY <2>2, <2>3, <2>4, <2>5, <2>6, <2>7, <2>8, <2>9, <2>10, <2>11, <2>12, <2>13,
      <2>14, <2>15, <2>16, <2>17
    DEF WizardNext, CameraNext, ButtonsNext, CloseNext, ServiceNext
<1> QED
  BY <1>1, WizardInvariant, PTL DEF WizardSpec, OutcomeStays

=============================================================================
