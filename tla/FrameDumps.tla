------------------------------ MODULE FrameDumps ------------------------------
(***************************************************************************)
(* The diagnostic frames of the service: _maybe_dump_frame with its ring   *)
(* and the purge at start (service.py, datadir.py), in a folder the user   *)
(* may fill, empty or replace by a link, on a disk where any step may fail.*)
(***************************************************************************)
EXTENDS Naturals, Sequences, FiniteSets

CONSTANTS
  Ring,       \* DEBUG_DUMP_RING_MAX
  MaxEntries, \* bound: entries the folder may have
  MaxPlaced   \* bound: entries the user puts there

ASSUME FrameDumpsAssumption == {Ring, MaxEntries, MaxPlaced} \subseteq Nat \ {0}

VARIABLES
  folder,   \* debug_frames: missing, a directory, or a link elsewhere
  entries,  \* what it holds, the least recently modified first
  dumping,  \* debug_dump_frames
  dumper,
  placed,   \* history: what the user put there, or behind the link, that is not
            \* a dump of the service's own, and did not take away
  puts,
  pruned    \* history: the last prune or purge went through, and nothing was
            \* added or switched since

dumpVars == <<folder, entries, dumping, dumper, placed, puts, pruned>>

\* A file with a dump's name, such a name on a link, and any other name.
DumpNames == {"dump", "linked", "other"}
IsDump(entry) == entry = "dump"
Pruneable(entry) == IsDump(entry) /\ folder # "link"
DumpsIn(s) == {i \in DOMAIN s : IsDump(s[i])}
Before(positions, i) == Cardinality({j \in positions : j < i})
Without(s, gone) ==
  LET kept == DOMAIN s \ gone
  IN [k \in 1 .. Cardinality(kept) |-> s[CHOOSE i \in kept : Before(kept, i) = k - 1]]
Oldest(s, n) == {i \in DumpsIn(s) : Before(DumpsIn(s), i) < n}

-----------------------------------------------------------------------------

\* The dumps the ring has no room for.
Stale(s) ==
  LET n == Cardinality(DumpsIn(s)) IN IF n > Ring THEN Oldest(s, n - Ring) ELSE {}

\* One frame: the array, then its picture, which may be refused, then the
\* prune.  An exception anywhere ends the dump, with what it did so far.
Dump ==
  /\ dumper /\ dumping /\ folder # "link"
  /\ \/ pruned' = FALSE /\ folder' \in {folder, "dir"} /\ UNCHANGED entries
     \/ \E n \in 1 .. 2 :
          LET now == entries \o [i \in 1 .. n |-> "dump"]
              stale == Stale(now) IN
          /\ Len(now) <= MaxEntries
          /\ folder' = "dir"
          /\ \E k \in 0 .. Cardinality(stale) :
               /\ entries' = Without(now, IF k = Cardinality(stale) THEN stale
                                         ELSE Oldest(now, k))
               /\ pruned' = (k = Cardinality(stale))
  /\ UNCHANGED <<dumping, dumper, placed, puts>>

\* main: with the knob off the dumps go, and the folder once it is empty.
DumperStarts ==
  /\ ~dumper /\ dumper' = TRUE
  /\ dumping' \in BOOLEAN
  /\ IF dumping' \/ folder # "dir" THEN UNCHANGED <<folder, entries>> /\ pruned' = FALSE
     ELSE \E gone \in SUBSET DumpsIn(entries) :
            /\ entries' = Without(entries, gone)
            /\ pruned' = (gone = DumpsIn(entries))
            /\ folder' \in {"dir"} \cup IF entries' = <<>> THEN {"none"} ELSE {}
  /\ UNCHANGED <<placed, puts>>

\* The knob is read again by a reload; turning it off deletes nothing yet.
KnobReload ==
  /\ dumper /\ dumping' \in BOOLEAN /\ pruned' = (pruned /\ dumping' = dumping)
  /\ UNCHANGED <<folder, entries, dumper, placed, puts>>

DumperEnds == dumper /\ dumper' = FALSE /\ pruned' = FALSE
        /\ UNCHANGED <<folder, entries, dumping, placed, puts>>

\* The user puts something there, takes it away, or changes the folder itself.
UserPuts ==
  /\ folder # "none" /\ puts < MaxPlaced /\ Len(entries) < MaxEntries
  /\ \E e \in DumpNames :
       /\ entries' = Append(entries, e)
       /\ placed' = IF Pruneable(e) THEN placed ELSE placed + 1
       /\ pruned' = (pruned /\ ~Pruneable(e))
  /\ puts' = puts + 1
  /\ UNCHANGED <<folder, dumping, dumper>>

UserTakes ==
  /\ \E i \in DOMAIN entries :
       /\ entries' = Without(entries, {i})
       /\ placed' = IF Pruneable(entries[i]) THEN placed ELSE placed - 1
  /\ UNCHANGED <<folder, dumping, dumper, puts, pruned>>

UserLinks ==
  /\ entries = <<>>
  /\ folder' \in {"none", "dir", "link"} \ {folder}
  /\ UNCHANGED <<entries, dumping, dumper, placed, puts, pruned>>

-----------------------------------------------------------------------------

DumpsInit ==
  /\ folder = "none" /\ entries = <<>>
  /\ dumping = FALSE /\ dumper = FALSE
  /\ placed = 0 /\ puts = 0 /\ pruned = FALSE

DumpsNext ==
  Dump \/ DumperStarts \/ KnobReload \/ DumperEnds \/ UserPuts \/ UserTakes \/ UserLinks

DumpsSpec == DumpsInit /\ [][DumpsNext]_dumpVars

-----------------------------------------------------------------------------
(* Properties *)

\* Every variable has its type.
DumpsTypeOK ==
  /\ folder \in {"none", "dir", "link"} /\ entries \in Seq(DumpNames)
  /\ Len(entries) <= MaxEntries
  /\ dumping \in BOOLEAN /\ dumper \in BOOLEAN /\ pruned \in BOOLEAN
  /\ placed \in 0 .. MaxPlaced /\ puts \in 0 .. MaxPlaced

\* The service never deletes what is not a dump of its own, nor through a link;
\* and once a prune or a purge went through, no more faces are on disk than the
\* ring has room for, and none if the knob was off at the start (_maybe_dump_frame,
\* purge_debug_frames).
DumpsKept ==
  /\ Cardinality({i \in DOMAIN entries : ~Pruneable(entries[i])}) = placed
  /\ pruned /\ folder # "link" =>
       Cardinality(DumpsIn(entries)) <= IF dumping THEN Ring ELSE 0
=============================================================================
