------------------------------- MODULE Custody --------------------------------
(***************************************************************************)
(* face_service/datadir.py: the walk that re-secures the data directory    *)
(* when the service starts and the walk that verifies it, while the user's *)
(* other programs go on working there and, until it is closed to them,     *)
(* other accounts may add to it.                                           *)
(***************************************************************************)
EXTENDS Naturals, Sequences, FiniteSets

CONSTANTS
  Tree,       \* the entries the directory may have below it, per directory,
              \* in the order of their names
  Secret,     \* those named like a secret
  Temporary,  \* per file, the name its next version is written under
  Trees,      \* what may be there before the first start
  MaxChanges, \* bound: changes by other programs
  MaxStarts   \* bound: starts of the service

Top == "root"
Dirs == DOMAIN Tree
Under(dir) == {Tree[dir][i] : i \in DOMAIN Tree[dir]}
Paths == {Top} \cup UNION {Under(dir) : dir \in Dirs}

\* How an entry is protected: as the heal would, in one of the ways nobody else
\* is named, with somebody else named, or with no list at all.
Descriptors == {"sealed", "inherited", "locked", "own", "foreign", "null"}
EntryKinds == {"none", "file", "dir", "link", "twin"}

\* A set of entries that leaves out nothing below it.
Closed(S) == \A d \in S \cap Dirs : Under(d) \subseteq S

\* Every entry is reached from the top, in one way.
TreeAssumption ==
  /\ \A d \in Dirs : Tree[d] \in Seq(Under(d)) /\ Top \notin Under(d)
  /\ \A d, e \in Dirs : d # e => Under(d) \cap Under(e) = {}
  /\ \A S \in SUBSET Paths : (Top \in S /\ Closed(S)) => S = Paths

\* The next version of a file is written beside it and is as secret as the file.
TemporaryAssumption ==
  \A p \in DOMAIN Temporary :
    LET next == Temporary[p]
    IN /\ {p, next} \subseteq Paths \ Dirs /\ next \notin DOMAIN Temporary
       /\ next \in Secret <=> p \in Secret
       /\ \A d \in Dirs : next \in Under(d) <=> p \in Under(d)

ASSUME CustodyAssumption ==
  /\ Top \in Dirs /\ Dirs \subseteq Paths /\ Secret \subseteq Paths \ Dirs
  /\ TreeAssumption /\ TemporaryAssumption
  /\ Trees \subseteq [Paths -> [kind : EntryKinds, ours : BOOLEAN, acl : Descriptors]]
  /\ \A t \in Trees : t[Top].kind \in {"none", "dir", "link"}
  /\ \A t \in Trees, p \in Paths :
       /\ t[p].kind = "dir" => p \in Dirs
       /\ t[p].kind # "none" => \A d \in Dirs : p \in Under(d) => t[d].kind = "dir"
  /\ MaxChanges \in Nat /\ MaxStarts \in Nat

VARIABLES
  disk,      \* every path's entry
  walking,     \* what the service is doing
  itinerary,      \* the rest of the walk: directories to list, entries to visit
  problems,  \* are there any?
  moves, starts,
  spoilt,    \* history: what the service may not change was there
  hindered    \* history: an operation failed, or an entry went away in mid-walk

custodyVars == <<disk, walking, itinerary, problems, moves, starts, spoilt, hindered>>

NoEntry == [kind |-> "none", ours |-> TRUE, acl |-> "own"]
Exists(p) == disk[p].kind # "none"

-----------------------------------------------------------------------------
(* The walk                                                                *)

\* _Targets: the descriptor each entry is given.
Target(p) ==
  IF p = Top THEN "sealed" ELSE IF p \in Secret THEN "locked" ELSE "inherited"

\* A reparse point, or a file with a second link.
Untouchable(entry) == entry.kind \in {"link", "twin"}

\* What verify_data_dir accepts.
Verified(p) ==
  /\ disk[p].kind \in {"file", "dir"} /\ disk[p].ours
  /\ disk[p].acl \notin {"null", "foreign"}
  /\ p = Top => disk[p].acl = "sealed"
  /\ p \in Secret => disk[p].acl = "locked"

Errand(op, p) == [op |-> op, path |-> p]
Walk == <<Errand("visit", Top)>>

\* The listing a directory still owes when it has been visited.
Descends(p) == IF disk[p].kind = "dir" THEN <<Errand("list", p)>> ELSE <<>>

\* The start of heal_data_dir.  A link in place of the directory is left alone;
\* one in place of a directory of its own is a problem, and the walk begins.
Begin ==
  /\ walking = "down" /\ starts < MaxStarts
  /\ starts' = starts + 1
  /\ IF disk[Top].kind = "link"
     THEN walking' = "up" /\ problems' = TRUE /\ itinerary' = <<>> /\ UNCHANGED disk
     ELSE /\ walking' = "heal" /\ itinerary' = Walk
          /\ problems' = \E p \in Dirs \ {Top} : disk[p].kind = "link"
          /\ disk' = IF Exists(Top) THEN disk
                     ELSE [disk EXCEPT ![Top] = [NoEntry EXCEPT !.kind = "dir"]]
  /\ UNCHANGED <<moves, spoilt, hindered>>

At(op) == itinerary # <<>> /\ itinerary[1].op = op
Visited == itinerary[1].path

\* _heal_one, through one handle: descriptors that match are left as they are.
HealEntry ==
  /\ walking = "heal" /\ At("visit")
  /\ IF Exists(Visited) /\ ~Untouchable(disk[Visited])
     THEN /\ disk' = [disk EXCEPT ![Visited].acl = Target(Visited)]
          /\ itinerary' = Descends(Visited) \o Tail(itinerary)
          /\ UNCHANGED problems
     ELSE problems' = TRUE /\ itinerary' = Tail(itinerary) /\ UNCHANGED disk
  /\ UNCHANGED <<walking, moves, starts, spoilt, hindered>>

\* check of verify_data_dir: a directory is entered whatever was found on it.
CheckEntry ==
  /\ walking = "verify" /\ At("visit")
  /\ problems' = (problems \/ ~Verified(Visited))
  /\ itinerary' = Descends(Visited) \o Tail(itinerary)
  /\ UNCHANGED <<disk, walking, moves, starts, spoilt, hindered>>

\* sorted(os.scandir): where the entries there are now stand in the order of names.
Listings(dir) ==
  LET present == {i \in DOMAIN Tree[dir] : Exists(Tree[dir][i])}
  IN {order \in [1 .. Cardinality(present) -> present] :
        /\ present = {order[k] : k \in DOMAIN order}
        /\ \A j, k \in DOMAIN order : j < k => order[j] < order[k]}

List ==
  /\ At("list")
  /\ \E order \in Listings(Visited) :
       itinerary' =
         [k \in DOMAIN order |-> Errand("visit", Tree[Visited][order[k]])] \o Tail(itinerary)
  /\ UNCHANGED <<disk, walking, problems, moves, starts, spoilt, hindered>>

\* Opening, listing, reading or rewriting fails.
OperationFails ==
  /\ itinerary # <<>>
  /\ problems' = TRUE /\ hindered' = TRUE /\ itinerary' = Tail(itinerary)
  /\ UNCHANGED <<disk, walking, moves, starts, spoilt>>

\* Mutant of EndHeal, for CustodyTrue: nothing is verified.
EndHealUnverified ==
  /\ walking = "heal" /\ itinerary = <<>>
  /\ walking' = "up"
  /\ UNCHANGED <<disk, itinerary, problems, moves, starts, spoilt, hindered>>

\* Only a tree healed without a problem is worth verifying.
EndHeal ==
  /\ walking = "heal" /\ itinerary = <<>>
  /\ IF problems THEN walking' = "up" /\ UNCHANGED itinerary
     ELSE walking' = "verify" /\ itinerary' = Walk
  /\ UNCHANGED <<disk, problems, moves, starts, spoilt, hindered>>

EndVerify ==
  /\ walking = "verify" /\ itinerary = <<>>
  /\ walking' = "up"
  /\ UNCHANGED <<disk, itinerary, problems, moves, starts, spoilt, hindered>>

\* The service ends; what it thought of the directory ends with it.
Ends ==
  /\ walking # "down"
  /\ walking' = "down" /\ itinerary' = <<>> /\ problems' = FALSE /\ hindered' = FALSE
  /\ spoilt' = \E p \in Paths : Untouchable(disk[p]) \/ ~disk[p].ours
  /\ UNCHANGED <<disk, moves, starts>>

-----------------------------------------------------------------------------
(* The other programs                                                      *)

\* What a new entry inherits from its directory.
Inherits(dir) ==
  CASE disk[dir].acl \in {"sealed", "inherited"} -> "inherited"
    [] disk[dir].acl = "foreign" -> "foreign"
    [] OTHER -> "own"

Change ==
  /\ moves < MaxChanges /\ moves' = moves + 1
  /\ UNCHANGED <<walking, itinerary, problems, starts>>

\* A program of the user's makes a file or a directory; a secret is born locked.
Creates(dir, p) ==
  /\ Change
  /\ disk[dir].kind = "dir" /\ p \in Under(dir) /\ ~Exists(p)
  /\ disk' = [disk EXCEPT ![p] =
       [kind |-> IF p \in Dirs THEN "dir" ELSE "file", ours |-> TRUE,
        acl |-> IF p \in Secret THEN "locked" ELSE Inherits(dir)]]
  /\ UNCHANGED <<spoilt, hindered>>

\* os.replace of a finished temporary file; its descriptor comes along.
RenamesOver(p) ==
  /\ Change
  /\ p \in DOMAIN Temporary /\ disk[Temporary[p]].kind = "file"
  /\ disk[p].kind \in {"none", "file"}
  /\ disk' = [disk EXCEPT ![p] = disk[Temporary[p]], ![Temporary[p]] = NoEntry]
  /\ hindered' = (hindered \/ itinerary # <<>>)
  /\ UNCHANGED spoilt

\* Or deletes a file.
Deletes(p) ==
  /\ Change
  /\ disk[p].kind = "file" /\ disk[p].ours
  /\ disk' = [disk EXCEPT ![p] = NoEntry]
  /\ hindered' = (hindered \/ itinerary # <<>>)
  /\ UNCHANGED spoilt

\* Another account's program adds what it likes where it is let in.
Intrudes(dir, p) ==
  /\ Change
  /\ disk[dir].kind = "dir" /\ disk[dir].acl \in {"foreign", "null"}
  /\ p \in Under(dir) /\ ~Exists(p)
  /\ \E k \in {"file", "link"} :
       disk' = [disk EXCEPT ![p] = [kind |-> k, ours |-> FALSE, acl |-> "foreign"]]
  /\ spoilt' = TRUE
  /\ UNCHANGED hindered

-----------------------------------------------------------------------------

\* What was there before: an old installation's tree, or none.
CustodyInit ==
  /\ disk \in Trees
  /\ walking = "down" /\ itinerary = <<>> /\ problems = FALSE
  /\ moves = 0 /\ starts = 0 /\ hindered = FALSE
  /\ spoilt = \E p \in Paths : Untouchable(disk[p]) \/ ~disk[p].ours

CustodyNext ==
  \/ Begin \/ HealEntry \/ CheckEntry \/ List \/ OperationFails \/ EndHeal \/ EndVerify \/ Ends
  \/ \E dir \in Dirs, p \in Paths : Creates(dir, p) \/ Intrudes(dir, p)
  \/ \E p \in Paths : RenamesOver(p) \/ Deletes(p)

CustodySpec == CustodyInit /\ [][CustodyNext]_custodyVars

-----------------------------------------------------------------------------
(* Properties *)

\* Every variable has its type.
CustodyTypeOK ==
  /\ disk \in [Paths -> [kind : EntryKinds, ours : BOOLEAN, acl : Descriptors]]
  /\ walking \in {"down", "heal", "verify", "up"}
  /\ itinerary \in Seq([op : {"visit", "list"}, path : Paths])
  /\ problems \in BOOLEAN /\ spoilt \in BOOLEAN /\ hindered \in BOOLEAN
  /\ moves \in 0 .. MaxChanges /\ starts \in 0 .. MaxStarts

\* A service that holds its directory for secure is right about every entry in
\* it, those written since included, and would find nothing to rewrite unless a
\* file was renamed while it walked; and it holds it for insecure only for an
\* entry it may not change, a failed operation, or an entry that went away
\* while it walked (heal_data_dir).  Only a file somebody else put there,
\* renamed while it walks, can slip past it.
CustodyTrue ==
  walking = "up" =>
    IF problems THEN spoilt \/ hindered
    ELSE \/ spoilt /\ hindered
         \/ \A p \in Paths : Exists(p) =>
              Verified(p) /\ (hindered \/ disk[p].acl = Target(p))
=============================================================================
