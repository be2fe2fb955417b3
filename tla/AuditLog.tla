------------------------------- MODULE AuditLog -------------------------------
(***************************************************************************)
(* face_service/audit.py: one line per attempt, in a file that is rotated  *)
(* through numbered backups, on a disk where any operation may fail and by *)
(* a process that may die after any of them.                               *)
(***************************************************************************)
EXTENDS Naturals, Sequences

CONSTANTS
  Backups,    \* backups kept
  Limits,     \* sizes audit_max_mb may ask for, 0 for none
  LineSizes,  \* sizes a line may have
  MaxLines    \* bound: lines written

ASSUME AuditAssumption ==
  /\ Backups \in Nat \ {0} /\ MaxLines \in Nat
  /\ Limits \subseteq Nat /\ LineSizes \subseteq Nat \ {0}

VARIABLES
  logs,     \* the current file, 0, and its backups, oldest last
  enabled, limit,
  attempts,  \* history: lines write() was called for
  intact,   \* history: no operation has failed
  roof      \* history: the largest limit so far, or none

auditVars == <<logs, enabled, limit, attempts, intact, roof>>

LogFiles == 0 .. Backups
NoFileYet == [there |-> FALSE, lines |-> <<>>, size |-> 0, open |-> FALSE]
Fragment == 0  \* a line nobody can read

-----------------------------------------------------------------------------

\* Mutant of Rotated, for TracesKept: the newest moves first, and is carried along.
RotatedNewestFirst(steps) ==
  LET met[i \in LogFiles] ==
        IF i > 0 /\ i - 1 \in steps /\ met[i - 1].there THEN met[i - 1] ELSE logs[i]
  IN [i \in LogFiles |-> IF i \in steps THEN NoFileYet ELSE met[i]]

\* _rotate: step Backups deletes the oldest, then step i replaces i + 1 by i, the
\* oldest first, so that each moves what was there before.  A step that fails is
\* skipped, and so are those a death leaves undone.
Rotated(steps) ==
  [i \in LogFiles |->
    IF i > 0 /\ i - 1 \in steps /\ logs[i - 1].there THEN logs[i - 1]
    ELSE IF i \in steps THEN NoFileYet ELSE logs[i]]

\* A line cut short is open, it lacks its newline: what is appended next is lost
\* with it, and closes it unless it is cut short as well.
Appended(old, number, size) ==
  [there |-> TRUE, size |-> old.size + size, open |-> number = Fragment,
   lines |-> IF old.open THEN old.lines ELSE Append(old.lines, number)]

Full(size) == limit > 0 /\ logs[0].there /\ logs[0].size + size > limit

\* write: rotation first, then the line; a failure of either is swallowed, and
\* a write that fails may leave an empty file, or the beginning of its line.
Write(size, steps) ==
  /\ enabled /\ attempts < MaxLines
  /\ attempts' = attempts + 1
  /\ LET present == IF Full(size) THEN Rotated(steps) ELSE logs
         With(number) == [present EXCEPT ![0] = Appended(@, number, size)]
     IN \/ logs' = With(attempts + 1) /\ intact' = (intact /\ (Full(size) => steps = LogFiles))
        \/ /\ logs' \in {present, [present EXCEPT ![0].there = TRUE], With(Fragment)}
           /\ intact' = FALSE
  /\ UNCHANGED <<enabled, limit, roof>>

\* reconfigure, and the constructor.
Configured ==
  /\ enabled' \in BOOLEAN
  /\ limit' \in Limits
  /\ roof' = IF 0 \in {roof, limit'} THEN 0 ELSE IF limit' > roof THEN limit' ELSE roof

ReconfigureLog == Configured /\ UNCHANGED <<logs, attempts, intact>>

\* The process dies between two steps of a rotation; another one starts.
Dies(k) ==
  /\ enabled /\ \E size \in LineSizes : Full(size)
  /\ logs' = Rotated({i \in LogFiles : i > Backups - k})
  /\ Configured
  /\ UNCHANGED <<attempts, intact>>

-----------------------------------------------------------------------------

AuditInit ==
  /\ logs = [i \in LogFiles |-> NoFileYet]
  /\ enabled = TRUE /\ limit \in Limits /\ roof = limit
  /\ attempts = 0 /\ intact = TRUE

AuditNext ==
  \/ \E size \in LineSizes, steps \in SUBSET LogFiles : Write(size, steps)
  \/ ReconfigureLog
  \/ \E k \in LogFiles : Dies(k)

AuditSpec == AuditInit /\ [][AuditNext]_auditVars

-----------------------------------------------------------------------------
(* Properties *)

\* Every variable has its type.
AuditTypeOK ==
  /\ logs \in [LogFiles -> [there : BOOLEAN, lines : Seq(Nat), size : Nat, open : BOOLEAN]]
  /\ \A i \in LogFiles : /\ logs[i].lines # <<>> => logs[i].there
                         /\ logs[i].open => logs[i].lines # <<>>
  /\ enabled \in BOOLEAN /\ limit \in Limits /\ roof \in Limits
  /\ attempts \in 0 .. MaxLines /\ intact \in BOOLEAN

\* The lines that can be read, and the attempts they tell.
Legible(i) == {k \in DOMAIN logs[i].lines : logs[i].lines[k] # Fragment}
Recorded == UNION {{logs[i].lines[k] : k \in Legible(i)} : i \in LogFiles}

\* Read from the oldest backup on, each line is of a later attempt.
InOrder ==
  \A i, j \in LogFiles : \A k \in Legible(i), l \in Legible(j) :
    i > j \/ (i = j /\ k < l) => logs[i].lines[k] < logs[j].lines[l]

\* The current file has no room for some line.
Brimful == \E l \in Limits \ {0}, size \in LineSizes : logs[0].size + size > l

\* Read from the oldest backup on, the log tells attempts at most once, in order,
\* whatever failed, also behind a torn line.  As long as nothing has failed it ends
\* with the last attempt and leaves none out in between, drops the oldest only for a
\* backup or a full file of newer ones, and no file outgrows the limit or one line
\* (AuditLog.write, _rotate).
LogKept ==
  /\ InOrder /\ Recorded \subseteq 1 .. attempts
  /\ intact =>
       /\ attempts > 0 => attempts \in Recorded
       /\ \A n \in Recorded : n .. attempts \subseteq Recorded
       /\ attempts > 0 /\ 1 \notin Recorded =>
            Brimful \/ \E i \in LogFiles \ {0} : logs[i].there
       /\ roof > 0 => \A i \in LogFiles : logs[i].size <= roof \/ Len(logs[i].lines) = 1
=============================================================================
