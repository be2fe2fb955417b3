---------------------------- MODULE StrikeLedger ----------------------------
(***************************************************************************)
(* What the face lockout promises: a ledger of consecutive failures that   *)
(* no restart of the service can rewrite.  It has no process and no file.  *)
(***************************************************************************)
EXTENDS LockoutOps

VARIABLES now,     \* the wall clock
          ledger,  \* the failure count and the lockout deadline
          last,    \* what last moved the ledger: a failure or an amnesty
          max,     \* failures that start a lockout
          secs     \* length of a lockout

vars == <<now, ledger, last, max, secs>>

Init ==
  /\ now \in Nat
  /\ ledger = Clean /\ last = "none"
  /\ max \in Nat \ {0}
  /\ secs \in Nat

\* A failure counts only while no lockout is running.
Strike ==
  /\ ~IsLocked(ledger, now)
  /\ ledger' = AfterFailure(ledger, now, max, secs)
  /\ last' = "failure"
  /\ UNCHANGED <<now, max, secs>>

\* Only a success, or an administrator's reset, wipes the ledger.
Forgive ==
  /\ ledger' = Clean
  /\ last' = "amnesty"
  /\ UNCHANGED <<now, max, secs>>

\* New thresholds apply to later failures; a running lockout is left alone.
Retune ==
  /\ max' \in Nat \ {0}
  /\ secs' \in Nat
  /\ UNCHANGED <<now, ledger, last>>

ClockMoves ==
  /\ now' \in Nat
  /\ UNCHANGED <<ledger, last, max, secs>>

Next == Strike \/ Forgive \/ Retune \/ ClockMoves

Spec == Init /\ [][Next]_vars
=============================================================================
