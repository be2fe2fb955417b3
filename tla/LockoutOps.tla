----------------------------- MODULE LockoutOps -----------------------------
(***************************************************************************)
(* The arithmetic of face_service/lockout.py: what one recorded attempt    *)
(* does to the failure counter and the lockout deadline.  A lockout state  *)
(* is the pair the code keeps in _fails and _locked_until.                 *)
(***************************************************************************)
EXTENDS Integers

LockoutState == [fails : Nat, until : Nat]

\* The state a missing, unreadable or insane lockout.json loads as.
Clean == [fails |-> 0, until |-> 0]

Remaining(l, t) == IF l.until > t THEN l.until - t ELSE 0

IsLocked(l, t) == Remaining(l, t) > 0

\* record(False): a failure during a lockout does not count; otherwise it
\* counts, and the one that reaches max starts the lockout and clears the count.
AfterFailure(l, t, max, secs) ==
  IF IsLocked(l, t)
  THEN l
  ELSE IF l.fails + 1 >= max
       THEN [fails |-> 0, until |-> t + secs]
       ELSE [l EXCEPT !.fails = @ + 1]
=============================================================================
