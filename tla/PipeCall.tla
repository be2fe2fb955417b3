------------------------------- MODULE PipeCall -------------------------------
(***************************************************************************)
(* One request over the pipe, as the credential provider's PipeCall makes  *)
(* it (PipeClient.cpp) and as every Python client does (exchange in        *)
(* face_service/pipe_io.py): one budget of time for finding an instance,   *)
(* the check of who serves it, the write and the read, all of them racing  *)
(* with a server that answers late, goes away, or is somebody else's.      *)
(* Between the reading of the budget and the wait it bounds no time passes. *)
(***************************************************************************)
EXTENDS Naturals

CONSTANTS
  Budget,     \* timeoutMs, timeout_s
  Retry,      \* the longest wait before another attempt: 500 ms, 200 ms, 0.1 s
  MaxTicks    \* bound: how far time is followed

ASSUME PipeCallAssumption ==
  Budget \in Nat \ {0} /\ Retry \in Nat \ {0} /\ MaxTicks \in Nat /\ Budget < MaxTicks

Callers == {"cp", "py"}
\* Whose process can hold the name of the pipe; nobody, or one nobody can read.
Owners == {"SYSTEM", "self", "user", "special", "unreadable", "nobody"}

VARIABLES
  caller,   \* which client it is
  checks,   \* verifyServer, or verify_server and pipe_first_instance
  elapsed,  \* time since the start of the call
  phase,    \* where the call is
  ends,     \* when the wait it is in ends at the latest
  holder,    \* whose the name of the pipe is now
  peer,     \* whose the other end of the open handle is
  listens,  \* will that server still read and answer?
  io,       \* the overlapped operation, as the kernel has it
  written,  \* has the server been given the request?
  outcome   \* what the caller is told

callVars == <<caller, checks, elapsed, phase, ends, holder, peer, listens, io, written, outcome>>
kept == <<caller, checks>>

BudgetLeft(used) == IF used < Budget THEN Budget - used ELSE 0
Shorter(a, b) == IF a < b THEN a ELSE b

\* The call is over; event, buffer and handle are given back.
Return(what) == phase' = "over" /\ outcome' = what /\ ends' = elapsed

-----------------------------------------------------------------------------
(* Finding an instance *)

Opened ==
  /\ phase = "opening" /\ holder # "nobody"
  /\ peer' = holder /\ listens' = TRUE /\ phase' = "opened"
  /\ UNCHANGED <<kept, elapsed, ends, holder, io, written, outcome>>

\* As before F-03: the budget is read again for the wait, and a wait of 0 is as
\* long as the server likes.
RefusedReadingTwice ==
  /\ phase = "opening"
  /\ IF BudgetLeft(elapsed) = 0
     THEN Return("unavailable")
     ELSE /\ phase' = "retrying" /\ UNCHANGED outcome
          /\ \E late \in {0, 1} :
               ends' = IF BudgetLeft(elapsed + late) = 0 /\ caller = "cp" THEN MaxTicks
                       ELSE elapsed + late + Shorter(BudgetLeft(elapsed + late), Retry)
  /\ UNCHANGED <<kept, elapsed, holder, peer, listens, io, written>>

\* Every instance is busy, or there is no such pipe: the budget is read once.
Refused ==
  /\ phase = "opening"
  /\ IF BudgetLeft(elapsed) = 0
     THEN Return("unavailable")
     ELSE /\ phase' = "retrying" /\ UNCHANGED outcome
          /\ ends' = elapsed + Shorter(BudgetLeft(elapsed), Retry)
  /\ UNCHANGED <<kept, elapsed, holder, peer, listens, io, written>>

\* Any other error of the open.
OpenFails ==
  /\ phase = "opening"
  /\ Return("unavailable")
  /\ UNCHANGED <<kept, elapsed, holder, peer, listens, io, written>>

\* The sleep is over, or an instance is free.
TryAgain ==
  /\ phase = "retrying" /\ phase' = "opening"
  /\ ends' = elapsed
  /\ UNCHANGED <<kept, elapsed, holder, peer, listens, io, written, outcome>>

\* Setting the read mode fails when the instance has gone: the Python client
\* starts over, the other ignores it.
InstanceGone ==
  /\ phase = "opened" /\ caller = "py" /\ ~listens
  /\ peer' = "nobody"
  /\ IF BudgetLeft(elapsed) = 0
     THEN Return("unavailable")
     ELSE /\ phase' = "retrying" /\ UNCHANGED outcome
          /\ ends' = elapsed + Shorter(BudgetLeft(elapsed), Retry)
  /\ UNCHANGED <<kept, elapsed, holder, listens, io, written>>

-----------------------------------------------------------------------------
(* Who is on the other end *)

\* The provider takes any real account of the machine, which is what a service in
\* the session of the user needs; the others only their own and SYSTEM.
Trusts(client) ==
  IF client = "cp" THEN {"SYSTEM", "self", "user"} ELSE {"SYSTEM", "self"}

\* It is this handle that is asked, not the name.
Checked ==
  /\ phase = "opened"
  /\ ~checks \/ peer \in Trusts(caller)
  /\ phase' = "write"
  /\ UNCHANGED <<kept, elapsed, ends, holder, peer, listens, io, written, outcome>>

Distrusted ==
  /\ phase = "opened" /\ checks /\ peer \notin Trusts(caller)
  /\ Return("untrusted")
  /\ UNCHANGED <<kept, elapsed, holder, peer, listens, io, written>>

-----------------------------------------------------------------------------
(* The write and the read *)

\* WriteFile or ReadFile, and the wait for it with what is left, perhaps nothing.
Issue(step, next) ==
  /\ phase = step /\ phase' = next
  /\ io' = "pending" /\ ends' = elapsed + BudgetLeft(elapsed)
  /\ UNCHANGED <<kept, elapsed, holder, peer, listens, written, outcome>>

\* They may fail at once, as may the event they need.
IssueFails ==
  /\ phase \in {"write", "read"}
  /\ Return("unavailable")
  /\ UNCHANGED <<kept, elapsed, holder, peer, listens, io, written>>

Awaiting == phase \in {"writing", "reading"}

Finished ==
  /\ Awaiting /\ io = "completed"
  /\ io' = "none"
  /\ IF phase = "writing" THEN phase' = "read" /\ ends' = elapsed /\ UNCHANGED outcome
     ELSE \E what \in {"reply", "bad-reply"} : Return(what)
  /\ UNCHANGED <<kept, elapsed, holder, peer, listens, written>>

FinishedBadly ==
  /\ Awaiting /\ io = "failed"
  /\ io' = "none" /\ Return("unavailable")
  /\ UNCHANGED <<kept, elapsed, holder, peer, listens, written>>

\* Out of time: CancelIoEx, CancelIo.
CancelIo ==
  /\ Awaiting /\ elapsed = ends /\ io = "pending"
  /\ phase' = "draining"
  /\ UNCHANGED <<kept, elapsed, ends, holder, peer, listens, io, written, outcome>>

\* GetOverlappedResult with bWait: nothing is given back before the kernel is done,
\* and what came of the operation in the meantime is not looked at.
Drained ==
  /\ phase = "draining" /\ io # "pending"
  /\ io' = "none" /\ Return("timeout")
  /\ UNCHANGED <<kept, elapsed, holder, peer, listens, written>>

-----------------------------------------------------------------------------
(* The kernel and the server *)

\* The operation completes, by itself or although it is being cancelled.
Completes ==
  /\ io = "pending" /\ listens
  /\ io' = "completed"
  /\ written' = TRUE
  /\ UNCHANGED <<kept, elapsed, phase, ends, holder, peer, listens, outcome>>

\* The other end has gone, or the cancellation came first.
Fails ==
  /\ io = "pending" /\ (~listens \/ phase = "draining")
  /\ io' = "failed"
  /\ UNCHANGED <<kept, elapsed, phase, ends, holder, peer, listens, written, outcome>>

ServerLeaves ==
  /\ listens /\ phase # "over"
  /\ listens' = FALSE
  /\ UNCHANGED <<kept, elapsed, phase, ends, holder, peer, io, written, outcome>>

\* The name is free when no server holds it, and anyone may take it then.
NameChanges ==
  /\ phase # "over"
  /\ holder' \in Owners \ {holder}
  /\ holder # "nobody" => holder' = "nobody"
  /\ UNCHANGED <<kept, elapsed, phase, ends, peer, listens, io, written, outcome>>

\* A wait lasts no longer than it was given; a thread may be held up anywhere else.
TimePasses ==
  /\ phase # "over" /\ elapsed < MaxTicks
  /\ phase = "retrying" \/ Awaiting => elapsed < ends
  /\ elapsed' = elapsed + 1
  /\ UNCHANGED <<kept, phase, ends, holder, peer, listens, io, written, outcome>>

-----------------------------------------------------------------------------
PipeCallInit ==
  /\ caller \in Callers /\ checks \in BOOLEAN /\ (caller = "cp" => checks)
  /\ elapsed = 0 /\ phase = "opening" /\ ends = 0
  /\ holder \in Owners /\ peer = "nobody" /\ listens = FALSE
  /\ io = "none" /\ written = FALSE /\ outcome = "none"

PipeCallNext ==
  \/ Opened \/ Refused \/ OpenFails \/ TryAgain \/ InstanceGone
  \/ Checked \/ Distrusted
  \/ Issue("write", "writing") \/ Issue("read", "reading") \/ IssueFails
  \/ Finished \/ FinishedBadly \/ CancelIo \/ Drained
  \/ Completes \/ Fails \/ ServerLeaves \/ NameChanges \/ TimePasses

PipeCallSpec == PipeCallInit /\ [][PipeCallNext]_callVars

\* Everything in a call has its type.
PipeCallTypeOK ==
  /\ caller \in Callers /\ {checks, listens, written} \subseteq BOOLEAN
  /\ elapsed \in 0..MaxTicks /\ ends \in 0..(MaxTicks + 1)
  /\ phase \in {"opening", "retrying", "opened", "write", "writing", "read", "reading",
                "draining", "over"}
  /\ {holder, peer} \subseteq Owners
  /\ io \in {"none", "pending", "completed", "failed"}
  /\ outcome \in {"none", "unavailable", "untrusted", "reply", "bad-reply", "timeout"}

\* A call is safe whatever the server does: no wait is set to end after the budget
\* (one that starts later has no length), not even when the deadline passes between
\* two readings of the clock; the kernel owns nothing when event, buffer and handle
\* are given back, however an operation races with its cancellation; and no server
\* that the check refuses is given the request, even if the name of the pipe changes
\* hands during the call.
ExchangeSafe ==
  /\ (phase = "retrying" \/ Awaiting) /\ ends > Budget => ends = elapsed
  /\ phase = "over" => io = "none"
  /\ checks /\ (written \/ io # "none") => peer \in Trusts(caller)
=============================================================================
