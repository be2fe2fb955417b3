----------------------------- MODULE CameraOpener -----------------------------
(***************************************************************************)
(* BoundedOpener of face_service/camera_open.py and the two things its one *)
(* caller does with it: opening the webcam for a request and closing it.   *)
(* An attempt runs on a thread of its own and is waited for at most cap_s; *)
(* after that the caller goes on and the attempt may end at any later      *)
(* time, or never.                                                         *)
(***************************************************************************)
EXTENDS Naturals

CONSTANTS Workers,   \* names for the threads "camera-open"
          NoWorker,  \* _worker before the first attempt
          Retries    \* camera_open_retries

ASSUME OpenerAssumption == NoWorker \notin Workers /\ Retries \in Nat

VARIABLES
  caller,     \* where the pipe server is: out of open(), in join(), between
              \* two attempts, or with a camera in hand
  left,       \* retries the running open() still has
  current,    \* _worker: the thread of the latest attempt
  thread,     \* per thread, how far it is in _run
  outcome,    \* per thread, what it has published
  abandoned,  \* per thread, the event that says nobody waits for it
  cap         \* per thread, the Camera its attempt fills has a capture

vars == <<caller, left, current, thread, outcome, abandoned, cap>>
handoff == <<outcome, abandoned>>

Phases == {"idle", "waiting", "pausing", "using"}
Stages == {"dead", "opening", "probing", "won", "lost", "closing", "exiting"}

Alive(w) == w \in Workers /\ thread[w] # "dead"

Init ==
  /\ caller = "idle"
  /\ left = 0
  /\ current = NoWorker
  /\ thread = [w \in Workers |-> "dead"]
  /\ outcome = [w \in Workers |-> "pending"]
  /\ abandoned = [w \in Workers |-> FALSE]
  /\ cap = [w \in Workers |-> FALSE]

-----------------------------------------------------------------------------
(* The caller: _acquire_camera and what follows it, in the pipe server.    *)

\* A fresh thread, event, lock and outcome.  A name whose thread is dead
\* stands for a new one.
StartAttempt(w) ==
  /\ thread[w] = "dead"
  /\ current' = w
  /\ thread' = [thread EXCEPT ![w] = "opening"]
  /\ outcome' = [outcome EXCEPT ![w] = "pending"]
  /\ abandoned' = [abandoned EXCEPT ![w] = FALSE]
  /\ caller' = "waiting"
  /\ UNCHANGED cap

\* Mutant: open() does not look at the previous thread.
OpenUnchecked(w) ==
  /\ caller = "idle"
  /\ left' = Retries
  /\ StartAttempt(w)

\* The device is opened only when no thread is still in flight.  A persistent
\* camera in hand is used as it is.
Open(w) ==
  /\ caller = "idle"
  /\ ~Alive(current)
  /\ left' = Retries
  /\ StartAttempt(w)

Refuse ==
  /\ caller = "idle"
  /\ Alive(current)
  /\ UNCHANGED vars

\* The sleep between two attempts is over.
Retry(w) ==
  /\ caller = "pausing"
  /\ left' = left - 1
  /\ StartAttempt(w)

\* join() has returned, at the thread's end or at the ceiling, and the lock
\* finds a result.
TakeCapture ==
  /\ caller = "waiting"
  /\ outcome[current] = "ok"
  /\ caller' = "using"
  /\ left' = 0
  /\ UNCHANGED <<current, thread, handoff, cap>>

\* No retry follows the last attempt, nor one that spent timeout_s.
TakeFailure ==
  /\ caller = "waiting"
  /\ outcome[current] = "failed"
  /\ \/ left > 0 /\ caller' = "pausing" /\ UNCHANGED left
     \/ caller' = "idle" /\ left' = 0
  /\ UNCHANGED <<current, thread, handoff, cap>>

\* Mutants: the flag is set without a second look at the result; the join
\* has no ceiling.
AbandonUnlocked ==
  /\ caller = "waiting"
  /\ abandoned' = [abandoned EXCEPT ![current] = TRUE]
  /\ caller' = "idle"
  /\ left' = 0
  /\ UNCHANGED <<current, thread, outcome, cap>>

JoinUncapped ==
  /\ caller = "waiting"
  /\ thread[current] = "dead"
  /\ outcome[current] = "pending"
  /\ abandoned' = [abandoned EXCEPT ![current] = TRUE]
  /\ caller' = "idle"
  /\ left' = 0
  /\ UNCHANGED <<current, thread, outcome, cap>>

\* The ceiling is reached and the lock finds no result: no retry.
Abandon ==
  /\ caller = "waiting"
  /\ outcome[current] = "pending"
  /\ abandoned' = [abandoned EXCEPT ![current] = TRUE]
  /\ caller' = "idle"
  /\ left' = 0
  /\ UNCHANGED <<current, thread, outcome, cap>>

\* The request, the lease or the shutdown is done with the camera.
Close ==
  /\ caller = "using"
  /\ cap' = [cap EXCEPT ![current] = FALSE]
  /\ caller' = "idle"
  /\ UNCHANGED <<left, current, thread, handoff>>

-----------------------------------------------------------------------------
(* The thread of an attempt: open_fast inside _run.                        *)

To(w, from, to) ==
  /\ thread[w] = from
  /\ thread' = [thread EXCEPT ![w] = to]
  /\ UNCHANGED <<caller, left, current>>

\* A backend delivers a frame.
Grab(w) ==
  /\ To(w, "opening", "probing")
  /\ cap' = [cap EXCEPT ![w] = TRUE]
  /\ UNCHANGED handoff

\* No backend does, a call raises on the way there, or the deadline passes, which
\* closes a capture in its warm-up.  (Assumed: no read raises in the warm-up; it
\* would leave the capture to the next attempt.)
GiveUp(w) ==
  /\ \/ To(w, "opening", "lost")
     \/ To(w, "probing", "lost")
  /\ cap' = [cap EXCEPT ![w] = FALSE]
  /\ UNCHANGED handoff

Warmed(w) == To(w, "probing", "won") /\ UNCHANGED <<handoff, cap>>

\* Mutant: the thread does not look whether it was abandoned.
PublishUnaware(w) ==
  /\ To(w, "won", "exiting") \/ To(w, "lost", "exiting")
  /\ outcome' = [outcome EXCEPT ![w] = IF thread[w] = "won" THEN "ok" ELSE "failed"]
  /\ UNCHANGED <<abandoned, cap>>

\* Under the lock: the result, and whether anybody still waits for it.
Publish(w) ==
  /\ \/ To(w, "won", IF abandoned[w] THEN "closing" ELSE "exiting")
     \/ To(w, "lost", IF abandoned[w] THEN "closing" ELSE "exiting")
  /\ outcome' = [outcome EXCEPT ![w] = IF thread[w] = "won" THEN "ok" ELSE "failed"]
  /\ UNCHANGED <<abandoned, cap>>

CloseLate(w) ==
  /\ To(w, "closing", "exiting")
  /\ cap' = [cap EXCEPT ![w] = FALSE]
  /\ UNCHANGED handoff

Exit(w) == To(w, "exiting", "dead") /\ UNCHANGED <<handoff, cap>>

-----------------------------------------------------------------------------

\* What ends a join() or a pause.
CallerReturns ==
  \/ TakeCapture \/ TakeFailure \/ Abandon
  \/ \E w \in Workers : Retry(w)

\* What a thread does with no help from the driver but release().
Unwinds(w) == Publish(w) \/ CloseLate(w) \/ Exit(w)

Worker(w) == Grab(w) \/ GiveUp(w) \/ Warmed(w) \/ Unwinds(w)

Next ==
  \/ \E w \in Workers : Open(w)
  \/ Refuse
  \/ CallerReturns
  \/ Close
  \/ \E w \in Workers : Worker(w)

Spec == Init /\ [][Next]_vars

FairSpec ==
  /\ Spec
  /\ WF_vars(CallerReturns)
  /\ \A w \in Workers : WF_vars(Unwinds(w))

-----------------------------------------------------------------------------

TypeOK ==
  /\ caller \in Phases
  /\ left \in 0 .. Retries
  /\ current \in Workers \union {NoWorker}
  /\ thread \in [Workers -> Stages]
  /\ outcome \in [Workers -> {"pending", "ok", "failed"}]
  /\ abandoned \in [Workers -> BOOLEAN]
  /\ cap \in [Workers -> BOOLEAN]

\* However attempts are abandoned, refused and retried, the process never has
\* two captures of the webcam (open's refusal while a thread is in flight).
OneCapture == \A v, w \in Workers : cap[v] /\ cap[w] => v = w

\* The thread of an abandoned attempt will close what it opens.
WillClose(w) ==
  abandoned[w] /\ thread[w] \in {"opening", "probing", "won", "lost", "closing"}

\* A capture always has exactly one party that will close it: the caller that
\* has or will take it, or the thread that was told nobody waits (the lock
\* around the result and the flag).
OneCloser ==
  \A w \in Workers : cap[w] =>
    \/ WillClose(w) /\ caller = "idle"
    \/ ~WillClose(w) /\ current = w /\ caller \in {"waiting", "using"}

\* The caller's view of all this is CameraHandle.
Holder ==
  CASE caller = "using" -> "held"
    [] caller \in {"waiting", "pausing"} -> "trying"
    [] caller = "idle" /\ \E w \in Workers : Alive(w) /\ abandoned[w] -> "orphan"
    [] OTHER -> "free"

Handle == INSTANCE CameraHandle
            WITH holder <- Holder, device <- \E w \in Workers : cap[w]

\* open() keeps the promises of CameraHandle: it returns however long the
\* driver hangs, the caller alone ends its use of a capture, and no attempt
\* starts while an abandoned one may still bring up a capture.
IsAHandle == Handle!FairSpec

\* Once the driver lets an abandoned attempt go, the capture it produced is
\* closed, although nobody ever asks for it again (the tail of _run).
LateCaptureClosed ==
  \A w \in Workers :
    (abandoned[w] /\ thread[w] = "won") ~> ~cap[w]
=============================================================================
