-------------------------- MODULE CameraOpenerProofs --------------------------
(***************************************************************************)
(* Proofs about CameraOpener: the process never has two captures, each     *)
(* capture has one party to close it, and the opener implements            *)
(* CameraHandle.                                                           *)
(***************************************************************************)
EXTENDS CameraOpener, TLAPS

Running == {"opening", "probing", "won", "lost"}
Finished == {"exiting", "dead"}

\* Only the latest attempt is still at the driver, and either the caller
\* waits for it or it knows that nobody does.
RunningIsCurrent ==
  \A w \in Workers : thread[w] \in Running =>
    /\ w = current
    /\ outcome[w] = "pending"
    /\ abandoned[w] <=> caller = "idle"
    /\ caller \in {"idle", "waiting"}
    /\ cap[w] <=> thread[w] \in {"probing", "won"}

ClosingIsAbandoned ==
  \A w \in Workers : thread[w] = "closing" =>
    /\ w = current
    /\ outcome[w] # "pending"
    /\ abandoned[w]
    /\ caller = "idle"

\* A thread that is done leaves a capture behind for the caller only.
FinishedIsTaken ==
  \A w \in Workers : thread[w] \in Finished /\ cap[w] =>
    /\ w = current
    /\ outcome[w] = "ok"
    /\ ~abandoned[w]
    /\ caller \in {"waiting", "using"}

AbandonedIsCurrent ==
  \A w \in Workers : abandoned[w] /\ thread[w] # "dead" =>
    /\ w = current
    /\ caller = "idle"

CallerKnows ==
  /\ caller # "idle" => current \in Workers /\ ~abandoned[current]
  /\ caller = "waiting" =>
       /\ outcome[current] = "pending" <=> thread[current] \in Running
       /\ outcome[current] = "ok" => cap[current]
  /\ caller = "pausing" =>
       /\ left > 0
       /\ outcome[current] = "failed" /\ thread[current] \in Finished
  /\ caller = "using" => cap[current] /\ thread[current] \in Finished

Settled ==
  /\ ClosingIsAbandoned
  /\ FinishedIsTaken
  /\ AbandonedIsCurrent
  /\ CallerKnows

Inv == TypeOK /\ RunningIsCurrent /\ Settled

USE DEF Phases, Stages, Running, Finished, handoff

-----------------------------------------------------------------------------

LEMMA InvInit == Init => Inv
  BY OpenerAssumption
  DEF Init, Inv, TypeOK, RunningIsCurrent, Settled, ClosingIsAbandoned,
      FinishedIsTaken, AbandonedIsCurrent, CallerKnows

\* An attempt starts only when no thread has anything left to do but exit.
LEMMA StartKeeps ==
  ASSUME Inv, NEW w \in Workers, StartAttempt(w), left' \in 0 .. Retries,
         (caller = "idle" /\ ~Alive(current)) \/ caller = "pausing"
  PROVE  Inv'
<1> USE DEF Inv, TypeOK, StartAttempt, Alive
<1>1. TypeOK'
  OBVIOUS
<1>2. \A v \in Workers : thread[v] \in Finished /\ ~cap[v]
  BY DEF RunningIsCurrent, Settled, ClosingIsAbandoned, FinishedIsTaken, CallerKnows
<1>3. RunningIsCurrent'
  BY <1>2 DEF RunningIsCurrent
<1>4. Settled'
  BY <1>2 DEF Settled, ClosingIsAbandoned, FinishedIsTaken, AbandonedIsCurrent,
              CallerKnows
<1> QED
  BY <1>1, <1>3, <1>4

\* What the caller's own steps leave.
LEMMA CallerKeeps ==
  ASSUME Inv, TakeCapture \/ TakeFailure \/ Abandon \/ Close
  PROVE  Inv'
<1> USE DEF Inv, TypeOK, RunningIsCurrent, Settled, ClosingIsAbandoned,
            FinishedIsTaken, AbandonedIsCurrent, CallerKnows
<1>1. CASE TakeCapture
  BY <1>1, OpenerAssumption DEF TakeCapture
<1>2. CASE TakeFailure
  BY <1>2, OpenerAssumption DEF TakeFailure
<1>3. CASE Abandon
  BY <1>3, OpenerAssumption DEF Abandon
<1>4. CASE Close
  BY <1>4, OpenerAssumption DEF Close
<1> QED
  BY <1>1, <1>2, <1>3, <1>4

\* What a thread's steps leave, whenever they come.
LEMMA WorkerKeeps ==
  ASSUME Inv, NEW w \in Workers, Worker(w)
  PROVE  Inv'
<1> USE DEF Inv, TypeOK, RunningIsCurrent, Settled, ClosingIsAbandoned,
            FinishedIsTaken, AbandonedIsCurrent, CallerKnows, To
<1>1. CASE Grab(w)
  BY <1>1 DEF Grab
<1>2. CASE GiveUp(w)
  BY <1>2 DEF GiveUp
<1>3. CASE Warmed(w)
  BY <1>3 DEF Warmed
<1>4. CASE Publish(w)
  BY <1>4 DEF Publish
<1>5. CASE CloseLate(w)
  BY <1>5 DEF CloseLate
<1>6. CASE Exit(w)
  BY <1>6 DEF Exit
<1> QED
  BY <1>1, <1>2, <1>3, <1>4, <1>5, <1>6 DEF Worker, Unwinds
LEMMA InvStep == Inv /\ [Next]_vars => Inv'
<1> SUFFICES ASSUME Inv, [Next]_vars PROVE Inv'
  OBVIOUS
<1>1. ASSUME NEW w \in Workers, Open(w) PROVE Inv'
  BY <1>1, StartKeeps, OpenerAssumption DEF Open
<1>2. ASSUME NEW w \in Workers, Retry(w) PROVE Inv'
  <2>1. left' \in 0 .. Retries
    BY <1>2, OpenerAssumption DEF Retry, Inv, TypeOK, Settled, CallerKnows
  <2> QED
    BY <1>2, <2>1, StartKeeps DEF Retry
<1>3. CASE TakeCapture \/ TakeFailure \/ Abandon \/ Close
  BY <1>3, CallerKeeps
<1>4. ASSUME NEW w \in Workers, Worker(w) PROVE Inv'
  BY <1>4, WorkerKeeps
<1>5. CASE UNCHANGED vars
  BY <1>5 DEF vars, Inv, TypeOK, RunningIsCurrent, Settled, ClosingIsAbandoned,
              FinishedIsTaken, AbandonedIsCurrent, CallerKnows
<1> QED
  BY <1>1, <1>2, <1>3, <1>4, <1>5 DEF Next, CallerReturns, Refuse

THEOREM InvAlways == Spec => []Inv
  BY InvInit, InvStep, PTL DEF Spec

\* In every interleaving of the caller and its threads the state keeps its
\* shape; in particular open() never retries more often than it may.
THEOREM TypeCorrect == Spec => []TypeOK
<1>1. Inv => TypeOK
  BY DEF Inv
<1> QED
  BY <1>1, InvAlways, PTL

LEMMA InvOwner ==
  Inv => OneCapture /\ OneCloser
<1> SUFFICES ASSUME Inv PROVE OneCapture /\ OneCloser
  OBVIOUS
<1> USE DEF Inv, TypeOK, RunningIsCurrent, Settled, ClosingIsAbandoned,
            FinishedIsTaken
<1>1. \A w \in Workers : cap[w] => w = current
  OBVIOUS
<1>2. OneCapture
  BY <1>1 DEF OneCapture
<1>3. OneCloser
  BY <1>1 DEF OneCloser, WillClose
<1> QED
  BY <1>2, <1>3

\* For any number of threads and retries, two captures of the webcam never
\* coexist in the process.
THEOREM NeverTwoCaptures == Spec => []OneCapture
  BY InvAlways, InvOwner, PTL

\* For any number of threads and retries, every capture has one closer.
THEOREM EveryCaptureHasOneCloser == Spec => []OneCloser
  BY InvAlways, InvOwner, PTL
-----------------------------------------------------------------------------

Orphaned == \E w \in Workers : Alive(w) /\ abandoned[w]
Captured == \E w \in Workers : cap[w]

LEMMA HolderCases ==
  ASSUME TypeOK
  PROVE  /\ caller = "using" => Holder = "held"
         /\ caller \in {"waiting", "pausing"} => Holder = "trying"
         /\ caller = "idle" /\ Orphaned => Holder = "orphan"
         /\ caller = "idle" /\ ~Orphaned => Holder = "free"
  BY DEF Holder, Orphaned, TypeOK

LEMMA HolderCasesNext ==
  ASSUME TypeOK'
  PROVE  /\ caller' = "using" => Holder' = "held"
         /\ caller' \in {"waiting", "pausing"} => Holder' = "trying"
         /\ caller' = "idle" /\ Orphaned' => Holder' = "orphan"
         /\ caller' = "idle" /\ ~Orphaned' => Holder' = "free"
  BY DEF Holder, Orphaned, TypeOK

\* Who can be an orphan, and whose capture it is, in every reachable state.
LEMMA OrphanIsCurrent ==
  ASSUME Inv
  PROVE  /\ \A w \in Workers : cap[w] => w = current
         /\ \A w \in Workers : Alive(w) /\ abandoned[w] => w = current /\ caller = "idle"
         /\ caller = "idle" /\ Captured => Orphaned
         /\ caller = "using" => Captured
         /\ caller = "pausing" => ~Captured
  BY DEF Inv, TypeOK, RunningIsCurrent, Settled, ClosingIsAbandoned, FinishedIsTaken,
         AbandonedIsCurrent, CallerKnows, Alive, Orphaned, Captured

LEMMA StartIsTry ==
  ASSUME Inv, Inv', NEW w \in Workers, StartAttempt(w),
         (caller = "idle" /\ ~Alive(current)) \/ caller = "pausing"
  PROVE  Handle!Try \/ UNCHANGED Handle!vars
<1> USE DEF Inv
<1>1. Holder' = "trying" /\ (Captured <=> Captured')
  BY HolderCasesNext DEF StartAttempt, Captured
<1>2. CASE caller = "idle" /\ ~Alive(current)
  <2>1. ~Orphaned
    BY <1>2, OrphanIsCurrent DEF Orphaned
  <2>2. Holder = "free"
    BY <1>2, <2>1, HolderCases
  <2> QED
    BY <1>1, <2>2 DEF Handle!Try, Captured
<1>3. CASE caller = "pausing"
  <2>1. Holder = "trying"
    BY <1>3, HolderCases
  <2> QED
    BY <1>1, <2>1 DEF Handle!vars, Captured
<1> QED
  BY <1>2, <1>3
LEMMA CallerIsHandle ==
  ASSUME Inv, Inv', TakeCapture \/ TakeFailure \/ Abandon \/ Close
  PROVE  Handle!Next \/ UNCHANGED Handle!vars
<1> USE DEF Inv, Handle!Next, Handle!Return
<1>1. CASE TakeCapture
  <2>1. Holder = "trying" /\ Holder' = "held"
    BY <1>1, HolderCases, HolderCasesNext DEF TakeCapture
  <2>2. Captured /\ cap' = cap
    BY <1>1 DEF TakeCapture, Captured, Settled, CallerKnows
  <2> QED
    BY <2>1, <2>2 DEF Handle!Settle, Captured
<1>2. CASE TakeFailure
  <2>1. ~cap[current] /\ ~abandoned[current] /\ UNCHANGED <<cap, abandoned, thread>>
    BY <1>2 DEF TakeFailure, TypeOK, RunningIsCurrent, Settled, ClosingIsAbandoned,
                FinishedIsTaken, CallerKnows, handoff
  <2>2. ~Captured /\ ~Captured' /\ ~Orphaned'
    BY <1>2, <2>1, OrphanIsCurrent DEF TakeFailure, Captured, Orphaned, Alive
  <2>3. Holder = "trying" /\ Holder' \in {"trying", "free"}
    BY <1>2, <2>2, HolderCases, HolderCasesNext DEF TakeFailure
  <2> QED
    BY <2>2, <2>3 DEF Handle!Settle, Handle!vars, Captured
<1>3. CASE Abandon
  <2>1. Orphaned'
    BY <1>3 DEF Abandon, TypeOK, Settled, CallerKnows, Orphaned, Alive
  <2>2. Holder = "trying" /\ Holder' = "orphan" /\ cap' = cap
    BY <1>3, <2>1, HolderCases, HolderCasesNext DEF Abandon
  <2> QED
    BY <2>2 DEF Handle!GiveUp, Captured
<1>4. CASE Close
  <2>1. ~Orphaned' /\ ~Captured'
    BY <1>4, OrphanIsCurrent DEF Close, TypeOK, Orphaned, Captured, Alive
  <2>2. Holder = "held" /\ Holder' = "free"
    BY <1>4, <2>1, HolderCases, HolderCasesNext DEF Close
  <2> QED
    BY <2>1, <2>2 DEF Handle!Close, Captured
<1> QED
  BY <1>1, <1>2, <1>3, <1>4

\* A thread changes the device only while the caller does not rely on it, and
\* the last thing an abandoned one does is to free the place.
LEMMA WorkerIsHandle ==
  ASSUME Inv, Inv', NEW w \in Workers, Worker(w)
  PROVE  Handle!Next \/ UNCHANGED Handle!vars
<1> USE DEF Inv, To, handoff
<1>1. ASSUME Grab(w) \/ GiveUp(w) \/ CloseLate(w)
      PROVE  Handle!Next \/ UNCHANGED Handle!vars
  <2>1. Orphaned' <=> Orphaned
    BY <1>1 DEF Grab, GiveUp, CloseLate, TypeOK, Orphaned, Alive
  <2>2. caller' = caller /\ (caller = "waiting" \/ (caller = "idle" /\ Orphaned))
    BY <1>1 DEF Grab, GiveUp, CloseLate, TypeOK, RunningIsCurrent, Settled,
                ClosingIsAbandoned, Orphaned, Alive
  <2>3. Holder' = Holder /\ Holder \in {"trying", "orphan"}
    BY <2>1, <2>2, HolderCases, HolderCasesNext
  <2>4. CASE Captured' <=> Captured
    BY <2>3, <2>4 DEF Handle!vars, Captured
  <2>5. CASE Captured' <=> ~Captured
    BY <2>3, <2>5 DEF Handle!Next, Handle!Driver, Captured
  <2> QED
    BY <2>4, <2>5
<1>2. ASSUME Warmed(w) \/ Publish(w)
      PROVE  UNCHANGED Handle!vars
  <2>1. (Orphaned' <=> Orphaned) /\ cap' = cap /\ caller' = caller
    BY <1>2 DEF Warmed, Publish, TypeOK, Orphaned, Alive
  <2>2. Holder' = Holder
    BY <2>1, HolderCases, HolderCasesNext DEF TypeOK, Phases
  <2> QED
    BY <2>1, <2>2 DEF Handle!vars
<1>3. ASSUME Exit(w)
      PROVE  Handle!Next \/ UNCHANGED Handle!vars
  <2>1. cap' = cap /\ caller' = caller /\ (Orphaned' => Orphaned)
    BY <1>3 DEF Exit, TypeOK, Orphaned, Alive
  <2>2. CASE caller = "idle" /\ Orphaned /\ ~Orphaned'
    <3>1. Holder = "orphan" /\ Holder' = "free"
      BY <2>1, <2>2, HolderCases, HolderCasesNext
    <3>2. abandoned[w] /\ thread[w] = "exiting"
      BY <1>3, <2>2 DEF Exit, TypeOK, Orphaned, Alive
    <3>3. ~Captured
      BY <3>2, OrphanIsCurrent DEF Captured, Settled, FinishedIsTaken, Alive
    <3> QED
      BY <2>1, <3>1, <3>3 DEF Handle!Next, Handle!Reclaim, Captured
  <2>3. CASE ~(caller = "idle" /\ Orphaned /\ ~Orphaned')
    <3>1. Holder' = Holder
      BY <2>1, <2>3, HolderCases, HolderCasesNext DEF TypeOK, Phases
    <3> QED
      BY <2>1, <3>1 DEF Handle!vars
  <2> QED
    BY <2>2, <2>3
<1> QED
  BY <1>1, <1>2, <1>3 DEF Worker, Unwinds

LEMMA HandleInit == Init => Handle!Init
  BY OpenerAssumption DEF Init, Handle!Init, Holder, Alive

LEMMA HandleStep == Inv /\ Inv' /\ [Next]_vars => [Handle!Next]_(Handle!vars)
<1> SUFFICES ASSUME Inv, Inv', [Next]_vars
             PROVE  Handle!Next \/ UNCHANGED Handle!vars
  OBVIOUS
<1>1. ASSUME NEW w \in Workers, Open(w) \/ Retry(w)
      PROVE  Handle!Next \/ UNCHANGED Handle!vars
  BY <1>1, StartIsTry DEF Open, Retry, Handle!Next
<1>2. CASE TakeCapture \/ TakeFailure \/ Abandon \/ Close
  BY <1>2, CallerIsHandle
<1>3. ASSUME NEW w \in Workers, Worker(w)
      PROVE  Handle!Next \/ UNCHANGED Handle!vars
  BY <1>3, WorkerIsHandle
<1>4. CASE UNCHANGED vars
  BY <1>4 DEF vars, Handle!vars, Holder, Alive
<1> QED
  BY <1>1, <1>2, <1>3, <1>4 DEF Next, CallerReturns, Refuse

\* The threads, their lock and the refusal implement the handle without
\* threads, for any number of threads and retries.
THEOREM ImplementsHandle == Spec => Handle!Spec
  BY InvAlways, HandleInit, HandleStep, PTL DEF Spec, Handle!Spec
=============================================================================
