---------------------------- MODULE UnlockService ----------------------------
(***************************************************************************)
(* face_service/service.py: the sequential pipe server that turns a face   *)
(* into a credential reply, with its clients, its lockout and its crashes. *)
(*                                                                         *)
(* One connection is served at a time.  A request is read, passes the      *)
(* gates, may own the camera for a while, is answered, and its grant is    *)
(* settled once the reply has or has not been written.  Clients call, wait *)
(* within their own budget, and may leave at any moment; the process may   *)
(* die between any two steps and is then started again.                    *)
(***************************************************************************)
EXTENDS LockoutOps, FiniteSets

CONSTANTS
  Clients,           \* processes that may open the pipe
  SystemClients,     \* those running as SYSTEM (the credential provider)
  NoClient,
  Commands,          \* the commands the clients use, a subset of AllCommands
  MaxAttempts,       \* cfg.max_face_attempts
  LockoutSeconds,    \* cfg.lockout_seconds
  UnlockDeadline,    \* UNLOCK_DEADLINE_S
  GestureDeadline,   \* UNLOCK_GESTURE_DEADLINE_S
  TokenTTL,          \* GESTURE_TOKEN_TTL_S
  PersistentCamera,  \* cfg.persistent_camera
  Leases,            \* lengths of a camera lease, already clamped
  MaxTime,           \* bound: the clock stops here
  MaxTokens          \* bound: gesture tokens ever issued

AllCommands == {"unlock", "unlock_gesture", "presence", "pause_camera",
                "resume_camera", "clear_enrollment", "reload_config", "shutdown"}

ASSUME ServiceAssumption ==
  /\ SystemClients \subseteq Clients
  /\ NoClient \notin Clients
  /\ Commands \subseteq AllCommands
  /\ MaxAttempts \in Nat \ {0}
  /\ LockoutSeconds \in Nat
  /\ UnlockDeadline \in Nat /\ GestureDeadline \in Nat /\ TokenTTL \in Nat
  /\ PersistentCamera \in BOOLEAN
  /\ Leases \subseteq Nat
  /\ MaxTime \in Nat /\ MaxTokens \in Nat

VARIABLES
  now,            \* seconds
  pc,             \* where the serve loop is
  conn,           \* the client of the connection being served
  job,            \* the request being served
  started,        \* _req_started
  reply,          \* the answer, once the handler has made it
  pending,        \* _pending_grant: is a grant armed?
  lockout,        \* the Lockout object
  saved,          \* lockout.json
  slot,           \* _gesture_slot
  leasedUntil,    \* _camera_paused_until
  cam,            \* does the process hold the webcam?
  requireSystem,  \* cfg.pipe_unlock_require_system
  floor,          \* _posture_floor of that key
  hardened,       \* history: the strongest such gate in force in this process
  insecure,       \* _data_dir_insecure
  stopping,       \* _stop
  client,         \* what each client is doing
  issued,         \* history: tokens issued so far
  rounds,         \* history: camera rounds started on each token
  misses          \* history: failed faces judged since the last fresh start

clock == <<now>>
serving == <<pc, conn, job, started, reply, pending>>
ledger == <<lockout, saved>>
posture == <<requireSystem, floor, hardened, insecure>>
process == <<slot, leasedUntil, cam, posture, stopping>>
history == <<issued, rounds, misses>>
vars == <<clock, serving, ledger, process, client, history>>

-----------------------------------------------------------------------------
(* Data *)

PCs == {"down", "check", "bind", "accept", "read", "gates", "capture", "reply",
        "delivered", "undelivered", "flush"}

\* Where no connection is being served.
BetweenClients == {"down", "check", "bind", "accept"}

Tokens == 1 .. MaxTokens
NoToken == 0

NoJob == [cmd |-> "none", token |-> NoToken]
NoSlot == [token |-> NoToken, expires |-> 0]

BurstFaults == {"no-frames", "no-enrollment", "engine-error"}
Reasons == BurstFaults \cup
  {"none", "ok", "granted", "not-authorized", "locked-out", "camera-busy",
   "insecure-data-dir", "exception", "too-dark", "no-match", "needs-gesture",
   "gesture-token-invalid", "gesture-failed", "deadline-exceeded",
   "no-credentials"}

CredentialCommands == {"unlock", "unlock_gesture"}

-----------------------------------------------------------------------------
(* The clients *)

\* Is the client end of the served connection still open?
Attached(c) == conn = c /\ client[c] \in {"connected", "waiting"}

\* A client starts a call, and knocks until the pipe is free.
Call(c) ==
  /\ client[c] = "idle"
  /\ client' = [client EXCEPT ![c] = "dialing"]
  /\ UNCHANGED <<clock, serving, ledger, process, history>>

\* Connected and satisfied with the server's identity, it writes its request.
Send(c) ==
  /\ client[c] = "connected"
  /\ client' = [client EXCEPT ![c] = "waiting"]
  /\ UNCHANGED <<clock, serving, ledger, process, history>>

\* The reply is in the pipe: the client takes it and closes.
Receive(c) ==
  /\ conn = c /\ client[c] = "waiting"
  /\ pc \in {"delivered", "flush"}
  /\ client' = [client EXCEPT ![c] = "idle"]
  /\ UNCHANGED <<clock, serving, ledger, process, history>>

\* The call ends without an answer: out of budget, server refused, or killed.
Leave(c) ==
  /\ client[c] # "idle"
  /\ client' = [client EXCEPT ![c] = "idle"]
  /\ UNCHANGED <<clock, serving, ledger, process, history>>

-----------------------------------------------------------------------------
(* The serve loop *)

\* Mutant of NextTurn, for ShutdownHappens: _stop is not looked at.
NextTurnUnchecked ==
  /\ pc = "check"
  /\ pc' = "bind"
  /\ UNCHANGED <<clock, conn, job, started, reply, pending, ledger, process, client,
                 history>>

\* The top of serve_forever's loop: _stop is looked at before the pipe exists.
NextTurn ==
  /\ pc = "check" /\ ~stopping
  /\ pc' = "bind"
  /\ UNCHANGED <<clock, conn, job, started, reply, pending, ledger, process, client,
                 history>>

\* CreateNamedPipe: the pipe exists; or its name is taken and the service stops
\* itself; or it fails in some other way and the loop tries again.
Listen ==
  /\ pc = "bind"
  /\ \/ pc' = "accept" /\ UNCHANGED stopping
     \/ pc' = "check" /\ stopping' \in {stopping, TRUE}
  /\ UNCHANGED <<clock, conn, job, started, reply, pending, ledger, slot, leasedUntil,
                 cam, posture, client, history>>

\* ConnectNamedPipe returns with a client.
Accept(c) ==
  /\ pc = "accept" /\ ~stopping
  /\ client[c] = "dialing"
  /\ pc' = "read"
  /\ conn' = c
  /\ client' = [client EXCEPT ![c] = "connected"]
  /\ UNCHANGED <<clock, job, started, reply, pending, ledger, process, history>>

\* A stop nobody woke the loop for is noticed now; the client is dropped.
TurnAway(c) ==
  /\ pc = "accept" /\ stopping
  /\ client[c] = "dialing"
  /\ pc' = "check"
  /\ client' = [client EXCEPT ![c] = "idle"]
  /\ UNCHANGED <<clock, conn, job, started, reply, pending, ledger, process, history>>

\* ReadFile returns a request, whatever the client chose to ask with whatever
\* token it may have seen: the deadlines count from here.  The request of a
\* client that has left since is still in the pipe.
Read ==
  /\ pc = "read" /\ (client[conn] = "waiting" \/ ~Attached(conn))
  /\ pc' = "gates"
  /\ started' = now
  /\ pending' = FALSE
  /\ \E cmd \in Commands :
       \E token \in IF cmd = "unlock_gesture" THEN 0 .. issued ELSE {NoToken} :
         job' = [cmd |-> cmd, token |-> token]
  /\ UNCHANGED <<clock, conn, reply, ledger, process, client, history>>

\* DisconnectNamedPipe and CloseHandle: the loop can take the next client.
HangUp ==
  /\ pc' = "check"
  /\ conn' = NoClient
  /\ job' = NoJob
  /\ started' = 0
  /\ reply' = "none"

\* Or the client closed before it sent anything.
ReadNothing ==
  /\ pc = "read" /\ ~Attached(conn)
  /\ HangUp
  /\ UNCHANGED <<clock, pending, ledger, process, client, history>>

\* WriteFile: it succeeds exactly while the client end is open.
WriteReply ==
  /\ pc = "reply"
  /\ pc' = IF Attached(conn) THEN "delivered" ELSE "undelivered"
  /\ UNCHANGED <<clock, conn, job, started, reply, pending, ledger, process,
                 client, history>>

\* lockout.record(True); a state that was already clean is not saved again.
Forgive ==
  /\ lockout' = Clean
  /\ saved' = IF lockout = Clean THEN saved ELSE Clean
  /\ misses' = 0

\* Mutant of Strike, for BudgetHeld: the strike is counted but not saved.
StrikeUnsaved ==
  /\ lockout' = AfterFailure(lockout, now, MaxAttempts, LockoutSeconds)
  /\ misses' = misses + 1
  /\ UNCHANGED saved

\* lockout.record(False): judged, counted and saved in one handler step.
Strike ==
  /\ lockout' = AfterFailure(lockout, now, MaxAttempts, LockoutSeconds)
  /\ saved' = IF IsLocked(lockout, now) THEN saved ELSE lockout'
  /\ misses' = misses + 1

\* Mutant of Settle, for ForgivenessEarned: the write's outcome is ignored.
SettleUnasked ==
  /\ pc \in {"delivered", "undelivered"}
  /\ pending' = FALSE
  /\ IF pending THEN Forgive ELSE UNCHANGED <<ledger, misses>>
  /\ IF pc = "delivered"
     THEN pc' = "flush" /\ UNCHANGED <<conn, job, started, reply>>
     ELSE HangUp
  /\ UNCHANGED <<clock, process, client, issued, rounds>>

\* _finish_grant: the armed grant is taken, and only a delivered one forgives.
Settle ==
  /\ pc \in {"delivered", "undelivered"}
  /\ pending' = FALSE
  /\ IF pending /\ pc = "delivered" THEN Forgive ELSE UNCHANGED <<ledger, misses>>
  /\ IF pc = "delivered"
     THEN pc' = "flush" /\ UNCHANGED <<conn, job, started, reply>>
     ELSE HangUp
  /\ UNCHANGED <<clock, process, client, issued, rounds>>

\* Mutant of Disconnect, for BackToAccept: the drain waits for a word from the
\* client and does not notice it close.
DisconnectOnWord ==
  /\ pc = "flush" /\ Attached(conn)
  /\ HangUp
  /\ UNCHANGED <<clock, pending, ledger, process, client, history>>

\* FlushFileBuffers returns once the client has read or closed; the drain that
\* follows is bounded; then the connection ends.
Disconnect ==
  /\ pc = "flush" /\ ~Attached(conn)
  /\ HangUp
  /\ UNCHANGED <<clock, pending, ledger, process, client, history>>

-----------------------------------------------------------------------------
(* The gates of a request *)

Serving(cmd) == pc = "gates" /\ job.cmd = cmd

Authorised == requireSystem => conn \in SystemClients
Leased == now < leasedUntil

\* The handler returns; what else it changed is up to the caller.
Answer(reason) ==
  /\ pc' = "reply"
  /\ reply' = reason
  /\ UNCHANGED <<clock, conn, job, started, client>>

Refuse(reason) == Answer(reason) /\ UNCHANGED <<pending, ledger>>

RefuseCaller ==
  /\ pc = "gates" /\ job.cmd \in CredentialCommands
  /\ ~Authorised
  /\ Refuse("not-authorized")
  /\ UNCHANGED <<process, history>>

RefuseLocked ==
  /\ pc = "gates" /\ job.cmd \in CredentialCommands
  /\ Authorised /\ IsLocked(lockout, now)
  /\ Refuse("locked-out")
  /\ UNCHANGED <<process, history>>

\* The camera is leased out, or opening it finds the device busy.
NoCamera(reason) ==
  /\ Leased \/ ~cam
  /\ Refuse(reason)
  /\ UNCHANGED cam

\* Mutant of AcquireCamera, for LeaseExclusive: the lease is not consulted.
AcquireLeased ==
  /\ pc' = "capture"
  /\ cam' = TRUE
  /\ UNCHANGED <<clock, conn, job, started, reply, pending, ledger, client>>

\* _acquire_camera: a cached handle is reused, else the device is opened.
AcquireCamera ==
  /\ ~Leased
  /\ pc' = "capture"
  /\ cam' = TRUE
  /\ UNCHANGED <<clock, conn, job, started, reply, pending, ledger, client>>

\* unlock past its gates: the burst runs, or there is no camera to run it on.
StartBurst ==
  /\ Serving("unlock") /\ Authorised /\ ~IsLocked(lockout, now)
  /\ NoCamera("camera-busy") \/ AcquireCamera
  /\ UNCHANGED <<slot, leasedUntil, posture, stopping, history>>

TokenLive == slot # NoSlot /\ now < slot.expires

\* _take_gesture_token fails: a dead slot is dropped, a wrong token costs nothing.
RefuseToken ==
  /\ Serving("unlock_gesture") /\ Authorised /\ ~IsLocked(lockout, now)
  /\ ~TokenLive \/ job.token # slot.token
  /\ slot' = IF TokenLive THEN slot ELSE NoSlot
  /\ Refuse("gesture-token-invalid")
  /\ UNCHANGED <<leasedUntil, cam, posture, stopping, history>>

\* Mutant of StartRound, for TokensSpentOnce: the token outlives its round.
StartRoundUnburnt ==
  /\ Serving("unlock_gesture") /\ Authorised /\ ~IsLocked(lockout, now)
  /\ TokenLive /\ job.token = slot.token
  /\ rounds' = [rounds EXCEPT ![job.token] = @ + 1]
  /\ NoCamera("camera-busy") \/ AcquireCamera
  /\ UNCHANGED <<slot, leasedUntil, posture, stopping, issued, misses>>

\* _take_gesture_token succeeds: the token is burnt before the round runs.
StartRound ==
  /\ Serving("unlock_gesture") /\ Authorised /\ ~IsLocked(lockout, now)
  /\ TokenLive /\ job.token = slot.token
  /\ slot' = NoSlot
  /\ rounds' = [rounds EXCEPT ![job.token] = @ + 1]
  /\ NoCamera("camera-busy") \/ AcquireCamera
  /\ UNCHANGED <<leasedUntil, posture, stopping, issued, misses>>

\* presence: no camera means "present"; no verdict of it touches the lockout.
StartProbe ==
  /\ Serving("presence")
  /\ NoCamera("ok") \/ AcquireCamera
  /\ UNCHANGED <<slot, leasedUntil, posture, stopping, history>>

-----------------------------------------------------------------------------
(* The end of a capture *)

Judging(cmd) == pc = "capture" /\ job.cmd = cmd

\* A persistent handle may have been dropped by the self-heal; any other closes.
ReleaseCapture ==
  /\ cam' \in IF PersistentCamera THEN BOOLEAN ELSE {FALSE}
  /\ UNCHANGED <<slot, leasedUntil, posture, stopping>>

EndProbe ==
  /\ Judging("presence")
  /\ Refuse("ok")
  /\ ReleaseCapture
  /\ UNCHANGED history

\* Nothing about the face was learnt, or it may not be used: no strike.
BurstIsNeutral ==
  /\ Judging("unlock")
  /\ \/ insecure /\ Refuse("insecure-data-dir")
     \/ ~insecure /\ \E fault \in BurstFaults \cup {"too-dark"} : Refuse(fault)
     \/ Refuse("exception")
  /\ ReleaseCapture
  /\ UNCHANGED history

RoundIsNeutral ==
  /\ Judging("unlock_gesture")
  /\ \/ insecure /\ Refuse("insecure-data-dir")
     \/ Refuse("exception")
  /\ ReleaseCapture
  /\ UNCHANGED history

\* The face did not match: a strike, unless the camera is leased by now.
BurstMisses ==
  /\ Judging("unlock") /\ ~insecure
  /\ IF Leased THEN UNCHANGED <<ledger, misses>> ELSE Strike
  /\ Answer("no-match")
  /\ ReleaseCapture
  /\ UNCHANGED <<pending, issued, rounds>>

\* The round failed, was not fed by the enrolled face, or the engine refused it.
RoundFails ==
  /\ Judging("unlock_gesture")
  /\ Strike
  /\ Answer("gesture-failed")
  /\ ReleaseCapture
  /\ UNCHANGED <<pending, issued, rounds>>

\* Recognised, but liveness wants a gesture: a fresh token replaces any other.
BurstNeedsGesture ==
  /\ Judging("unlock") /\ ~insecure
  /\ issued < MaxTokens
  /\ issued' = issued + 1
  /\ slot' = [token |-> issued', expires |-> now + TokenTTL]
  /\ Answer("needs-gesture")
  /\ cam' \in IF PersistentCamera THEN BOOLEAN ELSE {FALSE}
  /\ UNCHANGED <<pending, ledger, leasedUntil, posture, stopping,
                 rounds, misses>>

\* The face is proved.  Too late, nothing is released and nothing forgiven;
\* without a stored password the match still forgives; else a grant is armed.
Grant(deadline) ==
  \/ now - started > deadline /\ Refuse("deadline-exceeded") /\ UNCHANGED misses
  \/ /\ now - started <= deadline
     /\ Answer("no-credentials")
     /\ Forgive
     /\ UNCHANGED pending
  \/ /\ now - started <= deadline
     /\ Answer("granted")
     /\ pending' = TRUE
     /\ UNCHANGED <<ledger, misses>>

BurstPasses ==
  /\ Judging("unlock") /\ ~insecure
  /\ Grant(UnlockDeadline)
  /\ ReleaseCapture
  /\ UNCHANGED <<issued, rounds>>

RoundPasses ==
  /\ Judging("unlock_gesture") /\ ~insecure
  /\ Grant(GestureDeadline)
  /\ ReleaseCapture
  /\ UNCHANGED <<issued, rounds>>

-----------------------------------------------------------------------------
(* The control commands *)

\* The lease is live first, then the webcam is let go.
PauseCamera ==
  /\ Serving("pause_camera")
  /\ \E length \in Leases : leasedUntil' = now + length
  /\ cam' = FALSE
  /\ Refuse("ok")
  /\ UNCHANGED <<slot, posture, stopping, history>>

ResumeCamera ==
  /\ Serving("resume_camera")
  /\ leasedUntil' = 0
  /\ Refuse("ok")
  /\ UNCHANGED <<slot, cam, posture, stopping, history>>

\* Of clear_enrollment, the part this module sees: the token is forgotten,
\* unless the recognizer raises before that.
ClearEnrollment ==
  /\ Serving("clear_enrollment")
  /\ \/ slot' = NoSlot /\ Refuse("ok")
     \/ UNCHANGED slot /\ Refuse("exception")
  /\ UNCHANGED <<leasedUntil, cam, posture, stopping, history>>

\* Mutant of Ratchet, for GrantsGuarded: the file has the last word.
RatchetSlips(wanted) == wanted

\* Whatever the file asks for, the SYSTEM gate is never lowered at run time:
\* the floor is the strongest value this process has seen.
Ratchet(wanted) == floor \/ requireSystem \/ wanted

\* A valid file is applied, and new camera settings drop the cached handle.  A
\* broken one changes nothing; one whose values cannot be applied keeps the
\* running settings, but has raised the floor already.
ReloadConfig ==
  /\ Serving("reload_config")
  /\ \/ /\ \E wanted \in BOOLEAN : requireSystem' = Ratchet(wanted)
        /\ floor' = (floor \/ requireSystem')
        /\ hardened' = (hardened \/ requireSystem')
        /\ cam' \in {cam, FALSE}
     \/ /\ \E wanted \in BOOLEAN : floor' \in {floor, Ratchet(wanted)}
        /\ UNCHANGED <<requireSystem, hardened, cam>>
  /\ Refuse("ok")
  /\ UNCHANGED <<slot, leasedUntil, insecure, stopping, history>>

Shutdown ==
  /\ Serving("shutdown")
  /\ stopping' = TRUE
  /\ Refuse("ok")
  /\ UNCHANGED <<slot, leasedUntil, cam, posture, history>>

-----------------------------------------------------------------------------
(* The process and the clock *)

\* Everything the process kept in memory is gone, and so is its pipe.
ProcessEnds ==
  /\ pc' = "down"
  /\ conn' = NoClient
  /\ job' = NoJob
  /\ started' = 0
  /\ reply' = "none"
  /\ pending' = FALSE
  /\ lockout' = Clean
  /\ slot' = NoSlot
  /\ leasedUntil' = 0
  /\ cam' = FALSE
  /\ stopping' = FALSE
  /\ client' = [c \in Clients |-> IF Attached(c) THEN "idle" ELSE client[c]]
  /\ UNCHANGED <<clock, saved, posture, history>>

\* Killed, by the watchdog or by anything else.
Die == pc # "down" /\ ProcessEnds

\* stop(), from the console handler's own thread, wherever the loop happens to
\* be: its self-connect wakes a loop that waits for a client, and is refused, and
\* not repeated, where there is no pipe yet or the pipe has its client.
Stop ==
  /\ pc # "down"
  /\ stopping' = TRUE
  /\ pc' = IF pc = "accept" THEN "check" ELSE pc
  /\ UNCHANGED <<clock, conn, job, started, reply, pending, ledger, slot, leasedUntil,
                 cam, posture, client, history>>

\* serve_forever leaves its loop.
Exit == pc = "check" /\ stopping /\ ProcessEnds

\* A persistent camera stays open after the warm-up, if it opened.
WarmUp == cam' \in IF PersistentCamera THEN BOOLEAN ELSE {FALSE}

\* A new process: lockout from its file, posture and custody as found on disk;
\* the warm-up may have left the persistent camera open.
Start ==
  /\ pc = "down"
  /\ pc' = "check"
  /\ lockout' = saved
  /\ requireSystem' \in BOOLEAN
  /\ floor' = requireSystem' /\ hardened' = requireSystem'
  /\ insecure' \in BOOLEAN
  /\ WarmUp
  /\ UNCHANGED <<clock, conn, job, started, reply, pending, saved, slot,
                 leasedUntil, stopping, client, history>>

\* The lockout a caller faces now, or would face after a start.
Standing == IF pc = "down" THEN saved ELSE lockout

\* A second passes; the end of a lockout is a fresh start for the history.
Tick ==
  /\ now < MaxTime
  /\ now' = now + 1
  /\ misses' = IF IsLocked(Standing, now) /\ ~IsLocked(Standing, now + 1)
               THEN 0 ELSE misses
  /\ UNCHANGED <<serving, ledger, process, client, issued, rounds>>

Init ==
  /\ now = 0
  /\ pc = "down" /\ conn = NoClient /\ job = NoJob /\ started = 0
  /\ reply = "none" /\ pending = FALSE
  /\ lockout = Clean /\ saved = Clean
  /\ slot = NoSlot /\ leasedUntil = 0 /\ cam = FALSE
  /\ requireSystem \in BOOLEAN /\ floor = requireSystem /\ hardened = requireSystem
  /\ insecure \in BOOLEAN /\ stopping = FALSE
  /\ client = [c \in Clients |-> "idle"]
  /\ issued = 0 /\ rounds = [t \in Tokens |-> 0] /\ misses = 0

ClientStep(c) ==
  \/ Call(c)
  \/ Send(c)
  \/ Receive(c)
  \/ Leave(c)

ServeStep ==
  \/ NextTurn \/ Listen
  \/ \E c \in Clients : Accept(c) \/ TurnAway(c)
  \/ Read \/ ReadNothing
  \/ RefuseCaller \/ RefuseLocked
  \/ StartBurst \/ RefuseToken \/ StartRound \/ StartProbe
  \/ BurstIsNeutral \/ BurstMisses \/ BurstNeedsGesture \/ BurstPasses
  \/ RoundIsNeutral \/ RoundFails \/ RoundPasses \/ EndProbe
  \/ PauseCamera \/ ResumeCamera \/ ClearEnrollment \/ ReloadConfig \/ Shutdown
  \/ WriteReply \/ Settle \/ Disconnect
  \/ Exit

Next ==
  \/ \E c \in Clients : ClientStep(c)
  \/ ServeStep
  \/ Stop
  \/ Die
  \/ Start
  \/ Tick

Spec == Init /\ [][Next]_vars

\* Every step of the serve loop is bounded in time, save those that wait for a
\* client to come, to send or to read.
ServerFairSpec == Spec /\ WF_vars(ServeStep)

\* A client's own budget ends every call it makes.
FairSpec == ServerFairSpec /\ \A c \in Clients : WF_vars(Leave(c))

-----------------------------------------------------------------------------
(* Properties *)

\* Every variable has its type, and a client is being served exactly while the
\* loop is between accept and hang-up.
TypeOK ==
  /\ now \in Nat /\ started \in Nat
  /\ pc \in PCs
  /\ conn \in Clients \cup {NoClient}
  /\ (conn = NoClient) <=> (pc \in BetweenClients)
  /\ job \in [cmd : AllCommands \cup {"none"}, token : Nat]
  /\ reply \in Reasons
  /\ pending \in BOOLEAN
  /\ lockout \in LockoutState /\ saved \in LockoutState
  /\ slot \in [token : Nat, expires : Nat]
  /\ leasedUntil \in Nat
  /\ cam \in BOOLEAN /\ requireSystem \in BOOLEAN /\ floor \in BOOLEAN
  /\ hardened \in BOOLEAN /\ insecure \in BOOLEAN /\ stopping \in BOOLEAN
  /\ client \in [Clients -> {"idle", "dialing", "connected", "waiting"}]
  /\ issued \in 0 .. MaxTokens
  /\ rounds \in [Tokens -> Nat]
  /\ misses \in Nat

\* The brute-force budget of service.py and lockout.py taken together: between
\* two fresh starts (a forgiven match, or the end of a lockout) the service
\* judges at most MaxAttempts failed faces, over both commands and however
\* often it is killed and started again; and the last one locks it.
BudgetHeld ==
  LockoutSeconds > 0 =>
    /\ misses <= MaxAttempts
    /\ misses = MaxAttempts => IsLocked(Standing, now)

\* A gesture token buys one camera round at most, and only the newest token
\* issued can still buy one, until it is TokenTTL old.
TokensSpentOnce ==
  /\ \A t \in Tokens : rounds[t] <= 1
  /\ slot # NoSlot => /\ slot.token = issued
                      /\ rounds[issued] = 0
                      /\ slot.expires <= now + TokenTTL

\* A grant on its way out went past every gate of the process that made it: the
\* strongest SYSTEM gate it had in force, its custody verdict, the lockout, and for
\* the second phase a token of its own.  And an armed grant belongs to the reply
\* being written: it never survives into the connection of another client.
GrantsGuarded ==
  /\ reply = "granted" =>
       /\ hardened => conn \in SystemClients
       /\ ~insecure
       /\ ~IsLocked(lockout, now)
       /\ job.cmd = "unlock_gesture" => rounds[job.token] = 1 /\ job.token = issued
  /\ pending => pc \in {"reply", "delivered", "undelivered"} /\ reply = "granted"

\* While the enrollment wizard has the lease the service holds no camera.
LeaseExclusive == Leased => ~cam

\* While the service runs, strikes and lockouts are wiped only for a proved face:
\* a grant whose reply was written, or a match that had no password to release.
ForgivenessEarned ==
  [][(pc # "down" /\ pc' # "down" /\ lockout # Clean /\ lockout' = Clean) =>
       \/ pc = "delivered" /\ pending /\ reply = "granted"
       \/ pc = "capture" /\ reply' = "no-credentials"]_vars

\* As long as clients keep to their budgets, every connection is over some time.
BackToAccept == conn # NoClient ~> conn = NoClient

\* A stop that finds the service serving ends the process, even with clients
\* queueing for the pipe: so it is with every shutdown command.
ShutdownHappens == (stopping /\ conn # NoClient) ~> pc = "down"

\* What the docstring of stop() promises: stopping does not wait for a client to
\* happen to connect.
StopHappens == stopping ~> pc = "down"
=============================================================================
