------------------------- MODULE UnlockServiceProofs -------------------------
(***************************************************************************)
(* Proofs about UnlockService: its types, the brute-force budget over      *)
(* crashes, the one-shot gesture token, and the perimeter of a grant.      *)
(***************************************************************************)
EXTENDS UnlockService, TLAPS

\* A lockout is running exactly until its deadline.
LEMMA LockedMeans ==
  ASSUME NEW l \in LockoutState, NEW t \in Nat
  PROVE  IsLocked(l, t) <=> l.until > t
  BY DEF LockoutState, IsLocked, Remaining

\* What a counted failure does: one more on the count, or a lockout from now.
LEMMA CountedFailure ==
  ASSUME NEW l \in LockoutState, NEW t \in Nat, ~IsLocked(l, t)
  PROVE  LET f == AfterFailure(l, t, MaxAttempts, LockoutSeconds)
         IN  /\ f \in LockoutState
             /\ IF l.fails + 1 >= MaxAttempts
                THEN f.fails = 0 /\ f.until = t + LockoutSeconds
                ELSE f.fails = l.fails + 1 /\ f.until = l.until
  BY ServiceAssumption DEF LockoutState, AfterFailure

LEMMA FailureType ==
  ASSUME NEW l \in LockoutState, NEW t \in Nat
  PROVE  AfterFailure(l, t, MaxAttempts, LockoutSeconds) \in LockoutState
  BY ServiceAssumption DEF LockoutState, AfterFailure

LEMMA CleanType == Clean \in LockoutState /\ Clean.fails = 0 /\ Clean.until = 0
  BY DEF LockoutState, Clean

-----------------------------------------------------------------------------
(* Types *)

\* Forgiving and striking keep the ledger and the count in their types.
LEMMA LedgerMovesType ==
  ASSUME TypeOK
  PROVE  /\ Forgive => lockout' \in LockoutState /\ saved' \in LockoutState /\ misses' \in Nat
         /\ Strike => lockout' \in LockoutState /\ saved' \in LockoutState /\ misses' \in Nat
  BY FailureType, CleanType DEF TypeOK, Forgive, Strike

LEMMA TypeInit == Init => TypeOK
<1> SUFFICES ASSUME Init PROVE TypeOK
  OBVIOUS
<1> USE ServiceAssumption, CleanType DEF Init
<1>1. job \in [cmd : AllCommands \cup {"none"}, token : Nat]
  BY DEF NoJob, NoToken
<1>2. slot \in [token : Nat, expires : Nat]
  BY DEF NoSlot, NoToken
<1>3. issued \in 0 .. MaxTokens /\ rounds \in [Tokens -> Nat]
  OBVIOUS
<1>4. client \in [Clients -> {"idle", "dialing", "connected", "waiting"}]
  OBVIOUS
<1> QED
  BY <1>1, <1>2, <1>3, <1>4 DEF TypeOK, PCs, BetweenClients, Reasons

LEMMA TypeStep == TypeOK /\ [Next]_vars => TypeOK'
<1> SUFFICES ASSUME TypeOK, [Next]_vars PROVE TypeOK'
  OBVIOUS
<1> USE ServiceAssumption
    DEF clock, serving, ledger, posture, process, history, PCs, BetweenClients, Reasons
<1>1. ASSUME NEW c \in Clients, ClientStep(c) PROVE TypeOK'
  BY <1>1 DEF ClientStep, Call, Send, Receive, Leave, TypeOK
<1>2. ASSUME NEW c \in Clients, Accept(c) \/ TurnAway(c) PROVE TypeOK'
  BY <1>2 DEF Accept, TurnAway, TypeOK
<1>3. CASE Read
  <2>1. PICK cmd \in Commands :
          \E token \in IF cmd = "unlock_gesture" THEN 0 .. issued ELSE {NoToken} :
            job' = [cmd |-> cmd, token |-> token]
    BY <1>3 DEF Read
  <2>2. PICK token \in IF cmd = "unlock_gesture" THEN 0 .. issued ELSE {NoToken} :
          job' = [cmd |-> cmd, token |-> token]
    BY <2>1
  <2>3. cmd \in AllCommands /\ token \in Nat
    BY DEF TypeOK, NoToken
  <2> QED
    BY <1>3, <2>2, <2>3 DEF Read, TypeOK
<1>4. CASE ReadNothing
  BY <1>4 DEF ReadNothing, HangUp, TypeOK, NoJob, NoToken
<1>5. CASE RefuseCaller
  BY <1>5 DEF RefuseCaller, Refuse, Answer, TypeOK
<1>6. CASE RefuseLocked
  BY <1>6 DEF RefuseLocked, Refuse, Answer, TypeOK
<1>7. CASE StartBurst
  BY <1>7 DEF StartBurst, Serving, NoCamera, AcquireCamera, Refuse, Answer, TypeOK
<1>8. CASE RefuseToken
  BY <1>8 DEF RefuseToken, Serving, Refuse, Answer, TypeOK, NoSlot, NoToken
<1>9. CASE StartRound
  <2>1. rounds' \in [Tokens -> Nat]
    <3>1. rounds \in [Tokens -> Nat]
      BY DEF TypeOK
    <3>2. rounds' = [rounds EXCEPT ![job.token] = rounds[job.token] + 1]
      BY <1>9 DEF StartRound
    <3>3. ASSUME NEW t \in Tokens PROVE rounds'[t] \in Nat
      BY <3>1, <3>2
    <3> QED
      BY <3>1, <3>2, <3>3
  <2>2. slot' \in [token : Nat, expires : Nat]
    BY <1>9 DEF StartRound, NoSlot, NoToken
  <2> QED
    BY <1>9, <2>1, <2>2
       DEF StartRound, Serving, NoCamera, AcquireCamera, Refuse, Answer, TypeOK
<1>10. CASE StartProbe
  BY <1>10 DEF StartProbe, Serving, NoCamera, AcquireCamera, Refuse, Answer, TypeOK
<1>11. CASE BurstIsNeutral
  BY <1>11 DEF BurstIsNeutral, Judging, ReleaseCapture, Refuse, Answer, TypeOK,
               BurstFaults
<1>12. CASE BurstMisses
  BY <1>12, LedgerMovesType DEF BurstMisses, Judging, ReleaseCapture, Answer, TypeOK
<1>13. CASE BurstNeedsGesture
  <2>1. issued' \in 0 .. MaxTokens
    BY <1>13 DEF BurstNeedsGesture, TypeOK
  <2>2. slot' \in [token : Nat, expires : Nat]
    BY <1>13, <2>1 DEF BurstNeedsGesture, TypeOK
  <2> QED
    BY <1>13, <2>1, <2>2 DEF BurstNeedsGesture, Judging, Answer, TypeOK
<1>14. CASE BurstPasses
  BY <1>14, LedgerMovesType
     DEF BurstPasses, Grant, Judging, ReleaseCapture, Refuse, Answer, TypeOK
<1>15. CASE RoundIsNeutral
  BY <1>15 DEF RoundIsNeutral, Judging, ReleaseCapture, Refuse, Answer, TypeOK
<1>16. CASE RoundFails
  BY <1>16, LedgerMovesType DEF RoundFails, Judging, ReleaseCapture, Answer, TypeOK
<1>17. CASE RoundPasses
  BY <1>17, LedgerMovesType
     DEF RoundPasses, Grant, Judging, ReleaseCapture, Refuse, Answer, TypeOK
<1>18. CASE EndProbe
  BY <1>18 DEF EndProbe, Judging, ReleaseCapture, Refuse, Answer, TypeOK
<1>19. CASE PauseCamera
  <2>1. leasedUntil' \in Nat
    BY <1>19 DEF PauseCamera, TypeOK
  <2> QED
    BY <1>19, <2>1 DEF PauseCamera, Serving, Refuse, Answer, TypeOK
<1>20. CASE ResumeCamera
  BY <1>20 DEF ResumeCamera, Serving, Refuse, Answer, TypeOK
<1>21. CASE ClearEnrollment
  BY <1>21 DEF ClearEnrollment, Serving, Refuse, Answer, TypeOK, NoSlot, NoToken
<1>22. CASE ReloadConfig
  BY <1>22 DEF ReloadConfig, Ratchet, Serving, Refuse, Answer, TypeOK
<1>23. CASE Shutdown
  BY <1>23 DEF Shutdown, Serving, Refuse, Answer, TypeOK
<1>24. CASE WriteReply
  BY <1>24 DEF WriteReply, TypeOK
<1>25. CASE Settle
  <2>1. lockout' \in LockoutState /\ saved' \in LockoutState /\ misses' \in Nat
    BY <1>25, LedgerMovesType DEF Settle, TypeOK
  <2>2. CASE pc = "delivered"
    BY <1>25, <2>1, <2>2 DEF Settle, TypeOK
  <2>3. CASE pc # "delivered"
    <3>1. HangUp
      BY <1>25, <2>3 DEF Settle
    <3>2. job' \in [cmd : AllCommands \cup {"none"}, token : Nat]
      BY <3>1 DEF HangUp, NoJob, NoToken
    <3> QED
      BY <1>25, <2>1, <3>1, <3>2 DEF Settle, HangUp, TypeOK
  <2> QED
    BY <2>2, <2>3
<1>26. CASE Disconnect
  BY <1>26 DEF Disconnect, HangUp, TypeOK, NoJob, NoToken
<1>27. CASE ProcessEnds
  BY <1>27, CleanType DEF ProcessEnds, TypeOK, NoJob, NoSlot, NoToken
<1>28. CASE Stop
  BY <1>28 DEF Stop, TypeOK
<1>29. CASE Start
  BY <1>29 DEF Start, WarmUp, TypeOK
<1>30. CASE Tick
  BY <1>30 DEF Tick, TypeOK
<1>31. CASE NextTurn \/ Listen
  <2>1. stopping' \in BOOLEAN
    BY <1>31 DEF NextTurn, Listen, TypeOK
  <2>2. pc \in BetweenClients /\ pc' \in BetweenClients /\ pc' \in PCs
        /\ UNCHANGED <<clock, conn, job, started, reply, pending, ledger, slot,
                        leasedUntil, cam, posture, client, history>>
    BY <1>31 DEF NextTurn, Listen
  <2> QED
    BY <2>1, <2>2 DEF TypeOK
<1>32. CASE UNCHANGED vars
  BY <1>32 DEF vars, TypeOK
<1> QED
  BY <1>1, <1>2, <1>3, <1>4, <1>5, <1>6, <1>7, <1>8, <1>9, <1>10, <1>11, <1>12, <1>13,
     <1>14, <1>15, <1>16, <1>17, <1>18, <1>19, <1>20, <1>21, <1>22, <1>23, <1>24, <1>25,
     <1>26, <1>27, <1>28, <1>29, <1>30, <1>31, <1>32
     DEF Next, ServeStep, Exit, Die

\* In every behaviour, crashes and restarts included, the service's state keeps
\* its types and its connection discipline.
THEOREM TypeCorrect == Spec => []TypeOK
  BY TypeInit, TypeStep, PTL DEF Spec

-----------------------------------------------------------------------------
(* The brute-force budget *)

\* The inductive invariant behind BudgetHeld: the file agrees with the object,
\* a credential request owns the camera only while no lockout runs, and the
\* failures judged are those on the count, or all of the budget once locked.
LedgerInv ==
  /\ pc # "down" => saved = lockout
  /\ (pc = "capture" /\ job.cmd \in CredentialCommands) => ~IsLocked(lockout, now)
  /\ LockoutSeconds > 0 =>
       IF IsLocked(Standing, now)
       THEN misses = MaxAttempts /\ Standing.fails = 0
       ELSE misses = Standing.fails /\ Standing.fails < MaxAttempts

LEMMA LedgerInit == Init => LedgerInv
  BY ServiceAssumption, CleanType, LockedMeans DEF Init, LedgerInv, Standing

\* Most steps leave the ledger alone and do not begin a capture.
LEMMA LedgerQuiet ==
  ASSUME LedgerInv, UNCHANGED <<now, lockout, saved, misses>>,
         (pc = "down") <=> (pc' = "down"),
         pc' = "capture" => pc = "capture" /\ UNCHANGED job
  PROVE  LedgerInv'
  BY DEF LedgerInv, Standing

\* A capture begins behind the lockout gate, or for a probe that never strikes.
LEMMA LedgerOpening ==
  ASSUME LedgerInv, UNCHANGED <<now, lockout, saved, misses, job>>,
         pc = "gates", pc' \in {"capture", "reply"},
         job.cmd \in CredentialCommands => ~IsLocked(lockout, now)
  PROVE  LedgerInv'
  BY DEF LedgerInv, Standing

LEMMA LedgerStrike ==
  ASSUME TypeOK, LedgerInv, pc = "capture", job.cmd \in CredentialCommands,
         Strike, UNCHANGED now, pc' = "reply"
  PROVE  LedgerInv'
<1> USE ServiceAssumption
<1>1. ~IsLocked(lockout, now) /\ saved' = lockout'
  BY DEF LedgerInv, Strike
<1>2. /\ lockout' \in LockoutState
      /\ IF lockout.fails + 1 >= MaxAttempts
         THEN lockout'.fails = 0 /\ lockout'.until = now + LockoutSeconds
         ELSE lockout'.fails = lockout.fails + 1 /\ lockout'.until = lockout.until
  BY <1>1, CountedFailure DEF Strike, TypeOK
<1>3. now \in Nat /\ lockout \in LockoutState /\ lockout.fails \in Nat
  BY DEF TypeOK, LockoutState
<1>4. Standing = lockout /\ Standing' = lockout'
  BY DEF Standing
<1>5. ASSUME LockoutSeconds > 0
      PROVE  IF IsLocked(lockout', now)
             THEN misses' = MaxAttempts /\ lockout'.fails = 0
             ELSE misses' = lockout'.fails /\ lockout'.fails < MaxAttempts
  <2>1. misses = lockout.fails /\ lockout.fails < MaxAttempts /\ misses' = misses + 1
    BY <1>1, <1>4, <1>5 DEF LedgerInv, Strike
  <2>2. (IsLocked(lockout, now) <=> lockout.until > now)
        /\ (IsLocked(lockout', now) <=> lockout'.until > now)
    BY <1>2, <1>3, LockedMeans
  <2>3. lockout.until \in Nat
    BY <1>3 DEF LockoutState
  <2> QED
    BY <1>1, <1>2, <1>3, <1>5, <2>1, <2>2, <2>3
<1> QED
  BY <1>1, <1>4, <1>5 DEF LedgerInv

LEMMA LedgerForgive ==
  ASSUME TypeOK, LedgerInv, pc # "down", Forgive, UNCHANGED now,
         pc' \notin {"down", "capture"}
  PROVE  LedgerInv'
<1>1. saved' = Clean /\ lockout' = Clean /\ misses' = 0
  BY DEF LedgerInv, Forgive
<1>2. ~IsLocked(Clean, now)
  BY CleanType, LockedMeans DEF TypeOK
<1> QED
  BY <1>1, <1>2, CleanType, ServiceAssumption DEF LedgerInv, Standing

\* The clock: a lockout ends, and with it the count that led to it.
LEMMA LedgerTick ==
  ASSUME TypeOK, LedgerInv, Tick
  PROVE  LedgerInv'
<1>1. now \in Nat /\ now' = now + 1 /\ UNCHANGED <<pc, job, lockout, saved>>
  BY DEF Tick, TypeOK, serving, ledger
<1>2. lockout \in LockoutState /\ Standing \in LockoutState /\ Standing' = Standing
  BY <1>1 DEF TypeOK, Standing
<1>3. ASSUME NEW l \in LockoutState
      PROVE  (IsLocked(l, now) <=> l.until > now)
             /\ (IsLocked(l, now') <=> l.until > now')
             /\ l.until \in Nat
  BY <1>1, LockedMeans DEF LockoutState
<1>4. IsLocked(lockout, now') => IsLocked(lockout, now)
  BY <1>1, <1>2, <1>3
<1>5. IsLocked(Standing, now') => IsLocked(Standing, now)
  BY <1>1, <1>2, <1>3
<1>6. misses' = IF IsLocked(Standing, now) /\ ~IsLocked(Standing, now')
                THEN 0 ELSE misses
  BY <1>1 DEF Tick
<1> QED
  BY <1>1, <1>2, <1>4, <1>5, <1>6, ServiceAssumption DEF LedgerInv

LEMMA LedgerStep == TypeOK /\ LedgerInv /\ [Next]_vars => LedgerInv'
<1> SUFFICES ASSUME TypeOK, LedgerInv, [Next]_vars PROVE LedgerInv'
  OBVIOUS
<1> USE DEF clock, serving, ledger, process, history
<1>1. ASSUME NEW c \in Clients, ClientStep(c) \/ Accept(c) \/ TurnAway(c) PROVE LedgerInv'
  BY <1>1, LedgerQuiet DEF ClientStep, Call, Send, Receive, Leave, Accept, TurnAway
<1>2. CASE NextTurn \/ Listen \/ Read \/ ReadNothing \/ WriteReply \/ Disconnect \/ Stop
  BY <1>2, LedgerQuiet
     DEF NextTurn, Listen, Read, ReadNothing, HangUp, WriteReply, Disconnect, Stop
<1>3. CASE RefuseCaller \/ RefuseLocked \/ RefuseToken
  BY <1>3, LedgerQuiet DEF RefuseCaller, RefuseLocked, RefuseToken, Serving, Refuse, Answer
<1>4. CASE StartBurst \/ StartRound
  BY <1>4, LedgerOpening
     DEF StartBurst, StartRound, Serving, NoCamera, AcquireCamera, Refuse, Answer
<1>5. CASE StartProbe
  BY <1>5, LedgerOpening
     DEF StartProbe, Serving, NoCamera, AcquireCamera, Refuse, Answer, CredentialCommands
<1>6. CASE BurstIsNeutral \/ RoundIsNeutral \/ EndProbe
  BY <1>6, LedgerQuiet
     DEF BurstIsNeutral, RoundIsNeutral, EndProbe, Judging, Refuse, Answer
<1>7. CASE BurstNeedsGesture
  BY <1>7, LedgerQuiet DEF BurstNeedsGesture, Judging, Answer
<1>8. CASE BurstMisses
  BY <1>8, LedgerQuiet, LedgerStrike
     DEF BurstMisses, Judging, Answer, CredentialCommands
<1>9. CASE RoundFails
  BY <1>9, LedgerStrike DEF RoundFails, Judging, Answer, CredentialCommands
<1>10. CASE BurstPasses \/ RoundPasses
  <2>1. PICK d \in {UnlockDeadline, GestureDeadline} : pc = "capture" /\ Grant(d)
    BY <1>10 DEF BurstPasses, RoundPasses, Judging
  <2> QED
    BY <2>1, LedgerQuiet, LedgerForgive DEF Grant, Refuse, Answer
<1>11. CASE PauseCamera \/ ResumeCamera \/ ClearEnrollment \/ ReloadConfig \/ Shutdown
  BY <1>11, LedgerQuiet
     DEF PauseCamera, ResumeCamera, ClearEnrollment, ReloadConfig, Shutdown, Serving,
         Refuse, Answer
<1>12. CASE Settle
  BY <1>12, LedgerQuiet, LedgerForgive DEF Settle, HangUp
<1>13. CASE ProcessEnds /\ pc # "down"
  BY <1>13 DEF ProcessEnds, LedgerInv, Standing
<1>14. CASE Start
  BY <1>14 DEF Start, WarmUp, LedgerInv, Standing
<1>15. CASE Tick
  BY <1>15, LedgerTick
<1>16. CASE UNCHANGED vars
  BY <1>16, LedgerQuiet DEF vars
<1> QED
  BY <1>1, <1>2, <1>3, <1>4, <1>5, <1>6, <1>7, <1>8, <1>9, <1>10, <1>11, <1>12, <1>13,
     <1>14, <1>15, <1>16 DEF Next, ServeStep, Exit, Die

LEMMA BudgetFromInv == TypeOK /\ LedgerInv => BudgetHeld
<1> SUFFICES ASSUME TypeOK, LedgerInv, LockoutSeconds > 0
             PROVE  misses <= MaxAttempts
                    /\ (misses = MaxAttempts => IsLocked(Standing, now))
  BY DEF BudgetHeld
<1>1. Standing.fails \in Nat /\ misses \in Nat
  BY DEF TypeOK, Standing, LockoutState
<1> QED
  BY <1>1, ServiceAssumption DEF LedgerInv

LEMMA LedgerInvAlways == Spec => []LedgerInv
<1>1. TypeOK /\ LedgerInv /\ [Next]_vars => LedgerInv'
  BY LedgerStep
<1> QED
  BY <1>1, LedgerInit, TypeCorrect, PTL DEF Spec

\* For every budget and lockout length, no interleaving of unlocks, gestures,
\* crashes and restarts gets more than MaxAttempts faces judged per fresh start.
THEOREM BudgetAlwaysHeld == Spec => []BudgetHeld
  BY BudgetFromInv, LedgerInvAlways, TypeCorrect, PTL

-----------------------------------------------------------------------------
(* The one-shot gesture token *)

\* The inductive invariant behind TokensSpentOnce: a token not yet issued has
\* bought nothing, and the slot holds the newest one, unspent.
TokenInv ==
  /\ \A t \in Tokens : rounds[t] <= 1 /\ (t > issued => rounds[t] = 0)
  /\ slot # NoSlot => /\ issued \in Tokens
                      /\ slot.token = issued
                      /\ rounds[issued] = 0
                      /\ slot.expires <= now + TokenTTL

LEMMA TokenInit == Init => TokenInv
  BY DEF Init, TokenInv

\* Most steps at worst drop the token.
LEMMA TokenQuiet ==
  ASSUME TokenInv, UNCHANGED <<issued, rounds, now>>, slot' \in {slot, NoSlot}
  PROVE  TokenInv'
  BY DEF TokenInv

LEMMA TokenIssue ==
  ASSUME TypeOK, TokenInv, BurstNeedsGesture
  PROVE  TokenInv'
<1>1. /\ issued \in Nat /\ issued < MaxTokens /\ issued' = issued + 1
      /\ rounds' = rounds /\ rounds \in [Tokens -> Nat] /\ now' = now /\ now \in Nat
      /\ slot' = [token |-> issued', expires |-> now + TokenTTL]
  BY DEF BurstNeedsGesture, Answer, TypeOK, clock
<1>2. issued' \in Tokens
  BY <1>1, ServiceAssumption DEF Tokens
<1>3. \A t \in Tokens : rounds'[t] <= 1 /\ (t > issued' => rounds'[t] = 0)
  BY <1>1 DEF TokenInv, Tokens
<1>4. rounds'[issued'] = 0
  BY <1>1, <1>2 DEF TokenInv
<1>5. slot'.token = issued' /\ slot'.expires <= now' + TokenTTL
  BY <1>1, ServiceAssumption
<1> QED
  BY <1>2, <1>3, <1>4, <1>5 DEF TokenInv

LEMMA TokenBurn ==
  ASSUME TypeOK, TokenInv, StartRound
  PROVE  TokenInv' /\ job.token = issued /\ issued \in Tokens /\ rounds'[issued] = 1
<1>1. /\ slot' = NoSlot /\ issued' = issued /\ job.token = issued /\ issued \in Tokens
      /\ rounds[issued] = 0
  BY DEF StartRound, TokenLive, TokenInv
<1>2. rounds \in [Tokens -> Nat] /\ rounds' = [rounds EXCEPT ![issued] = rounds[issued] + 1]
  BY <1>1 DEF StartRound, TypeOK
<1>3. rounds'[issued] = 1
  BY <1>1, <1>2
<1>4. ASSUME NEW t \in Tokens
      PROVE  rounds'[t] <= 1 /\ (t > issued => rounds'[t] = 0)
  <2>1. CASE t = issued
    BY <1>3, <2>1 DEF Tokens
  <2>2. CASE t # issued
    BY <1>2, <2>2 DEF TokenInv
  <2> QED BY <2>1, <2>2
<1> QED
  BY <1>1, <1>3, <1>4 DEF TokenInv

LEMMA TokenStep == TypeOK /\ TokenInv /\ [Next]_vars => TokenInv'
<1> SUFFICES ASSUME TypeOK, TokenInv, [Next]_vars PROVE TokenInv'
  OBVIOUS
<1> USE TokenQuiet DEF clock, serving, ledger, process, history
<1>1. ASSUME NEW c \in Clients, ClientStep(c) \/ Accept(c) \/ TurnAway(c) PROVE TokenInv'
  BY <1>1 DEF ClientStep, Call, Send, Receive, Leave, Accept, TurnAway
<1>2. CASE NextTurn \/ Listen \/ Read \/ ReadNothing \/ WriteReply \/ Settle
           \/ Disconnect \/ Stop
  BY <1>2
     DEF NextTurn, Listen, Read, ReadNothing, HangUp, WriteReply, Settle, Disconnect, Stop
<1>3. CASE RefuseCaller \/ RefuseLocked \/ RefuseToken
  BY <1>3 DEF RefuseCaller, RefuseLocked, RefuseToken, Refuse, Answer
<1>4. CASE StartBurst \/ StartProbe
  BY <1>4 DEF StartBurst, StartProbe, NoCamera, AcquireCamera, Refuse, Answer
<1>5. CASE StartRound
  BY <1>5, TokenBurn
<1>6. CASE BurstIsNeutral \/ RoundIsNeutral \/ EndProbe
  BY <1>6 DEF BurstIsNeutral, RoundIsNeutral, EndProbe, ReleaseCapture, Refuse, Answer
<1>7. CASE BurstNeedsGesture
  BY <1>7, TokenIssue
<1>8. CASE BurstMisses \/ RoundFails
  BY <1>8 DEF BurstMisses, RoundFails, ReleaseCapture, Answer
<1>9. CASE BurstPasses \/ RoundPasses
  BY <1>9 DEF BurstPasses, RoundPasses, Grant, ReleaseCapture, Refuse, Answer
<1>10. CASE PauseCamera \/ ResumeCamera \/ ClearEnrollment \/ ReloadConfig \/ Shutdown
  BY <1>10 DEF PauseCamera, ResumeCamera, ClearEnrollment, ReloadConfig, Shutdown,
               Refuse, Answer
<1>11. CASE ProcessEnds
  BY <1>11 DEF ProcessEnds
<1>12. CASE Start
  BY <1>12 DEF Start, WarmUp
<1>13. CASE Tick
  BY <1>13, ServiceAssumption DEF Tick, TokenInv, TypeOK, NoSlot
<1>14. CASE UNCHANGED vars
  BY <1>14 DEF vars
<1> QED
  BY <1>1, <1>2, <1>3, <1>4, <1>5, <1>6, <1>7, <1>8, <1>9, <1>10, <1>11, <1>12, <1>13,
     <1>14 DEF Next, ServeStep, Exit, Die

LEMMA TokenInvAlways == Spec => []TokenInv
<1>1. TypeOK /\ TokenInv /\ [Next]_vars => TokenInv'
  BY TokenStep
<1> QED
  BY <1>1, TokenInit, TypeCorrect, PTL DEF Spec

\* However many tokens are issued and whatever tokens clients send, a token is
\* good for one camera round, and only while it is the newest.
THEOREM TokensAlwaysSpentOnce == Spec => []TokensSpentOnce
<1>1. TokenInv => TokensSpentOnce
  BY DEF TokenInv, TokensSpentOnce
<1> QED
  BY <1>1, TokenInvAlways, PTL

-----------------------------------------------------------------------------
(* The perimeter of a grant *)

\* The gates a credential request has passed once it owns the camera, and the
\* ones a grant carries until its connection ends.
GatesPassed ==
  /\ hardened => conn \in SystemClients
  /\ job.cmd = "unlock_gesture" => rounds[job.token] = 1 /\ job.token = issued

\* The inductive invariant behind GrantsGuarded.
GateInv ==
  /\ hardened = requireSystem
  /\ pc = "capture" /\ job.cmd \in CredentialCommands => GatesPassed
  /\ reply # "none" => pc \in {"reply", "delivered", "undelivered", "flush"}
  /\ reply = "granted" => GatesPassed /\ ~insecure /\ ~IsLocked(lockout, now)
  /\ pending => pc \in {"reply", "delivered", "undelivered"} /\ reply = "granted"

LEMMA GateInit == Init => GateInv
  BY DEF Init, GateInv

\* Steps that leave the request, its reply and its gates alone.
LEMMA GateQuiet ==
  ASSUME GateInv,
         UNCHANGED <<pc, conn, job, reply, pending, now, lockout, posture, issued, rounds>>
  PROVE  GateInv'
  BY DEF GateInv, GatesPassed, posture

\* Steps after which no camera is owned and no grant is out.
LEMMA GateFresh ==
  ASSUME hardened' = requireSystem', pc' # "capture", ~pending', reply' # "granted",
         reply' # "none" => pc' = "reply"
  PROVE  GateInv'
  BY DEF GateInv

\* Before its reply a request has no grant armed and nothing to say.
LEMMA GateNoReplyYet ==
  ASSUME GateInv, pc \notin {"reply", "delivered", "undelivered", "flush"}
  PROVE  reply = "none" /\ ~pending /\ hardened = requireSystem
  BY DEF GateInv

\* A refusal, whatever the reason, carries no grant.
LEMMA GateRefuse ==
  ASSUME TypeOK, GateInv, pc \in {"gates", "capture"},
         NEW reason \in Reasons \ {"granted"}, Answer(reason), UNCHANGED pending,
         hardened' = requireSystem'
  PROVE  GateInv'
  BY GateFresh, GateNoReplyYet DEF Answer, TypeOK

LEMMA GateOpening ==
  ASSUME TypeOK, GateInv, pc = "gates", AcquireCamera, UNCHANGED posture,
         job.cmd \in CredentialCommands => Authorised,
         job.cmd = "unlock_gesture" => rounds'[job.token] = 1 /\ job.token = issued'
  PROVE  GateInv'
<1>1. reply = "none" /\ ~pending /\ hardened = requireSystem
  BY GateNoReplyYet
<1> QED
  BY <1>1 DEF AcquireCamera, Authorised, GateInv, GatesPassed, posture

LEMMA GateGrant ==
  ASSUME TypeOK, LedgerInv, GateInv, pc = "capture", job.cmd \in CredentialCommands,
         ~insecure, Answer("granted"), UNCHANGED <<posture, ledger, issued, rounds>>
  PROVE  GateInv'
<1>1. GatesPassed /\ ~IsLocked(lockout, now)
  BY DEF GateInv, LedgerInv
<1> QED
  BY <1>1 DEF Answer, GateInv, GatesPassed, posture, ledger, clock

LEMMA GateVerdict ==
  ASSUME TypeOK, LedgerInv, GateInv, pc = "capture", job.cmd \in CredentialCommands,
         ~insecure, NEW d \in Nat, Grant(d), UNCHANGED <<posture, issued, rounds>>
  PROVE  GateInv'
<1>1. hardened' = requireSystem'
  BY DEF GateInv, posture
<1>2. CASE Refuse("deadline-exceeded")
  BY <1>1, <1>2, GateRefuse DEF Refuse, Reasons
<1>3. CASE Answer("no-credentials") /\ UNCHANGED pending
  BY <1>1, <1>3, GateRefuse DEF Reasons
<1>4. CASE Answer("granted") /\ UNCHANGED ledger
  BY <1>4, GateGrant
<1> QED
  BY <1>2, <1>3, <1>4 DEF Grant

LEMMA GateStep == TypeOK /\ LedgerInv /\ TokenInv /\ GateInv /\ [Next]_vars => GateInv'
<1> SUFFICES ASSUME TypeOK, LedgerInv, TokenInv, GateInv, [Next]_vars PROVE GateInv'
  OBVIOUS
<1> USE ServiceAssumption DEF clock, serving, ledger, process, history
<1>1. ASSUME NEW c \in Clients, ClientStep(c) PROVE GateInv'
  BY <1>1, GateQuiet DEF ClientStep, Call, Send, Receive, Leave
<1>2. ASSUME NEW c \in Clients, Accept(c) \/ TurnAway(c) PROVE GateInv'
  BY <1>2, GateFresh, GateNoReplyYet DEF Accept, TurnAway, posture
<1>3. CASE Read
  BY <1>3, GateFresh, GateNoReplyYet DEF Read, posture
<1>4. CASE ReadNothing
  BY <1>4, GateFresh, GateNoReplyYet DEF ReadNothing, HangUp, posture
<1>5. CASE Disconnect
  BY <1>5, GateFresh DEF Disconnect, HangUp, GateInv, posture
<1>6. CASE RefuseCaller \/ RefuseLocked \/ RefuseToken
  <2>1. pc = "gates" /\ UNCHANGED posture
        /\ \E reason \in {"not-authorized", "locked-out", "gesture-token-invalid"} :
             Refuse(reason)
    BY <1>6 DEF RefuseCaller, RefuseLocked, RefuseToken, Serving
  <2> QED
    BY <2>1, GateRefuse DEF Refuse, Reasons, GateInv, posture
<1>7. ASSUME pc = "gates", UNCHANGED posture, NEW reason \in {"camera-busy", "ok"},
             NoCamera(reason)
      PROVE  GateInv'
  BY <1>7, GateRefuse DEF NoCamera, Refuse, Reasons, GateInv, posture
<1>8. CASE StartBurst
  BY <1>8, <1>7, GateOpening DEF StartBurst, Serving, posture
<1>9. CASE StartRound
  BY <1>9, <1>7, GateOpening, TokenBurn DEF StartRound, Serving, posture
<1>10. CASE StartProbe
  BY <1>10, <1>7, GateOpening DEF StartProbe, Serving, CredentialCommands, posture
<1>11. CASE BurstIsNeutral \/ RoundIsNeutral \/ EndProbe
  <2>1. pc = "capture" /\ UNCHANGED posture
    BY <1>11 DEF BurstIsNeutral, RoundIsNeutral, EndProbe, Judging, ReleaseCapture
  <2>2. \E reason \in Reasons \ {"granted"} : Refuse(reason)
    BY <1>11 DEF BurstIsNeutral, RoundIsNeutral, EndProbe, Reasons, BurstFaults
  <2> QED
    BY <2>1, <2>2, GateRefuse DEF Refuse, GateInv, posture
<1>12. CASE BurstNeedsGesture \/ BurstMisses \/ RoundFails
  <2>1. pc = "capture" /\ UNCHANGED <<posture, pending>>
    BY <1>12 DEF BurstNeedsGesture, BurstMisses, RoundFails, Judging, ReleaseCapture
  <2>2. \E reason \in {"needs-gesture", "no-match", "gesture-failed"} : Answer(reason)
    BY <1>12 DEF BurstNeedsGesture, BurstMisses, RoundFails
  <2> QED
    BY <2>1, <2>2, GateRefuse DEF Reasons, GateInv, posture
<1>13. CASE BurstPasses
  BY <1>13, GateVerdict DEF BurstPasses, Judging, ReleaseCapture, CredentialCommands
<1>14. CASE RoundPasses
  BY <1>14, GateVerdict DEF RoundPasses, Judging, ReleaseCapture, CredentialCommands
<1>15. CASE PauseCamera \/ ResumeCamera \/ ClearEnrollment \/ Shutdown
  <2>1. pc = "gates" /\ UNCHANGED posture /\ (Refuse("ok") \/ Refuse("exception"))
    BY <1>15 DEF PauseCamera, ResumeCamera, ClearEnrollment, Shutdown, Serving
  <2> QED
    BY <2>1, GateRefuse DEF Refuse, Reasons, GateInv, posture
<1>16. CASE ReloadConfig
  <2>1. hardened' = requireSystem'
    <3>1. hardened = requireSystem /\ hardened \in BOOLEAN
      BY DEF GateInv, TypeOK
    <3>2. CASE UNCHANGED <<requireSystem, hardened>>
      BY <3>1, <3>2
    <3>3. ASSUME NEW wanted \in BOOLEAN, requireSystem' = Ratchet(wanted),
                 hardened' = (hardened \/ requireSystem')
          PROVE  hardened' = requireSystem'
      BY <3>1, <3>3 DEF Ratchet
    <3> QED
      BY <1>16, <3>2, <3>3 DEF ReloadConfig
  <2> QED
    BY <1>16, <2>1, GateRefuse DEF ReloadConfig, Serving, Refuse, Reasons
<1>17. CASE WriteReply
  BY <1>17 DEF WriteReply, GateInv, GatesPassed, posture
<1>18. CASE Settle
  <2>1. CASE pc = "undelivered"
    BY <1>18, <2>1, GateFresh DEF Settle, HangUp, GateInv, posture
  <2>2. CASE pc = "delivered"
    <3>1. ~IsLocked(Clean, now)
      BY CleanType, LockedMeans DEF TypeOK
    <3>2. IsLocked(lockout', now) => IsLocked(lockout, now)
      BY <1>18, <3>1 DEF Settle, Forgive
    <3> QED
      BY <1>18, <2>2, <3>2 DEF Settle, GateInv, GatesPassed, posture
  <2> QED
    BY <1>18, <2>1, <2>2 DEF Settle
<1>19. CASE Stop
  <2>1. CASE pc = "accept"
    BY <1>19, <2>1, GateFresh, GateNoReplyYet DEF Stop, posture
  <2>2. CASE pc # "accept"
    BY <1>19, <2>2, GateQuiet DEF Stop
  <2> QED
    BY <2>1, <2>2
<1>20. CASE ProcessEnds
  BY <1>20, GateFresh DEF ProcessEnds, GateInv, posture
<1>21. CASE Start
  BY <1>21, GateFresh, GateNoReplyYet DEF Start, WarmUp
<1>22. CASE Tick
  <2>1. IsLocked(lockout, now') => IsLocked(lockout, now)
    BY <1>22, LockedMeans DEF Tick, TypeOK, LockoutState
  <2> QED
    BY <1>22, <2>1 DEF Tick, GateInv, GatesPassed, posture
<1>23. CASE NextTurn \/ Listen
  <2>1. reply = "none" /\ ~pending /\ hardened = requireSystem
    BY <1>23, GateNoReplyYet DEF NextTurn, Listen
  <2>2. UNCHANGED <<reply, pending, requireSystem, hardened>> /\ pc' # "capture"
    BY <1>23 DEF NextTurn, Listen, posture
  <2> QED
    BY <2>1, <2>2, GateFresh
<1>24. CASE UNCHANGED vars
  BY <1>24, GateQuiet DEF vars
<1> QED
  BY <1>1, <1>2, <1>3, <1>4, <1>5, <1>6, <1>8, <1>9, <1>10, <1>11, <1>12, <1>13, <1>14,
     <1>15, <1>16, <1>17, <1>18, <1>19, <1>20, <1>21, <1>22, <1>23, <1>24
     DEF Next, ServeStep, Exit, Die

LEMMA GateInvAlways == Spec => []GateInv
<1>1. TypeOK /\ LedgerInv /\ TokenInv /\ GateInv /\ [Next]_vars => GateInv'
  BY GateStep
<1> QED
  BY <1>1, GateInit, TypeCorrect, LedgerInvAlways, TokenInvAlways, PTL DEF Spec

\* Whoever calls, and whatever the clock, the lease, reloads and crashes do, a
\* grant has passed every gate of the process that made it, and an armed one is
\* settled, or dies with its process, before the next client.
THEOREM GrantsAreGuarded == Spec => []GrantsGuarded
<1>1. GateInv => GrantsGuarded
  BY DEF GateInv, GatesPassed, GrantsGuarded
<1> QED
  BY <1>1, GateInvAlways, PTL

-----------------------------------------------------------------------------
(* Forgiveness *)

\* With a lockout of some length, a counted failure never wipes the ledger.
LEMMA StrikeNeverCleans ==
  ASSUME TypeOK, LockoutSeconds > 0, lockout # Clean, Strike
  PROVE  lockout' # Clean
<1>1. CASE IsLocked(lockout, now)
  BY <1>1 DEF Strike, AfterFailure
<1>2. CASE ~IsLocked(lockout, now)
  <2>1. /\ lockout'.fails = lockout.fails + 1 \/ lockout'.until = now + LockoutSeconds
        /\ lockout.fails \in Nat /\ now \in Nat
    BY <1>2, CountedFailure DEF Strike, TypeOK, LockoutState
  <2> QED
    BY <2>1, CleanType, ServiceAssumption
<1> QED
  BY <1>1, <1>2

LEMMA EarnedStep ==
  ASSUME TypeOK, GateInv, LockoutSeconds > 0, [Next]_vars,
         pc # "down", pc' # "down", lockout # Clean, lockout' = Clean
  PROVE  \/ pc = "delivered" /\ pending /\ reply = "granted"
         \/ pc = "capture" /\ reply' = "no-credentials"
<1> USE DEF clock, serving, ledger, process, history
<1>1. ASSUME NEW c \in Clients PROVE ~ClientStep(c) /\ ~Accept(c) /\ ~TurnAway(c)
  BY DEF ClientStep, Call, Send, Receive, Leave, Accept, TurnAway
<1>2. ~(NextTurn \/ Listen \/ Read \/ ReadNothing \/ WriteReply \/ Disconnect \/ Stop
        \/ Tick \/ UNCHANGED vars)
  BY DEF NextTurn, Listen, Read, ReadNothing, WriteReply, Disconnect, Stop, Tick, vars
<1>3. ~(RefuseCaller \/ RefuseLocked \/ RefuseToken \/ BurstIsNeutral \/ RoundIsNeutral
        \/ EndProbe \/ PauseCamera \/ ResumeCamera \/ ClearEnrollment \/ ReloadConfig
        \/ Shutdown)
  BY DEF RefuseCaller, RefuseLocked, RefuseToken, BurstIsNeutral, RoundIsNeutral, EndProbe,
         PauseCamera, ResumeCamera, ClearEnrollment, ReloadConfig, Shutdown, Refuse
<1>4. ~(StartBurst \/ StartRound \/ StartProbe \/ BurstNeedsGesture)
  BY DEF StartBurst, StartRound, StartProbe, BurstNeedsGesture, NoCamera, AcquireCamera,
         Refuse
<1>5. ~(BurstMisses \/ RoundFails)
  BY StrikeNeverCleans DEF BurstMisses, RoundFails
<1>6. CASE BurstPasses \/ RoundPasses
  BY <1>6 DEF BurstPasses, RoundPasses, Judging, Grant, Refuse, Answer
<1>7. CASE Settle
  BY <1>7 DEF Settle, GateInv
<1>8. ~ProcessEnds /\ ~Start
  BY DEF ProcessEnds, Start, WarmUp
<1> QED
  BY <1>1, <1>2, <1>3, <1>4, <1>5, <1>6, <1>7, <1>8 DEF Next, ServeStep, Exit, Die

\* For every lockout of some length: while the service runs, only a delivered
\* grant, or a match without a stored password, wipes strikes and lockouts.
THEOREM ForgivenessAlwaysEarned == LockoutSeconds > 0 => (Spec => ForgivenessEarned)
<1> SUFFICES ASSUME LockoutSeconds > 0 PROVE Spec => ForgivenessEarned
  OBVIOUS
<1>1. TypeOK /\ GateInv /\ [Next]_vars =>
        [(pc # "down" /\ pc' # "down" /\ lockout # Clean /\ lockout' = Clean) =>
           \/ pc = "delivered" /\ pending /\ reply = "granted"
           \/ pc = "capture" /\ reply' = "no-credentials"]_vars
  BY EarnedStep
<1> QED
  BY <1>1, TypeCorrect, GateInvAlways, PTL DEF Spec, ForgivenessEarned

-----------------------------------------------------------------------------
(* The camera lease *)

\* The inductive invariant behind LeaseExclusive: a capture owns the camera it
\* judges with, and a process that is down has leased nothing.
LeaseInv ==
  /\ LeaseExclusive
  /\ pc = "capture" => cam
  /\ pc = "down" => leasedUntil = 0 /\ ~cam

LEMMA LeaseInit == Init => LeaseInv
  BY DEF Init, LeaseInv, LeaseExclusive, Leased

\* Steps that neither touch the camera nor the lease.
LEMMA LeaseQuiet ==
  ASSUME LeaseInv, UNCHANGED <<now, leasedUntil, cam>>,
         pc' = "capture" => pc = "capture", pc' = "down" => pc = "down"
  PROVE  LeaseInv'
  BY DEF LeaseInv, LeaseExclusive, Leased

\* The end of a capture: whatever is kept open was not under lease before.
LEMMA LeaseRelease ==
  ASSUME LeaseInv, pc = "capture", pc' = "reply", UNCHANGED <<now, leasedUntil>>
  PROVE  LeaseInv'
  BY DEF LeaseInv, LeaseExclusive, Leased

LEMMA LeaseStep == TypeOK /\ LeaseInv /\ [Next]_vars => LeaseInv'
<1> SUFFICES ASSUME TypeOK, LeaseInv, [Next]_vars PROVE LeaseInv'
  OBVIOUS
<1> USE DEF clock, serving, ledger, process, history
<1>1. ASSUME NEW c \in Clients, ClientStep(c) \/ Accept(c) \/ TurnAway(c) PROVE LeaseInv'
  BY <1>1, LeaseQuiet DEF ClientStep, Call, Send, Receive, Leave, Accept, TurnAway
<1>2. CASE NextTurn \/ Listen \/ Read \/ ReadNothing \/ WriteReply \/ Settle
           \/ Disconnect \/ Stop
  BY <1>2, LeaseQuiet
     DEF NextTurn, Listen, Read, ReadNothing, HangUp, WriteReply, Settle, Disconnect, Stop
<1>3. CASE RefuseCaller \/ RefuseLocked \/ RefuseToken \/ ClearEnrollment \/ Shutdown
  BY <1>3, LeaseQuiet
     DEF RefuseCaller, RefuseLocked, RefuseToken, ClearEnrollment, Shutdown, Refuse, Answer
<1>4. CASE StartBurst \/ StartRound \/ StartProbe
  <2>1. UNCHANGED leasedUntil /\ (AcquireCamera \/ \E reason \in Reasons : NoCamera(reason))
    BY <1>4 DEF StartBurst, StartRound, StartProbe, Reasons
  <2>2. CASE AcquireCamera
    BY <2>1, <2>2 DEF AcquireCamera, LeaseInv, LeaseExclusive, Leased
  <2>3. CASE \E reason \in Reasons : NoCamera(reason)
    BY <2>1, <2>3, LeaseQuiet DEF NoCamera, Refuse, Answer
  <2> QED
    BY <2>1, <2>2, <2>3
<1>5. CASE BurstIsNeutral \/ RoundIsNeutral \/ EndProbe
  BY <1>5, LeaseRelease
     DEF BurstIsNeutral, RoundIsNeutral, EndProbe, Judging, ReleaseCapture, Refuse, Answer
<1>6. CASE BurstNeedsGesture \/ BurstMisses \/ RoundFails
  BY <1>6, LeaseRelease
     DEF BurstNeedsGesture, BurstMisses, RoundFails, Judging, ReleaseCapture, Answer
<1>7. CASE BurstPasses \/ RoundPasses
  BY <1>7, LeaseRelease
     DEF BurstPasses, RoundPasses, Judging, ReleaseCapture, Grant, Refuse, Answer
<1>8. CASE PauseCamera
  BY <1>8 DEF PauseCamera, Refuse, Answer, LeaseInv, LeaseExclusive
<1>9. CASE ResumeCamera
  BY <1>9 DEF ResumeCamera, Refuse, Answer, LeaseInv, LeaseExclusive, Leased, TypeOK
<1>10. CASE ReloadConfig
  <2>1. ~cam => ~cam'
    BY <1>10 DEF ReloadConfig
  <2>2. UNCHANGED <<now, leasedUntil>> /\ pc' = "reply"
    BY <1>10 DEF ReloadConfig, Refuse, Answer
  <2> QED
    BY <2>1, <2>2 DEF LeaseInv, LeaseExclusive, Leased
<1>11. CASE ProcessEnds
  BY <1>11 DEF ProcessEnds, LeaseInv, LeaseExclusive
<1>12. CASE Start
  BY <1>12 DEF Start, WarmUp, LeaseInv, LeaseExclusive, Leased, TypeOK
<1>13. CASE Tick
  BY <1>13 DEF Tick, LeaseInv, LeaseExclusive, Leased, TypeOK
<1>14. CASE UNCHANGED vars
  BY <1>14, LeaseQuiet DEF vars
<1> QED
  BY <1>1, <1>2, <1>3, <1>4, <1>5, <1>6, <1>7, <1>8, <1>9, <1>10, <1>11, <1>12, <1>13,
     <1>14 DEF Next, ServeStep, Exit, Die

\* However leases, probes, reloads and restarts interleave, the service never
\* holds the camera while the enrollment wizard has it.
THEOREM LeaseAlwaysExclusive == Spec => []LeaseExclusive
<1>1. TypeOK /\ LeaseInv /\ [Next]_vars => LeaseInv'
  BY LeaseStep
<1>2. LeaseInv => LeaseExclusive
  BY DEF LeaseInv
<1> QED
  BY <1>1, <1>2, LeaseInit, TypeCorrect, PTL DEF Spec
=============================================================================
