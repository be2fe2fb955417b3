---------------------------- MODULE PresenceProofs ----------------------------
(***************************************************************************)
(* The safety of Presence.tla for any settings, any number of event polls  *)
(* and any bounds, and of Tray.tla, the process it runs in, for any        *)
(* windows, wizards, answers of GitHub and bounds.                         *)
(***************************************************************************)
EXTENDS Presence, Tray, FiniteSetTheorems, TLAPS

\* A strike is backed by a tick the service answered; the strike of a verdict
\* that is in has not been counted yet.
Backed ==
  /\ strikes <= evidence
  /\ step \in {"doubt", "award"} => strikes < evidence \/ evidence = MaxStrikes

\* Past the gate a tick was not paused, unless the pause came later, and then it
\* has not locked yet.
LastTick ==
  /\ lateLocks \in {0, 1}
  /\ lateLocks = 1 => paused = TRUE
  /\ lateLocks = 1 => step \in {"sleep", "begin", "input", "poll", "gate",
                              "gate down", "ended"}

\* The tick polls only in its own step, and goes nowhere after such a Quit.
Leaving ==
  /\ poll["tick"] # "no" => step = "poll"
  /\ quitHolds => stop /\ step \in {"wait", "sleep", "ended"}

\* TypeOK in four parts.
TickTypes ==
  /\ step \in Steps /\ wasLocked \in BOOLEAN
  /\ strikes \in 0 .. MaxStrikes /\ uncertain \in 0 .. MaxStrikes
  /\ evidence \in 0 .. MaxStrikes /\ limit \in 0 .. MaxStrikes

UserTypes ==
  /\ cfg \in Configs /\ paused \in BOOLEAN /\ stop \in BOOLEAN
  /\ tray \in {"idle", "resumed", "saved", "callback"} /\ quitHolds \in BOOLEAN

UserCounts == budget \in 0 .. MaxTray /\ lateLocks \in 0 .. 2

EventTypes ==
  /\ poll \in [Pollers -> PollSteps] /\ reach \in {"unknown", "up", "down"}
  /\ notified \in BOOLEAN /\ lockout \in BOOLEAN /\ scene \in {"any", "away"}
  /\ toasts \in 0 .. MaxToasts /\ racers \in 0 .. MaxToasts

IInv == TypeOK /\ Backed /\ LastTick /\ Leaving

USE DEF rest, world, counters, tick, user, events

-----------------------------------------------------------------------------
\* The steps of a tick and of a poll.
LEMMA StepFacts ==
  /\ "sleep" \in Steps /\ "begin" \in Steps /\ "input" \in Steps
  /\ "poll" \in Steps /\ "gate" \in Steps /\ "gate down" \in Steps
  /\ "probe" \in Steps /\ "wait" \in Steps /\ "confirm" \in Steps
  /\ "doubt" \in Steps /\ "award" \in Steps /\ "decide" \in Steps
  /\ "lock" \in Steps /\ "ended" \in Steps
  BY DEF Steps

LEMMA PollFacts ==
  /\ "no" \in PollSteps /\ "ask" \in PollSteps /\ "down" \in PollSteps
  /\ "clear" \in PollSteps /\ "locked" \in PollSteps /\ "toast" \in PollSteps
  /\ "tick" \in Pollers /\ \A t \in Pokers : t \in Pollers /\ t # "tick"
  BY PresenceAssumption DEF PollSteps, Pollers

\* The counts stay within their bounds, and none falls.
LEMMA CappedFacts ==
  /\ \A n \in Nat : /\ Capped(n) \in 0 .. MaxStrikes
                    /\ Capped(n) <= n
                    /\ Capped(n) = n \/ Capped(n) = MaxStrikes
  /\ 0 \in 0 .. MaxStrikes /\ 0 \in 0 .. MaxToasts
  BY PresenceAssumption DEF Capped, Upto

LEMMA SumFacts ==
  ASSUME TypeOK
  PROVE  /\ Capped(strikes + 1) \in 0 .. MaxStrikes
         /\ Capped(uncertain + 1) \in 0 .. MaxStrikes
         /\ Capped(evidence + 1) \in 0 .. MaxStrikes
<1>1. strikes + 1 \in Nat /\ uncertain + 1 \in Nat /\ evidence + 1 \in Nat
  BY PresenceAssumption DEF TypeOK
<1> QED BY <1>1, CappedFacts

LEMMA CountFacts ==
  ASSUME TypeOK
  PROVE  /\ Counted(toasts) \in 0 .. MaxToasts
         /\ Counted(racers) \in 0 .. MaxToasts
         /\ Upto(lateLocks + 1, 2) \in 0 .. 2
         /\ lateLocks = 0 => Upto(lateLocks + 1, 2) = 1
  BY PresenceAssumption DEF TypeOK, Counted, Upto

\* Whatever settings a save brings, their thresholds are within the bounds.
LEMMA CfgFacts ==
  ASSUME TypeOK
  PROVE  cfg.limit \in 0 .. MaxStrikes /\ cfg.fs \in 0 .. MaxStrikes
<1>1. cfg \in Configs
  BY DEF TypeOK
<1>2. cfg \in [limit : Nat \ {0}, fs : Nat, streak : Nat \ {0},
              auto : BOOLEAN, confirm : BOOLEAN, input : BOOLEAN]
  BY <1>1, PresenceAssumption
<1>3. cfg.limit \in Nat /\ cfg.fs \in Nat
  BY <1>2
<1> QED BY <1>1, <1>3, PresenceAssumption

\* Moving one poll on leaves the array an array of polls.
LEMMA PollMoves ==
  ASSUME TypeOK
  PROVE  \A t \in Pollers, s \in PollSteps :
           [poll EXCEPT ![t] = s] \in [Pollers -> PollSteps]
  BY DEF TypeOK

\* However many pokes are under way, no more are counted than the bound.
LEMMA RacersFact ==
  Upto(Cardinality({t \in Pokers : poll[t] # "no"}), MaxToasts) \in 0 .. MaxToasts
<1> DEFINE running == {t \in Pokers : poll[t] # "no"}
<1>1. IsFiniteSet(running)
  BY FS_Subset, PresenceAssumption
<1>2. Cardinality(running) \in Nat
  BY <1>1, FS_CardinalityType
<1> QED BY <1>2, PresenceAssumption DEF Upto

LEMMA InvInit == Init => IInv
<1> SUFFICES ASSUME Init PROVE IInv
  OBVIOUS
<1>1. TickTypes
  BY StepFacts, CappedFacts DEF Init, TickTypes
<1>2. UserTypes /\ UserCounts
  <2>1. UserTypes
    BY DEF Init, UserTypes
  <2>2. UserCounts
    BY PresenceAssumption DEF Init, UserCounts
  <2> QED BY <2>1, <2>2
<1>3. EventTypes
  BY PollFacts, CappedFacts DEF Init, EventTypes
<1>4. TypeOK
  BY <1>1, <1>2, <1>3 DEF TypeOK, TickTypes, UserTypes, UserCounts, EventTypes
<1>5. Backed /\ LastTick /\ Leaving
  BY PollFacts, PresenceAssumption DEF Init, Backed, LastTick, Leaving
<1> QED BY <1>4, <1>5 DEF IInv

\* The types of the tick are kept by every step.
LEMMA TickTypesStep ==
  ASSUME IInv, [Next]_vars PROVE TickTypes'
<1> USE StepFacts, CappedFacts
    DEF IInv, TypeOK, TickTypes
<1>1. CASE Wake
  BY <1>1 DEF Wake, Go
<1>2. CASE FindsLocked
  BY <1>2 DEF FindsLocked, ResetStrikes
<1>3. CASE FindsUnlocked
  BY <1>3 DEF FindsUnlocked, ResetStrikes
<1>4. CASE SeesInput
  BY <1>4 DEF SeesInput, Go, ResetStrikes
<1>5. CASE StartsPoll
  BY <1>5 DEF StartsPoll, Go
<1>6. CASE Gate
  BY <1>6 DEF Gate, Go, ResetStrikes
<1>7. CASE Probe
  <2>1. step' \in Steps /\ UNCHANGED <<wasLocked, limit>>
    BY <1>7 DEF Probe, Go, Answer, NoAnswer
  <2>2. Unseen => evidence' \in 0 .. MaxStrikes
    BY ONLY TypeOK, CappedFacts, PresenceAssumption DEF Unseen, TypeOK
  <2>3. \/ ResetStrikes \/ UNCHANGED counters
        \/ Unseen /\ UNCHANGED <<strikes, uncertain>>
    BY <1>7 DEF Probe, Answer, NoAnswer
  <2> QED BY <2>1, <2>2, <2>3 DEF ResetStrikes
<1>8. CASE Wait
  BY <1>8 DEF Wait, Go
<1>9. CASE Confirm
  <2>1. step' \in Steps /\ UNCHANGED <<wasLocked, limit>>
    BY <1>9 DEF Confirm, Go, Answer, NoAnswer
  <2>2. Unseen => evidence' \in 0 .. MaxStrikes
    BY ONLY TypeOK, CappedFacts, PresenceAssumption DEF Unseen, TypeOK
  <2>3. \/ ResetStrikes \/ UNCHANGED counters
        \/ Unseen /\ UNCHANGED <<strikes, uncertain>>
    BY <1>9 DEF Confirm, Answer, NoAnswer
  <2> QED BY <2>1, <2>2, <2>3 DEF ResetStrikes
<1>10. CASE OnUncertain
  <2>1. uncertain' \in 0 .. MaxStrikes
    BY <1>10, SumFacts DEF OnUncertain
  <2>2. step' \in Steps
    BY <1>10 DEF OnUncertain, Go
  <2> QED BY <1>10, <2>1, <2>2 DEF OnUncertain, Go
<1>11. CASE AwardStrike
  <2>1. strikes' \in 0 .. MaxStrikes /\ limit' \in 0 .. MaxStrikes
    BY <1>11, CfgFacts, SumFacts DEF AwardStrike
  <2> QED BY <1>11, <2>1 DEF AwardStrike
<1>12. CASE Decide
  BY <1>12 DEF Decide, ResetStrikes
<1>13. CASE Lock
  BY <1>13 DEF Lock, Go
<1>14. CASE Throws
  BY <1>14 DEF Throws, Done
<1>15. CASE Pause
  BY <1>15 DEF Pause, Spend
<1>16. CASE Resume
  BY <1>16 DEF Resume
<1>17. CASE Save
  BY <1>17 DEF Save, Spend
<1>18. CASE ResetAndPoke
  BY <1>18 DEF ResetAndPoke, TrayReset, Poke
<1>19. CASE Callback
  BY <1>19 DEF Callback, TrayReset
<1>20. CASE Quit
  BY <1>20 DEF Quit, Spend
<1>21. CASE LockoutBegins
  BY <1>21 DEF LockoutBegins
<1>22. CASE LockoutEnds
  BY <1>22 DEF LockoutEnds
<1>23. CASE EverybodyLeaves
  BY <1>23 DEF EverybodyLeaves
<1>24. ASSUME NEW t \in Pollers, Ask(t) PROVE TickTypes'
  BY <1>24 DEF Ask
<1>25. ASSUME NEW t \in Pollers, NoteDown(t) PROVE TickTypes'
  BY <1>25 DEF NoteDown, Done, Goes
<1>26. ASSUME NEW t \in Pollers, NoteClear(t) PROVE TickTypes'
  BY <1>26 DEF NoteClear, Done, Goes
<1>27. ASSUME NEW t \in Pollers, NoteLocked(t) PROVE TickTypes'
  BY <1>27 DEF NoteLocked, Done, Goes
<1>28. ASSUME NEW t \in Pollers, Toast(t) PROVE TickTypes'
  BY <1>28 DEF Toast, Done, Goes
<1>29. CASE UNCHANGED vars
  BY <1>29 DEF vars
<1> QED
  BY <1>1, <1>2, <1>3, <1>4, <1>5, <1>6, <1>7, <1>8, <1>9, <1>10, <1>11,
     <1>12, <1>13, <1>14, <1>15, <1>16, <1>17, <1>18, <1>19, <1>20,
     <1>21, <1>22, <1>23, <1>24, <1>25, <1>26, <1>27, <1>28, <1>29, PollFacts
  DEF Next, TickStep, PollStep, TrayStep, World

\* So are those of what the user does,
LEMMA UserTypesStep ==
  ASSUME IInv, [Next]_vars PROVE UserTypes'
<1> USE DEF IInv, TypeOK, UserTypes
<1>1. CASE Wake
  BY <1>1 DEF Wake, Go
<1>2. CASE FindsLocked
  BY <1>2 DEF FindsLocked, ResetStrikes
<1>3. CASE FindsUnlocked
  BY <1>3 DEF FindsUnlocked, ResetStrikes
<1>4. CASE SeesInput
  BY <1>4 DEF SeesInput, Go, ResetStrikes
<1>5. CASE StartsPoll
  BY <1>5 DEF StartsPoll, Go
<1>6. CASE Gate
  BY <1>6 DEF Gate, Go, ResetStrikes
<1>7. CASE Probe
  BY <1>7 DEF Probe, Go, Answer, NoAnswer, Unseen, ResetStrikes
<1>8. CASE Wait
  BY <1>8 DEF Wait, Go
<1>9. CASE Confirm
  BY <1>9 DEF Confirm, Go, Answer, NoAnswer, Unseen, ResetStrikes
<1>10. CASE OnUncertain
  BY <1>10 DEF OnUncertain, Go
<1>11. CASE AwardStrike
  BY <1>11 DEF AwardStrike
<1>12. CASE Decide
  BY <1>12 DEF Decide, ResetStrikes
<1>13. CASE Lock
  BY <1>13 DEF Lock, Go
<1>14. CASE Throws
  BY <1>14 DEF Throws, Done
<1>15. CASE Pause
  BY <1>15 DEF Pause, Spend
<1>16. CASE Resume
  BY <1>16 DEF Resume
<1>17. CASE Save
  BY <1>17 DEF Save, Spend
<1>18. CASE ResetAndPoke
  BY <1>18 DEF ResetAndPoke, TrayReset, Poke
<1>19. CASE Callback
  BY <1>19 DEF Callback, TrayReset
<1>20. CASE Quit
  BY <1>20 DEF Quit
<1>21. CASE LockoutBegins
  BY <1>21 DEF LockoutBegins
<1>22. CASE LockoutEnds
  BY <1>22 DEF LockoutEnds
<1>23. CASE EverybodyLeaves
  BY <1>23 DEF EverybodyLeaves
<1>24. ASSUME NEW t \in Pollers, Ask(t) PROVE UserTypes'
  BY <1>24 DEF Ask
<1>25. ASSUME NEW t \in Pollers, NoteDown(t) PROVE UserTypes'
  BY <1>25 DEF NoteDown, Done, Goes
<1>26. ASSUME NEW t \in Pollers, NoteClear(t) PROVE UserTypes'
  BY <1>26 DEF NoteClear, Done, Goes
<1>27. ASSUME NEW t \in Pollers, NoteLocked(t) PROVE UserTypes'
  BY <1>27 DEF NoteLocked, Done, Goes
<1>28. ASSUME NEW t \in Pollers, Toast(t) PROVE UserTypes'
  BY <1>28 DEF Toast, Done, Goes
<1>29. CASE UNCHANGED vars
  BY <1>29 DEF vars
<1> QED
  BY <1>1, <1>2, <1>3, <1>4, <1>5, <1>6, <1>7, <1>8, <1>9, <1>10, <1>11,
     <1>12, <1>13, <1>14, <1>15, <1>16, <1>17, <1>18, <1>19, <1>20,
     <1>21, <1>22, <1>23, <1>24, <1>25, <1>26, <1>27, <1>28, <1>29, PollFacts
  DEF Next, TickStep, PollStep, TrayStep, World

\* what the bounds have left, and the locks counted
LEMMA UserCountsStep ==
  ASSUME IInv, [Next]_vars PROVE UserCounts'
<1> USE PresenceAssumption
    DEF IInv, TypeOK, UserCounts
<1>1. CASE Wake
  BY <1>1 DEF Wake, Go
<1>2. CASE FindsLocked
  BY <1>2 DEF FindsLocked, ResetStrikes
<1>3. CASE FindsUnlocked
  BY <1>3 DEF FindsUnlocked, ResetStrikes
<1>4. CASE SeesInput
  BY <1>4 DEF SeesInput, Go, ResetStrikes
<1>5. CASE StartsPoll
  BY <1>5 DEF StartsPoll, Go
<1>6. CASE Gate
  BY <1>6 DEF Gate, Go, ResetStrikes
<1>7. CASE Probe
  BY <1>7 DEF Probe, Go, Answer, NoAnswer, Unseen, ResetStrikes
<1>8. CASE Wait
  BY <1>8 DEF Wait, Go
<1>9. CASE Confirm
  BY <1>9 DEF Confirm, Go, Answer, NoAnswer, Unseen, ResetStrikes
<1>10. CASE OnUncertain
  BY <1>10 DEF OnUncertain, Go
<1>11. CASE AwardStrike
  BY <1>11 DEF AwardStrike
<1>12. CASE Decide
  BY <1>12 DEF Decide, ResetStrikes
<1>13. CASE Lock
  BY <1>13, CountFacts DEF Lock, Go
<1>14. CASE Throws
  BY <1>14 DEF Throws, Done
<1>15. CASE Pause
  BY <1>15 DEF Pause, Spend
<1>16. CASE Resume
  <2>1. lateLocks' = 0 /\ UNCHANGED budget
    BY <1>16 DEF Resume
  <2> QED BY <2>1
<1>17. CASE Save
  BY <1>17 DEF Save, Spend
<1>18. CASE ResetAndPoke
  BY <1>18 DEF ResetAndPoke, TrayReset, Poke
<1>19. CASE Callback
  BY <1>19 DEF Callback, TrayReset
<1>20. CASE Quit
  BY <1>20 DEF Quit, Spend
<1>21. CASE LockoutBegins
  BY <1>21 DEF LockoutBegins
<1>22. CASE LockoutEnds
  BY <1>22 DEF LockoutEnds
<1>23. CASE EverybodyLeaves
  BY <1>23 DEF EverybodyLeaves
<1>24. ASSUME NEW t \in Pollers, Ask(t) PROVE UserCounts'
  BY <1>24 DEF Ask
<1>25. ASSUME NEW t \in Pollers, NoteDown(t) PROVE UserCounts'
  BY <1>25 DEF NoteDown, Done, Goes
<1>26. ASSUME NEW t \in Pollers, NoteClear(t) PROVE UserCounts'
  BY <1>26 DEF NoteClear, Done, Goes
<1>27. ASSUME NEW t \in Pollers, NoteLocked(t) PROVE UserCounts'
  BY <1>27 DEF NoteLocked, Done, Goes
<1>28. ASSUME NEW t \in Pollers, Toast(t) PROVE UserCounts'
  BY <1>28 DEF Toast, Done, Goes
<1>29. CASE UNCHANGED vars
  BY <1>29 DEF vars
<1> QED
  BY <1>1, <1>2, <1>3, <1>4, <1>5, <1>6, <1>7, <1>8, <1>9, <1>10, <1>11,
     <1>12, <1>13, <1>14, <1>15, <1>16, <1>17, <1>18, <1>19, <1>20,
     <1>21, <1>22, <1>23, <1>24, <1>25, <1>26, <1>27, <1>28, <1>29, PollFacts
  DEF Next, TickStep, PollStep, TrayStep, World

\* and of the polls.
LEMMA EventTypesStep ==
  ASSUME IInv, [Next]_vars PROVE EventTypes'
<1> USE PollFacts, PollMoves
    DEF IInv, TypeOK, EventTypes
<1>1. CASE Wake
  BY <1>1 DEF Wake, Go
<1>2. CASE FindsLocked
  BY <1>2 DEF FindsLocked, ResetStrikes
<1>3. CASE FindsUnlocked
  BY <1>3 DEF FindsUnlocked, ResetStrikes
<1>4. CASE SeesInput
  BY <1>4 DEF SeesInput, Go, ResetStrikes
<1>5. CASE StartsPoll
  BY <1>5 DEF StartsPoll, Go
<1>6. CASE Gate
  BY <1>6 DEF Gate, Go, ResetStrikes
<1>7. CASE Probe
  BY <1>7 DEF Probe, Go, Answer, NoAnswer, Unseen, ResetStrikes
<1>8. CASE Wait
  BY <1>8 DEF Wait, Go
<1>9. CASE Confirm
  BY <1>9 DEF Confirm, Go, Answer, NoAnswer, Unseen, ResetStrikes
<1>10. CASE OnUncertain
  BY <1>10 DEF OnUncertain, Go
<1>11. CASE AwardStrike
  BY <1>11 DEF AwardStrike
<1>12. CASE Decide
  BY <1>12 DEF Decide, ResetStrikes
<1>13. CASE Lock
  BY <1>13 DEF Lock, Go
<1>14. CASE Throws
  BY <1>14 DEF Throws, Done
<1>15. CASE Pause
  BY <1>15 DEF Pause, Spend
<1>16. CASE Resume
  BY <1>16 DEF Resume
<1>17. CASE Save
  BY <1>17 DEF Save, Spend
<1>18. CASE ResetAndPoke
  BY <1>18, CountFacts DEF ResetAndPoke, Poke
<1>19. CASE Callback
  BY <1>19 DEF Callback, TrayReset
<1>20. CASE Quit
  BY <1>20 DEF Quit, Spend
<1>21. CASE LockoutBegins
  <2>1. racers' \in 0 .. MaxToasts
    BY <1>21, RacersFact DEF LockoutBegins
  <2> QED BY <1>21, <2>1 DEF LockoutBegins
<1>22. CASE LockoutEnds
  BY <1>22, CappedFacts DEF LockoutEnds
<1>23. CASE EverybodyLeaves
  BY <1>23 DEF EverybodyLeaves
<1>24. ASSUME NEW t \in Pollers, Ask(t) PROVE EventTypes'
  <2>1. PICK r \in PollSteps : poll' = [poll EXCEPT ![t] = r]
    BY <1>24 DEF Ask
  <2> QED BY <1>24, <2>1 DEF Ask
<1>25. ASSUME NEW t \in Pollers, NoteDown(t) PROVE EventTypes'
  BY <1>25 DEF NoteDown, Done, Goes
<1>26. ASSUME NEW t \in Pollers, NoteClear(t) PROVE EventTypes'
  BY <1>26 DEF NoteClear, Done, Goes
<1>27. ASSUME NEW t \in Pollers, NoteLocked(t) PROVE EventTypes'
  <2>1. poll' = [poll EXCEPT ![t] = "toast"] \/ poll' = [poll EXCEPT ![t] = "no"]
    BY <1>27 DEF NoteLocked, Done
  <2>2. reach' = "up" /\ UNCHANGED <<notified, toasts, racers, lockout, scene>>
    BY <1>27 DEF NoteLocked
  <2>3. poll' \in [Pollers -> PollSteps]
    BY <1>27, <2>1
  <2> QED BY <2>2, <2>3
<1>28. ASSUME NEW t \in Pollers, Toast(t) PROVE EventTypes'
  BY <1>28, CountFacts DEF Toast, Done
<1>29. CASE UNCHANGED vars
  BY <1>29 DEF vars
<1> QED
  BY <1>1, <1>2, <1>3, <1>4, <1>5, <1>6, <1>7, <1>8, <1>9, <1>10, <1>11,
     <1>12, <1>13, <1>14, <1>15, <1>16, <1>17, <1>18, <1>19, <1>20,
     <1>21, <1>22, <1>23, <1>24, <1>25, <1>26, <1>27, <1>28, <1>29, PollFacts
  DEF Next, TickStep, PollStep, TrayStep, World

\* The types are kept by every step.
LEMMA TypeStep ==
  ASSUME IInv, [Next]_vars PROVE TypeOK'
  BY TickTypesStep, UserTypesStep, UserCountsStep, EventTypesStep
  DEF TypeOK, TickTypes, UserTypes, UserCounts, EventTypes

\* No strike without its evidence.
LEMMA BackedStep ==
  ASSUME IInv, [Next]_vars PROVE Backed'
<1> USE CappedFacts, PresenceAssumption
    DEF IInv, TypeOK, Backed
<1>1. CASE Wake
  BY <1>1 DEF Wake, Go
<1>2. CASE FindsLocked
  BY <1>2 DEF FindsLocked, ResetStrikes
<1>3. CASE FindsUnlocked
  BY <1>3 DEF FindsUnlocked, ResetStrikes
<1>4. CASE SeesInput
  BY <1>4 DEF SeesInput, Go, ResetStrikes
<1>5. CASE StartsPoll
  BY <1>5 DEF StartsPoll, Go
<1>6. CASE Gate
  <2>1. step' \in {"sleep", "probe"}
    BY <1>6 DEF Gate, Go
  <2>2. UNCHANGED counters \/ ResetStrikes
    BY ONLY <1>6 DEF Gate
  <2>3. strikes' <= evidence'
    BY <2>2 DEF ResetStrikes
  <2> QED BY <2>1, <2>3
<1>7. CASE Probe
  BY <1>7 DEF Probe, Go, Answer, NoAnswer, Unseen, ResetStrikes
<1>8. CASE Wait
  BY <1>8 DEF Wait, Go
<1>9. CASE Confirm
  BY <1>9 DEF Confirm, Go, Answer, NoAnswer, Unseen, ResetStrikes
<1>10. CASE OnUncertain
  BY <1>10 DEF OnUncertain, Go
<1>11. CASE AwardStrike
  BY <1>11 DEF AwardStrike
<1>12. CASE Decide
  BY <1>12 DEF Decide, ResetStrikes
<1>13. CASE Lock
  BY <1>13 DEF Lock, Go
<1>14. CASE Throws
  BY <1>14 DEF Throws, Done
<1>15. CASE Pause
  BY <1>15 DEF Pause, Spend
<1>16. CASE Resume
  BY <1>16 DEF Resume
<1>17. CASE Save
  BY <1>17 DEF Save, Spend
<1>18. CASE ResetAndPoke
  BY <1>18 DEF ResetAndPoke, TrayReset, Poke, Counted
<1>19. CASE Callback
  BY <1>19 DEF Callback, TrayReset
<1>20. CASE Quit
  BY <1>20 DEF Quit, Spend
<1>21. CASE LockoutBegins
  BY <1>21 DEF LockoutBegins
<1>22. CASE LockoutEnds
  BY <1>22 DEF LockoutEnds
<1>23. CASE EverybodyLeaves
  BY <1>23 DEF EverybodyLeaves
<1>24. ASSUME NEW t \in Pollers, Ask(t) PROVE Backed'
  BY <1>24 DEF Ask
<1>25. ASSUME NEW t \in Pollers, NoteDown(t) PROVE Backed'
  BY <1>25 DEF NoteDown, Done, Goes
<1>26. ASSUME NEW t \in Pollers, NoteClear(t) PROVE Backed'
  BY <1>26 DEF NoteClear, Done, Goes
<1>27. ASSUME NEW t \in Pollers, NoteLocked(t) PROVE Backed'
  BY <1>27 DEF NoteLocked, Done, Goes
<1>28. ASSUME NEW t \in Pollers, Toast(t) PROVE Backed'
  BY <1>28 DEF Toast, Done, Goes, Counted
<1>29. CASE UNCHANGED vars
  BY <1>29 DEF vars
<1> QED
  BY <1>1, <1>2, <1>3, <1>4, <1>5, <1>6, <1>7, <1>8, <1>9, <1>10, <1>11,
     <1>12, <1>13, <1>14, <1>15, <1>16, <1>17, <1>18, <1>19, <1>20,
     <1>21, <1>22, <1>23, <1>24, <1>25, <1>26, <1>27, <1>28, <1>29, PollFacts
  DEF Next, TickStep, PollStep, TrayStep, World

\* One lock at most after a pause.
LEMMA LastTickStep ==
  ASSUME IInv, [Next]_vars PROVE LastTick'
<1> USE CountFacts
    DEF IInv, LastTick
<1>1. CASE Wake
  BY <1>1 DEF Wake, Go
<1>2. CASE FindsLocked
  BY <1>2 DEF FindsLocked, ResetStrikes
<1>3. CASE FindsUnlocked
  BY <1>3 DEF FindsUnlocked, ResetStrikes
<1>4. CASE SeesInput
  BY <1>4 DEF SeesInput, Go, ResetStrikes
<1>5. CASE StartsPoll
  BY <1>5 DEF StartsPoll, Go
<1>6. CASE Gate
  <2>1. paused \in BOOLEAN
    BY DEF TypeOK
  <2>2. CASE paused = TRUE
    BY <1>6, <2>2 DEF Gate, Go
  <2>3. CASE paused = FALSE
    <3>1. lateLocks = 0 /\ UNCHANGED <<lateLocks, paused>>
      BY <1>6, <2>3 DEF Gate
    <3> QED BY <3>1
  <2> QED BY <2>1, <2>2, <2>3
<1>7. CASE Probe
  BY <1>7 DEF Probe, Go, Answer, NoAnswer, Unseen, ResetStrikes
<1>8. CASE Wait
  BY <1>8 DEF Wait, Go
<1>9. CASE Confirm
  BY <1>9 DEF Confirm, Go, Answer, NoAnswer, Unseen, ResetStrikes
<1>10. CASE OnUncertain
  BY <1>10 DEF OnUncertain, Go
<1>11. CASE AwardStrike
  BY <1>11 DEF AwardStrike
<1>12. CASE Decide
  BY <1>12 DEF Decide, ResetStrikes
<1>13. CASE Lock
  BY <1>13 DEF Lock, Go
<1>14. CASE Throws
  BY <1>14 DEF Throws, Done
<1>15. CASE Pause
  BY <1>15 DEF Pause, Spend
<1>16. CASE Resume
  <2>1. /\ lateLocks' = 0 /\ paused' = FALSE /\ tray' = "resumed"
        /\ UNCHANGED <<cfg, stop, budget, quitHolds, step>>
    BY <1>16 DEF Resume
  <2> QED BY ONLY <2>1 DEF LastTick
<1>17. CASE Save
  BY <1>17 DEF Save, Spend
<1>18. CASE ResetAndPoke
  BY <1>18 DEF ResetAndPoke, TrayReset, Poke, Counted
<1>19. CASE Callback
  BY <1>19 DEF Callback, TrayReset
<1>20. CASE Quit
  BY <1>20 DEF Quit, Spend
<1>21. CASE LockoutBegins
  BY <1>21 DEF LockoutBegins
<1>22. CASE LockoutEnds
  BY <1>22 DEF LockoutEnds
<1>23. CASE EverybodyLeaves
  BY <1>23 DEF EverybodyLeaves
<1>24. ASSUME NEW t \in Pollers, Ask(t) PROVE LastTick'
  BY <1>24 DEF Ask
<1>25. ASSUME NEW t \in Pollers, NoteDown(t) PROVE LastTick'
  BY <1>25 DEF NoteDown, Done, Goes
<1>26. ASSUME NEW t \in Pollers, NoteClear(t) PROVE LastTick'
  BY <1>26 DEF NoteClear, Done, Goes
<1>27. ASSUME NEW t \in Pollers, NoteLocked(t) PROVE LastTick'
  BY <1>27 DEF NoteLocked, Done, Goes
<1>28. ASSUME NEW t \in Pollers, Toast(t) PROVE LastTick'
  BY <1>28 DEF Toast, Done, Goes, Counted
<1>29. CASE UNCHANGED vars
  BY <1>29 DEF vars
<1> QED
  BY <1>1, <1>2, <1>3, <1>4, <1>5, <1>6, <1>7, <1>8, <1>9, <1>10, <1>11,
     <1>12, <1>13, <1>14, <1>15, <1>16, <1>17, <1>18, <1>19, <1>20,
     <1>21, <1>22, <1>23, <1>24, <1>25, <1>26, <1>27, <1>28, <1>29, PollFacts
  DEF Next, TickStep, PollStep, TrayStep, World

\* Nothing follows a Quit that found the tick idle or waiting.
LEMMA LeavingStep ==
  ASSUME IInv, [Next]_vars PROVE Leaving'
<1> USE PollFacts
    DEF IInv, TypeOK, Leaving
<1>1. CASE Wake
  BY <1>1 DEF Wake, Go
<1>2. CASE FindsLocked
  BY <1>2 DEF FindsLocked, ResetStrikes
<1>3. CASE FindsUnlocked
  BY <1>3 DEF FindsUnlocked, ResetStrikes
<1>4. CASE SeesInput
  BY <1>4 DEF SeesInput, Go, ResetStrikes
<1>5. CASE StartsPoll
  BY <1>5 DEF StartsPoll, Go
<1>6. CASE Gate
  BY <1>6 DEF Gate, Go, ResetStrikes
<1>7. CASE Probe
  BY <1>7 DEF Probe, Go, Answer, NoAnswer, Unseen, ResetStrikes
<1>8. CASE Wait
  BY <1>8 DEF Wait, Go
<1>9. CASE Confirm
  BY <1>9 DEF Confirm, Go, Answer, NoAnswer, Unseen, ResetStrikes
<1>10. CASE OnUncertain
  BY <1>10 DEF OnUncertain, Go
<1>11. CASE AwardStrike
  BY <1>11 DEF AwardStrike
<1>12. CASE Decide
  BY <1>12 DEF Decide, ResetStrikes
<1>13. CASE Lock
  BY <1>13 DEF Lock, Go
<1>14. CASE Throws
  BY <1>14 DEF Throws, Done
<1>15. CASE Pause
  BY <1>15 DEF Pause, Spend
<1>16. CASE Resume
  BY <1>16 DEF Resume
<1>17. CASE Save
  BY <1>17 DEF Save, Spend
<1>18. CASE ResetAndPoke
  BY <1>18 DEF ResetAndPoke, TrayReset, Poke, Counted
<1>19. CASE Callback
  BY <1>19 DEF Callback, TrayReset
<1>20. CASE Quit
  BY <1>20 DEF Quit, Spend
<1>21. CASE LockoutBegins
  BY <1>21 DEF LockoutBegins
<1>22. CASE LockoutEnds
  BY <1>22 DEF LockoutEnds
<1>23. CASE EverybodyLeaves
  BY <1>23 DEF EverybodyLeaves
<1>24. ASSUME NEW t \in Pollers, Ask(t) PROVE Leaving'
  BY <1>24 DEF Ask
<1>25. ASSUME NEW t \in Pollers, NoteDown(t) PROVE Leaving'
  BY <1>25 DEF NoteDown, Done, Goes
<1>26. ASSUME NEW t \in Pollers, NoteClear(t) PROVE Leaving'
  BY <1>26 DEF NoteClear, Done, Goes
<1>27. ASSUME NEW t \in Pollers, NoteLocked(t) PROVE Leaving'
  BY <1>27 DEF NoteLocked, Done, Goes
<1>28. ASSUME NEW t \in Pollers, Toast(t) PROVE Leaving'
  BY <1>28 DEF Toast, Done, Goes, Counted
<1>29. CASE UNCHANGED vars
  BY <1>29 DEF vars
<1> QED
  BY <1>1, <1>2, <1>3, <1>4, <1>5, <1>6, <1>7, <1>8, <1>9, <1>10, <1>11,
     <1>12, <1>13, <1>14, <1>15, <1>16, <1>17, <1>18, <1>19, <1>20,
     <1>21, <1>22, <1>23, <1>24, <1>25, <1>26, <1>27, <1>28, <1>29, PollFacts
  DEF Next, TickStep, PollStep, TrayStep, World

-----------------------------------------------------------------------------
(* The lockout toasts. Every poke under way is counted in racers, so what   *)
(* the toasts and the pokes under way leave of that count is what finished  *)
(* pokes have not spent; only the tick has one toast of its own, and it is  *)
(* still to come as long as the latch is clear or the tick may clear it.    *)

Active == {t \in Pokers : poll[t] # "no"}
Within(n) == toasts + Cardinality(Active) <= n + racers

Ledger ==
  /\ ~lockout => toasts = 0
  /\ lockout =>
       \/ racers = MaxToasts
       \/ /\ Within(1)
          /\ ~notified \/ poll["tick"] \in {"clear", "toast"} => Within(0)

\* The pokes under way are finitely many.
LEMMA ActiveFinite == IsFiniteSet(Active) /\ Cardinality(Active) \in Nat
<1>1. IsFiniteSet(Active)
  BY FS_Subset, PresenceAssumption DEF Active
<1> QED BY <1>1, FS_CardinalityType

\* What becomes of them when a poll moves on, ends or starts.
LEMMA ActiveKept ==
  ASSUME TypeOK, NEW t \in Pollers, NEW s, poll' = [poll EXCEPT ![t] = s],
         t = "tick" \/ (poll[t] # "no" /\ s # "no")
  PROVE  Active' = Active
  BY PollFacts DEF TypeOK, Active

LEMMA ActiveEnds ==
  ASSUME TypeOK, NEW t \in Pokers, poll[t] # "no", poll' = Done(t)
  PROVE  Cardinality(Active') = Cardinality(Active) - 1
<1>1. Active' = Active \ {t} /\ t \in Active
  BY PollFacts DEF TypeOK, Active, Done
<1> QED BY <1>1, ActiveFinite, FS_RemoveElement

LEMMA ActiveStarts ==
  ASSUME TypeOK, NEW t \in Pokers, poll[t] = "no", poll' = [poll EXCEPT ![t] = "ask"]
  PROVE  Cardinality(Active') = Cardinality(Active) + 1
<1>1. Active' = Active \cup {t} /\ t \notin Active
  BY PollFacts DEF TypeOK, Active
<1> QED BY <1>1, ActiveFinite, FS_AddElement

\* The numbers the account is about.
LEMMA LedgerNumbers ==
  ASSUME TypeOK
  PROVE  /\ toasts \in Nat /\ racers \in Nat /\ Cardinality(Active) \in Nat
         /\ toasts <= MaxToasts /\ racers <= MaxToasts /\ MaxToasts \in Nat
  BY ActiveFinite, PresenceAssumption DEF TypeOK

\* One more toast or poke of an episode, unless the bound is reached; none outside.
LEMMA CountedFacts ==
  ASSUME TypeOK
  PROVE  /\ ~lockout => Counted(toasts) = toasts /\ Counted(racers) = racers
         /\ Counted(toasts) <= toasts + 1
         /\ racers = MaxToasts => Counted(racers) = MaxToasts
         /\ lockout => Counted(racers) = racers + 1 \/ Counted(racers) = MaxToasts
  BY LedgerNumbers DEF Counted, Upto

\* A step that touches none of it keeps the account.
LEMMA LedgerAside ==
  ASSUME Ledger, UNCHANGED <<poll, notified, toasts, racers, lockout>>
  PROVE  Ledger'
  BY DEF Ledger, Within, Active

\* So does one of the tick's poll that shows no toast and clears no latch, and
\* comes to do so only with the latch clear or outside an episode.
LEMMA LedgerTick ==
  ASSUME TypeOK, Ledger, NEW s, poll' = [poll EXCEPT !["tick"] = s],
         UNCHANGED <<notified, toasts, racers, lockout>>,
         s = "clear" => ~lockout, s = "toast" => ~notified
  PROVE  Ledger'
<1>1. Active' = Active /\ poll'["tick"] = s
  BY ActiveKept, PollFacts DEF TypeOK
<1> QED BY <1>1 DEF Ledger, Within

\* A poke that goes on changes nothing, and one that ends has paid for itself.
LEMMA LedgerMoves ==
  ASSUME TypeOK, Ledger, NEW t \in Pokers, NEW s, poll[t] # "no", s # "no",
         poll' = [poll EXCEPT ![t] = s], UNCHANGED <<notified, toasts, racers, lockout>>
  PROVE  Ledger'
<1>1. Active' = Active /\ poll'["tick"] = poll["tick"]
  BY ActiveKept, PollFacts DEF TypeOK
<1> QED BY <1>1 DEF Ledger, Within

LEMMA LedgerEnds ==
  ASSUME TypeOK, Ledger, NEW t \in Pokers, poll[t] # "no", poll' = Done(t),
         UNCHANGED <<racers, lockout>>,
         \/ toasts' = toasts
         \/ toasts' = Counted(toasts) /\ notified' = TRUE
  PROVE  Ledger'
<1>1. Cardinality(Active') = Cardinality(Active) - 1 /\ poll'["tick"] = poll["tick"]
  BY ActiveEnds, PollFacts DEF TypeOK, Done
<1>2. ~lockout => toasts' = toasts
  BY CountedFacts
<1>3. ASSUME lockout, Within(1), toasts' = toasts PROVE Within(0)'
  BY <1>1, <1>3, LedgerNumbers DEF Within
<1>4. ASSUME lockout, Within(1), toasts' = Counted(toasts) PROVE Within(1)'
  BY <1>1, <1>4, LedgerNumbers, CountedFacts, CountFacts DEF Within
<1>5. ASSUME lockout, Within(0), toasts' = Counted(toasts) PROVE Within(0)'
  BY <1>1, <1>5, LedgerNumbers, CountedFacts, CountFacts DEF Within
<1>6. ASSUME Within(0)' PROVE Within(1)'
  <2>1. toasts' \in Nat
    BY LedgerNumbers, CountFacts
  <2>2. Cardinality(Active') \in Int /\ racers' \in Nat
    BY <1>1, LedgerNumbers
  <2> QED BY <1>6, <2>1, <2>2 DEF Within
<1>7. CASE toasts' = toasts
  BY <1>2, <1>3, <1>6, <1>7 DEF Ledger
<1>8. CASE toasts' = Counted(toasts) /\ notified' = TRUE
  BY <1>1, <1>2, <1>4, <1>5, <1>8 DEF Ledger
<1> QED BY <1>7, <1>8

\* The account is kept by every step.
LEMMA LedgerStep ==
  ASSUME TypeOK, Ledger, [Next]_vars PROVE Ledger'
<1>1. CASE Wake
  <2>1. UNCHANGED <<poll, notified, toasts, racers, lockout>>
    BY <1>1 DEF Wake
  <2> QED BY <2>1, LedgerAside
<1>2. CASE FindsLocked
  <2>1. UNCHANGED <<poll, notified, toasts, racers, lockout>>
    BY <1>2 DEF FindsLocked
  <2> QED BY <2>1, LedgerAside
<1>3. CASE FindsUnlocked
  <2>1. UNCHANGED <<poll, notified, toasts, racers, lockout>>
    BY <1>3 DEF FindsUnlocked
  <2> QED BY <2>1, LedgerAside
<1>4. CASE SeesInput
  <2>1. UNCHANGED <<poll, notified, toasts, racers, lockout>>
    BY <1>4 DEF SeesInput
  <2> QED BY <2>1, LedgerAside
<1>5. CASE StartsPoll
  <2>1. /\ poll' = [poll EXCEPT !["tick"] = "ask"]
        /\ UNCHANGED <<notified, toasts, racers, lockout>>
    BY <1>5 DEF StartsPoll
  <2>2. "ask" # "clear" /\ "ask" # "toast"
    OBVIOUS
  <2> QED BY ONLY <2>1, <2>2, TypeOK, Ledger, LedgerTick
<1>6. CASE Gate
  <2>1. UNCHANGED <<poll, notified, toasts, racers, lockout>>
    BY <1>6 DEF Gate
  <2> QED BY <2>1, LedgerAside
<1>7. CASE Probe
  <2>1. UNCHANGED <<poll, notified, toasts, racers, lockout>>
    BY <1>7 DEF Probe
  <2> QED BY <2>1, LedgerAside
<1>8. CASE Wait
  <2>1. UNCHANGED <<poll, notified, toasts, racers, lockout>>
    BY <1>8 DEF Wait
  <2> QED BY <2>1, LedgerAside
<1>9. CASE Confirm
  <2>1. UNCHANGED <<poll, notified, toasts, racers, lockout>>
    BY <1>9 DEF Confirm
  <2> QED BY <2>1, LedgerAside
<1>10. CASE OnUncertain
  <2>1. UNCHANGED <<poll, notified, toasts, racers, lockout>>
    BY <1>10 DEF OnUncertain
  <2> QED BY <2>1, LedgerAside
<1>11. CASE AwardStrike
  <2>1. UNCHANGED <<poll, notified, toasts, racers, lockout>>
    BY <1>11 DEF AwardStrike
  <2> QED BY <2>1, LedgerAside
<1>12. CASE Decide
  <2>1. UNCHANGED <<poll, notified, toasts, racers, lockout>>
    BY <1>12 DEF Decide
  <2> QED BY <2>1, LedgerAside
<1>13. CASE Lock
  <2>1. UNCHANGED <<poll, notified, toasts, racers, lockout>>
    BY <1>13 DEF Lock
  <2> QED BY <2>1, LedgerAside
<1>14. CASE Throws
  <2>1. /\ poll' = [poll EXCEPT !["tick"] = "no"]
        /\ UNCHANGED <<notified, toasts, racers, lockout>>
    BY <1>14 DEF Throws, Done
  <2>2. "no" # "clear" /\ "no" # "toast"
    OBVIOUS
  <2> QED BY ONLY <2>1, <2>2, TypeOK, Ledger, LedgerTick
<1>15. CASE Pause
  <2>1. UNCHANGED <<poll, notified, toasts, racers, lockout>>
    BY <1>15 DEF Pause
  <2> QED BY <2>1, LedgerAside
<1>16. CASE Resume
  <2>1. UNCHANGED <<poll, notified, toasts, racers, lockout>>
    BY <1>16 DEF Resume
  <2> QED BY <2>1, LedgerAside
<1>17. CASE Save
  <2>1. UNCHANGED <<poll, notified, toasts, racers, lockout>>
    BY <1>17 DEF Save
  <2> QED BY <2>1, LedgerAside
<1>18. CASE ResetAndPoke
  <2>1. PICK t \in Pokers : /\ poll[t] = "no" /\ poll' = [poll EXCEPT ![t] = "ask"]
                            /\ racers' = Counted(racers)
    BY <1>18 DEF ResetAndPoke, Poke
  <2>2. UNCHANGED <<notified, toasts, lockout>>
    BY <1>18 DEF ResetAndPoke
  <2>3. Cardinality(Active') = Cardinality(Active) + 1 /\ poll'["tick"] = poll["tick"]
    BY <2>1, ActiveStarts, PollFacts DEF TypeOK
  <2>4. ASSUME lockout, racers # MaxToasts, racers' # MaxToasts PROVE racers' = racers + 1
    BY <2>1, <2>4, CountedFacts
  <2>5. ASSUME NEW n \in Nat, racers' = racers + 1, Within(n) PROVE Within(n)'
    BY <2>2, <2>3, <2>5, LedgerNumbers DEF Within
  <2>6. Within(0) /\ racers' = racers + 1 => Within(0)'
    BY <2>5
  <2>7. Within(1) /\ racers' = racers + 1 => Within(1)'
    BY <2>5
  <2>8. racers = MaxToasts => racers' = MaxToasts
    BY <2>1, CountedFacts
  <2>9. MaxToasts' = MaxToasts
    OBVIOUS
  <2> QED BY <2>2, <2>3, <2>4, <2>6, <2>7, <2>8, <2>9 DEF Ledger
<1>19. CASE Callback
  <2>1. UNCHANGED <<poll, notified, toasts, racers, lockout>>
    BY <1>19 DEF Callback
  <2> QED BY <2>1, LedgerAside
<1>20. CASE Quit
  <2>1. UNCHANGED <<poll, notified, toasts, racers, lockout>>
    BY <1>20 DEF Quit
  <2> QED BY <2>1, LedgerAside
<1>21. CASE LockoutBegins
  <2>1. /\ ~lockout /\ lockout' = TRUE /\ toasts = 0
        /\ racers' = Upto(Cardinality(Active), MaxToasts)
        /\ UNCHANGED <<poll, notified, toasts>>
    BY <1>21 DEF LockoutBegins, Ledger, Active
  <2>2. Active' = Active
    BY <2>1 DEF Active
  <2>3. racers' = MaxToasts \/ (Within(0)' /\ Within(1)')
    BY <2>1, <2>2, LedgerNumbers DEF Within, Upto
  <2> QED BY <2>1, <2>3 DEF Ledger
<1>22. CASE LockoutEnds
  BY <1>22 DEF LockoutEnds, Ledger
<1>23. CASE EverybodyLeaves
  <2>1. UNCHANGED <<poll, notified, toasts, racers, lockout>>
    BY <1>23 DEF EverybodyLeaves
  <2> QED BY <2>1, LedgerAside
<1>24. ASSUME NEW t \in Pollers, Ask(t) PROVE Ledger'
  <2>1. PICK r \in {"down", IF lockout THEN "locked" ELSE "clear"} :
           poll' = [poll EXCEPT ![t] = r]
    BY <1>24 DEF Ask
  <2>2. poll[t] # "no" /\ UNCHANGED <<notified, toasts, racers, lockout>>
    BY <1>24 DEF Ask
  <2>3. r # "no" /\ r # "toast" /\ (r = "clear" => ~lockout)
    BY <2>1
  <2>4. CASE t = "tick"
    BY <2>1, <2>2, <2>3, <2>4, LedgerTick
  <2>5. CASE t # "tick"
    BY <2>1, <2>2, <2>3, <2>5, LedgerMoves DEF Pollers
  <2> QED BY <2>4, <2>5
<1>25. ASSUME NEW t \in Pollers, NoteDown(t) PROVE Ledger'
  <2>1. /\ poll[t] # "no" /\ poll' = [poll EXCEPT ![t] = "no"]
        /\ UNCHANGED <<notified, toasts, racers, lockout>>
    BY <1>25 DEF NoteDown, Done
  <2>2. CASE t = "tick"
    <3>1. poll' = [poll EXCEPT !["tick"] = "no"]
      BY <2>1, <2>2
    <3>2. "no" # "clear" /\ "no" # "toast"
      OBVIOUS
    <3> QED BY ONLY <2>1, <3>1, <3>2, TypeOK, Ledger, LedgerTick
  <2>3. CASE t # "tick"
    BY <2>1, <2>3, LedgerEnds DEF Pollers, Done
  <2> QED BY <2>2, <2>3
<1>26. ASSUME NEW t \in Pollers, NoteClear(t) PROVE Ledger'
  <2>1. /\ poll[t] = "clear" /\ poll' = Done(t)
        /\ UNCHANGED <<toasts, racers, lockout>>
    BY <1>26 DEF NoteClear
  <2>2. CASE t = "tick"
    <3>1. Active' = Active
      BY <2>1, <2>2, ActiveKept, PollFacts DEF Done
    <3> QED BY <2>1, <2>2, <3>1 DEF Ledger, Within
  <2>3. CASE t # "tick"
    BY <2>1, <2>3, LedgerEnds DEF Pollers
  <2> QED BY <2>2, <2>3
<1>27. ASSUME NEW t \in Pollers, NoteLocked(t) PROVE Ledger'
  <2>1. PICK r \in {"no", "toast"} : /\ poll' = [poll EXCEPT ![t] = r]
                                     /\ r = "toast" => ~notified
    BY <1>27 DEF NoteLocked, Done
  <2>2. poll[t] # "no" /\ UNCHANGED <<notified, toasts, racers, lockout>>
    BY <1>27 DEF NoteLocked
  <2>3. CASE t = "tick"
    BY <2>1, <2>2, <2>3, LedgerTick
  <2>4. CASE t # "tick" /\ r = "toast"
    BY <2>1, <2>2, <2>4, LedgerMoves DEF Pollers
  <2>5. CASE t # "tick" /\ r = "no"
    BY <2>1, <2>2, <2>5, LedgerEnds DEF Pollers, Done
  <2> QED BY <2>1, <2>3, <2>4, <2>5
<1>28. ASSUME NEW t \in Pollers, Toast(t) PROVE Ledger'
  <2>1. /\ poll[t] = "toast" /\ poll' = Done(t) /\ notified' = TRUE
        /\ toasts' = Counted(toasts) /\ UNCHANGED <<racers, lockout>>
    BY <1>28 DEF Toast
  <2>2. CASE t = "tick"
    <3>1. Active' = Active /\ poll'["tick"] = "no"
      BY <2>1, <2>2, ActiveKept, PollFacts DEF Done, TypeOK
    <3>2. Within(0) => Within(1)'
      BY <2>1, <3>1, LedgerNumbers, CountedFacts, CountFacts DEF Within
    <3>3. ~lockout => toasts' = toasts
      BY <2>1, CountedFacts
    <3> QED BY <2>1, <2>2, <3>1, <3>2, <3>3 DEF Ledger
  <2>3. CASE t # "tick"
    BY <2>1, <2>3, LedgerEnds DEF Pollers
  <2> QED BY <2>2, <2>3
<1>29. CASE UNCHANGED vars
  BY <1>29, LedgerAside DEF vars
<1> QED
  BY <1>1, <1>2, <1>3, <1>4, <1>5, <1>6, <1>7, <1>8, <1>9, <1>10, <1>11,
     <1>12, <1>13, <1>14, <1>15, <1>16, <1>17, <1>18, <1>19, <1>20,
     <1>21, <1>22, <1>23, <1>24, <1>25, <1>26, <1>27, <1>28, <1>29, PollFacts
  DEF Next, TickStep, PollStep, TrayStep, World

-----------------------------------------------------------------------------
LEMMA Invariance == Spec => []IInv
<1>1. IInv /\ [Next]_vars => IInv'
  BY TypeStep, BackedStep, LastTickStep, LeavingStep DEF IInv
<1> QED BY InvInit, <1>1, PTL DEF Spec

\* Every variable keeps its type, for any settings and any number of polls.
THEOREM TypeCorrect == Spec => []TypeOK
<1>1. IInv => TypeOK BY DEF IInv
<1> QED BY Invariance, <1>1, PTL

\* After a pause the tick in flight locks at most, and no later one; a Quit that
\* finds the tick idle or in its wait ends it without a lock.
THEOREM AlwaysObeyed == Spec => []Obeyed
<1>1. ASSUME LastTick PROVE lateLocks <= 1
  <2>1. lateLocks \in {0, 1}
    BY <1>1 DEF LastTick
  <2> QED BY ONLY <2>1
<1>2. IInv => ~(quitHolds /\ step = "lock") BY DEF IInv, Leaving
<1>3. IInv => Obeyed BY <1>1, <1>2 DEF IInv, Obeyed
<1> QED BY Invariance, <1>3, PTL

\* Every lock is earned by answers of the service.
THEOREM LocksAreEarned == Spec => LockEarned
<1>1. IInv /\ [Next]_vars =>
        [step = "decide" /\ step' = "lock" => evidence >= limit]_vars
  <2> SUFFICES ASSUME IInv, Next, step = "decide", step' = "lock"
               PROVE  evidence >= limit
    OBVIOUS
  <2>1. strikes >= limit
    BY DEF Next, TickStep, Wake, FindsLocked, FindsUnlocked, SeesInput,
           StartsPoll, PollStep, Ask, NoteDown, NoteClear, NoteLocked, Toast,
           Goes, Gate, Probe, Wait, Confirm, OnUncertain, AwardStrike, Decide,
           Lock, Throws, TrayStep, Pause, Resume, Save, ResetAndPoke, Callback,
           Quit, World, LockoutBegins, LockoutEnds, EverybodyLeaves, Go
  <2> QED BY <2>1 DEF IInv, Backed, TypeOK
<1> QED BY Invariance, <1>1, PTL DEF Spec, LockEarned

\* In a lockout episode the user is told once, and at most once more for each
\* poke that ran during it, however many polls race over the latch.
THEOREM ToastsAreBounded == Spec => []ToastPerEpisode
<1>1. Init => Ledger
  BY DEF Init, Ledger
<1>2. TypeOK /\ Ledger /\ [Next]_vars => Ledger'
  BY LedgerStep
<1>3. TypeOK /\ Ledger => ToastPerEpisode
  BY LedgerNumbers DEF Ledger, Within, ToastPerEpisode
<1> QED BY TypeCorrect, <1>1, <1>2, <1>3, PTL DEF Spec

-----------------------------------------------------------------------------
(* The probes of the machine, Surroundings.tla *)

\* The idle time is exact as long as it fits: wherever the counters are, and
\* however often they have wrapped.
THEOREM IdleTimeExact ==
  ASSUME NEW uptime \in Nat, NEW d \in Ticks
  PROVE  IdleMs(uptime % Wrap, (uptime - d) % Wrap) = d
<1> DEFINE q == uptime \div Wrap
           p == (uptime - d) \div Wrap
           now == uptime % Wrap
           last == (uptime - d) % Wrap
<1>1. Wrap \in Nat /\ Wrap > 0
  BY SurroundingsAssumption
<1>2. uptime = Wrap * q + now /\ now \in 0 .. Wrap - 1 /\ q \in Int
  BY <1>1
<1>3. uptime - d = Wrap * p + last /\ last \in 0 .. Wrap - 1 /\ p \in Int
  BY <1>1 DEF Ticks
<1> HIDE DEF q, p, now, last
<1>4. d \in Int /\ 0 <= d /\ d < Wrap
  BY <1>1 DEF Ticks
<1>5. now - last = d + Wrap * (p - q)
  BY <1>1, <1>2, <1>3, <1>4
<1>6. (now - last) % Wrap = d
  BY <1>1, <1>2, <1>3, <1>4, <1>5
<1> QED BY <1>6 DEF IdleMs, now, last

\* Once nobody is there, no probe says otherwise, whatever those that fail leave
\* open: no such tick is ended by a locked session, by input or by a remote
\* tool, or judged by the full screen's threshold.
THEOREM NobodyIsSeen ==
  \A probe \in {"locked", "remote", "input", "fullscreen"} :
    TRUE \notin Answers.away[probe]
<1>1. TRUE \notin Answers.away.locked
  BY DEF Answers, AwaySessions, Sessions, IsSessionLocked, HasOpinion, DesktopLocked
<1>2. TRUE \notin Answers.away.remote
  BY DEF Answers, AwayContexts, Contexts, IsRemoteContext, ActiveRemoteTool
<1>3. ASSUME NEW i \in AwayInputs PROVE LiveInput(i) # TRUE
  <2>1. PICK k \in BOOLEAN, t \in Ticks, d \in IdleLimit .. Wrap - 1 :
          i = [known |-> k, now |-> t, last |-> (t - d) % Wrap]
    BY DEF AwayInputs
  <2>2. d \in Ticks /\ t \in Nat /\ d \in Nat /\ d >= IdleLimit
    BY SurroundingsAssumption DEF Ticks
  <2>3. t % Wrap = t
    BY <2>2, SurroundingsAssumption DEF Ticks
  <2>4. IdleMs(t, (t - d) % Wrap) = d
    BY <2>2, <2>3, IdleTimeExact
  <2>5. i.now = t /\ i.last = (t - d) % Wrap
    BY <2>1
  <2>6. ~(IdleMs(i.now, i.last) < IdleLimit)
    BY <2>2, <2>4, <2>5, SurroundingsAssumption
  <2> QED BY <2>6, Zenon DEF LiveInput
<1>4. TRUE \notin Answers.away.input
  BY <1>3 DEF Answers
<1>5. TRUE \notin Answers.away.fullscreen
  BY DEF Answers, AwayScreens, FullscreenActive
<1> QED BY <1>1, <1>2, <1>4, <1>5
-----------------------------------------------------------------------------
(* The tray's process, Tray.tla *)

USE DEF windowVars, wizardVars, trayHistory, trayVars, theRest, outside

WindowType == [stage : Stages, n : 0..MaxOpened, polling : BOOLEAN]
WorkerType == [n : 1..MaxOpened, kind : Kinds, at : {"call", "ends"}]
PostType == [n : 1..MaxOpened, kind : Kinds]
AskType ==
  [stage : {"idle", "sleep", "asking", "dialog"},
   told : {"none", "available", "up to date", "no-release", "failed"}, of : PayloadType]

\* The windows, each of which has a number once it is there.
WindowTypes ==
  /\ win \in [Windows -> WindowType]
  /\ \A k \in Windows : win[k].stage # "none" => win[k].n >= 1
  /\ workers \subseteq WorkerType /\ posts \subseteq PostType
  /\ orphan \in BOOLEAN
WizardTypes ==
  wizard \in [Wizards -> WizardStages] /\ child \in Wizards \cup {NoWizard}
CheckTypes == check \in [Checks -> AskType]
MenuTypes ==
  /\ life \in {"off", "up"} /\ menu \in {"idle", "wizard", "service", "icon"}
  /\ starts \in 0..MaxStarts
  /\ ended \in {"no", "killed", "aborted", "quit"}
  /\ asked \in {"no", "heard", "unheard"} /\ stubborn \in BOOLEAN

\* What Quit has done is done: the wizard first, then the service.
Quitting ==
  /\ life = "up" => ended = "no"
  /\ menu # "idle" => life = "up"
  /\ menu \in {"service", "icon"} /\ Alive(child) => stubborn
  /\ menu = "icon" => asked # "no"
  /\ QuitLeavesNothing

TrayInv ==
  /\ WindowTypes /\ WizardTypes /\ CheckTypes /\ MenuTypes
  /\ PollsOwned /\ OneWizard /\ Quitting /\ OffersTrue

LEMMA TrayInvTypes == TrayInv => TrayTypeOK
  BY DEF TrayInv, WindowTypes, WizardTypes, CheckTypes, MenuTypes, TrayTypeOK, WindowType,
         WorkerType, PostType, AskType

LEMMA TrayInvInit == TrayInit => TrayInv
<1> SUFFICES ASSUME TrayInit PROVE TrayInv
  OBVIOUS
<1>1. NoWindow \in WindowType /\ NoWindow.stage = "none"
  BY TrayAssumption DEF NoWindow, WindowType, Stages
<1>2. WindowTypes /\ PollsOwned
  BY <1>1, TrayAssumption DEF TrayInit, WindowTypes, PollsOwned, Open
<1>3. Quiet \in AskType /\ Quiet.told = "none"
  BY DEF Quiet, AskType, Unasked, PayloadType
<1>4. CheckTypes /\ OffersTrue
  BY <1>3 DEF TrayInit, CheckTypes, OffersTrue
<1>5. WizardTypes /\ OneWizard
  BY DEF TrayInit, WizardTypes, OneWizard, WizardStages
<1>6. MenuTypes
  <2>1. starts \in 0..MaxStarts
    BY TrayAssumption DEF TrayInit
  <2> QED BY <2>1 DEF TrayInit, MenuTypes
<1>7. Quitting
  BY DEF TrayInit, Quitting, QuitLeavesNothing
<1> QED BY <1>2, <1>4, <1>5, <1>6, <1>7 DEF TrayInv

\* Which steps touch what.
LEMMA TrayFrames ==
  ASSUME [TrayNext]_trayVars
  PROVE  /\ \/ UNCHANGED windowVars
            \/ \E how \in {"killed", "aborted", "quit"} : Gone(how)
            \/ \E k \in Windows : Launch(k) \/ Opens(k) \/ BuildFails(k) \/ Close(k) \/ Collect(k)
            \/ RefreshLoop \/ \E b \in Buttons : AskService(b)
            \/ \E w \in workers : Answered(w) \/ WorkerEnds(w)
            \/ \E p \in posts : RunsPost(p)
         /\ \/ UNCHANGED <<wizard, child>>
            \/ TrayStarts
            \/ \E w \in Wizards : LaunchEnroll(w) \/ FirstInstance(w) \/ WizardEnds(w)
            \/ TerminateEnroll
         /\ \/ UNCHANGED check
            \/ TrayStarts
            \/ \E how \in {"killed", "aborted", "quit"} : Gone(how)
            \/ StartupWakes
            \/ \E c \in Checks : CheckUpdate(c) \/ UpdateFlow(c) \/ DialogEnds(c)
         /\ \/ UNCHANGED <<life, menu, starts, trayHistory>>
            \/ TrayStarts \/ TrayKilled \/ Finalized \/ QuitClicked \/ QuitStep
<1>1. CASE UNCHANGED trayVars
  BY <1>1
<1>2. CASE TrayNext
  <2>1. CASE TrayStarts
    BY <2>1 DEF TrayStarts
  <2>2. CASE TrayKilled \/ Finalized
    BY <2>2 DEF TrayKilled, Finalized, Gone
  <2>3. CASE \E k \in Windows : Launch(k) \/ WindowThread(k) \/ Close(k)
    BY <2>3 DEF Launch, WindowThread, Opens, BuildFails, Collect, Close
  <2>4. CASE RefreshLoop \/ \E b \in Buttons : AskService(b)
    BY <2>4 DEF RefreshLoop, AskService
  <2>5. CASE WorkerStep \/ \E p \in posts : RunsPost(p)
    BY <2>5 DEF WorkerStep, Answered, WorkerEnds, RunsPost
  <2>6. CASE \E w \in Wizards : LaunchEnroll(w) \/ FirstInstance(w) \/ WizardEnds(w)
    BY <2>6 DEF LaunchEnroll, FirstInstance, WizardEnds
  <2>7. CASE QuitClicked
    BY <2>7 DEF QuitClicked
  <2>8. CASE QuitStep
    <3>1. CASE TerminateEnroll \/ StopService
      BY <3>1 DEF TerminateEnroll, StopService, QuitStep
    <3>2. CASE IconStops
      BY <3>2 DEF IconStops, Gone, QuitStep
    <3> QED BY <2>8, <3>1, <3>2 DEF QuitStep
  <2>9. CASE \E c \in Checks : CheckUpdate(c) \/ UpdateStep(c) \/ DialogEnds(c)
    BY <2>9 DEF CheckUpdate, UpdateStep, UpdateFlow, StartupWakes, DialogEnds, Tells, Silent
  <2> QED BY <1>2, <2>1, <2>2, <2>3, <2>4, <2>5, <2>6, <2>7, <2>8, <2>9 DEF TrayNext, Checks
<1> QED BY <1>1, <1>2

\* Windows, their workers and their posts.
LEMMA WindowStep ==
  ASSUME WindowTypes, PollsOwned, [TrayNext]_trayVars
  PROVE  WindowTypes' /\ PollsOwned'
<1> USE TrayAssumption DEF WindowTypes, PollsOwned, Open, Worker
<1>0. /\ \A k \in Windows : win[k] \in WindowType
      /\ \A k \in Windows : win[k].n \in 0..MaxOpened /\ win[k].polling \in BOOLEAN
      /\ \A k \in Windows : win[k].stage \in Stages
  BY DEF WindowType
<1> MaxOpened \in Nat
  OBVIOUS
<1>1. CASE UNCHANGED windowVars
  BY <1>1
<1>2. ASSUME NEW how, Gone(how) PROVE WindowTypes' /\ PollsOwned'
  <2>1. NoWindow \in WindowType /\ NoWindow.stage = "none"
    BY DEF NoWindow, WindowType, Stages
  <2> QED BY <1>2, <2>1 DEF Gone
<1>3. ASSUME NEW k \in Windows, Launch(k) PROVE WindowTypes' /\ PollsOwned'
  <2>1. win[k].n + 1 \in 1..MaxOpened
    BY <1>0, <1>3 DEF Launch
  <2> DEFINE new == [NoWindow EXCEPT !.stage = "building", !.n = win[k].n + 1]
  <2>2. new \in WindowType /\ new.stage = "building" /\ new.n >= 1
    <3>1. win[k].n + 1 \in 0..MaxOpened /\ win[k].n + 1 >= 1
      BY ONLY <2>1, MaxOpened \in Nat
    <3>2. new \in WindowType
      BY ONLY <3>1 DEF NoWindow, WindowType, Stages
    <3>3. new.stage = "building" /\ new.n = win[k].n + 1
      BY ONLY DEF NoWindow
    <3> HIDE DEF new
    <3> QED BY ONLY <3>1, <3>2, <3>3
  <2>3. win' = [win EXCEPT ![k] = new] /\ workers' = workers /\ posts' = posts /\ orphan' = orphan
    BY <1>3 DEF Launch
  <2> HIDE DEF new
  <2>4. WindowTypes'
    BY <2>2, <2>3
  <2>5. k # statusWindow => win'[statusWindow] = win[statusWindow]
    BY <2>3
  <2>6. k = statusWindow => posts = {} /\ win'[statusWindow].stage = "building"
    BY <1>3, <2>2, <2>3 DEF Launch
  <2>7. PollsOwned'
    BY <2>3, <2>5, <2>6
  <2> QED BY <2>4, <2>7
<1>4. ASSUME NEW k \in Windows, Opens(k) PROVE WindowTypes' /\ PollsOwned'
  <2> DEFINE new == [win[k] EXCEPT !.stage = "open", !.polling = (k = statusWindow)]
  <2>1. /\ new \in WindowType /\ new.stage = "open" /\ new.n = win[k].n
        /\ new.polling = (k = statusWindow) /\ win[k].n \in 1..MaxOpened
    <3>1. win[k].n >= 1 /\ win[k].n \in 0..MaxOpened
      BY <1>0, <1>4 DEF Opens
    <3>2. win[k] \in WindowType
      BY <1>0
    <3>3. /\ new \in WindowType /\ new.stage = "open" /\ new.n = win[k].n
          /\ new.polling = (k = statusWindow)
      BY ONLY <3>2 DEF WindowType, Stages
    <3>4. win[k].n \in 1..MaxOpened
      BY ONLY <3>1, MaxOpened \in Nat
    <3> QED BY ONLY <3>3, <3>4
  <2>2. /\ win' = [win EXCEPT ![k] = new] /\ posts' = posts /\ orphan' = orphan
        /\ k # statusWindow => workers' = workers
        /\ k = statusWindow => workers' = workers \cup {Worker(win[k].n, "poll")}
    BY <1>4 DEF Opens
  <2> HIDE DEF new
  <2>3. Worker(win[k].n, "poll") \in WorkerType
    BY <2>1 DEF WorkerType, Kinds
  <2>4. WindowTypes'
    BY <2>1, <2>2, <2>3
  <2>5. k # statusWindow => win'[statusWindow] = win[statusWindow]
    BY <2>2
  <2>6. k = statusWindow => posts = {} /\ win'[statusWindow] = new
    BY <1>4, <2>2 DEF Opens
  <2>7. PollsOwned'
    BY <2>1, <2>2, <2>5, <2>6
  <2> QED BY <2>4, <2>7
<1>5. ASSUME NEW k \in Windows, BuildFails(k) \/ Collect(k) PROVE WindowTypes' /\ PollsOwned'
  <2>1. PICK stage \in {"collect", "none"} : win' = [win EXCEPT ![k].stage = stage]
    BY <1>5 DEF BuildFails, Collect
  <2>2. workers' = workers /\ posts' = posts /\ orphan' = orphan /\ win[k].stage \notin {"none", "open"}
    BY <1>5 DEF BuildFails, Collect
  <2> DEFINE new == [win[k] EXCEPT !.stage = stage]
  <2>3. new \in WindowType /\ new.stage = stage /\ new.n = win[k].n
    BY <1>0, <2>1 DEF WindowType, Stages
  <2>4. win' = [win EXCEPT ![k] = new]
    BY <2>1
  <2> HIDE DEF new
  <2>5. WindowTypes'
    BY <2>2, <2>3, <2>4
  <2>6. k # statusWindow => win'[statusWindow] = win[statusWindow]
    BY <2>4
  <2>7. k = statusWindow => posts = {} /\ win'[statusWindow].stage # "open"
    BY <2>1, <2>2, <2>3, <2>4
  <2>8. PollsOwned'
    BY <2>2, <2>6, <2>7
  <2> QED BY <2>5, <2>8
<1>6. ASSUME NEW k \in Windows, Close(k) PROVE WindowTypes' /\ PollsOwned'
  <2> DEFINE new == [win[k] EXCEPT !.stage = "collect", !.polling = FALSE]
  <2>1. new \in WindowType /\ new.stage = "collect" /\ new.n = win[k].n
    BY <1>0 DEF WindowType, Stages
  <2>2. /\ win' = [win EXCEPT ![k] = new] /\ workers' = workers /\ orphan' = orphan
        /\ k = statusWindow => posts' = {}
        /\ k # statusWindow => posts' = posts
        /\ win[k].stage = "open"
    BY <1>6 DEF Close
  <2> HIDE DEF new
  <2>3. WindowTypes'
    BY <2>1, <2>2
  <2>4. k # statusWindow => win'[statusWindow] = win[statusWindow]
    BY <2>2
  <2>5. k = statusWindow => win'[statusWindow].stage # "open"
    BY <2>1, <2>2
  <2>6. PollsOwned'
    BY <2>2, <2>4, <2>5
  <2> QED BY <2>3, <2>6
<1>7. CASE RefreshLoop
  <2> DEFINE new == [win[statusWindow] EXCEPT !.polling = TRUE]
             n == win[statusWindow].n
  <2>1. /\ new \in WindowType /\ new.stage = "open" /\ new.n = n /\ new.polling = TRUE
        /\ n \in 1..MaxOpened
    <3>1. n >= 1 /\ n \in 0..MaxOpened /\ win[statusWindow].stage = "open"
      BY <1>0, <1>7 DEF RefreshLoop
    <3>2. win[statusWindow] \in WindowType
      BY <1>0
    <3>3. new \in WindowType /\ new.stage = win[statusWindow].stage /\ new.n = n /\ new.polling = TRUE
      BY ONLY <3>2 DEF WindowType
    <3>4. n \in 1..MaxOpened
      BY ONLY <3>1, MaxOpened \in Nat
    <3> QED BY ONLY <3>1, <3>3, <3>4
  <2>2. /\ win' = [win EXCEPT ![statusWindow] = new] /\ posts' = posts /\ orphan' = orphan
        /\ workers' = workers \cup {Worker(n, "poll")}
        /\ win[statusWindow].stage = "open" /\ ~win[statusWindow].polling
    BY <1>7 DEF RefreshLoop
  <2>3. Worker(n, "poll") \in WorkerType
    BY <2>1 DEF WorkerType, Kinds
  <2> HIDE DEF new
  <2>4. WindowTypes'
    BY <2>1, <2>2, <2>3
  <2>5. [n |-> n, kind |-> "poll"] \notin posts
    BY <2>2
  <2>6. win'[statusWindow] = new
    BY <2>2
  <2>7. PollsOwned'
    BY <2>1, <2>2, <2>5, <2>6
  <2> QED BY <2>4, <2>7
<1>8. ASSUME NEW b \in Buttons, AskService(b) PROVE WindowTypes' /\ PollsOwned'
  <2> DEFINE asking == Worker(win[statusWindow].n, b)
  <2>1. win' = win /\ posts' = posts /\ orphan' = orphan /\ workers' = workers \cup {asking}
    BY <1>8 DEF AskService
  <2>2. win[statusWindow].n \in 1..MaxOpened
    BY <1>0, <1>8 DEF AskService
  <2>3. asking \in WorkerType /\ asking.kind # "poll"
    BY <2>2 DEF WorkerType, Kinds
  <2> HIDE DEF asking
  <2>4. Worker(win[statusWindow].n, "poll") \in workers' <=> Worker(win[statusWindow].n, "poll") \in workers
    BY <2>1, <2>3
  <2> QED BY <2>1, <2>3, <2>4
<1>9. ASSUME NEW w \in workers, Answered(w) PROVE WindowTypes' /\ PollsOwned'
  <2> DEFINE done == [w EXCEPT !.at = "ends"]
             post == [n |-> w.n, kind |-> w.kind]
             n == win[statusWindow].n
             shown == win[statusWindow].stage = "open" /\ n = w.n
  <2>1. /\ w \in WorkerType /\ w = Worker(w.n, w.kind)
        /\ done \in WorkerType /\ done.at = "ends" /\ post \in PostType
    BY <1>9 DEF Answered, WorkerType, PostType
  <2>2. /\ win' = win /\ orphan' = orphan /\ workers' = (workers \ {w}) \cup {done}
        /\ shown => posts' = posts \cup {post}
        /\ ~shown => posts' = posts
    BY <1>9 DEF Answered
  <2>3. WindowTypes'
    BY <2>1, <2>2
  <2>4. \A p \in posts' : Open(statusWindow)' /\ p.n = win[statusWindow].n
    BY <2>2
  <2>5. \A v : v.at = "call" => (v \in workers' <=> v \in workers /\ v # w)
    BY <2>1, <2>2
  <2>6. Worker(n, "poll") \in workers' <=> Worker(n, "poll") \in workers /\ ~(w.n = n /\ w.kind = "poll")
    BY <2>1, <2>5
  <2>7. ASSUME win[statusWindow].stage = "open"
        PROVE  [n |-> n, kind |-> "poll"] \in posts' <=>
                 ([n |-> n, kind |-> "poll"] \in posts \/ (w.n = n /\ w.kind = "poll"))
    BY <2>2, <2>7
  <2>8. w.n = n /\ w.kind = "poll" => Worker(n, "poll") \in workers
    BY <2>1
  <2> HIDE DEF done, post, n, shown
  <2>9. PollsOwned'
    BY <2>2, <2>4, <2>6, <2>7, <2>8 DEF n
  <2> QED BY <2>3, <2>9
<1>10. ASSUME NEW w \in workers, WorkerEnds(w) PROVE WindowTypes' /\ PollsOwned'
  <2>1. /\ win' = win /\ posts' = posts /\ workers' = workers \ {w} /\ w.at = "ends"
        /\ orphan' \in BOOLEAN
    BY <1>10 DEF WorkerEnds
  <2>2. Worker(win[statusWindow].n, "poll") \in workers' <=> Worker(win[statusWindow].n, "poll") \in workers
    BY <2>1
  <2> QED BY <2>1, <2>2
<1>11. ASSUME NEW p \in posts, RunsPost(p) PROVE WindowTypes' /\ PollsOwned'
  <2> DEFINE n == win[statusWindow].n
  <2>1. /\ p \in PostType /\ p = [n |-> p.n, kind |-> p.kind] /\ p.n = n
        /\ win[statusWindow].stage = "open"
    BY <1>11 DEF PostType
  <2>2. posts' = posts \ {p} /\ workers' = workers /\ orphan' = orphan
    BY <1>11 DEF RunsPost
  <2>3. CASE p.kind # "poll"
    <3>1. win' = win /\ [n |-> n, kind |-> "poll"] # p
      BY <1>11, <2>3 DEF RunsPost
    <3> QED BY <2>1, <2>2, <3>1
  <2>4. CASE p.kind = "poll"
    <3> DEFINE new == [win[statusWindow] EXCEPT !.polling = FALSE]
    <3>1. new \in WindowType /\ new.stage = "open" /\ new.n = n /\ new.polling = FALSE
      BY <1>0, <2>1 DEF WindowType
    <3>2. win' = [win EXCEPT ![statusWindow] = new]
      BY <1>11, <2>4 DEF RunsPost
    <3> HIDE DEF new
    <3>3. WindowTypes'
      BY <2>1, <2>2, <3>1, <3>2
    <3>4. p = [n |-> n, kind |-> "poll"] /\ win'[statusWindow] = new
      BY <2>1, <2>4, <3>2
    <3>5. PollsOwned'
      BY <2>1, <2>2, <3>1, <3>4
    <3> QED BY <3>3, <3>5
  <2> QED BY <2>3, <2>4
<1> QED
  BY ONLY <1>1, <1>2, <1>3, <1>4, <1>5, <1>6, <1>7, <1>8, <1>9, <1>10, <1>11, TrayFrames,
     [TrayNext]_trayVars

\* Wizards, and the menu's thread.
LEMMA WizardStep ==
  ASSUME WizardTypes, MenuTypes, OneWizard, Quitting, [TrayNext]_trayVars
  PROVE  WizardTypes' /\ OneWizard'
<1> USE TrayAssumption DEF WizardTypes, OneWizard, WizardStages
<1>1. CASE UNCHANGED <<wizard, child>> \/ TrayStarts
  BY <1>1 DEF TrayStarts
<1>2. ASSUME NEW w \in Wizards, LaunchEnroll(w) \/ FirstInstance(w) \/ WizardEnds(w)
      PROVE  WizardTypes' /\ OneWizard'
  BY <1>2 DEF LaunchEnroll, FirstInstance, WizardEnds
<1>3. CASE TerminateEnroll
  BY <1>3 DEF TerminateEnroll, Alive
<1> QED BY ONLY <1>1, <1>2, <1>3, TrayFrames, [TrayNext]_trayVars

LEMMA MenuStep ==
  ASSUME MenuTypes, WizardTypes, Quitting, [TrayNext]_trayVars
  PROVE  MenuTypes' /\ Quitting'
<1> USE TrayAssumption DEF MenuTypes, Quitting, QuitLeavesNothing
<1>1. CASE TrayStarts
  <2>1. /\ life' = "up" /\ starts' \in 0..MaxStarts /\ menu' = "idle"
        /\ ended' = "no" /\ asked' = "no" /\ stubborn' = FALSE
    BY <1>1 DEF TrayStarts
  <2> QED BY <2>1
<1>2. ASSUME NEW how \in {"killed", "aborted"}, Gone(how) PROVE MenuTypes' /\ Quitting'
  BY <1>2 DEF Gone
<1>3. CASE QuitClicked
  BY <1>3 DEF QuitClicked, Free, Alive
<1>4. CASE TerminateEnroll
  BY <1>4 DEF TerminateEnroll, Alive, WizardTypes
<1>5. CASE StopService
  BY <1>5 DEF StopService, Alive
<1>6. CASE IconStops
  BY <1>6 DEF IconStops, Gone, Alive
<1>7. CASE /\ UNCHANGED <<life, menu, starts, trayHistory>>
           /\ UNCHANGED <<wizard, child>>
  BY <1>7 DEF Alive
<1>8. CASE /\ UNCHANGED <<life, menu, starts, trayHistory>>
           /\ \E w \in Wizards : LaunchEnroll(w) \/ FirstInstance(w) \/ WizardEnds(w)
  <2>1. PICK w \in Wizards : LaunchEnroll(w) \/ FirstInstance(w) \/ WizardEnds(w)
    BY <1>8
  <2>2. CASE LaunchEnroll(w)
    BY <1>8, <2>2 DEF LaunchEnroll, Free
  <2>3. CASE FirstInstance(w) \/ WizardEnds(w)
    <3>1. child' = child /\ (Alive(child)' => Alive(child))
      BY <2>3 DEF FirstInstance, WizardEnds, Alive, WizardTypes
    <3> QED BY <1>8, <3>1
  <2> QED BY <2>1, <2>2, <2>3
<1>9. TrayKilled \/ Finalized => \E how \in {"killed", "aborted"} : Gone(how)
  BY DEF TrayKilled, Finalized
<1>10. UNCHANGED <<life, menu, starts, trayHistory>> /\ TerminateEnroll => FALSE
  BY DEF TerminateEnroll
<1>11. UNCHANGED <<life, menu, starts, trayHistory>> /\ TrayStarts => FALSE
  BY DEF TrayStarts
<1> QED
  BY ONLY <1>1, <1>2, <1>3, <1>4, <1>5, <1>6, <1>7, <1>8, <1>9, <1>10, <1>11, TrayFrames,
     [TrayNext]_trayVars DEF QuitStep

\* What the threads of the update flow have told.
LEMMA OfferStep ==
  ASSUME CheckTypes, OffersTrue, [TrayNext]_trayVars
  PROVE  CheckTypes' /\ OffersTrue'
<1> DEFINE Fair(c, a) == /\ a \in AskType
                         /\ a.told = "available" => Released(a.of) /\ Newer(a.of)
                         /\ a.told = "up to date" => Released(a.of) /\ ~Newer(a.of)
                         /\ c = startup => a.told \in {"none", "available"}
<1>1. CheckTypes /\ OffersTrue <=>
        check \in [Checks -> AskType] /\ \A c \in Checks : Fair(c, check[c])
  BY DEF CheckTypes, OffersTrue
<1>2. (CheckTypes /\ OffersTrue)' <=>
        check' \in [Checks -> AskType] /\ \A c \in Checks : Fair(c, check'[c])
  BY DEF CheckTypes, OffersTrue, Released, Newer
<1>3. /\ Quiet \in AskType /\ Quiet.told = "none"
      /\ \A stage \in {"sleep", "asking"} :
           [Quiet EXCEPT !.stage = stage] \in AskType /\ [Quiet EXCEPT !.stage = stage].told = "none"
  BY DEF Quiet, AskType, Unasked, PayloadType
<1>4. \A c : Fair(c, Quiet) /\ \A stage \in {"sleep", "asking"} : Fair(c, [Quiet EXCEPT !.stage = stage])
  BY <1>3
<1>5. ASSUME NEW c \in Checks, NEW a, Fair(c, a), check' = [check EXCEPT ![c] = a]
      PROVE  (CheckTypes /\ OffersTrue)'
  BY <1>1, <1>2, <1>5
<1>6. CASE UNCHANGED check
  BY <1>1, <1>2, <1>6
<1>7. CASE TrayStarts
  BY <1>2, <1>4, <1>7 DEF TrayStarts
<1>8. ASSUME NEW how, Gone(how) PROVE (CheckTypes /\ OffersTrue)'
  BY <1>2, <1>4, <1>8 DEF Gone
<1>9. CASE StartupWakes
  <2>1. check' = [check EXCEPT ![startup] = [check[startup] EXCEPT !.stage = "asking"]]
    BY <1>9 DEF StartupWakes
  <2>2. startup \in Checks
    BY DEF Checks
  <2>3. Fair(startup, [check[startup] EXCEPT !.stage = "asking"])
    BY <1>1, <2>2 DEF AskType
  <2> QED BY <1>5, <2>1, <2>2, <2>3
<1>10. ASSUME NEW c \in Checks, CheckUpdate(c) PROVE (CheckTypes /\ OffersTrue)'
  BY <1>4, <1>5, <1>10 DEF CheckUpdate
<1>11. ASSUME NEW c \in Checks, UpdateFlow(c) PROVE (CheckTypes /\ OffersTrue)'
  <2>1. PICK p \in Payloads :
          IF Released(p) /\ Newer(p) THEN Tells(c, "dialog", "available", p)
          ELSE IF c = startup THEN Silent(c)
          ELSE Tells(c, "idle", IF Released(p) THEN "up to date" ELSE Status(p), p)
    BY <1>11 DEF UpdateFlow
  <2>2. p \in PayloadType /\ Status(p) \in {"no-release", "failed"}
    BY TrayAssumption DEF Status
  <2>3. CASE Released(p) /\ Newer(p)
    <3>1. Fair(c, [stage |-> "dialog", told |-> "available", of |-> p])
      BY <2>2, <2>3 DEF AskType
    <3> QED BY <1>5, <2>1, <2>3, <3>1 DEF Tells
  <2>4. CASE ~(Released(p) /\ Newer(p)) /\ c = startup
    BY <1>4, <1>5, <2>1, <2>4 DEF Silent
  <2>5. CASE ~(Released(p) /\ Newer(p)) /\ c # startup
    <3> DEFINE word == IF Released(p) THEN "up to date" ELSE Status(p)
    <3>1. /\ word \in {"up to date", "no-release", "failed"}
          /\ word = "up to date" => Released(p)
      BY <2>2
    <3>2. check' = [check EXCEPT ![c] = [stage |-> "idle", told |-> word, of |-> p]]
      BY <2>1, <2>5 DEF Tells
    <3> HIDE DEF word
    <3>3. Fair(c, [stage |-> "idle", told |-> word, of |-> p])
      BY <2>2, <2>5, <3>1 DEF AskType
    <3> HIDE DEF Fair
    <3> QED BY <1>5, <3>2, <3>3
  <2> QED BY <2>3, <2>4, <2>5
<1>12. ASSUME NEW c \in Checks, DialogEnds(c) PROVE (CheckTypes /\ OffersTrue)'
  <2>1. check' = [check EXCEPT ![c] = [check[c] EXCEPT !.stage = "idle"]]
    BY <1>12 DEF DialogEnds
  <2>2. Fair(c, [check[c] EXCEPT !.stage = "idle"])
    BY <1>1 DEF AskType
  <2> QED BY <1>5, <2>1, <2>2
<1> QED
  BY ONLY <1>6, <1>7, <1>8, <1>9, <1>10, <1>11, <1>12, TrayFrames, [TrayNext]_trayVars

LEMMA TrayInvariance == TraySpec => []TrayInv
<1>1. TrayInv /\ [TrayNext]_trayVars => TrayInv'
  BY WindowStep, WizardStep, MenuStep, OfferStep DEF TrayInv
<1> QED BY TrayInvInit, <1>1, PTL DEF TraySpec

\* The state of the tray's process is well typed.
THEOREM TrayTyped == TraySpec => []TrayTypeOK
  BY TrayInvariance, TrayInvTypes, PTL

\* However many windows, wizards and checks there are: one status poll at a time
\* and no result for a window that is gone, one wizard with the mutex, a Quit
\* that ends only when its call to the service was heard or given up and left no
\* wizard of its own alive that could be terminated, and no version offered or denied wrongly.
THEOREM TrayStaysOrderly == TraySpec => []TrayOrderly
<1>1. TrayInv => TrayOrderly
  BY DEF TrayInv, TrayOrderly, Quitting
<1> QED BY TrayInvariance, <1>1, PTL
=============================================================================
