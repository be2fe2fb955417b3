------------------------------- MODULE Presence -------------------------------
(***************************************************************************)
(* presence_monitor/monitor.py: the tick that may lock the workstation,    *)
(* with the tray's threads (pause, resume, save, quit) and the event polls *)
(* they start running between any two of its calls.                        *)
(***************************************************************************)
EXTENDS Surroundings, FiniteSets

CONSTANTS
  Pokers,     \* event-poll threads that may run at once
  Configs,    \* the settings a save can bring
  MaxStrikes, \* bound: no count of an episode is followed beyond this
  MaxToasts,  \* bound: toasts and pokes of an episode counted
  MaxTray     \* bound: pauses, saves and quits

ASSUME PresenceAssumption ==
  /\ IsFiniteSet(Pokers) /\ "tick" \notin Pokers /\ MaxStrikes \in Nat
  /\ MaxToasts \in Nat /\ MaxTray \in Nat
  /\ Configs \subseteq [limit : Nat \ {0}, fs : Nat, streak : Nat \ {0},
                        auto : BOOLEAN, confirm : BOOLEAN, input : BOOLEAN]
  /\ \A c \in Configs : /\ c.limit <= MaxStrikes /\ c.fs <= MaxStrikes
                        /\ c.streak <= MaxStrikes

VARIABLES
  step,      \* where _tick is
  strikes, uncertain, wasLocked,
  limit,     \* the threshold _award_strike took
  cfg, paused, stop,
  tray,      \* idle, or between two statements of resume, Save's handler
  poll,      \* per thread, where _check_service_events is
  reach,     \* _svc_reachable
  notified,  \* _lockout_notified
  lockout,   \* the service reports a lockout
  scene,     \* anything may happen, or from now on nobody is there
  budget,    \* what MaxTray has left
  evidence,  \* history: ticks since the last sign of presence whose last answer
             \* came from the service and was not "present"
  toasts,    \* history: lockout toasts in this episode
  racers,    \* history: pokes that ran during this episode
  lateLocks, \* history: locks since the pause
  quitHolds  \* history: Quit came between two ticks or in mid-wait

counters == <<strikes, uncertain, evidence>>
tick == <<step, wasLocked, limit>>
user == <<cfg, paused, stop, tray, budget, quitHolds>>
events == <<poll, reach, notified, toasts, racers>>
vars == <<counters, tick, user, events, lockout, scene, lateLocks>>

Pollers == Pokers \union {"tick"}
Steps == {"sleep", "begin", "input", "poll", "gate", "gate down", "probe",
          "wait", "confirm", "doubt", "award", "decide", "lock", "ended"}
PollSteps == {"no", "ask", "down", "clear", "locked", "toast"}

Upto(n, max) == IF n > max THEN max ELSE n
Capped(n) == Upto(n, MaxStrikes)
Away == scene = "away"

\* May a probe of the machine answer so, as the scene is?
May(answer, probe) == answer \in Answers[scene][probe]

\* What happens during a lockout episode is counted for it.
Counted(n) == IF lockout THEN Upto(n + 1, MaxToasts) ELSE n

Init ==
  /\ step = "sleep" /\ strikes = 0 /\ uncertain = 0 /\ wasLocked = FALSE
  /\ limit = 0 /\ cfg \in Configs /\ paused = FALSE /\ stop = FALSE
  /\ tray = "idle" /\ poll = [t \in Pollers |-> "no"]
  /\ reach = "unknown" /\ notified = FALSE
  /\ lockout = FALSE /\ scene = "any" /\ budget = MaxTray
  /\ evidence = 0 /\ toasts = 0 /\ racers = 0 /\ lateLocks = 0
  /\ quitHolds = FALSE

\* _reset_strikes, on a sign that the user is there.
ResetStrikes == strikes' = 0 /\ uncertain' = 0 /\ evidence' = 0

Go(s) == step' = s /\ UNCHANGED <<wasLocked, limit>>
Unseen == evidence' = Capped(evidence + 1)

-----------------------------------------------------------------------------
(* The event poll, on the tick's thread or on one of its own.              *)

\* The status request; the tick asks only as its poll begins.
Ask(t) ==
  /\ poll[t] = "ask"
  /\ \E reply \in {"down", IF lockout THEN "locked" ELSE "clear"} :
       /\ Away => reply # "down"
       /\ poll' = [poll EXCEPT ![t] = reply]
  /\ UNCHANGED <<counters, tick, user, reach, notified, toasts, racers, lockout,
                 scene, lateLocks>>

Done(t) == [poll EXCEPT ![t] = "no"]

\* The tick goes on with what its own poll found.
Goes(t, found) ==
  IF t = "tick" THEN step' = found ELSE UNCHANGED step

\* No reply: no lockout to speak of.
NoteDown(t) ==
  /\ poll[t] = "down" /\ poll' = Done(t)
  /\ reach' = "down" /\ Goes(t, "gate down")
  /\ UNCHANGED <<counters, wasLocked, limit, user, notified, toasts, racers,
                 lockout, scene, lateLocks>>

NoteClear(t) ==
  /\ poll[t] = "clear" /\ poll' = Done(t)
  /\ reach' = "up" /\ notified' = FALSE /\ Goes(t, "gate")
  /\ UNCHANGED <<counters, wasLocked, limit, user, toasts, racers, lockout,
                 scene, lateLocks>>

\* A toast only once, and never while the session is locked, when the latch
\* stays clear for the next poll.
NoteLocked(t) ==
  /\ poll[t] = "locked" /\ reach' = "up"
  /\ \/ /\ ~notified /\ May(FALSE, "locked") /\ poll' = [poll EXCEPT ![t] = "toast"] /\ UNCHANGED step
     \/ /\ poll' = Done(t) /\ Goes(t, "gate")
  /\ UNCHANGED <<counters, wasLocked, limit, user, notified, toasts, racers,
                 lockout, scene, lateLocks>>

\* Mutant: the latch is forgotten.
ToastUnlatched(t) ==
  /\ poll[t] = "toast" /\ poll' = Done(t)
  /\ toasts' = Counted(toasts) /\ Goes(t, "gate")
  /\ UNCHANGED <<counters, wasLocked, limit, user, reach, notified, racers,
                 lockout, scene, lateLocks>>

Toast(t) ==
  /\ poll[t] = "toast" /\ poll' = Done(t)
  /\ toasts' = Counted(toasts) /\ notified' = TRUE /\ Goes(t, "gate")
  /\ UNCHANGED <<counters, wasLocked, limit, user, reach, racers, lockout,
                 scene, lateLocks>>

PollStep(t) == Ask(t) \/ NoteDown(t) \/ NoteClear(t) \/ NoteLocked(t) \/ Toast(t)

-----------------------------------------------------------------------------
(* The tick.                                                               *)

rest == <<user, events, lockout, scene, lateLocks>>

\* run(): an interval has passed, or Quit ended it early.
Wake ==
  /\ step = "sleep" /\ Go(IF stop THEN "ended" ELSE "begin")
  /\ UNCHANGED <<counters, rest>>

\* On the lock screen there is nothing to guard.
FindsLocked ==
  /\ step = "begin" /\ May(TRUE, "locked")
  /\ step' = "sleep" /\ wasLocked' = TRUE /\ UNCHANGED limit
  /\ ResetStrikes
  /\ UNCHANGED rest

FindsUnlocked ==
  /\ step = "begin" /\ May(FALSE, "locked")
  /\ step' = "input" /\ wasLocked' = FALSE /\ UNCHANGED limit
  /\ IF wasLocked THEN ResetStrikes ELSE UNCHANGED counters
  /\ UNCHANGED rest

\* Live input is presence.
SeesInput ==
  /\ step = "input" /\ cfg.input /\ May(TRUE, "input")
  /\ Go("sleep") /\ ResetStrikes /\ UNCHANGED rest

StartsPoll ==
  /\ step = "input" /\ (cfg.input => May(FALSE, "input"))
  /\ Go("poll") /\ poll' = [poll EXCEPT !["tick"] = "ask"]
  /\ UNCHANGED <<counters, user, reach, notified, toasts, racers, lockout,
                 scene, lateLocks>>

\* Mutant: the pause only silences the icon.
GateUnpaused ==
  /\ step \in {"gate", "gate down"}
  /\ Go(IF step = "gate" THEN "probe" ELSE "sleep") /\ UNCHANGED counters
  /\ UNCHANGED rest

\* Paused, remote or without a service: no probe, and no strike.
Gate ==
  /\ step \in {"gate", "gate down"}
  /\ \/ paused /\ Go("sleep") /\ UNCHANGED counters
     \/ ~paused /\ May(TRUE, "remote") /\ Go("sleep") /\ ResetStrikes
     \/ /\ ~paused /\ May(FALSE, "remote") /\ UNCHANGED counters
        /\ Go(IF step = "gate" THEN "probe" ELSE "sleep")
  /\ UNCHANGED rest

\* An answer of the service that decides the tick at once.
Answer ==
  \/ ~Away /\ Go("sleep") /\ ResetStrikes
  \/ Go("doubt") /\ Unseen /\ UNCHANGED <<strikes, uncertain>>

\* Mutant: a refusal has no "state" and reads as absent.
NoAnswerCounts(then) == ~Away /\ Go(then) /\ UNCHANGED counters

\* A refusal or no reply at all is not evidence.
NoAnswer(then) == ~Away /\ Go("sleep") /\ UNCHANGED counters

Probe ==
  /\ step = "probe"
  /\ \/ Answer
     \/ NoAnswer(IF cfg.confirm THEN "wait" ELSE "award")
     \/ cfg.confirm /\ Go("wait") /\ UNCHANGED counters
     \/ ~cfg.confirm /\ Go("award") /\ Unseen /\ UNCHANGED <<strikes, uncertain>>
  /\ UNCHANGED rest

Wait ==
  /\ step = "wait" /\ Go(IF stop THEN "sleep" ELSE "confirm")
  /\ UNCHANGED <<counters, rest>>

Confirm ==
  /\ step = "confirm"
  /\ \/ Answer
     \/ NoAnswer("award")
     \/ Go("award") /\ Unseen /\ UNCHANGED <<strikes, uncertain>>
  /\ UNCHANGED rest

\* The run is not cleared when it converts.
OnUncertain ==
  /\ step = "doubt"
  /\ Go(IF uncertain + 1 < cfg.streak THEN "sleep" ELSE "award")
  /\ uncertain' = Capped(uncertain + 1)
  /\ UNCHANGED <<strikes, evidence, rest>>

\* _award_strike up to its second look at the count, which the tray may reset.
AwardStrike ==
  /\ step = "award" /\ step' = "decide" /\ UNCHANGED wasLocked
  /\ strikes' = Capped(strikes + 1)
  /\ \E fullscreen \in Answers[scene].fullscreen :
       limit' = IF fullscreen THEN cfg.fs ELSE cfg.limit
  /\ UNCHANGED <<uncertain, evidence, rest>>

Decide ==
  /\ step = "decide" /\ limit' = 0 /\ UNCHANGED wasLocked
  /\ IF limit > 0 /\ strikes >= limit
     THEN step' = (IF cfg.auto THEN "lock" ELSE "sleep") /\ ResetStrikes
     ELSE step' = "sleep" /\ UNCHANGED counters
  /\ UNCHANGED rest

Lock ==
  /\ step = "lock" /\ Go("sleep")
  /\ lateLocks' = IF paused THEN Upto(lateLocks + 1, 2) ELSE 0
  /\ UNCHANGED <<counters, user, events, lockout, scene>>

\* An exception ends the tick where it is.
Throws ==
  /\ step \notin {"sleep", "ended"} /\ ~Away
  /\ step' = "sleep" /\ limit' = 0 /\ UNCHANGED wasLocked
  /\ poll' = Done("tick")
  /\ UNCHANGED <<counters, user, reach, notified, toasts, racers, lockout,
                 scene, lateLocks>>

-----------------------------------------------------------------------------
(* The tray, and the world.                                                *)

Spend == budget > 0 /\ budget' = budget - 1
world == <<tick, reach, notified, toasts, lockout, scene>>

\* The reset of resume and reload_config.  The answer of a tick in flight is
\* not taken back: its strike opens the new episode.
TrayReset ==
  /\ strikes' = 0 /\ uncertain' = 0
  /\ evidence' = IF step \in {"doubt", "award"} THEN Capped(1) ELSE 0

Poke ==
  \E t \in Pokers : /\ poll[t] = "no" /\ poll' = [poll EXCEPT ![t] = "ask"]
                    /\ racers' = Counted(racers)

Pause ==
  /\ tray = "idle" /\ ~paused /\ Spend
  /\ paused' = TRUE /\ lateLocks' = 0
  /\ UNCHANGED <<counters, cfg, stop, tray, quitHolds, poll, racers, world>>

Resume ==
  /\ tray = "idle" /\ paused
  /\ paused' = FALSE /\ tray' = "resumed" /\ lateLocks' = 0
  /\ UNCHANGED <<counters, cfg, stop, budget, quitHolds, poll, racers, world>>

\* Save brings its settings in, and again in its callback after the poke.
Save ==
  /\ tray = "idle" /\ Spend
  /\ cfg' \in Configs /\ tray' = "saved"
  /\ UNCHANGED <<counters, paused, stop, quitHolds, poll, racers, world, lateLocks>>

ResetAndPoke ==
  /\ tray \in {"resumed", "saved"}
  /\ TrayReset /\ Poke
  /\ tray' = IF tray = "saved" THEN "callback" ELSE "idle"
  /\ UNCHANGED <<cfg, paused, stop, budget, quitHolds, world, lateLocks>>

Callback ==
  /\ tray = "callback" /\ TrayReset /\ tray' = "idle"
  /\ UNCHANGED <<cfg, paused, stop, budget, quitHolds, poll, racers, world,
                 lateLocks>>

Quit ==
  /\ tray = "idle" /\ ~stop /\ Spend
  /\ stop' = TRUE /\ quitHolds' = (step \in {"sleep", "wait"})
  /\ UNCHANGED <<counters, cfg, paused, tray, poll, racers, world, lateLocks>>

\* Pokes already running count for the episode they meet.
LockoutBegins ==
  /\ ~lockout /\ lockout' = TRUE
  /\ racers' = Upto(Cardinality({t \in Pokers : poll[t] # "no"}), MaxToasts)
  /\ UNCHANGED <<counters, tick, user, poll, reach, notified, toasts, scene,
                 lateLocks>>

LockoutEnds ==
  /\ lockout /\ lockout' = FALSE /\ toasts' = 0 /\ racers' = 0
  /\ UNCHANGED <<counters, tick, user, poll, reach, notified, scene, lateLocks>>

\* From now on nobody is there, and the service answers.
EverybodyLeaves ==
  /\ scene = "any" /\ scene' = "away"
  /\ UNCHANGED <<counters, tick, user, events, lockout, lateLocks>>

-----------------------------------------------------------------------------
TickStep ==
  \/ Wake \/ FindsLocked \/ FindsUnlocked \/ SeesInput \/ StartsPoll
  \/ PollStep("tick") \/ Gate \/ Probe \/ Wait \/ Confirm \/ OnUncertain
  \/ AwardStrike \/ Decide \/ Lock

TrayStep == Resume \/ ResetAndPoke \/ Callback

World == LockoutBegins \/ LockoutEnds \/ EverybodyLeaves

Next ==
  \/ TickStep \/ Throws \/ \E t \in Pokers : PollStep(t)
  \/ TrayStep \/ Pause \/ Save \/ Quit
  \/ World

Spec == Init /\ [][Next]_vars

\* Every call of the tick and of a poll has a timeout; the tray's handlers end.
FairSpec ==
  /\ Spec
  /\ WF_vars(TickStep) /\ WF_vars(ResetAndPoke) /\ WF_vars(Callback)
  /\ \A t \in Pokers : WF_vars(PollStep(t))

-----------------------------------------------------------------------------
\* The type of every variable.
TypeOK ==
  /\ step \in Steps /\ wasLocked \in BOOLEAN
  /\ strikes \in 0 .. MaxStrikes /\ uncertain \in 0 .. MaxStrikes
  /\ limit \in 0 .. MaxStrikes /\ cfg \in Configs
  /\ paused \in BOOLEAN /\ stop \in BOOLEAN
  /\ tray \in {"idle", "resumed", "saved", "callback"}
  /\ poll \in [Pollers -> PollSteps] /\ reach \in {"unknown", "up", "down"}
  /\ notified \in BOOLEAN /\ lockout \in BOOLEAN /\ scene \in {"any", "away"}
  /\ budget \in 0 .. MaxTray /\ evidence \in 0 .. MaxStrikes
  /\ toasts \in 0 .. MaxToasts /\ racers \in 0 .. MaxToasts
  /\ lateLocks \in 0 .. 2 /\ quitHolds \in BOOLEAN

\* The workstation is locked for as many ticks as the threshold says, each
\* ended by an answer of the service that was not "present", all of them since
\* the user was last seen, unlocked the session, resumed or saved (_tick,
\* _award_strike): a failing service never counts.
LockEarned == [][step = "decide" /\ step' = "lock" => evidence >= limit]_vars

\* The user is obeyed.  A pause taken in mid-tick does not call that tick back,
\* but no later tick of the pause locks; and "a Quit arriving mid-wait must end
\* the tick immediately, and it must NOT go on to lock on the way out", nor does
\* one between two ticks.
Obeyed == lateLocks <= 1 /\ ~(quitHolds /\ step = "lock")

\* One toast per lockout episode, and at most one more for each poke that ran
\* during it ("a rare race costs at worst one duplicate toast").
ToastPerEpisode == toasts <= 1 + racers

\* Once nobody is there, however absent and uncertain answers alternate, the
\* workstation is locked again and again until it stays so.
Converges ==
  <>[](Away /\ cfg.auto /\ ~paused /\ ~stop) => []<>(step = "lock")
=============================================================================
