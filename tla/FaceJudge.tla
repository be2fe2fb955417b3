------------------------------ MODULE FaceJudge ------------------------------
(***************************************************************************)
(* How face_service judges a face once the gates of service.py let an      *)
(* attempt through: the burst of the unlock command, read again after a    *)
(* camera that was healed or a scene that was lightened, the verdict of    *)
(* liveness.py, and the gesture round, one frame at a time.                *)
(***************************************************************************)
EXTENDS Integers, FiniteSets

CONSTANTS
  VerifyFrames,  \* cfg.verify_frames
  Required,      \* cfg.verify_required
  JudgeConfigs,  \* the settings in use
  Sights,        \* what a frame of a burst may show
  Turns,         \* what a frame of a gesture round may show
  YawDelta, PitchDelta

\* ScreenDetector.check: True, False, or None for a face too small to tell.
ScreenChecks == {"yes", "no", "unusable"}

ASSUME JudgeAssumption ==
  /\ VerifyFrames \in Nat \ {0} /\ Required \in 1 .. VerifyFrames
  /\ YawDelta \in Nat /\ PitchDelta \in Nat
  /\ JudgeConfigs \subseteq [paranoid : BOOLEAN, onDoubt : BOOLEAN,
                             boost : BOOLEAN, persistent : BOOLEAN]
  /\ Sights \subseteq [face : 0 .. 3, screen : ScreenChecks,
                       shut : BOOLEAN, light : 0 .. 3]
  /\ Turns \subseteq [owner : BOOLEAN, screen : BOOLEAN, shut : BOOLEAN,
                      pitch : Int, yaw : Int]

VARIABLES
  asked,  \* cfg
  at,     \* where the request is
  burst,  \* the burst it last read: the first, a healed or a boosted one
  left,   \* reads this burst has left
  seen,   \* what _analyze_burst has counted so far
  held,   \* the outcome of the last burst that was kept
  kind,   \* the gesture asked for
  task,   \* the challenge's task
  fed,    \* identity_frames
  own,    \* history: what the enrolled face alone has shown in this round
  told    \* the answer

bursting == <<burst, left, seen, held>>
rounding == <<kind, task, fed, own>>
judgeVars == <<asked, at, bursting, rounding, told>>

BlinkConsec == 2
BaselineFrames == 3
ScreenDoubtPercent == 34

\* Distances, nearest first: with a strong margin, matching, not matching.
Strong == 0
Thin == 1
NoFace == 3
Matches(distance) == distance <= Thin

\* Brightness of the brightest frame: not measured, black, under the floor, lit.
Unmeasured == 0
Black == 1
Dark(light) == light \in {1, 2}

Kinds == {"blink", "turn_left", "turn_right", "nod"}
Places == {"idle", "burst", "gates", "light", "round"}
Verdicts == {"PASS", "NOT_LIVE", "NEEDS_GESTURE"}
Faults == {"no-frames", "engine-error", "none"}
Answers == {"none", "camera-busy", "no-frames", "engine-error", "too-dark",
            "needs-gesture", "no-match", "granted", "gesture-failed", "exception"}

Larger(a, b) == IF a > b THEN a ELSE b
Smaller(a, b) == IF a < b THEN a ELSE b

-----------------------------------------------------------------------------
(* The burst *)

Unseen == [ok |-> 0, errors |-> 0, matches |-> 0, best |-> NoFace, flagged |-> 0,
           checked |-> 0, light |-> Unmeasured, below |-> 0, blinked |-> FALSE]

\* BlinkDetector.update: open, closed for two frames in a row, open again.
Below(below, shut) == IF shut THEN Smaller(below + 1, BlinkConsec) ELSE 0
Blinks(below, shut) == ~shut /\ below = BlinkConsec

\* A frame the engine could not judge, and one that shows f.
WithError(s, light) ==
  [s EXCEPT !.ok = @ + 1, !.errors = @ + 1, !.light = Larger(@, light)]

WithSight(s, f) ==
  IF f.face = NoFace
  THEN [s EXCEPT !.ok = @ + 1, !.light = Larger(@, f.light)]
  ELSE [s EXCEPT
         !.ok = @ + 1,
         !.light = Larger(@, f.light),
         !.best = Smaller(@, f.face),
         !.matches = IF Matches(f.face) THEN @ + 1 ELSE @,
         !.checked = IF f.screen # "unusable" THEN @ + 1 ELSE @,
         !.flagged = IF f.screen = "yes" THEN @ + 1 ELSE @,
         !.below = Below(@, f.shut),
         !.blinked = @ \/ Blinks(s.below, f.shut)]

\* analyze_frame: an empty frame and an engine that fails are not "no face".
Analysed(s) ==
  {WithError(s, f.light) : f \in Sights} \cup {WithSight(s, f) : f \in Sights}

\* verdict of liveness.py.
Verdict(s) ==
  LET doubted == s.checked > 0 /\ 100 * s.flagged >= ScreenDoubtPercent * s.checked
      static == doubted /\ ~s.blinked
  IN IF s.matches < Required \/ static THEN "NOT_LIVE"
     ELSE IF asked.paranoid THEN "NEEDS_GESTURE"
     ELSE IF ~doubted /\ s.best = Strong THEN "PASS"
     ELSE IF asked.onDoubt THEN "NEEDS_GESTURE"
     ELSE "NOT_LIVE"

\* _burst_fault: no frame at all, or none the engine could judge.
Fault(s) ==
  IF s.ok = 0 THEN "no-frames"
  ELSE IF s.errors >= s.ok THEN "engine-error" ELSE "none"

Outcome(s) == [verdict |-> Verdict(s), fault |-> Fault(s), light |-> s.light]

\* _burst_defect, asked of a capture the process keeps open.
Poisoned(s) == asked.persistent /\ (s.ok = 0 \/ s.light = Black)

\* What a handler keeps in its local variables ends with it.
NoHeld == [verdict |-> "NOT_LIVE", fault |-> "no-frames", light |-> Unmeasured]
NewTask == [samples |-> 0, pitch |-> 0, yaw |-> 0, below |-> 0, state |-> "awaiting"]
NewRound == task' = NewTask /\ fed' = 0 /\ own' = {}

NewBurst(which) == burst' = which /\ left' = VerifyFrames /\ seen' = Unseen
Tell(answer) == told' = answer /\ at' = "idle"

\* unlock, past the SYSTEM and the lockout gates.
Unlock ==
  /\ at = "idle"
  /\ held' = NoHeld /\ NewRound
  /\ \/ Tell("camera-busy") /\ UNCHANGED <<burst, left, seen>>
     \/ NewBurst("first") /\ at' = "burst" /\ told' = "none"
  /\ UNCHANGED <<asked, kind>>

\* One read of the burst: nothing, a frame that cannot be judged, or a sight.
ReadFrame ==
  /\ at = "burst" /\ left > 0
  /\ left' = left - 1
  /\ \/ UNCHANGED seen
     \/ seen' \in Analysed(seen)
  /\ UNCHANGED <<asked, at, burst, held, rounding, told>>

\* The camera raises: a boost is abandoned, any other burst ends the request.
ReadRaises ==
  /\ at = "burst" /\ left > 0
  /\ IF burst = "boosted" THEN at' = "light" /\ UNCHANGED told ELSE Tell("exception")
  /\ left' = 0 /\ seen' = Unseen
  /\ UNCHANGED <<asked, burst, held, rounding>>

\* The first burst read nothing, or black: once, unless it did so just now, the
\* kept capture is dropped and the burst read again from a new one. A camera
\* that is busy by then leaves the first outcome.
Heal ==
  /\ at = "burst" /\ left = 0 /\ burst = "first" /\ Poisoned(seen)
  /\ held' = Outcome(seen)
  /\ \/ NewBurst("healed") /\ UNCHANGED at
     \/ at' = "gates" /\ seen' = Unseen /\ UNCHANGED <<burst, left>>
  /\ UNCHANGED <<asked, rounding, told>>

\* What the burst has shown replaces what was held: after a boost it goes
\* straight to the light gate.
EndBurst ==
  /\ at = "burst" /\ left = 0
  /\ held' = Outcome(seen) /\ seen' = Unseen
  /\ at' = IF burst = "boosted" THEN "light" ELSE "gates"
  /\ UNCHANGED <<asked, burst, left, rounding, told>>

\* Mutant of Gates, for OutcomesEarned: the fault is not looked at.
GatesBlind ==
  /\ at = "gates"
  /\ \/ at' = "light" /\ UNCHANGED <<burst, left, seen>>
     \/ /\ Dark(held.light) /\ asked.boost
        /\ NewBurst("boosted") /\ at' = "burst"
  /\ UNCHANGED <<asked, held, rounding, told>>

\* A fault of the camera or of the engine is told, and costs no strike. A dark
\* scene is read again with more exposure, if the driver honours it.
Gates ==
  /\ at = "gates"
  /\ \/ /\ held.fault # "none"
        /\ Tell(held.fault) /\ UNCHANGED <<burst, left, seen>>
     \/ /\ held.fault = "none"
        /\ at' = "light" /\ UNCHANGED <<burst, left, seen, told>>
     \/ /\ held.fault = "none" /\ Dark(held.light) /\ asked.boost
        /\ NewBurst("boosted") /\ at' = "burst" /\ UNCHANGED told
  /\ UNCHANGED <<asked, held, rounding>>

\* The light gate, then the verdict: only NOT_LIVE is a strike.
LightGate ==
  /\ at = "light"
  /\ \/ Dark(held.light) /\ Tell("too-dark") /\ UNCHANGED kind
     \/ /\ ~Dark(held.light) /\ held.verdict = "NEEDS_GESTURE"
        /\ Tell("needs-gesture") /\ kind' \in Kinds
     \/ /\ ~Dark(held.light) /\ held.verdict = "NOT_LIVE"
        /\ Tell("no-match") /\ UNCHANGED kind
     \/ /\ ~Dark(held.light) /\ held.verdict = "PASS"
        /\ Tell("granted") /\ UNCHANGED kind
  /\ UNCHANGED <<asked, bursting, task, fed, own>>

-----------------------------------------------------------------------------
(* The gesture round *)

\* unlock_gesture, with the token of the last answer.
StartRound ==
  /\ at = "idle" /\ told = "needs-gesture"
  /\ held' = NoHeld /\ NewRound
  /\ \/ Tell("camera-busy")
     \/ at' = "round" /\ told' = "none"
  /\ UNCHANGED <<asked, burst, left, seen, kind>>

\* _target_met: pitch and yaw hold the sums of the baseline's samples.
TargetMet(t, f) ==
  CASE kind = "turn_left"  -> BaselineFrames * f.yaw - t.yaw > BaselineFrames * YawDelta
    [] kind = "turn_right" -> t.yaw - BaselineFrames * f.yaw > BaselineFrames * YawDelta
    [] kind = "nod"        -> t.pitch - BaselineFrames * f.pitch > BaselineFrames * PitchDelta

\* feed of the two tasks, up to the look at the deadline.
Fed(t, f) ==
  IF kind = "blink"
  THEN [t EXCEPT !.below = Below(@, f.shut),
                 !.state = IF Blinks(t.below, f.shut) THEN "passed" ELSE @]
  ELSE IF t.samples < BaselineFrames
  THEN [t EXCEPT !.samples = @ + 1, !.pitch = @ + f.pitch, !.yaw = @ + f.yaw]
  ELSE [t EXCEPT !.state = IF TargetMet(t, f) THEN "passed" ELSE @]

\* A task that did not pass with this frame may find its deadline over.
Settled(t) == {t} \cup IF t.state = "passed" THEN {} ELSE {[t EXCEPT !.state = "failed"]}

Rounds == at = "round" /\ task.state = "awaiting"

\* A frame that is not the enrolled face's, or looks like a screen's, does not
\* exist for the task; it only takes time. The landmark models may have found
\* nothing in one that is.
RoundFrame ==
  /\ Rounds
  /\ fed' = Smaller(fed + 1, Required)
  /\ \/ \E f \in Turns :
          /\ f.owner /\ ~f.screen
          /\ task' \in Settled(Fed(task, f))
          /\ own' = own \cup {f}
     \/ task' \in Settled(task) /\ UNCHANGED own
  /\ UNCHANGED <<asked, at, bursting, kind, told>>

\* The round is over: by its task, by the wall clock, by an engine that refuses
\* to run, or by a camera that raises.
EndRound ==
  /\ at = "round"
  /\ \/ Rounds /\ Tell("exception")
     \/ /\ task.state = "passed" /\ fed >= Required
        /\ Tell("granted")
     \/ /\ task.state = "passed" => fed < Required
        /\ Tell("gesture-failed")
  /\ UNCHANGED <<asked, bursting, rounding>>

-----------------------------------------------------------------------------

JudgeInit ==
  /\ asked \in JudgeConfigs
  /\ at = "idle" /\ told = "none"
  /\ burst = "first" /\ left = 0 /\ seen = Unseen
  /\ held = NoHeld
  /\ kind = "blink" /\ task = NewTask /\ fed = 0 /\ own = {}

JudgeNext ==
  \/ Unlock \/ ReadFrame \/ ReadRaises \/ Heal \/ EndBurst \/ Gates \/ LightGate
  \/ StartRound \/ RoundFrame \/ EndRound

JudgeSpec == JudgeInit /\ [][JudgeNext]_judgeVars

-----------------------------------------------------------------------------
(* Properties *)

\* Every variable has its type.
JudgeTypeOK ==
  /\ asked \in JudgeConfigs /\ at \in Places /\ told \in Answers
  /\ burst \in {"first", "healed", "boosted"} /\ left \in 0 .. VerifyFrames
  /\ seen.ok \in 0 .. VerifyFrames /\ seen.matches \in 0 .. VerifyFrames
  /\ held \in [verdict : Verdicts, fault : Faults, light : 0 .. 3]
  /\ kind \in Kinds /\ fed \in 0 .. Required /\ own \subseteq Turns

\* A failed face costs a strike only if the engine judged some frame of the
\* burst the verdict is about; the burst read after a boost is the exception,
\* since the faults are looked at before it.
StrikesAreJudged ==
  told = "no-match" => held.fault = "none" \/ burst = "boosted"

\* A gesture is granted only to a face that is the enrolled one and moved by
\* itself: a still picture of it never passes, whoever moves beside it.
RoundsAreMoved ==
  (told = "granted" /\ task.state = "passed") => Cardinality(own) >= 2

\* What an attempt ends with was earned by the frames it was judged on.
OutcomesEarned == StrikesAreJudged /\ RoundsAreMoved
=============================================================================
