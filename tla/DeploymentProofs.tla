--------------------------- MODULE DeploymentProofs ---------------------------
(***************************************************************************)
(* The safety of Watchdog.tla for any set of processes, threshold and      *)
(* bounds, and of Release.tla for any bundles, versions and certificates.  *)
(***************************************************************************)
EXTENDS Watchdog, Release, WellFoundedInduction, TLAPS

\* The iteration's count is backed by pings that failed since the last pong.
Earned ==
  /\ fails <= misses
  /\ wd = "look" => misses > fails \/ misses = Threshold
  /\ wd = "kill" => misses = Threshold

\* Whoever is past the mutex has it.
Holder ==
  \A p \in Procs :
    proc[p] \in {"clearing", "up", "hung", "stopping"} => mutex = p

\* A stop stands on a marker that counts, and only outside a restart.
Standing ==
  stopped = "held" => /\ marker.date \in {"live", "far"}
                      /\ wd \notin Restarting

IInv == TypeOK /\ Earned /\ Holder /\ Standing

Env(p) == \/ Launch(p) \/ Shutdown(p) \/ Crash(p) \/ Hang(p) \/ Recover(p)

-----------------------------------------------------------------------------
\* What the bound on both counters does.
LEMMA CappedFacts ==
  ASSUME NEW n \in Nat
  PROVE  /\ Capped(n) \in 0 .. Threshold
         /\ Capped(n) = n \/ Capped(n) = Threshold
         /\ Capped(n) <= n
         /\ n >= Threshold => Capped(n) = Threshold
  BY WatchdogAssumption DEF Capped

\* Faults only use up what the bound has left.
LEMMA FaultFacts ==
  ASSUME TypeOK
  PROVE  /\ Fault => faults' \in 0 .. MaxFaults
         /\ Fine => faults' \in 0 .. MaxFaults
  BY WatchdogAssumption DEF TypeOK, Fault, Fine

\* The steps of an iteration and the lives of a process.
LEMMA StepFacts ==
  /\ "sleep" \in Steps /\ "ping" \in Steps /\ "look" \in Steps
  /\ "kill" \in Steps /\ "wait" \in Steps /\ "start" \in Steps
  /\ "count" \in Steps /\ "clear" \in Steps /\ "backoff" \in Steps
  BY DEF Steps

LEMMA LifeFacts ==
  /\ "absent" \in Lives /\ "starting" \in Lives /\ "clearing" \in Lives
  /\ "up" \in Lives /\ "hung" \in Lives /\ "stopping" \in Lives
  /\ "dying" \in Lives
  BY DEF Lives

\* What may be in the file, and what a new date makes of it.
LEMMA MarkerFacts ==
  ASSUME marker \in Markers
  PROVE  /\ NoMarker \in Markers /\ NoMarker.date = "over"
         /\ marker.date \in {"live", "over", "far", "bad"}
         /\ \A who \in {"stop", "build"} : [by |-> who, date |-> "live"] \in Markers
         /\ marker.date # "over" =>
              \A x \in {"live", "over", "far", "bad"} :
                Redated(x) \in Markers /\ Redated(x).date = x
  BY DEF Markers, NoMarker, Dates, Redated

\* Reading the marker leaves one of the same kind, and a stop that stands is
\* either seen or over.
LEMMA IsPausedFacts ==
  ASSUME TypeOK, Standing, NEW paused \in BOOLEAN, IsPaused(paused)
  PROVE  /\ marker' \in Markers /\ faults' \in 0 .. MaxFaults
         /\ stopped' \in {"no", stopped}
         /\ stopped' = "held" => paused /\ marker'.date = "live"
<1> USE MarkerFacts, FaultFacts DEF TypeOK, Standing
<1>1. marker \in Markers
  OBVIOUS
<1>2. CASE marker.date = "live" /\ paused /\ UNCHANGED <<marker, stopped>> /\ Fine
  BY <1>1, <1>2
<1>3. CASE /\ marker.date \in {"over", "bad"} /\ ~paused
           /\ ClearPause /\ UNCHANGED stopped
  BY <1>1, <1>3 DEF ClearPause
<1>4. CASE /\ marker.date = "far" /\ paused
           /\ marker' = Redated("live")
           /\ UNCHANGED stopped /\ Fine
  BY <1>1, <1>4
<1>5. CASE /\ marker.date = "far" /\ ~paused
           /\ Fault /\ marker' \in {marker, NoMarker} /\ stopped' = "no"
  BY <1>1, <1>5
<1> QED BY <1>2, <1>3, <1>4, <1>5 DEF IsPaused

-----------------------------------------------------------------------------
LEMMA InvInit == Init => IInv
<1>1. NoMarker \in Markers
  BY DEF Markers, NoMarker
<1>2. 0 \in 0 .. Threshold
  BY WatchdogAssumption
<1> SUFFICES ASSUME Init PROVE IInv
  OBVIOUS
<1>3. TypeOK
  <2>1. proc \in [Procs -> Lives] /\ marker \in Markers
    BY <1>1, LifeFacts DEF Init
  <2>2. /\ faults \in 0 .. MaxFaults /\ stops \in 0 .. MaxStops
        /\ builds \in 0 .. MaxBuilds
    BY WatchdogAssumption DEF Init
  <2> QED
    BY <1>2, <2>1, <2>2, StepFacts DEF Init, TypeOK
<1>4. Earned /\ Holder /\ Standing
  BY <1>2 DEF Init, Earned, Holder, Standing, Restarting
<1> QED
  BY <1>3, <1>4 DEF IInv

\* The types are kept by every step.
LEMMA TypeStep ==
  ASSUME IInv, [Next]_vars PROVE TypeOK'
<1>0. 0 \in 0 .. Threshold
  BY WatchdogAssumption
<1> USE <1>0, WatchdogAssumption, CappedFacts, FaultFacts, MarkerFacts,
        StepFacts, LifeFacts DEF IInv, TypeOK, watch, world, budget, others
<1>1. CASE Sleep
  BY <1>1 DEF Sleep
<1>2. CASE PingOk
  BY <1>2 DEF PingOk
<1>3. CASE PingFails
  BY <1>3 DEF PingFails
<1>4. CASE Look
  <2>1. PICK paused \in BOOLEAN : IsPaused(paused)
    BY <1>4 DEF Look
  <2>2. /\ marker' \in Markers /\ faults' \in 0 .. MaxFaults
        /\ stopped' \in {"no", stopped}
    BY <2>1, IsPausedFacts
  <2>3. fails' \in 0 .. Threshold /\ wd' \in Steps
    BY <1>4 DEF Look
  <2> QED BY <1>4, <2>2, <2>3 DEF Look
<1>5. CASE Kill
  BY <1>5 DEF Kill
<1>6. CASE WaitDead
  BY <1>6 DEF WaitDead
<1>7. CASE Start
  BY <1>7 DEF Start
<1>8. CASE Count
  BY <1>8 DEF Count
<1>9. CASE Clear
  BY <1>9 DEF Clear, ClearPause
<1>10. CASE BackOff
  BY <1>10 DEF BackOff
<1>11. CASE Throws
  BY <1>11 DEF Throws
<1>12. CASE WatchdogRestarts
  BY <1>12 DEF WatchdogRestarts
<1>13. CASE BuildEnds
  BY <1>13 DEF BuildEnds
<1>14. CASE Resume
  BY <1>14 DEF Resume, ClearPause, Taken
<1>15. CASE Build
  BY <1>15 DEF Build, WritePause, Taken
<1>16. CASE Expire
  BY <1>16 DEF Expire
<1>17. CASE Disturb
  BY <1>17 DEF Disturb
<1>18. ASSUME NEW p \in Procs, TakeMutex(p) PROVE TypeOK'
  BY <1>18 DEF TakeMutex, To
<1>19. ASSUME NEW p \in Procs, ClearsPause(p) PROVE TypeOK'
  BY <1>19 DEF ClearsPause, ClearPause, To
<1>20. ASSUME NEW p \in Procs, Gone(p) PROVE TypeOK'
  BY <1>20 DEF Gone, To
<1>21. ASSUME NEW p \in Procs, Launch(p) PROVE TypeOK'
  BY <1>21 DEF Launch, To
<1>22. ASSUME NEW p \in Procs, Shutdown(p) PROVE TypeOK'
  BY <1>22 DEF Shutdown, WritePause, To
<1>23. ASSUME NEW p \in Procs, Crash(p) PROVE TypeOK'
  BY <1>23 DEF Crash, To
<1>24. ASSUME NEW p \in Procs, Hang(p) PROVE TypeOK'
  BY <1>24 DEF Hang, To
<1>25. ASSUME NEW p \in Procs, Recover(p) PROVE TypeOK'
  BY <1>25 DEF Recover, To
<1>26. CASE UNCHANGED vars
  BY <1>26 DEF vars
<1> QED
  BY <1>1, <1>2, <1>3, <1>4, <1>5, <1>6, <1>7, <1>8, <1>9, <1>10, <1>11,
         <1>12, <1>13, <1>14, <1>15, <1>16, <1>17, <1>18, <1>19, <1>20,
         <1>21, <1>22, <1>23, <1>24, <1>25, <1>26
  DEF Next, WdStep, ProcStep, WizardStep

\* The count never outruns the pings that failed.
LEMMA EarnedStep ==
  ASSUME IInv, [Next]_vars PROVE Earned'
<1> USE WatchdogAssumption, CappedFacts DEF IInv, TypeOK, Earned, watch, world, budget, others
<1>1. CASE Sleep
  BY <1>1 DEF Sleep
<1>2. CASE PingOk
  BY <1>2 DEF PingOk
<1>3. CASE PingFails
  BY <1>3 DEF PingFails
<1>4. CASE Look
  <2>1. fails + 1 \in Nat /\ misses >= Threshold => misses = Threshold
    BY <1>4
  <2>2. CASE wd' = "kill" /\ UNCHANGED fails /\ fails + 1 >= Threshold
    BY <1>4, <2>1, <2>2 DEF Look
  <2>3. CASE wd' = "sleep" /\ fails' = Capped(fails + 1)
    BY <1>4, <2>1, <2>3 DEF Look
  <2> QED BY <1>4, <2>2, <2>3 DEF Look, ShouldRestart
<1>5. CASE Kill
  BY <1>5 DEF Kill
<1>6. CASE WaitDead
  BY <1>6 DEF WaitDead
<1>7. CASE Start
  BY <1>7 DEF Start
<1>8. CASE Count
  BY <1>8 DEF Count
<1>9. CASE Clear
  BY <1>9 DEF Clear
<1>10. CASE BackOff
  BY <1>10 DEF BackOff
<1>11. CASE Throws
  BY <1>11 DEF Throws
<1>12. CASE WatchdogRestarts
  BY <1>12 DEF WatchdogRestarts
<1>13. CASE BuildEnds
  BY <1>13 DEF BuildEnds
<1>14. CASE Resume
  BY <1>14 DEF Resume
<1>15. CASE Build
  BY <1>15 DEF Build
<1>16. CASE Expire
  BY <1>16 DEF Expire
<1>17. CASE Disturb
  BY <1>17 DEF Disturb
<1>18. ASSUME NEW p \in Procs, TakeMutex(p) PROVE Earned'
  BY <1>18 DEF TakeMutex
<1>19. ASSUME NEW p \in Procs, ClearsPause(p) PROVE Earned'
  BY <1>19 DEF ClearsPause
<1>20. ASSUME NEW p \in Procs, Gone(p) PROVE Earned'
  BY <1>20 DEF Gone
<1>21. ASSUME NEW p \in Procs, Launch(p) PROVE Earned'
  BY <1>21 DEF Launch
<1>22. ASSUME NEW p \in Procs, Shutdown(p) PROVE Earned'
  BY <1>22 DEF Shutdown
<1>23. ASSUME NEW p \in Procs, Crash(p) PROVE Earned'
  BY <1>23 DEF Crash
<1>24. ASSUME NEW p \in Procs, Hang(p) PROVE Earned'
  BY <1>24 DEF Hang
<1>25. ASSUME NEW p \in Procs, Recover(p) PROVE Earned'
  BY <1>25 DEF Recover
<1>26. CASE UNCHANGED vars
  BY <1>26 DEF vars
<1> QED
  BY <1>1, <1>2, <1>3, <1>4, <1>5, <1>6, <1>7, <1>8, <1>9, <1>10, <1>11,
         <1>12, <1>13, <1>14, <1>15, <1>16, <1>17, <1>18, <1>19, <1>20,
         <1>21, <1>22, <1>23, <1>24, <1>25, <1>26
  DEF Next, WdStep, ProcStep, WizardStep

\* The mutex goes to one process and comes back when it is gone.
LEMMA HolderStep ==
  ASSUME IInv, [Next]_vars PROVE Holder'
<1> USE WatchdogAssumption DEF IInv, Holder, To, watch, world, budget, others
<1>1. CASE Sleep
  BY <1>1 DEF Sleep
<1>2. CASE PingOk
  BY <1>2 DEF PingOk
<1>3. CASE PingFails
  BY <1>3 DEF PingFails
<1>4. CASE Look
  BY <1>4 DEF Look
<1>5. CASE Kill
  BY <1>5 DEF Kill
<1>6. CASE WaitDead
  BY <1>6 DEF WaitDead
<1>7. CASE Start
  BY <1>7 DEF Start, To, TypeOK
<1>8. CASE Count
  BY <1>8 DEF Count
<1>9. CASE Clear
  BY <1>9 DEF Clear
<1>10. CASE BackOff
  BY <1>10 DEF BackOff
<1>11. CASE Throws
  BY <1>11 DEF Throws
<1>12. CASE WatchdogRestarts
  BY <1>12 DEF WatchdogRestarts
<1>13. CASE BuildEnds
  BY <1>13 DEF BuildEnds
<1>14. CASE Resume
  BY <1>14 DEF Resume
<1>15. CASE Build
  BY <1>15 DEF Build
<1>16. CASE Expire
  BY <1>16 DEF Expire
<1>17. CASE Disturb
  BY <1>17 DEF Disturb
<1>18. ASSUME NEW p \in Procs, TakeMutex(p) PROVE Holder'
  BY <1>18 DEF TakeMutex, To, TypeOK
<1>19. ASSUME NEW p \in Procs, ClearsPause(p) PROVE Holder'
  BY <1>19 DEF ClearsPause
<1>20. ASSUME NEW p \in Procs, Gone(p) PROVE Holder'
  BY <1>20 DEF Gone, To, TypeOK
<1>21. ASSUME NEW p \in Procs, Launch(p) PROVE Holder'
  BY <1>21 DEF Launch
<1>22. ASSUME NEW p \in Procs, Shutdown(p) PROVE Holder'
  BY <1>22 DEF Shutdown
<1>23. ASSUME NEW p \in Procs, Crash(p) PROVE Holder'
  BY <1>23 DEF Crash, To, TypeOK
<1>24. ASSUME NEW p \in Procs, Hang(p) PROVE Holder'
  BY <1>24 DEF Hang
<1>25. ASSUME NEW p \in Procs, Recover(p) PROVE Holder'
  BY <1>25 DEF Recover
<1>26. CASE UNCHANGED vars
  BY <1>26 DEF vars
<1> QED
  BY <1>1, <1>2, <1>3, <1>4, <1>5, <1>6, <1>7, <1>8, <1>9, <1>10, <1>11,
         <1>12, <1>13, <1>14, <1>15, <1>16, <1>17, <1>18, <1>19, <1>20,
         <1>21, <1>22, <1>23, <1>24, <1>25, <1>26
  DEF Next, WdStep, ProcStep, WizardStep

\* A stop that stands keeps its marker until a restart begins.
LEMMA StandingStep ==
  ASSUME IInv, [Next]_vars PROVE Standing'
<1> USE MarkerFacts DEF IInv, TypeOK, Standing, Restarting, watch, world, budget, others
<1>1. CASE Sleep
  BY <1>1 DEF Sleep
<1>2. CASE PingOk
  BY <1>2 DEF PingOk
<1>3. CASE PingFails
  BY <1>3 DEF PingFails
<1>4. CASE Look
  <2>1. PICK paused \in BOOLEAN :
          /\ IsPaused(paused)
          /\ \/ ~paused \/ wd' = "sleep"
    BY <1>4 DEF Look, ShouldRestart
  <2>2. stopped' = "held" => paused /\ marker'.date = "live"
    BY <2>1, IsPausedFacts
  <2> QED BY <1>4, <2>1, <2>2 DEF Look
<1>5. CASE Kill
  BY <1>5 DEF Kill
<1>6. CASE WaitDead
  BY <1>6 DEF WaitDead
<1>7. CASE Start
  BY <1>7 DEF Start
<1>8. CASE Count
  BY <1>8 DEF Count
<1>9. CASE Clear
  BY <1>9 DEF Clear, ClearPause
<1>10. CASE BackOff
  BY <1>10 DEF BackOff
<1>11. CASE Throws
  BY <1>11 DEF Throws
<1>12. CASE WatchdogRestarts
  BY <1>12 DEF WatchdogRestarts
<1>13. CASE BuildEnds
  BY <1>13 DEF BuildEnds
<1>14. CASE Resume
  BY <1>14 DEF Resume, ClearPause, Taken
<1>15. CASE Build
  BY <1>15 DEF Build, WritePause, Taken
<1>16. CASE Expire
  BY <1>16 DEF Expire
<1>17. CASE Disturb
  BY <1>17 DEF Disturb
<1>18. ASSUME NEW p \in Procs, TakeMutex(p) PROVE Standing'
  BY <1>18 DEF TakeMutex
<1>19. ASSUME NEW p \in Procs, ClearsPause(p) PROVE Standing'
  BY <1>19 DEF ClearsPause
<1>20. ASSUME NEW p \in Procs, Gone(p) PROVE Standing'
  BY <1>20 DEF Gone
<1>21. ASSUME NEW p \in Procs, Launch(p) PROVE Standing'
  BY <1>21 DEF Launch
<1>22. ASSUME NEW p \in Procs, Shutdown(p) PROVE Standing'
  BY <1>22 DEF Shutdown, WritePause, To
<1>23. ASSUME NEW p \in Procs, Crash(p) PROVE Standing'
  BY <1>23 DEF Crash
<1>24. ASSUME NEW p \in Procs, Hang(p) PROVE Standing'
  BY <1>24 DEF Hang
<1>25. ASSUME NEW p \in Procs, Recover(p) PROVE Standing'
  BY <1>25 DEF Recover
<1>26. CASE UNCHANGED vars
  BY <1>26 DEF vars
<1> QED
  BY <1>1, <1>2, <1>3, <1>4, <1>5, <1>6, <1>7, <1>8, <1>9, <1>10, <1>11,
         <1>12, <1>13, <1>14, <1>15, <1>16, <1>17, <1>18, <1>19, <1>20,
         <1>21, <1>22, <1>23, <1>24, <1>25, <1>26
  DEF Next, WdStep, ProcStep, WizardStep

-----------------------------------------------------------------------------
LEMMA Invariance == Spec => []IInv
<1>1. IInv /\ [Next]_vars => IInv'
  BY TypeStep, EarnedStep, HolderStep, StandingStep DEF IInv
<1> QED BY InvInit, <1>1, PTL DEF Spec

\* Every variable keeps its type, for any number of processes.
THEOREM TypeCorrect == Spec => []TypeOK
<1>1. IInv => TypeOK BY DEF IInv
<1> QED BY Invariance, <1>1, PTL

\* One process at most is past the mutex of serve_forever.
THEOREM OneServerAlways == Spec => []OneServer
<1>1. IInv => OneServer BY WatchdogAssumption DEF IInv, TypeOK, Holder, OneServer
<1> QED BY Invariance, <1>1, PTL

\* The watchdog kills only after Threshold failed pings in a row, and undoes no
\* stop that stands.
THEOREM KillsAreJustified == Spec => KillJustified
<1>1. IInv => (wd = "kill" => misses >= Threshold)
  BY WatchdogAssumption DEF IInv, TypeOK, Earned
<1>2. IInv /\ [Next]_vars => [wd = "kill" /\ wd' = "wait" => stopped # "held"]_vars
  BY DEF IInv, Standing, Restarting
<1>3. IInv /\ [Next]_vars =>
        [wd = "kill" /\ wd' = "wait" => misses >= Threshold /\ stopped # "held"]_vars
  BY <1>1, <1>2
<1> QED BY Invariance, <1>3, PTL DEF Spec, KillJustified

-----------------------------------------------------------------------------
(* Release.tla *)

\* A bundle and a script that the gate let pass under a policy.
Judged(d, script, cp) ==
  /\ Passed(d.bundle) /\ d.bundle.heals /\ d.models = "pinned" /\ script.sound
  /\ cp.mode # "skip_cp" => d.dll # Nothing
  /\ cp.mode = "pinned" => d.dll.signer = cp.signer

Stations == {"frozen", "selftest", "custody", "models", "provider", "stamp"}

\* What each station of the gate adds to what the ones before it have seen.
Seen ==
  /\ ~At("frozen") => Passed(dist.bundle)
  /\ build.pc \in {"custody", "models", "provider", "stamp"} => iss.sound
  /\ build.pc \in {"models", "provider", "stamp"} => dist.bundle.heals
  /\ build.pc \in {"provider", "stamp"} => dist.models = "pinned"
  /\ At("stamp") => build.skip \/ /\ dist.dll # Nothing
                                  /\ build.sign # Nothing => dist.dll.signer = build.sign

\* There is a bundle, and a DLL, where a step goes on with one.
Present ==
  /\ build.pc \in Stations \cup {"staging", "iscc"} => dist # Nothing
  /\ At("sign") => built # Nothing

\* While the gate is open there is no stamp.
Gating ==
  build.pc \in Stations => stamp = Nothing /\ ("gate" \notin raced => Seen)

\* A stamp stands for a bundle the gate let pass.
Stamped ==
  stamp # Nothing /\ "gate" \notin raced => Judged(stamp.manifest, stamp.iss, stamp.cp)

\* ISCC starts on what the stamp stood for.
Packing ==
  At("iscc") =>
    /\ raced = {} => Judged(dist, iss, build.cp)
    /\ build.sign # Nothing => build.cp.signer = build.sign

\* So every installer holds that, under the version its script had.
Packed ==
  \A v \in Versions : output[v] # Nothing /\ output[v].raced = {} =>
    /\ Judged(output[v].content, output[v].iss, output[v].cp)
    /\ output[v].iss.version = v
    /\ output[v].asked # Nothing => output[v].cp.signer = output[v].asked

Inspected == Present /\ Gating /\ Stamped /\ Packing /\ Packed
ReleaseInv == ReleaseTypeOK /\ Inspected

-----------------------------------------------------------------------------
\* What passes the gate runs: the hidden imports, that reach every EXE alike,
\* carry the one archive that was seen to hold a name over to the others.
THEOREM GateSound ==
  ASSUME NEW b, IsBundle(b), Passed(b), HiddenAlike(b)
  PROVE  Runs(b)
<1>1. Built(b) /\ \A x \in Exes : ~b.exes[x].relative
  BY DEF Passed, PassFrozen
<1>2. ASSUME NEW x \in Exes PROVE Targets[x] \subseteq Found(b, x)
  <2> SUFFICES ASSUME NEW n \in Targets[x] PROVE n \in b.exes[x].archive
    BY DEF Found
  <2>1. n \in Required BY DEF Required
  <2>2. PICK y \in DOMAIN b.exes : n \in b.exes[y].archive
    BY <2>1 DEF Passed, PassPyz, Archived
  <2> QED BY <1>1, <2>1, <2>2 DEF HiddenAlike, Built
<1>3. ASSUME NEW x \in Exes PROVE Lazy \subseteq Found(b, x)
  BY DEF Passed, PassLazy, Found
<1>4. Imported(b) \subseteq Found(b, serviceExe)
  <2> SUFFICES ASSUME NEW n \in Imported(b), n \notin b.exts, n \notin DOMAIN b.shipped
               PROVE  n \in b.exes[serviceExe].archive
    BY DEF Found
  <2>1. n \in Archived(b)
    BY DEF Passed, PassNative, PassClass, Imported, Known
  <2>2. PICK y \in DOMAIN b.exes : n \in b.exes[y].archive
    BY <2>1 DEF Archived
  <2> QED BY <2>2 DEF HiddenAlike
<1>5. /\ Anchors \subseteq b.exes[serviceExe].archive
      /\ \A o \in Objects : o \in DOMAIN b.objects /\ b.objects[o] = "same"
  BY DEF Passed, PassMines
<1> QED BY <1>1, <1>2, <1>3, <1>4, <1>5 DEF Runs, Built

LEMMA NatOrder == OpToRel(<, Nat) = {ss \in Nat \X Nat : ss[1] < ss[2]}
BY DEF OpToRel

\* A set of naturals with a member has a smallest one.
LEMMA LeastOf ==
  ASSUME NEW T \in SUBSET Nat, T # {}
  PROVE  \E x \in T : \A y \in T : x <= y
<1> DEFINE R == {ss \in Nat \X Nat : ss[1] < ss[2]}
<1>1. IsWellFoundedOn(R, Nat)
  BY NatLessThanWellFounded, NatOrder, Zenon
<1>2. PICK x \in T : \A y \in T : ~(<<y, x>> \in R)
  <2> HIDE DEF R
  <2> QED BY <1>1, WFMin, Zenon
<1>3. ASSUME NEW y \in T PROVE x <= y
  <2>1. <<y, x>> \notin R BY <1>2
  <2> QED BY <2>1
<1> QED BY <1>3

\* Some installer of a folder is its last by name.
LEMMA LastOfTyped ==
  ASSUME NEW installers, NEW v \in Versions, installers[v] # Nothing
  PROVE  LastOf(installers) \in Versions
<1>1. PICK last \in Versions : \A w \in Versions : Rank[w] <= Rank[last]
  BY ReleaseAssumption
<1> DEFINE T == {Rank[last] - Rank[w] : w \in {u \in Versions : installers[u] # Nothing}}
<1>2. T \in SUBSET Nat /\ T # {}
  BY <1>1, ReleaseAssumption
<1>3. PICK least \in T : \A t \in T : least <= t
  <2> HIDE DEF T
  <2> QED BY <1>2, LeastOf
<1>4. PICK u \in Versions : installers[u] # Nothing /\ least = Rank[last] - Rank[u]
  BY <1>3
<1>5. ASSUME NEW w \in Versions, installers[w] # Nothing PROVE Rank[w] <= Rank[u]
  <2>1. Rank[last] - Rank[u] <= Rank[last] - Rank[w]
    BY <1>3, <1>4, <1>5
  <2> QED BY <2>1, ReleaseAssumption
<1> QED BY <1>4, <1>5 DEF LastOf

\* What a run may be, field by field.
LEMMA PolicyTyped ==
  ASSUME build \in Builds
  PROVE  /\ Policy \in Policies
         /\ Policy.mode # "skip_cp" <=> ~build.skip
         /\ Policy.signer = IF build.skip THEN Nothing ELSE build.sign
  BY DEF Builds, Policy, Policies

LEMMA ReleaseInvInit == ReleaseInit => ReleaseInv
<1> SUFFICES ASSUME ReleaseInit PROVE ReleaseInv
  OBVIOUS
<1>1. Idle \in Builds /\ Idle.pc = "idle"
  BY DEF Idle, Builds, BuildSteps, Modes, Policies
<1>2. ReleaseTypeOK
  BY <1>1, ReleaseAssumption DEF ReleaseInit, ReleaseTypeOK, Scripts, Packs
<1> QED
  BY <1>1, <1>2
  DEF ReleaseInit, ReleaseInv, Inspected, Present, Gating, Stamped, Packing, Packed, At, Stations

LEMMA ReleaseTypeStep ==
  ASSUME ReleaseTypeOK, Inspected, [ReleaseNext]_releaseVars
  PROVE  ReleaseTypeOK'
<1> USE ReleaseAssumption
<1>0. Idle \in Builds
  BY DEF Idle, Builds, BuildSteps, Modes, Policies
<1>goto. \A pc \in BuildSteps : [build EXCEPT !.pc = pc] \in Builds
  BY DEF ReleaseTypeOK, Builds
<1>1. ASSUME NEW mode \in Modes, NEW skip \in BOOLEAN, NEW allow \in BOOLEAN,
             NEW sign \in Signers \cup {Nothing}, StartRun(mode, skip, sign, allow)
      PROVE  ReleaseTypeOK'
  <2>1. First[mode] \in BuildSteps
    BY DEF First, Modes, BuildSteps
  <2>2. build' \in Builds
    BY <1>1, <1>0, <2>1 DEF StartRun, Builds
  <2> QED BY <1>1, <2>2 DEF StartRun, ReleaseTypeOK
<1>2. CASE CheckModels
  BY <1>2, <1>goto DEF CheckModels, Goto, ReleaseTypeOK, BuildSteps
<1>3. CASE BuildCp
  BY <1>3, <1>goto DEF BuildCp, Goto, ReleaseTypeOK, BuildSteps, Dlls
<1>4. CASE SignCp
  <2>1. built' \in Dlls \cup {Nothing}
    BY <1>4 DEF SignCp, ReleaseTypeOK, Inspected, Present, Builds, Dlls
  <2> QED BY <1>4, <2>1, <1>goto DEF SignCp, Goto, ReleaseTypeOK, BuildSteps
<1>5. CASE Wipe
  BY <1>5, <1>goto DEF Wipe, Goto, ReleaseTypeOK, BuildSteps
<1>6. CASE Freeze
  <2>1. dist' \in Dists
    BY <1>6 DEF Freeze, ReleaseTypeOK, Dists
  <2> QED BY <1>6, <2>1, <1>goto DEF Freeze, Goto, ReleaseTypeOK, BuildSteps
<1>7. CASE Stage
  <2>1. dist' \in Dists
    BY <1>7 DEF Stage, At, ReleaseTypeOK, Dists, Inspected, Present
  <2> QED BY <1>7, <2>1, <1>goto DEF Stage, Goto, ReleaseTypeOK, BuildSteps
<1>8. CASE OpenGate
  BY <1>8, <1>goto DEF OpenGate, Goto, ReleaseTypeOK, BuildSteps
<1>9. CASE PassStation
  <2>1. build.pc \in DOMAIN Following => Following[build.pc] \in BuildSteps
    BY DEF Following, BuildSteps
  <2>2. build' \in Builds
    BY <1>9, <2>1, <1>goto DEF PassStation, Goto
  <2> QED BY <1>9, <2>2 DEF PassStation, ReleaseTypeOK
<1>10. CASE WriteStamp
  <2>1. stamp' \in Stamps
    BY <1>10, PolicyTyped DEF WriteStamp, At, ReleaseTypeOK, Stamps, Inspected, Present, Stations
  <2>2. build' \in Builds
    BY <1>10, <1>0, <1>goto DEF WriteStamp, Goto, BuildSteps
  <2> QED BY <1>10, <2>1, <2>2 DEF WriteStamp, ReleaseTypeOK
<1>11. CASE CheckStamp
  <2>1. build' \in Builds
    BY <1>11 DEF CheckStamp, ReleaseTypeOK, Stamps, Builds, BuildSteps
  <2> QED BY <1>11, <2>1 DEF CheckStamp, ReleaseTypeOK
<1>12. CASE Compile
  <2>1. iss.version \in Versions
    BY DEF ReleaseTypeOK, Scripts
  <2> DEFINE new == [content |-> dist, iss |-> iss, cp |-> build.cp, asked |-> build.sign, raced |-> raced]
  <2>8. dist \in Dists
    BY <1>12 DEF Compile, At, ReleaseTypeOK, Inspected, Present
  <2>2. new \in Installers
    BY <2>8 DEF ReleaseTypeOK, Installers, Builds
  <2>3. output' = [output EXCEPT ![iss.version] = new]
    BY <1>12 DEF Compile
  <2> HIDE DEF new
  <2>4. output' \in [Versions -> Installers \cup {Nothing}]
    BY <2>1, <2>2, <2>3 DEF ReleaseTypeOK
  <2>5. output'[iss.version] # Nothing
    BY <2>1, <2>2, <2>3 DEF ReleaseTypeOK
  <2>6. LastOf(output') \in Versions
    BY <2>1, <2>5, LastOfTyped
  <2>7. build' \in Builds
    BY <1>12, <2>1, <2>6 DEF Compile, ReleaseTypeOK, Builds, BuildSteps
  <2> QED BY <1>12, <2>4, <2>7 DEF Compile, ReleaseTypeOK
<1>13. CASE Checksum
  <2>1. sums' \in [Versions -> Installers \cup {Nothing}]
    <3>1. CASE build.path \in Versions
      BY <1>13, <3>1 DEF Checksum, ReleaseTypeOK
    <3>2. CASE build.path \notin Versions
      BY <1>13, <3>2 DEF Checksum, ReleaseTypeOK
    <3> QED BY <3>1, <3>2
  <2> QED BY <1>13, <2>1, <1>0 DEF Checksum, ReleaseTypeOK
<1>14. CASE RunEnds
  BY <1>14, <1>0 DEF RunEnds, ReleaseTypeOK
<1>15. CASE EditPack
  BY <1>15 DEF EditPack, Edits, ReleaseTypeOK
<1>16. CASE EditDll
  BY <1>16 DEF EditDll, Edits, ReleaseTypeOK
<1>17. CASE EditDist
  <2>1. dist' \in Dists
    BY <1>17 DEF EditDist, ReleaseTypeOK, Dists
  <2> QED BY <1>17, <2>1 DEF EditDist, Edits, Races, ReleaseTypeOK
<1>18. CASE EditScript
  <2>1. version' \in Versions /\ iss' \in Scripts
    BY <1>18 DEF EditScript, ReleaseTypeOK, Scripts
  <2> QED BY <1>18, <2>1 DEF EditScript, Edits, Races, ReleaseTypeOK
<1>19. CASE UNCHANGED releaseVars
  BY <1>19 DEF releaseVars, ReleaseTypeOK
<1> QED
  BY <1>1, <1>2, <1>3, <1>4, <1>5, <1>6, <1>7, <1>8, <1>9, <1>10, <1>11, <1>12, <1>13, <1>14, <1>15, <1>16, <1>17, <1>18, <1>19
  DEF ReleaseNext
LEMMA InspectedStep ==
  ASSUME ReleaseTypeOK, Inspected, [ReleaseNext]_releaseVars
  PROVE  Inspected'
<1> USE ReleaseAssumption
<1>idle. Idle.pc = "idle"
  BY DEF Idle
<1>1. ASSUME NEW mode \in Modes, NEW skip \in BOOLEAN, NEW allow \in BOOLEAN,
             NEW sign \in Signers \cup {Nothing}, StartRun(mode, skip, sign, allow)
      PROVE  Inspected'
  <2>1. build'.pc \in {"pack", "gate", "inno"}
    BY <1>1 DEF StartRun, First, Modes, Idle
  <2> QED
    BY <1>1, <2>1 DEF StartRun, Inspected, Present, Gating, Stamped, Packing, Packed, At, Stations
<1>2. CASE CheckModels
  BY <1>2 DEF CheckModels, Goto, ReleaseTypeOK, Builds, Inspected, Present, Gating, Stamped,
    Packing, Packed, At, Stations
<1>3. CASE BuildCp
  <2>1. built' # Nothing
    BY <1>3 DEF BuildCp, Dlls
  <2> QED
    BY <1>3, <2>1
    DEF BuildCp, Goto, ReleaseTypeOK, Builds, Inspected, Present, Gating, Stamped, Packing, Packed,
        At, Stations
<1>4. CASE SignCp
  BY <1>4 DEF SignCp, Goto, ReleaseTypeOK, Builds, Inspected, Present, Gating, Stamped,
    Packing, Packed, At, Stations
<1>5. CASE Wipe
  BY <1>5 DEF Wipe, Goto, ReleaseTypeOK, Builds, Inspected, Present, Gating, Stamped,
    Packing, Packed, At, Stations
<1>6. CASE Freeze
  <2>1. dist' # Nothing
    BY <1>6 DEF Freeze, Dists, ReleaseTypeOK
  <2> QED
    BY <1>6, <2>1
    DEF Freeze, Goto, ReleaseTypeOK, Builds, Inspected, Present, Gating, Stamped, Packing, Packed,
        At, Stations
<1>7. CASE Stage
  <2>1. dist' # Nothing
    BY <1>7 DEF Stage, Dists, Dlls, ReleaseTypeOK, Inspected, Present, At
  <2> QED
    BY <1>7, <2>1
    DEF Stage, Goto, ReleaseTypeOK, Builds, Inspected, Present, Gating, Stamped, Packing, Packed,
        At, Stations
<1>8. CASE OpenGate
  BY <1>8 DEF OpenGate, Goto, Seen, ReleaseTypeOK, Builds, Inspected, Present, Gating, Stamped,
    Packing, Packed, At, Stations
<1>9. CASE PassStation
  <2>1. build.pc \in Stations \ {"stamp"}
    BY <1>9 DEF PassStation, Following, Stations
  <2>2. /\ build'.pc = Following[build.pc] /\ build'.skip = build.skip /\ build'.sign = build.sign
    BY <1>9 DEF PassStation, Goto, ReleaseTypeOK, Builds
  <2>3. build'.pc \in Stations
    BY <2>1, <2>2 DEF Following, Stations
  <2>4. ASSUME "gate" \notin raced PROVE Seen'
    <3>1. Seen /\ Asks(build.pc)
      BY <1>9, <2>1, <2>4 DEF PassStation, Inspected, Gating, Stations
    <3>2. CASE At("frozen")
      BY <1>9, <2>2, <3>1, <3>2 DEF PassStation, Seen, Asks, At, Following
    <3>3. CASE At("selftest")
      BY <1>9, <2>2, <3>1, <3>3 DEF PassStation, Seen, Asks, At, Following
    <3>4. CASE At("custody")
      BY <1>9, <2>2, <3>1, <3>4 DEF PassStation, Seen, Asks, At, Following
    <3>5. CASE At("models")
      BY <1>9, <2>2, <3>1, <3>5 DEF PassStation, Seen, Asks, At, Following
    <3>6. CASE At("provider")
      BY <1>9, <2>2, <3>1, <3>6 DEF PassStation, Seen, Asks, At, Following
    <3> QED BY <2>1, <3>2, <3>3, <3>4, <3>5, <3>6 DEF At, Stations
  <2> QED
    BY <1>9, <2>1, <2>3, <2>4
    DEF PassStation, Inspected, Present, Gating, Stamped, Packing, Packed, At, Stations
<1>10. CASE WriteStamp
  <2>1. build'.pc \in {"inno", "idle"}
    BY <1>10, <1>idle DEF WriteStamp, Goto, ReleaseTypeOK, Builds
  <2>2. ASSUME "gate" \notin raced PROVE Judged(stamp'.manifest, stamp'.iss, stamp'.cp)
    <3>1. Seen
      BY <1>10, <2>2 DEF WriteStamp, At, Inspected, Gating, Stations
    <3>2. stamp'.manifest = dist /\ stamp'.iss = iss /\ stamp'.cp = Policy
      BY <1>10 DEF WriteStamp
    <3>3. /\ Policy.mode # "skip_cp" <=> ~build.skip
          /\ Policy.mode = "pinned" <=> Policy.signer # Nothing
          /\ Policy.signer = IF build.skip THEN Nothing ELSE build.sign
      BY PolicyTyped DEF ReleaseTypeOK, Policies
    <3> QED BY <1>10, <3>1, <3>2, <3>3 DEF WriteStamp, Seen, At, Judged
  <2> QED
    BY <1>10, <2>1, <2>2
    DEF WriteStamp, Inspected, Present, Gating, Stamped, Packing, Packed, At, Stations
<1>11. CASE CheckStamp
  <2>1. build'.pc = "iscc" /\ build'.cp = stamp.cp /\ build'.sign = build.sign
    BY <1>11 DEF CheckStamp, ReleaseTypeOK, Builds
  <2>2. dist # Nothing
    BY <1>11 DEF CheckStamp, ReleaseTypeOK, Stamps, Dists
  <2> QED
    BY <1>11, <2>1, <2>2
    DEF CheckStamp, Inspected, Present, Gating, Stamped, Packing, Packed, At, Stations
<1>12. CASE Compile
  <2>1. build'.pc = "checksums"
    BY <1>12 DEF Compile, ReleaseTypeOK, Builds
  <2>2. Packed'
    <3> SUFFICES ASSUME NEW v \in Versions, output'[v] # Nothing, output'[v].raced = {}
                 PROVE  /\ Judged(output'[v].content, output'[v].iss, output'[v].cp)
                        /\ output'[v].iss.version = v
                        /\ output'[v].asked # Nothing => output'[v].cp.signer = output'[v].asked
      BY DEF Packed
    <3>1. CASE v = iss.version
      <4>1. output'[v] = [content |-> dist, iss |-> iss, cp |-> build.cp, asked |-> build.sign,
                          raced |-> raced]
        BY <1>12, <3>1 DEF Compile, ReleaseTypeOK
      <4> QED BY <1>12, <3>1, <4>1 DEF Compile, Inspected, Packing
    <3>2. CASE v # iss.version
      <4>1. output'[v] = output[v]
        BY <1>12, <3>2 DEF Compile, ReleaseTypeOK
      <4> QED BY <4>1 DEF Inspected, Packed
    <3> QED BY <3>1, <3>2
  <2> QED
    BY <1>12, <2>1, <2>2
    DEF Compile, Inspected, Present, Gating, Stamped, Packing, At, Stations
<1>13. CASE Checksum
  BY <1>13, <1>idle
  DEF Checksum, Inspected, Present, Gating, Stamped, Packing, Packed, At, Stations
<1>14. CASE RunEnds
  BY <1>14, <1>idle
  DEF RunEnds, Inspected, Present, Gating, Stamped, Packing, Packed, At, Stations
<1>15. CASE EditPack
  BY <1>15
  DEF EditPack, Inspected, Present, Gating, Seen, Stamped, Packing, Packed, At, Stations
<1>16. CASE EditDll
  <2>1. built' # Nothing
    BY <1>16 DEF EditDll, Dlls
  <2> QED
    BY <1>16, <2>1
    DEF EditDll, Inspected, Present, Gating, Seen, Stamped, Packing, Packed, At, Stations
<1>17. CASE EditDist
  <2>1. dist' # Nothing
    BY <1>17 DEF EditDist, Dists, ReleaseTypeOK
  <2>2. build.pc \in Stations => "gate" \in raced'
    BY <1>17 DEF EditDist, Races, Following, Stations
  <2>3. At("iscc") => raced' # {}
    BY <1>17 DEF EditDist, Races
  <2>4. raced \subseteq raced'
    BY <1>17 DEF EditDist, Races
  <2> QED
    BY <1>17, <2>1, <2>2, <2>3, <2>4
    DEF EditDist, Inspected, Present, Gating, Stamped, Packing, Packed, At, Stations
<1>18. CASE EditScript
  <2>2. build.pc \in Stations => "gate" \in raced'
    BY <1>18 DEF EditScript, Races, Following, Stations
  <2>3. At("iscc") => raced' # {}
    BY <1>18 DEF EditScript, Races
  <2>4. raced \subseteq raced'
    BY <1>18 DEF EditScript, Races
  <2> QED
    BY <1>18, <2>2, <2>3, <2>4
    DEF EditScript, Inspected, Present, Gating, Stamped, Packing, Packed, At, Stations
<1>19. CASE UNCHANGED releaseVars
  BY <1>19 DEF releaseVars, Inspected, Present, Gating, Seen, Stamped, Packing, Packed, At, Stations
<1> QED
  BY <1>1, <1>2, <1>3, <1>4, <1>5, <1>6, <1>7, <1>8, <1>9, <1>10, <1>11, <1>12, <1>13, <1>14, <1>15, <1>16, <1>17, <1>18, <1>19
  DEF ReleaseNext
LEMMA ReleaseInvariance == ReleaseSpec => []ReleaseInv
<1>1. ReleaseInv /\ [ReleaseNext]_releaseVars => ReleaseInv'
  BY ReleaseTypeStep, InspectedStep DEF ReleaseInv
<1> QED BY ReleaseInvInit, <1>1, PTL DEF ReleaseSpec

\* Every variable of a build keeps its type.
THEOREM ReleaseTyped == ReleaseSpec => []ReleaseTypeOK
<1>1. ReleaseInv => ReleaseTypeOK BY DEF ReleaseInv
<1> QED BY ReleaseInvariance, <1>1, PTL

\* What an installer holds was let through by the gate, and runs.
THEOREM InstallersAreGated == ReleaseSpec => []ReleaseGated
<1>1. ReleaseInv => ReleaseGated
  <2> SUFFICES ASSUME ReleaseInv, NEW v \in Versions, output[v] # Nothing, output[v].raced = {}
               PROVE  LET held == output[v].content
                          cp == output[v].cp IN
                      /\ HiddenAlike(held.bundle) => Runs(held.bundle)
                      /\ held.bundle.heals /\ held.models = "pinned"
                      /\ output[v].iss.sound /\ output[v].iss.version = v
                      /\ cp.mode # "skip_cp" => held.dll # Nothing
                      /\ cp.mode = "pinned" => held.dll.signer = cp.signer
                      /\ output[v].asked # Nothing =>
                           held.dll # Nothing /\ held.dll.signer = output[v].asked
    BY DEF ReleaseGated
  <2>1. output[v] \in Installers
    BY DEF ReleaseInv, ReleaseTypeOK
  <2>2. /\ Judged(output[v].content, output[v].iss, output[v].cp)
        /\ output[v].iss.version = v
        /\ output[v].asked # Nothing => output[v].cp.signer = output[v].asked
    BY DEF ReleaseInv, Inspected, Packed
  <2>3. IsBundle(output[v].content.bundle)
    BY <2>1, ReleaseAssumption DEF Installers, Dists
  <2>4. output[v].cp.mode = "pinned" <=> output[v].cp.signer # Nothing
    BY <2>1 DEF Installers, Policies
  <2>5. HiddenAlike(output[v].content.bundle) => Runs(output[v].content.bundle)
    BY <2>2, <2>3, GateSound DEF Judged
  <2> QED BY <2>2, <2>4, <2>5 DEF Judged
<1> QED BY ReleaseInvariance, <1>1, PTL
=============================================================================
