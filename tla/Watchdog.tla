------------------------------- MODULE Watchdog -------------------------------
(***************************************************************************)
(* tools/watchdog.py, the pause marker of face_service/watchdog.py, and    *)
(* those who meet over it: service processes that start, hang, stop and    *)
(* die, the user who stops one on purpose, and the wizard, which pauses    *)
(* supervision for the length of a build.                                  *)
(***************************************************************************)
EXTENDS Naturals, FiniteSets

CONSTANTS
  Procs,      \* names for processes of the service
  Spared,     \* those the kill does not match (a developer's python.exe)
  NoProc,     \* nobody has the mutex
  Threshold,  \* watchdog_fail_threshold
  MaxFaults,  \* bound: hangs, crashes, failed deletes, launches and the like
  MaxStops,   \* bound: shutdown commands
  MaxBuilds   \* bound: enrollment builds of the wizard

ASSUME WatchdogAssumption ==
  /\ Spared \subseteq Procs /\ NoProc \notin Procs
  /\ Threshold \in Nat \ {0}
  /\ MaxFaults \in Nat /\ MaxStops \in Nat /\ MaxBuilds \in Nat

VARIABLES
  wd,       \* the step of the watchdog's iteration
  fails,    \* consecutive failures, as main() holds them
  alive,    \* the count after the start found a process
  proc,     \* per process, how far it is in its life
  mutex,    \* who holds Local\FaceUnlockService
  marker,   \* the pause file: who wrote it and what its date says now
  wizard,   \* idle, building, or about to delete the marker it recognised
  faults, stops, builds,  \* what the bounds have left
  misses,   \* history: failed pings since the last pong or restart
  stopped   \* history: a deliberate stop still stands, and how it came

world == <<proc, mutex>>
budget == <<faults, stops, builds>>
watch == <<wd, fails, alive, misses>>
vars == <<watch, world, marker, wizard, budget, stopped>>

Steps == {"sleep", "ping", "look", "kill", "wait", "start", "count", "clear",
          "backoff"}
Restarting == {"kill", "wait", "start", "count", "clear"}
Lives == {"absent", "starting", "clearing", "up", "hung", "stopping", "dying"}
Matched == {p \in Procs \ Spared : proc[p] # "absent"}

\* until in the future, in the past, beyond any TTL (the clock was set back or
\* the date is not ours), or unreadable.
Dates == {"live", "over", "far", "bad"}
NoMarker == [by |-> "none", date |-> "over"]
Markers == {NoMarker} \union [by : {"stop", "build"}, date : Dates]

Init ==
  /\ wd = "sleep" /\ fails = 0 /\ alive = FALSE
  /\ proc = [p \in Procs |-> "absent"] /\ mutex = NoProc
  /\ marker = NoMarker /\ wizard = "idle"
  /\ faults = MaxFaults /\ stops = MaxStops /\ builds = MaxBuilds
  /\ misses = 0 /\ stopped = "no"

Capped(n) == IF n > Threshold THEN Threshold ELSE n
Fault == faults > 0 /\ faults' = faults - 1
Fine == UNCHANGED faults

-----------------------------------------------------------------------------
(* The pause marker.                                                       *)

\* write_pause: the TTL is finite and capped.
WritePause(who) == marker' = [by |-> who, date |-> "live"]

\* The same marker with another date.
Redated(date) == [by |-> marker.by, date |-> date]

\* clear_pause never raises; what it cannot delete stays.
ClearPause == \/ marker' = NoMarker /\ Fine
              \/ Fault /\ UNCHANGED marker

\* Mutant: a date beyond the TTL is believed.
IsPausedTrusting(paused) ==
  \/ /\ marker.date \in {"live", "far"} /\ paused
     /\ UNCHANGED <<marker, stopped>> /\ Fine
  \/ /\ marker.date \in {"over", "bad"} /\ ~paused
     /\ ClearPause /\ UNCHANGED stopped

\* is_paused.  A clamp that cannot be written counts as no pause, and then the
\* marker is removed or left.
IsPaused(paused) ==
  \/ /\ marker.date = "live" /\ paused
     /\ UNCHANGED <<marker, stopped>> /\ Fine
  \/ /\ marker.date \in {"over", "bad"} /\ ~paused
     /\ ClearPause /\ UNCHANGED stopped
  \/ /\ marker.date = "far" /\ paused
     /\ marker' = Redated("live")
     /\ UNCHANGED stopped /\ Fine
  \/ /\ marker.date = "far" /\ ~paused
     /\ Fault /\ marker' \in {marker, NoMarker} /\ stopped' = "no"

-----------------------------------------------------------------------------
(* One iteration of the watchdog.                                          *)

Sleep ==
  /\ wd = "sleep" /\ wd' = "ping"
  /\ UNCHANGED <<fails, alive, misses, world, marker, wizard, budget, stopped>>

\* Mutant: a pong does not end the series of failures.
PingOkKept ==
  /\ wd = "ping" /\ \E p \in Procs : proc[p] = "up"
  /\ wd' = "sleep" /\ misses' = 0
  /\ UNCHANGED <<fails, alive, world, marker, wizard, budget, stopped>>

PingOk ==
  /\ wd = "ping" /\ \E p \in Procs : proc[p] = "up"
  /\ wd' = "sleep" /\ fails' = 0 /\ misses' = 0
  /\ UNCHANGED <<alive, world, marker, wizard, budget, stopped>>

\* Every way of not getting a pong, a busy pipe included.
PingFails ==
  /\ wd = "ping"
  /\ wd' = "look" /\ misses' = Capped(misses + 1)
  /\ UNCHANGED <<fails, alive, world, marker, wizard, budget, stopped>>

ShouldRestart(n, paused) == n >= Threshold /\ ~paused

\* The iteration's own count is fails + 1; main() has it when it returns.
Look ==
  /\ wd = "look"
  /\ \E paused \in BOOLEAN :
       /\ IsPaused(paused)
       /\ IF ShouldRestart(fails + 1, paused)
          THEN wd' = "kill" /\ UNCHANGED fails
          ELSE wd' = "sleep" /\ fails' = Capped(fails + 1)
  /\ UNCHANGED <<alive, misses, world, wizard, stops, builds>>

\* Stop-Process only signals.
Kill ==
  /\ wd = "kill" /\ wd' = "wait"
  /\ \/ /\ proc' = [p \in Procs |-> IF p \in Matched THEN "dying" ELSE proc[p]]
        /\ Fine
     \/ Fault /\ UNCHANGED proc
  /\ UNCHANGED <<fails, alive, misses, mutex, marker, wizard, stops, builds,
                 stopped>>

\* _wait_dead returns when none is left or when its bound has passed: what comes
\* after cannot rely on it.
WaitDead ==
  /\ wd = "wait" /\ wd' = "start"
  /\ UNCHANGED <<fails, alive, misses, world, marker, wizard, budget, stopped>>

\* schtasks /run starts a process unless all are taken.
Start ==
  /\ wd = "start" /\ wd' = "count"
  /\ \/ /\ \E p \in Procs \ Spared :
             proc[p] = "absent" /\ proc' = [proc EXCEPT ![p] = "starting"]
        /\ Fine
     \/ Procs \ Spared = Matched /\ UNCHANGED proc /\ Fine
     \/ Fault /\ UNCHANGED proc
  /\ UNCHANGED <<fails, alive, misses, mutex, marker, wizard, stops, builds,
                 stopped>>

Count ==
  /\ wd = "count" /\ wd' = "clear"
  /\ \/ alive' = (Matched # {}) /\ Fine
     \/ Fault /\ alive' = FALSE
  /\ UNCHANGED <<fails, misses, world, marker, wizard, stops, builds, stopped>>

\* restart_outcome decides whether the loop backs off.
Clear ==
  /\ wd = "clear"
  /\ ClearPause
  /\ wd' = IF alive THEN "sleep" ELSE "backoff"
  /\ fails' = 0 /\ misses' = 0 /\ alive' = FALSE
  /\ UNCHANGED <<world, wizard, stops, builds, stopped>>

BackOff ==
  /\ wd = "backoff" /\ wd' = "sleep"
  /\ UNCHANGED <<fails, alive, misses, world, marker, wizard, budget, stopped>>

\* An exception ends the iteration and main() keeps the count it had.
Throws ==
  /\ wd \notin {"sleep", "backoff"} /\ wd' = "sleep" /\ alive' = FALSE
  /\ Fault
  /\ UNCHANGED <<fails, misses, world, marker, wizard, stops, builds,
                 stopped>>

\* The task scheduler restarts a watchdog that died, or the user logs on again.
WatchdogRestarts ==
  /\ wd' = "ping" /\ fails' = 0 /\ misses' = 0 /\ alive' = FALSE
  /\ Fault
  /\ UNCHANGED <<world, marker, wizard, stops, builds, stopped>>

-----------------------------------------------------------------------------
(* The service's processes.                                                *)

To(p, life) == proc' = [proc EXCEPT ![p] = life]
others == <<watch, wizard>>

\* By the logon task, the tray or a developer: the stop is over.
Launch(p) ==
  /\ proc[p] = "absent" /\ To(p, "starting")
  /\ stopped' = "no"
  /\ UNCHANGED <<others, mutex, marker, budget>>

\* Mutant: the loser of the mutex serves all the same.
TakeMutexAnyway(p) ==
  /\ proc[p] = "starting" /\ To(p, "clearing")
  /\ mutex' = IF mutex = NoProc THEN p ELSE mutex
  /\ UNCHANGED <<others, marker, budget, stopped>>

\* CreateMutex: a second instance leaves at once.
TakeMutex(p) ==
  /\ proc[p] = "starting"
  /\ IF mutex = NoProc THEN mutex' = p /\ To(p, "clearing")
     ELSE To(p, "absent") /\ UNCHANGED mutex
  /\ UNCHANGED <<others, marker, budget, stopped>>

\* A legitimate start clears a lingering pause, then warms up and serves.
ClearsPause(p) ==
  /\ proc[p] = "clearing" /\ To(p, "up")
  /\ ClearPause /\ stopped' = "no"
  /\ UNCHANGED <<others, mutex, stops, builds>>

\* The shutdown command: the marker first, best-effort, then the stop flag.
Shutdown(p) ==
  /\ proc[p] = "up" /\ stops > 0 /\ stops' = stops - 1
  /\ To(p, "stopping")
  /\ \/ /\ WritePause("stop") /\ Fine
        /\ stopped' = IF wd \in Restarting THEN "late" ELSE "held"
     \/ Fault /\ UNCHANGED <<marker, stopped>>
  /\ UNCHANGED <<others, mutex, builds>>

\* Its end, however it came, gives the mutex back.
Gone(p) ==
  /\ proc[p] \in {"stopping", "dying"} /\ To(p, "absent")
  /\ mutex' = IF mutex = p THEN NoProc ELSE mutex
  /\ UNCHANGED <<others, marker, budget, stopped>>

Crash(p) ==
  /\ proc[p] # "absent" /\ To(p, "absent")
  /\ mutex' = IF mutex = p THEN NoProc ELSE mutex
  /\ Fault
  /\ UNCHANGED <<others, marker, stops, builds, stopped>>

Hang(p) ==
  /\ proc[p] = "up" /\ To(p, "hung") /\ Fault
  /\ UNCHANGED <<others, mutex, marker, stops, builds, stopped>>

Recover(p) ==
  /\ proc[p] = "hung" /\ To(p, "up")
  /\ UNCHANGED <<others, mutex, marker, budget, stopped>>

-----------------------------------------------------------------------------
(* The wizard's build, time, and what else happens to the marker.          *)

\* A stop that stands is the wizard's to lose from now on.
Taken == IF stopped = "held" THEN "taken" ELSE stopped

\* _pause_watchdog writes over whatever is there.
Build ==
  /\ wizard = "idle" /\ builds > 0 /\ builds' = builds - 1
  /\ \/ WritePause("build") /\ stopped' = Taken /\ wizard' = "building" /\ Fine
     \/ Fault /\ wizard' = "building" /\ UNCHANGED <<marker, stopped>>
  /\ UNCHANGED <<watch, world, stops>>

\* _resume_watchdog reads the marker once the call has ended, as it may at once
\* when no service is there.
BuildEnds ==
  /\ wizard = "building"
  /\ wizard' = IF marker.by = "build" /\ marker.date # "bad" THEN "resume"
               ELSE "idle"
  /\ UNCHANGED <<watch, world, marker, budget, stopped>>

Resume ==
  /\ wizard = "resume" /\ wizard' = "idle"
  /\ ClearPause
  /\ stopped' = IF marker' = NoMarker THEN Taken ELSE stopped
  /\ UNCHANGED <<watch, world, stops, builds>>

\* Time passes: the marker's date with it, and with that a stop's hold.
Expire ==
  /\ marker.date = "live" /\ marker' = Redated("over")
  /\ stopped' = "no"
  /\ UNCHANGED <<watch, world, wizard, budget>>

\* The clock is set back, a foreign writer or a torn write.
Disturb ==
  /\ marker.date = "live" /\ Fault
  /\ \/ marker' = Redated("far") /\ UNCHANGED stopped
     \/ marker' = Redated("bad") /\ stopped' = "no"
  /\ UNCHANGED <<watch, world, wizard, stops, builds>>

-----------------------------------------------------------------------------
WdStep == \/ Sleep \/ PingOk \/ PingFails \/ Look \/ Kill \/ WaitDead \/ Start
          \/ Count \/ Clear \/ BackOff

ProcStep(p) == TakeMutex(p) \/ ClearsPause(p) \/ Gone(p)

WizardStep == BuildEnds \/ Resume

Next ==
  \/ WdStep \/ Throws \/ WatchdogRestarts
  \/ \E p \in Procs : \/ ProcStep(p) \/ Launch(p) \/ Shutdown(p) \/ Crash(p)
                      \/ Hang(p) \/ Recover(p)
  \/ WizardStep \/ Build \/ Expire \/ Disturb

Spec == Init /\ [][Next]_vars

\* The loop sleeps and pings for ever, the build's call has a timeout, time
\* passes and a dying process goes.  A start takes less than the Threshold rounds
\* of 30 s after which it could be killed: one that is tried for ever succeeds.
FairSpec ==
  /\ Spec
  /\ WF_vars(WdStep) /\ WF_vars(WizardStep) /\ WF_vars(Expire)
  /\ \A p \in Procs : /\ WF_vars(Gone(p))
                       /\ SF_vars(TakeMutex(p)) /\ SF_vars(ClearsPause(p))

-----------------------------------------------------------------------------
\* The type of every variable; no marker is ever written with an endless date.
TypeOK ==
  /\ wd \in Steps /\ fails \in 0 .. Threshold /\ alive \in BOOLEAN
  /\ proc \in [Procs -> Lives] /\ mutex \in Procs \union {NoProc}
  /\ marker \in Markers /\ wizard \in {"idle", "building", "resume"}
  /\ faults \in 0 .. MaxFaults /\ stops \in 0 .. MaxStops
  /\ builds \in 0 .. MaxBuilds
  /\ misses \in 0 .. Threshold
  /\ stopped \in {"no", "held", "late", "taken"}

\* However restarts, logon launches and slow deaths overlap, one process at most
\* is past the mutex of serve_forever.
OneServer ==
  \A p, q \in Procs :
    {proc[p], proc[q]} \subseteq {"clearing", "up", "hung", "stopping"} => p = q

\* The watchdog kills only after Threshold pings failed in a row, whatever
\* exceptions and restarts of its own came in between (_iteration, main); and a
\* stop that stood before it decided is not undone by it until the marker runs
\* out, is disturbed, or a build of the wizard takes it over.
KillJustified ==
  [][wd = "kill" /\ wd' = "wait" => misses >= Threshold /\ stopped # "held"]_vars

\* "The watchdog does not resurrect an intentional stop", also not one that a
\* build of the wizard met.
StopStays ==
  [][wd = "kill" /\ wd' = "wait" => stopped \notin {"held", "taken"}]_vars

\* Once faults, stops and builds cease, a service is up again and again: no
\* pause lasts for ever, no slow death leaves the machine without one.  A hung
\* developer's process that holds the mutex is not killed, by design.
Supervised == []<>(\/ \E p \in Procs : proc[p] = "up"
                   \/ mutex \in Spared)
=============================================================================
