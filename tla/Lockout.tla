------------------------------- MODULE Lockout -------------------------------
(***************************************************************************)
(* face_service/lockout.py: the lockout object of the running service, its *)
(* JSON file, and the process that may die and be started again.           *)
(***************************************************************************)
EXTENDS LockoutOps

CONSTANTS MaxTime,      \* bound: the wall clock stays in 0 .. MaxTime
          Attempts,     \* the max_face_attempts values a config may carry
          Durations,    \* the lockout_seconds values a config may carry
          SaveCanFail   \* may _save() meet an OSError?

ASSUME LockoutAssumption ==
  /\ MaxTime \in Nat
  /\ Attempts \subseteq Nat \ {0} /\ Attempts # {}
  /\ Durations \subseteq Nat /\ Durations # {}
  /\ SaveCanFail \in BOOLEAN

VARIABLES now,       \* time.time()
          max,       \* max_attempts in force
          secs,      \* lockout_seconds in force
          up,        \* is the service process alive?
          mem,       \* _fails and _locked_until of the live object
          disk,      \* what lockout.json holds
          readable,  \* does lockout.json parse to a sane state?
          last       \* history: the last call that moved the counter

config == <<max, secs>>
file == <<disk, readable>>
vars == <<now, config, up, mem, file, last>>

\* _load: whatever is not a sane state starts clean.
Loaded == IF readable THEN disk ELSE Clean

Init ==
  /\ now \in 0 .. MaxTime
  /\ max \in Attempts
  /\ secs \in Durations
  /\ up = TRUE
  /\ readable \in BOOLEAN
  /\ disk = Clean
  /\ mem = Loaded
  /\ last = "none"

\* _save of a new state: atomic, and an OSError leaves the old file in place.
Save(new) ==
  \/ disk' = new /\ readable' = TRUE
  \/ SaveCanFail /\ UNCHANGED file

\* Mutant of RecordSuccess, for DiskCurrent: the cleared counter is not saved.
RecordSuccessUnsaved ==
  /\ up
  /\ mem' = Clean
  /\ last' = "amnesty"
  /\ UNCHANGED <<now, config, up, file>>

\* record(True): a state that is clean already is not saved again.
RecordSuccess ==
  /\ up
  /\ mem' = Clean
  /\ last' = "amnesty"
  /\ IF mem = Clean THEN UNCHANGED file ELSE Save(Clean)
  /\ UNCHANGED <<now, config, up>>

\* record(False): while a lockout runs, the failure is neither counted nor saved.
RecordFailure ==
  /\ up
  /\ mem' = AfterFailure(mem, now, max, secs)
  /\ IF IsLocked(mem, now)
     THEN UNCHANGED <<file, last>>
     ELSE Save(mem') /\ last' = "failure"
  /\ UNCHANGED <<now, config, up>>

Reset ==
  /\ up
  /\ mem' = Clean
  /\ last' = "amnesty"
  /\ Save(Clean)
  /\ UNCHANGED <<now, config, up>>

\* reload_config hands the live object new thresholds; its state stays.
Reconfigure ==
  /\ up
  /\ max' \in Attempts
  /\ secs' \in Durations
  /\ UNCHANGED <<now, up, mem, file, last>>

\* The process is killed: everything in memory is gone.
Die ==
  /\ up
  /\ up' = FALSE
  /\ mem' = Clean
  /\ UNCHANGED <<now, config, file, last>>

\* Mutant of Start, for IsALedger: only a running lockout survives the restart.
StartRefunds ==
  /\ ~up
  /\ up' = TRUE
  /\ max' \in Attempts
  /\ secs' \in Durations
  /\ mem' = IF IsLocked(Loaded, now) THEN Loaded ELSE Clean
  /\ UNCHANGED <<now, file, last>>

\* __init__ of the next process: thresholds from its config, state from disk.
Start ==
  /\ ~up
  /\ up' = TRUE
  /\ max' \in Attempts
  /\ secs' \in Durations
  /\ mem' = Loaded
  /\ UNCHANGED <<now, file, last>>

\* The wall clock advances, or is set, forwards or backwards.
ClockMoves ==
  /\ now' \in 0 .. MaxTime
  /\ UNCHANGED <<config, up, mem, file, last>>

Next ==
  \/ RecordSuccess
  \/ RecordFailure
  \/ Reset
  \/ Reconfigure
  \/ Die
  \/ Start
  \/ ClockMoves

Spec == Init /\ [][Next]_vars

-----------------------------------------------------------------------------
(* Properties *)

\* The service's lockout state always has the shape lockout.py gives it.
TypeOK ==
  /\ now \in Nat
  /\ max \in Nat \ {0}
  /\ secs \in Nat
  /\ up \in BOOLEAN
  /\ readable \in BOOLEAN
  /\ mem \in LockoutState
  /\ disk \in LockoutState
  /\ last \in {"none", "failure", "amnesty"}

\* When every save succeeds, a restart at any moment would bring back exactly
\* the state the live object holds: lockout.py saves on every path that
\* changes it, and skips the save only where nothing changed.
DiskCurrent == (~SaveCanFail /\ up) => Loaded = mem

\* The ledger a reader of the lockout sees: the live object while the service
\* is up, and what the next process will load while it is down.
Ledger == INSTANCE StrikeLedger WITH ledger <- IF up THEN mem ELSE Loaded

\* With working saves the lockout, process deaths and restarts included, is
\* the restart-proof ledger of StrikeLedger: no kill refunds a strike, ends a
\* lockout or lengthens one.
IsALedger == Ledger!Spec

\* The module docstring's promise, taken as stated: bringing the service up
\* again never ends a lockout that was running when it went down.
RestartKeepsLockout ==
  [][(up /\ ~up' /\ IsLocked(mem, now)) => IsLocked(Loaded, now)]_vars
=============================================================================
