-------------------------------- MODULE MCOnDisk ------------------------------
(***************************************************************************)
(* Two programs whose state outlives them in a file: the lockout and the   *)
(* build with its stamp.  They share no variable: a behaviour exercises    *)
(* one of them and leaves the other in an initial state.                   *)
(***************************************************************************)
EXTENDS Lockout, Release

CONSTANTS service, tray, watchdog

VARIABLE program  \* the one this behaviour exercises

MCAttempts == 1 .. 3
MCDurations == {0, 2}

\* One name of every kind the gate tells apart.
MCRoot ==
  [svc |-> "project", gui |-> "project", umath |-> "numpy", exceptions |-> "numpy",
   cyutility |-> "scipy", external |-> "scipy", timezone |-> "pywin32", vendor |-> "vendor",
   legacy |-> "numpy"]
MCTargets == [x \in {service, tray, watchdog} |->
                IF x = service THEN {"svc"} ELSE IF x = tray THEN {"gui"} ELSE {}]
MCSources == [exceptions |-> {}, external |-> {"__import__"}, vendor |-> {"frozen"}, timezone |-> {},
              legacy |-> {}]
MCEmbeds == [umath |-> {"umath", "exceptions", "svc"}, cyutility |-> {"cyutility", "vendor", "legacy"}]
MCExact == [vendor |-> {"frozen", "_MEIPASS"}]
MCWild == [scipy |-> {"__import__", "import_module"}]

Everything == {"svc", "gui", "exceptions", "external", "timezone", "vendor"}
Exe(archive) == [own |-> TRUE, relative |-> FALSE, archive |-> archive]
Whole ==
  [exes |-> [x \in {service, tray, watchdog} |-> Exe(Everything)],
   exts |-> {"umath", "cyutility"}, shipped |-> [n \in {"vendor"} |-> {"frozen"}],
   objects |-> [o \in {"meanshape"} |-> "same"], numpySame |-> TRUE, libs |-> TRUE,
   pywintypes |-> TRUE, heals |-> TRUE]
Lacks(names, exes) ==
  [Whole EXCEPT !.exes = [x \in DOMAIN @ |-> IF x \in exes THEN Exe(Everything \ names) ELSE @[x]]]

\* The builds that were shipped blind, one defect each.
MCBundles ==
  {Whole, Lacks({"timezone"}, {watchdog}),
   [Whole EXCEPT !.heals = FALSE]}

MCRank == [v \in Versions |-> IF v = "0.9" THEN 2 ELSE 1]

EitherInit ==
  /\ program \in {"lockout", "build"}
  /\ Init
  /\ program = "build" => now = 0 /\ max = 1 /\ secs = 0 /\ ~readable
  /\ ReleaseInit

EitherNext ==
  /\ UNCHANGED program
  /\ \/ program = "lockout" /\ Next /\ UNCHANGED releaseVars
     \/ program = "build" /\ ReleaseNext /\ UNCHANGED vars

EitherSpec == EitherInit /\ [][EitherNext]_<<program, vars, releaseVars>>
=============================================================================
