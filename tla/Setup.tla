-------------------------------- MODULE Setup ---------------------------------
(***************************************************************************)
(* What changes an installation: tools/register_tasks.ps1, the only script *)
(* that touches the scheduled tasks and their processes, Setup and its     *)
(* uninstaller (installer.iss), credential_provider/register.ps1 and       *)
(* tools/uninstall.ps1, on one user's session. The machine may restart     *)
(* between any two steps, and the user may give Setup up.                  *)
(***************************************************************************)
EXTENDS Naturals, Sequences

CONSTANTS
  Tasks,        \* the tasks tasks.psd1 declares for this layout
  serviceTask, watchdogTask,
  Restartable   \* those it gives RestartOnFailure: the service is not one

ASSUME SetupAssumption ==
  /\ serviceTask \in Tasks /\ watchdogTask \in Tasks
  /\ Restartable \subseteq Tasks \ {serviceTask}

VARIABLES
  \* the machine
  tasks,      \* the declared tasks that are registered
  orphan,     \* is a task registered that is no longer declared?
  believed,   \* the tasks the scheduler believes to be running
  processes,  \* the tasks whose process is alive
  failed,     \* the tasks the scheduler is about to run again
  paused,     \* is the watchdog told not to restart the service?
  layout,     \* "Installed" by Setup, or "Dev": run from the repository's .venv
  tree,       \* is there what they run from: {app} or .venv?
  gate,       \* is {app}\postinstall\register_tasks.ps1 there?
  cp,         \* is the credential provider registered?
  \* the scripts
  script,     \* which one runs
  stage,      \* where it is
  action,     \* the registrar's -Action, or "none" when it does not run
  nth,        \* which of the action's steps
  todo,       \* what the step's loop has left
  doomed,     \* what Stop-FuAndWait has signalled
  ok,         \* did the registrar that Setup ran exit with 0? Nobody else looks
  verdict,    \* what register.ps1 or uninstall.ps1 reported last
  \* history
  installed,  \* every declared task was registered, and no removal was asked for
  revived,    \* the watchdog ran the service since its task was stopped
  unread,     \* a section of the last inventory could not be read
  noop,       \* a start did nothing although the process was gone
  blind,      \* the count Setup asked for could not read the list of processes
  unstopped   \* the tasks whose stop it tried in vain, and did not see it

site == <<layout, tree, gate>>
lapses == <<revived, blind, unstopped>>
machineVars == <<tasks, orphan, believed, processes, failed, paused, site, cp>>
scriptVars == <<script, stage, action, nth, todo, doomed, ok, verdict>>
setupHistory == <<installed, unread, noop, lapses>>
setupVars == <<machineVars, scriptVars, setupHistory>>

\* The report of an earlier command is no longer about this machine.
Forget == verdict' = "none" /\ unread' = FALSE

\* What the registrar did not see bears on nothing any more.
Heeded == blind' = FALSE /\ unstopped' = {} /\ revived' = FALSE

-----------------------------------------------------------------------------
(* The machine *)

\* Start-ScheduledTask, schtasks /run or a trigger: nothing for a task that is
\* believed to run; a second process of a kind exits at once.
RunTask(t) ==
  IF t \in tasks \ (believed \cup processes) /\ tree
  THEN processes' = processes \cup {t} /\ believed' = believed \cup {t}
  ELSE UNCHANGED <<processes, believed>>

\* A process ends by itself; the scheduler runs a failed one again if declared so.
ProcessEnds(t) ==
  /\ t \in processes
  /\ processes' = processes \ {t} /\ believed' = believed \ {t}
  /\ failed' = IF t \in Restartable \cap believed THEN failed \cup {t} ELSE failed
  /\ doomed' = doomed \ {t}
  /\ UNCHANGED <<tasks, orphan, paused, site, cp, script, stage, action, nth, todo, ok,
                 verdict, setupHistory>>

RunAgain(t) ==
  /\ t \in failed
  /\ failed' = failed \ {t}
  /\ RunTask(t)
  /\ UNCHANGED <<tasks, orphan, paused, site, cp, scriptVars, setupHistory>>

\* The watchdog finds no service and runs its task, unless it is paused.
WatchdogRuns ==
  /\ watchdogTask \in processes /\ serviceTask \notin processes /\ ~paused
  /\ RunTask(serviceTask)
  /\ revived' = (action # "none") /\ UNCHANGED <<blind, unstopped>>
  /\ UNCHANGED <<tasks, orphan, failed, paused, site, cp, scriptVars,
                 installed, unread, noop>>

\* A process that was signalled dies in its own time; the scheduler may miss it.
DoomedDies(t) ==
  /\ t \in doomed
  /\ doomed' = doomed \ {t} /\ processes' = processes \ {t}
  /\ believed' \in {believed, believed \ {t}}
  /\ failed' = IF t \in Restartable \cap believed /\ t \notin believed'
               THEN failed \cup {t} ELSE failed
  /\ UNCHANGED <<tasks, orphan, paused, site, cp, script, stage, action, nth, todo,
                 ok, verdict, setupHistory>>

\* The pause runs out.
PauseExpires ==
  /\ paused /\ paused' = FALSE
  /\ UNCHANGED <<tasks, orphan, believed, processes, failed, site, cp,
                 scriptVars, setupHistory>>

\* A power cut: whatever script ran is gone, and at logon the tasks run.
MachineRestarts ==
  /\ script # "none" \/ action # "none"
  /\ processes' = (IF tree THEN tasks ELSE {}) /\ believed' = processes'
  /\ failed' = {} /\ doomed' = {}
  /\ script' = "none" /\ stage' = "none" /\ action' = "none" /\ nth' = 1 /\ todo' = {}
  /\ Forget
  /\ ok' = FALSE /\ Heeded
  /\ UNCHANGED <<tasks, orphan, paused, site, cp, installed, noop>>

-----------------------------------------------------------------------------
(* register_tasks.ps1 *)

\* Phase A is the plan, the rest is phase B.
Steps ==
  [Register |-> <<"plan", "register", "orphans", "ask", "await", "stop", "kill", "wait", "start">>,
   Unregister |-> <<"plan", "ask", "await", "kill", "wait", "remove", "kill", "wait", "count">>,
   Stop |-> <<"plan", "ask", "await", "stop", "kill", "wait", "count">>,
   Restart |-> <<"plan", "ask", "await", "stop", "kill", "wait", "start">>,
   Start |-> <<"plan", "start">>]

On(step) == action # "none" /\ Steps[action][nth] = step
Exit(c) == action' = "none" /\ nth' = 1 /\ todo' = {} /\ ok' = (c = 0 /\ script = "setup")
Proceed ==
  IF nth < Len(Steps[action])
  THEN nth' = nth + 1 /\ todo' = Tasks /\ UNCHANGED <<action, ok>>
  ELSE Exit(0)
Loop(t) == todo' = todo \ {t} /\ UNCHANGED <<nth, action, ok>>
outside == <<script, stage, verdict>>

\* Phase A only reads: no declaration, a malformed one, no install directory, a
\* SID of nobody, an object that cannot be built.
PlanFails == Exit(1)

\* A dry run ends here too.
Plans ==
  /\ On("plan")
  /\ Proceed \/ PlanFails
  /\ UNCHANGED <<machineVars, doomed, outside, setupHistory>>

\* A registration that throws ends the script.
Registers ==
  /\ On("register")
  /\ \/ \E t \in todo : tasks' = tasks \cup {t} /\ Loop(t)
     \/ todo # {} /\ Exit(1) /\ UNCHANGED tasks
     \/ todo = {} /\ Proceed /\ UNCHANGED tasks
  /\ installed' = (installed \/ todo = {})
  /\ UNCHANGED <<orphan, believed, processes, failed, paused, site, cp,
                 doomed, outside, unread, noop, lapses>>

RemovesOrphans ==
  /\ On("orphans")
  /\ orphan' \in {orphan, FALSE}
  /\ Proceed
  /\ UNCHANGED <<tasks, believed, processes, failed, paused, site, cp,
                 doomed, outside, setupHistory>>

\* Invoke-GracefulServiceShutdown: no client, a client killed before or after the
\* service heard it, or a service that pauses the watchdog and leaves.
Asks ==
  /\ On("ask")
  /\ \/ UNCHANGED paused
     \/ serviceTask \in processes /\ paused' = TRUE
  /\ Proceed
  /\ UNCHANGED <<tasks, orphan, believed, processes, failed, site, cp, doomed,
                 outside, setupHistory>>

\* Five seconds for the service to be gone; the end of it is ProcessEnds.
Awaits ==
  /\ On("await")
  /\ Proceed
  /\ UNCHANGED <<machineVars, doomed, outside, setupHistory>>

\* Stop-ScheduledTask ends the process it knows of and what was to run again, or
\* it fails and nobody is told.
StopsTasks ==
  /\ On("stop")
  /\ \/ \E t \in todo :
          /\ Loop(t)
          /\ failed' = failed \ {t}
          /\ processes' = (IF t \in tasks \cap believed THEN processes \ {t} ELSE processes)
          /\ believed' = (IF t \in tasks THEN believed \ {t} ELSE believed)
          /\ doomed' = doomed \cap processes'
          /\ revived' = (revived /\ t # serviceTask)
          /\ UNCHANGED unstopped
     \/ \E t \in todo :
          /\ Loop(t) /\ unstopped' = unstopped \cup {t}
          /\ UNCHANGED <<failed, processes, believed, doomed, revived>>
     \/ todo = {} /\ Proceed /\ UNCHANGED <<failed, processes, believed, doomed, revived, unstopped>>
  /\ UNCHANGED <<tasks, orphan, paused, site, cp, outside, installed, unread, noop, blind>>

\* Stop-FuAndWait: one snapshot is signalled, whatever comes of it: what the list
\* left out, or what could not be killed, is a doomed process that does not die...
Kills ==
  /\ On("kill")
  /\ doomed' = processes
  /\ Proceed
  /\ UNCHANGED <<machineVars, outside, setupHistory>>

\* ...and the wait ends when nothing is alive, or after ten seconds.
Waits ==
  /\ On("wait")
  /\ Proceed
  /\ UNCHANGED <<machineVars, doomed, outside, setupHistory>>

\* A removal that fails is silent.
Removes ==
  /\ On("remove")
  /\ \/ \E t \in todo :
          /\ tasks' \in {tasks, tasks \ {t}} /\ Loop(t)
          /\ believed' = (IF t \in tasks' THEN believed ELSE believed \ {t})
          /\ failed' = failed \cap tasks'
          /\ UNCHANGED orphan
     \/ todo = {} /\ orphan' \in {orphan, FALSE} /\ Proceed /\ UNCHANGED <<tasks, believed, failed>>
  /\ UNCHANGED <<processes, paused, site, cp, doomed, outside, setupHistory>>

\* A list that cannot be read is an empty one.
Counts ==
  /\ On("count")
  /\ \/ Exit(IF processes = {} THEN 0 ELSE 1) /\ UNCHANGED blind
     \/ Exit(0) /\ blind' = (script = "setup")
  /\ unstopped' = (IF script = "setup" THEN unstopped ELSE {}) /\ revived' = FALSE
  /\ UNCHANGED <<machineVars, doomed, outside, installed, unread, noop>>

\* A start may fail unseen as well.
StartsTasks ==
  /\ On("start")
  /\ \/ \E t \in todo :
          /\ RunTask(t) \/ UNCHANGED <<processes, believed>>
          /\ Loop(t) /\ UNCHANGED lapses
          /\ noop' = (noop \/ (t \in believed /\ t \notin processes /\ action # "Start"
                               /\ t \notin unstopped /\ ~(t = serviceTask /\ revived)))
     \/ todo = {} /\ Proceed /\ Heeded /\ UNCHANGED <<processes, believed, noop>>
  /\ UNCHANGED <<tasks, orphan, failed, paused, site, cp, doomed, outside,
                 installed, unread>>

Registrar ==
  Plans \/ Registers \/ RemovesOrphans \/ Asks \/ Awaits \/ StopsTasks \/ Kills \/ Waits
    \/ Removes \/ Counts \/ StartsTasks

\* What a script does to run it.
Calls(a) ==
  /\ action' = a /\ nth' = 1 /\ todo' = Tasks /\ ok' = FALSE
  /\ Heeded

-----------------------------------------------------------------------------
(* An administrator at a prompt, and register.ps1 *)

Quiet == script = "none" /\ action = "none"

\* clean_restart.ps1 is the call with Restart.
AdminRuns(a) ==
  /\ Quiet
  /\ Calls(a)
  /\ installed' = (installed /\ a # "Unregister")
  /\ Forget
  /\ UNCHANGED <<machineVars, script, stage, doomed, noop>>

\* register.ps1: a missing DLL, or one that a non-administrator could replace.
CpRefused == Forget /\ UNCHANGED cp

\* The DLL: in {app}, or built by the developer and nothing removes it.
Dll == tree \/ layout = "Dev"

\* A regsvr32 that fails, one whose success the registry does not confirm, or one
\* that it does.
RegisterCp(want) ==
  \/ CpRefused
  \/ Dll /\ cp' \in BOOLEAN /\ Forget
  \/ /\ Dll /\ cp' \in BOOLEAN /\ cp' = want
     /\ verdict' = IF want THEN "registered" ELSE "unregistered"
     /\ unread' = FALSE

AdminRegistersCp(want) ==
  /\ Quiet
  /\ RegisterCp(want)
  /\ UNCHANGED <<tasks, orphan, believed, processes, failed, paused, site, script, stage,
                 action, nth, todo, doomed, ok, installed, noop, lapses>>

-----------------------------------------------------------------------------
(* Setup. What [Run] returns is not looked at; what the registrar returns is. *)

In(s, step) == script = s /\ stage = step /\ action = "none"
theRest == <<tasks, orphan, believed, processes, failed, paused, doomed, noop>>
noCall == <<action, nth, todo, ok>>
Quits == script' = "none" /\ stage' = "none"

\* PrepareToInstall: the new registrar stops an existing installation, which is
\* known by its registrar; where that is gone Setup goes straight to the files.
\* Tasks that a logon is about to run are taken to have run before.
PrepareUnregisters == "Unregister"   \* as before F-35
PrepareAction == "Stop"

SetupStarts ==
  /\ Quiet /\ Forget
  /\ layout = "Installed" /\ script' = "setup"
  /\ \/ ~gate /\ stage' = "copy" /\ UNCHANGED <<noCall, lapses>>
     \/ gate /\ stage' = "prepared" /\ Calls(PrepareAction)
  /\ UNCHANGED <<theRest, installed, site, cp>>

\* Any exit code but 0 ends Setup before it copies anything.
SetupPrepared ==
  /\ In("setup", "prepared")
  /\ \/ ok /\ stage' = "copy" /\ UNCHANGED <<script, lapses>>
     \/ ~ok /\ Quits /\ Heeded
  /\ UNCHANGED <<theRest, installed, site, cp, noCall, verdict, unread>>

\* The user cancels, or a file cannot be written.
SetupCopies ==
  /\ In("setup", "copy")
  /\ \/ tree' = TRUE /\ gate' = TRUE /\ stage' = "regsvr" /\ UNCHANGED script
     \/ tree' \in {tree, TRUE} /\ gate' \in {gate, tree'} /\ Quits
  /\ Heeded
  /\ UNCHANGED <<theRest, installed, layout, cp, noCall, verdict, unread>>

\* regsvr32 when the task is ticked, then RegisterTasks.
SetupRegisters ==
  /\ In("setup", "regsvr")
  /\ cp' \in {cp, TRUE} /\ stage' = "done" /\ Calls("Register")
  /\ UNCHANGED <<theRest, installed, site, script, verdict, unread>>

SetupEnds ==
  /\ In("setup", "done")
  /\ Quits
  /\ UNCHANGED <<theRest, installed, site, cp, noCall, lapses, verdict, unread>>

\* The uninstaller of Setup: [UninstallRun], whose results nobody reads, then the
\* files that are not in use, among them the registrar even if others are.
RemoverStarts ==
  /\ Quiet /\ layout = "Installed" /\ tree /\ Forget
  /\ script' = "remover" /\ stage' = "files"
  /\ \/ gate /\ Calls("Unregister")
     \/ ~gate /\ UNCHANGED <<noCall, lapses>>
  /\ installed' = FALSE
  /\ UNCHANGED <<theRest, site, cp>>

RemoverRemoves ==
  /\ In("remover", "files")
  /\ cp' \in {cp, FALSE}
  /\ tree' \in {TRUE, processes # {}} /\ gate' \in {gate /\ tree', FALSE}
  /\ Quits
  /\ UNCHANGED <<theRest, installed, layout, noCall, lapses, verdict, unread>>

-----------------------------------------------------------------------------
(* uninstall.ps1 -Force *)

UninstallStarts ==
  /\ Quiet /\ Forget
  /\ script' = "uninstall" /\ stage' = "cp"
  /\ Calls("Unregister") /\ installed' = FALSE
  /\ UNCHANGED <<theRest, site, cp>>

\* The script that owns the keys first, then the keys themselves, whatever it said.
UninstallsCp ==
  /\ In("uninstall", "cp")
  /\ cp' \in {cp, FALSE} /\ stage' = "trees"
  /\ UNCHANGED <<theRest, installed, site, script, noCall, lapses, verdict, unread>>

\* .venv, standing here for all it was asked to remove; a process holds its own
\* open. {app} is left to Setup's uninstaller.
UninstallsTrees ==
  /\ In("uninstall", "trees")
  /\ tree' \in {tree, tree /\ (layout = "Installed" \/ processes # {})}
  /\ stage' = "verify"
  /\ UNCHANGED <<theRest, layout, gate, installed, cp, script, noCall, lapses, verdict, unread>>

Sections == {"tasks", "cp", "files"}
Present(section) ==
  CASE section = "tasks" -> tasks # {} \/ orphan
    [] section = "cp" -> cp
    [] section = "files" -> tree

\* The machine is read again. A section that cannot be read counts as empty.
Left(missed) == {s \in Sections \ missed : Present(s)}

UninstallVerifies ==
  /\ In("uninstall", "verify")
  /\ \E missed \in SUBSET Sections :
       /\ unread' = (missed # {})
       /\ verdict' = IF Left(missed) = {} THEN "clean" ELSE "incomplete"
  /\ Quits
  /\ UNCHANGED <<machineVars, noCall, doomed, installed, noop, lapses>>

-----------------------------------------------------------------------------
SetupInit ==
  /\ tasks \in {{}, Tasks} /\ orphan \in BOOLEAN
  /\ layout \in {"Installed", "Dev"}
  /\ tree = (layout = "Dev" \/ tasks # {}) /\ gate = (layout = "Installed" /\ tree)
  /\ processes = tasks /\ believed = tasks /\ failed = {}
  /\ cp = (tasks # {}) /\ paused = FALSE
  /\ script = "none" /\ stage = "none" /\ action = "none" /\ nth = 1 /\ todo = {}
  /\ doomed = {} /\ ok = TRUE /\ verdict = "none"
  /\ installed = (tasks # {}) /\ revived = FALSE /\ unread = FALSE /\ noop = FALSE
  /\ blind = FALSE /\ unstopped = {}

SetupNext ==
  \/ \E t \in Tasks : ProcessEnds(t) \/ RunAgain(t) \/ DoomedDies(t)
  \/ WatchdogRuns \/ PauseExpires \/ MachineRestarts
  \/ Registrar
  \/ \E a \in DOMAIN Steps : AdminRuns(a)
  \/ \E want \in BOOLEAN : AdminRegistersCp(want)
  \/ SetupStarts \/ SetupPrepared \/ SetupCopies \/ SetupRegisters \/ SetupEnds
  \/ RemoverStarts \/ RemoverRemoves
  \/ UninstallStarts \/ UninstallsCp \/ UninstallsTrees \/ UninstallVerifies

SetupSpec == SetupInit /\ [][SetupNext]_setupVars

\* Everything in the machine and in the scripts has its type.
SetupTypeOK ==
  /\ tasks \subseteq Tasks /\ believed \subseteq Tasks /\ processes \subseteq Tasks
  /\ failed \subseteq Restartable /\ todo \subseteq Tasks /\ doomed \subseteq Tasks
  /\ unstopped \subseteq Tasks /\ layout \in {"Installed", "Dev"}
  /\ {orphan, paused, tree, gate, cp, ok, installed, revived, unread, noop, blind}
       \subseteq BOOLEAN
  /\ action \in {"none"} \cup DOMAIN Steps /\ nth \in 1..9
  /\ script \in {"none", "setup", "remover", "uninstall"}
  /\ verdict \in {"none", "registered", "unregistered", "clean", "incomplete"}

\* Once every declared task was registered they all stay registered, until
\* someone asks for their removal: through a Setup that is refused, cancelled or
\* fails at any file, a registrar that throws in the middle of its loop, restarts
\* of the machine and stops of the stack. This is what the phase order of
\* register_tasks.ps1 and -Action Stop in PrepareToInstall are for.
TasksKept == installed => tasks = Tasks

\* What Setup is not told: the registrar it goes by is not there (an uninstaller
\* deleted it and left a process behind, or an earlier copy was broken off), the
\* registrar could not read the list of processes and counted none, or the
\* scheduler did not stop a task and may run it again.
Uninformed == ~gate \/ blind \/ unstopped # {}

\* What an exit code says is so, but for what is named. Setup writes over files
\* only while no process of the stack runs from them, unless it is Uninformed; a
\* restart or a registration never takes the word of a scheduler that still
\* believes in a process just killed (unless the stop of that task failed unseen,
\* or the watchdog had run the service again in between); register.ps1 reports
\* success only of what the registry shows; and uninstall.ps1 says CLEAN only of
\* a machine on which nothing it was asked to remove is left, if it could read
\* every section.
VerdictsTrue ==
  /\ script = "setup" /\ stage = "copy" /\ tree => processes = {} \/ Uninformed
  /\ ~noop
  /\ verdict = "registered" => cp
  /\ verdict = "unregistered" => ~cp
  /\ verdict = "clean" /\ ~unread => \A s \in Sections : ~Present(s)

\* Setup, the registrar and the uninstaller leave the machine as they say.
SetupKept == TasksKept /\ VerdictsTrue
=============================================================================
