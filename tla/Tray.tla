--------------------------------- MODULE Tray ---------------------------------
(***************************************************************************)
(* The tray's process as installed: the menu's thread (tray.py), a thread  *)
(* and a Tk interpreter per window with the workers of the Status window   *)
(* (gui.py), the threads that ask for an update (updater.py), and the      *)
(* wizards it starts (__main__.py).  The process may die at any step and   *)
(* be started again.                                                       *)
(***************************************************************************)
EXTENDS Naturals

CONSTANTS
  Windows,      \* the keys of _window_locks
  statusWindow, \* the one that polls
  Buttons,      \* of the Status window, those that ask the service (bound: each
                \* once at a time)
  Wizards,      \* bound: wizard processes at a time
  NoWizard,
  Clicks,       \* bound: update checks asked for at a time
  startup,      \* the check at startup
  Payloads,     \* what may come of asking GitHub
  current,      \* __version__
  MaxOpened,    \* bound: windows of a key in the life of a tray
  MaxStarts     \* bound: trays

Checks == Clicks \cup {startup}
Kinds == Buttons \cup {"poll"}
PayloadType ==
  [reply : {"fails", "404", "no object", "object"}, flagged : BOOLEAN, final : BOOLEAN,
   asset : BOOLEAN, version : Nat]

ASSUME TrayAssumption ==
  /\ statusWindow \in Windows /\ "poll" \notin Buttons
  /\ NoWizard \notin Wizards /\ startup \notin Clicks
  /\ current \in Nat /\ \A p \in Payloads : p \in PayloadType
  /\ MaxOpened \in Nat /\ MaxStarts \in Nat

VARIABLES
  life,     \* is it up?
  menu,     \* what the icon's thread does: a handler of Quit, or nothing
  win,      \* per key: where its thread is, the number of its window, _polling
  workers,  \* of the Status windows, also of those closed since
  posts,    \* callbacks that after() was given and the window has yet to run
  orphan,   \* is there an interpreter whose own thread did not finalize it?
  wizard,   \* the wizard processes, whoever started them: "running" with the mutex,
            \* or "unguarded" without it
  child,    \* _enroll_proc
  check,    \* per thread of the update flow: where it is, and what it told of what
  starts,
  \* history, of the last tray
  ended,    \* how it ended
  asked,    \* did Quit ask the service to stop, and was it heard?
  stubborn  \* did terminate or its wait fail?

windowVars == <<win, workers, posts, orphan>>
wizardVars == <<wizard, child>>
trayHistory == <<ended, asked, stubborn>>
trayVars == <<life, menu, windowVars, wizardVars, check, starts, trayHistory>>

NoWindow == [stage |-> "none", n |-> 0, polling |-> FALSE]
Unasked == [reply |-> "fails", flagged |-> FALSE, final |-> FALSE, asset |-> FALSE, version |-> 0]
Quiet == [stage |-> "idle", told |-> "none", of |-> Unasked]

Free == life = "up" /\ menu = "idle"  \* the menu answers one click at a time
Open(k) == win[k].stage = "open"
Worker(n, kind) == [n |-> n, kind |-> kind, at |-> "call"]

-----------------------------------------------------------------------------
(* The process *)

\* One tray: a second one finds the mutex and leaves.  (Assumed: it could be
\* created.  Where it cannot, a second tray runs beside the first.)
TrayStarts ==
  /\ life = "off" /\ starts < MaxStarts
  /\ life' = "up" /\ starts' = starts + 1
  /\ child' = NoWizard
  /\ check' = [c \in Checks |-> IF c = startup THEN [Quiet EXCEPT !.stage = "sleep"] ELSE Quiet]
  /\ ended' = "no" /\ asked' = "no" /\ stubborn' = FALSE
  /\ UNCHANGED <<menu, windowVars, wizard>>

\* Every thread of it is a daemon.
Gone(how) ==
  /\ life' = "off" /\ menu' = "idle" /\ ended' = how
  /\ win' = [k \in Windows |-> NoWindow] /\ workers' = {} /\ posts' = {}
  /\ orphan' = FALSE
  /\ check' = [c \in Checks |-> Quiet]
  /\ UNCHANGED <<wizardVars, starts, asked, stubborn>>

TrayKilled == life = "up" /\ Gone("killed")

-----------------------------------------------------------------------------
(* Windows *)

theRest == <<life, menu, wizardVars, check, starts, trayHistory>>

\* _launch_singleton: nothing while the key's thread holds its lock.
Launch(k) ==
  /\ Free /\ win[k].stage = "none" /\ win[k].n < MaxOpened
  /\ win' = [win EXCEPT ![k] = [NoWindow EXCEPT !.stage = "building", !.n = win[k].n + 1]]
  /\ UNCHANGED <<workers, posts, orphan, theRest>>

\* The constructor of the Status window ends with the first round of its poll.
Opens(k) ==
  /\ win[k].stage = "building"
  /\ win' = [win EXCEPT ![k].stage = "open", ![k].polling = (k = statusWindow)]
  /\ workers' = workers \cup (IF k = statusWindow THEN {Worker(win[k].n, "poll")} ELSE {})
  /\ UNCHANGED <<posts, orphan, theRest>>

BuildFails(k) ==
  /\ win[k].stage = "building"
  /\ win' = [win EXCEPT ![k].stage = "collect"]
  /\ UNCHANGED <<workers, posts, orphan, theRest>>

\* _refresh_loop, every two seconds.
RefreshLoop ==
  /\ Open(statusWindow) /\ ~win[statusWindow].polling
  /\ win' = [win EXCEPT ![statusWindow].polling = TRUE]
  /\ workers' = workers \cup {Worker(win[statusWindow].n, "poll")}
  /\ UNCHANGED <<posts, orphan, theRest>>

\* _ping and _probe, one of each at a time.
AskService(b) ==
  /\ Open(statusWindow) /\ \A w \in workers : w.n = win[statusWindow].n => w.kind # b
  /\ [n |-> win[statusWindow].n, kind |-> b] \notin posts
  /\ workers' = workers \cup {Worker(win[statusWindow].n, b)}
  /\ UNCHANGED <<win, posts, orphan, theRest>>

\* pipe_call returns; _on_tk hands the result over, or drops it when after()
\* raises since the window is gone.
Answered(w) ==
  /\ w \in workers /\ w.at = "call"
  /\ workers' = (workers \ {w}) \cup {[w EXCEPT !.at = "ends"]}
  /\ posts' = IF Open(statusWindow) /\ win[statusWindow].n = w.n
              THEN posts \cup {[n |-> w.n, kind |-> w.kind]} ELSE posts
  /\ UNCHANGED <<win, orphan, theRest>>

\* Mutant: the flag of the poll stays up.
RunsPostPolling(p) ==
  /\ p \in posts
  /\ posts' = posts \ {p}
  /\ UNCHANGED <<win, workers, orphan, theRest>>

\* _refresh, or a message box.
RunsPost(p) ==
  /\ p \in posts
  /\ posts' = posts \ {p}
  /\ win' = IF p.kind = "poll" THEN [win EXCEPT ![statusWindow].polling = FALSE] ELSE win
  /\ UNCHANGED <<workers, orphan, theRest>>

\* destroy takes the callbacks along.
Close(k) ==
  /\ Open(k)
  /\ win' = [win EXCEPT ![k].stage = "collect", ![k].polling = FALSE]
  /\ posts' = IF k = statusWindow THEN {} ELSE posts
  /\ UNCHANGED <<workers, orphan, theRest>>

\* obj = None, gc.collect, and the lock.
Collect(k) ==
  /\ win[k].stage = "collect"
  /\ win' = [win EXCEPT ![k].stage = "none"]
  /\ UNCHANGED <<workers, posts, orphan, theRest>>

\* A worker ends, and lets its window go; when it is the last one to do so, the
\* interpreter is left to a garbage collection in some other thread, which takes
\* the process along.
LastHolder(w) ==
  /\ win[statusWindow].n # w.n \/ win[statusWindow].stage = "none"
  /\ \A v \in workers \ {w} : v.n # w.n
WorkerEnds(w) ==
  /\ w \in workers /\ w.at = "ends"
  /\ workers' = workers \ {w}
  /\ orphan' = (orphan \/ LastHolder(w))
  /\ UNCHANGED <<win, posts, theRest>>

Finalized == orphan /\ Gone("aborted")

-----------------------------------------------------------------------------
(* Wizards *)

Alive(w) == w # NoWizard /\ wizard[w] # "none"

\* on_enroll: ignored while the last one it started is alive.
LaunchEnroll(w) ==
  /\ Free /\ ~Alive(child) /\ wizard[w] = "none"
  /\ wizard' = [wizard EXCEPT ![w] = "starting"] /\ child' = w
  /\ UNCHANGED <<life, menu, windowVars, check, starts, trayHistory>>

\* _first_instance: whoever comes second leaves, and the one before may be an
\* earlier tray's; where the mutex cannot be created, the wizard goes on without.
FirstInstance(w) ==
  /\ wizard[w] = "starting"
  /\ \E next \in {"unguarded",
                   IF \E v \in Wizards : wizard[v] = "running" THEN "none" ELSE "running"} :
       wizard' = [wizard EXCEPT ![w] = next]
  /\ UNCHANGED <<life, menu, windowVars, child, check, starts, trayHistory>>

WizardEnds(w) ==
  /\ wizard[w] # "none"
  /\ wizard' = [wizard EXCEPT ![w] = "none"]
  /\ UNCHANGED <<life, menu, windowVars, child, check, starts, trayHistory>>

-----------------------------------------------------------------------------
(* Quit *)

QuitClicked ==
  /\ Free /\ menu' = "wizard"
  /\ UNCHANGED <<life, windowVars, wizardVars, check, starts, trayHistory>>

\* _terminate_enroll: bounded, and accepted when it fails.
TerminateEnroll ==
  /\ menu = "wizard" /\ menu' = "service"
  /\ \/ ~Alive(child) /\ UNCHANGED <<wizard, stubborn>>
     \/ Alive(child) /\ wizard' = [wizard EXCEPT ![child] = "none"] /\ UNCHANGED stubborn
     \/ Alive(child) /\ stubborn' = TRUE /\ UNCHANGED wizard
  /\ UNCHANGED <<life, windowVars, child, check, starts, ended, asked>>

\* Mutant: on a daemon thread of its own, as before F-49; the process may end first.
StopServiceAside ==
  /\ menu = "service" /\ menu' = "icon"
  /\ asked' \in {"no", "heard", "unheard"}
  /\ UNCHANGED <<life, windowVars, wizardVars, check, starts, ended, stubborn>>

\* _stop_service_process, on the handler itself: three seconds, and no second
\* attempt when the service is not there or is busy with a burst or a build.
StopService ==
  /\ menu = "service" /\ menu' = "icon"
  /\ asked' \in {"heard", "unheard"}
  /\ UNCHANGED <<life, windowVars, wizardVars, check, starts, ended, stubborn>>

IconStops == menu = "icon" /\ Gone("quit")

-----------------------------------------------------------------------------
(* Updates *)

\* check_latest_status, and is_newer_than.
Released(p) == p.reply = "object" /\ ~p.flagged /\ p.final /\ p.asset
Status(p) ==
  CASE p.reply = "404" \/ (p.reply = "object" /\ (p.flagged \/ ~p.final)) -> "no-release"
    [] OTHER -> "failed"
Newer(p) == p.version > current

outside == <<life, menu, windowVars, wizardVars, starts, trayHistory>>

StartupWakes ==
  /\ check[startup].stage = "sleep"
  /\ check' = [check EXCEPT ![startup].stage = "asking"]
  /\ UNCHANGED outside

CheckUpdate(c) ==
  /\ Free /\ check[c].stage = "idle"
  /\ check' = [check EXCEPT ![c] = [Quiet EXCEPT !.stage = "asking"]]
  /\ UNCHANGED outside

Tells(c, next, what, p) ==
  check' = [check EXCEPT ![c] = [stage |-> next, told |-> what, of |-> p]]
Silent(c) == check' = [check EXCEPT ![c] = Quiet]

\* _run_update_flow: a click is told in any case, the startup's check speaks up
\* for a newer release alone.
UpdateFlow(c) ==
  /\ check[c].stage = "asking"
  /\ \E p \in Payloads :
       IF Released(p) /\ Newer(p) THEN Tells(c, "dialog", "available", p)
       ELSE IF c = startup THEN Silent(c)
       ELSE Tells(c, "idle", IF Released(p) THEN "up to date" ELSE Status(p), p)
  /\ UNCHANGED outside

\* Yes opens the page of the releases; nothing is installed.
DialogEnds(c) ==
  /\ check[c].stage = "dialog"
  /\ check' = [check EXCEPT ![c].stage = "idle"]
  /\ UNCHANGED outside

-----------------------------------------------------------------------------
TrayInit ==
  /\ life = "off" /\ menu = "idle" /\ starts = 0
  /\ win = [k \in Windows |-> NoWindow] /\ workers = {} /\ posts = {}
  /\ orphan = FALSE
  /\ wizard = [w \in Wizards |-> "none"] /\ child = NoWizard
  /\ check = [c \in Checks |-> Quiet]
  /\ ended = "no" /\ asked = "no" /\ stubborn = FALSE

WorkerStep == \E w \in workers : Answered(w) \/ WorkerEnds(w)
WindowThread(k) == Opens(k) \/ BuildFails(k) \/ Collect(k)
QuitStep == TerminateEnroll \/ StopService \/ IconStops
UpdateStep(c) == UpdateFlow(c) \/ (c = startup /\ StartupWakes)

TrayNext ==
  \/ TrayStarts \/ TrayKilled
  \/ \E k \in Windows : Launch(k) \/ WindowThread(k) \/ Close(k)
  \/ RefreshLoop \/ \E b \in Buttons : AskService(b)
  \/ WorkerStep \/ Finalized \/ \E p \in posts : RunsPost(p)
  \/ \E w \in Wizards : LaunchEnroll(w) \/ FirstInstance(w) \/ WizardEnds(w)
  \/ QuitClicked \/ QuitStep
  \/ \E c \in Clicks : CheckUpdate(c)
  \/ \E c \in Checks : UpdateStep(c) \/ DialogEnds(c)

TraySpec == TrayInit /\ [][TrayNext]_trayVars

\* pipe_call, wait and the request to GitHub have timeouts; a window's thread
\* runs what it was given.
TrayFairness ==
  /\ \A n \in 1..MaxOpened, kind \in Kinds :
       /\ WF_trayVars(\E w \in workers : w.n = n /\ w.kind = kind /\ (Answered(w) \/ WorkerEnds(w)))
       /\ WF_trayVars(\E p \in posts : p.n = n /\ p.kind = kind /\ RunsPost(p))
  /\ \A k \in Windows : WF_trayVars(WindowThread(k))
  /\ WF_trayVars(QuitStep)
  /\ \A c \in Checks : WF_trayVars(UpdateStep(c))

TrayFairSpec == TraySpec /\ TrayFairness

-----------------------------------------------------------------------------
(* Correctness *)

Stages == {"none", "building", "open", "collect"}
WizardStages == {"none", "starting", "running", "unguarded"}
TrayTypeOK ==
  /\ life \in {"off", "up"} /\ menu \in {"idle", "wizard", "service", "icon"}
  /\ win \in [Windows -> [stage : Stages, n : 0..MaxOpened, polling : BOOLEAN]]
  /\ workers \subseteq [n : 1..MaxOpened, kind : Kinds, at : {"call", "ends"}]
  /\ posts \subseteq [n : 1..MaxOpened, kind : Kinds]
  /\ wizard \in [Wizards -> WizardStages] /\ child \in Wizards \cup {NoWizard}
  /\ check \in [Checks -> [stage : {"idle", "sleep", "asking", "dialog"},
                told : {"none", "available", "up to date", "no-release", "failed"},
                of : PayloadType]]
  /\ starts \in 0..MaxStarts
  /\ ended \in {"no", "killed", "aborted", "quit"} /\ asked \in {"no", "heard", "unheard"}
  /\ {stubborn, orphan} \subseteq BOOLEAN

\* A status poll is in flight, or its result about to be shown, exactly while the
\* flag that keeps a second one away is up; what is to be shown is the open window's.
PollsOwned ==
  /\ \A p \in posts : Open(statusWindow) /\ p.n = win[statusWindow].n
  /\ Open(statusWindow) =>
       LET n == win[statusWindow].n
           calling == Worker(n, "poll") \in workers
           due == [n |-> n, kind |-> "poll"] \in posts IN
       (win[statusWindow].polling <=> (calling \/ due)) /\ ~(calling /\ due)

\* Whatever trays die, one wizard at a time gets to the camera, of those for which
\* the mutex could be created.
OneWizard ==
  \A v, w \in Wizards : wizard[v] = "running" /\ wizard[w] = "running" => v = w

\* A tray that quit has waited for its call to the service to be heard or given up,
\* before the process ended, and left no wizard of its own behind but one that
\* could not be terminated.
QuitLeavesNothing ==
  ended = "quit" => asked # "no" /\ (Alive(child) => stubborn)

\* Only a newer final release is offered, and only that at startup; who is told
\* to be up to date was told of one.
OffersTrue ==
  \A c \in Checks :
    /\ check[c].told = "available" => Released(check[c].of) /\ Newer(check[c].of)
    /\ check[c].told = "up to date" => Released(check[c].of) /\ ~Newer(check[c].of)
    /\ c = startup => check[c].told \in {"none", "available"}

TrayOrderly == PollsOwned /\ OneWizard /\ QuitLeavesNothing /\ OffersTrue

\* The Status window keeps polling, every click for an update is told something,
\* and Quit ends the process, unless the window is closed or the tray dies first.
TrayResponds ==
  /\ (Open(statusWindow) /\ win[statusWindow].polling)
       ~> (~Open(statusWindow) \/ ~win[statusWindow].polling)
  /\ \A c \in Clicks : check[c].stage = "asking" ~> (check[c].told # "none" \/ life = "off")
  /\ menu # "idle" ~> life = "off"
=============================================================================
