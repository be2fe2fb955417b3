------------------------------- MODULE FaceTile -------------------------------
(***************************************************************************)
(* The credential tile of credential_provider/FaceCredential.cpp: LogonUI  *)
(* calls it on one thread, a scan runs on a thread of its own, and both    *)
(* write the tile.  Every section under m_mtx is one step; the calls into  *)
(* LogonUI are made outside the lock and are steps of their own.           *)
(***************************************************************************)
EXTENDS Naturals

CONSTANTS
  Reasons,     \* reason tokens a failed scan can end with
  Impatient    \* LogonUI may press submit while a logon is being decided

ASSUME TileAssumption == Impatient \in BOOLEAN

VARIABLES
  ui,         \* what the LogonUI thread is doing in the tile
  uiText,     \* the line SetStatus is putting on the tile
  uiThen,     \* where the LogonUI thread goes on after SetStatus
  advised,    \* m_pEvents is set
  selected,   \* m_selected
  abort,      \* m_abort
  scanning,   \* m_scanning
  haveResult, \* m_haveResult: a credential is stored in the tile
  disabled,   \* m_scansDisabled
  joinable,   \* m_worker holds a thread
  worker,     \* how far the scan's thread is
  text,       \* the line the worker is putting on the tile
  status,     \* m_status
  shown,      \* the line LogonUI was last given
  logon,      \* Windows decides on a credential of ours
  notified,   \* CredentialsChanged was sent and LogonUI has yet to enumerate
  stranded    \* history: StartWorker ended between m_scanning and its thread

flags == <<advised, selected, abort, scanning, haveResult, disabled>>
vars == <<ui, uiText, uiThen, flags, joinable, worker, text, status, shown,
          logon, notified, stranded>>

Texts == {"look", "press", "scanning", "prompt", "verified", "packing failed",
          "password rejected", "not recognised", "locked out", "unavailable"}

UiSteps == {"idle", "autologon", "set", "show", "pack", "join", "begin",
            "create", "keep", "stop", "join for stop", "lower", "gone", "starved"}

\* The stages of a scan that has not had its outcome yet, and the later ones.
Deciding == {"phase1", "prompt", "show prompt", "gate", "phase2", "publish",
             "failing"}
Leaving == {"show failure", "announce", "show verified", "notify",
            "failing late", "tail"}
Running == Deciding \union Leaving

Init ==
  /\ ui = "idle" /\ uiText = "look" /\ uiThen = "idle"
  /\ advised = FALSE /\ selected = FALSE /\ abort = FALSE /\ scanning = FALSE
  /\ haveResult = FALSE /\ disabled = FALSE
  /\ joinable = FALSE /\ worker = "ended" /\ text = "look"
  /\ status = "look" /\ shown = "look"
  /\ logon = "none" /\ notified = FALSE /\ stranded = FALSE

-----------------------------------------------------------------------------
(* The LogonUI thread.                                                     *)

\* The call SetStatus(t) comes next, and then next.
SayThen(t, next) == ui' = "set" /\ uiText' = t /\ uiThen' = next
Say(t) == SayThen(t, "idle")
GoTo(next) == ui' = next /\ UNCHANGED <<uiText, uiThen>>

\* SetStatus under the lock: the text is stored, the sink taken along.
SetStatus ==
  /\ ui = "set"
  /\ status' = uiText
  /\ ui' = IF advised THEN "show" ELSE uiThen
  /\ UNCHANGED <<uiText, uiThen, flags, joinable, worker, text, stranded, shown, logon,
                 notified>>

\* No memory for the line: every call into the tile catches that, and ends.
\* StartWorker has raised m_scanning by then and has no thread yet.
SetStatusThrows ==
  /\ ui = "set"
  /\ GoTo("idle")
  /\ stranded' = (stranded \/ uiThen = "create")
  /\ UNCHANGED <<flags, joinable, worker, text, status, shown, logon, notified>>

SetFieldString ==
  /\ ui = "show"
  /\ shown' = uiText
  /\ GoTo(uiThen)
  /\ UNCHANGED <<flags, joinable, worker, text, stranded, status, logon, notified>>

Advise ==
  /\ ui = "idle" /\ advised' = TRUE /\ shown' = status
  /\ UNCHANGED <<ui, uiText, uiThen, selected, abort, scanning, haveResult,
                 disabled, joinable, worker, text, stranded, status, logon, notified>>

\* UnAdvise and the destructor drop the sink first; StopWorker follows.  The
\* destructor ends the object.
Unhook ==
  /\ ui = "idle" /\ advised' = FALSE
  /\ ui' = "stop" /\ uiThen' \in {"idle", "gone"}
  /\ UNCHANGED <<uiText, selected, abort, scanning, haveResult, disabled,
                 joinable, worker, text, stranded, status, shown, logon, notified>>

SetSelectedText ==
  IF disabled THEN Say("password rejected")
  ELSE IF ~haveResult THEN Say("press") ELSE GoTo("idle")

\* Mutant: selecting the tile again forgives an abandoned scan.
SetSelectedForgiving ==
  /\ ui = "idle" /\ advised
  /\ selected' = TRUE /\ abort' = FALSE
  /\ SetSelectedText
  /\ UNCHANGED <<advised, scanning, haveResult, disabled, joinable, worker,
                 text, stranded, status, shown, logon, notified>>

SetSelected ==
  /\ ui = "idle" /\ advised
  /\ selected' = TRUE
  /\ SetSelectedText
  /\ UNCHANGED <<advised, abort, scanning, haveResult, disabled, joinable,
                 worker, text, stranded, status, shown, logon, notified>>

\* No join: the worker is told and left to run itself out.
SetDeselected ==
  /\ ui = "idle" /\ advised /\ selected
  /\ selected' = FALSE /\ abort' = TRUE
  /\ UNCHANGED <<ui, uiText, uiThen, advised, scanning, haveResult, disabled,
                 joinable, worker, text, stranded, status, shown, logon, notified>>

\* GetSerialization up to its first unlock, and what it decides there.
\* StartWorker reads the same flags again: only this thread raises them.
GetSerialization ==
  /\ haveResult' = (haveResult /\ ~disabled)
  /\ IF disabled THEN Say("password rejected") /\ UNCHANGED joinable
     ELSE IF haveResult THEN GoTo("pack") /\ UNCHANGED joinable
     ELSE IF scanning THEN GoTo("idle") /\ UNCHANGED joinable
     ELSE GoTo(IF joinable THEN "join" ELSE "begin") /\ joinable' = FALSE
  /\ UNCHANGED <<advised, selected, abort, scanning, disabled, worker, text, stranded,
                 status, shown, logon>>

\* No memory for the copy of a stored credential: it stays stored.
CopyThrows ==
  /\ haveResult /\ ~disabled
  /\ GoTo("starved")
  /\ UNCHANGED <<flags, joinable, worker, text, stranded, status, shown, logon>>

Starved ==
  /\ ui = "starved"
  /\ GoTo("idle")
  /\ UNCHANGED <<flags, joinable, worker, text, stranded, status, shown, logon, notified>>

\* The user presses the arrow.
Submit ==
  /\ ui = "idle" /\ advised /\ selected
  /\ Impatient \/ logon = "none"
  /\ GetSerialization \/ CopyThrows
  /\ UNCHANGED notified

\* LogonUI enumerates after CredentialsChanged: GetCredentialCount asks
\* HasResult, and the tile is selected and submitted if there is one.
Enumerate ==
  /\ ui = "idle" /\ advised /\ notified
  /\ notified' = FALSE
  /\ IF haveResult THEN GoTo("autologon") /\ selected' = TRUE
     ELSE GoTo("idle") /\ UNCHANGED selected
  /\ UNCHANGED <<advised, abort, scanning, haveResult, disabled, joinable,
                 worker, text, stranded, status, shown, logon>>

AutoLogon ==
  /\ ui = "autologon"
  /\ GetSerialization \/ CopyThrows
  /\ UNCHANGED notified

\* The copy is packed for Windows and wiped, or wiped because packing failed.
Pack ==
  /\ ui = "pack"
  /\ haveResult' = FALSE
  /\ \/ GoTo("idle") /\ logon' = "pending"
     \/ Say("packing failed") /\ UNCHANGED logon
  /\ UNCHANGED <<advised, selected, abort, scanning, disabled, joinable, worker,
                 text, stranded, status, shown, notified>>

ReportSuccess ==
  /\ ui = "idle" /\ logon = "pending" /\ logon' = "none"
  /\ UNCHANGED <<ui, uiText, uiThen, flags, joinable, worker, text, stranded, status,
                 shown, notified>>

ReportFailure ==
  /\ ui = "idle" /\ logon = "pending" /\ logon' = "none"
  /\ disabled' = TRUE /\ haveResult' = FALSE
  /\ Say("password rejected")
  /\ UNCHANGED <<advised, selected, abort, scanning, joinable, worker, text, stranded,
                 status, shown, notified>>

-----------------------------------------------------------------------------
(* StartWorker and StopWorker.                                             *)

\* The wait for an older thread, in either of them.
JoinStale ==
  /\ ui = "join" /\ worker = "ended"
  /\ GoTo("begin")
  /\ UNCHANGED <<flags, joinable, worker, text, stranded, status, shown, logon, notified>>

BeginScan ==
  /\ ui = "begin"
  /\ abort' = FALSE /\ scanning' = TRUE
  /\ SayThen("scanning", "create")
  /\ UNCHANGED <<advised, selected, haveResult, disabled, joinable, worker,
                 text, stranded, status, shown, logon, notified>>

\* The thread runs before m_worker holds it.
CreateThread ==
  /\ ui = "create"
  /\ worker' = "phase1"
  /\ GoTo("keep")
  /\ UNCHANGED <<flags, joinable, text, stranded, status, shown, logon, notified>>

NoThread ==
  /\ ui = "create"
  /\ scanning' = FALSE
  /\ Say("unavailable")
  /\ UNCHANGED <<advised, selected, abort, haveResult, disabled, joinable,
                 worker, text, stranded, status, shown, logon, notified>>

KeepThread ==
  /\ ui = "keep"
  /\ joinable' = TRUE
  /\ GoTo("idle")
  /\ UNCHANGED <<flags, worker, text, stranded, status, shown, logon, notified>>

\* Mutant: the worker is told to stop and not waited for.
StopWorkerLeft ==
  /\ ui = "stop"
  /\ abort' = TRUE /\ joinable' = FALSE
  /\ GoTo("lower")
  /\ UNCHANGED <<advised, selected, scanning, haveResult, disabled, worker,
                 text, stranded, status, shown, logon, notified>>

StopWorker ==
  /\ ui = "stop"
  /\ abort' = TRUE /\ joinable' = FALSE
  /\ GoTo(IF joinable THEN "join for stop" ELSE "lower")
  /\ UNCHANGED <<advised, selected, scanning, haveResult, disabled, worker,
                 text, stranded, status, shown, logon, notified>>

JoinStopped ==
  /\ ui = "join for stop" /\ worker = "ended"
  /\ GoTo("lower")
  /\ UNCHANGED <<flags, joinable, worker, text, stranded, status, shown, logon, notified>>

\* m_scanning is lowered; the destructor also wipes what is stored.
Lowered ==
  /\ ui = "lower"
  /\ scanning' = FALSE /\ stranded' = FALSE
  /\ haveResult' = (haveResult /\ uiThen # "gone")
  /\ GoTo(uiThen)
  /\ UNCHANGED <<advised, selected, abort, disabled, joinable, worker, text,
                 status, shown, logon, notified>>

-----------------------------------------------------------------------------
(* The worker: WorkerMain and RunScan.                                     *)

ui_vars == <<ui, uiText, uiThen, joinable, logon, stranded>>

Abandoned == abort \/ ~selected

\* FailureTextForReason: a fixed line for every reason.
FailureText(r) ==
  IF r \in {"no-match", "gesture-failed", "too-dark"} THEN "not recognised"
  ELSE IF r = "locked-out" THEN "locked out" ELSE "unavailable"

FailWith(t) == worker' = "failing" /\ text' = t

\* RequestUnlock: the pipe call returns within its budget, with a credential,
\* a usable gesture challenge or a reason.
Phase1 ==
  /\ worker = "phase1"
  /\ \/ worker' = "publish" /\ UNCHANGED text
     \/ worker' = "prompt" /\ text' = "prompt"
     \/ worker' = "gate" /\ UNCHANGED text
     \/ \E r \in Reasons : FailWith(FailureText(r))
  /\ UNCHANGED <<ui_vars, flags, status, shown, notified>>

\* A challenge that came without a prompt.
Gate ==
  /\ worker = "gate"
  /\ worker' = IF Abandoned THEN "tail" ELSE "phase2"
  /\ UNCHANGED <<ui_vars, flags, text, status, shown, notified>>

Phase2 ==
  /\ worker = "phase2"
  /\ \/ worker' = "publish" /\ UNCHANGED text
     \/ \E r \in Reasons : FailWith(FailureText(r))
  /\ UNCHANGED <<ui_vars, flags, status, shown, notified>>

\* An exception inside RunScan is caught by WorkerMain, which says so on the
\* tile; a second one, while it does, ends the scan.
ScanThrows ==
  /\ worker \notin {"show prompt", "show failure", "show verified", "tail", "ended"}
  /\ text' = "unavailable"
  /\ worker' = IF worker \in Deciding
                 THEN IF worker = "failing" /\ text = "unavailable"
                      THEN "tail" ELSE "failing"
               ELSE IF worker \in {"announce", "notify"} THEN "failing late"
               ELSE "tail"
  /\ UNCHANGED <<ui_vars, flags, status, shown, notified>>

\* WorkerSetStatus under the lock, at its call sites.
WorkerSetStatus(from, line, show, refused, unhooked) ==
  /\ worker = from
  /\ IF Abandoned THEN worker' = refused /\ UNCHANGED <<text, status>>
     ELSE /\ status' = line /\ text' = line
          /\ worker' = IF advised THEN show ELSE unhooked
  /\ UNCHANGED <<ui_vars, flags, shown, notified>>

Prompt == WorkerSetStatus("prompt", text, "show prompt", "tail", "phase2")
Failing == WorkerSetStatus("failing", text, "show failure", "tail", "tail")
FailingLate ==
  WorkerSetStatus("failing late", text, "show failure", "tail", "tail")
\* Mutant: a refused status line ends the scan before the notification.
AnnounceOrLeave ==
  WorkerSetStatus("announce", "verified", "show verified", "tail", "notify")

Announce ==
  WorkerSetStatus("announce", "verified", "show verified", "notify", "notify")

WorkerShow ==
  /\ worker \in {"show prompt", "show failure", "show verified"}
  /\ shown' = text
  /\ worker' = IF worker = "show prompt" THEN "phase2"
               ELSE IF worker = "show failure" THEN "tail" ELSE "notify"
  /\ UNCHANGED <<ui_vars, flags, text, status, notified>>

\* Mutant: the publish waits for a lock that the joining thread holds.
PublishAfterJoin ==
  /\ worker = "publish" /\ ui # "join for stop"
  /\ haveResult' = (haveResult \/ ~(Abandoned \/ disabled))
  /\ worker' = IF Abandoned \/ disabled THEN "tail" ELSE "announce"
  /\ UNCHANGED <<ui_vars, advised, selected, abort, scanning, disabled, text,
                 status, shown, notified>>

\* The one decision under one lock.
Publish ==
  /\ worker = "publish"
  /\ haveResult' = (haveResult \/ ~(Abandoned \/ disabled))
  /\ worker' = IF Abandoned \/ disabled THEN "tail" ELSE "announce"
  /\ UNCHANGED <<ui_vars, advised, selected, abort, scanning, disabled, text,
                 status, shown, notified>>

\* NotifyCredentialsChanged, with the provider's sink in place.
Notify ==
  /\ worker = "notify"
  /\ notified' = TRUE
  /\ worker' = "tail"
  /\ UNCHANGED <<ui_vars, flags, text, status, shown>>

\* WorkerMain lowers m_scanning and returns.
Finish ==
  /\ worker = "tail"
  /\ scanning' = FALSE
  /\ worker' = "ended"
  /\ UNCHANGED <<ui_vars, advised, selected, abort, haveResult, disabled, text,
                 status, shown, notified>>

-----------------------------------------------------------------------------
UiStep == \/ SetStatus \/ SetFieldString \/ AutoLogon \/ Starved \/ Pack \/ JoinStale
          \/ BeginScan \/ CreateThread \/ NoThread \/ KeepThread
          \/ StopWorker \/ JoinStopped \/ Lowered

LogonUI == \/ Advise \/ Unhook \/ SetSelected \/ SetDeselected \/ Submit
           \/ Enumerate \/ ReportSuccess \/ ReportFailure

ScanStep == \/ Phase1 \/ Prompt \/ Gate \/ Phase2 \/ Failing \/ FailingLate
            \/ WorkerShow \/ Publish \/ Announce \/ Notify \/ Finish

WorkerStep == ScanStep \/ ScanThrows

Gone == ui = "gone" /\ UNCHANGED vars

Next == UiStep \/ SetStatusThrows \/ LogonUI \/ WorkerStep \/ Gone

Spec == Init /\ [][Next]_vars

\* A call into the tile runs on, the pipe calls of a scan have hard timeouts,
\* and LogonUI enumerates when it was asked to and is free to.
FairSpec == Spec /\ WF_vars(UiStep) /\ WF_vars(ScanStep) /\ SF_vars(Enumerate)

-----------------------------------------------------------------------------
\* The type of every variable.
TypeOK ==
  /\ ui \in UiSteps /\ uiText \in Texts /\ uiThen \in {"idle", "create", "gone"}
  /\ advised \in BOOLEAN /\ selected \in BOOLEAN /\ abort \in BOOLEAN
  /\ scanning \in BOOLEAN /\ haveResult \in BOOLEAN /\ disabled \in BOOLEAN
  /\ joinable \in BOOLEAN
  /\ worker \in Running \union {"ended"} /\ text \in Texts
  /\ status \in Texts /\ shown \in Texts
  /\ logon \in {"none", "pending"} /\ notified \in BOOLEAN /\ stranded \in BOOLEAN

\* Between two calls of LogonUI, m_scanning is up exactly while a scan's thread
\* is running.  Raised without a thread it swallows every later click; lowered
\* under a running thread it lets a second scan start beside the first
\* (StartWorker, WorkerMain, StopWorker).  It is stranded until UnAdvise when
\* memory ran out for the line StartWorker puts up between the two, and only then.
\* And once UnAdvise or the destructor has returned no thread runs, to call into
\* LogonUI or into an unloaded DLL.
ScanOwned ==
  /\ ui = "idle" => (scanning <=> worker \in Running \/ stranded)
  /\ stranded => worker = "ended"
  /\ ui \in {"idle", "gone"} /\ ~advised => worker = "ended"

\* What the tile promises: at most one credential per scan, none for a scan the
\* user walked away from, none after a rejected logon.
Scan == IF worker \notin Deciding THEN "none"
        ELSE IF Abandoned THEN "unwanted" ELSE "wanted"

Offer == INSTANCE TileOffer WITH
  scan <- Scan, offer <- haveResult, barred <- disabled

IsATile == Offer!Spec

\* Every call LogonUI makes into the tile returns, the joins included.
CallsReturn == ui # "idle" ~> ui \in {"idle", "gone"}

\* A verified face signs the user in: a stored credential is submitted, refused
\* or given up with the tile.  It waits for another click only when memory ran
\* out while the worker was announcing it or LogonUI's thread was copying it.
VerifiedSignsIn ==
  worker = "announce"
    ~> (~haveResult \/ ~advised \/ worker = "failing late" \/ ui = "starved")
=============================================================================
