-------------------------------- MODULE Wizard --------------------------------
(***************************************************************************)
(* presence_monitor/enroll_gui.py: the enrollment wizard, a process with a *)
(* thread for its window, one for the camera and one for each long call,   *)
(* in front of the pipe server, which serves one request at a time. One    *)
(* unit of time is LEASE_RENEW_S; a call of 3 s takes no time.             *)
(***************************************************************************)
EXTENDS Naturals, Sequences

CONSTANTS
  Lease,      \* CAMERA_LEASE_S
  Renew,      \* LEASE_RENEW_S
  MaxQueue    \* bound: calls of after() waiting for the window's thread

ASSUME WizardAssumption ==
  /\ Renew \in Nat \ {0} /\ Lease \in Nat /\ 2 * Renew < Lease
  /\ MaxQueue \in Nat \ {0}

VARIABLES
  window,    \* where the window's thread is
  posted,    \* what after() has been given, oldest first
  line,      \* what kind of message the guidance line shows
  pinned,    \* _guide_pinned
  startable, wipeable,  \* the state of those two buttons
  waiting,   \* is the thread that waits for the service alive?
  leaseOk,   \* _lease_ok
  cam,       \* where the camera thread is
  frame,     \* how far it is in _process_capture
  capture,   \* does the process hold the webcam?
  since,     \* time since the last renewal
  armed,     \* _capture_armed
  building,  \* _building
  mode,      \* _mode, which _capture_dir follows
  builder, wiper,  \* the threads of a build and of a wipe
  request,   \* the directory the build was asked for
  alive,     \* is the service up?
  busyWith,   \* the long request it is working on
  reading,   \* the directory its build reads
  lease,     \* time its camera lease still has
  enrolled,  \* are there photographs in ENROLL_DIR?
  embedded,  \* is there an embeddings.npz?
  fresh,     \* does ENROLL_PENDING_DIR hold photographs this session wrote?
  old,       \* does it hold some of an earlier one?
  failures,  \* history: renewals that failed in a row
  lapsed,    \* history: the lease has a reason to be over
  caught,    \* history: Build was clicked since this frame's look at _building
  spoiled,   \* history: it changed what the build it waits for was reading
  stuck,     \* history: a directory could not be emptied
  crossed,   \* history: a wipe ended while a build was under way
  forsaken   \* history: the session was given up without being discarded

ui == <<window, posted, line, pinned, startable, wipeable>>
camera == <<cam, frame, capture, since, failures, lapsed>>
session == <<armed, building, mode>>
calls == <<builder, wiper, waiting, request>>
server == <<alive, busyWith, reading, lease>>
folders == <<enrolled, embedded, fresh, old>>
record == <<caught, spoiled, stuck, crossed, forsaken>>
wizardVars == <<ui, leaseOk, camera, session, calls, server, folders, record>>

Folder(m) == IF m = "replace" THEN "pending" ELSE "enroll"
Running == window \in {"open", "finishing"}
Usable == window = "open"
Guide == line' = "other"
Post(what) == posted' = IF Running THEN Append(posted, what) ELSE posted
Handles(what) ==
  Usable /\ posted # << >> /\ Head(posted) = what /\ posted' = Tail(posted)
Awaited(dir) == busyWith = "build" /\ builder = "served" /\ reading = dir
HasShots(dir) == IF dir = "enroll" THEN enrolled ELSE fresh \/ old

\* remove_tree_no_follow: never raises, whatever it could not remove.
EmptyPending ==
  \/ fresh' = FALSE /\ old' = FALSE /\ UNCHANGED stuck
  \/ (fresh \/ old) /\ old' = TRUE /\ fresh' = FALSE /\ stuck' = TRUE

-----------------------------------------------------------------------------
(* The camera lease *)

\* A call of pause_camera: refused or unheard, granted, or granted with the
\* answer lost. A service busy with a long request answers nobody.
AskLease(answered) ==
  \/ ~answered /\ UNCHANGED lease
  \/ alive /\ busyWith = "none" /\ lease' = Lease

\* The service answered its ping, or SERVICE_WAIT_S is over.
WaitOver ==
  /\ waiting /\ waiting' = FALSE
  /\ Len(posted) < MaxQueue /\ Post("waited")
  /\ UNCHANGED <<request, window, line, pinned, startable, wipeable, leaseOk,
                 camera, session, builder, wiper, server, folders, record>>

OnWaited ==
  /\ Handles("waited")
  /\ \E answered \in BOOLEAN :
       /\ AskLease(answered)
       /\ leaseOk' = answered /\ startable' = answered
       /\ cam' = IF answered THEN "opening" ELSE cam
       /\ lapsed' = IF answered THEN FALSE ELSE lapsed
       /\ failures' = 0
  /\ Guide
  /\ UNCHANGED <<window, pinned, wipeable, frame, capture, since, session, calls,
                 alive, busyWith, reading, folders, record>>

CameraOpens ==
  /\ cam = "opening"
  /\ \/ cam' = "looping" /\ capture' = TRUE /\ since' = 0
     \/ cam' = "ended" /\ UNCHANGED <<capture, since>>
  /\ UNCHANGED <<ui, leaseOk, frame, failures, lapsed, session, calls, server,
                 folders, record>>

\* The renewal comes before the read; its call may last as long as the join.
StartRenewal ==
  /\ cam = "looping" /\ frame = "none" /\ Running /\ leaseOk /\ since >= Renew
  /\ cam' = "renewing"
  /\ UNCHANGED <<ui, leaseOk, frame, capture, since, failures, lapsed, session, calls,
                 server, folders, record>>

RenewalReturns ==
  /\ cam = "renewing"
  /\ \E answered \in BOOLEAN :
       /\ AskLease(answered)
       /\ failures' = IF answered THEN 0 ELSE IF failures < 2 THEN failures + 1 ELSE 2
       /\ lapsed' = IF answered THEN window \notin {"open", "finishing", "joining"}
                    ELSE lapsed \/ failures' = 2
  /\ since' = 0 /\ cam' = "looping"
  /\ UNCHANGED <<ui, leaseOk, frame, capture, session, calls, alive, busyWith,
                 reading, folders, record>>

\* read(), or the after() of a preview, does not return for a while, or never.
ReadHangs ==
  /\ cam = "looping" /\ frame = "none" /\ since < Renew /\ cam' = "hung"
  /\ UNCHANGED <<ui, leaseOk, frame, capture, since, failures, lapsed, session,
                 calls, server, folders, record>>

ReadReturns ==
  /\ cam = "hung" /\ cam' = "looping"
  /\ UNCHANGED <<ui, leaseOk, frame, capture, since, failures, lapsed, session,
                 calls, server, folders, record>>

LoopEnds ==
  /\ cam = "looping" /\ frame = "none" /\ ~Running
  /\ cam' = "ended" /\ capture' = FALSE
  /\ UNCHANGED <<ui, leaseOk, frame, since, failures, lapsed, session, calls, server,
                 folders, record>>

-----------------------------------------------------------------------------
(* A frame: _process_capture, on the camera thread. It looks at each flag    *)
(* once, without a lock; the window's thread may run between any two steps.  *)

FrameEnds == frame' = "none" /\ caught' = FALSE
FrameGoesOn(next) == frame' = next /\ UNCHANGED caught

FrameBegins ==
  /\ cam = "looping" /\ frame = "none" /\ since < Renew /\ Running /\ ~building
  /\ FrameGoesOn("pin")
  /\ UNCHANGED <<ui, session, folders, spoiled>>

LooksAtPin ==
  /\ frame = "pin" /\ FrameGoesOn(IF pinned THEN "arm" ELSE "advise")
  /\ UNCHANGED <<ui, session, folders, spoiled>>

\* The advice goes on the line when it differs from the last one.
Advises ==
  /\ frame = "advise" /\ FrameGoesOn("arm")
  /\ \/ UNCHANGED posted
     \/ Len(posted) < MaxQueue /\ Post(IF caught THEN "late" ELSE "coach")
  /\ UNCHANGED <<window, line, pinned, startable, wipeable, session, folders, spoiled>>

\* Armed, it finds that it has as many as were asked for, a number the user may
\* change at any time; or it saves a frame that was measured itself and is good,
\* of a steady face and not too soon after the last.
LooksAtArm ==
  /\ frame = "arm"
  /\ \/ FrameEnds
     \/ armed /\ \E next \in {"full", "aim"} : FrameGoesOn(next)
  /\ UNCHANGED <<ui, session, folders, spoiled>>

Disarms ==
  /\ frame = "full" /\ FrameGoesOn("pins") /\ armed' = FALSE
  /\ UNCHANGED <<ui, building, mode, folders, spoiled>>

Pins ==
  /\ frame = "pins" /\ FrameGoesOn("tells") /\ pinned' = TRUE
  /\ UNCHANGED <<window, posted, line, startable, wipeable, session, folders, spoiled>>

Tells ==
  /\ frame = "tells" /\ FrameEnds
  /\ Len(posted) < MaxQueue /\ Post("full")
  /\ UNCHANGED <<window, line, pinned, startable, wipeable, session, folders, spoiled>>

\* The path is built first, and written to afterwards.
Aims ==
  /\ frame = "aim" /\ FrameGoesOn(Folder(mode))
  /\ UNCHANGED <<ui, session, folders, spoiled>>

Saves ==
  /\ frame \in {"enroll", "pending"} /\ FrameEnds
  /\ \/ UNCHANGED <<folders, spoiled>>
     \/ /\ enrolled' = (enrolled \/ frame = "enroll")
        /\ fresh' = (fresh \/ frame = "pending")
        /\ spoiled' = (spoiled \/ (Awaited(frame) /\ ~caught))
        /\ UNCHANGED <<embedded, old>>
  /\ UNCHANGED <<ui, session>>

Frame ==
  /\ \/ FrameBegins \/ LooksAtPin \/ Advises \/ LooksAtArm
     \/ Disarms \/ Pins \/ Tells \/ Aims \/ Saves
  /\ UNCHANGED <<leaseOk, cam, capture, since, failures, lapsed, calls, server,
                 stuck, crossed, forsaken>>

\* The line tells advice of a frame that was caught from any other.
OnCoach ==
  /\ \E what \in {"coach", "late"} : Handles(what) /\ line' = what
  /\ UNCHANGED <<window, pinned, startable, wipeable, leaseOk, camera, session,
                 calls, server, folders, record>>

OnFull ==
  /\ Handles("full")
  /\ Guide
  /\ UNCHANGED <<window, pinned, startable, wipeable, leaseOk, camera, session,
                 calls, server, folders, record>>

-----------------------------------------------------------------------------
(* The buttons *)

StopCapture ==
  /\ Usable /\ startable /\ armed /\ armed' = FALSE
  /\ Guide
  /\ UNCHANGED <<window, posted, pinned, startable, wipeable, leaseOk, camera,
                 building, mode, calls, server, folders, record>>

\* _choose_mode at the first Start, unless the user cancels.
Choose ==
  \/ mode # "none" /\ UNCHANGED <<mode, fresh, old, stuck, spoiled, forsaken>>
  \/ /\ mode = "none" /\ mode' = "add"
     /\ UNCHANGED <<fresh, old, stuck, spoiled, forsaken>>
  \/ /\ mode = "none" /\ (enrolled \/ embedded) /\ mode' = "replace"
     /\ EmptyPending
     /\ spoiled' = (spoiled \/ Awaited("pending"))
     /\ forsaken' = FALSE

StartCapture ==
  /\ Usable /\ startable /\ ~armed
  /\ Choose
  /\ armed' = TRUE /\ pinned' = FALSE
  /\ Guide
  /\ UNCHANGED <<window, posted, startable, wipeable, leaseOk, camera, building,
                 calls, server, enrolled, embedded, caught, crossed>>

OnBuild ==
  /\ Usable /\ ~building /\ HasShots(Folder(mode))
  /\ building' = TRUE /\ armed' = FALSE
  /\ startable' = FALSE /\ wipeable' = FALSE /\ Guide
  /\ builder' = "calling" /\ request' = Folder(mode)
  /\ caught' = (frame # "none")
  /\ UNCHANGED <<window, posted, pinned, leaseOk, camera, mode, wiper, waiting,
                 server, folders, spoiled, stuck, crossed, forsaken>>

BuildAnswered ==
  /\ builder = "answered" /\ builder' = "none" /\ request' = "none"
  /\ Post("built")
  /\ UNCHANGED <<window, line, pinned, startable, wipeable, leaseOk, camera,
                 session, wiper, waiting, server, folders, record>>

\* pipe_call gives up after 120 s, or at once when the service dies.
BuildGivesUp ==
  /\ builder \in {"calling", "served"} /\ builder' = "answered"
  /\ UNCHANGED <<request, ui, leaseOk, camera, session, wiper, waiting, server,
                 folders, record>>

\* As if _building went down before the line is pinned.
OnBuiltUnpinned ==
  /\ Handles("built") /\ window' = "finishing" /\ building' = FALSE
  /\ UNCHANGED <<line, pinned, startable, wipeable, leaseOk, camera, armed,
                 mode, calls, server, folders, record>>

\* done(): the line is pinned before _building goes down, and the camera thread
\* runs in between.
OnBuilt ==
  /\ Handles("built")
  /\ pinned' = TRUE /\ window' = "finishing"
  /\ UNCHANGED <<line, startable, wipeable, leaseOk, camera, session, calls,
                 server, folders, record>>

BuildOver ==
  /\ window = "finishing" /\ window' = "open"
  /\ building' = FALSE /\ startable' = TRUE /\ wipeable' = TRUE
  /\ line' = "outcome"
  /\ UNCHANGED <<posted, pinned, leaseOk, camera, armed, mode, calls, server,
                 folders, record>>

\* Bound: one wipe at a time (a build that ends enables the button again).
OnWipe ==
  /\ Usable /\ wipeable /\ wiper = "none"
  /\ \A i \in DOMAIN posted : posted[i] # "wiped"
  /\ wipeable' = FALSE /\ wiper' = "calling"
  /\ UNCHANGED <<request, window, posted, line, pinned, startable, leaseOk,
                 camera, session, builder, waiting, server, folders, record>>

WipeAnswered ==
  /\ wiper = "answered" /\ wiper' = "none"
  /\ Post("wiped")
  /\ UNCHANGED <<request, window, line, pinned, startable, wipeable, leaseOk,
                 camera, session, builder, waiting, server, folders, record>>

WipeGivesUp ==
  /\ wiper \in {"calling", "served"} /\ wiper' = "answered"
  /\ UNCHANGED <<request, ui, leaseOk, camera, session, builder, waiting,
                 server, folders, record>>

\* Whether the service removed everything or nothing.
OnWiped ==
  /\ Handles("wiped")
  /\ wipeable' = TRUE /\ mode' = "none" /\ pinned' = FALSE
  /\ Guide
  /\ forsaken' = (forsaken \/ mode = "replace")
  /\ crossed' = (crossed \/ building)
  /\ UNCHANGED <<window, startable, leaseOk, camera, armed, building, calls,
                 server, folders, caught, spoiled, stuck>>

-----------------------------------------------------------------------------
(* The service's side of the long calls *)

ServeBuild ==
  /\ builder = "calling" /\ alive /\ busyWith = "none"
  /\ busyWith' = "build" /\ builder' = "served" /\ reading' = request
  /\ UNCHANGED <<ui, leaseOk, camera, session, wiper, waiting, request, alive,
                 lease, folders, record>>

\* Built, and a replace promoted; or refused, and nothing changed.
BuildEnds ==
  /\ busyWith = "build" /\ busyWith' = "none" /\ reading' = "none"
  /\ builder' = IF builder = "served" THEN "answered" ELSE builder
  /\ \/ /\ HasShots(reading) /\ embedded' = TRUE /\ enrolled' = TRUE
        /\ fresh' = (fresh /\ reading # "pending") /\ old' = (old /\ reading # "pending")
     \/ UNCHANGED folders
  /\ UNCHANGED <<request, ui, leaseOk, camera, session, wiper, waiting, alive,
                 lease, record>>

ServeClear ==
  /\ wiper = "calling" /\ alive /\ busyWith = "none"
  /\ busyWith' = "clear" /\ wiper' = "served"
  /\ UNCHANGED <<ui, leaseOk, camera, session, builder, waiting, request, alive,
                 reading, lease, folders, record>>

\* Everything goes, or something could not be removed.
ClearEnds ==
  /\ busyWith = "clear" /\ busyWith' = "none"
  /\ wiper' = IF wiper = "served" THEN "answered" ELSE wiper
  /\ enrolled' \in {enrolled, FALSE} /\ embedded' \in {embedded, FALSE}
  /\ \/ fresh' = FALSE /\ old' = FALSE
     \/ UNCHANGED <<fresh, old>>
  /\ UNCHANGED <<request, ui, leaseOk, camera, session, builder, waiting, alive,
                 reading, lease, record>>

ServiceDies ==
  /\ alive /\ alive' = FALSE /\ busyWith' = "none" /\ reading' = "none" /\ lease' = 0
  /\ lapsed' = TRUE
  /\ builder' = IF builder = "none" THEN "none" ELSE "answered"
  /\ wiper' = IF wiper = "none" THEN "none" ELSE "answered"
  /\ UNCHANGED <<request, ui, leaseOk, cam, frame, capture, since, failures,
                 session, waiting, folders, record>>

ServiceStarts ==
  /\ ~alive /\ alive' = TRUE
  /\ UNCHANGED <<ui, leaseOk, camera, session, calls, busyWith, reading, lease,
                 folders, record>>

-----------------------------------------------------------------------------
(* Closing, dying, starting again *)

OnClose ==
  /\ Usable /\ window' = "joining" /\ armed' = FALSE
  /\ UNCHANGED <<posted, line, pinned, startable, wipeable, leaseOk, camera,
                 building, mode, calls, server, folders, record>>

\* As if the close did not wait for the camera thread.
JoinSkipped ==
  /\ window = "joining" /\ window' = "releasing" /\ posted' = << >>
  /\ UNCHANGED <<line, pinned, startable, wipeable, leaseOk, camera, session,
                 calls, server, folders, record>>

\* join(timeout=3.0): a thread that loops, or writes a photograph, ends in time
\* (assumed of the disk); one that is held up in a call may not, and is left to the
\* end of the process. An after() is such a call: it waits for the window's thread.
Joined ==
  /\ window = "joining"
  /\ \/ cam # "looping"
     \/ frame \in {"advise", "tells"}
  /\ window' = "releasing" /\ posted' = << >>
  /\ lapsed' = (lapsed \/ cam \notin {"none", "ended"})
  /\ UNCHANGED <<line, pinned, startable, wipeable, leaseOk, cam, frame, capture,
                 since, failures, session, calls, server, folders, record>>

ReleaseLease ==
  /\ window = "releasing" /\ window' = "discarding"
  /\ \/ leaseOk /\ alive /\ busyWith = "none" /\ lease' = 0
     \/ UNCHANGED lease
  /\ UNCHANGED <<posted, line, pinned, startable, wipeable, leaseOk, camera,
                 session, calls, alive, busyWith, reading, folders, record>>

\* The process ends, and every thread and its camera with it.
Exits ==
  /\ window' = "gone" /\ cam' = "none" /\ capture' = FALSE /\ since' = 0
  /\ frame' = "none" /\ caught' = FALSE
  /\ posted' = << >> /\ Guide /\ pinned' = FALSE
  /\ startable' = FALSE /\ wipeable' = TRUE /\ leaseOk' = FALSE
  /\ armed' = FALSE /\ building' = FALSE /\ mode' = "none"
  /\ builder' = "none" /\ wiper' = "none" /\ waiting' = FALSE
  /\ request' = "none"
  /\ failures' = 0
  /\ UNCHANGED <<lapsed, server, enrolled, embedded, crossed>>

\* As if a build that still reads the photographs did not count.
DiscardAnyway ==
  /\ window = "discarding" /\ Exits
  /\ \/ /\ mode = "replace" /\ EmptyPending
        /\ spoiled' = (spoiled \/ Awaited("pending"))
        /\ UNCHANGED forsaken
     \/ mode # "replace" /\ UNCHANGED <<fresh, old, stuck, spoiled, forsaken>>

DiscardPending ==
  /\ window = "discarding" /\ Exits
  /\ \/ /\ mode = "replace" /\ ~building /\ EmptyPending
        /\ spoiled' = (spoiled \/ Awaited("pending"))
        /\ UNCHANGED forsaken
     \/ /\ mode # "replace" \/ building
        /\ forsaken' = (forsaken \/ building)
        /\ UNCHANGED <<fresh, old, stuck, spoiled>>

\* Terminated with the tray, or crashed.
Killed ==
  /\ window # "gone" /\ Exits /\ forsaken' = TRUE
  /\ UNCHANGED <<fresh, old, stuck, spoiled>>

WindowOpens == window = "gone" /\ window' = "open" /\ waiting' = TRUE

Launched ==
  /\ WindowOpens
  /\ old' = (old \/ fresh) /\ fresh' = FALSE
  /\ forsaken' = FALSE /\ spoiled' = FALSE /\ stuck' = FALSE
  /\ crossed' = FALSE
  /\ UNCHANGED <<posted, line, pinned, startable, wipeable, leaseOk, camera,
                 session, builder, wiper, request, server, enrolled, embedded, caught>>

\* The loop gets to its renewal in time unless a read or the opening is stuck.
Pass ==
  /\ window \in {"open", "gone"} /\ cam # "renewing"
  /\ ~(cam = "looping" /\ since >= Renew)
  /\ lease' = IF lease = 0 THEN 0 ELSE lease - 1
  /\ since' = IF since < Renew /\ cam \in {"looping", "hung"} THEN since + 1 ELSE since
  /\ lapsed' = (lapsed \/ cam = "opening" \/ (cam = "hung" /\ since >= Renew))
  /\ UNCHANGED <<ui, leaseOk, cam, frame, capture, failures, session, calls, alive,
                 busyWith, reading, folders, record>>

-----------------------------------------------------------------------------
WizardInit ==
  /\ window = "gone" /\ posted = << >> /\ line = "other"
  /\ pinned = FALSE /\ startable = FALSE /\ wipeable = TRUE
  /\ waiting = FALSE /\ leaseOk = FALSE
  /\ cam = "none" /\ frame = "none" /\ capture = FALSE /\ since = 0 /\ failures = 0 /\ lapsed = FALSE
  /\ armed = FALSE /\ building = FALSE /\ mode = "none"
  /\ builder = "none" /\ wiper = "none" /\ request = "none"
  /\ alive = TRUE /\ busyWith = "none" /\ reading = "none" /\ lease = 0
  /\ enrolled \in BOOLEAN /\ embedded = enrolled
  /\ fresh = FALSE /\ old = FALSE
  /\ caught = FALSE /\ spoiled = FALSE /\ stuck = FALSE /\ crossed = FALSE
  /\ forsaken = FALSE

CameraNext ==
  \/ WaitOver \/ OnWaited \/ CameraOpens \/ StartRenewal \/ RenewalReturns
  \/ ReadHangs \/ ReadReturns \/ LoopEnds \/ Frame

ButtonsNext ==
  \/ OnCoach \/ OnFull \/ StopCapture \/ StartCapture
  \/ OnBuild \/ BuildAnswered \/ BuildGivesUp \/ OnBuilt \/ BuildOver
  \/ OnWipe \/ WipeAnswered \/ WipeGivesUp \/ OnWiped

CloseNext == OnClose \/ Joined \/ ReleaseLease \/ DiscardPending \/ Launched

ServiceNext ==
  \/ ServeBuild \/ BuildEnds \/ ServeClear \/ ClearEnds
  \/ ServiceDies \/ ServiceStarts \/ Pass

\* The two halves of its behaviours: those in which no long call is made, and
\* those in which the camera and the lease make no trouble.
LeaseNext ==
  \/ CameraNext \/ OnCoach \/ StopCapture \/ StartCapture
  \/ CloseNext \/ Killed \/ ServiceDies \/ ServiceStarts \/ Pass

SessionNext ==
  \/ WaitOver \/ OnWaited \/ CameraOpens \/ LoopEnds \/ Frame
  \/ ButtonsNext \/ CloseNext
  \/ ServeBuild \/ BuildEnds \/ ServeClear \/ ClearEnds

WizardNext == CameraNext \/ ButtonsNext \/ CloseNext \/ Killed \/ ServiceNext
WizardSpec == WizardInit /\ [][WizardNext]_wizardVars

WizardTypeOK ==
  /\ window \in {"open", "finishing", "joining", "releasing", "discarding", "gone"}
  /\ posted \in Seq({"waited", "coach", "late", "full", "built", "wiped"})
  /\ Len(posted) <= MaxQueue + 2
  /\ line \in {"other", "coach", "late", "outcome"}
  /\ {pinned, startable, wipeable, waiting, leaseOk, capture} \subseteq BOOLEAN
  /\ cam \in {"none", "opening", "looping", "renewing", "hung", "ended"}
  /\ frame \in {"none", "pin", "advise", "arm", "full", "pins", "tells",
               "aim", "enroll", "pending"}
  /\ since \in 0 .. Renew /\ failures \in 0 .. 2 /\ lease \in 0 .. Lease
  /\ {armed, building, alive, lapsed} \subseteq BOOLEAN
  /\ mode \in {"none", "add", "replace"}
  /\ {builder, wiper} \subseteq {"none", "calling", "served", "answered"}
  /\ busyWith \in {"none", "build", "clear"}
  /\ {reading, request} \subseteq {"none", "enroll", "pending"}
  /\ {enrolled, embedded, fresh, old} \subseteq BOOLEAN
  /\ {caught, spoiled, stuck, crossed, forsaken} \subseteq BOOLEAN

\* While the wizard holds the webcam its lease is in force, although calls fail,
\* answers are lost and one renewal in a row may be missed: the service has the
\* right to open the device only after a second one was missed, a read or the
\* opening hung over a renewal, the service started afresh, or the close gave
\* up waiting for the camera thread.
LeaseCovers == (capture /\ ~lapsed) => lease > 0

\* The photographs of a session have one fate: the wizard neither adds to nor
\* empties the directory while the service builds from it and the wizard waits
\* for the answer, except for the one photograph of a frame that had looked at
\* _building before the click; a replace is built from this session alone unless the former
\* one could not be deleted; and nothing of a replace that was not built stays
\* behind once the window is closed, unless a wipe had reset the session or a
\* build was not over.
SessionWhole ==
  /\ spoiled => crossed
  /\ (Awaited("pending") /\ old) => stuck
  /\ (window = "gone" /\ fresh) => forsaken

\* The outcome of a build stays on the guidance line until the user acts: no
\* advice of the camera thread takes its place, however late the window's thread
\* comes to it, but for the advice of the one frame that had looked at _building
\* before Build was clicked (a "late" one).
OutcomeStays == [][line = "outcome" => line' # "coach"]_line
=============================================================================
