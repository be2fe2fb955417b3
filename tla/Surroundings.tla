----------------------------- MODULE Surroundings -----------------------------
(***************************************************************************)
(* What presence_monitor asks Windows in a tick (monitor.py,               *)
(* remote_session.py): is the session locked, is the machine worked at     *)
(* from elsewhere, when was the last input, does something own the screen? *)
(* Every probe may fail, and each has its own answer for that.             *)
(***************************************************************************)
EXTENDS Integers

CONSTANTS
  Wrap,      \* where a DWORD of ticks wraps: 2^32
  IdleLimit  \* presence_input_idle_s, in ticks

ASSUME SurroundingsAssumption ==
  Wrap \in Nat \ {0} /\ IdleLimit \in Nat /\ 0 < IdleLimit /\ IdleLimit < Wrap

Ticks == 0 .. Wrap - 1

\* A session: what WTS says of it, and what its input desktop looks like.
Sessions ==
  [flags : {"lock", "unlock", "undocumented", "fails"},
   desktop : {"Default", "another", "denied", "fails"}]

\* _session_locked_wts: no opinion without one of the two documented values.
HasOpinion(s) == s.flags \in {"lock", "unlock"}

\* session_locked: a desktop that may not be opened is the lock screen's.
DesktopLocked(s) == s.desktop \in {"another", "denied"}

IsSessionLocked(s) == IF HasOpinion(s) THEN s.flags = "lock" ELSE DesktopLocked(s)

\* What remote tools leave to be seen: some run only while they are connected,
\* some always, and those hold connections, to the outside or not.
Contexts ==
  [rdp : {"yes", "no", "fails"},
   tools : SUBSET {"connected", "always"},
   peers : SUBSET {"outside", "local"}]

ActiveRemoteTool(c) ==
  "connected" \in c.tools \/ ("always" \in c.tools /\ "outside" \in c.peers)

IsRemoteContext(c) == c.rdp = "yes" \/ ActiveRemoteTool(c)

\* The tick counts of now and of the last input, if they can be had.
Inputs == [known : BOOLEAN, now : Ticks, last : Ticks]

\* Mutant of IdleMs, for Converges: the difference as it stands.
IdleSigned(now, last) == now - last

\* _idle_ms: the difference, masked to the width of both.
IdleMs(now, last) == (now - last) % Wrap

LiveInput(i) == i.known /\ IdleMs(i.now, i.last) < IdleLimit

\* SHQueryUserNotificationState.
Screens == {"busy", "d3d", "presentation", "accepts notifications", "fails"}
FullscreenActive(q) == q \in {"busy", "d3d", "presentation"}

-----------------------------------------------------------------------------
(* What there is to be seen once nobody is there, in a session that is not   *)
(* locked: whatever the probes that fail leave open.                         *)

AwaySessions ==
  {s \in Sessions : /\ s.flags # "lock"
                    /\ s.flags = "unlock" \/ s.desktop \in {"Default", "fails"}}

AwayContexts == {c \in Contexts : c.rdp # "yes" /\ c.tools \subseteq {"always"}
                                  /\ c.peers \subseteq {"local"}}

\* The last input was d ticks ago, at any place of the counters.
AwayInputs ==
  {[known |-> k, now |-> t, last |-> (t - d) % Wrap] :
     k \in BOOLEAN, t \in Ticks, d \in IdleLimit .. Wrap - 1}

AwayScreens == {"accepts notifications", "fails"}

\* The answers the tick may get.
Answers ==
  [any |-> [locked |-> {IsSessionLocked(s) : s \in Sessions},
            remote |-> {IsRemoteContext(c) : c \in Contexts},
            input |-> {LiveInput(i) : i \in Inputs},
            fullscreen |-> {FullscreenActive(q) : q \in Screens}],
   away |-> [locked |-> {IsSessionLocked(s) : s \in AwaySessions},
             remote |-> {IsRemoteContext(c) : c \in AwayContexts},
             input |-> {LiveInput(i) : i \in AwayInputs},
             fullscreen |-> {FullscreenActive(q) : q \in AwayScreens}]]
=============================================================================
