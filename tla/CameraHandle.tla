----------------------------- MODULE CameraHandle -----------------------------
(***************************************************************************)
(* What the bounded opener promises its one caller: it is held up for a    *)
(* bounded time, the capture it is given is its own until it closes it,    *)
(* and a capture that arrives after it left is closed by somebody else     *)
(* before a new attempt begins.  It has no threads.                        *)
(***************************************************************************)

VARIABLES holder,  \* who answers for the device: nobody, an open, the caller,
                   \* or an attempt that was given up
          device   \* our process has a capture of the webcam

vars == <<holder, device>>

TypeOK ==
  /\ holder \in {"free", "trying", "held", "orphan"}
  /\ device \in BOOLEAN

Init == holder = "free" /\ device = FALSE

Try == holder = "free" /\ holder' = "trying" /\ UNCHANGED device

\* The driver gives or takes back the webcam while nobody relies on it.
Driver ==
  /\ holder \in {"trying", "orphan"}
  /\ device' = ~device
  /\ UNCHANGED holder

\* The open returns: a capture is handed over, there is none, or there may be
\* one later.
Settle ==
  /\ holder = "trying"
  /\ holder' = IF device THEN "held" ELSE "free"
  /\ UNCHANGED device

GiveUp == holder = "trying" /\ holder' = "orphan" /\ UNCHANGED device

Close == holder = "held" /\ holder' = "free" /\ device' = FALSE

Reclaim ==
  /\ holder = "orphan" /\ ~device
  /\ holder' = "free"
  /\ UNCHANGED device

Return == Settle \/ GiveUp

Next == Try \/ Driver \/ Return \/ Close \/ Reclaim

Spec == Init /\ [][Next]_vars
FairSpec == Spec /\ WF_vars(Return)
=============================================================================
