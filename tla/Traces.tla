-------------------------------- MODULE Traces --------------------------------
(***************************************************************************)
(* What the service leaves on disk of the attempts it answers: its audit   *)
(* log and, for diagnosis, frames.  They share no state.                   *)
(***************************************************************************)
EXTENDS AuditLog, FrameDumps

\* What the service writes of its attempts survives failures, deaths and rotation,
\* and keeps within its bounds (audit.py, _maybe_dump_frame).
TracesKept == LogKept /\ DumpsKept
=============================================================================
