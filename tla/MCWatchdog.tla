------------------------------ MODULE MCWatchdog ------------------------------
(* Two processes of the service and one of a developer. *)
EXTENDS Watchdog

MCProcs == {"s1", "s2", "dev"}
MCSpared == {"dev"}
=============================================================================
