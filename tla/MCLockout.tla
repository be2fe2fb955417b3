------------------------------ MODULE MCLockout ------------------------------
(* The model values of the run in which a save may fail. *)
EXTENDS Lockout

MCAttempts == 1 .. 3
MCDurations == {0, 2}
=============================================================================
