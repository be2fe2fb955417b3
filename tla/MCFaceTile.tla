------------------------------ MODULE MCFaceTile ------------------------------
(* One reason for each failure text. *)
EXTENDS FaceTile

MCReasons == {"no-match", "locked-out", "pipe-unavailable"}
=============================================================================
