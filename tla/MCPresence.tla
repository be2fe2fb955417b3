------------------------------ MODULE MCPresence ------------------------------
(* The settings a user may save: the usual ones, and ones without             *)
(* confirmation, quicker to lock and over a full screen counted on.           *)
EXTENDS Presence

Usual == [limit |-> 2, fs |-> 0, streak |-> 2, auto |-> TRUE, confirm |-> TRUE,
          input |-> TRUE]
Eager == [limit |-> 1, fs |-> 2, streak |-> 1, auto |-> TRUE, confirm |-> FALSE,
          input |-> FALSE]
MCConfigs == {Usual, Eager}
=============================================================================
