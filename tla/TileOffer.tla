------------------------------ MODULE TileOffer ------------------------------
(***************************************************************************)
(* What the face tile promises LogonUI and the user: a scan the user asked *)
(* for offers at most one credential, nothing is offered for a scan the    *)
(* user walked away from, what was handed over is not offered again, and a *)
(* rejected logon bars the tile for good.  It has no threads and no texts. *)
(***************************************************************************)

VARIABLES scan,   \* a scan whose result is wanted, one that is not, or none
          offer,  \* a credential waits in the tile
          barred  \* a logon with our credential was rejected

vars == <<scan, offer, barred>>

Init == scan = "none" /\ offer = FALSE /\ barred = FALSE

Begin ==
  /\ scan = "none" /\ ~offer /\ ~barred
  /\ scan' = "wanted"
  /\ UNCHANGED <<offer, barred>>

WalkAway == scan = "wanted" /\ scan' = "unwanted" /\ UNCHANGED <<offer, barred>>

Fail == scan # "none" /\ scan' = "none" /\ UNCHANGED <<offer, barred>>

Publish ==
  /\ scan = "wanted" /\ ~offer /\ ~barred
  /\ scan' = "none" /\ offer' = TRUE
  /\ UNCHANGED barred

\* Handed to Windows, or dropped because it cannot be handed over.
Take == offer /\ offer' = FALSE /\ UNCHANGED <<scan, barred>>

Bar == ~barred /\ barred' = TRUE /\ offer' = FALSE /\ UNCHANGED scan

Next == Begin \/ WalkAway \/ Fail \/ Publish \/ Take \/ Bar

Spec == Init /\ [][Next]_vars
=============================================================================
