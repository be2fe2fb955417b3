---------------------------- MODULE MCCameraOpener ----------------------------
(* The model values of the camera opener's run. *)
EXTENDS CameraOpener

MCWorkers == {"t1", "t2", "t3"}
=============================================================================
