--------------------------- MODULE MCUnlockService ---------------------------
(* Model values for TLC: one SYSTEM client and one of the user's own. *)
EXTENDS UnlockService

CONSTANTS cp, gui

MCClients == {cp, gui}
MCSystem == {cp}
GrantCommands == {"unlock", "unlock_gesture", "presence", "clear_enrollment",
                  "reload_config"}
LiveCommands == {"unlock", "pause_camera", "resume_camera", "reload_config", "shutdown"}
StopCommands == {"unlock", "pause_camera", "shutdown"}
MCLeases == {1}
=============================================================================
