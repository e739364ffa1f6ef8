------------------------ MODULE MCCommandAndConfirm -------------------------
(* Small instances of CommandAndConfirm for TLC: a mode that is asleep, two
   the stream has commands for, one of them by a code of its own, and one it
   has none for. *)
EXTENDS CommandAndConfirm

MCModes == {"sleep", "force", "haptic", "auto_zero"}
=============================================================================
