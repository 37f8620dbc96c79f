-------------------------- MODULE MCNotifications --------------------------
(* Notifications for TLC.  Symmetry would be unsound for the liveness part.  *)
EXTENDS Notifications
=============================================================================
