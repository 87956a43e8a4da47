---------------------------- MODULE MCScopedActions ----------------------------
(* The instance TLC checks: two messages in one folder, a third in another. *)
EXTENDS ScopedActions

MCHome == <<1, 1, 2>>
===============================================================================
