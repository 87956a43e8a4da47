------------------------------ MODULE MCImapPool ------------------------------
(* The instance TLC checks.                                                *)
EXTENDS ImapPool
===============================================================================
