---------------------------- MODULE MCArchiveCollector ----------------------------
(* The instance TLC checks.                                                *)
EXTENDS ArchiveCollector
===============================================================================
