---------------------------- MODULE MCArchiveStore ----------------------------
(* The instance TLC checks, with the invariants of the proofs at hand.     *)
EXTENDS ArchiveLinesInv
===============================================================================
