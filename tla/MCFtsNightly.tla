----------------------------- MODULE MCFtsNightly -----------------------------
(* The instance TLC checks: neither instances nor folders differ.          *)
EXTENDS FtsNightly, TLC

Symmetry == Permutations(Instances) \union Permutations(Folders)
===============================================================================
