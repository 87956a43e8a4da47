---------------------------- MODULE MCArchiveSearch ----------------------------
(* The instance TLC checks: two hours, the first one of two members; the   *)
(* query looks for some of the lines.                                      *)
EXTENDS ArchiveSearch

MCFirst == <<<<<<1, 2, 3>>, <<4>>>>, <<<<5>>>>>>
MCHits == {2, 4, 5, 6}
===============================================================================
