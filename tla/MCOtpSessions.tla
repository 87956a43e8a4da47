---------------------------- MODULE MCOtpSessions ----------------------------
(* The instance TLC checks; sessions and requests are interchangeable.     *)
EXTENDS OtpSessions, TLC

Symmetry == Permutations(Sessions) \union Permutations(Requests)
===============================================================================
