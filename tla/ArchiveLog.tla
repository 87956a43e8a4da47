------------------------------ MODULE ArchiveLog ------------------------------
(***************************************************************************)
(* What the log archive promises its collector (log-archiver/store.js):    *)
(* a log of source lines in which a commit is one indivisible step that    *)
(* advances the source offset and files every line up to it under one      *)
(* hour, and an expiry removes whole hours.  Compaction, crashes and       *)
(* recovery are invisible at this level.                                   *)
(***************************************************************************)
EXTENDS Naturals

CONSTANTS Hours,      \* the (source, hour) keys of the catalog
          MaxOffset   \* bound: the source has the lines 1..MaxOffset

VARIABLES offset,     \* the lines 1..offset of the source are committed
          live        \* hour -> the committed lines it holds

logVars == <<offset, live>>

Init == /\ offset = 0
        /\ live = [h \in Hours |-> {}]

\* The lines after the offset up to n are filed under the hour place gives.
Commit(n, place) ==
  /\ offset' = n
  /\ live' = [h \in Hours |-> live[h] \union {l \in (offset + 1)..n : place[l] = h}]

Expire(S) ==
  /\ live' = [h \in Hours |-> IF h \in S THEN {} ELSE live[h]]
  /\ UNCHANGED offset

Next == \/ \E n \in offset..MaxOffset :
             \E place \in [1..MaxOffset -> Hours] : Commit(n, place)
        \/ \E S \in SUBSET Hours : Expire(S)

Spec == Init /\ [][Next]_logVars
===============================================================================
