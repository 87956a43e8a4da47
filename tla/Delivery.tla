------------------------------- MODULE Delivery -------------------------------
(***************************************************************************)
(* What the compose service promises the composer about a composeId        *)
(* (webmail/server/mail/compose.js, send and sendStatus): within a session *)
(* a message leaves at most once, "sent" is said only of a message that    *)
(* left, "not_sent" only of one that did not, and only "not_sent" may be   *)
(* tried again.                                                            *)
(***************************************************************************)
EXTENDS Naturals

CONSTANT Keys        \* the composeIds

VARIABLES told,      \* composeId -> what sendStatus() says
          out,       \* composeId -> the messages the mail server accepted
          over       \* the session has ended and its receipts are forgotten

deliveryVars == <<told, out, over>>

Init == /\ told = [k \in Keys |-> "none"]
        /\ out = [k \in Keys |-> 0]
        /\ over = FALSE

Claim(k) == /\ ~over
            /\ told[k] \in {"none", "not_sent"}
            /\ told' = [told EXCEPT ![k] = "checking"]
            /\ UNCHANGED <<out, over>>

Accept(k) == /\ told[k] = "checking" \/ over
             /\ out[k] = 0
             /\ out' = [out EXCEPT ![k] = 1]
             /\ UNCHANGED <<told, over>>

Answer(k, status) == /\ told[k] = "checking"
                     /\ status = "sent" => out[k] = 1
                     /\ status = "not_sent" => out[k] = 0
                     /\ told' = [told EXCEPT ![k] = status]
                     /\ UNCHANGED <<out, over>>

Forget == /\ ~over
          /\ over' = TRUE
          /\ told' = [k \in Keys |-> "none"]
          /\ UNCHANGED out

Next == \/ \E k \in Keys : Claim(k) \/ Accept(k)
        \/ \E k \in Keys, status \in {"sent", "not_sent", "unknown"} : Answer(k, status)
        \/ Forget

Spec == Init /\ [][Next]_deliveryVars
===============================================================================
