---------------------------- MODULE ComposeSendInv ----------------------------
(***************************************************************************)
(* The inductive invariant behind SentOnce, StatusTruthful and             *)
(* RefinesDelivery: which job may still deliver a message, and what its    *)
(* receipt says meanwhile.                                                 *)
(***************************************************************************)
EXTENDS ComposeSend

\* A send of k waits in the queue, or is the job that runs.
Waits(k) == \E i \in DOMAIN queue : queue[i].op = "send" /\ queue[i].key = k
Runs(k)  == job # Nil /\ job.op = "send" /\ job.key = k

Says(k, status) == sends[k] # Nil /\ sends[k].status = status

\* A composeId has one send in the queue, and none behind the one that runs.
QueueOK ==
  /\ \A i, j \in DOMAIN queue :
       queue[i].op = "send" /\ queue[j].op = "send" /\ queue[i].key = queue[j].key => i = j
  /\ \A k \in Keys : Runs(k) => ~Waits(k)

\* The steps that belong to each kind of job.
PcOK == /\ pc \in {"smtp", "data", "answer", "copy", "fallback", "unlink", "settle"} =>
             job.op = "send"
        /\ pc \in {"append", "verify", "replace"} => job.op = "save"

\* A message whose send waits, or has not reached its end of DATA, is not out.
Undelivered(k) == /\ delivered[k] = 0
                  /\ open => Says(k, "checking")

ReceiptOK(k) ==
  /\ Waits(k) => Undelivered(k)
  /\ Runs(k) /\ pc \in {"check", "smtp", "data"} => Undelivered(k)
  /\ Runs(k) /\ pc = "answer" => /\ delivered[k] = IF work.accepted THEN 1 ELSE 0
                                 /\ open => Says(k, "checking")
  /\ Runs(k) /\ pc \in {"copy", "fallback", "unlink", "settle"} =>
       /\ delivered[k] = 1
       /\ open => Says(k, "sent")
  /\ open /\ sends[k] = Nil => delivered[k] = 0
  /\ Says(k, "sent") => delivered[k] = 1
  /\ Says(k, "not_sent") => delivered[k] = 0
  /\ delivered[k] <= 1

\* One send at a time may deliver a message, and its receipt says "checking" as
\* long as it may.
Account == /\ QueueOK
           /\ PcOK
           /\ ~open => \A k \in Keys : sends[k] = Nil
           /\ \A k \in Keys : ReceiptOK(k)

\* What holds between any two steps of the compose service (send, serial,
\* write): the types, and the account of what may still leave.
SendInv == TypeOK /\ Account
===============================================================================
