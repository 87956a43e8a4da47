--------------------------- MODULE ComposeSendProofs ---------------------------
(***************************************************************************)
(* Proofs about ComposeSend: its types, the account of what may still      *)
(* leave (SendInv), that it implements Delivery, and, on the same account, *)
(* what the mailbox keeps.                                                 *)
(***************************************************************************)
EXTENDS ComposeSendInv, TLAPS

-------------------------------------------------------------------------------
(* Types.                                                                  *)

\* The records the module builds are of their types.
LEMMA Records ==
  /\ NoWork \in Work
  /\ \A status \in {"checking", "sent", "unknown", "not_sent"} : Receive(status) \in Receipt
  /\ Nil \notin Job /\ Nil \notin Receipt
BY ComposeAssumption DEF NoWork, Work, Receive, Receipt

\* What Fail() leaves has its type.
LEMMA FailType ==
  ASSUME NEW error, TypeOK, pc # "idle", Fail(error)
  PROVE  /\ job' = Nil /\ pc' = "idle" /\ work' \in Work
         /\ sends' \in [Keys -> Receipt \union {Nil}]
<1>1. job \in Job
  BY DEF TypeOK
<1>2. job.key \in Keys
  BY <1>1 DEF Job
<1>3. Receive(IF error = "SMTP_OUTCOME_UNKNOWN" THEN "unknown" ELSE "not_sent") \in Receipt
  BY Records
<1>4. sends' \in [Keys -> Receipt \union {Nil}]
  BY <1>2, <1>3 DEF Fail, TypeOK
<1> QED
  BY <1>4, Records DEF Fail, EndJob

\* What an IMAP call leaves in the mailbox has its type.
LEMMA StoreType ==
  ASSUME TypeOK, pc # "idle", NEW box \in {"sent", "drafts"}, Store(box) \/ StoreFails(box)
  PROVE  mailbox' \subseteq Message /\ lastRef' \in Nat
<1>1. job \in Job
  BY DEF TypeOK
<1>2. Stored(box) \in Message
  BY <1>1 DEF Stored, Message, Job, TypeOK
<1> QED
  BY <1>2 DEF Store, StoreFails, TypeOK

\* A new session: nothing queued, no receipt, one upload slot per file.
LEMMA InitType == Init => TypeOK
<1> SUFFICES ASSUME Init PROVE TypeOK
  OBVIOUS
<1>1. queue \in Seq(Job)
  BY DEF Init
<1>2. composer \in [Keys -> [version: 1..MaxVersion, ref: Nat \union {Nil},
                             file: (1..MaxUploads) \union {Nil}]]
  BY ComposeAssumption DEF Init
<1>3. /\ files \in [1..MaxUploads -> {"none", "fresh", "stale"}]
      /\ sends \in [Keys -> Receipt \union {Nil}]
      /\ delivered \in [Keys -> Nat] /\ saved \in [Keys -> Nat]
  BY DEF Init
<1> QED
  BY <1>1, <1>2, <1>3, Records, ComposeAssumption DEF Init, TypeOK

\* A call enters the queue.
LEMMA AskType ==
  ASSUME TypeOK, NEW k \in Keys, NEW op \in {"send", "save"}, NEW manual \in BOOLEAN,
         Ask(k, op, manual)
  PROVE  /\ queue' \in Seq(Job)
         /\ requests' \in 0..MaxRequests
         /\ composer' \in [Keys -> [version: 1..MaxVersion, ref: Nat \union {Nil},
                                    file: (1..MaxUploads) \union {Nil}]]
<1>1. PICK version \in composer[k].version..MaxVersion :
        /\ composer' = [composer EXCEPT ![k].version = version]
        /\ queue' = Append(queue, [op |-> op, key |-> k, version |-> version,
                                   ref |-> composer[k].ref, file |-> composer[k].file,
                                   manual |-> manual])
  BY DEF Ask
<1>2. /\ composer[k] \in [version: 1..MaxVersion, ref: Nat \union {Nil},
                          file: (1..MaxUploads) \union {Nil}]
      /\ version \in 1..MaxVersion
  BY ComposeAssumption DEF TypeOK
<1>3. [op |-> op, key |-> k, version |-> version, ref |-> composer[k].ref,
       file |-> composer[k].file, manual |-> manual] \in Job
  BY <1>2, ComposeAssumption DEF Job
<1>4. queue' \in Seq(Job)
  BY <1>1, <1>3 DEF TypeOK
<1>5. composer' \in [Keys -> [version: 1..MaxVersion, ref: Nat \union {Nil},
                              file: (1..MaxUploads) \union {Nil}]]
  BY <1>1, <1>2 DEF TypeOK
<1> QED
  BY <1>4, <1>5, ComposeAssumption DEF Ask, TypeOK

\* The composer's calls.
LEMMA ComposeType == ASSUME TypeOK, Compose PROVE TypeOK'
<1>1. CASE \E k \in Keys : Send(k)
  <2>1. PICK k \in Keys : Send(k)
    BY <1>1
  <2>2. sends' \in [Keys -> Receipt \union {Nil}]
    BY <2>1, Records DEF Send, TypeOK
  <2> QED
    BY <2>1, <2>2, AskType DEF Send, TypeOK
<1>2. CASE \E k \in Keys, manual \in BOOLEAN : Save(k, manual)
  <2>1. PICK k \in Keys, manual \in BOOLEAN : Save(k, manual)
    BY <1>2
  <2> QED
    BY <2>1, AskType DEF Save, TypeOK
<1>3. CASE \E k \in Keys : Upload(k)
  <2>1. PICK k \in Keys : Upload(k)
    BY <1>3
  <2>2. /\ composer[k] \in [version: 1..MaxVersion, ref: Nat \union {Nil},
                            file: (1..MaxUploads) \union {Nil}]
        /\ uploads + 1 \in 1..MaxUploads
    BY <2>1, ComposeAssumption DEF Upload, TypeOK
  <2>3. composer' \in [Keys -> [version: 1..MaxVersion, ref: Nat \union {Nil},
                                file: (1..MaxUploads) \union {Nil}]]
    BY <2>1, <2>2 DEF Upload, TypeOK
  <2>4. files' \in [1..MaxUploads -> {"none", "fresh", "stale"}]
    BY <2>1 DEF Upload, Pruned, TypeOK
  <2>5. uploads' \in 0..MaxUploads
    BY <2>1, <2>2, ComposeAssumption DEF Upload, TypeOK
  <2> QED
    BY <2>1, <2>3, <2>4, <2>5 DEF Upload, TypeOK
<1>4. CASE \E k \in Keys : Remove(k)
  <2>1. PICK k \in Keys : Remove(k)
    BY <1>4
  <2>2. composer[k] \in [version: 1..MaxVersion, ref: Nat \union {Nil},
                         file: (1..MaxUploads) \union {Nil}]
    BY <2>1 DEF TypeOK
  <2>3. composer' \in [Keys -> [version: 1..MaxVersion, ref: Nat \union {Nil},
                                file: (1..MaxUploads) \union {Nil}]]
    BY <2>1, <2>2 DEF Remove, TypeOK
  <2>4. files' \in [1..MaxUploads -> {"none", "fresh", "stale"}]
    BY <2>1 DEF Remove, Pruned, TypeOK
  <2> QED
    BY <2>1, <2>3, <2>4 DEF Remove, TypeOK
<1> QED
  BY <1>1, <1>2, <1>3, <1>4 DEF Compose

\* Time, the sweeper and the end of the session.
LEMMA SessionType ==
  ASSUME TypeOK, (\E id \in 1..MaxUploads : Age(id)) \/ Sweep \/ EndSession
  PROVE  TypeOK'
BY DEF Age, Sweep, EndSession, Pruned, TypeOK

\* A job starts, is dropped, or is checked.
LEMMA QueueType == ASSUME TypeOK, StartJob \/ DropJob \/ CheckJob \/ CheckFails PROVE TypeOK'
<1>1. CASE StartJob
  <2>1. Head(queue) \in Job /\ Tail(queue) \in Seq(Job)
    BY <1>1 DEF StartJob, TypeOK
  <2> QED
    BY <1>1, <2>1, Records DEF StartJob, Pruned, TypeOK
<1>2. CASE DropJob
  <2>1. Tail(queue) \in Seq(Job)
    BY <1>2 DEF DropJob, TypeOK
  <2> QED
    BY <1>2, <2>1 DEF DropJob, TypeOK
<1>3. CASE CheckJob
  BY <1>3 DEF CheckJob, TypeOK
<1>4. CASE CheckFails
  BY <1>4, FailType DEF CheckFails, TypeOK
<1> QED
  BY <1>1, <1>2, <1>3, <1>4

\* A send talks to the SMTP server.
LEMMA SmtpType ==
  ASSUME TypeOK, SmtpBegin \/ SmtpRefused \/ SmtpDecide \/ SmtpAccepted \/ SmtpFails
  PROVE  TypeOK'
<1>1. CASE SmtpBegin
  BY <1>1 DEF SmtpBegin, TypeOK
<1>2. CASE SmtpRefused
  BY <1>2, FailType DEF SmtpRefused, TypeOK
<1>3. CASE SmtpDecide
  <2>1. job \in Job /\ job.key \in Keys
    BY <1>3 DEF SmtpDecide, TypeOK, Job
  <2>2. delivered' \in [Keys -> Nat]
    BY <1>3, <2>1 DEF SmtpDecide, TypeOK
  <2>3. work' \in Work
    BY <1>3 DEF SmtpDecide, TypeOK, Work
  <2> QED
    BY <1>3, <2>2, <2>3 DEF SmtpDecide, TypeOK
<1>4. CASE SmtpAccepted
  <2>1. [Receive("sent") EXCEPT !.copyPending = TRUE] \in Receipt
    BY DEF Receive, Receipt
  <2>2. sends' \in [Keys -> Receipt \union {Nil}]
    BY <1>4, <2>1 DEF SmtpAccepted, TypeOK
  <2> QED
    BY <1>4, <2>2 DEF SmtpAccepted, TypeOK
<1>5. CASE SmtpFails
  BY <1>5, FailType DEF SmtpFails, TypeOK
<1> QED
  BY <1>1, <1>2, <1>3, <1>4, <1>5

\* A send files its copy and cleans up.
LEMMA CopyType ==
  ASSUME TypeOK, CopyToSent \/ CopyFails \/ CopyToDrafts \/ UnlinkDraft \/ SettleSend
  PROVE  TypeOK'
<1>1. CASE CopyToSent
  <2>1. work' \in Work
    BY <1>1 DEF CopyToSent, TypeOK, Work
  <2> QED
    BY <1>1, <2>1, StoreType DEF CopyToSent, TypeOK
<1>2. CASE CopyFails
  <2>1. work' \in Work
    BY <1>2 DEF CopyFails, TypeOK, Work
  <2> QED
    BY <1>2, <2>1, StoreType DEF CopyFails, TypeOK
<1>3. CASE CopyToDrafts
  <2>1. work' \in Work
    BY <1>3 DEF CopyToDrafts, TypeOK, Work
  <2>2. Store("drafts") \/ StoreFails("drafts")
    BY <1>3 DEF CopyToDrafts
  <2> QED
    BY <1>3, <2>1, <2>2, StoreType DEF CopyToDrafts, TypeOK
<1>4. CASE UnlinkDraft
  BY <1>4 DEF UnlinkDraft, TryDelete, Delete, TypeOK
<1>5. CASE SettleSend
  <2>1. [Receive("sent") EXCEPT !.savedTo = work.savedTo] \in Receipt
    BY DEF Receive, Receipt, Work, TypeOK
  <2>2. sends' \in [Keys -> Receipt \union {Nil}]
    BY <1>5, <2>1 DEF SettleSend, TypeOK
  <2> QED
    BY <1>5, <2>2, Records DEF SettleSend, EndJob, TypeOK
<1> QED
  BY <1>1, <1>2, <1>3, <1>4, <1>5

\* A save.
LEMMA SaveType == ASSUME TypeOK, SaveStep PROVE TypeOK'
<1>1. CASE AppendDraft
  <2>1. work' \in Work
    <3>1. lastRef + 1 \in Nat
      BY DEF TypeOK
    <3> QED
      BY <1>1, <3>1 DEF AppendDraft, TypeOK, Work
  <2> QED
    BY <1>1, <2>1, StoreType DEF AppendDraft, TypeOK
<1>2. CASE AppendFails
  BY <1>2, FailType, StoreType DEF AppendFails, TypeOK
<1>3. CASE VerifyDraft
  BY <1>3 DEF VerifyDraft, TypeOK
<1>4. CASE VerifyFails
  BY <1>4, FailType DEF VerifyFails, TryDelete, Delete, TypeOK
<1>5. CASE ReplaceDraft
  <2>1. job \in Job /\ job.key \in Keys /\ job.version \in Nat
    BY <1>5 DEF ReplaceDraft, TypeOK, Job
  <2>2. [[Receive("sent") EXCEPT !.savedTo = "drafts"] EXCEPT !.manual = TRUE] \in Receipt
    BY DEF Receive, Receipt
  <2>3. sends' \in [Keys -> Receipt \union {Nil}]
    BY <1>5, <2>2 DEF ReplaceDraft, TypeOK
  <2>4. composer' \in [Keys -> [version: 1..MaxVersion, ref: Nat \union {Nil},
                                file: (1..MaxUploads) \union {Nil}]]
    <3>1. /\ composer[job.key] \in [version: 1..MaxVersion, ref: Nat \union {Nil},
                                    file: (1..MaxUploads) \union {Nil}]
          /\ work.ref \in Nat \union {Nil}
      BY <2>1 DEF TypeOK, Work
    <3>2. [composer[job.key] EXCEPT !.ref = work.ref] \in
            [version: 1..MaxVersion, ref: Nat \union {Nil}, file: (1..MaxUploads) \union {Nil}]
      BY <3>1
    <3> QED
      BY <1>5, <2>1, <3>2 DEF ReplaceDraft, TypeOK
  <2>5. saved' \in [Keys -> Nat] /\ mailbox' \subseteq Message
    BY <1>5, <2>1 DEF ReplaceDraft, Delete, TypeOK
  <2> QED
    BY <1>5, <2>3, <2>4, <2>5, Records DEF ReplaceDraft, EndJob, TypeOK
<1>6. CASE ReplaceFails
  BY <1>6, FailType DEF ReplaceFails, TryDelete, Delete, TypeOK
<1> QED
  BY <1>1, <1>2, <1>3, <1>4, <1>5, <1>6 DEF SaveStep

\* Every step keeps the types.
LEMMA NextType == ASSUME TypeOK, [Next]_vars PROVE TypeOK'
<1>1. CASE UNCHANGED vars
  BY <1>1 DEF vars, TypeOK
<1> QED
  BY <1>1, ComposeType, SessionType, QueueType, SmtpType, CopyType, SaveType
     DEF Next, JobStep, SendStep

-------------------------------------------------------------------------------
(* The account of what may still leave.                                    *)

\* Steps that leave the queue, the job and the receipts alone keep the account,
\* within the steps of one kind.
LEMMA MoveAccount ==
  ASSUME TypeOK, Account, UNCHANGED <<open, queue, job, sends, delivered>>,
         \/ UNCHANGED <<pc, work>>
         \/ pc \in {"copy", "fallback", "unlink"} /\ pc' \in {"copy", "fallback", "unlink", "settle"}
         \/ pc \in {"append", "verify"} /\ pc' \in {"verify", "replace"}
         \/ pc = "check" /\ pc' = (IF job.op = "send" THEN "smtp" ELSE "append")
         \/ pc = "smtp" /\ pc' = "data"
  PROVE  Account'
<1>1. \A k \in Keys : /\ Waits(k)' <=> Waits(k)
                      /\ Runs(k)' <=> Runs(k)
  BY DEF Waits, Runs
<1>2. QueueOK'
  BY <1>1 DEF Account, QueueOK
<1>3. PcOK'
  <2>1. CASE pc = "check"
    <3>1. job \in Job
      BY <2>1 DEF TypeOK
    <3> QED
      BY <2>1, <3>1 DEF Account, PcOK, Job
  <2>2. CASE pc # "check"
    BY <2>2 DEF Account, PcOK
  <2> QED
    BY <2>1, <2>2
<1>4. ASSUME NEW k \in Keys PROVE ReceiptOK(k)'
  <2>1. ReceiptOK(k) /\ PcOK
    BY DEF Account
  <2>2. pc' = "answer" => UNCHANGED <<pc, work>>
    OBVIOUS
  <2> QED
    BY <1>1, <2>1, <2>2 DEF ReceiptOK, Undelivered, Says, PcOK, Runs
<1> QED
  BY <1>2, <1>3, <1>4 DEF Account

\* A job ends.  A receipt it changes is not of a send that waits, and is true.
LEMMA EndAccount ==
  ASSUME TypeOK, Account, job' = Nil, pc' = "idle", UNCHANGED <<open, queue, delivered>>,
         \A k \in Keys :
           \/ sends'[k] = sends[k]
           \/ /\ open /\ ~Waits(k)
              /\ sends'[k] # Nil
              /\ sends'[k].status = "sent" => delivered[k] = 1
              /\ sends'[k].status = "not_sent" => delivered[k] = 0
  PROVE  Account'
<1>1. \A k \in Keys : /\ Waits(k)' <=> Waits(k)
                      /\ ~Runs(k)'
  BY DEF Waits, Runs
<1>2. QueueOK' /\ PcOK'
  BY <1>1 DEF Account, QueueOK, PcOK
<1>3. (~open => \A k \in Keys : sends[k] = Nil)'
  BY DEF Account
<1>4. ASSUME NEW k \in Keys PROVE ReceiptOK(k)'
  <2>1. ReceiptOK(k)
    BY DEF Account
  <2>2. CASE sends'[k] = sends[k]
    BY <1>1, <2>1, <2>2 DEF ReceiptOK, Undelivered, Says
  <2>3. CASE sends'[k] # sends[k]
    BY <1>1, <2>1, <2>3 DEF ReceiptOK, Undelivered, Says
  <2> QED
    BY <2>2, <2>3
<1> QED
  BY <1>2, <1>3, <1>4 DEF Account

\* A job fails with an error that does not deny a delivery.
LEMMA FailAccount ==
  ASSUME TypeOK, Account, pc # "idle", NEW error, Fail(error), UNCHANGED <<open, queue, delivered>>,
         job.op = "send" => delivered[job.key] = 0 \/ error = "SMTP_OUTCOME_UNKNOWN"
  PROVE  Account'
<1>1. job \in Job /\ job # Nil /\ job.key \in Keys
  BY Records DEF TypeOK, Job
<1>2. ASSUME NEW k \in Keys
      PROVE  \/ sends'[k] = sends[k]
             \/ /\ open /\ ~Waits(k)
                /\ sends'[k] # Nil
                /\ sends'[k].status = "sent" => delivered[k] = 1
                /\ sends'[k].status = "not_sent" => delivered[k] = 0
  <2>1. CASE ~(job.op = "send" /\ job.key = k /\ sends[k] # Nil /\ sends[k].status # "sent")
    BY <1>1, <2>1 DEF Fail, TypeOK
  <2>2. CASE job.op = "send" /\ job.key = k /\ sends[k] # Nil /\ sends[k].status # "sent"
    <3>1. open /\ ~Waits(k)
      BY <1>1, <2>2 DEF Account, QueueOK, Runs
    <3>2. sends'[k] = Receive(IF error = "SMTP_OUTCOME_UNKNOWN" THEN "unknown" ELSE "not_sent")
      BY <1>1, <2>2 DEF Fail, TypeOK
    <3>3. sends'[k].status = IF error = "SMTP_OUTCOME_UNKNOWN" THEN "unknown" ELSE "not_sent"
      BY <3>2 DEF Receive
    <3>4. sends'[k] # Nil
      BY <3>2, Records
    <3> QED
      BY <2>2, <3>1, <3>3, <3>4
  <2> QED
    BY <2>1, <2>2
<1>3. job' = Nil /\ pc' = "idle"
  BY DEF Fail, EndJob
<1> QED
  BY <1>2, <1>3, EndAccount

\* send() claims a composeId that no job can deliver any more; draft() does not
\* touch the account.
LEMMA ComposeAccount == ASSUME TypeOK, Account, Compose PROVE Account'
<1>1. ASSUME NEW k \in Keys, Send(k) PROVE Account'
  <2>1. /\ sends[k] = Nil \/ Says(k, "not_sent")
        /\ open /\ open' = open /\ UNCHANGED <<job, pc, work, delivered>>
        /\ sends' = [sends EXCEPT ![k] = Receive("checking")]
    BY <1>1 DEF Send, Claimed, Ask, Says
  <2>2. ~Waits(k) /\ ~Runs(k) /\ delivered[k] = 0
    <3>1. ReceiptOK(k) /\ PcOK
      BY DEF Account
    <3>2. job # Nil => pc \in {"check", "smtp", "data", "answer", "copy", "fallback", "unlink",
                               "settle", "append", "verify", "replace"}
      BY DEF TypeOK
    <3> QED
      BY <2>1, <3>1, <3>2 DEF ReceiptOK, Undelivered, Says, PcOK, Runs
  <2>3. PICK call : queue' = Append(queue, call) /\ call.op = "send" /\ call.key = k
    BY <1>1 DEF Send, Ask
  <2>4. /\ Len(queue) \in Nat /\ DOMAIN queue = 1..Len(queue)
        /\ DOMAIN queue' = 1..(Len(queue) + 1)
        /\ \A i \in DOMAIN queue : queue'[i] = queue[i]
        /\ queue'[Len(queue) + 1] = call
    BY <2>3 DEF TypeOK
  <2>5. \A j \in Keys : /\ Waits(j)' <=> Waits(j) \/ j = k
                        /\ Runs(j)' <=> Runs(j)
    BY <2>1, <2>3, <2>4 DEF Waits, Runs
  <2>6. QueueOK'
    <3>1. ASSUME NEW i \in DOMAIN queue', NEW j \in DOMAIN queue', i < j,
                 queue'[i].op = "send", queue'[j].op = "send", queue'[i].key = queue'[j].key
          PROVE  FALSE
      <4>1. CASE j = Len(queue) + 1
        BY <2>2, <2>3, <2>4, <3>1, <4>1 DEF Waits
      <4>2. CASE j \in DOMAIN queue
        BY <2>4, <3>1, <4>2 DEF Account, QueueOK
      <4> QED
        BY <2>4, <4>1, <4>2
    <3>2. \A i, j \in DOMAIN queue' : i < j \/ j < i \/ i = j
      BY <2>4
    <3> QED
      BY <2>2, <2>5, <3>1, <3>2 DEF Account, QueueOK
  <2>7. PcOK'
    BY <2>1 DEF Account, PcOK
  <2>8. ASSUME NEW j \in Keys PROVE ReceiptOK(j)'
    <3>1. ReceiptOK(j)
      BY DEF Account
    <3>2. CASE j = k
      <4>1. sends'[j] # Nil /\ sends'[j].status = "checking"
        BY <2>1, <3>2, Records DEF TypeOK, Receive
      <4> QED
        BY <2>1, <2>2, <2>5, <3>2, <4>1 DEF ReceiptOK, Undelivered, Says
    <3>3. CASE j # k
      <4>1. sends'[j] = sends[j]
        BY <2>1, <3>3 DEF TypeOK
      <4> QED
        BY <2>1, <2>5, <3>1, <3>3, <4>1 DEF ReceiptOK, Undelivered, Says
    <3> QED
      BY <3>2, <3>3
  <2> QED
    BY <2>1, <2>6, <2>7, <2>8 DEF Account
<1>2. ASSUME NEW k \in Keys, NEW manual \in BOOLEAN, Save(k, manual) PROVE Account'
  <2>1. UNCHANGED <<open, job, pc, work, sends, delivered>>
    BY <1>2 DEF Save
  <2>2. PICK call : queue' = Append(queue, call) /\ call.op = "save"
    BY <1>2 DEF Save, Ask
  <2>3. /\ Len(queue) \in Nat /\ DOMAIN queue = 1..Len(queue)
        /\ DOMAIN queue' = 1..(Len(queue) + 1)
        /\ \A i \in DOMAIN queue : queue'[i] = queue[i]
        /\ queue'[Len(queue) + 1] = call
    BY <2>2 DEF TypeOK
  <2>4. \A i \in DOMAIN queue' : queue'[i].op = "send" => i \in DOMAIN queue
    BY <2>2, <2>3
  <2>5. \A j \in Keys : /\ Waits(j)' <=> Waits(j)
                        /\ Runs(j)' <=> Runs(j)
    BY <2>1, <2>3, <2>4 DEF Waits, Runs
  <2>6. QueueOK'
    BY <2>3, <2>4, <2>5 DEF Account, QueueOK
  <2>7. PcOK'
    BY <2>1 DEF Account, PcOK
  <2>8. \A j \in Keys : ReceiptOK(j)'
    BY <2>1, <2>5 DEF Account, ReceiptOK, Undelivered, Says
  <2> QED
    BY <2>1, <2>6, <2>7, <2>8 DEF Account
<1>3. ASSUME NEW k \in Keys, Upload(k) \/ Remove(k) PROVE Account'
  <2>1. UNCHANGED <<open, queue, job, pc, work, sends, delivered>>
    BY <1>3 DEF Upload, Remove
  <2> QED
    BY <2>1, MoveAccount
<1> QED
  BY <1>1, <1>2, <1>3 DEF Compose

\* Time and the sweeper leave the account alone; the end of the session forgets
\* the receipts.
LEMMA SessionAccount ==
  ASSUME TypeOK, Account, (\E id \in 1..MaxUploads : Age(id)) \/ Sweep \/ EndSession
  PROVE  Account'
<1>1. CASE (\E id \in 1..MaxUploads : Age(id)) \/ Sweep
  <2>1. UNCHANGED <<open, queue, job, pc, work, sends, delivered>>
    BY <1>1 DEF Age, Sweep
  <2> QED
    BY <2>1, MoveAccount
<1>2. CASE EndSession
  <2>1. /\ ~open' /\ UNCHANGED <<queue, job, pc, work, delivered>>
        /\ \A k \in Keys : sends'[k] = Nil
    BY <1>2 DEF EndSession
  <2>2. \A k \in Keys : (Waits(k)' <=> Waits(k)) /\ (Runs(k)' <=> Runs(k))
    BY <2>1 DEF Waits, Runs
  <2>3. QueueOK' /\ PcOK'
    BY <2>1, <2>2 DEF Account, QueueOK, PcOK
  <2>4. \A k \in Keys : ReceiptOK(k)'
    BY <2>1, <2>2 DEF Account, ReceiptOK, Undelivered, Says
  <2> QED
    BY <2>1, <2>3, <2>4 DEF Account
<1> QED
  BY <1>1, <1>2

\* The queue hands out its sends one by one.
LEMMA QueueAccount == ASSUME TypeOK, Account, StartJob \/ DropJob PROVE Account'
<1>1. /\ pc = "idle" /\ job = Nil
      /\ queue' = Tail(queue)
      /\ queue \in Seq(Job) /\ queue # <<>>
      /\ UNCHANGED <<open, sends, delivered>>
  BY DEF StartJob, DropJob, TypeOK
<1>2. /\ Len(queue) \in Nat /\ DOMAIN queue = 1..Len(queue) /\ Len(queue) > 0
      /\ DOMAIN queue' = 1..(Len(queue) - 1)
      /\ \A i \in DOMAIN queue' : i + 1 \in DOMAIN queue /\ queue'[i] = queue[i + 1]
      /\ 1 \in DOMAIN queue /\ Head(queue) = queue[1]
  BY <1>1
<1>3. \A k \in Keys : Waits(k)' => Waits(k)
  BY <1>2 DEF Waits
<1>4. \A i, j \in DOMAIN queue' :
        queue'[i].op = "send" /\ queue'[j].op = "send" /\ queue'[i].key = queue'[j].key => i = j
  BY <1>2 DEF Account, QueueOK
<1>5. CASE StartJob
  <2>1. job' = queue[1] /\ pc' = "check" /\ work' = work
    BY <1>2, <1>5 DEF StartJob
  <2>2. ASSUME NEW k \in Keys, Runs(k)' PROVE Waits(k) /\ ~Waits(k)'
    <3>1. queue[1].op = "send" /\ queue[1].key = k
      BY <2>1, <2>2 DEF Runs
    <3>2. Waits(k)
      BY <1>2, <3>1 DEF Waits
    <3>3. ASSUME NEW i \in DOMAIN queue', queue'[i].op = "send", queue'[i].key = k PROVE FALSE
      <4>1. i + 1 = 1
        BY <1>2, <3>1, <3>3 DEF Account, QueueOK
      <4> QED
        BY <1>2, <4>1
    <3> QED
      BY <3>2, <3>3 DEF Waits
  <2>3. QueueOK' /\ PcOK'
    BY <1>4, <2>1, <2>2 DEF QueueOK, PcOK
  <2>4. \A k \in Keys : ReceiptOK(k)'
    BY <1>1, <1>3, <2>1, <2>2 DEF Account, ReceiptOK, Undelivered, Says
  <2> QED
    BY <1>1, <2>3, <2>4 DEF Account
<1>6. CASE DropJob
  <2>1. UNCHANGED <<job, pc, work>>
    BY <1>6 DEF DropJob
  <2>2. \A k \in Keys : ~Runs(k)'
    BY <1>1, <2>1 DEF Runs
  <2>3. QueueOK' /\ PcOK'
    BY <1>1, <1>4, <2>1, <2>2 DEF QueueOK, PcOK
  <2>4. \A k \in Keys : ReceiptOK(k)'
    BY <1>1, <1>3, <2>2 DEF Account, ReceiptOK, Undelivered, Says
  <2> QED
    BY <1>1, <2>3, <2>4 DEF Account
<1> QED
  BY <1>5, <1>6

\* Checking a job lets nothing out.
LEMMA CheckAccount == ASSUME TypeOK, Account, CheckJob \/ CheckFails PROVE Account'
<1>1. CASE CheckJob
  BY <1>1, MoveAccount DEF CheckJob
<1>2. CASE CheckFails
  <2>1. pc = "check" /\ job \in Job /\ job # Nil
    BY <1>2, Records DEF CheckFails, TypeOK
  <2>2. job.op = "send" => delivered[job.key] = 0
    BY <2>1 DEF Account, ReceiptOK, Undelivered, Runs, Job
  <2> QED
    BY <1>2, <2>1, <2>2, FailAccount DEF CheckFails
<1> QED
  BY <1>1, <1>2

\* What an error says is true of what the server did: before DATA nothing left,
\* after it only a response code says that nothing did.
LEMMA SmtpAccount ==
  ASSUME TypeOK, Account, SmtpBegin \/ SmtpRefused \/ SmtpDecide \/ SmtpAccepted \/ SmtpFails
  PROVE  Account'
<1>1. /\ pc \in {"smtp", "data", "answer"}
      /\ job \in Job /\ job # Nil /\ job.op = "send" /\ job.key \in Keys
      /\ Runs(job.key) /\ ReceiptOK(job.key)
  BY Records DEF SmtpBegin, SmtpRefused, SmtpDecide, SmtpAccepted, SmtpFails, TypeOK, Account, PcOK,
                 Runs, Job
<1>2. CASE SmtpBegin
  BY <1>2, MoveAccount DEF SmtpBegin
<1>3. CASE SmtpRefused
  <2>1. delivered[job.key] = 0
    BY <1>1, <1>3 DEF SmtpRefused, ReceiptOK, Undelivered
  <2>2. PICK response, setup \in BOOLEAN :
          Fail(Classify([started |-> FALSE, response |-> response, setup |-> setup]))
    BY <1>3 DEF SmtpRefused
  <2> QED
    BY <1>1, <1>3, <2>1, <2>2, FailAccount DEF SmtpRefused
<1>4. CASE SmtpDecide
  <2>1. /\ UNCHANGED <<open, queue, job, sends>>
        /\ pc' = "answer" /\ Undelivered(job.key)
    BY <1>1, <1>4 DEF SmtpDecide, ReceiptOK
  <2>2. /\ delivered'[job.key] = IF work'.accepted THEN 1 ELSE 0
        /\ \A k \in Keys : k # job.key => delivered'[k] = delivered[k]
    <3>1. PICK accepted \in BOOLEAN :
            /\ work' = [work EXCEPT !.accepted = accepted]
            /\ delivered' = IF accepted THEN [delivered EXCEPT ![job.key] = @ + 1] ELSE delivered
      BY <1>4 DEF SmtpDecide
    <3>2. work'.accepted = accepted
      BY <3>1 DEF TypeOK, Work
    <3> QED
      BY <1>1, <2>1, <3>1, <3>2 DEF TypeOK, Undelivered
  <2>3. \A k \in Keys : (Waits(k)' <=> Waits(k)) /\ (Runs(k)' <=> k = job.key)
    BY <1>1, <2>1 DEF Waits, Runs
  <2>4. QueueOK' /\ PcOK'
    BY <1>1, <2>1, <2>3 DEF Account, QueueOK, PcOK
  <2>5. ASSUME NEW k \in Keys PROVE ReceiptOK(k)'
    <3>1. ReceiptOK(k)
      BY DEF Account
    <3>2. CASE k = job.key
      <4>1. ~Waits(k)
        BY <1>1, <3>2 DEF Account, QueueOK
      <4>2. /\ delivered'[k] = IF work'.accepted THEN 1 ELSE 0
            /\ ~Waits(k)' /\ open' = open /\ sends' = sends /\ pc' = "answer"
        BY <2>1, <2>2, <2>3, <3>2, <4>1
      <4>3. ~open => sends[k] = Nil
        BY DEF Account
      <4>4. open => Says(k, "checking")
        BY <2>1, <3>2 DEF Undelivered
      <4> QED
        BY <4>2, <4>3, <4>4 DEF ReceiptOK, Undelivered, Says
    <3>3. CASE k # job.key
      BY <2>1, <2>2, <2>3, <3>1, <3>3 DEF ReceiptOK, Undelivered, Says
    <3> QED
      BY <3>2, <3>3
  <2> QED
    BY <2>1, <2>4, <2>5 DEF Account
<1>5. CASE SmtpAccepted
  <2>1. /\ UNCHANGED <<open, queue, job, work, delivered>>
        /\ pc' = "copy" /\ delivered[job.key] = 1
    BY <1>1, <1>5 DEF SmtpAccepted, ReceiptOK
  <2>2. /\ open => sends'[job.key] # Nil /\ sends'[job.key].status = "sent"
        /\ ~open => \A k \in Keys : sends'[k] = Nil
        /\ \A k \in Keys : k # job.key => sends'[k] = sends[k]
    <3>1. [Receive("sent") EXCEPT !.copyPending = TRUE] \in Receipt
      BY DEF Receive, Receipt
    <3>2. [Receive("sent") EXCEPT !.copyPending = TRUE].status = "sent"
      BY DEF Receive
    <3> QED
      BY <1>1, <1>5, <3>1, <3>2, Records DEF SmtpAccepted, Account, TypeOK
  <2>3. \A k \in Keys : (Waits(k)' <=> Waits(k)) /\ (Runs(k)' <=> k = job.key)
    BY <1>1, <2>1 DEF Waits, Runs
  <2>4. QueueOK' /\ PcOK'
    BY <1>1, <2>1, <2>3 DEF Account, QueueOK, PcOK
  <2>5. ASSUME NEW k \in Keys PROVE ReceiptOK(k)'
    <3>1. ReceiptOK(k)
      BY DEF Account
    <3>2. CASE k = job.key
      <4>1. ~Waits(k)
        BY <1>1, <3>2 DEF Account, QueueOK
      <4>2. delivered'[k] = 1 /\ ~Waits(k)' /\ open' = open /\ pc' = "copy"
        BY <2>1, <2>3, <3>2, <4>1
      <4>3. CASE open
        BY <2>2, <3>2, <4>2, <4>3 DEF ReceiptOK, Undelivered, Says
      <4>4. CASE ~open
        BY <2>2, <3>2, <4>2, <4>4 DEF ReceiptOK, Undelivered, Says
      <4> QED
        BY <4>3, <4>4
    <3>3. CASE k # job.key
      BY <2>1, <2>2, <2>3, <3>1, <3>3 DEF ReceiptOK, Undelivered, Says
    <3> QED
      BY <3>2, <3>3
  <2> QED
    BY <2>1, <2>2, <2>4, <2>5 DEF Account
<1>6. CASE SmtpFails
  <2>1. delivered[job.key] = IF work.accepted THEN 1 ELSE 0
    BY <1>1, <1>6 DEF SmtpFails, ReceiptOK
  <2>2. CASE ~work.accepted /\ Fail(Classify([started |-> TRUE, response |-> TRUE, setup |-> FALSE]))
    BY <1>1, <1>6, <2>1, <2>2, FailAccount DEF SmtpFails
  <2>3. CASE \E setup \in BOOLEAN :
               Fail(Classify([started |-> TRUE, response |-> FALSE, setup |-> setup]))
    <3>1. PICK setup \in BOOLEAN :
            Fail(Classify([started |-> TRUE, response |-> FALSE, setup |-> setup]))
      BY <2>3
    <3>2. Classify([started |-> TRUE, response |-> FALSE, setup |-> setup]) = "SMTP_OUTCOME_UNKNOWN"
      BY DEF Classify
    <3> QED
      BY <1>1, <1>6, <3>1, <3>2, FailAccount DEF SmtpFails
  <2> QED
    BY <1>6, <2>2, <2>3 DEF SmtpFails
<1> QED
  BY <1>2, <1>3, <1>4, <1>5, <1>6

\* What follows acceptance does not change what is said of it.
LEMMA CopyAccount ==
  ASSUME TypeOK, Account, CopyToSent \/ CopyFails \/ CopyToDrafts \/ UnlinkDraft \/ SettleSend
  PROVE  Account'
<1>1. CASE CopyToSent \/ CopyFails \/ CopyToDrafts \/ UnlinkDraft
  <2>1. /\ UNCHANGED <<open, queue, job, sends, delivered>>
        /\ pc \in {"copy", "fallback", "unlink"} /\ pc' \in {"copy", "fallback", "unlink", "settle"}
    BY <1>1 DEF CopyToSent, CopyFails, CopyToDrafts, UnlinkDraft
  <2> QED
    BY <2>1, MoveAccount
<1>2. CASE SettleSend
  <2>1. /\ job \in Job /\ job # Nil /\ job.op = "send" /\ job.key \in Keys
        /\ Runs(job.key) /\ delivered[job.key] = 1 /\ ~Waits(job.key)
    BY <1>2, Records DEF SettleSend, TypeOK, Account, PcOK, QueueOK, ReceiptOK, Runs, Job
  <2>2. /\ [Receive("sent") EXCEPT !.savedTo = work.savedTo] \in Receipt
        /\ [Receive("sent") EXCEPT !.savedTo = work.savedTo].status = "sent"
    BY DEF Receive, Receipt, Work, TypeOK
  <2>3. ASSUME NEW k \in Keys
        PROVE  \/ sends'[k] = sends[k]
               \/ /\ open /\ ~Waits(k)
                  /\ sends'[k] # Nil
                  /\ sends'[k].status = "sent" => delivered[k] = 1
                  /\ sends'[k].status = "not_sent" => delivered[k] = 0
    BY <1>2, <2>1, <2>2, Records DEF SettleSend, TypeOK
  <2>4. job' = Nil /\ pc' = "idle" /\ UNCHANGED <<open, queue, delivered>>
    BY <1>2 DEF SettleSend, EndJob
  <2> QED
    BY <2>3, <2>4, EndAccount
<1> QED
  BY <1>1, <1>2

\* A save says nothing new about delivery.
LEMMA SaveAccount == ASSUME TypeOK, Account, SaveStep PROVE Account'
<1>1. CASE AppendDraft \/ VerifyDraft
  <2>1. /\ UNCHANGED <<open, queue, job, sends, delivered>>
        /\ pc \in {"append", "verify"} /\ pc' \in {"verify", "replace"}
    BY <1>1 DEF AppendDraft, VerifyDraft
  <2> QED
    BY <2>1, MoveAccount
<1>2. CASE AppendFails \/ VerifyFails \/ ReplaceFails
  <2>1. pc \in {"append", "verify", "replace"} /\ UNCHANGED <<open, queue, delivered>>
    BY <1>2 DEF AppendFails, VerifyFails, ReplaceFails
  <2>2. job.op # "send"
    BY <2>1 DEF Account, PcOK
  <2>3. PICK error : Fail(error)
    BY <1>2 DEF AppendFails, VerifyFails, ReplaceFails
  <2> QED
    BY <2>1, <2>2, <2>3, FailAccount
<1>3. CASE ReplaceDraft
  <2>1. job \in Job /\ job.key \in Keys
    BY <1>3 DEF ReplaceDraft, TypeOK, Job
  <2>2. /\ [[Receive("sent") EXCEPT !.savedTo = "drafts"] EXCEPT !.manual = TRUE] \in Receipt
        /\ [[Receive("sent") EXCEPT !.savedTo = "drafts"] EXCEPT !.manual = TRUE].status = "sent"
    BY DEF Receive, Receipt
  <2>3. ASSUME NEW k \in Keys
        PROVE  \/ sends'[k] = sends[k]
               \/ /\ open /\ ~Waits(k)
                  /\ sends'[k] # Nil
                  /\ sends'[k].status = "sent" => delivered[k] = 1
                  /\ sends'[k].status = "not_sent" => delivered[k] = 0
    <3>1. CASE ~(Recovers(job.key) /\ k = job.key)
      BY <1>3, <2>1, <3>1 DEF ReplaceDraft, TypeOK
    <3>2. CASE Recovers(job.key) /\ k = job.key
      <4>1. open /\ Says(k, "sent") /\ ReceiptOK(k)
        BY <3>2 DEF Recovers, Says, Account
      <4>2. ~Waits(k) /\ delivered[k] = 1
        BY <4>1 DEF ReceiptOK, Undelivered, Says
      <4>3. sends'[k] # Nil /\ sends'[k].status = "sent"
        BY <1>3, <2>1, <2>2, <3>2, Records DEF ReplaceDraft, TypeOK
      <4> QED
        BY <4>1, <4>2, <4>3
    <3> QED
      BY <3>1, <3>2
  <2>4. job' = Nil /\ pc' = "idle" /\ UNCHANGED <<open, queue, delivered>>
    BY <1>3 DEF ReplaceDraft, EndJob
  <2> QED
    BY <2>3, <2>4, EndAccount
<1> QED
  BY <1>1, <1>2, <1>3 DEF SaveStep

\* Every step keeps the account.
LEMMA NextAccount == ASSUME TypeOK, Account, [Next]_vars PROVE Account'
<1>1. CASE UNCHANGED vars
  BY <1>1, MoveAccount DEF vars
<1> QED
  BY <1>1, ComposeAccount, SessionAccount, QueueAccount, CheckAccount, SmtpAccount, CopyAccount,
     SaveAccount
     DEF Next, JobStep, SendStep

\* A new session has said nothing and let nothing out.
LEMMA InitAccount == Init => Account
<1> SUFFICES ASSUME Init PROVE Account
  OBVIOUS
<1>1. \A k \in Keys : ~Waits(k) /\ ~Runs(k)
  <2>1. DOMAIN queue = {} /\ job = Nil
    BY DEF Init
  <2> QED
    BY <2>1 DEF Waits, Runs
<1> QED
  BY <1>1 DEF Init, Account, QueueOK, PcOK, ReceiptOK, Says

-------------------------------------------------------------------------------
(* Theorems.                                                               *)

\* The account of what may still leave holds always: one send at a time may
\* deliver a message, and its receipt says "checking" meanwhile (send, serial).
THEOREM AccountHolds == Spec => []SendInv
<1>1. Init => SendInv
  BY InitType, InitAccount DEF SendInv
<1>2. SendInv /\ [Next]_vars => SendInv'
  BY NextType, NextAccount DEF SendInv
<1> QED
  BY <1>1, <1>2, PTL DEF Spec

\* Within a session no message leaves twice, whatever fails and however often
\* send() is called.
THEOREM NeverTwice == Spec => []SentOnce
<1>1. SendInv => SentOnce
  BY DEF SendInv, Account, ReceiptOK, SentOnce
<1> QED
  BY <1>1, AccountHolds, PTL

\* A receipt that says "sent" or "not_sent" is true (send, smtp.send).
THEOREM ReceiptsTrue == Spec => []StatusTruthful
<1>1. SendInv => StatusTruthful
  BY DEF SendInv, Account, ReceiptOK, Says, StatusTruthful
<1> QED
  BY <1>1, AccountHolds, PTL

-------------------------------------------------------------------------------
(* ComposeSend implements Delivery.                                        *)

\* What sendStatus() says of a composeId.
Told(k) == IF sends[k] = Nil THEN "none" ELSE sends[k].status

\* A job that fails is an answer to its send, or says nothing.
LEMMA FailMaps ==
  ASSUME SendInv, pc # "idle", NEW error, Fail(error), UNCHANGED <<open, delivered>>,
         job.op = "send" => /\ delivered[job.key] = 0 \/ error = "SMTP_OUTCOME_UNKNOWN"
                            /\ open => Says(job.key, "checking")
  PROVE  [D!Next]_(D!deliveryVars)
<1>1. job \in Job /\ job.key \in Keys /\ sends \in [Keys -> Receipt \union {Nil}]
  BY DEF SendInv, TypeOK, Job
<1>2. CASE job.op = "send" /\ sends[job.key] # Nil /\ sends[job.key].status # "sent"
  <2> DEFINE status == IF error = "SMTP_OUTCOME_UNKNOWN" THEN "unknown" ELSE "not_sent"
  <2>1. sends' = [sends EXCEPT ![job.key] = Receive(status)]
    BY <1>2 DEF Fail
  <2>2. open /\ Told(job.key) = "checking"
    BY <1>1, <1>2 DEF SendInv, Account, Says, Told
  <2>3. Receive(status).status = status /\ Receive(status) # Nil
    BY Records DEF Receive
  <2>4. D!Answer(job.key, status)
    BY <1>1, <1>2, <2>1, <2>2, <2>3 DEF D!Answer, Told
  <2> QED
    BY <1>1, <2>4 DEF D!Next
<1>3. CASE ~(job.op = "send" /\ sends[job.key] # Nil /\ sends[job.key].status # "sent")
  BY <1>3 DEF Fail, D!deliveryVars
<1> QED
  BY <1>2, <1>3

\* No receipt, no mail: Delivery starts with nothing claimed.
LEMMA InitMaps == Init => D!Init
BY DEF Init, D!Init

\* Every step is a step of Delivery, or is invisible there.
LEMMA StepMaps == ASSUME SendInv, [Next]_vars PROVE [D!Next]_(D!deliveryVars)
<1> USE DEF SendInv
<1>1. ASSUME NEW k \in Keys, Send(k) PROVE D!Claim(k)
  <2>1. /\ sends' = [sends EXCEPT ![k] = Receive("checking")]
        /\ open /\ UNCHANGED <<open, delivered>> /\ Told(k) \in {"none", "not_sent"}
    BY <1>1 DEF Send, Ask, Claimed, Told
  <2>2. Receive("checking").status = "checking" /\ Receive("checking") # Nil
    BY Records DEF Receive
  <2> QED
    BY <2>1, <2>2 DEF D!Claim, Told, TypeOK
<1>2. CASE EndSession
  <2>1. D!Forget
    BY <1>2 DEF EndSession, D!Forget
  <2> QED
    BY <2>1 DEF D!Next
<1>3. CASE SmtpDecide
  <2>1. /\ job \in Job /\ job.key \in Keys /\ job # Nil /\ job.op = "send"
        /\ delivered[job.key] = 0 /\ (open => Told(job.key) = "checking")
        /\ UNCHANGED <<open, sends>>
    BY <1>3, Records DEF SmtpDecide, TypeOK, Account, PcOK, ReceiptOK, Undelivered, Runs, Says, Told,
                         Job
  <2>2. PICK accepted \in BOOLEAN :
          delivered' = IF accepted THEN [delivered EXCEPT ![job.key] = @ + 1] ELSE delivered
    BY <1>3 DEF SmtpDecide
  <2>3. CASE accepted
    <3>1. delivered' = [delivered EXCEPT ![job.key] = 1]
      BY <2>1, <2>2, <2>3
    <3>2. D!Accept(job.key)
      BY <2>1, <3>1 DEF D!Accept, Told
    <3> QED
      BY <2>1, <3>2 DEF D!Next
  <2>4. CASE ~accepted
    BY <2>1, <2>2, <2>4 DEF D!deliveryVars
  <2> QED
    BY <2>3, <2>4
<1>4. CASE SmtpAccepted
  <2>1. /\ job \in Job /\ job.key \in Keys /\ job # Nil /\ job.op = "send"
        /\ delivered[job.key] = 1 /\ (open => Told(job.key) = "checking")
        /\ UNCHANGED <<open, delivered>>
    BY <1>4, Records DEF SmtpAccepted, TypeOK, Account, PcOK, ReceiptOK, Runs, Says, Told, Job
  <2>2. CASE open
    <3> DEFINE receipt == [Receive("sent") EXCEPT !.copyPending = TRUE]
    <3>1. receipt \in Receipt /\ receipt.status = "sent"
      BY DEF Receive, Receipt
    <3>2. sends' = [sends EXCEPT ![job.key] = receipt] /\ receipt # Nil
      BY <1>4, <2>2, <3>1, Records DEF SmtpAccepted
    <3>3. D!Answer(job.key, "sent")
      BY <2>1, <2>2, <3>1, <3>2 DEF D!Answer, Told, TypeOK
    <3> QED
      BY <2>1, <3>3 DEF D!Next
  <2>3. CASE ~open
    BY <1>4, <2>1, <2>3 DEF SmtpAccepted, D!deliveryVars
  <2> QED
    BY <2>2, <2>3
<1>5. CASE CheckFails \/ SmtpRefused \/ SmtpFails
  <2>1. /\ pc \in {"check", "smtp", "answer"} /\ UNCHANGED <<open, delivered>>
        /\ job \in Job /\ job # Nil /\ job.key \in Keys
    BY <1>5, Records DEF CheckFails, SmtpRefused, SmtpFails, TypeOK, Job
  <2>2. job.op = "send" => /\ Runs(job.key) /\ ReceiptOK(job.key)
                           /\ open => Says(job.key, "checking")
    BY <2>1 DEF Account, ReceiptOK, Undelivered, Runs
  <2>3. CASE pc \in {"check", "smtp"}
    <3>1. job.op = "send" => delivered[job.key] = 0
      BY <2>2, <2>3 DEF ReceiptOK, Undelivered
    <3>2. PICK error : Fail(error)
      BY <1>5, <2>3 DEF CheckFails, SmtpRefused, SmtpFails
    <3> QED
      BY <2>1, <2>2, <3>1, <3>2, FailMaps
  <2>4. CASE pc = "answer"
    <3>1. SmtpFails /\ job.op = "send"
      BY <1>5, <2>4 DEF CheckFails, SmtpRefused, Account, PcOK
    <3>2. PICK error : Fail(error) /\ (error = "SMTP_OUTCOME_UNKNOWN" \/ ~work.accepted)
      BY <3>1 DEF SmtpFails, Classify
    <3>3. ~work.accepted => delivered[job.key] = 0
      BY <2>2, <2>4, <3>1 DEF ReceiptOK
    <3> QED
      BY <2>1, <2>2, <3>1, <3>2, <3>3, FailMaps
  <2> QED
    BY <2>1, <2>3, <2>4
<1>6. CASE AppendFails \/ VerifyFails \/ ReplaceFails
  <2>1. pc \in {"append", "verify", "replace"} /\ UNCHANGED <<open, delivered>>
    BY <1>6 DEF AppendFails, VerifyFails, ReplaceFails
  <2>2. job.op # "send"
    BY <2>1 DEF Account, PcOK
  <2>3. PICK error : Fail(error)
    BY <1>6 DEF AppendFails, VerifyFails, ReplaceFails
  <2> QED
    BY <2>1, <2>2, <2>3, FailMaps
<1>7. CASE SettleSend \/ ReplaceDraft
  <2>1. /\ UNCHANGED <<open, delivered>> /\ job \in Job /\ job # Nil /\ job.key \in Keys
        /\ sends \in [Keys -> Receipt \union {Nil}]
    BY <1>7, Records DEF SettleSend, ReplaceDraft, TypeOK, Job
  <2>2. ASSUME NEW receipt, receipt.status = "sent", receipt # Nil, Told(job.key) = "sent",
               sends' = [sends EXCEPT ![job.key] = receipt]
        PROVE  UNCHANGED D!deliveryVars
    BY <2>1, <2>2 DEF D!deliveryVars, Told
  <2>3. CASE SettleSend
    <3>1. [Receive("sent") EXCEPT !.savedTo = work.savedTo] \in Receipt
      BY DEF Receive, Receipt, Work, TypeOK
    <3>2. [Receive("sent") EXCEPT !.savedTo = work.savedTo].status = "sent"
      BY DEF Receive
    <3>3. open => Told(job.key) = "sent"
      BY <2>1, <2>3 DEF SettleSend, Account, PcOK, ReceiptOK, Runs, Says, Told
    <3>4. CASE open
      BY <2>2, <2>3, <3>1, <3>2, <3>3, <3>4, Records DEF SettleSend
    <3>5. CASE ~open
      BY <2>1, <2>3, <3>5 DEF SettleSend, D!deliveryVars
    <3> QED
      BY <3>4, <3>5
  <2>4. CASE ReplaceDraft
    <3> DEFINE receipt == [[Receive("sent") EXCEPT !.savedTo = "drafts"] EXCEPT !.manual = TRUE]
    <3>1. receipt \in Receipt /\ receipt.status = "sent"
      BY DEF Receive, Receipt
    <3>2. CASE Recovers(job.key)
      <4>1. Told(job.key) = "sent"
        BY <3>2 DEF Recovers, Told
      <4>2. sends' = [sends EXCEPT ![job.key] = receipt]
        BY <2>4, <3>2 DEF ReplaceDraft
      <4> QED
        BY <2>2, <3>1, <4>1, <4>2, Records
    <3>3. CASE ~Recovers(job.key)
      BY <2>1, <2>4, <3>3 DEF ReplaceDraft, D!deliveryVars
    <3> QED
      BY <3>2, <3>3
  <2> QED
    BY <1>7, <2>3, <2>4
<1>8. ASSUME UNCHANGED <<open, sends, delivered>> PROVE UNCHANGED D!deliveryVars
  BY <1>8 DEF D!deliveryVars
<1>9. CASE UNCHANGED vars
  BY <1>8, <1>9 DEF vars
<1>10. CASE Compose
  <2>1. ASSUME NEW k \in Keys, Send(k) PROVE D!Next
    BY <1>1, <2>1 DEF D!Next
  <2>2. ASSUME NEW k \in Keys, NEW manual \in BOOLEAN, Save(k, manual) PROVE UNCHANGED D!deliveryVars
    BY <1>8, <2>2 DEF Save
  <2>3. ASSUME NEW k \in Keys, Upload(k) \/ Remove(k) PROVE UNCHANGED D!deliveryVars
    BY <1>8, <2>3 DEF Upload, Remove
  <2> QED
    BY <1>10, <2>1, <2>2, <2>3 DEF Compose
<1>11. CASE (\E id \in 1..MaxUploads : Age(id)) \/ Sweep
  BY <1>8, <1>11 DEF Age, Sweep
<1>12. CASE \/ StartJob \/ DropJob \/ CheckJob \/ SmtpBegin
            \/ CopyToSent \/ CopyFails \/ CopyToDrafts \/ UnlinkDraft
            \/ AppendDraft \/ VerifyDraft
  BY <1>8, <1>12 DEF StartJob, DropJob, CheckJob, SmtpBegin, CopyToSent, CopyFails, CopyToDrafts,
                     UnlinkDraft, AppendDraft, VerifyDraft
<1> QED
  BY <1>2, <1>3, <1>4, <1>5, <1>6, <1>7, <1>9, <1>10, <1>11, <1>12
     DEF Next, JobStep, SendStep, SaveStep

\* The state of the compose service is always of its types: every receipt is for a message
\* that may be sent, every job for one that was (send, save, serial).
THEOREM TypesHold == Spec => []TypeOK
<1>1. SendInv => TypeOK
  BY DEF SendInv
<1> QED
  BY <1>1, AccountHolds, PTL

\* Sending keeps the promises of Delivery: a claim, an acceptance, an answer and
\* the end of the session are its only visible steps.
THEOREM ImplementsDelivery == Spec => RefinesDelivery
<1>1. SendInv /\ [Next]_vars => [D!Next]_(D!deliveryVars)
  BY StepMaps
<1> QED
  BY <1>1, InitMaps, AccountHolds, PTL DEF Spec, RefinesDelivery, D!Spec

-------------------------------------------------------------------------------
(* What the mailbox keeps: SavedContentKept, CopyExists and FileKept.      *)

\* A reference is given out once.
RefsOK ==
  /\ \A m \in mailbox : m.ref <= lastRef
  /\ \A m, n \in mailbox : m.ref = n.ref => m = n

\* A reference a composer or a job holds is of no message, or of a draft of
\* its own composeId that is no newer.
Names(k, version, ref) ==
  ref # Nil => /\ ref <= lastRef
               /\ \A m \in mailbox : m.ref = ref => m.key = k /\ m.version <= version /\ m.box = "drafts"

ComposerOK(k) ==
  /\ Names(k, composer[k].version, composer[k].ref)
  /\ saved[k] <= composer[k].version
  /\ composer[k].file # Nil => composer[k].file <= uploads
  /\ \A l \in Keys : composer[k].file # Nil /\ composer[k].file = composer[l].file => k = l

\* The jobs of a composeId never go back to an older version.
InOrder(j) ==
  /\ Names(j.key, j.version, j.ref)
  /\ saved[j.key] <= j.version /\ j.version <= composer[j.key].version

OrderOK ==
  /\ \A i \in DOMAIN queue : InOrder(queue[i])
  /\ \A i, j \in DOMAIN queue : i < j /\ queue[i].key = queue[j].key => queue[i].version <= queue[j].version
  /\ job # Nil => InOrder(job) /\ \A i \in DOMAIN queue : queue[i].key = job.key => job.version <= queue[i].version

\* What the running job has stored is there, beside the draft it replaces.
Holds(m) == m.key = job.key /\ m.version = job.version /\ m.ref # job.ref

WorkOK ==
  /\ work.savedTo # Nil => /\ pc \in {"unlink", "settle"}
                           /\ \E m \in mailbox : Holds(m) /\ m.box = work.savedTo /\ m.file = job.file
  /\ pc \in {"verify", "replace"} => /\ work.ref # Nil
                                     /\ \E m \in mailbox : Holds(m) /\ m.box = "drafts" /\ m.ref = work.ref

\* What is promised of the messages of a composeId, by messages other than one.
Witnessed(k, but) ==
  /\ saved[k] > 0 => \E m \in mailbox : m.ref # but /\ m.key = k /\ m.version >= saved[k]
  /\ sends[k] # Nil /\ sends[k].savedTo # Nil => \E m \in mailbox : m.ref # but /\ m.key = k /\ m.box = sends[k].savedTo

\* Promises outlive the draft that may yet be taken back.
PromisesOK == \A k \in Keys : Witnessed(k, IF pc = "verify" THEN work.ref ELSE Nil)

\* A receipt names a folder only when its send is over.
FoldersOK ==
  \A k \in Keys : sends[k] # Nil /\ (sends[k].status # "sent" \/ (Runs(k) /\ pc # "check")) => sends[k].savedTo = Nil

MailInv == RefsOK /\ (\A k \in Keys : ComposerOK(k)) /\ OrderOK /\ WorkOK /\ PromisesOK /\ FoldersOK

-------------------------------------------------------------------------------
(* What a step may do to the mailbox: messages go, and one may come under a *)
(* new reference.                                                          *)

Changes == /\ lastRef' \in Nat /\ lastRef <= lastRef'
           /\ \E box \in {"sent", "drafts"} :
                \A m \in mailbox' : m \in mailbox \/ (lastRef < lastRef' /\ m = Stored(box) /\ m.ref = lastRef')

LEMMA StoreIs == ASSUME TypeOK, pc # "idle", NEW box \in {"sent", "drafts"}, Store(box)
                 PROVE  /\ Changes /\ mailbox \subseteq mailbox' /\ lastRef' = lastRef + 1
                        /\ Stored(box) \in mailbox' /\ Stored(box) \in Message
                        /\ \A m \in mailbox' : m \in mailbox \/ m = Stored(box)
BY ComposeAssumption DEF Store, Stored, Changes, TypeOK, Message, Job

LEMMA StoreFailsIs == ASSUME TypeOK, pc # "idle", NEW box \in {"sent", "drafts"}, StoreFails(box)
                      PROVE  /\ Changes /\ mailbox \subseteq mailbox'
                             /\ \A m \in mailbox' : m \in mailbox \/ m.ref > lastRef
<1>1. CASE Store(box)
  BY <1>1, StoreIs DEF TypeOK, Stored
<1>2. CASE UNCHANGED <<mailbox, lastRef>>
  BY <1>2 DEF Changes, TypeOK
<1> QED
  BY <1>1, <1>2 DEF StoreFails

LEMMA DeleteIs == ASSUME TypeOK, NEW ref, TryDelete(ref) \/ Delete(ref) \/ UNCHANGED mailbox, lastRef' = lastRef
                  PROVE  /\ Changes /\ mailbox' \subseteq mailbox
                         /\ \A m \in mailbox : m.ref # ref => m \in mailbox'
BY DEF TryDelete, Delete, Changes, TypeOK

\* References stay unique and go on naming what they named.
LEMMA NamesKept ==
  ASSUME TypeOK, RefsOK, Changes
  PROVE  /\ RefsOK'
         /\ \A k \in Keys, v, w \in Nat, ref \in Nat \union {Nil} : Names(k, v, ref) /\ v <= w => Names(k, w, ref)'
<1>1. \A m \in mailbox : m \in Message /\ m.ref \in Nat /\ m.version \in Nat
  BY DEF TypeOK, Message
<1>2. lastRef \in Nat
  BY DEF TypeOK
<1>3. RefsOK'
  BY <1>1, <1>2 DEF RefsOK, Changes
<1>4. ASSUME NEW k \in Keys, NEW v \in Nat, NEW w \in Nat, NEW ref \in Nat \union {Nil}, Names(k, v, ref), v <= w
      PROVE  Names(k, w, ref)'
  BY <1>1, <1>2, <1>4 DEF Names, Changes
<1> QED
  BY <1>3, <1>4

\* Nothing is asked meanwhile.
LEMMA OrderKept ==
  ASSUME TypeOK, MailInv, Changes, UNCHANGED <<composer, queue, saved, uploads>>, job' \in {job, Nil}
  PROVE  RefsOK' /\ (\A k \in Keys : ComposerOK(k))' /\ OrderOK'
<1>1. /\ RefsOK'
      /\ \A k \in Keys, v \in Nat, ref \in Nat \union {Nil} : Names(k, v, ref) => Names(k, v, ref)'
  BY NamesKept DEF MailInv
<1>2. ASSUME NEW k \in Keys PROVE ComposerOK(k)'
  <2>1. composer[k].version \in Nat /\ composer[k].ref \in Nat \union {Nil}
    BY ComposeAssumption DEF TypeOK
  <2>2. ComposerOK(k)
    BY DEF MailInv
  <2>3. Names(k, composer[k].version, composer[k].ref)'
    BY <1>1, <2>1, <2>2 DEF ComposerOK
  <2> QED
    BY <2>2, <2>3 DEF ComposerOK
<1>3. ASSUME NEW j \in Job, InOrder(j) PROVE InOrder(j)'
  BY <1>1, <1>3 DEF InOrder, Job
<1>4. \A i \in DOMAIN queue : queue[i] \in Job
  BY DEF TypeOK
<1>5. \A i \in DOMAIN queue : InOrder(queue[i])'
  <2> SUFFICES ASSUME NEW i \in DOMAIN queue PROVE InOrder(queue[i])'
    OBVIOUS
  <2>1. InOrder(queue[i])
    BY DEF MailInv, OrderOK
  <2> QED
    BY <1>3, <1>4, <2>1
<1>6. job' # Nil => InOrder(job)' /\ job' = job
  <2> SUFFICES ASSUME job' # Nil PROVE InOrder(job)' /\ job' = job
    OBVIOUS
  <2>1. job \in Job /\ InOrder(job) /\ job' = job
    BY DEF TypeOK, MailInv, OrderOK
  <2> QED
    BY <1>3, <2>1
<1>7. OrderOK'
  BY <1>5, <1>6 DEF MailInv, OrderOK
<1> QED
  BY <1>1, <1>2, <1>7

-------------------------------------------------------------------------------
(* The composer asks.                                                      *)

LEMMA AskMail ==
  ASSUME TypeOK, MailInv, NEW k \in Keys, NEW op \in {"send", "save"}, NEW manual \in BOOLEAN, Ask(k, op, manual),
         UNCHANGED <<uploads, job, saved, mailbox, lastRef>>
  PROVE  (\A l \in Keys : ComposerOK(l))' /\ OrderOK'
<1>1. PICK version \in composer[k].version..MaxVersion :
        /\ composer' = [composer EXCEPT ![k].version = version]
        /\ queue' = Append(queue, [op |-> op, key |-> k, version |-> version, ref |-> composer[k].ref,
                                   file |-> composer[k].file, manual |-> manual])
  BY DEF Ask
<1>2. /\ composer[k].version \in Nat /\ composer[k].ref \in Nat \union {Nil} /\ version \in Nat /\ composer[k].version <= version
      /\ composer'[k].version = version /\ composer'[k].ref = composer[k].ref /\ composer'[k].file = composer[k].file
      /\ \A l \in Keys : l # k => composer'[l] = composer[l]
      /\ \A l \in Keys : composer'[l].file = composer[l].file
      /\ composer[k].file \in Nat \union {Nil}
  BY <1>1, ComposeAssumption DEF TypeOK
<1>3. PICK new \in Job : queue' = Append(queue, new) /\ new.key = k /\ new.version = version /\ new.ref = composer[k].ref
  <2> DEFINE asked == [op |-> op, key |-> k, version |-> version, ref |-> composer[k].ref,
                       file |-> composer[k].file, manual |-> manual]
  <2>1. asked \in Job /\ asked.key = k /\ asked.version = version /\ asked.ref = composer[k].ref
    BY <1>2 DEF Job
  <2> QED
    BY <1>1, <2>1
<1>4. Names(k, version, composer[k].ref) /\ saved[k] <= version
  <2>1. ComposerOK(k)
    BY DEF MailInv
  <2> QED
    BY <1>2, <2>1, ComposeAssumption DEF ComposerOK, Names, TypeOK, Message
<1>5. ASSUME NEW l \in Keys PROVE ComposerOK(l)'
  <2>1. ComposerOK(l)
    BY DEF MailInv
  <2>2. CASE l = k
    BY <1>2, <1>4, <2>1, <2>2 DEF ComposerOK, Names
  <2>3. CASE l # k
    BY <1>2, <2>1, <2>3 DEF ComposerOK, Names
  <2> QED
    BY <2>2, <2>3
<1>6. ASSUME NEW j \in Job, InOrder(j) PROVE InOrder(j)' /\ (j.key = k => j.version <= version)
  <2>1. j.key \in Keys /\ j.version \in Nat
    BY DEF Job
  <2>2. composer[j.key].version \in Nat
    BY <2>1, ComposeAssumption DEF TypeOK
  <2>3. CASE j.key = k
    BY <1>2, <1>6, <2>1, <2>3 DEF InOrder, Names
  <2>4. CASE j.key # k
    BY <1>2, <1>6, <2>1, <2>4 DEF InOrder, Names
  <2> QED
    BY <2>3, <2>4
<1>7. /\ DOMAIN queue' = 1..(Len(queue) + 1) /\ DOMAIN queue = 1..Len(queue) /\ Len(queue) \in Nat
      /\ queue'[Len(queue) + 1] = new
      /\ \A i \in DOMAIN queue : queue'[i] = queue[i] /\ queue[i] \in Job /\ InOrder(queue[i])
  BY <1>3 DEF TypeOK, MailInv, OrderOK
<1>8. InOrder(new)'
  BY <1>2, <1>3, <1>4 DEF InOrder, Names
<1>9. ASSUME NEW i \in DOMAIN queue' PROVE InOrder(queue[i])'
  <2>1. PICK j : j = queue'[i] /\ InOrder(j)'
    <3>1. CASE i \in DOMAIN queue
      <4>1. PICK j \in Job : j = queue[i] /\ j = queue'[i] /\ InOrder(j)
        BY <1>7, <3>1
      <4> QED
        BY <1>6, <4>1
    <3>2. CASE i = Len(queue) + 1
      BY <1>7, <1>8, <3>2
    <3> QED
      BY <1>7, <3>1, <3>2
  <2> QED
    BY <2>1
<1>10. \A i \in DOMAIN queue : queue[i].key = k => queue[i].version <= version
  BY <1>6, <1>7
<1>11. \A i, j \in DOMAIN queue' : i < j /\ queue'[i].key = queue'[j].key => queue'[i].version <= queue'[j].version
  BY <1>3, <1>7, <1>10 DEF MailInv, OrderOK
<1>12. ASSUME job # Nil PROVE InOrder(job)' /\ \A i \in DOMAIN queue' : queue'[i].key = job.key => job.version <= queue'[i].version
  <2>1. PICK j \in Job : j = job /\ j = job' /\ InOrder(j)
    BY <1>12 DEF TypeOK, MailInv, OrderOK
  <2>2. InOrder(j)' /\ (j.key = k => j.version <= version)
    BY <1>6, <2>1
  <2>3. \A i \in DOMAIN queue' : queue'[i].key = j.key => j.version <= queue'[i].version
    BY <1>3, <1>7, <1>12, <2>1, <2>2 DEF MailInv, OrderOK
  <2> QED
    BY <2>1, <2>2, <2>3
<1> QED
  BY <1>5, <1>9, <1>11, <1>12 DEF OrderOK

\* Promises stay kept while messages only come and receipts only forget.
LEMMA PromisesKept ==
  ASSUME TypeOK, MailInv, saved' = saved, mailbox \subseteq mailbox',
         pc' # "verify" \/ (pc = "verify" /\ work' = work),
         \A k \in Keys : sends'[k] = Nil \/ sends'[k].savedTo = Nil \/ sends'[k] = sends[k]
  PROVE  PromisesOK'
<1> DEFINE but == IF pc = "verify" THEN work.ref ELSE Nil
           now == IF pc' = "verify" THEN work'.ref ELSE Nil
<1>1. \A m \in mailbox : m.ref # Nil /\ (m.ref # but => m.ref # now)
  BY ComposeAssumption DEF TypeOK, Message
<1>2. \A k \in Keys : Witnessed(k, but)
  BY DEF MailInv, PromisesOK
<1> HIDE DEF but, now
<1>3. ASSUME NEW k \in Keys
      PROVE  /\ saved'[k] > 0 => \E m \in mailbox' : m.ref # now /\ m.key = k /\ m.version >= saved'[k]
             /\ sends'[k] # Nil /\ sends'[k].savedTo # Nil =>
                  \E m \in mailbox' : m.ref # now /\ m.key = k /\ m.box = sends'[k].savedTo
  BY <1>1, <1>2 DEF Witnessed
<1> QED
  BY <1>3 DEF PromisesOK, Witnessed, now

\* The job and what it stored stay as they are.
LEMMA SameMail ==
  ASSUME TypeOK, MailInv, UNCHANGED <<job, pc, work, mailbox, lastRef, saved>>,
         \A k \in Keys : sends'[k] = Nil \/ sends'[k] = Receive("checking") \/ sends'[k] = sends[k]
  PROVE  RefsOK' /\ WorkOK' /\ PromisesOK' /\ FoldersOK'
<1>1. \A k \in Keys : sends'[k] = Nil \/ sends'[k].savedTo = Nil \/ sends'[k] = sends[k]
  BY DEF Receive
<1>2. PromisesOK'
  BY <1>1, PromisesKept
<1>3. FoldersOK'
  <2>1. \A k \in Keys : Runs(k)' <=> Runs(k)
    BY DEF Runs
  <2> QED
    BY <1>1, <2>1 DEF MailInv, FoldersOK
<1>4. RefsOK' /\ WorkOK'
  BY DEF MailInv, RefsOK, WorkOK, Holds
<1> QED
  BY <1>2, <1>3, <1>4

LEMMA ComposeMail == ASSUME TypeOK, MailInv, Compose PROVE MailInv'
<1>1. ASSUME NEW k \in Keys, Send(k) PROVE MailInv'
  <2>1. RefsOK' /\ WorkOK' /\ PromisesOK' /\ FoldersOK'
    BY <1>1, SameMail DEF Send, TypeOK
  <2>2. (\A l \in Keys : ComposerOK(l))' /\ OrderOK'
    BY <1>1, AskMail DEF Send
  <2> QED
    BY <2>1, <2>2 DEF MailInv
<1>2. ASSUME NEW k \in Keys, NEW manual \in BOOLEAN, Save(k, manual) PROVE MailInv'
  <2>1. RefsOK' /\ WorkOK' /\ PromisesOK' /\ FoldersOK'
    BY <1>2, SameMail DEF Save
  <2>2. (\A l \in Keys : ComposerOK(l))' /\ OrderOK'
    BY <1>2, AskMail DEF Save
  <2> QED
    BY <2>1, <2>2 DEF MailInv
<1>3. ASSUME NEW k \in Keys, Upload(k) \/ Remove(k) PROVE MailInv'
  <2>1. RefsOK' /\ WorkOK' /\ PromisesOK' /\ FoldersOK'
    BY <1>3, SameMail DEF Upload, Remove
  <2>2. /\ UNCHANGED <<queue, job, saved, mailbox, lastRef>>
        /\ \A l \in Keys : composer'[l].version = composer[l].version /\ composer'[l].ref = composer[l].ref
        /\ \A l \in Keys : l # k => composer'[l].file = composer[l].file
        /\ \/ uploads' = uploads + 1 /\ composer'[k].file = uploads + 1
           \/ uploads' = uploads /\ composer'[k].file = Nil
    <3>1. CASE Upload(k)
      BY <3>1 DEF Upload, TypeOK
    <3>2. CASE Remove(k)
      BY <3>2 DEF Remove, TypeOK
    <3> QED
      BY <1>3, <3>1, <3>2
  <2>3. ASSUME NEW l \in Keys PROVE ComposerOK(l)'
    <3>1. \A i \in Keys : ComposerOK(i) /\ (composer[i].file # Nil => composer[i].file \in Nat)
      BY DEF MailInv, TypeOK
    <3>2. uploads \in Nat
      BY DEF TypeOK
    <3>3. (composer'[l].file # Nil => composer'[l].file <= uploads')
          /\ \A i \in Keys : composer'[l].file # Nil /\ composer'[l].file = composer'[i].file => l = i
      BY <2>2, <3>1, <3>2 DEF ComposerOK
    <3> QED
      BY <2>2, <3>1, <3>3 DEF ComposerOK, Names
  <2>4. OrderOK'
    <3>1. \A j \in Job : InOrder(j) => InOrder(j)'
      BY <2>2 DEF InOrder, Names, Job
    <3>2. ASSUME NEW i \in DOMAIN queue' PROVE InOrder(queue[i])'
      <4>1. PICK j \in Job : j = queue[i] /\ j = queue'[i] /\ InOrder(j)
        BY <2>2, <3>2 DEF MailInv, OrderOK, TypeOK
      <4> QED
        BY <3>1, <4>1
    <3>3. ASSUME job # Nil PROVE InOrder(job)'
      <4>1. PICK j \in Job : j = job /\ j = job' /\ InOrder(j)
        BY <2>2, <3>3 DEF MailInv, OrderOK, TypeOK
      <4> QED
        BY <3>1, <4>1
    <3> QED
      BY <2>2, <3>2, <3>3 DEF MailInv, OrderOK
  <2> QED
    BY <2>1, <2>3, <2>4 DEF MailInv
<1> QED
  BY <1>1, <1>2, <1>3 DEF Compose

LEMMA SessionMail ==
  ASSUME TypeOK, MailInv, (\E id \in 1..MaxUploads : Age(id)) \/ Sweep \/ EndSession
  PROVE  MailInv'
<1>1. /\ UNCHANGED <<composer, uploads, queue, job, pc, work, mailbox, lastRef, saved>>
      /\ \A k \in Keys : sends'[k] = Nil \/ sends'[k] = sends[k]
  BY DEF Age, Sweep, EndSession
<1>2. Changes
  BY <1>1 DEF Changes, TypeOK
<1> QED
  BY <1>1, <1>2, SameMail, OrderKept DEF MailInv

-------------------------------------------------------------------------------
(* The jobs.                                                               *)

\* The next job is what was asked first.
LEMMA QueueMail == ASSUME TypeOK, MailInv, StartJob \/ DropJob PROVE MailInv'
<1>1. /\ pc = "idle" /\ job = Nil /\ queue # <<>> /\ queue \in Seq(Job) /\ queue' = Tail(queue)
      /\ UNCHANGED <<composer, uploads, work, sends, mailbox, lastRef, saved>>
      /\ (job' = Nil /\ pc' = "idle") \/ (job' = Head(queue) /\ pc' = "check")
  BY DEF StartJob, DropJob, TypeOK
<1>2. /\ Len(queue) \in Nat /\ Len(queue) > 0 /\ DOMAIN queue = 1..Len(queue) /\ DOMAIN queue' = 1..(Len(queue) - 1)
      /\ \A i \in DOMAIN queue' : i + 1 \in DOMAIN queue /\ queue'[i] = queue[i + 1]
      /\ Head(queue) = queue[1] /\ 1 \in DOMAIN queue
      /\ \A i \in DOMAIN queue : queue[i] \in Job
  BY <1>1
<1>3. \A j \in Job : InOrder(j) => InOrder(j)'
  BY <1>1 DEF InOrder, Names
<1>4. ASSUME NEW i \in DOMAIN queue' PROVE InOrder(queue[i])'
  <2>1. PICK j \in Job : j = queue'[i] /\ InOrder(j)
    BY <1>2, <1>4 DEF MailInv, OrderOK
  <2> QED
    BY <1>3, <2>1
<1>5. ASSUME job' # Nil PROVE InOrder(job)' /\ \A i \in DOMAIN queue' : queue'[i].key = job'.key => job'.version <= queue'[i].version
  <2>1. PICK j \in Job : j = job' /\ j = queue[1] /\ InOrder(j)
    BY <1>1, <1>2, <1>5 DEF MailInv, OrderOK
  <2>2. ASSUME NEW i \in DOMAIN queue', queue'[i].key = j.key PROVE j.version <= queue'[i].version
    <3>1. i + 1 \in DOMAIN queue /\ 1 < i + 1 /\ queue'[i] = queue[i + 1]
      BY <1>2, <2>2
    <3> QED
      BY <1>2, <2>1, <2>2, <3>1 DEF MailInv, OrderOK
  <2> QED
    BY <1>3, <2>1, <2>2
<1>6. OrderOK'
  <2>1. ASSUME NEW i \in DOMAIN queue', NEW j \in DOMAIN queue', i < j, queue'[i].key = queue'[j].key
        PROVE  queue'[i].version <= queue'[j].version
    <3>1. i + 1 \in DOMAIN queue /\ j + 1 \in DOMAIN queue /\ i + 1 < j + 1
          /\ queue'[i] = queue[i + 1] /\ queue'[j] = queue[j + 1]
      BY <1>2, <2>1
    <3> QED
      BY <2>1, <3>1 DEF MailInv, OrderOK
  <2> QED
    BY <1>4, <1>5, <2>1 DEF OrderOK
<1>7. (\A k \in Keys : ComposerOK(k))' /\ RefsOK'
  BY <1>1 DEF MailInv, ComposerOK, Names, RefsOK
<1>8. WorkOK'
  BY <1>1 DEF MailInv, WorkOK
<1>9. PromisesOK'
  BY <1>1, PromisesKept
<1>10. FoldersOK'
  BY <1>1 DEF MailInv, FoldersOK, Runs
<1> QED
  BY <1>6, <1>7, <1>8, <1>9, <1>10 DEF MailInv

\* A job that fails leaves at most something new behind.
LEMMA FailMail ==
  ASSUME TypeOK, MailInv, pc # "idle", NEW error, Fail(error), Changes, mailbox \subseteq mailbox',
         UNCHANGED <<composer, queue, saved, uploads>>
  PROVE  MailInv'
<1>1. job' = Nil /\ pc' = "idle" /\ work' = NoWork
  BY DEF Fail, EndJob
<1>2. \A k \in Keys : sends'[k] = sends[k] \/ sends'[k].savedTo = Nil
  <2>1. job.key \in Keys
    BY DEF TypeOK, Job
  <2> QED
    BY <2>1 DEF Fail, Receive, TypeOK
<1>3. RefsOK' /\ (\A k \in Keys : ComposerOK(k))' /\ OrderOK'
  BY <1>1, OrderKept
<1>4. PromisesOK'
  BY <1>1, <1>2, PromisesKept
<1>5. WorkOK'
  BY <1>1 DEF WorkOK, NoWork
<1>6. FoldersOK'
  BY <1>1, <1>2 DEF MailInv, FoldersOK, Runs
<1> QED
  BY <1>3, <1>4, <1>5, <1>6 DEF MailInv

LEMMA SmtpMail ==
  ASSUME TypeOK, Account, MailInv, CheckJob \/ CheckFails \/ SmtpBegin \/ SmtpRefused \/ SmtpDecide \/ SmtpAccepted \/ SmtpFails
  PROVE  MailInv'
<1>0. UNCHANGED <<composer, queue, saved, uploads, mailbox, lastRef>>
  BY DEF CheckJob, CheckFails, SmtpBegin, SmtpRefused, SmtpDecide, SmtpAccepted, SmtpFails
<1>1. Changes /\ mailbox \subseteq mailbox'
  BY <1>0 DEF Changes, TypeOK
<1>2. CASE CheckFails \/ SmtpRefused \/ SmtpFails
  <2>1. pc # "idle" /\ \E error : Fail(error)
    BY <1>2 DEF CheckFails, SmtpRefused, SmtpFails
  <2> QED
    BY <1>0, <1>1, <2>1, FailMail
<1>3. CASE CheckJob \/ SmtpBegin \/ SmtpDecide \/ SmtpAccepted
  <2>1. /\ job' = job /\ job # Nil /\ job \in Job /\ pc \in {"check", "smtp", "data", "answer"}
        /\ pc' \in {"smtp", "append", "data", "answer", "copy"} /\ work'.savedTo = work.savedTo
        /\ \/ sends' = sends /\ pc # "answer"
           \/ pc = "answer" /\ \A k \in Keys : sends'[k] = sends[k] \/ (k = job.key /\ sends'[k].savedTo = Nil)
    BY <1>3 DEF CheckJob, SmtpBegin, SmtpDecide, SmtpAccepted, TypeOK, Receive, Work
  <2>2. RefsOK' /\ (\A k \in Keys : ComposerOK(k))' /\ OrderOK'
    BY <1>0, <1>1, <2>1, OrderKept
  <2>3. PromisesOK'
    BY <1>0, <2>1, PromisesKept
  <2>4. WorkOK'
    BY <2>1 DEF MailInv, WorkOK
  <2>5. FoldersOK'
    <3>1. \A k \in Keys : Runs(k) => (pc = "check" /\ job.op = "send" => sends[k] = Nil \/ sends[k].savedTo = Nil)
      BY DEF Account, ReceiptOK, Undelivered, Says, MailInv, FoldersOK
    <3> QED
      BY <2>1, <3>1 DEF MailInv, FoldersOK, Runs
  <2> QED
    BY <2>2, <2>3, <2>4, <2>5 DEF MailInv
<1> QED
  BY <1>2, <1>3

\* The job that runs holds a reference older than what it stores.
LEMMA NewIsOther ==
  ASSUME TypeOK, MailInv, pc # "idle"
  PROVE  /\ job \in Job /\ job # Nil /\ job.key \in Keys /\ job.version \in Nat /\ InOrder(job)
         /\ job.ref # lastRef + 1 /\ lastRef \in Nat
BY ComposeAssumption DEF TypeOK, MailInv, OrderOK, InOrder, Names, Job

\* The copy, when one is saved, stays beside the draft.
LEMMA CopyMail == ASSUME TypeOK, Account, MailInv, CopyToSent \/ CopyFails \/ CopyToDrafts PROVE MailInv'
<1>0. /\ UNCHANGED <<composer, queue, job, saved, uploads, sends>> /\ pc \in {"copy", "fallback"}
      /\ pc' \in {"copy", "fallback", "unlink"} /\ work.savedTo = Nil
  BY DEF CopyToSent, CopyFails, CopyToDrafts, MailInv, WorkOK
<1>1. /\ job \in Job /\ job # Nil /\ job.ref # lastRef + 1 /\ work \in Work
  BY <1>0, NewIsOther DEF TypeOK
<1>2. /\ Changes /\ mailbox \subseteq mailbox'
      /\ work'.savedTo # Nil => pc' = "unlink" /\ \E m \in mailbox' : Holds(m) /\ m.box = work'.savedTo /\ m.file = job.file
  <2>1. CASE CopyToSent
    <3>1. Store("sent") /\ work' = [work EXCEPT !.savedTo = "sent"] /\ pc' = "unlink"
      BY <2>1 DEF CopyToSent
    <3>2. Holds(Stored("sent")) /\ Stored("sent").box = "sent" /\ Stored("sent").file = job.file
      BY <1>1 DEF Holds, Stored
    <3>3. work'.savedTo = "sent"
      BY <1>1, <3>1 DEF Work
    <3> QED
      BY <1>0, <3>1, <3>2, <3>3, StoreIs
  <2>2. CASE CopyFails
    BY <1>0, <1>1, <2>2, StoreFailsIs DEF CopyFails, Work
  <2>3. CASE CopyToDrafts /\ StoreFails("drafts") /\ UNCHANGED work
    BY <1>0, <2>3, StoreFailsIs
  <2>4. CASE CopyToDrafts /\ Store("drafts") /\ work' = [work EXCEPT !.savedTo = "drafts"]
    <3>1. pc' = "unlink"
      BY <2>4 DEF CopyToDrafts
    <3>2. Holds(Stored("drafts")) /\ Stored("drafts").box = "drafts" /\ Stored("drafts").file = job.file
      BY <1>1 DEF Holds, Stored
    <3>3. work'.savedTo = "drafts"
      BY <1>1, <2>4 DEF Work
    <3> QED
      BY <1>0, <2>4, <3>1, <3>2, <3>3, StoreIs
  <2> QED
    BY <2>1, <2>2, <2>3, <2>4 DEF CopyToDrafts
<1>3. RefsOK' /\ (\A k \in Keys : ComposerOK(k))' /\ OrderOK'
  BY <1>0, <1>2, OrderKept
<1>4. PromisesOK'
  BY <1>0, <1>2, PromisesKept
<1>5. WorkOK'
  BY <1>0, <1>2 DEF WorkOK, Holds
<1>6. FoldersOK'
  BY <1>0 DEF MailInv, FoldersOK, Runs
<1> QED
  BY <1>3, <1>4, <1>5, <1>6 DEF MailInv

\* The draft that goes is of the composeId of the job, and no newer.
LEMMA OldDraft ==
  ASSUME TypeOK, MailInv, pc # "idle"
  PROVE  \A m \in mailbox : m.ref = job.ref => m.key = job.key /\ m.version <= job.version /\ m.box = "drafts"
<1>1. InOrder(job) /\ Nil \notin Nat /\ \A m \in mailbox : m.ref \in Nat
  BY NewIsOther, ComposeAssumption DEF TypeOK, Message
<1> QED
  BY <1>1 DEF InOrder, Names

LEMMA UnlinkMail == ASSUME TypeOK, Account, MailInv, UnlinkDraft PROVE MailInv'
<1>0. /\ UNCHANGED <<composer, queue, job, saved, uploads, sends, work, lastRef>> /\ pc = "unlink" /\ pc' = "settle"
      /\ job \in Job /\ job # Nil /\ job.key \in Keys /\ job.version \in Nat /\ InOrder(job)
      /\ UNCHANGED mailbox \/ (TryDelete(job.ref) /\ work.savedTo # Nil)
  BY NewIsOther DEF UnlinkDraft, DraftReplaced
<1>1. Changes /\ mailbox' \subseteq mailbox /\ \A m \in mailbox : m.ref # job.ref => m \in mailbox'
  BY <1>0, DeleteIs
<1>2. RefsOK' /\ (\A k \in Keys : ComposerOK(k))' /\ OrderOK'
  BY <1>0, <1>1, OrderKept
<1>3. WorkOK'
  BY <1>0, <1>1 DEF MailInv, WorkOK, Holds
<1>4. FoldersOK'
  BY <1>0 DEF MailInv, FoldersOK, Runs
<1>5. CASE UNCHANGED mailbox
  BY <1>0, <1>2, <1>3, <1>4, <1>5, PromisesKept DEF MailInv
<1>6. CASE work.savedTo # Nil
  <2>1. PICK c \in mailbox : c.key = job.key /\ c.version = job.version /\ c.ref # job.ref
    BY <1>6 DEF MailInv, WorkOK, Holds
  <2>2. c \in mailbox' /\ c.ref # Nil
    BY <1>1, <2>1, ComposeAssumption DEF TypeOK, Message
  <2>3. ASSUME NEW k \in Keys PROVE Witnessed(k, Nil)'
    <3>1. Witnessed(k, Nil)
      BY <1>0 DEF MailInv, PromisesOK
    <3>2. CASE k = job.key
      <4>1. saved[k] <= job.version
        BY <1>0, <3>2 DEF InOrder
      <4>2. sends[k] # Nil => sends[k].savedTo = Nil
        BY <1>0, <3>2 DEF MailInv, FoldersOK, Runs, Account, PcOK
      <4> QED
        BY <1>0, <2>1, <2>2, <3>2, <4>1, <4>2 DEF Witnessed
    <3>3. CASE k # job.key
      <4>1. \A m \in mailbox : m.key = k => m \in mailbox'
        BY <1>0, <1>1, <3>3, OldDraft
      <4> QED
        BY <1>0, <3>1, <4>1 DEF Witnessed
    <3> QED
      BY <3>2, <3>3
  <2>4. PromisesOK'
    BY <1>0, <2>3 DEF PromisesOK, Witnessed
  <2> QED
    BY <1>2, <1>3, <1>4, <2>4 DEF MailInv
<1> QED
  BY <1>0, <1>5, <1>6

\* The receipt names the folder the copy is in.
LEMMA SettleMail == ASSUME TypeOK, Account, MailInv, SettleSend PROVE MailInv'
<1>0. /\ UNCHANGED <<composer, queue, saved, uploads, mailbox, lastRef>> /\ pc = "settle" /\ pc' = "idle"
      /\ job' = Nil /\ work' = NoWork /\ job.key \in Keys /\ job # Nil
      /\ sends' = sends \/ sends' = [sends EXCEPT ![job.key] = [Receive("sent") EXCEPT !.savedTo = work.savedTo]]
  BY NewIsOther DEF SettleSend, EndJob
<1>1. \A k \in Keys : sends'[k] = sends[k] \/ (k = job.key /\ sends'[k].savedTo = work.savedTo /\ sends'[k].status = "sent")
  BY <1>0 DEF Receive, TypeOK
<1>2. Changes
  BY <1>0 DEF Changes, TypeOK
<1>3. RefsOK' /\ (\A k \in Keys : ComposerOK(k))' /\ OrderOK'
  BY <1>0, <1>2, OrderKept
<1>4. WorkOK'
  BY <1>0 DEF WorkOK, NoWork
<1>5. FoldersOK'
  BY <1>0, <1>1 DEF MailInv, FoldersOK, Runs
<1>6. PromisesOK'
  <2>1. work.savedTo # Nil => \E m \in mailbox : m.key = job.key /\ m.box = work.savedTo
    BY DEF MailInv, WorkOK, Holds
  <2>2. \A m \in mailbox : m.ref # Nil
    BY ComposeAssumption DEF TypeOK, Message
  <2>3. \A k \in Keys : Witnessed(k, Nil)
    BY <1>0 DEF MailInv, PromisesOK
  <2> QED
    BY <1>0, <1>1, <2>1, <2>2, <2>3 DEF PromisesOK, Witnessed
<1> QED
  BY <1>3, <1>4, <1>5, <1>6 DEF MailInv

\* A new draft comes, or perhaps comes.
LEMMA AppendMail == ASSUME TypeOK, Account, MailInv, AppendDraft \/ AppendFails \/ VerifyDraft PROVE MailInv'
<1>0. /\ UNCHANGED <<composer, queue, saved, uploads>> /\ pc \in {"append", "verify"} /\ work.savedTo = Nil
      /\ job \in Job /\ job # Nil /\ job.ref # lastRef + 1 /\ lastRef \in Nat /\ work \in Work
  BY NewIsOther DEF AppendDraft, AppendFails, VerifyDraft, MailInv, WorkOK, TypeOK
<1>1. CASE AppendFails
  <2>1. Changes /\ mailbox \subseteq mailbox' /\ Fail("MAIL_UNAVAILABLE")
    BY <1>0, <1>1, StoreFailsIs DEF AppendFails
  <2> QED
    BY <1>0, <2>1, FailMail
<1>2. CASE AppendDraft
  <2>1. /\ Store("drafts") /\ work' = [work EXCEPT !.ref = lastRef + 1] /\ pc' = "verify" /\ UNCHANGED <<job, sends>>
        /\ pc = "append"
    BY <1>2 DEF AppendDraft
  <2>2. Changes /\ mailbox \subseteq mailbox' /\ Stored("drafts") \in mailbox'
    BY <1>0, <2>1, StoreIs
  <2>3. RefsOK' /\ (\A k \in Keys : ComposerOK(k))' /\ OrderOK'
    BY <1>0, <2>1, <2>2, OrderKept
  <2>4. work'.ref = lastRef + 1 /\ work'.savedTo = Nil /\ work'.ref # Nil
    BY <1>0, <2>1, ComposeAssumption DEF Work
  <2>5. /\ Stored("drafts").key = job.key /\ Stored("drafts").version = job.version /\ Stored("drafts").ref = lastRef + 1
        /\ Stored("drafts").box = "drafts"
    BY DEF Stored
  <2>6. WorkOK'
    BY <1>0, <2>1, <2>2, <2>4, <2>5 DEF WorkOK, Holds
  <2>7. PromisesOK'
    <3>1. \A m \in mailbox : m.ref # work'.ref
      BY <1>0, <2>4 DEF MailInv, RefsOK, TypeOK, Message
    <3>2. \A k \in Keys : Witnessed(k, Nil)
      BY <2>1 DEF MailInv, PromisesOK
    <3> QED
      BY <1>0, <2>1, <2>2, <3>1, <3>2 DEF PromisesOK, Witnessed
  <2>8. FoldersOK'
    BY <2>1 DEF MailInv, FoldersOK, Runs, Account, PcOK
  <2> QED
    BY <2>3, <2>6, <2>7, <2>8 DEF MailInv
<1>3. CASE VerifyDraft
  <2>1. UNCHANGED <<job, work, sends, mailbox, lastRef>> /\ pc = "verify" /\ pc' = "replace"
    BY <1>3 DEF VerifyDraft
  <2>2. Changes
    BY <2>1 DEF Changes, TypeOK
  <2>3. RefsOK' /\ (\A k \in Keys : ComposerOK(k))' /\ OrderOK'
    BY <1>0, <2>1, <2>2, OrderKept
  <2>4. PromisesOK'
    BY <1>0, <2>1, PromisesKept
  <2>5. WorkOK' /\ FoldersOK'
    BY <1>0, <2>1 DEF MailInv, WorkOK, Holds, FoldersOK, Runs
  <2> QED
    BY <2>3, <2>4, <2>5 DEF MailInv
<1> QED
  BY <1>1, <1>2, <1>3

\* A save that fails leaves the receipts alone.
LEMMA SaveFails ==
  ASSUME TypeOK, Account, MailInv, NEW error, Fail(error), pc \in {"verify", "replace"}
  PROVE  sends' = sends /\ job' = Nil /\ pc' = "idle" /\ work' = NoWork /\ WorkOK' /\ FoldersOK'
<1>1. job.op = "save"
  BY DEF Account, PcOK
<1>2. sends' = sends /\ job' = Nil /\ pc' = "idle" /\ work' = NoWork
  BY <1>1 DEF Fail, EndJob
<1> QED
  BY <1>2 DEF WorkOK, NoWork, MailInv, FoldersOK, Runs

\* The new draft is taken back: what was promised does not rest on it.
LEMMA VerifyFailsMail == ASSUME TypeOK, Account, MailInv, VerifyFails PROVE MailInv'
<1>0. /\ UNCHANGED <<composer, queue, saved, uploads, lastRef>> /\ pc = "verify"
      /\ TryDelete(work.ref) /\ Fail("DRAFT_ATTACHMENTS_UNVERIFIED")
  BY DEF VerifyFails
<1>1. sends' = sends /\ job' = Nil /\ pc' = "idle" /\ WorkOK' /\ FoldersOK'
  BY <1>0, SaveFails
<1>2. Changes /\ \A m \in mailbox : m.ref # work.ref => m \in mailbox'
  BY <1>0, DeleteIs
<1>3. RefsOK' /\ (\A k \in Keys : ComposerOK(k))' /\ OrderOK'
  BY <1>0, <1>1, <1>2, OrderKept
<1>4. PromisesOK'
  <2>1. \A k \in Keys : Witnessed(k, work.ref)
    BY <1>0 DEF MailInv, PromisesOK
  <2>2. \A m \in mailbox : m.ref # Nil
    BY ComposeAssumption DEF TypeOK, Message
  <2> QED
    BY <1>0, <1>1, <1>2, <2>1, <2>2 DEF PromisesOK, Witnessed
<1> QED
  BY <1>1, <1>3, <1>4 DEF MailInv

\* The old draft goes: the new one keeps what it kept.
LEMMA ReplaceMail == ASSUME TypeOK, Account, MailInv, ReplaceDraft \/ ReplaceFails PROVE MailInv'
<1>0. /\ UNCHANGED <<queue, uploads, lastRef>> /\ pc = "replace" /\ pc' = "idle" /\ job' = Nil /\ work' = NoWork
      /\ job.key \in Keys /\ job # Nil /\ job \in Job /\ job.version \in Nat /\ InOrder(job) /\ Nil \notin Nat
      /\ UNCHANGED mailbox \/ TryDelete(job.ref)
  BY NewIsOther, ComposeAssumption DEF ReplaceDraft, ReplaceFails, Fail, EndJob, TryDelete
<1>1. Changes /\ mailbox' \subseteq mailbox /\ \A m \in mailbox : m.ref # job.ref => m \in mailbox'
  BY <1>0, DeleteIs
<1>2. PICK c \in mailbox : c.key = job.key /\ c.version = job.version /\ c.ref # job.ref /\ c.box = "drafts" /\ c.ref = work.ref
  BY <1>0 DEF MailInv, WorkOK, Holds
<1>3. c \in mailbox' /\ c.ref \in Nat /\ c.ref # Nil
  BY <1>0, <1>1, <1>2 DEF TypeOK, Message
<1>4. \A k \in Keys : Witnessed(k, Nil)
  BY <1>0 DEF MailInv, PromisesOK
<1>5. \A m \in mailbox : m.key # job.key => m \in mailbox'
  BY <1>0, <1>1, OldDraft
<1>6. \A m \in mailbox : m.key = job.key /\ m \notin mailbox' => m.version <= job.version /\ m.box = "drafts"
  BY <1>0, <1>1, OldDraft
<1>7. CASE ReplaceFails
  <2>1. sends' = sends /\ UNCHANGED <<composer, saved>> /\ WorkOK' /\ FoldersOK'
    BY <1>7, SaveFails DEF ReplaceFails
  <2>2. RefsOK' /\ (\A k \in Keys : ComposerOK(k))' /\ OrderOK'
    BY <1>0, <1>1, <2>1, OrderKept
  <2>3. ASSUME NEW k \in Keys PROVE Witnessed(k, Nil)'
    <3>1. Witnessed(k, Nil) /\ (k = job.key => saved[k] <= job.version)
      BY <1>0, <1>4 DEF InOrder
    <3>2. saved[k] \in Nat /\ \A m \in mailbox : m.version \in Nat
      BY DEF TypeOK, Message
    <3> QED
      BY <1>0, <1>2, <1>3, <1>5, <1>6, <2>1, <3>1, <3>2 DEF Witnessed
  <2>4. PromisesOK'
    BY <1>0, <2>3 DEF PromisesOK, Witnessed
  <2> QED
    BY <2>1, <2>2, <2>4 DEF MailInv
<1>8. CASE ReplaceDraft
  <2>1. /\ saved' = [saved EXCEPT ![job.key] = job.version]
        /\ composer' = [composer EXCEPT ![job.key].ref = work.ref] \/ UNCHANGED composer
        /\ \A k \in Keys : \/ sends'[k] = sends[k]
                           \/ k = job.key /\ sends'[k].savedTo = "drafts" /\ sends'[k].status = "sent"
    BY <1>0, <1>8 DEF ReplaceDraft, Receive, TypeOK
  <2>2. /\ saved'[job.key] = job.version /\ \A k \in Keys : k # job.key => saved'[k] = saved[k]
        /\ \A k \in Keys : /\ composer'[k].version = composer[k].version /\ composer'[k].file = composer[k].file
                           /\ composer'[k].ref = composer[k].ref \/ (k = job.key /\ composer'[k].ref = work.ref)
        /\ \A k \in Keys : composer[k].version \in Nat /\ composer[k].ref \in Nat \union {Nil}
    <3>1. saved'[job.key] = job.version /\ \A k \in Keys : k # job.key => saved'[k] = saved[k]
      BY <1>0, <2>1 DEF TypeOK
    <3>2. \A k \in Keys : /\ composer'[k].version = composer[k].version /\ composer'[k].file = composer[k].file
                          /\ composer'[k].ref = composer[k].ref \/ (k = job.key /\ composer'[k].ref = work.ref)
      <4>1. CASE UNCHANGED composer
        BY <4>1
      <4>2. CASE composer' = [composer EXCEPT ![job.key].ref = work.ref]
        BY <1>0, <4>2 DEF TypeOK
      <4> QED
        BY <2>1, <4>1, <4>2
    <3>3. \A k \in Keys : composer[k].version \in Nat /\ composer[k].ref \in Nat \union {Nil}
      BY ComposeAssumption DEF TypeOK
    <3> QED
      BY <3>1, <3>2, <3>3
  <2>3. /\ RefsOK'
        /\ \A k \in Keys, v \in Nat, ref \in Nat \union {Nil} : Names(k, v, ref) => Names(k, v, ref)'
    BY <1>1, NamesKept DEF MailInv
  <2>4. ASSUME NEW k \in Keys PROVE ComposerOK(k)'
    <3>1. ComposerOK(k)
      BY DEF MailInv
    <3>2. k = job.key => job.version <= composer[k].version
      BY <1>0 DEF InOrder
    <3>3. Names(k, composer[k].version, composer[k].ref)'
      <4>1. PICK v \in Nat : v = composer[k].version
        BY <2>2
      <4>2. CASE composer'[k].ref = composer[k].ref
        <5>1. PICK ref \in Nat \union {Nil} : ref = composer[k].ref
          BY <2>2
        <5>2. Names(k, v, ref)'
          BY <2>3, <3>1, <4>1, <5>1 DEF ComposerOK
        <5> QED
          BY <2>2, <4>1, <4>2, <5>1, <5>2 DEF Names
      <4>3. CASE k = job.key /\ composer'[k].ref = work.ref
        <5>1. c.ref <= lastRef' /\ \A m \in mailbox' : m.ref = c.ref => m = c
          BY <1>0, <1>1, <1>2 DEF MailInv, RefsOK
        <5> QED
          BY <1>2, <2>2, <3>2, <4>3, <5>1 DEF Names
      <4> QED
        BY <2>2, <4>2, <4>3
    <3> QED
      BY <1>0, <2>2, <3>1, <3>2, <3>3 DEF ComposerOK
  <2>5. OrderOK'
    <3>1. ASSUME NEW i \in DOMAIN queue' PROVE InOrder(queue[i])'
      <4>1. PICK j \in Job : j = queue[i] /\ j = queue'[i] /\ InOrder(j) /\ (j.key = job.key => job.version <= j.version)
        BY <1>0, <3>1 DEF MailInv, OrderOK, TypeOK
      <4>2. InOrder(j)'
        <5>1. Names(j.key, j.version, j.ref)'
          BY <2>3, <4>1 DEF InOrder, Job
        <5> QED
          BY <2>2, <4>1, <5>1 DEF InOrder, Job
      <4> QED
        BY <4>1, <4>2
    <3> QED
      BY <1>0, <3>1 DEF MailInv, OrderOK
  <2>6. WorkOK' /\ FoldersOK'
    BY <1>0, <2>1 DEF WorkOK, NoWork, MailInv, FoldersOK, Runs
  <2>7. ASSUME NEW k \in Keys PROVE Witnessed(k, Nil)'
    <3>1. Witnessed(k, Nil)
      BY <1>4
    <3>2. CASE k = job.key
      BY <1>0, <1>2, <1>3, <1>6, <2>1, <2>2, <3>1, <3>2 DEF Witnessed
    <3>3. CASE k # job.key
      BY <1>5, <2>1, <2>2, <3>1, <3>3 DEF Witnessed
    <3> QED
      BY <3>2, <3>3
  <2>8. PromisesOK'
    BY <1>0, <2>7 DEF PromisesOK, Witnessed
  <2> QED
    BY <2>3, <2>4, <2>5, <2>6, <2>8 DEF MailInv
<1> QED
  BY <1>7, <1>8

-------------------------------------------------------------------------------
(* The theorems.                                                           *)

\* What the mailbox holds between any two steps: drafts named by their composers and jobs, in the
\* order of their versions, and a witness of everything that was promised
\* (compose.js draft, write, cleanup).
THEOREM MailKept == Spec => []MailInv
<1>1. Init => MailInv
  <2> SUFFICES ASSUME Init PROVE MailInv
    OBVIOUS
  <2>1. \A k \in Keys : ComposerOK(k)
    <3>1. \A k \in Keys : composer[k].version = 1 /\ composer[k].ref = Nil /\ composer[k].file = Nil /\ saved[k] = 0
      BY DEF Init
    <3>2. 0 <= 1
      OBVIOUS
    <3> SUFFICES ASSUME NEW k \in Keys PROVE ComposerOK(k)
      OBVIOUS
    <3>3. Names(k, composer[k].version, composer[k].ref)
      BY <3>1 DEF Names
    <3> QED
      BY <3>1, <3>2, <3>3 DEF ComposerOK
  <2>2. OrderOK
    BY DEF Init, OrderOK
  <2>3. RefsOK /\ WorkOK /\ PromisesOK /\ FoldersOK
    BY DEF Init, RefsOK, WorkOK, PromisesOK, Witnessed, FoldersOK, NoWork
  <2> QED
    BY <2>1, <2>2, <2>3 DEF MailInv
<1>2. SendInv /\ MailInv /\ [Next]_vars => MailInv'
  <2> SUFFICES ASSUME TypeOK, Account, MailInv, [Next]_vars PROVE MailInv'
    BY DEF SendInv
  <2>1. CASE UNCHANGED vars
    <3>1. UNCHANGED <<composer, uploads, queue, job, pc, work, sends, mailbox, lastRef, saved>> /\ Changes
      BY <2>1 DEF vars, Changes, TypeOK
    <3> QED
      BY <3>1, SameMail, OrderKept DEF MailInv
  <2>2. CASE Compose \/ (\E id \in 1..MaxUploads : Age(id)) \/ Sweep \/ EndSession
    BY <2>2, ComposeMail, SessionMail
  <2>3. CASE JobStep
    BY <2>3, QueueMail, SmtpMail, CopyMail, UnlinkMail, SettleMail, AppendMail, VerifyFailsMail, ReplaceMail
       DEF JobStep, SendStep, SaveStep
  <2> QED
    BY <2>1, <2>2, <2>3 DEF Next
<1> QED
  BY <1>1, <1>2, AccountHolds, PTL DEF Spec

\* Saved content stays in the mailbox, in that version or a later one
\* (compose.js draft: append, verify, replace).
THEOREM SavedHolds == Spec => []SavedContentKept
<1>1. MailInv => SavedContentKept
  BY DEF MailInv, PromisesOK, Witnessed, SavedContentKept
<1> QED
  BY <1>1, MailKept, PTL

\* A receipt that names a folder is right about it (compose.js write: savedTo).
THEOREM CopyHolds == Spec => []CopyExists
<1>1. MailInv => CopyExists
  BY DEF MailInv, PromisesOK, Witnessed, CopyExists
<1> QED
  BY <1>1, MailKept, PTL

\* An uploaded file that is in use goes only with the session, by its composer, or when a message
\* carries it (compose.js cleanup, prune, remove).
THEOREM FilesHold == Spec => FileKept
<1>1. SendInv /\ MailInv /\ [Next]_vars =>
        [\A id \in DOMAIN files : files[id] = "fresh" /\ files'[id] = "none" =>
           \/ ~open'
           \/ \A k \in Keys : composer'[k].file # id
           \/ \E m \in mailbox : m.file = id]_vars
  <2> DEFINE Allowed(id) == ~open' \/ (\A k \in Keys : composer'[k].file # id) \/ \E m \in mailbox : m.file = id
  <2> SUFFICES ASSUME TypeOK, Account, MailInv, Next, NEW id \in DOMAIN files, files[id] = "fresh", files'[id] = "none"
               PROVE  Allowed(id)
    BY DEF SendInv
  <2>1. ASSUME NEW k \in Keys, Remove(k) PROVE Allowed(id)
    <3>1. id = composer[k].file /\ composer[k].file # Nil /\ composer'[k].file = Nil
          /\ \A l \in Keys : l # k => composer'[l].file = composer[l].file
      BY <2>1 DEF Remove, Pruned, TypeOK
    <3>2. \A l \in Keys : l # k => composer[l].file # id
      BY <3>1 DEF MailInv, ComposerOK
    <3> QED
      BY <3>1, <3>2
  <2>2. CASE SettleSend
    <3>1. id = job.file /\ work.savedTo # Nil
      BY <2>2 DEF SettleSend, CleanupDue, TypeOK
    <3> QED
      BY <3>1 DEF MailInv, WorkOK
  <2>3. CASE EndSession
    BY <2>3 DEF EndSession
  <2>4. ASSUME NEW k \in Keys, Upload(k) \/ Send(k) \/ \E manual \in BOOLEAN : Save(k, manual) PROVE FALSE
    BY <2>4 DEF Upload, Send, Save, Pruned, TypeOK
  <2>5. CASE (\E i \in 1..MaxUploads : Age(i)) \/ Sweep \/ StartJob \/ CheckJob
    BY <2>5 DEF Age, Sweep, StartJob, CheckJob, Pruned, TypeOK
  <2>6. CASE DropJob \/ CheckFails \/ SmtpBegin \/ SmtpRefused \/ SmtpDecide \/ SmtpAccepted \/ SmtpFails
    BY <2>6 DEF DropJob, CheckFails, SmtpBegin, SmtpRefused, SmtpDecide, SmtpAccepted, SmtpFails
  <2>7. CASE CopyToSent \/ CopyFails \/ CopyToDrafts \/ UnlinkDraft \/ SaveStep
    BY <2>7 DEF CopyToSent, CopyFails, CopyToDrafts, UnlinkDraft, SaveStep, AppendDraft, AppendFails,
                VerifyDraft, VerifyFails, ReplaceDraft, ReplaceFails
  <2> QED
    BY <2>1, <2>2, <2>3, <2>4, <2>5, <2>6, <2>7 DEF Next, Compose, JobStep, SendStep
<1> QED
  BY <1>1, AccountHolds, MailKept, PTL DEF Spec, FileKept
===============================================================================
