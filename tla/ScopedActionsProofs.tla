-------------------------- MODULE ScopedActionsProofs --------------------------
(***************************************************************************)
(* Proofs about ScopedActions: a message is changed once, what a selection *)
(* says of it is true, and the page counts every batch once.               *)
(***************************************************************************)
EXTENDS ScopedActions, FiniteSetTheorems, SequenceTheorems, TLAPS

Executing == job # Nil /\ job.pc # "prepare"
Sent      == job # Nil /\ job.pc \in {"answer", "expunge"}

\* Nothing was begun for the selection.
Blank(rec) ==
  /\ rec.outcome = [m \in Messages |-> "none"] /\ rec.failures = <<>> /\ rec.sequence = 0
  /\ \A x \in rec.receipts : x.kind = "prepared"

Untouched(m) == acted[m] = <<>>

\* A request works on an open selection; what the page last asked for, or what it retries.
JobOK ==
  job # Nil =>
    /\ Live(job.rec) /\ ~Closed(job.rec)
    /\ job.key = Rec.cursor
    /\ (job.pc = "prepare") = (Rec.phase = "preparing")
    /\ job.waited => /\ client.waiting /\ reply = Nil
                     /\ client.rec = job.rec /\ client.cursor = job.key
    /\ job.pc = "prepare" => client.rec = job.rec /\ client.phase = "prepare"
    /\ job.pc # "prepare" =>
         \/ client.phase = "execute" /\ client.rec = job.rec
         \/ /\ client.phase = "prepare" /\ client.source = job.rec
            /\ client.rec \notin DOMAIN recs

\* What it has in hand was not settled.
BatchOK ==
  job # Nil =>
    /\ job.pc \in {"source", "create", "open"} => job.batch \subseteq Pending(Rec)
    /\ job.pc \in {"send", "answer", "expunge"} => job.left \subseteq Pending(Rec)
    /\ Sent => job.uids \subseteq job.left
    /\ ~Sent => job.uids = {}

\* A command is under way for the message, on behalf of the selection.
UnderWay(r, m) == Busy(r) /\ m \in job.uids

\* An outcome is true, a message that may still be tried was not touched.
TruthOK(r) ==
  LET rec == recs[r] IN
  /\ \A m \in Messages : /\ rec.outcome[m] = "processed" => m \notin placed
                         /\ (\E i \in DOMAIN acted[m] : acted[m][i] = r) =>
                              rec.outcome[m] \in {"processed", "unknown"} \/ UnderWay(r, m)
  /\ \A i \in DOMAIN rec.failures : rec.failures[i].retryable => rec.outcome[rec.failures[i].ref] = "failed"
  /\ ~Closed(r) =>
       /\ \A m \in rec.manifest : rec.outcome[m] = "none" => Untouched(m) \/ UnderWay(r, m)
       /\ rec.stage = "search" => rec.manifest = {} /\ \A m \in Messages : Untouched(m)

\* The receipts: those of the preparation lie before the cursor of the run.
ReceiptsOK(rec) ==
  /\ rec.phase = "preparing" => Blank(rec)
  /\ rec.phase = "error" => rec.code # Nil \/ rec.sequence > 0
  /\ \A x \in rec.receipts :
       /\ x.kind = "prepared" => x.at < rec.cursor
       /\ x.kind = "prepared" /\ x.phase = "ready" =>
            /\ rec.phase # "preparing"
            /\ \A y \in rec.receipts : y.kind = "prepared" => y.at < x.cursor
       /\ x.kind = "run" => x.next = IF x.state = "running" THEN x.at + 1 ELSE 0

RecordsOK ==
  /\ \A r \in DOMAIN recs : Live(r) => TruthOK(r) /\ ReceiptsOK(recs[r])
  /\ \A r, k \in DOMAIN recs : Live(r) /\ Live(k) /\ ~Closed(r) /\ ~Closed(k) => r = k

\* A message is touched once, and is gone when the command was carried out.
ActedOK ==
  \A m \in Messages :
    /\ Len(acted[m]) <= 1
    /\ \A i \in DOMAIN acted[m] : acted[m][i] \in DOMAIN recs
    /\ ~Untouched(m) /\ m \notin inflight => m \notin placed
    /\ Sent /\ m \in job.uids => ~Untouched(m)

\* The selections a retry can start from.
Sources == {client.rec} \union IF client.phase = "prepare" THEN {client.source} ELSE {}

\* Whatever a selection may still take up was not touched by another.
SourceOK ==
  /\ client.phase = "prepare" /\ client.source = 0 => \A m \in Messages : Untouched(m)
  /\ \A r \in Sources : Live(r) => \A m \in Retryable(r) : Untouched(m)

\* Where the page is.
PageOK ==
  /\ client.phase = "execute" => client.rec \in DOMAIN recs
  /\ client.phase = "prepare" =>
       /\ client.failures = <<>> /\ client.attempted = 0 /\ client.sequence = Nil
       /\ client.status # "completed"
       /\ Live(client.rec) => Blank(recs[client.rec])
  /\ client.status = "idle" => /\ client.rec = 0 /\ client.source = 0 /\ client.phase = "prepare"
                               /\ ~client.waiting /\ ~client.current
                               /\ recs = <<>> /\ job = Nil

\* A receipt on its way is of the selection and the cursor the page asked with.
ReplyOK ==
  reply # Nil =>
    /\ client.waiting
    /\ reply.kind # "error" =>
         /\ job = Nil /\ client.rec \in DOMAIN recs
         /\ reply.kind = IF client.phase = "prepare" THEN "prepared" ELSE "run"
         /\ Live(client.rec) => reply \in recs[client.rec].receipts /\ reply.at = client.cursor

\* The page that executes has a cursor of the run.
CursorOK ==
  client.phase = "execute" /\ Live(client.rec) =>
    /\ client.current => client.cursor # 0
    /\ client.cursor # 0 =>
         \A x \in recs[client.rec].receipts : x.kind = "prepared" => x.at < client.cursor

\* The batches of a run: the n-th has the cursor first + n and reported the failures from
\* cut[n] on, a batch in work will report those from end on.
Chain(rec, end, first, cut) ==
  /\ first > 0 /\ cut[0] = 0 /\ cut[rec.sequence] = end
  /\ rec.phase = "preparing" => rec.cursor < first
  /\ rec.phase \in {"ready", "running"} => rec.cursor = first + rec.sequence
  /\ \A x \in rec.receipts :
       /\ x.kind = "prepared" /\ x.phase = "ready" => x.cursor = first
       /\ x.kind = "run" =>
            /\ x.sequence < rec.sequence /\ x.at = first + x.sequence
            /\ cut[x.sequence] <= cut[x.sequence + 1]
            /\ x.failed = SubSeq(rec.failures, cut[x.sequence] + 1, cut[x.sequence + 1])
            /\ x.attempted <= Settled(rec)
            /\ x.state = "completed" => /\ rec.phase = "completed" /\ Pending(rec) = {}
                                        /\ x.attempted = x.total
                                        /\ cut[x.sequence + 1] = Len(rec.failures)

\* The page has heard of the first batches, up to its cursor.
Follows(c, rec, first, cut) ==
  /\ IF c.sequence = Nil
     THEN c.failures = <<>> /\ c.cursor = first
     ELSE /\ c.sequence < rec.sequence
          /\ c.failures = SubSeq(rec.failures, 1, cut[c.sequence + 1])
          /\ c.cursor \in {0, first + c.sequence + 1}
  /\ c.attempted <= Settled(rec)
  /\ c.status = "completed" =>
       /\ rec.phase = "completed" /\ Pending(rec) = {}
       /\ c.attempted = c.total /\ c.failures = rec.failures

Consistent(c, rec, end) ==
  \E first \in Nat, cut \in [0..rec.sequence -> 0..Len(rec.failures)] :
    /\ Chain(rec, end, first, cut)
    /\ c.phase = "execute" => Follows(c, rec, first, cut)

\* The failures the earlier batches reported.
Reported(r) == IF Executing /\ job.rec = r THEN job.from ELSE Len(recs[r].failures)

\* The page and the selection it is about agree on the batches.
PageInv == Live(client.rec) => Consistent(client, recs[client.rec], Reported(client.rec))

ActInv == /\ JobOK /\ BatchOK /\ RecordsOK /\ ActedOK /\ SourceOK /\ PageOK /\ ReplyOK /\ CursorOK
          /\ PageInv
IInv == TypeOK /\ ActInv

-------------------------------------------------------------------------------
(* Sets of uids.                                                           *)

LEMMA MessagesFinite ==
  ASSUME NEW S, S \subseteq Messages
  PROVE  IsFiniteSet(S) /\ Cardinality(S) \in Nat
<1>1. IsFiniteSet(Messages)
  BY ScopedAssumption, FS_Interval DEF Messages
<1> QED
  BY <1>1, FS_Subset, FS_CardinalityType

\* The uids of a set are numbered by how many do not exceed them.
LEMMA Numbered ==
  ASSUME NEW S, S \subseteq Messages, NEW i \in 1..Cardinality(S)
  PROVE  \E m \in S : Cardinality({k \in S : k <= m}) = i
<1> DEFINE Rank == [m \in S |-> Cardinality({k \in S : k <= m})]
<1>1. IsFiniteSet(S) /\ Cardinality(S) \in Nat
  BY MessagesFinite
<1>2. S \subseteq Nat
  BY ScopedAssumption DEF Messages
<1>3. ASSUME NEW m \in S
      PROVE  Rank[m] \in 1..Cardinality(S)
  <2>1. {k \in S : k <= m} \subseteq S /\ m \in {k \in S : k <= m}
    BY <1>2
  <2>2. Cardinality({k \in S : k <= m}) \in Nat /\ Cardinality({k \in S : k <= m}) <= Cardinality(S)
    BY <1>1, <2>1, FS_Subset, FS_CardinalityType
  <2>3. Cardinality({k \in S : k <= m}) # 0
    BY <1>1, <2>1, FS_Subset, FS_EmptySet
  <2> QED
    BY <1>1, <2>2, <2>3
<1>4. ASSUME NEW m \in S, NEW n \in S, m < n
      PROVE  Rank[m] # Rank[n]
  <2>0. ASSUME NEW k \in S, k <= m
        PROVE  k <= n
    BY <1>2, <1>4, <2>0
  <2>1. {k \in S : k <= m} \subseteq {k \in S : k <= n}
    BY <2>0
  <2>2. n \in {k \in S : k <= n} /\ n \notin {k \in S : k <= m}
    BY <1>2, <1>4
  <2>3. IsFiniteSet({k \in S : k <= n})
    BY <1>1, FS_Subset
  <2> QED
    BY <2>1, <2>2, <2>3, FS_Subset
<1>5. Rank \in Injection(S, 1..Cardinality(S))
  <2>1. Rank \in [S -> 1..Cardinality(S)]
    BY <1>3
  <2>2. \A m, n \in S : m < n => Rank[m] # Rank[n]
    BY <1>4
  <2>3. \A m, n \in S : m # n => m < n \/ n < m
    BY <1>2
  <2> HIDE DEF Rank
  <2>4. \A m, n \in S : Rank[m] = Rank[n] => m = n
    BY <2>2, <2>3
  <2> QED
    BY <2>1, <2>4 DEF Injection, IsInjective
<1>6. IsFiniteSet(1..Cardinality(S)) /\ Cardinality(1..Cardinality(S)) = Cardinality(S)
  BY <1>1, FS_Interval
<1>7. Rank \in Surjection(S, 1..Cardinality(S))
  BY <1>5, <1>6, FS_Injection
<1> QED
  BY <1>7 DEF Surjection

\* Listed lists members of the set.
LEMMA ListedWithin ==
  ASSUME NEW S, S \subseteq Messages
  PROVE  \E n \in Nat : Listed(S) \in [1..n -> S]
<1>1. \A i \in 1..Cardinality(S) : (CHOOSE m \in S : Cardinality({k \in S : k <= m}) = i) \in S
  BY Numbered
<1>2. Listed(S) \in [1..Cardinality(S) -> S]
  BY <1>1 DEF Listed
<1> QED
  BY <1>2, MessagesFinite

-------------------------------------------------------------------------------
(* What the operators on selections do.                                    *)

\* The new selection keeps the fields that no batch changes.
SameRun(old, new) ==
  /\ new.stage = old.stage /\ new.source = old.source /\ new.manifest = old.manifest
  /\ new.checked = old.checked /\ new.needsCreate = old.needsCreate

\* What was settled stays, and what failed is listed after the earlier failures.
Goes(old, new) ==
  /\ SameRun(old, new)
  /\ \A m \in Messages : old.outcome[m] # "none" => new.outcome[m] = old.outcome[m]
  /\ Len(old.failures) <= Len(new.failures)
  /\ \A i \in 1..Len(old.failures) : new.failures[i] = old.failures[i]

\* Cursor and receipts are those of before.
SameBatch(old, new) ==
  /\ new.phase = old.phase /\ new.cursor = old.cursor /\ new.sequence = old.sequence
  /\ new.receipts = old.receipts

LEMMA CountTypes ==
  ASSUME NEW rec \in Record
  PROVE  /\ Cardinality(rec.manifest) \in Nat /\ Settled(rec) \in Nat
         /\ Settled(rec) <= Cardinality(rec.manifest)
         /\ Pending(rec) = {} => Settled(rec) = Cardinality(rec.manifest)
         /\ Pending(rec) \subseteq Messages
<1>1. rec.manifest \subseteq Messages
  BY DEF Record
<1>2. IsFiniteSet(rec.manifest)
  BY <1>1, MessagesFinite
<1>3. rec.manifest \ Pending(rec) \subseteq rec.manifest
  OBVIOUS
<1>4. Settled(rec) <= Cardinality(rec.manifest)
  BY <1>2, <1>3, FS_Subset DEF Settled
<1>5. Pending(rec) = {} => rec.manifest \ Pending(rec) = rec.manifest
  OBVIOUS
<1>6. Settled(rec) \in Nat /\ Cardinality(rec.manifest) \in Nat
  BY <1>1, MessagesFinite DEF Settled
<1> QED
  BY <1>1, <1>4, <1>5, <1>6 DEF Settled, Pending

\* What was settled is counted, and stays so.
LEMMA SettledGrows ==
  ASSUME NEW old \in Record, NEW new \in Record, Goes(old, new)
  PROVE  Settled(old) <= Settled(new)
<1>1. old.manifest \ Pending(old) \subseteq new.manifest \ Pending(new)
  <2>1. old.manifest \subseteq Messages
    BY DEF Record
  <2> QED
    BY <2>1 DEF Goes, SameRun, Pending
<1>2. IsFiniteSet(new.manifest \ Pending(new))
  BY MessagesFinite DEF Record
<1> QED
  BY <1>1, <1>2, FS_Subset DEF Settled

\* settle() gives an outcome to what has none, and lists it when it was not processed.
Settles(rec, S, status, new) ==
  /\ \A m \in Messages :
       new.outcome[m] = IF m \in S /\ rec.outcome[m] = "none" THEN status ELSE rec.outcome[m]
  /\ \A i \in DOMAIN new.failures :
       \/ i \in 1..Len(rec.failures)
       \/ /\ new.failures[i].ref \in S /\ rec.outcome[new.failures[i].ref] = "none"
          /\ new.failures[i].retryable => status = "failed"

LEMMA SettleWorks ==
  ASSUME NEW rec \in Record, NEW S, S \subseteq Messages,
         NEW status \in Outcomes, NEW again \in BOOLEAN
  PROVE  LET new == Settle(rec, S, status, again) IN
         /\ new \in Record
         /\ Goes(rec, new) /\ SameBatch(rec, new) /\ Settles(rec, S, status, new)
<1> DEFINE fresh == {m \in S : rec.outcome[m] = "none"}
           tail == [i \in DOMAIN Listed(fresh) |->
                      [ref |-> Listed(fresh)[i], retryable |-> again /\ status # "unknown"]]
           failures == IF status \in {"failed", "unknown"} THEN rec.failures \o tail ELSE rec.failures
           outcome == [m \in Messages |-> IF m \in fresh THEN status ELSE rec.outcome[m]]
           new == [rec EXCEPT !.outcome = outcome, !.failures = failures]
<1>1. Settle(rec, S, status, again) = new
  BY DEF Settle
<1>3. tail \in Seq(Failure) /\ \A i \in DOMAIN tail : tail[i].ref \in fresh
  <2>1. PICK n \in Nat : Listed(fresh) \in [1..n -> fresh]
    BY ListedWithin
  <2>2. tail \in [1..n -> Failure] /\ \A i \in 1..n : tail[i].ref \in fresh
    BY <2>1 DEF Failure
  <2> QED
    BY <2>1, <2>2, SeqDef
<1>4. rec.failures \in Seq(Failure) /\ rec.outcome \in [Messages -> Outcomes]
  BY DEF Record
<1>5. failures \in Seq(Failure)
  BY <1>3, <1>4, ConcatProperties
<1>6. outcome \in [Messages -> Outcomes]
  BY <1>4
<1>7. \A i \in DOMAIN tail : tail[i].retryable => status = "failed" \/ status \notin {"failed", "unknown"}
  BY DEF tail
<1> HIDE DEF tail
<1>8. /\ Len(rec.failures) <= Len(failures)
      /\ \A i \in 1..Len(rec.failures) : failures[i] = rec.failures[i]
      /\ \A i \in DOMAIN failures :
           \/ i \in 1..Len(rec.failures)
           \/ /\ failures[i].ref \in fresh
              /\ failures[i].retryable => status = "failed"
  <2>1. CASE status \in {"failed", "unknown"}
    <3>1. /\ Len(failures) = Len(rec.failures) + Len(tail)
          /\ \A i \in 1..Len(failures) :
               failures[i] = IF i <= Len(rec.failures) THEN rec.failures[i]
                             ELSE tail[i - Len(rec.failures)]
      BY <1>3, <1>4, <2>1, ConcatProperties
    <3>2. Len(rec.failures) \in Nat /\ Len(tail) \in Nat /\ DOMAIN tail = 1..Len(tail)
      BY <1>3, <1>4, LenProperties
    <3>3. DOMAIN failures = 1..Len(failures)
      BY <1>5, LenProperties
    <3> HIDE DEF failures, fresh
    <3>4. ASSUME NEW i \in 1..Len(failures), i > Len(rec.failures)
          PROVE  failures[i].ref \in fresh /\ (failures[i].retryable => status = "failed")
      <4>1. i - Len(rec.failures) \in DOMAIN tail /\ failures[i] = tail[i - Len(rec.failures)]
        BY <3>1, <3>2, <3>4
      <4> QED
        BY <1>3, <1>7, <2>1, <4>1
    <3> QED
      BY <3>1, <3>2, <3>3, <3>4
  <2>2. CASE status \notin {"failed", "unknown"}
    BY <1>4, <2>2, LenProperties
  <2> QED
    BY <2>1, <2>2
<1> HIDE DEF failures
<1>9. /\ new \in Record /\ new.outcome = outcome /\ new.failures = failures
      /\ SameRun(rec, new) /\ SameBatch(rec, new)
  BY <1>5, <1>6 DEF Record, SameRun, SameBatch
<1>10. \A m \in Messages :
         outcome[m] = IF m \in S /\ rec.outcome[m] = "none" THEN status ELSE rec.outcome[m]
  OBVIOUS
<1> HIDE DEF new, outcome
<1>11. Goes(rec, new)
  BY <1>8, <1>9, <1>10 DEF Goes
<1>12. Settles(rec, S, status, new)
  BY <1>8, <1>9, <1>10 DEF Settles
<1> QED
  BY <1>1, <1>9, <1>11, <1>12

\* The selection a request works on.
LEMMA JobType ==
  ASSUME TypeOK, JobOK, job # Nil
  PROVE  /\ job \in Job /\ job.rec \in DOMAIN recs /\ Rec \in Record /\ Rec # Nil
         /\ Live(job.rec) /\ ~Closed(job.rec)
BY ScopedAssumption, ElementOfSeq DEF TypeOK, JobOK, Live, Rec

\* A selection in the list is replaced by another.
LEMMA Replaced ==
  ASSUME recs \in Seq(Record \union {Nil}), NEW r \in DOMAIN recs, NEW new \in Record \union {Nil},
         NEW list, list = [recs EXCEPT ![r] = new]
  PROVE  /\ list \in Seq(Record \union {Nil}) /\ Len(list) = Len(recs)
         /\ DOMAIN list = DOMAIN recs /\ DOMAIN recs = 1..Len(recs) /\ Len(recs) \in Nat
         /\ list[r] = new
         /\ \A k \in DOMAIN recs : k # r => list[k] = recs[k]
BY ExceptSeq, LenProperties

LEMMA NoNilRecord == Nil \notin Record /\ Nil \notin Job /\ Nil \notin RunAnswer
                     /\ Nil \notin PreparedAnswer /\ Nil \notin ErrorAnswer
BY ScopedAssumption

\* What the receipt of a batch says, and what the selection keeps of it.
EndsWith(rec, new, receipt) ==
  /\ recs' = [recs EXCEPT ![job.rec] = new]
  /\ job' = Nil /\ reply' = IF job.waited THEN receipt ELSE reply
  /\ Goes(rec, new) /\ new.outcome = rec.outcome /\ new.failures = rec.failures
  /\ new.receipts = rec.receipts \union {receipt}
  /\ new.sequence = rec.sequence + 1
  /\ new.cursor = IF receipt.state = "running" THEN rec.cursor + 1 ELSE rec.cursor
  /\ new.phase = IF receipt.state = "stopped" THEN "error" ELSE receipt.state
  /\ receipt.at = job.key /\ receipt.sequence = rec.sequence
  /\ receipt.next = IF receipt.state = "running" THEN rec.cursor + 1 ELSE 0
  /\ receipt.attempted = Settled(rec) /\ receipt.total = Cardinality(rec.manifest)
  /\ receipt.failed = SubSeq(rec.failures, job.from + 1, Len(rec.failures))
  /\ receipt.state = "completed" => Pending(rec) = {}

\* The loop of execute() ends with a receipt.
LEMMA FinishWorks ==
  ASSUME TypeOK, JobOK, job # Nil, NEW rec \in Record, NEW code \in Codes \union {Nil},
         Finish(rec, code)
  PROVE  \E new \in Record, receipt \in RunAnswer : EndsWith(rec, new, receipt)
<1> DEFINE complete == Pending(rec) = {} /\ code = Nil
           state == IF code # Nil THEN "stopped" ELSE IF complete THEN "completed" ELSE "running"
           receipt == [kind |-> "run", at |-> job.key, sequence |-> rec.sequence, code |-> code,
                       state |-> state,
                       delta |-> Settled(rec) - job.before, attempted |-> Settled(rec),
                       failed |-> SubSeq(rec.failures, job.from + 1, Len(rec.failures)),
                       total |-> Cardinality(rec.manifest),
                       next |-> IF code # Nil \/ complete THEN 0 ELSE rec.cursor + 1]
           new == [rec EXCEPT
                     !.phase = IF code # Nil THEN "error" ELSE IF complete THEN "completed" ELSE "running",
                     !.cursor = IF code # Nil \/ complete THEN @ ELSE @ + 1,
                     !.sequence = @ + 1, !.receipts = @ \union {receipt}]
<1>1. recs' = [recs EXCEPT ![job.rec] = new] /\ job' = Nil
      /\ reply' = IF job.waited THEN receipt ELSE reply
  BY DEF Finish, Put, Answer
<1>2. job \in Job
  BY JobType
<1>3. /\ rec.cursor \in Nat /\ rec.sequence \in Nat /\ rec.failures \in Seq(Failure)
      /\ rec.manifest \subseteq Messages /\ rec.receipts \subseteq PreparedAnswer \union RunAnswer
  BY DEF Record
<1>4. job.key \in Nat /\ job.before \in Nat /\ job.from \in Nat
  BY <1>2 DEF Job
<1>5. SubSeq(rec.failures, job.from + 1, Len(rec.failures)) \in Seq(Failure)
  <2>1. Len(rec.failures) \in Nat /\ \A i \in job.from + 1..Len(rec.failures) : rec.failures[i] \in Failure
    BY <1>3, <1>4, LenProperties, ElementOfSeq
  <2> QED
    BY <1>4, <2>1, SubSeqProperties
<1>6. Settled(rec) \in Nat /\ Cardinality(rec.manifest) \in Nat
  BY CountTypes
<1>7. receipt \in RunAnswer
  BY <1>3, <1>4, <1>5, <1>6 DEF RunAnswer
<1> DEFINE receipts == rec.receipts \union {receipt}
<1>8. receipts \subseteq PreparedAnswer \union RunAnswer
  BY <1>3, <1>7
<1>9. state = "running" <=> ~(code # Nil \/ complete)
  OBVIOUS
<1>10. /\ receipt.at = job.key /\ receipt.sequence = rec.sequence /\ receipt.state = state
       /\ receipt.next = IF code # Nil \/ complete THEN 0 ELSE rec.cursor + 1
       /\ receipt.attempted = Settled(rec) /\ receipt.total = Cardinality(rec.manifest)
       /\ receipt.failed = SubSeq(rec.failures, job.from + 1, Len(rec.failures))
  OBVIOUS
<1> DEFINE phase == IF code # Nil THEN "error" ELSE IF complete THEN "completed" ELSE "running"
           cursor == IF code # Nil \/ complete THEN rec.cursor ELSE rec.cursor + 1
           sequence == rec.sequence + 1
           rec1 == [rec EXCEPT !.phase = phase]
           rec2 == [rec1 EXCEPT !.cursor = cursor]
           rec3 == [rec2 EXCEPT !.sequence = sequence]
           rec4 == [rec3 EXCEPT !.receipts = receipts]
<1>11. /\ new = rec4
       /\ phase \in {"error", "completed", "running"} /\ cursor \in Nat /\ sequence \in Nat
  BY <1>3
<1> HIDE DEF receipt, new, receipts, phase, cursor, sequence
<1>12. /\ new \in Record
       /\ new.outcome = rec.outcome /\ new.failures = rec.failures
       /\ new.receipts = receipts /\ new.sequence = sequence
       /\ new.cursor = cursor /\ new.phase = phase
       /\ SameRun(rec, new)
  <2>1. rec1 \in Record /\ SameRun(rec, rec1) /\ rec1.outcome = rec.outcome
        /\ rec1.failures = rec.failures /\ rec1.phase = phase
    BY <1>11 DEF Record, SameRun
  <2> HIDE DEF rec1
  <2>2. rec2 \in Record /\ SameRun(rec, rec2) /\ rec2.outcome = rec.outcome
        /\ rec2.failures = rec.failures /\ rec2.phase = phase /\ rec2.cursor = cursor
    BY <1>11, <2>1 DEF Record, SameRun
  <2> HIDE DEF rec2
  <2>3. rec3 \in Record /\ SameRun(rec, rec3) /\ rec3.outcome = rec.outcome
        /\ rec3.failures = rec.failures /\ rec3.phase = phase /\ rec3.cursor = cursor
        /\ rec3.sequence = sequence
    BY <1>11, <2>2 DEF Record, SameRun
  <2> HIDE DEF rec3
  <2>4. rec4 \in Record /\ SameRun(rec, rec4) /\ rec4.outcome = rec.outcome
        /\ rec4.failures = rec.failures /\ rec4.phase = phase /\ rec4.cursor = cursor
        /\ rec4.sequence = sequence /\ rec4.receipts = receipts
    BY <1>8, <2>3 DEF Record, SameRun
  <2> QED
    BY <1>11, <2>4
<1>13. Goes(rec, new)
  BY <1>3, <1>12, LenProperties DEF Goes
<1>14. new.phase = IF receipt.state = "stopped" THEN "error" ELSE receipt.state
  BY <1>10, <1>12 DEF phase
<1>15. state = "completed" => Pending(rec) = {}
  OBVIOUS
<1> HIDE DEF state, complete
<1>16. /\ new.cursor = IF receipt.state = "running" THEN rec.cursor + 1 ELSE rec.cursor
       /\ receipt.next = IF receipt.state = "running" THEN rec.cursor + 1 ELSE 0
  BY <1>9, <1>10, <1>12 DEF cursor
<1> QED
  BY <1>1, <1>7, <1>10, <1>12, <1>13, <1>14, <1>15, <1>16 DEF receipts, sequence, EndsWith

-------------------------------------------------------------------------------
(* Batches: how a step on the selection in work keeps the invariant.       *)

\* What a batch may say of messages that had no outcome.
Tells(old, new) ==
  /\ Goes(old, new)
  /\ \A m \in Messages : old.outcome[m] = "none" =>
       /\ new.outcome[m] = "processed" => m \notin placed
       /\ new.outcome[m] \in {"failed", "skipped"} => Untouched(m)
  /\ \A i \in DOMAIN new.failures :
       \/ i \in 1..Len(old.failures)
       \/ new.failures[i].retryable => /\ new.outcome[new.failures[i].ref] = "failed"
                                       /\ old.outcome[new.failures[i].ref] = "none"

\* A command that was given up leaves its messages settled, or is still under way.
Accounted(new) ==
  \A m \in job.uids : \/ new.outcome[m] # "none"
                      \/ job' # Nil /\ job'.rec = job.rec /\ m \in job'.uids

LEMMA FailureTypes ==
  ASSUME NEW rec \in Record
  PROVE  /\ rec.failures \in Seq(Failure) /\ DOMAIN rec.failures = 1..Len(rec.failures)
         /\ \A i \in DOMAIN rec.failures : rec.failures[i].ref \in Messages
         /\ rec.outcome \in [Messages -> Outcomes] /\ rec.manifest \subseteq Messages
         /\ rec.cursor \in Nat /\ rec.sequence \in Nat
<1>1. rec.failures \in Seq(Failure)
  BY DEF Record
<1>2. DOMAIN rec.failures = 1..Len(rec.failures)
      /\ \A i \in DOMAIN rec.failures : rec.failures[i] \in Failure
  BY <1>1, LenProperties, ElementOfSeq
<1> QED
  BY <1>1, <1>2 DEF Record, Failure

\* What is true of the selections stays true.
LEMMA TruthStep ==
  ASSUME IInv, Executing, NEW new \in Record, recs' = [recs EXCEPT ![job.rec] = new],
         acted' = acted, placed' = placed, Tells(Rec, new), Accounted(new),
         job' # Nil => job'.rec = job.rec /\ new.phase \in {"ready", "running"},
         ReceiptsOK(new)
  PROVE  RecordsOK'
<1>0. PICK r \in DOMAIN recs : r = job.rec
  BY JobType DEF IInv, ActInv, Executing
<1>1. /\ r = job.rec /\ Live(r) /\ ~Closed(r) /\ Rec = recs[r] /\ Rec \in Record
      /\ recs \in Seq(Record \union {Nil})
  BY <1>0, JobType DEF IInv, ActInv, Executing, TypeOK, Rec
<1>2. /\ DOMAIN recs' = DOMAIN recs /\ recs'[r] = new /\ new # Nil
      /\ \A k \in DOMAIN recs : k # r => recs'[k] = recs[k]
  BY <1>1, Replaced, NoNilRecord
<1>3. TruthOK(r) /\ job # Nil /\ Busy(r)
  BY <1>1 DEF IInv, ActInv, RecordsOK, Executing, Busy
<1>4. TruthOK(r)'
  <2>1. ASSUME NEW m \in Messages
        PROVE  /\ new.outcome[m] = "processed" => m \notin placed
               /\ (\E i \in DOMAIN acted[m] : acted[m][i] = r) =>
                    new.outcome[m] \in {"processed", "unknown"} \/ UnderWay(r, m)'
    <3>1. CASE Rec.outcome[m] # "none"
      BY <1>1, <1>3, <3>1 DEF TruthOK, Tells, Goes, IInv, ActInv, BatchOK, UnderWay, Pending, Sent
    <3>2. CASE Rec.outcome[m] = "none"
      <4>1. new.outcome[m] \in Outcomes
        BY FailureTypes
      <4>2. ASSUME NEW i \in DOMAIN acted[m], acted[m][i] = r
            PROVE  new.outcome[m] \in {"processed", "unknown"} \/ UnderWay(r, m)'
        <5>1. m \in job.uids
          BY <1>1, <1>3, <3>2, <4>2 DEF TruthOK, UnderWay
        <5>2. ~Untouched(m)
          BY <4>2 DEF Untouched
        <5> QED
          BY <1>1, <3>2, <4>1, <5>1, <5>2 DEF Tells, Accounted, UnderWay, Busy, Outcomes
      <4> QED
        BY <3>2, <4>2 DEF Tells
    <3> QED
      BY <3>1, <3>2
  <2>2. ASSUME NEW i \in DOMAIN new.failures, new.failures[i].retryable
        PROVE  new.outcome[new.failures[i].ref] = "failed"
    <3>1. CASE i \in 1..Len(Rec.failures)
      <4>1. i \in DOMAIN Rec.failures /\ new.failures[i] = Rec.failures[i]
            /\ Rec.failures[i].ref \in Messages
        BY <1>1, <3>1, FailureTypes DEF Tells, Goes
      <4>2. Rec.outcome[Rec.failures[i].ref] = "failed"
        BY <1>1, <1>3, <2>2, <4>1 DEF TruthOK
      <4> QED
        BY <4>1, <4>2 DEF Tells, Goes
    <3>2. CASE i \notin 1..Len(Rec.failures)
      BY <2>2, <3>2 DEF Tells
    <3> QED
      BY <3>1, <3>2
  <2>3. ASSUME ~Closed(r)'
        PROVE  /\ \A m \in new.manifest : new.outcome[m] = "none" => Untouched(m)' \/ UnderWay(r, m)'
               /\ new.stage = "search" => new.manifest = {} /\ \A m \in Messages : Untouched(m)'
    <3>1. ASSUME NEW m \in new.manifest, new.outcome[m] = "none", ~Untouched(m)
          PROVE  UnderWay(r, m)'
      <4>1. m \in Rec.manifest /\ Rec.outcome[m] = "none"
        BY <1>1, <3>1, FailureTypes DEF Tells, Goes, SameRun
      <4>2. m \in job.uids
        BY <1>1, <1>3, <3>1, <4>1 DEF TruthOK, UnderWay
      <4> QED
        BY <1>1, <3>1, <4>2 DEF Accounted, UnderWay, Busy
    <3>2. new.stage = "search" => new.manifest = {} /\ \A m \in Messages : Untouched(m)
      BY <1>1, <1>3 DEF TruthOK, Tells, Goes, SameRun
    <3> QED
      BY <3>1, <3>2 DEF Untouched
  <2> QED
    BY <1>2, <2>1, <2>2, <2>3 DEF TruthOK
<1>5. ASSUME NEW k \in DOMAIN recs, k # r, Live(k)'
      PROVE  TruthOK(k)' /\ ReceiptsOK(recs'[k]) /\ Closed(k)'
  <2>1. recs'[k] = recs[k] /\ Live(k)
    BY <1>2, <1>5 DEF Live
  <2>2. TruthOK(k) /\ ReceiptsOK(recs[k]) /\ Closed(k)
    BY <1>1, <1>5, <2>1 DEF IInv, ActInv, RecordsOK
  <2>3. ~Busy(k) /\ ~Busy(k)'
    BY <1>1, <1>5 DEF Busy
  <2> QED
    BY <2>1, <2>2, <2>3 DEF TruthOK, Closed, UnderWay
<1> QED
  BY <1>2, <1>4, <1>5 DEF RecordsOK

\* What may be tried again was not touched.
LEMMA RetryStep ==
  ASSUME IInv, Executing, NEW new \in Record, recs' = [recs EXCEPT ![job.rec] = new],
         acted' = acted, client' = client, Tells(Rec, new)
  PROVE  SourceOK'
<1>0. PICK r \in DOMAIN recs : r = job.rec
  BY JobType DEF IInv, ActInv, Executing
<1>1. /\ r = job.rec /\ Live(r) /\ ~Closed(r) /\ Rec = recs[r] /\ Rec \in Record
      /\ recs \in Seq(Record \union {Nil})
  BY <1>0, JobType DEF IInv, ActInv, Executing, TypeOK, Rec
<1>2. /\ DOMAIN recs' = DOMAIN recs /\ recs'[r] = new /\ new # Nil
      /\ \A k \in DOMAIN recs : k # r => recs'[k] = recs[k]
  BY <1>1, Replaced, NoNilRecord
<1>3. r \in Sources
  BY <1>1 DEF IInv, ActInv, JobOK, Executing, Sources
<1>4. ASSUME NEW i \in DOMAIN new.failures, new.failures[i].retryable
      PROVE  Untouched(new.failures[i].ref)
  <2>1. CASE i \in 1..Len(Rec.failures)
    <3>1. i \in DOMAIN recs[r].failures /\ new.failures[i] = recs[r].failures[i]
      BY <1>1, <2>1, FailureTypes DEF Tells, Goes
    <3>2. new.failures[i].ref \in Retryable(r)
      BY <1>4, <3>1 DEF Retryable
    <3> QED
      BY <1>1, <1>3, <3>2 DEF IInv, ActInv, SourceOK
  <2>2. CASE i \notin 1..Len(Rec.failures)
    BY <1>4, <2>2, FailureTypes DEF Tells
  <2> QED
    BY <2>1, <2>2
<1>5. \A m \in Retryable(r)' : Untouched(m)'
  <2>1. ASSUME NEW m \in Retryable(r)'
        PROVE  Untouched(m)
    <3>1. PICK i \in DOMAIN new.failures : new.failures[i].retryable /\ new.failures[i].ref = m
      BY <1>2, <2>1 DEF Retryable
    <3> QED
      BY <1>4, <3>1
  <2> QED
    BY <2>1 DEF Untouched
<1>6. ASSUME NEW k \in Sources, Live(k)'
      PROVE  \A m \in Retryable(k)' : Untouched(m)'
  <2>1. CASE k = r
    BY <1>5, <2>1
  <2>2. CASE k # r
    <3>1. k \in DOMAIN recs /\ recs'[k] = recs[k] /\ Live(k)
      BY <1>2, <1>6, <2>2 DEF Live
    <3>2. \A m \in Retryable(k) : Untouched(m)
      BY <3>1 DEF IInv, ActInv, SourceOK
    <3>3. Retryable(k)' = Retryable(k)
      BY <3>1 DEF Retryable
    <3> QED
      BY <3>2, <3>3 DEF Untouched
  <2> QED
    BY <2>1, <2>2
<1> QED
  BY <1>6 DEF SourceOK, Sources, Untouched, IInv, ActInv

-------------------------------------------------------------------------------
(* The batches of a selection and the page.                                *)

LEMMA PartOfLonger ==
  ASSUME NEW s \in Seq(Failure), NEW t \in Seq(Failure), Len(s) <= Len(t),
         \A i \in 1..Len(s) : t[i] = s[i],
         NEW a \in Nat, NEW b \in 0..Len(s)
  PROVE  SubSeq(t, a + 1, b) = SubSeq(s, a + 1, b)
<1>1. Len(s) \in Nat /\ Len(t) \in Nat
  BY LenProperties
<1>2. /\ \A i \in a + 1..b : s[i] \in Failure /\ t[i] \in Failure
      /\ \A i \in a + 1..b : t[i] = s[i]
  BY <1>1, ElementOfSeq
<1> DEFINE u == SubSeq(s, a + 1, b)
           v == SubSeq(t, a + 1, b)
<1>3. /\ u \in Seq(Failure) /\ v \in Seq(Failure) /\ Len(u) = Len(v)
      /\ Len(u) = IF a + 1 <= b THEN b - a ELSE 0
      /\ \A i \in 1..b - a : u[i] = s[a + i] /\ v[i] = t[a + i]
  <2>1. a + 1 \in Int /\ b \in Int /\ b - (a + 1) + 1 = b - a
    OBVIOUS
  <2>2. \A i \in a + 1..b : s[i] \in Failure
    BY <1>2
  <2>3. \A i \in a + 1..b : t[i] \in Failure
    BY <1>2
  <2>4. /\ u \in Seq(Failure) /\ Len(u) = IF a + 1 <= b THEN b - (a + 1) + 1 ELSE 0
        /\ \A i \in 1..b - (a + 1) + 1 : u[i] = s[a + 1 + i - 1]
    BY <2>1, <2>2, SubSeqProperties
  <2>5. /\ v \in Seq(Failure) /\ Len(v) = IF a + 1 <= b THEN b - (a + 1) + 1 ELSE 0
        /\ \A i \in 1..b - (a + 1) + 1 : v[i] = t[a + 1 + i - 1]
    BY <2>1, <2>3, SubSeqProperties
  <2> HIDE DEF u, v
  <2>6. \A i \in 1..b - a : a + 1 + i - 1 = a + i
    OBVIOUS
  <2> QED
    BY <2>1, <2>4, <2>5, <2>6
<1> HIDE DEF u, v
<1>4. \A i \in 1..Len(u) : u[i] = v[i]
  BY <1>1, <1>2, <1>3
<1>5. u = v
  BY <1>3, <1>4, SeqEqual
<1> QED
  BY <1>5 DEF u, v

\* A batch goes on: what was reported stays as it was.
LEMMA ConsistentGrows ==
  ASSUME NEW c \in Selection, NEW old \in Record, NEW new \in Record, NEW end,
         Goes(old, new), new.sequence = old.sequence, new.cursor = old.cursor,
         new.receipts = old.receipts,
         old.phase \in {"ready", "running"}, new.phase \in {"ready", "running"},
         Consistent(c, old, end)
  PROVE  Consistent(c, new, end)
<1>1. PICK first \in Nat, cut \in [0..old.sequence -> 0..Len(old.failures)] :
        Chain(old, end, first, cut) /\ (c.phase = "execute" => Follows(c, old, first, cut))
  BY DEF Consistent
<1>2. /\ old.failures \in Seq(Failure) /\ new.failures \in Seq(Failure)
      /\ old.sequence \in Nat /\ Len(old.failures) \in Nat /\ Len(new.failures) \in Nat
      /\ Len(old.failures) <= Len(new.failures)
      /\ \A i \in 1..Len(old.failures) : new.failures[i] = old.failures[i]
  BY FailureTypes, LenProperties DEF Goes
<1>3. cut \in [0..new.sequence -> 0..Len(new.failures)]
  BY <1>2
<1>4. Settled(old) <= Settled(new) /\ Settled(old) \in Nat /\ Settled(new) \in Nat
  BY SettledGrows, CountTypes
<1>5. ASSUME NEW n \in 0..old.sequence, NEW a \in Nat
      PROVE  SubSeq(new.failures, a + 1, cut[n]) = SubSeq(old.failures, a + 1, cut[n])
  <2>1. cut[n] \in 0..Len(old.failures)
    BY <1>5
  <2> QED
    BY <1>2, <2>1, PartOfLonger
<1>6. ASSUME NEW x \in old.receipts, x.kind = "run"
      PROVE  /\ x.sequence < new.sequence /\ x.at = first + x.sequence
             /\ cut[x.sequence] <= cut[x.sequence + 1]
             /\ x.failed = SubSeq(new.failures, cut[x.sequence] + 1, cut[x.sequence + 1])
             /\ x.attempted <= Settled(new) /\ x.state # "completed"
  <2>1. /\ x.sequence < old.sequence /\ x.at = first + x.sequence
        /\ cut[x.sequence] <= cut[x.sequence + 1]
        /\ x.failed = SubSeq(old.failures, cut[x.sequence] + 1, cut[x.sequence + 1])
        /\ x.attempted <= Settled(old) /\ x.state # "completed"
    BY <1>1, <1>6 DEF Chain
  <2>2. x.sequence \in Nat /\ x.attempted \in Nat
    BY <1>6 DEF Record, RunAnswer, PreparedAnswer
  <2>3. x.sequence \in 0..old.sequence /\ x.sequence + 1 \in 0..old.sequence
    BY <1>2, <2>1, <2>2
  <2>4. cut[x.sequence] \in Nat
    BY <1>2, <2>3
  <2>5. x.failed = SubSeq(new.failures, cut[x.sequence] + 1, cut[x.sequence + 1])
    BY <1>5, <2>1, <2>3, <2>4
  <2>6. x.attempted <= Settled(new)
    BY <1>4, <2>1, <2>2
  <2> QED
    BY <2>1, <2>5, <2>6
<1>7. Chain(new, end, first, cut)
  BY <1>1, <1>6 DEF Chain
<1>8. ASSUME c.phase = "execute"
      PROVE  Follows(c, new, first, cut)
  <2>1. Follows(c, old, first, cut)
    BY <1>1, <1>8
  <2>2. c.status # "completed"
    BY <2>1 DEF Follows
  <2>3. c.attempted <= Settled(new)
    BY <1>4, <2>1 DEF Follows, Selection
  <2>4. ASSUME c.sequence # Nil
        PROVE  c.failures = SubSeq(new.failures, 1, cut[c.sequence + 1])
    <3>1. c.sequence \in Nat /\ c.sequence < old.sequence
          /\ c.failures = SubSeq(old.failures, 1, cut[c.sequence + 1])
      BY <2>1, <2>4 DEF Follows, Selection
    <3>2. c.sequence + 1 \in 0..old.sequence
      BY <1>2, <3>1
    <3>3. SubSeq(new.failures, 0 + 1, cut[c.sequence + 1]) = SubSeq(old.failures, 0 + 1, cut[c.sequence + 1])
      BY <1>5, <3>2
    <3>4. 0 + 1 = 1
      OBVIOUS
    <3> QED
      BY <3>1, <3>3, <3>4
  <2> QED
    BY <2>1, <2>2, <2>3, <2>4 DEF Follows
<1> QED
  BY <1>3, <1>7, <1>8 DEF Consistent

\* A batch ends: its failures are those reported since the last cut.
LEMMA ConsistentEnds ==
  ASSUME NEW c \in Selection, NEW rec \in Record, NEW new \in Record, NEW receipt \in RunAnswer,
         NEW end,
         SameRun(rec, new), new.outcome = rec.outcome, new.failures = rec.failures,
         new.receipts = rec.receipts \union {receipt}, new.sequence = rec.sequence + 1,
         new.cursor = IF receipt.state = "running" THEN rec.cursor + 1 ELSE rec.cursor,
         new.phase = IF receipt.state = "stopped" THEN "error" ELSE receipt.state,
         receipt.at = rec.cursor, receipt.sequence = rec.sequence,
         receipt.attempted = Settled(rec), receipt.total = Cardinality(rec.manifest),
         receipt.failed = SubSeq(rec.failures, end + 1, Len(rec.failures)),
         receipt.state = "completed" => Pending(rec) = {},
         rec.phase \in {"ready", "running"}, Consistent(c, rec, end)
  PROVE  Consistent(c, new, Len(new.failures))
<1>1. PICK first \in Nat, cut \in [0..rec.sequence -> 0..Len(rec.failures)] :
        Chain(rec, end, first, cut) /\ (c.phase = "execute" => Follows(c, rec, first, cut))
  BY DEF Consistent
<1>2. rec.sequence \in Nat /\ Len(rec.failures) \in Nat /\ rec.cursor \in Nat
  BY FailureTypes, LenProperties
<1> DEFINE next == [i \in 0..new.sequence |-> IF i = new.sequence THEN Len(rec.failures) ELSE cut[i]]
<1>3. /\ next \in [0..new.sequence -> 0..Len(new.failures)]
      /\ next[new.sequence] = Len(new.failures)
      /\ \A i \in 0..rec.sequence : next[i] = cut[i]
      /\ cut[rec.sequence] = end /\ end \in 0..Len(rec.failures)
      /\ rec.cursor = first + rec.sequence /\ first > 0 /\ cut[0] = 0
  <2>1. /\ cut[rec.sequence] = end /\ rec.cursor = first + rec.sequence /\ first > 0 /\ cut[0] = 0
    BY <1>1 DEF Chain
  <2>2. end \in 0..Len(rec.failures)
    BY <1>2, <2>1
  <2>3. ASSUME NEW i \in 0..new.sequence
        PROVE  next[i] \in 0..Len(rec.failures)
    BY <1>2, <2>3
  <2>4. new.sequence \in 0..new.sequence /\ \A i \in 0..rec.sequence : i \in 0..new.sequence
        /\ i # new.sequence
    BY <1>2
  <2>5. next \in [0..new.sequence -> 0..Len(new.failures)]
    BY <2>3
  <2> QED
    BY <2>1, <2>2, <2>4, <2>5
<1> HIDE DEF next
<1>4. /\ Settled(new) = Settled(rec) /\ Pending(new) = Pending(rec)
      /\ Settled(rec) \in Nat
      /\ Pending(rec) = {} => Settled(rec) = Cardinality(rec.manifest)
  BY CountTypes DEF Settled, Pending, SameRun
<1>5. /\ receipt.kind = "run" /\ receipt.state \in {"running", "completed", "stopped"}
  BY DEF RunAnswer
<1>6. ASSUME NEW x \in rec.receipts, x.kind = "run"
      PROVE  /\ x.sequence < new.sequence /\ x.at = first + x.sequence
             /\ next[x.sequence] <= next[x.sequence + 1]
             /\ x.failed = SubSeq(new.failures, next[x.sequence] + 1, next[x.sequence + 1])
             /\ x.attempted <= Settled(new)
             /\ x.state # "completed"
  <2>1. /\ x.sequence < rec.sequence /\ x.at = first + x.sequence
        /\ cut[x.sequence] <= cut[x.sequence + 1]
        /\ x.failed = SubSeq(rec.failures, cut[x.sequence] + 1, cut[x.sequence + 1])
        /\ x.attempted <= Settled(rec) /\ x.state # "completed"
    BY <1>1, <1>6 DEF Chain
  <2>2. x.sequence \in Nat
    BY <1>6 DEF Record, RunAnswer, PreparedAnswer
  <2>3. x.sequence \in 0..rec.sequence /\ x.sequence + 1 \in 0..rec.sequence
    BY <1>2, <2>1, <2>2
  <2>4. next[x.sequence] = cut[x.sequence] /\ next[x.sequence + 1] = cut[x.sequence + 1]
    BY <1>3, <2>3
  <2>5. x.sequence < new.sequence
    BY <1>2, <2>1, <2>2
  <2> QED
    BY <1>4, <2>1, <2>4, <2>5
<1>7. /\ receipt.sequence < new.sequence /\ receipt.at = first + receipt.sequence
      /\ next[receipt.sequence] <= next[receipt.sequence + 1]
      /\ receipt.failed = SubSeq(new.failures, next[receipt.sequence] + 1, next[receipt.sequence + 1])
      /\ receipt.attempted <= Settled(new)
      /\ receipt.state = "completed" =>
           /\ new.phase = "completed" /\ Pending(new) = {}
           /\ receipt.attempted = receipt.total
           /\ next[receipt.sequence + 1] = Len(new.failures)
  <2>1. receipt.sequence + 1 = new.sequence /\ rec.sequence \in 0..rec.sequence
    BY <1>2
  <2>2. next[receipt.sequence] = end /\ next[receipt.sequence + 1] = Len(rec.failures)
    BY <1>3, <2>1
  <2>3. end <= Len(rec.failures) /\ rec.sequence < rec.sequence + 1
    BY <1>2, <1>3
  <2>4. receipt.state = "completed" => receipt.attempted = receipt.total /\ new.phase = "completed"
    BY <1>4
  <2> QED
    BY <1>3, <1>4, <2>1, <2>2, <2>3, <2>4
<1>8. Chain(new, Len(new.failures), first, next)
  <2>1. \A x \in new.receipts : x.kind = "prepared" /\ x.phase = "ready" => x.cursor = first
    BY <1>1, <1>5 DEF Chain
  <2>2. next[0] = 0
    BY <1>2, <1>3
  <2>3. new.phase # "preparing"
    BY <1>5
  <2>4. new.phase \in {"ready", "running"} => new.cursor = first + new.sequence
    BY <1>2, <1>3, <1>5
  <2>5. ASSUME NEW x \in new.receipts, x.kind = "run"
        PROVE  /\ x.sequence < new.sequence /\ x.at = first + x.sequence
               /\ next[x.sequence] <= next[x.sequence + 1]
               /\ x.failed = SubSeq(new.failures, next[x.sequence] + 1, next[x.sequence + 1])
               /\ x.attempted <= Settled(new)
               /\ x.state = "completed" => /\ new.phase = "completed" /\ Pending(new) = {}
                                           /\ x.attempted = x.total
                                           /\ next[x.sequence + 1] = Len(new.failures)
    <3>1. CASE x = receipt
      BY <1>7, <3>1
    <3>2. CASE x # receipt
      BY <1>6, <2>5, <3>2
    <3> QED
      BY <3>1, <3>2
  <2> QED
    BY <1>3, <2>1, <2>2, <2>3, <2>4, <2>5 DEF Chain
<1>9. ASSUME c.phase = "execute"
      PROVE  Follows(c, new, first, next)
  <2>1. Follows(c, rec, first, cut)
    BY <1>1, <1>9
  <2>2. c.status # "completed"
    BY <2>1 DEF Follows
  <2>3. ASSUME c.sequence # Nil
        PROVE  /\ c.sequence < new.sequence
               /\ c.failures = SubSeq(new.failures, 1, next[c.sequence + 1])
    <3>1. c.sequence \in Nat /\ c.sequence < rec.sequence
          /\ c.failures = SubSeq(rec.failures, 1, cut[c.sequence + 1])
      BY <2>1, <2>3 DEF Follows, Selection
    <3>2. c.sequence + 1 \in 0..rec.sequence /\ c.sequence < new.sequence
      BY <1>2, <3>1
    <3> QED
      BY <1>3, <3>1, <3>2
  <2> QED
    BY <1>4, <2>1, <2>2, <2>3 DEF Follows
<1> QED
  BY <1>3, <1>8, <1>9 DEF Consistent

\* The page learns nothing, or turns to its selection again.
LEMMA ConsistentKept ==
  ASSUME NEW c \in Selection, NEW d \in Selection, NEW rec \in Record, NEW end,
         d.phase = c.phase, d.cursor = c.cursor, d.sequence = c.sequence, d.failures = c.failures,
         d.attempted = c.attempted,
         d.status = "completed" => c.status = "completed" /\ d.total = c.total,
         Consistent(c, rec, end)
  PROVE  Consistent(d, rec, end)
<1>1. PICK first \in Nat, cut \in [0..rec.sequence -> 0..Len(rec.failures)] :
        Chain(rec, end, first, cut) /\ (c.phase = "execute" => Follows(c, rec, first, cut))
  BY DEF Consistent
<1>2. d.phase = "execute" => Follows(d, rec, first, cut)
  BY <1>1 DEF Follows
<1> QED
  BY <1>1, <1>2 DEF Consistent

\* A selection being prepared: the run starts with the cursor of the last receipt.
LEMMA ConsistentPrepares ==
  ASSUME NEW c \in Selection, NEW rec \in Record, c.phase = "prepare",
         rec.failures = <<>>, rec.sequence = 0, rec.phase = "ready" => rec.cursor > 0,
         rec.phase # "running",
         \A x \in rec.receipts : /\ x.kind = "prepared"
                                 /\ x.phase = "ready" => x.cursor = rec.cursor /\ rec.phase = "ready"
  PROVE  Consistent(c, rec, Len(rec.failures))
<1> DEFINE cut == [i \in 0..0 |-> 0]
           first == IF rec.phase = "ready" THEN rec.cursor ELSE rec.cursor + 1
<1>1. Len(rec.failures) = 0 /\ rec.cursor \in Nat
  BY FailureTypes
<1>2. first \in Nat /\ cut \in [0..rec.sequence -> 0..Len(rec.failures)] /\ cut[0] = 0
  BY <1>1
<1>3. Chain(rec, Len(rec.failures), first, cut)
  <2>1. first > 0 /\ (rec.phase = "preparing" => rec.cursor < first)
        /\ (rec.phase \in {"ready", "running"} => rec.cursor = first + rec.sequence)
    BY <1>1
  <2>2. \A x \in rec.receipts : x.kind # "run" /\ (x.kind = "prepared"
        /\ x.phase = "ready" => x.cursor = first)
    OBVIOUS
  <2> HIDE DEF first, cut
  <2> QED
    BY <1>1, <1>2, <2>1, <2>2 DEF Chain
<1> HIDE DEF first, cut
<1> QED
  BY <1>2, <1>3 DEF Consistent

LEMMA ConsistentPreparing ==
  ASSUME NEW c, NEW d, NEW rec, NEW end, d.phase = "prepare", Consistent(c, rec, end)
  PROVE  Consistent(d, rec, end)
BY DEF Consistent

\* Neither the selection of the page nor the batch it has in work changes.
LEMMA PageSame ==
  ASSUME TypeOK, PageInv, client' \in Selection, client'.rec = client.rec,
         client'.phase = client.phase, client'.cursor = client.cursor,
         client'.sequence = client.sequence, client'.failures = client.failures,
         client'.attempted = client.attempted,
         client'.status = "completed" => client.status = "completed" /\ client'.total = client.total,
         Live(client.rec)' => Live(client.rec) /\ recs'[client.rec] = recs[client.rec],
         Live(client.rec)' => (Executing' = Executing),
         Executing => job'.rec = job.rec /\ job'.from = job.from
  PROVE  PageInv'
<1> SUFFICES ASSUME Live(client.rec)'
             PROVE  Consistent(client', recs[client.rec], Reported(client.rec)')
  BY DEF PageInv, Live, Reported
<1>1. Live(client.rec) /\ recs[client.rec] \in Record /\ client \in Selection
  BY ElementOfSeq, LenProperties DEF TypeOK, Live
<1>2. Reported(client.rec)' = Reported(client.rec)
  BY <1>1 DEF Reported
<1>3. Consistent(client, recs[client.rec], Reported(client.rec))
  BY <1>1 DEF PageInv
<1>4. PICK rec \in Record, end \in {Reported(client.rec)} : rec = recs[client.rec] /\ end = Reported(client.rec)
  BY <1>1
<1>5. Consistent(client, rec, end)
  BY <1>3, <1>4
<1>6. Consistent(client', rec, end)
  BY <1>1, <1>5, ConsistentKept
<1> QED
  BY <1>2, <1>4, <1>6

\* The batch goes on.
LEMMA Continues ==
  ASSUME IInv, Executing, NEW new \in Record, recs' = [recs EXCEPT ![job.rec] = new],
         NEW j \in Job, job' = j, j.rec = job.rec, j.key = job.key, j.waited = job.waited
         /\ j.from = job.from,
         j.pc # "prepare", new.phase \in {"ready", "running"},
         new.cursor = Rec.cursor, new.receipts = Rec.receipts /\ new.sequence = Rec.sequence,
         Tells(Rec, new), Accounted(new),
         reply' = reply, client' = client, acted' = acted, placed' = placed, inflight' = inflight,
         BatchOK', j.pc \in {"answer", "expunge"} => Sent /\ j.uids = job.uids,
         UNCHANGED <<action, valid, alive, asked, events>>, archive' \in BOOLEAN
  PROVE  IInv'
<1>0. PICK r \in DOMAIN recs : r = job.rec
  BY JobType DEF IInv, ActInv, Executing
<1>1. /\ r = job.rec /\ Live(r) /\ ~Closed(r) /\ Rec = recs[r] /\ Rec \in Record
      /\ recs \in Seq(Record \union {Nil}) /\ job # Nil /\ job' # Nil
  BY <1>0, JobType, NoNilRecord DEF IInv, ActInv, Executing, TypeOK, Rec
<1>2. /\ DOMAIN recs' = DOMAIN recs /\ recs'[r] = new /\ new # Nil
      /\ \A k \in DOMAIN recs : k # r => recs'[k] = recs[k]
  BY <1>1, Replaced, NoNilRecord
<1>3. Rec' = new /\ Live(r)' /\ ~Closed(r)'
  BY <1>1, <1>2 DEF Rec, Live, Closed
<1>4. JobOK'
  <2>1. JobOK /\ job.pc # "prepare"
    BY DEF IInv, ActInv, Executing
  <2> QED
    BY <1>1, <1>2, <1>3, <2>1 DEF JobOK
<1>5. ReceiptsOK(new)
  <2>1. ReceiptsOK(recs[r])
    BY <1>1 DEF IInv, ActInv, RecordsOK
  <2> QED
    BY <1>1, <2>1 DEF ReceiptsOK
<1>6. RecordsOK'
  BY <1>1, <1>5, TruthStep
<1>7. ActedOK'
  BY <1>1, <1>2 DEF ActedOK, IInv, ActInv, Untouched, Sent
<1>8. SourceOK'
  BY RetryStep
<1>9. PageOK'
  <2>1. client.phase = "prepare" => client.rec # r
    BY <1>1 DEF IInv, ActInv, JobOK, Executing
  <2>2. client.phase = "prepare" /\ Live(client.rec)' => recs'[client.rec] = recs[client.rec]
        /\ Live(client.rec)
    BY <1>2, <2>1 DEF Live
  <2> QED
    BY <1>1, <1>2, <2>2 DEF PageOK, IInv, ActInv
<1>10. ReplyOK'
  BY <1>1 DEF ReplyOK, IInv, ActInv
<1>11. CursorOK'
  <2>1. CASE client.rec = r
    BY <1>1, <1>2, <2>1 DEF CursorOK, IInv, ActInv
  <2>2. CASE client.rec # r
    BY <1>2, <2>2 DEF CursorOK, IInv, ActInv, Live
  <2> QED
    BY <2>1, <2>2
<1>12. TypeOK'
  <2>1. recs' \in Seq(Record \union {Nil}) /\ TypeOK
    BY <1>1, Replaced DEF IInv
  <2> QED
    BY <2>1 DEF TypeOK
<1>13. PageInv'
  <2>1. Executing'
    BY <1>1 DEF Executing
  <2>2. CASE client.rec = r
    <3>1. Consistent(client, recs[r], job.from)
      BY <1>1, <2>2 DEF IInv, ActInv, PageInv, Reported
    <3>2. client \in Selection /\ Rec.phase \in {"ready", "running"} /\ Goes(Rec, new)
      BY <1>1 DEF IInv, ActInv, TypeOK, JobOK, Closed, Record, Executing, Tells
    <3>3. Consistent(client, new, job.from)
      BY <1>1, <3>1, <3>2, ConsistentGrows
    <3>4. Reported(r)' = job.from
      BY <1>1, <2>1 DEF Reported
    <3> QED
      BY <1>2, <2>2, <3>3, <3>4 DEF PageInv
  <2>3. CASE client.rec # r
    <3>1. ASSUME Live(client.rec)'
          PROVE  Live(client.rec) /\ recs'[client.rec] = recs[client.rec]
      BY <1>2, <2>3, <3>1 DEF Live
    <3>2. ASSUME Live(client.rec)'
          PROVE  Reported(client.rec)' = Reported(client.rec)
      BY <1>1, <2>3, <3>1, <3>2 DEF Reported
    <3> QED
      BY <3>1, <3>2 DEF IInv, ActInv, PageInv
  <2> QED
    BY <2>2, <2>3
<1> QED
  BY <1>4, <1>6, <1>7, <1>8, <1>9, <1>10, <1>11, <1>12, <1>13 DEF ActInv, IInv

\* The request ends with a receipt.
LEMMA Ends ==
  ASSUME IInv, Executing, NEW rec \in Record, NEW code \in Codes \union {Nil}, Finish(rec, code),
         rec.phase \in {"ready", "running"}, rec.cursor = Rec.cursor, rec.receipts = Rec.receipts
         /\ rec.sequence = Rec.sequence,
         Tells(Rec, rec), \A m \in job.uids : rec.outcome[m] # "none",
         client' = client, acted' = acted, placed' = placed, inflight' = inflight,
         UNCHANGED <<action, valid, alive, asked, events>>, archive' \in BOOLEAN
  PROVE  IInv'
<1>0. PICK r \in DOMAIN recs : r = job.rec
  BY JobType DEF IInv, ActInv, Executing
<1>1. /\ r = job.rec /\ Live(r) /\ ~Closed(r) /\ Rec = recs[r] /\ Rec \in Record
      /\ recs \in Seq(Record \union {Nil}) /\ job # Nil /\ TypeOK /\ JobOK
  BY <1>0, JobType, NoNilRecord DEF IInv, ActInv, Executing, TypeOK, Rec
<1>2a. PICK new \in Record, receipt \in RunAnswer : EndsWith(rec, new, receipt)
  BY <1>1, FinishWorks
<1>2. /\ recs' = [recs EXCEPT ![job.rec] = new]
      /\ job' = Nil /\ reply' = IF job.waited THEN receipt ELSE reply
      /\ Goes(rec, new) /\ new.outcome = rec.outcome /\ new.failures = rec.failures
      /\ new.receipts = rec.receipts \union {receipt}
      /\ new.sequence > 0
      /\ new.cursor = IF receipt.state = "running" THEN rec.cursor + 1 ELSE rec.cursor
      /\ new.phase = IF receipt.state = "stopped" THEN "error" ELSE receipt.state
      /\ receipt.at = job.key
      /\ receipt.next = IF receipt.state = "running" THEN rec.cursor + 1 ELSE 0
  BY <1>2a, FailureTypes DEF EndsWith
<1>3. /\ DOMAIN recs' = DOMAIN recs /\ recs'[r] = new /\ new # Nil /\ Live(r)'
      /\ \A k \in DOMAIN recs : k # r => recs'[k] = recs[k]
  BY <1>1, <1>2, Replaced, NoNilRecord DEF Live
<1>4. receipt.kind = "run" /\ receipt.state \in {"running", "completed", "stopped"} /\ receipt # Nil
  BY NoNilRecord DEF RunAnswer
<1>5. Tells(Rec, new)
  BY <1>2 DEF Tells, Goes, SameRun
<1>6. JobOK' /\ BatchOK'
  BY <1>2 DEF JobOK, BatchOK
<1>7. job.key = Rec.cursor /\ Rec.cursor \in Nat
  BY <1>1, FailureTypes DEF JobOK
<1>8. ReceiptsOK(new)
  <2>1. ReceiptsOK(Rec)
    BY <1>1 DEF IInv, ActInv, RecordsOK
  <2>2. new.phase # "preparing" /\ new.sequence > 0 /\ new.cursor >= Rec.cursor /\ new.cursor \in Nat
    BY <1>2, <1>4, <1>7
  <2>3. \A x \in Rec.receipts : x.kind = "prepared" => x.at \in Nat
    BY <1>1 DEF Record, PreparedAnswer, RunAnswer
  <2>4. ASSUME NEW x \in new.receipts
        PROVE  /\ x.kind = "prepared" => x.at < new.cursor
               /\ x.kind = "prepared" /\ x.phase = "ready" =>
                    \A y \in new.receipts : y.kind = "prepared" => y.at < x.cursor
               /\ x.kind = "run" => x.next = IF x.state = "running" THEN x.at + 1 ELSE 0
    <3>1. CASE x = receipt
      BY <1>2, <1>4, <1>7, <3>1
    <3>2. CASE x # receipt
      <4>1. x \in Rec.receipts
        BY <1>2, <3>2
      <4>2. x.kind = "prepared" => x.at < Rec.cursor
        BY <2>1, <4>1 DEF ReceiptsOK
      <4>3. x.kind = "prepared" => x.at < new.cursor
        BY <1>7, <2>2, <2>3, <4>1, <4>2
      <4>4. \A y \in new.receipts : y.kind = "prepared" => y \in Rec.receipts
        BY <1>2, <1>4
      <4> QED
        BY <2>1, <4>1, <4>3, <4>4 DEF ReceiptsOK
    <3> QED
      BY <3>1, <3>2
  <2> QED
    BY <2>2, <2>4 DEF ReceiptsOK
<1>9. RecordsOK'
  <2>1. Accounted(new)
    BY <1>2 DEF Accounted
  <2>2. recs' = [recs EXCEPT ![job.rec] = new] /\ job' = Nil
    BY <1>2
  <2> QED
    BY ONLY <1>5, <1>8, <2>1, <2>2, TruthStep, IInv, Executing, acted' = acted, placed' = placed
<1>10. ActedOK'
  BY <1>2, <1>3 DEF ActedOK, IInv, ActInv, Untouched, Sent
<1>11. SourceOK'
  BY <1>2, <1>5, RetryStep
<1>12. client.phase = "prepare" => client.rec \notin DOMAIN recs /\ ~job.waited
  BY <1>1 DEF JobOK, Executing
<1>13. PageOK'
  BY <1>1, <1>2, <1>3, <1>12 DEF PageOK, IInv, ActInv, Live
<1>14. ReplyOK'
  <2>1. CASE job.waited
    <3>1. /\ client.waiting /\ client.rec = r /\ client.cursor = job.key /\ client.phase = "execute"
      BY <1>1, <1>12, <2>1 DEF JobOK, Executing
    <3> QED
      BY <1>2, <1>3, <1>4, <2>1, <3>1 DEF ReplyOK
  <2>2. CASE ~job.waited
    BY <1>1, <1>2, <2>2 DEF ReplyOK, IInv, ActInv
  <2> QED
    BY <2>1, <2>2
<1>15. CursorOK'
  <2>1. CASE client.rec = r
    BY <1>1, <1>2, <1>3, <1>4, <2>1 DEF CursorOK, IInv, ActInv
  <2>2. CASE client.rec # r
    BY <1>3, <2>2 DEF CursorOK, IInv, ActInv, Live
  <2> QED
    BY <2>1, <2>2
<1>16. TypeOK'
  <2>1. recs' \in Seq(Record \union {Nil})
    BY <1>1, <1>2, Replaced
  <2>2. reply' \in PreparedAnswer \union RunAnswer \union ErrorAnswer \union {Nil}
    BY <1>1, <1>2 DEF TypeOK
  <2> QED
    BY <1>1, <1>2, <2>1, <2>2 DEF TypeOK
<1>17. PageInv'
  <2>1. CASE client.rec = r
    <3>1. Consistent(client, recs[r], job.from)
      BY <1>1, <2>1 DEF IInv, ActInv, PageInv, Reported
    <3>2. client \in Selection /\ Rec.phase \in {"ready", "running"} /\ Goes(Rec, rec)
      BY <1>1 DEF IInv, ActInv, TypeOK, JobOK, Closed, Record, Executing, Tells
    <3>3. Consistent(client, rec, job.from)
      BY <1>1, <3>1, <3>2, ConsistentGrows
    <3>4. Consistent(client, new, Len(new.failures))
      <4>1. /\ SameRun(rec, new) /\ new.outcome = rec.outcome /\ new.failures = rec.failures
            /\ new.receipts = rec.receipts \union {receipt} /\ new.sequence = rec.sequence + 1
            /\ new.cursor = IF receipt.state = "running" THEN rec.cursor + 1 ELSE rec.cursor
            /\ new.phase = IF receipt.state = "stopped" THEN "error" ELSE receipt.state
            /\ receipt.at = rec.cursor /\ receipt.sequence = rec.sequence
            /\ receipt.attempted = Settled(rec) /\ receipt.total = Cardinality(rec.manifest)
            /\ receipt.failed = SubSeq(rec.failures, job.from + 1, Len(rec.failures))
            /\ receipt.state = "completed" => Pending(rec) = {}
        BY <1>2a, <1>7 DEF EndsWith, Goes
      <4> QED
        BY <3>2, <3>3, <4>1, ConsistentEnds
    <3>5. Reported(r)' = Len(new.failures)
      BY <1>2, <1>3 DEF Reported, Executing
    <3> QED
      BY <1>3, <2>1, <3>4, <3>5 DEF PageInv
  <2>2. CASE client.rec # r
    <3>1. ASSUME Live(client.rec)'
          PROVE  Live(client.rec) /\ recs'[client.rec] = recs[client.rec]
      BY <1>3, <2>2, <3>1 DEF Live
    <3>2. ASSUME Live(client.rec)'
          PROVE  Reported(client.rec)' = Reported(client.rec)
      BY <1>1, <1>2, <2>2, <3>1, <3>2 DEF Reported, Executing
    <3> QED
      BY <3>1, <3>2 DEF IInv, ActInv, PageInv
  <2> QED
    BY <2>1, <2>2
<1> QED
  BY <1>6, <1>9, <1>10, <1>11, <1>13, <1>14, <1>15, <1>16, <1>17 DEF ActInv, IInv

-------------------------------------------------------------------------------
(* Types.                                                                  *)

LEMMA PutType ==
  ASSUME IInv, job # Nil, NEW new \in Record, Put(new)
  PROVE  recs' \in Seq(Record \union {Nil})
BY JobType, Replaced DEF Put, IInv, ActInv, TypeOK

\* The page.
LEMMA DriveType ==
  ASSUME NEW c \in Selection, NEW recover \in BOOLEAN
  PROVE  Drive(c, recover) \in Selection
<1> DEFINE status == IF c.phase = "execute" THEN "running" ELSE "preparing"
           c1 == [c EXCEPT !.status = status]
           c2 == [c1 EXCEPT !.stop = FALSE]
           c3 == [c2 EXCEPT !.recover = recover]
           c4 == [c3 EXCEPT !.code = Nil]
           c5 == [c4 EXCEPT !.current = TRUE]
<1>1. Drive(c, recover) = c5
  BY DEF Drive
<1>2. c1 \in Selection
  BY DEF Selection
<1> HIDE DEF c1
<1>3. c2 \in Selection
  BY <1>2 DEF Selection
<1> HIDE DEF c2
<1>4. c3 \in Selection
  BY <1>3 DEF Selection
<1> HIDE DEF c3
<1>5. c4 \in Selection
  BY <1>4 DEF Selection
<1> HIDE DEF c4
<1>6. c5 \in Selection
  BY <1>5 DEF Selection
<1> QED
  BY <1>1, <1>6

\* What the page knows of its selection and of the batches.
Kept(c, d) ==
  /\ d.rec = c.rec /\ d.source = c.source /\ d.phase = c.phase
  /\ d.cursor = c.cursor /\ d.sequence = c.sequence /\ d.failures = c.failures
  /\ d.attempted = c.attempted /\ d.total = c.total

\* The page has counted the receipt, or did so earlier.
Counts(c, d, answer) ==
  /\ d.rec = c.rec /\ d.source = c.source /\ d.phase = c.phase
  /\ IF c.sequence # Nil /\ answer.sequence < c.sequence THEN Kept(c, d)
     ELSE /\ d.sequence = answer.sequence
          /\ d.failures = IF c.sequence = Nil \/ answer.sequence > c.sequence
                          THEN c.failures \o answer.failed ELSE c.failures
          /\ d.attempted = answer.attempted /\ d.total = answer.total /\ d.cursor = answer.next

LEMMA ReceiptWorks ==
  ASSUME NEW c \in Selection, NEW answer \in RunAnswer
  PROVE  LET d == Receipt(c, answer) IN
         /\ d \in Selection /\ Counts(c, d, answer)
         /\ d.waiting = c.waiting /\ d.current = c.current
<1> DEFINE fresh == c.sequence = Nil \/ (c.sequence # Nil /\ answer.sequence > c.sequence)
           old == c.sequence # Nil /\ answer.sequence < c.sequence
           failures == IF fresh THEN c.failures \o answer.failed ELSE c.failures
           c1 == [c EXCEPT !.sequence = answer.sequence]
           c2 == [c1 EXCEPT !.failures = failures]
           c3 == [c2 EXCEPT !.attempted = answer.attempted]
           c4 == [c3 EXCEPT !.total = answer.total]
           c5 == [c4 EXCEPT !.cursor = answer.next]
<1>1. Receipt(c, answer) = IF old THEN c ELSE c5
  BY DEF Receipt, Selection
<1>2. failures \in Seq(Failure)
  BY ConcatProperties DEF Selection, RunAnswer
<1>3. /\ answer.sequence \in Nat /\ answer.attempted \in Nat /\ answer.total \in Nat
      /\ answer.next \in Nat
  BY DEF RunAnswer
<1>4. failures = IF c.sequence = Nil \/ answer.sequence > c.sequence
                 THEN c.failures \o answer.failed ELSE c.failures
  OBVIOUS
<1> HIDE DEF failures, fresh
<1>5. /\ c2 \in Selection /\ c2.sequence = answer.sequence /\ c2.failures = failures
      /\ c2.rec = c.rec /\ c2.source = c.source /\ c2.phase = c.phase
      /\ c2.waiting = c.waiting /\ c2.current = c.current
  BY <1>2, <1>3 DEF Selection
<1> HIDE DEF c2
<1>6. /\ c4 \in Selection /\ c4.sequence = answer.sequence /\ c4.failures = failures
      /\ c4.rec = c.rec /\ c4.source = c.source /\ c4.phase = c.phase
      /\ c4.waiting = c.waiting /\ c4.current = c.current
      /\ c4.attempted = answer.attempted /\ c4.total = answer.total
  BY <1>3, <1>5 DEF Selection
<1> HIDE DEF c4
<1>7. /\ c5 \in Selection /\ c5.sequence = answer.sequence /\ c5.failures = failures
      /\ c5.rec = c.rec /\ c5.source = c.source /\ c5.phase = c.phase
      /\ c5.waiting = c.waiting /\ c5.current = c.current
      /\ c5.attempted = answer.attempted /\ c5.total = answer.total /\ c5.cursor = answer.next
  BY <1>3, <1>6 DEF Selection
<1> HIDE DEF c5
<1>8. CASE old
  <2>1. Counts(c, c, answer)
    BY <1>8 DEF Counts, Kept
  <2> QED
    BY <1>1, <1>8, <2>1
<1>9. CASE ~old
  <2>1. Counts(c, c5, answer)
    BY <1>4, <1>7, <1>9 DEF Counts
  <2> QED
    BY <1>1, <1>7, <1>9, <2>1
<1> QED
  BY <1>8, <1>9

\* The page shows another status.
Turned(c, d, status, current) ==
  /\ d \in Selection /\ Kept(c, d)
  /\ d.status = status /\ d.waiting = c.waiting /\ d.current = current

\* What drive() leaves of the page.
LEMMA Flags ==
  ASSUME NEW c \in Selection, NEW status \in {"preparing", "running", "completed", "stopped", "error"},
         NEW lost \in BOOLEAN, NEW stop \in BOOLEAN, NEW code \in Codes \union {Nil},
         NEW current \in BOOLEAN
  PROVE  /\ Turned(c, [c EXCEPT !.status = status, !.lost = lost, !.stop = stop], status, c.current)
         /\ Turned(c, [c EXCEPT !.status = status, !.lost = lost, !.stop = stop, !.code = code],
                   status, c.current)
         /\ Turned(c, [c EXCEPT !.status = status, !.lost = lost, !.current = current],
                   status, current)
<1> DEFINE c1 == [c EXCEPT !.status = status]
           c2 == [c1 EXCEPT !.lost = lost]
           c3 == [c2 EXCEPT !.stop = stop]
           c4 == [c3 EXCEPT !.code = code]
           c5 == [c2 EXCEPT !.current = current]
<1>1. /\ c2 \in Selection /\ Kept(c, c2) /\ c2.status = status
      /\ c2.waiting = c.waiting /\ c2.current = c.current
  BY DEF Selection, Kept
<1> HIDE DEF c2
<1>2. /\ c3 \in Selection /\ Kept(c, c3) /\ c3.status = status
      /\ c3.waiting = c.waiting /\ c3.current = c.current
  BY <1>1 DEF Selection, Kept
<1> HIDE DEF c3
<1>3. /\ c4 \in Selection /\ Kept(c, c4) /\ c4.status = status
      /\ c4.waiting = c.waiting /\ c4.current = c.current
  BY <1>2 DEF Selection, Kept
<1>4. /\ c5 \in Selection /\ Kept(c, c5) /\ c5.status = status
      /\ c5.waiting = c.waiting /\ c5.current = current
  BY <1>1 DEF Selection, Kept
<1>5. /\ c3 = [c EXCEPT !.status = status, !.lost = lost, !.stop = stop]
      /\ c4 = [c EXCEPT !.status = status, !.lost = lost, !.stop = stop, !.code = code]
      /\ c5 = [c EXCEPT !.status = status, !.lost = lost, !.current = current]
  BY DEF c2, c3
<1> HIDE DEF c4, c5
<1> QED
  BY <1>2, <1>3, <1>4, <1>5 DEF Turned

\* What the page makes of an answer that it still waits for, or no longer.
Hears(answer, d) ==
  /\ d \in Selection /\ d.waiting = FALSE
  /\ \/ /\ ~client.current \/ answer.kind \in {"lost", "error"}
        /\ Kept(client, d) /\ ~d.current
        /\ d.status \in {"stopped", "error"} \/ (~client.current /\ d.status = client.status)
     \/ /\ client.current /\ answer.kind = "prepared"
        /\ d.rec = client.rec /\ d.source = client.source /\ d.sequence = client.sequence
        /\ d.failures = client.failures /\ d.attempted = client.attempted
        /\ d.cursor = answer.cursor
        /\ d.phase = IF answer.phase = "ready" THEN "execute" ELSE "prepare"
        /\ d.status \in {"stopped", "running", "preparing"}
     \/ /\ client.current /\ answer.kind = "run" /\ Counts(client, d, answer)
        /\ d.current => answer.state = "running"
        /\ IF answer.state = "completed" THEN d.status = "completed"
           ELSE d.status \in {"stopped", "running", "error"}

LEMMA HeardWorks ==
  ASSUME TypeOK,
         NEW answer, answer \in PreparedAnswer \union RunAnswer \union ErrorAnswer \union {[kind |-> "lost"]}
  PROVE  Hears(answer, Heard(answer))
<1> DEFINE c0 == [client EXCEPT !.waiting = FALSE]
           c == [c0 EXCEPT !.current = FALSE]
<1>1. client \in Selection
  BY DEF TypeOK
<1>2. /\ c \in Selection /\ Kept(client, c) /\ c.waiting = FALSE /\ c.current = FALSE
      /\ c.status = client.status
  BY <1>1 DEF Selection, Kept
<1>4. c = [client EXCEPT !.waiting = FALSE, !.current = FALSE]
  OBVIOUS
<1> HIDE DEF c
<1>5. CASE ~client.current
  BY <1>2, <1>4, <1>5 DEF Heard, Hears
<1>6. CASE client.current /\ answer \in {[kind |-> "lost"]}
  <2> DEFINE d == [c EXCEPT !.status = "stopped", !.lost = TRUE, !.stop = TRUE]
  <2>1. Heard(answer) = d /\ answer.kind = "lost"
    BY <1>4, <1>6 DEF Heard
  <2>2. Turned(c, d, "stopped", c.current)
    BY <1>2, Flags
  <2> HIDE DEF d
  <2> QED
    BY <1>2, <2>1, <2>2 DEF Hears, Kept, Turned
<1>7. CASE client.current /\ answer \in ErrorAnswer
  <2> DEFINE d == [c EXCEPT !.status = "error", !.lost = FALSE, !.stop = TRUE, !.code = answer.code]
  <2>1. answer.kind = "error" /\ answer.code \in Codes \union {Nil}
    BY <1>7 DEF ErrorAnswer
  <2>2. Heard(answer) = d
    BY <1>4, <1>7, <2>1 DEF Heard
  <2>3. Turned(c, d, "error", c.current)
    BY <1>2, <2>1, Flags
  <2> HIDE DEF d
  <2> QED
    BY <1>2, <2>1, <2>2, <2>3 DEF Hears, Kept, Turned
<1>8. CASE client.current /\ answer \in PreparedAnswer
  <2>1. answer.kind = "prepared" /\ answer.cursor \in Nat /\ answer.total \in Nat \union {Nil}
    BY <1>8 DEF PreparedAnswer
  <2> DEFINE phase == IF answer.phase = "ready" THEN "execute" ELSE "prepare"
             status == IF c.stop \/ c.recover THEN "stopped"
                       ELSE IF answer.phase = "ready" THEN "running" ELSE "preparing"
             current == ~(c.stop \/ c.recover)
             c1 == [c EXCEPT !.cursor = answer.cursor]
             c2 == [c1 EXCEPT !.lost = FALSE]
             c3 == [c2 EXCEPT !.total = answer.total]
             c4 == [c3 EXCEPT !.phase = phase]
             c5 == [c4 EXCEPT !.status = status]
             c6 == [c5 EXCEPT !.current = current]
  <2>2. Heard(answer) = c6
    BY <1>4, <1>8, <2>1 DEF Heard
  <2>3. /\ phase = IF answer.phase = "ready" THEN "execute" ELSE "prepare"
        /\ status \in {"stopped", "running", "preparing"} /\ current \in BOOLEAN
    OBVIOUS
  <2> HIDE DEF phase, status, current
  <2>4. /\ c2 \in Selection /\ c2.cursor = answer.cursor /\ c2.waiting = FALSE
        /\ c2.rec = c.rec /\ c2.source = c.source /\ c2.sequence = c.sequence
        /\ c2.failures = c.failures /\ c2.attempted = c.attempted
    BY <1>2, <2>1 DEF Selection
  <2> HIDE DEF c2
  <2>5. /\ c4 \in Selection /\ c4.cursor = answer.cursor /\ c4.waiting = FALSE /\ c4.phase = phase
        /\ c4.rec = c.rec /\ c4.source = c.source /\ c4.sequence = c.sequence
        /\ c4.failures = c.failures /\ c4.attempted = c.attempted
    BY <2>1, <2>3, <2>4 DEF Selection
  <2> HIDE DEF c4
  <2>6. /\ c6 \in Selection /\ c6.cursor = answer.cursor /\ c6.waiting = FALSE /\ c6.phase = phase
        /\ c6.rec = c.rec /\ c6.source = c.source /\ c6.sequence = c.sequence
        /\ c6.failures = c.failures /\ c6.attempted = c.attempted /\ c6.status = status
    BY <2>3, <2>5 DEF Selection
  <2> HIDE DEF c6
  <2> QED
    BY <1>2, <1>8, <2>1, <2>2, <2>3, <2>6 DEF Hears, Kept
<1>9. CASE client.current /\ answer \in RunAnswer
  <2> DEFINE d == Receipt(c, answer)
             idle == c.stop \/ c.recover \/ answer.delta = 0
             status == IF idle THEN "stopped" ELSE "running"
             current == ~idle
  <2>1. /\ answer.kind = "run" /\ answer.code \in Codes \union {Nil}
        /\ answer.state \in {"running", "completed", "stopped"}
    BY <1>9 DEF RunAnswer
  <2>2. d \in Selection /\ Counts(c, d, answer) /\ d.waiting = FALSE /\ d.current = FALSE
    BY <1>2, <1>9, ReceiptWorks
  <2>3. status \in {"stopped", "running"} /\ current \in BOOLEAN
    OBVIOUS
  <2> DEFINE d1 == [d EXCEPT !.status = "error", !.lost = FALSE, !.stop = TRUE, !.code = answer.code]
             d2 == [d EXCEPT !.status = "completed", !.lost = FALSE, !.stop = FALSE]
             d3 == [d EXCEPT !.status = status, !.lost = FALSE, !.current = current]
  <2>4. Heard(answer) = IF answer.state = "stopped" THEN d1
                        ELSE IF answer.state = "completed" THEN d2 ELSE d3
    BY <1>4, <1>9, <2>1 DEF Heard
  <2> HIDE DEF d, status, current
  <2>5. Turned(d, d1, "error", d.current)
    BY <2>1, <2>2, Flags
  <2>6. Turned(d, d2, "completed", d.current)
    BY <2>2, Flags
  <2>7. Turned(d, d3, status, current)
    BY <2>2, <2>3, Flags
  <2> HIDE DEF d1, d2, d3
  <2>8. ASSUME NEW e, Kept(d, e)
        PROVE  Counts(client, e, answer)
    BY <1>2, <2>2, <2>8 DEF Counts, Kept
  <2>9. Counts(client, d1, answer) /\ Counts(client, d2, answer) /\ Counts(client, d3, answer)
    BY <2>5, <2>6, <2>7, <2>8 DEF Turned
  <2> QED
    BY <1>9, <2>1, <2>2, <2>3, <2>4, <2>5, <2>6, <2>7, <2>9 DEF Hears, Turned
<1> QED
  BY <1>5, <1>6, <1>7, <1>8, <1>9

\* The page hears of a run that is ready.
LEMMA ConsistentReady ==
  ASSUME NEW c \in Selection, NEW d \in Selection, NEW rec \in Record, NEW end,
         NEW answer \in rec.receipts, answer.kind = "prepared", answer.phase = "ready",
         c.phase = "prepare", c.sequence = Nil, c.failures = <<>>, c.attempted = 0,
         d.phase = "execute", d.cursor = answer.cursor, d.sequence = c.sequence,
         d.failures = c.failures, d.attempted = c.attempted, d.status # "completed",
         Consistent(c, rec, end)
  PROVE  Consistent(d, rec, end)
<1>1. PICK first \in Nat, cut \in [0..rec.sequence -> 0..Len(rec.failures)] :
        Chain(rec, end, first, cut)
  BY DEF Consistent
<1>2. d.cursor = first
  BY <1>1 DEF Chain
<1>3. 0 <= Settled(rec)
  BY CountTypes
<1>4. Follows(d, rec, first, cut)
  BY <1>2, <1>3 DEF Follows
<1> QED
  BY <1>1, <1>4 DEF Consistent

\* The page hears of the batch it asked for: the next one, which it counts.
LEMMA ConsistentCounts ==
  ASSUME NEW c \in Selection, NEW d \in Selection, NEW rec \in Record, NEW end,
         NEW answer \in rec.receipts, answer.kind = "run", answer.at = c.cursor,
         answer.next = IF answer.state = "running" THEN answer.at + 1 ELSE 0,
         c.phase = "execute", Counts(c, d, answer),
         d.status = "completed" => answer.state = "completed",
         Consistent(c, rec, end)
  PROVE  Consistent(d, rec, end)
<1>1. PICK first \in Nat, cut \in [0..rec.sequence -> 0..Len(rec.failures)] :
        Chain(rec, end, first, cut) /\ Follows(c, rec, first, cut)
  BY DEF Consistent
<1>2. /\ rec.failures \in Seq(Failure) /\ rec.sequence \in Nat /\ Len(rec.failures) \in Nat
      /\ answer \in RunAnswer /\ answer.sequence \in Nat /\ answer.at \in Nat /\ c.cursor \in Nat
  BY FailureTypes, LenProperties DEF Record, RunAnswer, PreparedAnswer, Selection
<1> DEFINE n == answer.sequence
<1>3. /\ n < rec.sequence /\ answer.at = first + n /\ first > 0 /\ cut[0] = 0
      /\ cut[n] <= cut[n + 1]
      /\ answer.failed = SubSeq(rec.failures, cut[n] + 1, cut[n + 1])
      /\ answer.attempted <= Settled(rec)
      /\ answer.state = "completed" => /\ rec.phase = "completed" /\ Pending(rec) = {}
                                       /\ answer.attempted = answer.total
                                       /\ cut[n + 1] = Len(rec.failures)
  BY <1>1 DEF Chain
<1>4. n \in 0..rec.sequence /\ n + 1 \in 0..rec.sequence
  BY <1>2, <1>3
<1>5. cut[n] \in 0..Len(rec.failures) /\ cut[n + 1] \in cut[n]..Len(rec.failures)
  BY <1>2, <1>3, <1>4
<1>6. SubSeq(rec.failures, 1, cut[n]) \o SubSeq(rec.failures, cut[n] + 1, cut[n + 1])
        = SubSeq(rec.failures, 1, cut[n + 1])
  <2>1. 1 \in 1..Len(rec.failures) + 1 /\ cut[n] \in 1 - 1..Len(rec.failures)
    BY <1>2, <1>5
  <2> QED
    BY <1>2, <1>5, <2>1, ConcatAdjacentSubSeq
<1>7. /\ d.sequence = n /\ d.attempted = answer.attempted /\ d.total = answer.total
      /\ d.cursor = answer.next /\ d.failures = SubSeq(rec.failures, 1, cut[n + 1])
  <2>1. CASE c.sequence = Nil
    <3>1. c.failures = <<>> /\ c.cursor = first
      BY <1>1, <2>1 DEF Follows
    <3>2. n = 0
      <4>1. first = first + n
        BY <1>3, <3>1
      <4> HIDE DEF n
      <4>2. n \in Nat
        BY <1>2 DEF n
      <4> QED
        BY <4>1, <4>2
    <3>3. SubSeq(rec.failures, 1, cut[n]) = <<>>
      BY <1>3, <3>2, SubSeqEmpty
    <3>4. /\ d.sequence = n /\ d.failures = c.failures \o answer.failed
          /\ d.attempted = answer.attempted /\ d.total = answer.total /\ d.cursor = answer.next
      BY <2>1 DEF Counts
    <3> QED
      BY <1>3, <1>6, <3>1, <3>3, <3>4
  <2>2. CASE c.sequence # Nil
    <3>1. /\ c.sequence \in Nat /\ c.failures = SubSeq(rec.failures, 1, cut[c.sequence + 1])
          /\ c.cursor \in {0, first + c.sequence + 1}
      BY <1>1, <2>2 DEF Follows, Selection
    <3>2. n = c.sequence + 1
      BY <1>2, <1>3, <3>1
    <3>3. ~(answer.sequence < c.sequence) /\ answer.sequence > c.sequence
      BY <1>2, <3>1, <3>2
    <3>4. /\ d.sequence = n /\ d.failures = c.failures \o answer.failed
          /\ d.attempted = answer.attempted /\ d.total = answer.total /\ d.cursor = answer.next
      BY <2>2, <3>3 DEF Counts
    <3> QED
      BY <1>3, <1>6, <3>1, <3>2, <3>4
  <2> QED
    BY <2>1, <2>2
<1>8. Follows(d, rec, first, cut)
  <2>1. d.sequence # Nil
    BY <1>2, <1>7, ScopedAssumption
  <2>2. d.cursor \in {0, first + d.sequence + 1}
    BY <1>2, <1>3, <1>7
  <2>3. d.sequence < rec.sequence /\ d.attempted <= Settled(rec)
        /\ d.failures = SubSeq(rec.failures, 1, cut[d.sequence + 1])
    BY <1>3, <1>7
  <2>4. ASSUME d.status = "completed"
        PROVE  /\ rec.phase = "completed" /\ Pending(rec) = {}
               /\ d.attempted = d.total /\ d.failures = rec.failures
    <3>1. SubSeq(rec.failures, 1, Len(rec.failures)) = rec.failures
      BY <1>2, SubSeqFull
    <3> QED
      BY <1>3, <1>7, <2>4, <3>1
  <2> QED
    BY <2>1, <2>2, <2>3, <2>4 DEF Follows
<1> QED
  BY <1>1, <1>8 DEF Consistent
-------------------------------------------------------------------------------
(* The steps of execute().                                                 *)

\* Messages without an outcome get one that is true of them.
LEMMA SettleTells ==
  ASSUME NEW rec \in Record, NEW S, S \subseteq Messages,
         NEW status \in Outcomes, NEW again \in BOOLEAN,
         status = "processed" => \A m \in S : m \notin placed,
         status \in {"failed", "skipped"} =>
           \A m \in S : rec.outcome[m] = "none" => Untouched(m)
  PROVE  Tells(rec, Settle(rec, S, status, again))
<1> DEFINE new == Settle(rec, S, status, again)
<1>1. new \in Record /\ Goes(rec, new) /\ Settles(rec, S, status, new)
  BY SettleWorks
<1> HIDE DEF new
<1>2. ASSUME NEW m \in Messages, rec.outcome[m] = "none"
      PROVE  /\ new.outcome[m] = "processed" => m \notin placed
             /\ new.outcome[m] \in {"failed", "skipped"} => Untouched(m)
  BY <1>1, <1>2 DEF Settles
<1>3. ASSUME NEW i \in DOMAIN new.failures, i \notin 1..Len(rec.failures), new.failures[i].retryable
      PROVE  new.outcome[new.failures[i].ref] = "failed" /\ rec.outcome[new.failures[i].ref] = "none"
  BY <1>1, <1>3 DEF Settles
<1>4. Tells(rec, new)
  BY <1>1, <1>2, <1>3 DEF Tells
<1> QED
  BY <1>4 DEF new

LEMMA TellsTwice ==
  ASSUME NEW old \in Record, NEW mid \in Record, NEW new \in Record, Tells(old, mid), Tells(mid, new)
  PROVE  Tells(old, new)
<1>1. Len(old.failures) \in Nat /\ Len(mid.failures) \in Nat /\ Len(new.failures) \in Nat
  BY FailureTypes, LenProperties
<1>2. Goes(old, new)
  <2>1. SameRun(old, new)
    BY DEF Tells, Goes, SameRun
  <2>2. \A m \in Messages : old.outcome[m] # "none" => new.outcome[m] = old.outcome[m]
    BY DEF Tells, Goes
  <2>3. Len(old.failures) <= Len(mid.failures) /\ Len(mid.failures) <= Len(new.failures)
    BY DEF Tells, Goes
  <2>4. ASSUME NEW i \in 1..Len(old.failures)
        PROVE  new.failures[i] = old.failures[i]
    <3>1. i \in 1..Len(mid.failures)
      BY <1>1, <2>3
    <3> QED
      BY <3>1 DEF Tells, Goes
  <2> QED
    BY <1>1, <2>1, <2>2, <2>3, <2>4 DEF Goes
<1>3. ASSUME NEW m \in Messages, old.outcome[m] = "none"
      PROVE  /\ new.outcome[m] = "processed" => m \notin placed
             /\ new.outcome[m] \in {"failed", "skipped"} => Untouched(m)
  <2>1. CASE mid.outcome[m] = "none"
    BY <2>1 DEF Tells
  <2>2. CASE mid.outcome[m] # "none"
    BY <1>3, <2>2 DEF Tells, Goes
  <2> QED
    BY <2>1, <2>2
<1>4. ASSUME NEW i \in DOMAIN new.failures, i \notin 1..Len(old.failures), new.failures[i].retryable
      PROVE  new.outcome[new.failures[i].ref] = "failed" /\ old.outcome[new.failures[i].ref] = "none"
  <2>1. CASE i \in 1..Len(mid.failures)
    <3>1. i \in DOMAIN mid.failures /\ new.failures[i] = mid.failures[i]
          /\ mid.failures[i].ref \in Messages
      BY <2>1, FailureTypes DEF Tells, Goes
    <3>2. mid.outcome[mid.failures[i].ref] = "failed" /\ old.outcome[mid.failures[i].ref] = "none"
      BY <1>4, <3>1 DEF Tells
    <3> QED
      BY <3>1, <3>2 DEF Tells, Goes
  <2>2. CASE i \notin 1..Len(mid.failures)
    <3>1. new.outcome[new.failures[i].ref] = "failed" /\ mid.outcome[new.failures[i].ref] = "none"
      BY <1>4, <2>2 DEF Tells
    <3>2. new.failures[i].ref \in Messages
      BY FailureTypes
    <3> QED
      BY <3>1, <3>2 DEF Tells, Goes
  <2> QED
    BY <2>1, <2>2
<1> QED
  BY <1>2, <1>3, <1>4 DEF Tells

\* A change of fields that do not concern a message says nothing.
LEMMA TellsNothing ==
  ASSUME NEW old \in Record, NEW new \in Record, SameRun(old, new),
         new.outcome = old.outcome, new.failures = old.failures
  PROVE  Tells(old, new)
BY FailureTypes, LenProperties DEF Tells, Goes, Outcomes

LEMMA Flagged ==
  ASSUME NEW rec \in Record
  PROVE  /\ LET new == [rec EXCEPT !.phase = "running"] IN
              /\ new \in Record /\ SameRun(rec, new)
              /\ new.outcome = rec.outcome /\ new.failures = rec.failures
              /\ new.phase = "running" /\ new.cursor = rec.cursor /\ new.receipts = rec.receipts
                 /\ new.sequence = rec.sequence
         /\ LET new == [rec EXCEPT !.createAttempted = TRUE] IN
              /\ new \in Record /\ SameRun(rec, new)
              /\ new.outcome = rec.outcome /\ new.failures = rec.failures
              /\ new.phase = rec.phase /\ new.cursor = rec.cursor /\ new.receipts = rec.receipts
                 /\ new.sequence = rec.sequence
         /\ LET new == [rec EXCEPT !.createAttempted = TRUE, !.targetReady = TRUE] IN
              /\ new \in Record /\ SameRun(rec, new)
              /\ new.outcome = rec.outcome /\ new.failures = rec.failures
              /\ new.phase = rec.phase /\ new.cursor = rec.cursor /\ new.receipts = rec.receipts
                 /\ new.sequence = rec.sequence
<1>1. LET new == [rec EXCEPT !.phase = "running"] IN
        /\ new \in Record /\ SameRun(rec, new)
        /\ new.outcome = rec.outcome /\ new.failures = rec.failures
        /\ new.phase = "running" /\ new.cursor = rec.cursor /\ new.receipts = rec.receipts
           /\ new.sequence = rec.sequence
  BY DEF Record, SameRun
<1> DEFINE rec1 == [rec EXCEPT !.createAttempted = TRUE]
           rec2 == [rec1 EXCEPT !.targetReady = TRUE]
<1>2. /\ rec1 \in Record /\ SameRun(rec, rec1)
      /\ rec1.outcome = rec.outcome /\ rec1.failures = rec.failures
      /\ rec1.phase = rec.phase /\ rec1.cursor = rec.cursor /\ rec1.receipts = rec.receipts
         /\ rec1.sequence = rec.sequence
  BY DEF Record, SameRun
<1> HIDE DEF rec1
<1>3. /\ rec2 \in Record /\ SameRun(rec, rec2)
      /\ rec2.outcome = rec.outcome /\ rec2.failures = rec.failures
      /\ rec2.phase = rec.phase /\ rec2.cursor = rec.cursor /\ rec2.receipts = rec.receipts
         /\ rec2.sequence = rec.sequence
  BY <1>2 DEF Record, SameRun
<1>4. rec1 = [rec EXCEPT !.createAttempted = TRUE]
  BY DEF rec1
<1>5. rec2 = [rec EXCEPT !.createAttempted = TRUE, !.targetReady = TRUE]
  BY DEF rec1
<1> HIDE DEF rec2
<1> QED
  BY <1>1, <1>2, <1>3, <1>4, <1>5

\* The request that executes, and the messages it has not sent yet.
LEMMA Working ==
  ASSUME IInv, job # Nil, job.pc # "prepare"
  PROVE  /\ Executing /\ job \in Job /\ Rec \in Record /\ Rec.phase \in {"ready", "running"}
         /\ job.rec \in DOMAIN recs /\ recs = [recs EXCEPT ![job.rec] = Rec]
         /\ Pending(Rec) \subseteq Messages /\ Tells(Rec, Rec)
         /\ Sent \/ (job.uids = {} /\ \A m \in Pending(Rec) : Untouched(m))
         /\ job.pc \in {"send", "answer", "expunge"} => job.left \subseteq Messages
<1>1. /\ job \in Job /\ job.rec \in DOMAIN recs /\ Rec \in Record /\ Live(job.rec) /\ ~Closed(job.rec)
      /\ Rec = recs[job.rec] /\ recs \in Seq(Record \union {Nil})
  BY JobType DEF IInv, ActInv, Rec, TypeOK
<1>2. Executing
  BY DEF Executing
<1>3. Rec.phase \in {"ready", "running"}
  BY <1>1 DEF IInv, ActInv, JobOK, Closed, Record
<1>4. recs = [recs EXCEPT ![job.rec] = Rec]
  BY <1>1
<1>5. Pending(Rec) \subseteq Messages
  BY <1>1, CountTypes
<1>6. Tells(Rec, Rec)
  BY <1>1, TellsNothing DEF SameRun
<1>7. ASSUME ~Sent
      PROVE  job.uids = {} /\ \A m \in Pending(Rec) : Untouched(m)
  <2>1. TruthOK(job.rec) /\ job.uids = {}
    BY <1>1, <1>7 DEF IInv, ActInv, RecordsOK, BatchOK
  <2> QED
    BY <1>1, <2>1 DEF TruthOK, UnderWay, Pending
<1> QED
  BY <1>1, <1>2, <1>3, <1>4, <1>5, <1>6, <1>7 DEF Job

\* A batch is taken up; the selection only notes that the folder of the archive was made.
LEMMA Begins ==
  ASSUME IInv, job # Nil, job.pc \notin {"prepare", "answer", "expunge"},
         NEW new \in Record, recs' = [recs EXCEPT ![job.rec] = new],
         SameRun(Rec, new), new.outcome = Rec.outcome, new.failures = Rec.failures,
         new.phase = Rec.phase, new.cursor = Rec.cursor, new.receipts = Rec.receipts
         /\ new.sequence = Rec.sequence,
         NEW j \in Job, job' = j, j.rec = job.rec, j.key = job.key, j.waited = job.waited
         /\ j.from = job.from,
         j.pc \in {"source", "create", "open"}, j.batch \subseteq Pending(Rec), j.uids = {},
         UNCHANGED <<action, placed, valid, inflight, acted, alive, reply, client, asked, events>>,
         archive' \in BOOLEAN
  PROVE  IInv'
<1>1. /\ Executing /\ Rec \in Record /\ Rec.phase \in {"ready", "running"}
      /\ job.rec \in DOMAIN recs /\ job.uids = {} /\ recs \in Seq(Record \union {Nil})
  BY Working DEF Sent, IInv, TypeOK
<1>2. Tells(Rec, new)
  BY <1>1, TellsNothing
<1>3. BatchOK'
  <2>1. recs'[job.rec] = new
    BY <1>1
  <2>2. Rec' = new
    BY <2>1 DEF Rec
  <2>3. Pending(new) = Pending(Rec)
    BY DEF Pending, SameRun
  <2> QED
    BY <2>2, <2>3 DEF BatchOK, Sent
<1>4. Accounted(new)
  BY <1>1 DEF Accounted
<1> QED
  BY <1>1, <1>2, <1>3, <1>4, Continues

LEMMA PlanStep == ASSUME IInv, Plan, UNCHANGED <<action, alive, client, asked, events>>
                  PROVE  IInv'
<1>1. job # Nil /\ job.pc = "plan"
  BY DEF Plan, Step
<1>2. /\ Executing /\ Rec \in Record /\ Rec.phase \in {"ready", "running"} /\ job \in Job /\ Rec \in Record
      /\ Tells(Rec, Rec) /\ job.uids = {} /\ Pending(Rec) \subseteq Messages
  BY <1>1, Working DEF Sent
<1>3. CASE Finish(Rec, Nil) /\ UNCHANGED mailVars
  <2>1. UNCHANGED <<placed, valid, archive, inflight, acted>> /\ archive' \in BOOLEAN
    BY <1>3 DEF mailVars, IInv, TypeOK
  <2> QED
    BY <1>2, <1>3, <2>1, Ends
<1>4. SameRun(Rec, Rec) /\ archive \in BOOLEAN /\ recs = [recs EXCEPT ![job.rec] = Rec]
  BY <1>1, Working DEF SameRun, IInv, TypeOK
<1>5. ASSUME NEW here \in SUBSET Pending(Rec), NEW n \in 1..Cardinality(here),
             job' = [job EXCEPT !.batch = Least(n, here), !.mutated = FALSE,
                                !.pc = IF Rec.needsCreate /\ ~Rec.targetReady THEN "source" ELSE "open"],
             UNCHANGED <<recs, reply, mailVars>>
      PROVE  IInv'
  <2>6. UNCHANGED <<placed, valid, archive, inflight, acted>>
    BY <1>5 DEF mailVars
  <2> DEFINE batch == Least(n, here)
             pc == IF Rec.needsCreate /\ ~Rec.targetReady THEN "source" ELSE "open"
  <2>1. batch \subseteq Pending(Rec) /\ batch \subseteq Messages /\ pc \in {"source", "open"}
    BY <1>2 DEF Least
  <2> HIDE DEF batch, pc
  <2>2. [job EXCEPT !.batch = batch, !.mutated = FALSE, !.pc = pc] \in Job
    BY <1>2, <2>1 DEF Job
  <2>3. job' = [job EXCEPT !.batch = batch, !.mutated = FALSE, !.pc = pc]
    BY <1>5 DEF batch, pc
  <2>4. PICK j \in Job : j = [job EXCEPT !.batch = batch, !.mutated = FALSE, !.pc = pc]
    BY <2>2
  <2>5. job' = j /\ j.rec = job.rec /\ j.key = job.key /\ j.waited = job.waited /\ j.from = job.from
        /\ j.pc = pc /\ j.batch = batch /\ j.uids = {}
    BY <1>2, <2>3, <2>4 DEF Job
  <2> QED
    BY <1>1, <1>2, <1>5, <1>4, <2>1, <2>5, <2>6, Begins
<1> QED
  <2>1. {m \in Pending(Rec) : Home[m] = FirstFolder(Pending(Rec))} \in SUBSET Pending(Rec)
    OBVIOUS
  <2> QED
    BY <1>3, <1>5, <2>1 DEF Plan

LEMMA CheckSourceStep == ASSUME IInv, CheckSource, UNCHANGED <<action, alive, client, asked, events>>
                         PROVE  IInv'
<1>1. job # Nil /\ job.pc = "source" /\ job' = [job EXCEPT !.pc = "create"]
      /\ UNCHANGED <<recs, reply, mailVars>>
  BY DEF CheckSource, Step, Goto
<1>2. job \in Job /\ job.uids = {} /\ job.batch \subseteq Pending(Rec) /\ Rec \in Record
  BY <1>1, Working DEF Sent, IInv, ActInv, BatchOK
<1>3. PICK j \in Job : j = [job EXCEPT !.pc = "create"]
  BY <1>2 DEF Job
<1>4. j.rec = job.rec /\ j.key = job.key /\ j.waited = job.waited /\ j.from = job.from
      /\ j.pc = "create" /\ j.batch = job.batch /\ j.uids = {}
  BY <1>2, <1>3 DEF Job
<1>5. /\ SameRun(Rec, Rec) /\ archive' \in BOOLEAN /\ recs' = [recs EXCEPT ![job.rec] = Rec]
      /\ UNCHANGED <<placed, valid, inflight, acted>>
  BY <1>1, Working DEF SameRun, IInv, TypeOK, mailVars
<1> QED
  BY <1>1, <1>2, <1>3, <1>4, <1>5, Begins

LEMMA CreateTargetStep == ASSUME IInv, CreateTarget, UNCHANGED <<action, alive, client, asked, events>>
                          PROVE  IInv'
<1>1. job # Nil /\ job.pc = "create" /\ archive' = TRUE
      /\ UNCHANGED <<placed, valid, inflight, acted>>
  BY DEF CreateTarget, Step
<1>2. /\ Executing /\ Rec \in Record /\ Rec.phase \in {"ready", "running"} /\ job \in Job
      /\ Tells(Rec, Rec) /\ job.uids = {} /\ job.batch \subseteq Pending(Rec)
  BY <1>1, Working DEF Sent, IInv, ActInv, BatchOK
<1>3. CASE Finish([Rec EXCEPT !.createAttempted = TRUE], "MAIL_UNAVAILABLE")
  <2>1. PICK rec \in Record : rec = [Rec EXCEPT !.createAttempted = TRUE]
    BY <1>2, Flagged
  <2>2. /\ SameRun(Rec, rec) /\ rec.outcome = Rec.outcome /\ rec.failures = Rec.failures
        /\ rec.phase = Rec.phase /\ rec.cursor = Rec.cursor /\ rec.receipts = Rec.receipts
           /\ rec.sequence = Rec.sequence
    BY <1>2, <2>1, Flagged
  <2>3. Tells(Rec, rec)
    BY <1>2, <2>2, TellsNothing
  <2>4. "MAIL_UNAVAILABLE" \in Codes \union {Nil}
    BY DEF Codes
  <2> QED
    BY <1>1, <1>2, <1>3, <2>1, <2>2, <2>3, <2>4, Ends
<1>4. CASE /\ Put([Rec EXCEPT !.createAttempted = TRUE, !.targetReady = TRUE])
           /\ Goto("open") /\ UNCHANGED reply
  <2>1. PICK rec \in Record : rec = [Rec EXCEPT !.createAttempted = TRUE, !.targetReady = TRUE]
    BY <1>2, Flagged
  <2>2. /\ SameRun(Rec, rec) /\ rec.outcome = Rec.outcome /\ rec.failures = Rec.failures
        /\ rec.phase = Rec.phase /\ rec.cursor = Rec.cursor /\ rec.receipts = Rec.receipts
           /\ rec.sequence = Rec.sequence
    BY <1>2, <2>1, Flagged
  <2>3. Tells(Rec, rec)
    BY <1>2, <2>2, TellsNothing
  <2>4. PICK j \in Job : j = [job EXCEPT !.pc = "open"]
    BY <1>2 DEF Job
  <2>5. j.rec = job.rec /\ j.key = job.key /\ j.waited = job.waited /\ j.from = job.from
        /\ j.pc = "open" /\ j.batch = job.batch /\ j.uids = {}
    BY <1>2, <2>4 DEF Job
  <2>6. job' = j /\ reply' = reply /\ recs' = [recs EXCEPT ![job.rec] = rec]
    BY <1>4, <2>1, <2>4 DEF Put, Goto
  <2> QED
    BY <1>1, <1>2, <2>2, <2>3, <2>5, <2>6, Begins
<1> QED
  BY <1>3, <1>4 DEF CreateTarget

LEMMA CreateFailsStep == ASSUME IInv, CreateFails, UNCHANGED <<action, alive, client, asked, events>>
                         PROVE  IInv'
<1>1. job # Nil /\ job.pc = "create" /\ UNCHANGED mailVars
      /\ Finish([Rec EXCEPT !.createAttempted = TRUE], "MAIL_REJECTED")
  BY DEF CreateFails, Step
<1>2. /\ Executing /\ Rec \in Record /\ Rec.phase \in {"ready", "running"} /\ job.uids = {}
  BY <1>1, Working DEF Sent
<1>3. PICK rec \in Record : rec = [Rec EXCEPT !.createAttempted = TRUE]
  BY <1>2, Flagged
<1>4. /\ SameRun(Rec, rec) /\ rec.outcome = Rec.outcome /\ rec.failures = Rec.failures
      /\ rec.phase = Rec.phase /\ rec.cursor = Rec.cursor /\ rec.receipts = Rec.receipts
         /\ rec.sequence = Rec.sequence
  BY <1>2, <1>3, Flagged
<1>5. Tells(Rec, rec)
  BY <1>2, <1>4, TellsNothing
<1>6. "MAIL_REJECTED" \in Codes \union {Nil} /\ archive' \in BOOLEAN
      /\ UNCHANGED <<placed, valid, inflight, acted>>
  BY <1>1 DEF Codes, mailVars, IInv, TypeOK
<1> QED
  BY <1>1, <1>2, <1>3, <1>4, <1>5, <1>6, Ends

LEMMA OpenStep == ASSUME IInv, Open, UNCHANGED <<action, alive, client, asked, events>>
                  PROVE  IInv'
<1> DEFINE gone == job.batch \ placed
           here == job.batch \intersect placed
           pc == IF here = {} THEN "plan" ELSE "send"
           mid == Settle(Rec, gone, "skipped", FALSE)
<1>1. /\ job # Nil /\ job.pc = "open" /\ UNCHANGED mailVars /\ reply' = reply
      /\ recs' = [recs EXCEPT ![job.rec] = [mid EXCEPT !.phase = "running"]]
      /\ job' = [job EXCEPT !.left = here, !.pc = pc]
  BY DEF Open, Step, Put
<1>2. /\ Executing /\ Rec \in Record /\ job \in Job
      /\ job.rec \in DOMAIN recs /\ recs \in Seq(Record \union {Nil})
      /\ job.uids = {} /\ \A m \in Pending(Rec) : Untouched(m)
      /\ job.batch \subseteq Pending(Rec) /\ Pending(Rec) \subseteq Messages
  BY <1>1, Working DEF Sent, IInv, ActInv, BatchOK, TypeOK
<1>3. /\ mid \in Record /\ Tells(Rec, mid) /\ SameRun(Rec, mid) /\ SameBatch(Rec, mid)
      /\ \A m \in Messages : m \in here => mid.outcome[m] = Rec.outcome[m]
  <2>1. gone \subseteq Messages /\ "skipped" \in Outcomes
    BY <1>2 DEF Outcomes
  <2>4. \A m \in here : m \notin gone
    OBVIOUS
  <2>5. \A m \in gone : Untouched(m)
    BY <1>2
  <2> HIDE DEF gone
  <2>2. mid \in Record /\ Goes(Rec, mid) /\ SameBatch(Rec, mid)
        /\ Settles(Rec, gone, "skipped", mid)
    BY <1>2, <2>1, SettleWorks
  <2>3. Tells(Rec, mid)
    BY <1>2, <2>1, <2>5, SettleTells
  <2> HIDE DEF here, mid
  <2> QED
    BY <2>2, <2>3, <2>4 DEF Goes, Settles
<1> HIDE DEF mid
<1>4. PICK new \in Record : new = [mid EXCEPT !.phase = "running"]
  BY <1>3, Flagged
<1>5. /\ SameRun(mid, new) /\ new.outcome = mid.outcome /\ new.failures = mid.failures
      /\ new.phase = "running" /\ new.cursor = Rec.cursor /\ new.receipts = Rec.receipts
         /\ new.sequence = Rec.sequence
  BY <1>3, <1>4, Flagged DEF SameBatch
<1>6. Tells(Rec, new)
  BY <1>2, <1>3, <1>5, TellsNothing, TellsTwice
<1>7. here \subseteq Messages /\ here \subseteq Pending(new) /\ pc \in {"plan", "send"}
  <2>1. here \subseteq Pending(Rec)
    BY <1>2
  <2> HIDE DEF here
  <2>2. ASSUME NEW m \in here
        PROVE  m \in Pending(new)
    <3>1. m \in Messages /\ m \in Pending(Rec)
      BY <1>2, <2>1
    <3>2. new.outcome[m] = Rec.outcome[m] /\ new.manifest = Rec.manifest
      BY <1>3, <1>5, <3>1 DEF SameRun
    <3> QED
      BY <3>1, <3>2 DEF Pending
  <2> QED
    BY <1>2, <2>1, <2>2
<1> HIDE DEF here, pc
<1>8. PICK j \in Job : j = [job EXCEPT !.left = here, !.pc = pc]
  BY <1>2, <1>7 DEF Job
<1>9. j.rec = job.rec /\ j.key = job.key /\ j.waited = job.waited /\ j.from = job.from
      /\ j.pc = pc /\ j.left = here /\ j.uids = {}
  BY <1>2, <1>8 DEF Job
<1>10. job' = j /\ recs' = [recs EXCEPT ![job.rec] = new]
  BY <1>1, <1>4, <1>8
<1>11. BatchOK'
  <2>1. recs'[job.rec] = new
    BY <1>2, <1>10
  <2>2. Rec' = new
    BY <1>9, <1>10, <2>1 DEF Rec
  <2> QED
    BY <1>7, <1>9, <1>10, <2>2 DEF BatchOK, Sent
<1>12. Accounted(new)
  BY <1>2 DEF Accounted
<1>13. /\ UNCHANGED <<placed, valid, inflight, acted>> /\ archive' \in BOOLEAN
       /\ j.pc \notin {"prepare", "answer", "expunge"}
  BY <1>1, <1>7, <1>9 DEF mailVars, IInv, TypeOK
<1> QED
  BY <1>1, <1>2, <1>5, <1>6, <1>9, <1>10, <1>11, <1>12, <1>13, Continues

LEMMA StaleStep == ASSUME IInv, Stale, UNCHANGED <<action, alive, client, asked, events>>
                   PROVE  IInv'
<1>1. job # Nil /\ job.pc \in {"open", "source"} /\ UNCHANGED mailVars
      /\ Finish([Rec EXCEPT !.phase = "running"], "STALE_SCOPE")
  BY DEF Stale, Step
<1>2. /\ Executing /\ Rec \in Record /\ job.uids = {}
  BY <1>1, Working DEF Sent
<1>3. PICK rec \in Record : rec = [Rec EXCEPT !.phase = "running"]
  BY <1>2, Flagged
<1>4. /\ SameRun(Rec, rec) /\ rec.outcome = Rec.outcome /\ rec.failures = Rec.failures
      /\ rec.phase = "running" /\ rec.cursor = Rec.cursor /\ rec.receipts = Rec.receipts
         /\ rec.sequence = Rec.sequence
  BY <1>2, <1>3, Flagged
<1>5. Tells(Rec, rec)
  BY <1>2, <1>4, TellsNothing
<1>6. "STALE_SCOPE" \in Codes \union {Nil} /\ archive' \in BOOLEAN
      /\ UNCHANGED <<placed, valid, inflight, acted>>
  BY <1>1 DEF Codes, mailVars, IInv, TypeOK
<1> QED
  BY <1>1, <1>2, <1>3, <1>4, <1>5, <1>6, Ends

LEMMA OpenFailsStep == ASSUME IInv, OpenFails, UNCHANGED <<action, alive, client, asked, events>>
                       PROVE  IInv'
<1>0. PICK retryable \in BOOLEAN, gone \in {{}, job.batch \ placed} :
        Put([Settle(Settle(Rec, gone, "skipped", FALSE), job.batch, "failed", retryable)
               EXCEPT !.phase = "running"])
  BY DEF OpenFails
<1> DEFINE mid == Settle(Rec, gone, "skipped", FALSE)
           late == Settle(mid, job.batch, "failed", retryable)
<1>1. /\ job # Nil /\ job.pc = "open" /\ UNCHANGED mailVars /\ reply' = reply
      /\ recs' = [recs EXCEPT ![job.rec] = [late EXCEPT !.phase = "running"]]
      /\ job' = [job EXCEPT !.pc = "plan"]
  BY <1>0 DEF OpenFails, Step, Put, Goto
<1>2. /\ Executing /\ Rec \in Record /\ job \in Job
      /\ job.rec \in DOMAIN recs /\ recs \in Seq(Record \union {Nil})
      /\ job.uids = {} /\ \A m \in job.batch : Untouched(m)
      /\ job.batch \subseteq Messages
  BY <1>1, Working DEF Sent, IInv, ActInv, BatchOK, TypeOK
<1>3. gone \subseteq job.batch /\ gone \subseteq Messages
  BY <1>2
<1>4. mid \in Record /\ Tells(Rec, mid) /\ SameBatch(Rec, mid)
  <2>1. "skipped" \in Outcomes /\ \A m \in gone : Untouched(m)
    BY <1>2, <1>3 DEF Outcomes
  <2> QED
    BY <1>2, <1>3, <2>1, SettleWorks, SettleTells
<1> HIDE DEF mid
<1>5. late \in Record /\ Tells(mid, late) /\ SameBatch(mid, late)
  <2>1. "failed" \in Outcomes
    BY DEF Outcomes
  <2> QED
    BY <1>2, <1>4, <2>1, SettleWorks, SettleTells
<1> HIDE DEF late
<1>6. PICK new \in Record : new = [late EXCEPT !.phase = "running"]
  BY <1>5, Flagged
<1>7. /\ SameRun(late, new) /\ new.outcome = late.outcome /\ new.failures = late.failures
      /\ new.phase = "running" /\ new.cursor = Rec.cursor /\ new.receipts = Rec.receipts
         /\ new.sequence = Rec.sequence
  BY <1>4, <1>5, <1>6, Flagged DEF SameBatch
<1>8. Tells(Rec, new)
  <2>1. Tells(Rec, late) /\ Tells(late, new)
    BY <1>2, <1>4, <1>5, <1>7, TellsNothing, TellsTwice
  <2> QED
    BY <1>2, <1>5, <2>1, TellsTwice
<1>9. PICK j \in Job : j = [job EXCEPT !.pc = "plan"]
  BY <1>2 DEF Job
<1>10. j.rec = job.rec /\ j.key = job.key /\ j.waited = job.waited /\ j.from = job.from /\ j.pc = "plan"
       /\ j.uids = {}
  BY <1>2, <1>9 DEF Job
<1>11. job' = j /\ recs' = [recs EXCEPT ![job.rec] = new]
  BY <1>1, <1>6, <1>9
<1>12. BatchOK'
  BY <1>10, <1>11 DEF BatchOK, Sent
<1>13. Accounted(new)
  BY <1>2 DEF Accounted
<1>14. UNCHANGED <<placed, valid, inflight, acted>> /\ archive' \in BOOLEAN
  BY <1>1 DEF mailVars, IInv, TypeOK
<1> QED
  BY <1>1, <1>2, <1>7, <1>8, <1>10, <1>11, <1>12, <1>13, <1>14, Continues

LEMMA ExhaustedStep == ASSUME IInv, Exhausted \/ SourceFails, UNCHANGED <<action, alive, client, asked, events>>
                       PROVE  IInv'
<1>1. /\ job # Nil /\ job.pc \in {"source", "open", "send", "create"} /\ UNCHANGED mailVars
      /\ \E code \in Codes \union {Nil} : Finish(Rec, code)
  <2>1. "MAIL_UNAVAILABLE" \in Codes \union {Nil} /\ Nil \in Codes \union {Nil}
    BY DEF Codes
  <2> QED
    BY <2>1 DEF Exhausted, SourceFails, Step
<1>2. /\ Executing /\ Rec \in Record /\ Rec.phase \in {"ready", "running"} /\ job.uids = {}
      /\ Tells(Rec, Rec)
  BY <1>1, Working DEF Sent
<1>3. /\ UNCHANGED <<placed, valid, inflight, acted>> /\ archive' \in BOOLEAN
  BY <1>1 DEF mailVars, IInv, TypeOK
<1> QED
  BY <1>1, <1>2, <1>3, Ends

\* The last messages of a batch are given up while a command is under way.
LEMMA UnconfirmedStep == ASSUME IInv, Unconfirmed, UNCHANGED <<action, alive, client, asked, events>>
                         PROVE  IInv'
<1>1. /\ job # Nil /\ job.pc \in {"answer", "expunge"} /\ UNCHANGED mailVars
      /\ Finish(Settle(Rec, job.left, "unknown", FALSE), Nil)
  BY DEF Unconfirmed, Step
<1>2. /\ Executing /\ Rec \in Record /\ Rec.phase \in {"ready", "running"}
      /\ job.left \subseteq Messages /\ job.uids \subseteq job.left /\ Sent
  BY <1>1, Working DEF Sent, IInv, ActInv, BatchOK
<1> DEFINE rec == Settle(Rec, job.left, "unknown", FALSE)
<1>3. "unknown" \in Outcomes
  BY DEF Outcomes
<1>4. /\ rec \in Record /\ SameBatch(Rec, rec)
      /\ Settles(Rec, job.left, "unknown", rec)
  BY <1>2, <1>3, SettleWorks
<1>5. Tells(Rec, rec)
  BY <1>2, <1>3, SettleTells
<1> HIDE DEF rec
<1>6. \A m \in job.uids : rec.outcome[m] # "none"
  BY <1>2, <1>4 DEF Settles, Outcomes
<1>7. PICK new \in Record : new = rec
  BY <1>4
<1>8. /\ UNCHANGED <<placed, valid, inflight, acted>> /\ archive' \in BOOLEAN
      /\ Nil \in Codes \union {Nil} /\ Finish(new, Nil)
  BY <1>1, <1>7 DEF mailVars, IInv, TypeOK, rec
<1>9. new.phase \in {"ready", "running"} /\ new.cursor = Rec.cursor /\ new.receipts = Rec.receipts
      /\ new.sequence = Rec.sequence
      /\ Tells(Rec, new) /\ \A m \in job.uids : new.outcome[m] # "none"
  BY <1>2, <1>4, <1>5, <1>6, <1>7 DEF SameBatch
<1> QED
  BY <1>2, <1>8, <1>9, Ends

\* The server told what became of the messages, or did a part of its work.
LEMMA AnswerStep == ASSUME IInv, Stored \/ Expunge, UNCHANGED <<action, alive, client, asked, events>>
                    PROVE  IInv'
<1>1. /\ job # Nil /\ job.pc \in {"answer", "expunge"} /\ UNCHANGED <<recs, reply, mailVars>>
      /\ \E pc \in {"answer", "expunge"} :
           job' = [job EXCEPT !.mutated = TRUE, !.pc = pc] \/ job' = [job EXCEPT !.pc = pc]
  BY DEF Stored, Expunge, Step, Goto
<1>2. /\ Executing /\ job \in Job /\ Rec \in Record /\ Rec.phase \in {"ready", "running"} /\ Sent
      /\ recs = [recs EXCEPT ![job.rec] = Rec] /\ Tells(Rec, Rec)
      /\ job.left \subseteq Pending(Rec) /\ job.uids \subseteq job.left
  BY <1>1, Working DEF Sent, IInv, ActInv, BatchOK
<1>3. PICK pc \in {"answer", "expunge"} :
        job' = [job EXCEPT !.mutated = TRUE, !.pc = pc] \/ job' = [job EXCEPT !.pc = pc]
  BY <1>1
<1>4. /\ job' \in Job /\ job'.rec = job.rec /\ job'.key = job.key /\ job'.waited = job.waited
      /\ job'.from = job.from /\ job'.pc = pc /\ job'.left = job.left /\ job'.uids = job.uids
  <2>1. CASE job' = [job EXCEPT !.mutated = TRUE, !.pc = pc]
    BY <1>2, <2>1 DEF Job
  <2>2. CASE job' = [job EXCEPT !.pc = pc]
    BY <1>2, <2>2 DEF Job
  <2> QED
    BY <1>3, <2>1, <2>2
<1>5. PICK j \in Job : j = job'
  BY <1>4
<1>6. /\ j.rec = job.rec /\ j.key = job.key /\ j.waited = job.waited /\ j.from = job.from
      /\ j.pc = pc /\ j.left = job.left /\ j.uids = job.uids
  BY <1>4, <1>5
<1>7. BatchOK'
  <2>1. Rec' = Rec
    BY <1>1, <1>4 DEF Rec
  <2> QED
    BY <1>2, <1>4, <2>1 DEF BatchOK, Sent
<1>8. Accounted(Rec) /\ j.pc # "prepare" /\ job' = j
  BY <1>4, <1>5, <1>6, NoNilRecord DEF Accounted
<1>9. /\ UNCHANGED <<placed, valid, inflight, acted, reply>> /\ archive' \in BOOLEAN
      /\ recs' = [recs EXCEPT ![job.rec] = Rec]
  BY <1>1, <1>2 DEF mailVars, IInv, TypeOK
<1> QED
  BY <1>2, <1>6, <1>7, <1>8, <1>9, Continues

LEMMA ConfirmedStep == ASSUME IInv, Confirmed, UNCHANGED <<action, alive, client, asked, events>>
                       PROVE  IInv'
<1> DEFINE pc == IF job.left \subseteq job.uids THEN "plan" ELSE "send"
           left == job.left \ job.uids
           rec == Settle(Rec, job.uids, "processed", FALSE)
<1>1. /\ job # Nil /\ job.pc = "answer" /\ UNCHANGED mailVars /\ reply' = reply
      /\ job.uids \intersect inflight = {}
      /\ recs' = [recs EXCEPT ![job.rec] = rec]
      /\ job' = [job EXCEPT !.left = left, !.mutated = FALSE, !.uids = {}, !.pc = pc]
  BY DEF Confirmed, Step, Put
<1>2. /\ Executing /\ Rec \in Record /\ job \in Job /\ Rec.phase \in {"ready", "running"} /\ Sent
      /\ job.rec \in DOMAIN recs /\ recs \in Seq(Record \union {Nil})
      /\ job.left \subseteq Pending(Rec) /\ job.uids \subseteq job.left
      /\ Pending(Rec) \subseteq Messages
  BY <1>1, Working DEF Sent, IInv, ActInv, BatchOK, TypeOK
<1>3. "processed" \in Outcomes /\ job.uids \subseteq Messages /\ \A m \in job.uids : m \notin placed
  BY <1>1, <1>2 DEF Outcomes, IInv, ActInv, ActedOK
<1>4. /\ rec \in Record /\ SameBatch(Rec, rec) /\ Goes(Rec, rec)
      /\ Settles(Rec, job.uids, "processed", rec)
  BY <1>2, <1>3, SettleWorks
<1>5. Tells(Rec, rec)
  BY <1>2, <1>3, SettleTells
<1> HIDE DEF rec
<1>6. \A m \in job.uids : rec.outcome[m] # "none"
  BY <1>2, <1>4 DEF Pending, Settles
<1>7. left \subseteq Pending(rec) /\ left \subseteq Messages /\ pc \in {"plan", "send"}
  <2>1. ASSUME NEW m \in left
        PROVE  m \in Pending(rec)
    <3>1. m \in Messages /\ m \in Pending(Rec) /\ m \notin job.uids
      BY <1>2
    <3>2. rec.outcome[m] = Rec.outcome[m] /\ rec.manifest = Rec.manifest
      BY <1>4, <3>1 DEF Goes, SameRun, Settles
    <3> QED
      BY <3>1, <3>2 DEF Pending
  <2> QED
    BY <1>2, <2>1
<1> HIDE DEF left, pc
<1> DEFINE j1 == [job EXCEPT !.left = left]
           j2 == [j1 EXCEPT !.mutated = FALSE]
           j3 == [j2 EXCEPT !.uids = {}]
           j4 == [j3 EXCEPT !.pc = pc]
<1>8. /\ j4 \in Job /\ j4.rec = job.rec /\ j4.key = job.key /\ j4.waited = job.waited
      /\ j4.from = job.from /\ j4.pc = pc /\ j4.left = left /\ j4.uids = {}
  <2>1. /\ j2 \in Job /\ j2.rec = job.rec /\ j2.key = job.key /\ j2.waited = job.waited
        /\ j2.from = job.from /\ j2.left = left
    BY <1>2, <1>7 DEF Job
  <2> HIDE DEF j2
  <2> QED
    BY <1>7, <2>1 DEF Job
<1>9. job' = j4
  BY <1>1
<1> HIDE DEF j4
<1>10. PICK j \in Job : j = j4
  BY <1>8
<1>11. BatchOK'
  <2>1. recs'[job.rec] = rec
    BY <1>1, <1>2
  <2>2. Rec' = rec
    BY <1>8, <1>9, <2>1 DEF Rec
  <2> QED
    BY <1>7, <1>8, <1>9, <2>2 DEF BatchOK, Sent
<1>12. PICK new \in Record : new = rec
  BY <1>4
<1>13. /\ recs' = [recs EXCEPT ![job.rec] = new] /\ Tells(Rec, new) /\ Accounted(new)
       /\ new.phase \in {"ready", "running"} /\ new.cursor = Rec.cursor /\ new.receipts = Rec.receipts
          /\ new.sequence = Rec.sequence
  BY <1>1, <1>2, <1>4, <1>5, <1>6, <1>12 DEF SameBatch, Accounted
<1>14. /\ UNCHANGED <<placed, valid, inflight, acted>> /\ archive' \in BOOLEAN
       /\ j.pc \notin {"prepare", "answer", "expunge"}
       /\ j.rec = job.rec /\ j.key = job.key /\ j.waited = job.waited /\ j.from = job.from /\ job' = j
  BY <1>1, <1>7, <1>8, <1>9, <1>10 DEF mailVars, IInv, TypeOK
<1> QED
  BY <1>1, <1>2, <1>11, <1>13, <1>14, Continues

\* A command leaves: its messages were not touched before.
LEMMA SendStep == ASSUME IInv, Send, UNCHANGED <<action, alive, client, asked, events>>
                  PROVE  IInv'
<1>0. PICK r \in DOMAIN recs : r = job.rec
  BY Working DEF Send, Step
<1>1. /\ job # Nil /\ job.pc = "send" /\ UNCHANGED <<recs, reply, placed, valid, archive>>
      /\ \E n \in 1..Cardinality(job.left) :
           LET uids == Least(n, job.left) IN
           /\ job' = [job EXCEPT !.uids = uids, !.pc = "answer"]
           /\ acted' = [m \in Messages |-> IF m \in uids THEN Append(acted[m], job.rec) ELSE acted[m]]
           /\ inflight' = inflight \union uids
  BY DEF Send, Step
<1>2. \E uids \in SUBSET job.left :
        /\ job' = [job EXCEPT !.uids = uids, !.pc = "answer"]
        /\ acted' = [m \in Messages |-> IF m \in uids THEN Append(acted[m], job.rec) ELSE acted[m]]
        /\ inflight' = inflight \union uids
  <2>1. \A n \in 1..Cardinality(job.left) : Least(n, job.left) \in SUBSET job.left
    BY DEF Least
  <2> QED
    BY <1>1, <2>1
<1>3. PICK uids \in SUBSET job.left :
        /\ job' = [job EXCEPT !.uids = uids, !.pc = "answer"]
        /\ acted' = [m \in Messages |-> IF m \in uids THEN Append(acted[m], job.rec) ELSE acted[m]]
        /\ inflight' = inflight \union uids
  BY <1>2
<1>4. /\ Executing /\ Rec \in Record /\ job \in Job /\ ~Sent /\ job.uids = {}
      /\ job.left \subseteq Pending(Rec) /\ uids \subseteq Messages
      /\ \A m \in Pending(Rec) : Untouched(m)
      /\ Rec = recs[r] /\ Live(r) /\ ~Closed(r) /\ job.rec = r /\ TypeOK
  BY <1>0, <1>1, Working, JobType DEF Sent, IInv, ActInv, BatchOK, Rec
<1>5. /\ job' \in Job /\ job' # Nil /\ job'.rec = r /\ job'.key = job.key /\ job'.waited = job.waited
      /\ job'.from = job.from /\ job'.pc = "answer" /\ job'.uids = uids /\ job'.left = job.left
  <2>1. /\ [job EXCEPT !.uids = uids, !.pc = "answer"] \in Job
        /\ LET j == [job EXCEPT !.uids = uids, !.pc = "answer"] IN
           /\ j.rec = r /\ j.key = job.key /\ j.waited = job.waited /\ j.from = job.from
           /\ j.pc = "answer" /\ j.uids = uids /\ j.left = job.left
    BY <1>4 DEF Job
  <2> QED
    BY <1>3, <2>1, NoNilRecord
<1>6. /\ \A m \in uids : acted[m] = <<>> /\ Len(acted'[m]) = 1 /\ acted'[m][1] = r
                         /\ DOMAIN acted'[m] = {1} /\ ~Untouched(m)'
      /\ \A m \in Messages \ uids : acted'[m] = acted[m]
      /\ acted' \in [Messages -> Seq(Nat)]
  <2>1. acted \in [Messages -> Seq(Nat)] /\ r \in Nat
    BY <1>4, JobType DEF TypeOK, Job, IInv, ActInv
  <2>2. ASSUME NEW m \in uids
        PROVE  /\ acted[m] = <<>> /\ acted'[m] = Append(<<>>, r)
               /\ Append(<<>>, r) \in Seq(Nat)
               /\ Len(Append(<<>>, r)) = 1 /\ Append(<<>>, r)[1] = r
               /\ DOMAIN Append(<<>>, r) = {1} /\ Append(<<>>, r) # <<>>
    <3>1. m \in Messages /\ acted[m] = <<>>
      BY <1>4 DEF Untouched
    <3>2. acted'[m] = Append(<<>>, r)
      BY <1>3, <1>4, <3>1
    <3>3. /\ Append(<<>>, r) \in Seq(Nat) /\ Len(Append(<<>>, r)) = 1 /\ Append(<<>>, r)[1] = r
          /\ Append(<<>>, r) # <<>> /\ DOMAIN Append(<<>>, r) = 1..1
      BY <2>1
    <3> QED
      BY <3>1, <3>2, <3>3
  <2>3. \A m \in Messages \ uids : acted'[m] = acted[m]
    BY <1>3
  <2>4. acted' \in [Messages -> Seq(Nat)]
    BY <1>3, <1>4, <2>1, <2>2
  <2> QED
    BY <2>2, <2>3, <2>4 DEF Untouched
<1>7. TypeOK'
  BY <1>1, <1>3, <1>4, <1>5, <1>6 DEF TypeOK
<1>8. JobOK'
  BY <1>1, <1>4, <1>5 DEF JobOK, IInv, ActInv, Rec, Live, Closed
<1>9. BatchOK'
  <2>1. Rec' = Rec
    BY <1>1, <1>4, <1>5 DEF Rec
  <2> QED
    BY <1>3, <1>4, <1>5, <2>1 DEF BatchOK, Sent
<1>10. RecordsOK'
  <2>1. ASSUME NEW k \in DOMAIN recs, Live(k)
        PROVE  TruthOK(k)'
    <3>1. TruthOK(k) /\ (~Closed(k) => k = r)
      BY <1>4, <2>1 DEF IInv, ActInv, RecordsOK
    <3>2. \A m \in Messages : ~UnderWay(k, m)
      BY <1>4 DEF UnderWay, Busy
    <3>3. \A m \in uids : UnderWay(r, m)'
      BY <1>5 DEF UnderWay, Busy
    <3>4. ASSUME NEW m \in Messages, NEW i \in DOMAIN acted'[m], acted'[m][i] = k
          PROVE  recs[k].outcome[m] \in {"processed", "unknown"} \/ UnderWay(k, m)'
      <4>1. CASE m \in uids
        BY <1>6, <3>3, <3>4, <4>1
      <4>2. CASE m \notin uids
        BY <1>6, <3>1, <3>2, <3>4, <4>2 DEF TruthOK
      <4> QED
        BY <4>1, <4>2
    <3>5. ASSUME ~Closed(k), NEW m \in recs[k].manifest, recs[k].outcome[m] = "none"
          PROVE  Untouched(m)' \/ UnderWay(k, m)'
      <4>0. k = r /\ m \in Messages
        BY <1>4, <3>1, <3>5, FailureTypes
      <4>1. CASE m \in uids
        BY <3>3, <4>0, <4>1
      <4>2. CASE m \notin uids
        BY <1>6, <3>1, <3>2, <3>5, <4>0, <4>2 DEF TruthOK, Untouched
      <4> QED
        BY <4>1, <4>2
    <3>6. ASSUME ~Closed(k), recs[k].stage = "search"
          PROVE  recs[k].manifest = {} /\ \A m \in Messages : Untouched(m)'
      <4>1. k = r /\ recs[k].manifest = {} /\ \A m \in Messages : Untouched(m)
        BY <3>1, <3>6 DEF TruthOK
      <4>2. uids = {}
        BY <1>4, <4>1 DEF Pending
      <4> QED
        BY <1>6, <4>1, <4>2 DEF Untouched
    <3> QED
      BY <1>1, <3>1, <3>4, <3>5, <3>6 DEF TruthOK, Closed
  <2> QED
    BY <1>1, <2>1 DEF RecordsOK, IInv, ActInv, Live, Closed
<1>11. ActedOK'
  <2>1. ASSUME NEW m \in Messages
        PROVE  /\ Len(acted'[m]) <= 1
               /\ \A i \in DOMAIN acted'[m] : acted'[m][i] \in DOMAIN recs
               /\ ~Untouched(m)' /\ m \notin inflight' => m \notin placed
               /\ m \in uids => ~Untouched(m)'
    BY <1>3, <1>4, <1>6, <2>1 DEF ActedOK, IInv, ActInv, Untouched
  <2> QED
    BY <1>1, <1>5, <2>1 DEF ActedOK
<1>12. SourceOK'
  <2>1. Live(client.rec) => client.rec = r
    BY <1>4 DEF Live, IInv, ActInv, JobOK, Executing
  <2>2. client.phase = "prepare" => client.source = r
    BY <1>4 DEF IInv, ActInv, JobOK, Executing
  <2>3. r # 0
    BY <1>4, LenProperties DEF TypeOK
  <2>4. ASSUME NEW m \in Retryable(r)
        PROVE  Untouched(m)'
    <3>1. m \in Messages /\ Rec.outcome[m] = "failed" /\ Untouched(m)
      <4>1. Rec.outcome[m] = "failed" /\ m \in Messages
        BY <1>4, <2>4, FailureTypes DEF Retryable, IInv, ActInv, RecordsOK, TruthOK
      <4>2. r \in Sources
        BY <1>4 DEF IInv, ActInv, JobOK, Executing, Sources
      <4> QED
        BY <1>4, <2>4, <4>1, <4>2 DEF IInv, ActInv, SourceOK
    <3>2. m \notin uids
      BY <1>4, <3>1 DEF Pending
    <3> QED
      BY <1>6, <3>1, <3>2 DEF Untouched
  <2>5. ASSUME NEW k \in Sources, Live(k)
        PROVE  k = r
    BY <2>1, <2>2, <2>5 DEF Sources
  <2>6. Retryable(r)' = Retryable(r) /\ Sources' = Sources /\ \A k \in Sources : Live(k)' = Live(k)
    BY <1>1 DEF Retryable, Sources, Live
  <2> QED
    BY <2>2, <2>3, <2>4, <2>5, <2>6 DEF SourceOK
<1>13. PageOK' /\ CursorOK'
  BY <1>1, <1>4 DEF PageOK, CursorOK, IInv, ActInv, Live
<1>14. ReplyOK'
  BY <1>1 DEF ReplyOK, IInv, ActInv
<1>15. PageInv'
  <2>1. Executing' /\ client \in Selection
    BY <1>4, <1>5 DEF Executing, TypeOK
  <2> QED
    BY <1>1, <1>4, <1>5, <2>1, PageSame DEF IInv, ActInv, Live
<1> QED
  BY <1>7, <1>8, <1>9, <1>10, <1>11, <1>12, <1>13, <1>14, <1>15 DEF IInv, ActInv

LEMMA ExecuteJobStep == ASSUME IInv, ExecuteJob
                        PROVE  IInv'
BY PlanStep, CheckSourceStep, CreateTargetStep, CreateFailsStep, OpenStep, StaleStep, OpenFailsStep,
   ExhaustedStep, SendStep, AnswerStep, ConfirmedStep, UnconfirmedStep DEF ExecuteJob

-------------------------------------------------------------------------------
(* The mail server, and what else happens.                                 *)

\* Messages go away.
LEMMA MailStep == ASSUME IInv, Apply \/ Elsewhere
                  PROVE  IInv'
<1>1. /\ UNCHANGED <<action, archive, acted, alive, recs, job, reply, client, asked>>
      /\ placed' \subseteq placed /\ inflight' \subseteq inflight /\ valid' \subseteq valid
      /\ events' \in Nat /\ \A m \in inflight \ inflight' : m \notin placed'
  <2>1. events \in Nat
    BY DEF IInv, TypeOK
  <2>2. CASE Apply
    BY <2>1, <2>2 DEF Apply
  <2>3. CASE Elsewhere
    BY <2>1, <2>3 DEF Elsewhere
  <2> QED
    BY <2>2, <2>3
<1>2. TypeOK'
  BY <1>1 DEF IInv, TypeOK
<1>3. JobOK' /\ BatchOK' /\ SourceOK' /\ PageOK' /\ ReplyOK' /\ CursorOK'
  <2>1. JobOK' /\ BatchOK'
    BY <1>1 DEF IInv, ActInv, JobOK, BatchOK, Rec, Live, Closed, Sent
  <2>2. SourceOK'
    BY <1>1 DEF IInv, ActInv, SourceOK, Sources, Live, Retryable, Untouched
  <2>3. PageOK' /\ ReplyOK' /\ CursorOK'
    BY <1>1 DEF IInv, ActInv, PageOK, ReplyOK, CursorOK, Live
  <2> QED
    BY <2>1, <2>2, <2>3
<1>4. RecordsOK'
  <2>1. ASSUME NEW r \in DOMAIN recs, Live(r)
        PROVE  TruthOK(r)'
    <3>1. TruthOK(r)
      BY <2>1 DEF IInv, ActInv, RecordsOK
    <3> QED
      BY <1>1, <3>1 DEF TruthOK, UnderWay, Busy, Closed, Untouched
  <2> QED
    BY <1>1, <2>1 DEF IInv, ActInv, RecordsOK, Live, Closed
<1>5. ActedOK'
  BY <1>1 DEF IInv, ActInv, ActedOK, Untouched, Sent
<1>6. PageInv'
  <2>1. client \in Selection /\ Executing' = Executing
    BY <1>1 DEF Executing, IInv, TypeOK
  <2> QED
    BY <1>1, <2>1, PageSame DEF IInv, ActInv, Live
<1> QED
  BY <1>2, <1>3, <1>4, <1>5, <1>6 DEF IInv, ActInv

-------------------------------------------------------------------------------
(* The steps of prepare().                                                 *)

\* The request that prepares, for the page or for nobody any more.
LEMMA Preparing ==
  ASSUME IInv, job # Nil, job.pc = "prepare"
  PROVE  /\ job \in Job /\ Rec \in Record /\ job.rec \in DOMAIN recs /\ ~Sent /\ ~Executing
         /\ job.uids = {} /\ Rec.phase = "preparing" /\ Blank(Rec) /\ job.key = Rec.cursor
         /\ client.rec = job.rec /\ client.phase = "prepare"
         /\ job.waited => client.waiting /\ reply = Nil /\ client.cursor = job.key
         /\ \A x \in Rec.receipts : x.kind = "prepared" /\ x.phase # "ready" /\ x.at < Rec.cursor
         /\ \A m \in Messages : ~UnderWay(job.rec, m)
<1>1. /\ job \in Job /\ job.rec \in DOMAIN recs /\ Rec \in Record /\ Live(job.rec)
      /\ Rec = recs[job.rec] /\ ~Sent /\ ~Executing
  BY JobType DEF IInv, ActInv, Rec, Sent, Executing
<1>2. Rec.phase = "preparing" /\ job.uids = {}
  BY <1>1 DEF IInv, ActInv, JobOK, BatchOK
<1>3. ReceiptsOK(Rec)
  BY <1>1 DEF IInv, ActInv, RecordsOK
<1> QED
  BY <1>1, <1>2, <1>3 DEF ReceiptsOK, Blank, IInv, ActInv, JobOK, UnderWay

\* A stage of the preparation is done with some of its work.
LEMMA Freezes ==
  ASSUME IInv, job # Nil, job.pc = "prepare",
         NEW new \in Record, recs' = [recs EXCEPT ![job.rec] = new],
         new.outcome = Rec.outcome, new.failures = Rec.failures, new.cursor = Rec.cursor,
         new.sequence = Rec.sequence, new.receipts = Rec.receipts, new.phase = Rec.phase,
         new.stage # "search", Rec.stage # "search" => new.manifest = Rec.manifest,
         UNCHANGED <<action, placed, valid, archive, inflight, acted, alive, job, reply, client,
                     asked, events>>
  PROVE  IInv'
<1>0. PICK r \in DOMAIN recs : r = job.rec
  BY Preparing
<1>1. /\ job.rec = r /\ Rec = recs[r] /\ Rec \in Record /\ Live(r) /\ ~Closed(r) /\ TypeOK
      /\ recs \in Seq(Record \union {Nil}) /\ Blank(Rec)
      /\ Rec.phase = "preparing" /\ client.phase = "prepare" /\ client.rec = r
  BY <1>0, Preparing, JobType DEF IInv, ActInv, TypeOK, Rec
<1>2. /\ DOMAIN recs' = DOMAIN recs /\ recs'[r] = new /\ new # Nil
      /\ recs' \in Seq(Record \union {Nil})
      /\ \A k \in DOMAIN recs : k # r => recs'[k] = recs[k]
  BY <1>1, Replaced, NoNilRecord
<1>3. Rec' = new /\ Live(r)' /\ ~Closed(r)'
  BY <1>1, <1>2 DEF Rec, Live, Closed
<1>4. TypeOK'
  BY <1>1, <1>2 DEF TypeOK
<1>5. JobOK' /\ BatchOK'
  BY <1>1, <1>3 DEF JobOK, BatchOK, IInv, ActInv, Sent
<1>6. TruthOK(r)'
  <2>1. TruthOK(r) /\ ~Closed(r)
    BY <1>1 DEF IInv, ActInv, RecordsOK
  <2>2. \A m \in Messages : UnderWay(r, m)' = UnderWay(r, m)
    BY DEF UnderWay, Busy
  <2>3. \A m \in new.manifest : new.outcome[m] = "none" => Untouched(m) \/ UnderWay(r, m)
    <3>1. CASE Rec.stage = "search"
      <4>1. new.manifest \subseteq Messages
        BY FailureTypes
      <4> QED
        BY <1>1, <2>1, <3>1, <4>1 DEF TruthOK
    <3>2. CASE Rec.stage # "search"
      BY <1>1, <2>1, <3>2 DEF TruthOK
    <3> QED
      BY <3>1, <3>2
  <2>4. /\ new.outcome = recs[r].outcome /\ new.failures = recs[r].failures /\ new.stage # "search"
        /\ recs'[r] = new
    BY <1>1, <1>2
  <2>5. /\ \A m \in Messages : /\ new.outcome[m] = "processed" => m \notin placed
                               /\ (\E i \in DOMAIN acted[m] : acted[m][i] = r) =>
                                    new.outcome[m] \in {"processed", "unknown"} \/ UnderWay(r, m)
        /\ \A i \in DOMAIN new.failures :
             new.failures[i].retryable => new.outcome[new.failures[i].ref] = "failed"
    BY <2>1, <2>4 DEF TruthOK
  <2>6. acted' = acted /\ placed' = placed /\ \A m \in Messages : Untouched(m)' = Untouched(m)
    BY DEF Untouched
  <2>7. \A m \in new.manifest : new.outcome[m] = "none" => Untouched(m)' \/ UnderWay(r, m)'
    <3>1. new.manifest \subseteq Messages
      BY FailureTypes
    <3> QED
      BY <2>2, <2>3, <2>6, <3>1
  <2>8. ASSUME NEW m \in Messages
        PROVE  /\ new.outcome[m] = "processed" => m \notin placed
               /\ (\E i \in DOMAIN acted[m] : acted[m][i] = r) =>
                    new.outcome[m] \in {"processed", "unknown"} \/ UnderWay(r, m)'
    BY <2>2, <2>5
  <2> QED
    BY <2>4, <2>5, <2>6, <2>7, <2>8 DEF TruthOK
<1>7. Blank(new) /\ ReceiptsOK(new)
  BY <1>1 DEF ReceiptsOK, IInv, ActInv, RecordsOK, Blank
<1>8. RecordsOK'
  <2>1. ASSUME NEW k \in DOMAIN recs, k # r, Live(k)'
        PROVE  TruthOK(k)' /\ ReceiptsOK(recs'[k]) /\ Closed(k)'
    <3>1. recs'[k] = recs[k] /\ Live(k)
      BY <1>2, <2>1 DEF Live
    <3>2. TruthOK(k) /\ ReceiptsOK(recs[k]) /\ Closed(k)
      BY <1>1, <2>1, <3>1 DEF IInv, ActInv, RecordsOK
    <3> QED
      BY <3>1, <3>2 DEF TruthOK, Closed, UnderWay, Busy
  <2> QED
    BY <1>2, <1>6, <1>7, <2>1 DEF RecordsOK
<1>9. ActedOK'
  BY <1>2 DEF ActedOK, IInv, ActInv, Untouched, Sent
<1>10. SourceOK'
  <2>1. ASSUME NEW k \in Sources, Live(k)'
        PROVE  \A m \in Retryable(k)' : Untouched(m)
    <3>1. Live(k) /\ recs'[k].failures = recs[k].failures
      BY <1>1, <1>2, <2>1 DEF Live
    <3>2. Retryable(k)' = Retryable(k)
      BY <3>1 DEF Retryable
    <3> QED
      BY <3>1, <3>2 DEF IInv, ActInv, SourceOK
  <2> QED
    BY <2>1 DEF SourceOK, Sources, Untouched, IInv, ActInv
<1>11. PageOK'
  BY <1>1, <1>2, <1>7 DEF PageOK, IInv, ActInv
<1>12. ReplyOK' /\ CursorOK'
  BY <1>1 DEF ReplyOK, CursorOK, IInv, ActInv
<1>13. PageInv'
  <2>1. \A x \in new.receipts : x.kind = "prepared" /\ x.phase # "ready"
    BY Preparing
  <2>2. Consistent(client, new, Len(new.failures))
    BY <1>1, <2>1, ConsistentPrepares DEF TypeOK, Blank
  <2>3. Reported(r)' = Len(new.failures)
    BY <1>1, <1>2 DEF Reported, Executing
  <2> QED
    BY <1>1, <1>2, <2>2, <2>3 DEF PageInv
<1> QED
  BY <1>4, <1>5, <1>8, <1>9, <1>10, <1>11, <1>12, <1>13 DEF IInv, ActInv

\* The request ends.
LEMMA Froze ==
  ASSUME IInv, job # Nil, job.pc = "prepare",
         NEW new \in Record, recs' = [recs EXCEPT ![job.rec] = new],
         new.outcome = Rec.outcome, new.failures = Rec.failures, new.sequence = Rec.sequence,
         new.phase # "error" => new.stage # "search" /\ new.manifest = Rec.manifest,
         NEW answer \in PreparedAnswer \union ErrorAnswer,
         job' = Nil, reply' = IF job.waited THEN answer ELSE reply,
         \/ /\ answer.kind = "prepared" /\ answer.phase = new.phase /\ answer.cursor = new.cursor
            /\ answer.at = job.key
            /\ new.phase \in {"preparing", "ready"} /\ new.cursor = Rec.cursor + 1
            /\ new.receipts = Rec.receipts \union {answer}
         \/ /\ answer.kind = "error" /\ new.phase = "error" /\ new.code # Nil
            /\ new.cursor = Rec.cursor /\ new.receipts = Rec.receipts /\ new.sequence = Rec.sequence,
         UNCHANGED <<action, placed, valid, archive, inflight, acted, alive, client, asked, events>>
  PROVE  IInv'
<1>0. PICK r \in DOMAIN recs : r = job.rec
  BY Preparing
<1>1. /\ job.rec = r /\ Rec = recs[r] /\ Rec \in Record /\ Live(r) /\ ~Closed(r) /\ TypeOK
      /\ recs \in Seq(Record \union {Nil}) /\ Blank(Rec)
      /\ Rec.phase = "preparing" /\ client.phase = "prepare" /\ client.rec = r
      /\ job.key = Rec.cursor /\ Rec.cursor \in Nat
      /\ \A x \in Rec.receipts : x.kind = "prepared" /\ x.phase # "ready" /\ x.at < Rec.cursor
  BY <1>0, Preparing, JobType, FailureTypes DEF IInv, ActInv, TypeOK, Rec
<1>2. /\ DOMAIN recs' = DOMAIN recs /\ recs'[r] = new /\ new # Nil
      /\ recs' \in Seq(Record \union {Nil})
      /\ \A k \in DOMAIN recs : k # r => recs'[k] = recs[k]
  BY <1>1, Replaced, NoNilRecord
<1>3. Live(r)'
  BY <1>2 DEF Live
<1>4. TypeOK'
  BY <1>1, <1>2 DEF TypeOK
<1>5. JobOK' /\ BatchOK'
  BY DEF JobOK, BatchOK
<1>6. TruthOK(r)'
  <2>1. TruthOK(r) /\ ~Closed(r) /\ \A m \in Messages : ~UnderWay(r, m)
    BY <1>1, Preparing DEF IInv, ActInv, RecordsOK
  <2>2. new.failures = recs[r].failures /\ new.outcome = recs[r].outcome
    BY <1>1
  <2>3. new.phase # "error" => new.stage # "search" /\ new.manifest = recs[r].manifest
    BY <1>1
  <2>4. \A m \in recs[r].manifest : m \in Messages
    BY <1>1, FailureTypes
  <2>5. Closed(r)' = (new.phase \in {"completed", "error", "stopped"})
    BY <1>2 DEF Closed
  <2>6. /\ \A m \in Messages : /\ new.outcome[m] = "processed" => m \notin placed
                               /\ (\E i \in DOMAIN acted[m] : acted[m][i] = r) =>
                                    new.outcome[m] \in {"processed", "unknown"}
        /\ \A i \in DOMAIN new.failures :
             new.failures[i].retryable => new.outcome[new.failures[i].ref] = "failed"
    BY <2>1, <2>2 DEF TruthOK
  <2>7. new.phase # "error" => \A m \in new.manifest : new.outcome[m] = "none" => Untouched(m)
    BY <2>1, <2>2, <2>3, <2>4 DEF TruthOK
  <2>8. ~Closed(r)' => new.phase # "error" /\ new.stage # "search"
    BY <2>3, <2>5
  <2>9. acted' = acted /\ placed' = placed /\ \A m \in Messages : Untouched(m)' = Untouched(m)
    BY DEF Untouched
  <2>10. new.phase # "error" =>
           \A m \in new.manifest : new.outcome[m] = "none" => Untouched(m)' \/ UnderWay(r, m)'
    <3>1. new.manifest \subseteq Messages
      BY FailureTypes
    <3> QED
      BY <2>7, <2>9, <3>1
  <2>11. ASSUME NEW m \in Messages
        PROVE  /\ new.outcome[m] = "processed" => m \notin placed
               /\ (\E i \in DOMAIN acted[m] : acted[m][i] = r) =>
                    new.outcome[m] \in {"processed", "unknown"} \/ UnderWay(r, m)'
    BY <2>6
  <2> QED
    BY <1>2, <2>6, <2>8, <2>9, <2>10, <2>11 DEF TruthOK
<1>7. Blank(new)
  BY <1>1 DEF Blank
<1>8. ReceiptsOK(new)
  <2>1. \A x \in new.receipts : x.kind = "prepared" /\ x.at < new.cursor
    <3>1. \A x \in Rec.receipts : x.at \in Nat
      BY <1>1 DEF Record, PreparedAnswer, RunAnswer
    <3> QED
      BY <1>1, <3>1
  <2>2. \A x \in new.receipts : x.phase = "ready" => new.phase # "preparing" /\ x.cursor = new.cursor
    BY <1>1
  <2> QED
    BY <1>7, <2>1, <2>2 DEF ReceiptsOK
<1>9. RecordsOK'
  <2>1. ASSUME NEW k \in DOMAIN recs, k # r, Live(k)'
        PROVE  TruthOK(k)' /\ ReceiptsOK(recs'[k]) /\ Closed(k)'
    <3>1. recs'[k] = recs[k] /\ Live(k)
      BY <1>2, <2>1 DEF Live
    <3>2. TruthOK(k) /\ ReceiptsOK(recs[k]) /\ Closed(k)
      BY <1>1, <2>1, <3>1 DEF IInv, ActInv, RecordsOK
    <3>3. \A m \in Messages : ~UnderWay(k, m)
      BY <1>1, <2>1 DEF UnderWay, Busy
    <3> QED
      BY <3>1, <3>2, <3>3 DEF TruthOK, Closed, Untouched
  <2> QED
    BY <1>2, <1>6, <1>8, <2>1 DEF RecordsOK
<1>10. ActedOK'
  BY <1>2 DEF ActedOK, IInv, ActInv, Untouched, Sent
<1>11. SourceOK'
  <2>1. ASSUME NEW k \in Sources, Live(k)'
        PROVE  \A m \in Retryable(k)' : Untouched(m)
    <3>1. Live(k) /\ recs'[k].failures = recs[k].failures
      BY <1>1, <1>2, <2>1 DEF Live
    <3>2. Retryable(k)' = Retryable(k)
      BY <3>1 DEF Retryable
    <3> QED
      BY <3>1, <3>2 DEF IInv, ActInv, SourceOK
  <2> QED
    BY <2>1 DEF SourceOK, Sources, Untouched, IInv, ActInv
<1>12. PageOK'
  BY <1>1, <1>2, <1>7 DEF PageOK, IInv, ActInv
<1>13. ReplyOK'
  <2>1. CASE job.waited
    <3>1. client.waiting /\ client.cursor = job.key
      BY <2>1, Preparing
    <3> QED
      BY <1>1, <1>2, <2>1, <3>1 DEF ReplyOK
  <2>2. CASE ~job.waited
    BY <2>2 DEF ReplyOK, IInv, ActInv
  <2> QED
    BY <2>1, <2>2
<1>14. CursorOK'
  BY <1>1 DEF CursorOK
<1>15. PageInv'
  <2>1. ASSUME NEW x \in new.receipts
        PROVE  x.kind = "prepared" /\ (x.phase = "ready" => x.cursor = new.cursor /\ new.phase = "ready")
    BY <1>1
  <2>2. /\ new.failures = <<>> /\ new.sequence = 0 /\ new.phase # "running"
        /\ new.phase = "ready" => new.cursor > 0
    BY <1>1 DEF Blank
  <2>3. Consistent(client, new, Len(new.failures))
    BY <1>1, <2>1, <2>2, ConsistentPrepares DEF TypeOK
  <2>4. Reported(r)' = Len(new.failures)
    BY <1>1, <1>2 DEF Reported, Executing
  <2> QED
    BY <1>1, <1>2, <2>3, <2>4 DEF PageInv
<1> QED
  BY <1>4, <1>5, <1>9, <1>10, <1>11, <1>12, <1>13, <1>14, <1>15 DEF IInv, ActInv

\* The receipt of a preparation, and what the selection keeps of it.
LEMMA PreparedWorks ==
  ASSUME job # Nil, job \in Job, NEW rec \in Record, rec.phase \in {"preparing", "ready"}, Prepared(rec)
  PROVE  \E new \in Record, receipt \in PreparedAnswer :
           /\ recs' = [recs EXCEPT ![job.rec] = new]
           /\ job' = Nil /\ reply' = IF job.waited THEN receipt ELSE reply
           /\ SameRun(rec, new) /\ new.outcome = rec.outcome /\ new.failures = rec.failures
           /\ new.sequence = rec.sequence /\ new.phase = rec.phase /\ new.cursor = rec.cursor
           /\ new.receipts = rec.receipts \union {receipt}
           /\ receipt.kind = "prepared" /\ receipt.phase = rec.phase
           /\ receipt.cursor = rec.cursor /\ receipt.at = job.key
<1> DEFINE total == IF rec.stage \in {"search", "fences"} THEN Nil ELSE Cardinality(rec.manifest)
           receipt == [kind |-> "prepared", at |-> job.key, phase |-> rec.phase,
                       cursor |-> rec.cursor, total |-> total]
           new == [rec EXCEPT !.receipts = @ \union {receipt}]
<1>1. recs' = [recs EXCEPT ![job.rec] = new] /\ job' = Nil
      /\ reply' = IF job.waited THEN receipt ELSE reply
  BY DEF Prepared, Put, Answer
<1>2. total \in Nat \union {Nil} /\ rec.cursor \in Nat /\ job.key \in Nat
  BY CountTypes, FailureTypes DEF Job
<1> HIDE DEF total
<1>3. /\ receipt \in PreparedAnswer /\ receipt.kind = "prepared" /\ receipt.phase = rec.phase
      /\ receipt.cursor = rec.cursor /\ receipt.at = job.key
  BY <1>2 DEF PreparedAnswer
<1> HIDE DEF receipt
<1>4. /\ new \in Record /\ SameRun(rec, new) /\ new.outcome = rec.outcome /\ new.failures = rec.failures
      /\ new.sequence = rec.sequence /\ new.phase = rec.phase /\ new.cursor = rec.cursor
      /\ new.receipts = rec.receipts \union {receipt}
  BY <1>3 DEF Record, SameRun
<1> QED
  BY <1>1, <1>3, <1>4

LEMMA PrepareJobStep == ASSUME IInv, PrepareJob
                        PROVE  IInv'
<1>1. UNCHANGED <<action, placed, valid, archive, inflight, acted, alive, client, asked, events>>
  BY DEF PrepareJob, mailVars
<1>2. ASSUME job # Nil, job.pc = "prepare"
      PROVE  /\ job \in Job /\ Rec \in Record /\ job.rec \in DOMAIN recs /\ Rec.phase = "preparing"
             /\ Rec.cursor \in Nat
  BY <1>2, Preparing, FailureTypes
<1>3. CASE Search
  <2>1. job # Nil /\ job.pc = "prepare" /\ Rec.stage = "search" /\ UNCHANGED <<job, reply>>
        /\ recs' = [recs EXCEPT ![job.rec] = [Rec EXCEPT !.manifest = placed, !.stage = "fences"]]
    BY <1>3 DEF Search, PrepareStep, Put
  <2>2. placed \subseteq Messages
    BY DEF IInv, TypeOK
  <2>3. PICK new \in Record : new = [Rec EXCEPT !.manifest = placed, !.stage = "fences"]
    BY <1>2, <2>1, <2>2 DEF Record
  <2>4. /\ new.outcome = Rec.outcome /\ new.failures = Rec.failures /\ new.cursor = Rec.cursor
        /\ new.sequence = Rec.sequence /\ new.receipts = Rec.receipts /\ new.phase = Rec.phase
        /\ new.stage # "search"
    BY <1>2, <2>1, <2>3 DEF Record
  <2> QED
    BY <1>1, <2>1, <2>3, <2>4, Freezes
<1>4. ASSUME NEW stage \in {"fences", "preflight"}, NEW next \in {"preflight", "bind"},
             Visit(stage, next)
      PROVE  IInv'
  <2>1. /\ job # Nil /\ job.pc = "prepare" /\ Rec.stage = stage /\ UNCHANGED <<job, reply>>
        /\ \/ recs' = [recs EXCEPT ![job.rec] = [Rec EXCEPT !.stage = next, !.checked = {}]]
           \/ \E f \in valid : recs' = [recs EXCEPT ![job.rec] = [Rec EXCEPT !.checked = @ \union {f}]]
    BY <1>4 DEF Visit, PrepareStep, Put
  <2>2. \E new \in Record :
          /\ recs' = [recs EXCEPT ![job.rec] = new]
          /\ new.outcome = Rec.outcome /\ new.failures = Rec.failures /\ new.cursor = Rec.cursor
          /\ new.sequence = Rec.sequence /\ new.receipts = Rec.receipts /\ new.phase = Rec.phase
          /\ new.stage # "search" /\ new.manifest = Rec.manifest
    <3>1. CASE recs' = [recs EXCEPT ![job.rec] = [Rec EXCEPT !.stage = next, !.checked = {}]]
      <4>1. [Rec EXCEPT !.stage = next, !.checked = {}] \in Record
        BY <1>2, <2>1 DEF Record
      <4> QED
        BY <1>2, <2>1, <3>1, <4>1 DEF Record
    <3>2. ASSUME NEW f \in valid,
                 recs' = [recs EXCEPT ![job.rec] = [Rec EXCEPT !.checked = @ \union {f}]]
          PROVE  \E new \in Record :
                   /\ recs' = [recs EXCEPT ![job.rec] = new]
                   /\ new.outcome = Rec.outcome /\ new.failures = Rec.failures /\ new.cursor = Rec.cursor
                   /\ new.sequence = Rec.sequence /\ new.receipts = Rec.receipts /\ new.phase = Rec.phase
                   /\ new.stage # "search" /\ new.manifest = Rec.manifest
      <4>1. f \in Folders
        BY DEF IInv, TypeOK
      <4>2. [Rec EXCEPT !.checked = @ \union {f}] \in Record
        BY <1>2, <2>1, <4>1 DEF Record
      <4> QED
        BY <1>2, <2>1, <3>2, <4>2 DEF Record
    <3> QED
      BY <2>1, <3>1, <3>2
  <2> QED
    BY <1>1, <2>1, <2>2, Freezes
<1>5. ASSUME NEW rec \in Record, rec.phase \in {"preparing", "ready"}, Prepared(rec),
             job # Nil, job.pc = "prepare", rec.stage # "search", rec.manifest = Rec.manifest,
             rec.outcome = Rec.outcome, rec.failures = Rec.failures, rec.cursor = Rec.cursor + 1,
             rec.sequence = Rec.sequence, rec.receipts = Rec.receipts /\ rec.sequence = Rec.sequence
      PROVE  IInv'
  <2>1. PICK new \in Record, receipt \in PreparedAnswer :
          /\ recs' = [recs EXCEPT ![job.rec] = new]
          /\ job' = Nil /\ reply' = IF job.waited THEN receipt ELSE reply
          /\ SameRun(rec, new) /\ new.outcome = rec.outcome /\ new.failures = rec.failures
          /\ new.sequence = rec.sequence /\ new.phase = rec.phase /\ new.cursor = rec.cursor
          /\ new.receipts = rec.receipts \union {receipt}
          /\ receipt.kind = "prepared" /\ receipt.phase = rec.phase
          /\ receipt.cursor = rec.cursor /\ receipt.at = job.key
    BY <1>2, <1>5, PreparedWorks
  <2>2. new.stage # "search" /\ new.manifest = Rec.manifest
    BY <1>5, <2>1 DEF SameRun
  <2> QED
    BY <1>1, <1>5, <2>1, <2>2, Froze
<1>6. CASE Bind
  <2> DEFINE flag == Rec.needsCreate \/ (action = "archive" /\ Rec.source = 0 /\ ~archive)
             rec1 == [Rec EXCEPT !.needsCreate = flag]
             rec2 == [rec1 EXCEPT !.phase = "ready"]
             rec3 == [rec2 EXCEPT !.stage = "done"]
             rec4 == [rec3 EXCEPT !.cursor = Rec.cursor + 1]
  <2>1. job # Nil /\ job.pc = "prepare" /\ Prepared(rec4)
    BY <1>2, <1>6 DEF Bind, PrepareStep, Record
  <2>2. Rec \in Record /\ Rec.cursor + 1 \in Nat /\ flag \in BOOLEAN
    BY <1>2, <2>1 DEF Record
  <2> HIDE DEF flag
  <2>3. /\ rec2 \in Record /\ rec2.phase = "ready" /\ rec2.manifest = Rec.manifest
        /\ rec2.outcome = Rec.outcome /\ rec2.failures = Rec.failures
        /\ rec2.sequence = Rec.sequence /\ rec2.receipts = Rec.receipts /\ rec2.sequence = Rec.sequence
    BY <2>2 DEF Record
  <2> HIDE DEF rec2
  <2>4. /\ rec4 \in Record /\ rec4.phase = "ready" /\ rec4.manifest = Rec.manifest
        /\ rec4.outcome = Rec.outcome /\ rec4.failures = Rec.failures
        /\ rec4.sequence = Rec.sequence /\ rec4.receipts = Rec.receipts /\ rec4.sequence = Rec.sequence
        /\ rec4.stage = "done" /\ rec4.cursor = Rec.cursor + 1
    BY <2>2, <2>3 DEF Record
  <2> HIDE DEF rec4
  <2> QED
    BY <1>5, <2>1, <2>4
<1>7. CASE PrepareBudget
  <2>1. job # Nil /\ job.pc = "prepare" /\ Rec.stage # "search"
        /\ Prepared([Rec EXCEPT !.cursor = @ + 1])
    BY <1>7 DEF PrepareBudget
  <2>2. PICK rec \in Record : rec = [Rec EXCEPT !.cursor = @ + 1]
    BY <1>2, <2>1 DEF Record
  <2>3. /\ rec.phase = "preparing" /\ rec.manifest = Rec.manifest /\ rec.stage = Rec.stage
        /\ rec.outcome = Rec.outcome /\ rec.failures = Rec.failures
        /\ rec.sequence = Rec.sequence /\ rec.receipts = Rec.receipts
        /\ rec.cursor = Rec.cursor + 1
    BY <1>2, <2>1, <2>2 DEF Record
  <2> QED
    BY <1>5, <2>1, <2>2, <2>3
<1>8. CASE PrepareFails
  <2>1. PICK code \in {"STALE_SCOPE", "MAIL_UNAVAILABLE"} :
         
             /\ recs' = [recs EXCEPT ![job.rec] = [Rec EXCEPT !.phase = "error", !.manifest = {}, !.code = code]]
          /\ job' = Nil /\ reply' = IF job.waited THEN Refused(code) ELSE reply
    BY <1>8 DEF PrepareFails, Put, Answer
  <2>2. job # Nil /\ job.pc = "prepare"
    BY <1>8 DEF PrepareFails
  <2>3. code \in Codes /\ code # Nil
    BY ScopedAssumption DEF Codes
  <2> DEFINE rec1 == [Rec EXCEPT !.phase = "error"]
             rec2 == [rec1 EXCEPT !.manifest = {}]
             rec3 == [rec2 EXCEPT !.code = code]
  <2>4. recs' = [recs EXCEPT ![job.rec] = rec3]
    BY <2>1
  <2>5. /\ rec2 \in Record /\ rec2.phase = "error"
        /\ rec2.outcome = Rec.outcome /\ rec2.failures = Rec.failures /\ rec2.cursor = Rec.cursor
        /\ rec2.sequence = Rec.sequence /\ rec2.receipts = Rec.receipts /\ rec2.sequence = Rec.sequence
    BY <1>2, <2>2 DEF Record
  <2> HIDE DEF rec2
  <2>6. /\ rec3 \in Record /\ rec3.phase = "error" /\ rec3.code = code
        /\ rec3.outcome = Rec.outcome /\ rec3.failures = Rec.failures /\ rec3.cursor = Rec.cursor
        /\ rec3.sequence = Rec.sequence /\ rec3.receipts = Rec.receipts /\ rec3.sequence = Rec.sequence
    BY <2>3, <2>5 DEF Record
  <2> HIDE DEF rec3
  <2>7. PICK new \in Record : new = rec3
    BY <2>6
  <2>9. Refused(code) \in ErrorAnswer /\ Refused(code).kind = "error"
    BY <2>3 DEF Refused, ErrorAnswer
  <2>8. PICK answer \in ErrorAnswer : answer = Refused(code)
    BY <2>9
  <2> QED
    BY <1>1, <2>1, <2>2, <2>3, <2>4, <2>6, <2>7, <2>8, <2>9, Froze
<1> QED
  BY <1>3, <1>4, <1>6, <1>7, <1>8 DEF PrepareJob

-------------------------------------------------------------------------------
(* The steps of the page.                                                  *)

\* A step that changes no more than how the page shows and drives its selection.
LEMMA Shown ==
  ASSUME IInv, client' \in Selection,
         client'.rec = client.rec, client'.source = client.source, client'.phase = client.phase,
         client'.cursor = client.cursor, client'.sequence = client.sequence,
         client'.failures = client.failures, client'.attempted = client.attempted,
         client'.status # "idle", client.phase = "prepare" => client'.status # "completed",
         client'.status = "completed" => client.status = "completed" /\ client'.total = client.total,
         client'.current => client.current \/ client.phase = "prepare" \/ client.cursor # 0,
         client'.waiting = client.waiting,
         UNCHANGED <<action, placed, valid, archive, inflight, acted, alive, recs, job, reply,
                     asked, events>>
  PROVE  IInv'
<1>1. TypeOK'
  BY DEF IInv, TypeOK
<1>2. JobOK' /\ BatchOK' /\ ActedOK'
  BY DEF IInv, ActInv, JobOK, BatchOK, ActedOK, Rec, Live, Closed, Sent, Untouched
<1>3. RecordsOK'
  <2>1. ASSUME NEW r \in DOMAIN recs, Live(r)
        PROVE  TruthOK(r)'
    <3>1. TruthOK(r)
      BY <2>1 DEF IInv, ActInv, RecordsOK
    <3> QED
      BY <3>1 DEF TruthOK, UnderWay, Busy, Closed, Untouched
  <2> QED
    BY <2>1 DEF IInv, ActInv, RecordsOK, Live, Closed
<1>4. SourceOK'
  BY DEF IInv, ActInv, SourceOK, Sources, Live, Retryable, Untouched
<1>5. PageOK' /\ ReplyOK' /\ CursorOK'
  BY DEF IInv, ActInv, PageOK, ReplyOK, CursorOK, Live
<1>6. PageInv'
  <2>1. Executing' = Executing
    BY DEF Executing
  <2> QED
    BY <2>1, PageSame DEF IInv, ActInv, Live
<1> QED
  BY <1>1, <1>2, <1>3, <1>4, <1>5, <1>6 DEF IInv, ActInv

LEMMA DriveFields ==
  ASSUME NEW c \in Selection, NEW recover \in BOOLEAN
  PROVE  LET d == Drive(c, recover) IN
         /\ d \in Selection
         /\ d.rec = c.rec /\ d.source = c.source /\ d.phase = c.phase /\ d.cursor = c.cursor
         /\ d.sequence = c.sequence /\ d.failures = c.failures /\ d.attempted = c.attempted
         /\ d.status \in {"running", "preparing"} /\ d.waiting = c.waiting
         /\ d.total = c.total
<1>1. Drive(c, recover) \in Selection
  BY DriveType
<1> QED
  BY <1>1 DEF Drive, Selection

LEMMA ShowSteps == ASSUME IInv, Resume \/ Stop \/ Interrupt
                   PROVE  IInv'
<1>1. UNCHANGED <<action, placed, valid, archive, inflight, acted, alive, recs, job, reply,
                  asked, events>>
  BY DEF Resume, Stop, Interrupt
<1>2. client \in Selection
  BY DEF IInv, TypeOK
<1>3. CASE Resume
  <2>1. client' = Drive(client, client.lost) /\ client.lost \in BOOLEAN
        /\ ~(client.phase = "execute" /\ client.cursor = 0) /\ client.phase \in {"prepare", "execute"}
    BY <1>2, <1>3 DEF Resume, Selection
  <2>2. /\ client' \in Selection
        /\ client'.rec = client.rec /\ client'.source = client.source /\ client'.phase = client.phase
        /\ client'.cursor = client.cursor /\ client'.sequence = client.sequence
        /\ client'.failures = client.failures /\ client'.attempted = client.attempted
        /\ client'.status \in {"running", "preparing"} /\ client'.waiting = client.waiting
    BY <1>2, <2>1, DriveFields
  <2> QED
    BY <1>1, <2>1, <2>2, Shown
<1>4. CASE Stop
  <2>1. /\ client' = [client EXCEPT !.stop = TRUE]
        /\ client.status \in {"preparing", "running"}
    BY <1>4 DEF Stop
  <2>2. /\ client' \in Selection
        /\ client'.rec = client.rec /\ client'.source = client.source /\ client'.phase = client.phase
        /\ client'.cursor = client.cursor /\ client'.sequence = client.sequence
        /\ client'.failures = client.failures /\ client'.attempted = client.attempted
        /\ client'.status = client.status /\ client'.waiting = client.waiting
        /\ client'.current = client.current
    BY <1>2, <2>1 DEF Selection
  <2> QED
    BY <1>1, <2>1, <2>2, Shown
<1>5. CASE Interrupt
  <2> DEFINE c1 == [client EXCEPT !.status = "stopped"]
             c2 == [c1 EXCEPT !.stop = TRUE]
             c3 == [c2 EXCEPT !.lost = TRUE]
             c4 == [c3 EXCEPT !.current = FALSE]
  <2>1. client' = c4
    BY <1>5 DEF Interrupt
  <2>2. /\ c2 \in Selection
        /\ c2.rec = client.rec /\ c2.source = client.source /\ c2.phase = client.phase
        /\ c2.cursor = client.cursor /\ c2.sequence = client.sequence
        /\ c2.failures = client.failures /\ c2.attempted = client.attempted
        /\ c2.status = "stopped" /\ c2.waiting = client.waiting
    BY <1>2 DEF Selection
  <2> HIDE DEF c2
  <2>3. /\ c4 \in Selection
        /\ c4.rec = client.rec /\ c4.source = client.source /\ c4.phase = client.phase
        /\ c4.cursor = client.cursor /\ c4.sequence = client.sequence
        /\ c4.failures = client.failures /\ c4.attempted = client.attempted
        /\ c4.status = "stopped" /\ c4.waiting = client.waiting /\ c4.current = FALSE
    BY <2>2 DEF Selection
  <2> HIDE DEF c4
  <2> QED
    BY <1>1, <2>1, <2>3, Shown
<1> QED
  BY <1>3, <1>4, <1>5

\* The page turns to another selection: a first one, or one of the failures.
LEMMA TurnStep == ASSUME IInv, Confirm \/ RetryFailed
                  PROVE  IInv'
<1>1. /\ UNCHANGED <<action, placed, valid, archive, inflight, acted, alive, recs, job, reply,
                     asked, events>>
      /\ ~client.waiting /\ client \in Selection /\ recs \in Seq(Record \union {Nil})
  BY DEF Confirm, RetryFailed, IInv, TypeOK
<1>2. Len(recs) \in Nat /\ DOMAIN recs = 1..Len(recs) /\ Len(recs) + 1 \notin DOMAIN recs
      /\ Len(recs) + 1 \in Nat /\ 0 \notin DOMAIN recs
  BY <1>1, LenProperties
<1>3. /\ client' \in Selection
      /\ client'.rec = Len(recs) + 1 /\ client'.phase = "prepare" /\ ~client'.waiting
      /\ client'.failures = <<>> /\ client'.attempted = 0 /\ client'.sequence = Nil
      /\ client'.status \in {"running", "preparing"}
      /\ \/ client'.source = 0 /\ client.source = 0 /\ client.phase = "prepare" /\ job = Nil
         \/ client'.source = client.rec /\ client.phase = "execute" /\ client.rec \in DOMAIN recs
  <2>1. CASE Confirm
    <3> DEFINE c == [client EXCEPT !.rec = Len(recs) + 1]
    <3>1. client.status = "idle" /\ client' = Drive(c, FALSE)
      BY <2>1 DEF Confirm
    <3>2. /\ c \in Selection /\ c.rec = Len(recs) + 1 /\ c.source = client.source
          /\ c.phase = client.phase /\ c.failures = client.failures /\ c.attempted = client.attempted
          /\ c.sequence = client.sequence /\ c.waiting = client.waiting
      BY <1>1, <1>2 DEF Selection
    <3> HIDE DEF c
    <3>3. /\ client' \in Selection
          /\ client'.rec = c.rec /\ client'.source = c.source /\ client'.phase = c.phase
          /\ client'.sequence = c.sequence /\ client'.failures = c.failures
          /\ client'.attempted = c.attempted
          /\ client'.status \in {"running", "preparing"} /\ client'.waiting = c.waiting
      BY <3>1, <3>2, DriveFields
    <3>4. /\ client.source = 0 /\ client.phase = "prepare" /\ job = Nil
          /\ client.failures = <<>> /\ client.attempted = 0 /\ client.sequence = Nil
      BY <3>1 DEF IInv, ActInv, PageOK
    <3> QED
      BY <1>1, <3>2, <3>3, <3>4
  <2>2. CASE RetryFailed
    <3> DEFINE c1 == [NoSelection EXCEPT !.rec = Len(recs) + 1]
               c == [c1 EXCEPT !.source = client.rec]
    <3>1. client' = Drive(c, FALSE) /\ \E i \in DOMAIN client.failures : client.failures[i].retryable
      BY <2>2 DEF RetryFailed
    <3>2. NoSelection \in Selection
      <4>1. <<>> \in Seq(Failure)
        OBVIOUS
      <4> QED
        BY <4>1 DEF NoSelection, Selection
    <3>3. c1 \in Selection /\ c1 = [NoSelection EXCEPT !.rec = Len(recs) + 1]
      BY <1>2, <3>2 DEF Selection
    <3>4. /\ c1.rec = Len(recs) + 1 /\ c1.phase = "prepare" /\ c1.failures = <<>>
          /\ c1.attempted = 0 /\ c1.sequence = Nil /\ c1.waiting = FALSE
      BY DEF NoSelection
    <3> HIDE DEF c1
    <3>5. client.rec \in Nat
      BY <1>1 DEF Selection
    <3>6. /\ c \in Selection /\ c.rec = Len(recs) + 1 /\ c.phase = "prepare" /\ c.failures = <<>>
          /\ c.attempted = 0 /\ c.sequence = Nil /\ c.waiting = FALSE /\ c.source = client.rec
      BY <3>3, <3>4, <3>5 DEF Selection
    <3> HIDE DEF c
    <3>7. /\ client' \in Selection
          /\ client'.rec = c.rec /\ client'.source = c.source /\ client'.phase = c.phase
          /\ client'.sequence = c.sequence /\ client'.failures = c.failures
          /\ client'.attempted = c.attempted
          /\ client'.status \in {"running", "preparing"} /\ client'.waiting = c.waiting
      BY <3>1, <3>6, DriveFields
    <3>8. client.phase = "execute" /\ client.rec \in DOMAIN recs
      <4>1. client.failures # <<>>
        BY <3>1
      <4> QED
        BY <1>1, <4>1 DEF IInv, ActInv, PageOK, Selection
    <3> QED
      BY <3>6, <3>7, <3>8
  <2> QED
    BY <2>1, <2>2
<1>4. TypeOK'
  BY <1>1, <1>3 DEF IInv, TypeOK
<1>5. job # Nil => /\ ~job.waited /\ job.pc # "prepare" /\ client'.source = job.rec
  BY <1>1, <1>3 DEF IInv, ActInv, JobOK
<1>6. JobOK'
  BY <1>1, <1>2, <1>3, <1>5 DEF IInv, ActInv, JobOK, Rec, Live, Closed
<1>7. BatchOK' /\ ActedOK'
  BY <1>1 DEF IInv, ActInv, BatchOK, ActedOK, Rec, Sent, Untouched
<1>8. RecordsOK'
  <2>1. ASSUME NEW r \in DOMAIN recs, Live(r)
        PROVE  TruthOK(r)'
    <3>1. TruthOK(r)
      BY <2>1 DEF IInv, ActInv, RecordsOK
    <3> QED
      BY <1>1, <3>1 DEF TruthOK, UnderWay, Busy, Closed, Untouched
  <2> QED
    BY <1>1, <2>1 DEF IInv, ActInv, RecordsOK, Live, Closed
<1>9. SourceOK'
  <2>1. ASSUME NEW r \in Sources', Live(r)
        PROVE  r \in Sources
    BY <1>2, <1>3, <2>1 DEF Sources, Live
  <2>2. \A r \in Nat : Retryable(r)' = Retryable(r) /\ Live(r)' = Live(r)
    BY <1>1 DEF Retryable, Live
  <2>3. Sources' \subseteq Nat
    BY <1>3 DEF Sources, Selection
  <2>4. client'.source = 0 => client.source = 0 /\ client.phase = "prepare"
    BY <1>2, <1>3
  <2> QED
    BY <1>1, <2>1, <2>2, <2>3, <2>4 DEF IInv, ActInv, SourceOK, Untouched
<1>10. PageOK' /\ CursorOK'
  BY <1>1, <1>2, <1>3 DEF PageOK, CursorOK, Live
<1>11. ReplyOK'
  BY <1>1 DEF IInv, ActInv, ReplyOK
<1>12. PageInv'
  BY <1>1, <1>2, <1>3 DEF PageInv, Live
<1> QED
  BY <1>4, <1>6, <1>7, <1>8, <1>9, <1>10, <1>11, <1>12 DEF IInv, ActInv

\* An answer, or the news that none will come.
LEMMA HearStep == ASSUME IInv, Hear \/ Disconnect
                  PROVE  IInv'
<1>1. /\ UNCHANGED <<action, placed, valid, archive, inflight, acted, alive, recs, asked, events>>
      /\ client.waiting /\ reply' = Nil /\ client \in Selection
      /\ recs \in Seq(Record \union {Nil})
  BY DEF Hear, Disconnect, IInv, TypeOK
<1>2. \E answer \in PreparedAnswer \union RunAnswer \union ErrorAnswer \union {[kind |-> "lost"]} :
        /\ client' = Heard(answer)
        /\ \/ answer.kind = "lost" /\ job' = IF job = Nil THEN Nil ELSE [job EXCEPT !.waited = FALSE]
           \/ answer.kind # "lost" /\ reply # Nil /\ answer = reply /\ job' = job
  <2>1. CASE Hear
    <3>1. reply \in PreparedAnswer \union RunAnswer \union ErrorAnswer /\ reply.kind # "lost"
      BY <2>1 DEF Hear, IInv, TypeOK, PreparedAnswer, RunAnswer, ErrorAnswer
    <3> QED
      BY <2>1, <3>1 DEF Hear
  <2>2. CASE Disconnect
    BY <2>2 DEF Disconnect
  <2> QED
    BY <2>1, <2>2
<1>3. PICK answer \in PreparedAnswer \union RunAnswer \union ErrorAnswer \union {[kind |-> "lost"]} :
        /\ client' = Heard(answer)
        /\ \/ answer.kind = "lost" /\ job' = IF job = Nil THEN Nil ELSE [job EXCEPT !.waited = FALSE]
           \/ answer.kind # "lost" /\ reply # Nil /\ answer = reply /\ job' = job
  BY <1>2
<1>4. Hears(answer, client')
  BY <1>3, HeardWorks DEF IInv
<1>5. /\ client' \in Selection /\ ~client'.waiting
      /\ client'.rec = client.rec /\ client'.source = client.source
  BY <1>4 DEF Hears, Kept, Counts
<1>6. /\ job = Nil => job' = Nil
      /\ job # Nil => /\ job' \in Job /\ job' # Nil /\ ~job'.waited
                      /\ job'.rec = job.rec /\ job'.key = job.key /\ job'.pc = job.pc
                      /\ job'.batch = job.batch /\ job'.left = job.left /\ job'.uids = job.uids
                      /\ job'.from = job.from
  <2>1. CASE job = Nil
    BY <1>3, <2>1
  <2>2. CASE job # Nil
    <3>1. job \in Job
      BY <2>2 DEF IInv, TypeOK
    <3>2. answer.kind # "lost" => ~job.waited
      BY <1>3, <2>2 DEF IInv, ActInv, JobOK
    <3>3. /\ [job EXCEPT !.waited = FALSE] \in Job
          /\ LET j == [job EXCEPT !.waited = FALSE] IN
             /\ ~j.waited /\ j.rec = job.rec /\ j.key = job.key /\ j.pc = job.pc
             /\ j.batch = job.batch /\ j.left = job.left /\ j.uids = job.uids /\ j.from = job.from
      BY <3>1 DEF Job
    <3> QED
      BY <1>3, <2>2, <3>1, <3>2, <3>3, NoNilRecord
  <2> QED
    BY <2>1, <2>2
<1>7. TypeOK'
  BY <1>1, <1>5, <1>6 DEF IInv, TypeOK
<1>8. client'.phase # client.phase =>
        /\ job = Nil /\ client.rec \in DOMAIN recs /\ client.phase = "prepare" /\ client'.phase = "execute"
  <2>1. CASE answer.kind \in {"prepared", "run"}
    BY <1>1, <1>3, <1>4, <2>1 DEF Hears, Kept, Counts, IInv, ActInv, ReplyOK, Selection
  <2>2. CASE answer.kind \notin {"prepared", "run"}
    BY <1>4, <2>2 DEF Hears, Kept
  <2> QED
    BY <2>1, <2>2
<1>9. JobOK' /\ BatchOK' /\ ActedOK'
  <2>1. JobOK'
    BY <1>1, <1>5, <1>6, <1>8 DEF IInv, ActInv, JobOK, Rec, Live, Closed
  <2>2. Sent' = Sent /\ (job # Nil => Rec' = Rec)
    BY <1>1, <1>6 DEF Sent, Rec
  <2>3. BatchOK' /\ ActedOK'
    <3>1. BatchOK'
      BY <1>6, <2>2 DEF IInv, ActInv, BatchOK
    <3>2. ActedOK'
      BY <1>1, <1>6 DEF IInv, ActInv, ActedOK, Untouched, Sent
    <3> QED
      BY <3>1, <3>2
  <2> QED
    BY <2>1, <2>3
<1>10. RecordsOK'
  <2>1. ASSUME NEW r \in DOMAIN recs, Live(r)
        PROVE  TruthOK(r)'
    <3>1. TruthOK(r)
      BY <2>1 DEF IInv, ActInv, RecordsOK
    <3> QED
      BY <1>1, <1>6, <3>1 DEF TruthOK, UnderWay, Busy, Closed, Untouched
  <2> QED
    BY <1>1, <2>1 DEF IInv, ActInv, RecordsOK, Live, Closed
<1>11. SourceOK'
  <2>1. Sources' \subseteq Sources
    BY <1>5, <1>8 DEF Sources
  <2>2. \A r \in Sources : Retryable(r)' = Retryable(r) /\ Live(r)' = Live(r)
    BY <1>1 DEF Retryable, Live
  <2>3. client'.phase = "prepare" => client.phase = "prepare"
    BY <1>8
  <2> QED
    BY <1>1, <1>5, <2>1, <2>2, <2>3 DEF IInv, ActInv, SourceOK, Untouched
<1>12. PageOK'
  <2>1. client.status # "idle" /\ client'.status # "idle"
    BY <1>1, <1>4 DEF Hears, IInv, ActInv, PageOK
  <2>2. client'.phase = "execute" => client'.rec \in DOMAIN recs
    BY <1>5, <1>8 DEF IInv, ActInv, PageOK
  <2>3. ASSUME client'.phase = "prepare"
        PROVE  /\ client'.failures = <<>> /\ client'.attempted = 0 /\ client'.sequence = Nil
               /\ client'.status # "completed"
               /\ Live(client.rec) => Blank(recs[client.rec])
    <3>1. /\ client.phase = "prepare"
          /\ client.failures = <<>> /\ client.attempted = 0 /\ client.sequence = Nil
          /\ client.status # "completed" /\ (Live(client.rec) => Blank(recs[client.rec]))
      BY <1>8, <2>3 DEF IInv, ActInv, PageOK
    <3>2. answer.kind # "run"
      BY <1>3, <3>1 DEF IInv, ActInv, ReplyOK
    <3> QED
      BY <1>4, <3>1, <3>2 DEF Hears, Kept
  <2> QED
    BY <1>1, <1>5, <2>1, <2>2, <2>3 DEF PageOK, Live
<1>13. ReplyOK'
  BY <1>1 DEF ReplyOK
<1>14. CursorOK'
  <2> SUFFICES ASSUME client'.phase = "execute", Live(client.rec)
               PROVE  /\ client'.current => client'.cursor # 0
                      /\ client'.cursor # 0 =>
                           \A x \in recs[client.rec].receipts : x.kind = "prepared" => x.at < client'.cursor
    BY <1>1, <1>5 DEF CursorOK, Live
  <2>1. ReceiptsOK(recs[client.rec]) /\ recs[client.rec] \in Record
    BY <1>1, ElementOfSeq, LenProperties DEF IInv, ActInv, RecordsOK, Live
  <2>2. \A x \in recs[client.rec].receipts : x.kind = "prepared" => x.at \in Nat /\ x.cursor \in Nat
    BY <2>1 DEF Record, PreparedAnswer, RunAnswer
  <2>3. CASE ~client.current \/ answer.kind \in {"lost", "error"}
    BY <1>4, <2>3 DEF Hears, Kept, CursorOK, IInv, ActInv
  <2>4. CASE client.current /\ answer.kind = "prepared"
    <3>1. answer = reply /\ reply # Nil /\ client'.cursor = answer.cursor /\ answer.phase = "ready"
      BY <1>3, <1>4, <2>4 DEF Hears
    <3>2. answer \in recs[client.rec].receipts
      BY <2>4, <3>1 DEF IInv, ActInv, ReplyOK
    <3>3. \A x \in recs[client.rec].receipts : x.kind = "prepared" => x.at < answer.cursor
      BY <2>1, <2>4, <3>1, <3>2 DEF ReceiptsOK
    <3>4. answer.cursor # 0
      BY <2>2, <2>4, <3>2, <3>3
    <3> QED
      BY <3>1, <3>3, <3>4
  <2>5. CASE client.current /\ answer.kind = "run"
    <3>1. answer = reply /\ reply # Nil /\ Counts(client, client', answer)
          /\ (client'.current => answer.state = "running")
      BY <1>3, <1>4, <2>5 DEF Hears
    <3>2. client.phase = "execute"
      BY <1>8, <2>5, <3>1 DEF IInv, ActInv, ReplyOK
    <3>3. client.cursor # 0
          /\ \A x \in recs[client.rec].receipts : x.kind = "prepared" => x.at < client.cursor
      BY <2>5, <3>2 DEF CursorOK, IInv, ActInv
    <3>4. answer \in recs[client.rec].receipts /\ answer.at = client.cursor
      BY <2>5, <3>1 DEF IInv, ActInv, ReplyOK
    <3>5. answer.next = IF answer.state = "running" THEN answer.at + 1 ELSE 0
      BY <2>1, <2>5, <3>4 DEF ReceiptsOK
    <3>6. client'.cursor = client.cursor \/ client'.cursor = answer.next
      BY <3>1 DEF Counts, Kept
    <3>7. client.cursor \in Nat
      BY <1>1 DEF Selection
    <3>8. CASE client'.cursor = client.cursor
      BY <3>3, <3>8
    <3>9. CASE client'.cursor = answer.next /\ answer.state = "running"
      BY <2>2, <3>3, <3>4, <3>5, <3>7, <3>9
    <3>10. CASE client'.cursor = answer.next /\ answer.state # "running"
      BY <3>1, <3>5, <3>10
    <3> QED
      BY <3>6, <3>8, <3>9, <3>10
  <2> QED
    BY <1>4, <2>3, <2>4, <2>5 DEF Hears
<1>15. PageInv'
  <2> SUFFICES ASSUME Live(client.rec)
               PROVE  Consistent(client', recs[client.rec], Reported(client.rec)')
    BY <1>1, <1>5 DEF PageInv, Live, Reported
  <2>1. Reported(client.rec)' = Reported(client.rec)
    BY <1>1, <1>5, <1>6 DEF Reported, Executing
  <2>2. PICK rec \in Record, end \in {Reported(client.rec)} : rec = recs[client.rec] /\ end = Reported(client.rec)
    BY <1>1, ElementOfSeq, LenProperties DEF Live
  <2>3. Consistent(client, rec, end) /\ ReceiptsOK(rec)
    BY <1>1, <2>2 DEF IInv, ActInv, PageInv, RecordsOK, Live
  <2>4. CASE ~client.current \/ answer.kind \in {"lost", "error"}
    <3>1. /\ Kept(client, client')
          /\ client'.status \in {"stopped", "error"} \/ client'.status = client.status
      BY <1>4, <2>4 DEF Hears
    <3>2. Consistent(client', rec, end)
      BY <1>1, <1>5, <2>3, <3>1, ConsistentKept DEF Kept
    <3> QED
      BY <2>1, <2>2, <3>2
  <2>5. CASE client.current /\ answer.kind = "prepared"
    <3>1. /\ client'.sequence = client.sequence /\ client'.failures = client.failures
          /\ client'.attempted = client.attempted /\ client'.cursor = answer.cursor
          /\ client'.phase = IF answer.phase = "ready" THEN "execute" ELSE "prepare"
          /\ client'.status # "completed" /\ answer = reply /\ reply # Nil
      BY <1>3, <1>4, <2>5 DEF Hears
    <3>2. answer \in rec.receipts /\ client.phase = "prepare"
      BY <1>1, <2>2, <2>5, <3>1 DEF IInv, ActInv, ReplyOK, Selection
    <3>3. client.failures = <<>> /\ client.attempted = 0 /\ client.sequence = Nil
      BY <3>2 DEF IInv, ActInv, PageOK
    <3>4. CASE answer.phase = "ready"
      <4>1. PICK x \in rec.receipts : x = answer
        BY <3>2
      <4>2. Consistent(client', rec, end)
        BY <1>1, <1>5, <2>3, <2>5, <3>1, <3>2, <3>3, <3>4, <4>1, ConsistentReady
      <4> QED
        BY <2>1, <2>2, <4>2
    <3>5. CASE answer.phase # "ready"
      <4>1. Consistent(client', rec, end)
        BY <2>3, <3>1, <3>5, ConsistentPreparing
      <4> QED
        BY <2>1, <2>2, <4>1
    <3> QED
      BY <3>4, <3>5
  <2>6. CASE client.current /\ answer.kind = "run"
    <3>1. /\ Counts(client, client', answer) /\ answer = reply /\ reply # Nil
          /\ client'.status = "completed" => answer.state = "completed"
      BY <1>3, <1>4, <2>6 DEF Hears
    <3>2. answer \in rec.receipts /\ client.phase = "execute" /\ answer.at = client.cursor
      BY <1>1, <2>2, <2>6, <3>1 DEF IInv, ActInv, ReplyOK, Selection
    <3>3. PICK x \in rec.receipts : x = answer
      BY <3>2
    <3>4. x.next = IF x.state = "running" THEN x.at + 1 ELSE 0
      BY <2>3, <2>6, <3>3 DEF ReceiptsOK
    <3>5. Consistent(client', rec, end)
      BY <1>1, <1>5, <2>3, <2>6, <3>1, <3>2, <3>3, <3>4, ConsistentCounts
    <3> QED
      BY <2>1, <2>2, <3>5
  <2> QED
    BY <1>4, <2>4, <2>5, <2>6 DEF Hears
<1> QED
  BY <1>7, <1>9, <1>10, <1>11, <1>12, <1>13, <1>14, <1>15 DEF IInv, ActInv

-------------------------------------------------------------------------------
(* Selections that are lost.                                               *)

\* The selections that remain are what they were.
LEMMA LoseStep == ASSUME IInv, Sweep \/ EndSession
                  PROVE  IInv'
<1>1. /\ UNCHANGED <<action, placed, valid, archive, inflight, acted, client, asked>>
      /\ alive' \in BOOLEAN /\ events' \in Nat /\ recs \in Seq(Record \union {Nil})
  <2>1. events \in Nat /\ alive \in BOOLEAN /\ recs \in Seq(Record \union {Nil})
    BY DEF IInv, TypeOK
  <2>2. CASE Sweep
    BY <2>1, <2>2 DEF Sweep, mailVars
  <2>3. CASE EndSession
    <3>1. alive' = FALSE /\ events' = events + 1
      BY <2>3 DEF EndSession
    <3>2. UNCHANGED <<action, placed, valid, archive, inflight, acted, client, asked>>
      BY <2>3 DEF EndSession, mailVars
    <3>3. events' \in Nat
      BY <2>1, <3>1
    <3>4. alive' \in BOOLEAN
      BY <3>1
    <3> QED
      BY <2>1, <3>2, <3>3, <3>4
  <2> QED
    BY <2>2, <2>3
<1>2. /\ recs' \in Seq(Record \union {Nil}) /\ DOMAIN recs' = DOMAIN recs
      /\ \A k \in DOMAIN recs : recs'[k] = recs[k] \/ recs'[k] = Nil
      /\ recs = <<>> => recs' = <<>>
      /\ \/ job' = Nil /\ (\/ reply' = reply /\ ~client.waiting
                           \/ /\ client.waiting /\ reply' \in ErrorAnswer /\ reply' # Nil
                              /\ reply'.kind = "error")
         \/ job' = job /\ reply' = reply /\ \A k \in DOMAIN recs : Busy(k) => recs'[k] = recs[k]
  <2>1. CASE Sweep
    <3>1. PICK r \in DOMAIN recs : Live(r) /\ ~Busy(r) /\ recs' = [recs EXCEPT ![r] = Nil]
      BY <2>1 DEF Sweep
    <3>2. job' = job /\ reply' = reply
      BY <2>1 DEF Sweep
    <3>3. /\ recs' \in Seq(Record \union {Nil}) /\ DOMAIN recs' = DOMAIN recs /\ recs'[r] = Nil
          /\ \A k \in DOMAIN recs : k # r => recs'[k] = recs[k]
      BY <1>1, <3>1, Replaced
    <3>4. recs # <<>>
      BY <3>1
    <3> QED
      BY <3>1, <3>2, <3>3, <3>4
  <2>2. CASE EndSession
    <3>1. /\ recs' = [r \in DOMAIN recs |-> Nil] /\ job' = Nil
          /\ reply' = IF client.waiting THEN Refused("SESSION_EXPIRED") ELSE reply
      BY <2>2 DEF EndSession
    <3>2. Len(recs) \in Nat /\ DOMAIN recs = 1..Len(recs)
      BY <1>1, LenProperties
    <3>3. recs' \in [1..Len(recs) -> Record \union {Nil}]
      BY <3>1, <3>2
    <3>4. recs' \in Seq(Record \union {Nil})
      BY <3>2, <3>3, SeqDef
    <3>5. recs = <<>> => recs' = <<>>
      <4>1. recs = <<>> => Len(recs') = 0
        BY <3>2, <3>3, <3>4, LenProperties
      <4> QED
        BY <3>4, <4>1, EmptySeq
    <3>6. Refused("SESSION_EXPIRED") \in ErrorAnswer /\ Refused("SESSION_EXPIRED").kind = "error"
      BY DEF Refused, ErrorAnswer, Codes
    <3> QED
      BY <3>1, <3>2, <3>3, <3>4, <3>5, <3>6, NoNilRecord
  <2> QED
    BY <2>1, <2>2
<1>3. TypeOK'
  BY <1>1, <1>2 DEF IInv, TypeOK
<1>4. ASSUME NEW k, Live(k)'
      PROVE  Live(k) /\ recs'[k] = recs[k] /\ Closed(k)' = Closed(k)
  BY <1>2, <1>4 DEF Live, Closed
<1>5. JobOK' /\ BatchOK' /\ ActedOK'
  <2>1. CASE job' = Nil
    BY <1>1, <1>2, <2>1 DEF IInv, ActInv, JobOK, BatchOK, ActedOK, Sent, Untouched
  <2>2. CASE job' = job /\ job # Nil /\ reply' = reply
        /\ \A k \in DOMAIN recs : Busy(k) => recs'[k] = recs[k]
    <3>1. /\ job.rec \in DOMAIN recs /\ recs'[job.rec] = recs[job.rec] /\ Rec' = Rec /\ Sent' = Sent
          /\ Live(job.rec)' /\ Closed(job.rec)' = Closed(job.rec)
      BY <1>2, <2>2, JobType DEF IInv, ActInv, Busy, Rec, Sent, Live, Closed
    <3>2. JobOK'
      BY <1>1, <1>2, <2>2, <3>1 DEF IInv, ActInv, JobOK
    <3>3. BatchOK'
      BY <2>2, <3>1 DEF IInv, ActInv, BatchOK
    <3>4. ActedOK'
      BY <1>1, <1>2, <2>2, <3>1 DEF IInv, ActInv, ActedOK, Untouched
    <3> QED
      BY <3>2, <3>3, <3>4
  <2> QED
    BY <1>2, <2>1, <2>2
<1>6. RecordsOK'
  <2>1. ASSUME NEW r \in DOMAIN recs, Live(r)'
        PROVE  TruthOK(r)' /\ ReceiptsOK(recs'[r])
    <3>1. TruthOK(r) /\ ReceiptsOK(recs[r]) /\ recs'[r] = recs[r] /\ Closed(r)' = Closed(r)
      BY <1>4, <2>1 DEF IInv, ActInv, RecordsOK
    <3>2. job' = job \/ (job' = Nil /\ (Busy(r) => job # Nil))
      BY <1>2 DEF Busy
    <3>3. CASE job' = job
      BY <1>1, <3>1, <3>3 DEF TruthOK, UnderWay, Busy, Untouched
    <3>4. CASE job' = Nil /\ job # Nil
      <4>1. CASE Sweep
        <5>1. job' = job
          BY <4>1 DEF Sweep
        <5> QED
          BY <3>4, <5>1
      <4>2. CASE EndSession
        <5>1. recs'[r] = Nil
          BY <2>1, <4>2 DEF EndSession
        <5> QED
          BY <1>2, <2>1, <5>1 DEF Live
      <4> QED
        BY <4>1, <4>2
    <3> QED
      BY <3>1, <3>2, <3>3, <3>4
  <2> QED
    BY <1>2, <1>4, <2>1 DEF IInv, ActInv, RecordsOK
<1>7. SourceOK'
  <2>1. ASSUME NEW r \in Sources, Live(r)'
        PROVE  \A m \in Retryable(r)' : Untouched(m)
    <3>1. Live(r) /\ Retryable(r)' = Retryable(r)
      BY <1>4, <2>1 DEF Retryable
    <3> QED
      BY <3>1 DEF IInv, ActInv, SourceOK
  <2> QED
    BY <1>1, <2>1 DEF SourceOK, Sources, Untouched, IInv, ActInv
<1>8. PageOK'
  <2>1. Live(client.rec)' => Live(client.rec) /\ recs'[client.rec] = recs[client.rec]
    BY <1>1, <1>2 DEF Live
  <2> QED
    BY <1>1, <1>2, <2>1 DEF PageOK, IInv, ActInv
<1>9. ReplyOK'
  <2>1. Live(client.rec)' => Live(client.rec) /\ recs'[client.rec] = recs[client.rec]
    BY <1>1, <1>2 DEF Live
  <2> QED
    BY <1>1, <1>2, <2>1 DEF ReplyOK, IInv, ActInv
<1>10. CursorOK'
  <2>1. Live(client.rec)' => Live(client.rec) /\ recs'[client.rec] = recs[client.rec]
    BY <1>1, <1>2 DEF Live
  <2> QED
    BY <1>1, <2>1 DEF CursorOK, IInv, ActInv
<1>11. PageInv'
  <2>1. ASSUME Live(client.rec)'
        PROVE  job' = job /\ Live(client.rec) /\ recs'[client.rec] = recs[client.rec]
    <3>1. CASE Sweep
      BY <1>4, <2>1, <3>1 DEF Sweep
    <3>2. CASE EndSession
      BY <1>1, <1>2, <2>1, <3>2 DEF EndSession, Live
    <3> QED
      BY <3>1, <3>2
  <2>2. ASSUME Live(client.rec)'
        PROVE  Reported(client.rec)' = Reported(client.rec)
    BY <1>1, <2>1, <2>2 DEF Reported, Executing
  <2> QED
    BY <1>1, <2>1, <2>2 DEF IInv, ActInv, PageInv
<1> QED
  BY <1>3, <1>5, <1>6, <1>7, <1>8, <1>9, <1>10, <1>11 DEF IInv, ActInv

-------------------------------------------------------------------------------
(* A request arrives.                                                      *)

\* The page waits for the request it sends.
LEMMA Waiting ==
  ASSUME IInv, NEW r \in Nat, client' = [client EXCEPT !.waiting = TRUE, !.rec = r]
  PROVE  /\ client' \in Selection /\ client'.waiting /\ client'.rec = r
         /\ client'.source = client.source /\ client'.phase = client.phase
         /\ client'.cursor = client.cursor /\ client'.sequence = client.sequence
         /\ client'.failures = client.failures /\ client'.attempted = client.attempted
         /\ client'.status = client.status /\ client'.current = client.current
         /\ client'.total = client.total
BY DEF IInv, TypeOK, Selection

\* The request is answered at once: refused, or with the receipt that was missed.
LEMMA Replies ==
  ASSUME IInv, client.current, ~client.waiting, NEW r \in Nat,
         client' = [client EXCEPT !.waiting = TRUE, !.rec = r],
         r = client.rec \/ (client.phase = "prepare" /\ ~Live(client.rec) /\ r = Len(recs) + 1),
         NEW answer \in PreparedAnswer \union RunAnswer \union ErrorAnswer, reply' = answer,
         answer.kind # "error" =>
           /\ job = Nil /\ r = client.rec /\ r \in DOMAIN recs
           /\ answer.kind = IF client.phase = "prepare" THEN "prepared" ELSE "run"
           /\ answer \in recs[r].receipts /\ answer.at = client.cursor,
         asked' \in Nat,
         UNCHANGED <<action, placed, valid, archive, inflight, acted, alive, recs, job, events>>
  PROVE  IInv'
<1>1. /\ client' \in Selection /\ client'.waiting /\ client'.rec = r
      /\ client'.source = client.source /\ client'.phase = client.phase
      /\ client'.cursor = client.cursor /\ client'.sequence = client.sequence
      /\ client'.failures = client.failures /\ client'.attempted = client.attempted
      /\ client'.status = client.status /\ client'.current = client.current
  BY Waiting
<1>2. recs \in Seq(Record \union {Nil}) /\ DOMAIN recs = 1..Len(recs) /\ Len(recs) \in Nat
  BY LenProperties DEF IInv, TypeOK
<1>3. TypeOK'
  BY <1>1 DEF IInv, TypeOK
<1>4. r # client.rec => r \notin DOMAIN recs /\ ~Live(r) /\ client.phase = "prepare"
  BY <1>2 DEF Live
<1>5. JobOK'
  <2>1. job # Nil => ~job.waited /\ Live(job.rec)
    BY DEF IInv, ActInv, JobOK
  <2> QED
    BY <1>1, <1>4, <2>1 DEF IInv, ActInv, JobOK, Rec, Live, Closed
<1>6. BatchOK' /\ ActedOK'
  BY DEF IInv, ActInv, BatchOK, ActedOK, Rec, Sent, Untouched
<1>7. RecordsOK'
  <2>1. ASSUME NEW k \in DOMAIN recs, Live(k)
        PROVE  TruthOK(k)'
    <3>1. TruthOK(k)
      BY <2>1 DEF IInv, ActInv, RecordsOK
    <3> QED
      BY <3>1 DEF TruthOK, UnderWay, Busy, Closed, Untouched
  <2> QED
    BY <2>1 DEF IInv, ActInv, RecordsOK, Live, Closed
<1>8. SourceOK'
  <2>1. ASSUME NEW k \in Sources', Live(k)
        PROVE  k \in Sources
    BY <1>1, <1>4, <2>1 DEF Sources
  <2>2. \A k \in Nat : Retryable(k)' = Retryable(k) /\ Live(k)' = Live(k)
    BY DEF Retryable, Live
  <2>3. Sources' \subseteq Nat
    BY <1>1 DEF Sources, Selection
  <2> QED
    BY <1>1, <2>1, <2>2, <2>3 DEF IInv, ActInv, SourceOK, Untouched
<1>9. PageOK'
  BY <1>1, <1>4 DEF IInv, ActInv, PageOK, Live
<1>10. ReplyOK'
  BY <1>1 DEF ReplyOK, Live
<1>11. CursorOK'
  BY <1>1, <1>4 DEF IInv, ActInv, CursorOK, Live
<1>12. PageInv'
  <2>1. client'.total = client.total /\ (Executing' = Executing)
    BY Waiting DEF Executing
  <2>2. CASE r = client.rec
    BY <1>1, <2>1, <2>2, PageSame DEF IInv, ActInv, Live
  <2>3. CASE r # client.rec
    BY <1>1, <1>4, <2>3 DEF PageInv, Live
  <2> QED
    BY <2>2, <2>3
<1> QED
  BY <1>3, <1>5, <1>6, <1>7, <1>8, <1>9, <1>10, <1>11, <1>12 DEF IInv, ActInv

LEMMA RefusedType ==
  ASSUME NEW code \in Codes
  PROVE  Refused(code) \in ErrorAnswer /\ Refused(code).kind = "error"
BY DEF Refused, ErrorAnswer

LEMMA AllCodes ==
  {"SCOPE_EXPIRED", "SCOPE_BUSY", "SCOPE_CURSOR_MISMATCH", "SCOPE_CURSOR_INVALID"} \subseteq Codes
BY DEF Codes

LEMMA WorkType ==
  ASSUME IInv, NEW r \in Nat, NEW pc \in {"prepare", "plan"}
  PROVE  /\ Work(r, pc) \in Job /\ Work(r, pc).rec = r /\ Work(r, pc).key = client.cursor
         /\ Work(r, pc).waited /\ Work(r, pc).pc = pc /\ Work(r, pc).uids = {}
BY DEF Work, Job, IInv, TypeOK, Selection

\* The work on a selection that is open begins.
LEMMA Starts ==
  ASSUME IInv, client.current, ~client.waiting, Live(client.rec), ~Closed(client.rec), ~Busy(client.rec),
         client' = [client EXCEPT !.waiting = TRUE],
         NEW j \in Job, job' = j, j.rec = client.rec, j.key = client.cursor, j.waited, j.uids = {},
         recs[client.rec].cursor = client.cursor,
         \/ j.pc = "prepare" /\ client.phase = "prepare" /\ recs[client.rec].phase = "preparing"
         \/ j.pc = "plan" /\ client.phase = "execute" /\ recs[client.rec].phase # "preparing"
            /\ j.from = Len(recs[client.rec].failures),
         asked' \in Nat,
         UNCHANGED <<action, placed, valid, archive, inflight, acted, alive, recs, reply, events>>
  PROVE  IInv'
<1>0. PICK r \in Nat : r = client.rec
  BY DEF IInv, TypeOK, Selection
<1>1. /\ client' \in Selection /\ client'.waiting /\ client'.rec = r
      /\ client'.source = client.source /\ client'.phase = client.phase
      /\ client'.cursor = client.cursor /\ client'.sequence = client.sequence
      /\ client'.failures = client.failures /\ client'.attempted = client.attempted
      /\ client'.status = client.status /\ client'.current = client.current
  <2>1. client \in Selection
    BY DEF IInv, TypeOK
  <2> QED
    BY <1>0, <2>1 DEF Selection
<1>2. job = Nil /\ reply = Nil /\ j # Nil /\ Live(r) /\ ~Closed(r)
  <2>1. job = Nil
    BY DEF IInv, ActInv, JobOK, Busy, Live
  <2>2. reply = Nil
    BY DEF IInv, ActInv, ReplyOK
  <2> QED
    BY <1>0, <2>1, <2>2, NoNilRecord
<1>3. TypeOK'
  BY <1>1 DEF IInv, TypeOK
<1>4. Rec' = recs[r] /\ Live(r)' /\ ~Closed(r)'
  BY <1>0, <1>2 DEF Rec, Live, Closed
<1>5. JobOK'
  BY <1>0, <1>1, <1>2, <1>4 DEF JobOK
<1>6. BatchOK' /\ ActedOK'
  BY <1>2 DEF IInv, ActInv, BatchOK, ActedOK, Sent, Untouched
<1>7. RecordsOK'
  <2>1. ASSUME NEW k \in DOMAIN recs, Live(k)
        PROVE  TruthOK(k)'
    <3>1. TruthOK(k) /\ \A m \in Messages : ~UnderWay(k, m) /\ ~UnderWay(k, m)'
      BY <1>2, <2>1 DEF IInv, ActInv, RecordsOK, UnderWay, Busy
    <3>2. \A m \in recs[k].manifest : m \in Messages
      BY <2>1, FailureTypes, ElementOfSeq, LenProperties DEF IInv, TypeOK, Live
    <3> QED
      BY <3>1, <3>2 DEF TruthOK, Closed, Untouched
  <2> QED
    BY <2>1 DEF IInv, ActInv, RecordsOK, Live, Closed
<1>8. SourceOK'
  <2>1. Sources' = Sources
    BY <1>0, <1>1 DEF Sources
  <2>2. \A k \in Sources : Retryable(k)' = Retryable(k) /\ Live(k)' = Live(k)
    BY DEF Retryable, Live
  <2> QED
    BY <1>1, <2>1, <2>2 DEF IInv, ActInv, SourceOK, Untouched
<1>9. PageOK'
  BY <1>0, <1>1, <1>2 DEF IInv, ActInv, PageOK, Live
<1>10. ReplyOK'
  BY <1>2 DEF ReplyOK
<1>11. CursorOK'
  BY <1>0, <1>1 DEF IInv, ActInv, CursorOK, Live
<1>12. PageInv'
  <2>1. Reported(r)' = Len(recs[r].failures)
    BY <1>0, <1>2 DEF Reported, Executing
  <2>2. Reported(r) = Len(recs[r].failures)
    BY <1>2 DEF Reported, Executing
  <2>3. PICK rec \in Record, end \in {Reported(r)} : rec = recs[r] /\ end = Reported(r)
    BY <1>2, ElementOfSeq, LenProperties DEF Live, IInv, TypeOK
  <2>4. client \in Selection /\ client'.total = client.total
    BY <1>0 DEF IInv, TypeOK, Selection
  <2>5. Consistent(client, rec, end)
    BY <1>0, <1>2, <2>3 DEF IInv, ActInv, PageInv
  <2>6. Consistent(client', rec, end)
    BY <1>1, <2>4, <2>5, ConsistentKept
  <2> QED
    BY <1>1, <2>1, <2>2, <2>3, <2>6 DEF PageInv
<1> QED
  BY <1>3, <1>5, <1>6, <1>7, <1>8, <1>9, <1>10, <1>11, <1>12 DEF IInv, ActInv

LEMMA PrepareStepOK ==
  ASSUME IInv, client.current, ~client.waiting, client.phase = "prepare", Live(client.rec),
         Prepare(client.rec), asked' \in Nat,
         UNCHANGED <<action, placed, valid, archive, inflight, acted, alive, events>>
  PROVE  IInv'
<1>0. PICK r \in DOMAIN recs : r = client.rec
  BY DEF Live
<1>1. /\ client \in Selection /\ r \in Nat /\ recs[r] \in Record
      /\ Blank(recs[r]) /\ ReceiptsOK(recs[r])
  <2>1. client \in Selection /\ recs \in Seq(Record \union {Nil})
    BY DEF IInv, TypeOK
  <2>2. Live(r)
    BY <1>0
  <2> QED
    BY <1>0, <2>1, <2>2, ElementOfSeq, LenProperties DEF IInv, ActInv, PageOK, RecordsOK, Live, Selection
<1>2. client' = [client EXCEPT !.waiting = TRUE]
      /\ client' = [client EXCEPT !.waiting = TRUE, !.rec = r]
  <2>1. client' = [client EXCEPT !.waiting = TRUE]
    BY DEF Prepare
  <2> QED
    BY <1>0, <1>1, <2>1 DEF Selection
<1>3. ASSUME NEW code \in Codes, Refuse(code)
      PROVE  IInv'
  <2>1. PICK answer \in ErrorAnswer : answer = Refused(code)
    BY RefusedType
  <2>2. answer.kind = "error" /\ reply' = answer /\ UNCHANGED <<recs, job>>
    BY <1>3, <2>1, RefusedType DEF Refuse
  <2> QED
    BY <1>0, <1>1, <1>2, <2>2, Replies
<1>4. CASE ~Busy(r) /\ Replay(r)
  <2>1. PICK receipt \in recs[r].receipts : receipt.at = client.cursor /\ reply' = receipt
    BY <1>4 DEF Replay
  <2>2. receipt \in PreparedAnswer \union RunAnswer /\ receipt.kind = "prepared"
    BY <1>1 DEF Record, Blank
  <2>3. job = Nil
    BY <1>0, <1>4 DEF IInv, ActInv, JobOK, Busy
  <2>4. UNCHANGED <<recs, job>>
    BY <1>4 DEF Replay
  <2> QED
    BY <1>0, <1>1, <1>2, <2>1, <2>2, <2>3, <2>4, Replies
<1>5. CASE ~Busy(r) /\ recs[r].phase = "preparing" /\ recs[r].cursor = client.cursor
           /\ job' = Work(r, "prepare") /\ UNCHANGED <<recs, reply>>
  <2>1. PICK j \in Job : j = Work(r, "prepare")
    BY <1>1, WorkType
  <2>2. j.rec = r /\ j.key = client.cursor /\ j.waited /\ j.pc = "prepare" /\ j.uids = {}
    BY <1>1, <2>1, WorkType
  <2>3. ~Closed(r)
    BY <1>5 DEF Closed
  <2> QED
    BY <1>0, <1>2, <1>5, <2>1, <2>2, <2>3, Starts
<1>6. recs[r].phase = "error" => recs[r].code \in Codes
  BY <1>1 DEF ReceiptsOK, Blank, Record
<1>7. \/ Refuse("SCOPE_BUSY") \/ Refuse("SCOPE_EXPIRED")
      \/ ~Busy(r) /\ Replay(r)
      \/ recs[r].phase = "error" /\ Refuse(recs[r].code)
      \/ Refuse("SCOPE_CURSOR_INVALID") \/ Refuse("SCOPE_CURSOR_MISMATCH")
      \/ ~Busy(r) /\ recs[r].phase = "preparing" /\ recs[r].cursor = client.cursor
           /\ job' = Work(r, "prepare") /\ UNCHANGED <<recs, reply>>
  BY <1>0 DEF Prepare
<1> QED
  BY <1>3, <1>4, <1>5, <1>6, <1>7, AllCodes

LEMMA ExecuteStepOK ==
  ASSUME IInv, client.current, ~client.waiting, client.phase = "execute",
         Execute(client.rec), asked' \in Nat,
         UNCHANGED <<action, placed, valid, archive, inflight, acted, alive, events>>
  PROVE  IInv'
<1>0. PICK r \in DOMAIN recs : r = client.rec
  BY DEF IInv, ActInv, PageOK
<1>1. client \in Selection /\ r \in Nat /\ recs \in Seq(Record \union {Nil})
  BY <1>0 DEF IInv, TypeOK, Selection
<1>2. client' = [client EXCEPT !.waiting = TRUE]
      /\ client' = [client EXCEPT !.waiting = TRUE, !.rec = r]
  <2>1. client' = [client EXCEPT !.waiting = TRUE]
    BY DEF Execute
  <2> QED
    BY <1>0, <1>1, <2>1 DEF Selection
<1>3. ASSUME NEW code \in Codes, Refuse(code)
      PROVE  IInv'
  <2>1. PICK answer \in ErrorAnswer : answer = Refused(code)
    BY RefusedType
  <2>2. answer.kind = "error" /\ reply' = answer /\ UNCHANGED <<recs, job>>
    BY <1>3, <2>1, RefusedType DEF Refuse
  <2> QED
    BY <1>0, <1>1, <1>2, <2>2, Replies
<1>4. CASE Live(r) /\ ~Busy(r) /\ Replay(r)
  <2>1. PICK receipt \in recs[r].receipts : receipt.at = client.cursor /\ reply' = receipt
    BY <1>4 DEF Replay
  <2>2. recs[r] \in Record
    BY <1>1, <1>4, ElementOfSeq, LenProperties DEF Live
  <2>3. receipt \in PreparedAnswer \union RunAnswer
    BY <2>2 DEF Record
  <2>4. receipt.kind # "prepared"
    <3>1. \A x \in recs[r].receipts : x.kind = "prepared" => x.at < client.cursor
      BY <1>0, <1>4 DEF IInv, ActInv, CursorOK
    <3>2. client.cursor \in Nat
      BY <1>1 DEF Selection
    <3> QED
      BY <2>1, <3>1, <3>2
  <2>5. receipt.kind = "run"
    BY <2>3, <2>4 DEF PreparedAnswer, RunAnswer
  <2>6. job = Nil
    BY <1>0, <1>4 DEF IInv, ActInv, JobOK, Busy
  <2>7. UNCHANGED <<recs, job>>
    BY <1>4 DEF Replay
  <2> QED
    BY <1>0, <1>1, <1>2, <2>1, <2>3, <2>5, <2>6, <2>7, Replies
<1>5. CASE /\ Live(r) /\ ~Busy(r) /\ recs[r].phase \in {"ready", "running"}
           /\ recs[r].cursor = client.cursor
           /\ job' = [Work(r, "plan") EXCEPT !.from = Len(recs[r].failures), !.before = Settled(recs[r])]
           /\ UNCHANGED <<recs, reply>>
  <2>1. recs[r] \in Record
    BY <1>1, <1>5, ElementOfSeq, LenProperties DEF Live
  <2>2. Len(recs[r].failures) \in Nat /\ Settled(recs[r]) \in Nat
    BY <2>1, CountTypes, FailureTypes, LenProperties
  <2>3. /\ Work(r, "plan") \in Job /\ Work(r, "plan").rec = r /\ Work(r, "plan").key = client.cursor
        /\ Work(r, "plan").waited /\ Work(r, "plan").pc = "plan" /\ Work(r, "plan").uids = {}
    BY <1>1, WorkType
  <2>4. /\ job' \in Job
        /\ job'.rec = r /\ job'.key = client.cursor /\ job'.waited /\ job'.pc = "plan" /\ job'.uids = {}
        /\ job'.from = Len(recs[r].failures)
    BY <1>5, <2>2, <2>3 DEF Job
  <2>5. PICK j \in Job : j = job'
    BY <2>4
  <2>6. /\ job' = j /\ j.rec = r /\ j.key = client.cursor /\ j.waited /\ j.pc = "plan" /\ j.uids = {}
        /\ j.from = Len(recs[client.rec].failures)
    BY <1>0, <2>4, <2>5
  <2>7. ~Closed(r) /\ recs[r].phase # "preparing"
    BY <1>5 DEF Closed
  <2> QED
    BY <1>0, <1>2, <1>5, <2>6, <2>7, Starts
<1>6. \/ Refuse("SCOPE_BUSY") \/ Refuse("SCOPE_EXPIRED") \/ Refuse("SCOPE_CURSOR_INVALID")
      \/ Live(r) /\ ~Busy(r) /\ Replay(r)
      \/ /\ Live(r) /\ ~Busy(r) /\ recs[r].phase \in {"ready", "running"}
         /\ recs[r].cursor = client.cursor
         /\ job' = [Work(r, "plan") EXCEPT !.from = Len(recs[r].failures), !.before = Settled(recs[r])]
         /\ UNCHANGED <<recs, reply>>
  BY <1>0 DEF Execute
<1> QED
  BY <1>3, <1>4, <1>5, <1>6, AllCodes

\* A selection as it is made: nothing was begun.
Made(rec, stage, manifest) ==
  /\ rec \in Record /\ rec.phase = "preparing" /\ rec.cursor = 0 /\ rec.receipts = {}
  /\ rec.failures = <<>> /\ rec.sequence = 0 /\ rec.outcome = [m \in Messages |-> "none"]
  /\ rec.stage = stage /\ rec.manifest = manifest

LEMMA NewIsMade ==
  ASSUME NEW from \in Nat, NEW stage \in {"search", "fences"}, NEW manifest \in SUBSET Messages,
         NEW needs \in BOOLEAN
  PROVE  Made(NewRecord(from, stage, manifest, needs), stage, manifest)
<1>1. <<>> \in Seq(Failure) /\ [m \in Messages |-> "none"] \in [Messages -> Outcomes]
  BY DEF Outcomes
<1> QED
  BY <1>1 DEF NewRecord, Record, Made

\* A new selection, after the older ones were stopped.
LEMMA CreateStepOK ==
  ASSUME IInv, client.current, ~client.waiting, client.phase = "prepare", ~Live(client.rec),
         Create(Len(recs) + 1), asked' \in Nat,
         UNCHANGED <<action, placed, valid, archive, inflight, acted, alive, events>>
  PROVE  IInv'
<1>0. recs \in Seq(Record \union {Nil}) /\ DOMAIN recs = 1..Len(recs) /\ Len(recs) \in Nat
      /\ client \in Selection /\ client.source \in Nat /\ client.cursor \in Nat
  BY LenProperties DEF IInv, TypeOK, Selection
<1>1. PICK r \in Nat : r = Len(recs) + 1
  BY <1>0
<1>2. client' = [client EXCEPT !.waiting = TRUE, !.rec = r] /\ r \notin DOMAIN recs
  BY <1>0, <1>1 DEF Create
<1>3. ASSUME NEW code \in Codes, Refuse(code)
      PROVE  IInv'
  <2>1. PICK answer \in ErrorAnswer : answer = Refused(code)
    BY RefusedType
  <2>2. answer.kind = "error" /\ reply' = answer /\ UNCHANGED <<recs, job>>
    BY <1>3, <2>1, RefusedType DEF Refuse
  <2> QED
    BY <1>1, <1>2, <2>2, Replies
<1> DEFINE source == client.source
           old == [k \in DOMAIN recs |-> IF Live(k) /\ ~Closed(k) THEN [recs[k] EXCEPT !.phase = "stopped"]
                                         ELSE recs[k]]
           new == IF source = 0 THEN NewRecord(0, "search", {}, FALSE)
                  ELSE NewRecord(source, "fences", Retryable(source),
                                 recs[source].needsCreate /\ ~recs[source].targetReady)
<1>4. CASE /\ client.cursor = 0 /\ \A k \in DOMAIN recs : Live(k) /\ ~Closed(k) => ~Busy(k)
           /\ source # 0 => Live(source)
           /\ recs' = Append(old, new) /\ job' = Work(r, "prepare") /\ UNCHANGED reply
  <2>1. job = Nil /\ reply = Nil
    BY <1>4 DEF IInv, ActInv, JobOK, ReplyOK, Busy, Live
  <2>2. old \in Seq(Record \union {Nil}) /\ Len(old) = Len(recs)
        /\ \A k \in DOMAIN recs :
             old[k] = IF Live(k) /\ ~Closed(k) THEN [recs[k] EXCEPT !.phase = "stopped"] ELSE recs[k]
    <3>1. ASSUME NEW k \in DOMAIN recs
          PROVE  old[k] \in Record \union {Nil}
      <4>1. recs[k] \in Record \union {Nil}
        BY <1>0, ElementOfSeq
      <4>2. Live(k) => [recs[k] EXCEPT !.phase = "stopped"] \in Record
        BY <4>1 DEF Live, Record
      <4> QED
        BY <4>1, <4>2
    <3>2. old \in [1..Len(recs) -> Record \union {Nil}]
      BY <1>0, <3>1
    <3> HIDE DEF old
    <3>3. old \in Seq(Record \union {Nil})
      BY <1>0, <3>2, SeqDef
    <3>4. DOMAIN old = 1..Len(recs) /\ DOMAIN old = 1..Len(old) /\ Len(old) \in Nat
      BY <3>2, <3>3, LenProperties
    <3>5. Len(old) = Len(recs)
      BY <1>0, <3>4
    <3> QED
      BY <3>3, <3>5 DEF old
  <2>3. /\ new \in Record /\ new.phase = "preparing" /\ new.cursor = 0 /\ new.receipts = {}
        /\ new.failures = <<>> /\ new.sequence = 0 /\ new.outcome = [m \in Messages |-> "none"]
        /\ IF source = 0 THEN new.stage = "search" /\ new.manifest = {}
           ELSE new.stage = "fences" /\ new.manifest = Retryable(source)
    <3>2. CASE source = 0
      <4>1. new = NewRecord(0, "search", {}, FALSE)
        BY <3>2
      <4>2. PICK needs \in BOOLEAN : needs = FALSE
        OBVIOUS
      <4>3. PICK none \in SUBSET Messages : none = {}
        OBVIOUS
      <4> HIDE DEF new
      <4>4. new = NewRecord(0, "search", none, needs)
        BY <4>1, <4>2, <4>3
      <4>5. Made(new, "search", none)
        <5>1. PICK stage \in {"search", "fences"} : stage = "search"
          OBVIOUS
        <5>2. Made(NewRecord(0, stage, none, needs), stage, none)
          BY NewIsMade
        <5> QED
          BY <4>4, <5>1, <5>2
      <4> QED
        BY <3>2, <4>3, <4>5 DEF Made
    <3>3. CASE source # 0
      <4>1. recs[source] \in Record
        BY <1>0, <1>4, <3>3, ElementOfSeq DEF Live
      <4>2. Retryable(source) \in SUBSET Messages
        BY <4>1, FailureTypes DEF Retryable
      <4>3. PICK needs \in BOOLEAN : needs = (recs[source].needsCreate /\ ~recs[source].targetReady)
        OBVIOUS
      <4>4. new = NewRecord(source, "fences", Retryable(source), needs)
        BY <3>3, <4>3
      <4> HIDE DEF new
      <4>5. Made(new, "fences", Retryable(source))
        <5>1. PICK stage \in {"search", "fences"} : stage = "fences"
          OBVIOUS
        <5>2. PICK set \in SUBSET Messages : set = Retryable(source)
          BY <4>2
        <5>3. PICK from \in Nat : from = source
          BY <1>0
        <5>4. Made(NewRecord(from, stage, set, needs), stage, set)
          BY NewIsMade
        <5> QED
          BY <4>4, <5>1, <5>2, <5>3, <5>4
      <4> QED
        BY <3>3, <4>5 DEF Made
    <3> QED
      BY <3>2, <3>3
  <2> HIDE DEF new, old
  <2>4. /\ recs' \in Seq(Record \union {Nil}) /\ Len(recs') = Len(recs) + 1
        /\ DOMAIN recs' = DOMAIN recs \union {r} /\ recs'[r] = new /\ new # Nil
        /\ \A k \in DOMAIN recs :
             recs'[k] = IF Live(k) /\ ~Closed(k) THEN [recs[k] EXCEPT !.phase = "stopped"] ELSE recs[k]
    <3>1. /\ recs' \in Seq(Record \union {Nil}) /\ Len(recs') = Len(recs) + 1
          /\ recs'[Len(old) + 1] = new /\ \A k \in 1..Len(old) : recs'[k] = old[k]
      BY <1>4, <2>2, <2>3
    <3>2. DOMAIN recs' = 1..Len(recs) + 1
      BY <3>1, LenProperties
    <3>3. DOMAIN recs' = DOMAIN recs \union {r}
      BY <1>0, <1>1, <3>2
    <3>4. recs'[r] = new
      BY <1>1, <2>2, <3>1
    <3>5. \A k \in DOMAIN recs :
            recs'[k] = IF Live(k) /\ ~Closed(k) THEN [recs[k] EXCEPT !.phase = "stopped"] ELSE recs[k]
      BY <1>0, <2>2, <3>1
    <3> QED
      BY <2>3, <3>1, <3>3, <3>4, <3>5, NoNilRecord
  <2>5. /\ client' \in Selection /\ client'.waiting /\ client'.rec = r
        /\ client'.source = source /\ client'.phase = "prepare" /\ client'.cursor = 0
        /\ client'.sequence = client.sequence
        /\ client'.failures = client.failures /\ client'.attempted = client.attempted
        /\ client'.status = client.status /\ client'.current = client.current
    BY <1>2, <1>4, Waiting
  <2>6. /\ job' \in Job /\ job' # Nil /\ job'.rec = r /\ job'.key = 0 /\ job'.waited
        /\ job'.pc = "prepare" /\ job'.uids = {}
    BY <1>4, WorkType, NoNilRecord
  <2>7. ASSUME NEW k \in DOMAIN recs, Live(k)'
        PROVE  /\ Live(k) /\ Closed(k)' /\ recs[k] \in Record
               /\ recs'[k].outcome = recs[k].outcome /\ recs'[k].failures = recs[k].failures
               /\ recs'[k].receipts = recs[k].receipts /\ recs'[k].cursor = recs[k].cursor
               /\ recs'[k].code = recs[k].code /\ recs'[k].sequence = recs[k].sequence
               /\ recs'[k].phase \in {recs[k].phase, "stopped"}
    <3>1. Live(k)
      BY <2>4, <2>7 DEF Live
    <3>2. recs[k] \in Record
      BY <1>0, <3>1, ElementOfSeq DEF Live
    <3>3. CASE ~Closed(k)
      BY <2>4, <3>1, <3>2, <3>3 DEF Closed, Record
    <3>4. CASE Closed(k)
      BY <2>4, <3>1, <3>2, <3>4 DEF Closed
    <3> QED
      BY <3>1, <3>2, <3>3, <3>4
  <2>8. TypeOK'
    BY <1>4, <2>4, <2>5, <2>6 DEF IInv, TypeOK
  <2>9. JobOK' /\ BatchOK'
    <3>1. Rec' = new /\ Live(r)' /\ ~Closed(r)'
      BY <2>3, <2>4, <2>6 DEF Rec, Live, Closed
    <3> QED
      BY <2>1, <2>3, <2>5, <2>6, <3>1, <1>4 DEF JobOK, BatchOK, Sent
  <2>10. TruthOK(r)' /\ ReceiptsOK(new) /\ Blank(new)
    <3>1. Blank(new) /\ ReceiptsOK(new)
      BY <2>3 DEF Blank, ReceiptsOK
    <3>2. ASSUME NEW m \in Messages
          PROVE  /\ new.outcome[m] = "none"
                 /\ ~\E i \in DOMAIN acted[m] : acted[m][i] = r
      BY <1>2, <2>3 DEF IInv, ActInv, ActedOK
    <3>3. new.stage = "search" => new.manifest = {} /\ \A m \in Messages : Untouched(m)'
      <4>1. source = 0 => \A m \in Messages : Untouched(m)
        BY DEF IInv, ActInv, SourceOK
      <4> QED
        BY <2>3, <4>1 DEF Untouched
    <3>4. \A m \in new.manifest : Untouched(m)'
      <4>1. source # 0 => \A m \in Retryable(source) : Untouched(m)
        BY <1>4 DEF IInv, ActInv, SourceOK, Sources
      <4> QED
        BY <2>3, <4>1 DEF Untouched
    <3>5. acted' = acted /\ new.failures = <<>>
      BY <2>3
    <3> QED
      BY <2>4, <3>1, <3>2, <3>3, <3>4, <3>5 DEF TruthOK
  <2>11. RecordsOK'
    <3>1. ASSUME NEW k \in DOMAIN recs, Live(k)'
          PROVE  TruthOK(k)' /\ ReceiptsOK(recs'[k]) /\ Closed(k)'
      <4>1. TruthOK(k) /\ ReceiptsOK(recs[k]) /\ \A m \in Messages : ~UnderWay(k, m)
        BY <2>1, <2>7, <3>1 DEF IInv, ActInv, RecordsOK, UnderWay, Busy
      <4>2. /\ \A m \in Messages :
                 recs[k].outcome[m] = "processed" => m \notin placed
            /\ \A m \in Messages : (\E i \in DOMAIN acted[m] : acted[m][i] = k) =>
                 recs[k].outcome[m] \in {"processed", "unknown"}
            /\ \A i \in DOMAIN recs[k].failures :
                 recs[k].failures[i].retryable => recs[k].outcome[recs[k].failures[i].ref] = "failed"
        BY <4>1 DEF TruthOK
      <4>3. TruthOK(k)'
        BY <2>7, <3>1, <4>2 DEF TruthOK
      <4>4. ReceiptsOK(recs'[k])
        BY <2>7, <3>1, <4>1 DEF ReceiptsOK, Closed
      <4> QED
        BY <2>7, <3>1, <4>3, <4>4
    <3> QED
      BY <2>4, <2>10, <3>1 DEF RecordsOK
  <2>12. ActedOK'
    BY <2>4, <2>6 DEF IInv, ActInv, ActedOK, Untouched, Sent
  <2>13. SourceOK'
    <3>1. ASSUME NEW k \in Sources', Live(k)', k # r
          PROVE  k \in Sources /\ Live(k) /\ Retryable(k)' = Retryable(k)
      <4>1. k \in DOMAIN recs /\ Live(k)
        BY <2>4, <2>7, <3>1 DEF Live
      <4>2. k = source
        BY <2>5, <3>1 DEF Sources
      <4>3. Retryable(k)' = Retryable(k)
        BY <2>7, <3>1, <4>1 DEF Retryable
      <4> QED
        BY <4>1, <4>2, <4>3 DEF Sources
    <3>2. Retryable(r)' = {}
      BY <2>3, <2>4 DEF Retryable
    <3>3. ASSUME NEW k \in Sources', Live(k)', NEW m \in Retryable(k)'
          PROVE  Untouched(m)
      BY <3>1, <3>2, <3>3 DEF IInv, ActInv, SourceOK
    <3>4. source = 0 => \A m \in Messages : Untouched(m)
      BY DEF IInv, ActInv, SourceOK
    <3> QED
      BY <2>5, <3>3, <3>4 DEF SourceOK, Untouched
  <2>14. PageOK'
    BY <2>1, <2>4, <2>5, <2>10 DEF IInv, ActInv, PageOK
  <2>15. ReplyOK' /\ CursorOK'
    BY <1>4, <2>1, <2>5 DEF ReplyOK, CursorOK
  <2>16. PageInv'
    <3>1. Consistent(client', new, Len(new.failures))
      BY <2>3, <2>5, ConsistentPrepares
    <3>2. Reported(r)' = Len(new.failures)
      BY <2>4, <2>6 DEF Reported, Executing
    <3> QED
      BY <2>4, <2>5, <3>1, <3>2 DEF PageInv
  <2> QED
    BY <2>8, <2>9, <2>11, <2>12, <2>13, <2>14, <2>15, <2>16 DEF IInv, ActInv
<1>5. \/ Refuse("SCOPE_CURSOR_MISMATCH") \/ Refuse("SCOPE_BUSY") \/ Refuse("SCOPE_EXPIRED")
      \/ /\ client.cursor = 0 /\ \A k \in DOMAIN recs : Live(k) /\ ~Closed(k) => ~Busy(k)
         /\ source # 0 => Live(source)
         /\ recs' = Append(old, new) /\ job' = Work(r, "prepare") /\ UNCHANGED reply
  <2> DEFINE others == {k \in DOMAIN recs : Live(k) /\ ~Closed(k)}
  <2>1. old = [k \in DOMAIN recs |-> IF k \in others THEN [recs[k] EXCEPT !.phase = "stopped"]
                                     ELSE recs[k]]
    OBVIOUS
  <2>2. \A k \in DOMAIN recs : Live(k) /\ ~Closed(k) => k \in others
    OBVIOUS
  <2> HIDE DEF old, new
  <2>3. \/ Refuse("SCOPE_CURSOR_MISMATCH") \/ Refuse("SCOPE_BUSY") \/ Refuse("SCOPE_EXPIRED")
        \/ /\ client.cursor = 0 /\ ~\E k \in others : Busy(k)
           /\ source # 0 => Live(source)
           /\ recs' = Append(old, new) /\ job' = Work(r, "prepare") /\ UNCHANGED reply
    BY <1>1, <2>1 DEF Create, new
  <2> QED
    BY <2>2, <2>3
<1> HIDE DEF old, new
<1> QED
  BY <1>3, <1>4, <1>5, AllCodes

LEMMA AskStep == ASSUME IInv, Ask
                 PROVE  IInv'
<1>1. /\ client.current /\ ~client.waiting /\ asked' \in Nat
      /\ UNCHANGED <<action, placed, valid, archive, inflight, acted, alive, events>>
  BY DEF Ask, IInv, TypeOK
<1> QED
  BY <1>1, PrepareStepOK, CreateStepOK, ExecuteStepOK DEF Ask

-------------------------------------------------------------------------------
(* The theorems.                                                           *)

LEMMA InitOK == Init => IInv
<1> SUFFICES ASSUME Init
             PROVE  IInv
  OBVIOUS
<1>1. TypeOK
  <2>1. <<>> \in Seq(Record \union {Nil}) /\ <<>> \in Seq(Nat) /\ <<>> \in Seq(Failure)
    OBVIOUS
  <2>2. NoSelection \in Selection
    BY <2>1 DEF NoSelection, Selection
  <2>3. action \in {"archive", "delete-forever"}
    BY ScopedAssumption DEF Init
  <2> QED
    BY <2>1, <2>2, <2>3 DEF Init, TypeOK
<1>2. /\ job = Nil /\ reply = Nil /\ recs = <<>> /\ acted = [m \in Messages |-> <<>>]
      /\ client = NoSelection
  BY DEF Init
<1>3. /\ client.status = "idle" /\ client.phase = "prepare" /\ client.rec = 0 /\ client.source = 0
      /\ client.failures = <<>> /\ client.attempted = 0 /\ client.sequence = Nil
      /\ ~client.waiting /\ ~client.current
  BY <1>2 DEF NoSelection
<1>4. \A m \in Messages : Untouched(m) /\ Len(acted[m]) = 0 /\ DOMAIN acted[m] = {}
  BY <1>2 DEF Untouched
<1>5. \A r : ~Live(r)
  BY <1>2 DEF Live
<1>6. JobOK /\ BatchOK /\ ReplyOK /\ CursorOK
  BY <1>2, <1>3 DEF JobOK, BatchOK, ReplyOK, CursorOK
<1>7. RecordsOK /\ ActedOK /\ SourceOK /\ PageOK /\ PageInv
  BY <1>2, <1>3, <1>4, <1>5 DEF RecordsOK, ActedOK, SourceOK, PageOK, Sent, PageInv
<1> QED
  BY <1>1, <1>6, <1>7 DEF IInv, ActInv

LEMMA NextOK == ASSUME IInv, [Next]_vars
                PROVE  IInv'
<1>1. CASE UNCHANGED vars
  <2>1. TypeOK' /\ JobOK' /\ BatchOK'
    BY <1>1 DEF vars, IInv, ActInv, TypeOK, JobOK, BatchOK, Rec, Live, Closed, Sent
  <2>2. RecordsOK'
    <3>1. ASSUME NEW r \in DOMAIN recs, Live(r)
          PROVE  TruthOK(r)'
      <4>1. TruthOK(r)
        BY <3>1 DEF IInv, ActInv, RecordsOK
      <4> QED
        BY <1>1, <4>1 DEF vars, TruthOK, UnderWay, Busy, Closed, Untouched
    <3> QED
      BY <1>1, <3>1 DEF vars, IInv, ActInv, RecordsOK, Live, Closed
  <2>3. ActedOK' /\ SourceOK'
    BY <1>1 DEF vars, IInv, ActInv, ActedOK, SourceOK, Sources, Live, Retryable, Untouched, Sent
  <2>4. PageOK' /\ ReplyOK' /\ CursorOK'
    BY <1>1 DEF vars, IInv, ActInv, PageOK, ReplyOK, CursorOK, Live
  <2>5. PageInv'
    <3>1. client \in Selection /\ Executing' = Executing
      BY <1>1 DEF Executing, IInv, TypeOK, vars
    <3> QED
      BY <1>1, <3>1, PageSame DEF IInv, ActInv, Live, vars
  <2> QED
    BY <2>1, <2>2, <2>3, <2>4, <2>5 DEF IInv, ActInv
<1> QED
  BY <1>1, TurnStep, ShowSteps, AskStep, HearStep, PrepareJobStep, ExecuteJobStep, MailStep, LoseStep
  DEF Next, Page

\* The invariant of the bulk actions holds in every state that can be reached.
THEOREM Inductive == Spec => []IInv
BY InitOK, NextOK, PTL DEF Spec

\* Each variable holds what it is made for, whatever is lost, repeated or interrupted.
THEOREM TypesHold == Spec => []TypeOK
<1>1. IInv => TypeOK
  BY DEF IInv
<1> QED
  BY <1>1, Inductive, PTL

\* No message is changed twice, by whatever selection, batch or retry (settle, plannedGroups).
THEOREM NeverRepeatedHolds == Spec => []NeverRepeated
<1>1. IInv => NeverRepeated
  BY DEF IInv, ActInv, ActedOK, NeverRepeated
<1> QED
  BY <1>1, Inductive, PTL

\* What a selection says of a message is true (runScopedGroup, settle).
THEOREM OutcomeTrueHolds == Spec => []OutcomeTrue
<1>1. IInv => OutcomeTrue
  <2> SUFFICES ASSUME IInv, NEW r \in DOMAIN recs, Live(r), NEW m \in recs[r].manifest
               PROVE  /\ recs[r].outcome[m] = "processed" => m \notin placed
                      /\ recs[r].outcome[m] \in {"none", "failed", "skipped"}
                           /\ ~(Busy(r) /\ m \in job.uids) => r \notin Range(acted[m])
    BY DEF OutcomeTrue
  <2>1. TruthOK(r)
    BY DEF IInv, ActInv, RecordsOK
  <2>2. m \in Messages
    BY FailureTypes, ElementOfSeq, LenProperties DEF IInv, TypeOK, Live
  <2>3. ASSUME r \in Range(acted[m])
        PROVE  recs[r].outcome[m] \in {"processed", "unknown"} \/ UnderWay(r, m)
    <3>1. \E i \in DOMAIN acted[m] : acted[m][i] = r
      BY <2>3 DEF Range
    <3> QED
      BY <2>1, <2>2, <3>1 DEF TruthOK
  <2> QED
    BY <2>1, <2>2, <2>3 DEF TruthOK, UnderWay
<1> QED
  BY <1>1, Inductive, PTL

\* The page counts every batch once, whatever answers were lost, repeated or ignored (drive).
THEOREM PageAgreesHolds == Spec => []PageAgrees
<1>1. IInv => PageAgrees
  <2> SUFFICES ASSUME IInv, Live(client.rec)
               PROVE  /\ IsPrefix(client.failures, recs[client.rec].failures)
                      /\ client.attempted <= Settled(recs[client.rec])
                      /\ client.status = "completed" =>
                           /\ client.failures = recs[client.rec].failures
                           /\ client.attempted = client.total
                           /\ Pending(recs[client.rec]) = {}
    BY DEF PageAgrees
  <2>1. PICK rec \in Record : rec = recs[client.rec]
    BY ElementOfSeq, LenProperties DEF IInv, TypeOK, Live
  <2>2. /\ rec.failures \in Seq(Failure) /\ Len(rec.failures) \in Nat /\ Settled(rec) \in Nat
        /\ client.failures \in Seq(Failure) /\ client.phase \in {"prepare", "execute"}
    BY FailureTypes, LenProperties, CountTypes DEF IInv, TypeOK, Selection
  <2>3. CASE client.phase = "prepare"
    <3>1. client.failures = <<>> /\ client.attempted = 0 /\ client.status # "completed"
      BY <2>3 DEF IInv, ActInv, PageOK
    <3>2. IsPrefix(client.failures, rec.failures)
      BY <2>2, <3>1, SubSeqEmpty DEF IsPrefix
    <3> QED
      BY <2>1, <2>2, <3>1, <3>2
  <2>4. CASE client.phase = "execute"
    <3>1. PICK first \in Nat, cut \in [0..rec.sequence -> 0..Len(rec.failures)] :
            Follows(client, rec, first, cut)
      BY <2>1, <2>4 DEF IInv, ActInv, PageInv, Consistent
    <3>2. IsPrefix(client.failures, rec.failures)
      <4>1. CASE client.sequence = Nil
        <5>1. client.failures = <<>>
          BY <3>1, <4>1 DEF Follows
        <5> QED
          BY <2>2, <5>1, SubSeqEmpty DEF IsPrefix
      <4>2. CASE client.sequence # Nil
        <5>1. /\ client.sequence + 1 \in 0..rec.sequence
              /\ client.failures = SubSeq(rec.failures, 1, cut[client.sequence + 1])
          BY <3>1, <4>2, FailureTypes DEF Follows, IInv, TypeOK, Selection
        <5>2. PICK n \in 0..Len(rec.failures) : n = cut[client.sequence + 1]
          BY <5>1
        <5>3. \A i \in 1..n : rec.failures[i] \in Failure
          BY <2>2, ElementOfSeq
        <5>4. Len(SubSeq(rec.failures, 1, n)) = n
          BY <2>2, <5>3, SubSeqProperties
        <5> QED
          BY <2>2, <5>1, <5>2, <5>4 DEF IsPrefix
      <4> QED
        BY <4>1, <4>2
    <3> QED
      BY <2>1, <3>1, <3>2 DEF Follows
  <2> QED
    BY <2>2, <2>3, <2>4
<1> QED
  BY <1>1, Inductive, PTL
====
