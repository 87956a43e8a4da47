----------------------------- MODULE ScopedActions -----------------------------
(***************************************************************************)
(* Actions on everything a search found (webmail/server/mail/              *)
(* scoped-actions.js over runScopedGroup of actions.js), driven by the     *)
(* page (webmail/web/src/state/scoped-actions.js).  A selection is frozen  *)
(* in stages and then worked off in batches; every request carries the     *)
(* cursor of the receipt before it, and a repeated request gets the        *)
(* receipt it missed.                                                      *)
(***************************************************************************)
EXTENDS Integers, Sequences, FiniteSets, SequencesExt

CONSTANTS N,            \* the messages are the uids 1..N
          Home,         \* uid -> the number of its folder
          Actions,      \* the actions chosen from
          MaxRequests,  \* bound: requests of the page
          MaxRecords,   \* bound: selections made
          MaxEvents,    \* bound: changes from elsewhere
          Nil

Messages == 1..N
Folders  == {Home[m] : m \in Messages}

VARIABLES
  action,    \* what is done to the messages
  placed,    \* the messages found under their uid
  valid,     \* the folders that still have the UIDVALIDITY of the selection
  archive,   \* the Archive folder exists
  inflight,  \* messages a command names that the server may yet carry out
  acted,     \* message -> the selections that began a change of it, in order
  alive,     \* the session
  recs,      \* the selections in the order of their creation, Nil once disposed
  job,       \* the request being worked on
  reply,     \* the answer on its way to the page
  client,    \* the page: scopeSelection
  asked, events

mailVars == <<placed, valid, archive, inflight, acted>>
vars == <<action, placed, valid, archive, inflight, acted, alive, recs, job, reply, client,
          asked, events>>

-------------------------------------------------------------------------------
(* What the variables hold.                                                *)

Outcomes == {"none", "processed", "skipped", "failed", "unknown"}
Codes    == {"SCOPE_EXPIRED", "SESSION_EXPIRED", "SCOPE_BUSY", "SCOPE_CURSOR_MISMATCH",
             "SCOPE_CURSOR_INVALID", "STALE_SCOPE", "MAIL_UNAVAILABLE", "MAIL_REJECTED"}
Failure  == [ref : Messages, retryable : BOOLEAN]

PreparedAnswer == [kind : {"prepared"}, at : Nat, phase : {"preparing", "ready"}, cursor : Nat,
                   total : Nat \union {Nil}]
RunAnswer      == [kind : {"run"}, at : Nat, sequence : Nat, code : Codes \union {Nil},
                   state : {"running", "completed", "stopped"}, delta : Int, attempted : Nat,
                   failed : Seq(Failure), total : Nat, next : Nat]
ErrorAnswer    == [kind : {"error"}, code : Codes]

Record ==
  [phase : {"preparing", "ready", "running", "completed", "error", "stopped"},
   stage : {"search", "fences", "preflight", "bind", "done"}, source : Nat,
   code : Codes \union {Nil}, manifest : SUBSET Messages, checked : SUBSET Folders,
   needsCreate : BOOLEAN, createAttempted : BOOLEAN, targetReady : BOOLEAN,
   outcome : [Messages -> Outcomes], failures : Seq(Failure), cursor : Nat, sequence : Nat,
   receipts : SUBSET (PreparedAnswer \union RunAnswer)]

Job ==
  [rec : Nat, key : Nat, waited : BOOLEAN,
   pc : {"prepare", "plan", "source", "create", "open", "send", "answer", "expunge"},
   batch : SUBSET Messages, left : SUBSET Messages, uids : SUBSET Messages, mutated : BOOLEAN,
   from : Nat, before : Nat]

Selection ==
  [status : {"idle", "preparing", "running", "completed", "stopped", "error"},
   phase : {"prepare", "execute"}, rec : Nat, source : Nat, cursor : Nat,
   sequence : Nat \union {Nil}, failures : Seq(Failure), attempted : Nat,
   total : Nat \union {Nil}, stop : BOOLEAN, recover : BOOLEAN, lost : BOOLEAN,
   code : Codes \union {Nil}, waiting : BOOLEAN, current : BOOLEAN]

ASSUME ScopedAssumption ==
  /\ N \in Nat /\ Home \in [Messages -> Nat]
  /\ Actions \subseteq {"archive", "delete-forever"}
  /\ MaxRequests \in Nat /\ MaxRecords \in Nat /\ MaxEvents \in Nat
  /\ Nil \notin Nat \union Codes
  /\ Nil \notin Record /\ Nil \notin Job
  /\ Nil \notin PreparedAnswer /\ Nil \notin RunAnswer /\ Nil \notin ErrorAnswer

\* Each variable holds what it is made for.
TypeOK ==
  /\ action \in {"archive", "delete-forever"}
  /\ placed \subseteq Messages /\ valid \subseteq Folders /\ archive \in BOOLEAN
  /\ inflight \subseteq Messages /\ acted \in [Messages -> Seq(Nat)]
  /\ alive \in BOOLEAN
  /\ recs \in Seq(Record \union {Nil}) /\ job \in Job \union {Nil}
  /\ reply \in PreparedAnswer \union RunAnswer \union ErrorAnswer \union {Nil}
  /\ client \in Selection /\ asked \in Nat /\ events \in Nat

-------------------------------------------------------------------------------
(* A selection.                                                            *)

NewRecord(source, stage, manifest, needsCreate) ==
  [phase |-> "preparing", stage |-> stage, source |-> source, code |-> Nil,
   manifest |-> manifest, checked |-> {}, needsCreate |-> needsCreate,
   createAttempted |-> FALSE, targetReady |-> FALSE,
   outcome |-> [m \in Messages |-> "none"], failures |-> <<>>,
   cursor |-> 0, sequence |-> 0, receipts |-> {}]

Closed(r) == recs[r].phase \in {"completed", "error", "stopped"}
Live(r)   == r \in DOMAIN recs /\ recs[r] # Nil

Busy(r) == job # Nil /\ job.rec = r

\* What execute() has not settled yet.
Pending(rec) == {m \in rec.manifest : rec.outcome[m] = "none"}

Settled(rec) == Cardinality(rec.manifest \ Pending(rec))

\* Whatever was not processed, also what may yet be.
RetryableOrUnknown(r) == {recs[r].failures[i].ref : i \in DOMAIN recs[r].failures}

\* Only a failure before anything was sent may be tried again.
Retryable(r) ==
  {recs[r].failures[i].ref : i \in {i \in DOMAIN recs[r].failures : recs[r].failures[i].retryable}}

\* A set of uids in their order.
Listed(uids) ==
  [i \in 1..Cardinality(uids) |-> CHOOSE m \in uids : Cardinality({k \in uids : k <= m}) = i]

\* settle(): outcomes of the messages, failures listed in the order of the uids.
Settle(rec, messages, status, retryable) ==
  LET new == {m \in messages : rec.outcome[m] = "none"}
      listed == Listed(new)
  IN  [rec EXCEPT
         !.outcome = [m \in Messages |-> IF m \in new THEN status ELSE @[m]],
         !.failures = IF status \in {"failed", "unknown"}
                      THEN @ \o [i \in DOMAIN listed |->
                                   [ref |-> listed[i], retryable |-> retryable /\ status # "unknown"]]
                      ELSE @]

\* The smallest n members of a set of uids.
Least(n, uids) == {m \in uids : Cardinality({k \in uids : k <= m}) <= n}

FirstFolder(messages) ==
  CHOOSE f \in Folders : /\ \E m \in messages : Home[m] = f
                         /\ \A m \in messages : f <= Home[m]

-------------------------------------------------------------------------------
(* Answers.                                                                *)

\* The request ends: the page hears of it if it is still waiting for this one.
Answer(message) ==
  /\ job' = Nil
  /\ reply' = IF job.waited THEN message ELSE reply

Refused(code) == [kind |-> "error", code |-> code]

-------------------------------------------------------------------------------
(* The page.                                                               *)

NoSelection == [status |-> "idle", phase |-> "prepare", rec |-> 0, source |-> 0, cursor |-> 0,
                sequence |-> Nil, failures |-> <<>>, attempted |-> 0, total |-> Nil,
                stop |-> FALSE, recover |-> FALSE, lost |-> FALSE, code |-> Nil,
                waiting |-> FALSE, current |-> FALSE]

\* Errors after which the selection is no more.
Gone == {"SCOPE_EXPIRED", "SESSION_EXPIRED"}

Drive(c, recover) == [c EXCEPT !.status = IF c.phase = "execute" THEN "running" ELSE "preparing",
                               !.stop = FALSE, !.recover = recover, !.code = Nil, !.current = TRUE]

\* confirmScopedAction: a new selectionKey.
Confirm ==
  /\ client.status = "idle" /\ ~client.waiting
  /\ Len(recs) < MaxRecords
  /\ client' = Drive([client EXCEPT !.rec = Len(recs) + 1], FALSE)
  /\ UNCHANGED <<action, placed, valid, archive, inflight, acted, alive, recs, job, reply,
                 asked, events>>

\* confirmRetryFailedScopedAction: a new selection of the failures that may be retried.
RetryFailed ==
  /\ client.status \in {"completed", "stopped", "error"} /\ ~client.waiting
  /\ client.code \notin Gone
  /\ \E i \in DOMAIN client.failures : client.failures[i].retryable
  /\ Len(recs) < MaxRecords
  /\ client' = Drive([NoSelection EXCEPT !.rec = Len(recs) + 1, !.source = client.rec], FALSE)
  /\ UNCHANGED <<action, placed, valid, archive, inflight, acted, alive, recs, job, reply,
                 asked, events>>

\* resumeScopedAction: what the page does not know of is asked for first.
Resume ==
  /\ client.status \in {"stopped", "error"} /\ ~client.waiting
  /\ client.code \notin Gone \union {"STALE_SCOPE", "SCOPE_CURSOR_INVALID", "SCOPE_CURSOR_MISMATCH"}
  /\ ~(client.phase = "execute" /\ client.cursor = 0)
  /\ client' = Drive(client, client.lost)
  /\ UNCHANGED <<action, placed, valid, archive, inflight, acted, alive, recs, job, reply,
                 asked, events>>

\* stopScopedAction.
Stop ==
  /\ client.status \in {"preparing", "running"} /\ ~client.stop
  /\ client' = [client EXCEPT !.stop = TRUE]
  /\ UNCHANGED <<action, placed, valid, archive, inflight, acted, alive, recs, job, reply,
                 asked, events>>

\* interruptScopedAction: the answer under way is ignored.
Interrupt ==
  /\ client.status \in {"preparing", "running"} /\ client.waiting
  /\ client' = [client EXCEPT !.status = "stopped", !.stop = TRUE, !.lost = TRUE, !.current = FALSE]
  /\ UNCHANGED <<action, placed, valid, archive, inflight, acted, alive, recs, job, reply,
                 asked, events>>

\* The receipt of a batch, counted once: by its sequence.
Receipt(c, answer) ==
  LET fresh == c.sequence = Nil \/ (c.sequence # Nil /\ answer.sequence > c.sequence)
      old   == c.sequence # Nil /\ answer.sequence < c.sequence
  IN  IF old THEN c ELSE
      [c EXCEPT !.sequence = answer.sequence,
                !.failures = IF fresh THEN @ \o answer.failed ELSE @,
                !.attempted = answer.attempted, !.total = answer.total, !.cursor = answer.next]

\* What the page makes of an answer (drive).
Heard(answer) ==
  LET c == [client EXCEPT !.waiting = FALSE, !.current = FALSE] IN
  IF ~client.current THEN c
  ELSE CASE answer.kind = "lost" ->
              [c EXCEPT !.status = "stopped", !.lost = TRUE, !.stop = TRUE]
         [] answer.kind = "error" ->
              [c EXCEPT !.status = "error", !.lost = FALSE, !.stop = TRUE, !.code = answer.code]
         [] answer.kind = "prepared" ->
              [c EXCEPT !.cursor = answer.cursor, !.lost = FALSE, !.total = answer.total,
                        !.phase = IF answer.phase = "ready" THEN "execute" ELSE "prepare",
                        !.status = IF c.stop \/ c.recover THEN "stopped"
                                   ELSE IF answer.phase = "ready" THEN "running" ELSE "preparing",
                        !.current = ~(c.stop \/ c.recover)]
         [] answer.kind = "run" /\ answer.state = "stopped" ->
              [Receipt(c, answer) EXCEPT !.status = "error", !.lost = FALSE, !.stop = TRUE,
                                         !.code = answer.code]
         [] answer.kind = "run" /\ answer.state = "completed" ->
              [Receipt(c, answer) EXCEPT !.status = "completed", !.lost = FALSE, !.stop = FALSE]
         [] OTHER ->
              LET idle == c.stop \/ c.recover \/ answer.delta = 0 IN
              [Receipt(c, answer) EXCEPT !.status = IF idle THEN "stopped" ELSE "running",
                                         !.lost = FALSE, !.current = ~idle]

Hear ==
  /\ client.waiting /\ reply # Nil
  /\ client' = Heard(reply)
  /\ reply' = Nil
  /\ UNCHANGED <<action, placed, valid, archive, inflight, acted, alive, recs, job, asked, events>>

\* The connection of the page breaks: a request or an answer is lost, the work goes on.
Disconnect ==
  /\ client.waiting
  /\ client' = Heard([kind |-> "lost"])
  /\ reply' = Nil
  /\ job' = IF job = Nil THEN Nil ELSE [job EXCEPT !.waited = FALSE]
  /\ UNCHANGED <<action, placed, valid, archive, inflight, acted, alive, recs, asked, events>>

-------------------------------------------------------------------------------
(* Requests arrive.                                                        *)

Work(r, pc) ==
  [rec |-> r, key |-> client.cursor, waited |-> TRUE, pc |-> pc, batch |-> {},
   left |-> {}, uids |-> {}, mutated |-> FALSE, from |-> 0, before |-> 0]

Refuse(code) == /\ reply' = Refused(code)
                /\ UNCHANGED <<recs, job>>

Replay(r) == /\ \E receipt \in recs[r].receipts : receipt.at = client.cursor /\ reply' = receipt
             /\ UNCHANGED <<recs, job>>

Answered(r) == \E receipt \in recs[r].receipts : receipt.at = client.cursor

\* prepare() with a selectionKey the server does not know: older selections stop.
Create(r) ==
  LET source == client.source
      others == {k \in DOMAIN recs : Live(k) /\ ~Closed(k)}
  IN
  /\ client' = [client EXCEPT !.waiting = TRUE, !.rec = r]
  /\ IF client.cursor # 0 THEN Refuse("SCOPE_CURSOR_MISMATCH")
     ELSE IF \E k \in others : Busy(k) THEN Refuse("SCOPE_BUSY")
     ELSE IF source # 0 /\ ~Live(source) THEN Refuse("SCOPE_EXPIRED")
     ELSE /\ recs' = Append([k \in DOMAIN recs |-> IF k \in others THEN [recs[k] EXCEPT !.phase = "stopped"]
                                                   ELSE recs[k]],
                            IF source = 0 THEN NewRecord(0, "search", {}, FALSE)
                            ELSE NewRecord(source, "fences", Retryable(source),
                                   recs[source].needsCreate /\ ~recs[source].targetReady))
          /\ job' = Work(r, "prepare")
          /\ UNCHANGED reply

\* prepare() of a known selectionKey.
Prepare(r) ==
  /\ client' = [client EXCEPT !.waiting = TRUE]
  /\ IF Busy(r) THEN Refuse("SCOPE_BUSY")
     ELSE IF recs[r].phase = "stopped" THEN Refuse("SCOPE_EXPIRED")
     ELSE IF Answered(r) THEN Replay(r)
     ELSE IF recs[r].phase = "error" THEN Refuse(recs[r].code)
     ELSE IF recs[r].phase # "preparing" THEN Refuse("SCOPE_CURSOR_INVALID")
     ELSE IF recs[r].cursor # client.cursor THEN Refuse("SCOPE_CURSOR_MISMATCH")
     ELSE job' = Work(r, "prepare") /\ UNCHANGED <<recs, reply>>

\* execute(): the cursor belongs to a receipt, to the next batch, or to nothing any more.
Execute(r) ==
  /\ client' = [client EXCEPT !.waiting = TRUE]
  /\ IF ~Live(r) THEN Refuse("SCOPE_EXPIRED")
     ELSE IF Busy(r) THEN Refuse("SCOPE_BUSY")
     ELSE IF recs[r].phase = "stopped" THEN Refuse("SCOPE_EXPIRED")
     ELSE IF Answered(r) THEN Replay(r)
     ELSE IF recs[r].phase \notin {"ready", "running"} \/ recs[r].cursor # client.cursor
          THEN Refuse("SCOPE_CURSOR_INVALID")
     ELSE /\ job' = [Work(r, "plan") EXCEPT !.from = Len(recs[r].failures),
                                                      !.before = Settled(recs[r])]
          /\ UNCHANGED <<recs, reply>>

Ask ==
  /\ alive /\ client.current /\ ~client.waiting /\ asked < MaxRequests
  /\ asked' = asked + 1
  /\ \/ client.phase = "prepare" /\ Live(client.rec) /\ Prepare(client.rec)
     \/ client.phase = "prepare" /\ ~Live(client.rec) /\ Len(recs) < MaxRecords /\ Create(Len(recs) + 1)
     \/ client.phase = "execute" /\ Execute(client.rec)
  /\ UNCHANGED <<action, placed, valid, archive, inflight, acted, alive, events>>

-------------------------------------------------------------------------------
(* prepare(): a selection is frozen, stage by stage.                       *)

Rec == recs[job.rec]
Put(rec) == recs' = [recs EXCEPT ![job.rec] = rec]

Prepared(rec) ==
  LET receipt == [kind |-> "prepared", at |-> job.key, phase |-> rec.phase, cursor |-> rec.cursor,
                  total |-> IF rec.stage \in {"search", "fences"} THEN Nil
                            ELSE Cardinality(rec.manifest)]
  IN  /\ Put([rec EXCEPT !.receipts = @ \union {receipt}])
      /\ Answer(receipt)

PrepareStep(stage) == job # Nil /\ job.pc = "prepare" /\ Rec.stage = stage

Search ==
  /\ PrepareStep("search")
  /\ Put([Rec EXCEPT !.manifest = placed, !.stage = "fences"])
  /\ UNCHANGED <<job, reply>>

\* The folders are visited one by one, twice: their UIDVALIDITY, then the rights.
Visit(stage, next) ==
  LET left == {m \in Rec.manifest : Home[m] \notin Rec.checked}
      f == FirstFolder(left)
  IN  /\ PrepareStep(stage)
      /\ IF left = {} THEN Put([Rec EXCEPT !.stage = next, !.checked = {}])
         ELSE f \in valid /\ Put([Rec EXCEPT !.checked = @ \union {f}])
      /\ UNCHANGED <<job, reply>>

\* bindAction ends: the destination is fixed and the run begins with a cursor of its own.
Bind ==
  /\ PrepareStep("bind")
  /\ Prepared([Rec EXCEPT !.needsCreate = @ \/ (action = "archive" /\ Rec.source = 0 /\ ~archive),
                          !.phase = "ready", !.stage = "done", !.cursor = @ + 1])

\* The time of the request is up: the stage goes on with the next request.
PrepareBudget ==
  /\ job # Nil /\ job.pc = "prepare" /\ Rec.stage # "search"
  /\ Prepared([Rec EXCEPT !.cursor = @ + 1])

\* A stage fails, the first one also when its time is up; the selection is lost.
PrepareFails ==
  /\ job # Nil /\ job.pc = "prepare"
  /\ \E code \in {"STALE_SCOPE", "MAIL_UNAVAILABLE"} :
       /\ code = "STALE_SCOPE" => \E m \in Rec.manifest : Home[m] \notin valid
       /\ Put([Rec EXCEPT !.phase = "error", !.manifest = {}, !.code = code])
       /\ Answer(Refused(code))

PrepareJob ==
  /\ \/ Search \/ Visit("fences", "preflight") \/ Visit("preflight", "bind") \/ Bind
     \/ PrepareBudget \/ PrepareFails
  /\ UNCHANGED <<mailVars, action, alive, client, asked, events>>

-------------------------------------------------------------------------------
(* execute(): one batch after the other, until something is uncertain.     *)

Step(pc) == job # Nil /\ job.pc = pc
Goto(pc) == job' = [job EXCEPT !.pc = pc]

\* A receipt that the record does not keep: a repeated request starts a batch of its own.
FinishUnrecorded(rec, code) ==
  LET next == IF code # Nil \/ Pending(rec) = {} THEN 0 ELSE rec.cursor IN
  /\ Put([rec EXCEPT !.phase = IF next = 0 THEN "completed" ELSE "running", !.sequence = @ + 1])
  /\ Answer([kind |-> "run", at |-> job.key, sequence |-> rec.sequence, code |-> code,
             state |-> IF code # Nil THEN "stopped" ELSE IF next = 0 THEN "completed" ELSE "running",
             delta |-> Settled(rec) - job.before, attempted |-> Settled(rec),
             failed |-> SubSeq(rec.failures, job.from + 1, Len(rec.failures)),
             total |-> Cardinality(rec.manifest), next |-> next])

\* The loop ends: a receipt for the cursor of this request, and the next cursor.
Finish(rec, code) ==
  LET complete == Pending(rec) = {} /\ code = Nil
      receipt == [kind |-> "run", at |-> job.key, sequence |-> rec.sequence, code |-> code,
                  state |-> IF code # Nil THEN "stopped" ELSE IF complete THEN "completed" ELSE "running",
                  delta |-> Settled(rec) - job.before, attempted |-> Settled(rec),
                  failed |-> SubSeq(rec.failures, job.from + 1, Len(rec.failures)),
                  total |-> Cardinality(rec.manifest),
                  next |-> IF code # Nil \/ complete THEN 0 ELSE rec.cursor + 1]
  IN  /\ Put([rec EXCEPT !.phase = IF code # Nil THEN "error" ELSE IF complete THEN "completed" ELSE "running",
                         !.cursor = IF code # Nil \/ complete THEN @ ELSE @ + 1,
                         !.sequence = @ + 1, !.receipts = @ \union {receipt}])
      /\ Answer(receipt)

\* plannedGroups: the next uids of the first folder that has any left.
Plan ==
  /\ Step("plan")
  /\ LET left == Pending(Rec)
         here == {m \in left : Home[m] = FirstFolder(left)}
     IN  IF left = {} THEN Finish(Rec, Nil) /\ UNCHANGED mailVars
         ELSE \/ \E n \in 1..Cardinality(here) :
                   /\ job' = [job EXCEPT !.batch = Least(n, here), !.mutated = FALSE,
                                         !.pc = IF Rec.needsCreate /\ ~Rec.targetReady THEN "source" ELSE "open"]
                   /\ UNCHANGED <<recs, reply, mailVars>>
              \/ Finish(Rec, Nil) /\ UNCHANGED mailVars

Group == CHOOSE f \in Folders : \E m \in job.batch : Home[m] = f

\* A source that was replaced stops the run before the archive folder is created.
CheckSource ==
  /\ Step("source") /\ Group \in valid
  /\ Goto("create")
  /\ UNCHANGED <<recs, reply, mailVars>>

\* ensureTarget: CREATE is tried once, whatever became of it.
CreateTarget ==
  /\ Step("create") /\ ~Rec.createAttempted
  /\ archive' = TRUE
  /\ \/ /\ Put([Rec EXCEPT !.createAttempted = TRUE, !.targetReady = TRUE])
        /\ Goto("open") /\ UNCHANGED reply
     \/ Finish([Rec EXCEPT !.createAttempted = TRUE], "MAIL_UNAVAILABLE")
  /\ UNCHANGED <<placed, valid, inflight, acted>>

CreateFails ==
  /\ Step("create")
  /\ Finish([Rec EXCEPT !.createAttempted = TRUE], "MAIL_REJECTED")
  /\ UNCHANGED mailVars

\* runScopedGroup up to the search: messages that are gone are skipped.
Open ==
  /\ Step("open") /\ Group \in valid
  /\ action = "archive" => archive
  /\ Put([Settle(Rec, job.batch \ placed, "skipped", FALSE) EXCEPT !.phase = "running"])
  /\ job' = [job EXCEPT !.left = job.batch \intersect placed,
                        !.pc = IF job.batch \intersect placed = {} THEN "plan" ELSE "send"]
  /\ UNCHANGED <<reply, mailVars>>

\* The folder was replaced: nothing is settled, the run is over.
Stale ==
  /\ Step("open") \/ Step("source")
  /\ Group \notin valid
  /\ Finish([Rec EXCEPT !.phase = "running"], "STALE_SCOPE")
  /\ UNCHANGED mailVars

\* A failure before anything was sent: the batch failed, and the next one is tried.
OpenFails ==
  /\ Step("open")
  /\ \E retryable \in BOOLEAN, gone \in {{}, job.batch \ placed} :
       Put([Settle(Settle(Rec, gone, "skipped", FALSE), job.batch, "failed", retryable)
              EXCEPT !.phase = "running"])
  /\ Goto("plan")
  /\ UNCHANGED <<reply, mailVars>>

\* The time is up and nothing is under way: what is left of the batch waits.
Exhausted ==
  /\ Step("source") \/ Step("open") \/ (Step("send") /\ ~job.mutated)
     \/ (Step("create") /\ ~Rec.createAttempted)
  /\ Finish(Rec, Nil)
  /\ UNCHANGED mailVars

\* Nothing that fails while the source of a new archive is checked leaves a trace.
SourceFails ==
  /\ Step("source")
  /\ Finish(Rec, "MAIL_UNAVAILABLE")
  /\ UNCHANGED mailVars

\* A command leaves for the uids at the head of the batch.
Send ==
  /\ Step("send") /\ ~job.mutated
  /\ \E n \in 1..Cardinality(job.left) :
       LET uids == Least(n, job.left) IN
       /\ job' = [job EXCEPT !.uids = uids, !.pc = "answer"]
       /\ acted' = [m \in Messages |-> IF m \in uids THEN Append(acted[m], job.rec) ELSE acted[m]]
       /\ inflight' = inflight \union uids
  /\ UNCHANGED <<recs, reply, placed, valid, archive>>

\* delete-forever: \Deleted is stored, EXPUNGE follows in the same unit.
Stored ==
  /\ Step("answer") /\ action = "delete-forever" /\ ~job.mutated
  /\ job' = [job EXCEPT !.mutated = TRUE, !.pc = "expunge"]
  /\ UNCHANGED <<recs, reply, mailVars>>

Expunge ==
  /\ Step("expunge")
  /\ Goto("answer")
  /\ UNCHANGED <<recs, reply, mailVars>>

\* The server confirms: these uids are processed, the rest of the batch goes on.
Confirmed ==
  /\ Step("answer")
  /\ action = "delete-forever" => job.mutated
  /\ job.uids \intersect inflight = {}
  /\ Put(Settle(Rec, job.uids, "processed", FALSE))
  /\ job' = [job EXCEPT !.left = @ \ job.uids, !.mutated = FALSE,
                        !.uids = {}, !.pc = IF job.left \subseteq job.uids THEN "plan" ELSE "send"]
  /\ UNCHANGED <<reply, mailVars>>

\* The rest of the batch is reported as a failure like any other.
UnconfirmedFailed ==
  /\ Step("answer") \/ Step("expunge")
  /\ Finish(Settle(Rec, job.left, "failed", TRUE), Nil)
  /\ UNCHANGED mailVars

\* No, a wrong or no answer, or none in time: all that is left of the batch is uncertain.
Unconfirmed ==
  /\ Step("answer") \/ Step("expunge")
  /\ Finish(Settle(Rec, job.left, "unknown", FALSE), Nil)
  /\ UNCHANGED mailVars

ExecuteJob ==
  /\ \/ Plan \/ CheckSource \/ CreateTarget \/ CreateFails \/ Open \/ Stale \/ OpenFails \/ Exhausted
     \/ SourceFails \/ Send \/ Stored \/ Expunge \/ Confirmed \/ Unconfirmed
  /\ UNCHANGED <<action, alive, client, asked, events>>

-------------------------------------------------------------------------------
(* The mail server, and what else happens.                                 *)

\* A command is carried out, perhaps long after its answer was given up.
Apply ==
  /\ \E m \in inflight :
       /\ inflight' = inflight \ {m}
       /\ placed' = placed \ {m}
  /\ UNCHANGED <<action, valid, archive, acted, alive, recs, job, reply, client, asked, events>>

\* Another client of the mailbox moves a message away, or replaces a folder.
Elsewhere ==
  /\ events < MaxEvents
  /\ events' = events + 1
  /\ \/ \E m \in placed : placed' = placed \ {m} /\ UNCHANGED valid
     \/ \E f \in valid : /\ valid' = valid \ {f}
                          /\ placed' = {m \in placed : Home[m] # f}
  /\ UNCHANGED <<action, archive, inflight, acted, alive, recs, job, reply, client, asked>>

\* A selection nobody asked about for half an hour.
Sweep ==
  /\ events < MaxEvents
  /\ events' = events + 1
  /\ \E r \in DOMAIN recs : Live(r) /\ ~Busy(r) /\ recs' = [recs EXCEPT ![r] = Nil]
  /\ UNCHANGED <<action, mailVars, alive, job, reply, client, asked>>

\* The session ends: everything is scrubbed, the page learns it from any answer.
EndSession ==
  /\ alive /\ events < MaxEvents
  /\ events' = events + 1
  /\ alive' = FALSE
  /\ recs' = [r \in DOMAIN recs |-> Nil]
  /\ job' = Nil
  /\ reply' = IF client.waiting THEN Refused("SESSION_EXPIRED") ELSE reply
  /\ UNCHANGED <<action, mailVars, client, asked>>

-------------------------------------------------------------------------------
Init ==
  /\ action \in Actions
  /\ placed = Messages /\ valid = Folders
  /\ archive = FALSE
  /\ inflight = {} /\ acted = [m \in Messages |-> <<>>]
  /\ alive = TRUE
  /\ recs = <<>> /\ job = Nil /\ reply = Nil
  /\ client = NoSelection
  /\ asked = 0 /\ events = 0

Page == Confirm \/ RetryFailed \/ Resume \/ Stop \/ Interrupt \/ Ask \/ Hear \/ Disconnect

Next == Page \/ PrepareJob \/ ExecuteJob \/ Apply \/ Elsewhere \/ Sweep \/ EndSession

Spec == Init /\ [][Next]_vars

-------------------------------------------------------------------------------
(* Properties.                                                             *)

\* A change of a message is begun once, by whatever selection, batch or retry: what
\* is uncertain is never repeated (settle, plannedGroups, retry of failures).
NeverRepeated == \A m \in Messages : Len(acted[m]) <= 1

\* What a selection says of a message is true: what was processed is no longer where it
\* was, and for what failed, was skipped or waits nothing was ever sent (runScopedGroup, settle).
OutcomeTrue ==
  \A r \in DOMAIN recs : Live(r) =>
    \A m \in recs[r].manifest :
      /\ recs[r].outcome[m] = "processed" => m \notin placed
      /\ recs[r].outcome[m] \in {"none", "failed", "skipped"} /\ ~(Busy(r) /\ m \in job.uids)
           => r \notin Range(acted[m])

\* The page counts every batch once, whatever answers were lost, repeated or ignored:
\* its failures are the first of the selection's, and all of them when it is done.
PageAgrees ==
  LET r == client.rec IN
  Live(r) =>
    /\ IsPrefix(client.failures, recs[r].failures)
    /\ client.attempted <= Settled(recs[r])
    /\ client.status = "completed" =>
         /\ client.failures = recs[r].failures
         /\ client.attempted = client.total
         /\ Pending(recs[r]) = {}
===============================================================================
