------------------------------ MODULE ComposeSend ------------------------------
(***************************************************************************)
(* Sending and saving a message (webmail/server/mail/compose.js, smtp.js). *)
(*                                                                         *)
(* send() claims its composeId at once and queues a job; draft() queues a  *)
(* job; the jobs of a session run one after the other.  A send talks to    *)
(* the SMTP server, then files a copy by IMAP and removes the draft and    *)
(* the uploaded files the copy replaces.  A save appends a new draft,      *)
(* verifies it and removes the old one.  Every call to a server may fail,  *)
(* and may fail although the server did what it was asked.                 *)
(*                                                                         *)
(* A message is its composeId, the version the composer had reached and    *)
(* the one uploaded file it may carry.  The composer and the two mail      *)
(* servers are external: the composer may ask for anything at any time,    *)
(* and answers to it may be lost.                                          *)
(***************************************************************************)
EXTENDS Naturals, Sequences

CONSTANTS Keys,          \* the composeIds
          MaxVersion,    \* bound: edits of a message
          MaxRequests,   \* bound: calls of send() and draft()
          MaxUploads,    \* bound: calls of upload()
          Nil            \* an absent receipt, job or reference

VARIABLES
  open,       \* the session lives (session.connection)
  composer,   \* composeId -> the version it last sent or saved, its draftRef and upload
  requests,   \* calls of send() and draft() so far
  uploads,    \* uploaded files so far, their ids are 1..uploads
  queue,      \* state.tail: the jobs that wait
  job,        \* the job that runs
  pc,         \* the step it is at
  work,       \* what it knows so far
  sends,      \* state.sends: composeId -> receipt
  files,      \* state.attachments: id -> none, or used within a day or not
  mailbox,    \* the messages in Sent and Drafts
  lastRef,    \* the last message reference the IMAP server gave out
  delivered,  \* composeId -> messages the SMTP server accepted
  saved       \* history: composeId -> the version of its last successful save

vars == <<open, composer, requests, uploads, queue, job, pc, work, sends, files,
          mailbox, lastRef, delivered, saved>>

Job == [op: {"send", "save"}, key: Keys, version: Nat, ref: Nat \union {Nil},
        file: Nat \union {Nil}, manual: BOOLEAN]

Receipt == [status: {"checking", "sent", "unknown", "not_sent"}, copyPending: BOOLEAN,
            savedTo: {"sent", "drafts", Nil}, manual: BOOLEAN]

Message == [ref: Nat, box: {"sent", "drafts"}, key: Keys, version: Nat,
            file: Nat \union {Nil}]

Work == [accepted: BOOLEAN, retried: BOOLEAN, savedTo: {"sent", "drafts", Nil}, ref: Nat \union {Nil}]

ASSUME ComposeAssumption ==
  /\ MaxVersion \in Nat \ {0} /\ MaxRequests \in Nat /\ MaxUploads \in Nat
  /\ Nil \notin Nat /\ Nil \notin {"sent", "drafts"}
  /\ Nil \notin Job /\ Nil \notin Receipt

-------------------------------------------------------------------------------
Receive(status) == [status |-> status, copyPending |-> FALSE, savedTo |-> Nil, manual |-> FALSE]

NoWork == [accepted |-> FALSE, retried |-> FALSE, savedTo |-> Nil, ref |-> Nil]

InDrafts(ref) == \E m \in mailbox : m.ref = ref /\ m.box = "drafts"

\* The message of the job as the IMAP server stores it.
Stored(box) == [ref |-> lastRef + 1, box |-> box, key |-> job.key, version |-> job.version,
                file |-> job.file]

Store(box) == /\ mailbox' = mailbox \union {Stored(box)}
              /\ lastRef' = lastRef + 1

\* An IMAP call that fails, before or after the server did it.
StoreFails(box) == \/ UNCHANGED <<mailbox, lastRef>>
                   \/ open /\ Store(box)

Delete(ref) == mailbox' = {m \in mailbox : m.ref # ref}

\* Whether it succeeds or not.
TryDelete(ref) == \/ UNCHANGED mailbox
                  \/ open /\ Delete(ref)

-------------------------------------------------------------------------------
(* The composer.                                                           *)

\* Faulty: a send whose outcome is unknown may be tried again.
ClaimedUnlessUnknown(k) == sends[k] # Nil /\ sends[k].status \notin {"not_sent", "unknown"}

\* send() answers with the receipt it has, unless it says the mail did not go.
Claimed(k) == sends[k] # Nil /\ sends[k].status # "not_sent"

\* A call that enters the queue, with what the composer holds by then.
Ask(k, op, manual) ==
  /\ open
  /\ requests < MaxRequests
  /\ requests' = requests + 1
  /\ \E version \in composer[k].version..MaxVersion :
       /\ composer' = [composer EXCEPT ![k].version = version]
       /\ queue' = Append(queue, [op |-> op, key |-> k, version |-> version,
                                  ref |-> composer[k].ref, file |-> composer[k].file,
                                  manual |-> manual])

\* send(): the receipt is claimed before anything is awaited.
Send(k) == /\ ~Claimed(k)
           /\ Ask(k, "send", FALSE)
           /\ sends' = [sends EXCEPT ![k] = Receive("checking")]
           /\ UNCHANGED <<open, uploads, job, pc, work, files, mailbox, lastRef, delivered, saved>>

\* draft(): only a manual save names its composeId.
Save(k, manual) ==
  /\ Ask(k, "save", manual)
  /\ UNCHANGED <<open, uploads, job, pc, work, sends, files, mailbox, lastRef, delivered, saved>>

-------------------------------------------------------------------------------
(* Uploaded files.  upload() and remove() are jobs of the same queue that  *)
(* end in one step; either may be asked for before the jobs that wait.  A  *)
(* file that no job used for a day is stale, and every job begins by       *)
(* pruning those.                                                          *)

Pruned == [id \in DOMAIN files |-> IF files[id] = "stale" THEN "none" ELSE files[id]]

Upload(k) == /\ open /\ job = Nil
             /\ uploads < MaxUploads
             /\ uploads' = uploads + 1
             /\ files' = [Pruned EXCEPT ![uploads + 1] = "fresh"]
             /\ composer' = [composer EXCEPT ![k].file = uploads + 1]
             /\ UNCHANGED <<open, requests, queue, job, pc, work, sends, mailbox, lastRef,
                            delivered, saved>>

Remove(k) == /\ open /\ job = Nil
             /\ composer[k].file # Nil
             /\ files' = [Pruned EXCEPT ![composer[k].file] = "none"]
             /\ composer' = [composer EXCEPT ![k].file = Nil]
             /\ UNCHANGED <<open, requests, uploads, queue, job, pc, work, sends, mailbox,
                            lastRef, delivered, saved>>

Age(id) == /\ files[id] = "fresh"
           /\ files' = [files EXCEPT ![id] = "stale"]
           /\ UNCHANGED <<open, composer, requests, uploads, queue, job, pc, work, sends,
                          mailbox, lastRef, delivered, saved>>

\* session.sweepAttachments(): an empty job.
Sweep == /\ open /\ job = Nil
         /\ \E id \in DOMAIN files : files[id] = "stale"
         /\ files' = Pruned
         /\ UNCHANGED <<open, composer, requests, uploads, queue, job, pc, work, sends,
                        mailbox, lastRef, delivered, saved>>

\* Logout, expiry or revocation: the receipts and the files go, the job that
\* runs goes on without an IMAP connection.
EndSession == /\ open
              /\ open' = FALSE
              /\ sends' = [k \in Keys |-> Nil]
              /\ files' = [id \in DOMAIN files |-> "none"]
              /\ UNCHANGED <<composer, requests, uploads, queue, job, pc, work, mailbox,
                             lastRef, delivered, saved>>

-------------------------------------------------------------------------------
(* The jobs.                                                               *)

\* serial(): active(), then prune().
StartJob == /\ pc = "idle" /\ queue # <<>>
            /\ open
            /\ job' = Head(queue)
            /\ queue' = Tail(queue)
            /\ files' = Pruned
            /\ pc' = "check"
            /\ UNCHANGED <<open, composer, requests, uploads, work, sends, mailbox, lastRef,
                           delivered, saved>>

\* SESSION_EXPIRED.
DropJob == /\ pc = "idle" /\ queue # <<>>
           /\ ~open
           /\ queue' = Tail(queue)
           /\ UNCHANGED <<open, composer, requests, uploads, job, pc, work, sends, files,
                          mailbox, lastRef, delivered, saved>>

\* The queue goes on whatever became of the job.
EndJob == job' = Nil /\ work' = NoWork /\ pc' = "idle"

\* Faulty: only an unknown outcome is written down.
FailSilently(error) ==
  /\ EndJob
  /\ sends' = IF job.op = "send" /\ sends[job.key] # Nil /\ error = "SMTP_OUTCOME_UNKNOWN"
              THEN [sends EXCEPT ![job.key] = Receive("unknown")]
              ELSE sends

\* What a caller of send() is left with when its job throws error.
Fail(error) ==
  /\ EndJob
  /\ sends' = IF job.op = "send" /\ sends[job.key] # Nil /\ sends[job.key].status # "sent"
              THEN [sends EXCEPT ![job.key] =
                      Receive(IF error = "SMTP_OUTCOME_UNKNOWN" THEN "unknown" ELSE "not_sent")]
              ELSE sends

\* Everything before the message leaves or is stored: addresses, the draft it
\* continues, the file it carries, its compilation; for a send, active().
CheckJob ==
  /\ pc = "check"
  /\ open
  /\ job.ref # Nil => InDrafts(job.ref)
  /\ job.file # Nil => files[job.file] # "none"
  /\ files' = IF job.file # Nil THEN [files EXCEPT ![job.file] = "fresh"] ELSE files
  /\ pc' = IF job.op = "send" THEN "smtp" ELSE "append"
  /\ UNCHANGED <<open, composer, requests, uploads, queue, job, work, sends, mailbox, lastRef,
                 delivered, saved>>

CheckFails ==
  /\ pc = "check"
  /\ Fail("MAIL_UNAVAILABLE")
  /\ UNCHANGED <<open, composer, requests, uploads, queue, files, mailbox, lastRef,
                 delivered, saved>>

-------------------------------------------------------------------------------
(* smtp.send().  An error says whether DATA had begun, whether it carries  *)
(* a response code of 400 or above, and whether its command or code is one *)
(* of connection setup or envelope.                                        *)

\* Faulty: a lost connection is taken for one that was never made.
ClassifyByCode(error) ==
  IF error.response THEN "SMTP_REJECTED"
  ELSE IF error.setup THEN "MAIL_UNAVAILABLE"
  ELSE "SMTP_OUTCOME_UNKNOWN"

Classify(error) ==
  IF error.response THEN "SMTP_REJECTED"
  ELSE IF ~error.started /\ error.setup THEN "MAIL_UNAVAILABLE"
  ELSE "SMTP_OUTCOME_UNKNOWN"

\* Connection, authentication, envelope, up to the first byte of DATA.
SmtpBegin ==
  /\ pc = "smtp"
  /\ pc' = "data"
  /\ UNCHANGED <<open, composer, requests, uploads, queue, job, work, sends, files, mailbox,
                 lastRef, delivered, saved>>

SmtpRefused ==
  /\ pc = "smtp"
  /\ \E response, setup \in BOOLEAN :
       Fail(Classify([started |-> FALSE, response |-> response, setup |-> setup]))
  /\ UNCHANGED <<open, composer, requests, uploads, queue, files, mailbox, lastRef,
                 delivered, saved>>

\* The server decides, and its answer is on its way.  A server that decides
\* after the connection was lost does nothing else: that receipt is final.
SmtpDecide ==
  /\ pc = "data"
  /\ \E accepted \in BOOLEAN :
       /\ work' = [work EXCEPT !.accepted = accepted]
       /\ delivered' = IF accepted THEN [delivered EXCEPT ![job.key] = @ + 1] ELSE delivered
  /\ pc' = "answer"
  /\ UNCHANGED <<open, composer, requests, uploads, queue, job, sends, files, mailbox, lastRef,
                 saved>>

\* Acceptance is published in the receipt before any IMAP work.
SmtpAccepted ==
  /\ pc = "answer" /\ work.accepted
  /\ sends' = IF open THEN [sends EXCEPT ![job.key] =
                              [Receive("sent") EXCEPT !.copyPending = TRUE]]
                      ELSE sends
  /\ pc' = "copy"
  /\ UNCHANGED <<open, composer, requests, uploads, queue, job, work, files, mailbox, lastRef,
                 delivered, saved>>

\* A response code, or a socket lost with the answer.  Nodemailer labels the
\* loss as one of connection setup at times.
SmtpFails ==
  /\ pc = "answer"
  /\ \/ /\ ~work.accepted
        /\ Fail(Classify([started |-> TRUE, response |-> TRUE, setup |-> FALSE]))
     \/ \E setup \in BOOLEAN :
          Fail(Classify([started |-> TRUE, response |-> FALSE, setup |-> setup]))
  /\ UNCHANGED <<open, composer, requests, uploads, queue, files, mailbox, lastRef,
                 delivered, saved>>

-------------------------------------------------------------------------------
(* After acceptance: the copy, the draft, the files.                       *)

CopyToSent ==
  /\ pc = "copy" /\ open
  /\ Store("sent")
  /\ work' = [work EXCEPT !.savedTo = "sent"]
  /\ pc' = "unlink"
  /\ UNCHANGED <<open, composer, requests, uploads, queue, job, sends, files, delivered, saved>>

\* Faulty: the copy counts as saved when it was asked for.
CopyFailsUnnoticed ==
  /\ pc = "copy"
  /\ StoreFails("sent")
  /\ work' = [work EXCEPT !.savedTo = "sent"]
  /\ pc' = "unlink"
  /\ UNCHANGED <<open, composer, requests, uploads, queue, job, sends, files, delivered, saved>>

\* Two attempts.
CopyFails ==
  /\ pc = "copy"
  /\ StoreFails("sent")
  /\ work' = [work EXCEPT !.retried = TRUE]
  /\ pc' = IF work.retried THEN "fallback" ELSE "copy"
  /\ UNCHANGED <<open, composer, requests, uploads, queue, job, sends, files, delivered, saved>>

\* The completed message goes to Drafts when Sent does not take it.
CopyToDrafts ==
  /\ pc = "fallback"
  /\ \/ /\ open
        /\ Store("drafts")
        /\ work' = [work EXCEPT !.savedTo = "drafts"]
     \/ /\ StoreFails("drafts")
        /\ UNCHANGED work
  /\ pc' = "unlink"
  /\ UNCHANGED <<open, composer, requests, uploads, queue, job, sends, files, delivered, saved>>

\* Faulty: the draft goes although no copy was saved.
DraftReplacedAlways == job.ref # Nil

\* The draft goes only when a copy was saved.
DraftReplaced == job.ref # Nil /\ work.savedTo # Nil

\* A failure is a warning.
UnlinkDraft ==
  /\ pc = "unlink"
  /\ IF DraftReplaced THEN TryDelete(job.ref) ELSE UNCHANGED mailbox
  /\ pc' = "settle"
  /\ UNCHANGED <<open, composer, requests, uploads, queue, job, work, sends, files, lastRef,
                 delivered, saved>>

\* Faulty: the uploaded file goes although no copy was saved.
CleanupAlways == job.file # Nil

\* cleanup() takes the uploaded file only when a copy holds it.
CleanupDue == job.file # Nil /\ work.savedTo # Nil

\* rm() may fail; a session that ended has no files.
SettleSend ==
  /\ pc = "settle"
  /\ \/ CleanupDue /\ files' = [files EXCEPT ![job.file] = "none"]
     \/ UNCHANGED files
  /\ sends' = IF open THEN [sends EXCEPT ![job.key] =
                              [Receive("sent") EXCEPT !.savedTo = work.savedTo]]
                      ELSE sends
  /\ EndJob
  /\ UNCHANGED <<open, composer, requests, uploads, queue, mailbox, lastRef, delivered,
                 saved>>

-------------------------------------------------------------------------------
(* Saving a draft.                                                         *)

AppendDraft ==
  /\ pc = "append" /\ open
  /\ Store("drafts")
  /\ work' = [work EXCEPT !.ref = lastRef + 1]
  /\ pc' = "verify"
  /\ UNCHANGED <<open, composer, requests, uploads, queue, job, sends, files, delivered, saved>>

\* The append fails, or its answer has no UID.
AppendFails ==
  /\ pc = "append"
  /\ StoreFails("drafts")
  /\ Fail("MAIL_UNAVAILABLE")
  /\ UNCHANGED <<open, composer, requests, uploads, queue, files, delivered, saved>>

\* The parts taken over from the old draft are read back from the new one.
VerifyDraft ==
  /\ pc = "verify"
  /\ pc' = "replace"
  /\ UNCHANGED <<open, composer, requests, uploads, queue, job, work, sends, files, mailbox,
                 lastRef, delivered, saved>>

\* They differ, or cannot be read: the new draft is taken back.
VerifyFails ==
  /\ pc = "verify" /\ job.ref # Nil
  /\ TryDelete(work.ref)
  /\ Fail("DRAFT_ATTACHMENTS_UNVERIFIED")
  /\ UNCHANGED <<open, composer, requests, uploads, queue, files, lastRef, delivered,
                 saved>>

\* A manual save becomes the copy of a sent message that has none.
Recovers(k) == /\ job.manual
               /\ sends[k] # Nil /\ sends[k].status = "sent" /\ ~sends[k].copyPending
               /\ (sends[k].savedTo = Nil \/ sends[k].manual)

\* The old draft goes; the composer learns the new reference if the answer
\* reaches it.
ReplaceDraft ==
  /\ pc = "replace"
  /\ IF job.ref # Nil THEN open /\ Delete(job.ref) ELSE UNCHANGED mailbox
  /\ saved' = [saved EXCEPT ![job.key] = job.version]
  /\ sends' = IF Recovers(job.key)
              THEN [sends EXCEPT ![job.key] =
                      [Receive("sent") EXCEPT !.savedTo = "drafts", !.manual = TRUE]]
              ELSE sends
  /\ \/ composer' = [composer EXCEPT ![job.key].ref = work.ref]
     \/ UNCHANGED composer
  /\ EndJob
  /\ UNCHANGED <<open, requests, uploads, queue, files, lastRef, delivered>>

ReplaceFails ==
  /\ pc = "replace" /\ job.ref # Nil
  /\ TryDelete(job.ref)
  /\ Fail("MAIL_UNAVAILABLE")
  /\ UNCHANGED <<open, composer, requests, uploads, queue, files, lastRef, delivered,
                 saved>>

-------------------------------------------------------------------------------
Init ==
  /\ open = TRUE
  /\ composer = [k \in Keys |-> [version |-> 1, ref |-> Nil, file |-> Nil]]
  /\ requests = 0
  /\ uploads = 0
  /\ queue = <<>>
  /\ job = Nil
  /\ pc = "idle"
  /\ work = NoWork
  /\ sends = [k \in Keys |-> Nil]
  /\ files = [id \in 1..MaxUploads |-> "none"]
  /\ mailbox = {}
  /\ lastRef = 0
  /\ delivered = [k \in Keys |-> 0]
  /\ saved = [k \in Keys |-> 0]

Compose == \E k \in Keys : \/ Send(k)
                           \/ \E manual \in BOOLEAN : Save(k, manual)
                           \/ Upload(k) \/ Remove(k)

SendStep == \/ SmtpBegin \/ SmtpRefused \/ SmtpDecide \/ SmtpAccepted \/ SmtpFails
            \/ CopyToSent \/ CopyFails \/ CopyToDrafts \/ UnlinkDraft \/ SettleSend

SaveStep == AppendDraft \/ AppendFails \/ VerifyDraft \/ VerifyFails \/ ReplaceDraft \/ ReplaceFails

JobStep == StartJob \/ DropJob \/ CheckJob \/ CheckFails \/ SendStep \/ SaveStep

Next == Compose \/ (\E id \in 1..MaxUploads : Age(id)) \/ Sweep \/ EndSession \/ JobStep

Spec == Init /\ [][Next]_vars

\* Every call to a server has a deadline, so that a job that runs goes on, and
\* the queue starts the next one.
FairSpec == Spec /\ WF_vars(JobStep)

-------------------------------------------------------------------------------
(* Correctness.                                                            *)

\* Every variable holds a value of its kind, and the steps of a job run only
\* while there is a job.
TypeOK ==
  /\ open \in BOOLEAN
  /\ composer \in [Keys -> [version: 1..MaxVersion, ref: Nat \union {Nil},
                            file: (1..MaxUploads) \union {Nil}]]
  /\ requests \in 0..MaxRequests /\ uploads \in 0..MaxUploads
  /\ queue \in Seq(Job)
  /\ job \in Job \union {Nil}
  /\ pc \in {"idle", "check", "smtp", "data", "answer", "copy", "fallback", "unlink", "settle",
             "append", "verify", "replace"}
  /\ pc = "idle" <=> job = Nil
  /\ work \in Work
  /\ sends \in [Keys -> Receipt \union {Nil}]
  /\ files \in [1..MaxUploads -> {"none", "fresh", "stale"}]
  /\ mailbox \subseteq Message
  /\ lastRef \in Nat /\ delivered \in [Keys -> Nat] /\ saved \in [Keys -> Nat]

\* Within a session a message leaves at most once, however often the composer
\* asks, whatever fails and whichever answers are lost (send(), smtp.send()).
SentOnce == \A k \in Keys : delivered[k] <= 1

\* A receipt that says "sent" is of a message that left, one that says
\* "not_sent" of one that did not: the composer may send that again.
StatusTruthful ==
  \A k \in Keys : sends[k] # Nil =>
    /\ sends[k].status = "sent" => delivered[k] = 1
    /\ sends[k].status = "not_sent" => delivered[k] = 0

\* What the composer was told is saved stays in the mailbox, in that version or
\* a later one, through the saves, sends and failures that follow.
SavedContentKept ==
  \A k \in Keys : saved[k] > 0 => \E m \in mailbox : m.key = k /\ m.version >= saved[k]

\* A receipt that names the folder of the sent copy is right about it.
CopyExists ==
  \A k \in Keys : sends[k] # Nil /\ sends[k].savedTo # Nil =>
    \E m \in mailbox : m.key = k /\ m.box = sends[k].savedTo

\* A file that was uploaded or used within a day goes with the session, when the
\* composer removes it, or when a message in the mailbox carries it.
FileKept ==
  [][\A id \in DOMAIN files : files[id] = "fresh" /\ files'[id] = "none" =>
       \/ ~open'
       \/ \A k \in Keys : composer'[k].file # id
       \/ \E m \in mailbox : m.file = id]_vars

\* The compose service keeps the promises of Delivery.
D == INSTANCE Delivery WITH
       told <- [k \in Keys |-> IF sends[k] = Nil THEN "none" ELSE sends[k].status],
       out  <- delivered,
       over <- ~open

RefinesDelivery == D!Spec

\* No receipt says "checking" or "copy pending" for ever.
Unsettled(k) == sends[k] # Nil /\ (sends[k].status = "checking" \/ sends[k].copyPending)

SendSettles == \A k \in Keys : Unsettled(k) ~> ~Unsettled(k)
===============================================================================
