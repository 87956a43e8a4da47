# mailcow-npmplus-stack: a TLA+ verification project

The repository deploys mailcow behind a NPMplus reverse proxy and adds its own programs: a
webmail (a Node server, an admin server and a web page), a log archiver, a Flask toolkit and
shell scripts. This project models the parts whose correctness depends on the order of events:
crashes, lost answers, queues, shared state. It checks them with TLC and proves the most
important results with TLAPS.

Run everything from this directory (times with two workers):

    tlc -config ArchiveStore.cfg MCArchiveStore                  # safety, refinement, liveness
    tlc -config ComposeSend.cfg MCComposeSend                    # safety, about 2 minutes
    tlc -config ComposeSendDelivery.cfg MCComposeSend            # refinement and liveness
    tlc -config ScopedActions.cfg MCScopedActions                # about 1 minute
    tlc -config OtpSessions.cfg MCOtpSessions                    # about 1 minute
    tlc -config ArchiveCollector.cfg MCArchiveCollector          # half a minute
    tlc -config ArchiveCollectorCopies.cfg MCArchiveCollector    # finds a violation
    tlc -config ArchiveCollectorRewrite.cfg MCArchiveCollector   # finds a violation
    tlc -config ArchiveSearch.cfg MCArchiveSearch                # safety and liveness
    tlc -config ImapPool.cfg MCImapPool                          # safety and liveness
    tlc -config FtsNightly.cfg MCFtsNightly                      # about 1 minute
    tlc -config SieveRules.cfg MCSieveRules                      # about 1 minute
    tlapm ArchiveStoreProofs.tla                                 # and the other *Proofs.tla

## 1. The system

| component | state | operations | hard because |
|---|---|---|---|
| **log archive store** `log-archiver/store.js` | per (source, hour) a data file of gzip members and an index; `state/catalog.json`, `checkpoint.json`, `pending.json`; the catalog and checkpoint in memory; a serial queue | `commit`, `compact`, `expire`, `snapshot`, `readIndex`, `init`/`recover`, `close` | a crash or power loss between any two file operations; compaction reads outside the queue |
| **log collector** `collector.js`, `sources.js` | generations matched by inode, fingerprints, gaps, tombstones | `collect` | rotation, copytruncate, a file that changes while it is read |
| **log search** `search.js`, `api.js` | two running searches, frozen snapshots with TTL and LRU, signed cursors | `search`, page, close | pages read files that compaction and expiry replace |
| **archiver loop** `main.js` | which store/collector/search is open | open, collect, expire, compact, close, retry | everything is reopened after any failure |
| **compose service** `webmail/server/mail/compose.js` | per session: uploaded files, receipts by composeId, a job queue | `send`, `draft`, `upload`, `remove`, `sendStatus`, templates | lost answers, IMAP and SMTP fail after they acted, logout in the middle |
| **SMTP client** `smtp.js` | whether DATA began | `send` | a lost connection says nothing about delivery |
| **sessions** `security/session.js` | sessions, idle and absolute limits, ACL recheck | create, get, rotate, destroy, sweep | destroyed while requests hold them |
| **one-time passwords** `security/otp-*.js`, `routes/auth.js` | a row with a version and `last_step`, a policy revision, an enrollment draft | initialize, checkAccess, begin, authorize | rows read before an SQL await and used after it, replay |
| **rate limiters** `security/ratelimit.js`, admin | counters, reservations | reserve, release, fail | in-flight attempts against the limit |
| **bulk actions** `mail/scoped-actions.js`, `actions.js` | stages, cursors, outcome per message | prepare, run, resume | unknown outcomes are never repeated |
| **IMAP pool, events** `mail/imap-pool.js`, `events.js` | a work connection, a monitor connection, budgets | withMailbox, withRef, watch | retirement and logout with commands in flight |
| **admin lock, audit** `admin/lock.js`, `audit.js` | a FIFO per key, a JSON line log | withLock, intent/operation/result | a crash between intent and result |
| **index scheduler** `admin/fts-*.js` | a lock directory with an owner token, run state | nightly run, manual unlock | two runs, a killed run |
| **admin services** `admin/services/` | mailcow's data, by its API | accounts, teams, domains, shares... | several updates with compensation |
| **rules** `sieve/` | scripts on the ManageSieve server: the rules, the previous rules, the record of the last import with its archives; a queue per account | get, save, restore, reactivate, import, undo | several commands per change, answers lost in between, pages that read long ago, other programs |
| **small stores** templates, notices, prefs, signatures | IMAP messages, SQL, files | read, write | read-modify-write |
| **toolkit, scripts, web page, gmail2sieve** | none of their own | | sequential I/O, presentation, text conversion |

How they interact: the collector commits batches to the store, the loop calls expiry and starts
compaction beside it, search reads the store's files. The user's page calls the compose service,
which works through one IMAP connection of the session and one SMTP connection per mail; the end
of the session (logout, expiry, revocation) aborts all of its work. The admin server keeps its own
sessions and calls mailcow's API, doveadm and docker.

What makes each correct, in short: the archive loses no line in silence and keeps none twice;
a mail leaves once and its receipt says the truth; saved content is never deleted before its
replacement exists; a one-time code is used once and a reset takes effect everywhere; a bulk
action reports every message exactly once; rules that were replaced can be had back; search never shows a page of another snapshot; every
lock and slot is given back.

## 2. Modules

    ArchiveLog          abstract: offset, live hours; Commit and Expire are indivisible
      ^ refined by
    ArchiveStore        store.js and the failures around it
    ArchiveStoreInv     the inductive invariant
    ArchiveLinesInv     the invariant of the lines
    ArchiveStoreProofs  the proofs that recovery succeeds, that no line is lost or doubled, and of
                        the refinement

    Delivery            abstract: what is said of a composeId, what left
      ^ refined by
    ComposeSend         compose.js, smtp.js
    ComposeSendInv      the inductive invariant
    ComposeSendProofs   the proofs about sending, and about what the mailbox keeps

    ArchiveCollector    collector.js, sources.js, the log and its rotation; store.commit is the
                        one step ArchiveLog says it may be
    ArchiveSearch       search.js, api.js against the appends, compactions and expiries of store.js
    ArchiveReadersProofs  the invariants and the proofs about both readers
    ScopedActions       scoped-actions.js, runScopedGroup of actions.js, the page's
                        state/scoped-actions.js
    ScopedActionsProofs its inductive invariant and the proofs
    OtpSessions         session.js, otp-service.js, otp-store.js, ratelimit.js, routes/auth.js,
                        routes/otp.js
    OtpSessionsProofs   its inductive invariant and the proofs
    ImapPool            imap-pool.js
    ImapPoolProofs      its inductive invariant and the proofs
    FtsNightly          fts-state.js, fts-scheduler.js, services/fts-nightly.js, audit.js
    FtsNightlyProofs    its inductive invariants, the proofs about Dovecot, the audit file and the
                        state file
    SieveRules          sieve/service.js, import-store.js, state.js, managesieve.js
    SieveRulesProofs    its inductive invariant and the proofs

An `MC...` module holds the instance TLC checks. Operators such as `TakenAlive`, `FailReleased`
or `AppendRaw`, which no action uses, are likely mistakes of the code: with one of them in the
place of the definition beside it, the run of the module finds a property violated.

### ArchiveStore

State. `disk` is what a process sees of the files, `safe` what a power loss would leave; `mem` is
`this.catalog` and `this.checkpoint`; `pc` is the statement the publication queue is at, with the
loop variables `todo` and `at`; `comp` is the compactor, which runs beside the queue. Every file
operation that another process or a crash could see is an action of its own:

| code | actions |
|---|---|
| `commit()` | `Commit` (stage, pending), `AppendPartial`, `AppendRest`, `PublishIndex`, `PublishCatalog`, `PublishCheckpoint` |
| `finishPending()` | `FinishPending`, `Cleanup` |
| `compact()`, `compactHour()` | `CompactSelect`, `CompactRead` (any time, by path), `CompactLink` (recheck, backup), `CompactPending`, `CompactReplace`, then as a commit |
| `expire()`, `deleteFiles()` | `Expire`, `DeleteCatalog`, `DeleteData`, `DeleteIndex`, `DeleteNotice`, `DeleteDone` |
| `init()`, `recover()` | `Open`, `InitCatalog`, `InitCheckpoint`, `Load` (roll forward, roll back, redo a delete, refuse), `RollbackData`, `RollbackIndex`, `RollbackCatalog`, `Check` |
| `syncDir()` after a rename or unlink | `Sync` |
| a dead process, a failed operation, a power loss | `Crash`, `PowerLoss` |

Abstractions. A gzip member is the set of the source lines it holds, the empty set is a member
that was cut short; sizes and line counts are the lengths and cardinalities of those. One source
generation; the records of one hour in a commit fit one member, and compaction merges an hour into
one member (both are `memberBytes` at its largest). `randomUUID` is a counter. "Older than the
retention" and "the hour is over" are a free choice, which includes every clock. A sync makes all
earlier changes durable (the order a journaling file system keeps; file contents are synced by the
code before they are named), and a power loss goes back to the last of them, never to a mixture.
A failed file operation is `Crash`: `failed` refuses all further work, and main.js closes and
reopens everything. A regressing offset is refused before anything happens and is no action.
`snapshot()` and `readIndex()` change nothing.

### ComposeSend

State. `sends`, `files` and `queue` are the fields of the session's state (`sends`, `attachments`,
`tail`), `job`, `pc` and `work` the job that runs and its local variables, `mailbox` the messages
in Sent and Drafts, `delivered` the mails the SMTP server accepted. `composer` is the page: the
version of each message, the `draftRef` and the upload it knows. `saved` remembers what it was told.

| code | actions |
|---|---|
| `send()`: receipt lookup and claim | `Send` |
| `draft()` | `Save`; `Recovers` in `ReplaceDraft` |
| `serial()` | `StartJob`, `DropJob`, `EndJob` |
| `write()` up to `smtp.send` or `append` | `CheckJob`, `CheckFails` |
| `smtp.send()` | `SmtpBegin`, `SmtpRefused`, `SmtpDecide`, `SmtpAccepted`, `SmtpFails`, `Classify` |
| copy, draft, cleanup | `CopyToSent`, `CopyFails`, `CopyToDrafts`, `UnlinkDraft`, `SettleSend` |
| saving | `AppendDraft`, `AppendFails`, `VerifyDraft`, `VerifyFails`, `ReplaceDraft`, `ReplaceFails` |
| `upload()`, `remove()`, `prune()`, `sweepAttachments()` | `Upload`, `Remove`, `Age`, `Sweep`, `Pruned` |
| the abort listener of `stateFor()` | `EndSession` |

Abstractions. A message is its composeId, a version number and at most one upload. An IMAP call
is one step that may fail, before or after the server did it. SMTP has two steps, the server's
decision and the arrival of its answer, so that the answer can be lost. The Answered flag, partly
rejected recipients, MIME building and template attachments are left out. Only the compose service
deletes messages: what the user does to the mailbox with another client is not modelled. A message
whose outcome is unknown may be sent again under a *new* composeId, or in a new session, by the
user's decision: that is outside the promise.

### ArchiveCollector

State. `content` and `dir` are the files of one log and their names; `gens` is the checkpoint,
`archived` the lines committed with it; `held` the descriptors kept open from cycle to cycle;
`names`, `visible`, `draft`, `unread`, `work`, `looked`, `records`, `batch` the variables of a
cycle.

| code | actions |
|---|---|
| the writer and its rotation | `Write`, `Rotate` (rename, create), `RemoveOldest`, `Copy` and `Truncate` (copytruncate), `Empty` |
| `inspectSources()`: readdir, open | `Begin`, `Open` |
| `cycle()`: matching, copies, tombstones, gaps | `Match` |
| `readGeneration()`: fstat, read, fingerprint | `Stat`, `Read`, `ReadFails` |
| `store.commit` with the records and the new checkpoint | `Commit` |
| the archiver stops between any two steps | `Restart` |

Whether a log is rotated by rename or copytruncate is chosen in `Init`. With `SeenCopies = FALSE`
a copytruncate happens between two cycles, as every test of the collector has it. What the other
logs leave of the batch is a choice. `seen` and `unnoticed` are history: the lines that were in a
file the collector looked at, and a rewrite no check can tell (at offset 0 there is no
fingerprint). A file may fail to be read when its bytes are compared (`Probed`, `unread`): its
generation is kept and the cycle reads nothing of it. `work` is the set of generations still to
be read, `Before` the order of the code's sort. Left out: partial, too long and unparsable lines, the cutoff of the retention, the
identity of Docker containers; `Match` is one step, and a writer moves to the new file at once.

A corner the model has and no property excludes: a rotation between readdir and open, after a
restart, makes a stable drained generation a tombstone; lines appended to that file later are
skipped. `SeenAccounted` does not count them, they were never seen.

### ArchiveSearch

State. `catalog`, `files`, `busy` are the store as a search sees it; `snapshots` and `cursors`
what `search.js` keeps; `search` is one running search per slot.

| code | actions |
|---|---|
| `commit()`, `compact()`, `expire()` of the store, begun and published | `AppendBatch`, `Replace`, `Expire`, `Publish` |
| `search()`: claim of a slot | `Ask` |
| snapshot, cursor, `readIndex`, `readMember` | `Pin`, `ReadIndex`, `ReadMember` |
| the last validation, which waits for the store | `Validate` |
| timer, abandoned request, damaged member | `Deadline`, `Fails` |
| TTL and LRU of snapshots | `SnapshotExpires` (any time), `Pin` |

A position is member, line and byte as the code's, `Advances` its order. Left out: members skipped by their
time range, the cutoff by age, the signature of cursors, projection and redaction of rows.

### ScopedActions

State. `recs` are the selections of a session, `job` the request that runs, `reply` its answer on
the way, `client` the page's `scopeSelection`. `placed`, `valid`, `archive`, `inflight` are the
mailbox: which messages are where they were found, which folders kept their UIDVALIDITY, whether
Archive exists, and what the server may still do after the caller gave up.

| code | actions |
|---|---|
| the page: confirm, retry, resume, stop, leave | `Confirm`, `RetryFailed`, `Resume`, `Stop`, `Interrupt` |
| a request, its answer, a lost answer | `Ask` (`Create`, `Prepare`, `Execute`, `Replay`, refusals), `Hear`, `Disconnect` |
| `prepare()`: search, headers, binding | `Search`, `Visit`, `Bind`, `PrepareBudget`, `PrepareFails` |
| `execute()`, `runScopedGroup()` | `Plan`, `CheckSource`, `CreateTarget`, `CreateFails`, `Open`, `Stale`, `OpenFails`, `Exhausted`, `SourceFails`, `Send`, `Stored`, `Expunge`, `Confirmed`, `Unconfirmed` |
| the server carries out what it was sent | `Apply` |
| other clients; TTL; end of the session | `Elsewhere`, `Sweep`, `EndSession` |

Archive stands for the actions of one MOVE, delete-forever for those of two commands (STORE,
EXPUNGE). Left out: the limits on stored selections beyond the number modelled, paging of
failures, the shortcut when target and source agree, virtual folders (part of `Search`), flag
actions, and `run()` of actions.js, which does one such group in one request.

### OtpSessions

State. `row` and `policy` are the tables, `sess` the session objects, `slot` the requests under
way with what they read, `queue` each session's lock, `bucket` the limiter's record of the account.
Time counts steps of the code. `proved`, `used`, `wrong` are history.

| code | actions |
|---|---|
| preHandler: `checkAccess`, `authorize` | `Arrive`, `Read`, `ReadFails`, `Check`, `Authorize` |
| `lock.run`, the second `checkAccess`, `reserve` | `Authorize`, `ReadAgain`, `Recheck` |
| `begin`, `cancel` | `Begin`, `Recheck` |
| `verify`, `confirmEnrollment`, `disable` of the store | `Store`, `StoreFails` (an answer of COMMIT may be lost) |
| `rotate`, `release` | `Rotate` |
| login: `ensureAccount`, `initialize` | `Login`, `EnsureAccount`, `Initialize`, `LoginFails` |
| logout and expiry; `sweep`; the administrator | `Logout`, `Sweep`, `Admin` |

A code is its seed and its time step; a seed is a number drawn anew. A transaction locks its rows,
so it is one step. In the program a step is 30 s, `Block` 10, `Window` 20 and `Pending` 10 steps.
Left out: collisions of the six digits, the bucket of the address, the login limiter. Seen, and
harmless: a plain request between the commit of an enrollment and the rotation finds a new version
and ends the session.

### ImapPool

State. `state` has the fields of the code's state (`work`, `workPending`, `workRefresh`, `monitor`,
`monitorPending`, `timer`, `listeners`, `closed`); `client` and `lock` the connections and their
mailbox locks; `request` the calls. An epoch counts changes of the shared mailboxes.

| code | actions |
|---|---|
| `watch`, `startMonitor`, `scheduleMonitor`, the close handler | `Watch`, `Unwatch`, `TimerFires`, `MonitorConnected`, `MonitorOpened`, `MonitorFails`, `MonitorBreaks` |
| `withMailbox`, `work`, `retireWork` | `Enter`, `Wake`, `Connected`, `ConnectFails`, `Lock`, `Done`, `Breaks` |
| `withBudgetMailbox` | `GiveUp`, `LockTooLate`, `Leave` |
| `withRef` on a connection of its own | `Dial`, `Dialed`, `OwnEnds` |
| `refreshShared`, `closeState` | `RefreshShared`, `CloseState`, `LoggedOut` |

Code between two awaits is one step. A refused password is `CloseState`. Left out: the streams of
events.js, TLS, `verifySessionLogin`, the deferral of mutation timeouts, decoding of references.

### FtsNightly

State. `lock` is the lock directory with its token, `disk` state.json, `audit` the file of the
month, torn when a crash cut its last line; `inst` what each process is doing and its copy of the
state (`seen` is what it read, `state` what it writes); `remote` the indexes Dovecot works on.

| code | actions |
|---|---|
| a start, `markRemoteUnknown({reason:'restart'})` | `Boot`, `MarkRestart` |
| `tick`, `acquire`: mkdir, owner file | `Tick`, `WriteToken` |
| `startRun`, `save` | `StartRun`, `Begin`, `Save`, `Saved` |
| `execute`: scan, one folder after the other | `Scan`, `Folder`, `assertUnblocked`, `indexMailbox`, `Answered` |
| an answer that never came | `Unknown`, `markRemoteUnknown`, `MarkUnknown` |
| `audit.run` | `Intent`, `Result` |
| `runOnce`: catch, finally, `removeLock` | `Catch`, `Unlink`, `Rmdir` |
| bin/fts-unlock.js | `ManualUnlock` |
| Dovecot; the calendar; a dead process | `RemoteEnds`, `NextDay`, `Crash` |

The operator is assumed to do what docs/guide.md section 13 demands: `ManualUnlock` only while no
run can start, none is under way and Dovecot was seen idle. A token names its instance. Left out:
damaged state files, the statuses people are shown, measurement and priorities, the clock of the
window, reading and redaction of the audit.

Seen, without a run of its own: at a start `markRemoteUnknown` reads the state, and the file is
replaced some steps later; what another instance wrote in between is lost, among it the day in
`runIds` (the serial lock is of one process). After a manual unlock that day may then run again.
`lost` marks these behaviours, and `OncePerDay` and `Traceable` do not speak of them; `OneIndex` and
`IndexRecorded` hold in all. And two conservative corners: a `save` that fails after an index was
answered keeps the lock although nothing is outstanding; so does a crash anywhere in a run.

### SieveRules

State. `scripts` and `active` are the server's, by the names of the code (`prev`, `import`,
`undo-webmail` and `undo-active` carry its prefix, `other` is a script of another program); `late`
the commands it may yet carry out for a connection that was given up; `policy` a version of the
addresses, domains and folders from which rules become code. `job` is the request worked on and its
commands still to be sent, `views` what each page last read. `replaced`, `calm` and the fields
`kept` and `touched` of a job are history.

| code | actions |
|---|---|
| `get()` with `importInfo()` | `Get` |
| `save()`, `renameFolderRefs()`, `reactivate()` | `Save`, `RenameFolderRefs`, `Reactivate`; `Write` |
| `restore()` from the data or the previous version | `RestoreData`, `RestorePrevious` |
| `importXml()`, `importRules()`, `applyImport()` | `Import`; `ImportCommands` |
| its recovery on a fresh connection | `Fail`, `Reconnect`, `RecoveryCommands`, `Verify` |
| `undoImport()` | `UndoImport`; `UndoVerdict`, `UndoCommands`; the clean-up in `Complete` |
| a command: OK, NO, no answer | `Answered`, `Rejected`, `AnswerLost` |
| the process ends | `Crash` |
| what the server still carries out; other programs; the policy | `Late`, `Outside`, `PolicyChange` |

A script is its document, its revision and the policy its code was generated for; equal contents
stand for equal hashes. What a request reads it reads at once, when its turn comes; what it writes it
writes command by command. An unanswered command was carried out, was not, or is carried out at any
time later, and then it counts as the writing of someone else: the properties judge a request when
no one else wrote while it ran. Requests that are refused are left out, as they change nothing.
Appending, replacing and the limits of an import are a new document; a rejected
`CHECKSCRIPT` is a command rejected. The times of imports increase, which the code ensures while
there is a record. Left out: the first look of `importXml` at the server and the folders it creates (they
stay whatever happens), previews, `applyExisting`, `folderInUse`, the IMAP side of a folder rename.

Seen, without a run of its own: a revision number does not name one document for ever. An undo
puts the archived rules back with the revision they had, and the previous version is restored with
its own revision plus one; the next save then gives out a number again that the undone import had. A
page that read the import can save over those newer rules, as `save` compares the number only
(service.js:124, against the title of test/unit/rules.test.js:184). `reused` marks such views, and
`ReplacesWhatWasSeen` does not speak of them; those of before an outside change are marked too.

## 3. Runs

| run | instance | shows |
|---|---|---|
| `archive_store` | 2 hours, 2 lines, 4 transactions, 2 faults, fairness (268,918 states) | `RecoveryNeverFails`, `SettledFiles`, `NoSilentLoss`, `NoLineTwice`, `AckedSurvives`; `RefinesLog`; `ServiceReturns`; `DeletionCompletes` |
| `compose_send` | 2 composeIds, 2 versions, 3 requests, 1 upload (3,583,719 states) | `SentOnce`, `StatusTruthful`, `SavedContentKept`, `CopyExists`, `FileKept` |
| `compose_delivery` | 1 composeId, 2 versions, 3 requests, 1 upload, fairness | `RefinesDelivery`; `SendSettles` |
| `collector` | 3 lines, 2 files, batches of 1, 1 fault, both rotations (1,800,089 states) | no line is archived twice (`LineOnce`); every line once seen is archived, behind a gap or still readable (`SeenAccounted`) |
| `collector_copies` | the same, and a cycle may meet a copytruncate half done | finds `LineOnce` violated: see Findings |
| `collector_rewrite` | as `collector` | finds `PrefixRead` violated: see Findings |
| `archive_search` | 2 hours of 4 and 1 lines, pages of 2, 2 changes, 3 searches, 1 snapshot, fairness (139,621 states) | pages neither lose nor repeat a line of their snapshot (`PagesExact`); nothing expired is shown (`NothingExpired`); every slot returns (`SlotsReturned`) |
| `scoped_actions` | 3 messages in 2 folders, 4 requests, 2 selections, 1 change from elsewhere (2,319,592 states) | nothing uncertain is repeated (`NeverRepeated`); what is said of a message is true (`OutcomeTrue`); the page counts every batch once (`PageAgrees`) |
| `otp_sessions` | 2 sessions, 2 requests at once, 2 attempts, 3 requests, 2 time steps, 1 event (2,186,706 states) | no code twice (`CodeOnce`); no request served without the factor (`NoBypass`); wrong guesses are bounded (`GuessesBounded`) |
| `imap_pool` | 2 calls, one with a budget, 8 connection names, 1 fault, 1 refresh, fairness (66,978 states) | `FreshAfterRefresh`, `NothingLeft`, `LockedForSomeone`; a monitor returns (`Watched`); every call ends (`CallsEnd`) |
| `fts_nightly` | 2 instances, 2 folders, 2 days, 2 crashes, 1 failed write (2,401,341 states) | `OneIndex`, `OncePerDay`, `Traceable`, `IndexRecorded` |
| `sieve_rules` | 2 pages, 3 requests, 2 faults or changes from elsewhere (677,128 states) | what a request replaces or brings back is never gone (`RulesKept`); an import succeeds or is taken back, and says which (`AllOrNothing`); an undo is exact or can be repeated (`UndoExact`); what the page offers works (`OfferWorks`); no page replaces rules it has not seen (`ReplacesWhatWasSeen`) |

Bounds. Two hours let one commit touch two files, and a compaction or expiry of one meet a commit
to the other. Four transactions are enough for an hour to be written, appended to, compacted and
written again; two faults for a crash during the recovery from a crash, the case the backup of a
compaction exists for. Three requests are a save, a second save and a send, or a send, its retry
and a manual save; failures of server calls are not bounded.
Three lines and two files let a log be rotated with unread lines and written to again, and a
batch of one line makes every cycle leave something to the next (three files were tried too, with
the same result). Two hours, one of two members, make a page end within a member, at the end of one and
at the end of a file; one snapshot is enough to be evicted by the next search, and two slots share
nothing but snapshots (the safety properties were also checked with two). Three messages in two
folders make two batches, four requests a lost answer and its repetition, two selections a retry
of failures or a second choice of what an unknown outcome left behind. Two requests race in every
race of the OTP code, two sessions are what a rotation must end and what a reset must reach; a
limit of two attempts is reached by three requests. Two calls and a monitor need six connections,
counting those on their way out; there are eight names, more than can be referred to at once. Two instances and two crashes let a lock be left by one and met by the
other; two days make a second run possible, two folders a run that goes on after an index. The run
was repeated with a second failed write (5,790,807 states). Three requests on the rules are an import, a
change and its undo, or an undo that failed twice; two faults let the recovery of a failed import, or the
repetition of an undo, fail as well; two pages are what may disagree. The run was repeated with
four requests (4,035,837 states) and with three faults (4,729,490 states).

The archive's safety properties and its two invariants were also checked with three lines
(815,541 states). `TypeOK`, `IInv`, `LogInv` and `SendInv` are proved and in no run's
configuration; to check them, add them to the `INVARIANTS` of ArchiveStore.cfg and
ComposeSend.cfg.

`Keys`, `Sessions`, the requests of OtpSessions, `Instances`, `Folders` and `Pages` are symmetric
sets, and symmetry is used in safety runs only. The view of SieveRules.cfg forgets what the pages saw once
the last request has begun, as no action asks for it then. `CHECK_DEADLOCK FALSE`: when the bounds are
used up, the models stop.

Fairness. `WF_vars(QueueStep)` in the archive: the queue's next step is taken if it stays possible,
as asynchronous file operations end and main.js opens the store again after every failure.
Requests, compaction reads and faults are not fair. `WF_vars(JobStep)` in ComposeSend: every IMAP
call has a deadline of a minute and every SMTP phase a timeout, so that a job ends, and `serial()`
starts the next whatever became of it. What the user does is not fair. In ArchiveSearch a search
takes its steps and its timer fires; the store need not finish, which `SlotsReturned` is about. In
ImapPool connecting, logging out and the monitor's timer are weakly fair, as each has a deadline; the steps of
a call are strongly fair, because a mailbox lock is given in the order of arrival and every command
has a timeout, so that a call whose turn comes again and again gets it. Calls, refreshes, broken
connections and listeners are not fair. The other modules state safety only.

Findings. Both are about the collector, and about what its own tests promise.

* `collector_copies`: a cycle that runs between the copy and the truncation of a copytruncate
  gives the numeric copy a new generation at offset 0, because the active log still matches its
  own; its lines are archived a second time (collector.js:167, against
  test/collector.test.js:124). Another way to the same end needs no overlap: when the log cannot
  be read while it is compared after a copytruncate, its generation is kept on the new content,
  and the copy is imported as a log of its own; `SeenCopies` covers this as well.
* `collector_rewrite`: when the batch is used up, the read of a generation is skipped, and with
  it the check that the file is still the one that was matched, but its fingerprint is taken anew.
  A log that is truncated and grows past the offset in between is adopted: its first lines are
  never read and there is no gap (collector.js:212, against test/collector.test.js:145).

## 4. Proofs

`ArchiveStoreProofs.tla` proves, for any sets of hours and any bounds, from the two assumptions of
ArchiveStore (the bounds are natural numbers, `Nil` is none of the other values):

| theorem | statement |
|---|---|
| `Invariance` | `Spec => []IInv` |
| `TypeCorrect` | `Spec => []TypeOK` |
| `RecoverySafe` | `Spec => []RecoveryNeverFails` |
| `FilesSettled` | `Spec => []SettledFiles` |
| `AckDurable` | `Spec => []AckedSurvives` |

None of the properties is inductive: that recovery succeeds depends on what the files look like
at the moment of the crash. `IInv` has four parts besides the types:

* `FilesOK(disk)` and `FilesOK(safe)`: any files a crash or power loss may find are those of
  an archive that was never opened, one without a pending transaction, or one whose pending
  transaction is a delete, is committed, or can be undone hour by hour;
* `StepOK`: what the running step may rely on (which files are published already, what memory
  holds, which hours are left), by groups of steps: `Publishing`, `Deleting`, `Undoing`, `Quiet`;
* `OffsetsOK`: the durable checkpoint lags the visible one by at most the running step, and what
  was acknowledged is durable.

`FilesOK` is stated once and used for both copies, so that `Sync` is immediate and `PowerLoss`
needs no case of its own. The proof has one lemma per action, `NextInv` joins them. `Crash` and
`PowerLoss` follow from `FilesOK` alone: that is the point of it.

The module goes on from `IInv`, with what happens to the lines:

| theorem | statement |
|---|---|
| `LinesKept` | `Spec => []LogInv` |
| `NothingLost` | `Spec => []NoSilentLoss` |
| `NothingTwice` | `Spec => []NoLineTwice` |
| `ImplementsLog` | `Spec => RefinesLog` |

`IInv` knows that the bytes are those of the entries; `LogInv` says which lines the entries hold.

* `FilesLog`, of both copies of the files: a catalog holds the lines up to its checkpoint, each in
  one member, and lacks only those that were noticed; of a pending transaction this is true on both sides,
  a commit has added at most one member per hour (`Grown`) and a compaction has changed no line;
* `DeleteLog`: a deletion outside recovery meets each file it is to remove, so that "was it there"
  is the right question for the notice, and what it has passed was noticed;
* `CompLog`: as long as the hour a compaction chose is still the same file, its members begin with
  the chosen ones, whatever the queue did in between; so that comparing fileId and size
  at the end is enough to know that nothing is dropped. This is what makes it safe to recompress
  outside the queue. fileIds are never given out twice, hence the bound of each by `tx`;
* `ViewsOK`: what is durable is at most one step of ArchiveLog behind what is visible, and level with
  it whenever nothing awaits a sync. As `Sync` and `Open` alone make anything durable, the
  refinement follows from this and from `KeptIs`: what recovery would keep of an hour are exactly the members
  of the entry it settles on.

`ArchiveReadersProofs.tla` proves of the collector, for any number of lines, files, faults and any batch, from
`CollectorAssumption` (the bounds are natural numbers, there is a file and room for a line in a
batch):

| theorem | statement |
|---|---|
| `BaseInvariant` | `Spec => []BaseInv` |
| `SeenAccountedHolds` | `Spec => []SeenAccounted` |
| `LineOnceHolds` | `ASSUME ~SeenCopies PROVE Spec => []LineOnce` |

* `BaseInv`: a file holds consecutive lines, and no two files share one but a log and the copy
  just made of it (`LogInv`); what the cycle works on is open (`StepInv`); a generation whose
  first line is still the first of its file finds its last line where it left it (`Printed`), so that
  the two ends of the fingerprint decide for everything between them.
* `SeenInv` says of a generation what `SeenAccounted` promises, and what a later step needs: that
  what lies before its position is archived as long as its file begins with its first line, and that a
  generation which has read all it observed may be closed without a gap (`Honest`). Between the
  look at a file and its read this is suspended for the one generation in hand. It
  holds whatever rotation does, also where a cycle meets a copytruncate half done.
* `OnceInv`: a line that is archived and could still be read lies before the position of a
  generation that takes its file (`Covered`); no two generations have the same lines, and none
  reads the file another one's lines are in (`Apart`); a generation knows the file its lines
  are in, except between two cycles that of the active log, whose lines a copytruncate has moved
  (`Placed`, `Moved`); its fingerprint names exactly the lines it took (`Exact`). `Match` is what
  restores `Placed`: a generation finds the copy, the copy is the only one that matches,
  and no new generation starts with a file whose lines were taken (`MatchedFile`,
  `StartsFresh`). With `SeenCopies` neither `Placed` nor the property is true: that is the finding,
  and the reason for the assumption.

What `Resumed` does to a list of generations is a recursive function. Its shape is proved by an
induction that needs no induction theorem with an operator parameter: a set of numbers without a
least element outside it (`NaturalsAll`, from the well-foundedness of `<`), and a function put together
from its finite beginnings (`Recursion`).

The same module proves of the search, for any hours and members of the files, any limit, query, number of
slots, snapshots, searches and changes of the store, from `SearchAssumption` (the bounds are natural
numbers, a file has a member, and `Nil` is no position):

| theorem | statement |
|---|---|
| `PagesInvariant` | `SearchSpec => []PagesInv` |
| `PagesExactHolds` | `SearchSpec => []PagesExact` |
| `NothingExpiredHolds` | `SearchSpec => NothingExpired` |

* `PageInv`: a search that reads has found exactly what the query matches between its cursor and
  its position (`PageExact`). `ScanExact` shows that each outcome of reading a member keeps this: the rows
  and the position go on together (`FurtherInMember`, `NextMemberSame`) or are both given back.
* `OwnInv`: a snapshot's id is of one search only until it is pinned, and what is kept under it is
  what every search with this id reads; so that the position a page ends with is one of the snapshot
  its cursor names, whatever was dropped or aged out in between.
* `SameInv`: a published file with the pinned id still has all the pinned lines, since an append
  only adds to a file and a compaction makes a new one (`Descends`). Together with the last validation this
  is why no answer shows what is gone.

What is found is built with recursive functions (`Among`, `FlattenSeq`). `AmongSteps` and
`FlattenSteps` prove that each is the last value of an iteration, and by induction over it
`AmongConcat` and `FlattenMore` that what is found in two pieces is found in the whole.

`ComposeSendProofs.tla` proves, for any sets of messages and any bounds, from `ComposeAssumption`
(the bounds are natural numbers, there is a version to send, `Nil` is none of the other values):

| theorem | statement |
|---|---|
| `TypesHold` | `Spec => []TypeOK` |
| `AccountHolds` | `Spec => []SendInv` |
| `NeverTwice` | `Spec => []SentOnce` |
| `ReceiptsTrue` | `Spec => []StatusTruthful` |
| `ImplementsDelivery` | `Spec => RefinesDelivery` |

That a mail leaves once is a matter of what may *still* happen. `Account`, beside the types, says:

* `QueueOK`: of one composeId at most one send waits or runs;
* `ReceiptOK`: while it may still deliver, the mail has not left and (as long as the session is
  open) the receipt says "checking", so that no other is let in; a receipt that says "sent" is of a
  mail that left, "not_sent" of one that did not, and no mail left twice;
* `PcOK`: a send never reaches the steps of a save, nor a save those of a send.

Types and account are proved apart, with one lemma per group of actions. `MoveAccount`,
`EndAccount` and `FailAccount` are the three ways a step can go on: within its job, to the end of
the job with a receipt, or to a failure. For the refinement, `StepMaps` shows each step to be a
`Claim`, `Accept`, `Answer` or `Forget` of Delivery, or to change nothing Delivery sees.

The same module goes on from there, with what the mailbox holds:

| theorem | statement |
|---|---|
| `MailKept` | `Spec => []MailInv` |
| `SavedHolds` | `Spec => []SavedContentKept` |
| `CopyHolds` | `Spec => []CopyExists` |
| `FilesHold` | `Spec => FileKept` |

Whether a draft may be deleted depends on what the reference that names it was given for, perhaps
two jobs ago. `MailInv` says it in six parts: references are given out once (`RefsOK`); one
that a composer or a job holds names no message any more, or a draft of its own composeId that is
no newer (`ComposerOK`), and the queue keeps the versions of a composeId in order (`OrderOK`); what the running job
stored is there beside the draft it replaces (`WorkOK`); every promise has a witness, and while a
new draft is verified a witness other than the draft that may be taken back (`PromisesOK`); a
receipt names a folder only when its send is over (`FoldersOK`).

`FtsNightlyProofs.tla` proves, for any instances, folders, days, crashes
and failed writes, from `FtsAssumption`:

| theorem | statement |
|---|---|
| `Inductive` | `Spec => []IInv` |
| `OneIndexHolds` | `Spec => []OneIndex` |
| `IndexRecordedHolds` | `Spec => []IndexRecorded` |
| `RecordsTrue` | `Spec => []RecInv` |
| `OncePerDayHolds` | `Spec => []OncePerDay` |
| `TraceableHolds` | `Spec => []Traceable` |

A lock directory survives its owner, so that holding it proves nothing by itself. `IInv`: a
process at work is alone and the directory exists; while an index may be under way the directory
exists too, and the process at work, if there is one, waits for the answer or will leave the lock
behind. For the audit, `RInv` has the intent of every process that may still come to send an index
in the file as a whole line. For the state file, `RecInv`, unless `lost`: the days begun differ and
are all in `runs`; the file names the folder of every index under way; what a process has read of
`runs` and `current` is still so when it writes, and when it begins, its day is new.

`OtpSessionsProofs.tla` proves, for any sessions, requests, limits and events, from `OtpAssumption`:

| theorem | statement |
|---|---|
| `Inductive` | `Spec => []IInv` |
| `CodeOnceHolds` | `Spec => []CodeOnce` |
| `NoBypassHolds` | `Spec => []NoBypass` |
| `GuessesCounted` | `Spec => []GuessInv` |
| `GuessesBoundedHolds` | `Spec => []GuessesBounded` |

A request uses after its awaits what it read before them, and the invariant says why that is
harmless. *Codes* (`CodeInv`): versions and seeds are drawn in order (`DrawnOK`); a seed that is
registered, or of which a code was accepted, cannot be registered from a draft again, because the
registration's version exceeds the one the draft was begun at (`DraftsOK`); the registration knows the last step
accepted for its seed (`LastOK`). *The factor* (`FactorInv`): of one version there is one
registration, so that what was read of the present version is still true (`RowsOK`); a ready
session proved the factor of the version it knows, or that version has none (`ReadyOK`); a session
being logged in has no other request (`LoginOK`); the cookie of a request is the present one, an
older one, or its session is gone (`CookieOK`); what was found before `authorize` holds as long as
the cookie is the present one (`ServedOK`), which is what `authorize` compares.

*Guesses* (`GuessInv`): an attempt counts from its reservation on, as long as it is undecided and for
ever if its code was wrong (`Counts`). Of a moment that is not pruned yet, the limiter's record is at
least that number, and when the record has reached the limit, the bucket is closed until `Block` after the last
moment in it (`BucketOK`). A reservation finds the bucket open: either the record is below the limit, and then so
is what counts in every span of `Block` steps, which `Window` is no shorter than; or the last moment of the record is `Block` ago,
and the reservation is alone in its span. The sums are folds; that the order of a fold does not matter, and that a sum grows with
its summands and their number, is proved first, by a smallest set for which it would fail (`Smallest`,
`FoldedExists`, `TotalRemove`, `TotalMono`). `OtpAssumption` asks for no more than
natural numbers, a limit and a block of at least one, `Block <= Window`, and finitely many requests at once.

`ImapPoolProofs.tla` proves, for any calls, connections, faults and refreshes, from
`PoolAssumption`:

| theorem | statement |
|---|---|
| `Inductive` | `Spec => []IInv` |
| `FreshHolds` | `Spec => []FreshAfterRefresh` |
| `NothingLeftHolds` | `Spec => []NothingLeft` |
| `LockedHolds` | `Spec => []LockedForSomeone` |

`IInv` adds to these three: an attempt under way is the one the session would use, and what it may
use was made since the last refresh (`WorkOK`); a monitor is replaced only when its attempt is over
(`MonitorOK`); an ended session uses nothing and only an ended one has a connection logging out (`EndOK`); a
call's open connection is no older than the refresh before it (`CallsOK`). The names of connections
are a finite set that is used again and again; `UnusedFree` shows that a new one can always be
found: at most one per call and five of the session are referred to, and by `NothingLeft` no other
is open. `PoolAssumption` therefore asks for more than that many names.

`ScopedActionsProofs.tla` proves, for any messages, folders, requests, selections and lost
answers, from `ScopedAssumption` (every message has a folder, the bounds are natural numbers, `Nil` is
none of the other values):

| theorem | statement |
|---|---|
| `Inductive` | `Spec => []IInv` |
| `TypesHold` | `Spec => []TypeOK` |
| `NeverRepeatedHolds` | `Spec => []NeverRepeated` |
| `OutcomeTrueHolds` | `Spec => []OutcomeTrue` |
| `PageAgreesHolds` | `Spec => []PageAgrees` |

Three parties know something of a message: the mailbox, the selection, the page.

* *Mailbox and selection.* What was touched on behalf of a selection is settled there as "processed"
  or "unknown", or is in the hands of the command under way (`TruthOK`); a message is touched
  once, and is gone when that was carried out (`ActedOK`); what the running batch has in hand was
  not settled before (`BatchOK`).
* *Selections.* One is open at a time (`RecordsOK`, `JobOK`), and whatever a retry could still
  start from, be it the selection the page shows or the one its request replaces, offers no message that was
  touched (`SourceOK`). `NeverRepeated` needs this, because a second selection does not know
  the outcomes of the first.
* *Selection and page.* The answers of a run form a chain (`Chain`): the n-th batch has the cursor
  `first + n` and reported the failures from `cut[n]` to `cut[n + 1]`. The page has heard of a beginning of
  it (`Follows`), and an answer on its way is a receipt of the selection, under the cursor the page asked
  with (`ReplyOK`, `CursorOK`). So a repeated answer is one the page has counted or the next one, never
  another. `first` and `cut` are said to exist: the proof gives `cut` the next value when a batch is settled.

The lists of uids come from a set by `Listed`, a function of the ranks of its members, so that what they
contain follows from cardinalities (`Numbered`, `ListedWithin`) and needs no induction.

`SieveRulesProofs.tla` proves, for any pages, requests, faults and outside changes, from
`RulesAssumption` (the bounds are natural numbers, `Nil` is none of
the other values):

| theorem | statement |
|---|---|
| `Inductive` | `Spec => []IInv` |
| `TypesHold` | `Spec => []TypeOK` |
| `RulesKeptHolds` | `Spec => []RulesKept` |
| `AllOrNothingHolds` | `Spec => []AllOrNothing` |
| `UndoExactHolds` | `Spec => []UndoExact` |
| `OfferWorksHolds` | `Spec => []OfferWorks` |
| `ReplacesHolds` | `Spec => ReplacesWhatWasSeen` |

* `StoreOK`: the active script exists; the rules in the account's own scripts, and in every command that
  may still reach the server, are of a request made so far (`Numbered`, `Proper`); a record of an import
  says what that import found, and that its own rules are newer (`ImportedOK`);
* `ViewsOK`: what a page saw is what is stored or older (`Since`), and so it stays whatever
  command comes next, that of a recovery included, which puts back what the import found. A
  save that finds the number of its page therefore finds its rules;
* `RequestOK`: how far the request has got. Its remaining commands are one of a few suffixes of
  what it set out to do, and for each the invariant says where the copies are: a write has put the rules
  into "prev" before it replaces them, or found them there (`WriteWork`); an import has stored its archives,
  then its record, before anything is replaced (`Import7` to `Import1`), and its recovery works from those
  (`RecoverWork`); an undo removes its record last, and until then every script is back already or can be put back
  again from its archive (`Undo5` to `Undo1`, `UndoHalf`). That is why all of it can be
  interrupted between any two commands, and repeated;
* `CalmOK`: while only saves follow an import, its archives are untouched and the rules are at least as
  new as its own, so that the page may offer to undo it.

The action property `ReplacesWhatWasSeen` follows from `ViewsOK`, the others from `RequestOK` and
`CalmOK`.

Every inductive invariant was checked by TLC on the instance of its run before it was proved. The
proofs take between one and fifteen minutes a module.

Only model-checked: everything that is liveness
(`ServiceReturns`, `DeletionCompletes`, `SendSettles`, `SlotsReturned`, `Watched`, `CallsEnd`).

## 5. Not modelled, and what could follow

The plan of this project is carried out but for its last entries. Not modelled:

* reading, listing and sanitizing mail, MIME, the parsing and generation of Sieve, Gmail's
  filters, the web page's presentation: conversions of one value into another, without state;
* the toolkit and the scripts: sequential I/O over docker and mailcow's API;
* the admin services (accounts, teams, shares, domains...): requests that call mailcow's API one
  after the other and report each result; what they change is kept by mailcow, whose source is not
  in this repository, so that a model would be of its API and not of this code;
* the mail monitor and the quota notifications: incidents and an outbox in a state file, deliveries
  marked before they are tried and counted as unknown after a crash;
* preferences, signatures, templates, notices: one value read and replaced behind one request;
* the other limiters: nothing is awaited between their check and their count.

Worth a module next: `MailMonitor`, for admin/services/mail-monitor.js, on the pattern of
FtsNightly.
