------------------------------- MODULE FtsNightly -------------------------------
(***************************************************************************)
(* The nightly run that completes the full-text index                      *)
(* (webmail/server/admin: fts-state.js, fts-scheduler.js,                  *)
(* services/fts-nightly.js, audit.js).  Several instances share a lock     *)
(* directory and a state file; Dovecot goes on indexing whatever becomes   *)
(* of the instance that asked.  A file operation between two awaits is one *)
(* step, so that instances interleave, die and fail between them.          *)
(***************************************************************************)
EXTENDS Naturals, Sequences, FiniteSets

CONSTANTS Instances, Folders,
          MaxDays, MaxCrashes,
          MaxFaults    \* bound: failed writes
CONSTANT Nil

ASSUME FtsAssumption ==
  /\ Nil \notin Instances \union Folders
  /\ MaxDays \in Nat \ {0} /\ MaxCrashes \in Nat /\ MaxFaults \in Nat

VARIABLES
  lock,      \* the lock directory: [dir, token], the token naming its owner
  disk,      \* state.json: [run, runs, current, blocked, unknown]
  audit,     \* the audit file: [rows, torn], torn when its last line is incomplete
  remote,    \* indexes Dovecot may still be working on: [run, mailbox]
  inst,      \* instance -> what its process is doing
  today, crashes, faults,
  started,   \* days of the runs begun so far: a run is its position
  indexed,   \* runs that sent an index
  lost       \* a restart's mark replaced what another instance wrote meanwhile

vars == <<lock, disk, audit, remote, inst, today, crashes, faults, started, indexed, lost>>

emptyState == [run |-> 0, runs |-> {}, current |-> Nil, blocked |-> FALSE, unknown |-> Nil]

\* Of a process nothing survives.
Off == [pc |-> "off", then |-> Nil, state |-> emptyState, seen |-> emptyState, todo |-> {}, folder |-> Nil,
        sent |-> FALSE, keep |-> FALSE, failed |-> FALSE, lastDay |-> 0]
Waiting(i) == [Off EXCEPT !.pc = "idle", !.lastDay = inst[i].lastDay]

At(i, pc) == inst[i].pc = pc
To(i, me) == inst' = [inst EXCEPT ![i] = me]
Owner(i) == lock.token = i

\* A write to the state file succeeds, or fails before or after its rename.
Write(i, s, good, bad) ==
  \/ disk' = s /\ To(i, good) /\ UNCHANGED faults
  \/ faults < MaxFaults /\ faults' = faults + 1 /\ disk' \in {disk, s} /\ To(i, bad)

\* The lock goes back, unless it must stay.
Release(i, me) == IF me.keep THEN Waiting(i) ELSE [me EXCEPT !.pc = "unlink"]

-------------------------------------------------------------------------------
(* Restart, and the time.                                                  *)

Boot(i) ==
  /\ At(i, "off")
  /\ To(i, [Off EXCEPT !.pc = "boot", !.seen = disk])
  /\ UNCHANGED <<lock, disk, audit, remote, today, crashes, faults, started, indexed, lost>>

\* What a leftover lock says of the run before.
Restarted(i, s) == [s EXCEPT !.blocked = TRUE, !.unknown = [mailbox |-> s.current, by |-> i]]

MarkRestart(i) ==
  /\ At(i, "boot")
  /\ LET s == inst[i].seen IN
     IF s.unknown # Nil \/ ~lock.dir \/ s.run = 0
     THEN To(i, Waiting(i)) /\ UNCHANGED <<disk, faults, lost>>
     ELSE Write(i, Restarted(i, s), Waiting(i), Waiting(i)) /\ lost' = (lost \/ (disk' # disk /\ s # disk))
  /\ UNCHANGED <<lock, audit, remote, today, crashes, started, indexed>>

Crash(i) ==
  /\ ~At(i, "off") /\ crashes < MaxCrashes /\ crashes' = crashes + 1
  /\ To(i, Off)
  /\ \/ UNCHANGED audit
     \/ inst[i].pc \in {"intent", "result"} /\ audit' = [audit EXCEPT !.torn = TRUE]
  /\ UNCHANGED <<lock, disk, remote, today, faults, started, indexed, lost>>

NextDay ==
  /\ today < MaxDays /\ today' = today + 1
  /\ UNCHANGED <<lock, disk, audit, remote, inst, crashes, faults, started, indexed, lost>>

RemoteEnds ==
  /\ \E x \in remote : remote' = remote \ {x}
  /\ UNCHANGED <<lock, disk, audit, inst, today, crashes, faults, started, indexed, lost>>

-------------------------------------------------------------------------------
(* The lock.                                                               *)

\* A dead owner's lock is taken over.
TakenAlive == lock.dir /\ (lock.token = Nil \/ ~At(lock.token, "off"))

\* A leftover lock counts as well.
Taken == lock.dir

\* The scheduler tries once a day.
Tick(i) ==
  /\ At(i, "idle") /\ inst[i].lastDay # today
  /\ LET me == [Waiting(i) EXCEPT !.lastDay = today] IN
     IF Taken THEN To(i, me) /\ UNCHANGED lock
     ELSE lock' = [dir |-> TRUE, token |-> Nil] /\ To(i, [me EXCEPT !.pc = "token"])
  /\ UNCHANGED <<disk, audit, remote, today, crashes, faults, started, indexed, lost>>

WriteToken(i) ==
  /\ At(i, "token")
  /\ \/ lock' = [lock EXCEPT !.token = i] /\ To(i, [inst[i] EXCEPT !.pc = "start"]) /\ UNCHANGED faults
     \/ /\ faults < MaxFaults /\ faults' = faults + 1
        /\ lock' \in {lock, [lock EXCEPT !.token = i]}
        /\ To(i, Waiting(i))
  /\ UNCHANGED <<disk, audit, remote, today, crashes, started, indexed, lost>>

Unlink(i) ==
  /\ At(i, "unlink")
  /\ \/ Owner(i) /\ lock' = [lock EXCEPT !.token = Nil] /\ To(i, [inst[i] EXCEPT !.pc = "rmdir"]) /\ UNCHANGED faults
     \/ ~Owner(i) /\ To(i, Waiting(i)) /\ UNCHANGED <<lock, faults>>
     \/ faults < MaxFaults /\ faults' = faults + 1 /\ To(i, Waiting(i)) /\ UNCHANGED lock
  /\ UNCHANGED <<disk, audit, remote, today, crashes, started, indexed, lost>>

Rmdir(i) ==
  /\ At(i, "rmdir")
  /\ lock' = IF lock.token = Nil THEN [lock EXCEPT !.dir = FALSE] ELSE lock
  /\ To(i, Waiting(i))
  /\ UNCHANGED <<disk, audit, remote, today, crashes, faults, started, indexed, lost>>

\* The days that had their run are forgotten.
UnlockedFresh(s) == emptyState

\* The operator vouches for the remote: nothing is unknown any more.
Unlocked(s) == [s EXCEPT !.blocked = FALSE, !.unknown = Nil, !.current = Nil]

\* Scheduling is off and Dovecot has been seen idle.  The lock goes after the
\* state, or stays when that fails.
ManualUnlock ==
  /\ lock.dir \/ disk.blocked
  /\ remote = {} /\ \A i \in Instances : inst[i].pc \in {"off", "idle", "boot"}
  /\ disk' = Unlocked(disk)
  /\ \/ lock' = [dir |-> FALSE, token |-> Nil] /\ UNCHANGED faults
     \/ faults < MaxFaults /\ faults' = faults + 1 /\ UNCHANGED lock
  /\ UNCHANGED <<audit, remote, inst, today, crashes, started, indexed, lost>>

-------------------------------------------------------------------------------
(* The state file of a run.                                                *)

Started(s, day) == [emptyState EXCEPT !.run = Len(started) + 1, !.runs = s.runs \union {day}]

StartRun(i) ==
  /\ At(i, "start")
  /\ LET me == [inst[i] EXCEPT !.seen = disk]
     IN  To(i, IF ~Owner(i) \/ (~disk.blocked /\ me.lastDay \in disk.runs) THEN Release(i, me)
               ELSE IF disk.blocked THEN Waiting(i)
               ELSE [me EXCEPT !.pc = "begin"])
  /\ UNCHANGED <<lock, disk, audit, remote, today, crashes, faults, started, indexed, lost>>

Begin(i) ==
  /\ At(i, "begin")
  /\ LET me == [inst[i] EXCEPT !.seen = emptyState]
         s  == Started(inst[i].seen, me.lastDay)
     IN  /\ Write(i, s, [me EXCEPT !.pc = "intent", !.state = s], Release(i, me))
         /\ started' = IF disk' = s THEN Append(started, me.lastDay) ELSE started
  /\ UNCHANGED <<lock, audit, remote, today, crashes, indexed, lost>>

\* What the run does when its state cannot be saved.
SaveFailed(i, me, refused) ==
  LET m == [me EXCEPT !.keep = me.sent \/ refused, !.seen = emptyState, !.failed = TRUE]
  IN  IF me.then = "release" THEN Release(i, m) ELSE [m EXCEPT !.pc = "result"]

\* What was blocked stays blocked, and for the same reason.
Refused(s, old) == (old.blocked /\ ~s.blocked) \/ (old.unknown # Nil /\ old.unknown # s.unknown)

Save(i) ==
  /\ At(i, "save")
  /\ LET me == inst[i]
     IN  To(i, IF ~Owner(i) \/ me.state.run # disk.run THEN SaveFailed(i, me, FALSE)
               ELSE IF Refused(me.state, disk) THEN SaveFailed(i, me, TRUE)
               ELSE [me EXCEPT !.pc = "write", !.seen = disk])
  /\ UNCHANGED <<lock, disk, audit, remote, today, crashes, faults, started, indexed, lost>>

Saved(i) ==
  /\ At(i, "write")
  /\ LET s  == [inst[i].state EXCEPT !.runs = inst[i].seen.runs]
         me == [inst[i] EXCEPT !.seen = emptyState, !.state = s]
     IN  Write(i, s, IF me.then = "release" THEN Release(i, me) ELSE [me EXCEPT !.pc = me.then, !.then = Nil],
               SaveFailed(i, inst[i], FALSE))
  /\ UNCHANGED <<lock, audit, remote, today, crashes, started, indexed, lost>>

SaveThen(me, pc) == [me EXCEPT !.pc = "save", !.then = pc]

-------------------------------------------------------------------------------
(* The audit file.                                                         *)

\* The line is added to whatever the file ends with.
AppendRaw(a, row) == [rows |-> IF a.torn THEN a.rows ELSE a.rows \union {row}, torn |-> FALSE]

\* An incomplete last line is ended first.
AppendRow(a, row) == [rows |-> a.rows \union {row}, torn |-> FALSE]

Record(i, phase, good, bad) ==
  LET row == [run |-> inst[i].state.run, phase |-> phase] IN
  \/ audit' = AppendRow(audit, row) /\ To(i, good) /\ UNCHANGED faults
  \/ /\ faults < MaxFaults /\ faults' = faults + 1
     /\ audit' \in {audit, AppendRow(audit, row), [AppendRow(audit, row) EXCEPT !.rows = audit.rows, !.torn = TRUE]}
     /\ To(i, bad)

\* Without an intent nothing is done.
Intent(i) ==
  /\ At(i, "intent")
  /\ Record(i, "intent", [inst[i] EXCEPT !.pc = "scan"], [inst[i] EXCEPT !.pc = "catch"])
  /\ UNCHANGED <<lock, disk, remote, today, crashes, started, indexed, lost>>

Result(i) ==
  /\ At(i, "result")
  /\ Record(i, "result", IF inst[i].failed THEN [inst[i] EXCEPT !.pc = "catch"] ELSE Release(i, inst[i]),
            [inst[i] EXCEPT !.pc = "catch"])
  /\ UNCHANGED <<lock, disk, remote, today, crashes, started, indexed, lost>>

-------------------------------------------------------------------------------
(* The run.                                                                *)

\* All folders are measured; those with a backlog are indexed one by one.
Scan(i) ==
  /\ At(i, "scan")
  /\ \/ \E q \in SUBSET Folders : To(i, SaveThen([inst[i] EXCEPT !.todo = q], "next"))
     \/ To(i, [inst[i] EXCEPT !.pc = "result", !.failed = TRUE])
  /\ UNCHANGED <<lock, disk, audit, remote, today, crashes, faults, started, indexed, lost>>

\* Nothing names the folder being indexed.
WorkingBlind(s, f) == s

Working(s, f) == [s EXCEPT !.current = f]
Rested(s) == [s EXCEPT !.current = Nil]

\* Past the deadline, or with nothing left, the run is over.  A folder measured
\* again may need nothing, or fail.
Over(i) ==
  /\ At(i, "next")
  /\ To(i, SaveThen([inst[i] EXCEPT !.todo = {}, !.state = Rested(@)], "result"))
  /\ UNCHANGED <<lock, disk, audit, remote, today, crashes, faults, started, indexed, lost>>

Folder(i) ==
  /\ At(i, "next")
  /\ \E f \in inst[i].todo :
       LET me == [inst[i] EXCEPT !.todo = @ \ {f}] IN
       \/ To(i, SaveThen([me EXCEPT !.state = Rested(@)], "next"))
       \/ To(i, SaveThen([me EXCEPT !.state = Working(@, f), !.folder = f], "check"))
  /\ UNCHANGED <<lock, disk, audit, remote, today, crashes, faults, started, indexed, lost>>

assertUnblocked(i) ==
  /\ At(i, "check")
  /\ IF disk.blocked
     THEN To(i, [inst[i] EXCEPT !.keep = TRUE, !.state = disk, !.pc = "result", !.failed = TRUE])
     ELSE \/ To(i, [inst[i] EXCEPT !.pc = "send"])
          \/ To(i, [inst[i] EXCEPT !.pc = "next", !.todo = {}, !.state = Rested(@)])
  /\ UNCHANGED <<lock, disk, audit, remote, today, crashes, faults, started, indexed, lost>>

\* The request is never sent, or it is.
indexMailbox(i) ==
  /\ At(i, "send")
  /\ \/ To(i, SaveThen([inst[i] EXCEPT !.state = Rested(@), !.folder = Nil], "next")) /\ UNCHANGED <<remote, indexed>>
     \/ /\ To(i, [inst[i] EXCEPT !.pc = "sent", !.sent = TRUE])
        /\ remote' = remote \union {[run |-> inst[i].state.run, mailbox |-> inst[i].folder]}
        /\ indexed' = indexed \union {inst[i].state.run}
  /\ UNCHANGED <<lock, disk, audit, today, crashes, faults, started, lost>>

\* Dovecot answers, with success or an error: it is done with the folder.
Answered(i) ==
  /\ At(i, "sent") /\ [run |-> inst[i].state.run, mailbox |-> inst[i].folder] \notin remote
  /\ To(i, SaveThen([inst[i] EXCEPT !.state = Rested(@), !.folder = Nil], "next"))
  /\ UNCHANGED <<lock, disk, audit, remote, today, crashes, faults, started, indexed, lost>>

Marked(i, s, f) == [s EXCEPT !.blocked = TRUE, !.unknown = [mailbox |-> f, by |-> i]]

\* No answer, or one that says nothing.
Unknown(i) ==
  /\ At(i, "sent")
  /\ To(i, [inst[i] EXCEPT !.pc = "mark", !.keep = TRUE, !.state = Marked(i, @, inst[i].folder)])
  /\ UNCHANGED <<lock, disk, audit, remote, today, crashes, faults, started, indexed, lost>>

markRemoteUnknown(i) ==
  /\ At(i, "mark")
  /\ To(i, IF Owner(i) THEN [inst[i] EXCEPT !.pc = "marking", !.seen = disk] ELSE SaveThen(inst[i], "result"))
  /\ UNCHANGED <<lock, disk, audit, remote, today, crashes, faults, started, indexed, lost>>

\* Whether or not this works, the lock stays and the state is saved.
MarkUnknown(i) ==
  /\ At(i, "marking")
  /\ LET me == SaveThen([inst[i] EXCEPT !.seen = emptyState], "result")
     IN  Write(i, Marked(i, inst[i].seen, inst[i].folder), me, me)
  /\ UNCHANGED <<lock, audit, remote, today, crashes, started, indexed, lost>>

\* The run failed: the state says so if it can.
Catch(i) ==
  /\ At(i, "catch")
  /\ LET me == inst[i]
         s  == IF me.keep /\ ~me.state.blocked /\ disk.blocked
               THEN [me.state EXCEPT !.blocked = TRUE, !.unknown = disk.unknown] ELSE me.state
     IN  To(i, SaveThen([me EXCEPT !.state = IF me.sent \/ me.keep THEN s ELSE Rested(s)], "release"))
  /\ UNCHANGED <<lock, disk, audit, remote, today, crashes, faults, started, indexed, lost>>

-------------------------------------------------------------------------------
Init ==
  /\ lock = [dir |-> FALSE, token |-> Nil] /\ disk = emptyState
  /\ audit = [rows |-> {}, torn |-> FALSE] /\ remote = {}
  /\ inst = [i \in Instances |-> Off]
  /\ today = 1 /\ crashes = 0 /\ faults = 0 /\ started = <<>> /\ indexed = {} /\ lost = FALSE

\* One run, whole or in part.
runOnce(i) ==
  \/ Tick(i) \/ WriteToken(i) \/ StartRun(i) \/ Begin(i) \/ Intent(i) \/ Scan(i) \/ Over(i) \/ Folder(i)
  \/ assertUnblocked(i) \/ indexMailbox(i) \/ Answered(i) \/ Unknown(i) \/ markRemoteUnknown(i) \/ MarkUnknown(i)
  \/ Save(i) \/ Saved(i) \/ Result(i) \/ Catch(i) \/ Unlink(i) \/ Rmdir(i)

Next ==
  \/ \E i \in Instances : Boot(i) \/ MarkRestart(i) \/ Crash(i) \/ runOnce(i)
  \/ NextDay \/ RemoteEnds \/ ManualUnlock

Spec == Init /\ [][Next]_vars

-------------------------------------------------------------------------------
(* Properties.                                                             *)

\* Dovecot never works on two indexes at once, and none is under way without
\* the lock, whichever instances died or lost an answer (fts-state.js acquire,
\* release, manualUnlock; fts-nightly.js keepLock).
OneIndex == Cardinality(remote) <= 1 /\ (remote # {} => lock.dir)

\* No day has a second run, not even after a crash, an unlock or a restart
\* (fts-state.js runIds) - unless a restart's mark overwrote the day.
OncePerDay == ~lost => \A j, k \in DOMAIN started : started[j] = started[k] => j = k

\* The state file names the folder of an index that may still be running, for
\* the operator to look at (fts-state.js current, remoteUnknown).
Traceable ==
  ~lost => \A x \in remote : disk.current = x.mailbox \/ (disk.unknown # Nil /\ disk.unknown.mailbox = x.mailbox)

\* An index is sent only by a run whose intent can be read in the audit file,
\* whatever an earlier crash left at its end (audit.js append, run).
IndexRecorded == \A r \in indexed : [run |-> r, phase |-> "intent"] \in audit.rows
===============================================================================
