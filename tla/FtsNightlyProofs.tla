---------------------------- MODULE FtsNightlyProofs ----------------------------
(***************************************************************************)
(* Proofs about FtsNightly: its types, that Dovecot never has two indexes  *)
(* at once, and what the state file knows of the days and of the index     *)
(* under way.                                                              *)
(***************************************************************************)
EXTENDS FtsNightly, TLAPS, FiniteSetTheorems

Quiet == {"off", "idle", "boot"}
Before == {"token", "start", "begin", "intent", "scan", "next", "check", "send"}
Places == Quiet \union Before
            \union {"sent", "mark", "marking", "save", "write", "result", "catch", "unlink", "rmdir"}
States == [run : Nat, runs : SUBSET Nat, current : Folders \union {Nil}, blocked : BOOLEAN,
           unknown : {Nil} \union [mailbox : Folders \union {Nil}, by : Instances]]
Process == [pc : Places, then : {Nil, "next", "check", "result", "release"}, state : States, seen : States,
            todo : SUBSET Folders, folder : Folders \union {Nil}, sent : BOOLEAN, keep : BOOLEAN, failed : BOOLEAN,
            lastDay : Nat]

TypeOK ==
  /\ lock \in [dir : BOOLEAN, token : Instances \union {Nil}]
  /\ disk \in States
  /\ audit \in [rows : SUBSET [run : Nat, phase : {"intent", "result"}], torn : BOOLEAN]
  /\ remote \subseteq [run : Nat, mailbox : Folders \union {Nil}]
  /\ inst \in [Instances -> Process]
  /\ \A i \in Instances : inst[i].pc \in {"save", "write"} => inst[i].then \in {"next", "check", "result", "release"}
  /\ today \in Nat /\ crashes \in Nat /\ faults \in Nat
  /\ started \in Seq(Nat) /\ indexed \subseteq Nat /\ lost \in BOOLEAN

\* A process that holds the lock, or has left it behind but not yet said so.
Busy(p) == p.pc \notin Quiet

\* What its process knows of an index that may still run: it waits for the
\* answer, or it will keep the lock.
Waits(p) == p.pc = "sent" /\ p.sent /\ remote = {[run |-> p.state.run, mailbox |-> p.folder]}
Keeps(p) == /\ p.keep /\ p.sent
            /\ p.pc \in {"mark", "marking", "save", "write", "result", "catch"}
            /\ p.pc \in {"save", "write"} => p.then \in {"result", "release"}
Knows(p) == Waits(p) \/ Keeps(p)

IInv ==
  /\ TypeOK
  /\ \A i \in Instances : Busy(inst[i]) => lock.dir
  /\ \A i, j \in Instances : Busy(inst[i]) /\ Busy(inst[j]) => i = j
  /\ remote # {} => lock.dir
  /\ \A i \in Instances : remote # {} /\ Busy(inst[i]) => Knows(inst[i])
  /\ \A x, y \in remote : x = y

-------------------------------------------------------------------------------
(* Building blocks.                                                        *)

\* The records the module builds are of their types.
LEMMA Records == emptyState \in States /\ Off \in Process /\ Off.pc = "off"
BY DEF emptyState, States, Off, Process, Places, Quiet

LEMMA WaitingType ==
  ASSUME TypeOK, NEW i \in Instances
  PROVE  Waiting(i) \in Process /\ Waiting(i).pc = "idle"
<1>1. inst[i].lastDay \in Nat
  BY DEF TypeOK, Process
<1>2. Off \in Process
  BY Records
<1> QED
  BY <1>1, <1>2 DEF Waiting, Off, Process, Places, Quiet

\* A save that goes on anywhere but to the folders ahead keeps what is known.
LEMMA SaveThenType ==
  ASSUME NEW p \in Process, NEW pc \in {"next", "check", "result", "release"}
  PROVE  /\ SaveThen(p, pc) \in Process
         /\ SaveThen(p, pc).pc = "save" /\ SaveThen(p, pc).then = pc
         /\ SaveThen(p, pc).keep = p.keep /\ SaveThen(p, pc).sent = p.sent
BY DEF SaveThen, Process, Places

\* A process either gives the lock back or, when it must stay, is done.
LEMMA ReleaseType ==
  ASSUME TypeOK, NEW i \in Instances, NEW p \in Process
  PROVE  /\ Release(i, p) \in Process
         /\ Release(i, p).pc \in {"idle", "unlink"}
         /\ p.keep => Release(i, p).pc = "idle"
<1>1. [p EXCEPT !.pc = "unlink"] \in Process /\ [p EXCEPT !.pc = "unlink"].pc = "unlink"
  BY DEF Process, Places
<1> QED
  BY <1>1, WaitingType DEF Release

\* After a failed save the lock of a run that sent an index stays.
LEMMA SaveFailedType ==
  ASSUME TypeOK, NEW i \in Instances, NEW p \in Process, NEW refused \in BOOLEAN
  PROVE  /\ SaveFailed(i, p, refused) \in Process
         /\ SaveFailed(i, p, refused).pc \in {"idle", "unlink", "result"}
         /\ p.sent => \/ SaveFailed(i, p, refused).pc = "idle"
                      \/ /\ SaveFailed(i, p, refused).pc = "result"
                         /\ SaveFailed(i, p, refused).keep /\ SaveFailed(i, p, refused).sent
<1> DEFINE m == [p EXCEPT !.keep = p.sent \/ refused, !.seen = emptyState, !.failed = TRUE]
<1>1. m \in Process /\ (p.sent => m.keep) /\ m.sent = p.sent
  BY Records DEF Process
<1>2. [m EXCEPT !.pc = "result"] \in Process
  BY <1>1 DEF Process, Places
<1>3. /\ [m EXCEPT !.pc = "result"].pc = "result"
      /\ [m EXCEPT !.pc = "result"].keep = m.keep /\ [m EXCEPT !.pc = "result"].sent = m.sent
  BY <1>1 DEF Process
<1>4. CASE p.then = "release"
  <2>1. SaveFailed(i, p, refused) = Release(i, m)
    BY <1>4, <1>1 DEF SaveFailed, Process
  <2>2. Release(i, m) \in Process /\ Release(i, m).pc \in {"idle", "unlink"} /\ (m.keep => Release(i, m).pc = "idle")
    <3> HIDE DEF m
    <3> QED
      BY <1>1, ReleaseType
  <2>3. p.sent => SaveFailed(i, p, refused).pc = "idle"
    BY <2>1, <2>2, <1>1
  <2> HIDE DEF m
  <2> QED
    BY <2>1, <2>2, <2>3
<1>5. CASE p.then # "release"
  <2>1. SaveFailed(i, p, refused) = [m EXCEPT !.pc = "result"]
    BY <1>5, <1>1 DEF SaveFailed, Process
  <2> QED
    BY <2>1, <1>1, <1>2, <1>3
<1> QED
  BY <1>4, <1>5

-------------------------------------------------------------------------------
(* Steps of one process.                                                   *)

\* What a step that leaves the lock directory and Dovecot alone may make of
\* its process.
Fine(i, p) ==
  /\ p \in Process
  /\ p.pc \in {"save", "write"} => p.then \in {"next", "check", "result", "release"}
  /\ Busy(p) => Busy(inst[i])
  /\ (remote # {} /\ Busy(p) /\ Knows(inst[i])) => Knows(p)

\* The variables other than inst keep their types.
OthersOK ==
  /\ lock' \in [dir : BOOLEAN, token : Instances \union {Nil}]
  /\ disk' \in States
  /\ audit' \in [rows : SUBSET [run : Nat, phase : {"intent", "result"}], torn : BOOLEAN]
  /\ remote' \subseteq [run : Nat, mailbox : Folders \union {Nil}]
  /\ today' \in Nat /\ crashes' \in Nat /\ faults' \in Nat
  /\ started' \in Seq(Nat) /\ indexed' \subseteq Nat /\ lost' \in BOOLEAN

\* Such a step preserves the invariant.
LEMMA FineStep ==
  ASSUME IInv, OthersOK, NEW i \in Instances, NEW p, To(i, p), Fine(i, p),
         lock'.dir = lock.dir, remote' = remote
  PROVE  IInv'
<1>1. inst' \in [Instances -> Process] /\ inst'[i] = p /\ \A j \in Instances : j # i => inst'[j] = inst[j]
  BY DEF IInv, TypeOK, To, Fine
<1>2. TypeOK'
  BY <1>1 DEF IInv, TypeOK, OthersOK, Fine
<1>3. \A j \in Instances : Busy(inst'[j]) => Busy(inst[j])
  BY <1>1 DEF Fine
<1>4. \A j \in Instances : Busy(inst'[j]) => lock'.dir
  BY <1>3 DEF IInv
<1>5. \A j, k \in Instances : Busy(inst'[j]) /\ Busy(inst'[k]) => j = k
  BY <1>3 DEF IInv
<1>6. \A j \in Instances : remote' # {} /\ Busy(inst'[j]) => Knows(inst'[j])
  BY <1>1, <1>3 DEF IInv, Fine
<1>8. (\A j \in Instances : remote # {} /\ Busy(inst[j]) => Knows(inst[j]))'
  BY <1>6 DEF Knows, Waits, Keeps, Busy
<1> QED
  BY <1>2, <1>4, <1>5, <1>8 DEF IInv, Busy

-------------------------------------------------------------------------------
(* The actions.                                                            *)

\* Writes to the state file leave one of two states and one of two processes.
LEMMA WriteType ==
  ASSUME TypeOK, NEW i \in Instances, NEW s \in States, NEW good, NEW bad, Write(i, s, good, bad)
  PROVE  /\ disk' \in States /\ faults' \in Nat
         /\ \E p \in {good, bad} : To(i, p)
BY DEF Write, TypeOK

\* Appending a row leaves an audit file.
LEMMA RecordType ==
  ASSUME TypeOK, NEW i \in Instances, NEW phase \in {"intent", "result"}, NEW good, NEW bad, Record(i, phase, good, bad)
  PROVE  /\ audit' \in [rows : SUBSET [run : Nat, phase : {"intent", "result"}], torn : BOOLEAN]
         /\ faults' \in Nat
         /\ \E p \in {good, bad} : To(i, p)
<1>1. inst[i].state.run \in Nat
  BY DEF TypeOK, Process, States
<1> DEFINE row == [run |-> inst[i].state.run, phase |-> phase]
           new == AppendRow(audit, row)
<1>2. row \in [run : Nat, phase : {"intent", "result"}]
  BY <1>1
<1>3. new \in [rows : SUBSET [run : Nat, phase : {"intent", "result"}], torn : BOOLEAN]
  <2> HIDE DEF row
  <2> QED
    BY <1>2 DEF AppendRow, TypeOK
<1>4. [new EXCEPT !.rows = audit.rows, !.torn = TRUE] \in [rows : SUBSET [run : Nat, phase : {"intent", "result"}], torn : BOOLEAN]
  <2> HIDE DEF new
  <2> QED
    BY <1>3 DEF TypeOK
<1>5. audit' \in {audit, new, [new EXCEPT !.rows = audit.rows, !.torn = TRUE]} /\ faults' \in Nat
  BY DEF Record, TypeOK
<1>6. \E p \in {good, bad} : To(i, p)
  BY DEF Record
<1> HIDE DEF new
<1> QED
  BY <1>3, <1>4, <1>5, <1>6 DEF TypeOK

LEMMA BootSafe == ASSUME IInv, NEW i \in Instances, Boot(i) PROVE IInv'
<1> DEFINE p == [Off EXCEPT !.pc = "boot", !.seen = disk]
<1>1. p \in Process /\ p.pc = "boot"
  BY Records DEF IInv, TypeOK, Process, Places, Quiet
<1>2. To(i, p)
  BY DEF Boot
<1> HIDE DEF p
<1>3. Fine(i, p)
  BY <1>1 DEF Fine, Busy, Quiet
<1>4. OthersOK /\ lock' = lock /\ remote' = remote
  BY DEF Boot, OthersOK, IInv, TypeOK
<1> QED
  BY <1>2, <1>3, <1>4, FineStep

\* A process that waits is always fine.
LEMMA WaitingFine == ASSUME IInv, NEW i \in Instances PROVE Fine(i, Waiting(i))
BY WaitingType DEF IInv, Fine, Busy, Quiet

LEMMA MarkRestartSafe == ASSUME IInv, NEW i \in Instances, MarkRestart(i) PROVE IInv'
<1> DEFINE s == inst[i].seen
<1>1. s \in States
  BY DEF IInv, TypeOK, Process
<1>2. Restarted(i, s) \in States
  <2> HIDE DEF s
  <2> QED
    BY <1>1 DEF Restarted, States
<1>3. To(i, Waiting(i)) /\ disk' \in States /\ faults' \in Nat /\ lost' \in BOOLEAN
  BY <1>1, <1>2 DEF MarkRestart, Write, IInv, TypeOK
<1>4. OthersOK /\ lock' = lock /\ remote' = remote
  BY <1>3 DEF MarkRestart, OthersOK, IInv, TypeOK
<1> QED
  BY <1>3, <1>4, WaitingFine, FineStep

LEMMA CrashSafe == ASSUME IInv, NEW i \in Instances, Crash(i) PROVE IInv'
<1>1. To(i, Off)
  BY DEF Crash
<1>2. Fine(i, Off)
  BY Records DEF Fine, Busy, Quiet
<1>3. audit' \in [rows : SUBSET [run : Nat, phase : {"intent", "result"}], torn : BOOLEAN]
  BY DEF Crash, IInv, TypeOK
<1>4. OthersOK /\ lock' = lock /\ remote' = remote
  BY <1>3 DEF Crash, OthersOK, IInv, TypeOK
<1> QED
  BY <1>1, <1>2, <1>4, FineStep

LEMMA NextDaySafe == ASSUME IInv, NextDay PROVE IInv'
BY DEF NextDay, IInv, TypeOK, Busy, Knows, Waits, Keeps

\* What was known of the index goes with it.
LEMMA RemoteEndsSafe == ASSUME IInv, RemoteEnds PROVE IInv'
<1>1. remote' = {} /\ UNCHANGED <<lock, disk, audit, inst, today, crashes, faults, started, indexed, lost>>
  BY DEF RemoteEnds, IInv
<1> QED
  BY <1>1 DEF IInv, TypeOK, Busy

\* The lock directory is made only when nobody is at work.
LEMMA TickSafe == ASSUME IInv, NEW i \in Instances, Tick(i) PROVE IInv'
<1> DEFINE me == [Waiting(i) EXCEPT !.lastDay = today]
<1>1. me \in Process /\ me.pc = "idle"
  BY WaitingType DEF IInv, TypeOK, Process
<1>2. CASE Taken
  <2>1. To(i, me) /\ OthersOK /\ lock' = lock /\ remote' = remote
    BY <1>2 DEF Tick, OthersOK, IInv, TypeOK
  <2> HIDE DEF me
  <2>2. Fine(i, me)
    BY <1>1 DEF Fine, Busy, Quiet
  <2> QED
    BY <2>1, <2>2, FineStep
<1>3. CASE ~Taken
  <2> DEFINE p == [me EXCEPT !.pc = "token"]
  <2>1. To(i, p) /\ lock' = [dir |-> TRUE, token |-> Nil] /\ remote' = remote
    BY <1>3 DEF Tick
  <2> HIDE DEF me
  <2>2. p \in Process /\ p.pc = "token"
    BY <1>1 DEF Process, Places, Before
  <2>3. remote = {} /\ \A j \in Instances : ~Busy(inst[j])
    BY <1>3 DEF Taken, IInv
  <2>4. inst' \in [Instances -> Process] /\ inst'[i] = p /\ \A j \in Instances : j # i => inst'[j] = inst[j]
    BY <2>1, <2>2 DEF IInv, TypeOK, To
  <2> HIDE DEF p
  <2>5. TypeOK'
    BY <2>1, <2>2, <2>4 DEF Tick, IInv, TypeOK
  <2>6. \A j \in Instances : Busy(inst'[j]) => j = i
    BY <2>3, <2>4
  <2> QED
    BY <2>1, <2>3, <2>5, <2>6 DEF IInv, Busy
<1> QED
  BY <1>2, <1>3

LEMMA WriteTokenSafe == ASSUME IInv, NEW i \in Instances, WriteToken(i) PROVE IInv'
<1> DEFINE p == [inst[i] EXCEPT !.pc = "start"]
<1>1. inst[i] \in Process
  BY DEF IInv, TypeOK
<1>2. p \in Process /\ p.pc = "start"
  BY <1>1 DEF Process, Places, Before
<1>3. (To(i, p) \/ To(i, Waiting(i))) /\ lock' \in {lock, [lock EXCEPT !.token = i]} /\ faults' \in Nat
  BY DEF WriteToken, IInv, TypeOK
<1>4. OthersOK /\ lock'.dir = lock.dir /\ remote' = remote
  BY <1>3 DEF WriteToken, OthersOK, IInv, TypeOK
<1> HIDE DEF p
<1>5. Busy(inst[i]) /\ ~Knows(inst[i])
  BY DEF WriteToken, At, Busy, Quiet, Knows, Waits, Keeps
<1>6. Fine(i, p)
  BY <1>2, <1>5 DEF Fine
<1> QED
  BY <1>3, <1>4, <1>6, WaitingFine, FineStep

LEMMA UnlinkSafe == ASSUME IInv, NEW i \in Instances, Unlink(i) PROVE IInv'
<1> DEFINE p == [inst[i] EXCEPT !.pc = "rmdir"]
<1>1. inst[i] \in Process
  BY DEF IInv, TypeOK
<1>2. p \in Process /\ p.pc = "rmdir"
  BY <1>1 DEF Process, Places
<1>3. (To(i, p) \/ To(i, Waiting(i))) /\ lock' \in {lock, [lock EXCEPT !.token = Nil]} /\ faults' \in Nat
  BY DEF Unlink, IInv, TypeOK
<1>4. OthersOK /\ lock'.dir = lock.dir /\ remote' = remote
  BY <1>3 DEF Unlink, OthersOK, IInv, TypeOK
<1> HIDE DEF p
<1>5. Busy(inst[i]) /\ ~Knows(inst[i])
  BY DEF Unlink, At, Busy, Quiet, Knows, Waits, Keeps
<1>6. Fine(i, p)
  BY <1>2, <1>5 DEF Fine
<1> QED
  BY <1>3, <1>4, <1>6, WaitingFine, FineStep

\* Only a run that knows of no index gives the lock back, and it is alone.
LEMMA RmdirSafe == ASSUME IInv, NEW i \in Instances, Rmdir(i) PROVE IInv'
<1>1. Busy(inst[i]) /\ ~Knows(inst[i])
  BY DEF Rmdir, At, Busy, Quiet, Knows, Waits, Keeps
<1>2. remote = {} /\ \A j \in Instances : Busy(inst[j]) => j = i
  BY <1>1 DEF IInv
<1>3. Waiting(i) \in Process /\ ~Busy(Waiting(i))
  BY WaitingType DEF IInv, Busy, Quiet
<1>4. inst' \in [Instances -> Process] /\ inst'[i] = Waiting(i) /\ \A j \in Instances : j # i => inst'[j] = inst[j]
  BY <1>3 DEF Rmdir, To, IInv, TypeOK
<1>5. lock' \in [dir : BOOLEAN, token : Instances \union {Nil}] /\ remote' = remote
  BY DEF Rmdir, IInv, TypeOK
<1>6. TypeOK'
  BY <1>3, <1>4, <1>5 DEF Rmdir, IInv, TypeOK, Busy, Quiet
<1>7. \A j \in Instances : ~Busy(inst'[j])
  BY <1>2, <1>3, <1>4
<1> QED
  BY <1>2, <1>5, <1>6, <1>7 DEF IInv, Busy

LEMMA ManualUnlockSafe == ASSUME IInv, ManualUnlock PROVE IInv'
<1>1. remote' = {} /\ inst' = inst /\ \A i \in Instances : ~Busy(inst[i])
  BY DEF ManualUnlock, Busy, Quiet
<1>2. disk' \in States
  BY DEF ManualUnlock, Unlocked, States, IInv, TypeOK
<1>3. lock' \in [dir : BOOLEAN, token : Instances \union {Nil}] /\ faults' \in Nat
  <2>1. lock \in [dir : BOOLEAN, token : Instances \union {Nil}] /\ faults \in Nat
    BY DEF IInv, TypeOK
  <2>2. [dir |-> FALSE, token |-> Nil] \in [dir : BOOLEAN, token : Instances \union {Nil}]
    OBVIOUS
  <2>3. \/ lock' = [dir |-> FALSE, token |-> Nil] /\ faults' = faults
        \/ faults' = faults + 1 /\ lock' = lock
    BY DEF ManualUnlock
  <2>4. faults' \in Nat
    BY <2>1, <2>3
  <2> QED
    BY <2>1, <2>2, <2>3, <2>4
<1>4. TypeOK'
  BY <1>1, <1>2, <1>3 DEF ManualUnlock, IInv, TypeOK
<1> QED
  BY <1>1, <1>4 DEF IInv, Busy

\* A new run has a state of its own.
LEMMA StartedType ==
  ASSUME TypeOK, NEW s \in States, NEW day \in Nat
  PROVE  Started(s, day) \in States
<1>1. Len(started) + 1 \in Nat
  BY DEF TypeOK
<1> QED
  BY <1>1, Records DEF Started, States

\* A process before its first index knows of none.
LEMMA Unaware ==
  ASSUME IInv, NEW i \in Instances, inst[i].pc \in Before
  PROVE  Busy(inst[i]) /\ ~Knows(inst[i]) /\ remote = {}
<1>1. Busy(inst[i]) /\ ~Knows(inst[i])
  BY DEF Busy, Quiet, Before, Knows, Waits, Keeps
<1> QED
  BY <1>1 DEF IInv

LEMMA StartRunSafe == ASSUME IInv, NEW i \in Instances, StartRun(i) PROVE IInv'
<1> DEFINE me == [inst[i] EXCEPT !.seen = disk]
           p == [me EXCEPT !.pc = "begin"]
<1>1. me \in Process
  <2>1. inst[i] \in Process /\ disk \in States
    BY DEF IInv, TypeOK
  <2> QED
    BY <2>1 DEF Process
<1>2. To(i, Release(i, me)) \/ To(i, Waiting(i)) \/ To(i, p)
  BY DEF StartRun
<1>3. OthersOK /\ lock' = lock /\ remote' = remote
  BY DEF StartRun, OthersOK, IInv, TypeOK
<1> HIDE DEF me
<1>4. p \in Process /\ p.pc = "begin"
  BY <1>1 DEF Process, Places, Before
<1>5. Release(i, me) \in Process /\ Release(i, me).pc \in {"idle", "unlink"}
  BY <1>1, ReleaseType DEF IInv
<1>6. Busy(inst[i]) /\ remote = {}
  BY Unaware DEF StartRun, At, Before
<1> HIDE DEF p
<1>7. Fine(i, p) /\ Fine(i, Release(i, me))
  BY <1>4, <1>5, <1>6 DEF Fine
<1> QED
  BY <1>2, <1>3, <1>7, WaitingFine, FineStep

LEMMA BeginSafe == ASSUME IInv, NEW i \in Instances, Begin(i) PROVE IInv'
<1> DEFINE me == [inst[i] EXCEPT !.seen = emptyState]
           s == Started(inst[i].seen, me.lastDay)
           p == [me EXCEPT !.pc = "intent", !.state = s]
<1>1. me \in Process /\ me.lastDay \in Nat /\ inst[i].seen \in States
  BY Records DEF IInv, TypeOK, Process
<1>2. s \in States
  BY <1>1, StartedType DEF IInv
<1>3. Write(i, s, p, Release(i, me)) /\ started' \in {started, Append(started, me.lastDay)}
  BY DEF Begin
<1>4. UNCHANGED <<lock, audit, remote, today, crashes, indexed, lost>> /\ At(i, "begin")
  BY DEF Begin
<1> HIDE DEF me
<1>5. started' \in Seq(Nat)
  <2>1. started \in Seq(Nat)
    BY DEF IInv, TypeOK
  <2>2. Append(started, me.lastDay) \in Seq(Nat)
    BY <1>1, <2>1
  <2> QED
    BY <1>3, <2>1, <2>2
<1> HIDE DEF s
<1>6. p \in Process /\ p.pc = "intent"
  BY <1>1, <1>2 DEF Process, Places, Before
<1>7. Release(i, me) \in Process /\ Release(i, me).pc \in {"idle", "unlink"}
  BY <1>1, ReleaseType DEF IInv
<1> HIDE DEF p
<1>8. disk' \in States /\ faults' \in Nat /\ (To(i, p) \/ To(i, Release(i, me)))
  BY <1>2, <1>3, WriteType DEF IInv
<1>9. OthersOK /\ lock' = lock /\ remote' = remote
  BY <1>4, <1>5, <1>8 DEF OthersOK, IInv, TypeOK
<1>10. Busy(inst[i]) /\ remote = {}
  BY <1>4, Unaware DEF At, Before
<1>11. Fine(i, p) /\ Fine(i, Release(i, me))
  BY <1>6, <1>7, <1>10 DEF Fine
<1> QED
  BY <1>8, <1>9, <1>11, FineStep

\* A failed save is fine where a run saves.
LEMMA SaveFailedFine ==
  ASSUME IInv, NEW i \in Instances, inst[i].pc \in {"save", "write"}, NEW refused \in BOOLEAN
  PROVE  Fine(i, SaveFailed(i, inst[i], refused))
<1>1. inst[i] \in Process /\ Busy(inst[i])
  BY DEF IInv, TypeOK, Busy, Quiet
<1>2. Knows(inst[i]) => inst[i].sent
  BY DEF Knows, Waits, Keeps
<1> DEFINE p == SaveFailed(i, inst[i], refused)
<1>3. /\ p \in Process /\ p.pc \in {"idle", "unlink", "result"}
      /\ inst[i].sent => p.pc = "idle" \/ (p.pc = "result" /\ p.keep /\ p.sent)
  BY <1>1, SaveFailedType DEF IInv
<1> HIDE DEF p
<1>4. Fine(i, p)
  BY <1>1, <1>2, <1>3 DEF Fine, Busy, Quiet, Knows, Keeps
<1> QED
  BY <1>4 DEF p

LEMMA SaveSafe == ASSUME IInv, NEW i \in Instances, Save(i) PROVE IInv'
<1> DEFINE p == [inst[i] EXCEPT !.pc = "write", !.seen = disk]
<1>1. inst[i] \in Process /\ inst[i].pc = "save" /\ inst[i].then \in {"next", "check", "result", "release"}
  BY DEF IInv, TypeOK, Save, At
<1>2. /\ p \in Process /\ p.pc = "write" /\ p.then = inst[i].then
      /\ p.keep = inst[i].keep /\ p.sent = inst[i].sent
  BY <1>1 DEF IInv, TypeOK, Process, Places
<1>3. \/ To(i, SaveFailed(i, inst[i], FALSE)) \/ To(i, SaveFailed(i, inst[i], TRUE)) \/ To(i, p)
  BY DEF Save
<1>4. OthersOK /\ lock' = lock /\ remote' = remote
  BY DEF Save, OthersOK, IInv, TypeOK
<1> HIDE DEF p
<1>5. Fine(i, p)
  BY <1>1, <1>2 DEF Fine, Busy, Quiet, Knows, Waits, Keeps
<1> QED
  BY <1>1, <1>3, <1>4, <1>5, SaveFailedFine, FineStep

LEMMA SavedSafe == ASSUME IInv, NEW i \in Instances, Saved(i) PROVE IInv'
<1> DEFINE s == [inst[i].state EXCEPT !.runs = inst[i].seen.runs]
           me == [inst[i] EXCEPT !.seen = emptyState, !.state = s]
           p == [me EXCEPT !.pc = me.then, !.then = Nil]
           good == IF me.then = "release" THEN Release(i, me) ELSE p
           bad == SaveFailed(i, inst[i], FALSE)
<1>1. inst[i] \in Process /\ inst[i].pc = "write" /\ inst[i].then \in {"next", "check", "result", "release"}
  BY DEF IInv, TypeOK, Saved, At
<1>2. s \in States
  BY <1>1 DEF Process, States
<1>3. Write(i, s, good, bad)
  BY DEF Saved
<1>4. UNCHANGED <<lock, audit, remote, today, crashes, started, indexed, lost>>
  BY DEF Saved
<1> HIDE DEF s
<1>5. /\ me \in Process /\ me.then = inst[i].then /\ me.keep = inst[i].keep /\ me.sent = inst[i].sent
  BY <1>1, <1>2, Records DEF Process
<1> HIDE DEF me
<1>6. /\ me.then # "release" => p \in Process
      /\ p.pc = me.then /\ p.keep = me.keep /\ p.sent = me.sent
  BY <1>1, <1>5 DEF Process, Places, Before
<1>7. Release(i, me) \in Process /\ Release(i, me).pc \in {"idle", "unlink"} /\ (me.keep => Release(i, me).pc = "idle")
  BY <1>5, ReleaseType DEF IInv
<1> HIDE DEF p
<1>8. Busy(inst[i])
  BY <1>1 DEF Busy, Quiet
<1>9. Knows(inst[i]) => me.keep /\ me.sent /\ me.then \in {"result", "release"}
  BY <1>1, <1>5 DEF Knows, Waits, Keeps
<1>10. Fine(i, good)
  <2>1. CASE me.then = "release"
    BY <2>1, <1>7, <1>8, <1>9 DEF Fine, Busy, Quiet
  <2>2. CASE me.then # "release"
    BY <2>2, <1>1, <1>5, <1>6, <1>8, <1>9 DEF Fine, Knows, Keeps
  <2> QED
    BY <2>1, <2>2
<1> HIDE DEF good
<1>11. Fine(i, bad)
  BY <1>1, SaveFailedFine
<1> HIDE DEF bad
<1>12. disk' \in States /\ faults' \in Nat /\ (To(i, good) \/ To(i, bad))
  BY <1>2, <1>3, WriteType DEF IInv
<1>13. OthersOK /\ lock' = lock /\ remote' = remote
  BY <1>4, <1>12 DEF OthersOK, IInv, TypeOK
<1> QED
  BY <1>10, <1>11, <1>12, <1>13, FineStep

LEMMA IntentSafe == ASSUME IInv, NEW i \in Instances, Intent(i) PROVE IInv'
<1> DEFINE p == [inst[i] EXCEPT !.pc = "scan"]
           q == [inst[i] EXCEPT !.pc = "catch"]
<1>1. inst[i] \in Process /\ inst[i].pc = "intent"
  BY DEF IInv, TypeOK, Intent, At
<1>2. p \in Process /\ p.pc = "scan" /\ q \in Process /\ q.pc = "catch"
  BY <1>1 DEF Process, Places, Before
<1>3. Record(i, "intent", p, q) /\ UNCHANGED <<lock, disk, remote, today, crashes, started, indexed, lost>>
  BY DEF Intent
<1> HIDE DEF p, q
<1>4. /\ audit' \in [rows : SUBSET [run : Nat, phase : {"intent", "result"}], torn : BOOLEAN] /\ faults' \in Nat
      /\ To(i, p) \/ To(i, q)
  BY <1>3, RecordType DEF IInv
<1>5. OthersOK /\ lock' = lock /\ remote' = remote
  BY <1>3, <1>4 DEF OthersOK, IInv, TypeOK
<1>6. Busy(inst[i]) /\ remote = {}
  BY <1>1, Unaware DEF Before
<1>7. Fine(i, p) /\ Fine(i, q)
  BY <1>2, <1>6 DEF Fine
<1> QED
  BY <1>4, <1>5, <1>7, FineStep

LEMMA ResultSafe == ASSUME IInv, NEW i \in Instances, Result(i) PROVE IInv'
<1> DEFINE q == [inst[i] EXCEPT !.pc = "catch"]
           p == IF inst[i].failed THEN q ELSE Release(i, inst[i])
<1>1. inst[i] \in Process /\ inst[i].pc = "result"
  BY DEF IInv, TypeOK, Result, At
<1>2. q \in Process /\ q.pc = "catch" /\ q.keep = inst[i].keep /\ q.sent = inst[i].sent
  BY <1>1 DEF Process, Places
<1>3. /\ Release(i, inst[i]) \in Process /\ Release(i, inst[i]).pc \in {"idle", "unlink"}
      /\ inst[i].keep => Release(i, inst[i]).pc = "idle"
  BY <1>1, ReleaseType DEF IInv
<1>4. Record(i, "result", p, q) /\ UNCHANGED <<lock, disk, remote, today, crashes, started, indexed, lost>>
  BY DEF Result
<1>5. Busy(inst[i]) /\ (Knows(inst[i]) => inst[i].keep /\ inst[i].sent)
  BY <1>1 DEF Busy, Quiet, Knows, Waits, Keeps
<1> HIDE DEF q
<1>6. Fine(i, q)
  BY <1>2, <1>5 DEF Fine, Knows, Keeps
<1>7. Fine(i, Release(i, inst[i]))
  BY <1>3, <1>5 DEF Fine, Busy, Quiet
<1>8. Fine(i, p)
  BY <1>6, <1>7
<1> HIDE DEF p
<1>9. /\ audit' \in [rows : SUBSET [run : Nat, phase : {"intent", "result"}], torn : BOOLEAN] /\ faults' \in Nat
      /\ To(i, p) \/ To(i, q)
  BY <1>4, RecordType DEF IInv
<1>10. OthersOK /\ lock' = lock /\ remote' = remote
  BY <1>4, <1>9 DEF OthersOK, IInv, TypeOK
<1> QED
  BY <1>6, <1>8, <1>9, <1>10, FineStep

\* A step that touches only its process.
Alone == UNCHANGED <<lock, disk, audit, remote, today, crashes, faults, started, indexed, lost>>

LEMMA AloneStep ==
  ASSUME IInv, Alone, NEW i \in Instances, NEW p, To(i, p), Fine(i, p)
  PROVE  IInv'
<1>1. OthersOK /\ lock' = lock /\ remote' = remote
  BY DEF Alone, OthersOK, IInv, TypeOK
<1> QED
  BY <1>1, FineStep

\* A run that knows of no index may go anywhere.
LEMMA UnawareFine ==
  ASSUME IInv, NEW i \in Instances, NEW p \in Process, Busy(inst[i]), ~Knows(inst[i]),
         p.pc \in {"save", "write"} => p.then \in {"next", "check", "result", "release"}
  PROVE  Fine(i, p)
BY DEF Fine

\* Changes to the state of a run, and to its folders, have their types.
LEMMA StateType ==
  ASSUME NEW s \in States, NEW f \in Folders
  PROVE  Rested(s) \in States /\ Working(s, f) \in States
BY DEF Rested, Working, States

LEMMA ScanSafe == ASSUME IInv, NEW i \in Instances, Scan(i) PROVE IInv'
<1>1. inst[i] \in Process /\ Alone /\ Busy(inst[i]) /\ ~Knows(inst[i])
  BY Unaware DEF IInv, TypeOK, Scan, At, Before, Alone
<1>2. CASE To(i, [inst[i] EXCEPT !.pc = "result", !.failed = TRUE])
  <2> DEFINE p == [inst[i] EXCEPT !.pc = "result", !.failed = TRUE]
  <2>1. p \in Process /\ p.pc = "result"
    BY <1>1 DEF Process, Places
  <2> HIDE DEF p
  <2>2. Fine(i, p)
    BY <1>1, <2>1, UnawareFine
  <2> QED
    BY <1>1, <1>2, <2>2, AloneStep DEF p
<1>3. ASSUME NEW q \in SUBSET Folders, To(i, SaveThen([inst[i] EXCEPT !.todo = q], "next"))
      PROVE  IInv'
  <2> DEFINE m == [inst[i] EXCEPT !.todo = q]
             p == SaveThen(m, "next")
  <2>1. m \in Process
    BY <1>1 DEF Process
  <2> HIDE DEF m
  <2>2. p \in Process /\ p.then = "next"
    BY <2>1, SaveThenType
  <2> HIDE DEF p
  <2>3. Fine(i, p)
    BY <1>1, <2>2, UnawareFine
  <2> QED
    BY <1>1, <1>3, <2>3, AloneStep DEF p, m
<1> QED
  BY <1>2, <1>3 DEF Scan

LEMMA OverSafe == ASSUME IInv, NEW i \in Instances, Over(i) PROVE IInv'
<1> DEFINE m == [inst[i] EXCEPT !.todo = {}, !.state = Rested(@)]
           p == SaveThen(m, "result")
<1>1. inst[i] \in Process /\ Alone /\ Busy(inst[i]) /\ ~Knows(inst[i])
  BY Unaware DEF IInv, TypeOK, Over, At, Before, Alone
<1>2. Rested(inst[i].state) \in States
  BY <1>1 DEF Rested, States, Process
<1>3. m \in Process
  BY <1>1, <1>2 DEF Process
<1>4. To(i, p)
  BY DEF Over
<1> HIDE DEF m
<1>5. p \in Process /\ p.then = "result"
  BY <1>3, SaveThenType
<1> HIDE DEF p
<1>6. Fine(i, p)
  BY <1>1, <1>5, UnawareFine
<1> QED
  BY <1>1, <1>4, <1>6, AloneStep

LEMMA FolderSafe == ASSUME IInv, NEW i \in Instances, Folder(i) PROVE IInv'
<1>1. inst[i] \in Process /\ Alone /\ Busy(inst[i]) /\ ~Knows(inst[i])
  BY Unaware DEF IInv, TypeOK, Folder, At, Before, Alone
<1>2. PICK f \in inst[i].todo :
        LET me == [inst[i] EXCEPT !.todo = @ \ {f}] IN
        \/ To(i, SaveThen([me EXCEPT !.state = Rested(@)], "next"))
        \/ To(i, SaveThen([me EXCEPT !.state = Working(@, f), !.folder = f], "check"))
  BY DEF Folder
<1> DEFINE me == [inst[i] EXCEPT !.todo = @ \ {f}]
           m == [me EXCEPT !.state = Rested(@)]
           n == [me EXCEPT !.state = Working(@, f), !.folder = f]
           p == SaveThen(m, "next")
           q == SaveThen(n, "check")
<1>3. me \in Process /\ f \in Folders
  BY <1>1 DEF Process
<1>4. To(i, p) \/ To(i, q)
  BY <1>2
<1> HIDE DEF me
<1>5. Rested(me.state) \in States /\ Working(me.state, f) \in States
  BY <1>3, StateType DEF Process
<1>6. m \in Process /\ n \in Process
  BY <1>3, <1>5 DEF Process
<1> HIDE DEF m, n
<1>7. p \in Process /\ p.then = "next" /\ q \in Process /\ q.then = "check"
  BY <1>6, SaveThenType
<1> HIDE DEF p, q
<1>8. Fine(i, p) /\ Fine(i, q)
  BY <1>1, <1>7, UnawareFine
<1> QED
  BY <1>1, <1>4, <1>8, AloneStep

LEMMA AssertUnblockedSafe == ASSUME IInv, NEW i \in Instances, assertUnblocked(i) PROVE IInv'
<1> DEFINE p == [inst[i] EXCEPT !.keep = TRUE, !.state = disk, !.pc = "result", !.failed = TRUE]
           q == [inst[i] EXCEPT !.pc = "send"]
           r == [inst[i] EXCEPT !.pc = "next", !.todo = {}, !.state = Rested(@)]
<1>1. inst[i] \in Process /\ disk \in States /\ Alone /\ Busy(inst[i]) /\ ~Knows(inst[i])
  BY Unaware DEF IInv, TypeOK, assertUnblocked, At, Before, Alone
<1>2. To(i, p) \/ To(i, q) \/ To(i, r)
  BY DEF assertUnblocked
<1>3. Rested(inst[i].state) \in States
  BY <1>1 DEF Rested, States, Process
<1>4. p \in Process /\ p.pc = "result"
  BY <1>1 DEF Process, Places
<1>5. q \in Process /\ q.pc = "send" /\ r \in Process /\ r.pc = "next"
  BY <1>1, <1>3 DEF Process, Places, Before
<1> HIDE DEF p, q, r
<1>6. Fine(i, p) /\ Fine(i, q) /\ Fine(i, r)
  BY <1>1, <1>4, <1>5, UnawareFine
<1> QED
  BY <1>1, <1>2, <1>6, AloneStep

\* An index is sent only when none is under way, and its run waits for it.
LEMMA IndexMailboxSafe == ASSUME IInv, NEW i \in Instances, indexMailbox(i) PROVE IInv'
<1>1. inst[i] \in Process /\ Busy(inst[i]) /\ ~Knows(inst[i]) /\ remote = {} /\ lock.dir
  BY Unaware DEF IInv, TypeOK, indexMailbox, At, Before
<1> DEFINE m == [inst[i] EXCEPT !.state = Rested(@), !.folder = Nil]
           p == SaveThen(m, "next")
           q == [inst[i] EXCEPT !.pc = "sent", !.sent = TRUE]
           x == [run |-> inst[i].state.run, mailbox |-> inst[i].folder]
<1>2. CASE To(i, p) /\ UNCHANGED <<remote, indexed>>
  <2>1. Alone
    BY <1>2 DEF indexMailbox, Alone
  <2>2. Rested(inst[i].state) \in States
    BY <1>1 DEF Rested, States, Process
  <2>3. m \in Process
    BY <1>1, <2>2 DEF Process
  <2> HIDE DEF m
  <2>4. p \in Process /\ p.then = "next"
    BY <2>3, SaveThenType
  <2> HIDE DEF p
  <2>5. Fine(i, p)
    BY <1>1, <2>4, UnawareFine
  <2> QED
    BY <1>2, <2>1, <2>5, AloneStep
<1>3. CASE To(i, q) /\ remote' = remote \union {x} /\ indexed' = indexed \union {inst[i].state.run}
  <2>1. UNCHANGED <<lock, disk, audit, today, crashes, faults, started, lost>>
    BY DEF indexMailbox
  <2>2. q \in Process /\ q.pc = "sent" /\ q.sent /\ q.state = inst[i].state /\ q.folder = inst[i].folder
    BY <1>1 DEF Process, Places
  <2>3. inst[i].state.run \in Nat /\ inst[i].folder \in Folders \union {Nil}
    BY <1>1 DEF Process, States
  <2>4. remote' = {x} /\ x \in [run : Nat, mailbox : Folders \union {Nil}]
    BY <1>1, <1>3, <2>3
  <2>5. x = [run |-> q.state.run, mailbox |-> q.folder]
    BY <2>2
  <2> HIDE DEF x, q
  <2>6. inst' \in [Instances -> Process] /\ inst'[i] = q /\ \A j \in Instances : j # i => inst'[j] = inst[j]
    BY <1>3, <2>2 DEF To, IInv, TypeOK
  <2>7. TypeOK'
    BY <1>3, <2>1, <2>2, <2>3, <2>4, <2>6 DEF IInv, TypeOK
  <2>8. \A j \in Instances : Busy(inst'[j]) => j = i
    BY <1>1, <2>6 DEF IInv
  <2>9. (\A j \in Instances : remote # {} /\ Busy(inst[j]) => Knows(inst[j]))'
    BY <2>2, <2>4, <2>5, <2>6, <2>8 DEF Knows, Waits, Busy
  <2> QED
    BY <1>1, <2>1, <2>4, <2>7, <2>8, <2>9 DEF IInv, Busy
<1> QED
  BY <1>2, <1>3 DEF indexMailbox

\* The answer means that Dovecot is done.
LEMMA AnsweredSafe == ASSUME IInv, NEW i \in Instances, Answered(i) PROVE IInv'
<1> DEFINE m == [inst[i] EXCEPT !.state = Rested(@), !.folder = Nil]
           p == SaveThen(m, "next")
<1>1. inst[i] \in Process /\ Alone /\ inst[i].pc = "sent"
  BY DEF IInv, TypeOK, Answered, At, Alone
<1>2. [run |-> inst[i].state.run, mailbox |-> inst[i].folder] \notin remote
  BY DEF Answered
<1>3. Busy(inst[i]) /\ ~Knows(inst[i])
  BY <1>1, <1>2 DEF Busy, Quiet, Knows, Waits, Keeps
<1>4. Rested(inst[i].state) \in States
  BY <1>1 DEF Rested, States, Process
<1>5. m \in Process
  BY <1>1, <1>4 DEF Process
<1>6. To(i, p)
  BY DEF Answered
<1> HIDE DEF m
<1>7. p \in Process /\ p.then = "next"
  BY <1>5, SaveThenType
<1> HIDE DEF p
<1>8. Fine(i, p)
  BY <1>3, <1>7, UnawareFine
<1> QED
  BY <1>1, <1>6, <1>8, AloneStep

\* A state marked for a folder is a state.
LEMMA MarkedType ==
  ASSUME NEW i \in Instances, NEW s \in States, NEW f \in Folders \union {Nil}
  PROVE  Marked(i, s, f) \in States
BY DEF Marked, States

\* Without an answer the lock stays.
LEMMA UnknownSafe == ASSUME IInv, NEW i \in Instances, Unknown(i) PROVE IInv'
<1> DEFINE s == Marked(i, inst[i].state, inst[i].folder)
           p == [inst[i] EXCEPT !.pc = "mark", !.keep = TRUE, !.state = s]
<1>1. inst[i] \in Process /\ Alone /\ inst[i].pc = "sent" /\ To(i, p)
  BY DEF IInv, TypeOK, Unknown, At, Alone
<1>2. s \in States
  BY <1>1, MarkedType DEF Process
<1> HIDE DEF s
<1>3. p \in Process /\ p.pc = "mark" /\ p.keep /\ p.sent = inst[i].sent
  BY <1>1, <1>2 DEF Process, Places
<1> HIDE DEF p
<1>4. Fine(i, p)
  BY <1>1, <1>3 DEF Fine, Busy, Quiet, Knows, Waits, Keeps
<1> QED
  BY <1>1, <1>4, AloneStep

LEMMA MarkRemoteUnknownSafe == ASSUME IInv, NEW i \in Instances, markRemoteUnknown(i) PROVE IInv'
<1> DEFINE p == [inst[i] EXCEPT !.pc = "marking", !.seen = disk]
           q == SaveThen(inst[i], "result")
<1>1. inst[i] \in Process /\ disk \in States /\ Alone /\ inst[i].pc = "mark"
  BY DEF IInv, TypeOK, markRemoteUnknown, At, Alone
<1>2. To(i, p) \/ To(i, q)
  BY DEF markRemoteUnknown
<1>3. p \in Process /\ p.pc = "marking" /\ p.keep = inst[i].keep /\ p.sent = inst[i].sent
  BY <1>1 DEF Process, Places
<1>4. q \in Process /\ q.pc = "save" /\ q.then = "result" /\ q.keep = inst[i].keep /\ q.sent = inst[i].sent
  BY <1>1, SaveThenType
<1> HIDE DEF p, q
<1>5. Fine(i, p) /\ Fine(i, q)
  BY <1>1, <1>3, <1>4 DEF Fine, Busy, Quiet, Knows, Waits, Keeps
<1> QED
  BY <1>1, <1>2, <1>5, AloneStep

LEMMA MarkUnknownSafe == ASSUME IInv, NEW i \in Instances, MarkUnknown(i) PROVE IInv'
<1> DEFINE m == [inst[i] EXCEPT !.seen = emptyState]
           p == SaveThen(m, "result")
           s == Marked(i, inst[i].seen, inst[i].folder)
<1>1. inst[i] \in Process /\ inst[i].pc = "marking"
  BY DEF IInv, TypeOK, MarkUnknown, At
<1>2. s \in States
  BY <1>1, MarkedType DEF Process
<1>3. m \in Process /\ m.keep = inst[i].keep /\ m.sent = inst[i].sent
  BY <1>1, Records DEF Process
<1>4. Write(i, s, p, p) /\ UNCHANGED <<lock, audit, remote, today, crashes, started, indexed, lost>>
  BY DEF MarkUnknown
<1> HIDE DEF m, s
<1>5. p \in Process /\ p.pc = "save" /\ p.then = "result" /\ p.keep = inst[i].keep /\ p.sent = inst[i].sent
  BY <1>3, SaveThenType
<1> HIDE DEF p
<1>6. disk' \in States /\ faults' \in Nat /\ To(i, p)
  BY <1>2, <1>4, WriteType DEF IInv
<1>7. OthersOK /\ lock' = lock /\ remote' = remote
  BY <1>4, <1>6 DEF OthersOK, IInv, TypeOK
<1>8. Fine(i, p)
  BY <1>1, <1>5 DEF Fine, Busy, Quiet, Knows, Waits, Keeps
<1> QED
  BY <1>6, <1>7, <1>8, FineStep

LEMMA CatchSafe == ASSUME IInv, NEW i \in Instances, Catch(i) PROVE IInv'
<1> DEFINE me == inst[i]
           s == IF me.keep /\ ~me.state.blocked /\ disk.blocked
                THEN [me.state EXCEPT !.blocked = TRUE, !.unknown = disk.unknown] ELSE me.state
           t == IF me.sent \/ me.keep THEN s ELSE Rested(s)
           m == [me EXCEPT !.state = t]
           p == SaveThen(m, "release")
<1>1. inst[i] \in Process /\ disk \in States /\ Alone /\ inst[i].pc = "catch"
  BY DEF IInv, TypeOK, Catch, At, Alone
<1>2. To(i, p)
  BY DEF Catch
<1>3. s \in States
  BY <1>1 DEF Process, States
<1> HIDE DEF s
<1>4. t \in States
  BY <1>3 DEF Rested, States
<1> HIDE DEF t
<1>5. m \in Process /\ m.keep = inst[i].keep /\ m.sent = inst[i].sent
  BY <1>1, <1>4 DEF Process
<1> HIDE DEF m
<1>6. p \in Process /\ p.pc = "save" /\ p.then = "release" /\ p.keep = inst[i].keep /\ p.sent = inst[i].sent
  BY <1>5, SaveThenType
<1> HIDE DEF p
<1>7. Fine(i, p)
  BY <1>1, <1>6 DEF Fine, Busy, Quiet, Knows, Waits, Keeps
<1> QED
  BY <1>1, <1>2, <1>7, AloneStep

-------------------------------------------------------------------------------
(* The invariant.                                                          *)

\* Everything is off and nothing was ever run.
LEMMA InitSafe == Init => IInv
<1> SUFFICES ASSUME Init PROVE IInv
  OBVIOUS
<1>1. \A i \in Instances : inst[i] = Off
  BY DEF Init
<1>2. inst \in [Instances -> Process] /\ disk \in States
  BY Records DEF Init
<1>3. /\ today \in Nat /\ crashes \in Nat /\ faults \in Nat
      /\ started \in Seq(Nat) /\ indexed \subseteq Nat /\ lost \in BOOLEAN
  <2>1. today = 1 /\ crashes = 0 /\ faults = 0 /\ indexed = {} /\ lost = FALSE
    BY DEF Init
  <2>2. started = <<>>
    BY DEF Init
  <2>3. <<>> \in Seq(Nat)
    OBVIOUS
  <2> QED
    BY <2>1, <2>2, <2>3
<1>4. /\ lock \in [dir : BOOLEAN, token : Instances \union {Nil}]
      /\ audit \in [rows : SUBSET [run : Nat, phase : {"intent", "result"}], torn : BOOLEAN]
      /\ remote = {}
  BY DEF Init
<1>5. \A i \in Instances : inst[i].pc = "off"
  BY <1>1, Records
<1> QED
  BY <1>2, <1>3, <1>4, <1>5 DEF IInv, TypeOK, Busy, Quiet

\* Nothing happens.
LEMMA StutterSafe == ASSUME IInv, UNCHANGED vars PROVE IInv'
BY DEF vars, IInv, TypeOK, Busy, Knows, Waits, Keeps

LEMMA RunOnceSafe == ASSUME IInv, NEW i \in Instances, runOnce(i) PROVE IInv'
<1>1. CASE Tick(i) \/ WriteToken(i) \/ Unlink(i) \/ Rmdir(i)
  BY <1>1, TickSafe, WriteTokenSafe, UnlinkSafe, RmdirSafe
<1>2. CASE StartRun(i) \/ Begin(i) \/ Save(i) \/ Saved(i) \/ Intent(i) \/ Result(i)
  BY <1>2, StartRunSafe, BeginSafe, SaveSafe, SavedSafe, IntentSafe, ResultSafe
<1>3. CASE Scan(i) \/ Over(i) \/ Folder(i) \/ assertUnblocked(i) \/ indexMailbox(i)
  BY <1>3, ScanSafe, OverSafe, FolderSafe, AssertUnblockedSafe, IndexMailboxSafe
<1>4. CASE Answered(i) \/ Unknown(i) \/ markRemoteUnknown(i) \/ MarkUnknown(i) \/ Catch(i)
  BY <1>4, AnsweredSafe, UnknownSafe, MarkRemoteUnknownSafe, MarkUnknownSafe, CatchSafe
<1> QED
  BY <1>1, <1>2, <1>3, <1>4 DEF runOnce

\* The invariant is inductive: whoever holds the lock is alone, and knows of
\* the index that may still be running (fts-nightly.js runOnce, fts-state.js).
THEOREM Inductive == Spec => []IInv
<1>1. IInv /\ [Next]_vars => IInv'
  <2> SUFFICES ASSUME IInv, [Next]_vars PROVE IInv'
    OBVIOUS
  <2>1. CASE UNCHANGED vars
    BY <2>1, StutterSafe
  <2>2. CASE NextDay \/ RemoteEnds \/ ManualUnlock
    BY <2>2, NextDaySafe, RemoteEndsSafe, ManualUnlockSafe
  <2>3. ASSUME NEW i \in Instances, Boot(i) \/ MarkRestart(i) \/ Crash(i) \/ runOnce(i) PROVE IInv'
    BY <2>3, BootSafe, MarkRestartSafe, CrashSafe, RunOnceSafe
  <2> QED
    BY <2>1, <2>2, <2>3 DEF Next
<1> QED
  BY InitSafe, <1>1, PTL DEF Spec

\* Dovecot never works on two indexes at once, and none is under way without
\* the lock (fts-state.js acquire, release, manualUnlock; fts-nightly.js keepLock).
THEOREM OneIndexHolds == Spec => []OneIndex
<1>1. IInv => OneIndex
  <2> SUFFICES ASSUME IInv PROVE OneIndex
    OBVIOUS
  <2>1. CASE remote = {}
    BY <2>1, FS_EmptySet DEF OneIndex
  <2>2. CASE remote # {}
    <3>1. PICK x : x \in remote
      BY <2>2
    <3>2. remote = {x} /\ lock.dir
      BY <3>1 DEF IInv
    <3>3. Cardinality(remote) = 1
      BY <3>2, FS_Singleton
    <3> QED
      BY <3>2, <3>3 DEF OneIndex
  <2> QED
    BY <2>1, <2>2
<1> QED
  BY Inductive, <1>1, PTL

-------------------------------------------------------------------------------
(* The audit file.                                                         *)

Row(r) == [run |-> r, phase |-> "intent"]

\* A process that may still come to send an index, or has just sent one.
Ahead(p) == \/ p.pc \in {"scan", "next", "check", "send", "sent"}
            \/ p.pc \in {"save", "write"} /\ p.then \in {"next", "check"}

\* Its intent can be read, as can that of every run that sent an index.
RInv == /\ \A r \in indexed : Row(r) \in audit.rows
        /\ \A i \in Instances : Ahead(inst[i]) => Row(inst[i].state.run) \in audit.rows

\* No step takes a row away.  A step that does not lead a process onto this
\* way, nor changes its run there, preserves RInv.
LEMMA AheadStep ==
  ASSUME TypeOK, RInv, NEW i \in Instances, NEW p, To(i, p), audit.rows \subseteq audit'.rows, indexed' = indexed,
         Ahead(p) => Ahead(inst[i]) /\ p.state.run = inst[i].state.run
  PROVE  RInv'
<1>1. inst'[i] = p /\ \A j \in Instances : j # i => inst'[j] = inst[j]
  BY DEF To, TypeOK
<1>2. \A j \in Instances : Ahead(inst'[j]) => Ahead(inst[j]) /\ inst'[j].state.run = inst[j].state.run
  BY <1>1
<1>3. \A j \in Instances : Ahead(inst'[j]) => Row(inst'[j].state.run) \in audit'.rows
  BY <1>2 DEF RInv
<1> QED
  BY <1>3 DEF RInv, Ahead, Row

\* Nor does one of a process whose intent is there, if it sends an index.
LEMMA RecordedStep ==
  ASSUME TypeOK, RInv, NEW i \in Instances, NEW p, To(i, p), audit' = audit, Row(inst[i].state.run) \in audit.rows,
         p.state.run = inst[i].state.run, indexed' \in {indexed, indexed \union {inst[i].state.run}}
  PROVE  RInv'
<1>1. inst'[i] = p /\ \A j \in Instances : j # i => inst'[j] = inst[j]
  BY DEF To, TypeOK
<1>2. \A j \in Instances : Ahead(inst'[j]) => Row(inst'[j].state.run) \in audit'.rows
  BY <1>1 DEF RInv
<1>3. \A r \in indexed' : Row(r) \in audit'.rows
  BY DEF RInv
<1> QED
  BY <1>2, <1>3 DEF RInv, Ahead, Row

\* Waiting, giving back the lock and failing to save all lead away from it.
LEMMA Away ==
  ASSUME TypeOK, NEW i \in Instances, NEW p \in Process, NEW refused \in BOOLEAN
  PROVE  ~Ahead(Waiting(i)) /\ ~Ahead(Off) /\ ~Ahead(Release(i, p)) /\ ~Ahead(SaveFailed(i, p, refused))
<1>1. Waiting(i).pc = "idle" /\ Off.pc = "off" /\ Release(i, p).pc \in {"idle", "unlink"}
  BY WaitingType, ReleaseType, Records
<1>2. SaveFailed(i, p, refused).pc \in {"idle", "unlink", "result"}
  BY SaveFailedType
<1> QED
  BY <1>1, <1>2 DEF Ahead

\* Starting, stopping and the lock.
LEMMA LockRecorded ==
  ASSUME TypeOK, RInv, NEW i \in Instances,
         Boot(i) \/ MarkRestart(i) \/ Crash(i) \/ Tick(i) \/ WriteToken(i) \/ Unlink(i) \/ Rmdir(i)
  PROVE  RInv'
<1>1. inst[i] \in Process /\ Waiting(i) \in Process /\ Off \in Process
  BY Records, WaitingType DEF TypeOK
<1>2. audit.rows \subseteq audit'.rows /\ indexed' = indexed
  BY DEF TypeOK, Boot, MarkRestart, Crash, Tick, WriteToken, Unlink, Rmdir
<1> DEFINE me == [Waiting(i) EXCEPT !.lastDay = today]
<1>3. \/ To(i, Waiting(i)) \/ To(i, Off) \/ To(i, [Off EXCEPT !.pc = "boot", !.seen = disk])
      \/ To(i, me) \/ To(i, [me EXCEPT !.pc = "token"])
      \/ To(i, [inst[i] EXCEPT !.pc = "start"]) \/ To(i, [inst[i] EXCEPT !.pc = "rmdir"])
  BY DEF Boot, MarkRestart, Write, Crash, Tick, WriteToken, Unlink, Rmdir
<1>4. me \in Process /\ me.pc = "idle"
  BY <1>1, WaitingType DEF TypeOK, Process
<1> HIDE DEF me
<1>5. /\ ~Ahead([Off EXCEPT !.pc = "boot", !.seen = disk]) /\ ~Ahead([me EXCEPT !.pc = "token"])
      /\ ~Ahead([inst[i] EXCEPT !.pc = "start"]) /\ ~Ahead([inst[i] EXCEPT !.pc = "rmdir"])
      /\ ~Ahead(me)
  BY <1>1, <1>4 DEF Ahead, Process
<1>6. ~Ahead(Waiting(i)) /\ ~Ahead(Off)
  BY <1>1, Away
<1> QED
  BY <1>2, <1>3, <1>5, <1>6, AheadStep

\* The beginning of a run: what it appends is its intent.
LEMMA BeginRecorded ==
  ASSUME TypeOK, RInv, NEW i \in Instances, StartRun(i) \/ Begin(i)
  PROVE  RInv'
<1>1. inst[i] \in Process /\ disk \in States
  BY DEF TypeOK
<1>2. audit' = audit /\ indexed' = indexed
  BY DEF StartRun, Begin
<1> DEFINE m == [inst[i] EXCEPT !.seen = disk]
           n == [inst[i] EXCEPT !.seen = emptyState]
           p == [m EXCEPT !.pc = "begin"]
           q == [n EXCEPT !.pc = "intent", !.state = Started(inst[i].seen, n.lastDay)]
<1>3. To(i, Release(i, m)) \/ To(i, Waiting(i)) \/ To(i, p) \/ To(i, q) \/ To(i, Release(i, n))
  BY DEF StartRun, Begin, Write
<1>4. m \in Process /\ n \in Process
  BY <1>1, Records DEF Process
<1>5. p.pc = "begin" /\ q.pc = "intent"
  BY <1>4 DEF Process
<1> HIDE DEF m, n, p, q
<1>6. ~Ahead(Release(i, m)) /\ ~Ahead(Waiting(i)) /\ ~Ahead(p) /\ ~Ahead(q) /\ ~Ahead(Release(i, n))
  BY <1>4, <1>5, Away DEF Ahead
<1> QED
  BY <1>2, <1>3, <1>6, AheadStep

\* An appended row is there, and nothing else has gone.
LEMMA RecordKeeps ==
  ASSUME TypeOK, NEW i \in Instances, NEW phase \in {"intent", "result"}, NEW good, NEW bad, Record(i, phase, good, bad)
  PROVE  /\ audit.rows \subseteq audit'.rows
         /\ \/ To(i, good) /\ [run |-> inst[i].state.run, phase |-> phase] \in audit'.rows
            \/ To(i, bad)
<1> DEFINE row == [run |-> inst[i].state.run, phase |-> phase]
           new == AppendRow(audit, row)
           torn == [new EXCEPT !.rows = audit.rows, !.torn = TRUE]
<1>1. new.rows = audit.rows \union {row}
  BY DEF AppendRow
<1>2. torn.rows = audit.rows
  BY DEF AppendRow
<1>3. \/ audit' = new /\ To(i, good)
      \/ audit' \in {audit, new, torn} /\ To(i, bad)
  BY DEF Record
<1> HIDE DEF new, torn
<1> QED
  BY <1>1, <1>2, <1>3

LEMMA IntentRecorded == ASSUME TypeOK, RInv, NEW i \in Instances, Intent(i) PROVE RInv'
<1> DEFINE p == [inst[i] EXCEPT !.pc = "scan"]
           q == [inst[i] EXCEPT !.pc = "catch"]
           row == Row(inst[i].state.run)
<1>1. inst[i] \in Process /\ indexed' = indexed
  BY DEF TypeOK, Intent
<1>2. p.pc = "scan" /\ p.state = inst[i].state /\ q.pc = "catch"
  BY <1>1 DEF Process
<1>3. /\ audit.rows \subseteq audit'.rows
      /\ (To(i, p) /\ row \in audit'.rows) \/ To(i, q)
  <2>1. Record(i, "intent", p, q)
    BY DEF Intent
  <2> HIDE DEF p, q
  <2> QED
    BY <2>1, RecordKeeps DEF Row
<1> HIDE DEF p, q
<1>4. CASE To(i, q)
  <2>1. ~Ahead(q)
    BY <1>2 DEF Ahead
  <2> QED
    BY <1>1, <1>3, <1>4, <2>1, AheadStep
<1>5. CASE To(i, p) /\ row \in audit'.rows
  <2>1. inst'[i] = p /\ \A j \in Instances : j # i => inst'[j] = inst[j]
    BY <1>5 DEF To, TypeOK
  <2>2. \A j \in Instances : Ahead(inst'[j]) => Row(inst'[j].state.run) \in audit'.rows
    BY <1>2, <1>3, <1>5, <2>1 DEF RInv
  <2> QED
    BY <1>1, <1>3, <2>2 DEF RInv, Ahead, Row
<1> QED
  BY <1>3, <1>4, <1>5

LEMMA ResultRecorded == ASSUME TypeOK, RInv, NEW i \in Instances, Result(i) PROVE RInv'
<1> DEFINE q == [inst[i] EXCEPT !.pc = "catch"]
<1>1. inst[i] \in Process /\ indexed' = indexed
  BY DEF TypeOK, Result
<1>2. q.pc = "catch"
  BY <1>1 DEF Process
<1>3. audit.rows \subseteq audit'.rows
  <2> DEFINE good == IF inst[i].failed THEN q ELSE Release(i, inst[i])
  <2>1. Record(i, "result", good, q)
    BY DEF Result
  <2> HIDE DEF good, q
  <2> QED
    BY <2>1, RecordKeeps
<1>4. To(i, q) \/ To(i, Release(i, inst[i]))
  BY DEF Result, Record
<1> HIDE DEF q
<1>5. ~Ahead(q) /\ ~Ahead(Release(i, inst[i]))
  BY <1>1, <1>2, Away DEF Ahead
<1> QED
  BY <1>1, <1>3, <1>4, <1>5, AheadStep

\* Saving does not change whose state it is.
LEMMA SaveRecorded == ASSUME TypeOK, RInv, NEW i \in Instances, Save(i) \/ Saved(i) PROVE RInv'
<1> DEFINE p == [inst[i] EXCEPT !.pc = "write", !.seen = disk]
           s == [inst[i].state EXCEPT !.runs = inst[i].seen.runs]
           m == [inst[i] EXCEPT !.seen = emptyState, !.state = s]
           q == [m EXCEPT !.pc = m.then, !.then = Nil]
           failed == SaveFailed(i, inst[i], FALSE)
           refused == SaveFailed(i, inst[i], TRUE)
<1>1. inst[i] \in Process /\ inst[i].pc \in {"save", "write"} /\ audit' = audit /\ indexed' = indexed
  BY DEF TypeOK, Save, Saved, At
<1>2. s \in States /\ s.run = inst[i].state.run
  BY <1>1 DEF Process, States
<1>3. p.pc = "write" /\ p.then = inst[i].then /\ p.state = inst[i].state
  BY <1>1 DEF Process
<1>4. inst[i].then \in {"next", "check", "result", "release"}
  BY <1>1 DEF TypeOK
<1>5. m \in Process /\ m.then = inst[i].then /\ m.state = s
  <2> HIDE DEF s
  <2> QED
    BY <1>1, <1>2, Records DEF Process
<1>6. To(i, p) \/ To(i, q) \/ To(i, failed) \/ To(i, refused) \/ To(i, Release(i, m))
  BY DEF Save, Saved, Write
<1> HIDE DEF p, s, m
<1>7. q.pc = m.then /\ q.state = m.state
  BY <1>5 DEF Process
<1>8. ~Ahead(failed) /\ ~Ahead(refused) /\ ~Ahead(Release(i, m))
  BY <1>1, <1>5, Away
<1> HIDE DEF q, failed, refused
<1>9. Ahead(p) => Ahead(inst[i]) /\ p.state.run = inst[i].state.run
  BY <1>1, <1>3 DEF Ahead
<1>10. Ahead(q) => Ahead(inst[i]) /\ q.state.run = inst[i].state.run
  BY <1>1, <1>2, <1>4, <1>5, <1>7 DEF Ahead
<1> QED
  BY <1>1, <1>6, <1>8, <1>9, <1>10, AheadStep

\* Nor does a save on the way, of a state with another folder.
LEMMA SaveThenAhead ==
  ASSUME NEW p \in Process, NEW pc \in {"next", "check", "result", "release"}
  PROVE  SaveThen(p, pc).state = p.state /\ (pc \in {"result", "release"} => ~Ahead(SaveThen(p, pc)))
BY DEF SaveThen, Process, Ahead

LEMMA FolderRecorded ==
  ASSUME TypeOK, RInv, NEW i \in Instances, Scan(i) \/ Over(i) \/ Folder(i) PROVE RInv'
<1>1. /\ inst[i] \in Process /\ inst[i].state \in States /\ Ahead(inst[i])
      /\ audit' = audit /\ indexed' = indexed
  BY DEF TypeOK, Process, Scan, Over, Folder, At, Ahead
<1>2. PICK p \in Process, pc \in {"next", "check", "result"} :
        p.state.run = inst[i].state.run /\ (To(i, SaveThen(p, pc)) \/ (To(i, p) /\ p.pc = "result"))
  <2>1. CASE Scan(i)
    <3>1. CASE To(i, [inst[i] EXCEPT !.pc = "result", !.failed = TRUE])
      <4> DEFINE p == [inst[i] EXCEPT !.pc = "result", !.failed = TRUE]
      <4>1. p \in Process /\ p.pc = "result" /\ p.state = inst[i].state
        BY <1>1 DEF Process, Places
      <4> QED
        BY <3>1, <4>1
    <3>2. ASSUME NEW q \in SUBSET Folders, To(i, SaveThen([inst[i] EXCEPT !.todo = q], "next"))
          PROVE  \E p \in Process : p.state.run = inst[i].state.run /\ To(i, SaveThen(p, "next"))
      <4> DEFINE p == [inst[i] EXCEPT !.todo = q]
      <4>1. p \in Process /\ p.state = inst[i].state
        BY <1>1 DEF Process
      <4> QED
        BY <3>2, <4>1
    <3> QED
      BY <2>1, <3>1, <3>2 DEF Scan
  <2>2. CASE Over(i)
    <3> DEFINE p == [inst[i] EXCEPT !.todo = {}, !.state = Rested(@)]
    <3>1. Rested(inst[i].state) \in States /\ Rested(inst[i].state).run = inst[i].state.run
      BY <1>1 DEF Rested, States
    <3>2. p \in Process /\ p.state = Rested(inst[i].state)
      BY <1>1, <3>1 DEF Process
    <3>3. To(i, SaveThen(p, "result"))
      BY <2>2 DEF Over
    <3> QED
      BY <3>1, <3>2, <3>3
  <2>3. CASE Folder(i)
    <3>1. PICK f \in inst[i].todo :
            LET me == [inst[i] EXCEPT !.todo = @ \ {f}] IN
            \/ To(i, SaveThen([me EXCEPT !.state = Rested(@)], "next"))
            \/ To(i, SaveThen([me EXCEPT !.state = Working(@, f), !.folder = f], "check"))
      BY <2>3 DEF Folder
    <3> DEFINE me == [inst[i] EXCEPT !.todo = @ \ {f}]
               p == [me EXCEPT !.state = Rested(@)]
               q == [me EXCEPT !.state = Working(@, f), !.folder = f]
    <3>2. me \in Process /\ me.state = inst[i].state /\ f \in Folders
      BY <1>1 DEF Process
    <3>3. /\ Rested(inst[i].state) \in States /\ Rested(inst[i].state).run = inst[i].state.run
          /\ Working(inst[i].state, f) \in States /\ Working(inst[i].state, f).run = inst[i].state.run
      BY <1>1, <3>2 DEF Rested, Working, States
    <3>4. To(i, SaveThen(p, "next")) \/ To(i, SaveThen(q, "check"))
      BY <3>1
    <3> HIDE DEF me
    <3>5. p \in Process /\ p.state = Rested(inst[i].state) /\ q \in Process /\ q.state = Working(inst[i].state, f)
      BY <3>2, <3>3 DEF Process
    <3> HIDE DEF p, q
    <3> QED
      BY <3>3, <3>4, <3>5
  <2> QED
    BY <2>1, <2>2, <2>3
<1>3. SaveThen(p, pc).state = p.state
  BY SaveThenAhead
<1>4. (To(i, p) /\ p.pc = "result") => ~Ahead(p)
  BY DEF Ahead
<1> DEFINE n == SaveThen(p, pc)
<1> HIDE DEF n
<1>5. CASE To(i, n)
  BY <1>1, <1>2, <1>3, <1>5, AheadStep DEF n
<1>6. CASE To(i, p) /\ p.pc = "result"
  BY <1>1, <1>4, <1>6, AheadStep
<1> QED
  BY <1>2, <1>5, <1>6 DEF n

LEMMA CheckRecorded ==
  ASSUME TypeOK, RInv, NEW i \in Instances, assertUnblocked(i) PROVE RInv'
<1> DEFINE p == [inst[i] EXCEPT !.keep = TRUE, !.state = disk, !.pc = "result", !.failed = TRUE]
           q == [inst[i] EXCEPT !.pc = "send"]
           r == [inst[i] EXCEPT !.pc = "next", !.todo = {}, !.state = Rested(@)]
<1>1. /\ inst[i] \in Process /\ inst[i].state \in States /\ inst[i].pc = "check"
      /\ audit' = audit /\ indexed' = indexed
  BY DEF TypeOK, Process, assertUnblocked, At
<1>2. To(i, p) \/ To(i, q) \/ To(i, r)
  BY DEF assertUnblocked
<1>3. CASE To(i, p)
  <2>1. p.pc = "result"
    BY <1>1 DEF Process
  <2> HIDE DEF p
  <2>2. ~Ahead(p)
    BY <2>1 DEF Ahead
  <2> QED
    BY <1>1, <1>3, <2>2, AheadStep
<1>4. Row(inst[i].state.run) \in audit.rows
  BY <1>1 DEF RInv, Ahead
<1>5. /\ q.state.run = inst[i].state.run /\ r.state.run = inst[i].state.run
  BY <1>1 DEF Process, Rested, States
<1> HIDE DEF q, r
<1>6. ASSUME NEW x, To(i, x), x.state.run = inst[i].state.run PROVE RInv'
  BY <1>1, <1>4, <1>6, RecordedStep
<1> QED
  BY <1>2, <1>3, <1>5, <1>6

\* An index joins those of a run whose intent can be read.
LEMMA IndexMailboxRecorded ==
  ASSUME TypeOK, RInv, NEW i \in Instances, indexMailbox(i) \/ Answered(i) PROVE RInv'
<1>1. /\ inst[i] \in Process /\ inst[i].state \in States /\ inst[i].pc \in {"send", "sent"} /\ audit' = audit
  BY DEF TypeOK, Process, indexMailbox, Answered, At
<1>2. Row(inst[i].state.run) \in audit.rows
  BY <1>1 DEF RInv, Ahead
<1> DEFINE m == [inst[i] EXCEPT !.state = Rested(@), !.folder = Nil]
           p == SaveThen(m, "next")
           q == [inst[i] EXCEPT !.pc = "sent", !.sent = TRUE]
<1>3. indexed' \in {indexed, indexed \union {inst[i].state.run}} /\ (To(i, p) \/ To(i, q))
  BY DEF indexMailbox, Answered
<1>4. Rested(inst[i].state) \in States /\ Rested(inst[i].state).run = inst[i].state.run
  BY <1>1 DEF Rested, States
<1>5. m \in Process /\ m.state.run = inst[i].state.run /\ q.state.run = inst[i].state.run
  BY <1>1, <1>4 DEF Process
<1> HIDE DEF m
<1>6. p.state.run = inst[i].state.run
  BY <1>5, SaveThenAhead
<1> HIDE DEF p, q
<1> QED
  BY <1>1, <1>2, <1>3, <1>5, <1>6, RecordedStep

\* Marking what is unknown, and the end of a failed run, lead away.
LEMMA UnknownRecorded ==
  ASSUME TypeOK, RInv, NEW i \in Instances, Unknown(i) \/ markRemoteUnknown(i) \/ MarkUnknown(i) \/ Catch(i)
  PROVE  RInv'
<1>1. inst[i] \in Process /\ inst[i].state \in States /\ disk \in States /\ audit' = audit /\ indexed' = indexed
  BY DEF TypeOK, Process, Unknown, markRemoteUnknown, MarkUnknown, Catch
<1>2. CASE Unknown(i)
  <2> DEFINE p == [inst[i] EXCEPT !.pc = "mark", !.keep = TRUE, !.state = Marked(i, @, inst[i].folder)]
  <2>1. To(i, p) /\ p.pc = "mark"
    BY <1>1, <1>2 DEF Unknown, Process
  <2> HIDE DEF p
  <2> QED
    BY <1>1, <2>1, AheadStep DEF Ahead
<1>3. CASE markRemoteUnknown(i)
  <2> DEFINE p == [inst[i] EXCEPT !.pc = "marking", !.seen = disk]
             q == SaveThen(inst[i], "result")
  <2>1. (To(i, p) \/ To(i, q)) /\ p.pc = "marking"
    BY <1>1, <1>3 DEF markRemoteUnknown, Process
  <2>2. ~Ahead(q)
    BY <1>1, SaveThenAhead
  <2> HIDE DEF p, q
  <2> QED
    BY <1>1, <2>1, <2>2, AheadStep DEF Ahead
<1>4. CASE MarkUnknown(i)
  <2> DEFINE m == [inst[i] EXCEPT !.seen = emptyState]
             q == SaveThen(m, "result")
  <2>1. To(i, q)
    BY <1>4 DEF MarkUnknown, Write
  <2>2. m \in Process
    BY <1>1, Records DEF Process
  <2> HIDE DEF m
  <2>3. ~Ahead(q)
    BY <2>2, SaveThenAhead
  <2> HIDE DEF q
  <2> QED
    BY <1>1, <2>1, <2>3, AheadStep
<1>5. CASE Catch(i)
  <2> DEFINE me == inst[i]
             s == IF me.keep /\ ~me.state.blocked /\ disk.blocked
                  THEN [me.state EXCEPT !.blocked = TRUE, !.unknown = disk.unknown] ELSE me.state
             t == IF me.sent \/ me.keep THEN s ELSE Rested(s)
             m == [me EXCEPT !.state = t]
             q == SaveThen(m, "release")
  <2>1. To(i, q)
    BY <1>5 DEF Catch
  <2>2. s \in States
    BY <1>1 DEF States
  <2> HIDE DEF s
  <2>3. t \in States
    BY <2>2 DEF Rested, States
  <2> HIDE DEF t
  <2>4. m \in Process
    BY <1>1, <2>3 DEF Process
  <2> HIDE DEF m
  <2>5. ~Ahead(q)
    BY <2>4, SaveThenAhead
  <2> HIDE DEF q
  <2> QED
    BY <1>1, <2>1, <2>5, AheadStep
<1> QED
  BY <1>2, <1>3, <1>4, <1>5

LEMMA RunOnceRecorded == ASSUME TypeOK, RInv, NEW i \in Instances, runOnce(i) PROVE RInv'
<1>1. CASE Tick(i) \/ WriteToken(i) \/ Unlink(i) \/ Rmdir(i)
  BY <1>1, LockRecorded
<1>2. CASE StartRun(i) \/ Begin(i) \/ Save(i) \/ Saved(i) \/ Intent(i) \/ Result(i)
  BY <1>2, BeginRecorded, SaveRecorded, IntentRecorded, ResultRecorded
<1>3. CASE Scan(i) \/ Over(i) \/ Folder(i) \/ assertUnblocked(i) \/ indexMailbox(i) \/ Answered(i)
  BY <1>3, FolderRecorded, CheckRecorded, IndexMailboxRecorded
<1>4. CASE Unknown(i) \/ markRemoteUnknown(i) \/ MarkUnknown(i) \/ Catch(i)
  BY <1>4, UnknownRecorded
<1> QED
  BY <1>1, <1>2, <1>3, <1>4 DEF runOnce

\* An index is sent only by a run whose intent can be read in the audit file,
\* whatever an earlier crash left at its end (audit.js append, run).
THEOREM IndexRecordedHolds == Spec => []IndexRecorded
<1>1. Init => RInv
  <2> SUFFICES ASSUME Init PROVE RInv
    OBVIOUS
  <2>1. indexed = {} /\ \A i \in Instances : inst[i].pc = "off"
    BY Records DEF Init
  <2> QED
    BY <2>1 DEF RInv, Ahead
<1>2. TypeOK /\ RInv /\ [Next]_vars => RInv'
  <2> SUFFICES ASSUME TypeOK, RInv, [Next]_vars PROVE RInv'
    OBVIOUS
  <2>1. CASE UNCHANGED <<audit, indexed, inst>>
    BY <2>1 DEF RInv, Ahead, Row
  <2>2. ASSUME NEW i \in Instances, Boot(i) \/ MarkRestart(i) \/ Crash(i) \/ runOnce(i) PROVE RInv'
    BY <2>2, LockRecorded, RunOnceRecorded
  <2>3. (UNCHANGED vars \/ NextDay \/ RemoteEnds \/ ManualUnlock) => UNCHANGED <<audit, indexed, inst>>
    BY DEF vars, NextDay, RemoteEnds, ManualUnlock
  <2> QED
    BY <2>1, <2>2, <2>3 DEF Next
<1>3. IInv => TypeOK
  BY DEF IInv
<1>4. RInv => IndexRecorded
  BY DEF RInv, IndexRecorded, Row
<1> QED
  BY Inductive, <1>1, <1>2, <1>3, <1>4, PTL DEF Spec

-------------------------------------------------------------------------------
(* The state file: no day runs twice, and the file names an index that may *)
(* still be running.                                                       *)

\* The days begun differ, and the state file knows them.
RunsOK(days, d) ==
  /\ \A j, k \in DOMAIN days : days[j] = days[k] => j = k
  /\ \A j \in DOMAIN days : days[j] \in d.runs

\* What a process read of the days and of the folder under way is still true.
DaysOK(p, d) ==
  /\ p.pc \in {"begin", "write", "marking"} => p.seen.runs = d.runs /\ p.seen.current = d.current
  /\ p.pc = "begin" => p.lastDay \notin d.runs

Named(s, x) == s.current = x.mailbox

\* A process names the folder it is about to index, and the one it asked for.
NamesOK(p, d, r) ==
  /\ p.pc \in {"check", "send"} => p.state.current = p.folder /\ d.current = p.folder
  /\ p.pc \in {"save", "write"} /\ p.then = "check" => p.state.current = p.folder
  /\ \A x \in r : Busy(p) => p.state.current = x.mailbox

RecInv ==
  ~lost => /\ RunsOK(started, disk)
           /\ \A x \in remote : Named(disk, x)
           /\ \A i \in Instances : DaysOK(inst[i], disk) /\ NamesOK(inst[i], disk, remote)

-------------------------------------------------------------------------------
(* Steps of one process.                                                   *)

\* Only the process that is at work may change what others rely on.
LEMMA RecStep ==
  ASSUME IInv, RecInv, NEW i \in Instances, NEW p, To(i, p), lost' = lost,
         Busy(inst[i]) \/ UNCHANGED <<disk, remote>>,
         ~lost => /\ RunsOK(started', disk')
                  /\ \A x \in remote' : Named(disk', x)
                  /\ DaysOK(p, disk') /\ NamesOK(p, disk', remote')
  PROVE  RecInv'
<1> SUFFICES ASSUME ~lost
             PROVE  \A j \in Instances : DaysOK(inst'[j], disk') /\ NamesOK(inst'[j], disk', remote')
  BY DEF RecInv, RunsOK, DaysOK, NamesOK, Named, Busy
<1>1. \A j \in Instances : inst'[j] = IF j = i THEN p ELSE inst[j]
  BY DEF To, IInv, TypeOK
<1>2. ASSUME NEW j \in Instances, j # i
      PROVE  DaysOK(inst[j], disk') /\ NamesOK(inst[j], disk', remote')
  <2>1. CASE Busy(inst[i])
    <3>1. ~Busy(inst[j])
      BY <1>2, <2>1 DEF IInv
    <3> QED
      BY <3>1 DEF DaysOK, NamesOK, Busy, Quiet
  <2>2. CASE UNCHANGED <<disk, remote>>
    BY <2>2 DEF RecInv
  <2> QED
    BY <2>1, <2>2
<1> QED
  BY <1>1, <1>2

\* A step that leaves the files, Dovecot and the days alone.
LEMMA RecAlone ==
  ASSUME IInv, RecInv, NEW i \in Instances, NEW p, To(i, p), UNCHANGED <<disk, remote, started, lost>>,
         ~lost => DaysOK(p, disk) /\ NamesOK(p, disk, remote)
  PROVE  RecInv'
BY RecStep DEF RecInv

\* The steps at which a process relies on something special.
Special == {"begin", "write", "marking", "check", "send"}

\* Elsewhere only the folder under way matters; whoever does not wait for it
\* or keep the lock has none.
LEMMA EasyStep ==
  ASSUME IInv, IInv', RecInv, NEW i \in Instances, NEW p, To(i, p), UNCHANGED <<disk, remote, started, lost>>,
         p.pc \notin Special, p.pc = "save" => p.then # "check",
         remote # {} /\ p.pc \in {"sent", "mark", "save", "result", "catch"} => Busy(inst[i]) /\ p.state.current = inst[i].state.current
  PROVE  RecInv'
<1>1. inst'[i] = p
  BY DEF To, IInv, TypeOK
<1>2. remote # {} /\ Busy(p) => p.pc \in {"sent", "mark", "save", "result", "catch"}
  <2>1. remote' # {} /\ Busy(inst'[i]) => (Knows(inst[i]))'
    BY DEF IInv, Busy
  <2>2. (Knows(inst[i]))' => inst'[i].pc \in {"sent", "mark", "marking", "save", "write", "result", "catch"}
    BY DEF Knows, Waits, Keeps
  <2> QED
    BY <1>1, <2>1, <2>2 DEF Special
<1>3. ~lost => DaysOK(p, disk) /\ NamesOK(p, disk, remote)
  <2> SUFFICES ASSUME ~lost PROVE DaysOK(p, disk) /\ NamesOK(p, disk, remote)
    OBVIOUS
  <2>1. DaysOK(p, disk)
    BY DEF DaysOK, Special
  <2>2. \A x \in remote : Busy(p) => p.state.current = x.mailbox
    <3> SUFFICES ASSUME NEW x \in remote, Busy(p) PROVE p.state.current = x.mailbox
      OBVIOUS
    <3>1. Busy(inst[i]) /\ p.state.current = inst[i].state.current
      BY <1>2
    <3> QED
      BY <3>1 DEF RecInv, NamesOK
  <2> QED
    BY <2>1, <2>2 DEF NamesOK, Special
<1> QED
  BY <1>3, RecAlone

-------------------------------------------------------------------------------
(* Restart, time, the lock.                                                *)

LEMMA BootRec == ASSUME IInv, IInv', RecInv, NEW i \in Instances, Boot(i) PROVE RecInv'
<1> DEFINE p == [Off EXCEPT !.pc = "boot", !.seen = disk]
<1>1. p.pc = "boot"
  BY Records DEF Process
<1>2. To(i, p) /\ UNCHANGED <<disk, remote, started, lost>>
  BY DEF Boot
<1> HIDE DEF p
<1> QED
  BY <1>1, <1>2, EasyStep DEF Special

\* The mark is set on the state as it is, or something is lost.
LEMMA MarkRestartRec == ASSUME IInv, IInv', RecInv, NEW i \in Instances, MarkRestart(i) PROVE RecInv'
<1> DEFINE s == inst[i].seen
<1>1. To(i, Waiting(i)) /\ UNCHANGED <<remote, started>> /\ Waiting(i).pc = "idle"
  BY WaitingType DEF MarkRestart, Write, IInv
<1>2. CASE UNCHANGED <<disk, lost>>
  BY <1>1, <1>2, EasyStep DEF Special
<1>3. CASE ~UNCHANGED <<disk, lost>>
  <2>1. /\ s.unknown = Nil /\ disk' \in {disk, Restarted(i, s)}
        /\ lost' = (lost \/ (disk' # disk /\ s # disk))
    BY <1>3 DEF MarkRestart, Write
  <2> SUFFICES ASSUME ~lost' PROVE RecInv'
    BY DEF RecInv
  <2>2. ~lost /\ s = disk /\ disk' = Restarted(i, disk) /\ disk.unknown = Nil
    BY <1>3, <2>1 DEF IInv, TypeOK
  <2> HIDE DEF s
  <2>3. disk'.runs = disk.runs /\ disk'.current = disk.current
    BY <2>2 DEF Restarted, IInv, TypeOK, States
  <2>4. \A x \in remote : Named(disk', x)
    BY <2>2, <2>3 DEF RecInv, Named
  <2>5. \A j \in Instances : inst'[j] = IF j = i THEN Waiting(i) ELSE inst[j]
    BY <1>1 DEF To, IInv, TypeOK
  <2>6. ASSUME NEW j \in Instances PROVE DaysOK(inst'[j], disk') /\ NamesOK(inst'[j], disk', remote')
    <3>1. CASE j = i
      BY <1>1, <2>5, <3>1 DEF DaysOK, NamesOK, Busy, Quiet
    <3>2. CASE j # i
      <4>1. DaysOK(inst[j], disk) /\ NamesOK(inst[j], disk, remote)
        BY <2>2 DEF RecInv
      <4> QED
        BY <1>1, <2>3, <2>5, <3>2, <4>1 DEF DaysOK, NamesOK
    <3> QED
      BY <3>1, <3>2
  <2>7. RunsOK(started', disk')
    BY <1>1, <2>2, <2>3 DEF RecInv, RunsOK
  <2> QED
    BY <1>1, <2>4, <2>6, <2>7 DEF RecInv, RunsOK, DaysOK, NamesOK, Named, Busy
<1> QED
  BY <1>2, <1>3

LEMMA CrashRec == ASSUME IInv, IInv', RecInv, NEW i \in Instances, Crash(i) PROVE RecInv'
<1>1. To(i, Off) /\ UNCHANGED <<disk, remote, started, lost>>
  BY DEF Crash
<1> QED
  BY <1>1, Records, EasyStep DEF Special

\* The operator's unlock keeps the days; nothing is running.
LEMMA OutsideRec == ASSUME IInv, IInv', RecInv, NextDay \/ RemoteEnds \/ ManualUnlock PROVE RecInv'
<1>1. CASE NextDay
  BY <1>1 DEF NextDay, RecInv, RunsOK, DaysOK, NamesOK, Named, Busy
<1>2. CASE RemoteEnds
  <2>1. remote' \subseteq remote /\ UNCHANGED <<disk, inst, started, lost>>
    BY <1>2 DEF RemoteEnds
  <2> QED
    BY <2>1 DEF RecInv, RunsOK, DaysOK, NamesOK, Named, Busy
<1>3. CASE ManualUnlock
  <2>1. /\ remote = {} /\ disk' = Unlocked(disk) /\ UNCHANGED <<remote, inst, started, lost>>
        /\ \A j \in Instances : inst[j].pc \in {"off", "idle", "boot"}
    BY <1>3 DEF ManualUnlock
  <2>2. disk'.runs = disk.runs
    BY <2>1 DEF Unlocked, IInv, TypeOK, States
  <2> QED
    BY <2>1, <2>2 DEF RecInv, RunsOK, DaysOK, NamesOK, Named, Busy
<1> QED
  BY <1>1, <1>2, <1>3

LEMMA LockRec ==
  ASSUME IInv, IInv', RecInv, NEW i \in Instances, Tick(i) \/ WriteToken(i) \/ Unlink(i) \/ Rmdir(i)
  PROVE  RecInv'
<1>1. UNCHANGED <<disk, remote, started, lost>>
  BY DEF Tick, WriteToken, Unlink, Rmdir
<1>2. inst[i] \in Process /\ Waiting(i) \in Process /\ Waiting(i).pc = "idle"
  BY WaitingType DEF IInv, TypeOK
<1>3. \E p : To(i, p) /\ p.pc \in {"idle", "token", "start", "rmdir"}
  <2>1. \A pc : [inst[i] EXCEPT !.pc = pc].pc = pc
    BY <1>2 DEF Process
  <2>2. CASE Tick(i)
    <3> DEFINE me == [Waiting(i) EXCEPT !.lastDay = today]
    <3>1. me.pc = "idle" /\ [me EXCEPT !.pc = "token"].pc = "token"
      BY <1>2 DEF Process
    <3>2. To(i, me) \/ To(i, [me EXCEPT !.pc = "token"])
      BY <2>2 DEF Tick
    <3> QED
      BY <3>1, <3>2
  <2>3. CASE WriteToken(i) \/ Unlink(i) \/ Rmdir(i)
    <3>1. \/ To(i, Waiting(i)) \/ To(i, [inst[i] EXCEPT !.pc = "start"]) \/ To(i, [inst[i] EXCEPT !.pc = "rmdir"])
      BY <2>3 DEF WriteToken, Unlink, Rmdir
    <3> QED
      BY <1>2, <2>1, <3>1
  <2> QED
    BY <2>2, <2>3
<1> QED
  BY <1>1, <1>3, EasyStep DEF Special

-------------------------------------------------------------------------------
(* The state file.                                                         *)

LEMMA SaveThenState ==
  ASSUME NEW p \in Process, NEW pc \in {"next", "check", "result", "release"}
  PROVE  /\ SaveThen(p, pc).pc = "save" /\ SaveThen(p, pc).then = pc
         /\ SaveThen(p, pc).state = p.state /\ SaveThen(p, pc).folder = p.folder
BY DEF SaveThen, Process

LEMMA SaveFailedState ==
  ASSUME IInv, NEW i \in Instances, NEW p \in Process, NEW refused \in BOOLEAN
  PROVE  /\ SaveFailed(i, p, refused).pc \in {"idle", "unlink", "result"}
         /\ SaveFailed(i, p, refused).pc = "result" => SaveFailed(i, p, refused).state = p.state
<1> DEFINE m == [p EXCEPT !.keep = p.sent \/ refused, !.seen = emptyState, !.failed = TRUE]
<1>1. m \in Process /\ m.state = p.state
  BY Records DEF Process
<1> HIDE DEF m
<1>2. [m EXCEPT !.pc = "result"].state = m.state /\ [m EXCEPT !.pc = "result"].pc = "result"
  BY <1>1 DEF Process
<1>3. Release(i, m).pc \in {"idle", "unlink"}
  BY <1>1, ReleaseType DEF IInv
<1>4. SaveFailed(i, p, refused) = IF p.then = "release" THEN Release(i, m) ELSE [m EXCEPT !.pc = "result"]
  BY DEF SaveFailed, m
<1> QED
  BY <1>1, <1>2, <1>3, <1>4

LEMMA StartRunRec == ASSUME IInv, IInv', RecInv, NEW i \in Instances, StartRun(i) PROVE RecInv'
<1> DEFINE me == [inst[i] EXCEPT !.seen = disk]
           p == [me EXCEPT !.pc = "begin"]
<1>1. inst[i] \in Process /\ disk \in States /\ UNCHANGED <<disk, remote, started, lost>>
  BY DEF IInv, TypeOK, StartRun
<1>2. me \in Process /\ me.seen = disk /\ me.lastDay = inst[i].lastDay
  BY <1>1 DEF Process
<1>3. \/ To(i, Release(i, me)) \/ To(i, Waiting(i))
      \/ To(i, p) /\ me.lastDay \notin disk.runs
  BY DEF StartRun
<1> HIDE DEF me
<1>4. Release(i, me).pc \in {"idle", "unlink"} /\ Waiting(i).pc = "idle"
  BY <1>2, ReleaseType, WaitingType DEF IInv
<1>5. CASE To(i, Release(i, me)) \/ To(i, Waiting(i))
  BY <1>1, <1>4, <1>5, EasyStep DEF Special
<1>6. CASE To(i, p) /\ me.lastDay \notin disk.runs
  <2>1. p.pc = "begin" /\ p.seen = disk /\ p.lastDay = me.lastDay
    BY <1>2 DEF Process
  <2>2. remote = {}
    BY Unaware DEF StartRun, At, Before
  <2> HIDE DEF p
  <2>3. DaysOK(p, disk) /\ NamesOK(p, disk, remote)
    BY <1>6, <2>1, <2>2 DEF DaysOK, NamesOK
  <2> QED
    BY <1>1, <1>6, <2>3, RecAlone
<1> QED
  BY <1>3, <1>5, <1>6

\* A day that begins is new, and the state that names it is the file's.
LEMMA BeginRec == ASSUME IInv, IInv', RecInv, NEW i \in Instances, Begin(i) PROVE RecInv'
<1> DEFINE me == [inst[i] EXCEPT !.seen = emptyState]
           s == Started(inst[i].seen, me.lastDay)
           p == [me EXCEPT !.pc = "intent", !.state = s]
<1>1. inst[i] \in Process /\ inst[i].pc = "begin" /\ disk \in States /\ started \in Seq(Nat)
  BY DEF IInv, TypeOK, Begin, At
<1>2. me \in Process /\ me.lastDay = inst[i].lastDay /\ me.lastDay \in Nat
  BY <1>1, Records DEF Process
<1>3. Busy(inst[i]) /\ remote = {} /\ remote' = {} /\ lost' = lost
  BY <1>1, Unaware DEF Begin, Before
<1>4. /\ disk' \in {disk, s}
      /\ started' = IF disk' = s THEN Append(started, me.lastDay) ELSE started
      /\ To(i, p) \/ To(i, Release(i, me))
  BY DEF Begin, Write
<1>5. s.runs = inst[i].seen.runs \union {me.lastDay}
  BY DEF Started, emptyState
<1> HIDE DEF me, s
<1>6. p.pc = "intent" /\ Release(i, me).pc \in {"idle", "unlink"}
  BY <1>2, ReleaseType DEF IInv, Process
<1> HIDE DEF p
<1>7. \A q \in {p, Release(i, me)} : DaysOK(q, disk') /\ NamesOK(q, disk', remote')
  BY <1>3, <1>6 DEF DaysOK, NamesOK
<1>8. ~lost => RunsOK(started', disk')
  <2> SUFFICES ASSUME ~lost PROVE RunsOK(started', disk')
    OBVIOUS
  <2>1. RunsOK(started, disk) /\ inst[i].seen.runs = disk.runs /\ me.lastDay \notin disk.runs
    BY <1>1, <1>2 DEF RecInv, DaysOK
  <2>2. CASE disk' = s
    <3>1. started' = Append(started, me.lastDay) /\ disk'.runs = disk.runs \union {me.lastDay}
      BY <1>4, <1>5, <2>1, <2>2
    <3>2. /\ Len(started) \in Nat /\ DOMAIN started = 1..Len(started) /\ DOMAIN started' = 1..(Len(started) + 1)
          /\ \A j \in DOMAIN started : started'[j] = started[j]
          /\ started'[Len(started) + 1] = me.lastDay
      BY <1>1, <1>2, <3>1
    <3> QED
      BY <2>1, <3>1, <3>2 DEF RunsOK
  <2>3. CASE disk' # s
    BY <1>4, <2>1, <2>3
  <2> QED
    BY <2>2, <2>3
<1> QED
  BY <1>3, <1>4, <1>7, <1>8, RecStep

LEMMA SaveRec == ASSUME IInv, IInv', RecInv, NEW i \in Instances, Save(i) PROVE RecInv'
<1> DEFINE p == [inst[i] EXCEPT !.pc = "write", !.seen = disk]
<1>1. inst[i] \in Process /\ inst[i].pc = "save" /\ disk \in States /\ Busy(inst[i])
      /\ UNCHANGED <<disk, remote, started, lost>>
  BY DEF IInv, TypeOK, Save, At, Busy, Quiet
<1>2. (\E refused \in BOOLEAN : To(i, SaveFailed(i, inst[i], refused))) \/ To(i, p)
  BY DEF Save
<1>3. ASSUME NEW refused \in BOOLEAN, To(i, SaveFailed(i, inst[i], refused)) PROVE RecInv'
  BY <1>1, <1>3, SaveFailedState, EasyStep DEF Special
<1>4. CASE To(i, p)
  <2>1. /\ p.pc = "write" /\ p.seen = disk /\ p.then = inst[i].then
        /\ p.state = inst[i].state /\ p.folder = inst[i].folder
    BY <1>1 DEF Process
  <2> HIDE DEF p
  <2>2. ~lost => DaysOK(p, disk) /\ NamesOK(p, disk, remote)
    BY <1>1, <2>1 DEF RecInv, DaysOK, NamesOK
  <2> QED
    BY <1>1, <1>4, <2>2, RecAlone
<1> QED
  BY <1>2, <1>3, <1>4

\* What is written keeps the days that were read and the folder under way.
LEMMA SavedRec == ASSUME IInv, IInv', RecInv, NEW i \in Instances, Saved(i) PROVE RecInv'
<1> DEFINE s == [inst[i].state EXCEPT !.runs = inst[i].seen.runs]
           me == [inst[i] EXCEPT !.seen = emptyState, !.state = s]
           p == [me EXCEPT !.pc = me.then, !.then = Nil]
           bad == SaveFailed(i, inst[i], FALSE)
<1>1. /\ inst[i] \in Process /\ inst[i].pc = "write" /\ inst[i].then \in {"next", "check", "result", "release"}
      /\ disk \in States /\ Busy(inst[i])
  BY DEF IInv, TypeOK, Saved, At, Busy, Quiet
<1>2. /\ s \in States /\ s.runs = inst[i].seen.runs /\ s.current = inst[i].state.current
      /\ s.unknown = inst[i].state.unknown
  BY <1>1 DEF Process, States
<1>3. /\ UNCHANGED <<remote, started, lost>>
      /\ \/ disk' = s /\ To(i, IF me.then = "release" THEN Release(i, me) ELSE p)
         \/ disk' \in {disk, s} /\ To(i, bad)
  BY DEF Saved, Write
<1> HIDE DEF s
<1>4. me \in Process /\ me.then = inst[i].then /\ me.state = s /\ me.folder = inst[i].folder
  BY <1>1, <1>2, Records DEF Process
<1> HIDE DEF me
<1>5. p.pc = me.then /\ p.state = s /\ p.folder = inst[i].folder
  BY <1>4 DEF Process
<1>6. Release(i, me).pc \in {"idle", "unlink"}
  BY <1>4, ReleaseType DEF IInv
<1>7. bad.pc \in {"idle", "unlink", "result"} /\ (bad.pc = "result" => bad.state = inst[i].state)
  BY <1>1, SaveFailedState
<1> HIDE DEF p, bad
<1>8. inst'[i] \in {Release(i, me), p, bad}
  BY <1>3 DEF To, IInv, TypeOK
<1>9. inst'[i].pc = "unlink" => remote' = {}
  BY DEF IInv, Busy, Quiet, Knows, Waits, Keeps
<1>10. ~lost => /\ disk'.runs = disk.runs
                /\ \A x \in remote : inst[i].state.current = x.mailbox /\ Named(disk', x)
  BY <1>1, <1>2, <1>3 DEF RecInv, DaysOK, NamesOK, Named
<1>11. ~lost => RunsOK(started', disk')
  BY <1>3, <1>10 DEF RecInv, RunsOK
<1>12. CASE disk' = s /\ me.then # "release" /\ To(i, p)
  <2>1. ~lost => DaysOK(p, disk')
    BY <1>1, <1>4, <1>5, <1>12 DEF DaysOK
  <2>2. ~lost => NamesOK(p, disk', remote')
    BY <1>1, <1>2, <1>3, <1>4, <1>5, <1>10, <1>12 DEF RecInv, NamesOK
  <2> QED
    BY <1>1, <1>3, <1>10, <1>11, <1>12, <2>1, <2>2, RecStep
<1>13. CASE To(i, Release(i, me))
  <2>1. Release(i, me).pc = "unlink" => remote' = {}
    BY <1>9, <1>13 DEF To, IInv, TypeOK
  <2>2. DaysOK(Release(i, me), disk') /\ NamesOK(Release(i, me), disk', remote')
    BY <1>6, <2>1 DEF DaysOK, NamesOK, Busy, Quiet
  <2> QED
    BY <1>1, <1>3, <1>10, <1>11, <1>13, <2>2, RecStep
<1>14. CASE To(i, bad)
  <2>1. bad.pc = "unlink" => remote' = {}
    BY <1>9, <1>14 DEF To, IInv, TypeOK
  <2>2. ~lost => DaysOK(bad, disk') /\ NamesOK(bad, disk', remote')
    BY <1>3, <1>7, <1>10, <2>1 DEF DaysOK, NamesOK, Busy, Quiet
  <2> QED
    BY <1>1, <1>3, <1>10, <1>11, <1>14, <2>2, RecStep
<1> QED
  BY <1>3, <1>12, <1>13, <1>14

LEMMA MarkUnknownRec == ASSUME IInv, IInv', RecInv, NEW i \in Instances, MarkUnknown(i) PROVE RecInv'
<1> DEFINE m == [inst[i] EXCEPT !.seen = emptyState]
           p == SaveThen(m, "result")
           s == Marked(i, inst[i].seen, inst[i].folder)
<1>1. inst[i] \in Process /\ inst[i].pc = "marking" /\ disk \in States /\ Busy(inst[i])
  BY DEF IInv, TypeOK, MarkUnknown, At, Busy, Quiet
<1>2. m \in Process /\ m.state = inst[i].state
  BY <1>1, Records DEF Process
<1>3. disk' \in {disk, s} /\ To(i, p) /\ UNCHANGED <<remote, started, lost>>
  BY DEF MarkUnknown, Write
<1>4. s.runs = inst[i].seen.runs /\ s.current = inst[i].seen.current
  BY <1>1 DEF Marked, Process, States
<1> HIDE DEF m, s
<1>5. p.pc = "save" /\ p.then = "result" /\ p.state = inst[i].state
  BY <1>2, SaveThenState
<1> HIDE DEF p
<1>6. ~lost => disk'.runs = disk.runs /\ \A x \in remote : Named(disk', x)
  BY <1>1, <1>3, <1>4 DEF RecInv, DaysOK, Named
<1>7. ~lost => DaysOK(p, disk') /\ NamesOK(p, disk', remote')
  BY <1>1, <1>3, <1>5 DEF RecInv, DaysOK, NamesOK
<1>8. ~lost => RunsOK(started', disk')
  BY <1>3, <1>6 DEF RecInv, RunsOK
<1> QED
  BY <1>1, <1>3, <1>6, <1>7, <1>8, RecStep

-------------------------------------------------------------------------------
(* The run.                                                                *)

LEMMA RecordRec == ASSUME IInv, IInv', RecInv, NEW i \in Instances, Intent(i) \/ Result(i) PROVE RecInv'
<1>1. inst[i] \in Process /\ Busy(inst[i]) /\ UNCHANGED <<disk, remote, started, lost>>
  BY DEF IInv, TypeOK, Intent, Result, At, Busy, Quiet
<1>2. \A pc : [inst[i] EXCEPT !.pc = pc].pc = pc /\ [inst[i] EXCEPT !.pc = pc].state = inst[i].state
  BY <1>1 DEF Process
<1>3. Release(i, inst[i]).pc \in {"idle", "unlink"}
  BY <1>1, ReleaseType DEF IInv
<1>4. \/ \E pc \in {"scan", "catch"} : To(i, [inst[i] EXCEPT !.pc = pc])
      \/ To(i, Release(i, inst[i]))
  BY DEF Intent, Result, Record
<1>5. CASE To(i, Release(i, inst[i]))
  BY <1>1, <1>3, <1>5, EasyStep DEF Special
<1>6. ASSUME NEW pc \in {"scan", "catch"}, To(i, [inst[i] EXCEPT !.pc = pc]) PROVE RecInv'
  BY <1>1, <1>2, <1>6, EasyStep DEF Special
<1> QED
  BY <1>4, <1>5, <1>6

\* Before its first index a run knows of none.
LEMMA BeforeRec ==
  ASSUME IInv, IInv', RecInv, NEW i \in Instances, Scan(i) \/ Over(i) \/ Folder(i) \/ assertUnblocked(i)
  PROVE  RecInv'
<1>1. inst[i] \in Process /\ Busy(inst[i]) /\ remote = {} /\ UNCHANGED <<disk, remote, started, lost>>
  BY Unaware DEF IInv, TypeOK, Scan, Over, Folder, assertUnblocked, At, Before
<1>2. ASSUME NEW p, To(i, p), p.pc \notin Special, p.pc = "save" => p.then # "check" PROVE RecInv'
  BY <1>1, <1>2, EasyStep
<1>3. CASE Scan(i)
  <2>1. CASE To(i, [inst[i] EXCEPT !.pc = "result", !.failed = TRUE])
    <3> DEFINE p == [inst[i] EXCEPT !.pc = "result", !.failed = TRUE]
    <3>1. p.pc = "result"
      BY <1>1 DEF Process
    <3> HIDE DEF p
    <3> QED
      BY <1>2, <2>1, <3>1 DEF p, Special
  <2>2. ASSUME NEW q \in SUBSET Folders, To(i, SaveThen([inst[i] EXCEPT !.todo = q], "next")) PROVE RecInv'
    <3>1. [inst[i] EXCEPT !.todo = q] \in Process
      BY <1>1 DEF Process
    <3> QED
      BY <1>2, <2>2, <3>1, SaveThenState DEF Special
  <2> QED
    BY <1>3, <2>1, <2>2 DEF Scan
<1>4. CASE Over(i)
  <2> DEFINE m == [inst[i] EXCEPT !.todo = {}, !.state = Rested(@)]
  <2>1. Rested(inst[i].state) \in States
    BY <1>1 DEF Rested, States, Process
  <2>2. m \in Process
    BY <1>1, <2>1 DEF Process
  <2>3. To(i, SaveThen(m, "result"))
    BY <1>4 DEF Over
  <2> HIDE DEF m
  <2> QED
    BY <1>2, <2>2, <2>3, SaveThenState DEF Special
<1>5. CASE Folder(i)
  <2>1. PICK f \in inst[i].todo :
          LET me == [inst[i] EXCEPT !.todo = @ \ {f}] IN
          \/ To(i, SaveThen([me EXCEPT !.state = Rested(@)], "next"))
          \/ To(i, SaveThen([me EXCEPT !.state = Working(@, f), !.folder = f], "check"))
    BY <1>5 DEF Folder
  <2> DEFINE me == [inst[i] EXCEPT !.todo = @ \ {f}]
             m == [me EXCEPT !.state = Rested(@)]
             n == [me EXCEPT !.state = Working(@, f), !.folder = f]
  <2>2. me \in Process /\ f \in Folders
    BY <1>1 DEF Process
  <2>3. To(i, SaveThen(m, "next")) \/ To(i, SaveThen(n, "check"))
    BY <2>1
  <2> HIDE DEF me
  <2>4. Rested(me.state) \in States /\ Working(me.state, f) \in States /\ Working(me.state, f).current = f
    BY <2>2, StateType DEF Process, Working, States
  <2>5. m \in Process /\ n \in Process /\ n.state.current = f /\ n.folder = f
    BY <2>2, <2>4 DEF Process
  <2> HIDE DEF m, n
  <2>6. CASE To(i, SaveThen(m, "next"))
    BY <1>2, <2>5, <2>6, SaveThenState DEF Special
  <2>7. CASE To(i, SaveThen(n, "check"))
    <3> DEFINE p == SaveThen(n, "check")
    <3>1. p.pc = "save" /\ p.state.current = f /\ p.folder = f
      BY <2>5, SaveThenState
    <3> HIDE DEF p
    <3>2. DaysOK(p, disk) /\ NamesOK(p, disk, remote)
      BY <1>1, <3>1 DEF DaysOK, NamesOK
    <3> QED
      BY <1>1, <2>7, <3>2, RecAlone DEF p
  <2> QED
    BY <2>3, <2>6, <2>7
<1>6. CASE assertUnblocked(i)
  <2> DEFINE p == [inst[i] EXCEPT !.keep = TRUE, !.state = disk, !.pc = "result", !.failed = TRUE]
             q == [inst[i] EXCEPT !.pc = "send"]
             r == [inst[i] EXCEPT !.pc = "next", !.todo = {}, !.state = Rested(@)]
  <2>1. (To(i, p) \/ To(i, q) \/ To(i, r)) /\ inst[i].pc = "check"
    BY <1>6 DEF assertUnblocked, At
  <2>2. p.pc = "result" /\ r.pc = "next" /\ q.pc = "send" /\ q.state = inst[i].state /\ q.folder = inst[i].folder
    BY <1>1 DEF Process
  <2> HIDE DEF p, q, r
  <2>3. CASE To(i, p) \/ To(i, r)
    BY <1>2, <2>2, <2>3 DEF Special
  <2>4. CASE To(i, q)
    <3>1. ~lost => DaysOK(q, disk) /\ NamesOK(q, disk, remote)
      BY <1>1, <2>1, <2>2 DEF RecInv, DaysOK, NamesOK
    <3> QED
      BY <1>1, <2>4, <3>1, RecAlone
  <2> QED
    BY <2>1, <2>3, <2>4
<1> QED
  BY <1>3, <1>4, <1>5, <1>6

\* The file names the folder before its index is sent.
LEMMA IndexMailboxRec == ASSUME IInv, IInv', RecInv, NEW i \in Instances, indexMailbox(i) PROVE RecInv'
<1>1. /\ inst[i] \in Process /\ Busy(inst[i]) /\ remote = {} /\ UNCHANGED <<disk, started, lost>>
      /\ inst[i].pc = "send"
  BY Unaware DEF IInv, TypeOK, indexMailbox, At, Before
<1> DEFINE m == [inst[i] EXCEPT !.state = Rested(@), !.folder = Nil]
           q == [inst[i] EXCEPT !.pc = "sent", !.sent = TRUE]
           x == [run |-> inst[i].state.run, mailbox |-> inst[i].folder]
<1>2. CASE To(i, SaveThen(m, "next")) /\ UNCHANGED remote
  <2>1. Rested(inst[i].state) \in States
    BY <1>1 DEF Rested, States, Process
  <2>2. m \in Process
    BY <1>1, <2>1 DEF Process
  <2> HIDE DEF m
  <2> QED
    BY <1>1, <1>2, <2>2, SaveThenState, EasyStep DEF Special
<1>3. CASE To(i, q) /\ remote' = remote \union {x}
  <2>1. q.pc = "sent" /\ q.state = inst[i].state /\ q.folder = inst[i].folder
    BY <1>1 DEF Process
  <2>2. remote' = {x} /\ x.mailbox = inst[i].folder
    BY <1>1, <1>3
  <2> HIDE DEF q, x
  <2>3. ~lost => /\ RunsOK(started', disk')
                 /\ \A y \in remote' : Named(disk', y)
                 /\ DaysOK(q, disk') /\ NamesOK(q, disk', remote')
    BY <1>1, <2>1, <2>2 DEF RecInv, Named, DaysOK, NamesOK
  <2> QED
    BY <1>1, <1>3, <2>3, RecStep
<1> QED
  BY <1>2, <1>3 DEF indexMailbox

LEMMA AnswerRec ==
  ASSUME IInv, IInv', RecInv, NEW i \in Instances, Answered(i) \/ Unknown(i) \/ markRemoteUnknown(i)
  PROVE  RecInv'
<1>1. inst[i] \in Process /\ Busy(inst[i]) /\ disk \in States /\ UNCHANGED <<disk, remote, started, lost>>
  BY DEF IInv, TypeOK, Answered, Unknown, markRemoteUnknown, At, Busy, Quiet
<1>2. CASE Answered(i)
  <2> DEFINE m == [inst[i] EXCEPT !.state = Rested(@), !.folder = Nil]
  <2>1. ~Knows(inst[i])
    BY <1>2 DEF Answered, At, Knows, Waits, Keeps
  <2>2. remote = {}
    BY <1>1, <2>1 DEF IInv
  <2>3. Rested(inst[i].state) \in States
    BY <1>1 DEF Rested, States, Process
  <2>4. m \in Process
    BY <1>1, <2>3 DEF Process
  <2>5. To(i, SaveThen(m, "next"))
    BY <1>2 DEF Answered
  <2> HIDE DEF m
  <2> QED
    BY <1>1, <2>2, <2>4, <2>5, SaveThenState, EasyStep DEF Special
<1>3. CASE Unknown(i)
  <2> DEFINE s == Marked(i, inst[i].state, inst[i].folder)
             p == [inst[i] EXCEPT !.pc = "mark", !.keep = TRUE, !.state = s]
  <2>1. s.current = inst[i].state.current
    BY <1>1 DEF Marked, Process, States
  <2> HIDE DEF s
  <2>2. p.pc = "mark" /\ p.state = s
    BY <1>1 DEF Process
  <2>3. To(i, p)
    BY <1>3 DEF Unknown, s
  <2> HIDE DEF p
  <2> QED
    BY <1>1, <2>1, <2>2, <2>3, EasyStep DEF Special
<1>4. CASE markRemoteUnknown(i)
  <2> DEFINE p == [inst[i] EXCEPT !.pc = "marking", !.seen = disk]
  <2>1. To(i, p) \/ To(i, SaveThen(inst[i], "result"))
    BY <1>4 DEF markRemoteUnknown
  <2>2. p.pc = "marking" /\ p.seen = disk /\ p.state = inst[i].state
    BY <1>1 DEF Process
  <2> HIDE DEF p
  <2>3. CASE To(i, p)
    <3>1. ~lost => DaysOK(p, disk) /\ NamesOK(p, disk, remote)
      BY <1>1, <2>2 DEF RecInv, DaysOK, NamesOK
    <3> QED
      BY <1>1, <2>3, <3>1, RecAlone
  <2>4. CASE To(i, SaveThen(inst[i], "result"))
    BY <1>1, <2>4, SaveThenState, EasyStep DEF Special
  <2> QED
    BY <2>1, <2>3, <2>4
<1> QED
  BY <1>2, <1>3, <1>4

\* A run that failed forgets the folder only when no index can be under way.
LEMMA CatchRec == ASSUME IInv, IInv', RecInv, NEW i \in Instances, Catch(i) PROVE RecInv'
<1> DEFINE me == inst[i]
           s == IF me.keep /\ ~me.state.blocked /\ disk.blocked
                THEN [me.state EXCEPT !.blocked = TRUE, !.unknown = disk.unknown] ELSE me.state
           t == IF me.sent \/ me.keep THEN s ELSE Rested(s)
           m == [me EXCEPT !.state = t]
<1>1. /\ inst[i] \in Process /\ Busy(inst[i]) /\ disk \in States /\ UNCHANGED <<disk, remote, started, lost>>
      /\ inst[i].pc = "catch"
  BY DEF IInv, TypeOK, Catch, At, Busy, Quiet
<1>2. To(i, SaveThen(m, "release"))
  BY DEF Catch
<1>3. s \in States /\ s.current = inst[i].state.current
  BY <1>1 DEF Process, States
<1> HIDE DEF s
<1>4. t \in States /\ (me.sent => t = s)
  BY <1>3 DEF Rested, States
<1> HIDE DEF t
<1>5. m \in Process /\ m.state = t
  BY <1>1, <1>4 DEF Process
<1> HIDE DEF m
<1>6. remote # {} => me.sent
  BY <1>1 DEF IInv, Knows, Waits, Keeps
<1> QED
  BY <1>1, <1>2, <1>3, <1>4, <1>5, <1>6, SaveThenState, EasyStep DEF Special

-------------------------------------------------------------------------------
(* The theorems.                                                           *)

LEMMA RunOnceRec == ASSUME IInv, IInv', RecInv, NEW i \in Instances, runOnce(i) PROVE RecInv'
<1>1. CASE Tick(i) \/ WriteToken(i) \/ Unlink(i) \/ Rmdir(i) \/ StartRun(i) \/ Begin(i)
  BY <1>1, LockRec, StartRunRec, BeginRec
<1>2. CASE Intent(i) \/ Result(i) \/ Scan(i) \/ Over(i) \/ Folder(i) \/ assertUnblocked(i)
  BY <1>2, RecordRec, BeforeRec
<1>3. CASE indexMailbox(i) \/ Answered(i) \/ Unknown(i) \/ markRemoteUnknown(i) \/ MarkUnknown(i)
  BY <1>3, IndexMailboxRec, AnswerRec, MarkUnknownRec
<1>4. CASE Save(i) \/ Saved(i) \/ Catch(i)
  BY <1>4, SaveRec, SavedRec, CatchRec
<1> QED
  BY <1>1, <1>2, <1>3, <1>4 DEF runOnce

\* As long as no restart's mark replaced what another instance wrote, the state file knows
\* every day begun and names the folder of an index that may still be running, and so does
\* whoever is about to write it (fts-state.js startRun, save, markRemoteUnknown).
THEOREM RecordsTrue == Spec => []RecInv
<1>1. Init => RecInv
  <2> SUFFICES ASSUME Init PROVE RecInv
    OBVIOUS
  <2>1. started = <<>> /\ remote = {} /\ \A i \in Instances : inst[i].pc = "off"
    BY Records DEF Init
  <2>2. DOMAIN started = {}
    BY <2>1
  <2> QED
    BY <2>1, <2>2 DEF RecInv, RunsOK, DaysOK, NamesOK
<1>2. IInv /\ IInv' /\ RecInv /\ [Next]_vars => RecInv'
  <2> SUFFICES ASSUME IInv, IInv', RecInv, [Next]_vars PROVE RecInv'
    OBVIOUS
  <2>1. CASE UNCHANGED vars
    BY <2>1 DEF vars, RecInv, RunsOK, DaysOK, NamesOK, Named, Busy
  <2>2. CASE NextDay \/ RemoteEnds \/ ManualUnlock
    BY <2>2, OutsideRec
  <2>3. ASSUME NEW i \in Instances, Boot(i) \/ MarkRestart(i) \/ Crash(i) \/ runOnce(i) PROVE RecInv'
    BY <2>3, BootRec, MarkRestartRec, CrashRec, RunOnceRec
  <2> QED
    BY <2>1, <2>2, <2>3 DEF Next
<1> QED
  BY <1>1, <1>2, Inductive, PTL DEF Spec

\* No day has a second run, whatever crashes, unlocks and failed writes come between
\* (fts-state.js runIds).
THEOREM OncePerDayHolds == Spec => []OncePerDay
<1>1. RecInv => OncePerDay
  BY DEF RecInv, RunsOK, OncePerDay
<1> QED
  BY <1>1, RecordsTrue, PTL

\* The state file names the folder of an index that may still be running
\* (fts-state.js current; fts-nightly.js execute).
THEOREM TraceableHolds == Spec => []Traceable
<1>1. RecInv => Traceable
  BY DEF RecInv, Named, Traceable
<1> QED
  BY <1>1, RecordsTrue, PTL
===============================================================================
