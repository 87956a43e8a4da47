----------------------------- MODULE ArchiveStore -----------------------------
(***************************************************************************)
(* The publication protocol of the log archive (log-archiver/store.js).    *)
(*                                                                         *)
(* The archive keeps, per (source, hour), a data file of gzip members and  *)
(* an index file, and in state/ a catalog, a checkpoint and, while a       *)
(* transaction runs, pending.json.  commit(), compactHour() and expire()   *)
(* publish through the same serial queue: pending first, then data, index, *)
(* catalog, and the checkpoint as the commit marker.  A process that dies  *)
(* anywhere is followed by init(), which rolls the pending transaction     *)
(* forward or back.  Compression runs outside the queue.                   *)
(*                                                                         *)
(* "disk" is what the running system sees of the file system, "safe" what  *)
(* a power loss would leave of it.  syncDir() and sync() make everything   *)
(* done before them safe (the order a journaling file system keeps).       *)
(*                                                                         *)
(* A gzip member is the set of source lines it holds; {} is a member cut   *)
(* short.  An entry's "members" stands for its compressedBytes, its        *)
(* lineCount and the member list of its index: the code compares sizes and *)
(* counts of it only, and so does this module.  One source generation is   *)
(* modelled, its lines numbered by their offset.                           *)
(***************************************************************************)
EXTENDS Naturals, Sequences, FiniteSets

CONSTANTS Hours,      \* the (source, hour) keys
          MaxOffset,  \* bound: the source has the lines 1..MaxOffset
          MaxTx,      \* bound: transactions that publish a new transactionId
          MaxFaults,  \* bound: crashes and power losses
          Nil         \* an absent file, entry or value

Lines      == 1..MaxOffset
Member     == SUBSET Lines
Content    == Seq(Member)
Entry      == [fileId: Nat, members: Content, compacted: BOOLEAN]
Catalog    == [tid: Nat, hours: [Hours -> Entry \union {Nil}]]
Checkpoint == [tid: Nat, offset: 0..MaxOffset]

\* pending.json.  A delete holds its entries (the changed hours of "before")
\* and leaves the checkpoint as it is.
Pending == [type: {"write", "compact", "delete"}, prev: Nat, tid: Nat,
            beforeCheckpoint: Checkpoint, afterCheckpoint: Checkpoint,
            beforeCatalog: Catalog, afterCatalog: Catalog,
            changed: SUBSET Hours]

Disk == [catalog: Catalog \union {Nil}, checkpoint: Checkpoint \union {Nil},
         pending: Pending \union {Nil},
         data: [Hours -> Content \union {Nil}], index: [Hours -> Content \union {Nil}],
         backup: Content \union {Nil}]

ASSUME BoundsAssumption == MaxOffset \in Nat /\ MaxTx \in Nat /\ MaxFaults \in Nat
ASSUME NilAssumption == /\ Nil \notin Hours
                        /\ Nil \notin Content
                        /\ Nil \notin Entry
                        /\ Nil \notin Catalog
                        /\ Nil \notin Checkpoint
                        /\ Nil \notin Pending

VARIABLES
  disk,        \* the files, as the process sees them
  safe,        \* the files as a power loss would leave them
  unsynced,    \* a rename or unlink of the running step awaits its sync
  mem,         \* this.catalog and this.checkpoint
  pc,          \* the step the publication queue is at ("down": no process)
  todo,        \* the hours the current loop has not reached
  at,          \* the hour the current loop is at
  removed,     \* deleteFiles(): the unlink found the file
  recovering,  \* init() has not returned
  comp,        \* the hour under compression, outside the queue
  tx,          \* the last identifier randomUUID() gave out
  acked,       \* history: the offset the store last reported to its caller
  noticed,     \* history: the lines named by onDelete() notices
  faults       \* the crashes and power losses so far

vars == <<disk, safe, unsynced, mem, pc, todo, at, removed, recovering, comp,
          tx, acked, noticed, faults>>

-------------------------------------------------------------------------------
LinesIn(content) == UNION {content[i] : i \in DOMAIN content}

Prefix(content, n) == IF n <= Len(content) THEN SubSeq(content, 1, n) ELSE content

EmptyCatalog    == [tid |-> 0, hours |-> [h \in Hours |-> Nil]]
EmptyCheckpoint == [tid |-> 0, offset |-> 0]

NoMem == [catalog |-> Nil, checkpoint |-> Nil]

Idle == pc = "idle" /\ ~unsynced

\* The before entry of an hour in the pending transaction, and its size there.
Before(h)     == disk.pending.beforeCatalog.hours[h]
After(h)      == disk.pending.afterCatalog.hours[h]
SizeBefore(h) == IF Before(h) = Nil THEN 0 ELSE Len(Before(h).members)

\* A step whose effect on the directory is followed by syncDir() before the
\* code goes on: atomicJson(), rename(), unlink().
Publish(d) == /\ ~unsynced
              /\ disk' = d
              /\ unsynced' = TRUE
              /\ UNCHANGED safe

Sync == /\ unsynced
        /\ safe' = disk
        /\ unsynced' = FALSE
        /\ UNCHANGED <<disk, mem, pc, todo, at, removed, recovering, comp, tx,
                       acked, noticed, faults>>

-------------------------------------------------------------------------------
(* commit().  A batch moves the checkpoint to n and files each of its      *)
(* lines under the hour of its timestamp.  A regressing offset is refused  *)
(* before anything happens and is no step.  Each hour's records fit one    *)
(* member (memberBytes).                                                   *)

Appended(entry, batch) ==
  IF entry = Nil
  THEN [fileId |-> tx + 1, members |-> <<batch>>, compacted |-> FALSE]
  ELSE [entry EXCEPT !.members = Append(@, batch)]

Commit(n, place) ==
  LET batch(h) == {l \in (mem.checkpoint.offset + 1)..n : place[l] = h}
      changed  == {h \in Hours : batch(h) # {}}
      now      == mem.catalog.hours
      after    == [h \in Hours |-> IF h \in changed THEN Appended(now[h], batch(h)) ELSE now[h]]
  IN /\ Idle
     /\ n >= mem.checkpoint.offset
     /\ tx < MaxTx
     /\ tx' = tx + 1
     /\ Publish([disk EXCEPT !.pending =
          [type |-> "write", prev |-> mem.checkpoint.tid, tid |-> tx + 1,
           beforeCheckpoint |-> mem.checkpoint,
           afterCheckpoint  |-> [tid |-> tx + 1, offset |-> n],
           beforeCatalog |-> mem.catalog,
           afterCatalog  |-> [tid |-> tx + 1, hours |-> after],
           changed |-> changed]])
     /\ pc' = "append"
     /\ todo' = changed
     /\ UNCHANGED <<mem, at, removed, recovering, comp, acked, noticed, faults>>

\* The first half of the new bytes: 'wx' for a new hour, which must not exist.
AppendPartial(h) ==
  /\ pc = "append" /\ ~unsynced
  /\ h \in todo
  /\ Before(h) = Nil => disk.data[h] = Nil
  /\ disk' = [disk EXCEPT !.data[h] =
       Append(IF Before(h) = Nil THEN <<>> ELSE Prefix(@, SizeBefore(h)), {})]
  /\ at' = h
  /\ pc' = "appendRest"
  /\ UNCHANGED <<safe, unsynced, mem, todo, removed, recovering, comp, tx,
                 acked, noticed, faults>>

\* The rest of the bytes, then sync() of the file and of its directory.
AppendRest ==
  /\ pc = "appendRest"
  /\ Publish([disk EXCEPT !.data[at] =
       Append(Prefix(@, SizeBefore(at)), After(at).members[Len(After(at).members)])])
  /\ pc' = "index"
  /\ UNCHANGED <<mem, todo, at, removed, recovering, comp, tx, acked, noticed, faults>>

PublishIndex ==
  /\ pc = "index"
  /\ Publish([disk EXCEPT !.index[at] = After(at).members])
  /\ todo' = todo \ {at}
  /\ at' = Nil
  /\ pc' = "append"
  /\ UNCHANGED <<mem, removed, recovering, comp, tx, acked, noticed, faults>>

PublishCatalog ==
  /\ pc = "append" /\ todo = {}
  /\ Publish([disk EXCEPT !.catalog = disk.pending.afterCatalog])
  /\ pc' = "checkpoint"
  /\ UNCHANGED <<mem, todo, at, removed, recovering, comp, tx, acked, noticed, faults>>

\* Faulty: the marker is published without the offsets of the batch.
PublishCheckpointStale ==
  /\ pc = "checkpoint"
  /\ Publish([disk EXCEPT !.checkpoint = [mem.checkpoint EXCEPT !.tid = disk.pending.tid]])
  /\ mem' = [catalog |-> disk.pending.afterCatalog, checkpoint |-> disk.pending.afterCheckpoint]
  /\ pc' = "finish"
  /\ UNCHANGED <<todo, at, removed, recovering, comp, tx, acked, noticed, faults>>

\* Faulty: the caller is answered before the marker is synced.
PublishCheckpointEarlyAck ==
  /\ pc = "checkpoint"
  /\ Publish([disk EXCEPT !.checkpoint = disk.pending.afterCheckpoint])
  /\ mem' = [catalog |-> disk.pending.afterCatalog, checkpoint |-> disk.pending.afterCheckpoint]
  /\ acked' = disk.pending.afterCheckpoint.offset
  /\ pc' = "finish"
  /\ UNCHANGED <<todo, at, removed, recovering, comp, tx, noticed, faults>>

\* The commit marker.  this.catalog and this.checkpoint follow it.
PublishCheckpoint ==
  /\ pc = "checkpoint"
  /\ Publish([disk EXCEPT !.checkpoint = disk.pending.afterCheckpoint])
  /\ mem' = [catalog |-> disk.pending.afterCatalog, checkpoint |-> disk.pending.afterCheckpoint]
  /\ pc' = "finish"
  /\ UNCHANGED <<todo, at, removed, recovering, comp, tx, acked, noticed, faults>>

FinishPending ==
  /\ pc = "finish"
  /\ Publish([disk EXCEPT !.pending = Nil])
  /\ pc' = "cleanup"
  /\ UNCHANGED <<mem, todo, at, removed, recovering, comp, tx, acked, noticed, faults>>

\* finishPending() drops the staging files last; commit() then returns the
\* checkpoint to its caller, and recover() returns to init().
Cleanup ==
  /\ pc = "cleanup" /\ ~unsynced
  /\ disk' = [disk EXCEPT !.backup = Nil]
  /\ pc' = IF recovering THEN "check" ELSE "idle"
  /\ acked' = IF recovering THEN acked ELSE mem.checkpoint.offset
  /\ UNCHANGED <<safe, unsynced, mem, todo, at, removed, recovering, comp, tx,
                 noticed, faults>>

-------------------------------------------------------------------------------
(* compact() and compactHour().  The worker chooses an hour and copies its *)
(* entry in one queue slot, recompresses the bytes while the queue serves  *)
(* commits and expiries, and publishes in another slot if the hour is      *)
(* still the file, of the size, it read.                                   *)

CompactSelect(h) ==
  /\ Idle
  /\ comp = Nil
  /\ mem.catalog.hours[h] # Nil
  /\ ~mem.catalog.hours[h].compacted
  /\ comp' = [hour |-> h, before |-> mem.catalog.hours[h], staged |-> Nil]
  /\ UNCHANGED <<disk, safe, unsynced, mem, pc, todo, at, removed, recovering,
                 tx, acked, noticed, faults>>

\* The selected byte range, read by path while the queue may be anywhere; a
\* missing or short file, or a count that differs, ends the compaction.
CompactRead ==
  LET before == comp.before.members
      bytes  == disk.data[comp.hour]
      read   == Prefix(bytes, Len(before))
      intact == /\ bytes # Nil
                /\ Len(bytes) >= Len(before)
                /\ \A i \in DOMAIN read : read[i] # {}
                /\ Cardinality(LinesIn(read)) = Cardinality(LinesIn(before))
  IN /\ comp # Nil /\ comp.staged = Nil
     /\ comp' = IF intact THEN [comp EXCEPT !.staged = <<LinesIn(read)>>] ELSE Nil
     /\ UNCHANGED <<disk, safe, unsynced, mem, pc, todo, at, removed, recovering,
                    tx, acked, noticed, faults>>

\* Faulty: the size of the file is not compared again.
UnchangedFile(before, current) ==
  /\ current # Nil
  /\ current.fileId = before.fileId

Unchanged(before, current) ==
  /\ current # Nil
  /\ current.fileId = before.fileId
  /\ Len(current.members) = Len(before.members)

\* Link the old inode as a backup, unless the hour moved on.
CompactLink ==
  /\ Idle
  /\ tx < MaxTx
  /\ comp # Nil /\ comp.staged # Nil
  /\ \/ /\ Unchanged(comp.before, mem.catalog.hours[comp.hour])
        /\ Publish([disk EXCEPT !.backup = disk.data[comp.hour]])
        /\ pc' = "compactPending"
        /\ UNCHANGED comp
     \/ /\ ~Unchanged(comp.before, mem.catalog.hours[comp.hour])
        /\ comp' = Nil
        /\ UNCHANGED <<disk, safe, unsynced, pc>>
  /\ UNCHANGED <<mem, todo, at, removed, recovering, tx, acked, noticed, faults>>

CompactPending ==
  LET after == [fileId |-> tx + 1, members |-> comp.staged, compacted |-> TRUE]
  IN /\ pc = "compactPending"
     /\ Publish([disk EXCEPT !.pending =
          [type |-> "compact", prev |-> mem.checkpoint.tid, tid |-> tx + 1,
           beforeCheckpoint |-> mem.checkpoint,
           afterCheckpoint  |-> [mem.checkpoint EXCEPT !.tid = tx + 1],
           beforeCatalog |-> mem.catalog,
           afterCatalog  |-> [tid |-> tx + 1,
                              hours |-> [mem.catalog.hours EXCEPT ![comp.hour] = after]],
           changed |-> {comp.hour}]])
     /\ tx' = tx + 1
     /\ comp' = Nil
     /\ todo' = {comp.hour}
     /\ at' = comp.hour
     /\ pc' = "compactReplace"
     /\ UNCHANGED <<mem, removed, recovering, acked, noticed, faults>>

\* Faulty: the old inode is dropped with the rename.
CompactReplaceDropsBackup ==
  /\ pc = "compactReplace"
  /\ Publish([disk EXCEPT !.data[at] = After(at).members, !.backup = Nil])
  /\ pc' = "index"
  /\ UNCHANGED <<mem, todo, at, removed, recovering, comp, tx, acked, noticed, faults>>

\* rename() the recompressed file over the old one; index, catalog and
\* checkpoint follow as for a commit.
CompactReplace ==
  /\ pc = "compactReplace"
  /\ Publish([disk EXCEPT !.data[at] = After(at).members])
  /\ pc' = "index"
  /\ UNCHANGED <<mem, todo, at, removed, recovering, comp, tx, acked, noticed, faults>>

-------------------------------------------------------------------------------
(* expire().  Which hours are past their retention is the clock's choice.  *)

Expire(S) ==
  LET after == [h \in Hours |-> IF h \in S THEN Nil ELSE mem.catalog.hours[h]]
  IN /\ Idle
     /\ S # {}
     /\ \A h \in S : mem.catalog.hours[h] # Nil
     /\ Publish([disk EXCEPT !.pending =
          [type |-> "delete", prev |-> mem.checkpoint.tid, tid |-> mem.checkpoint.tid,
           beforeCheckpoint |-> mem.checkpoint, afterCheckpoint |-> mem.checkpoint,
           beforeCatalog |-> mem.catalog,
           afterCatalog  |-> [mem.catalog EXCEPT !.hours = after],
           changed |-> S]])
     /\ pc' = "deleteCatalog"
     /\ UNCHANGED <<mem, todo, at, removed, recovering, comp, tx, acked, noticed, faults>>

DeleteCatalog ==
  /\ pc = "deleteCatalog"
  /\ Publish([disk EXCEPT !.catalog = disk.pending.afterCatalog])
  /\ mem' = [mem EXCEPT !.catalog = disk.pending.afterCatalog]
  /\ todo' = disk.pending.changed
  /\ pc' = "delete"
  /\ UNCHANGED <<at, removed, recovering, comp, tx, acked, noticed, faults>>

\* deleteFiles(): the data file, the index and the sync, the notice.
DeleteData(h) ==
  /\ pc = "delete" /\ ~unsynced
  /\ h \in todo
  /\ disk' = [disk EXCEPT !.data[h] = Nil]
  /\ removed' = (disk.data[h] # Nil)
  /\ at' = h
  /\ pc' = "deleteIndex"
  /\ UNCHANGED <<safe, unsynced, mem, todo, recovering, comp, tx, acked, noticed, faults>>

DeleteIndex ==
  /\ pc = "deleteIndex"
  /\ Publish([disk EXCEPT !.index[at] = Nil])
  /\ pc' = "notice"
  /\ UNCHANGED <<mem, todo, at, removed, recovering, comp, tx, acked, noticed, faults>>

\* Faulty: a file that was already gone when recovery came is not reported.
DeleteNoticeIfRemoved ==
  /\ pc = "notice" /\ ~unsynced
  /\ noticed' = IF removed THEN noticed \union LinesIn(Before(at).members) ELSE noticed
  /\ todo' = todo \ {at}
  /\ at' = Nil
  /\ pc' = "delete"
  /\ UNCHANGED <<disk, safe, unsynced, mem, removed, recovering, comp, tx, acked, faults>>

DeleteNotice ==
  /\ pc = "notice" /\ ~unsynced
  /\ noticed' = IF removed \/ recovering THEN noticed \union LinesIn(Before(at).members)
                                         ELSE noticed
  /\ todo' = todo \ {at}
  /\ at' = Nil
  /\ pc' = "delete"
  /\ UNCHANGED <<disk, safe, unsynced, mem, removed, recovering, comp, tx, acked, faults>>

DeleteDone ==
  /\ pc = "delete" /\ ~unsynced /\ todo = {}
  /\ pc' = "finish"
  /\ UNCHANGED <<disk, safe, unsynced, mem, todo, at, removed, recovering, comp,
                 tx, acked, noticed, faults>>

-------------------------------------------------------------------------------
(* init() and recover().  "broken" is ARCHIVE_RECOVERY_FAILED: main() tries *)
(* again for ever and nothing changes.                                     *)

\* Faulty: the state directory is read without being synced first.
OpenUnsynced ==
  /\ pc = "down"
  /\ mem' = [catalog |-> disk.catalog, checkpoint |-> disk.checkpoint]
  /\ recovering' = TRUE
  /\ pc' = "load"
  /\ UNCHANGED <<disk, safe, unsynced, todo, at, removed, comp, tx, acked, noticed, faults>>

\* The state directory is synced, then its files are read.
Open ==
  /\ pc = "down"
  /\ safe' = disk
  /\ mem' = [catalog |-> disk.catalog, checkpoint |-> disk.checkpoint]
  /\ recovering' = TRUE
  /\ pc' = "load"
  /\ UNCHANGED <<disk, unsynced, todo, at, removed, comp, tx, acked, noticed, faults>>

Pristine == /\ mem.catalog \in {Nil, EmptyCatalog}
            /\ mem.checkpoint = Nil
            /\ disk.pending = Nil

InitCatalog ==
  /\ pc = "load" /\ Pristine
  /\ \A h \in Hours : disk.data[h] = Nil
  /\ Publish([disk EXCEPT !.catalog = EmptyCatalog])
  /\ pc' = "initCheckpoint"
  /\ UNCHANGED <<mem, todo, at, removed, recovering, comp, tx, acked, noticed, faults>>

InitCheckpoint ==
  /\ pc = "initCheckpoint"
  /\ Publish([disk EXCEPT !.checkpoint = EmptyCheckpoint])
  /\ mem' = [catalog |-> EmptyCatalog, checkpoint |-> EmptyCheckpoint]
  /\ pc' = "check"
  /\ UNCHANGED <<todo, at, removed, recovering, comp, tx, acked, noticed, faults>>

\* A file and its index as the entry describes them, by size and line count.
Describes(entry, data, index) ==
  /\ data # Nil /\ index # Nil
  /\ Len(data) = Len(entry.members)
  /\ Len(index) = Len(entry.members)
  /\ Cardinality(LinesIn(index)) = Cardinality(LinesIn(entry.members))

\* The transaction reached its commit marker and everything it published is
\* whole: verifyMembers() decodes each new member.
Verified ==
  /\ mem.catalog = disk.pending.afterCatalog
  /\ mem.checkpoint = disk.pending.afterCheckpoint
  /\ \A h \in disk.pending.changed :
       /\ Describes(After(h), disk.data[h], disk.index[h])
       /\ disk.index[h] = After(h).members
       /\ \A i \in (IF disk.pending.type = "compact" THEN 0 ELSE SizeBefore(h)) + 1..Len(After(h).members) :
            disk.data[h][i] = After(h).members[i]

\* Faulty: a deletion is taken to have a transactionId of its own.
CanDeleteOwnTx == /\ disk.pending.type = "delete"
                  /\ mem.checkpoint.tid # disk.pending.tid

CanRollForward == /\ disk.pending.type # "delete"
                  /\ mem.checkpoint.tid = disk.pending.tid
                  /\ Verified
CanRollBack    == /\ disk.pending.type # "delete"
                  /\ mem.checkpoint.tid # disk.pending.tid
                  /\ mem.checkpoint.tid = disk.pending.prev
                  /\ mem.checkpoint = disk.pending.beforeCheckpoint
CanDelete      == /\ disk.pending.type = "delete"
                  /\ mem.checkpoint.tid = disk.pending.tid

Loaded == pc = "load" /\ mem.checkpoint # Nil

LoadClean == /\ Loaded /\ disk.pending = Nil
             /\ pc' = "check"
             /\ UNCHANGED todo
RecoverForward == /\ Loaded /\ disk.pending # Nil /\ CanRollForward
                  /\ pc' = "finish"
                  /\ UNCHANGED todo
RecoverBack == /\ Loaded /\ disk.pending # Nil /\ CanRollBack
               /\ pc' = "rollback"
               /\ todo' = disk.pending.changed
RecoverDelete == /\ Loaded /\ disk.pending # Nil /\ CanDelete
                 /\ pc' = "deleteCatalog"
                 /\ UNCHANGED todo
LoadFails == /\ pc = "load"
             /\ \/ mem.checkpoint = Nil /\ ~(Pristine /\ \A h \in Hours : disk.data[h] = Nil)
                \/ /\ mem.checkpoint # Nil /\ disk.pending # Nil
                   /\ ~CanRollForward /\ ~CanRollBack /\ ~CanDelete
             /\ pc' = "broken"
             /\ UNCHANGED todo

Load == /\ LoadClean \/ RecoverForward \/ RecoverBack \/ RecoverDelete \/ LoadFails
        /\ UNCHANGED <<disk, safe, unsynced, mem, at, removed, recovering, comp,
                       tx, acked, noticed, faults>>

\* Faulty: a file the transaction created is left in place.
RestoredKeepsNew(h) ==
  IF disk.pending.type = "compact" THEN disk.backup
  ELSE IF Before(h) = Nil THEN disk.data[h]
  ELSE Prefix(disk.data[h], SizeBefore(h))

\* One changed hour of a transaction to undo: the compacted file is replaced
\* by its backup, an appended one is cut back, a new one is removed.
Restored(h) ==
  IF disk.pending.type = "compact" THEN disk.backup
  ELSE IF Before(h) = Nil THEN Nil
  ELSE Prefix(disk.data[h], SizeBefore(h))

CanRestore(h) ==
  IF disk.pending.type = "compact" THEN disk.backup # Nil
  ELSE Before(h) # Nil => disk.data[h] # Nil /\ Len(disk.data[h]) >= SizeBefore(h)

RollbackData(h) ==
  /\ pc = "rollback" /\ ~unsynced
  /\ h \in todo
  /\ \/ /\ CanRestore(h)
        /\ Publish([disk EXCEPT !.data[h] = Restored(h)])
        /\ pc' = "rollbackIndex"
     \/ /\ ~CanRestore(h)
        /\ pc' = "broken"
        /\ UNCHANGED <<disk, safe, unsynced>>
  /\ at' = h
  /\ UNCHANGED <<mem, todo, removed, recovering, comp, tx, acked, noticed, faults>>

RollbackIndex ==
  /\ pc = "rollbackIndex"
  /\ Publish([disk EXCEPT !.index[at] = IF Before(at) = Nil THEN Nil ELSE Before(at).members])
  /\ todo' = todo \ {at}
  /\ at' = Nil
  /\ pc' = "rollback"
  /\ UNCHANGED <<mem, removed, recovering, comp, tx, acked, noticed, faults>>

RollbackCatalog ==
  /\ pc = "rollback" /\ todo = {}
  /\ Publish([disk EXCEPT !.catalog = disk.pending.beforeCatalog])
  /\ mem' = [mem EXCEPT !.catalog = disk.pending.beforeCatalog]
  /\ pc' = "finish"
  /\ UNCHANGED <<todo, at, removed, recovering, comp, tx, acked, noticed, faults>>

Coherent == /\ mem.catalog # Nil
            /\ mem.catalog.tid = mem.checkpoint.tid
            /\ \A h \in Hours : mem.catalog.hours[h] # Nil =>
                 Describes(mem.catalog.hours[h], disk.data[h], disk.index[h])

\* The last checks of init(), and the end of the staging files.
Check ==
  /\ pc = "check" /\ ~unsynced
  /\ \/ /\ Coherent
        /\ disk' = [disk EXCEPT !.backup = Nil]
        /\ recovering' = FALSE
        /\ acked' = mem.checkpoint.offset
        /\ pc' = "idle"
     \/ /\ ~Coherent
        /\ pc' = "broken"
        /\ UNCHANGED <<disk, recovering, acked>>
  /\ UNCHANGED <<safe, unsynced, mem, todo, at, removed, comp, tx, noticed, faults>>

-------------------------------------------------------------------------------
(* The process dies, or a file operation fails: failed is set, main()      *)
(* drains and closes everything, and opens the store again.                *)

Lost == /\ mem' = NoMem
        /\ pc' = "down"
        /\ todo' = {}
        /\ at' = Nil
        /\ removed' = FALSE
        /\ recovering' = FALSE
        /\ comp' = Nil
        /\ unsynced' = FALSE
        /\ faults' = faults + 1
        /\ UNCHANGED <<safe, tx, acked, noticed>>

Crash == /\ faults < MaxFaults
         /\ pc \notin {"down", "broken"}
         /\ Lost
         /\ UNCHANGED disk

PowerLoss == /\ faults < MaxFaults
             /\ pc # "broken"
             /\ Lost
             /\ disk' = safe

-------------------------------------------------------------------------------
NoFiles == [h \in Hours |-> Nil]

Init ==
  /\ disk = [catalog |-> Nil, checkpoint |-> Nil, pending |-> Nil,
             data |-> NoFiles, index |-> NoFiles, backup |-> Nil]
  /\ safe = disk
  /\ unsynced = FALSE
  /\ mem = NoMem
  /\ pc = "down"
  /\ todo = {}
  /\ at = Nil
  /\ removed = FALSE
  /\ recovering = FALSE
  /\ comp = Nil
  /\ tx = 0
  /\ acked = 0
  /\ noticed = {}
  /\ faults = 0

\* What the collector and the expiry and compaction timers ask of an open store.
Request ==
  \/ \E n \in 0..MaxOffset, place \in [Lines -> Hours] : Commit(n, place)
  \/ \E S \in SUBSET Hours : Expire(S)
  \/ \E h \in Hours : CompactSelect(h)

\* What the store goes on to do by itself.
WriteStep == \/ \E h \in Hours : AppendPartial(h)
             \/ AppendRest \/ PublishIndex \/ PublishCatalog \/ PublishCheckpoint
             \/ FinishPending \/ Cleanup
CompactStep == CompactRead \/ CompactLink \/ CompactPending \/ CompactReplace
DeleteStep == \/ DeleteCatalog
              \/ \E h \in Hours : DeleteData(h)
              \/ DeleteIndex \/ DeleteNotice \/ DeleteDone
OpenStep == \/ Open \/ InitCatalog \/ InitCheckpoint \/ Load
            \/ \E h \in Hours : RollbackData(h)
            \/ RollbackIndex \/ RollbackCatalog \/ Check

QueueStep == Sync \/ WriteStep \/ CompactPending \/ CompactReplace \/ DeleteStep \/ OpenStep

Fault == Crash \/ PowerLoss

Next == Request \/ Sync \/ WriteStep \/ CompactStep \/ DeleteStep \/ OpenStep \/ Fault

Spec == Init /\ [][Next]_vars

\* main() opens the store again after every failure, and an asynchronous file
\* operation that was started ends: only faults, which the bound makes finite,
\* stop the queue.
FairSpec == Spec /\ WF_vars(QueueStep)

-------------------------------------------------------------------------------
(* What a power loss at this moment would leave: the hours the next init() *)
(* settles on, and the bytes it keeps for each.                            *)

RollsBack(d) == /\ d.pending # Nil
                /\ d.pending.type # "delete"
                /\ d.checkpoint.tid # d.pending.tid

Settled(d) == IF d.catalog = Nil THEN EmptyCatalog
              ELSE IF d.pending = Nil THEN d.catalog
              ELSE IF RollsBack(d) THEN d.pending.beforeCatalog
              ELSE d.pending.afterCatalog

Kept(d, h) ==
  LET entry == Settled(d).hours[h]
      bytes == IF RollsBack(d) /\ d.pending.type = "compact" /\ h \in d.pending.changed
               THEN d.backup ELSE d.data[h]
  IN IF entry = Nil \/ bytes = Nil THEN <<>> ELSE Prefix(bytes, Len(entry.members))

Offset(d) == IF d.checkpoint = Nil THEN 0 ELSE d.checkpoint.offset

\* The lines of entries whose deletion is decided and not yet complete.
Doomed(d) == IF d.pending # Nil /\ d.pending.type = "delete"
             THEN UNION {LinesIn(d.pending.beforeCatalog.hours[h].members) : h \in d.pending.changed}
             ELSE {}

-------------------------------------------------------------------------------
Steps == {"down", "load", "initCheckpoint", "check", "broken", "idle",
          "append", "appendRest", "index", "checkpoint", "finish", "cleanup",
          "compactPending", "compactReplace",
          "deleteCatalog", "delete", "deleteIndex", "notice",
          "rollback", "rollbackIndex"}

\* Every variable has its type, and an idle store has no loop, no recovery
\* and no unsynced step left over from the operation before (run, init).
TypeOK ==
  /\ disk \in Disk /\ safe \in Disk
  /\ unsynced \in BOOLEAN
  /\ mem \in [catalog: Catalog \union {Nil}, checkpoint: Checkpoint \union {Nil}]
  /\ pc \in Steps
  /\ todo \in SUBSET Hours
  /\ at \in Hours \union {Nil}
  /\ removed \in BOOLEAN
  /\ recovering \in BOOLEAN
  /\ comp \in [hour: Hours, before: Entry, staged: Content \union {Nil}] \union {Nil}
  /\ tx \in Nat
  /\ acked \in 0..MaxOffset
  /\ noticed \in SUBSET Lines
  /\ faults \in Nat
  /\ pc = "idle" => ~recovering /\ ~unsynced /\ todo = {}

\* No crash, however often and wherever it strikes, leaves files that init()
\* and recover() refuse: ARCHIVE_RECOVERY_FAILED is for corruption only.
RecoveryNeverFails == pc # "broken"

\* Whenever an operation may begin, the catalog and the checkpoint in memory
\* are those on disk, they name one transaction, every entry has exactly its
\* bytes and its index, and no file is left without an entry (snapshot, stage).
SettledFiles ==
  pc = "idle" =>
    /\ mem = [catalog |-> disk.catalog, checkpoint |-> disk.checkpoint]
    /\ disk.pending = Nil
    /\ disk.catalog.tid = disk.checkpoint.tid
    /\ \A h \in Hours : LET entry == disk.catalog.hours[h]
                             held  == IF entry = Nil THEN Nil ELSE entry.members
                         IN disk.data[h] = held /\ disk.index[h] = held

\* A line the durable checkpoint covers is in the archive, or was named by a
\* deletion notice, or belongs to a deletion the next init() completes:
\* neither compaction nor recovery drops one in silence.
NoSilentLoss ==
  \A l \in 1..Offset(safe) :
     \/ \E h \in Hours : l \in LinesIn(Kept(safe, h))
     \/ l \in noticed \union Doomed(safe)

\* No line is kept twice, and none beyond the durable checkpoint is kept:
\* the collector reads on from there and would import it again.
NoLineTwice ==
  /\ \A h \in Hours : LinesIn(Kept(safe, h)) \subseteq 1..Offset(safe)
  /\ \A h, g \in Hours : \A i \in DOMAIN Kept(safe, h), j \in DOMAIN Kept(safe, g) :
       Kept(safe, h)[i] \intersect Kept(safe, g)[j] # {} => h = g /\ i = j

\* An offset the store has reported survives every later crash and power loss.
AckedSurvives == acked <= Offset(safe)

\* The store implements the abstract log: a commit and an expiry take effect in
\* one step, when their marker becomes durable, and nothing else has an effect.
Log == INSTANCE ArchiveLog WITH
         offset <- Offset(safe),
         live   <- [h \in Hours |-> LinesIn(Kept(safe, h))]
RefinesLog == Log!Spec

\* A store that went down is open for requests again, once faults end.
ServiceReturns == pc = "down" ~> pc = "idle"

\* A durable decision to delete is carried through to the notice of every line.
DeletionCompletes ==
  \A l \in Lines : l \in Doomed(safe) ~> l \in noticed
===============================================================================
