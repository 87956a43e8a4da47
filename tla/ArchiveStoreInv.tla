--------------------------- MODULE ArchiveStoreInv ---------------------------
(***************************************************************************)
(* The inductive invariant behind the safety properties of ArchiveStore:   *)
(* what every crash may find on disk (FilesOK), and what the running step  *)
(* knows about it (StepOK).  It is checked by TLC with the properties and  *)
(* proved for every instance in ArchiveStoreProofs.                        *)
(***************************************************************************)
EXTENDS ArchiveStore

Held(entry) == IF entry = Nil THEN Nil ELSE entry.members

\* The files of an hour are exactly those of the entry.
Intact(d, h, entry) == d.data[h] = Held(entry) /\ d.index[h] = Held(entry)

\* A transaction that adds one member to each hour it changes, recompresses
\* one hour, or removes hours.
WriteShape(before, after) ==
  /\ after # Nil
  /\ \E m \in Member : after.members = Append(IF before = Nil THEN <<>> ELSE before.members, m)

PendingOK(p) ==
  /\ p.prev = p.beforeCheckpoint.tid
  /\ p.beforeCatalog.tid = p.beforeCheckpoint.tid
  /\ p.tid = p.afterCheckpoint.tid
  /\ p.afterCatalog.tid = p.afterCheckpoint.tid
  /\ p.beforeCheckpoint.offset <= p.afterCheckpoint.offset
  /\ \A h \in Hours \ p.changed : p.afterCatalog.hours[h] = p.beforeCatalog.hours[h]
  /\ p.type = "delete" =>
       /\ p.afterCheckpoint = p.beforeCheckpoint
       /\ \A h \in p.changed : /\ p.beforeCatalog.hours[h] # Nil
                               /\ p.afterCatalog.hours[h] = Nil
  /\ p.type # "delete" => p.tid # p.prev
  /\ p.type = "write" =>
       \A h \in p.changed : WriteShape(p.beforeCatalog.hours[h], p.afterCatalog.hours[h])
  /\ p.type = "compact" =>
       \A h \in p.changed : /\ p.beforeCatalog.hours[h] # Nil
                            /\ p.afterCatalog.hours[h] # Nil

\* Rollback finds what it needs for a changed hour.
Undoable(d, h) ==
  LET before == d.pending.beforeCatalog.hours[h]
  IN IF d.pending.type = "compact" THEN d.backup = before.members
     ELSE before # Nil => /\ d.data[h] # Nil
                          /\ Len(d.data[h]) >= Len(before.members)
                          /\ Prefix(d.data[h], Len(before.members)) = before.members

NeverOpened(d) == /\ d.pending = Nil
                  /\ d.catalog \in {Nil, EmptyCatalog}
                  /\ \A h \in Hours : d.data[h] = Nil /\ d.index[h] = Nil

NothingPending(d) == /\ d.catalog.tid = d.checkpoint.tid
                     /\ \A h \in Hours : Intact(d, h, d.catalog.hours[h])

DeletePending(d) == /\ d.checkpoint = d.pending.beforeCheckpoint
                    /\ d.catalog \in {d.pending.beforeCatalog, d.pending.afterCatalog}
                    /\ \A h \in Hours \ d.pending.changed :
                         Intact(d, h, d.pending.beforeCatalog.hours[h])

Committed(d) == /\ d.checkpoint = d.pending.afterCheckpoint
                /\ d.catalog = d.pending.afterCatalog
                /\ \A h \in Hours : Intact(d, h, d.pending.afterCatalog.hours[h])

Uncommitted(d) == /\ d.checkpoint = d.pending.beforeCheckpoint
                  /\ d.catalog \in {d.pending.beforeCatalog, d.pending.afterCatalog}
                  /\ \A h \in Hours \ d.pending.changed :
                       Intact(d, h, d.pending.beforeCatalog.hours[h])
                  /\ \A h \in d.pending.changed : Undoable(d, h)

\* What the files may be at any moment, whatever the process is doing.
FilesOK(d) ==
  /\ d.checkpoint = Nil => NeverOpened(d)
  /\ d.checkpoint # Nil => d.catalog # Nil /\ d.checkpoint.tid <= tx
  /\ d.checkpoint # Nil /\ d.pending = Nil => NothingPending(d)
  /\ d.checkpoint # Nil /\ d.pending # Nil =>
       /\ PendingOK(d.pending)
       /\ d.pending.tid <= tx
       /\ d.pending.type = "delete" => DeletePending(d)
       /\ d.pending.type # "delete" => Committed(d) \/ Uncommitted(d)

\* Memory holds what is on disk.
Current == /\ mem = [catalog |-> disk.catalog, checkpoint |-> disk.checkpoint]
           /\ disk.checkpoint # Nil

Quiet == Current /\ disk.pending = Nil

Publishing == /\ disk.checkpoint # Nil
              /\ disk.pending # Nil
              /\ disk.pending.type # "delete"
              /\ disk.checkpoint = disk.pending.beforeCheckpoint
              /\ todo \subseteq disk.pending.changed
              /\ \A h \in disk.pending.changed \ todo : Intact(disk, h, After(h))
              /\ \A h \in todo \ {at} : Intact(disk, h, Before(h))

Deleting == /\ Current
            /\ disk.pending # Nil
            /\ disk.pending.type = "delete"
            /\ disk.catalog = disk.pending.afterCatalog
            /\ todo \subseteq disk.pending.changed
            /\ \A h \in disk.pending.changed \ todo : Intact(disk, h, Nil)

Undoing == /\ disk.checkpoint # Nil
           /\ disk.pending # Nil
           /\ disk.pending.type # "delete"
           /\ disk.checkpoint = disk.pending.beforeCheckpoint
           /\ mem.checkpoint = disk.checkpoint
           /\ todo \subseteq disk.pending.changed
           /\ \A h \in disk.pending.changed \ todo : Intact(disk, h, Before(h))

\* What holds at each step of the queue.
StepOK ==
  /\ pc # "broken"
  /\ pc = "down" => ~unsynced
  /\ pc = "load" => /\ mem = [catalog |-> disk.catalog, checkpoint |-> disk.checkpoint]
                    /\ ~unsynced
  /\ pc = "initCheckpoint" => disk.checkpoint = Nil /\ disk.catalog = EmptyCatalog
  /\ pc \in {"check", "idle", "cleanup"} => Quiet
  /\ pc \in {"idle", "compactPending"} => todo = {} /\ ~recovering
  /\ pc = "idle" => ~unsynced
  /\ pc \in {"append", "appendRest", "index", "checkpoint", "compactReplace"} => Publishing
  /\ pc = "append" => at = Nil /\ (disk.pending.type = "write" \/ todo = {})
  /\ pc = "appendRest" => at \in todo /\ disk.pending.type = "write" /\ ~unsynced
                       /\ disk.data[at] # Nil
  /\ pc = "index" => /\ at \in todo /\ disk.data[at] = Held(After(at))
                     /\ disk.pending.type = "write" \/ todo = {at}
  /\ pc = "checkpoint" => todo = {} /\ disk.catalog = disk.pending.afterCatalog
  /\ pc = "compactReplace" => todo = {at} /\ at \in Hours /\ disk.pending.type = "compact"
  /\ pc = "compactPending" =>
       /\ Quiet
       /\ comp # Nil /\ comp.staged # Nil
       /\ disk.catalog.hours[comp.hour] # Nil
       /\ disk.backup = disk.catalog.hours[comp.hour].members
  /\ pc = "deleteCatalog" => /\ disk.checkpoint # Nil /\ disk.pending # Nil
                             /\ disk.pending.type = "delete"
                             /\ mem.checkpoint = disk.checkpoint
  /\ pc \in {"delete", "deleteIndex", "notice"} => Deleting
  /\ pc = "deleteIndex" => at \in todo /\ disk.data[at] = Nil /\ ~unsynced
  /\ pc = "notice" => at \in todo /\ Intact(disk, at, Nil)
  /\ pc \in {"rollback", "rollbackIndex"} => Undoing
  /\ pc = "rollbackIndex" => at \in todo /\ disk.data[at] = Held(Before(at))
  /\ pc = "finish" => /\ Current
                      /\ disk.pending # Nil
                      /\ NothingPending(disk)
                      /\ todo = {}
  /\ at # Nil => pc \in {"appendRest", "index", "compactReplace", "deleteIndex", "notice",
                         "rollbackIndex"}
  /\ todo # {} => pc \in {"append", "appendRest", "index", "compactReplace", "delete",
                          "deleteIndex", "notice", "rollback", "rollbackIndex"}

\* The durable offset never runs ahead of the visible one, and is behind it
\* only while a step awaits its sync.
OffsetsOK ==
  /\ acked <= Offset(safe)
  /\ Offset(safe) <= Offset(disk)
  /\ pc # "down" /\ ~unsynced => Offset(safe) = Offset(disk)

\* FilesOK of the files as seen and as durable, and the rest above, is kept by
\* every step: the reason no crash leaves files that init() and recover() refuse.
IInv == TypeOK /\ FilesOK(disk) /\ FilesOK(safe) /\ StepOK /\ OffsetsOK
===============================================================================
