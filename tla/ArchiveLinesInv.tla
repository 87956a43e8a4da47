---------------------------- MODULE ArchiveLinesInv ----------------------------
(***************************************************************************)
(* What happens to the lines of the archive: the invariant behind          *)
(* NoSilentLoss, NoLineTwice and RefinesLog of ArchiveStore.  It is        *)
(* checked by TLC with the properties and proved in ArchiveLinesProofs.    *)
(***************************************************************************)
EXTENDS ArchiveStoreInv

Members(entry) == IF entry = Nil THEN <<>> ELSE entry.members
LinesOf(entry) == LinesIn(Members(entry))

\* The lines of a catalog are those up to the offset at most, each in one
\* member; its files were named by transactions so far.
CatalogOK(c, offset, last) ==
  /\ \A h \in Hours : c.hours[h] # Nil => c.hours[h].fileId <= last
  /\ \A h \in Hours : LinesOf(c.hours[h]) \subseteq 1..offset
  /\ \A h, g \in Hours : \A i \in DOMAIN Members(c.hours[h]), j \in DOMAIN Members(c.hours[g]) :
       Members(c.hours[h])[i] \intersect Members(c.hours[g])[j] # {} => h = g /\ i = j

\* No line up to the offset is missing, but for those known to be deleted.
Covers(c, offset, known) == \A l \in 1..offset : l \in known \/ \E h \in Hours : l \in LinesOf(c.hours[h])

\* A commit adds at most one member to an hour, and gives a new file its own number.
Grown(before, after, batch, tid) ==
  \/ batch = {} /\ after = before
  \/ /\ after # Nil
     /\ after.members = Append(Members(before), batch)
     /\ after.fileId = IF before = Nil THEN tid ELSE before.fileId

Batch(from, to, place, h) == {l \in (from + 1)..to : place[l] = h}

\* What a transaction does to the lines.
PendingLog(p) ==
  /\ p.type = "write" => \E place \in [Lines -> Hours] : \A h \in Hours :
       Grown(p.beforeCatalog.hours[h], p.afterCatalog.hours[h],
             Batch(p.beforeCheckpoint.offset, p.afterCheckpoint.offset, place, h), p.tid)
  /\ p.type = "compact" =>
       /\ p.afterCheckpoint.offset = p.beforeCheckpoint.offset
       /\ \A h \in Hours : LinesOf(p.afterCatalog.hours[h]) = LinesOf(p.beforeCatalog.hours[h])

FilesLog(d, last, known) ==
  d.checkpoint # Nil =>
    /\ d.pending = Nil => /\ CatalogOK(d.catalog, d.checkpoint.offset, last)
                          /\ Covers(d.catalog, d.checkpoint.offset, known)
    /\ d.pending # Nil => LET p == d.pending IN
         /\ CatalogOK(p.beforeCatalog, p.beforeCheckpoint.offset, last)
         /\ CatalogOK(p.afterCatalog, p.afterCheckpoint.offset, last)
         /\ Covers(p.beforeCatalog, p.beforeCheckpoint.offset, known)
         /\ p.type # "delete" => Covers(p.afterCatalog, p.afterCheckpoint.offset, known)
         /\ PendingLog(p)

\* A deletion outside of recovery meets every file it is to remove; what it
\* has passed was reported.
DeleteLog ==
  /\ pc = "load" => recovering
  /\ pc = "deleteCatalog" /\ ~recovering => \A h \in disk.pending.changed : disk.data[h] = Held(Before(h))
  /\ pc \in {"delete", "deleteIndex", "notice"} =>
       /\ ~recovering => \A h \in todo \ {at} : disk.data[h] = Held(Before(h))
       /\ \A h \in disk.pending.changed \ todo : LinesOf(Before(h)) \subseteq noticed
  /\ pc \in {"deleteIndex", "notice"} => removed \/ recovering
  /\ pc = "finish" /\ disk.pending.type = "delete" =>
       /\ disk.catalog = disk.pending.afterCatalog
       /\ \A h \in disk.pending.changed : LinesOf(Before(h)) \subseteq noticed

\* Memory is at the state before the transaction.
MemLog ==
  /\ pc \in {"append", "appendRest", "index", "checkpoint", "compactReplace"} => mem.catalog = disk.pending.beforeCatalog
  /\ pc = "deleteCatalog" /\ ~recovering => mem.catalog = disk.pending.beforeCatalog

\* The hour a compaction chose, if it is still the same file, begins with the
\* members that were chosen, and what was staged has their lines.
SameFile(entry) == entry # Nil /\ entry.fileId = comp.before.fileId
CompLog ==
  comp # Nil =>
    /\ ~recovering
    /\ pc \in {"idle", "append", "appendRest", "index", "checkpoint", "finish", "cleanup", "compactPending",
               "deleteCatalog", "delete", "deleteIndex", "notice"}
    /\ comp.before.fileId <= tx
    /\ disk.pending # Nil => /\ disk.pending.type # "compact"
                             /\ disk.pending.type = "write" => comp.before.fileId < disk.pending.tid
    /\ SameFile(mem.catalog.hours[comp.hour]) =>
         /\ Len(comp.before.members) <= Len(mem.catalog.hours[comp.hour].members)
         /\ Prefix(mem.catalog.hours[comp.hour].members, Len(comp.before.members)) = comp.before.members
         /\ comp.staged # Nil => comp.staged = <<LinesIn(comp.before.members)>>
    /\ pc = "compactPending" => Unchanged(comp.before, mem.catalog.hours[comp.hour])

\* The log as the files show it.
View(d) == [offset |-> Offset(d), live |-> [h \in Hours |-> LinesOf(Settled(d).hours[h])]]

LogStep(v, w) ==
  \/ v = w
  \/ /\ v.offset <= w.offset
     /\ \E place \in [Lines -> Hours] : w.live = [h \in Hours |-> v.live[h] \union Batch(v.offset, w.offset, place, h)]
  \/ /\ v.offset = w.offset
     /\ \E S \in SUBSET Hours : w.live = [h \in Hours |-> IF h \in S THEN {} ELSE v.live[h]]

\* What is durable is at most one step of the log behind.
ViewsOK == /\ LogStep(View(safe), View(disk))
           /\ pc # "down" /\ ~unsynced => View(safe) = View(disk)

\* Every line up to the checkpoint is accounted for by the files, visible and
\* durable, through every transaction and its undoing (commit, compactHour,
\* expire, recover).
LogInv == FilesLog(disk, tx, noticed) /\ FilesLog(safe, tx, noticed) /\ DeleteLog /\ MemLog /\ CompLog /\ ViewsOK
===============================================================================
