-------------------------- MODULE ArchiveStoreProofs --------------------------
(***************************************************************************)
(* IInv is an invariant of ArchiveStore for every set of hours and every   *)
(* value of the bounds, and with it the safety properties it implies; and  *)
(* on it, what happens to the lines of the archive: NoSilentLoss,          *)
(* NoLineTwice and RefinesLog.                                             *)
(***************************************************************************)
EXTENDS ArchiveLinesInv, SequenceTheorems, TLAPS

-------------------------------------------------------------------------------
(* Contents and their prefixes.                                            *)

\* A prefix of a file's members is again a file's members.
LEMMA PrefixType ==
  ASSUME NEW c \in Content, NEW n \in Nat
  PROVE  Prefix(c, n) \in Content
<1>1. CASE n <= Len(c)
  <2>1. \A i \in 1..n : c[i] \in Member
    BY <1>1, ElementOfSeq, LenProperties DEF Content
  <2>2. SubSeq(c, 1, n) \in Seq(Member)
    BY <2>1, SubSeqProperties
  <2>. QED  BY <1>1, <2>2 DEF Prefix, Content
<1>2. CASE ~(n <= Len(c))
  BY <1>2 DEF Prefix
<1>. QED  BY <1>1, <1>2

\* Cutting a file at its own size leaves it as it is (truncate in recover).
LEMMA PrefixFull ==
  ASSUME NEW c \in Content
  PROVE  Prefix(c, Len(c)) = c
<1>1. Len(c) \in Nat
  BY LenProperties DEF Content
<1>. QED  BY <1>1, SubSeqFull DEF Prefix, Content

\* One more member leaves the bytes before it as they were.
LEMMA AppendPrefix ==
  ASSUME NEW c \in Content, NEW m \in Member
  PROVE  /\ Append(c, m) \in Content
         /\ Len(Append(c, m)) = Len(c) + 1
         /\ Append(c, m)[Len(c) + 1] = m
         /\ Prefix(Append(c, m), Len(c)) = c
<1>. DEFINE a == Append(c, m)
<1>1. /\ a \in Seq(Member)
      /\ Len(a) = Len(c) + 1
      /\ \A i \in 1..Len(c) : a[i] = c[i]
      /\ a[Len(c) + 1] = m
  BY AppendProperties DEF Content
<1>2. c \in Seq(Member) /\ Len(c) \in Nat
  BY LenProperties DEF Content
<1>3. \A i \in 1..Len(c) : a[i] \in Member
  BY <1>1, <1>2, ElementOfSeq
<1>4. /\ SubSeq(a, 1, Len(c)) \in Seq(Member)
      /\ Len(SubSeq(a, 1, Len(c))) = Len(c)
      /\ \A i \in 1..Len(c) : SubSeq(a, 1, Len(c))[i] = a[i]
  BY <1>2, <1>3, SubSeqProperties
<1>5. SubSeq(a, 1, Len(c)) = c
  BY <1>1, <1>2, <1>4, SeqEqual
<1>6. Len(c) <= Len(a)
  BY <1>1, <1>2
<1>7. Prefix(a, Len(c)) = c
  <2>. HIDE DEF a
  <2>. QED  BY <1>5, <1>6 DEF Prefix
<1>. QED  BY <1>1, <1>7 DEF Content

\* A new file starts with no member.
LEMMA EmptyContent == <<>> \in Content
  BY EmptySeq DEF Content

\* The first member of a new file.
LEMMA SingleContent ==
  ASSUME NEW m \in Member
  PROVE  /\ Append(<<>>, m) = <<m>>
         /\ <<m>> \in Content
         /\ Len(<<m>>) = 1
  BY DEF Content

\* A file has a size.
LEMMA ContentSize ==
  ASSUME NEW c \in Content
  PROVE  Len(c) \in Nat
  BY LenProperties DEF Content

-------------------------------------------------------------------------------
(* The files after a step that changes one of them.                        *)

\* A step that replaces one data file changes nothing else.
LEMMA DataSet ==
  ASSUME NEW d \in Disk, NEW h \in Hours, NEW v \in Content \union {Nil}
  PROVE  LET e == [d EXCEPT !.data[h] = v] IN
         /\ e \in Disk
         /\ e.data[h] = v
         /\ \A g \in Hours : g # h => e.data[g] = d.data[g]
         /\ e.index = d.index
         /\ e.catalog = d.catalog /\ e.checkpoint = d.checkpoint
         /\ e.pending = d.pending /\ e.backup = d.backup
  BY DEF Disk

\* A step that replaces one index file changes nothing else.
LEMMA IndexSet ==
  ASSUME NEW d \in Disk, NEW h \in Hours, NEW v \in Content \union {Nil}
  PROVE  LET e == [d EXCEPT !.index[h] = v] IN
         /\ e \in Disk
         /\ e.index[h] = v
         /\ \A g \in Hours : g # h => e.index[g] = d.index[g]
         /\ e.data = d.data
         /\ e.catalog = d.catalog /\ e.checkpoint = d.checkpoint
         /\ e.pending = d.pending /\ e.backup = d.backup
  BY DEF Disk

\* A step that replaces a file of state/ or the backup changes nothing else.
LEMMA StateSet ==
  ASSUME NEW d \in Disk
  PROVE  /\ \A v \in Catalog : LET e == [d EXCEPT !.catalog = v] IN
              /\ e \in Disk /\ e.catalog = v /\ e.checkpoint = d.checkpoint
              /\ e.pending = d.pending /\ e.backup = d.backup
              /\ e.data = d.data /\ e.index = d.index
         /\ \A v \in Checkpoint : LET e == [d EXCEPT !.checkpoint = v] IN
              /\ e \in Disk /\ e.checkpoint = v /\ e.catalog = d.catalog
              /\ e.pending = d.pending /\ e.backup = d.backup
              /\ e.data = d.data /\ e.index = d.index
         /\ \A v \in Pending \union {Nil} : LET e == [d EXCEPT !.pending = v] IN
              /\ e \in Disk /\ e.pending = v /\ e.catalog = d.catalog
              /\ e.checkpoint = d.checkpoint /\ e.backup = d.backup
              /\ e.data = d.data /\ e.index = d.index
         /\ \A v \in Content \union {Nil} : LET e == [d EXCEPT !.backup = v] IN
              /\ e \in Disk /\ e.backup = v /\ e.catalog = d.catalog
              /\ e.checkpoint = d.checkpoint /\ e.pending = d.pending
              /\ e.data = d.data /\ e.index = d.index
  BY DEF Disk

\* The types of what a well-typed disk holds.
LEMMA DiskTypes ==
  ASSUME NEW d \in Disk
  PROVE  /\ d.catalog \in Catalog \union {Nil}
         /\ d.checkpoint \in Checkpoint \union {Nil}
         /\ d.pending \in Pending \union {Nil}
         /\ \A h \in Hours : /\ d.data[h] \in Content \union {Nil}
                             /\ d.index[h] \in Content \union {Nil}
         /\ d.backup \in Content \union {Nil}
  BY DEF Disk

\* The types of the fields of pending.json.
LEMMA PendingTypes ==
  ASSUME NEW p \in Pending
  PROVE  /\ p.type \in {"write", "compact", "delete"}
         /\ p.prev \in Nat /\ p.tid \in Nat
         /\ p.beforeCheckpoint \in Checkpoint /\ p.afterCheckpoint \in Checkpoint
         /\ p.beforeCatalog \in Catalog /\ p.afterCatalog \in Catalog
         /\ p.changed \in SUBSET Hours
  BY DEF Pending

\* The types of what a catalog holds.
LEMMA CatalogTypes ==
  ASSUME NEW c \in Catalog
  PROVE  /\ c.tid \in Nat
         /\ \A h \in Hours : c.hours[h] \in Entry \union {Nil}
  BY DEF Catalog

\* The types of what a checkpoint holds.
LEMMA CheckpointTypes ==
  ASSUME NEW c \in Checkpoint
  PROVE  c.tid \in Nat /\ c.offset \in 0..MaxOffset /\ c.offset \in Nat
  BY BoundsAssumption DEF Checkpoint

\* The offset of a disk, 0 before the first checkpoint.
LEMMA OffsetType ==
  ASSUME NEW d \in Disk
  PROVE  Offset(d) \in 0..MaxOffset /\ Offset(d) \in Nat
  BY DiskTypes, CheckpointTypes, BoundsAssumption DEF Offset

\* The files an entry stands for.
LEMMA HeldTypes ==
  ASSUME NEW e \in Entry \union {Nil}
  PROVE  /\ Held(e) \in Content \union {Nil}
         /\ e # Nil => e.members \in Content /\ Held(e) = e.members /\ Held(e) # Nil
         /\ e = Nil => Held(e) = Nil
  BY NilAssumption DEF Held, Entry

-------------------------------------------------------------------------------
(* Steps that change no file, or only which of them are durable.           *)

\* FilesOK does not look at the process: it is kept with the files.
LEMMA FilesKept ==
  ASSUME TypeOK, tx' \in Nat, tx <= tx',
         NEW d \in Disk, NEW dd, FilesOK(d), dd = d
  PROVE  /\ dd.checkpoint = Nil => NeverOpened(dd)
         /\ dd.checkpoint # Nil => dd.catalog # Nil /\ dd.checkpoint.tid <= tx'
         /\ dd.checkpoint # Nil /\ dd.pending = Nil => NothingPending(dd)
         /\ dd.checkpoint # Nil /\ dd.pending # Nil =>
              /\ PendingOK(dd.pending)
              /\ dd.pending.tid <= tx'
              /\ dd.pending.type = "delete" => DeletePending(dd)
              /\ dd.pending.type # "delete" => Committed(dd) \/ Uncommitted(dd)
<1>1. d.checkpoint # Nil => d.checkpoint.tid \in Nat
  BY DiskTypes, CheckpointTypes
<1>2. d.pending # Nil => d.pending.tid \in Nat
  BY DiskTypes, PendingTypes
<1>. QED  BY <1>1, <1>2 DEF FilesOK, TypeOK

\* FilesOK of the durable files survives a step that makes nothing durable.
LEMMA SafeKept ==
  ASSUME IInv, safe' = safe, tx' \in Nat, tx <= tx'
  PROVE  FilesOK(safe)'
<1>. QED  BY FilesKept DEF IInv, FilesOK, TypeOK

\* FilesOK of the visible files survives a step that touches none.
LEMMA DiskKept ==
  ASSUME IInv, disk' = disk, tx' \in Nat, tx <= tx'
  PROVE  FilesOK(disk)'
<1>. QED  BY FilesKept DEF IInv, FilesOK, TypeOK

\* What the running step knows of the files stays true while neither changes.
LEMMA StepKept ==
  ASSUME IInv, UNCHANGED <<disk, mem, pc, todo, at, recovering>>,
         unsynced' \in {unsynced, FALSE},
         comp' = comp \/ pc # "compactPending"
  PROVE  StepOK'
<1>1. /\ Quiet' <=> Quiet
      /\ Current' <=> Current
      /\ Publishing' <=> Publishing
      /\ Deleting' <=> Deleting
      /\ Undoing' <=> Undoing
      /\ NothingPending(disk)' <=> NothingPending(disk)
      /\ Held(After(at))' = Held(After(at))
      /\ Held(Before(at))' = Held(Before(at))
      /\ Intact(disk, at, Nil)' <=> Intact(disk, at, Nil)
  BY DEF Quiet, Current, Publishing, Deleting, Undoing, Intact, Held, Before, After,
         NothingPending
<1>2. /\ disk' = disk /\ mem' = mem /\ pc' = pc /\ todo' = todo /\ at' = at
      /\ recovering' = recovering
      /\ pc = "compactPending" => comp' = comp
  OBVIOUS
<1>3. ~unsynced => ~unsynced'
  OBVIOUS
<1>4. StepOK
  BY DEF IInv
<1>. QED  BY <1>1, <1>2, <1>3, <1>4 DEF StepOK

\* A directory that was never opened satisfies the invariant.
LEMMA InitInv == Init => IInv
<1>. SUFFICES ASSUME Init PROVE IInv
  OBVIOUS
<1>1. disk \in Disk
  BY DEF Init, Disk, NoFiles
<1>2. mem \in [catalog: Catalog \union {Nil}, checkpoint: Checkpoint \union {Nil}]
  BY DEF Init, NoMem
<1>3. acked \in 0..MaxOffset /\ tx \in Nat /\ faults \in Nat
  BY BoundsAssumption DEF Init
<1>4. TypeOK
  BY <1>1, <1>2, <1>3 DEF Init, TypeOK, Steps
<1>5. FilesOK(disk)
  BY DEF Init, FilesOK, NeverOpened, NoFiles
<1>6. StepOK
  BY DEF Init, StepOK
<1>7. OffsetsOK
  BY DEF Init, OffsetsOK, Offset
<1>. QED  BY <1>4, <1>5, <1>6, <1>7 DEF IInv, Init

\* syncDir() and sync() keep the invariant.
LEMMA SyncInv == IInv /\ Sync => IInv'
<1>. SUFFICES ASSUME IInv, Sync PROVE IInv'
  OBVIOUS
<1>. USE DEF Sync
<1>1. TypeOK'
  BY DEF IInv, TypeOK
<1>2. FilesOK(disk)' /\ FilesOK(safe)'
  BY DiskKept DEF IInv, TypeOK
<1>3. StepOK'
  BY StepKept
<1>4. OffsetsOK'
  BY OffsetType DEF IInv, OffsetsOK, Offset, TypeOK
<1>. QED  BY <1>1, <1>2, <1>3, <1>4 DEF IInv

\* A crash or a power loss, wherever it strikes, keeps the invariant.
LEMMA CrashInv == IInv /\ (Crash \/ PowerLoss) => IInv'
<1>. SUFFICES ASSUME IInv, Crash \/ PowerLoss PROVE IInv'
  OBVIOUS
<1>. USE DEF Crash, PowerLoss, Lost
<1>1. /\ disk' \in Disk /\ safe' = safe
      /\ disk' = disk \/ disk' = safe
      /\ tx' = tx /\ tx \in Nat
  BY DEF IInv, TypeOK
<1>2. TypeOK'
  <2>1. mem' \in [catalog: Catalog \union {Nil}, checkpoint: Checkpoint \union {Nil}]
    BY DEF NoMem
  <2>2. faults' \in Nat
    BY DEF IInv, TypeOK
  <2>. QED  BY <1>1, <2>1, <2>2 DEF IInv, TypeOK, Steps
<1>3. FilesOK(safe)'
  BY <1>1, SafeKept
<1>4. FilesOK(disk)'
  BY <1>1, FilesKept DEF IInv, FilesOK, TypeOK
<1>5. StepOK'
  BY DEF StepOK
<1>6. OffsetsOK'
  BY <1>1, OffsetType DEF IInv, OffsetsOK, Offset, TypeOK
<1>. QED  BY <1>2, <1>3, <1>4, <1>5, <1>6 DEF IInv

\* init() up to the reads of state/ keeps the invariant.
LEMMA OpenInv == IInv /\ Open => IInv'
<1>. SUFFICES ASSUME IInv, Open PROVE IInv'
  OBVIOUS
<1>. USE DEF Open
<1>1. TypeOK'
  <2>1. mem' \in [catalog: Catalog \union {Nil}, checkpoint: Checkpoint \union {Nil}]
    BY DiskTypes DEF IInv, TypeOK
  <2>. QED  BY <2>1 DEF IInv, TypeOK, Steps
<1>2. FilesOK(disk)' /\ FilesOK(safe)'
  BY DiskKept DEF IInv, TypeOK
<1>3. StepOK'
  BY DEF IInv, StepOK
<1>4. OffsetsOK'
  BY OffsetType DEF IInv, OffsetsOK, Offset, TypeOK
<1>. QED  BY <1>1, <1>2, <1>3, <1>4 DEF IInv

-------------------------------------------------------------------------------
(* What the steps may rely on.                                             *)

\* A store with nothing pending works on the state it has on disk.
LEMMA QuietFacts ==
  ASSUME IInv, Quiet
  PROVE  /\ mem.catalog = disk.catalog /\ mem.checkpoint = disk.checkpoint
         /\ disk.catalog \in Catalog /\ disk.checkpoint \in Checkpoint
         /\ disk.catalog # Nil /\ disk.checkpoint # Nil
         /\ disk.pending = Nil
         /\ disk.checkpoint.tid <= tx /\ tx \in Nat
         /\ NothingPending(disk)
  BY DiskTypes DEF IInv, TypeOK, Quiet, Current, FilesOK

\* The types of a pending transaction, and what PendingOK says of it.
LEMMA PendingFacts ==
  ASSUME IInv, disk.pending # Nil, disk.checkpoint # Nil
  PROVE  /\ disk.pending \in Pending /\ PendingOK(disk.pending)
         /\ disk.pending.tid <= tx /\ tx \in Nat
         /\ disk.checkpoint \in Checkpoint /\ disk.catalog \in Catalog
         /\ disk.pending.beforeCatalog \in Catalog /\ disk.pending.afterCatalog \in Catalog
         /\ disk.pending.beforeCheckpoint \in Checkpoint
         /\ disk.pending.afterCheckpoint \in Checkpoint
         /\ disk.pending.changed \in SUBSET Hours
         /\ \A h \in Hours : /\ Before(h) \in Entry \union {Nil}
                             /\ After(h) \in Entry \union {Nil}
<1>1. disk.pending \in Pending /\ disk.checkpoint \in Checkpoint /\ disk.catalog \in Catalog
  BY DiskTypes DEF IInv, TypeOK, FilesOK
<1>. QED  BY <1>1, PendingTypes, CatalogTypes DEF IInv, TypeOK, FilesOK, Before, After

\* While a commit or a compaction publishes, its marker is not yet on disk.
LEMMA PublishingFacts ==
  ASSUME IInv, Publishing
  PROVE  /\ Uncommitted(disk)
         /\ disk.pending # Nil /\ disk.checkpoint # Nil
         /\ disk.pending.type # "delete"
         /\ \A h \in disk.pending.changed : After(h) # Nil
<1>1. disk.pending # Nil /\ disk.checkpoint # Nil /\ disk.pending.type # "delete"
  BY DEF Publishing
<1>2. Uncommitted(disk)
  BY <1>1, PendingFacts DEF IInv, FilesOK, PendingOK, Committed, Publishing
<1>3. \A h \in disk.pending.changed : After(h) # Nil
  BY <1>1, PendingFacts, PendingTypes DEF PendingOK, WriteShape, After
<1>. QED  BY <1>1, <1>2, <1>3

\* A step that replaces the bytes of one changed hour keeps a transaction
\* that can be rolled back.
LEMMA UndoableData ==
  ASSUME IInv, disk.pending # Nil, disk.checkpoint # Nil, disk.pending.type # "delete",
         Uncommitted(disk),
         NEW h \in disk.pending.changed, NEW v \in Content \union {Nil},
         disk' = [disk EXCEPT !.data[h] = v], tx' = tx,
         disk.pending.type # "compact" /\ Before(h) # Nil =>
           /\ v # Nil
           /\ Len(v) >= Len(Before(h).members)
           /\ Prefix(v, Len(Before(h).members)) = Before(h).members
  PROVE  FilesOK(disk)' /\ Uncommitted(disk)'
<1>1. h \in Hours
  BY PendingFacts
<1>2. /\ disk'.data[h] = v
      /\ \A g \in Hours : g # h => disk'.data[g] = disk.data[g]
      /\ disk'.index = disk.index
      /\ disk'.catalog = disk.catalog /\ disk'.checkpoint = disk.checkpoint
      /\ disk'.pending = disk.pending /\ disk'.backup = disk.backup
  BY <1>1, DataSet DEF IInv, TypeOK
<1>3. Uncommitted(disk)'
  BY <1>1, <1>2, PendingFacts DEF Uncommitted, Undoable, Intact, Before, Held
<1>4. PendingOK(disk.pending)'
  BY <1>2, PendingFacts
<1>. QED  BY <1>2, <1>3, <1>4, PendingFacts DEF IInv, FilesOK

\* A step that replaces the index of one changed hour does so too.
LEMMA UndoableIndex ==
  ASSUME IInv, disk.pending # Nil, disk.checkpoint # Nil, disk.pending.type # "delete",
         Uncommitted(disk),
         NEW h \in disk.pending.changed, NEW v \in Content \union {Nil},
         disk' = [disk EXCEPT !.index[h] = v], tx' = tx
  PROVE  FilesOK(disk)' /\ Uncommitted(disk)'
<1>1. h \in Hours
  BY PendingFacts
<1>2. /\ \A g \in Hours : g # h => disk'.index[g] = disk.index[g]
      /\ disk'.data = disk.data
      /\ disk'.catalog = disk.catalog /\ disk'.checkpoint = disk.checkpoint
      /\ disk'.pending = disk.pending /\ disk'.backup = disk.backup
  BY <1>1, IndexSet DEF IInv, TypeOK
<1>3. Uncommitted(disk)'
  BY <1>1, <1>2, PendingFacts DEF Uncommitted, Undoable, Intact, Before, Held
<1>4. PendingOK(disk.pending)'
  BY <1>2, PendingFacts
<1>. QED  BY <1>2, <1>3, <1>4, PendingFacts DEF IInv, FilesOK

-------------------------------------------------------------------------------
(* The compaction worker and the ends of operations.                       *)

\* The compaction worker outside the queue changes nothing but its own state.
LEMMA CompactSelectInv ==
  ASSUME IInv, NEW h \in Hours, CompactSelect(h)
  PROVE  IInv'
<1>. USE DEF CompactSelect, Idle
<1>1. comp' \in [hour: Hours, before: Entry, staged: Content \union {Nil}] \union {Nil}
  BY QuietFacts, CatalogTypes DEF IInv, StepOK
<1>2. TypeOK'
  BY <1>1 DEF IInv, TypeOK
<1>3. FilesOK(disk)' /\ FilesOK(safe)'
  BY DiskKept, SafeKept DEF IInv, TypeOK
<1>4. StepOK'
  BY DEF IInv, StepOK, Quiet, Current
<1>5. OffsetsOK'
  BY DEF IInv, OffsetsOK, Offset
<1>. QED  BY <1>2, <1>3, <1>4, <1>5 DEF IInv

\* The recompression outside the queue keeps the invariant.
LEMMA CompactReadInv == IInv /\ CompactRead => IInv'
<1>. SUFFICES ASSUME IInv, CompactRead PROVE IInv'
  OBVIOUS
<1>. USE DEF CompactRead
<1>1. comp \in [hour: Hours, before: Entry, staged: Content \union {Nil}]
  BY DEF IInv, TypeOK
<1>2. ASSUME NEW c \in Content
      PROVE  <<LinesIn(c)>> \in Content
  <2>1. DOMAIN c = 1..Len(c) /\ \A i \in 1..Len(c) : c[i] \in Member
    BY LenProperties, ElementOfSeq DEF Content
  <2>2. LinesIn(c) \in Member
    BY <2>1 DEF LinesIn, Member
  <2>. QED  BY <2>2, SingleContent
<1>3. comp' \in [hour: Hours, before: Entry, staged: Content \union {Nil}] \union {Nil}
  <2>1. disk.data[comp.hour] \in Content \union {Nil}
    BY <1>1, DiskTypes DEF IInv, TypeOK
  <2>2. comp.before.members \in Content /\ Len(comp.before.members) \in Nat
    BY <1>1, ContentSize DEF Entry
  <2>3. disk.data[comp.hour] # Nil =>
          <<LinesIn(Prefix(disk.data[comp.hour], Len(comp.before.members)))>> \in Content
    BY <2>1, <2>2, <1>2, PrefixType
  <2>. QED  BY <1>1, <2>3
<1>4. /\ UNCHANGED <<disk, safe, unsynced, mem, pc, todo, at, removed, recovering, tx, acked,
                     noticed, faults>>
      /\ pc # "compactPending"
  BY DEF IInv, StepOK
<1>. HIDE DEF CompactRead
<1>8. TypeOK'
  BY <1>3, <1>4 DEF IInv, TypeOK
<1>5. FilesOK(disk)' /\ FilesOK(safe)'
  BY <1>4, DiskKept, SafeKept DEF IInv, TypeOK
<1>6. StepOK'
  BY <1>4, StepKept
<1>7. OffsetsOK'
  BY <1>4 DEF IInv, OffsetsOK, Offset
<1>. QED  BY <1>5, <1>6, <1>7, <1>8 DEF IInv

-------------------------------------------------------------------------------
(* Publishing a commit or a compaction.                                    *)

\* A write that is cut short keeps the invariant.
LEMMA AppendPartialInv ==
  ASSUME IInv, NEW h \in Hours, AppendPartial(h)
  PROVE  IInv'
<1>. USE DEF AppendPartial
<1>1. Publishing /\ disk.pending.type = "write" /\ at = Nil
  BY DEF IInv, StepOK
<1>2. /\ Uncommitted(disk) /\ disk.pending # Nil /\ disk.checkpoint # Nil
      /\ h \in disk.pending.changed
      /\ Intact(disk, h, Before(h))
  BY <1>1, PublishingFacts, NilAssumption DEF Publishing
<1>. DEFINE v == Append(IF Before(h) = Nil THEN <<>> ELSE Prefix(disk.data[h], SizeBefore(h)), {})
<1>0. disk' = [disk EXCEPT !.data[h] = v]
  OBVIOUS
<1>3. /\ v \in Content
      /\ Before(h) # Nil => /\ v # Nil
                            /\ Len(v) >= Len(Before(h).members)
                            /\ Prefix(v, Len(Before(h).members)) = Before(h).members
  <2>1. {} \in Member
    BY DEF Member
  <2>2. CASE Before(h) = Nil
    BY <2>1, <2>2, SingleContent
  <2>3. CASE Before(h) # Nil
    <3>1. /\ Before(h).members \in Content
          /\ disk.data[h] = Before(h).members
      BY <1>2, <2>3, PendingFacts, HeldTypes DEF Intact
    <3>2. Prefix(disk.data[h], SizeBefore(h)) = Before(h).members
      BY <2>3, <3>1, PrefixFull DEF SizeBefore
    <3>3. v = Append(Before(h).members, {})
      BY <2>3, <3>2
    <3>4. Len(Before(h).members) \in Nat
      BY <3>1, ContentSize
    <3>5. /\ v \in Content
          /\ Len(v) = Len(Before(h).members) + 1
          /\ Prefix(v, Len(Before(h).members)) = Before(h).members
      BY <2>1, <3>1, <3>3, AppendPrefix
    <3>. QED
      <4>. HIDE DEF v
      <4>. QED  BY <2>3, <3>4, <3>5, NilAssumption
  <2>. QED  BY <2>2, <2>3
<1>. HIDE DEF v
<1>4. FilesOK(disk)' /\ Uncommitted(disk)'
  BY <1>0, <1>1, <1>2, <1>3, UndoableData
<1>5. /\ disk' \in Disk
      /\ \A g \in Hours : g # h => disk'.data[g] = disk.data[g]
      /\ disk'.index = disk.index
      /\ disk'.catalog = disk.catalog /\ disk'.checkpoint = disk.checkpoint
      /\ disk'.pending = disk.pending
      /\ disk'.data[h] = v
  <2>. HIDE DEF AppendPartial
  <2>. QED  BY <1>0, <1>3, DataSet DEF IInv, TypeOK
<1>6. TypeOK'
  BY <1>5 DEF IInv, TypeOK, Steps
<1>7. FilesOK(safe)'
  BY SafeKept DEF IInv, TypeOK
<1>8. StepOK'
  <2>1. v # Nil
    BY <1>3, NilAssumption
  <2>2. Publishing'
    <3>1. \A g \in Hours \ {h} : \A e : Intact(disk', g, e) <=> Intact(disk, g, e)
      BY <1>5 DEF Intact
    <3>2. disk.pending.changed \subseteq Hours /\ todo' = todo /\ at' = h /\ h \in todo
      BY <1>2, PendingFacts
    <3>3. \A g \in Hours : Before(g)' = Before(g) /\ After(g)' = After(g)
      BY <1>5 DEF Before, After
    <3>. HIDE DEF AppendPartial
    <3>4. \A g \in disk.pending.changed \ todo : Intact(disk', g, After(g))
      BY <1>1, <3>1, <3>2 DEF Publishing
    <3>5. \A g \in todo \ {h} : Intact(disk', g, Before(g))
      BY <1>1, <3>1, <3>2, NilAssumption DEF Publishing
    <3>. QED  BY <1>1, <1>5, <3>2, <3>3, <3>4, <3>5 DEF Publishing
  <2>3. /\ pc' = "appendRest" /\ at' = h /\ h \in todo' /\ ~unsynced'
        /\ disk'.pending.type = "write" /\ disk'.data[at'] # Nil
    BY <1>1, <1>5, <2>1
  <2>. HIDE DEF AppendPartial
  <2>. QED  BY <2>2, <2>3 DEF StepOK
<1>9. OffsetsOK'
  BY <1>5 DEF IInv, OffsetsOK, Offset
<1>. QED  BY <1>4, <1>6, <1>7, <1>8, <1>9 DEF IInv

\* The rest of an append keeps the invariant.
LEMMA AppendRestInv == IInv /\ AppendRest => IInv'
<1>. SUFFICES ASSUME IInv, AppendRest PROVE IInv'
  OBVIOUS
<1>. USE DEF AppendRest, Publish
<1>1. Publishing /\ disk.pending.type = "write" /\ at \in todo
  BY DEF IInv, StepOK
<1>2. /\ Uncommitted(disk) /\ disk.pending # Nil /\ disk.checkpoint # Nil
      /\ at \in disk.pending.changed /\ at \in Hours
      /\ After(at) # Nil
  BY <1>1, PublishingFacts, PendingFacts DEF Publishing
<1>. DEFINE b == IF Before(at) = Nil THEN <<>> ELSE Before(at).members
<1>3. PICK m \in Member : After(at).members = Append(b, m)
  BY <1>1, <1>2, PendingFacts DEF PendingOK, WriteShape, Before, After
<1>4. /\ b \in Content
      /\ Len(b) = SizeBefore(at)
      /\ Prefix(disk.data[at], SizeBefore(at)) = b
  <2>1. disk.data[at] \in Content
    BY <1>2, DiskTypes DEF IInv, TypeOK, StepOK
  <2>2. CASE Before(at) = Nil
    <3>1. SubSeq(disk.data[at], 1, 0) = <<>>
      BY SubSeqEmpty
    <3>2. 0 <= Len(disk.data[at])
      BY <2>1, ContentSize
    <3>. QED  BY <2>2, <3>1, <3>2, EmptyContent DEF SizeBefore, Prefix
  <2>3. CASE Before(at) # Nil
    <3>1. Before(at).members \in Content
      BY <1>2, <2>3, PendingFacts, HeldTypes
    <3>2. Undoable(disk, at)
      BY <1>2 DEF Uncommitted
    <3>3. Prefix(disk.data[at], Len(Before(at).members)) = Before(at).members
      BY <1>1, <2>3, <3>2 DEF Undoable, Before
    <3>. QED  BY <2>3, <3>1, <3>3 DEF SizeBefore
  <2>. QED  BY <2>2, <2>3
<1>. HIDE DEF b
<1>5. /\ After(at).members \in Content
      /\ After(at).members[Len(After(at).members)] = m
      /\ disk' = [disk EXCEPT !.data[at] = After(at).members]
  <2>1. After(at).members \in Content
    BY <1>2, PendingFacts, HeldTypes
  <2>2. After(at).members[Len(After(at).members)] = m
    BY <1>3, <1>4, AppendPrefix
  <2>. QED  BY <1>3, <1>4, <2>1, <2>2
<1>6. /\ Before(at) # Nil => /\ After(at).members # Nil
                             /\ Len(After(at).members) >= Len(Before(at).members)
                             /\ Prefix(After(at).members, Len(Before(at).members)) = Before(at).members
  <2>1. Before(at) # Nil => b = Before(at).members
    BY DEF b
  <2>2. Len(Append(b, m)) = Len(b) + 1 /\ Prefix(Append(b, m), Len(b)) = b /\ Len(b) \in Nat
    BY <1>4, AppendPrefix, ContentSize
  <2>3. After(at).members # Nil
    BY <1>5, NilAssumption
  <2>. QED  BY <1>3, <2>1, <2>2, <2>3
<1>7. FilesOK(disk)' /\ Uncommitted(disk)'
  BY <1>1, <1>2, <1>5, <1>6, UndoableData
<1>8. /\ disk' \in Disk
      /\ disk'.data[at] = After(at).members
      /\ \A g \in Hours : g # at => disk'.data[g] = disk.data[g]
      /\ disk'.index = disk.index
      /\ disk'.catalog = disk.catalog /\ disk'.checkpoint = disk.checkpoint
      /\ disk'.pending = disk.pending
  <2>. HIDE DEF AppendRest
  <2>. QED  BY <1>2, <1>5, DataSet DEF IInv, TypeOK
<1>9. TypeOK'
  BY <1>8 DEF IInv, TypeOK, Steps
<1>10. FilesOK(safe)'
  BY SafeKept DEF IInv, TypeOK
<1>11. StepOK'
  <2>1. Publishing'
    <3>1. \A g \in Hours \ {at} : \A e : Intact(disk', g, e) <=> Intact(disk, g, e)
      BY <1>8 DEF Intact
    <3>. QED  BY <1>1, <1>2, <1>8, <3>1, PendingFacts DEF Publishing, Before, After
  <2>2. disk'.data[at'] = Held(After(at))'
    BY <1>2, <1>8 DEF Held, After
  <2>. QED  BY <1>1, <1>8, <2>1, <2>2 DEF StepOK
<1>12. OffsetsOK'
  BY <1>8 DEF IInv, OffsetsOK, Offset
<1>. QED  BY <1>7, <1>9, <1>10, <1>11, <1>12 DEF IInv

\* atomicJson() of an index keeps the invariant.
LEMMA PublishIndexInv == IInv /\ PublishIndex => IInv'
<1>. SUFFICES ASSUME IInv, PublishIndex PROVE IInv'
  OBVIOUS
<1>. USE DEF PublishIndex, Publish
<1>1. /\ Publishing /\ at \in todo /\ disk.data[at] = Held(After(at))
      /\ disk.pending.type = "write" \/ todo = {at}
  BY DEF IInv, StepOK
<1>2. /\ Uncommitted(disk) /\ disk.pending # Nil /\ disk.checkpoint # Nil
      /\ at \in disk.pending.changed /\ at \in Hours
      /\ After(at).members \in Content /\ Held(After(at)) = After(at).members
  BY <1>1, PublishingFacts, PendingFacts, HeldTypes DEF Publishing
<1>3. FilesOK(disk)' /\ Uncommitted(disk)'
  BY <1>1, <1>2, UndoableIndex DEF Publishing
<1>4. /\ disk' \in Disk
      /\ disk'.index[at] = After(at).members
      /\ \A g \in Hours : g # at => disk'.index[g] = disk.index[g]
      /\ disk'.data = disk.data
      /\ disk'.catalog = disk.catalog /\ disk'.checkpoint = disk.checkpoint
      /\ disk'.pending = disk.pending
  BY <1>2, IndexSet DEF IInv, TypeOK
<1>5. TypeOK'
  BY <1>4 DEF IInv, TypeOK, Steps
<1>6. FilesOK(safe)'
  BY SafeKept DEF IInv, TypeOK
<1>7. StepOK'
  <2>1. \A g \in Hours \ {at} : \A e : Intact(disk', g, e) <=> Intact(disk, g, e)
    BY <1>4 DEF Intact
  <2>2. Intact(disk', at, After(at))
    BY <1>1, <1>2, <1>4 DEF Intact
  <2>3. Publishing'
    BY <1>1, <1>2, <1>4, <2>1, <2>2, PendingFacts DEF Publishing, Before, After
  <2>. QED  BY <1>1, <1>4, <2>3 DEF StepOK
<1>8. OffsetsOK'
  BY <1>4 DEF IInv, OffsetsOK, Offset
<1>. QED  BY <1>3, <1>5, <1>6, <1>7, <1>8 DEF IInv

\* atomicJson() of the catalog keeps the invariant.
LEMMA PublishCatalogInv == IInv /\ PublishCatalog => IInv'
<1>. SUFFICES ASSUME IInv, PublishCatalog PROVE IInv'
  OBVIOUS
<1>. USE DEF PublishCatalog, Publish
<1>1. /\ Publishing /\ Uncommitted(disk) /\ disk.pending # Nil /\ disk.checkpoint # Nil
      /\ at = Nil
  BY PublishingFacts DEF IInv, StepOK
<1>2. /\ disk' \in Disk
      /\ disk'.catalog = disk.pending.afterCatalog
      /\ disk'.data = disk.data /\ disk'.index = disk.index
      /\ disk'.checkpoint = disk.checkpoint /\ disk'.pending = disk.pending
      /\ disk'.backup = disk.backup
  BY <1>1, StateSet, PendingFacts DEF IInv, TypeOK
<1>3. FilesOK(disk)'
  <2>1. Uncommitted(disk)'
    BY <1>1, <1>2 DEF Uncommitted, Undoable, Intact
  <2>2. PendingOK(disk.pending)'
    BY <1>1, <1>2, PendingFacts
  <2>. QED  BY <1>1, <1>2, <2>1, <2>2, PendingFacts, NilAssumption DEF IInv, FilesOK, Publishing
<1>4. TypeOK'
  BY <1>2 DEF IInv, TypeOK, Steps
<1>5. FilesOK(safe)'
  BY SafeKept DEF IInv, TypeOK
<1>6. StepOK'
  <2>1. Publishing'
    BY <1>1, <1>2 DEF Publishing, Before, After, Intact
  <2>. QED  BY <1>1, <1>2, <2>1 DEF StepOK
<1>7. OffsetsOK'
  BY <1>2 DEF IInv, OffsetsOK, Offset
<1>. QED  BY <1>3, <1>4, <1>5, <1>6, <1>7 DEF IInv

\* The commit marker keeps the invariant.
LEMMA PublishCheckpointInv == IInv /\ PublishCheckpoint => IInv'
<1>. SUFFICES ASSUME IInv, PublishCheckpoint PROVE IInv'
  OBVIOUS
<1>. USE DEF PublishCheckpoint, Publish
<1>1. /\ Publishing /\ Uncommitted(disk) /\ disk.pending # Nil /\ disk.checkpoint # Nil
      /\ todo = {} /\ at = Nil /\ disk.catalog = disk.pending.afterCatalog
      /\ disk.pending.type # "delete"
  BY PublishingFacts DEF IInv, StepOK
<1>2. /\ disk' \in Disk
      /\ disk'.checkpoint = disk.pending.afterCheckpoint
      /\ disk'.data = disk.data /\ disk'.index = disk.index
      /\ disk'.catalog = disk.catalog /\ disk'.pending = disk.pending
      /\ disk'.backup = disk.backup
  BY <1>1, StateSet, PendingFacts DEF IInv, TypeOK
<1>3. \A h \in Hours : Intact(disk, h, After(h))
  <2>1. \A h \in disk.pending.changed : Intact(disk, h, After(h))
    BY <1>1 DEF Publishing
  <2>2. \A h \in Hours \ disk.pending.changed : Intact(disk, h, After(h))
    BY <1>1, PendingFacts DEF Uncommitted, PendingOK, After
  <2>. QED  BY <2>1, <2>2
<1>4. Committed(disk)'
  BY <1>1, <1>2, <1>3 DEF Committed, Intact, After
<1>5. FilesOK(disk)'
  <2>1. PendingOK(disk.pending)'
    BY <1>1, <1>2, PendingFacts
  <2>2. disk'.checkpoint # Nil /\ disk'.catalog # Nil /\ disk'.checkpoint.tid <= tx
    BY <1>1, <1>2, PendingFacts, NilAssumption DEF PendingOK
  <2>. QED  BY <1>1, <1>2, <1>4, <2>1, <2>2, PendingFacts DEF FilesOK
<1>6. TypeOK'
  <2>1. mem' \in [catalog: Catalog \union {Nil}, checkpoint: Checkpoint \union {Nil}]
    BY <1>1, PendingFacts
  <2>. QED  BY <1>2, <2>1 DEF IInv, TypeOK, Steps
<1>7. FilesOK(safe)'
  BY SafeKept DEF IInv, TypeOK
<1>8. StepOK'
  <2>1. NothingPending(disk)'
    BY <1>1, <1>2, <1>3, PendingFacts DEF NothingPending, PendingOK, Intact, After
  <2>2. Current'
    BY <1>1, <1>2, PendingFacts, NilAssumption DEF Current
  <2>. QED  BY <1>1, <1>2, <2>1, <2>2 DEF StepOK
<1>9. OffsetsOK'
  <2>1. Offset(disk) <= Offset(disk')
    BY <1>1, <1>2, PendingFacts, NilAssumption DEF Uncommitted, PendingOK, Offset
  <2>2. Offset(safe) \in Nat /\ Offset(disk) \in Nat /\ Offset(disk') \in Nat
    BY <1>2, OffsetType DEF IInv, TypeOK
  <2>3. acked' <= Offset(safe)
    BY DEF IInv, OffsetsOK
  <2>4. Offset(safe) <= Offset(disk')
    BY <2>1, <2>2 DEF IInv, OffsetsOK
  <2>. QED  BY <2>3, <2>4 DEF OffsetsOK, Offset
<1>. QED  BY <1>5, <1>6, <1>7, <1>8, <1>9 DEF IInv

\* unlink() of pending.json keeps the invariant.
LEMMA FinishPendingInv == IInv /\ FinishPending => IInv'
<1>. SUFFICES ASSUME IInv, FinishPending PROVE IInv'
  OBVIOUS
<1>. USE DEF FinishPending, Publish
<1>1. Current /\ disk.pending # Nil /\ NothingPending(disk) /\ todo = {} /\ at = Nil
  BY DEF IInv, StepOK
<1>2. /\ disk' \in Disk
      /\ disk'.pending = Nil
      /\ disk'.data = disk.data /\ disk'.index = disk.index
      /\ disk'.catalog = disk.catalog /\ disk'.checkpoint = disk.checkpoint
  <2>1. disk' = [disk EXCEPT !.pending = Nil] /\ disk \in Disk
    BY DEF IInv, TypeOK
  <2>. HIDE DEF FinishPending
  <2>. QED  BY <2>1, StateSet
<1>3. FilesOK(disk)'
  BY <1>1, <1>2 DEF IInv, FilesOK, NothingPending, Current, Intact
<1>4. TypeOK'
  BY <1>2 DEF IInv, TypeOK, Steps
<1>5. FilesOK(safe)'
  BY SafeKept DEF IInv, TypeOK
<1>6. StepOK'
  <2>1. Quiet'
    BY <1>1, <1>2 DEF Quiet, Current
  <2>. QED  BY <1>1, <2>1 DEF StepOK
<1>7. OffsetsOK'
  BY <1>2 DEF IInv, OffsetsOK, Offset
<1>. QED  BY <1>3, <1>4, <1>5, <1>6, <1>7 DEF IInv

\* The end of the staging files, and of the operation, keeps the invariant.
LEMMA CleanupInv == IInv /\ Cleanup => IInv'
<1>. SUFFICES ASSUME IInv, Cleanup PROVE IInv'
  OBVIOUS
<1>. USE DEF Cleanup
<1>1. Quiet /\ todo = {} /\ at = Nil
  BY DEF IInv, StepOK
<1>2. /\ disk' \in Disk
      /\ disk'.pending = Nil
      /\ disk'.data = disk.data /\ disk'.index = disk.index
      /\ disk'.catalog = disk.catalog /\ disk'.checkpoint = disk.checkpoint
  BY <1>1, StateSet, QuietFacts DEF IInv, TypeOK
<1>3. FilesOK(disk)'
  BY <1>1, <1>2, QuietFacts DEF FilesOK, NothingPending, Intact
<1>4. acked' <= Offset(safe) /\ acked' \in 0..MaxOffset
  <2>1. Offset(safe) = mem.checkpoint.offset
    BY <1>1, QuietFacts DEF IInv, OffsetsOK, Offset
  <2>2. Offset(safe) \in 0..MaxOffset /\ Offset(safe) \in Nat
    BY OffsetType DEF IInv, TypeOK
  <2>. QED  BY <2>1, <2>2 DEF IInv, OffsetsOK, TypeOK
<1>5. TypeOK'
  BY <1>1, <1>2, <1>4 DEF IInv, TypeOK, Steps
<1>6. FilesOK(safe)'
  BY SafeKept DEF IInv, TypeOK
<1>7. StepOK'
  <2>1. Quiet'
    BY <1>1, <1>2 DEF Quiet, Current
  <2>. QED  BY <1>1, <2>1 DEF StepOK
<1>8. OffsetsOK'
  BY <1>2, <1>4 DEF IInv, OffsetsOK, Offset
<1>. QED  BY <1>3, <1>5, <1>6, <1>7, <1>8 DEF IInv

\* A new transaction leaves every hour as it was before it.
LEMMA NewPending ==
  ASSUME IInv, Quiet, NEW p \in Pending,
         disk' = [disk EXCEPT !.pending = p], tx' \in Nat, tx <= tx', p.tid <= tx',
         PendingOK(p),
         p.beforeCatalog = mem.catalog, p.beforeCheckpoint = mem.checkpoint,
         p.type = "compact" => \A h \in p.changed : disk.backup = p.beforeCatalog.hours[h].members
  PROVE  /\ FilesOK(disk)' /\ disk' \in Disk /\ disk'.pending = p
         /\ disk'.data = disk.data /\ disk'.index = disk.index
         /\ disk'.catalog = disk.catalog /\ disk'.checkpoint = disk.checkpoint
         /\ \A h \in Hours : Intact(disk', h, p.beforeCatalog.hours[h])
<1>1. /\ disk' \in Disk
      /\ disk'.pending = p
      /\ disk'.data = disk.data /\ disk'.index = disk.index
      /\ disk'.catalog = disk.catalog /\ disk'.checkpoint = disk.checkpoint
      /\ disk'.backup = disk.backup
  BY StateSet DEF IInv, TypeOK
<1>2. /\ p.beforeCatalog = disk.catalog /\ p.beforeCheckpoint = disk.checkpoint
      /\ p.beforeCatalog \in Catalog
      /\ p.changed \in SUBSET Hours
  BY QuietFacts, PendingTypes
<1>3. \A h \in Hours : Intact(disk', h, p.beforeCatalog.hours[h])
  BY <1>1, <1>2, QuietFacts DEF NothingPending, Intact
<1>4. p.type = "delete" => DeletePending(disk')
  BY <1>1, <1>2, <1>3 DEF DeletePending
<1>5. p.type # "delete" => Uncommitted(disk')
  <2>1. \A h \in p.changed : Undoable(disk', h)
    <3>1. ASSUME NEW h \in p.changed, p.beforeCatalog.hours[h] # Nil, p.type # "compact"
          PROVE  LET m == p.beforeCatalog.hours[h].members
                 IN disk'.data[h] # Nil /\ Len(disk'.data[h]) >= Len(m)
                    /\ Prefix(disk'.data[h], Len(m)) = m
      <4>1. p.beforeCatalog.hours[h] \in Entry \union {Nil}
        BY <1>2, CatalogTypes
      <4>2. disk'.data[h] = p.beforeCatalog.hours[h].members /\ disk'.data[h] \in Content
        BY <1>2, <1>3, <3>1, <4>1, HeldTypes DEF Intact
      <4>. QED  BY <4>2, PrefixFull, ContentSize, NilAssumption
    <3>. QED  BY <1>1, <3>1 DEF Undoable
  <2>. QED  BY <1>1, <1>2, <1>3, <2>1 DEF Uncommitted
<1>6. disk'.checkpoint # Nil /\ disk'.catalog # Nil /\ disk'.pending # Nil
      /\ disk'.checkpoint.tid <= tx'
  <2>1. disk.checkpoint.tid \in Nat
    BY QuietFacts, CheckpointTypes
  <2>. QED  BY <1>1, <2>1, QuietFacts, NilAssumption
<1>7. FilesOK(disk)'
  BY <1>1, <1>4, <1>5, <1>6 DEF FilesOK
<1>. QED  BY <1>1, <1>3, <1>7

\* commit() up to pending.json.
LEMMA CommitInv ==
  ASSUME IInv, NEW n \in 0..MaxOffset, NEW place \in [Lines -> Hours], Commit(n, place)
  PROVE  IInv'
<1>. DEFINE batch(h) == {l \in (mem.checkpoint.offset + 1)..n : place[l] = h}
            changed  == {h \in Hours : batch(h) # {}}
            now      == mem.catalog.hours
            after    == [h \in Hours |-> IF h \in changed THEN Appended(now[h], batch(h)) ELSE now[h]]
            p        == [type |-> "write", prev |-> mem.checkpoint.tid, tid |-> tx + 1,
                         beforeCheckpoint |-> mem.checkpoint,
                         afterCheckpoint  |-> [tid |-> tx + 1, offset |-> n],
                         beforeCatalog |-> mem.catalog,
                         afterCatalog  |-> [tid |-> tx + 1, hours |-> after],
                         changed |-> changed]
<1>1. /\ Quiet /\ pc = "idle" /\ ~unsynced /\ ~recovering /\ todo = {} /\ at = Nil
      /\ n >= mem.checkpoint.offset
      /\ tx' = tx + 1
      /\ disk' = [disk EXCEPT !.pending = p]
      /\ pc' = "append" /\ todo' = changed /\ unsynced' = TRUE
      /\ UNCHANGED <<safe, mem, at, removed, recovering, comp, acked, noticed, faults>>
  BY DEF Commit, Publish, Idle, IInv, StepOK
<1>2. /\ mem.catalog = disk.catalog /\ mem.checkpoint = disk.checkpoint
      /\ mem.catalog \in Catalog /\ mem.checkpoint \in Checkpoint
      /\ mem.catalog.tid = mem.checkpoint.tid
      /\ mem.checkpoint.tid <= tx /\ tx \in Nat /\ mem.checkpoint.tid \in Nat
      /\ mem.checkpoint.offset \in Nat
  BY <1>1, QuietFacts, CheckpointTypes DEF NothingPending
<1>3. \A h \in Hours : batch(h) \in Member
  BY <1>2, BoundsAssumption DEF Member, Lines
<1>4. ASSUME NEW e \in Entry \union {Nil}, NEW m \in Member
      PROVE  /\ Appended(e, m) \in Entry
             /\ Appended(e, m).members = Append(IF e = Nil THEN <<>> ELSE e.members, m)
  <2>1. CASE e = Nil
    BY <1>2, <2>1, SingleContent DEF Appended, Entry
  <2>2. CASE e # Nil
    BY <2>2, AppendPrefix DEF Appended, Entry
  <2>. QED  BY <2>1, <2>2
<1>5. \A h \in Hours : now[h] \in Entry \union {Nil}
  BY <1>2, CatalogTypes
<1>6. /\ after \in [Hours -> Entry \union {Nil}]
      /\ \A h \in Hours \ changed : after[h] = now[h]
      /\ \A h \in changed : WriteShape(now[h], after[h])
  <2>1. \A h \in changed : /\ Appended(now[h], batch(h)) \in Entry
                           /\ WriteShape(now[h], Appended(now[h], batch(h)))
    <3>. TAKE h \in changed
    <3>1. h \in Hours /\ batch(h) \in Member
      BY <1>3
    <3>2. now[h] \in Entry \union {Nil}
      BY <3>1, <1>5
    <3>. HIDE DEF batch, now, changed
    <3>3. /\ Appended(now[h], batch(h)) \in Entry
          /\ Appended(now[h], batch(h)).members
               = Append(IF now[h] = Nil THEN <<>> ELSE now[h].members, batch(h))
      BY <3>1, <3>2, <1>4
    <3>4. Appended(now[h], batch(h)) # Nil
      BY <3>3, NilAssumption
    <3>. QED  BY <3>1, <3>3, <3>4 DEF WriteShape
  <2>. HIDE DEF batch, now
  <2>. QED  BY <1>5, <2>1
<1>. HIDE DEF batch, now, changed, after
<1>7. p \in Pending
  BY <1>2, <1>6 DEF Pending, Catalog, Checkpoint, changed
<1>8. PendingOK(p)
  BY <1>1, <1>2, <1>6 DEF PendingOK, now
<1>9. p.tid <= tx' /\ tx' \in Nat /\ tx <= tx'
  BY <1>1, <1>2
<1>10. /\ p.beforeCatalog = mem.catalog /\ p.beforeCheckpoint = mem.checkpoint
       /\ p.type = "write" /\ p.changed = changed
       /\ p # Nil
  BY <1>7, NilAssumption
<1>. HIDE DEF p
<1>11. /\ FilesOK(disk)' /\ disk' \in Disk /\ disk'.pending = p
       /\ disk'.catalog = disk.catalog /\ disk'.checkpoint = disk.checkpoint
       /\ \A h \in Hours : Intact(disk', h, p.beforeCatalog.hours[h])
  BY <1>1, <1>7, <1>8, <1>9, <1>10, NewPending
<1>12. changed \subseteq Hours
  BY DEF changed
<1>13. TypeOK'
  BY <1>1, <1>9, <1>11, <1>12 DEF IInv, TypeOK, Steps
<1>14. FilesOK(safe)'
  BY <1>1, <1>9, SafeKept
<1>15. StepOK'
  <2>1. Publishing'
    BY <1>1, <1>2, <1>10, <1>11, <1>12, QuietFacts DEF Publishing, Before
  <2>. QED  BY <1>1, <1>10, <1>11, <2>1 DEF StepOK
<1>16. OffsetsOK'
  BY <1>1, <1>11 DEF IInv, OffsetsOK, Offset
<1>. QED  BY <1>11, <1>13, <1>14, <1>15, <1>16 DEF IInv

\* expire() up to pending.json.
LEMMA ExpireInv ==
  ASSUME IInv, NEW S \in SUBSET Hours, Expire(S)
  PROVE  IInv'
<1>. DEFINE after == [h \in Hours |-> IF h \in S THEN Nil ELSE mem.catalog.hours[h]]
            p     == [type |-> "delete", prev |-> mem.checkpoint.tid, tid |-> mem.checkpoint.tid,
                      beforeCheckpoint |-> mem.checkpoint, afterCheckpoint |-> mem.checkpoint,
                      beforeCatalog |-> mem.catalog,
                      afterCatalog  |-> [mem.catalog EXCEPT !.hours = after],
                      changed |-> S]
<1>1. /\ Quiet /\ pc = "idle" /\ ~unsynced /\ ~recovering /\ todo = {} /\ at = Nil
      /\ \A h \in S : mem.catalog.hours[h] # Nil
      /\ disk' = [disk EXCEPT !.pending = p]
      /\ pc' = "deleteCatalog" /\ unsynced' = TRUE
      /\ UNCHANGED <<safe, mem, todo, at, removed, recovering, comp, tx, acked, noticed, faults>>
  BY DEF Expire, Publish, Idle, IInv, StepOK
<1>2. /\ mem.catalog = disk.catalog /\ mem.checkpoint = disk.checkpoint
      /\ mem.catalog \in Catalog /\ mem.checkpoint \in Checkpoint
      /\ mem.catalog.tid = mem.checkpoint.tid
      /\ mem.checkpoint.tid <= tx /\ tx \in Nat /\ mem.checkpoint.tid \in Nat
      /\ mem.checkpoint.offset \in Nat
  BY <1>1, QuietFacts, CheckpointTypes DEF NothingPending
<1>3. /\ p \in Pending
      /\ p.afterCatalog.tid = mem.catalog.tid /\ p.afterCatalog.hours = after
  BY <1>2 DEF Pending, Catalog
<1>4. PendingOK(p)
  BY <1>1, <1>2, <1>3 DEF PendingOK
<1>5. /\ p.beforeCatalog = mem.catalog /\ p.beforeCheckpoint = mem.checkpoint
      /\ p.type = "delete" /\ p.tid = mem.checkpoint.tid /\ p # Nil
  BY <1>3, NilAssumption
<1>. HIDE DEF p, after
<1>6. /\ FilesOK(disk)' /\ disk' \in Disk /\ disk'.pending = p
      /\ disk'.catalog = disk.catalog /\ disk'.checkpoint = disk.checkpoint
  BY <1>1, <1>2, <1>3, <1>4, <1>5, NewPending
<1>7. TypeOK'
  BY <1>1, <1>6 DEF IInv, TypeOK, Steps
<1>8. FilesOK(safe)'
  BY <1>1, <1>2, SafeKept
<1>9. StepOK'
  BY <1>1, <1>2, <1>5, <1>6, QuietFacts DEF StepOK
<1>10. OffsetsOK'
  BY <1>1, <1>6 DEF IInv, OffsetsOK, Offset
<1>. QED  BY <1>6, <1>7, <1>8, <1>9, <1>10 DEF IInv

-------------------------------------------------------------------------------
(* Publishing a compaction.                                                *)

\* Linking the backup, or giving up on a stale hour, keeps the invariant.
LEMMA CompactLinkInv == IInv /\ CompactLink => IInv'
<1>. SUFFICES ASSUME IInv, CompactLink PROVE IInv'
  OBVIOUS
<1>1. /\ Quiet /\ pc = "idle" /\ ~unsynced /\ ~recovering /\ todo = {} /\ at = Nil
      /\ comp # Nil /\ comp.staged # Nil
      /\ UNCHANGED <<mem, todo, at, removed, recovering, tx, acked, noticed, faults, safe>>
  BY DEF CompactLink, Publish, Idle, IInv, StepOK
<1>2. comp \in [hour: Hours, before: Entry, staged: Content \union {Nil}] /\ comp.hour \in Hours
  BY <1>1 DEF IInv, TypeOK
<1>3. CASE /\ Unchanged(comp.before, mem.catalog.hours[comp.hour])
           /\ Publish([disk EXCEPT !.backup = disk.data[comp.hour]])
           /\ pc' = "compactPending"
           /\ UNCHANGED comp
  <2>1. disk.data[comp.hour] \in Content \union {Nil}
    BY <1>2, DiskTypes DEF IInv, TypeOK
  <2>2. /\ disk' \in Disk /\ disk'.backup = disk.data[comp.hour]
        /\ disk'.data = disk.data /\ disk'.index = disk.index
        /\ disk'.catalog = disk.catalog /\ disk'.checkpoint = disk.checkpoint
        /\ disk'.pending = disk.pending
    <3>1. disk' = [disk EXCEPT !.backup = disk.data[comp.hour]] /\ disk \in Disk
      BY <1>3 DEF Publish, IInv, TypeOK
    <3>. QED  BY <2>1, <3>1, StateSet
  <2>3. TypeOK'
    <3>1. unsynced' = TRUE /\ comp' = comp /\ pc' \in Steps /\ pc' # "idle"
      BY <1>3 DEF Publish, Steps
    <3>. QED  BY <1>1, <2>2, <3>1 DEF IInv, TypeOK
  <2>4. FilesOK(disk)'
    BY <1>1, <2>2, QuietFacts DEF FilesOK, NothingPending, Intact
  <2>5. FilesOK(safe)'
    BY <1>1, SafeKept DEF IInv, TypeOK
  <2>6. StepOK'
    <3>1. disk.catalog.hours[comp.hour] # Nil
      BY <1>1, <1>3, QuietFacts DEF Unchanged
    <3>2. disk.data[comp.hour] = disk.catalog.hours[comp.hour].members
      BY <1>1, <1>2, <3>1, QuietFacts DEF NothingPending, Intact, Held
    <3>3. Quiet'
      BY <1>1, <2>2 DEF Quiet, Current
    <3>. QED  BY <1>1, <1>3, <2>2, <3>1, <3>2, <3>3 DEF StepOK
  <2>7. OffsetsOK'
    BY <1>1, <1>3, <2>2 DEF IInv, OffsetsOK, Offset, Publish
  <2>. QED  BY <2>3, <2>4, <2>5, <2>6, <2>7 DEF IInv
<1>4. CASE comp' = Nil /\ UNCHANGED <<disk, safe, unsynced, pc>>
  <2>1. TypeOK'
    BY <1>1, <1>4 DEF IInv, TypeOK
  <2>2. FilesOK(disk)' /\ FilesOK(safe)'
    BY <1>1, <1>4, DiskKept, SafeKept DEF IInv, TypeOK
  <2>3. StepOK'
    BY <1>1, <1>4 DEF StepOK, Quiet, Current
  <2>4. OffsetsOK'
    BY <1>1, <1>4 DEF IInv, OffsetsOK, Offset
  <2>. QED  BY <2>1, <2>2, <2>3, <2>4 DEF IInv
<1>. QED  BY <1>3, <1>4 DEF CompactLink

\* pending.json of a compaction keeps the invariant.
LEMMA CompactPendingInv == IInv /\ CompactPending => IInv'
<1>. SUFFICES ASSUME IInv, CompactPending PROVE IInv'
  OBVIOUS
<1>. DEFINE after == [fileId |-> tx + 1, members |-> comp.staged, compacted |-> TRUE]
            hours == [mem.catalog.hours EXCEPT ![comp.hour] = after]
            p     == [type |-> "compact", prev |-> mem.checkpoint.tid, tid |-> tx + 1,
                      beforeCheckpoint |-> mem.checkpoint,
                      afterCheckpoint  |-> [mem.checkpoint EXCEPT !.tid = tx + 1],
                      beforeCatalog |-> mem.catalog,
                      afterCatalog  |-> [tid |-> tx + 1, hours |-> hours],
                      changed |-> {comp.hour}]
<1>1. /\ Quiet /\ ~recovering /\ todo = {}
      /\ comp # Nil /\ comp.staged # Nil
      /\ disk.catalog.hours[comp.hour] # Nil
      /\ disk.backup = disk.catalog.hours[comp.hour].members
      /\ tx' = tx + 1 /\ comp' = Nil /\ todo' = {comp.hour} /\ at' = comp.hour
      /\ disk' = [disk EXCEPT !.pending = p]
      /\ pc' = "compactReplace" /\ ~unsynced /\ unsynced' = TRUE
      /\ UNCHANGED <<safe, mem, removed, recovering, acked, noticed, faults>>
  BY DEF CompactPending, Publish, IInv, StepOK
<1>2. comp.hour \in Hours /\ comp.staged \in Content
  BY <1>1 DEF IInv, TypeOK
<1>3. /\ mem.catalog = disk.catalog /\ mem.checkpoint = disk.checkpoint
      /\ mem.catalog \in Catalog /\ mem.checkpoint \in Checkpoint
      /\ mem.catalog.tid = mem.checkpoint.tid
      /\ mem.checkpoint.tid <= tx /\ tx \in Nat /\ mem.checkpoint.tid \in Nat
      /\ mem.checkpoint.offset \in Nat
  BY <1>1, QuietFacts, CheckpointTypes DEF NothingPending
<1>4. after \in Entry /\ after # Nil
  <2>1. after \in Entry
    BY <1>2, <1>3 DEF Entry
  <2>. HIDE DEF after
  <2>. QED  BY <2>1, NilAssumption
<1>. HIDE DEF after
<1>5. /\ hours \in [Hours -> Entry \union {Nil}]
      /\ hours[comp.hour] = after
      /\ \A h \in Hours \ {comp.hour} : hours[h] = mem.catalog.hours[h]
  BY <1>2, <1>3, <1>4 DEF Catalog
<1>. HIDE DEF hours
<1>6. p \in Pending
  BY <1>2, <1>3, <1>5 DEF Pending, Catalog, Checkpoint
<1>7. PendingOK(p)
  BY <1>1, <1>2, <1>3, <1>4, <1>5, <1>6 DEF PendingOK, Checkpoint
<1>8. /\ p.beforeCatalog = mem.catalog /\ p.beforeCheckpoint = mem.checkpoint
      /\ p.type = "compact" /\ p.changed = {comp.hour}
      /\ p.tid <= tx' /\ tx' \in Nat /\ tx <= tx' /\ p # Nil
      /\ \A h \in p.changed : disk.backup = p.beforeCatalog.hours[h].members
  <2>1. p # Nil
    <3>. HIDE DEF p
    <3>. QED  BY <1>6, NilAssumption
  <2>. QED  BY <1>1, <1>3, <2>1
<1>. HIDE DEF p
<1>9. /\ FilesOK(disk)' /\ disk' \in Disk /\ disk'.pending = p
      /\ disk'.catalog = disk.catalog /\ disk'.checkpoint = disk.checkpoint
  BY <1>1, <1>6, <1>7, <1>8, NewPending
<1>10. TypeOK'
  BY <1>1, <1>2, <1>8, <1>9 DEF IInv, TypeOK, Steps
<1>11. FilesOK(safe)'
  BY <1>1, <1>8, SafeKept
<1>12. StepOK'
  <2>1. Publishing'
    BY <1>1, <1>3, <1>8, <1>9, QuietFacts DEF Publishing
  <2>. QED  BY <1>1, <1>2, <1>8, <1>9, <2>1 DEF StepOK
<1>13. OffsetsOK'
  BY <1>1, <1>9 DEF IInv, OffsetsOK, Offset
<1>. QED  BY <1>9, <1>10, <1>11, <1>12, <1>13 DEF IInv

\* rename() of the recompressed file keeps the invariant.
LEMMA CompactReplaceInv == IInv /\ CompactReplace => IInv'
<1>. SUFFICES ASSUME IInv, CompactReplace PROVE IInv'
  OBVIOUS
<1>. USE DEF CompactReplace, Publish
<1>1. Publishing /\ disk.pending.type = "compact" /\ todo = {at} /\ at \in Hours
  BY DEF IInv, StepOK
<1>2. /\ Uncommitted(disk) /\ disk.pending # Nil /\ disk.checkpoint # Nil
      /\ at \in disk.pending.changed
      /\ After(at).members \in Content /\ Held(After(at)) = After(at).members
  BY <1>1, PublishingFacts, PendingFacts, HeldTypes DEF Publishing
<1>3. FilesOK(disk)' /\ Uncommitted(disk)'
  BY <1>1, <1>2, UndoableData
<1>4. /\ disk' \in Disk
      /\ disk'.data[at] = After(at).members
      /\ \A g \in Hours : g # at => disk'.data[g] = disk.data[g]
      /\ disk'.index = disk.index
      /\ disk'.catalog = disk.catalog /\ disk'.checkpoint = disk.checkpoint
      /\ disk'.pending = disk.pending
  <2>. HIDE DEF CompactReplace
  <2>. QED  BY <1>1, <1>2, DataSet DEF IInv, TypeOK, CompactReplace
<1>5. TypeOK'
  BY <1>4 DEF IInv, TypeOK, Steps
<1>6. FilesOK(safe)'
  BY SafeKept DEF IInv, TypeOK
<1>7. StepOK'
  <2>1. \A g \in Hours \ {at} : \A e : Intact(disk', g, e) <=> Intact(disk, g, e)
    BY <1>4 DEF Intact
  <2>2. Publishing'
    BY <1>1, <1>2, <1>4, <2>1, PendingFacts DEF Publishing, Before, After
  <2>3. disk'.data[at'] = Held(After(at))'
    BY <1>2, <1>4 DEF Held, After
  <2>. QED  BY <1>1, <1>4, <2>2, <2>3 DEF StepOK
<1>8. OffsetsOK'
  BY <1>4 DEF IInv, OffsetsOK, Offset
<1>. QED  BY <1>3, <1>5, <1>6, <1>7, <1>8 DEF IInv

-------------------------------------------------------------------------------
(* Deletion.                                                               *)

\* While a deletion is under way only the files of its hours may be missing.
LEMMA DeletingFacts ==
  ASSUME IInv, disk.pending # Nil, disk.checkpoint # Nil, disk.pending.type = "delete"
  PROVE  /\ DeletePending(disk)
         /\ disk.pending.tid = disk.checkpoint.tid
         /\ disk.pending.afterCatalog.tid = disk.checkpoint.tid
         /\ \A h \in disk.pending.changed : /\ Before(h) \in Entry
                                            /\ Before(h) # Nil /\ After(h) = Nil
  BY PendingFacts DEF IInv, FilesOK, DeletePending, PendingOK, Before, After

\* The commit marker of a deletion keeps the invariant.
LEMMA DeleteCatalogInv == IInv /\ DeleteCatalog => IInv'
<1>. SUFFICES ASSUME IInv, DeleteCatalog PROVE IInv'
  OBVIOUS
<1>. USE DEF DeleteCatalog, Publish
<1>1. /\ disk.checkpoint # Nil /\ disk.pending # Nil
      /\ disk.pending.type = "delete"
      /\ mem.checkpoint = disk.checkpoint /\ at = Nil
  BY DEF IInv, StepOK
<1>2. /\ disk' \in Disk
      /\ disk'.catalog = disk.pending.afterCatalog
      /\ disk'.data = disk.data /\ disk'.index = disk.index
      /\ disk'.checkpoint = disk.checkpoint /\ disk'.pending = disk.pending
  BY <1>1, StateSet, PendingFacts DEF IInv, TypeOK
<1>3. FilesOK(disk)'
  <2>1. DeletePending(disk)'
    BY <1>1, <1>2, DeletingFacts DEF DeletePending, Intact
  <2>2. PendingOK(disk.pending)'
    BY <1>1, <1>2, PendingFacts
  <2>. QED  BY <1>1, <1>2, <2>1, <2>2, PendingFacts, NilAssumption DEF IInv, FilesOK
<1>4. mem' = [catalog |-> disk.pending.afterCatalog, checkpoint |-> disk.checkpoint]
  BY <1>1 DEF IInv, TypeOK
<1>5. TypeOK'
  <2>1. mem' \in [catalog: Catalog \union {Nil}, checkpoint: Checkpoint \union {Nil}]
    BY <1>1, <1>4, PendingFacts
  <2>. QED  BY <1>1, <1>2, <2>1, PendingFacts DEF IInv, TypeOK, Steps
<1>6. FilesOK(safe)'
  BY SafeKept DEF IInv, TypeOK
<1>7. StepOK'
  <2>1. Deleting'
    BY <1>1, <1>2, <1>4 DEF Deleting, Current
  <2>. QED  BY <1>1, <2>1 DEF StepOK
<1>8. OffsetsOK'
  BY <1>2 DEF IInv, OffsetsOK, Offset
<1>. QED  BY <1>3, <1>5, <1>6, <1>7, <1>8 DEF IInv

\* unlink() of a data file keeps the invariant.
LEMMA DeleteDataInv ==
  ASSUME IInv, NEW h \in Hours, DeleteData(h)
  PROVE  IInv'
<1>. USE DEF DeleteData
<1>1. Deleting /\ h \in todo
  BY DEF IInv, StepOK
<1>2. disk.checkpoint # Nil /\ disk.pending # Nil /\ disk.pending.type = "delete"
      /\ h \in disk.pending.changed
  BY <1>1 DEF Deleting, Current
<1>3. /\ disk' \in Disk
      /\ disk'.data[h] = Nil
      /\ \A g \in Hours : g # h => disk'.data[g] = disk.data[g]
      /\ disk'.index = disk.index
      /\ disk'.catalog = disk.catalog /\ disk'.checkpoint = disk.checkpoint
      /\ disk'.pending = disk.pending
  <2>1. disk' = [disk EXCEPT !.data[h] = Nil]
    OBVIOUS
  <2>2. disk \in Disk
    BY DEF IInv, TypeOK
  <2>. HIDE DEF DeleteData
  <2>. QED  BY <2>1, <2>2, DataSet
<1>4. \A g \in Hours \ {h} : \A e : Intact(disk', g, e) <=> Intact(disk, g, e)
  <2>. HIDE DEF DeleteData
  <2>. QED  BY <1>3 DEF Intact
<1>5. FilesOK(disk)'
  <2>1. DeletePending(disk)'
    BY <1>2, <1>3, <1>4, DeletingFacts DEF DeletePending
  <2>2. PendingOK(disk.pending)'
    BY <1>2, <1>3, PendingFacts
  <2>. QED  BY <1>2, <1>3, <2>1, <2>2, PendingFacts, NilAssumption DEF IInv, FilesOK
<1>6. TypeOK'
  BY <1>3 DEF IInv, TypeOK, Steps
<1>7. FilesOK(safe)'
  BY SafeKept DEF IInv, TypeOK
<1>8. StepOK'
  <2>1. Deleting'
    BY <1>1, <1>3, <1>4, <1>2, PendingFacts DEF Deleting, Current
  <2>. QED  BY <1>1, <1>3, <2>1 DEF StepOK
<1>9. OffsetsOK'
  BY <1>3 DEF IInv, OffsetsOK, Offset
<1>. QED  BY <1>5, <1>6, <1>7, <1>8, <1>9 DEF IInv

\* rm() of an index keeps the invariant.
LEMMA DeleteIndexInv == IInv /\ DeleteIndex => IInv'
<1>. SUFFICES ASSUME IInv, DeleteIndex PROVE IInv'
  OBVIOUS
<1>. USE DEF DeleteIndex, Publish
<1>1. Deleting /\ at \in todo /\ disk.data[at] = Nil
  BY DEF IInv, StepOK
<1>2. disk.checkpoint # Nil /\ disk.pending # Nil /\ disk.pending.type = "delete"
      /\ at \in disk.pending.changed /\ at \in Hours
  BY <1>1, PendingFacts DEF Deleting, Current
<1>3. /\ disk' \in Disk
      /\ disk'.index[at] = Nil
      /\ \A g \in Hours : g # at => disk'.index[g] = disk.index[g]
      /\ disk'.data = disk.data
      /\ disk'.catalog = disk.catalog /\ disk'.checkpoint = disk.checkpoint
      /\ disk'.pending = disk.pending
  BY <1>2, IndexSet DEF IInv, TypeOK
<1>4. \A g \in Hours \ {at} : \A e : Intact(disk', g, e) <=> Intact(disk, g, e)
  BY <1>3 DEF Intact
<1>5. FilesOK(disk)'
  <2>1. DeletePending(disk)'
    BY <1>2, <1>3, <1>4, DeletingFacts DEF DeletePending
  <2>2. PendingOK(disk.pending)'
    BY <1>2, <1>3, PendingFacts
  <2>. QED  BY <1>2, <1>3, <2>1, <2>2, PendingFacts, NilAssumption DEF IInv, FilesOK
<1>6. TypeOK'
  BY <1>3 DEF IInv, TypeOK, Steps
<1>7. FilesOK(safe)'
  BY SafeKept DEF IInv, TypeOK
<1>8. StepOK'
  <2>1. Deleting'
    BY <1>1, <1>2, <1>3, <1>4, PendingFacts DEF Deleting, Current
  <2>2. Intact(disk', at, Nil)
    BY <1>1, <1>3 DEF Intact, Held
  <2>. QED  BY <1>1, <1>3, <2>1, <2>2 DEF StepOK
<1>9. OffsetsOK'
  BY <1>3 DEF IInv, OffsetsOK, Offset
<1>. QED  BY <1>5, <1>6, <1>7, <1>8, <1>9 DEF IInv

\* onDelete() keeps the invariant.
LEMMA DeleteNoticeInv == IInv /\ DeleteNotice => IInv'
<1>. SUFFICES ASSUME IInv, DeleteNotice PROVE IInv'
  OBVIOUS
<1>. USE DEF DeleteNotice
<1>1. Deleting /\ at \in todo /\ Intact(disk, at, Nil)
  BY DEF IInv, StepOK
<1>2. LinesIn(Before(at).members) \subseteq Lines
  <2>1. Before(at) \in Entry
    BY <1>1, DeletingFacts DEF Deleting, Current
  <2>2. Before(at).members \in Content
    BY <2>1 DEF Entry
  <2>3. \A i \in DOMAIN Before(at).members : Before(at).members[i] \in SUBSET Lines
    BY <2>2, LenProperties, ElementOfSeq DEF Content, Member
  <2>. QED  BY <2>3 DEF LinesIn
<1>3. TypeOK'
  BY <1>2 DEF IInv, TypeOK, Steps
<1>4. FilesOK(disk)' /\ FilesOK(safe)'
  BY DiskKept, SafeKept DEF IInv, TypeOK
<1>5. StepOK'
  <2>1. Deleting'
    BY <1>1 DEF Deleting, Current, Intact
  <2>. QED  BY <2>1 DEF StepOK
<1>6. OffsetsOK'
  BY DEF IInv, OffsetsOK, Offset
<1>. QED  BY <1>3, <1>4, <1>5, <1>6 DEF IInv

\* The end of deleteFiles() keeps the invariant.
LEMMA DeleteDoneInv == IInv /\ DeleteDone => IInv'
<1>. SUFFICES ASSUME IInv, DeleteDone PROVE IInv'
  OBVIOUS
<1>. USE DEF DeleteDone
<1>1. Deleting /\ todo = {} /\ at = Nil
  BY DEF IInv, StepOK
<1>2. disk.checkpoint # Nil /\ disk.pending # Nil /\ disk.pending.type = "delete"
  BY <1>1 DEF Deleting, Current
<1>3. TypeOK'
  BY DEF IInv, TypeOK, Steps
<1>4. FilesOK(disk)' /\ FilesOK(safe)'
  BY DiskKept, SafeKept DEF IInv, TypeOK
<1>5. StepOK'
  <2>1. \A h \in Hours : Intact(disk, h, disk.pending.afterCatalog.hours[h])
    <3>1. \A h \in disk.pending.changed : Intact(disk, h, After(h))
      BY <1>1, <1>2, DeletingFacts DEF Deleting
    <3>2. \A h \in Hours \ disk.pending.changed : Intact(disk, h, After(h))
      BY <1>2, DeletingFacts, PendingFacts DEF DeletePending, PendingOK, After
    <3>. QED  BY <3>1, <3>2 DEF After
  <2>2. NothingPending(disk)
    BY <1>1, <1>2, <2>1, DeletingFacts DEF NothingPending, Deleting
  <2>. QED  BY <1>1, <1>2, <2>2 DEF StepOK, Deleting, Current, NothingPending, Intact
<1>6. OffsetsOK'
  BY DEF IInv, OffsetsOK, Offset
<1>. QED  BY <1>3, <1>4, <1>5, <1>6 DEF IInv

-------------------------------------------------------------------------------
(* Opening the store and recovering a transaction.                         *)

\* The first catalog of a new archive keeps the invariant.
LEMMA InitCatalogInv == IInv /\ InitCatalog => IInv'
<1>. SUFFICES ASSUME IInv, InitCatalog PROVE IInv'
  OBVIOUS
<1>. USE DEF InitCatalog, Publish
<1>1. /\ disk.checkpoint = Nil /\ NeverOpened(disk) /\ todo = {} /\ at = Nil
  BY DEF IInv, StepOK, FilesOK, Pristine
<1>2. EmptyCatalog \in Catalog
  BY DEF EmptyCatalog, Catalog
<1>3. /\ disk' \in Disk /\ disk'.catalog = EmptyCatalog
      /\ disk'.data = disk.data /\ disk'.index = disk.index
      /\ disk'.checkpoint = disk.checkpoint /\ disk'.pending = disk.pending
  BY <1>2, StateSet DEF IInv, TypeOK
<1>4. FilesOK(disk)'
  BY <1>1, <1>3 DEF FilesOK, NeverOpened
<1>5. TypeOK'
  BY <1>3 DEF IInv, TypeOK, Steps
<1>6. FilesOK(safe)'
  BY SafeKept DEF IInv, TypeOK
<1>7. StepOK'
  BY <1>1, <1>3 DEF StepOK
<1>8. OffsetsOK'
  BY <1>3 DEF IInv, OffsetsOK, Offset
<1>. QED  BY <1>4, <1>5, <1>6, <1>7, <1>8 DEF IInv

\* The first checkpoint of a new archive keeps the invariant.
LEMMA InitCheckpointInv == IInv /\ InitCheckpoint => IInv'
<1>. SUFFICES ASSUME IInv, InitCheckpoint PROVE IInv'
  OBVIOUS
<1>. USE DEF InitCheckpoint, Publish
<1>1. /\ disk.checkpoint = Nil /\ NeverOpened(disk) /\ disk.catalog = EmptyCatalog
      /\ todo = {} /\ at = Nil
  BY DEF IInv, StepOK, FilesOK
<1>2. EmptyCheckpoint \in Checkpoint /\ EmptyCatalog \in Catalog /\ EmptyCheckpoint.tid = 0
      /\ EmptyCheckpoint.offset = 0 /\ EmptyCatalog.tid = 0
      /\ \A h \in Hours : EmptyCatalog.hours[h] = Nil
  BY BoundsAssumption DEF EmptyCheckpoint, Checkpoint, EmptyCatalog, Catalog
<1>3. /\ disk' \in Disk /\ disk'.checkpoint = EmptyCheckpoint
      /\ disk'.data = disk.data /\ disk'.index = disk.index
      /\ disk'.catalog = disk.catalog /\ disk'.pending = disk.pending
  BY <1>2, StateSet DEF IInv, TypeOK
<1>4. NothingPending(disk')
  BY <1>1, <1>2, <1>3 DEF NeverOpened, NothingPending, Intact, Held
<1>5. FilesOK(disk)'
  BY <1>1, <1>2, <1>3, <1>4, NilAssumption DEF FilesOK, NeverOpened, IInv, TypeOK
<1>6. TypeOK'
  BY <1>2, <1>3 DEF IInv, TypeOK, Steps
<1>7. FilesOK(safe)'
  BY SafeKept DEF IInv, TypeOK
<1>8. StepOK'
  <2>1. Quiet'
    BY <1>1, <1>2, <1>3, NilAssumption DEF Quiet, Current, NeverOpened
  <2>. QED  BY <1>1, <2>1 DEF StepOK
<1>9. OffsetsOK'
  <2>1. Offset(disk) = 0 /\ Offset(disk') = 0
    BY <1>1, <1>2, <1>3 DEF Offset
  <2>. QED  BY <2>1 DEF IInv, OffsetsOK, Offset
<1>. QED  BY <1>5, <1>6, <1>7, <1>8, <1>9 DEF IInv

\* Files as the entry says are coherent with it.
LEMMA IntactDescribes ==
  ASSUME NEW d, NEW h \in Hours, NEW e \in Entry, e # Nil, Intact(d, h, e)
  PROVE  Describes(e, d.data[h], d.index[h])
<1>1. e.members \in Content /\ Held(e) = e.members /\ Held(e) # Nil
  BY HeldTypes
<1>. QED  BY <1>1 DEF Describes, Intact

\* init() finds a transaction it can complete or undo: see LoadFails.
LEMMA LoadFacts ==
  ASSUME IInv, pc = "load"
  PROVE  /\ ~LoadFails
         /\ mem = [catalog |-> disk.catalog, checkpoint |-> disk.checkpoint]
         /\ RecoverForward => Committed(disk)
         /\ RecoverBack => Uncommitted(disk)
<1>1. /\ mem = [catalog |-> disk.catalog, checkpoint |-> disk.checkpoint]
      /\ mem.catalog = disk.catalog /\ mem.checkpoint = disk.checkpoint
  BY DEF IInv, StepOK
<1>2. CASE disk.checkpoint = Nil
  <2>1. NeverOpened(disk)
    BY <1>2 DEF IInv, FilesOK
  <2>. QED  BY <1>1, <1>2, <2>1
            DEF NeverOpened, LoadFails, Pristine, RecoverForward, RecoverBack, Loaded
<1>3. CASE disk.checkpoint # Nil /\ disk.pending = Nil
  BY <1>1, <1>3 DEF LoadFails, RecoverForward, RecoverBack
<1>4. CASE disk.checkpoint # Nil /\ disk.pending # Nil
  <2>1. PendingOK(disk.pending)
    BY <1>4, PendingFacts
  <2>2. CASE disk.pending.type = "delete"
    <3>1. CanDelete
      BY <1>1, <1>4, <2>2, DeletingFacts DEF CanDelete
    <3>. QED  BY <1>1, <1>4, <2>2, <3>1
              DEF LoadFails, RecoverForward, RecoverBack, CanRollForward, CanRollBack
  <2>3. CASE disk.pending.type # "delete" /\ Committed(disk)
    <3>1. /\ mem.checkpoint.tid = disk.pending.tid
          /\ disk.pending.tid # disk.pending.prev
      BY <1>1, <2>1, <2>3 DEF Committed, PendingOK
    <3>2. \A h \in disk.pending.changed : After(h) \in Entry /\ After(h) # Nil /\ h \in Hours
      BY <1>4, <2>1, <2>3, PendingFacts, PendingTypes DEF PendingOK, WriteShape, After
    <3>3. \A h \in disk.pending.changed :
            /\ Describes(After(h), disk.data[h], disk.index[h])
            /\ disk.index[h] = After(h).members
            /\ disk.data[h] = After(h).members
      BY <2>3, <3>2, IntactDescribes, HeldTypes DEF Committed, Intact, After
    <3>4. CanRollForward
      BY <1>1, <2>3, <3>1, <3>3 DEF CanRollForward, Verified, Committed
    <3>. QED  BY <1>1, <1>4, <2>3, <3>1, <3>4
              DEF LoadFails, RecoverForward, RecoverBack, CanRollBack
  <2>4. CASE disk.pending.type # "delete" /\ Uncommitted(disk)
    <3>1. CanRollBack /\ ~CanRollForward
      BY <1>1, <2>1, <2>4 DEF Uncommitted, PendingOK, CanRollBack, CanRollForward
    <3>. QED  BY <1>1, <1>4, <2>4, <3>1 DEF LoadFails, RecoverForward, RecoverBack
  <2>. QED  BY <1>4, <2>2, <2>3, <2>4 DEF IInv, FilesOK
<1>. QED  BY <1>2, <1>3, <1>4

\* The verdict of init() on a pending transaction keeps the invariant.
LEMMA LoadInv == IInv /\ Load => IInv'
<1>. SUFFICES ASSUME IInv, Load PROVE IInv'
  OBVIOUS
<1>1. /\ UNCHANGED <<disk, safe, unsynced, mem, at, removed, recovering, comp,
                     tx, acked, noticed, faults>>
      /\ pc = "load"
  BY DEF Load, LoadClean, RecoverForward, RecoverBack, RecoverDelete, LoadFails, Loaded
<1>2. /\ mem = [catalog |-> disk.catalog, checkpoint |-> disk.checkpoint]
      /\ ~unsynced /\ todo = {} /\ at = Nil
  BY <1>1 DEF IInv, StepOK
<1>3. /\ pc' \in Steps /\ todo' \in SUBSET Hours /\ pc' \notin {"idle", "broken"}
      /\ pc' # "down"
  BY <1>1, <1>2, LoadFacts, PendingFacts
     DEF Load, LoadClean, RecoverForward, RecoverBack, RecoverDelete, Loaded, Steps, IInv, TypeOK
<1>4. TypeOK'
  BY <1>1, <1>3 DEF IInv, TypeOK
<1>5. FilesOK(disk)' /\ FilesOK(safe)'
  BY <1>1, DiskKept, SafeKept DEF IInv, TypeOK
<1>6. StepOK'
  <2>1. CASE LoadClean
    BY <1>1, <1>2, <2>1 DEF LoadClean, Loaded, StepOK, Quiet, Current
  <2>2. CASE RecoverForward
    <3>1. Committed(disk) /\ disk.checkpoint # Nil /\ disk.pending # Nil
      BY <1>1, <1>2, <2>2, LoadFacts DEF RecoverForward, Loaded
    <3>2. NothingPending(disk)
      BY <3>1, PendingFacts DEF Committed, NothingPending, PendingOK
    <3>3. Current' /\ NothingPending(disk)'
      BY <1>1, <1>2, <3>1, <3>2 DEF Current, NothingPending, Intact
    <3>. QED  BY <1>1, <1>2, <2>2, <3>1, <3>3 DEF RecoverForward, StepOK
  <2>3. CASE RecoverBack
    <3>1. /\ Uncommitted(disk) /\ disk.checkpoint # Nil /\ disk.pending # Nil
          /\ disk.pending.type # "delete"
      BY <1>1, <1>2, <2>3, LoadFacts DEF RecoverBack, Loaded, CanRollBack
    <3>2. Undoing'
      BY <1>1, <1>2, <2>3, <3>1 DEF Undoing, RecoverBack, Uncommitted
    <3>. QED  BY <1>1, <1>2, <2>3, <3>2 DEF RecoverBack, StepOK
  <2>4. CASE RecoverDelete
    BY <1>1, <1>2, <2>4 DEF RecoverDelete, CanDelete, Loaded, StepOK
  <2>. QED  BY <1>1, <2>1, <2>2, <2>3, <2>4, LoadFacts DEF Load
<1>7. OffsetsOK'
  BY <1>1, <1>3 DEF IInv, OffsetsOK, Offset, StepOK
<1>. QED  BY <1>4, <1>5, <1>6, <1>7 DEF IInv

\* While a rollback runs, the marker on disk is the one before the transaction.
LEMMA UndoingFacts ==
  ASSUME IInv, Undoing
  PROVE  /\ Uncommitted(disk)
         /\ disk.pending # Nil /\ disk.checkpoint # Nil
         /\ disk.pending.type # "delete"
<1>1. disk.pending # Nil /\ disk.checkpoint # Nil /\ disk.pending.type # "delete"
  BY DEF Undoing
<1>2. Uncommitted(disk)
  <2>1. Committed(disk) \/ Uncommitted(disk)
    BY <1>1 DEF IInv, FilesOK
  <2>2. ~Committed(disk)
    BY <1>1, PendingFacts DEF PendingOK, Committed, Undoing
  <2>. QED  BY <2>1, <2>2
<1>. QED  BY <1>1, <1>2

\* Restoring the bytes of one hour keeps the invariant.
LEMMA RollbackDataInv ==
  ASSUME IInv, NEW h \in Hours, RollbackData(h)
  PROVE  IInv'
<1>1. /\ Undoing /\ h \in todo /\ ~unsynced
      /\ at' = h
      /\ UNCHANGED <<mem, todo, removed, recovering, comp, tx, acked, noticed, faults>>
  BY DEF RollbackData, IInv, StepOK
<1>2. /\ Uncommitted(disk) /\ disk.pending # Nil /\ disk.checkpoint # Nil
      /\ disk.pending.type # "delete"
      /\ h \in disk.pending.changed
      /\ Before(h) \in Entry \union {Nil}
  BY <1>1, UndoingFacts, PendingFacts DEF Undoing
<1>3. CanRestore(h) /\ Restored(h) = Held(Before(h))
  <2>1. Undoable(disk, h)
    BY <1>2 DEF Uncommitted
  <2>2. CASE disk.pending.type = "compact"
    <3>1. Before(h) # Nil
      BY <1>2, <2>2, PendingFacts DEF PendingOK, Before
    <3>. QED  BY <1>2, <2>1, <2>2, <3>1, HeldTypes DEF CanRestore, Restored, Undoable, Before
  <2>3. CASE disk.pending.type # "compact" /\ Before(h) = Nil
    BY <2>3 DEF CanRestore, Restored, Held
  <2>4. CASE disk.pending.type # "compact" /\ Before(h) # Nil
    BY <1>2, <2>1, <2>4, HeldTypes DEF CanRestore, Restored, Undoable, Before, SizeBefore
  <2>. QED  BY <2>2, <2>3, <2>4
<1>4. /\ disk' = [disk EXCEPT !.data[h] = Held(Before(h))]
      /\ unsynced' = TRUE /\ safe' = safe /\ pc' = "rollbackIndex"
  BY <1>3 DEF RollbackData, Publish
<1>5. Held(Before(h)) \in Content \union {Nil}
  BY <1>2, HeldTypes
<1>6. Before(h) # Nil => /\ Held(Before(h)) # Nil
                         /\ Len(Held(Before(h))) >= Len(Before(h).members)
                         /\ Prefix(Held(Before(h)), Len(Before(h).members)) = Before(h).members
  BY <1>2, HeldTypes, PrefixFull, ContentSize
<1>7. FilesOK(disk)' /\ Uncommitted(disk)'
  BY <1>1, <1>2, <1>4, <1>5, <1>6, UndoableData
<1>8. /\ disk' \in Disk
      /\ disk'.data[h] = Held(Before(h))
      /\ \A g \in Hours : g # h => disk'.data[g] = disk.data[g]
      /\ disk'.index = disk.index
      /\ disk'.catalog = disk.catalog /\ disk'.checkpoint = disk.checkpoint
      /\ disk'.pending = disk.pending
  BY <1>4, <1>5, DataSet DEF IInv, TypeOK
<1>9. TypeOK'
  BY <1>1, <1>4, <1>8 DEF IInv, TypeOK, Steps
<1>10. FilesOK(safe)'
  BY <1>1, <1>4, SafeKept DEF IInv, TypeOK
<1>11. StepOK'
  <2>1. \A g \in Hours \ {h} : \A e : Intact(disk', g, e) <=> Intact(disk, g, e)
    BY <1>8 DEF Intact
  <2>2. Undoing'
    BY <1>1, <1>2, <1>8, <2>1, PendingFacts DEF Undoing, Before
  <2>3. disk'.data[at'] = Held(Before(at))'
    BY <1>1, <1>8 DEF Held, Before
  <2>. QED  BY <1>1, <1>4, <2>2, <2>3 DEF StepOK
<1>12. OffsetsOK'
  BY <1>1, <1>4, <1>8 DEF IInv, OffsetsOK, Offset
<1>. QED  BY <1>7, <1>9, <1>10, <1>11, <1>12 DEF IInv

\* Restoring the index of one hour keeps the invariant.
LEMMA RollbackIndexInv == IInv /\ RollbackIndex => IInv'
<1>. SUFFICES ASSUME IInv, RollbackIndex PROVE IInv'
  OBVIOUS
<1>1. /\ Undoing /\ at \in todo /\ disk.data[at] = Held(Before(at))
      /\ disk' = [disk EXCEPT !.index[at] = Held(Before(at))]
      /\ ~unsynced /\ unsynced' = TRUE /\ pc' = "rollback"
      /\ todo' = todo \ {at} /\ at' = Nil
      /\ UNCHANGED <<safe, mem, removed, recovering, comp, tx, acked, noticed, faults>>
  BY DEF IInv, StepOK, RollbackIndex, Publish, Held
<1>2. /\ Uncommitted(disk) /\ disk.pending # Nil /\ disk.checkpoint # Nil
      /\ disk.pending.type # "delete"
      /\ at \in disk.pending.changed /\ at \in Hours
      /\ Held(Before(at)) \in Content \union {Nil}
  BY <1>1, UndoingFacts, PendingFacts, HeldTypes DEF Undoing
<1>3. FilesOK(disk)' /\ Uncommitted(disk)'
  BY <1>1, <1>2, UndoableIndex
<1>4. /\ disk' \in Disk
      /\ disk'.index[at] = Held(Before(at))
      /\ \A g \in Hours : g # at => disk'.index[g] = disk.index[g]
      /\ disk'.data = disk.data
      /\ disk'.catalog = disk.catalog /\ disk'.checkpoint = disk.checkpoint
      /\ disk'.pending = disk.pending
  <2>1. disk \in Disk
    BY DEF IInv, TypeOK
  <2>. QED  BY <1>1, <1>2, <2>1, IndexSet
<1>5. TypeOK'
  <2>1. todo' \in SUBSET Hours /\ pc' \in Steps /\ pc' # "idle"
    BY <1>1 DEF IInv, TypeOK, Steps
  <2>. QED  BY <1>1, <1>4, <2>1 DEF IInv, TypeOK
<1>6. FilesOK(safe)'
  BY <1>1, SafeKept DEF IInv, TypeOK
<1>7. StepOK'
  <2>1. \A g \in Hours \ {at} : \A e : Intact(disk', g, e) <=> Intact(disk, g, e)
    BY <1>4 DEF Intact
  <2>2. Intact(disk', at, Before(at))
    BY <1>1, <1>4 DEF Intact
  <2>3. Undoing'
    BY <1>1, <1>2, <1>4, <2>1, <2>2, PendingFacts DEF Undoing, Before
  <2>. QED  BY <1>1, <2>3 DEF StepOK
<1>8. OffsetsOK'
  BY <1>1, <1>4 DEF IInv, OffsetsOK, Offset
<1>. QED  BY <1>3, <1>5, <1>6, <1>7, <1>8 DEF IInv

\* Restoring the catalog keeps the invariant.
LEMMA RollbackCatalogInv == IInv /\ RollbackCatalog => IInv'
<1>. SUFFICES ASSUME IInv, RollbackCatalog PROVE IInv'
  OBVIOUS
<1>. USE DEF RollbackCatalog, Publish
<1>1. Undoing /\ todo = {} /\ at = Nil
  BY DEF IInv, StepOK
<1>2. /\ Uncommitted(disk) /\ disk.pending # Nil /\ disk.checkpoint # Nil
      /\ disk.pending.type # "delete"
  BY <1>1, UndoingFacts
<1>3. /\ disk' \in Disk /\ disk'.catalog = disk.pending.beforeCatalog
      /\ disk'.data = disk.data /\ disk'.index = disk.index
      /\ disk'.checkpoint = disk.checkpoint /\ disk'.pending = disk.pending
      /\ disk'.backup = disk.backup
  BY <1>2, StateSet, PendingFacts DEF IInv, TypeOK
<1>4. Uncommitted(disk)'
  BY <1>2, <1>3 DEF Uncommitted, Undoable, Intact
<1>5. FilesOK(disk)'
  <2>1. PendingOK(disk.pending)'
    BY <1>2, <1>3, PendingFacts
  <2>. QED  BY <1>2, <1>3, <1>4, <2>1, PendingFacts, NilAssumption DEF IInv, FilesOK
<1>6. mem' = [catalog |-> disk.pending.beforeCatalog, checkpoint |-> disk.checkpoint]
  BY <1>1 DEF Undoing, IInv, TypeOK
<1>7. TypeOK'
  <2>1. mem' \in [catalog: Catalog \union {Nil}, checkpoint: Checkpoint \union {Nil}]
    <3>. HIDE DEF RollbackCatalog
    <3>1. disk.pending.beforeCatalog \in Catalog /\ disk.checkpoint \in Checkpoint
      BY <1>2, PendingFacts
    <3>. QED  BY <1>6, <3>1
  <2>. QED  BY <1>3, <2>1 DEF IInv, TypeOK, Steps
<1>8. FilesOK(safe)'
  BY SafeKept DEF IInv, TypeOK
<1>9. StepOK'
  <2>1. \A h \in Hours : Intact(disk, h, Before(h))
    BY <1>1, <1>2 DEF Undoing, Uncommitted, Before
  <2>2. disk.pending.beforeCatalog.tid = disk.checkpoint.tid
    BY <1>2, PendingFacts DEF PendingOK, Uncommitted
  <2>3. NothingPending(disk)'
    BY <1>3, <2>1, <2>2 DEF NothingPending, Intact, Before
  <2>4. Current'
    BY <1>2, <1>3, <1>6 DEF Current
  <2>. QED  BY <1>1, <1>2, <1>3, <2>3, <2>4 DEF StepOK
<1>10. OffsetsOK'
  BY <1>3 DEF IInv, OffsetsOK, Offset
<1>. QED  BY <1>5, <1>7, <1>8, <1>9, <1>10 DEF IInv

\* An open store with nothing pending passes the last checks of init().
LEMMA CheckFacts ==
  ASSUME IInv, Quiet
  PROVE  Coherent
<1>1. \A h \in Hours : disk.catalog.hours[h] \in Entry \union {Nil}
  BY QuietFacts, CatalogTypes
<1>2. \A h \in Hours : disk.catalog.hours[h] # Nil =>
        Describes(disk.catalog.hours[h], disk.data[h], disk.index[h])
  BY <1>1, QuietFacts, IntactDescribes DEF NothingPending
<1>. QED  BY <1>2, QuietFacts DEF Coherent, NothingPending

\* The last checks of init() keep the invariant.
LEMMA CheckInv == IInv /\ Check => IInv'
<1>. SUFFICES ASSUME IInv, Check PROVE IInv'
  OBVIOUS
<1>1. Quiet /\ todo = {} /\ at = Nil /\ ~unsynced /\ pc = "check"
  BY DEF IInv, StepOK, Check
<1>2. /\ disk' = [disk EXCEPT !.backup = Nil]
      /\ recovering' = FALSE /\ acked' = mem.checkpoint.offset /\ pc' = "idle"
      /\ UNCHANGED <<safe, unsynced, mem, todo, at, removed, comp, tx, noticed, faults>>
  BY <1>1, CheckFacts DEF Check
<1>3. /\ disk' \in Disk
      /\ disk'.pending = Nil
      /\ disk'.data = disk.data /\ disk'.index = disk.index
      /\ disk'.catalog = disk.catalog /\ disk'.checkpoint = disk.checkpoint
  BY <1>1, <1>2, StateSet, QuietFacts DEF IInv, TypeOK
<1>4. FilesOK(disk)'
  BY <1>1, <1>2, <1>3, QuietFacts DEF FilesOK, NothingPending, Intact
<1>5. acked' <= Offset(safe) /\ acked' \in 0..MaxOffset
  <2>1. Offset(safe) = mem.checkpoint.offset
    BY <1>1, QuietFacts DEF IInv, OffsetsOK, Offset
  <2>2. Offset(safe) \in 0..MaxOffset /\ Offset(safe) \in Nat
    BY OffsetType DEF IInv, TypeOK
  <2>. QED  BY <1>2, <2>1, <2>2
<1>6. TypeOK'
  BY <1>1, <1>2, <1>3, <1>5 DEF IInv, TypeOK, Steps
<1>7. FilesOK(safe)'
  BY <1>2, SafeKept DEF IInv, TypeOK
<1>8. StepOK'
  <2>1. Quiet'
    BY <1>1, <1>2, <1>3 DEF Quiet, Current
  <2>. QED  BY <1>1, <1>2, <2>1 DEF StepOK
<1>9. OffsetsOK'
  BY <1>1, <1>2, <1>3, <1>5 DEF IInv, OffsetsOK, Offset
<1>. QED  BY <1>4, <1>6, <1>7, <1>8, <1>9 DEF IInv

-------------------------------------------------------------------------------
(* The theorems.                                                           *)

\* Steps that change nothing keep the invariant.
LEMMA StutterInv == IInv /\ UNCHANGED vars => IInv'
<1>. SUFFICES ASSUME IInv, UNCHANGED vars PROVE IInv'
  OBVIOUS
<1>. USE DEF vars
<1>1. TypeOK'
  BY DEF IInv, TypeOK
<1>2. FilesOK(disk)' /\ FilesOK(safe)'
  BY DiskKept, SafeKept DEF IInv, TypeOK
<1>3. StepOK'
  BY StepKept
<1>4. OffsetsOK'
  BY DEF IInv, OffsetsOK, Offset
<1>. QED  BY <1>1, <1>2, <1>3, <1>4 DEF IInv

\* Every step of the store, a crash or a power loss included, keeps IInv.
LEMMA NextInv == IInv /\ [Next]_vars => IInv'
<1>. SUFFICES ASSUME IInv, [Next]_vars PROVE IInv'
  OBVIOUS
<1>1. CASE Request
  BY <1>1, CommitInv, ExpireInv, CompactSelectInv DEF Request
<1>2. CASE Sync
  BY <1>2, SyncInv
<1>3. CASE WriteStep
  BY <1>3, AppendPartialInv, AppendRestInv, PublishIndexInv, PublishCatalogInv,
     PublishCheckpointInv, FinishPendingInv, CleanupInv DEF WriteStep
<1>4. CASE CompactStep
  BY <1>4, CompactReadInv, CompactLinkInv, CompactPendingInv, CompactReplaceInv
     DEF CompactStep
<1>5. CASE DeleteStep
  BY <1>5, DeleteCatalogInv, DeleteDataInv, DeleteIndexInv, DeleteNoticeInv, DeleteDoneInv
     DEF DeleteStep
<1>6. CASE OpenStep
  BY <1>6, OpenInv, InitCatalogInv, InitCheckpointInv, LoadInv, RollbackDataInv,
     RollbackIndexInv, RollbackCatalogInv, CheckInv DEF OpenStep
<1>7. CASE Fault
  BY <1>7, CrashInv DEF Fault
<1>8. CASE UNCHANGED vars
  BY <1>8, StutterInv
<1>. QED  BY <1>1, <1>2, <1>3, <1>4, <1>5, <1>6, <1>7, <1>8 DEF Next

\* IInv holds in every reachable state, for every set of hours and all bounds.
THEOREM Invariance == Spec => []IInv
<1>. QED  BY InitInv, NextInv, PTL DEF Spec

\* The store's variables keep their types (TypeOK).
THEOREM TypeCorrect == Spec => []TypeOK
<1>1. IInv => TypeOK
  BY DEF IInv
<1>. QED  BY <1>1, Invariance, PTL

\* No sequence of crashes leaves files that init() and recover() refuse.
THEOREM RecoverySafe == Spec => []RecoveryNeverFails
<1>1. IInv => RecoveryNeverFails
  BY DEF IInv, StepOK, RecoveryNeverFails
<1>. QED  BY <1>1, Invariance, PTL

\* Whenever an operation may begin, memory, catalog, checkpoint, data and
\* index agree, and nothing is left over from a transaction.
THEOREM FilesSettled == Spec => []SettledFiles
<1>1. IInv => SettledFiles
  BY DEF IInv, StepOK, SettledFiles, Quiet, Current, FilesOK, NothingPending, Intact, Held
<1>. QED  BY <1>1, Invariance, PTL

\* An offset reported to the collector is never taken back.
THEOREM AckDurable == Spec => []AckedSurvives
<1>1. IInv => AckedSurvives
  BY DEF IInv, OffsetsOK, AckedSurvives
<1>. QED  BY <1>1, Invariance, PTL

-------------------------------------------------------------------------------
(* Lines and members.                                                      *)

\* One more member adds its lines.
LEMMA LinesAppend ==
  ASSUME NEW c \in Content, NEW m \in Member
  PROVE  LinesIn(Append(c, m)) = LinesIn(c) \union m
<1>1. /\ DOMAIN c = 1..Len(c) /\ Len(c) \in Nat
      /\ DOMAIN Append(c, m) = 1..(Len(c) + 1)
      /\ \A i \in 1..Len(c) : Append(c, m)[i] = c[i]
      /\ Append(c, m)[Len(c) + 1] = m
  BY AppendProperties, LenProperties DEF Content
<1>2. \A l : l \in LinesIn(Append(c, m)) <=> \E i \in 1..(Len(c) + 1) : l \in Append(c, m)[i]
  BY <1>1 DEF LinesIn
<1>3. \A l : l \in LinesIn(c) <=> \E i \in 1..Len(c) : l \in c[i]
  BY <1>1 DEF LinesIn
<1>4. \A l : (\E i \in 1..(Len(c) + 1) : l \in Append(c, m)[i]) <=> l \in m \/ \E i \in 1..Len(c) : l \in c[i]
  <2>1. 1..(Len(c) + 1) = (1..Len(c)) \union {Len(c) + 1}
    BY <1>1
  <2> QED
    BY <1>1, <2>1
<1> QED
  BY <1>2, <1>3, <1>4

\* No member has no line, and a single one its own.
LEMMA LinesSingle ==
  ASSUME NEW m \in Member
  PROVE  /\ LinesIn(<<>>) = {} /\ DOMAIN <<>> = {}
         /\ LinesIn(<<m>>) = m /\ DOMAIN <<m>> = {1} /\ <<m>>[1] = m
<1>1. DOMAIN <<>> = {} /\ DOMAIN <<m>> = {1} /\ <<m>>[1] = m
  OBVIOUS
<1> QED
  BY <1>1 DEF LinesIn

\* An entry has members, and an hour without one has no line.
LEMMA MembersType ==
  ASSUME NEW e \in Entry \union {Nil}
  PROVE  /\ Members(e) \in Content
         /\ LinesOf(e) \subseteq Lines
         /\ LinesOf(Nil) = {} /\ Members(Nil) = <<>>
         /\ e # Nil => Members(e) = e.members /\ Held(e) = e.members
<1>1. Members(e) \in Content
  BY EmptyContent DEF Members, Entry
<1>2. \A i \in DOMAIN Members(e) : Members(e)[i] \subseteq Lines
  BY <1>1, LenProperties, ElementOfSeq DEF Content, Member
<1>3. LinesOf(e) \subseteq Lines
  BY <1>2 DEF LinesOf, LinesIn
<1>4. LinesIn(<<>>) = {}
  BY DEF LinesIn
<1> QED
  BY <1>1, <1>3, <1>4 DEF Members, LinesOf, Held

-------------------------------------------------------------------------------
(* What a recovery would settle on.                                        *)

\* The catalog and the offset that files stand for are of one side of the pending transaction.
LEMMA SettledIs ==
  ASSUME NEW d \in Disk, FilesOK(d)
  PROVE  /\ d.checkpoint = Nil => /\ \A h \in Hours : Settled(d).hours[h] = Nil
                                  /\ Offset(d) = 0 /\ d.pending = Nil
         /\ d.checkpoint # Nil => Offset(d) = d.checkpoint.offset /\ d.catalog # Nil
         /\ d.checkpoint # Nil /\ d.pending = Nil => Settled(d) = d.catalog /\ ~RollsBack(d)
         /\ d.checkpoint # Nil /\ d.pending # Nil =>
              \/ /\ RollsBack(d) /\ d.pending.type # "delete" /\ Uncommitted(d)
                 /\ Settled(d) = d.pending.beforeCatalog
                 /\ Offset(d) = d.pending.beforeCheckpoint.offset
              \/ /\ ~RollsBack(d) /\ d.pending.type # "delete" /\ Committed(d)
                 /\ Settled(d) = d.pending.afterCatalog
                 /\ Offset(d) = d.pending.afterCheckpoint.offset
              \/ /\ ~RollsBack(d) /\ d.pending.type = "delete" /\ DeletePending(d)
                 /\ Settled(d) = d.pending.afterCatalog
                 /\ Offset(d) = d.pending.beforeCheckpoint.offset
                 /\ Offset(d) = d.pending.afterCheckpoint.offset
<1>1. CASE d.checkpoint = Nil
  <2>1. d.pending = Nil /\ d.catalog \in {Nil, EmptyCatalog}
    BY <1>1 DEF FilesOK, NeverOpened
  <2>2. Settled(d) = EmptyCatalog
    BY <2>1 DEF Settled
  <2> QED
    BY <1>1, <2>1, <2>2 DEF EmptyCatalog, Offset
<1>2. CASE d.checkpoint # Nil /\ d.pending = Nil
  BY <1>2 DEF FilesOK, Settled, RollsBack, Offset
<1>3. CASE d.checkpoint # Nil /\ d.pending # Nil
  <2>1. PendingOK(d.pending) /\ d.catalog # Nil /\ Offset(d) = d.checkpoint.offset
    BY <1>3 DEF FilesOK, Offset
  <2>2. CASE d.pending.type = "delete"
    BY <1>3, <2>1, <2>2 DEF FilesOK, DeletePending, PendingOK, Settled, RollsBack
  <2>3. CASE d.pending.type # "delete"
    <3>1. Committed(d) \/ Uncommitted(d)
      BY <1>3, <2>3 DEF FilesOK
    <3>2. Committed(d) => ~RollsBack(d)
      BY <2>1 DEF Committed, RollsBack, PendingOK
    <3>3. Uncommitted(d) => RollsBack(d)
      BY <1>3, <2>1, <2>3 DEF Uncommitted, RollsBack, PendingOK
    <3> QED
      BY <1>3, <2>1, <2>3, <3>1, <3>2, <3>3 DEF Settled, Committed, Uncommitted
  <2> QED
    BY <1>3, <2>1, <2>2, <2>3
<1> QED
  BY <1>1, <1>2, <1>3

\* The hours that files stand for are entries, or have none.
LEMMA SettledType ==
  ASSUME NEW d \in Disk, FilesOK(d)
  PROVE  \A h \in Hours : Settled(d).hours[h] \in Entry \union {Nil}
BY SettledIs, DiskTypes, PendingTypes, CatalogTypes

\* What would be kept of an hour are the members of its entry.
LEMMA KeptIs ==
  ASSUME NEW d \in Disk, FilesOK(d), NEW h \in Hours
  PROVE  Kept(d, h) = Members(Settled(d).hours[h])
<1> DEFINE entry == Settled(d).hours[h]
           bytes == IF RollsBack(d) /\ d.pending.type = "compact" /\ h \in d.pending.changed
                    THEN d.backup ELSE d.data[h]
<1>1. entry \in Entry \union {Nil}
  BY SettledType
<1>2. CASE entry = Nil
  BY <1>2 DEF Kept, Members
<1>3. CASE entry # Nil
  <2>1. entry.members \in Content /\ Held(entry) = entry.members /\ entry.members # Nil
    BY <1>1, <1>3, HeldTypes
  <2>2. bytes # Nil /\ Prefix(bytes, Len(entry.members)) = entry.members
    <3>1. CASE bytes = Held(entry)
      BY <2>1, <3>1, PrefixFull
    <3>2. d.checkpoint # Nil
      BY <1>3, SettledIs
    <3>3. CASE d.pending = Nil
      BY <3>1, <3>2, <3>3, SettledIs DEF FilesOK, NothingPending, Intact
    <3>4. CASE d.pending # Nil /\ ~RollsBack(d) /\ d.pending.type # "delete"
      BY <3>1, <3>2, <3>4, SettledIs DEF Committed, Intact
    <3>5. CASE d.pending # Nil /\ ~RollsBack(d) /\ d.pending.type = "delete"
      <4>1. DeletePending(d) /\ PendingOK(d.pending) /\ Settled(d) = d.pending.afterCatalog
        BY <3>2, <3>5, SettledIs DEF FilesOK
      <4>2. h \notin d.pending.changed
        BY <1>3, <3>5, <4>1 DEF PendingOK
      <4>3. entry = d.pending.beforeCatalog.hours[h]
        BY <4>1, <4>2 DEF PendingOK
      <4> QED
        BY <3>1, <3>5, <4>1, <4>2, <4>3 DEF DeletePending, Intact
    <3>6. CASE d.pending # Nil /\ RollsBack(d)
      <4>1. Uncommitted(d) /\ Settled(d) = d.pending.beforeCatalog /\ d.pending.type # "delete"
        BY <3>2, <3>6, SettledIs
      <4>2. CASE h \notin d.pending.changed
        BY <3>1, <4>1, <4>2 DEF Uncommitted, Intact
      <4>3. CASE h \in d.pending.changed
        <5>1. Undoable(d, h)
          BY <4>1, <4>3 DEF Uncommitted
        <5> QED
          BY <1>3, <2>1, <3>1, <3>6, <4>1, <4>3, <5>1 DEF Undoable
      <4> QED
        BY <4>2, <4>3
    <3> QED
      BY <3>2, <3>3, <3>4, <3>5, <3>6
  <2>3. Kept(d, h) = IF entry = Nil \/ bytes = Nil THEN <<>> ELSE Prefix(bytes, Len(entry.members))
    BY DEF Kept
  <2> HIDE DEF entry, bytes
  <2>4. Kept(d, h) = entry.members
    BY <1>3, <2>2, <2>3
  <2> QED
    BY <1>3, <2>4 DEF Members, entry
<1> QED
  BY <1>2, <1>3

\* What a deletion removes is in the files it names, and in no other.
LEMMA DoomedIs ==
  ASSUME NEW d \in Disk, FilesOK(d), d.checkpoint # Nil, d.pending # Nil, d.pending.type = "delete"
  PROVE  \A h \in Hours : \/ /\ d.pending.afterCatalog.hours[h] = d.pending.beforeCatalog.hours[h]
                             /\ h \notin d.pending.changed
                          \/ /\ LinesOf(d.pending.beforeCatalog.hours[h]) \subseteq Doomed(d)
                             /\ h \in d.pending.changed
<1> SUFFICES ASSUME NEW h \in Hours, h \in d.pending.changed
             PROVE  LinesOf(d.pending.beforeCatalog.hours[h]) \subseteq Doomed(d)
  BY DEF FilesOK, PendingOK
<1>1. d.pending.beforeCatalog.hours[h] # Nil
  BY DEF FilesOK, PendingOK
<1> QED
  BY <1>1 DEF Doomed, LinesOf, Members

\* What the files stand for is well formed, and lacks only lines that are or will be noticed.
LEMMA SettledLog ==
  ASSUME NEW d \in Disk, FilesOK(d), FilesLog(d, tx, noticed), d.checkpoint # Nil
  PROVE  /\ CatalogOK(Settled(d), Offset(d), tx)
         /\ Covers(Settled(d), Offset(d), noticed \union Doomed(d))
<1>1. CASE d.pending = Nil
  BY <1>1, SettledIs DEF FilesLog, Covers
<1>2. CASE d.pending # Nil /\ d.pending.type # "delete"
  BY <1>2, SettledIs DEF FilesLog, Covers
<1>3. CASE d.pending # Nil /\ d.pending.type = "delete"
  <2>1. /\ CatalogOK(d.pending.afterCatalog, d.pending.afterCheckpoint.offset, tx)
        /\ Covers(d.pending.beforeCatalog, d.pending.beforeCheckpoint.offset, noticed)
    BY <1>3 DEF FilesLog
  <2>2. /\ Settled(d) = d.pending.afterCatalog
        /\ Offset(d) = d.pending.beforeCheckpoint.offset
        /\ Offset(d) = d.pending.afterCheckpoint.offset
    BY <1>3, SettledIs
  <2>3. Covers(d.pending.afterCatalog, Offset(d), noticed \union Doomed(d))
    BY <1>3, <2>1, <2>2, DoomedIs DEF Covers
  <2> QED
    BY <2>1, <2>2, <2>3
<1> QED
  BY <1>1, <1>2, <1>3

\* NoSilentLoss follows from what is known of the durable files.
LEMMA LogSilent == ASSUME IInv, FilesLog(safe, tx, noticed) PROVE NoSilentLoss
<1> SUFFICES ASSUME NEW l \in 1..Offset(safe)
             PROVE  \/ \E h \in Hours : l \in LinesIn(Kept(safe, h))
                    \/ l \in noticed \union Doomed(safe)
  BY DEF NoSilentLoss
<1>1. safe \in Disk /\ FilesOK(safe)
  BY DEF IInv, TypeOK
<1>2. safe.checkpoint # Nil
  BY DEF Offset
<1>3. l \in noticed \union Doomed(safe) \/ \E h \in Hours : l \in LinesOf(Settled(safe).hours[h])
  BY <1>1, <1>2, SettledLog DEF Covers
<1> QED
  BY <1>1, <1>3, KeptIs DEF LinesOf

\* So does NoLineTwice.
LEMMA LogTwice == ASSUME IInv, FilesLog(safe, tx, noticed) PROVE NoLineTwice
<1>1. safe \in Disk /\ FilesOK(safe)
  BY DEF IInv, TypeOK
<1>2. \A h \in Hours : Kept(safe, h) = Members(Settled(safe).hours[h])
  BY <1>1, KeptIs
<1>3. CASE safe.checkpoint # Nil
  <2>1. CatalogOK(Settled(safe), Offset(safe), tx)
    BY <1>1, <1>3, SettledLog
  <2> QED
    BY <1>2, <2>1 DEF NoLineTwice, CatalogOK, LinesOf
<1>4. CASE safe.checkpoint = Nil
  <2>1. \A h \in Hours : Kept(safe, h) = <<>>
    BY <1>1, <1>2, <1>4, SettledIs DEF Members
  <2>2. LinesIn(<<>>) = {} /\ DOMAIN <<>> = {}
    BY DEF LinesIn
  <2> QED
    BY <2>1, <2>2 DEF NoLineTwice
<1> QED
  BY <1>3, <1>4

-------------------------------------------------------------------------------
(* Steps that leave the state of the archive as it was.                    *)

\* What is known of the lines does not depend on bytes, and notices only add to it.
LEMMA FilesLogKept ==
  ASSUME NEW d \in Disk, FilesOK(d), NEW e, NEW last \in Nat, NEW last2 \in Nat, last <= last2,
         NEW known, NEW known2, known \subseteq known2,
         FilesLog(d, last, known),
         e.checkpoint = d.checkpoint, e.pending = d.pending, e.catalog = d.catalog \/ d.pending # Nil
  PROVE  FilesLog(e, last2, known2)
<1>1. ASSUME NEW c \in Catalog, NEW offset, CatalogOK(c, offset, last) PROVE CatalogOK(c, offset, last2)
  <2>1. \A h \in Hours : c.hours[h] # Nil => c.hours[h].fileId \in Nat
    BY CatalogTypes DEF Entry
  <2>2. \A h \in Hours : c.hours[h] # Nil => c.hours[h].fileId <= last
    BY <1>1 DEF CatalogOK
  <2>3. \A h \in Hours : c.hours[h] # Nil => c.hours[h].fileId <= last2
    BY <2>1, <2>2
  <2> QED
    BY <1>1, <2>3, Zenon DEF CatalogOK
<1>2. ASSUME NEW c, NEW offset, Covers(c, offset, known) PROVE Covers(c, offset, known2)
  BY <1>2 DEF Covers
<1>3. CASE d.checkpoint # Nil /\ d.pending = Nil
  <2>1. d.catalog \in Catalog
    BY <1>3, DiskTypes DEF FilesOK
  <2> QED
    BY <1>1, <1>2, <1>3, <2>1 DEF FilesLog
<1>4. CASE d.checkpoint # Nil /\ d.pending # Nil
  <2>1. d.pending.beforeCatalog \in Catalog /\ d.pending.afterCatalog \in Catalog
    BY <1>4, DiskTypes, PendingTypes
  <2> QED
    BY <1>1, <1>2, <1>4, <2>1 DEF FilesLog
<1> QED
  BY <1>3, <1>4 DEF FilesLog

\* Nor does the log they show.
LEMMA ViewKept ==
  ASSUME NEW d \in Disk, FilesOK(d), NEW e \in Disk, FilesOK(e),
         e.checkpoint = d.checkpoint, e.pending = d.pending, e.catalog = d.catalog \/ d.pending # Nil
  PROVE  View(e) = View(d)
<1>1. CASE d.checkpoint = Nil
  BY <1>1, SettledIs DEF View
<1>2. CASE d.checkpoint # Nil
  <2>1. RollsBack(e) <=> RollsBack(d)
    BY DEF RollsBack
  <2>2. Settled(e) = Settled(d) /\ Offset(e) = Offset(d)
    BY <1>2, <2>1, SettledIs DEF Settled
  <2> QED
    BY <2>2 DEF View
<1> QED
  BY <1>1, <1>2

\* Such a step, whatever it does to bytes, memory and notices.
SameState == /\ disk'.checkpoint = disk.checkpoint /\ disk'.pending = disk.pending
             /\ disk'.catalog = disk.catalog \/ disk.pending # Nil
             /\ tx' = tx

\* FilesLogKept and ViewKept for the visible files.
LEMMA SameLog ==
  ASSUME IInv, IInv', SameState, noticed \subseteq noticed', FilesLog(disk, tx, noticed)
  PROVE  FilesLog(disk, tx, noticed)' /\ View(disk)' = View(disk)
<1>1. disk \in Disk /\ disk' \in Disk /\ FilesOK(disk) /\ FilesOK(disk') /\ tx \in Nat /\ tx' \in Nat
  <2>1. FilesOK(disk)'
    BY DEF IInv
  <2> QED
    BY <2>1 DEF IInv, TypeOK, SameState, FilesOK
<1>2. FilesLog(disk', tx', noticed')
  BY <1>1, FilesLogKept DEF SameState
<1>3. View(disk') = View(disk)
  BY <1>1, ViewKept DEF SameState
<1> QED
  BY <1>2, <1>3

\* What the durable files know is kept, or is that of the visible ones.
LEMMA SafeLog ==
  ASSUME IInv, IInv', LogInv, safe' = safe, tx <= tx', noticed \subseteq noticed'
  PROVE  FilesLog(safe, tx, noticed)'
<1>1. safe \in Disk /\ FilesOK(safe) /\ tx \in Nat /\ tx' \in Nat
  BY DEF IInv, TypeOK
<1>2. FilesLog(safe', tx', noticed')
  BY <1>1, FilesLogKept DEF LogInv
<1> QED
  BY <1>2

\* A compaction goes on as it was.
LEMMA CompKept ==
  ASSUME CompLog, UNCHANGED <<comp, mem, recovering>>, tx \in Nat, tx' \in Nat, tx <= tx',
         TypeOK, disk'.pending \in {disk.pending, Nil},
         comp # Nil => /\ pc' # "compactPending" \/ pc' = pc
                       /\ pc' \in {"idle", "append", "appendRest", "index", "checkpoint", "finish", "cleanup",
                                   "compactPending", "deleteCatalog", "delete", "deleteIndex", "notice"}
  PROVE  CompLog'
<1>1. CASE comp = Nil
  BY <1>1 DEF CompLog
<1>2. CASE comp # Nil
  <2>1. comp.before.fileId \in Nat
    BY <1>2 DEF TypeOK, Entry
  <2>2. comp.before.fileId <= tx'
    BY <1>2, <2>1 DEF CompLog
  <2> QED
    BY <1>2, <2>2 DEF CompLog, SameFile, Unchanged
<1> QED
  BY <1>1, <1>2

\* Views after a step that makes nothing durable.
LEMMA ViewsAfter ==
  ASSUME IInv, LogInv, safe' = safe,
         \/ View(disk)' = View(disk) /\ pc' # "down" /\ (~unsynced' => ~unsynced /\ pc # "down")
         \/ View(disk)' = View(disk) /\ pc' = "down"
         \/ LogStep(View(disk), View(disk)') /\ pc # "down" /\ ~unsynced /\ unsynced'
  PROVE  ViewsOK'
<1>1. View(safe)' = View(safe)
  BY DEF View, Offset, Settled, RollsBack
<1> QED
  BY <1>1 DEF LogInv, ViewsOK

\* The conjuncts of LogInv after a step that leaves the state of the archive as it was.
LEMMA SameInv ==
  ASSUME IInv, IInv', LogInv, SameState, safe' = safe, noticed \subseteq noticed',
         DeleteLog', MemLog', CompLog',
         pc' = "down" \/ (~unsynced' => ~unsynced /\ pc # "down")
  PROVE  LogInv'
<1>1. FilesLog(disk, tx, noticed)' /\ View(disk)' = View(disk)
  BY SameLog DEF LogInv
<1>2. tx <= tx'
  BY DEF SameState, IInv, TypeOK
<1>3. FilesLog(safe, tx, noticed)'
  BY <1>2, SafeLog
<1>4. ViewsOK'
  BY <1>1, ViewsAfter
<1> QED
  BY <1>1, <1>3, <1>4 DEF LogInv

\* Changing a file of an hour, the catalog or the backup changes nothing else.
LEMMA OtherFiles ==
  ASSUME NEW d \in Disk, NEW h, NEW v
  PROVE  /\ LET e == [d EXCEPT !.data[h] = v] IN
              e.checkpoint = d.checkpoint /\ e.pending = d.pending /\ e.catalog = d.catalog
         /\ LET e == [d EXCEPT !.index[h] = v] IN
              /\ e.checkpoint = d.checkpoint /\ e.pending = d.pending /\ e.catalog = d.catalog
              /\ e.data = d.data
         /\ LET e == [d EXCEPT !.catalog = v] IN
              e.checkpoint = d.checkpoint /\ e.pending = d.pending /\ e.data = d.data
         /\ LET e == [d EXCEPT !.backup = v] IN
              /\ e.checkpoint = d.checkpoint /\ e.pending = d.pending /\ e.catalog = d.catalog
              /\ e.data = d.data
BY DEF Disk

\* The types of the files.
LEMMA Typed == ASSUME IInv PROVE TypeOK /\ disk \in Disk /\ safe \in Disk /\ tx \in Nat /\ FilesOK(disk) /\ FilesOK(safe)
BY DEF IInv, TypeOK

-------------------------------------------------------------------------------
(* Publishing, up to the marker.                                           *)

\* Publishing data, index and catalog changes nothing before the marker.
LEMMA PublishLog ==
  ASSUME IInv, IInv', LogInv,
         (\E h \in Hours : AppendPartial(h)) \/ AppendRest \/ PublishIndex \/ PublishCatalog \/ CompactReplace
  PROVE  LogInv'
<1> DEFINE Pcs == {"append", "appendRest", "index", "checkpoint", "compactReplace"}
<1>1. /\ pc \in Pcs /\ pc' \in Pcs
      /\ safe' = safe /\ tx' = tx /\ noticed' = noticed /\ comp' = comp /\ mem' = mem /\ recovering' = recovering
      /\ ~unsynced' => ~unsynced
      /\ pc # "compactReplace" => pc' # "compactReplace"
  BY DEF AppendPartial, AppendRest, PublishIndex, PublishCatalog, CompactReplace, Publish
<1>2. disk.pending # Nil /\ disk.checkpoint # Nil
  BY <1>1 DEF IInv, StepOK, Publishing
<1>3. SameState
  <2>1. CASE \E h \in Hours : AppendPartial(h)
    BY <1>2, <2>1, OtherFiles, Typed DEF SameState, AppendPartial
  <2>2. CASE AppendRest
    BY <1>2, <2>2, OtherFiles, Typed DEF SameState, AppendRest, Publish
  <2>3. CASE PublishIndex
    BY <1>2, <2>3, OtherFiles, Typed DEF SameState, PublishIndex, Publish
  <2>4. CASE PublishCatalog
    BY <1>2, <2>4, OtherFiles, Typed DEF SameState, PublishCatalog, Publish
  <2>5. CASE CompactReplace
    BY <1>2, <2>5, OtherFiles, Typed DEF SameState, CompactReplace, Publish
  <2> QED
    BY <2>1, <2>2, <2>3, <2>4, <2>5
<1>4. DeleteLog'
  BY <1>1 DEF DeleteLog
<1>5. MemLog'
  BY <1>1, <1>3 DEF MemLog, LogInv, SameState
<1>6. CompLog'
  <2>1. comp # Nil => pc # "compactReplace"
    BY DEF LogInv, CompLog
  <2>2. tx \in Nat /\ tx' \in Nat /\ tx <= tx' /\ TypeOK /\ disk'.pending = disk.pending
    BY <1>1, <1>3, Typed DEF SameState
  <2> QED
    BY <1>1, <2>1, <2>2, CompKept DEF LogInv
<1> QED
  BY <1>1, <1>3, <1>4, <1>5, <1>6, SameInv

\* The end of an operation, and of recovery.
LEMMA EndsLog == ASSUME IInv, IInv', LogInv, Cleanup \/ Check PROVE LogInv'
<1>1. /\ pc \in {"cleanup", "check"} /\ pc' \in {"check", "idle", "broken"}
      /\ safe' = safe /\ tx' = tx /\ noticed' = noticed /\ comp' = comp /\ mem' = mem
      /\ ~unsynced' => ~unsynced
      /\ disk' = disk \/ disk' = [disk EXCEPT !.backup = Nil]
      /\ comp # Nil => pc' = "idle" /\ recovering' = recovering
  BY DEF Cleanup, Check, LogInv, CompLog
<1>2. SameState
  <2>1. CASE disk' = disk
    BY <1>1, <2>1 DEF SameState
  <2>2. CASE disk' = [disk EXCEPT !.backup = Nil]
    BY <1>1, <2>2, Typed DEF SameState, Disk
  <2> QED
    BY <1>1, <2>1, <2>2
<1>3. DeleteLog' /\ MemLog'
  BY <1>1 DEF DeleteLog, MemLog
<1>4. CompLog'
  <2>1. CASE comp = Nil
    BY <1>1, <2>1 DEF CompLog
  <2>2. CASE comp # Nil
    BY <1>1, <1>2, <2>2, CompKept, Typed DEF LogInv, SameState
  <2> QED
    BY <2>1, <2>2
<1> QED
  BY <1>1, <1>2, <1>3, <1>4, SameInv

\* Files that are read while starting, and what is undone.
LEMMA UndoLog ==
  ASSUME IInv, IInv', LogInv, Load \/ (\E h \in Hours : RollbackData(h)) \/ RollbackIndex \/ RollbackCatalog
  PROVE  LogInv'
<1>1. /\ pc \in {"load", "rollback", "rollbackIndex"} /\ comp = Nil
      /\ pc' \in {"check", "finish", "rollback", "rollbackIndex", "deleteCatalog", "broken"}
      /\ safe' = safe /\ tx' = tx /\ noticed' = noticed /\ comp' = comp /\ recovering' = recovering
      /\ ~unsynced' => ~unsynced
      /\ pc' = "deleteCatalog" => pc = "load"
  BY DEF Load, LoadClean, RecoverForward, RecoverBack, RecoverDelete, LoadFails, Loaded,
         RollbackData, RollbackIndex, RollbackCatalog, Publish, LogInv, CompLog
<1>2. SameState /\ (pc' = "finish" => disk'.pending.type # "delete")
  <2>1. CASE Load
    BY <1>1, <2>1 DEF SameState, Load, LoadClean, RecoverForward, RecoverBack, RecoverDelete, LoadFails, CanRollForward
  <2>2. ASSUME ~Load PROVE disk.pending # Nil /\ disk.pending.type # "delete"
    BY <2>2 DEF IInv, StepOK, Undoing, RollbackData, RollbackIndex, RollbackCatalog
  <2>3. CASE \E h \in Hours : RollbackData(h)
    <3>1. ~Load
      BY <2>3 DEF RollbackData, Load, LoadClean, RecoverForward, RecoverBack, RecoverDelete, LoadFails, Loaded
    <3>2. PICK h \in Hours : disk' = disk \/ disk' = [disk EXCEPT !.data[h] = Restored(h)]
      BY <2>3 DEF RollbackData, Publish
    <3>3. disk'.checkpoint = disk.checkpoint /\ disk'.pending = disk.pending
      <4> HIDE DEF Restored
      <4> QED
        BY <3>2, Typed DEF Disk
    <3>4. pc' # "finish"
      BY <2>3 DEF RollbackData
    <3> QED
      BY <1>1, <2>2, <3>1, <3>3, <3>4 DEF SameState
  <2>4. CASE RollbackIndex
    <3>1. ~Load
      BY <2>4 DEF RollbackIndex, Load, LoadClean, RecoverForward, RecoverBack, RecoverDelete, LoadFails, Loaded
    <3> QED
      BY <1>1, <2>2, <2>4, <3>1, OtherFiles, Typed DEF SameState, RollbackIndex, Publish
  <2>5. CASE RollbackCatalog
    <3>1. ~Load
      BY <2>5 DEF RollbackCatalog, Load, LoadClean, RecoverForward, RecoverBack, RecoverDelete, LoadFails, Loaded
    <3> QED
      BY <1>1, <2>2, <2>5, <3>1, OtherFiles, Typed DEF SameState, RollbackCatalog, Publish
  <2> QED
    BY <2>1, <2>3, <2>4, <2>5
<1>3. DeleteLog' /\ MemLog' /\ CompLog'
  BY <1>1, <1>2 DEF DeleteLog, MemLog, CompLog, LogInv
<1>4. pc # "down"
  BY <1>1
<1> QED
  BY <1>1, <1>2, <1>3, <1>4, SameInv

-------------------------------------------------------------------------------
(* Deletions.                                                              *)

\* What a deletion knows of the hours it removes.
LEMMA DeletionFacts ==
  ASSUME IInv, pc \in {"deleteCatalog", "delete", "deleteIndex", "notice"}
  PROVE  /\ disk.pending # Nil /\ disk.checkpoint # Nil /\ disk.pending.type = "delete"
         /\ \A h \in disk.pending.changed : /\ h \in Hours /\ Before(h) # Nil /\ After(h) = Nil
                                            /\ Held(Before(h)) # Nil
                                            /\ LinesOf(Before(h)) = LinesIn(Before(h).members)
         /\ \A h \in Hours : h \notin disk.pending.changed => After(h) = Before(h)
         /\ pc = "deleteCatalog" => pc # "down"
<1>1. disk.pending # Nil /\ disk.checkpoint # Nil /\ disk.pending.type = "delete"
  BY DEF IInv, StepOK, Deleting, Current
<1>2. PendingOK(disk.pending) /\ disk.pending.changed \subseteq Hours
  BY <1>1, PendingFacts
<1>3. \A h \in disk.pending.changed : Before(h) \in Entry \union {Nil} /\ Before(h) # Nil /\ After(h) = Nil
  BY <1>1, <1>2, PendingFacts DEF PendingOK, Before, After
<1>4. \A h \in disk.pending.changed : Held(Before(h)) # Nil /\ LinesOf(Before(h)) = LinesIn(Before(h).members)
  BY <1>3, HeldTypes DEF LinesOf, Members
<1>5. \A h \in Hours : h \notin disk.pending.changed => After(h) = Before(h)
  BY <1>1, <1>2 DEF PendingOK, Before, After
<1> QED
  BY <1>1, <1>2, <1>3, <1>4, <1>5

\* The catalog of a deletion leaves the files it names, and no chosen hour the same.
LEMMA DeleteCatalogLog == ASSUME IInv, IInv', LogInv, DeleteCatalog PROVE LogInv'
<1>1. /\ pc = "deleteCatalog" /\ pc' = "delete" /\ todo' = disk.pending.changed /\ at' = at
      /\ mem'.catalog = disk.pending.afterCatalog
      /\ UNCHANGED <<safe, tx, noticed, comp, recovering>> /\ unsynced'
      /\ disk' = [disk EXCEPT !.catalog = disk.pending.afterCatalog]
  <2>1. mem' = [mem EXCEPT !.catalog = disk.pending.afterCatalog] /\ pc = "deleteCatalog"
    BY DEF DeleteCatalog
  <2>2. mem'.catalog = disk.pending.afterCatalog
    BY <2>1, Typed DEF TypeOK
  <2> QED
    BY <2>2 DEF DeleteCatalog, Publish
<1>2. /\ disk'.checkpoint = disk.checkpoint /\ disk'.pending = disk.pending /\ disk'.data = disk.data
  BY <1>1, OtherFiles, Typed
<1>3. SameState
  BY <1>1, <1>2, DeletionFacts DEF SameState
<1>4. DeleteLog' /\ MemLog'
  <2>1. \A h : Before(h)' = Before(h) /\ Held(Before(h))' = Held(Before(h))
    BY <1>2 DEF Before, Held
  <2> QED
    BY <1>1, <1>2, <2>1 DEF DeleteLog, MemLog, LogInv
<1>5. CompLog'
  <2>1. CASE comp = Nil
    BY <1>1, <2>1 DEF CompLog
  <2>2. CASE comp # Nil
    <3>1. mem.catalog = disk.pending.beforeCatalog /\ CompLog
      BY <1>1, <2>2 DEF LogInv, CompLog, MemLog
    <3>2. comp.hour \in Hours
      BY <2>2, Typed DEF TypeOK
    <3>3. SameFile(mem.catalog.hours[comp.hour])' => mem'.catalog.hours[comp.hour] = mem.catalog.hours[comp.hour]
      BY <1>1, <3>1, <3>2, DeletionFacts DEF SameFile, Before, After
    <3> QED
      BY <1>1, <1>2, <2>2, <3>1, <3>3 DEF CompLog, SameFile
  <2> QED
    BY <2>1, <2>2
<1> QED
  BY <1>1, <1>3, <1>4, <1>5, SameInv

\* A deletion reports each file it has passed: removed by itself, or found gone in recovery.
LEMMA DeleteFilesLog ==
  ASSUME IInv, IInv', LogInv, (\E h \in Hours : DeleteData(h)) \/ DeleteIndex \/ DeleteNotice \/ DeleteDone
  PROVE  LogInv'
<1>1. /\ pc \in {"delete", "deleteIndex", "notice"} /\ pc' \in {"delete", "deleteIndex", "notice", "finish"}
      /\ UNCHANGED <<safe, tx, comp, mem, recovering>>
      /\ noticed \subseteq noticed'
      /\ ~unsynced' => ~unsynced
  BY DEF DeleteData, DeleteIndex, DeleteNotice, DeleteDone, Publish
<1>2. /\ disk.pending # Nil /\ disk'.checkpoint = disk.checkpoint /\ disk'.pending = disk.pending
      /\ ~(\E h \in Hours : DeleteData(h)) => disk'.data = disk.data
  <2>1. CASE \E h \in Hours : DeleteData(h)
    <3>1. PICK h \in Hours : disk' = [disk EXCEPT !.data[h] = Nil]
      BY <2>1 DEF DeleteData
    <3> QED
      BY <1>1, <2>1, <3>1, OtherFiles, Typed, DeletionFacts
  <2>2. CASE DeleteIndex
    BY <1>1, <2>2, OtherFiles, Typed, DeletionFacts DEF DeleteIndex, Publish
  <2>3. CASE DeleteNotice \/ DeleteDone
    BY <1>1, <2>3, DeletionFacts DEF DeleteNotice, DeleteDone
  <2> QED
    BY <2>1, <2>2, <2>3
<1>3. SameState
  BY <1>1, <1>2 DEF SameState
<1>4. \A h : Before(h)' = Before(h) /\ Held(Before(h))' = Held(Before(h)) /\ LinesOf(Before(h))' = LinesOf(Before(h))
  BY <1>2 DEF Before, Held, LinesOf, Members, LinesIn
<1>5. /\ ~recovering => \A h \in todo \ {at} : disk.data[h] = Held(Before(h))
      /\ \A h \in disk.pending.changed \ todo : LinesOf(Before(h)) \subseteq noticed
      /\ pc \in {"deleteIndex", "notice"} => removed \/ recovering
  BY <1>1 DEF LogInv, DeleteLog
<1>6. todo \subseteq disk.pending.changed /\ Nil \notin todo
  <2>1. Deleting
    BY <1>1 DEF IInv, StepOK
  <2> QED
    BY <2>1, <1>1, DeletionFacts, NilAssumption DEF Deleting
<1>7. DeleteLog'
  <2>1. ASSUME NEW h \in Hours, DeleteData(h) PROVE DeleteLog'
    <3>1. /\ pc = "delete" /\ pc' = "deleteIndex" /\ at' = h /\ todo' = todo /\ noticed' = noticed /\ h \in todo
          /\ removed' = (disk.data[h] # Nil) /\ disk' = [disk EXCEPT !.data[h] = Nil]
      BY <2>1 DEF DeleteData
    <3>2. at = Nil
      BY <3>1 DEF IInv, StepOK
    <3>3. \A g \in Hours : g # h => disk'.data[g] = disk.data[g]
      BY <3>1, DataSet, Typed
    <3>4. ~recovering => removed'
      BY <1>1, <1>5, <1>6, <3>1, <3>2, DeletionFacts
    <3>5. \A g \in todo \ {h} : g \in Hours /\ g # h /\ g \in todo \ {at}
      BY <1>1, <1>6, <3>2, DeletionFacts
    <3> QED
      BY <1>1, <1>2, <1>4, <1>5, <3>1, <3>3, <3>4, <3>5 DEF DeleteLog
  <2>2. CASE DeleteIndex
    <3>1. ~(\E h \in Hours : DeleteData(h))
      BY <2>2 DEF DeleteIndex, DeleteData
    <3> QED
      BY <1>1, <1>2, <1>4, <1>5, <2>2, <3>1 DEF DeleteLog, DeleteIndex
  <2>3. CASE DeleteNotice
    <3>1. /\ pc = "notice" /\ pc' = "delete" /\ todo' = todo \ {at} /\ at' = Nil /\ disk' = disk
          /\ noticed' = noticed \union LinesIn(Before(at).members)
      BY <1>1, <1>5, <2>3 DEF DeleteNotice
    <3>2. at \in disk.pending.changed
      BY <1>6, <3>1 DEF IInv, StepOK
    <3>3. LinesOf(Before(at)) \subseteq noticed'
      BY <1>1, <3>1, <3>2, DeletionFacts
    <3> QED
      BY <1>1, <1>2, <1>4, <1>5, <3>1, <3>3 DEF DeleteLog
  <2>4. CASE DeleteDone
    <3>1. disk.catalog = disk.pending.afterCatalog /\ disk' = disk
      BY <1>1, <2>4 DEF IInv, StepOK, Deleting, DeleteDone
    <3> QED
      BY <1>1, <1>2, <1>4, <1>5, <2>4, <3>1 DEF DeleteLog, DeleteDone
  <2> QED
    BY <2>1, <2>2, <2>3, <2>4
<1>8. MemLog'
  BY <1>1 DEF MemLog
<1>9. CompLog'
  BY <1>1, <1>2, Typed, CompKept DEF LogInv
<1> QED
  BY <1>1, <1>3, <1>7, <1>8, <1>9, SameInv

-------------------------------------------------------------------------------
(* The compaction worker.                                                  *)

\* The beginning of a beginning.
LEMMA PrefixOfPrefix ==
  ASSUME NEW c \in Content, NEW m \in Nat, NEW n \in Nat, n <= m, m <= Len(c)
  PROVE  Prefix(Prefix(c, m), n) = Prefix(c, n)
<1>1. Len(c) \in Nat /\ \A i \in 1..Len(c) : c[i] \in Member
  BY LenProperties, ElementOfSeq DEF Content
<1>2. /\ SubSeq(c, 1, m) \in Seq(Member) /\ Len(SubSeq(c, 1, m)) = m
      /\ \A i \in 1..m : SubSeq(c, 1, m)[i] = c[i]
  BY <1>1, SubSeqProperties
<1>3. /\ SubSeq(c, 1, n) \in Seq(Member) /\ Len(SubSeq(c, 1, n)) = n
      /\ \A i \in 1..n : SubSeq(c, 1, n)[i] = c[i]
  BY <1>1, SubSeqProperties
<1> DEFINE p == SubSeq(c, 1, m)
<1>4. /\ SubSeq(p, 1, n) \in Seq(Member) /\ Len(SubSeq(p, 1, n)) = n
      /\ \A i \in 1..n : SubSeq(p, 1, n)[i] = p[i]
  <2>1. \A i \in 1..n : p[i] \in Member
    BY <1>1, <1>2
  <2> HIDE DEF p
  <2> QED
    BY <2>1, SubSeqProperties
<1>5. SubSeq(p, 1, n) = SubSeq(c, 1, n)
  <2>1. \A i \in 1..n : SubSeq(p, 1, n)[i] = SubSeq(c, 1, n)[i]
    BY <1>2, <1>3, <1>4
  <2> HIDE DEF p
  <2> QED
    BY <1>3, <1>4, <2>1, SeqEqual
<1>6. Prefix(c, m) = p /\ Prefix(c, n) = SubSeq(c, 1, n)
  BY <1>1 DEF Prefix
<1>7. Prefix(p, n) = SubSeq(p, 1, n)
  <2>1. Len(p) = m
    BY <1>2
  <2> HIDE DEF p
  <2> QED
    BY <2>1 DEF Prefix
<1> QED
  BY <1>5, <1>6, <1>7

\* As long as the hour is the same file, its bytes begin with those of its entry.
LEMMA FileBegins ==
  ASSUME IInv, LogInv, comp # Nil, SameFile(mem.catalog.hours[comp.hour]), disk.data[comp.hour] # Nil
  PROVE  LET e == mem.catalog.hours[comp.hour] IN
         /\ e \in Entry /\ e.members \in Content
         /\ disk.data[comp.hour] \in Content
         /\ Len(e.members) <= Len(disk.data[comp.hour])
         /\ Prefix(disk.data[comp.hour], Len(e.members)) = e.members
<1> DEFINE h == comp.hour
           e == mem.catalog.hours[h]
<1>1. h \in Hours /\ disk.data[h] \in Content /\ CompLog /\ e # Nil
  BY Typed, DiskTypes DEF TypeOK, LogInv, SameFile
<1>2. ASSUME e \in Entry, disk.data[h] = Held(e)
      PROVE  /\ e \in Entry /\ e.members \in Content
             /\ Len(e.members) <= Len(disk.data[h]) /\ Prefix(disk.data[h], Len(e.members)) = e.members
  <2>1. e.members \in Content /\ disk.data[h] = e.members
    BY <1>1, <1>2, HeldTypes
  <2> QED
    BY <1>2, <2>1, PrefixFull, ContentSize
<1>3. CASE pc \in {"idle", "cleanup", "compactPending", "finish"}
  <2>1. mem.catalog = disk.catalog /\ disk.checkpoint # Nil /\ NothingPending(disk)
    BY <1>3, QuietFacts DEF IInv, StepOK, Current, Quiet
  <2>2. disk.catalog \in Catalog
    BY <2>1, Typed, DiskTypes DEF FilesOK
  <2>3. e \in Entry
    BY <1>1, <2>1, <2>2, CatalogTypes
  <2> QED
    BY <1>1, <1>2, <2>1, <2>3 DEF NothingPending, Intact
<1>4. CASE pc \in {"append", "appendRest", "index", "checkpoint"}
  <2>1. Publishing /\ mem.catalog = disk.pending.beforeCatalog
    BY <1>4 DEF IInv, StepOK, LogInv, MemLog
  <2>2. Uncommitted(disk) /\ disk.pending # Nil /\ disk.checkpoint # Nil /\ disk.pending.type # "compact"
    BY <1>1, <2>1, PublishingFacts DEF CompLog
  <2>3. e \in Entry
    BY <1>1, <2>1, <2>2, PendingFacts, CatalogTypes
  <2>4. CASE h \notin disk.pending.changed
    BY <1>1, <1>2, <2>1, <2>2, <2>3, <2>4 DEF Uncommitted, Intact
  <2>5. CASE h \in disk.pending.changed
    <3>1. Undoable(disk, h)
      BY <2>2, <2>5 DEF Uncommitted
    <3>2. e.members \in Content
      BY <2>3, HeldTypes DEF Entry
    <3>3. Len(disk.data[h]) >= Len(e.members) /\ Prefix(disk.data[h], Len(e.members)) = e.members
      BY <1>1, <2>1, <2>2, <3>1 DEF Undoable
    <3> QED
      BY <1>1, <2>3, <3>2, <3>3, ContentSize
  <2> QED
    BY <2>4, <2>5
<1>5. CASE pc \in {"deleteCatalog", "delete", "deleteIndex", "notice"}
  <2>1. ~recovering
    BY <1>1 DEF CompLog
  <2>2. /\ disk.pending # Nil /\ disk.checkpoint # Nil /\ disk.pending.type = "delete" /\ DeletePending(disk)
    BY <1>5, DeletionFacts, Typed DEF FilesOK
  <2>3. \/ mem.catalog = disk.pending.beforeCatalog /\ pc = "deleteCatalog"
        \/ mem.catalog = disk.pending.afterCatalog
    BY <1>5, <2>1 DEF LogInv, MemLog, IInv, StepOK, Deleting, Current
  <2>4. e \in Entry
    BY <1>1, <2>2, <2>3, PendingFacts, CatalogTypes
  <2>5. e = Before(h)
    BY <1>1, <1>5, <2>3, DeletionFacts DEF Before, After
  <2>6. CASE h \notin disk.pending.changed
    BY <1>1, <1>2, <2>2, <2>4, <2>5, <2>6 DEF DeletePending, Intact, Before
  <2>7. CASE h \in disk.pending.changed
    <3>1. pc = "deleteCatalog"
      BY <1>1, <1>5, <2>3, <2>7, DeletionFacts DEF After
    <3>2. disk.data[h] = Held(Before(h))
      BY <2>1, <2>7, <3>1 DEF LogInv, DeleteLog
    <3>3. disk.data[h] = Held(e)
      BY <2>5, <3>2
    <3> QED
      BY <1>1, <1>2, <2>4, <3>3
  <2> QED
    BY <2>6, <2>7
<1> QED
  BY <1>1, <1>3, <1>4, <1>5 DEF CompLog

\* What is staged has the lines that were chosen, unless the file has gone.
LEMMA CompactReadLog == ASSUME IInv, IInv', LogInv, CompactRead PROVE LogInv'
<1>1. /\ comp # Nil /\ comp.staged = Nil
      /\ UNCHANGED <<disk, safe, unsynced, mem, pc, todo, at, removed, recovering, tx, acked, noticed, faults>>
  BY DEF CompactRead
<1>2. SameState /\ DeleteLog' /\ MemLog'
  BY <1>1 DEF SameState, LogInv, DeleteLog, MemLog, Before, Held, LinesOf, Members, LinesIn
<1>3. CompLog /\ pc # "down"
  BY <1>1 DEF LogInv, CompLog
<1>4. CompLog'
  <2>1. CASE comp' = Nil
    BY <2>1 DEF CompLog
  <2>2. CASE comp' # Nil
    <3> DEFINE b == comp.before.members
               data == disk.data[comp.hour]
    <3>1. /\ comp' = [comp EXCEPT !.staged = <<LinesIn(Prefix(data, Len(b)))>>]
          /\ data # Nil /\ Len(data) >= Len(b)
      BY <2>2 DEF CompactRead
    <3>2. comp \in [hour: Hours, before: Entry, staged: Content \union {Nil}] /\ b \in Content
      BY <1>1, Typed DEF TypeOK, Entry
    <3>3. comp'.hour = comp.hour /\ comp'.before = comp.before /\ comp'.staged = <<LinesIn(Prefix(data, Len(b)))>>
      BY <3>1, <3>2
    <3>4. SameFile(mem.catalog.hours[comp.hour]) => Prefix(data, Len(b)) = b
      <4> SUFFICES ASSUME SameFile(mem.catalog.hours[comp.hour]) PROVE Prefix(data, Len(b)) = b
        OBVIOUS
      <4> DEFINE m == mem.catalog.hours[comp.hour].members
      <4>1. m \in Content /\ data \in Content /\ Len(m) <= Len(data) /\ Prefix(data, Len(m)) = m
        BY <1>1, <3>1, FileBegins
      <4>2. Len(b) <= Len(m) /\ Prefix(m, Len(b)) = b
        BY <1>1, <1>3 DEF CompLog
      <4>3. Len(b) \in Nat /\ Len(m) \in Nat
        BY <3>2, <4>1, ContentSize
      <4> HIDE DEF b, m, data
      <4> QED
        BY <4>1, <4>2, <4>3, PrefixOfPrefix
    <3>5. pc # "compactPending"
      BY <1>1 DEF IInv, StepOK
    <3> QED
      BY <1>1, <1>3, <3>3, <3>4, <3>5 DEF CompLog, SameFile
  <2> QED
    BY <2>1, <2>2
<1> QED
  BY <1>1, <1>2, <1>3, <1>4, SameInv

\* The hour just chosen is its own beginning.
LEMMA CompactSelectLog == ASSUME IInv, IInv', LogInv, NEW h \in Hours, CompactSelect(h) PROVE LogInv'
<1> DEFINE e == mem.catalog.hours[h]
<1>1. /\ pc = "idle" /\ ~unsynced /\ ~recovering /\ Quiet /\ e # Nil
      /\ comp' = [hour |-> h, before |-> e, staged |-> Nil]
      /\ UNCHANGED <<disk, safe, unsynced, mem, pc, todo, at, removed, recovering, tx, acked, noticed, faults>>
  BY DEF CompactSelect, Idle, IInv, StepOK
<1>2. SameState /\ DeleteLog' /\ MemLog'
  BY <1>1 DEF SameState, DeleteLog, MemLog
<1>3. disk.pending = Nil /\ mem.catalog = disk.catalog /\ disk.checkpoint # Nil /\ disk.catalog \in Catalog
  BY <1>1, QuietFacts
<1>4. e \in Entry /\ e.members \in Content /\ e.fileId <= tx
  <2>1. CatalogOK(disk.catalog, disk.checkpoint.offset, tx)
    BY <1>3 DEF LogInv, FilesLog
  <2>2. e \in Entry
    BY <1>1, <1>3, CatalogTypes
  <2> QED
    BY <1>1, <1>3, <2>1, <2>2 DEF CatalogOK, Entry
<1>5. Len(e.members) <= Len(e.members) /\ Prefix(e.members, Len(e.members)) = e.members
  BY <1>4, PrefixFull, ContentSize
<1> HIDE DEF e
<1>6. comp'.hour = h /\ comp'.before = e /\ comp'.staged = Nil
  BY <1>1
<1>7. mem'.catalog.hours[comp'.hour] = e
  BY <1>1, <1>6 DEF e
<1>8. CompLog'
  BY <1>1, <1>3, <1>4, <1>5, <1>6, <1>7 DEF CompLog
<1> QED
  BY <1>1, <1>2, <1>8, SameInv

\* Only the file that was chosen, of the size that was read, is replaced.
LEMMA CompactLinkLog == ASSUME IInv, IInv', LogInv, CompactLink PROVE LogInv'
<1>1. /\ pc = "idle" /\ ~unsynced /\ Quiet /\ ~recovering
      /\ UNCHANGED <<mem, todo, at, removed, recovering, tx, acked, noticed, faults, safe>>
      /\ \/ /\ Unchanged(comp.before, mem.catalog.hours[comp.hour])
            /\ disk' = [disk EXCEPT !.backup = disk.data[comp.hour]]
            /\ pc' = "compactPending" /\ unsynced' = TRUE /\ comp' = comp
         \/ comp' = Nil /\ UNCHANGED <<disk, unsynced, pc>>
  BY DEF CompactLink, Publish, Idle, IInv, StepOK
<1>2. disk'.checkpoint = disk.checkpoint /\ disk'.pending = disk.pending /\ disk'.catalog = disk.catalog
  BY <1>1, Typed DEF Disk
<1>3. SameState /\ DeleteLog' /\ MemLog'
  BY <1>1, <1>2 DEF SameState, DeleteLog, MemLog
<1>4. CompLog'
  <2>1. CASE comp' = Nil
    BY <2>1 DEF CompLog
  <2>2. CASE /\ Unchanged(comp.before, mem.catalog.hours[comp.hour])
             /\ pc' = "compactPending" /\ comp' = comp
    BY <1>1, <1>2, <2>2 DEF LogInv, CompLog, SameFile, Unchanged
  <2> QED
    BY <1>1, <2>1, <2>2
<1> QED
  BY <1>1, <1>3, <1>4, SameInv

-------------------------------------------------------------------------------
(* Durability and failures.                                                *)

\* What becomes durable is what is visible.
LEMMA DurableLog == ASSUME IInv, IInv', LogInv, Sync \/ Open PROVE LogInv'
<1>1. /\ disk' = disk /\ safe' = disk /\ comp' = comp /\ pc' # "down"
      /\ UNCHANGED <<todo, at, removed, tx, noticed>>
      /\ Open => pc = "down" /\ pc' = "load" /\ recovering'
      /\ ~Open => UNCHANGED <<mem, pc, recovering>>
  BY DEF Sync, Open, IInv, StepOK
<1>2. FilesLog(disk, tx, noticed)' /\ FilesLog(safe, tx, noticed)'
  <2>1. FilesLog(disk', tx', noticed')
    BY <1>1, FilesLogKept, Typed DEF LogInv
  <2>2. FilesLog(safe', tx', noticed')
    BY <1>1, <2>1
  <2> QED
    BY <2>1, <2>2
<1>3. View(safe)' = View(disk)'
  BY <1>1 DEF View, Offset, Settled, RollsBack
<1>4. ViewsOK'
  BY <1>3 DEF ViewsOK, LogStep
<1>5. CASE ~Open
  <2>1. DeleteLog' /\ MemLog'
    BY <1>1, <1>5 DEF LogInv, DeleteLog, MemLog, Before, Held, LinesOf, Members, LinesIn
  <2>2. CompLog'
    BY <1>1, <1>5, CompKept, Typed DEF LogInv, CompLog
  <2> QED
    BY <1>2, <1>4, <2>1, <2>2 DEF LogInv
<1>6. CASE Open
  <2>1. comp = Nil
    BY <1>1, <1>6 DEF LogInv, CompLog
  <2> QED
    BY <1>1, <1>2, <1>4, <1>6, <2>1 DEF LogInv, DeleteLog, MemLog, CompLog
<1> QED
  BY <1>5, <1>6

\* A failure keeps the files as they are, or as they are durable.
LEMMA FaultLog == ASSUME IInv, IInv', LogInv, Fault PROVE LogInv'
<1>1. /\ safe' = safe /\ tx' = tx /\ noticed' = noticed /\ comp' = Nil /\ pc' = "down"
      /\ disk' = disk \/ disk' = safe
  BY DEF Fault, Crash, PowerLoss, Lost
<1>2. FilesLog(safe, tx, noticed)'
  BY <1>1, SafeLog, Typed
<1>3. FilesLog(disk, tx, noticed)'
  <2>1. FilesLog(disk', tx', noticed')
    <3>1. CASE disk' = disk
      BY <1>1, <3>1, FilesLogKept, Typed DEF LogInv
    <3>2. CASE disk' = safe
      BY <1>1, <3>2, FilesLogKept, Typed DEF LogInv
    <3> QED
      BY <1>1, <3>1, <3>2
  <2> QED
    BY <2>1
<1>4. ViewsOK'
  <2>1. View(safe)' = View(safe) /\ (View(disk)' = View(disk) \/ View(disk)' = View(safe))
    BY <1>1 DEF View, Offset, Settled, RollsBack
  <2> QED
    BY <1>1, <2>1 DEF LogInv, ViewsOK, LogStep
<1> QED
  BY <1>1, <1>2, <1>3, <1>4 DEF LogInv, DeleteLog, MemLog, CompLog

\* Nothing changes when nothing happens.
LEMMA StutterLog == ASSUME IInv, IInv', LogInv, UNCHANGED vars PROVE LogInv'
<1>1. UNCHANGED <<disk, safe, unsynced, mem, pc, todo, at, removed, recovering, comp, tx, acked, noticed, faults>>
  BY DEF vars
<1>2. FilesLog(safe, tx, noticed)' /\ FilesLog(disk, tx, noticed)'
  BY <1>1, SafeLog, SameLog, Typed DEF SameState, LogInv
<1>3. DeleteLog' /\ MemLog'
  BY <1>1 DEF LogInv, DeleteLog, MemLog, Before, Held, LinesOf, Members, LinesIn
<1>4. CompLog'
  BY <1>1, CompKept, Typed DEF LogInv, CompLog
<1>5. ViewsOK'
  BY <1>1 DEF LogInv, ViewsOK, View, Offset, Settled, RollsBack
<1> QED
  BY <1>2, <1>3, <1>4, <1>5 DEF LogInv

-------------------------------------------------------------------------------
(* The marker.                                                             *)

\* What a commit does to an hour.
LEMMA GrownIs ==
  ASSUME NEW b \in Entry \union {Nil}, NEW a \in Entry \union {Nil}, NEW batch \in Member, NEW tid, Grown(b, a, batch, tid)
  PROVE  /\ LinesOf(a) = LinesOf(b) \union batch
         /\ \/ a = b
            \/ /\ Members(a) = Append(Members(b), batch) /\ a # Nil
               /\ a.fileId = IF b = Nil THEN tid ELSE b.fileId
<1>1. CASE batch = {} /\ a = b
  BY <1>1
<1>2. CASE a # Nil /\ a.members = Append(Members(b), batch) /\ a.fileId = IF b = Nil THEN tid ELSE b.fileId
  <2>1. Members(a) = Append(Members(b), batch)
    BY <1>2 DEF Members
  <2>2. Members(b) \in Content
    BY MembersType
  <2>3. LinesOf(a) = LinesIn(Members(b)) \union batch
    BY <2>1, <2>2, LinesAppend DEF LinesOf
  <2> QED
    BY <1>2, <2>1, <2>3 DEF LinesOf
<1> QED
  BY <1>1, <1>2 DEF Grown

\* The lines of a batch are lines of the source.
LEMMA BatchType ==
  ASSUME NEW from \in Nat, NEW to \in 0..MaxOffset, NEW place, NEW h
  PROVE  Batch(from, to, place, h) \in Member
BY BoundsAssumption DEF Batch, Member, Lines

\* What the commit marker makes of the view.
LEMMA MarkerStep ==
  ASSUME NEW p \in Pending, PendingOK(p), PendingLog(p), p.type # "delete"
  PROVE  LogStep([offset |-> p.beforeCheckpoint.offset, live |-> [h \in Hours |-> LinesOf(p.beforeCatalog.hours[h])]],
                 [offset |-> p.afterCheckpoint.offset, live |-> [h \in Hours |-> LinesOf(p.afterCatalog.hours[h])]])
<1> DEFINE from == p.beforeCheckpoint.offset
           to   == p.afterCheckpoint.offset
           v    == [offset |-> from, live |-> [h \in Hours |-> LinesOf(p.beforeCatalog.hours[h])]]
           w    == [offset |-> to, live |-> [h \in Hours |-> LinesOf(p.afterCatalog.hours[h])]]
<1>1. /\ from \in Nat /\ to \in 0..MaxOffset /\ from <= to
      /\ \A h \in Hours : p.beforeCatalog.hours[h] \in Entry \union {Nil} /\ p.afterCatalog.hours[h] \in Entry \union {Nil}
      /\ p.type \in {"write", "compact"}
  BY PendingTypes, CatalogTypes, CheckpointTypes DEF PendingOK
<1>2. CASE p.type = "compact"
  <2>1. v = w
    BY <1>2 DEF PendingLog
  <2> QED
    BY <2>1 DEF LogStep
<1>3. CASE p.type = "write"
  <2>1. PICK place \in [Lines -> Hours] : \A h \in Hours :
          Grown(p.beforeCatalog.hours[h], p.afterCatalog.hours[h], Batch(from, to, place, h), p.tid)
    BY <1>3 DEF PendingLog
  <2>2. \A h \in Hours : LinesOf(p.afterCatalog.hours[h]) = LinesOf(p.beforeCatalog.hours[h]) \union Batch(from, to, place, h)
    BY <1>1, <2>1, GrownIs, BatchType
  <2>3. w.live = [h \in Hours |-> v.live[h] \union Batch(v.offset, w.offset, place, h)]
    BY <2>2
  <2>4. v.offset <= w.offset
    BY <1>1
  <2>5. LogStep(v, w)
    <3> HIDE DEF v, w
    <3> QED
      BY <2>3, <2>4 DEF LogStep
  <2> QED
    BY <2>5
<1> QED
  BY <1>1, <1>2, <1>3

\* The marker makes the whole transaction visible at once.
LEMMA PublishCheckpointLog == ASSUME IInv, IInv', LogInv, PublishCheckpoint PROVE LogInv'
<1> DEFINE p == disk.pending
<1>1. /\ pc = "checkpoint" /\ pc' = "finish" /\ ~unsynced /\ unsynced'
      /\ disk' = [disk EXCEPT !.checkpoint = p.afterCheckpoint]
      /\ mem' = [catalog |-> p.afterCatalog, checkpoint |-> p.afterCheckpoint]
      /\ UNCHANGED <<safe, tx, noticed, comp, recovering, todo, at>>
  BY DEF PublishCheckpoint, Publish
<1>2. Publishing /\ mem.catalog = p.beforeCatalog /\ disk.catalog = p.afterCatalog
  BY <1>1 DEF IInv, StepOK, LogInv, MemLog
<1>3. /\ Uncommitted(disk) /\ p # Nil /\ disk.checkpoint # Nil /\ p.type # "delete"
      /\ p \in Pending /\ PendingOK(p) /\ p.tid # p.prev /\ p.afterCheckpoint \in Checkpoint
  BY <1>2, PublishingFacts, PendingFacts, PendingTypes DEF PendingOK
<1>4. /\ disk'.pending = p /\ disk'.catalog = disk.catalog /\ disk'.checkpoint = p.afterCheckpoint
      /\ p.afterCheckpoint # Nil
  BY <1>1, <1>3, Typed, NilAssumption DEF Disk
<1>5. PendingLog(p)
  BY <1>3 DEF LogInv, FilesLog
<1>6. FilesLog(disk, tx, noticed)'
  <2>1. FilesLog(disk', tx, noticed)
    BY <1>3, <1>4 DEF LogInv, FilesLog
  <2>2. FilesLog(disk', tx', noticed')
    BY <1>1, <2>1
  <2> QED
    BY <2>2
<1>7. ViewsOK'
  <2>1. View(disk) = [offset |-> p.beforeCheckpoint.offset, live |-> [h \in Hours |-> LinesOf(p.beforeCatalog.hours[h])]]
    <3>1. RollsBack(disk)
      BY <1>3 DEF RollsBack, Uncommitted, PendingOK
    <3> QED
      BY <1>3, <3>1, SettledIs, Typed DEF View
  <2>2. View(disk') = [offset |-> p.afterCheckpoint.offset, live |-> [h \in Hours |-> LinesOf(p.afterCatalog.hours[h])]]
    <3>1. ~RollsBack(disk')
      BY <1>3, <1>4 DEF RollsBack, PendingOK
    <3>2. Settled(disk') = p.afterCatalog
      <4>1. disk'.catalog # Nil
        BY <1>3, <1>4, Typed DEF FilesOK
      <4> QED
        BY <1>3, <1>4, <3>1, <4>1 DEF Settled
    <3>3. Offset(disk') = p.afterCheckpoint.offset
      BY <1>4 DEF Offset
    <3> QED
      BY <3>2, <3>3 DEF View
  <2>3. LogStep(View(disk), View(disk'))
    BY <1>3, <1>5, <2>1, <2>2, MarkerStep
  <2> QED
    BY <1>1, <2>3, ViewsAfter
<1>8. DeleteLog' /\ MemLog'
  BY <1>1, <1>3, <1>4 DEF DeleteLog, MemLog
<1>9. CompLog'
  <2>1. CASE comp = Nil
    BY <1>1, <2>1 DEF CompLog
  <2>2. CASE comp # Nil
    <3> DEFINE h == comp.hour
               e == p.beforeCatalog.hours[h]
               f == p.afterCatalog.hours[h]
               b == comp.before.members
    <3>1. /\ CompLog /\ h \in Hours /\ p.type = "write" /\ comp.before.fileId < p.tid
          /\ comp.before.fileId \in Nat /\ b \in Content /\ p.tid \in Nat
      BY <1>3, <2>2, Typed, PendingTypes DEF LogInv, CompLog, TypeOK, Entry
    <3>2. e \in Entry \union {Nil} /\ f \in Entry \union {Nil}
      BY <1>3, <3>1, PendingTypes, CatalogTypes
    <3>3. PICK batch \in Member : Grown(e, f, batch, p.tid)
      <4>1. p.beforeCheckpoint.offset \in Nat /\ p.afterCheckpoint.offset \in 0..MaxOffset
        BY <1>3, PendingTypes, CheckpointTypes
      <4> HIDE DEF e, f
      <4> QED
        BY <1>5, <3>1, <4>1, BatchType DEF PendingLog, e, f
    <3>4. \/ f = e
          \/ /\ Members(f) = Append(Members(e), batch) /\ f # Nil
             /\ f.fileId = IF e = Nil THEN p.tid ELSE e.fileId
      <4> HIDE DEF e, f
      <4> QED
        BY <3>2, <3>3, GrownIs
    <3>5. mem.catalog.hours[comp.hour] = e /\ mem'.catalog.hours[comp.hour] = f
      BY <1>1, <1>2
    <3> HIDE DEF e, f, b
    <3>6. ASSUME SameFile(f)
          PROVE  /\ Len(b) <= Len(f.members) /\ Prefix(f.members, Len(b)) = b
                 /\ comp.staged # Nil => comp.staged = <<LinesIn(b)>>
      <4>1. SameFile(e)
        BY <3>1, <3>4, <3>6 DEF SameFile
      <4>2. /\ Len(b) <= Len(e.members) /\ Prefix(e.members, Len(b)) = b
            /\ comp.staged # Nil => comp.staged = <<LinesIn(b)>>
        BY <2>2, <3>1, <3>5, <4>1 DEF CompLog, b
      <4>3. CASE f = e
        BY <4>2, <4>3
      <4>4. CASE f # e
        <5>1. f.members = Append(e.members, batch) /\ e.members \in Content
          BY <3>2, <3>4, <4>1, <4>4, HeldTypes DEF SameFile, Members
        <5>2. /\ f.members \in Content /\ Len(f.members) = Len(e.members) + 1
              /\ Prefix(f.members, Len(e.members)) = e.members
          BY <5>1, AppendPrefix
        <5>3. Len(b) \in Nat /\ Len(e.members) \in Nat
          BY <3>1, <5>1, ContentSize
        <5>4. Prefix(f.members, Len(b)) = b
          <6>1. Prefix(Prefix(f.members, Len(e.members)), Len(b)) = Prefix(f.members, Len(b))
            BY <4>2, <5>2, <5>3, PrefixOfPrefix
          <6> QED
            BY <4>2, <5>2, <6>1
        <5> QED
          BY <4>2, <5>2, <5>3, <5>4
      <4> QED
        BY <4>3, <4>4
    <3>7. SameFile(mem.catalog.hours[comp.hour])' <=> SameFile(f)
      BY <1>1, <3>5 DEF SameFile
    <3> QED
      BY <1>1, <1>4, <2>2, <3>1, <3>5, <3>6, <3>7 DEF CompLog, b
  <2> QED
    BY <2>1, <2>2
<1>10. FilesLog(safe, tx, noticed)'
  BY <1>1, SafeLog, Typed
<1> QED
  BY <1>6, <1>7, <1>8, <1>9, <1>10 DEF LogInv

\* The transaction is over: its outcome is what the files stand for.
LEMMA FinishPendingLog == ASSUME IInv, IInv', LogInv, FinishPending PROVE LogInv'
<1> DEFINE p == disk.pending
<1>1. /\ pc = "finish" /\ pc' = "cleanup" /\ ~unsynced /\ unsynced'
      /\ disk' = [disk EXCEPT !.pending = Nil]
      /\ UNCHANGED <<safe, tx, noticed, comp, mem, recovering, todo, at>>
  BY DEF FinishPending, Publish
<1>2. /\ p # Nil /\ disk.checkpoint # Nil /\ NothingPending(disk)
      /\ p \in Pending /\ PendingOK(p) /\ disk.catalog # Nil
  BY <1>1, PendingFacts, Typed DEF IInv, StepOK, Current, FilesOK
<1>3. disk'.pending = Nil /\ disk'.catalog = disk.catalog /\ disk'.checkpoint = disk.checkpoint
  BY <1>1, Typed DEF Disk
<1>4. /\ CatalogOK(p.beforeCatalog, p.beforeCheckpoint.offset, tx)
      /\ CatalogOK(p.afterCatalog, p.afterCheckpoint.offset, tx)
      /\ Covers(p.beforeCatalog, p.beforeCheckpoint.offset, noticed)
      /\ p.type # "delete" => Covers(p.afterCatalog, p.afterCheckpoint.offset, noticed)
  BY <1>2 DEF LogInv, FilesLog
<1>5. Settled(disk) = disk.catalog
  <2>1. CASE p.type = "delete"
    BY <1>1, <1>2, <2>1, SettledIs, Typed DEF LogInv, DeleteLog
  <2>2. CASE p.type # "delete"
    <3>1. Uncommitted(disk) => disk.catalog = p.beforeCatalog
      BY <1>2, <2>2 DEF Uncommitted, NothingPending, PendingOK
    <3> QED
      BY <1>2, <2>2, <3>1, SettledIs, Typed DEF Committed
  <2> QED
    BY <2>1, <2>2
<1>6. CatalogOK(disk.catalog, disk.checkpoint.offset, tx)
  BY <1>2, <1>5, SettledLog, SettledIs, Typed DEF LogInv
<1>7. Covers(disk.catalog, disk.checkpoint.offset, noticed)
  <2>1. CASE p.type = "delete"
    <3>1. /\ disk.catalog = p.afterCatalog /\ disk.checkpoint.offset = p.beforeCheckpoint.offset
          /\ \A h \in p.changed : LinesOf(Before(h)) \subseteq noticed
      BY <1>1, <1>2, <2>1, SettledIs, Typed DEF LogInv, DeleteLog
    <3>2. \A h \in Hours : h \notin p.changed => p.afterCatalog.hours[h] = p.beforeCatalog.hours[h]
      BY <1>2, <2>1 DEF PendingOK
    <3>3. \A h \in Hours : \A l \in LinesOf(p.beforeCatalog.hours[h]) : l \in noticed \/ l \in LinesOf(p.afterCatalog.hours[h])
      BY <3>1, <3>2 DEF Before
    <3> QED
      BY <1>4, <3>1, <3>3 DEF Covers
  <2>2. CASE p.type # "delete"
    BY <1>2, <1>4, <1>5, <2>2, SettledIs, Typed
  <2> QED
    BY <2>1, <2>2
<1>8. FilesLog(disk, tx, noticed)'
  <2>1. FilesLog(disk', tx, noticed)
    BY <1>3, <1>6, <1>7 DEF FilesLog
  <2>2. FilesLog(disk', tx', noticed')
    BY <1>1, <2>1
  <2> QED
    BY <2>2
<1>9. ViewsOK'
  <2>1. Settled(disk') = disk.catalog /\ Offset(disk') = Offset(disk)
    BY <1>2, <1>3 DEF Settled, Offset
  <2>2. View(disk') = View(disk)
    BY <1>5, <2>1 DEF View
  <2> QED
    BY <1>1, <2>2, ViewsAfter
<1>10. DeleteLog' /\ MemLog'
  BY <1>1 DEF DeleteLog, MemLog
<1>11. CompLog'
  BY <1>1, <1>3, CompKept, Typed DEF LogInv
<1>12. FilesLog(safe, tx, noticed)'
  BY <1>1, SafeLog, Typed
<1> QED
  BY <1>8, <1>9, <1>10, <1>11, <1>12 DEF LogInv

-------------------------------------------------------------------------------
(* A new archive.                                                          *)

\* An archive with no checkpoint holds no line, whatever its first catalog.
LEMMA InitCatalogLog == ASSUME IInv, IInv', LogInv, InitCatalog PROVE LogInv'
<1>1. /\ pc = "load" /\ pc' = "initCheckpoint" /\ ~unsynced /\ unsynced' /\ comp' = comp
      /\ UNCHANGED <<safe, tx, noticed>>
      /\ disk' = [disk EXCEPT !.catalog = EmptyCatalog]
      /\ disk.checkpoint = Nil
  <2>1. pc = "load" /\ mem.checkpoint = Nil
    BY DEF InitCatalog, Pristine
  <2>2. mem = [catalog |-> disk.catalog, checkpoint |-> disk.checkpoint]
    BY <2>1 DEF IInv, StepOK
  <2> QED
    BY <2>1, <2>2 DEF InitCatalog, Publish
<1>2. disk'.checkpoint = Nil
  BY <1>1, OtherFiles, Typed
<1>3. comp = Nil
  BY <1>1 DEF LogInv, CompLog
<1>4. FilesOK(disk') /\ disk' \in Disk
  <2>1. FilesOK(disk)' /\ TypeOK'
    BY DEF IInv
  <2> QED
    BY <1>1, <2>1 DEF TypeOK, FilesOK
<1>5. View(disk') = View(disk)
  BY <1>1, <1>2, <1>4, SettledIs, Typed DEF View
<1>6. ViewsOK'
  BY <1>1, <1>5, ViewsAfter
<1>7. FilesLog(safe, tx, noticed)'
  BY <1>1, SafeLog, Typed
<1> QED
  BY <1>1, <1>2, <1>3, <1>6, <1>7 DEF LogInv, FilesLog, DeleteLog, MemLog, CompLog

\* The first checkpoint covers no line.
LEMMA InitCheckpointLog == ASSUME IInv, IInv', LogInv, InitCheckpoint PROVE LogInv'
<1>1. /\ pc = "initCheckpoint" /\ pc' = "check" /\ ~unsynced /\ unsynced' /\ comp' = comp
      /\ UNCHANGED <<safe, tx, noticed>>
      /\ disk' = [disk EXCEPT !.checkpoint = EmptyCheckpoint]
      /\ disk.checkpoint = Nil /\ disk.catalog = EmptyCatalog
  BY DEF InitCheckpoint, Publish, IInv, StepOK
<1>2. /\ disk'.checkpoint = EmptyCheckpoint /\ disk'.pending = disk.pending /\ disk'.catalog = EmptyCatalog
      /\ disk.pending = Nil
  BY <1>1, SettledIs, Typed DEF Disk
<1>3. comp = Nil
  BY <1>1 DEF LogInv, CompLog
<1>4. LinesOf(Nil) = {} /\ DOMAIN Members(Nil) = {}
  BY DEF LinesOf, LinesIn, Members
<1>5. \A h \in Hours : EmptyCatalog.hours[h] = Nil
  BY DEF EmptyCatalog
<1>6. EmptyCheckpoint.offset = 0
  BY DEF EmptyCheckpoint
<1>7. CatalogOK(EmptyCatalog, 0, tx) /\ Covers(EmptyCatalog, 0, noticed)
  BY <1>4, <1>5 DEF CatalogOK, Covers
<1>8. FilesLog(disk, tx, noticed)'
  <2>1. FilesLog(disk', tx, noticed)
    BY <1>2, <1>6, <1>7 DEF FilesLog
  <2>2. FilesLog(disk', tx', noticed')
    BY <1>1, <2>1
  <2> QED
    BY <2>2
<1>9. View(disk') = View(disk)
  <2>1. Offset(disk') = 0 /\ Offset(disk) = 0
    BY <1>1, <1>2, <1>6 DEF Offset
  <2>2. \A h \in Hours : Settled(disk).hours[h] = Nil
    BY <1>1, SettledIs, Typed
  <2>3. \A h \in Hours : Settled(disk').hours[h] = Nil
    BY <1>2, <1>5 DEF Settled
  <2> QED
    BY <2>1, <2>2, <2>3 DEF View
<1>10. ViewsOK'
  BY <1>1, <1>9, ViewsAfter
<1>11. FilesLog(safe, tx, noticed)'
  BY <1>1, SafeLog, Typed
<1> QED
  BY <1>1, <1>3, <1>8, <1>10, <1>11 DEF LogInv, DeleteLog, MemLog, CompLog

-------------------------------------------------------------------------------
(* The transactions that begin.                                            *)

\* A later transaction has a greater number.
LEMMA CatalogLater ==
  ASSUME NEW c \in Catalog, NEW offset, NEW last \in Nat, NEW last2 \in Nat, last <= last2, CatalogOK(c, offset, last)
  PROVE  CatalogOK(c, offset, last2)
<1>1. \A h \in Hours : c.hours[h] # Nil => c.hours[h].fileId \in Nat
  BY CatalogTypes DEF Entry
<1>2. \A h \in Hours : c.hours[h] # Nil => c.hours[h].fileId <= last2
  BY <1>1 DEF CatalogOK
<1> QED
  BY <1>2, Zenon DEF CatalogOK

\* What an idle store starts from.
LEMMA StartFacts ==
  ASSUME IInv, LogInv, Quiet
  PROVE  /\ mem.catalog = disk.catalog /\ mem.checkpoint = disk.checkpoint
         /\ disk.catalog \in Catalog /\ disk.checkpoint # Nil /\ disk.pending = Nil
         /\ disk.checkpoint.offset \in Nat /\ disk.checkpoint.offset \in 0..MaxOffset
         /\ CatalogOK(disk.catalog, disk.checkpoint.offset, tx)
         /\ Covers(disk.catalog, disk.checkpoint.offset, noticed)
         /\ Settled(disk) = disk.catalog /\ Offset(disk) = disk.checkpoint.offset
         /\ \A h \in Hours : /\ disk.catalog.hours[h] \in Entry \union {Nil}
                             /\ disk.data[h] = Held(disk.catalog.hours[h])
<1>1. /\ mem.catalog = disk.catalog /\ mem.checkpoint = disk.checkpoint
      /\ disk.catalog \in Catalog /\ disk.checkpoint # Nil /\ disk.pending = Nil
      /\ disk.checkpoint \in Checkpoint /\ NothingPending(disk)
  BY QuietFacts
<1>2. disk.checkpoint.offset \in Nat /\ disk.checkpoint.offset \in 0..MaxOffset
  BY <1>1, CheckpointTypes
<1>3. CatalogOK(disk.catalog, disk.checkpoint.offset, tx) /\ Covers(disk.catalog, disk.checkpoint.offset, noticed)
  BY <1>1 DEF LogInv, FilesLog
<1>4. Settled(disk) = disk.catalog /\ Offset(disk) = disk.checkpoint.offset
  BY <1>1, SettledIs, Typed
<1> QED
  BY <1>1, <1>2, <1>3, <1>4, CatalogTypes DEF NothingPending, Intact

\* The log a new transaction shows: a write or compaction none of it, a deletion all.
LEMMA BegunView ==
  ASSUME IInv', NEW p, disk'.pending = p, p # Nil, PendingOK(p), disk'.checkpoint # Nil, disk'.catalog # Nil,
         disk'.checkpoint = p.beforeCheckpoint
  PROVE  LET shown(c) == [offset |-> p.beforeCheckpoint.offset, live |-> [h \in Hours |-> LinesOf(c.hours[h])]] IN
         /\ p.type = "delete" => View(disk') = shown(p.afterCatalog)
         /\ p.type # "delete" => View(disk') = shown(p.beforeCatalog)
<1>1. RollsBack(disk') <=> p.type # "delete"
  BY DEF RollsBack, PendingOK
<1>2. Settled(disk') = IF p.type = "delete" THEN p.afterCatalog ELSE p.beforeCatalog
  BY <1>1 DEF Settled
<1>3. Offset(disk') = p.beforeCheckpoint.offset
  BY DEF Offset
<1> QED
  BY <1>2, <1>3 DEF View

\* Expiry takes effect when its pending file is there.
LEMMA ExpireLog == ASSUME IInv, IInv', LogInv, NEW S \in SUBSET Hours, Expire(S) PROVE LogInv'
<1> DEFINE after == [h \in Hours |-> IF h \in S THEN Nil ELSE mem.catalog.hours[h]]
           p     == [type |-> "delete", prev |-> mem.checkpoint.tid, tid |-> mem.checkpoint.tid,
                     beforeCheckpoint |-> mem.checkpoint, afterCheckpoint |-> mem.checkpoint,
                     beforeCatalog |-> mem.catalog,
                     afterCatalog  |-> [mem.catalog EXCEPT !.hours = after],
                     changed |-> S]
<1>1. /\ Quiet /\ pc = "idle" /\ ~unsynced /\ ~recovering
      /\ disk' = [disk EXCEPT !.pending = p]
      /\ pc' = "deleteCatalog" /\ unsynced'
      /\ UNCHANGED <<safe, mem, todo, at, removed, recovering, comp, tx, acked, noticed, faults>>
  BY DEF Expire, Publish, Idle, IInv, StepOK
<1>2. p.afterCatalog.hours = after
  BY <1>1, StartFacts DEF Catalog
<1>3. /\ p.type = "delete" /\ p.beforeCatalog = disk.catalog /\ p.beforeCheckpoint = disk.checkpoint
      /\ p.afterCheckpoint = disk.checkpoint /\ mem.catalog = disk.catalog
  BY <1>1, StartFacts
<1>4. \A h \in Hours : p.afterCatalog.hours[h] = IF h \in S THEN Nil ELSE disk.catalog.hours[h]
  BY <1>2, <1>3
<1>5. /\ disk'.pending = p /\ disk'.checkpoint = disk.checkpoint /\ disk'.catalog = disk.catalog
      /\ disk'.data = disk.data
  BY <1>1, Typed DEF Disk
<1> HIDE DEF p, after
<1>6. disk' \in Disk /\ FilesOK(disk') /\ p # Nil /\ p.changed \in SUBSET Hours /\ PendingOK(p)
  <2>1. disk' \in Disk /\ FilesOK(disk')
    <3>1. FilesOK(disk)' /\ TypeOK'
      BY DEF IInv
    <3> QED
      BY <1>1, <3>1 DEF TypeOK, FilesOK
  <2>2. p # Nil
    BY <1>1, <1>3, <1>5, <2>1, DoomedIs DEF IInv, StepOK
  <2> QED
    BY <1>1, <1>5, <2>1, <2>2, StartFacts, DiskTypes, PendingTypes DEF FilesOK
<1>7. LinesOf(Nil) = {} /\ DOMAIN Members(Nil) = {}
  BY DEF LinesOf, LinesIn, Members
<1>8. CatalogOK(p.afterCatalog, disk.checkpoint.offset, tx)
  <2>1. CatalogOK(disk.catalog, disk.checkpoint.offset, tx)
    BY <1>1, StartFacts
  <2>2. \A h \in Hours : p.afterCatalog.hours[h] = Nil \/ p.afterCatalog.hours[h] = disk.catalog.hours[h]
    BY <1>4
  <2>3. \A h \in Hours : p.afterCatalog.hours[h] # Nil => p.afterCatalog.hours[h].fileId <= tx
    BY <2>1, <2>2 DEF CatalogOK
  <2>4. \A h \in Hours : LinesOf(p.afterCatalog.hours[h]) \subseteq 1..disk.checkpoint.offset
    BY <1>7, <2>1, <2>2 DEF CatalogOK
  <2>5. ASSUME NEW h \in Hours, NEW g \in Hours, NEW i \in DOMAIN Members(p.afterCatalog.hours[h]),
               NEW j \in DOMAIN Members(p.afterCatalog.hours[g]),
               Members(p.afterCatalog.hours[h])[i] \intersect Members(p.afterCatalog.hours[g])[j] # {}
        PROVE  h = g /\ i = j
    <3>1. p.afterCatalog.hours[h] = disk.catalog.hours[h] /\ p.afterCatalog.hours[g] = disk.catalog.hours[g]
      BY <1>7, <2>2, <2>5
    <3> QED
      BY <2>1, <2>5, <3>1 DEF CatalogOK
  <2> QED
    BY <2>3, <2>4, <2>5 DEF CatalogOK
<1>9. FilesLog(disk, tx, noticed)'
  <2>1. FilesLog(disk', tx, noticed)
    BY <1>1, <1>3, <1>5, <1>6, <1>8, StartFacts DEF FilesLog, PendingLog
  <2>2. FilesLog(disk', tx', noticed')
    BY <1>1, <2>1
  <2> QED
    BY <2>2
<1>10. ViewsOK'
  <2>1. View(disk') = [offset |-> disk.checkpoint.offset, live |-> [h \in Hours |-> LinesOf(p.afterCatalog.hours[h])]]
    <3>1. disk'.checkpoint # Nil /\ disk'.catalog # Nil /\ disk'.checkpoint = p.beforeCheckpoint /\ disk'.pending = p
      BY <1>1, <1>3, <1>5, <1>6, StartFacts DEF FilesOK
    <3>2. View(disk') = [offset |-> p.beforeCheckpoint.offset, live |-> [h \in Hours |-> LinesOf(p.afterCatalog.hours[h])]]
      BY <1>3, <1>6, <3>1, BegunView
    <3> QED
      BY <1>3, <3>2
  <2>2. View(disk) = [offset |-> disk.checkpoint.offset, live |-> [h \in Hours |-> LinesOf(disk.catalog.hours[h])]]
    BY <1>1, StartFacts DEF View
  <2>3. View(disk').live = [h \in Hours |-> IF h \in S THEN {} ELSE View(disk).live[h]]
    <3>1. \A h \in Hours : LinesOf(p.afterCatalog.hours[h]) = IF h \in S THEN {} ELSE LinesOf(disk.catalog.hours[h])
      BY <1>4, <1>7
    <3>2. View(disk).live = [h \in Hours |-> LinesOf(disk.catalog.hours[h])]
      BY <2>2
    <3>3. View(disk').live = [h \in Hours |-> LinesOf(p.afterCatalog.hours[h])]
      BY <2>1
    <3> QED
      BY <3>1, <3>2, <3>3
  <2>4. LogStep(View(disk), View(disk'))
    BY <2>1, <2>2, <2>3 DEF LogStep
  <2> QED
    BY <1>1, <2>4, ViewsAfter
<1>11. DeleteLog' /\ MemLog'
  <2>1. \A h : Before(h)' = disk.catalog.hours[h]
    BY <1>3, <1>5 DEF Before
  <2>2. \A h \in disk'.pending.changed : disk'.data[h] = Held(Before(h)')
    BY <1>1, <1>5, <1>6, <2>1, StartFacts
  <2>3. \A h \in disk'.pending.changed : disk'.data[h] = Held(Before(h))'
    BY <2>2 DEF Held
  <2> QED
    BY <1>1, <1>3, <1>5, <2>3 DEF DeleteLog, MemLog
<1>12. CompLog'
  BY <1>1, <1>3, <1>5 DEF LogInv, CompLog, SameFile
<1>13. FilesLog(safe, tx, noticed)'
  BY <1>1, SafeLog, Typed
<1> QED
  BY <1>9, <1>10, <1>11, <1>12, <1>13 DEF LogInv

\* A commit files each new line in one new member.
LEMMA GrownCatalog ==
  ASSUME NEW b \in Catalog, NEW a \in Catalog, NEW from \in Nat, NEW to \in 0..MaxOffset, from <= to,
         NEW last \in Nat, NEW tid \in Nat, last < tid, NEW place \in [Lines -> Hours],
         CatalogOK(b, from, last), NEW known, Covers(b, from, known),
         \A h \in Hours : Grown(b.hours[h], a.hours[h], Batch(from, to, place, h), tid)
  PROVE  CatalogOK(a, to, tid) /\ Covers(a, to, known)
<1> DEFINE New(h) == Batch(from, to, place, h)
           B(h)   == Members(b.hours[h])
           A(h)   == Members(a.hours[h])
<1>1. \A h \in Hours : /\ a.hours[h] \in Entry \union {Nil} /\ b.hours[h] \in Entry \union {Nil}
                       /\ New(h) \in Member
  BY CatalogTypes, BatchType
<1>2. \A h \in Hours : /\ LinesOf(a.hours[h]) = LinesOf(b.hours[h]) \union New(h)
                       /\ \/ a.hours[h] = b.hours[h]
                          \/ /\ A(h) = Append(B(h), New(h)) /\ a.hours[h] # Nil
                             /\ a.hours[h].fileId = IF b.hours[h] = Nil THEN tid ELSE b.hours[h].fileId
  BY <1>1, GrownIs
<1>3. to \in Nat /\ \A h \in Hours : New(h) \subseteq (from + 1)..to
  BY BoundsAssumption DEF Batch
<1>4. \A h \in Hours : a.hours[h] # Nil => a.hours[h].fileId <= tid
  <2>1. \A h \in Hours : b.hours[h] # Nil => b.hours[h].fileId <= last /\ b.hours[h].fileId \in Nat
    BY <1>1 DEF CatalogOK, Entry
  <2> QED
    BY <1>2, <2>1
<1>5. \A h \in Hours : LinesOf(a.hours[h]) \subseteq 1..to
  <2>1. \A h \in Hours : LinesOf(b.hours[h]) \subseteq 1..from
    BY DEF CatalogOK
  <2>2. 1..from \subseteq 1..to /\ (from + 1)..to \subseteq 1..to
    BY <1>3
  <2> HIDE DEF New
  <2> QED
    BY <1>2, <1>3, <2>1, <2>2
<1>6. \A h \in Hours : B(h) \in Content /\ DOMAIN B(h) = 1..Len(B(h)) /\ Len(B(h)) \in Nat
  BY <1>1, MembersType, LenProperties DEF Content
<1>7. ASSUME NEW h \in Hours, NEW i \in DOMAIN A(h)
      PROVE  \/ i \in DOMAIN B(h) /\ A(h)[i] = B(h)[i] /\ A(h)[i] \subseteq 1..from
             \/ i = Len(B(h)) + 1 /\ A(h)[i] = New(h)
  <2>1. ASSUME NEW k \in DOMAIN B(h) PROVE B(h)[k] \subseteq 1..from
    BY DEF CatalogOK, LinesOf, LinesIn
  <2>2. CASE a.hours[h] = b.hours[h]
    BY <1>7, <2>1, <2>2
  <2>3. CASE A(h) = Append(B(h), New(h))
    <3>1. B(h) \in Seq(Member) /\ New(h) \in Member /\ Len(B(h)) \in Nat /\ DOMAIN B(h) = 1..Len(B(h))
      BY <1>1, <1>6 DEF Content
    <3> HIDE DEF A, B, New
    <3>2. /\ DOMAIN A(h) = 1..(Len(B(h)) + 1)
          /\ \A k \in 1..Len(B(h)) : A(h)[k] = B(h)[k]
          /\ A(h)[Len(B(h)) + 1] = New(h)
      BY <2>3, <3>1, AppendProperties, LenProperties
    <3>3. i \in 1..Len(B(h)) \/ i = Len(B(h)) + 1
      BY <1>7, <3>1, <3>2
    <3> QED
      BY <2>1, <3>1, <3>2, <3>3
  <2> QED
    BY <1>2, <2>2, <2>3
<1>8. ASSUME NEW h \in Hours, NEW g \in Hours, NEW i \in DOMAIN A(h), NEW j \in DOMAIN A(g),
             A(h)[i] \intersect A(g)[j] # {}
      PROVE  h = g /\ i = j
  <2>1. (1..from) \intersect New(h) = {} /\ (1..from) \intersect New(g) = {}
    <3>1. (1..from) \intersect ((from + 1)..to) = {}
      OBVIOUS
    <3> HIDE DEF New
    <3> QED
      BY <1>3, <3>1
  <2>2. New(h) \intersect New(g) # {} => h = g
    BY DEF Batch
  <2>3. \/ i \in DOMAIN B(h) /\ A(h)[i] = B(h)[i] /\ A(h)[i] \subseteq 1..from
        \/ i = Len(B(h)) + 1 /\ A(h)[i] = New(h)
    BY <1>7
  <2>4. \/ j \in DOMAIN B(g) /\ A(g)[j] = B(g)[j] /\ A(g)[j] \subseteq 1..from
        \/ j = Len(B(g)) + 1 /\ A(g)[j] = New(g)
    BY <1>7
  <2>5. ASSUME NEW k \in DOMAIN B(h), NEW l \in DOMAIN B(g), B(h)[k] \intersect B(g)[l] # {} PROVE h = g /\ k = l
    BY <2>5 DEF CatalogOK
  <2> HIDE DEF A, B, New
  <2> QED
    BY <1>8, <2>1, <2>2, <2>3, <2>4, <2>5
<1>9. \A l \in 1..to : l \in known \/ \E h \in Hours : l \in LinesOf(a.hours[h])
  <2> SUFFICES ASSUME NEW l \in 1..to PROVE l \in known \/ \E h \in Hours : l \in LinesOf(a.hours[h])
    OBVIOUS
  <2>1. CASE l <= from
    <3>1. l \in 1..from
      BY <1>3, <2>1
    <3>2. l \in known \/ \E h \in Hours : l \in LinesOf(b.hours[h])
      BY <3>1 DEF Covers
    <3> QED
      BY <1>2, <3>2
  <2>2. CASE ~(l <= from)
    <3>1. l \in (from + 1)..to /\ l \in Lines
      BY <1>3, <2>2, BoundsAssumption DEF Lines
    <3>2. place[l] \in Hours /\ l \in New(place[l])
      BY <3>1 DEF Batch
    <3> HIDE DEF New
    <3> QED
      BY <1>2, <3>2
  <2> QED
    BY <2>1, <2>2
<1>10. CatalogOK(a, to, tid)
  BY <1>4, <1>5, <1>8 DEF CatalogOK
<1>11. Covers(a, to, known)
  BY <1>9 DEF Covers
<1> QED
  BY <1>10, <1>11

\* commit() up to pending.json shows nothing yet.
LEMMA CommitLog ==
  ASSUME IInv, IInv', LogInv, NEW n \in 0..MaxOffset, NEW place \in [Lines -> Hours], Commit(n, place)
  PROVE  LogInv'
<1> DEFINE batch(h) == {l \in (mem.checkpoint.offset + 1)..n : place[l] = h}
           changed  == {h \in Hours : batch(h) # {}}
           now      == mem.catalog.hours
           after    == [h \in Hours |-> IF h \in changed THEN Appended(now[h], batch(h)) ELSE now[h]]
           p        == [type |-> "write", prev |-> mem.checkpoint.tid, tid |-> tx + 1,
                        beforeCheckpoint |-> mem.checkpoint,
                        afterCheckpoint  |-> [tid |-> tx + 1, offset |-> n],
                        beforeCatalog |-> mem.catalog,
                        afterCatalog  |-> [tid |-> tx + 1, hours |-> after],
                        changed |-> changed]
           from     == disk.checkpoint.offset
<1>1. /\ Quiet /\ pc = "idle" /\ ~unsynced /\ ~recovering
      /\ n >= mem.checkpoint.offset
      /\ tx' = tx + 1
      /\ disk' = [disk EXCEPT !.pending = p]
      /\ pc' = "append" /\ unsynced'
      /\ UNCHANGED <<safe, mem, at, removed, recovering, comp, acked, noticed, faults>>
  BY DEF Commit, Publish, Idle, IInv, StepOK
<1>2. /\ mem.catalog = disk.catalog /\ mem.checkpoint = disk.checkpoint /\ from \in Nat /\ from <= n
      /\ tx \in Nat
  BY <1>1, StartFacts, Typed
<1>3. \A h \in Hours : batch(h) = Batch(from, n, place, h)
  BY <1>2 DEF Batch
<1>4. \A h \in Hours : Grown(disk.catalog.hours[h], after[h], Batch(from, n, place, h), tx + 1)
  <2> SUFFICES ASSUME NEW h \in Hours PROVE Grown(now[h], after[h], batch(h), tx + 1)
    BY <1>2, <1>3
  <2>1. CASE h \notin changed
    <3>1. batch(h) = {} /\ after[h] = now[h]
      BY <2>1
    <3> HIDE DEF batch, now, after
    <3> QED
      BY <3>1 DEF Grown
  <2>2. CASE h \in changed
    <3>1. after[h] = Appended(now[h], batch(h))
      BY <2>2
    <3>2. now[h] \in Entry \union {Nil} /\ batch(h) \in Member
      <4>1. now[h] \in Entry \union {Nil}
        BY <1>1, <1>2, StartFacts
      <4>2. Batch(from, n, place, h) \in Member
        <5> HIDE DEF from
        <5> QED
          BY <1>2, BatchType
      <4>3. batch(h) = Batch(from, n, place, h)
        BY <1>3
      <4> HIDE DEF batch, now
      <4> QED
        BY <4>1, <4>2, <4>3
    <3> HIDE DEF batch, now, after, changed
    <3>3. CASE now[h] = Nil
      <4>1. after[h] = [fileId |-> tx + 1, members |-> <<batch(h)>>, compacted |-> FALSE]
        BY <3>1, <3>3 DEF Appended
      <4>2. after[h] \in Entry
        BY <1>2, <3>2, <4>1, SingleContent DEF Entry
      <4>3. after[h] # Nil
        BY <4>2, NilAssumption
      <4>4. after[h].members = Append(Members(now[h]), batch(h)) /\ after[h].fileId = tx + 1
        BY <3>2, <3>3, <4>1, SingleContent DEF Members
      <4> QED
        BY <3>3, <4>3, <4>4 DEF Grown
    <3>4. CASE now[h] # Nil
      <4>1. after[h] = [now[h] EXCEPT !.members = Append(@, batch(h))]
        BY <3>1, <3>4 DEF Appended
      <4>2. now[h] \in Entry /\ Append(now[h].members, batch(h)) \in Content
        BY <3>2, <3>4, HeldTypes, AppendPrefix
      <4>3. after[h] \in Entry /\ after[h].members = Append(now[h].members, batch(h)) /\ after[h].fileId = now[h].fileId
        BY <4>1, <4>2 DEF Entry
      <4>4. after[h] # Nil
        BY <4>3, NilAssumption
      <4> QED
        BY <3>4, <4>3, <4>4 DEF Grown, Members
    <3> QED
      BY <3>3, <3>4
  <2> QED
    BY <2>1, <2>2
<1>5. /\ p.type = "write" /\ p.beforeCatalog = disk.catalog /\ p.beforeCheckpoint = disk.checkpoint
      /\ p.afterCheckpoint.offset = n /\ p.afterCatalog.hours = after /\ p.tid = tx + 1
  BY <1>2
<1>6. /\ disk'.pending = p /\ disk'.checkpoint = disk.checkpoint /\ disk'.catalog = disk.catalog
  BY <1>1, Typed DEF Disk
<1> HIDE DEF batch, changed, now, after, p
<1>7. p # Nil /\ p \in Pending /\ PendingOK(p)
  <2>1. disk' \in Disk /\ FilesOK(disk)' /\ Publishing'
    BY <1>1 DEF IInv, TypeOK, StepOK
  <2>2. p # Nil
    BY <1>6, <2>1 DEF Publishing
  <2> QED
    BY <1>1, <1>6, <2>1, <2>2, StartFacts, DiskTypes DEF FilesOK
<1>8. /\ CatalogOK(disk.catalog, from, tx + 1) /\ Covers(disk.catalog, from, noticed)
      /\ CatalogOK(p.afterCatalog, n, tx + 1) /\ Covers(p.afterCatalog, n, noticed)
  <2>1. p.afterCatalog \in Catalog /\ disk.catalog \in Catalog
    BY <1>1, <1>7, PendingTypes, StartFacts
  <2>2. CatalogOK(disk.catalog, from, tx) /\ Covers(disk.catalog, from, noticed)
    BY <1>1, StartFacts
  <2>3. tx + 1 \in Nat /\ tx <= tx + 1 /\ tx < tx + 1
    BY <1>2
  <2>4. \A h \in Hours : Grown(disk.catalog.hours[h], p.afterCatalog.hours[h], Batch(from, n, place, h), tx + 1)
    BY <1>4, <1>5
  <2> HIDE DEF from
  <2>5. CatalogOK(disk.catalog, from, tx + 1)
    BY <1>2, <2>1, <2>2, <2>3, CatalogLater
  <2>6. CatalogOK(p.afterCatalog, n, tx + 1) /\ Covers(p.afterCatalog, n, noticed)
    BY <1>2, <2>1, <2>2, <2>3, <2>4, GrownCatalog
  <2> QED
    BY <2>2, <2>5, <2>6
<1>9. PendingLog(p)
  <2>1. \A h \in Hours : Grown(p.beforeCatalog.hours[h], p.afterCatalog.hours[h],
                               Batch(p.beforeCheckpoint.offset, p.afterCheckpoint.offset, place, h), p.tid)
    BY <1>4, <1>5
  <2> QED
    BY <1>5, <2>1 DEF PendingLog
<1>10. FilesLog(disk, tx, noticed)'
  <2>1. FilesLog(disk', tx + 1, noticed)
    BY <1>5, <1>6, <1>7, <1>8, <1>9 DEF FilesLog
  <2>2. FilesLog(disk', tx', noticed')
    BY <1>1, <2>1
  <2> QED
    BY <2>2
<1>11. ViewsOK'
  <2>1. disk'.checkpoint # Nil /\ disk'.catalog # Nil /\ disk'.checkpoint = p.beforeCheckpoint
    BY <1>1, <1>5, <1>6, QuietFacts
  <2>2. View(disk') = [offset |-> p.beforeCheckpoint.offset, live |-> [h \in Hours |-> LinesOf(p.beforeCatalog.hours[h])]]
    BY <1>5, <1>6, <1>7, <2>1, BegunView
  <2>3. View(disk') = View(disk)
    BY <1>1, <1>5, <2>2, StartFacts DEF View
  <2> QED
    BY <1>1, <2>3, ViewsAfter
<1>12. DeleteLog' /\ MemLog'
  BY <1>1, <1>2, <1>5, <1>6 DEF DeleteLog, MemLog
<1>13. CompLog'
  <2>1. CASE comp = Nil
    BY <1>1, <2>1 DEF CompLog
  <2>2. CASE comp # Nil
    <3>1. CompLog /\ comp.before.fileId \in Nat
      BY <2>2, Typed DEF LogInv, TypeOK, Entry
    <3>2. comp.before.fileId <= tx + 1 /\ comp.before.fileId < tx + 1
      BY <1>2, <2>2, <3>1 DEF CompLog
    <3> QED
      BY <1>1, <1>5, <1>6, <2>2, <3>1, <3>2 DEF CompLog, SameFile
  <2> QED
    BY <2>1, <2>2
<1>14. FilesLog(safe, tx, noticed)'
  BY <1>1, <1>2, SafeLog
<1> QED
  BY <1>10, <1>11, <1>12, <1>13, <1>14 DEF LogInv

\* The recompressed hour has the lines it had, in one member.
LEMMA CompactPendingLog == ASSUME IInv, IInv', LogInv, CompactPending PROVE LogInv'
<1> DEFINE after == [fileId |-> tx + 1, members |-> comp.staged, compacted |-> TRUE]
           hour  == comp.hour
           c     == [tid |-> tx + 1, hours |-> [mem.catalog.hours EXCEPT ![hour] = after]]
           p     == [type |-> "compact", prev |-> mem.checkpoint.tid, tid |-> tx + 1,
                     beforeCheckpoint |-> mem.checkpoint,
                     afterCheckpoint  |-> [mem.checkpoint EXCEPT !.tid = tx + 1],
                     beforeCatalog |-> mem.catalog,
                     afterCatalog  |-> c,
                     changed |-> {hour}]
           b     == comp.before.members
           from  == disk.checkpoint.offset
<1>1. /\ pc = "compactPending" /\ pc' = "compactReplace" /\ ~unsynced /\ unsynced' /\ Quiet
      /\ tx' = tx + 1 /\ comp' = Nil /\ comp # Nil /\ comp.staged # Nil
      /\ disk' = [disk EXCEPT !.pending = p]
      /\ UNCHANGED <<safe, mem, removed, recovering, acked, noticed, faults>>
  BY DEF CompactPending, Publish, IInv, StepOK
<1>2. /\ mem.catalog = disk.catalog /\ mem.checkpoint = disk.checkpoint /\ from \in Nat /\ from \in 0..MaxOffset
      /\ tx \in Nat /\ disk.catalog \in Catalog /\ disk.checkpoint \in Checkpoint
      /\ CatalogOK(disk.catalog, from, tx) /\ Covers(disk.catalog, from, noticed)
  BY <1>1, StartFacts, QuietFacts, Typed
<1>3. /\ hour \in Hours /\ b \in Content
      /\ disk.catalog.hours[hour] \in Entry /\ disk.catalog.hours[hour].members = b
      /\ comp.staged = <<LinesIn(b)>>
  <2>1. /\ hour \in Hours /\ b \in Content
    BY <1>1, Typed DEF TypeOK, Entry
  <2>2. Unchanged(comp.before, disk.catalog.hours[hour])
    BY <1>1, <1>2 DEF LogInv, CompLog
  <2>3. disk.catalog.hours[hour] \in Entry /\ disk.catalog.hours[hour].members \in Content
    BY <1>2, <2>1, <2>2, CatalogTypes DEF Unchanged, Entry
  <2>4. SameFile(mem.catalog.hours[hour])
    BY <1>2, <2>2 DEF Unchanged, SameFile
  <2>5. Prefix(disk.catalog.hours[hour].members, Len(b)) = b /\ comp.staged = <<LinesIn(b)>>
    BY <1>1, <1>2, <2>4 DEF LogInv, CompLog
  <2>6. Prefix(disk.catalog.hours[hour].members, Len(b)) = disk.catalog.hours[hour].members
    BY <2>2, <2>3, PrefixFull DEF Unchanged
  <2> QED
    BY <2>1, <2>3, <2>5, <2>6
<1>4. /\ p.type = "compact" /\ p.beforeCatalog = disk.catalog /\ p.beforeCheckpoint = disk.checkpoint
      /\ p.afterCheckpoint.offset = from /\ p.afterCatalog = c /\ p.tid = tx + 1
  BY <1>2 DEF Checkpoint
<1>5. /\ disk'.pending = p /\ disk'.checkpoint = disk.checkpoint /\ disk'.catalog = disk.catalog
  BY <1>1, Typed DEF Disk
<1>6. /\ c.hours[hour] = after
      /\ \A h \in Hours : h # hour => c.hours[h] = disk.catalog.hours[h]
  BY <1>2, <1>3 DEF Catalog
<1> HIDE DEF p, c
<1>7. p # Nil /\ p \in Pending /\ PendingOK(p)
  <2>1. disk' \in Disk /\ FilesOK(disk)' /\ Publishing'
    BY <1>1 DEF IInv, TypeOK, StepOK
  <2>2. p # Nil
    BY <1>5, <2>1 DEF Publishing
  <2> QED
    BY <1>1, <1>5, <2>1, <2>2, StartFacts, DiskTypes DEF FilesOK
<1>8. /\ after # Nil /\ LinesIn(b) \in Member
      /\ Members(c.hours[hour]) = <<LinesIn(b)>> /\ DOMAIN Members(c.hours[hour]) = {1}
      /\ Members(c.hours[hour])[1] = LinesIn(b)
      /\ LinesOf(c.hours[hour]) = LinesIn(b)
      /\ Members(disk.catalog.hours[hour]) = b /\ LinesOf(disk.catalog.hours[hour]) = LinesIn(b)
  <2>1. disk.catalog.hours[hour] # Nil
    BY <1>3, NilAssumption
  <2>2. Members(disk.catalog.hours[hour]) = b /\ LinesOf(disk.catalog.hours[hour]) = LinesIn(b)
    BY <1>3, <2>1 DEF Members, LinesOf
  <2>3. LinesIn(b) \in Member
    BY <1>3, <2>2, MembersType DEF Member
  <2>4. c.hours[hour] # Nil
    <3>1. hour \in p.changed
      BY DEF p
    <3> QED
      BY <1>4, <1>7, <3>1 DEF PendingOK
  <2>5. Members(c.hours[hour]) = <<LinesIn(b)>>
    BY <1>3, <1>6, <2>4 DEF Members
  <2> HIDE DEF after
  <2> QED
    BY <1>6, <2>2, <2>3, <2>4, <2>5, LinesSingle DEF LinesOf
<1>9. \A h \in Hours : LinesOf(c.hours[h]) = LinesOf(disk.catalog.hours[h])
  BY <1>6, <1>8 DEF LinesOf
<1>10. CatalogOK(c, from, tx + 1) /\ Covers(c, from, noticed) /\ CatalogOK(disk.catalog, from, tx + 1)
  <2>1. CatalogOK(disk.catalog, from, tx + 1)
    <3> HIDE DEF from
    <3> QED
      BY <1>2, CatalogLater
  <2>2. Covers(c, from, noticed)
    BY <1>2, <1>9 DEF Covers
  <2>3. \A h \in Hours : c.hours[h] # Nil => c.hours[h].fileId <= tx + 1
    <3>1. \A h \in Hours : disk.catalog.hours[h] # Nil => disk.catalog.hours[h].fileId <= tx + 1
      BY <2>1 DEF CatalogOK
    <3>2. c.hours[hour].fileId <= tx + 1
      BY <1>2, <1>6
    <3> HIDE DEF hour
    <3> QED
      BY <1>6, <3>1, <3>2
  <2>4. \A h \in Hours : LinesOf(c.hours[h]) \subseteq 1..from
    BY <1>2, <1>9 DEF CatalogOK
  <2>5. ASSUME NEW h \in Hours, NEW g \in Hours, NEW i \in DOMAIN Members(disk.catalog.hours[h]),
               NEW j \in DOMAIN Members(disk.catalog.hours[g]),
               Members(disk.catalog.hours[h])[i] \intersect Members(disk.catalog.hours[g])[j] # {}
        PROVE  h = g /\ i = j
    BY <1>2, <2>5 DEF CatalogOK
  <2>6. ASSUME NEW h \in Hours, NEW g \in Hours, NEW i \in DOMAIN Members(c.hours[h]),
               NEW j \in DOMAIN Members(c.hours[g]),
               Members(c.hours[h])[i] \intersect Members(c.hours[g])[j] # {}
        PROVE  h = g /\ i = j
    <3>1. ASSUME NEW e \in Hours, NEW k \in DOMAIN Members(c.hours[e]), NEW l \in Members(c.hours[e])[k]
          PROVE  \E m \in DOMAIN Members(disk.catalog.hours[e]) : l \in Members(disk.catalog.hours[e])[m]
      <4>1. CASE e # hour
        BY <1>6, <4>1
      <4>2. CASE e = hour
        <5>1. l \in LinesIn(b)
          BY <1>8, <3>1, <4>2
        <5> QED
          BY <1>8, <4>2, <5>1 DEF LinesIn
      <4> QED
        BY <4>1, <4>2
    <3>2. PICK l : l \in Members(c.hours[h])[i] /\ l \in Members(c.hours[g])[j]
      BY <2>6
    <3>3. PICK k \in DOMAIN Members(disk.catalog.hours[h]) : l \in Members(disk.catalog.hours[h])[k]
      BY <3>1, <3>2
    <3>4. PICK m \in DOMAIN Members(disk.catalog.hours[g]) : l \in Members(disk.catalog.hours[g])[m]
      BY <3>1, <3>2
    <3>5. h = g
      BY <2>5, <3>3, <3>4
    <3>6. CASE h = hour
      BY <1>8, <2>6, <3>5, <3>6
    <3>7. CASE h # hour
      BY <1>6, <2>5, <2>6, <3>5, <3>7
    <3> QED
      BY <3>5, <3>6, <3>7
  <2> QED
    BY <2>1, <2>2, <2>3, <2>4, <2>6 DEF CatalogOK
<1>11. PendingLog(p)
  BY <1>4, <1>9 DEF PendingLog
<1>12. FilesLog(disk, tx, noticed)'
  <2>1. FilesLog(disk', tx + 1, noticed)
    BY <1>2, <1>4, <1>5, <1>7, <1>10, <1>11 DEF FilesLog
  <2>2. FilesLog(disk', tx', noticed')
    BY <1>1, <2>1
  <2> QED
    BY <2>2
<1>13. ViewsOK'
  <2>1. disk'.checkpoint # Nil /\ disk'.catalog # Nil /\ disk'.checkpoint = p.beforeCheckpoint
    BY <1>1, <1>4, <1>5, QuietFacts
  <2>2. View(disk') = [offset |-> p.beforeCheckpoint.offset, live |-> [h \in Hours |-> LinesOf(p.beforeCatalog.hours[h])]]
    BY <1>4, <1>5, <1>7, <2>1, BegunView
  <2>3. View(disk') = View(disk)
    BY <1>1, <1>4, <2>2, StartFacts DEF View
  <2> QED
    BY <1>1, <2>3, ViewsAfter
<1>14. DeleteLog' /\ MemLog' /\ CompLog'
  BY <1>1, <1>2, <1>4, <1>5 DEF DeleteLog, MemLog, CompLog
<1>15. FilesLog(safe, tx, noticed)'
  BY <1>1, <1>2, SafeLog
<1> QED
  BY <1>12, <1>13, <1>14, <1>15 DEF LogInv

-------------------------------------------------------------------------------
(* The theorems.                                                           *)

\* An archive that was never opened holds no line.
LEMMA InitLog == Init => LogInv
<1> SUFFICES ASSUME Init PROVE LogInv
  OBVIOUS
<1>1. /\ disk.checkpoint = Nil /\ safe = disk /\ pc = "down" /\ comp = Nil
  BY DEF Init
<1>2. ViewsOK
  BY <1>1 DEF ViewsOK, LogStep
<1> QED
  BY <1>1, <1>2 DEF LogInv, FilesLog, DeleteLog, MemLog, CompLog

\* Every step of the store, a crash or a power loss included, keeps LogInv.
LEMMA NextLog == IInv /\ IInv' /\ LogInv /\ [Next]_vars => LogInv'
<1> SUFFICES ASSUME IInv, IInv', LogInv, [Next]_vars PROVE LogInv'
  OBVIOUS
<1>1. CASE Request
  BY <1>1, CommitLog, ExpireLog, CompactSelectLog DEF Request
<1>2. CASE Sync
  BY <1>2, DurableLog
<1>3. CASE WriteStep
  BY <1>3, PublishLog, PublishCheckpointLog, FinishPendingLog, EndsLog DEF WriteStep
<1>4. CASE CompactStep
  BY <1>4, CompactReadLog, CompactLinkLog, CompactPendingLog, PublishLog DEF CompactStep
<1>5. CASE DeleteStep
  BY <1>5, DeleteCatalogLog, DeleteFilesLog DEF DeleteStep
<1>6. CASE OpenStep
  BY <1>6, DurableLog, InitCatalogLog, InitCheckpointLog, UndoLog, EndsLog DEF OpenStep
<1>7. CASE Fault
  BY <1>7, FaultLog
<1>8. CASE UNCHANGED vars
  BY <1>8, StutterLog
<1> QED
  BY <1>1, <1>2, <1>3, <1>4, <1>5, <1>6, <1>7, <1>8 DEF Next

\* What the files stand for, visible and durable, always accounts for every line
\* up to the checkpoint, each in one member (commit, compactHour, expire, recover).
THEOREM LinesKept == Spec => []LogInv
<1> QED
  BY InitLog, NextLog, Invariance, PTL DEF Spec

\* A line the durable checkpoint covers is in the archive, or named by a deletion
\* notice, or part of a deletion that init() completes (deleteFiles, recover).
THEOREM NothingLost == Spec => []NoSilentLoss
<1>1. IInv /\ LogInv => NoSilentLoss
  BY LogSilent DEF LogInv
<1> QED
  BY <1>1, Invariance, LinesKept, PTL

\* No line is kept twice, and none beyond the durable checkpoint, from where the
\* collector reads again (commit, compactHour, recover).
THEOREM NothingTwice == Spec => []NoLineTwice
<1>1. IInv /\ LogInv => NoLineTwice
  BY LogTwice DEF LogInv
<1> QED
  BY <1>1, Invariance, LinesKept, PTL

\* The durable files change only when they become the visible ones.
LEMMA SafeStep == [Next]_vars => safe' = safe \/ safe' = disk
BY DEF Next, vars, Request, Commit, Expire, CompactSelect, Publish, Sync,
       WriteStep, AppendPartial, AppendRest, PublishIndex, PublishCatalog, PublishCheckpoint, FinishPending, Cleanup,
       CompactStep, CompactRead, CompactLink, CompactPending, CompactReplace,
       DeleteStep, DeleteCatalog, DeleteData, DeleteIndex, DeleteNotice, DeleteDone,
       OpenStep, Open, InitCatalog, InitCheckpoint, Load, RollbackData, RollbackIndex, RollbackCatalog, Check,
       Fault, Crash, PowerLoss, Lost

\* The abstract log's state is the view of the durable files.
LEMMA LogIsView ==
  ASSUME NEW d \in Disk, FilesOK(d)
  PROVE  /\ Offset(d) = View(d).offset
         /\ [h \in Hours |-> LinesIn(Kept(d, h))] = View(d).live
<1>1. \A h \in Hours : LinesIn(Kept(d, h)) = LinesOf(Settled(d).hours[h])
  BY KeptIs DEF LinesOf
<1> QED
  BY <1>1 DEF View

\* The store implements the abstract log: a commit and an expiry take effect in
\* one step, when the checkpoint or the pending file becomes durable
\* (commit, expire), and compaction, crashes and recovery have none.
THEOREM ImplementsLog == Spec => RefinesLog
<1>1. Init => Log!Init
  <2> SUFFICES ASSUME Init PROVE Log!Init
    OBVIOUS
  <2>1. safe.checkpoint = Nil /\ safe \in Disk /\ FilesOK(safe)
    BY InitInv, Typed DEF Init
  <2>2. Offset(safe) = 0 /\ \A h \in Hours : Settled(safe).hours[h] = Nil
    BY <2>1, SettledIs
  <2>3. \A h \in Hours : LinesIn(Kept(safe, h)) = {}
    BY <2>1, <2>2, KeptIs DEF Members, LinesIn
  <2> QED
    BY <2>2, <2>3 DEF Log!Init
<1>2. IInv /\ IInv' /\ LogInv /\ [Next]_vars => [Log!Next]_(Log!logVars)
  <2> SUFFICES ASSUME IInv, IInv', LogInv, [Next]_vars PROVE [Log!Next]_(Log!logVars)
    OBVIOUS
  <2> DEFINE live(d) == [h \in Hours |-> LinesIn(Kept(d, h))]
             v       == View(safe)
             w       == View(disk)
  <2>1. Offset(safe) = v.offset /\ live(safe) = v.live /\ Offset(disk) = w.offset /\ live(disk) = w.live
    BY LogIsView, Typed
  <2>2. v.offset \in Nat /\ w.offset \in 0..MaxOffset /\ w.offset \in Nat
    BY <2>1, OffsetType, Typed
  <2>3. CASE safe' = safe
    BY <2>3 DEF Log!logVars, Offset, Kept, Settled, RollsBack, LinesIn, Prefix
  <2>4. CASE safe' = disk
    <3>1. Offset(safe)' = w.offset /\ live(safe)' = w.live
      <4>1. Offset(safe') = w.offset /\ live(safe') = w.live
        BY <2>1, <2>4
      <4> QED
        BY <4>1 DEF Offset, Kept, Settled, RollsBack, LinesIn, Prefix
    <3>2. LogStep(v, w)
      BY DEF LogInv, ViewsOK
    <3> HIDE DEF v, w, live
    <3>3. CASE v = w
      BY <2>1, <3>1, <3>3 DEF Log!logVars, live
    <3>4. CASE /\ v.offset <= w.offset
               /\ \E place \in [Lines -> Hours] : w.live = [h \in Hours |-> v.live[h] \union Batch(v.offset, w.offset, place, h)]
      <4>1. PICK place \in [1..MaxOffset -> Hours] :
              w.live = [h \in Hours |-> v.live[h] \union Batch(v.offset, w.offset, place, h)]
        BY <3>4 DEF Lines
      <4>2. Log!Commit(w.offset, place)
        BY <2>1, <3>1, <4>1 DEF Log!Commit, Batch, live
      <4>3. w.offset \in Offset(safe)..MaxOffset
        BY <2>1, <2>2, <3>4, BoundsAssumption
      <4> QED
        BY <4>1, <4>2, <4>3 DEF Log!Next
    <3>5. CASE /\ v.offset = w.offset
               /\ \E S \in SUBSET Hours : w.live = [h \in Hours |-> IF h \in S THEN {} ELSE v.live[h]]
      <4>1. PICK S \in SUBSET Hours : w.live = [h \in Hours |-> IF h \in S THEN {} ELSE v.live[h]]
        BY <3>5
      <4>2. Log!Expire(S)
        BY <2>1, <3>1, <3>5, <4>1 DEF Log!Expire, live
      <4> QED
        BY <4>1, <4>2 DEF Log!Next
    <3> QED
      BY <3>2, <3>3, <3>4, <3>5 DEF LogStep
  <2> QED
    BY <2>3, <2>4, SafeStep
<1> QED
  BY <1>1, <1>2, Invariance, LinesKept, PTL DEF Spec, RefinesLog, Log!Spec
===============================================================================
