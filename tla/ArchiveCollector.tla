---------------------------- MODULE ArchiveCollector ----------------------------
(***************************************************************************)
(* The collector (log-archiver/collector.js over sources.js): it follows   *)
(* one log while its writer appends, its rotation renames, copies,         *)
(* truncates and removes files, and the archiver restarts.  A generation   *)
(* is a file as far as it was followed; what cannot be followed any more   *)
(* is a gap.  All lines differ, and store.commit is one step (ArchiveStore *)
(* shows it may be).                                                       *)
(***************************************************************************)
EXTENDS Naturals, Sequences, FiniteSets, SequencesExt, Functions

CONSTANTS MaxLines,    \* bound: lines written
          MaxFiles,    \* bound: files created
          MaxBatch,    \* lines one cycle may take, of all logs
          MaxFaults,  \* bound: restarts, failed reads and emptied logs
          SeenCopies   \* a cycle may run into a copytruncate half done, or fail to read such a log

ASSUME CollectorAssumption ==
  /\ MaxLines \in Nat /\ MaxFiles \in Nat \ {0} /\ MaxBatch \in Nat \ {0} /\ MaxFaults \in Nat
  /\ SeenCopies \in BOOLEAN

Files == 1..MaxFiles

VARIABLES
  content,   \* file -> its lines; a file keeps its identity whatever its name
  dir,       \* the files by their names: the active log, then rotation 1, 2, ...
  kind,      \* how the log is rotated: "rename" or "copytruncate"
  copying,   \* the rotation has copied the log and not yet truncated it
  made, written,
  gens,      \* the committed checkpoint: generations
  archived,  \* the lines committed, in order
  held,      \* open file -> [active, rotation] as last listed
  pc,
  names,     \* rotation numbers listed and not yet opened
  visible,   \* files opened in this cycle
  draft,     \* the generations of this cycle
  unread,    \* files that could not be read to match them in this cycle
  work,      \* generations still to be read
  looked,    \* the generation looked at last, and what the look told
  records, batch,
  faults

logs   == <<content, dir, kind, copying, made, written>>
cycle  == <<pc, names, visible, draft, unread, work, looked, records, batch>>
stored == <<gens, archived>>
vars   == <<logs, stored, held, cycle, faults>>

-------------------------------------------------------------------------------
(* The log and its rotation.                                               *)

Append1(file) ==
  /\ written' = written + 1
  /\ content' = [content EXCEPT ![file] = Append(@, written + 1)]

Write ==
  /\ written < MaxLines
  /\ Append1(dir[1])
  /\ UNCHANGED <<dir, kind, copying, made, stored, held, cycle, faults>>

\* A new active log: the old one becomes rotation 1, or everything old is removed.
Rotate ==
  /\ kind = "rename" /\ made < MaxFiles
  /\ made' = made + 1
  /\ \E old \in {dir, <<>>} : dir' = <<made + 1>> \o old
  /\ UNCHANGED <<content, kind, copying, written, stored, held, cycle, faults>>

\* The oldest rotation is removed.
RemoveOldest ==
  /\ Len(dir) > 1 /\ ~copying
  /\ dir' = Front(dir)
  /\ UNCHANGED <<content, kind, copying, made, written, stored, held, cycle, faults>>

\* copytruncate: the log is copied to rotation 1, then truncated.
Copy ==
  /\ kind = "copytruncate" /\ made < MaxFiles /\ ~copying
  /\ SeenCopies \/ pc = "idle"
  /\ made' = made + 1 /\ copying' = TRUE
  /\ dir' = <<dir[1], made + 1>> \o Tail(dir)
  /\ content' = [content EXCEPT ![made + 1] = content[dir[1]]]
  /\ UNCHANGED <<kind, written, stored, held, cycle, faults>>

Truncate ==
  /\ copying
  /\ copying' = FALSE
  /\ content' = [content EXCEPT ![dir[1]] = <<>>]
  /\ UNCHANGED <<dir, kind, made, written, stored, held, cycle, faults>>

\* Someone empties the log without a copy.
Empty ==
  /\ faults < MaxFaults /\ ~copying
  /\ faults' = faults + 1
  /\ content' = [content EXCEPT ![dir[1]] = <<>>]
  /\ UNCHANGED <<dir, kind, copying, made, written, stored, held, cycle>>

-------------------------------------------------------------------------------
(* A generation and what is known of its file.                             *)

NewGeneration(file) ==
  [file |-> file, offset |-> 0, first |-> 0, last |-> 0, observed |-> 0, stable |-> 0,
   active |-> FALSE, closed |-> FALSE, gaps |-> {},
   seen |-> {}, unnoticed |-> FALSE]  \* for the properties: the lines observed; whether the file was rewritten unnoticed

\* The hashes of the first and the last bytes taken are still there.
Matches(g, file) ==
  /\ Len(content[file]) >= g.offset
  /\ g.offset > 0 => /\ content[file][1] = g.first
                     /\ content[file][g.offset] = g.last

Drained(g) == g.offset = g.observed /\ g.stable >= 2

Gap(g, reason) == [g EXCEPT !.gaps = @ \union {[reason |-> reason, from |-> g.offset]}]

-------------------------------------------------------------------------------
(* A cycle begins: the names are listed, then opened one by one.  Other    *)
(* logs, read before this one, may have left it less of the batch.         *)

Begin ==
  /\ pc = "idle"
  /\ SeenCopies \/ ~copying
  /\ pc' = "open" /\ names' = DOMAIN dir /\ visible' = {}
  /\ draft' = gens /\ records' = <<>> /\ work' = {} /\ unread' = {}
  /\ batch' \in 0..MaxBatch
  /\ UNCHANGED <<logs, stored, held, looked, faults>>

Open ==
  /\ pc = "open"
  /\ \E n \in names :
       /\ \A k \in names : n <= k
       /\ names' = names \ {n}
       /\ IF n \in DOMAIN dir
          THEN /\ visible' = visible \union {dir[n]}
               /\ held' = [f \in DOMAIN held \union {dir[n]} |->
                             IF f = dir[n] THEN [active |-> n = 1, rotation |-> n] ELSE held[f]]
          ELSE UNCHANGED <<visible, held>>
  /\ UNCHANGED <<logs, stored, pc, draft, unread, work, looked, records, batch, faults>>

-------------------------------------------------------------------------------
(* Every generation is given its file again, every other file a generation. *)

\* Files whose bytes are read to match them with the generation they belong to.
Probed(gs) ==
  {gs[k].file : k \in {k \in DOMAIN gs : /\ ~gs[k].closed /\ gs[k].file \in DOMAIN held
                                        /\ gs[k].offset \in 1..Len(content[gs[k].file])}}

\* Generations whose file still matches, or cannot be read to tell.
Kept(gs, bad) == {k \in DOMAIN gs : /\ ~gs[k].closed /\ gs[k].file \in DOMAIN held
                                   /\ (gs[k].file \in bad \/ Matches(gs[k], gs[k].file))}

\* The end of an active log was missed.
LossyActive(g) == g.file \in DOMAIN held \/ (g.active /\ ~Drained(g))

\* It was rewritten, or its end was missed, or known lines were not read.
Lossy(g) == g.file \in DOMAIN held \/ (g.active /\ ~Drained(g)) \/ g.observed > g.offset

\* One generation whose file is gone or was rewritten: a copy of it, or its end.
Followed(st, k) ==
  LET g == st.gens[k]
      copies == {f \in DOMAIN held \ st.used : ~held[f].active /\ g.offset > 0 /\ Matches(g, f)}
  IN
  IF \E copy \in copies : copies = {copy}
  THEN LET copy == CHOOSE f \in copies : TRUE IN
       [gens |-> [st.gens EXCEPT ![k] = Gap([g EXCEPT !.file = copy], "copytruncate-window")],
        used |-> st.used \union {copy}, assigned |-> st.assigned \union {k}]
  ELSE [st EXCEPT !.gens[k] = [(IF Lossy(g) THEN Gap(g, "source-lost") ELSE g) EXCEPT !.closed = TRUE]]

\* The generations one after the other, the kept ones first.
Resumed(gs, bad) ==
  LET kept == Kept(gs, bad)
      after[k \in 0..Len(gs)] ==
        IF k = 0 THEN [gens |-> gs, used |-> {gs[j].file : j \in kept}, assigned |-> kept]
        ELSE IF gs[k].closed \/ k \in kept THEN after[k - 1] ELSE Followed(after[k - 1], k)
  IN  after[Len(gs)]

\* Closed generations are not remembered.
ArchivedNever(gs, file) == FALSE

\* A closed generation remains a tombstone.
Archived(gs, file) == \E k \in DOMAIN gs : gs[k].closed /\ gs[k].file = file /\ Matches(gs[k], file)

Match ==
  /\ pc = "open" /\ names = {}
  /\ \E bad \in SUBSET Probed(draft) :
       /\ bad # {} => faults < MaxFaults /\ (SeenCopies \/ kind = "rename")
       /\ unread' = bad /\ faults' = IF bad = {} THEN faults ELSE faults + 1
       /\ LET st == Resumed(draft, bad)
              new == SetToSeq({f \in DOMAIN held \ st.used : ~Archived(st.gens, f)})
          IN  /\ draft' = st.gens \o [i \in DOMAIN new |-> NewGeneration(new[i])]
              /\ work' = st.assigned \union {Len(st.gens) + i : i \in DOMAIN new}
  /\ pc' = "stat"
  /\ UNCHANGED <<logs, stored, held, names, visible, looked, records, batch>>

-------------------------------------------------------------------------------
(* One generation after the other is looked at, then read.                 *)

\* Known active tails come first, then the oldest rotation.
Before(a, b) ==
  LET tail(k) == held[draft[k].file].active /\ k \in DOMAIN gens
      rotation(k) == held[draft[k].file].rotation
  IN  \/ tail(a) /\ ~tail(b)
      \/ tail(a) = tail(b) /\ rotation(a) > rotation(b)
      \/ tail(a) = tail(b) /\ rotation(a) = rotation(b) /\ a < b

\* Drained before, and its size has not changed since.
SafelyDrained(g, size) == Drained(g) /\ size = g.observed

Stat ==
  /\ pc = "stat"
  /\ \E k \in work :
       /\ \A j \in work \ {k} : Before(k, j)
       /\ LET g == draft[k]
              size == Len(content[g.file])
          IN  /\ looked' = [gen |-> k, safe |-> SafelyDrained(g, size),
                            stable |-> IF size = g.observed THEN Min({2, g.stable + 1}) ELSE 1]
              /\ draft' = [draft EXCEPT ![k].observed = size,
                                        ![k].active = held[g.file].active /\ g.file \in visible,
                                        ![k].seen = @ \union ToSet(content[g.file])]
  /\ pc' = "read"
  /\ UNCHANGED <<logs, stored, held, names, visible, unread, work, records, batch, faults>>

\* The fingerprint is taken of whatever the file now holds.
Fingerprint(g) ==
  LET lines == content[g.file]
      has == g.offset \in DOMAIN lines
  IN  [g EXCEPT !.first = IF has THEN lines[1] ELSE 0, !.last = IF has THEN lines[g.offset] ELSE 0]

\* An invisible file that was read to its end is finished.
Finished(g) ==
  IF g.file \notin visible /\ g.offset = g.observed
  THEN [(IF held[g.file].active /\ ~looked.safe THEN Gap(g, "source-disappeared") ELSE g) EXCEPT !.closed = TRUE]
  ELSE g

\* For the properties: a rewrite the checks of a read cannot see.
Unseen(g) ==
  IF g.offset = 0 THEN ~(g.seen \subseteq ToSet(content[g.file])) ELSE batch = 0 /\ ~Matches(g, g.file)

Read ==
  /\ pc = "read"
  /\ LET k == looked.gen
         g == draft[k]
         lines == content[g.file]
         until == Max({g.offset, Min({g.offset + batch, g.observed, Len(lines)})})
         h == Fingerprint([g EXCEPT !.offset = until, !.unnoticed = @ \/ Unseen(g)])
     IN  /\ g.file \notin unread
         /\ IF batch > 0 /\ ~Matches(g, g.file)
            THEN /\ draft' = [draft EXCEPT ![k] = Gap(g, "source-changed-during-read")]
                 /\ UNCHANGED <<records, batch>>
            ELSE /\ draft' = [draft EXCEPT ![k] =
                       Finished(IF g.file \in visible THEN [h EXCEPT !.stable = looked.stable] ELSE h)]
                 /\ records' = records \o SubSeq(lines, g.offset + 1, until)
                 /\ batch' = batch - (until - g.offset)
         /\ work' = work \ {k}
  /\ pc' = "stat"
  /\ UNCHANGED <<logs, stored, held, names, visible, unread, looked, faults>>

\* It fails now, or failed when it was to be matched.
ReadFails ==
  /\ pc = "read"
  /\ LET k == looked.gen IN
       /\ IF draft[k].file \in unread THEN UNCHANGED faults ELSE faults < MaxFaults /\ faults' = faults + 1
       /\ draft' = [draft EXCEPT ![k] = Gap(@, "source-read-error")]
       /\ work' = work \ {k}
  /\ pc' = "stat"
  /\ UNCHANGED <<logs, stored, held, names, visible, unread, looked, records, batch>>

\* A file that disappeared stays open only while lines of it are still to be read.
Pending(gs, file) == \E k \in DOMAIN gs : gs[k].file = file /\ ~gs[k].closed /\ gs[k].observed > gs[k].offset

Rested == /\ names' = {} /\ visible' = {} /\ draft' = <<>> /\ unread' = {} /\ work' = {}
          /\ looked' = [gen |-> 0, safe |-> FALSE, stable |-> 0] /\ records' = <<>> /\ batch' = 0

Commit ==
  /\ pc = "stat" /\ work = {}
  /\ gens' = draft /\ archived' = archived \o records
  /\ held' = Restrict(held, {f \in DOMAIN held : f \in visible \/ Pending(draft, f)})
  /\ pc' = "idle" /\ Rested
  /\ UNCHANGED <<logs, faults>>

\* The process ends, or a cycle fails and the loop reopens store and collector.
Restart ==
  /\ faults < MaxFaults
  /\ faults' = faults + 1
  /\ held' = <<>> /\ pc' = "idle" /\ Rested
  /\ UNCHANGED <<logs, stored>>

-------------------------------------------------------------------------------
Init ==
  /\ content = [f \in Files |-> <<>>]
  /\ dir = <<1>> /\ kind \in {"rename", "copytruncate"} /\ copying = FALSE /\ made = 1 /\ written = 0
  /\ gens = <<>> /\ archived = <<>> /\ held = <<>> /\ faults = 0
  /\ pc = "idle" /\ names = {} /\ visible = {} /\ draft = <<>> /\ unread = {} /\ work = {}
  /\ looked = [gen |-> 0, safe |-> FALSE, stable |-> 0] /\ records = <<>> /\ batch = 0

Next ==
  \/ Write \/ Rotate \/ RemoveOldest \/ Copy \/ Truncate \/ Empty
  \/ Begin \/ Open \/ Match \/ Stat \/ Read \/ ReadFails \/ Commit
  \/ Restart

Spec == Init /\ [][Next]_vars

-------------------------------------------------------------------------------
(* Properties.                                                             *)

\* No line is committed twice, however the log was rotated and whenever the
\* archiver restarted (collector.js cycle: offsets, copies, tombstones).
LineOnce == IsInjective(archived)

\* Every line the collector ever saw in a file it followed is archived, or
\* lies behind a gap of that generation, or can still be read: rewrites and
\* known unconsumed suffixes remain coverage gaps (collector.js cycle, gap).
\* Not so where the check cannot tell the file was rewritten.
Accounted(g) ==
  \A line \in g.seen :
    \/ line \in ToSet(archived)
    \/ g.gaps # {}
    \/ ~g.closed /\ (line \in ToSet(content[g.file]) \/ ~Matches(g, g.file) \/ g.offset = 0)

SeenAccounted == \A k \in DOMAIN gens : gens[k].unnoticed \/ Accounted(gens[k])

\* What lies before the position of a generation was read from this file, or
\* there is a gap: after a rewrite the new prefix is never skipped silently
\* (test/collector.test.js:145).
PrefixRead ==
  \A k \in DOMAIN gens : LET g == gens[k] IN
    ~g.closed /\ Matches(g, g.file) /\ g.gaps = {} =>
      \A i \in 1..g.offset : content[g.file][i] \in ToSet(archived)
===============================================================================
