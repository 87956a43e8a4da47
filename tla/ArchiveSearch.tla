----------------------------- MODULE ArchiveSearch -----------------------------
(***************************************************************************)
(* Searching the archive (log-archiver/search.js) while the store appends, *)
(* compacts and expires (store.js).  A first search pins a snapshot of one *)
(* source; every page is read from the files as they are by then, under a  *)
(* limit of lines, of bytes and of time, and ends in a cursor.  A line is  *)
(* a number; a position is where the next page begins.                     *)
(***************************************************************************)
EXTENDS Naturals, Sequences, FiniteSets, SequencesExt, FiniteSetsExt

CONSTANTS Requests,      \* the slots: searches that may run at once
          MaxSnapshots,  \* snapshots kept
          Limit,         \* lines of one page
          First,         \* hour -> the members of its file at first
          Newest,        \* their lines are numbered up to here
          Hits,          \* lines the query matches
          MaxChanges,    \* bound: appends, compactions and expiries
          MaxAsked       \* bound: searches
CONSTANT Nil

ASSUME SearchAssumption ==
  /\ MaxSnapshots \in Nat \ {0} /\ Limit \in Nat \ {0}
  /\ MaxChanges \in Nat /\ MaxAsked \in Nat /\ Hits \subseteq Nat /\ Newest \in Nat
  /\ First \in Seq(Seq(Seq(1..Newest)))
  /\ \A h \in DOMAIN First : First[h] # <<>>
  /\ Nil \notin Nat /\ Nil \notin [hour : Nat, member : Nat, line : Nat, byte : Nat]

Hours == DOMAIN First

VARIABLES
  catalog,    \* hour -> [id, members], the published files
  files,      \* the files on disk, by the same names
  busy,       \* the hour the store is publishing a change of, or Nil
  ids, newest, changes,
  snapshots,  \* id -> the pinned entries, in the order they were pinned
  cursors,    \* [id, pos] handed out, of the snapshots still kept
  asked,
  search      \* request -> [st, id, entries, start, pos, lines, late]

archive == <<catalog, files, busy, ids, newest, changes>>
cache   == <<snapshots, cursors, asked>>
searchVars    == <<archive, cache, search>>

-------------------------------------------------------------------------------
(* The store.  Its queue runs one publication at a time.                   *)

Idle == [st |-> "idle", id |-> 0, entries |-> <<>>, start |-> Nil, pos |-> Nil, lines |-> <<>>, late |-> FALSE]
Answered == [Idle EXCEPT !.st = "answered"]

With(hours, h, file) == [k \in DOMAIN hours \union {h} |-> IF k = h THEN file ELSE hours[k]]
Without(hours, h) == [k \in DOMAIN hours \ {h} |-> hours[k]]

Change == busy = Nil /\ changes < MaxChanges /\ changes' = changes + 1

\* A batch becomes the last member of its hour.
AppendBatch ==
  /\ Change
  /\ newest' = newest + 1
  /\ \E h \in Hours :
       LET file == IF h \in DOMAIN catalog THEN [catalog[h] EXCEPT !.members = Append(@, <<newest + 1>>)]
                   ELSE [id |-> ids + 1, compacted |-> FALSE, members |-> <<<<newest + 1>>>>]
       IN  /\ catalog' = With(catalog, h, file) /\ files' = With(files, h, file)
           /\ ids' = IF h \in DOMAIN catalog THEN ids ELSE ids + 1
  /\ UNCHANGED <<busy, cache, search>>

\* Compaction: the new file is there before the catalog names it.
Replace ==
  /\ Change
  /\ \E h \in DOMAIN catalog :
       /\ ~catalog[h].compacted
       /\ busy' = h /\ ids' = ids + 1
       /\ files' = [files EXCEPT ![h] = [id |-> ids + 1, compacted |-> TRUE, members |-> <<FlattenSeq(@.members)>>]]
  /\ UNCHANGED <<catalog, newest, cache, search>>

\* Retention: the catalog forgets the hour before its file is deleted.
Expire ==
  /\ Change
  /\ \E h \in DOMAIN catalog : busy' = h /\ catalog' = Without(catalog, h)
  /\ UNCHANGED <<files, ids, newest, cache, search>>

Publish ==
  /\ busy # Nil
  /\ busy' = Nil
  /\ IF busy \in DOMAIN catalog THEN catalog' = files /\ UNCHANGED files
     ELSE files' = catalog /\ UNCHANGED catalog
  /\ UNCHANGED <<ids, newest, changes, cache, search>>

-------------------------------------------------------------------------------
(* Positions and what lies between them.                                   *)

At(h, m, line, byte) == [hour |-> h, member |-> m, line |-> line, byte |-> byte]

\* a is further than b; Nil is the end.
Advances(a, b) ==
  /\ b # Nil
  /\ IF a = Nil THEN TRUE
     ELSE \/ a.hour > b.hour
          \/ a.hour = b.hour /\ a.member > b.member
          \/ a.hour = b.hour /\ a.member = b.member /\ a.line > b.line
          \/ a.hour = b.hour /\ a.member = b.member /\ a.line = b.line /\ a.byte > b.byte

\* The member after m of the h-th entry.
NextMember(entries, h, m) ==
  IF m < Len(entries[h].members) THEN At(h, m + 1, 0, 0)
  ELSE IF h < Len(entries) THEN At(h + 1, 1, 0, 0) ELSE Nil

\* The elements of a sequence that are in a set.
Among(s, S) ==
  LET among[i \in 0..Len(s)] ==
        IF i = 0 THEN <<>> ELSE IF s[i] \in S THEN Append(among[i - 1], s[i]) ELSE among[i - 1]
  IN  among[Len(s)]

Found(lines) == Among(lines, Hits)

\* What is found in lines i + 1 to j of a member.
Part(lines, i, j) == Found(SubSeq(lines, i + 1, j))

-------------------------------------------------------------------------------
(* A search begins.                                                        *)

Running(q) == search[q].st \in {"pin", "index", "read", "validate"}

\* A cursor whose snapshot is gone is refused, and changes nothing.
Ask(q) ==
  /\ ~Running(q) /\ asked < MaxAsked
  /\ asked' = asked + 1
  /\ \/ search' = [search EXCEPT ![q] = [Idle EXCEPT !.st = "pin", !.id = asked + 1]]
     \/ \E c \in cursors :
          search' = [search EXCEPT ![q] =
            [Idle EXCEPT !.st = "index", !.id = c.id, !.entries = snapshots[c.id], !.start = c.pos, !.pos = c.pos]]
  /\ UNCHANGED <<archive, snapshots, cursors>>

\* The hours of the catalog, in order.
Entries ==
  LET hours == Among([h \in Hours |-> h], DOMAIN catalog)
  IN  [i \in DOMAIN hours |-> LET h == hours[i] IN
         [hour |-> h, id |-> catalog[h].id, members |-> catalog[h].members]]

\* The snapshot of the store is taken; an old one makes room for it.
Pin(q) ==
  /\ search[q].st = "pin" /\ busy = Nil
  /\ LET new == search[q].id
         from == IF Entries = <<>> THEN Nil ELSE At(1, 1, 0, 0)
     IN  /\ \E kept \in SUBSET DOMAIN snapshots :
              /\ Cardinality(kept) = Min({Cardinality(DOMAIN snapshots), MaxSnapshots - 1})
              /\ snapshots' = [i \in kept \union {new} |-> IF i = new THEN Entries ELSE snapshots[i]]
              /\ cursors' = {c \in cursors : c.id \in kept}
         /\ search' = [search EXCEPT ![q] = [@ EXCEPT !.entries = Entries, !.start = from, !.pos = from,
                                                      !.st = IF from = Nil THEN "validate" ELSE "index"]]
  /\ UNCHANGED <<archive, asked>>

\* A snapshot reaches its age.
SnapshotExpires ==
  /\ \E i \in DOMAIN snapshots :
       /\ snapshots' = [j \in DOMAIN snapshots \ {i} |-> snapshots[j]]
       /\ cursors' = {c \in cursors : c.id # i}
  /\ UNCHANGED <<archive, asked, search>>

-------------------------------------------------------------------------------
(* The hours of the snapshot are read, one member after the other.         *)

\* The published file is still the one pinned, and no shorter.
Pinned(e) ==
  /\ e.hour \in DOMAIN catalog
  /\ catalog[e.hour].id = e.id
  /\ Len(catalog[e.hour].members) >= Len(e.members)

ReadIndex(q) ==
  /\ search[q].st = "index" /\ busy = Nil
  /\ search' = IF Pinned(search[q].entries[search[q].pos.hour]) THEN [search EXCEPT ![q].st = "read"]
                ELSE [search EXCEPT ![q] = Idle]
  /\ UNCHANGED <<archive, cache>>

\* Every way a member may be left: [lines found, position, end of the page].
\* Its rows count only once all of it was decoded: a scan cut short before
\* that, by time or by bytes, gives them back.
Left(found, pos, done) == [lines |-> found, pos |-> pos, done |-> done]

\* Only the rows are dropped.
RollbackRows(s, at) == Left(<<>>, at, TRUE)

\* The rows are dropped, and the page ends where the member was entered.
RollbackMember(s, at) == Left(<<>>, s.pos, TRUE)

Scans(s) ==
  LET h == s.pos.hour
      m == s.pos.member
      lines == s.entries[h].members[m]
      n == Len(lines)
      from == s.pos.line
      next == NextMember(s.entries, h, m)
      found(j) == Part(lines, from, j)
      total(j) == Len(s.lines) + Len(found(j))
      here(j, byte) == IF j > from \/ byte > s.pos.byte THEN At(h, m, j, byte) ELSE s.pos
      reached == {j \in from..n : j = from \/ total(j - 1) < Limit}
      whole == IF n \in reached THEN {Left(found(n), next, total(n) >= Limit)} ELSE {}
      full == {j \in reached : j < n /\ total(j) >= Limit}
      oversize == {j \in reached : j < n /\ total(j) < Limit /\ lines[j + 1] \in Hits}
      cut == {j \in reached : j < n /\ total(j) < Limit}
  IN  whole
      \union {Left(found(j), At(h, m, j, 0), TRUE) : j \in full \union oversize}
      \union {RollbackMember(s, At(h, m, j, 0)) : j \in full \union {j \in oversize \union cut : found(j) # <<>>}}
      \union {Left(<<>>, here(c[1], c[2]), TRUE) : c \in {j \in cut : found(j) = <<>>} \X {0, 1}}

\* The search once a member is left, and which check comes next.
AfterScan(s, o, late) ==
  [s EXCEPT !.lines = @ \o o.lines, !.pos = o.pos, !.late = o.done /\ late,
            !.st = IF o.done \/ o.pos = Nil THEN "validate"
                   ELSE IF o.pos.hour = s.pos.hour THEN "read" ELSE "index"]

\* What the code does with a file that is not the pinned one shows in the
\* validation only: garbage does not verify, and a cut publishes none of it.
ReadMember(q) ==
  /\ search[q].st = "read"
  /\ LET s == search[q]
         e == s.entries[s.pos.hour]
     IN  IF e.hour \notin DOMAIN files
         THEN search' = [search EXCEPT ![q] = Idle]
         ELSE IF files[e.hour].id # e.id
         THEN search' = [search EXCEPT ![q].st = "validate"]
         ELSE \E o \in Scans(s), late \in BOOLEAN : search' = [search EXCEPT ![q] = AfterScan(s, o, late)]
  /\ UNCHANGED <<archive, cache>>

\* Only the file the page ended in is checked.
ValidHere(s) == IF s.pos = Nil THEN TRUE ELSE Pinned(s.entries[s.pos.hour])

\* Every file of the snapshot is checked again before anything is published.
Valid(s) == \A i \in DOMAIN s.entries : Pinned(s.entries[i])

\* A late search does not wait for the store.
ValidateWaits(s) == busy = Nil
ValidateNow(s) == busy = Nil \/ s.late

Validate(q) ==
  /\ search[q].st = "validate"
  /\ ValidateNow(search[q])
  /\ LET s == search[q]
         answer == busy = Nil /\ Valid(s) /\ (s.pos = Nil \/ Advances(s.pos, s.start))
     IN  /\ search' = [search EXCEPT ![q] = IF answer THEN Answered ELSE Idle]
         /\ cursors' = IF answer /\ s.pos # Nil /\ s.id \in DOMAIN snapshots THEN cursors \union {[id |-> s.id, pos |-> s.pos]} ELSE cursors
  /\ UNCHANGED <<archive, snapshots, asked>>

\* The deadline passes while the search waits for the store.
Deadline(q) ==
  /\ search[q].st \in {"pin", "index", "validate"} /\ busy # Nil /\ ~search[q].late
  /\ search' = [search EXCEPT ![q] = Idle]
  /\ UNCHANGED <<archive, cache>>

\* The caller goes away, or a file cannot be read.
Fails(q) ==
  /\ Running(q)
  /\ search' = [search EXCEPT ![q] = Idle]
  /\ UNCHANGED <<archive, cache>>

-------------------------------------------------------------------------------
SearchInit ==
  /\ catalog = [h \in Hours |-> [id |-> h, compacted |-> FALSE, members |-> First[h]]]
  /\ files = catalog /\ busy = Nil /\ ids = Len(First) /\ newest = Newest /\ changes = 0
  /\ snapshots = <<>> /\ cursors = {} /\ asked = 0
  /\ search = [q \in Requests |-> Idle]

Progress(q) == Pin(q) \/ ReadIndex(q) \/ ReadMember(q) \/ Validate(q)

SearchNext ==
  \/ AppendBatch \/ Replace \/ Expire \/ Publish \/ SnapshotExpires
  \/ \E q \in Requests : Ask(q) \/ Progress(q) \/ Deadline(q) \/ Fails(q)

SearchSpec == SearchInit /\ [][SearchNext]_searchVars

\* A search takes its steps and has its timer; the store may hang.
FairSearchSpec == SearchSpec /\ \A q \in Requests : WF_searchVars(Progress(q)) /\ WF_searchVars(Deadline(q))

-------------------------------------------------------------------------------
(* Properties.                                                             *)

\* The lines of a snapshot that lie before a position.
LinesBefore(entries, p) ==
  LET all(h) == FlattenSeq(entries[h].members) IN
  IF p = Nil THEN FlattenSeq([h \in DOMAIN entries |-> all(h)])
  ELSE FlattenSeq([h \in 1..p.hour - 1 |-> all(h)])
       \o FlattenSeq(SubSeq(entries[p.hour].members, 1, p.member - 1))
       \o SubSeq(entries[p.hour].members[p.member], 1, p.line)

\* A page holds exactly the lines of the snapshot the query matches between
\* its cursor and the next: pages one after the other neither lose nor repeat
\* a line, however each of them was cut short (search.js search).
PagesExact ==
  \A q \in Requests : LET s == search[q] IN
    s.st = "validate" => Found(LinesBefore(s.entries, s.pos)) = Found(LinesBefore(s.entries, s.start)) \o s.lines

\* No page shows a line of an hour retention has removed by then, even if it
\* was read before that (search.js search: the last validation).
NothingExpired ==
  [][\A q \in Requests : search[q].st = "validate" /\ search'[q].st = "answered" =>
       \A n \in ToSet(search[q].lines) : \E h \in DOMAIN catalog : n \in ToSet(FlattenSeq(catalog[h].members))]_searchVars

\* Every search ends and gives its slot back, even when the store never
\* finishes what it is doing (search.js search: timer, wait, finally).
SlotsReturned == \A q \in Requests : Running(q) ~> ~Running(q)
===============================================================================
