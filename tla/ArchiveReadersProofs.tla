-------------------------- MODULE ArchiveReadersProofs --------------------------
(***************************************************************************)
(* Proofs about the two readers of files that change under them.  The      *)
(* collector: what it saw is accounted for, and no line is archived twice  *)
(* when no cycle runs into a copytruncate.  The search: pages are exact,   *)
(* and none shows what retention has removed.                              *)
(***************************************************************************)
EXTENDS ArchiveCollector, ArchiveSearch, TLAPS, SequenceTheorems, FiniteSetTheorems, WellFoundedInduction

-------------------------------------------------------------------------------
(* The invariants.                                                         *)

Reasons == {"copytruncate-window", "source-lost", "source-changed-during-read", "source-disappeared",
            "source-read-error"}

Generations ==
  [file : Files, offset : Nat, first : Nat, last : Nat, observed : Nat, stable : Nat,
   active : BOOLEAN, closed : BOOLEAN, gaps : SUBSET [reason : Reasons, from : Nat],
   seen : SUBSET Nat, unnoticed : BOOLEAN]

\* The types of the log, of the checkpoint and of the cycle.
LogTypes ==
  /\ content \in [Files -> Seq(Nat)] /\ made \in Files /\ written \in Nat
  /\ dir \in Seq(Files) /\ dir # <<>>
  /\ kind \in {"rename", "copytruncate"} /\ copying \in BOOLEAN

CycleTypes ==
  /\ gens \in Seq(Generations) /\ archived \in Seq(Nat)
  /\ DOMAIN held \subseteq Files /\ held \in [DOMAIN held -> [active : BOOLEAN, rotation : Nat]]
  /\ pc \in {"idle", "open", "stat", "read"} /\ names \subseteq Nat \ {0}
  /\ visible \subseteq Files /\ unread \subseteq Files
  /\ draft \in Seq(Generations) /\ records \in Seq(Nat)
  /\ work \subseteq DOMAIN draft
  /\ looked \in [gen : Nat, safe : BOOLEAN, stable : Nat]
  /\ batch \in Nat /\ faults \in Nat

Types == LogTypes /\ CycleTypes

\* A file holds consecutive lines, the active log the newest one; no two files
\* share a line but a copy and the log it was made of.
LogInv ==
  /\ \A n \in DOMAIN dir : dir[n] <= made
  /\ \A f \in Files : f > made => content[f] = <<>>
  /\ \A f \in Files : \A i \in DOMAIN content[f] :
       content[f][i] = content[f][1] + i - 1 /\ content[f][i] \in 1..written
  /\ content[dir[1]] # <<>> => content[dir[1]][Len(content[dir[1]])] = written
  /\ \A e, f \in Files : \A i \in DOMAIN content[e], j \in DOMAIN content[f] :
       content[e][i] = content[f][j] => e = f \/ (copying /\ {e, f} \subseteq {dir[1], made})
  /\ copying => kind = "copytruncate"
  /\ kind = "copytruncate" => dir[1] = 1

\* Where a cycle is: what it works on is open and held.
StepInv ==
  /\ DOMAIN held \subseteq 1..made
  /\ pc = "open" => draft = gens /\ records = <<>>
  /\ pc \in {"stat", "read"} => \A k \in work : ~draft[k].closed /\ draft[k].file \in DOMAIN held
  /\ pc = "read" => looked.gen \in work

\* The fingerprint of a generation is that of the first lines of a file, and
\* a file that begins with its first line has its last one.
Takes(g, f) == g.offset > 0 /\ content[f] # <<>> /\ content[f][1] = g.first

Printed(g) ==
  /\ g.file <= made
  /\ g.seen \subseteq 1..written
  /\ g.offset > 0 =>
       /\ g.first <= written
       /\ Takes(g, g.file) => /\ Len(content[g.file]) >= g.offset
                              /\ content[g.file][g.offset] = g.last

GenInv(gs) == \A k \in DOMAIN gs : Printed(gs[k])

\* What the base invariant says of logs, generations and steps.
BaseInv == Types /\ LogInv /\ StepInv /\ GenInv(gens) /\ GenInv(draft)

-------------------------------------------------------------------------------
\* What a generation has read is archived, what it saw beyond is still there.
Honest(g, lines, looking) ==
  g.unnoticed \/ g.gaps # {} \/
    /\ Takes(g, g.file) => \A i \in 1..g.offset : content[g.file][i] \in ToSet(lines)
    /\ \A line \in g.seen : \/ line \in ToSet(lines)
                            \/ ~g.closed /\ (g.offset = 0 \/ line \in ToSet(content[g.file]) \/ ~Takes(g, g.file))
    /\ g.observed <= g.offset /\ ~looking => g.seen \subseteq ToSet(lines)

SeenInv ==
  /\ \A k \in DOMAIN gens : Honest(gens[k], archived, FALSE)
  /\ pc \in {"stat", "read"} =>
       \A k \in DOMAIN draft : Honest(draft[k], archived \o records, pc = "read" /\ k = looked.gen)
  /\ pc = "read" => LET g == draft[looked.gen] IN
       \A i \in DOMAIN content[g.file] : content[g.file][i] \in g.seen => i <= g.observed

-------------------------------------------------------------------------------
\* A file that may be opened yet, or is.
Live(f) == f \in DOMAIN held \/ \E n \in DOMAIN dir : dir[n] = f

\* Between two cycles a generation of the active log may have its lines in a copy.
Moved(g, f) == kind = "copytruncate" /\ ~g.closed /\ g.file = 1

\* The fingerprint names the lines taken, in any file.
Named(g) ==
  g.offset > 0 =>
    /\ g.first = 0 => g.last = 0
    /\ g.first > 0 => g.last = g.first + g.offset - 1
    /\ \A f \in Files : Takes(g, f) => Len(content[f]) >= g.offset

Exact(gs) == \A k \in DOMAIN gs : Named(gs[k])

\* No two generations follow one file.
Apart(gs) ==
  \A k, j \in DOMAIN gs : k # j =>
    /\ ~gs[k].closed /\ ~gs[j].closed => gs[k].file # gs[j].file
    /\ gs[k].offset > 0 /\ gs[j].offset > 0 /\ gs[k].first = gs[j].first => gs[k].first = 0
    /\ ~gs[j].closed => ~Takes(gs[k], gs[j].file)

\* A generation knows the file its lines are in; that of the active log follows it.
Placed(gs, matched) ==
  \A k \in DOMAIN gs :
    /\ \A f \in Files : Live(f) /\ Takes(gs[k], f) => gs[k].file = f \/ (~matched /\ Moved(gs[k], f))
    /\ kind = "copytruncate" /\ Takes(gs[k], 1) => ~gs[k].closed

\* Archived lines that could be read again lie before the position of a generation.
Covered(gs, lines) ==
  \A f \in Files : Live(f) =>
    \A i \in DOMAIN content[f] : content[f][i] \in ToSet(lines) =>
      \E k \in DOMAIN gs : Takes(gs[k], f) /\ i <= gs[k].offset

Once(gs, lines, matched) ==
  /\ IsInjective(lines) /\ ToSet(lines) \subseteq 1..written
  /\ Exact(gs) /\ Apart(gs) /\ Placed(gs, matched) /\ Covered(gs, lines)

\* A cycle and a copytruncate do not overlap.
Between ==
  /\ copying => pc = "idle"
  /\ kind = "copytruncate" =>
       /\ \A f \in DOMAIN held : held[f].active => f = 1
       /\ pc = "open" => \A n \in DOMAIN dir : n \in names \/ dir[n] \in DOMAIN held \cap visible
       /\ pc \in {"stat", "read"} => 1 \in visible /\ unread = {}

OnceInv ==
  /\ Between
  /\ Once(gens, archived, FALSE)
  /\ pc \in {"stat", "read"} => Once(draft, archived \o records, TRUE)

-------------------------------------------------------------------------------
(* Numbers, sequences, and a function defined by recursion.                *)

\* A set of numbers that holds 0 and with every number the next holds them all.
LEMMA NaturalsAll ==
  ASSUME NEW S, 0 \in S, \A n \in Nat : n \in S => n + 1 \in S
  PROVE  \A n \in Nat : n \in S
<1> DEFINE Bad == {n \in Nat : n \notin S}
<1> SUFFICES ASSUME Bad # {}
             PROVE  FALSE
  OBVIOUS
<1>1. PICK n \in Bad : \A m \in Bad : ~ (<<m, n>> \in OpToRel(<, Nat))
  BY WFMin, NatLessThanWellFounded
<1>2. n \in Nat /\ n # 0
  OBVIOUS
<1>3. n - 1 \in Nat /\ n - 1 < n /\ n = (n - 1) + 1
  BY <1>2
<1>4. n - 1 \notin Bad
  BY <1>1, <1>2, <1>3 DEF OpToRel
<1> QED
  BY <1>3, <1>4

\* Where a read ends: not before the position, no further than the batch, the
\* size last seen and the file allow.
LEMMA UntilBounds ==
  ASSUME NEW o \in Nat, NEW b \in Nat, NEW w \in Nat, NEW l \in Nat
  PROVE  LET u == Max({o, Min({o + b, w, l})}) IN
         /\ u \in Nat /\ o <= u /\ u <= o + b
         /\ u = o \/ (u <= w /\ u <= l)
<1> DEFINE u == Max({o, Min({o + b, w, l})})
           T == {o + b, w, l}
           m == Min(T)
<1>1. \E x \in T : \A y \in T : x <= y
  <2>1. CASE w <= l /\ w <= o + b
    BY <2>1
  <2>2. CASE l <= w /\ l <= o + b
    BY <2>2
  <2>3. CASE o + b <= l /\ o + b <= w
    BY <2>3
  <2> QED
    BY <2>1, <2>2, <2>3
<1>2. m \in T /\ \A y \in T : m <= y
  BY <1>1 DEF Min
<1>3. m \in Nat
  BY <1>2
<1> HIDE DEF m
<1> DEFINE U == {o, m}
<1>4. \E x \in U : \A y \in U : x >= y
  <2>1. CASE o >= m
    BY <1>3, <2>1
  <2>2. CASE m >= o
    BY <1>3, <2>2
  <2> QED
    BY <1>3, <2>1, <2>2
<1>5. u = Max(U)
  BY DEF m
<1>6. u \in U /\ \A y \in U : u >= y
  BY <1>4, <1>5 DEF Max
<1> QED
  BY <1>2, <1>3, <1>6

LEMMA MinTwo ==
  ASSUME NEW a \in Nat, NEW b \in Nat
  PROVE  Min({a, b}) \in Nat
<1>1. \E x \in {a, b} : \A y \in {a, b} : x <= y
  <2>1. CASE a <= b
    BY <2>1
  <2>2. CASE b <= a
    BY <2>2
  <2> QED
    BY <2>1, <2>2
<1> QED
  BY <1>1 DEF Min

\* The elements of one sequence after another.
LEMMA ToSetConcat ==
  ASSUME NEW T, NEW s \in Seq(T), NEW t \in Seq(T)
  PROVE  ToSet(s \o t) = ToSet(s) \union ToSet(t)
<1>1. /\ Len(s) \in Nat /\ Len(t) \in Nat /\ s \o t \in Seq(T) /\ Len(s \o t) = Len(s) + Len(t)
      /\ \A i \in 1..Len(s) : (s \o t)[i] = s[i]
      /\ \A i \in 1..Len(t) : (s \o t)[Len(s) + i] = t[i]
  BY ConcatProperties, LenProperties
<1>2. DOMAIN s = 1..Len(s) /\ DOMAIN t = 1..Len(t) /\ DOMAIN (s \o t) = 1..(Len(s) + Len(t))
  BY <1>1
<1>3. ASSUME NEW i \in DOMAIN (s \o t)
      PROVE  (s \o t)[i] \in ToSet(s) \union ToSet(t)
  <2>1. CASE i \in 1..Len(s)
    BY <1>1, <1>2, <2>1 DEF ToSet
  <2>2. CASE i \notin 1..Len(s)
    <3>1. i - Len(s) \in 1..Len(t) /\ Len(s) + (i - Len(s)) = i
      BY <1>1, <1>2, <2>2
    <3> QED
      BY <1>1, <1>2, <3>1 DEF ToSet
  <2> QED
    BY <2>1, <2>2
<1>4. ASSUME NEW i \in DOMAIN s
      PROVE  s[i] \in ToSet(s \o t)
  <2>1. i \in DOMAIN (s \o t) /\ (s \o t)[i] = s[i]
    BY <1>1, <1>2
  <2> QED
    BY <2>1 DEF ToSet
<1>5. ASSUME NEW i \in DOMAIN t
      PROVE  t[i] \in ToSet(s \o t)
  <2>1. Len(s) + i \in DOMAIN (s \o t) /\ (s \o t)[Len(s) + i] = t[i]
    BY <1>1, <1>2
  <2> QED
    BY <2>1 DEF ToSet
<1> QED
  BY <1>3, <1>4, <1>5 DEF ToSet

\* Sequences without a repetition that share no element.
LEMMA InjectiveConcat ==
  ASSUME NEW T, NEW s \in Seq(T), NEW t \in Seq(T), IsInjective(s), IsInjective(t),
         ToSet(s) \cap ToSet(t) = {}
  PROVE  IsInjective(s \o t)
<1>1. /\ Len(s) \in Nat /\ Len(t) \in Nat /\ s \o t \in Seq(T) /\ Len(s \o t) = Len(s) + Len(t)
      /\ \A i \in 1..Len(s) : (s \o t)[i] = s[i]
      /\ \A i \in 1..Len(t) : (s \o t)[Len(s) + i] = t[i]
  BY ConcatProperties, LenProperties
<1>2. DOMAIN s = 1..Len(s) /\ DOMAIN t = 1..Len(t) /\ DOMAIN (s \o t) = 1..(Len(s) + Len(t))
  BY <1>1
<1>3. \A i \in DOMAIN (s \o t) :
        \/ i \in DOMAIN s /\ (s \o t)[i] = s[i]
        \/ i - Len(s) \in DOMAIN t /\ (s \o t)[i] = t[i - Len(s)] /\ i \notin DOMAIN s
  <2> TAKE i \in DOMAIN (s \o t)
  <2>1. CASE i \in 1..Len(s)
    BY <1>1, <1>2, <2>1
  <2>2. CASE i \notin 1..Len(s)
    <3>1. i - Len(s) \in 1..Len(t) /\ Len(s) + (i - Len(s)) = i
      BY <1>1, <1>2, <2>2
    <3> QED
      BY <1>1, <1>2, <2>2, <3>1
  <2> QED
    BY <2>1, <2>2
<1>4. \A i \in DOMAIN s, j \in DOMAIN t : s[i] # t[j]
  BY DEF ToSet
<1> SUFFICES ASSUME NEW i \in DOMAIN (s \o t), NEW j \in DOMAIN (s \o t), (s \o t)[i] = (s \o t)[j]
             PROVE  i = j
  BY DEF IsInjective
<1>5. CASE i \in DOMAIN s /\ j \in DOMAIN s
  BY <1>3, <1>5, <1>1, <1>2 DEF IsInjective
<1>6. CASE i \notin DOMAIN s /\ j \notin DOMAIN s
  <2>1. i - Len(s) = j - Len(s)
    BY <1>3, <1>6 DEF IsInjective
  <2> QED
    BY <1>1, <1>2, <2>1
<1>7. CASE i \in DOMAIN s /\ j \notin DOMAIN s
  BY <1>1, <1>2, <1>3, <1>4, <1>7
<1>8. CASE i \notin DOMAIN s /\ j \in DOMAIN s
  BY <1>1, <1>2, <1>3, <1>4, <1>8
<1> QED
  BY <1>5, <1>6, <1>7, <1>8

\* A part of a sequence.
LEMMA PartOf ==
  ASSUME NEW T, NEW s \in Seq(T), NEW a \in Nat, NEW b \in Nat, a <= b, b = a \/ b <= Len(s)
  PROVE  /\ SubSeq(s, a + 1, b) \in Seq(T)
         /\ Len(SubSeq(s, a + 1, b)) = b - a
         /\ \A i \in 1..(b - a) : SubSeq(s, a + 1, b)[i] = s[a + i]
<1> DEFINE p == SubSeq(s, a + 1, b)
<1>1. p \in Seq(T) /\ Len(p) = b - a /\ \A i \in 1..(b - a) : p[i] = s[a + i]
  <2>1. CASE b = a
    <3>1. p = <<>>
      BY <2>1, SubSeqEmpty
    <3> QED
      BY <2>1, <3>1
  <2>2. CASE b # a
    <3>1. b <= Len(s) /\ \A i \in (a + 1)..b : i \in 1..Len(s) /\ s[i] \in T
      BY <2>2
    <3>2. /\ p \in Seq(T) /\ Len(p) = (IF a + 1 <= b THEN b - (a + 1) + 1 ELSE 0)
          /\ \A i \in 1..(b - (a + 1) + 1) : p[i] = s[(a + 1) + i - 1]
      BY <3>1, SubSeqProperties
    <3> QED
      BY <2>2, <3>2
  <2> QED
    BY <2>1, <2>2
<1> QED
  BY <1>1

\* Its elements.
Piece(s, a, b) == SubSeq(s, a + 1, b)

LEMMA PartElements ==
  ASSUME NEW T, NEW s \in Seq(T), NEW a \in Nat, NEW b \in Nat, a <= b, b = a \/ b <= Len(s)
  PROVE  ToSet(Piece(s, a, b)) = {s[i] : i \in (a + 1)..b}
<1> DEFINE p == SubSeq(s, a + 1, b)
           S == {s[i] : i \in (a + 1)..b}
<1>1. p \in Seq(T) /\ Len(p) = b - a /\ \A i \in 1..(b - a) : p[i] = s[a + i]
  BY PartOf
<1>2. DOMAIN p = 1..(b - a)
  BY <1>1
<1> HIDE DEF p
<1>3. ASSUME NEW i \in (a + 1)..b
      PROVE  s[i] \in ToSet(p)
  <2>1. i - a \in 1..(b - a) /\ a + (i - a) = i
    OBVIOUS
  <2>2. i - a \in DOMAIN p /\ p[i - a] = s[i]
    BY <1>1, <1>2, <2>1
  <2> QED
    BY <2>2 DEF ToSet
<1>4. ASSUME NEW i \in DOMAIN p
      PROVE  p[i] \in S
  <2>1. a + i \in (a + 1)..b /\ p[i] = s[a + i]
    BY <1>1, <1>2
  <2> QED
    BY <2>1
<1>5. S \subseteq ToSet(p)
  BY <1>3
<1>6. ToSet(p) \subseteq S
  BY <1>4 DEF ToSet
<1>7. ToSet(p) = S
  BY <1>5, <1>6
<1> QED
  BY <1>7 DEF p, Piece

\* A finite set listed: nothing but its elements, none of them twice.
LEMMA Listed ==
  ASSUME NEW S, IsFiniteSet(S)
  PROVE  /\ SetToSeq(S) \in Seq(S)
         /\ IsInjective(SetToSeq(S))
<1> DEFINE n == Cardinality(S)
<1>1. n \in Nat /\ ExistsBijection(1..n, S)
  BY FS_CardinalityType
<1>2. PICK h : h \in Bijection(1..n, S)
  BY <1>1 DEF ExistsBijection
<1>3. h \in [1..n -> S] /\ \A a, b \in 1..n : a # b => h[a] # h[b]
  BY <1>2 DEF Bijection, Injection, IsInjective
<1>4. \E f \in [1..n -> S] : IsInjective(f)
  BY <1>3 DEF IsInjective
<1>5. SetToSeq(S) \in [1..n -> S] /\ IsInjective(SetToSeq(S))
  BY <1>4 DEF SetToSeq
<1> QED
  BY <1>1, <1>5

\* A function defined by recursion over 0..n exists, when its steps stay in a set.
StaysIn(G, n, S) == \A k \in 1..n : \A x \in S : G[<<k, x>>] \in S

Iterates(f, G, n, S, b) == f \in [0..n -> S] /\ f[0] = b /\ \A k \in 1..n : f[k] = G[<<k, f[k - 1]>>]

LEMMA Recursion ==
  ASSUME NEW n \in Nat, NEW S, NEW b \in S, NEW G, StaysIn(G, n, S)
  PROVE  \E f : Iterates(f, G, n, S, b)
<1> USE DEF StaysIn
<1> DEFINE Has(m) == \E f \in [0..m -> S] : f[0] = b /\ \A k \in 1..m : f[k] = G[<<k, f[k - 1]>>]
           Good == {m \in Nat : m <= n => Has(m)}
<1>1. 0 \in Good
  <2> DEFINE f == [i \in 0..0 |-> b]
  <2>1. f \in [0..0 -> S] /\ f[0] = b /\ 1..0 = {}
    OBVIOUS
  <2>2. Has(0)
    <3> HIDE DEF f
    <3> QED
      BY <2>1
  <2> QED
    BY <2>2
<1>2. ASSUME NEW m \in Nat, m \in Good
      PROVE  m + 1 \in Good
  <2> SUFFICES ASSUME m + 1 <= n
               PROVE  Has(m + 1)
    OBVIOUS
  <2>1. PICK f \in [0..m -> S] : f[0] = b /\ \A k \in 1..m : f[k] = G[<<k, f[k - 1]>>]
    BY <1>2
  <2> DEFINE h == [i \in 0..(m + 1) |-> IF i = m + 1 THEN G[<<m + 1, f[m]>>] ELSE f[i]]
  <2>2. G[<<m + 1, f[m]>>] \in S
    BY <2>1
  <2>3. h \in [0..(m + 1) -> S] /\ h[0] = b
    BY <2>1, <2>2
  <2>4. ASSUME NEW k \in 1..(m + 1)
        PROVE  h[k] = G[<<k, h[k - 1]>>]
    <3>1. k - 1 \in 0..m /\ h[k - 1] = f[k - 1]
      OBVIOUS
    <3>2. CASE k = m + 1
      <4>1. k - 1 = m /\ h[k] = G[<<m + 1, f[m]>>]
        BY <3>2
      <4> QED
        BY <3>1, <3>2, <4>1
    <3>3. CASE k # m + 1
      BY <2>1, <3>1, <3>3
    <3> QED
      BY <3>2, <3>3
  <2> HIDE DEF h
  <2> QED
    BY <2>3, <2>4
<1>3. \A m \in Nat : m \in Good
  <2> HIDE DEF Good
  <2> QED
    BY <1>1, <1>2, NaturalsAll
<1>4. PICK f \in [0..n -> S] : f[0] = b /\ \A k \in 1..n : f[k] = G[<<k, f[k - 1]>>]
  BY <1>3
<1>5. Iterates(f, G, n, S, b)
  BY <1>4 DEF Iterates
<1> QED
  BY <1>5

-------------------------------------------------------------------------------
(* What becomes of the generations when they are matched with the files.   *)

\* Of the same lines, though perhaps of another file, ended or with a gap more.
SameRead(h, g) ==
  /\ h.offset = g.offset /\ h.first = g.first /\ h.last = g.last /\ h.observed = g.observed
  /\ h.seen = g.seen /\ h.unnoticed = g.unnoticed /\ g.gaps \subseteq h.gaps

CopiedTo(h, g, c) == SameRead(h, g) /\ h.file = c /\ h.gaps # {} /\ h.closed = g.closed

EndedAs(h, g) == SameRead(h, g) /\ h.file = g.file /\ h.closed /\ (Lossy(g) => h.gaps # {})

LEMMA GapShape ==
  ASSUME NEW g \in Generations, NEW reason \in Reasons
  PROVE  /\ Gap(g, reason) \in Generations
         /\ SameRead(Gap(g, reason), g) /\ Gap(g, reason).gaps # {}
         /\ Gap(g, reason).file = g.file /\ Gap(g, reason).closed = g.closed
         /\ Gap(g, reason).active = g.active /\ Gap(g, reason).stable = g.stable
<1> DEFINE x == [reason |-> reason, from |-> g.offset]
           h == [g EXCEPT !.gaps = @ \union {x}]
<1>1. x \in [reason : Reasons, from : Nat]
  BY DEF Generations
<1>2. h \in Generations /\ x \in h.gaps
  <2> HIDE DEF x
  <2> QED
    BY <1>1 DEF Generations
<1>3. SameRead(h, g) /\ h.file = g.file /\ h.closed = g.closed /\ h.active = g.active /\ h.stable = g.stable
  <2> HIDE DEF x
  <2> QED
    BY <1>1 DEF Generations, SameRead
<1>4. Gap(g, reason) = h
  BY DEF Gap
<1> HIDE DEF h
<1> QED
  BY <1>2, <1>3, <1>4

\* A fingerprint is the same test for generations of the same lines.
LEMMA SameMatches ==
  ASSUME NEW g \in Generations, NEW h \in Generations, SameRead(h, g), NEW f
  PROVE  (Matches(h, f) <=> Matches(g, f)) /\ (Takes(h, f) <=> Takes(g, f))
BY DEF SameRead, Matches, Takes

\* The states of the loop over n generations.
Matching(n) == [gens : [1..n -> Generations], used : SUBSET Files, assigned : SUBSET (1..n)]

Candidates(st, g) == {f \in DOMAIN held \ st.used : ~held[f].active /\ g.offset > 0 /\ Matches(g, f)}

\* One pass of the loop.
LEMMA FollowedShape ==
  ASSUME NEW n \in Nat, NEW st \in Matching(n), NEW k \in 1..n, Types
  PROVE  LET g == st.gens[k]
             o == Followed(st, k)
             h == o.gens[k]
         IN  /\ o \in Matching(n)
             /\ \A j \in 1..n : j # k => o.gens[j] = st.gens[j]
             /\ \/ \E c \in Candidates(st, g) :
                     /\ Candidates(st, g) = {c}
                     /\ o.used = st.used \union {c} /\ o.assigned = st.assigned \union {k}
                     /\ CopiedTo(h, g, c)
                \/ /\ ~ \E c : Candidates(st, g) = {c}
                   /\ o.used = st.used /\ o.assigned = st.assigned
                   /\ EndedAs(h, g)
<1> DEFINE g == st.gens[k]
           o == Followed(st, k)
           copies == Candidates(st, g)
           c == CHOOSE f \in copies : TRUE
           x == [g EXCEPT !.file = c]
           y == IF Lossy(g) THEN Gap(g, "source-lost") ELSE g
           z == [y EXCEPT !.closed = TRUE]
<1>1. g \in Generations /\ st.used \subseteq Files /\ st.assigned \subseteq 1..n /\ st.gens \in [1..n -> Generations]
  BY DEF Matching
<1>2. DOMAIN held \subseteq Files /\ copies \subseteq DOMAIN held
  BY DEF Types, CycleTypes, Candidates
<1>3. CASE \E d : copies = {d}
  <2>1. c \in copies /\ copies = {c}
    BY <1>3
  <2>2. c \in Files
    BY <1>2, <2>1
  <2> HIDE DEF c
  <2>3. x \in Generations /\ x.file = c /\ SameRead(x, g) /\ x.closed = g.closed
    BY <1>1, <2>2 DEF Generations, SameRead
  <2> HIDE DEF x
  <2>4. /\ Gap(x, "copytruncate-window") \in Generations /\ SameRead(Gap(x, "copytruncate-window"), x)
        /\ Gap(x, "copytruncate-window").gaps # {} /\ Gap(x, "copytruncate-window").file = c
        /\ Gap(x, "copytruncate-window").closed = g.closed
    <3>1. "copytruncate-window" \in Reasons
      BY DEF Reasons
    <3> QED
      BY <2>3, <3>1, GapShape
  <2>5. \E d \in copies : copies = {d}
    BY <2>1
  <2>6. o = [gens |-> [st.gens EXCEPT ![k] = Gap(x, "copytruncate-window")],
             used |-> st.used \union {c}, assigned |-> st.assigned \union {k}]
    BY <2>5 DEF Followed, Candidates, c, x
  <2> DEFINE w == Gap(x, "copytruncate-window")
  <2>7. SameRead(w, g)
    BY <2>3, <2>4 DEF SameRead
  <2> HIDE DEF w
  <2>8. w \in Generations /\ w.gaps # {} /\ w.file = c /\ w.closed = g.closed
    BY <2>4 DEF w
  <2>9. o = [gens |-> [st.gens EXCEPT ![k] = w], used |-> st.used \union {c}, assigned |-> st.assigned \union {k}]
    BY <2>6 DEF w
  <2>10. /\ o.gens = [st.gens EXCEPT ![k] = w] /\ o.used = st.used \union {c}
         /\ o.assigned = st.assigned \union {k}
    BY <2>9
  <2>11. o.gens \in [1..n -> Generations] /\ o.gens[k] = w /\ \A j \in 1..n : j # k => o.gens[j] = st.gens[j]
    BY <1>1, <2>8, <2>10
  <2>12. o \in Matching(n)
    BY <1>1, <2>2, <2>9, <2>10, <2>11 DEF Matching
  <2>13. CopiedTo(o.gens[k], g, c)
    BY <2>7, <2>8, <2>11 DEF CopiedTo
  <2> QED
    BY <2>1, <2>10, <2>11, <2>12, <2>13
<1>4. CASE ~ \E d : copies = {d}
  <2>1. ~ \E d \in copies : copies = {d}
    BY <1>4
  <2>2. o = [st EXCEPT !.gens[k] = z]
    BY <2>1 DEF Followed, Candidates
  <2>3. y \in Generations /\ SameRead(y, g) /\ y.file = g.file /\ (Lossy(g) => y.gaps # {})
    <3>1. CASE Lossy(g)
      <4>1. y = Gap(g, "source-lost") /\ "source-lost" \in Reasons
        BY <3>1 DEF Reasons
      <4> QED
        BY <1>1, <4>1, GapShape
    <3>2. CASE ~Lossy(g)
      BY <1>1, <3>2 DEF SameRead
    <3> HIDE DEF y
    <3> QED
      BY <3>1, <3>2
  <2> HIDE DEF y
  <2>4. z \in Generations /\ SameRead(z, y) /\ z.file = y.file /\ z.closed /\ z.gaps = y.gaps
    BY <2>3 DEF Generations, SameRead
  <2>5. EndedAs(z, g)
    <3> HIDE DEF z
    <3> QED
      BY <2>3, <2>4 DEF EndedAs, SameRead
  <2> HIDE DEF z
  <2>6. /\ o.gens = [st.gens EXCEPT ![k] = z] /\ o.used = st.used /\ o.assigned = st.assigned
        /\ o = [gens |-> [st.gens EXCEPT ![k] = z], used |-> st.used, assigned |-> st.assigned]
    BY <2>2 DEF Matching
  <2>7. o.gens \in [1..n -> Generations] /\ o.gens[k] = z /\ \A j \in 1..n : j # k => o.gens[j] = st.gens[j]
    BY <1>1, <2>4, <2>6
  <2>8. o \in Matching(n)
    BY <1>1, <2>6, <2>7 DEF Matching
  <2> QED
    BY <1>4, <2>5, <2>6, <2>7, <2>8
<1> QED
  BY <1>3, <1>4

\* The loop before its first pass.
Unmatched(gs, bad) ==
  [gens |-> gs, used |-> {gs[j].file : j \in Kept(gs, bad)}, assigned |-> Kept(gs, bad)]

LEMMA UnmatchedType ==
  ASSUME Types, NEW gs \in Seq(Generations), NEW bad
  PROVE  Unmatched(gs, bad) \in Matching(Len(gs))
<1>1. gs \in [1..Len(gs) -> Generations] /\ DOMAIN gs = 1..Len(gs) /\ Len(gs) \in Nat
  BY LenProperties
<1>2. Kept(gs, bad) \subseteq 1..Len(gs)
  BY <1>1 DEF Kept
<1>3. {gs[j].file : j \in Kept(gs, bad)} \subseteq Files
  BY <1>1, <1>2 DEF Generations
<1> QED
  BY <1>1, <1>2, <1>3 DEF Unmatched, Matching

\* The loop, one state after the other.
LEMMA ResumedSteps ==
  ASSUME Types, NEW gs \in Seq(Generations), NEW bad
  PROVE  \E after \in [0..Len(gs) -> Matching(Len(gs))] :
           /\ after[0] = Unmatched(gs, bad)
           /\ \A k \in 1..Len(gs) : after[k] = IF gs[k].closed \/ k \in Kept(gs, bad) THEN after[k - 1]
                                               ELSE Followed(after[k - 1], k)
           /\ Resumed(gs, bad) = after[Len(gs)]
<1> DEFINE n == Len(gs)
           M == Matching(n)
           Skips(k) == gs[k].closed \/ k \in Kept(gs, bad)
           G == [p \in (1..n) \X M |-> IF Skips(p[1]) THEN p[2] ELSE Followed(p[2], p[1])]
           F == CHOOSE after : after = [k \in 0..n |->
                  IF k = 0 THEN Unmatched(gs, bad)
                  ELSE IF gs[k].closed \/ k \in Kept(gs, bad) THEN after[k - 1] ELSE Followed(after[k - 1], k)]
<1>1. n \in Nat /\ Unmatched(gs, bad) \in M
  BY UnmatchedType, LenProperties
<1>2. ASSUME NEW k \in 1..n, NEW x \in M
      PROVE  G[<<k, x>>] \in M /\ G[<<k, x>>] = IF Skips(k) THEN x ELSE Followed(x, k)
  <2>1. Followed(x, k) \in M
    BY <1>1, FollowedShape
  <2>2. G[<<k, x>>] = IF Skips(k) THEN x ELSE Followed(x, k)
    <3>1. <<k, x>> \in (1..n) \X M /\ <<k, x>>[1] = k /\ <<k, x>>[2] = x
      OBVIOUS
    <3> HIDE DEF M, Skips
    <3> QED
      BY <3>1
  <2> HIDE DEF G, M, Skips
  <2> QED
    BY <2>1, <2>2
<1>3. \A k \in 1..n : \A x \in M : G[<<k, x>>] \in M
  BY <1>2
<1>4. PICK f \in [0..n -> M] : f[0] = Unmatched(gs, bad) /\ \A k \in 1..n : f[k] = G[<<k, f[k - 1]>>]
  <2>1. StaysIn(G, n, M)
    <3> HIDE DEF G, M, n
    <3> QED
      BY <1>3 DEF StaysIn
  <2>2. \E f : Iterates(f, G, n, M, Unmatched(gs, bad))
    <3> HIDE DEF G, M, n
    <3> QED
      BY <1>1, <2>1, Recursion
  <2> HIDE DEF G, M, n
  <2> QED
    BY <2>2 DEF Iterates
<1>5. \A k \in 1..n : f[k] = IF Skips(k) THEN f[k - 1] ELSE Followed(f[k - 1], k)
  <2> TAKE k \in 1..n
  <2>1. k - 1 \in 0..n /\ f[k - 1] \in M
    BY <1>1, <1>4
  <2> HIDE DEF G, M, Skips
  <2> QED
    BY <1>2, <1>4, <2>1
<1>6. f = [k \in 0..n |-> IF k = 0 THEN Unmatched(gs, bad)
                          ELSE IF gs[k].closed \/ k \in Kept(gs, bad) THEN f[k - 1] ELSE Followed(f[k - 1], k)]
  <2>1. f = [k \in 0..n |-> f[k]]
    BY <1>4
  <2>2. \A k \in 0..n : f[k] = IF k = 0 THEN Unmatched(gs, bad)
                          ELSE IF gs[k].closed \/ k \in Kept(gs, bad) THEN f[k - 1] ELSE Followed(f[k - 1], k)
    BY <1>1, <1>4, <1>5
  <2> HIDE DEF M, n
  <2> QED
    BY <2>1, <2>2, Zenon
<1>7. F = [k \in 0..n |-> IF k = 0 THEN Unmatched(gs, bad)
                          ELSE IF gs[k].closed \/ k \in Kept(gs, bad) THEN F[k - 1] ELSE Followed(F[k - 1], k)]
  <2> HIDE DEF n
  <2> QED
    BY <1>6, Zenon
<1>8. Resumed(gs, bad) = F[n]
  BY Zenon DEF Resumed, Unmatched
<1> HIDE DEF F
<1>9. ASSUME NEW k \in 1..n
      PROVE  k \in 0..n /\ k - 1 \in 0..n
  BY <1>1
<1>10. F[0] = Unmatched(gs, bad) /\ \A k \in 1..n : F[k] = IF Skips(k) THEN F[k - 1] ELSE Followed(F[k - 1], k)
  <2>1. 0 \in 0..n
    BY <1>1
  <2>2. \A k \in 1..n : k \in 0..n /\ k # 0
    BY <1>1
  <2> HIDE DEF n
  <2> QED
    BY <1>7, <2>1, <2>2
<1>11. \A k \in 0..n : F[k] \in M
  <2> DEFINE Good == {k \in Nat : k <= n => F[k] \in M}
  <2>1. 0 \in Good
    BY <1>1, <1>10
  <2>2. ASSUME NEW k \in Nat, k \in Good
        PROVE  k + 1 \in Good
    <3> SUFFICES ASSUME k + 1 <= n
                 PROVE  F[k + 1] \in M
      OBVIOUS
    <3>1. k + 1 \in 1..n /\ (k + 1) - 1 = k /\ F[k] \in M
      BY <1>1, <2>2
    <3>2. F[k + 1] = IF Skips(k + 1) THEN F[k] ELSE Followed(F[k], k + 1)
      BY <1>10, <3>1
    <3>3. Followed(F[k], k + 1) \in M
      BY <1>1, <3>1, FollowedShape
    <3> HIDE DEF M, Skips
    <3> QED
      BY <3>1, <3>2, <3>3
  <2>3. \A k \in Nat : k \in Good
    <3> HIDE DEF Good
    <3> QED
      BY <2>1, <2>2, NaturalsAll
  <2> QED
    BY <1>1, <2>3
<1>12. F \in [0..n -> M]
  <2>1. DOMAIN F = 0..n /\ F = [k \in DOMAIN F |-> F[k]]
    <3> HIDE DEF n
    <3> QED
      BY <1>7
  <2> HIDE DEF M, n
  <2> QED
    BY <1>11, <2>1
<1> WITNESS F \in [0..n -> M]
<1> HIDE DEF M
<1> QED
  BY <1>8, <1>10

\* A generation whose file was lost: it goes on in the one copy there is, or ends,
\* and then no copy was left, or several.
Moves(g, h, k, st) ==
  /\ k \in st.assigned /\ g.offset > 0
  /\ h.file \in DOMAIN held /\ ~held[h.file].active /\ Matches(g, h.file) /\ CopiedTo(h, g, h.file)

Ends(g, h, k, st) ==
  /\ k \notin st.assigned /\ EndedAs(h, g)
  /\ \A f \in DOMAIN held : ~held[f].active /\ g.offset > 0 /\ Matches(g, f) /\ f \notin st.used =>
       \E e \in DOMAIN held : e # f /\ Matches(g, e)

\* The loop after m passes.
Skipped(gs, kept, k) == gs[k].closed \/ k \in kept

Passed(gs, kept, m, st) ==
  /\ st \in Matching(Len(gs))
  /\ \A k \in 1..Len(gs) : k > m \/ Skipped(gs, kept, k) => st.gens[k] = gs[k]
  /\ \A k \in 1..Len(gs) : k <= m /\ ~Skipped(gs, kept, k) =>
       Moves(gs[k], st.gens[k], k, st) \/ Ends(gs[k], st.gens[k], k, st)
  /\ st.used = {st.gens[j].file : j \in st.assigned}
  /\ kept \subseteq st.assigned /\ st.assigned \subseteq 1..Len(gs)
  /\ \A k \in st.assigned : k \in kept \/ (k <= m /\ ~Skipped(gs, kept, k))
  /\ \A k, j \in st.assigned : k # j /\ st.gens[k].file = st.gens[j].file => k \in kept /\ j \in kept

LEMMA PassedFirst ==
  ASSUME Types, NEW gs \in Seq(Generations), NEW bad
  PROVE  Passed(gs, Kept(gs, bad), 0, Unmatched(gs, bad))
<1> DEFINE st == Unmatched(gs, bad)
           kept == Kept(gs, bad)
<1>1. st \in Matching(Len(gs)) /\ Len(gs) \in Nat /\ DOMAIN gs = 1..Len(gs)
  BY UnmatchedType, LenProperties
<1>2. st.gens = gs /\ st.used = {gs[j].file : j \in kept} /\ st.assigned = kept
  BY DEF Unmatched
<1>3. kept \subseteq 1..Len(gs)
  BY <1>1 DEF Kept
<1>4. \A k \in 1..Len(gs) : ~ (k <= 0)
  BY <1>1
<1> HIDE DEF st, kept
<1>5. st.used = {st.gens[j].file : j \in st.assigned}
  BY <1>2
<1> QED
  BY <1>1, <1>2, <1>3, <1>4, <1>5 DEF Passed, st, kept

LEMMA PassedSkip ==
  ASSUME NEW gs \in Seq(Generations), NEW kept, NEW m \in 1..Len(gs), NEW st,
         Passed(gs, kept, m - 1, st), Skipped(gs, kept, m)
  PROVE  Passed(gs, kept, m, st)
<1>1. Len(gs) \in Nat
  BY LenProperties
<1>2. \A k \in 1..Len(gs) : (k <= m <=> k <= m - 1 \/ k = m) /\ (k > m => k > m - 1)
  BY <1>1
<1> QED
  BY <1>2 DEF Passed

LEMMA PassedStep ==
  ASSUME Types, NEW gs \in Seq(Generations), NEW kept, NEW m \in 1..Len(gs), NEW st,
         Passed(gs, kept, m - 1, st), ~Skipped(gs, kept, m)
  PROVE  Passed(gs, kept, m, Followed(st, m))
<1> DEFINE n == Len(gs)
           o == Followed(st, m)
           g == gs[m]
           h == o.gens[m]
<1>1. n \in Nat /\ \A k \in 1..n : (k <= m <=> k <= m - 1 \/ k = m) /\ (k > m - 1 <=> k > m \/ k = m)
  BY LenProperties
<1>2. st \in Matching(n) /\ st.gens[m] = g
  BY <1>1 DEF Passed
<1>3. /\ o \in Matching(n)
      /\ \A j \in 1..n : j # m => o.gens[j] = st.gens[j]
      /\ \/ \E c \in Candidates(st, g) :
              /\ Candidates(st, g) = {c}
              /\ o.used = st.used \union {c} /\ o.assigned = st.assigned \union {m}
              /\ CopiedTo(h, g, c)
         \/ /\ ~ \E c : Candidates(st, g) = {c}
            /\ o.used = st.used /\ o.assigned = st.assigned
            /\ EndedAs(h, g)
  <2> DEFINE gg == st.gens[m]
             hh == o.gens[m]
  <2>1. /\ o \in Matching(n)
        /\ \A j \in 1..n : j # m => o.gens[j] = st.gens[j]
        /\ \/ \E c \in Candidates(st, gg) :
                /\ Candidates(st, gg) = {c}
                /\ o.used = st.used \union {c} /\ o.assigned = st.assigned \union {m}
                /\ CopiedTo(hh, gg, c)
           \/ /\ ~ \E c : Candidates(st, gg) = {c}
              /\ o.used = st.used /\ o.assigned = st.assigned
              /\ EndedAs(hh, gg)
    BY <1>1, <1>2, FollowedShape
  <2>2. gg = g
    BY <1>2
  <2> HIDE DEF o, g, gg
  <2> QED
    BY <2>1, <2>2
<1> HIDE DEF o
<1>4. m \notin st.assigned
  BY <1>1 DEF Passed, Skipped
<1>5. st.used \subseteq o.used /\ \A k \in 1..n : k # m => (k \in o.assigned <=> k \in st.assigned)
  BY <1>3
<1>6. ASSUME NEW k \in 1..n, k <= m - 1, ~Skipped(gs, kept, k)
      PROVE  Moves(gs[k], o.gens[k], k, o) \/ Ends(gs[k], o.gens[k], k, o)
  <2>1. k # m /\ o.gens[k] = st.gens[k]
    BY <1>1, <1>3, <1>6
  <2>2. Moves(gs[k], st.gens[k], k, st) \/ Ends(gs[k], st.gens[k], k, st)
    BY <1>6 DEF Passed
  <2>3. CASE Moves(gs[k], st.gens[k], k, st)
    BY <1>5, <2>1, <2>3 DEF Moves
  <2>4. CASE Ends(gs[k], st.gens[k], k, st)
    BY <1>5, <2>1, <2>4 DEF Ends
  <2> QED
    BY <2>2, <2>3, <2>4
<1>7. \A k \in 1..n : k > m \/ Skipped(gs, kept, k) => o.gens[k] = gs[k]
  BY <1>1, <1>3 DEF Passed
<1>8. \A k \in st.assigned : k # m /\ o.gens[k] = st.gens[k] /\ k \in 1..n
  BY <1>3, <1>4 DEF Passed
<1>9. CASE \E c \in Candidates(st, g) :
              /\ Candidates(st, g) = {c}
              /\ o.used = st.used \union {c} /\ o.assigned = st.assigned \union {m}
              /\ CopiedTo(h, g, c)
  <2>1. PICK c \in Candidates(st, g) :
              /\ Candidates(st, g) = {c}
              /\ o.used = st.used \union {c} /\ o.assigned = st.assigned \union {m}
              /\ CopiedTo(h, g, c)
    BY <1>9
  <2>2. c \in DOMAIN held /\ c \notin st.used /\ ~held[c].active /\ g.offset > 0 /\ Matches(g, c) /\ h.file = c
    BY <2>1 DEF Candidates, CopiedTo
  <2>3. Moves(g, h, m, o)
    BY <2>1, <2>2 DEF Moves
  <2>4. o.used = {o.gens[j].file : j \in o.assigned}
    <3>1. st.used = {st.gens[j].file : j \in st.assigned}
      BY DEF Passed
    <3> QED
      BY <1>8, <2>1, <2>2, <3>1
  <2>5. \A k, j \in o.assigned : k # j /\ o.gens[k].file = o.gens[j].file => k \in kept /\ j \in kept
    <3>1. \A k \in st.assigned : st.gens[k].file \in st.used
      BY DEF Passed
    <3>2. \A k \in st.assigned : o.gens[k].file # c
      BY <1>8, <2>2, <3>1
    <3> QED
      BY <1>8, <2>1, <2>2, <3>2 DEF Passed
  <2>6. kept \subseteq o.assigned /\ o.assigned \subseteq 1..n
    BY <2>1 DEF Passed
  <2>7. \A k \in o.assigned : k \in kept \/ (k <= m /\ ~Skipped(gs, kept, k))
    BY <1>1, <2>1, <2>6 DEF Passed
  <2> QED
    BY <1>1, <1>3, <1>6, <1>7, <2>3, <2>4, <2>5, <2>6, <2>7 DEF Passed, o
<1>10. CASE /\ ~ \E c : Candidates(st, g) = {c}
            /\ o.used = st.used /\ o.assigned = st.assigned
            /\ EndedAs(h, g)
  <2>1. Ends(g, h, m, o)
    <3> SUFFICES ASSUME NEW f \in DOMAIN held, ~held[f].active, g.offset > 0, Matches(g, f), f \notin o.used
                 PROVE  \E e \in DOMAIN held : e # f /\ Matches(g, e)
      BY <1>4, <1>10 DEF Ends
    <3>1. f \in Candidates(st, g)
      BY <1>10 DEF Candidates
    <3>2. PICK e \in Candidates(st, g) : e # f
      <4>1. Candidates(st, g) # {f}
        BY <1>10
      <4> HIDE DEF g
      <4> QED
        BY <3>1, <4>1
    <3> QED
      BY <3>2 DEF Candidates
  <2>2. o.used = {o.gens[j].file : j \in o.assigned}
    <3>1. st.used = {st.gens[j].file : j \in st.assigned}
      BY DEF Passed
    <3> QED
      BY <1>8, <1>10, <3>1
  <2>3. \A k, j \in o.assigned : k # j /\ o.gens[k].file = o.gens[j].file => k \in kept /\ j \in kept
    BY <1>8, <1>10 DEF Passed
  <2>4. kept \subseteq o.assigned /\ o.assigned \subseteq 1..n
    BY <1>10 DEF Passed
  <2>5. \A k \in o.assigned : k \in kept \/ (k <= m /\ ~Skipped(gs, kept, k))
    BY <1>1, <1>10, <2>4 DEF Passed
  <2> QED
    BY <1>1, <1>3, <1>6, <1>7, <2>1, <2>2, <2>3, <2>4, <2>5 DEF Passed, o
<1> QED
  BY <1>3, <1>9, <1>10

\* The loop as a whole.
LEMMA ResumedShape ==
  ASSUME Types, NEW gs \in Seq(Generations), NEW bad
  PROVE  Passed(gs, Kept(gs, bad), Len(gs), Resumed(gs, bad))
<1> DEFINE n == Len(gs)
           kept == Kept(gs, bad)
<1>1. PICK after \in [0..n -> Matching(n)] :
           /\ after[0] = Unmatched(gs, bad)
           /\ \A k \in 1..n : after[k] = IF gs[k].closed \/ k \in kept THEN after[k - 1] ELSE Followed(after[k - 1], k)
           /\ Resumed(gs, bad) = after[n]
  BY ResumedSteps
<1>2. n \in Nat
  BY LenProperties
<1> DEFINE Good == {m \in Nat : m <= n => Passed(gs, kept, m, after[m])}
<1>3. 0 \in Good
  BY <1>1, PassedFirst
<1>4. ASSUME NEW m \in Nat, m \in Good
      PROVE  m + 1 \in Good
  <2> SUFFICES ASSUME m + 1 <= n
               PROVE  Passed(gs, kept, m + 1, after[m + 1])
    OBVIOUS
  <2>1. m + 1 \in 1..n /\ (m + 1) - 1 = m
    BY <1>2
  <2>2. Passed(gs, kept, (m + 1) - 1, after[m])
    BY <1>2, <1>4, <2>1
  <2>3. after[m + 1] = IF Skipped(gs, kept, m + 1) THEN after[m] ELSE Followed(after[m], m + 1)
    BY <1>1, <2>1 DEF Skipped
  <2> HIDE DEF kept
  <2>4. CASE Skipped(gs, kept, m + 1)
    BY <2>1, <2>2, <2>3, <2>4, PassedSkip
  <2>5. CASE ~Skipped(gs, kept, m + 1)
    BY <2>1, <2>2, <2>3, <2>5, PassedStep
  <2> QED
    BY <2>4, <2>5
<1>5. \A m \in Nat : m \in Good
  <2> HIDE DEF Good
  <2> QED
    BY <1>3, <1>4, NaturalsAll
<1> QED
  BY <1>1, <1>2, <1>5

\* What Match makes of each generation.
Gone(g) == g.file \notin DOMAIN held \/ ~Matches(g, g.file)

Rests(k) ==
  /\ draft'[k] = draft[k]
  /\ \/ draft[k].closed /\ k \notin work'
     \/ /\ ~draft[k].closed /\ k \in work' /\ draft[k].file \in DOMAIN held
        /\ draft[k].file \in unread' \/ Matches(draft[k], draft[k].file)

Goes(k) ==
  LET g == draft[k]  h == draft'[k] IN
  /\ ~g.closed /\ k \in work' /\ g.offset > 0 /\ Gone(g)
  /\ h.file \in DOMAIN held /\ ~held[h.file].active /\ Matches(g, h.file) /\ CopiedTo(h, g, h.file)

Stops(k) ==
  LET g == draft[k]  h == draft'[k] IN
  /\ ~g.closed /\ k \notin work' /\ Gone(g) /\ EndedAs(h, g)
  /\ \A f \in DOMAIN held :
       /\ ~held[f].active /\ g.offset > 0 /\ Matches(g, f)
       /\ \A j \in DOMAIN draft : j \in work' => draft'[j].file # f
       => \E e \in DOMAIN held : e # f /\ Matches(g, e)

Starts(k) ==
  \E f \in DOMAIN held :
    /\ draft'[k] = NewGeneration(f) /\ k \in work'
    /\ \A j \in DOMAIN draft : j \in work' => draft'[j].file # f
    /\ \A j \in DOMAIN draft : ~ (draft'[j].closed /\ draft'[j].file = f /\ Matches(draft'[j], f))

LEMMA NewShape ==
  ASSUME NEW f \in Files
  PROVE  NewGeneration(f) \in Generations
BY DEF NewGeneration, Generations, Reasons

LEMMA MatchShape ==
  ASSUME Types, Match
  PROVE  /\ draft' \in Seq(Generations) /\ DOMAIN draft \subseteq DOMAIN draft'
         /\ work' \subseteq DOMAIN draft'
         /\ \A k \in DOMAIN draft : Rests(k) \/ Goes(k) \/ Stops(k)
         /\ \A k \in DOMAIN draft' : k \notin DOMAIN draft => Starts(k)
         /\ \A k, j \in work' : k # j /\ draft'[k].file = draft'[j].file =>
              \A i \in {k, j} : i \in DOMAIN draft /\ Rests(i) /\ ~draft[i].closed
<1> DEFINE bad == unread'
           kept == Kept(draft, bad)
           n == Len(draft)
           st == Resumed(draft, bad)
           F == {f \in DOMAIN held \ st.used : ~Archived(st.gens, f)}
           new == SetToSeq(F)
           fresh == [i \in DOMAIN new |-> NewGeneration(new[i])]
<1>1. draft \in Seq(Generations) /\ n \in Nat /\ DOMAIN draft = 1..n /\ DOMAIN held \subseteq Files
  BY LenProperties DEF Types, CycleTypes
<1>2. Passed(draft, kept, n, st)
  BY <1>1, ResumedShape
<1>3. draft' = st.gens \o fresh /\ work' = st.assigned \union {Len(st.gens) + i : i \in DOMAIN new}
  BY DEF Match
<1>4. IsFiniteSet(F)
  <2>1. IsFiniteSet(Files)
    BY CollectorAssumption, FS_Interval DEF Files, CollectorAssumption
  <2> QED
    BY <1>1, <2>1, FS_Subset
<1>5. new \in Seq(F) /\ IsInjective(new)
  <2> HIDE DEF F
  <2> QED
    BY <1>4, Listed
<1> HIDE DEF new, st, F
<1>6. Len(new) \in Nat /\ DOMAIN new = 1..Len(new) /\ \A i \in 1..Len(new) : new[i] \in F
  BY <1>5, LenProperties
<1>7. F \subseteq DOMAIN held /\ F \cap st.used = {} /\ \A f \in F : ~Archived(st.gens, f)
  BY DEF F
<1>8. fresh \in Seq(Generations) /\ Len(fresh) = Len(new) /\ \A i \in 1..Len(new) : fresh[i] = NewGeneration(new[i])
  <2>1. \A i \in 1..Len(new) : NewGeneration(new[i]) \in Generations
    BY <1>1, <1>6, <1>7, NewShape
  <2> QED
    BY <1>6, <2>1
<1>9. st.gens \in Seq(Generations) /\ Len(st.gens) = n /\ DOMAIN st.gens = 1..n /\ st.assigned \subseteq 1..n
  <2>1. st \in Matching(n)
    BY <1>2 DEF Passed
  <2>2. st.gens \in [1..n -> Generations]
    BY <2>1 DEF Matching
  <2> QED
    BY <1>1, <2>1, <2>2 DEF Matching
<1> HIDE DEF fresh
<1>10. /\ draft' \in Seq(Generations) /\ Len(draft') = n + Len(new) /\ DOMAIN draft' = 1..(n + Len(new))
       /\ \A k \in 1..n : draft'[k] = st.gens[k]
       /\ \A i \in 1..Len(new) : draft'[n + i] = NewGeneration(new[i])
  <2>1. /\ draft' \in Seq(Generations) /\ Len(draft') = n + Len(new)
        /\ \A k \in 1..(n + Len(new)) : draft'[k] = IF k <= n THEN st.gens[k] ELSE fresh[k - n]
    <3>1. /\ st.gens \o fresh \in Seq(Generations) /\ Len(st.gens \o fresh) = Len(st.gens) + Len(fresh)
          /\ \A k \in 1..(Len(st.gens) + Len(fresh)) :
               (st.gens \o fresh)[k] = IF k <= Len(st.gens) THEN st.gens[k] ELSE fresh[k - Len(st.gens)]
      <4> DEFINE a == st.gens
      <4>1. a \in Seq(Generations) /\ fresh \in Seq(Generations)
        BY <1>8, <1>9
      <4> HIDE DEF a
      <4>2. /\ a \o fresh \in Seq(Generations) /\ Len(a \o fresh) = Len(a) + Len(fresh)
            /\ \A k \in 1..(Len(a) + Len(fresh)) : (a \o fresh)[k] = IF k <= Len(a) THEN a[k] ELSE fresh[k - Len(a)]
        BY ONLY <4>1, ConcatProperties
      <4> QED
        BY <4>2 DEF a
    <3>2. Len(st.gens) = n /\ Len(fresh) = Len(new)
      BY <1>8, <1>9
    <3> HIDE DEF n
    <3> QED
      BY <1>3, <3>1, <3>2
  <2>2. \A k \in 1..n : draft'[k] = st.gens[k]
    BY <1>1, <1>6, <2>1
  <2>3. \A i \in 1..Len(new) : draft'[n + i] = fresh[i]
    <3> TAKE i \in 1..Len(new)
    <3>1. n + i \in 1..(n + Len(new)) /\ ~ (n + i <= n) /\ (n + i) - n = i
      BY <1>1, <1>6
    <3> QED
      BY <2>1, <3>1
  <2> QED
    BY <1>1, <1>6, <1>8, <2>1, <2>2, <2>3, LenProperties
<1>11. work' = st.assigned \union {n + i : i \in 1..Len(new)} /\ \A k \in 1..n : k \in work' <=> k \in st.assigned
  <2>1. work' = st.assigned \union {n + i : i \in 1..Len(new)}
    BY <1>3, <1>6, <1>9
  <2> QED
    BY <1>1, <1>6, <2>1
<1>12. \A k \in 1..n : k \in kept <=> /\ ~draft[k].closed /\ draft[k].file \in DOMAIN held
                                     /\ (draft[k].file \in unread' \/ Matches(draft[k], draft[k].file))
  BY <1>1 DEF Kept
<1> HIDE DEF kept, n
<1>13. ASSUME NEW k \in 1..n, Skipped(draft, kept, k)
       PROVE  Rests(k)
  <2>1. draft'[k] = draft[k]
    BY <1>2, <1>10, <1>13 DEF Passed, n
  <2>2. CASE k \in kept
    BY <1>2, <1>11, <1>12, <2>1, <2>2 DEF Passed, Rests
  <2>3. CASE k \notin kept
    BY <1>2, <1>11, <1>13, <2>1, <2>3 DEF Passed, Rests, Skipped
  <2> QED
    BY <2>2, <2>3
<1>14. ASSUME NEW k \in 1..n, ~Skipped(draft, kept, k)
       PROVE  Goes(k) \/ Stops(k)
  <2>1. ~draft[k].closed /\ Gone(draft[k])
    BY <1>12, <1>14 DEF Skipped, Gone
  <2>2. Moves(draft[k], draft'[k], k, st) \/ Ends(draft[k], draft'[k], k, st)
    <3>1. k <= n
      BY <1>1
    <3> QED
      BY <1>2, <1>10, <1>14, <3>1 DEF Passed, n
  <2>3. CASE Moves(draft[k], draft'[k], k, st)
    BY <1>11, <2>1, <2>3 DEF Moves, Goes
  <2>4. CASE Ends(draft[k], draft'[k], k, st)
    <3>1. ASSUME NEW f, \A j \in DOMAIN draft : j \in work' => draft'[j].file # f
          PROVE  f \notin st.used
      <4>1. st.used = {st.gens[j].file : j \in st.assigned}
        BY <1>2 DEF Passed
      <4> QED
        BY <1>1, <1>9, <1>10, <1>11, <3>1, <4>1
    <3> QED
      BY <1>11, <2>1, <2>4, <3>1 DEF Ends, Stops
  <2> QED
    BY <2>2, <2>3, <2>4
<1>15. ASSUME NEW i \in 1..Len(new)
       PROVE  Starts(n + i) /\ draft'[n + i].file = new[i] /\ new[i] \notin st.used
  <2>1. new[i] \in DOMAIN held /\ new[i] \notin st.used /\ ~Archived(st.gens, new[i]) /\ draft'[n + i] = NewGeneration(new[i])
    BY <1>6, <1>7, <1>10
  <2>2. \A j \in DOMAIN draft : j \in work' => draft'[j].file # new[i]
    <3>1. st.used = {st.gens[j].file : j \in st.assigned}
      BY <1>2 DEF Passed
    <3> QED
      BY <1>1, <1>10, <1>11, <2>1, <3>1
  <2>3. \A j \in DOMAIN draft : ~ (draft'[j].closed /\ draft'[j].file = new[i] /\ Matches(draft'[j], new[i]))
    BY <1>1, <1>9, <1>10, <2>1 DEF Archived
  <2>4. n + i \in work'
    BY <1>11
  <2>5. NewGeneration(new[i]).file = new[i]
    BY DEF NewGeneration
  <2> QED
    BY <2>1, <2>2, <2>3, <2>4, <2>5 DEF Starts
<1>16. \A k \in DOMAIN draft' : k \notin DOMAIN draft => \E i \in 1..Len(new) : k = n + i
  <2> SUFFICES ASSUME NEW k \in 1..(n + Len(new)), k \notin 1..n
               PROVE  \E i \in 1..Len(new) : k = n + i
    BY <1>1, <1>10
  <2>1. k - n \in 1..Len(new) /\ k = n + (k - n)
    BY <1>1, <1>6
  <2> QED
    BY <2>1
<1>17. ASSUME NEW k \in work', NEW j \in work', k # j, draft'[k].file = draft'[j].file
       PROVE  \A i \in {k, j} : i \in DOMAIN draft /\ Rests(i) /\ ~draft[i].closed
  <2>1. \A i \in st.assigned : draft'[i].file \in st.used /\ i \in 1..n
    BY <1>2, <1>9, <1>10 DEF Passed
  <2>2. CASE k \in st.assigned /\ j \in st.assigned
    <3>1. k \in kept /\ j \in kept
      BY <1>2, <1>10, <1>17, <2>1, <2>2 DEF Passed
    <3> QED
      BY <1>1, <1>12, <1>13, <2>1, <2>2, <3>1 DEF Skipped
  <2>3. CASE k \in st.assigned /\ j \notin st.assigned
    BY <1>11, <1>15, <1>17, <2>1, <2>3
  <2>4. CASE k \notin st.assigned /\ j \in st.assigned
    BY <1>11, <1>15, <1>17, <2>1, <2>4
  <2>5. CASE k \notin st.assigned /\ j \notin st.assigned
    <3>1. PICK a \in 1..Len(new) : k = n + a
      BY <1>11, <2>5
    <3>2. PICK b \in 1..Len(new) : j = n + b
      BY <1>11, <2>5
    <3>3. new[a] = new[b]
      BY <1>15, <1>17, <3>1, <3>2
    <3> QED
      BY <1>5, <1>6, <1>17, <3>1, <3>2, <3>3 DEF IsInjective
  <2> QED
    BY <2>2, <2>3, <2>4, <2>5
<1>18. work' \subseteq DOMAIN draft'
  BY <1>1, <1>6, <1>9, <1>10, <1>11
<1> QED
  BY <1>1, <1>6, <1>10, <1>13, <1>14, <1>15, <1>16, <1>17, <1>18

-------------------------------------------------------------------------------
(* What becomes of the generation that is looked at and read.              *)

\* Of the same lines of the same file.
SamePlace(h, g) ==
  /\ h.file = g.file /\ h.offset = g.offset /\ h.first = g.first /\ h.last = g.last
  /\ h.closed = g.closed

Looked(h, g) ==
  /\ SamePlace(h, g) /\ h.gaps = g.gaps /\ h.unnoticed = g.unnoticed
  /\ h.observed = Len(content[g.file]) /\ h.seen = g.seen \union ToSet(content[g.file])

\* No other generation changes.
Changes(k) ==
  /\ k \in DOMAIN draft /\ draft' \in Seq(Generations) /\ DOMAIN draft' = DOMAIN draft
  /\ \A j \in DOMAIN draft : j # k => draft'[j] = draft[j]

LEMMA ChangesOne ==
  ASSUME Types, NEW k \in DOMAIN draft, NEW h \in Generations, draft' = [draft EXCEPT ![k] = h]
  PROVE  Changes(k) /\ draft'[k] = h
<1>1. draft \in Seq(Generations)
  BY DEF Types, CycleTypes
<1>2. draft' \in Seq(Generations) /\ DOMAIN draft' = DOMAIN draft
  BY <1>1, ExceptSeq
<1> QED
  BY <1>1, <1>2 DEF Changes

LEMMA StatShape ==
  ASSUME Types, StepInv, Stat
  PROVE  LET k == looked'.gen IN
         /\ k \in work /\ looked' \in [gen : Nat, safe : BOOLEAN, stable : Nat]
         /\ Changes(k) /\ Looked(draft'[k], draft[k])
<1>1. PICK k \in work :
        LET g == draft[k]
            size == Len(content[g.file])
        IN  /\ looked' = [gen |-> k, safe |-> SafelyDrained(g, size),
                          stable |-> IF size = g.observed THEN Min({2, g.stable + 1}) ELSE 1]
            /\ draft' = [draft EXCEPT ![k].observed = size,
                                      ![k].active = held[g.file].active /\ g.file \in visible,
                                      ![k].seen = @ \union ToSet(content[g.file])]
  BY DEF Stat
<1> DEFINE g == draft[k]
           size == Len(content[g.file])
           lines == ToSet(content[g.file])
           tail == held[g.file].active /\ g.file \in visible
           h == [g EXCEPT !.observed = size, !.active = tail, !.seen = @ \union lines]
<1>2. draft \in Seq(Generations) /\ k \in DOMAIN draft /\ DOMAIN draft = 1..Len(draft) /\ Len(draft) \in Nat
  BY LenProperties DEF Types, CycleTypes
<1>3. g \in Generations /\ g.file \in Files /\ k \in Nat
  <2>1. k \in Nat
    BY <1>2
  <2>2. g \in Generations
    BY <1>2
  <2> QED
    BY <2>1, <2>2 DEF Generations
<1>4. size \in Nat /\ lines \subseteq Nat
  BY <1>3, LenProperties DEF Types, LogTypes, ToSet
<1>5. tail \in BOOLEAN
  <2>1. g.file \in DOMAIN held /\ held[g.file].active \in BOOLEAN
    BY <1>2 DEF StepInv, Types, CycleTypes, Stat
  <2> QED
    BY <2>1
<1>6. draft' = [draft EXCEPT ![k] = h]
  BY <1>1, <1>2
<1> HIDE DEF size, lines, tail
<1>7. h \in Generations /\ SamePlace(h, g) /\ h.gaps = g.gaps /\ h.unnoticed = g.unnoticed
      /\ h.observed = size /\ h.seen = g.seen \union lines
  BY <1>3, <1>4, <1>5 DEF Generations, SamePlace
<1>8. Changes(k) /\ draft'[k] = h
  <2> HIDE DEF h
  <2> QED
    BY <1>2, <1>6, <1>7, ChangesOne
<1>9. looked' \in [gen : Nat, safe : BOOLEAN, stable : Nat] /\ looked'.gen = k
  <2>1. SafelyDrained(g, size) \in BOOLEAN
    BY DEF SafelyDrained
  <2>2. (IF size = g.observed THEN Min({2, g.stable + 1}) ELSE 1) \in Nat
    <3>1. g.stable + 1 \in Nat
      BY <1>3 DEF Generations
    <3> QED
      BY <3>1, MinTwo
  <2>3. looked' = [gen |-> k, safe |-> SafelyDrained(g, size),
                   stable |-> IF size = g.observed THEN Min({2, g.stable + 1}) ELSE 1]
    BY <1>1 DEF size
  <2> QED
    BY <1>3, <2>1, <2>2, <2>3
<1> HIDE DEF h
<1> QED
  BY <1>7, <1>8, <1>9, SMTT(30) DEF Looked, size, lines

\* A gap more, and nothing else.
Flagged(h, g) == SamePlace(h, g) /\ SameRead(h, g) /\ h.gaps # {}

LEMMA FlagShape ==
  ASSUME Types, NEW k \in DOMAIN draft, NEW reason \in Reasons, draft' = [draft EXCEPT ![k] = Gap(draft[k], reason)]
  PROVE  Changes(k) /\ Flagged(draft'[k], draft[k])
<1> DEFINE h == Gap(draft[k], reason)
<1>1. draft[k] \in Generations
  BY DEF Types, CycleTypes
<1>2. h \in Generations /\ SameRead(h, draft[k]) /\ h.gaps # {} /\ h.file = draft[k].file /\ h.closed = draft[k].closed
  BY <1>1, GapShape
<1> HIDE DEF h
<1>3. Changes(k) /\ draft'[k] = h
  <2>1. draft' = [draft EXCEPT ![k] = h]
    BY DEF h
  <2> QED
    BY <1>2, <2>1, ChangesOne
<1> QED
  BY <1>2, <1>3 DEF Flagged, SamePlace, SameRead

LEMMA ReadFailsShape ==
  ASSUME Types, StepInv, ReadFails
  PROVE  Changes(looked.gen) /\ Flagged(draft'[looked.gen], draft[looked.gen])
<1>1. looked.gen \in DOMAIN draft /\ "source-read-error" \in Reasons
  BY DEF Types, CycleTypes, StepInv, ReadFails, Reasons
<1>2. draft' = [draft EXCEPT ![looked.gen] = Gap(draft[looked.gen], "source-read-error")]
  BY <1>1 DEF ReadFails, Types, CycleTypes
<1> QED
  BY <1>1, <1>2, FlagShape

\* A read takes lines from the position on, as the batch, the size last seen
\* and the file allow; it ends a generation of a file no longer visible.
ReadsOn(h, g) ==
  LET lines == content[g.file] IN
  /\ h \in Generations
  /\ h.file = g.file /\ h.observed = g.observed /\ h.seen = g.seen /\ g.gaps \subseteq h.gaps
  /\ h.unnoticed = (g.unnoticed \/ Unseen(g))
  /\ batch > 0 => Matches(g, g.file)
  /\ g.offset <= h.offset /\ h.offset <= g.offset + batch
  /\ h.offset = g.offset \/ (h.offset <= g.observed /\ h.offset <= Len(lines))
  /\ h.first = IF h.offset \in DOMAIN lines THEN lines[1] ELSE 0
  /\ h.last = IF h.offset \in DOMAIN lines THEN lines[h.offset] ELSE 0
  /\ h.closed => g.file \notin visible /\ h.offset = g.observed
  /\ records' = records \o SubSeq(lines, g.offset + 1, h.offset)

LEMMA FinishedShape ==
  ASSUME NEW g \in Generations, ~g.closed
  PROVE  LET h == Finished(g) IN
         /\ h \in Generations
         /\ SameRead(h, g) /\ h.file = g.file
         /\ h.closed => g.file \notin visible /\ g.offset = g.observed
<1> DEFINE lost == held[g.file].active /\ ~looked.safe
           y == IF lost THEN Gap(g, "source-disappeared") ELSE g
           z == [y EXCEPT !.closed = TRUE]
<1>1. y \in Generations /\ SameRead(y, g) /\ y.file = g.file
  <2>1. CASE lost
    <3>1. y = Gap(g, "source-disappeared") /\ "source-disappeared" \in Reasons
      BY <2>1 DEF Reasons
    <3> QED
      BY <3>1, GapShape
  <2>2. CASE ~lost
    <3>1. y = g
      BY <2>2
    <3> QED
      BY <3>1 DEF SameRead
  <2> QED
    BY <2>1, <2>2
<1>2. Finished(g) = IF g.file \notin visible /\ g.offset = g.observed THEN z ELSE g
  BY DEF Finished
<1> HIDE DEF y
<1>3. z \in Generations /\ SameRead(z, y) /\ z.file = y.file
  BY <1>1 DEF Generations, SameRead
<1> HIDE DEF z
<1>4. CASE g.file \notin visible /\ g.offset = g.observed
  <2>1. SameRead(z, g)
    BY <1>1, <1>3 DEF SameRead
  <2> QED
    BY <1>1, <1>2, <1>3, <1>4, <2>1
<1>5. CASE ~ (g.file \notin visible /\ g.offset = g.observed)
  <2>1. Finished(g) = g
    BY <1>2, <1>5
  <2> QED
    BY <2>1 DEF SameRead
<1> QED
  BY <1>4, <1>5

LEMMA ReadShape ==
  ASSUME Types, StepInv, Read
  PROVE  LET k == looked.gen IN
         /\ Changes(k) /\ batch' \in Nat
         /\ \/ Flagged(draft'[k], draft[k]) /\ records' = records
            \/ ReadsOn(draft'[k], draft[k])
<1> DEFINE k == looked.gen
           g == draft[k]
           lines == content[g.file]
           until == Max({g.offset, Min({g.offset + batch, g.observed, Len(lines)})})
           a == [g EXCEPT !.offset = until, !.unnoticed = @ \/ Unseen(g)]
           h == Fingerprint(a)
           x == IF g.file \in visible THEN [h EXCEPT !.stable = looked.stable] ELSE h
<1>1. /\ draft \in Seq(Generations) /\ k \in DOMAIN draft /\ ~g.closed /\ batch \in Nat
      /\ looked.stable \in Nat
  BY DEF Types, CycleTypes, StepInv, Read
<1>2. g \in Generations /\ g.file \in Files /\ g.offset \in Nat /\ g.observed \in Nat /\ g.unnoticed \in BOOLEAN
  <2>1. g \in Generations
    BY <1>1
  <2> QED
    BY <2>1 DEF Generations
<1>3. lines \in Seq(Nat) /\ Len(lines) \in Nat /\ DOMAIN lines = 1..Len(lines)
  BY <1>2, LenProperties DEF Types, LogTypes
<1>4. /\ until \in Nat /\ g.offset <= until /\ until <= g.offset + batch
      /\ until = g.offset \/ (until <= g.observed /\ until <= Len(lines))
  <2> DEFINE o == g.offset  w == g.observed  l == Len(lines)
  <2>1. o \in Nat /\ w \in Nat /\ l \in Nat /\ batch \in Nat
    BY <1>1, <1>2, <1>3
  <2> HIDE DEF o, w, l
  <2>2. LET u == Max({o, Min({o + batch, w, l})}) IN
        /\ u \in Nat /\ o <= u /\ u <= o + batch
        /\ u = o \/ (u <= w /\ u <= l)
    BY ONLY <2>1, UntilBounds, Zenon
  <2> QED
    BY <2>2 DEF o, w, l
<1>5. \/ batch > 0 /\ ~Matches(g, g.file) /\ draft' = [draft EXCEPT ![k] = Gap(g, "source-changed-during-read")]
         /\ records' = records /\ batch' = batch
      \/ /\ batch > 0 => Matches(g, g.file)
         /\ draft' = [draft EXCEPT ![k] = Finished(x)]
         /\ records' = records \o SubSeq(lines, g.offset + 1, until)
         /\ batch' = batch - (until - g.offset)
  BY Zenon DEF Read
<1>6. CASE batch > 0 /\ ~Matches(g, g.file) /\ draft' = [draft EXCEPT ![k] = Gap(g, "source-changed-during-read")]
           /\ records' = records /\ batch' = batch
  <2>1. "source-changed-during-read" \in Reasons
    BY DEF Reasons
  <2>2. Changes(k) /\ Flagged(draft'[k], draft[k])
    BY <1>1, <1>6, <2>1, FlagShape
  <2> QED
    BY <1>1, <1>6, <2>2
<1>7. CASE /\ batch > 0 => Matches(g, g.file)
           /\ draft' = [draft EXCEPT ![k] = Finished(x)]
           /\ records' = records \o SubSeq(lines, g.offset + 1, until)
           /\ batch' = batch - (until - g.offset)
  <2> HIDE DEF until
  <2>1. (g.unnoticed \/ Unseen(g)) \in BOOLEAN
    BY <1>2
  <2> DEFINE u == g.unnoticed \/ Unseen(g)
             b == [g EXCEPT !.offset = until, !.unnoticed = u]
             has == until \in DOMAIN lines
             fst == IF has THEN lines[1] ELSE 0
             lst == IF has THEN lines[until] ELSE 0
             c == [b EXCEPT !.first = fst, !.last = lst]
             d == [c EXCEPT !.stable = looked.stable]
  <2>2. a = b
    BY <1>2 DEF Generations
  <2>3. fst \in Nat /\ lst \in Nat
    BY <1>3, <1>4, SMTT(30)
  <2>4. b.file = g.file /\ b.offset = until
    BY <1>2 DEF Generations
  <2>5. h = c
    BY <2>2, <2>4 DEF Fingerprint
  <2> HIDE DEF u, fst, lst
  <2>6. /\ c \in Generations /\ d \in Generations /\ ~c.closed /\ ~d.closed /\ c.file = g.file /\ d.file = g.file
        /\ c.offset = until /\ d.offset = until /\ c.observed = g.observed /\ d.observed = g.observed
        /\ c.seen = g.seen /\ d.seen = g.seen /\ c.gaps = g.gaps /\ d.gaps = g.gaps
        /\ c.unnoticed = u /\ d.unnoticed = u /\ c.first = fst /\ d.first = fst /\ c.last = lst /\ d.last = lst
    BY <1>1, <1>2, <1>4, <2>1, <2>3 DEF Generations, u
  <2>7. x = d \/ x = c
    BY <2>5
  <2> HIDE DEF c, d, x
  <2>8. /\ x \in Generations /\ ~x.closed /\ x.file = g.file /\ x.offset = until /\ x.observed = g.observed
        /\ x.seen = g.seen /\ x.gaps = g.gaps /\ x.unnoticed = u /\ x.first = fst /\ x.last = lst
    BY <2>6, <2>7
  <2> DEFINE z == Finished(x)
  <2>9. z \in Generations /\ SameRead(z, x) /\ z.file = x.file /\ (z.closed => x.file \notin visible /\ x.offset = x.observed)
    BY <2>8, FinishedShape
  <2> HIDE DEF z
  <2>10. Changes(k) /\ draft'[k] = z
    <3>1. draft' = [draft EXCEPT ![k] = z]
      BY <1>7 DEF z
    <3> QED
      BY <1>1, <2>9, <3>1, ChangesOne
  <2>11. ReadsOn(z, g)
    <3>1. /\ z.file = g.file /\ z.observed = g.observed /\ z.seen = g.seen /\ g.gaps \subseteq z.gaps
          /\ z.unnoticed = u /\ z.offset = until /\ z.first = fst /\ z.last = lst
          /\ (z.closed => g.file \notin visible /\ until = g.observed)
      BY <2>8, <2>9 DEF SameRead
    <3>2. records' = records \o SubSeq(lines, g.offset + 1, z.offset)
      BY <1>7, <3>1
    <3> HIDE DEF g, lines
    <3> QED
      BY <1>4, <1>7, <2>9, <3>1, <3>2, Zenon DEF ReadsOn, u, fst, lst, g, lines
  <2>12. batch' \in Nat
    <3> DEFINE o == g.offset
    <3>1. o \in Nat /\ until \in Nat /\ o <= until /\ until <= o + batch /\ batch' = batch - (until - o)
      BY <1>2, <1>4, <1>7
    <3> HIDE DEF o
    <3>2. until - o \in Nat /\ until - o <= batch
      BY <1>1, <3>1
    <3> QED
      BY <1>1, <3>1, <3>2, SMTT(30)
  <2> QED
    BY <2>10, <2>11, <2>12
<1> QED
  BY <1>5, <1>6, <1>7, Zenon

-------------------------------------------------------------------------------
(* The steps of the log.                                                   *)

LogNext == Write \/ Rotate \/ RemoveOldest \/ Copy \/ Truncate \/ Empty

\* What a step of the log does to a file there was.
Grown(f) ==
  \/ content'[f] = content[f]
  \/ content'[f] = <<>>
  \/ written' = written + 1 /\ content'[f] = Append(content[f], written + 1)

\* No file can be opened that could not be before, but an empty one or a copy.
Reachable(f) ==
  \/ Live(f)
  \/ content'[f] = <<>>
  \/ kind = "copytruncate" /\ ~copying /\ (SeenCopies \/ pc = "idle") /\ content'[f] = content[1]

LogEffect ==
  /\ UNCHANGED <<kind, stored, held, cycle>>
  /\ made <= made' /\ written <= written'
  /\ \A f \in Files : f <= made => Grown(f)
  /\ \A f \in Files : Live(f)' => Reachable(f)
  /\ \A f \in Files : content'[f] # <<>> => f <= made \/ (kind = "copytruncate" /\ content'[f] = content[1])
  /\ kind = "copytruncate" /\ pc # "idle" /\ ~SeenCopies =>
       \A n \in DOMAIN dir' : n \in DOMAIN dir /\ dir'[n] = dir[n]
  /\ copying' => copying \/ SeenCopies \/ pc = "idle"

LEMMA LogFacts ==
  ASSUME Types, LogInv
  PROVE  /\ dir[1] \in Files /\ dir[1] \in 1..made /\ made \in Files /\ written \in Nat /\ Len(dir) \in Nat
         /\ DOMAIN dir = 1..Len(dir) /\ 1 \in DOMAIN dir
         /\ \A f \in Files : f \in Nat /\ f >= 1 /\ content[f] \in Seq(Nat) /\ Len(content[f]) \in Nat
                             /\ DOMAIN content[f] = 1..Len(content[f])
                             /\ (content[f] # <<>> => 1 \in DOMAIN content[f] /\ Len(content[f]) \in DOMAIN content[f])
<1>1. MaxFiles \in Nat /\ made \in 1..MaxFiles
  BY CollectorAssumption DEF CollectorAssumption, Types, LogTypes, Files
<1>2. dir \in Seq(Files) /\ dir # <<>> /\ Len(dir) \in Nat /\ DOMAIN dir = 1..Len(dir)
  BY LenProperties DEF Types, LogTypes
<1>3. Len(dir) # 0
  BY <1>2, EmptySeq
<1>4. 1 \in DOMAIN dir
  BY <1>2, <1>3
<1>5. dir[1] \in Files /\ dir[1] <= made
  BY <1>2, <1>4 DEF LogInv
<1>6. \A f \in Files : f \in Nat /\ f >= 1
  BY <1>1 DEF Files
<1>7. ASSUME NEW f \in Files
      PROVE  content[f] \in Seq(Nat) /\ Len(content[f]) \in Nat
             /\ DOMAIN content[f] = 1..Len(content[f])
             /\ (content[f] # <<>> => 1 \in DOMAIN content[f] /\ Len(content[f]) \in DOMAIN content[f])
  <2>1. content[f] \in Seq(Nat)
    BY DEF Types, LogTypes
  <2>2. Len(content[f]) \in Nat /\ DOMAIN content[f] = 1..Len(content[f])
    BY <2>1, LenProperties
  <2>3. content[f] # <<>> => Len(content[f]) # 0
    BY <2>1, EmptySeq
  <2> QED
    BY <2>1, <2>2, <2>3
<1>8. written \in Nat /\ made \in Files /\ dir[1] \in 1..made
  <2>1. dir[1] \in Nat /\ dir[1] >= 1 /\ made \in Nat
    BY <1>1, <1>5, <1>6
  <2> QED
    BY <1>5, <2>1 DEF Types, LogTypes
<1> QED
  BY <1>2, <1>4, <1>5, <1>6, <1>7, <1>8

LEMMA AppendShape ==
  ASSUME NEW s \in Seq(Nat), NEW x \in Nat
  PROVE  LET a == Append(s, x) IN
         /\ a \in Seq(Nat) /\ Len(a) = Len(s) + 1 /\ DOMAIN a = 1..(Len(s) + 1) /\ a # <<>>
         /\ \A i \in 1..Len(s) : a[i] = s[i]
         /\ a[Len(s) + 1] = x
<1>1. /\ Append(s, x) \in Seq(Nat) /\ Len(Append(s, x)) = Len(s) + 1
      /\ \A i \in 1..Len(s) : Append(s, x)[i] = s[i]
      /\ Append(s, x)[Len(s) + 1] = x /\ Append(s, x) # <<>>
  BY AppendProperties
<1> QED
  BY <1>1, LenProperties

LEMMA WriteLog ==
  ASSUME Types, LogInv, Write
  PROVE  LogTypes' /\ LogInv' /\ LogEffect
<1> DEFINE c == dir[1]
           a == content[c]
           w == written + 1
           b == Append(a, w)
<1>1. /\ c \in Files /\ c \in 1..made /\ made \in Files /\ written \in Nat /\ Len(dir) \in Nat
      /\ DOMAIN dir = 1..Len(dir) /\ 1 \in DOMAIN dir
      /\ \A f \in Files : f \in Nat /\ f >= 1 /\ content[f] \in Seq(Nat) /\ Len(content[f]) \in Nat
                          /\ DOMAIN content[f] = 1..Len(content[f])
                          /\ (content[f] # <<>> => 1 \in DOMAIN content[f] /\ Len(content[f]) \in DOMAIN content[f])
  BY LogFacts
<1>2. a \in Seq(Nat) /\ Len(a) \in Nat /\ DOMAIN a = 1..Len(a) /\ made \in Nat /\ c <= made /\ w \in Nat
  BY <1>1
<1>3. /\ written' = w /\ content' = [content EXCEPT ![c] = b]
      /\ UNCHANGED <<dir, kind, copying, made, stored, held, cycle>>
  BY DEF Write, Append1
<1>4. content \in [Files -> Seq(Nat)]
  BY DEF Types, LogTypes
<1>5. \A f \in Files : \A i \in DOMAIN content[f] : content[f][i] = content[f][1] + i - 1 /\ content[f][i] \in 1..written
  BY DEF LogInv
<1>6. \A i \in DOMAIN a : a[i] = a[1] + i - 1 /\ a[i] \in 1..written /\ a[1] \in 1..written
  <2>1. c \in Files
    BY <1>1
  <2> HIDE DEF c
  <2>2. \A i \in DOMAIN a : a[i] = a[1] + i - 1 /\ a[i] \in 1..written
    BY <1>5, <2>1
  <2>3. \A i \in DOMAIN a : 1 \in DOMAIN a
    BY <1>2
  <2> QED
    BY <2>2, <2>3
<1>7. a # <<>> => Len(a) \in DOMAIN a /\ a[1] + Len(a) - 1 = written /\ a[1] \in 1..written
  BY <1>1, <1>2, <1>6 DEF LogInv
<1>8. w = written + 1 /\ a = content[c]
  OBVIOUS
<1> HIDE DEF a, w
<1>9. b \in Seq(Nat) /\ Len(b) = Len(a) + 1 /\ DOMAIN b = 1..(Len(a) + 1) /\ b # <<>>
      /\ (\A i \in 1..Len(a) : b[i] = a[i]) /\ b[Len(a) + 1] = w
  BY <1>2, AppendShape
<1> HIDE DEF b
<1>10. \A i \in DOMAIN b : \/ i \in DOMAIN a /\ b[i] = a[i]
                           \/ i = Len(a) + 1 /\ b[i] = w
  BY <1>2, <1>9
<1>11. \A i \in DOMAIN b : b[i] = b[1] + i - 1 /\ b[i] \in 1..w
  <2> TAKE i \in DOMAIN b
  <2>1. CASE a = <<>>
    <3>1. Len(a) = 0
      BY <2>1, EmptySeq
    <3>2. i = 1 /\ b[1] = w
      BY <1>9, <3>1
    <3>3. w \in 1..w /\ w = w + 1 - 1
      BY <1>1, <1>8
    <3> QED
      BY <3>2, <3>3
  <2>2. CASE a # <<>>
    <3>1. b[1] = a[1] /\ a[1] \in Nat
      BY <1>2, <1>7, <1>9, <2>2
    <3>2. CASE i \in DOMAIN a /\ b[i] = a[i]
      BY <1>1, <1>6, <1>8, <3>1, <3>2
    <3>3. CASE i = Len(a) + 1 /\ b[i] = w
      <4> DEFINE x == a[1]  l == Len(a)
      <4>1. x \in Nat /\ l \in Nat /\ x + l - 1 = written /\ b[1] = x /\ i = l + 1 /\ b[i] = w
        BY <1>2, <1>7, <2>2, <3>1, <3>3
      <4> HIDE DEF x, l
      <4>2. w = b[1] + i - 1
        BY <1>8, <4>1
      <4>3. w \in 1..w
        BY <1>1, <1>8
      <4> QED
        BY <4>1, <4>2, <4>3
    <3> QED
      BY <1>10, <3>2, <3>3
  <2> QED
    BY <2>1, <2>2
<1> HIDE DEF c
<1>12. content' \in [Files -> Seq(Nat)] /\ content'[c] = b /\ \A f \in Files : f # c => content'[f] = content[f]
  BY <1>1, <1>3, <1>4, <1>9
<1>13. LogTypes'
  BY <1>2, <1>3, <1>12 DEF Types, LogTypes
<1>14. \A f \in Files : \A i \in DOMAIN content'[f] :
         content'[f][i] = content'[f][1] + i - 1 /\ content'[f][i] \in 1..written'
  <2> TAKE f \in Files
  <2>1. CASE f = c
    BY <1>3, <1>11, <1>12, <2>1
  <2>2. CASE f # c
    <3>1. \A i \in DOMAIN content[f] : content[f][i] \in 1..w
      BY <1>1, <1>5, <1>8
    <3> QED
      BY <1>3, <1>5, <1>12, <2>2, <3>1
  <2> QED
    BY <2>1, <2>2
<1>15. \A e, f \in Files : \A i \in DOMAIN content'[e], j \in DOMAIN content'[f] :
         content'[e][i] = content'[f][j] => e = f \/ (copying /\ {e, f} \subseteq {dir[1], made})
  <2> SUFFICES ASSUME NEW e \in Files, NEW f \in Files, NEW i \in DOMAIN content'[e], NEW j \in DOMAIN content'[f],
                      content'[e][i] = content'[f][j]
               PROVE  e = f \/ (copying /\ {e, f} \subseteq {dir[1], made})
    OBVIOUS
  <2>1. ASSUME NEW x \in Files, NEW m \in DOMAIN content'[x]
        PROVE  \/ m \in DOMAIN content[x] /\ content'[x][m] = content[x][m] /\ content[x][m] # w
               \/ x = c /\ content'[x][m] = w
    <3>1. \A n \in DOMAIN content[x] : content[x][n] # w
      BY <1>1, <1>5, <1>8
    <3>2. CASE x = c
      BY <1>8, <1>10, <1>12, <3>1, <3>2
    <3>3. CASE x # c
      BY <1>12, <3>1, <3>3
    <3> QED
      BY <3>2, <3>3
  <2>2. \A x, y \in Files : \A m \in DOMAIN content[x], n \in DOMAIN content[y] :
         content[x][m] = content[y][n] => x = y \/ (copying /\ {x, y} \subseteq {dir[1], made})
    BY DEF LogInv
  <2>3. CASE content'[e][i] = w
    BY <2>1, <2>3
  <2>4. CASE content'[e][i] # w
    BY <2>1, <2>2, <2>4
  <2> QED
    BY <2>3, <2>4
<1>16. content'[c][Len(content'[c])] = written'
  BY <1>3, <1>9, <1>12
<1>17. \A f \in Files : f > made => content'[f] = <<>>
  <2> SUFFICES ASSUME NEW f \in Files, f > made
               PROVE  content'[f] = <<>>
    OBVIOUS
  <2>1. f # c
    BY <1>1, <1>2
  <2> QED
    BY <1>12, <2>1 DEF LogInv
<1>18. LogInv'
  BY <1>3, <1>14, <1>15, <1>16, <1>17 DEF LogInv, c
<1>19. LogEffect
  <2>1. \A f \in Files : Grown(f)
    BY <1>3, <1>8, <1>12 DEF Grown, b
  <2>2. \A f \in Files : Live(f)' => Reachable(f)
    BY <1>3 DEF Live, Reachable, stored, cycle
  <2>3. \A f \in Files : content'[f] # <<>> => f <= made
    <3>1. \A f \in Files : f > made \/ f <= made
      BY <1>1, <1>2 DEF Files
    <3> QED
      BY <1>17, <3>1, Zenon
  <2>4. made <= made' /\ written <= written'
    BY <1>1, <1>2, <1>3, <1>8
  <2> QED
    BY <1>3, <2>1, <2>2, <2>3, <2>4 DEF LogEffect
<1> QED
  BY <1>13, <1>18, <1>19

\* A sequence before another.
LEMMA PrependShape ==
  ASSUME NEW T, NEW x \in T, NEW s \in Seq(T)
  PROVE  LET p == <<x>> \o s IN
         /\ p \in Seq(T) /\ p # <<>> /\ p[1] = x
         /\ \A n \in DOMAIN p : n = 1 \/ (n - 1 \in DOMAIN s /\ p[n] = s[n - 1])
<1> DEFINE o == <<x>>
           p == o \o s
<1>1. o \in Seq(T) /\ Len(o) = 1 /\ o[1] = x
  OBVIOUS
<1> HIDE DEF o
<1>2. /\ p \in Seq(T) /\ Len(p) = Len(o) + Len(s)
      /\ \A i \in 1..(Len(o) + Len(s)) : p[i] = IF i <= Len(o) THEN o[i] ELSE s[i - Len(o)]
  BY <1>1, ConcatProperties
<1>3. Len(s) \in Nat /\ DOMAIN s = 1..Len(s) /\ DOMAIN p = 1..Len(p)
  BY <1>2, LenProperties
<1> HIDE DEF p
<1>4. Len(p) = 1 + Len(s) /\ \A i \in 1..(1 + Len(s)) : p[i] = IF i <= 1 THEN o[i] ELSE s[i - 1]
  BY <1>1, <1>2
<1>5. p[1] = x /\ p # <<>>
  <2>1. 1 \in DOMAIN p
    BY <1>3, <1>4
  <2> QED
    BY <1>1, <1>3, <1>4, <2>1
<1>6. \A n \in DOMAIN p : n = 1 \/ (n - 1 \in DOMAIN s /\ p[n] = s[n - 1])
  BY <1>3, <1>4
<1> QED
  BY <1>2, <1>5, <1>6 DEF p, o

LEMMA RotateLog ==
  ASSUME Types, LogInv, Rotate
  PROVE  LogTypes' /\ LogInv' /\ LogEffect
<1>1. /\ made \in Files /\ written \in Nat /\ DOMAIN dir = 1..Len(dir)
      /\ \A f \in Files : f \in Nat /\ f >= 1
  BY LogFacts
<1>2. PICK old \in {dir, <<>>} : dir' = <<made + 1>> \o old
  BY DEF Rotate
<1>3. /\ kind = "rename" /\ ~copying /\ made' = made + 1
      /\ UNCHANGED <<content, kind, copying, written, stored, held, cycle>>
  BY DEF Rotate, LogInv
<1>4. made + 1 \in Files /\ made \in Nat
  BY <1>1, CollectorAssumption DEF CollectorAssumption, Files, Rotate
<1>5. old \in Seq(Files) /\ \A n \in DOMAIN old : n \in DOMAIN dir /\ old[n] = dir[n]
  <2>1. CASE old = dir
    BY <2>1 DEF Types, LogTypes
  <2>2. CASE old = <<>>
    <3>1. <<>> \in Seq(Files) /\ DOMAIN <<>> = {}
      BY EmptySeq
    <3> QED
      BY <2>2, <3>1
  <2> QED
    BY <2>1, <2>2
<1> DEFINE x == made + 1
<1>6. x \in Files
  BY <1>4
<1>7. /\ dir' \in Seq(Files) /\ dir' # <<>> /\ dir'[1] = x
      /\ \A n \in DOMAIN dir' : n = 1 \/ (n - 1 \in DOMAIN old /\ dir'[n] = old[n - 1])
  <2> HIDE DEF x
  <2>1. dir' = <<x>> \o old
    BY <1>2 DEF x
  <2> QED
    BY <1>5, <1>6, <2>1, PrependShape
<1>8. \A n \in DOMAIN dir' : dir'[n] = made + 1 \/ \E m \in DOMAIN dir : dir'[n] = dir[m]
  BY <1>5, <1>7
<1>9. content[made + 1] = <<>>
  BY <1>4 DEF LogInv
<1>10. LogTypes'
  BY <1>3, <1>4, <1>7 DEF Types, LogTypes
<1>11. LogInv'
  <2>1. \A n \in DOMAIN dir' : dir'[n] <= made'
    <3>1. \A m \in DOMAIN dir : dir[m] <= made /\ dir[m] \in Nat
      <4>1. dir \in Seq(Files)
        BY DEF Types, LogTypes
      <4> QED
        BY <1>1, <4>1 DEF LogInv
    <3> QED
      BY <1>3, <1>4, <1>8, <3>1
  <2>2. \A f \in Files : f > made' => content'[f] = <<>>
    BY <1>1, <1>3, <1>4 DEF LogInv
  <2>3. \A f \in Files : \A i \in DOMAIN content'[f] :
          content'[f][i] = content'[f][1] + i - 1 /\ content'[f][i] \in 1..written'
    BY <1>3 DEF LogInv
  <2>4. \A e, f \in Files : \A i \in DOMAIN content'[e], j \in DOMAIN content'[f] : content'[e][i] = content'[f][j] => e = f
    BY <1>3 DEF LogInv
  <2>5. content'[dir'[1]] = <<>>
    BY <1>3, <1>7, <1>9
  <2> QED
    BY <1>3, <2>1, <2>2, <2>3, <2>4, <2>5 DEF LogInv
<1>12. LogEffect
  <2>1. \A f \in Files : Grown(f)
    BY <1>3 DEF Grown
  <2>2. \A f \in Files : Live(f)' => Reachable(f)
    <3> SUFFICES ASSUME NEW f \in Files, Live(f)'
                 PROVE  Live(f) \/ content'[f] = <<>>
      BY DEF Reachable
    <3>1. CASE f \in DOMAIN held
      BY <3>1 DEF Live
    <3>2. CASE f \notin DOMAIN held
      <4>1. PICK n \in DOMAIN dir' : dir'[n] = f
        BY <1>3, <3>2 DEF Live
      <4> QED
        BY <1>3, <1>8, <1>9, <4>1 DEF Live
    <3> QED
      BY <3>1, <3>2
  <2>3. \A f \in Files : content'[f] # <<>> => f <= made
    BY <1>1, <1>3, <1>4 DEF LogInv
  <2>4. made <= made' /\ written <= written'
    BY <1>1, <1>3, <1>4
  <2> QED
    BY <1>3, <2>1, <2>2, <2>3, <2>4 DEF LogEffect
<1> QED
  BY <1>10, <1>11, <1>12

LEMMA RemoveLog ==
  ASSUME Types, LogInv, RemoveOldest
  PROVE  LogTypes' /\ LogInv' /\ LogEffect
<1>1. /\ made \in Files /\ written \in Nat /\ Len(dir) \in Nat /\ DOMAIN dir = 1..Len(dir)
      /\ \A f \in Files : f \in Nat /\ f >= 1
  BY LogFacts
<1>2. /\ ~copying /\ Len(dir) > 1 /\ dir' = SubSeq(dir, 1, Len(dir) - 1)
      /\ UNCHANGED <<content, kind, copying, made, written, stored, held, cycle>>
  BY DEF RemoveOldest, Front
<1> DEFINE m == Len(dir) - 1
<1>3. m \in Nat /\ 0 <= m /\ m <= Len(dir) /\ m >= 1
  BY <1>1, <1>2
<1>4. dir' = SubSeq(dir, 0 + 1, m)
  BY <1>2
<1>5. dir \in Seq(Files)
  BY DEF Types, LogTypes
<1> HIDE DEF m
<1>6. dir' \in Seq(Files) /\ Len(dir') = m - 0 /\ \A i \in 1..(m - 0) : dir'[i] = dir[0 + i]
  BY <1>3, <1>4, <1>5, PartOf
<1>7. DOMAIN dir' = 1..m /\ dir' # <<>>
  <2>1. Len(dir') = m /\ m # 0
    BY <1>3, <1>6
  <2> QED
    BY <1>6, <2>1, LenProperties, EmptySeq
<1>8. \A n \in DOMAIN dir' : n \in DOMAIN dir /\ dir'[n] = dir[n]
  BY <1>1, <1>3, <1>6, <1>7
<1>9. dir'[1] = dir[1]
  BY <1>3, <1>7, <1>8
<1>10. LogTypes'
  BY <1>2, <1>6, <1>7 DEF Types, LogTypes
<1>11. LogInv'
  BY <1>2, <1>8, <1>9 DEF LogInv
<1>12. LogEffect
  <2>1. \A f \in Files : Grown(f)
    BY <1>2 DEF Grown
  <2>2. \A f \in Files : Live(f)' => Reachable(f)
    BY <1>2, <1>8 DEF Live, Reachable
  <2>3. \A f \in Files : content'[f] # <<>> => f <= made
    BY <1>1, <1>2 DEF LogInv
  <2>4. made <= made' /\ written <= written'
    BY <1>1, <1>2
  <2> QED
    BY <1>2, <1>8, <2>1, <2>2, <2>3, <2>4 DEF LogEffect
<1> QED
  BY <1>10, <1>11, <1>12

\* The log loses its lines: its copy was made, or someone emptied it.
LEMMA EmptiedLog ==
  ASSUME Types, LogInv, Truncate \/ Empty
  PROVE  LogTypes' /\ LogInv' /\ LogEffect
<1> DEFINE c == dir[1]
<1>1. /\ made \in Files /\ made \in Nat /\ written \in Nat /\ c \in Files /\ c \in 1..made
      /\ \A f \in Files : f \in Nat /\ f >= 1
  BY LogFacts
<1>2. /\ content' = [content EXCEPT ![c] = <<>>] /\ copying' = FALSE
      /\ UNCHANGED <<dir, kind, made, written, stored, held, cycle>>
      /\ copying \in BOOLEAN
  BY DEF Truncate, Empty, Types, LogTypes
<1> HIDE DEF c
<1>3. content \in [Files -> Seq(Nat)]
  BY DEF Types, LogTypes
<1>4. content' \in [Files -> Seq(Nat)] /\ content'[c] = <<>> /\ \A f \in Files : f # c => content'[f] = content[f]
  BY <1>1, <1>2, <1>3
<1>5. \A f \in Files : content'[f] = content[f] \/ content'[f] = <<>>
  BY <1>4
<1>6. \A f \in Files : \A i : i \in DOMAIN content'[f] => f # c /\ i \in DOMAIN content[f] /\ content'[f] = content[f]
  BY <1>4
<1>7. LogTypes'
  BY <1>2, <1>4 DEF Types, LogTypes
<1>8. LogInv'
  <2>1. \A n \in DOMAIN dir' : dir'[n] <= made'
    BY <1>2 DEF LogInv
  <2>2. \A f \in Files : f > made' => content'[f] = <<>>
    BY <1>2, <1>5 DEF LogInv
  <2>3. \A f \in Files : \A i \in DOMAIN content'[f] :
          content'[f][i] = content'[f][1] + i - 1 /\ content'[f][i] \in 1..written'
    BY <1>2, <1>6 DEF LogInv
  <2>4. \A e, f \in Files : \A i \in DOMAIN content'[e], j \in DOMAIN content'[f] : content'[e][i] = content'[f][j] => e = f
    <3> SUFFICES ASSUME NEW e \in Files, NEW f \in Files, NEW i \in DOMAIN content'[e], NEW j \in DOMAIN content'[f],
                        content'[e][i] = content'[f][j]
                 PROVE  e = f
      OBVIOUS
    <3>1. e # c /\ f # c /\ content'[e] = content[e] /\ content'[f] = content[f]
      BY <1>6
    <3>2. e = f \/ (copying /\ {e, f} \subseteq {dir[1], made})
      BY <3>1 DEF LogInv
    <3> QED
      BY <3>1, <3>2 DEF c
  <2>5. content'[dir'[1]] = <<>>
    BY <1>2, <1>4 DEF c
  <2> QED
    BY <1>2, <2>1, <2>2, <2>3, <2>4, <2>5 DEF LogInv
<1>9. LogEffect
  <2>1. \A f \in Files : Grown(f)
    BY <1>5 DEF Grown
  <2>2. \A f \in Files : Live(f)' => Reachable(f)
    BY <1>2 DEF Live, Reachable
  <2>3. \A f \in Files : content'[f] # <<>> => f <= made
    BY <1>1, <1>5 DEF LogInv
  <2>4. made <= made' /\ written <= written'
    BY <1>1, <1>2
  <2> QED
    BY <1>2, <2>1, <2>2, <2>3, <2>4 DEF LogEffect
<1> QED
  BY <1>7, <1>8, <1>9

LEMMA CopyLog ==
  ASSUME Types, LogInv, Copy
  PROVE  LogTypes' /\ LogInv' /\ LogEffect
<1> DEFINE x == made + 1
           r == <<x>> \o Tail(dir)
<1>1. /\ made \in Files /\ made \in Nat /\ written \in Nat /\ 1 \in Files /\ 1 <= made /\ dir[1] = 1
      /\ DOMAIN dir = 1..Len(dir) /\ Len(dir) \in Nat
      /\ \A f \in Files : f \in Nat /\ f >= 1
  <2>1. dir[1] = 1
    BY DEF LogInv, Copy
  <2> QED
    BY <2>1, LogFacts
<1>2. /\ kind = "copytruncate" /\ ~copying /\ made' = x /\ copying' = TRUE
      /\ SeenCopies \/ pc = "idle"
      /\ content' = [content EXCEPT ![x] = content[1]]
      /\ UNCHANGED <<kind, written, stored, held, cycle>>
  BY <1>1 DEF Copy
<1>3. x \in Files /\ x # 1 /\ x > made /\ ~ (x <= made)
  BY <1>1, CollectorAssumption DEF CollectorAssumption, Files, Copy
<1>4. content \in [Files -> Seq(Nat)] /\ dir \in Seq(Files) /\ dir # <<>>
  BY DEF Types, LogTypes
<1>5. Tail(dir) \in Seq(Files) /\ \A n \in DOMAIN Tail(dir) : n + 1 \in DOMAIN dir /\ Tail(dir)[n] = dir[n + 1]
  <2>1. Tail(dir) \in Seq(Files) /\ Len(Tail(dir)) = Len(dir) - 1 /\ \A i \in 1..Len(Tail(dir)) : Tail(dir)[i] = dir[i + 1]
    BY <1>4, HeadTailProperties
  <2>2. DOMAIN Tail(dir) = 1..Len(Tail(dir))
    BY <2>1, LenProperties
  <2> QED
    BY <1>1, <2>1, <2>2
<1> HIDE DEF x
<1>6. /\ r \in Seq(Files)
      /\ \A n \in DOMAIN r : r[n] = x \/ \E m \in DOMAIN dir : r[n] = dir[m]
  <2>1. r \in Seq(Files) /\ r[1] = x /\ \A n \in DOMAIN r : n = 1 \/ (n - 1 \in DOMAIN Tail(dir) /\ r[n] = Tail(dir)[n - 1])
    BY <1>3, <1>5, PrependShape
  <2> QED
    BY <1>5, <2>1
<1>7. dir' = <<1>> \o r
  <2>1. dir' = <<1, x>> \o Tail(dir)
    BY <1>1 DEF Copy, x
  <2>2. <<1, x>> = <<1>> \o <<x>>
    OBVIOUS
  <2>3. <<1>> \in Seq(Files) /\ <<x>> \in Seq(Files)
    BY <1>1, <1>3
  <2>4. (<<1>> \o <<x>>) \o Tail(dir) = <<1>> \o (<<x>> \o Tail(dir))
    BY <1>5, <2>3, ConcatAssociative
  <2> QED
    BY <2>1, <2>2, <2>4
<1> HIDE DEF r
<1>8. /\ dir' \in Seq(Files) /\ dir' # <<>> /\ dir'[1] = 1
      /\ \A n \in DOMAIN dir' : n = 1 \/ (n - 1 \in DOMAIN r /\ dir'[n] = r[n - 1])
  BY <1>1, <1>6, <1>7, PrependShape
<1>9. \A n \in DOMAIN dir' : dir'[n] = x \/ dir'[n] = dir[1] \/ \E m \in DOMAIN dir : dir'[n] = dir[m]
  BY <1>1, <1>6, <1>8
<1>10. content' \in [Files -> Seq(Nat)] /\ content'[x] = content[1] /\ \A f \in Files : f # x => content'[f] = content[f]
  BY <1>1, <1>2, <1>3, <1>4
<1>11. \A f \in Files : content'[f] = content[f] \/ (f = x /\ content'[f] = content[1])
  BY <1>10
<1>12. LogTypes'
  BY <1>2, <1>3, <1>8, <1>10 DEF Types, LogTypes
<1>13. LogInv'
  <2>1. \A n \in DOMAIN dir' : dir'[n] <= made'
    <3>1. \A m \in DOMAIN dir : dir[m] <= made /\ dir[m] \in Nat
      <4> TAKE m \in DOMAIN dir
      <4>1. dir[m] \in Files
        BY <1>4
      <4> QED
        BY <1>1, <4>1 DEF LogInv
    <3>2. \A y \in Nat : y <= made => y <= x
      BY <1>1 DEF x
    <3>3. 1 <= x /\ x <= x
      BY <1>1 DEF x
    <3> QED
      BY <1>1, <1>2, <1>9, <3>1, <3>2, <3>3
  <2>2. \A f \in Files : f > made' => content'[f] = <<>>
    <3> SUFFICES ASSUME NEW f \in Files, f > x
                 PROVE  content'[f] = <<>>
      BY <1>2
    <3>1. f # x /\ f > made
      BY <1>1 DEF x
    <3> QED
      BY <1>10, <3>1 DEF LogInv
  <2>3. \A f \in Files : \A i \in DOMAIN content'[f] :
          content'[f][i] = content'[f][1] + i - 1 /\ content'[f][i] \in 1..written'
    BY <1>1, <1>2, <1>11 DEF LogInv
  <2>4. \A e, f \in Files : \A i \in DOMAIN content'[e], j \in DOMAIN content'[f] :
          content'[e][i] = content'[f][j] => e = f \/ {e, f} \subseteq {1, x}
    <3> SUFFICES ASSUME NEW e \in Files, NEW f \in Files, NEW i \in DOMAIN content'[e], NEW j \in DOMAIN content'[f],
                        content'[e][i] = content'[f][j]
                 PROVE  e = f \/ {e, f} \subseteq {1, x}
      OBVIOUS
    <3>1. \A a, b \in Files : \A m \in DOMAIN content[a], n \in DOMAIN content[b] : content[a][m] = content[b][n] => a = b
      BY <1>2 DEF LogInv
    <3>2. PICK a \in {e, 1} : content'[e] = content[a] /\ (a = e \/ e = x)
      BY <1>11
    <3>3. PICK b \in {f, 1} : content'[f] = content[b] /\ (b = f \/ f = x)
      BY <1>11
    <3>4. a = b
      BY <1>1, <3>1, <3>2, <3>3
    <3> QED
      BY <3>2, <3>3, <3>4
  <2>5. content'[dir'[1]] = content[dir[1]]
    BY <1>1, <1>3, <1>8, <1>10
  <2>6. content'[dir'[1]] # <<>> => content'[dir'[1]][Len(content'[dir'[1]])] = written'
    BY <1>2, <2>5 DEF LogInv
  <2> QED
    BY <1>2, <1>8, <2>1, <2>2, <2>3, <2>4, <2>6 DEF LogInv
<1>14. LogEffect
  <2>1. \A f \in Files : f <= made => Grown(f)
    BY <1>3, <1>10 DEF Grown
  <2>2. \A f \in Files : Live(f)' => Reachable(f)
    <3> SUFFICES ASSUME NEW f \in Files, Live(f)', f # x
                 PROVE  Live(f)
      BY <1>2, <1>10 DEF Reachable
    <3>1. CASE f \in DOMAIN held
      BY <3>1 DEF Live
    <3>2. CASE f \notin DOMAIN held
      <4>1. PICK n \in DOMAIN dir' : dir'[n] = f
        BY <1>2, <3>2 DEF Live
      <4>2. 1 \in DOMAIN dir
        BY LogFacts
      <4> QED
        BY <1>9, <4>1, <4>2 DEF Live
    <3> QED
      BY <3>1, <3>2
  <2>3. \A f \in Files : content'[f] # <<>> => f <= made \/ content'[f] = content[1]
    BY <1>1, <1>11 DEF LogInv
  <2>4. made <= made' /\ written <= written'
    BY <1>1, <1>2 DEF x
  <2> QED
    BY <1>2, <2>1, <2>2, <2>3, <2>4 DEF LogEffect
<1> QED
  BY <1>12, <1>13, <1>14

LEMMA LogStep ==
  ASSUME Types, LogInv, LogNext
  PROVE  LogTypes' /\ LogInv' /\ LogEffect
BY WriteLog, RotateLog, RemoveLog, EmptiedLog, CopyLog DEF LogNext

\* A file that begins with the first line of a generation began with it before,
\* and has kept its lines.
LEMMA GrownTakes ==
  ASSUME Types, LogInv, NEW g \in Generations, g.offset > 0 => g.first <= written,
         NEW f \in Files, Grown(f), Takes(g, f)'
  PROVE  /\ Takes(g, f)
         /\ Len(content[f]) <= Len(content'[f])
         /\ \A i \in DOMAIN content[f] : i \in DOMAIN content'[f] /\ content'[f][i] = content[f][i]
<1> DEFINE a == content[f]
           b == content'[f]
           w == written + 1
<1>1. a \in Seq(Nat) /\ Len(a) \in Nat /\ DOMAIN a = 1..Len(a) /\ written \in Nat
  BY LogFacts
<1>2. g.offset > 0 /\ b # <<>> /\ b[1] = g.first /\ g.first <= written /\ g.first \in Nat
  BY DEF Takes, Generations
<1>3. CASE b = a
  BY <1>1, <1>2, <1>3 DEF Takes
<1>4. CASE b = Append(a, w)
  <2>1. w \in Nat /\ w # g.first
    BY <1>1, <1>2
  <2> HIDE DEF a, w
  <2> DEFINE c == Append(a, w)
  <2>2. /\ c \in Seq(Nat) /\ Len(c) = Len(a) + 1 /\ DOMAIN c = 1..(Len(a) + 1)
        /\ (\A i \in 1..Len(a) : c[i] = a[i]) /\ c[Len(a) + 1] = w
    BY <1>1, <2>1, AppendShape
  <2> HIDE DEF c
  <2>3. Len(a) # 0
    <3> SUFFICES ASSUME Len(a) = 0
                 PROVE  FALSE
      OBVIOUS
    <3>1. c[1] = w
      BY <2>2
    <3> QED
      BY <1>2, <1>4, <2>1, <3>1 DEF c
  <2>4. b = c
    BY <1>4 DEF c
  <2>5. 1 \in 1..Len(a) /\ Len(a) <= Len(a) + 1 /\ \A i \in 1..Len(a) : i \in 1..(Len(a) + 1)
    BY <1>1, <2>3
  <2>6. a[1] = g.first /\ a # <<>>
    <3>1. a[1] = b[1]
      BY <2>2, <2>4, <2>5
    <3>2. a # <<>>
      BY <2>3
    <3> QED
      BY <1>2, <3>1, <3>2
  <2>7. Len(a) <= Len(b) /\ \A i \in DOMAIN a : i \in DOMAIN b /\ b[i] = a[i]
    BY <1>1, <2>2, <2>4, <2>5
  <2> QED
    BY <1>2, <2>6, <2>7 DEF Takes, a
<1> QED
  BY <1>2, <1>3, <1>4 DEF Grown

LEMMA LogPrinted ==
  ASSUME Types, LogInv, LogTypes', LogEffect, NEW g \in Generations, Printed(g)
  PROVE  Printed(g)'
<1> DEFINE f == g.file
           o == g.offset
<1>1. f \in Files /\ o \in Nat /\ g.first \in Nat /\ g.seen \subseteq Nat
  BY DEF Generations
<1>2. f \in Nat /\ f <= made /\ made \in Nat /\ written \in Nat /\ made' \in Nat /\ written' \in Nat
  <2>1. made' \in Nat
    BY CollectorAssumption DEF CollectorAssumption, LogTypes, Files
  <2> QED
    BY <1>1, <2>1, LogFacts DEF Printed, LogTypes
<1>3. made <= made' /\ written <= written' /\ Grown(f)
  BY <1>1, <1>2 DEF LogEffect
<1>4. f <= made' /\ g.seen \subseteq 1..written' /\ (o > 0 => g.first <= written')
  BY <1>1, <1>2, <1>3 DEF Printed
<1>5. ASSUME o > 0, Takes(g, f)'
      PROVE  Len(content'[f]) >= o /\ content'[f][o] = g.last
  <2>1. Takes(g, f) /\ Len(content[f]) <= Len(content'[f])
        /\ \A i \in DOMAIN content[f] : i \in DOMAIN content'[f] /\ content'[f][i] = content[f][i]
    BY <1>1, <1>3, <1>5, GrownTakes DEF Printed
  <2>2. Len(content[f]) >= o /\ content[f][o] = g.last
    BY <1>5, <2>1 DEF Printed
  <2>3. Len(content[f]) \in Nat /\ Len(content'[f]) \in Nat /\ DOMAIN content[f] = 1..Len(content[f])
    <3>1. content'[f] \in Seq(Nat)
      BY <1>1 DEF LogTypes
    <3> QED
      BY <1>1, <3>1, LogFacts, LenProperties
  <2>4. o \in DOMAIN content[f]
    BY <1>1, <1>5, <2>2, <2>3
  <2> HIDE DEF f, o
  <2> QED
    BY <1>1, <2>1, <2>2, <2>3, <2>4
<1> QED
  BY <1>4, <1>5 DEF Printed

LEMMA BaseLog ==
  ASSUME BaseInv, LogNext
  PROVE  BaseInv' /\ LogEffect
<1>1. Types /\ LogInv /\ StepInv /\ GenInv(gens) /\ GenInv(draft)
  BY DEF BaseInv
<1>2. LogTypes' /\ LogInv' /\ LogEffect
  BY <1>1, LogStep
<1>3. UNCHANGED <<gens, archived, held, pc, names, visible, draft, unread, work, looked, records, batch>>
  BY <1>2 DEF LogEffect, stored, cycle
<1>4. faults' \in Nat
  BY <1>1 DEF LogNext, Write, Rotate, RemoveOldest, Copy, Truncate, Empty, Types, CycleTypes
<1>5. Types'
  BY <1>1, <1>2, <1>3, <1>4 DEF Types, CycleTypes
<1>6. StepInv'
  <2>1. \A f \in 1..made : f \in 1..made'
    BY <1>1, <1>2, LogFacts, CollectorAssumption DEF LogEffect, LogTypes, Files, CollectorAssumption
  <2> QED
    BY <1>1, <1>3, <2>1 DEF StepInv
<1>7. \A k \in DOMAIN gens : gens[k] \in Generations
  BY <1>1 DEF Types, CycleTypes
<1>8. \A k \in DOMAIN draft : draft[k] \in Generations
  BY <1>1 DEF Types, CycleTypes
<1>9. GenInv(gens)'
  <2>1. \A k \in DOMAIN gens : Printed(gens[k])'
    BY <1>1, <1>2, <1>3, <1>7, LogPrinted DEF GenInv
  <2> QED
    BY <1>3, <2>1 DEF GenInv
<1>10. GenInv(draft)'
  <2>1. \A k \in DOMAIN draft : Printed(draft[k])'
    BY <1>1, <1>2, <1>3, <1>8, LogPrinted DEF GenInv
  <2> QED
    BY <1>3, <2>1 DEF GenInv
<1> QED
  BY <1>2, <1>5, <1>6, <1>9, <1>10 DEF BaseInv

-------------------------------------------------------------------------------
(* The steps of the cycle keep the base invariant.                         *)

CycleNext == Begin \/ Open \/ Match \/ Stat \/ Read \/ ReadFails \/ Commit \/ Restart

LEMMA CycleLogs ==
  ASSUME Types, LogInv, CycleNext
  PROVE  UNCHANGED logs /\ LogTypes' /\ LogInv'
<1>1. UNCHANGED logs
  BY Zenon DEF CycleNext, Begin, Open, Match, Stat, Read, ReadFails, Commit, Restart
<1>2. UNCHANGED <<content, dir, kind, copying, made, written>>
  BY <1>1 DEF logs
<1>3. LogTypes'
  BY <1>2 DEF Types, LogTypes
<1>4. LogInv'
  BY <1>2 DEF LogInv
<1> QED
  BY <1>1, <1>3, <1>4, Zenon

LEMMA GensPrinted ==
  ASSUME UNCHANGED logs, \A k \in DOMAIN gens' : Printed(gens'[k])
  PROVE  GenInv(gens)'
BY DEF GenInv, Printed, Takes, logs

LEMMA DraftPrinted ==
  ASSUME UNCHANGED logs, \A k \in DOMAIN draft' : Printed(draft'[k])
  PROVE  GenInv(draft)'
BY DEF GenInv, Printed, Takes, logs

LEMMA BaseBegin ==
  ASSUME BaseInv, Begin
  PROVE  BaseInv'
<1>1. Types /\ LogInv /\ StepInv /\ GenInv(gens) /\ GenInv(draft)
  BY DEF BaseInv
<1>2. UNCHANGED logs /\ LogTypes' /\ LogInv'
  BY <1>1, CycleLogs DEF CycleNext
<1>3. /\ pc' = "open" /\ names' = DOMAIN dir /\ visible' = {} /\ draft' = gens /\ records' = <<>> /\ work' = {} /\ unread' = {}
      /\ batch' \in 0..MaxBatch /\ UNCHANGED <<gens, archived, held, looked, faults>>
  BY DEF Begin, stored
<1>4. names' \subseteq Nat \ {0} /\ batch' \in Nat /\ records' \in Seq(Nat)
  <2>1. DOMAIN dir \subseteq Nat \ {0}
    BY <1>1, LogFacts
  <2>2. <<>> \in Seq(Nat)
    BY EmptySeq
  <2> QED
    BY <1>3, <2>1, <2>2, CollectorAssumption DEF CollectorAssumption
<1>5. Types'
  <2>1. CycleTypes'
    BY <1>1, <1>3, <1>4 DEF Types, CycleTypes
  <2> QED
    BY <1>2, <2>1 DEF Types
<1>6. StepInv'
  BY <1>1, <1>2, <1>3 DEF StepInv, logs
<1>7. GenInv(gens)' /\ GenInv(draft)'
  <2>1. \A k \in DOMAIN gens : Printed(gens[k])
    BY <1>1 DEF GenInv
  <2> QED
    BY <1>2, <1>3, <2>1, GensPrinted, DraftPrinted
<1> QED
  BY <1>2, <1>5, <1>6, <1>7 DEF BaseInv

\* What the two lists of generations of the steps after that are.
LEMMA BaseGens ==
  ASSUME GenInv(gens), UNCHANGED logs, UNCHANGED gens
  PROVE  GenInv(gens)'
<1>1. \A k \in DOMAIN gens : Printed(gens[k])
  BY DEF GenInv
<1> QED
  BY <1>1, GensPrinted

LEMMA BaseOpen ==
  ASSUME BaseInv, Open
  PROVE  BaseInv'
<1>1. Types /\ LogInv /\ StepInv /\ GenInv(gens) /\ GenInv(draft)
  BY DEF BaseInv
<1>2. UNCHANGED logs /\ LogTypes' /\ LogInv'
  BY <1>1, CycleLogs DEF CycleNext
<1>3. PICK n \in names :
        /\ names' = names \ {n}
        /\ IF n \in DOMAIN dir
           THEN /\ visible' = visible \union {dir[n]}
                /\ held' = [f \in DOMAIN held \union {dir[n]} |->
                              IF f = dir[n] THEN [active |-> n = 1, rotation |-> n] ELSE held[f]]
           ELSE UNCHANGED <<visible, held>>
  BY DEF Open
<1>4. /\ pc = "open" /\ UNCHANGED <<gens, archived, pc, draft, unread, work, looked, records, batch, faults>>
  BY DEF Open, stored
<1>5. n \in Nat /\ names' \subseteq Nat \ {0}
  BY <1>1, <1>3 DEF Types, CycleTypes
<1>6. /\ visible' \subseteq Files /\ DOMAIN held' \subseteq Files /\ DOMAIN held' \subseteq 1..made
      /\ held' \in [DOMAIN held' -> [active : BOOLEAN, rotation : Nat]]
  <2>1. CASE n \in DOMAIN dir
    <3> DEFINE x == dir[n]
    <3>1. x \in Files
      BY <1>1, <2>1 DEF Types, LogTypes
    <3>2. x \in 1..made
      <4>1. x <= made /\ x \in Nat /\ x >= 1 /\ made \in Nat
        BY <1>1, <2>1, <3>1, LogFacts DEF LogInv
      <4> QED
        BY <4>1
    <3> DEFINE e == [active |-> n = 1, rotation |-> n]
    <3>3. e \in [active : BOOLEAN, rotation : Nat]
      BY <1>5
    <3>4. /\ visible' = visible \union {x}
          /\ held' = [f \in DOMAIN held \union {x} |-> IF f = x THEN e ELSE held[f]]
      BY <1>3, <2>1
    <3> HIDE DEF x, e
    <3> QED
      BY <1>1, <3>1, <3>2, <3>3, <3>4 DEF Types, CycleTypes, StepInv
  <2>2. CASE n \notin DOMAIN dir
    BY <1>1, <1>3, <2>2 DEF Types, CycleTypes, StepInv
  <2> QED
    BY <2>1, <2>2
<1>7. Types'
  <2>1. CycleTypes'
    BY <1>1, <1>4, <1>5, <1>6 DEF Types, CycleTypes
  <2> QED
    BY <1>2, <2>1 DEF Types
<1>8. StepInv'
  BY <1>1, <1>2, <1>4, <1>6 DEF StepInv, logs
<1>9. GenInv(draft)'
  <2>1. \A k \in DOMAIN draft : Printed(draft[k])
    BY <1>1 DEF GenInv
  <2> QED
    BY <1>2, <1>4, <2>1, DraftPrinted
<1> QED
  BY <1>1, <1>2, <1>4, <1>7, <1>8, <1>9, BaseGens DEF BaseInv

LEMMA BaseMatch ==
  ASSUME BaseInv, Match
  PROVE  BaseInv'
<1>1. Types /\ LogInv /\ StepInv /\ GenInv(gens) /\ GenInv(draft)
  BY DEF BaseInv
<1>2. UNCHANGED logs /\ LogTypes' /\ LogInv'
  BY <1>1, CycleLogs DEF CycleNext
<1>3. pc' = "stat" /\ UNCHANGED <<gens, archived, held, names, visible, looked, records, batch>>
  BY DEF Match, stored
<1>4. unread' \subseteq Files /\ faults' \in Nat
  <2>1. Probed(draft) \subseteq Files
    BY <1>1 DEF Probed, Types, CycleTypes
  <2> QED
    BY <1>1, <2>1 DEF Match, Types, CycleTypes
<1>5. /\ draft' \in Seq(Generations) /\ work' \subseteq DOMAIN draft'
      /\ \A k \in DOMAIN draft : Rests(k) \/ Goes(k) \/ Stops(k)
      /\ \A k \in DOMAIN draft' : k \notin DOMAIN draft => Starts(k)
  BY <1>1, MatchShape
<1>6. Types'
  <2>1. CycleTypes'
    BY <1>1, <1>3, <1>4, <1>5 DEF Types, CycleTypes
  <2> QED
    BY <1>2, <2>1 DEF Types
<1>7. ASSUME NEW k \in work'
      PROVE  ~draft'[k].closed /\ draft'[k].file \in DOMAIN held
  <2>1. CASE k \in DOMAIN draft
    BY <1>5, <1>7, <2>1 DEF Rests, Goes, Stops, CopiedTo
  <2>2. CASE k \notin DOMAIN draft
    BY <1>5, <1>7, <2>2 DEF Starts, NewGeneration
  <2> QED
    BY <2>1, <2>2
<1>8. StepInv'
  BY <1>1, <1>2, <1>3, <1>7 DEF StepInv, logs
<1>9. ASSUME NEW k \in DOMAIN draft'
      PROVE  Printed(draft'[k])
  <2>1. CASE k \in DOMAIN draft /\ Rests(k)
    BY <1>1, <2>1 DEF Rests, GenInv
  <2>2. CASE k \in DOMAIN draft /\ Goes(k)
    <3> DEFINE g == draft[k]  h == draft'[k]
    <3>1. /\ Printed(g) /\ SameRead(h, g) /\ Matches(g, h.file)
          /\ h.file \in DOMAIN held
      BY <1>1, <2>2 DEF Goes, GenInv, CopiedTo
    <3>2. h.file <= made
      BY <1>1, <3>1, LogFacts DEF StepInv
    <3> QED
      BY <3>1, <3>2 DEF Printed, SameRead, Matches
  <2>3. CASE k \in DOMAIN draft /\ Stops(k)
    <3>1. Printed(draft[k]) /\ SameRead(draft'[k], draft[k]) /\ draft'[k].file = draft[k].file
      BY <1>1, <2>3 DEF Stops, GenInv, EndedAs
    <3> QED
      BY <3>1 DEF Printed, SameRead, Takes
  <2>4. CASE k \notin DOMAIN draft
    <3>1. PICK f \in DOMAIN held : draft'[k] = NewGeneration(f)
      BY <1>5, <2>4 DEF Starts
    <3>2. f <= made
      BY <1>1, LogFacts DEF StepInv
    <3> QED
      BY <3>1, <3>2 DEF Printed, NewGeneration
  <2> QED
    BY <1>5, <2>1, <2>2, <2>3, <2>4
<1> QED
  BY <1>1, <1>2, <1>3, <1>6, <1>8, <1>9, BaseGens, DraftPrinted DEF BaseInv

\* A step that changes one generation and leaves the others.
LEMMA ChangePrinted ==
  ASSUME GenInv(draft), UNCHANGED logs, NEW k, Changes(k), Printed(draft'[k])
  PROVE  GenInv(draft)'
<1>1. \A j \in DOMAIN draft' : Printed(draft'[j])
  BY DEF Changes, GenInv
<1> QED
  BY <1>1, DraftPrinted

LEMMA BaseStat ==
  ASSUME BaseInv, Stat
  PROVE  BaseInv'
<1> DEFINE k == looked'.gen
           g == draft[k]
           h == draft'[k]
<1>1. Types /\ LogInv /\ StepInv /\ GenInv(gens) /\ GenInv(draft)
  BY DEF BaseInv
<1>2. UNCHANGED logs /\ LogTypes' /\ LogInv'
  BY <1>1, CycleLogs DEF CycleNext
<1>3. pc = "stat" /\ pc' = "read" /\ UNCHANGED <<gens, archived, held, names, visible, unread, work, records, batch, faults>>
  BY DEF Stat, stored
<1>4. k \in work /\ looked' \in [gen : Nat, safe : BOOLEAN, stable : Nat] /\ Changes(k) /\ Looked(h, g)
  BY <1>1, StatShape
<1>5. Types'
  <2>1. CycleTypes'
    BY <1>1, <1>3, <1>4 DEF Types, CycleTypes, Changes
  <2> QED
    BY <1>2, <2>1 DEF Types
<1>6. StepInv'
  <2>1. \A j \in work : ~draft'[j].closed /\ draft'[j].file \in DOMAIN held
    <3> TAKE j \in work
    <3>1. ~draft[j].closed /\ draft[j].file \in DOMAIN held /\ j \in DOMAIN draft
      BY <1>1, <1>3 DEF StepInv, Types, CycleTypes
    <3> QED
      BY <1>4, <3>1 DEF Changes, Looked, SamePlace
  <2> QED
    BY <1>1, <1>2, <1>3, <1>4, <2>1 DEF StepInv, logs
<1>7. Printed(h)
  <2>1. Printed(g) /\ g \in Generations
    BY <1>1, <1>4 DEF GenInv, Changes, Types, CycleTypes
  <2>2. h.seen \subseteq 1..written
    <3>1. g.file \in Files
      BY <2>1 DEF Generations
    <3>2. ToSet(content[g.file]) \subseteq 1..written
      BY <1>1, <3>1 DEF LogInv, ToSet
    <3> QED
      BY <1>4, <2>1, <3>2 DEF Looked, Printed
  <2> QED
    BY <1>4, <2>1, <2>2 DEF Printed, Takes, Looked, SamePlace
<1> QED
  BY <1>1, <1>2, <1>3, <1>4, <1>5, <1>6, <1>7, BaseGens, ChangePrinted DEF BaseInv

\* The next generation may be looked at when one was read or given up.
LEMMA BaseNext ==
  ASSUME BaseInv, Read \/ ReadFails, NEW k, k = looked.gen, Changes(k), Printed(draft'[k]),
         records' \in Seq(Nat), batch' \in Nat
  PROVE  BaseInv'
<1>1. Types /\ LogInv /\ StepInv /\ GenInv(gens) /\ GenInv(draft)
  BY DEF BaseInv
<1>2. UNCHANGED logs /\ LogTypes' /\ LogInv'
  BY <1>1, CycleLogs DEF CycleNext
<1>3. pc = "read" /\ pc' = "stat" /\ work' = work \ {k} /\ faults' \in Nat
      /\ UNCHANGED <<gens, archived, held, names, visible, unread, looked>>
  <2>1. CASE Read
    BY <1>1, <2>1, Zenon DEF Read, stored, Types, CycleTypes
  <2>2. CASE ReadFails
    <3>1. faults' \in Nat
      BY <1>1, <2>2 DEF ReadFails, Types, CycleTypes
    <3> QED
      BY <2>2, <3>1 DEF ReadFails, stored
  <2> QED
    BY <2>1, <2>2, Zenon
<1>4. Types'
  <2>1. CycleTypes'
    BY <1>1, <1>3 DEF Types, CycleTypes, Changes
  <2> QED
    BY <1>2, <2>1 DEF Types
<1>5. StepInv'
  <2>1. \A j \in work' : ~draft'[j].closed /\ draft'[j].file \in DOMAIN held
    BY <1>1, <1>3 DEF StepInv, Types, CycleTypes, Changes
  <2> QED
    BY <1>1, <1>2, <1>3, <2>1 DEF StepInv, logs
<1> QED
  BY <1>1, <1>2, <1>3, <1>4, <1>5, BaseGens, ChangePrinted DEF BaseInv

LEMMA FlaggedPrinted ==
  ASSUME NEW g, NEW h, Flagged(h, g), Printed(g)
  PROVE  Printed(h)
BY DEF Flagged, SamePlace, SameRead, Printed, Takes

\* Where a read leaves a generation: its fingerprint is that of the file.
LEMMA ReadsOnPrint ==
  ASSUME BaseInv, NEW g \in Generations, Printed(g), NEW h, ReadsOn(h, g), h.offset > 0, Takes(h, g.file)
  PROVE  /\ h.offset \in DOMAIN content[g.file] /\ h.first = content[g.file][1]
         /\ h.last = content[g.file][h.offset]
<1>1. Types /\ LogInv
  BY DEF BaseInv
<1>2. g.file \in Files
  BY DEF Generations
<1>3. content[g.file] # <<>> => 1 \in DOMAIN content[g.file] /\ content[g.file][1] \in 1..written /\ written \in Nat
  BY <1>1, <1>2, LogFacts DEF LogInv
<1>4. h.first # 0
  BY <1>3 DEF Takes
<1> QED
  BY <1>4 DEF ReadsOn

LEMMA ReadsOnPrinted ==
  ASSUME BaseInv, NEW g \in Generations, Printed(g), NEW h, ReadsOn(h, g)
  PROVE  Printed(h)
<1> DEFINE lines == content[g.file]
<1>1. Types /\ LogInv
  BY DEF BaseInv
<1>2. g.file \in Files /\ h.file = g.file /\ h.seen = g.seen /\ h.offset \in Nat
  BY DEF Generations, ReadsOn
<1>3. DOMAIN lines = 1..Len(lines) /\ Len(lines) \in Nat /\ written \in Nat
      /\ (lines # <<>> => 1 \in DOMAIN lines) /\ \A i \in DOMAIN lines : lines[i] \in 1..written
  BY <1>1, <1>2, LogFacts DEF LogInv
<1>4. h.offset > 0 => h.first <= written
  <2>1. CASE h.offset \in DOMAIN lines
    <3>1. 1 \in DOMAIN lines
      BY <1>3, <2>1
    <3> QED
      BY <1>3, <2>1, <3>1 DEF ReadsOn
  <2>2. CASE h.offset \notin DOMAIN lines
    BY <1>3, <2>2 DEF ReadsOn
  <2> QED
    BY <2>1, <2>2
<1>5. ASSUME h.offset > 0, Takes(h, g.file)
      PROVE  Len(lines) >= h.offset /\ lines[h.offset] = h.last
  <2>1. h.offset \in DOMAIN lines /\ h.last = lines[h.offset]
    BY <1>5, ReadsOnPrint
  <2> QED
    BY <1>2, <1>3, <2>1
<1> QED
  BY <1>2, <1>4, <1>5 DEF Printed

LEMMA BaseRead ==
  ASSUME BaseInv, Read
  PROVE  BaseInv'
<1> DEFINE k == looked.gen
           g == draft[k]
           h == draft'[k]
<1>1. Types /\ StepInv /\ GenInv(draft)
  BY DEF BaseInv
<1>2. Changes(k) /\ batch' \in Nat
      /\ \/ Flagged(h, g) /\ records' = records
         \/ ReadsOn(h, g)
  BY <1>1, ReadShape
<1>3. k \in DOMAIN draft /\ g \in Generations /\ Printed(g)
  BY <1>1, <1>2 DEF Changes, Types, CycleTypes, GenInv
<1>4. CASE Flagged(h, g) /\ records' = records
  <2>1. Printed(h) /\ records' \in Seq(Nat)
    BY <1>1, <1>3, <1>4, FlaggedPrinted DEF Types, CycleTypes
  <2> QED
    BY <1>2, <2>1, BaseNext
<1>5. CASE ReadsOn(h, g)
  <2>1. Printed(h)
    BY <1>3, <1>5, ReadsOnPrinted
  <2>2. records' \in Seq(Nat)
    <3> DEFINE lines == content[g.file]
               a == g.offset
               b == h.offset
               p == SubSeq(lines, a + 1, b)
    <3>1. lines \in Seq(Nat) /\ a \in Nat /\ records \in Seq(Nat)
      BY <1>1, <1>3, Zenon DEF Generations, Types, LogTypes, CycleTypes
    <3>2. b \in Nat /\ a <= b /\ (b = a \/ b <= Len(lines)) /\ records' = records \o p
      BY <1>5, Zenon DEF ReadsOn, Generations
    <3> HIDE DEF lines, a, b
    <3>3. p \in Seq(Nat)
      BY <3>1, <3>2, PartOf
    <3> HIDE DEF p
    <3> QED
      BY <3>1, <3>2, <3>3, ConcatProperties
  <2> QED
    BY <1>2, <2>1, <2>2, BaseNext
<1> QED
  BY <1>2, <1>4, <1>5

LEMMA BaseReadFails ==
  ASSUME BaseInv, ReadFails
  PROVE  BaseInv'
<1>1. Types /\ StepInv /\ GenInv(draft)
  BY DEF BaseInv
<1>2. Changes(looked.gen) /\ Flagged(draft'[looked.gen], draft[looked.gen])
  BY <1>1, ReadFailsShape
<1>3. Printed(draft'[looked.gen])
  BY <1>1, <1>2, FlaggedPrinted DEF Changes, GenInv
<1>4. records' \in Seq(Nat) /\ batch' \in Nat
  BY <1>1 DEF ReadFails, Types, CycleTypes
<1> QED
  BY <1>2, <1>3, <1>4, BaseNext

LEMMA RestedTypes ==
  ASSUME Rested
  PROVE  /\ names' \subseteq Nat \ {0} /\ visible' \subseteq Files /\ unread' \subseteq Files
         /\ draft' \in Seq(Generations) /\ records' \in Seq(Nat) /\ work' \subseteq DOMAIN draft'
         /\ looked' \in [gen : Nat, safe : BOOLEAN, stable : Nat] /\ batch' \in Nat
         /\ DOMAIN draft' = {}
<1>1. <<>> \in Seq(Generations) /\ <<>> \in Seq(Nat) /\ DOMAIN <<>> = {}
  BY EmptySeq
<1> QED
  BY <1>1 DEF Rested

LEMMA BaseCommit ==
  ASSUME BaseInv, Commit
  PROVE  BaseInv'
<1>1. Types /\ LogInv /\ StepInv /\ GenInv(gens) /\ GenInv(draft)
  BY DEF BaseInv
<1>2. UNCHANGED logs /\ LogTypes' /\ LogInv'
  BY <1>1, CycleLogs DEF CycleNext
<1>3. gens' = draft /\ archived' = archived \o records /\ pc' = "idle" /\ Rested /\ UNCHANGED faults
  BY DEF Commit
<1>4. /\ DOMAIN held' \subseteq DOMAIN held /\ held' \in [DOMAIN held' -> [active : BOOLEAN, rotation : Nat]]
  <2> DEFINE S == {f \in DOMAIN held : f \in visible \/ Pending(draft, f)}
  <2>1. held' = [f \in S |-> held[f]] /\ S \subseteq DOMAIN held
    BY DEF Commit, Restrict
  <2> HIDE DEF S
  <2>2. held \in [DOMAIN held -> [active : BOOLEAN, rotation : Nat]]
    BY <1>1 DEF Types, CycleTypes
  <2> QED
    BY <2>1, <2>2
<1>5. archived' \in Seq(Nat)
  BY <1>1, <1>3, ConcatProperties DEF Types, CycleTypes
<1>6. Types'
  <2>1. CycleTypes'
    BY <1>1, <1>3, <1>4, <1>5, RestedTypes DEF Types, CycleTypes
  <2> QED
    BY <1>2, <2>1 DEF Types
<1>7. StepInv'
  BY <1>1, <1>2, <1>3, <1>4 DEF StepInv, logs
<1>8. GenInv(gens)' /\ GenInv(draft)'
  <2>1. \A k \in DOMAIN draft : Printed(draft[k])
    BY <1>1 DEF GenInv
  <2> QED
    BY <1>2, <1>3, <2>1, RestedTypes, GensPrinted, DraftPrinted
<1> QED
  BY <1>2, <1>6, <1>7, <1>8 DEF BaseInv

LEMMA BaseRestart ==
  ASSUME BaseInv, Restart
  PROVE  BaseInv'
<1>1. Types /\ LogInv /\ StepInv /\ GenInv(gens)
  BY DEF BaseInv
<1>2. UNCHANGED logs /\ LogTypes' /\ LogInv'
  BY <1>1, CycleLogs DEF CycleNext
<1>3. held' = <<>> /\ pc' = "idle" /\ Rested /\ UNCHANGED <<gens, archived>> /\ faults' \in Nat
  BY <1>1 DEF Restart, stored, Types, CycleTypes
<1>4. DOMAIN held' = {} /\ held' \in [DOMAIN held' -> [active : BOOLEAN, rotation : Nat]]
  BY <1>3
<1>5. Types'
  <2>1. CycleTypes'
    BY <1>1, <1>3, <1>4, RestedTypes DEF Types, CycleTypes
  <2> QED
    BY <1>2, <2>1 DEF Types
<1>6. StepInv'
  BY <1>3, <1>4 DEF StepInv
<1> QED
  BY <1>1, <1>2, <1>3, <1>5, <1>6, RestedTypes, BaseGens, DraftPrinted DEF BaseInv

LEMMA BaseStutter ==
  ASSUME BaseInv, UNCHANGED vars
  PROVE  BaseInv'
<1>1. UNCHANGED logs /\ UNCHANGED <<gens, archived, held, pc, names, visible, draft, unread, work, looked, records, batch, faults>>
  BY DEF vars, stored, cycle
<1>2. UNCHANGED <<content, dir, kind, copying, made, written>>
  BY <1>1 DEF logs
<1>3. Types /\ LogInv /\ StepInv /\ GenInv(gens) /\ GenInv(draft)
  BY DEF BaseInv
<1>4. LogTypes' /\ CycleTypes'
  BY <1>1, <1>2, <1>3 DEF Types, LogTypes, CycleTypes
<1>5. LogInv'
  BY <1>2, <1>3 DEF LogInv
<1>6. StepInv'
  BY <1>1, <1>2, <1>3 DEF StepInv
<1>7. GenInv(gens)' /\ GenInv(draft)'
  <2>1. (\A k \in DOMAIN gens : Printed(gens[k])) /\ \A k \in DOMAIN draft : Printed(draft[k])
    BY <1>3 DEF GenInv
  <2> QED
    BY <1>1, <2>1, GensPrinted, DraftPrinted
<1> QED
  BY <1>4, <1>5, <1>6, <1>7 DEF BaseInv, Types

LEMMA BaseInit ==
  ASSUME Init
  PROVE  BaseInv
<1>1. 1 \in Files /\ <<>> \in Seq(Nat) /\ <<>> \in Seq(Generations) /\ DOMAIN <<>> = {} /\ MaxFiles \in Nat
  BY CollectorAssumption, EmptySeq DEF Files, CollectorAssumption
<1>2. LogTypes
  <2>1. dir \in Seq(Files) /\ dir # <<>>
    BY <1>1 DEF Init
  <2> QED
    BY <1>1, <2>1 DEF Init, LogTypes
<1>3. CycleTypes
  <2>1. gens = <<>> /\ archived = <<>> /\ draft = <<>> /\ records = <<>> /\ held = <<>> /\ DOMAIN held = {}
    BY DEF Init
  <2>2. held \in [DOMAIN held -> [active : BOOLEAN, rotation : Nat]]
    BY <2>1
  <2> QED
    BY <1>1, <2>1, <2>2 DEF Init, CycleTypes
<1>4. LogInv
  <2>1. DOMAIN dir = {1} /\ dir[1] = 1 /\ made = 1 /\ ~copying
    BY DEF Init
  <2>2. \A f \in Files : content[f] = <<>> /\ DOMAIN content[f] = {}
    BY <1>1 DEF Init
  <2> QED
    BY <1>1, <2>1, <2>2 DEF LogInv
<1>5. StepInv /\ GenInv(gens) /\ GenInv(draft)
  BY <1>1 DEF Init, StepInv, GenInv
<1> QED
  BY <1>2, <1>3, <1>4, <1>5 DEF BaseInv, Types

\* Logs, generations and steps stay as they should be, whatever happens to the log
\* and to the archiver.
THEOREM BaseInvariant == Spec => []BaseInv
<1>1. Init => BaseInv
  BY BaseInit
<1>2. BaseInv /\ [Next]_vars => BaseInv'
  BY BaseLog, BaseBegin, BaseOpen, BaseMatch, BaseStat, BaseRead, BaseReadFails, BaseCommit, BaseRestart, BaseStutter
     DEF Next, LogNext
<1> QED
  BY <1>1, <1>2, PTL DEF Spec

-------------------------------------------------------------------------------
(* What was seen is accounted for.                                         *)

LEMMA HonestMore ==
  ASSUME NEW g, NEW lines, NEW more, NEW looking, Honest(g, lines, looking), ToSet(lines) \subseteq ToSet(more)
  PROVE  Honest(g, more, looking)
BY DEF Honest

\* A line of a file after a step of the log was there before, or is new.
LEMMA GrownBack ==
  ASSUME Types, LogInv, NEW f \in Files, Grown(f), NEW i \in DOMAIN content'[f]
  PROVE  (i \in DOMAIN content[f] /\ content'[f][i] = content[f][i]) \/ content'[f][i] = written + 1
<1> DEFINE a == content[f]
           w == written + 1
<1>1. a \in Seq(Nat) /\ Len(a) \in Nat /\ DOMAIN a = 1..Len(a) /\ w \in Nat
  BY LogFacts
<1>2. CASE content'[f] = Append(a, w)
  <2> HIDE DEF a, w
  <2> DEFINE c == Append(a, w)
  <2>1. DOMAIN c = 1..(Len(a) + 1) /\ (\A j \in 1..Len(a) : c[j] = a[j]) /\ c[Len(a) + 1] = w
    BY <1>1, AppendShape
  <2> HIDE DEF c
  <2>2. i \in 1..(Len(a) + 1) /\ content'[f][i] = c[i]
    BY <1>2, <2>1 DEF c
  <2>3. (i \in 1..Len(a) /\ c[i] = a[i]) \/ c[i] = w
    BY <1>1, <2>1, <2>2
  <2> QED
    BY <1>1, <2>2, <2>3 DEF a, w
<1>3. CASE content'[f] = a
  BY <1>3
<1>4. CASE content'[f] = <<>>
  <2>1. DOMAIN content'[f] = {}
    BY <1>4
  <2> QED
    BY <2>1
<1> QED
  BY <1>2, <1>3, <1>4 DEF Grown

LEMMA HonestGrown ==
  ASSUME Types, LogInv, LogEffect, NEW g \in Generations, Printed(g), NEW lines, NEW looking, Honest(g, lines, looking)
  PROVE  Honest(g, lines, looking)'
<1> DEFINE f == g.file
           o == g.offset
<1>1. f \in Files /\ o \in Nat
  BY DEF Generations
<1>2. Grown(f)
  BY <1>1 DEF LogEffect, Printed
<1>3. ASSUME Takes(g, f)'
      PROVE  /\ o > 0 /\ Takes(g, f)
             /\ \A i \in DOMAIN content[f] : i \in DOMAIN content'[f] /\ content'[f][i] = content[f][i]
             /\ \A i \in 1..o : content'[f][i] = content[f][i]
  <2>1. /\ Takes(g, f)
        /\ \A i \in DOMAIN content[f] : i \in DOMAIN content'[f] /\ content'[f][i] = content[f][i]
    BY <1>1, <1>2, <1>3, GrownTakes DEF Printed
  <2>2. o > 0 /\ Len(content[f]) >= o
    BY <2>1 DEF Printed, Takes
  <2>3. Len(content[f]) \in Nat /\ DOMAIN content[f] = 1..Len(content[f])
    BY <1>1, LogFacts
  <2>4. \A i \in 1..o : i \in DOMAIN content[f]
    BY <1>1, <2>2, <2>3
  <2> QED
    BY <2>1, <2>2, <2>4
<1>4. CASE g.unnoticed \/ g.gaps # {}
  BY <1>4 DEF Honest
<1>5. CASE ~ (g.unnoticed \/ g.gaps # {})
  <2>1. Takes(g, f)' => \A i \in 1..o : content'[f][i] \in ToSet(lines)
    BY <1>3, <1>5 DEF Honest
  <2>2. \A line \in g.seen : \/ line \in ToSet(lines)
                             \/ ~g.closed /\ (o = 0 \/ line \in ToSet(content'[f]) \/ ~(Takes(g, f)'))
    <3> TAKE line \in g.seen
    <3>1. CASE line \in ToSet(content[f]) /\ Takes(g, f)'
      <4>1. line \in ToSet(content'[f])
        BY <1>3, <3>1 DEF ToSet
      <4> QED
        BY <1>5, <4>1 DEF Honest
    <3>2. CASE ~ (line \in ToSet(content[f]) /\ Takes(g, f)')
      BY <1>3, <1>5, <3>2 DEF Honest
    <3> QED
      BY <3>1, <3>2
  <2>3. g.observed <= o /\ ~looking => g.seen \subseteq ToSet(lines)
    BY <1>5 DEF Honest
  <2> QED
    BY <2>1, <2>2, <2>3 DEF Honest
<1> QED
  BY <1>4, <1>5

LEMMA SeenLog ==
  ASSUME BaseInv, SeenInv, LogNext
  PROVE  SeenInv'
<1>1. Types /\ LogInv /\ StepInv /\ GenInv(gens) /\ GenInv(draft)
  BY DEF BaseInv
<1>2. LogEffect
  BY BaseLog
<1>3. UNCHANGED <<gens, archived, pc, draft, looked, records>>
  BY <1>2 DEF LogEffect, stored, cycle
<1>4. \A k \in DOMAIN gens : gens[k] \in Generations /\ Printed(gens[k])
  BY <1>1 DEF Types, CycleTypes, GenInv
<1>5. \A k \in DOMAIN draft : draft[k] \in Generations /\ Printed(draft[k])
  BY <1>1 DEF Types, CycleTypes, GenInv
<1>6. \A k \in DOMAIN gens : Honest(gens[k], archived, FALSE)'
  BY <1>1, <1>2, <1>3, <1>4, HonestGrown DEF SeenInv
<1>7. ASSUME pc \in {"stat", "read"}, NEW k \in DOMAIN draft
      PROVE  Honest(draft[k], archived \o records, pc = "read" /\ k = looked.gen)'
  <2>1. Honest(draft[k], archived \o records, pc = "read" /\ k = looked.gen)
    BY <1>7 DEF SeenInv
  <2> QED
    BY <1>1, <1>2, <1>3, <1>5, <2>1, HonestGrown
<1>8. ASSUME pc = "read"
      PROVE  LET g == draft[looked.gen] IN \A i \in DOMAIN content'[g.file] : content'[g.file][i] \in g.seen => i <= g.observed
  <2> DEFINE g == draft[looked.gen]
             f == g.file
  <2>1. looked.gen \in DOMAIN draft
    BY <1>1, <1>8 DEF StepInv, Types, CycleTypes
  <2>2. g \in Generations /\ Printed(g)
    BY <1>5, <2>1
  <2>3. f \in Files /\ Grown(f) /\ written \in Nat /\ g.seen \subseteq 1..written
    BY <1>1, <1>2, <2>2, LogFacts DEF LogEffect, Printed, Generations
  <2>4. written + 1 \notin g.seen
    BY <2>3
  <2> HIDE DEF f
  <2>5. \A i \in DOMAIN content'[f] : content'[f][i] = written + 1 \/ (i \in DOMAIN content[f] /\ content'[f][i] = content[f][i])
    BY <1>1, <2>3, GrownBack
  <2>6. \A i \in DOMAIN content[f] : content[f][i] \in g.seen => i <= g.observed
    BY <1>8 DEF SeenInv, f
  <2> QED
    BY <2>4, <2>5, <2>6 DEF f
<1> QED
  BY <1>3, <1>6, <1>7, <1>8 DEF SeenInv

\* The parts of the invariant after a step of the cycle.
LEMMA GensHonest ==
  ASSUME UNCHANGED logs, \A k \in DOMAIN gens' : Honest(gens'[k], archived', FALSE)
  PROVE  (\A k \in DOMAIN gens : Honest(gens[k], archived, FALSE))'
BY DEF Honest, Takes, logs

LEMMA DraftHonest ==
  ASSUME UNCHANGED logs,
         \A k \in DOMAIN draft' : Honest(draft'[k], archived' \o records', pc' = "read" /\ k = looked'.gen)
  PROVE  (\A k \in DOMAIN draft : Honest(draft[k], archived \o records, pc = "read" /\ k = looked.gen))'
BY DEF Honest, Takes, logs

LEMMA KeptHonest ==
  ASSUME SeenInv, UNCHANGED logs, UNCHANGED <<gens, archived>>
  PROVE  (\A k \in DOMAIN gens : Honest(gens[k], archived, FALSE))'
BY GensHonest DEF SeenInv

\* Begin, Open, Restart: the checkpoint is all there is.
LEMMA SeenAway ==
  ASSUME BaseInv, SeenInv, CycleNext, UNCHANGED <<gens, archived>>, pc' \notin {"stat", "read"}
  PROVE  SeenInv'
<1>1. UNCHANGED logs
  BY CycleLogs DEF BaseInv
<1>2. pc' # "stat" /\ pc' # "read"
  OBVIOUS
<1> QED
  BY <1>1, <1>2, KeptHonest DEF SeenInv

LEMMA SeenMatch ==
  ASSUME BaseInv, SeenInv, Match
  PROVE  SeenInv'
<1>1. Types /\ LogInv /\ StepInv
  BY DEF BaseInv
<1>2. UNCHANGED logs
  BY <1>1, CycleLogs DEF CycleNext
<1>3. pc = "open" /\ pc' = "stat" /\ UNCHANGED <<gens, archived, records>>
  BY DEF Match, stored
<1>4. draft = gens /\ archived' \o records' = archived
  <2>1. draft = gens /\ records = <<>> /\ archived \in Seq(Nat)
    BY <1>1, <1>3 DEF StepInv, Types, CycleTypes
  <2> QED
    BY <1>3, <2>1, ConcatEmptySeq
<1>5. /\ \A k \in DOMAIN draft : Rests(k) \/ Goes(k) \/ Stops(k)
      /\ \A k \in DOMAIN draft' : k \notin DOMAIN draft => Starts(k)
  BY <1>1, MatchShape
<1>6. ASSUME NEW k \in DOMAIN draft'
      PROVE  Honest(draft'[k], archived, FALSE)
  <2> DEFINE g == draft[k]
             h == draft'[k]
  <2>1. CASE k \in DOMAIN draft /\ Rests(k)
    BY <1>4, <2>1 DEF Rests, SeenInv
  <2>2. CASE k \in DOMAIN draft /\ Goes(k)
    <3>1. h.gaps # {}
      BY <2>2 DEF Goes, CopiedTo
    <3> QED
      BY <3>1 DEF Honest
  <2>3. CASE k \in DOMAIN draft /\ Stops(k)
    <3>1. SameRead(h, g) /\ h.file = g.file /\ (Lossy(g) => h.gaps # {}) /\ Honest(g, archived, FALSE)
      BY <1>4, <2>3 DEF Stops, EndedAs, SeenInv
    <3>2. CASE h.unnoticed \/ h.gaps # {}
      BY <3>2 DEF Honest
    <3>3. CASE ~ (h.unnoticed \/ h.gaps # {})
      <4>1. ~Lossy(g) /\ ~g.unnoticed /\ g.gaps = {}
        BY <3>1, <3>3 DEF SameRead
      <4>2. g \in Generations
        BY <1>1, <2>3 DEF Types, CycleTypes
      <4>3. g.offset \in Nat /\ g.observed \in Nat
        BY <4>2 DEF Generations
      <4>4. g.observed <= g.offset
        BY <4>1, <4>3 DEF Lossy
      <4>5. g.seen \subseteq ToSet(archived)
        BY <3>1, <4>1, <4>4 DEF Honest
      <4>6. Takes(g, g.file) => \A i \in 1..g.offset : content[g.file][i] \in ToSet(archived)
        BY <3>1, <4>1 DEF Honest
      <4> QED
        BY <3>1, <4>5, <4>6 DEF Honest, SameRead, Takes
    <3> QED
      BY <3>2, <3>3
  <2>4. CASE k \notin DOMAIN draft
    <3>1. PICK f \in DOMAIN held : h = NewGeneration(f)
      BY <1>5, <2>4 DEF Starts
    <3>2. h.offset = 0 /\ h.seen = {}
      BY <3>1 DEF NewGeneration
    <3> QED
      BY <3>2 DEF Honest, Takes
  <2> QED
    BY <1>5, <2>1, <2>2, <2>3, <2>4
<1>7. \A k \in DOMAIN draft' : Honest(draft'[k], archived' \o records', pc' = "read" /\ k = looked'.gen)
  <2>1. \A k \in DOMAIN draft' : ~ (pc' = "read" /\ k = looked'.gen)
    BY <1>3
  <2> QED
    BY <1>4, <1>6, <2>1 DEF Honest
<1> QED
  BY <1>2, <1>3, <1>7, KeptHonest, DraftHonest DEF SeenInv

LEMMA SeenStat ==
  ASSUME BaseInv, SeenInv, Stat
  PROVE  SeenInv'
<1> DEFINE k == looked'.gen
           g == draft[k]
           h == draft'[k]
           lines == archived \o records
<1>1. Types /\ LogInv /\ StepInv
  BY DEF BaseInv
<1>2. UNCHANGED logs
  BY <1>1, CycleLogs DEF CycleNext
<1>3. pc = "stat" /\ pc' = "read" /\ UNCHANGED <<gens, archived, records>>
  BY DEF Stat, stored
<1>4. k \in work /\ Changes(k) /\ Looked(h, g)
  BY <1>1, StatShape
<1>5. ~g.closed /\ g \in Generations /\ g.file \in Files
  <2>1. ~g.closed /\ g \in Generations
    BY <1>1, <1>3, <1>4 DEF StepInv, Types, CycleTypes
  <2> QED
    BY <2>1 DEF Generations
<1>6. \A j \in DOMAIN draft : Honest(draft[j], lines, FALSE)
  BY <1>3 DEF SeenInv, Honest
<1>7. Honest(h, lines, TRUE)
  <2>1. Honest(g, lines, FALSE)
    BY <1>4, <1>6 DEF Changes
  <2> HIDE DEF lines
  <2> QED
    BY <1>4, <1>5, <2>1, Zenon DEF Honest, Looked, SamePlace, Takes
<1>8. \A j \in DOMAIN draft' : Honest(draft'[j], archived' \o records', pc' = "read" /\ j = looked'.gen)
  <2> TAKE j \in DOMAIN draft'
  <2>1. CASE j = k
    BY <1>3, <1>7, <2>1 DEF Honest
  <2>2. CASE j # k
    <3>1. draft'[j] = draft[j] /\ j \in DOMAIN draft
      BY <1>4, <2>2 DEF Changes
    <3> QED
      BY <1>3, <1>6, <2>2, <3>1 DEF Honest
  <2> QED
    BY <2>1, <2>2
<1>9. \A i \in DOMAIN content[h.file] : i <= h.observed
  BY <1>1, <1>4, <1>5, LogFacts DEF Looked, SamePlace
<1>10. (pc = "read" => LET x == draft[looked.gen] IN
         \A i \in DOMAIN content[x.file] : content[x.file][i] \in x.seen => i <= x.observed)'
  BY <1>2, <1>9 DEF logs
<1> QED
  BY <1>2, <1>3, <1>8, <1>10, KeptHonest, DraftHonest DEF SeenInv

\* What Read and ReadFails leave to show.
LEMMA SeenNext ==
  ASSUME BaseInv, SeenInv, Read \/ ReadFails, NEW k, k = looked.gen, Changes(k),
         ToSet(archived \o records) \subseteq ToSet(archived \o records'),
         Honest(draft'[k], archived \o records', FALSE)
  PROVE  SeenInv'
<1> DEFINE more == archived \o records'
           lines == archived \o records
<1>1. UNCHANGED logs
  BY CycleLogs DEF CycleNext, BaseInv
<1>2. pc = "read" /\ pc' = "stat" /\ UNCHANGED <<gens, archived>>
  BY Zenon DEF Read, ReadFails, stored
<1>3. ASSUME NEW j \in DOMAIN draft'
      PROVE  Honest(draft'[j], more, FALSE)
  <2>1. CASE j # k
    <3>1. draft'[j] = draft[j] /\ j \in DOMAIN draft
      BY <2>1 DEF Changes
    <3>2. Honest(draft[j], lines, FALSE)
      BY <1>2, <2>1, <3>1 DEF SeenInv, Honest
    <3> HIDE DEF more, lines
    <3>3. ToSet(lines) \subseteq ToSet(more)
      BY DEF more, lines
    <3> QED
      BY <3>1, <3>2, <3>3, HonestMore
  <2>2. CASE j = k
    BY <2>2
  <2> QED
    BY <2>1, <2>2
<1>4. \A j \in DOMAIN draft' : Honest(draft'[j], archived' \o records', pc' = "read" /\ j = looked'.gen)
  <2>1. \A j \in DOMAIN draft' : ~ (pc' = "read" /\ j = looked'.gen)
    BY <1>2
  <2> QED
    BY <1>2, <1>3, <2>1 DEF Honest
<1> QED
  BY <1>1, <1>2, <1>4, KeptHonest, DraftHonest, Zenon DEF SeenInv

\* A file that matches a generation begins with its first line.
LEMMA MatchesTakes ==
  ASSUME Types, LogInv, NEW g \in Generations, NEW f \in Files, g.offset > 0, Matches(g, f)
  PROVE  Takes(g, f)
<1>1. Len(content[f]) >= g.offset /\ content[f][1] = g.first
  BY DEF Matches
<1>2. Len(content[f]) \in Nat /\ g.offset \in Nat
  BY LogFacts DEF Generations
<1>3. Len(content[f]) # 0
  BY <1>1, <1>2
<1>4. content[f] # <<>>
  BY <1>3, EmptySeq
<1> QED
  BY <1>1, <1>4 DEF Takes

\* A read that finds the fingerprint, or nothing to check it by, leaves no line out.
LEMMA ReadsOnHonest ==
  ASSUME BaseInv, NEW g \in Generations, NEW h, ReadsOn(h, g), ~g.closed,
         NEW lines, NEW more, Honest(g, lines, TRUE), ToSet(lines) \subseteq ToSet(more),
         \A i \in (g.offset + 1)..h.offset : content[g.file][i] \in ToSet(more),
         \A i \in DOMAIN content[g.file] : content[g.file][i] \in g.seen => i <= g.observed
  PROVE  Honest(h, more, FALSE)
<1> DEFINE file == content[g.file]
           o == g.offset
           u == h.offset
<1>1. Types /\ LogInv
  BY DEF BaseInv
<1>2. g.file \in Files /\ o \in Nat /\ u \in Nat /\ g.observed \in Nat /\ o <= u
  BY DEF Generations, ReadsOn
<1>3. Len(file) \in Nat /\ DOMAIN file = 1..Len(file)
  BY <1>1, <1>2, LogFacts
<1>4. CASE h.unnoticed \/ h.gaps # {}
  BY <1>4 DEF Honest
<1>5. CASE ~ (h.unnoticed \/ h.gaps # {})
  <2>1. ~g.unnoticed /\ g.gaps = {} /\ ~Unseen(g) /\ h.file = g.file /\ h.observed = g.observed /\ h.seen = g.seen
    BY <1>5 DEF ReadsOn
  <2>2. o > 0 => Matches(g, g.file)
    <3>1. CASE batch > 0
      BY <3>1 DEF ReadsOn
    <3>2. CASE ~ (batch > 0)
      <4>1. batch = 0
        BY <1>1, <3>2 DEF Types, CycleTypes
      <4> QED
        BY <1>2, <2>1, <4>1 DEF Unseen
    <3> QED
      BY <3>1, <3>2
  <2>3. o > 0 => Takes(g, g.file)
    BY <1>1, <1>2, <2>2, MatchesTakes
  <2>4. \A i \in 1..u : file[i] \in ToSet(more)
    <3> TAKE i \in 1..u
    <3>1. CASE i <= o
      <4>1. Takes(g, g.file) /\ i \in 1..o
        BY <1>2, <2>3, <3>1
      <4> QED
        BY <2>1, <4>1 DEF Honest
    <3>2. CASE ~ (i <= o)
      <4>1. i \in (o + 1)..u
        BY <1>2, <3>2
      <4> QED
        BY <4>1
    <3> QED
      BY <3>1, <3>2
  <2>5. \A line \in g.seen : line \in ToSet(more) \/ \E i \in DOMAIN file : file[i] = line /\ i <= g.observed
    <3> TAKE line \in g.seen
    <3>1. line \in ToSet(more) \/ line \in ToSet(file)
      <4>1. CASE o = 0
        BY <2>1, <4>1 DEF Unseen
      <4>2. CASE o > 0
        BY <2>1, <2>3, <4>2 DEF Honest
      <4> QED
        BY <1>2, <4>1, <4>2
    <3> QED
      BY <3>1 DEF ToSet
  <2>6. ASSUME g.observed <= u
        PROVE  g.seen \subseteq ToSet(more)
    <3> SUFFICES ASSUME NEW i \in DOMAIN file, i <= g.observed
                 PROVE  file[i] \in ToSet(more)
      BY <2>5
    <3>1. i \in 1..u
      BY <1>2, <1>3, <2>6
    <3> QED
      BY <2>4, <3>1
  <2>7. ASSUME NEW line \in g.seen
        PROVE  line \in ToSet(more) \/ (~h.closed /\ line \in ToSet(file))
    <3>1. CASE h.closed
      <4>1. g.observed <= u
        BY <1>2, <3>1 DEF ReadsOn
      <4> QED
        BY <2>6, <4>1
    <3>2. CASE ~h.closed
      BY <2>5, <3>2 DEF ToSet
    <3> QED
      BY <3>1, <3>2
  <2> QED
    BY <2>1, <2>4, <2>6, <2>7 DEF Honest
<1> QED
  BY <1>4, <1>5

LEMMA SeenRead ==
  ASSUME BaseInv, SeenInv, Read
  PROVE  SeenInv'
<1> DEFINE k == looked.gen
           g == draft[k]
           h == draft'[k]
           lines == archived \o records
           more == archived \o records'
<1>1. Types /\ LogInv /\ StepInv /\ pc = "read"
  BY DEF BaseInv, Read
<1>2. Changes(k)
      /\ \/ Flagged(h, g) /\ records' = records
         \/ ReadsOn(h, g)
  BY <1>1, ReadShape
<1>3. k \in DOMAIN draft /\ g \in Generations /\ g.file \in Files /\ ~g.closed
  <2>1. k \in DOMAIN draft /\ ~g.closed
    BY <1>1, <1>2 DEF Changes, StepInv
  <2>2. g \in Generations
    BY <1>1, <2>1 DEF Types, CycleTypes
  <2> QED
    BY <2>1, <2>2 DEF Generations
<1>4. CASE Flagged(h, g) /\ records' = records
  BY <1>2, <1>4, SeenNext DEF Flagged, Honest
<1>5. CASE ReadsOn(h, g)
  <2> DEFINE file == content[g.file]
             o == g.offset
             u == h.offset
             p == SubSeq(file, o + 1, u)
             s == records \o p
  <2>1. file \in Seq(Nat) /\ o \in Nat /\ records \in Seq(Nat) /\ archived \in Seq(Nat)
    BY <1>1, <1>3, Zenon DEF Generations, Types, LogTypes, CycleTypes
  <2>2. u \in Nat /\ o <= u /\ (u = o \/ u <= Len(file)) /\ records' = s
    BY <1>5, Zenon DEF ReadsOn, Generations
  <2> HIDE DEF file, o, u
  <2>3. p \in Seq(Nat) /\ ToSet(p) = {file[i] : i \in (o + 1)..u}
    <3>1. p \in Seq(Nat)
      BY <2>1, <2>2, PartOf
    <3>2. file \in Seq(Nat) /\ o \in Nat /\ u \in Nat /\ o <= u /\ (u = o \/ u <= Len(file))
      BY <2>1, <2>2
    <3>3. ToSet(Piece(file, o, u)) = {file[i] : i \in (o + 1)..u}
      BY ONLY <3>2, PartElements
    <3> QED
      BY <3>1, <3>3 DEF Piece
  <2> HIDE DEF p
  <2>4. s \in Seq(Nat) /\ ToSet(s) = ToSet(records) \union ToSet(p)
    BY <2>1, <2>3, ToSetConcat, ConcatProperties
  <2> HIDE DEF s
  <2>5. ToSet(more) = ToSet(archived) \union ToSet(s) /\ ToSet(lines) = ToSet(archived) \union ToSet(records)
    <3>1. ToSet(archived \o s) = ToSet(archived) \union ToSet(s)
      BY <2>1, <2>4, ToSetConcat
    <3>2. ToSet(archived \o records) = ToSet(archived) \union ToSet(records)
      BY <2>1, ToSetConcat
    <3> QED
      BY <2>2, <3>1, <3>2
  <2>6. Honest(g, lines, TRUE)
    BY <1>1, <1>3 DEF SeenInv
  <2> HIDE DEF lines, more
  <2>7. ToSet(lines) \subseteq ToSet(more) /\ \A i \in (o + 1)..u : file[i] \in ToSet(more)
    BY <2>3, <2>4, <2>5
  <2>8. \A i \in DOMAIN file : file[i] \in g.seen => i <= g.observed
    BY <1>1 DEF SeenInv, file
  <2>9. Honest(h, more, FALSE)
    BY <1>3, <1>5, <2>6, <2>7, <2>8, ReadsOnHonest DEF file, o, u
  <2> QED
    BY <1>2, <2>7, <2>9, SeenNext DEF lines, more
<1> QED
  BY <1>2, <1>4, <1>5, SMTT(30)

LEMMA SeenReadFails ==
  ASSUME BaseInv, SeenInv, ReadFails
  PROVE  SeenInv'
<1>1. Changes(looked.gen) /\ Flagged(draft'[looked.gen], draft[looked.gen]) /\ records' = records
  BY ReadFailsShape DEF BaseInv, ReadFails
<1> QED
  BY <1>1, SeenNext DEF Flagged, Honest

LEMMA SeenCommit ==
  ASSUME BaseInv, SeenInv, Commit
  PROVE  SeenInv'
<1>1. UNCHANGED logs
  BY CycleLogs DEF CycleNext, BaseInv
<1>2. pc = "stat" /\ pc' = "idle" /\ gens' = draft /\ archived' = archived \o records
  BY DEF Commit
<1>3. \A k \in DOMAIN gens' : Honest(gens'[k], archived', FALSE)
  BY <1>2 DEF SeenInv, Honest
<1> QED
  BY <1>1, <1>2, <1>3, GensHonest DEF SeenInv

LEMMA SeenStutter ==
  ASSUME SeenInv, UNCHANGED vars
  PROVE  SeenInv'
<1>1. UNCHANGED logs /\ UNCHANGED <<content, gens, archived, pc, draft, looked, records>>
  BY DEF vars, logs, stored, cycle
<1>2. pc \in {"stat", "read"} =>
        (\A k \in DOMAIN draft : Honest(draft[k], archived \o records, pc = "read" /\ k = looked.gen))'
  BY <1>1, DraftHonest DEF SeenInv
<1>3. (\A k \in DOMAIN gens : Honest(gens[k], archived, FALSE))'
  BY <1>1, KeptHonest
<1>4. (pc = "read" => LET g == draft[looked.gen] IN
        \A i \in DOMAIN content[g.file] : content[g.file][i] \in g.seen => i <= g.observed)'
  BY <1>1 DEF SeenInv
<1> QED
  BY <1>1, <1>2, <1>3, <1>4 DEF SeenInv

LEMMA SeenStep ==
  ASSUME BaseInv, SeenInv, [Next]_vars
  PROVE  SeenInv'
<1>1. CASE Begin \/ Open \/ Restart
  <2>1. UNCHANGED <<gens, archived>> /\ pc' \in {"open", "idle"} /\ CycleNext
    BY <1>1 DEF Begin, Open, Restart, stored, CycleNext
  <2> QED
    BY <2>1, SeenAway
<1> QED
  BY <1>1, SeenLog, SeenMatch, SeenStat, SeenRead, SeenReadFails, SeenCommit, SeenStutter DEF Next, LogNext

LEMMA SeenInvAccounts ==
  ASSUME BaseInv, SeenInv
  PROVE  SeenAccounted
<1>1. Types /\ LogInv
  BY DEF BaseInv
<1> SUFFICES ASSUME NEW k \in DOMAIN gens, ~gens[k].unnoticed, gens[k].gaps = {},
                    NEW line \in gens[k].seen, line \notin ToSet(archived)
             PROVE  ~gens[k].closed /\ (line \in ToSet(content[gens[k].file]) \/ ~Matches(gens[k], gens[k].file) \/ gens[k].offset = 0)
  BY DEF SeenAccounted, Accounted
<1>2. gens[k] \in Generations
  BY <1>1 DEF Types, CycleTypes
<1>3. gens[k].file \in Files /\ gens[k].offset \in Nat
  BY <1>2 DEF Generations
<1>4. ~gens[k].closed /\ (gens[k].offset = 0 \/ line \in ToSet(content[gens[k].file]) \/ ~Takes(gens[k], gens[k].file))
  BY DEF SeenInv, Honest
<1>5. gens[k].offset > 0 /\ Matches(gens[k], gens[k].file) => Takes(gens[k], gens[k].file)
  BY <1>1, <1>2, <1>3, MatchesTakes
<1> QED
  BY <1>3, <1>4, <1>5

\* Every line the collector saw in a file it follows is archived, or behind a gap,
\* or can still be read (collector.js cycle, gap): SeenAccounted, whatever the
\* rotation does, also when a cycle runs into a copytruncate half done.
THEOREM SeenAccountedHolds == Spec => []SeenAccounted
<1>1. Init => SeenInv
  <2> SUFFICES ASSUME Init
               PROVE  SeenInv
    OBVIOUS
  <2>1. pc = "idle" /\ gens = <<>>
    BY DEF Init
  <2> QED
    BY <2>1 DEF SeenInv
<1>2. BaseInv /\ SeenInv /\ [Next]_vars => SeenInv'
  BY SeenStep
<1>3. BaseInv /\ SeenInv => SeenAccounted
  BY SeenInvAccounts
<1> QED
  BY <1>1, <1>2, <1>3, BaseInvariant, PTL DEF Spec

-------------------------------------------------------------------------------
(* No line is archived twice.                                              *)

\* A file that is not emptied keeps its lines.
LEMMA GrownKeeps ==
  ASSUME Types, LogInv, NEW f \in Files, Grown(f), content'[f] # <<>>, NEW i \in DOMAIN content[f]
  PROVE  content'[f][i] = content[f][i]
<1> DEFINE a == content[f]
           w == written + 1
<1>1. a \in Seq(Nat) /\ Len(a) \in Nat /\ DOMAIN a = 1..Len(a) /\ w \in Nat
  BY LogFacts
<1>2. CASE content'[f] = Append(a, w)
  <2> HIDE DEF w
  <2>1. \A j \in 1..Len(a) : Append(a, w)[j] = a[j]
    BY <1>1, AppendShape
  <2> QED
    BY <1>1, <1>2, <2>1
<1> QED
  BY <1>2 DEF Grown

LEMMA LiveMade ==
  ASSUME Types, LogInv, StepInv, NEW f \in Files, Live(f)
  PROVE  f <= made
BY LogFacts DEF Live, StepInv, LogInv

\* The file of which the lines of a file are after a step of the log.
LEMMA TakesBefore ==
  ASSUME BaseInv, LogEffect, NEW g \in Generations, Printed(g), NEW f \in Files, Takes(g, f)'
  PROVE  \/ f <= made /\ Takes(g, f) /\ Len(content[f]) <= Len(content'[f])
         \/ kind = "copytruncate" /\ content'[f] = content[1] /\ Takes(g, 1)
<1>1. Types /\ LogInv
  BY DEF BaseInv
<1>2. content'[f] # <<>>
  BY DEF Takes
<1>3. CASE f <= made
  <2>1. Grown(f)
    BY <1>3 DEF LogEffect
  <2> QED
    BY <1>1, <1>3, <2>1, GrownTakes DEF Printed
<1>4. CASE kind = "copytruncate" /\ content'[f] = content[1]
  BY <1>2, <1>4 DEF Takes
<1> QED
  BY <1>2, <1>3, <1>4 DEF LogEffect

LEMMA OnceLog ==
  ASSUME BaseInv, LogEffect, LogTypes', ~SeenCopies,
         NEW gs, \A k \in DOMAIN gs : gs[k] \in Generations /\ Printed(gs[k]),
         NEW lines, NEW matched, matched => pc # "idle", Once(gs, lines, matched)
  PROVE  Once(gs, lines, matched)'
<1>1. Types /\ LogInv /\ StepInv
  BY DEF BaseInv
<1>2. /\ made \in Nat /\ written \in Nat /\ 1 \in Files /\ 1 <= made /\ written' \in Nat /\ written <= written'
      /\ kind' = kind
      /\ \A f \in Files : Len(content[f]) \in Nat /\ Len(content'[f]) \in Nat /\ DOMAIN content[f] = 1..Len(content[f])
  <2>1. made \in Nat /\ 1 <= made /\ MaxFiles \in Nat \ {0}
    BY <1>1, LogFacts, CollectorAssumption DEF CollectorAssumption
  <2>2. 1 \in Files
    BY <2>1 DEF Files
  <2>3. \A f \in Files : Len(content'[f]) \in Nat
    BY LenProperties DEF LogTypes
  <2> QED
    BY <1>1, <2>1, <2>2, <2>3, LogFacts DEF LogEffect, LogTypes
<1>3. \A k \in DOMAIN gs : gs[k] \in Generations /\ Printed(gs[k]) /\ gs[k].file \in Files /\ gs[k].file <= made /\ gs[k].offset \in Nat
  BY DEF Generations, Printed
<1>4. ASSUME NEW k \in DOMAIN gs, NEW f \in Files, Takes(gs[k], f)'
      PROVE  \/ f <= made /\ Takes(gs[k], f) /\ Len(content[f]) <= Len(content'[f])
             \/ kind = "copytruncate" /\ content'[f] = content[1] /\ Takes(gs[k], 1)
  BY <1>3, <1>4, TakesBefore
<1>5. IsInjective(lines) /\ ToSet(lines) \subseteq 1..written' /\ Exact(gs) /\ Apart(gs) /\ Placed(gs, matched) /\ Covered(gs, lines)
  BY <1>2 DEF Once
<1>6. Exact(gs)'
  <2> SUFFICES ASSUME NEW k \in DOMAIN gs, gs[k].offset > 0, NEW f \in Files, Takes(gs[k], f)'
               PROVE  Len(content'[f]) >= gs[k].offset
    BY <1>5 DEF Exact, Named
  <2>1. CASE f <= made /\ Takes(gs[k], f) /\ Len(content[f]) <= Len(content'[f])
    <3>1. Len(content[f]) >= gs[k].offset
      BY <1>5, <2>1 DEF Exact, Named
    <3> QED
      BY <1>2, <1>3, <2>1, <3>1
  <2>2. CASE kind = "copytruncate" /\ content'[f] = content[1] /\ Takes(gs[k], 1)
    BY <1>2, <1>5, <2>2 DEF Exact, Named
  <2> QED
    BY <1>4, <2>1, <2>2
<1>7. Apart(gs)'
  <2> SUFFICES ASSUME NEW k \in DOMAIN gs, NEW j \in DOMAIN gs, k # j, ~gs[j].closed, Takes(gs[k], gs[j].file)'
               PROVE  FALSE
    BY <1>5 DEF Apart
  <2> DEFINE f == gs[j].file
  <2>1. f \in Files /\ f <= made /\ Grown(f)
    BY <1>3 DEF LogEffect
  <2>2. Takes(gs[k], f)
    BY <1>1, <1>3, <2>1, GrownTakes DEF Printed
  <2> QED
    BY <1>5, <2>2 DEF Apart
<1>8. Placed(gs, matched)'
  <2>1. ASSUME NEW k \in DOMAIN gs, NEW f \in Files, Live(f)', Takes(gs[k], f)'
        PROVE  gs[k].file = f \/ (~matched /\ Moved(gs[k], f))
    <3>1. content'[f] # <<>>
      BY <2>1 DEF Takes
    <3>2. Reachable(f)
      BY <2>1 DEF LogEffect
    <3>3. CASE Live(f)
      <4>1. f <= made /\ Grown(f)
        BY <1>1, <3>3, LiveMade DEF LogEffect
      <4>2. Takes(gs[k], f)
        BY <1>1, <1>3, <2>1, <4>1, GrownTakes DEF Printed
      <4> QED
        BY <1>5, <3>3, <4>2 DEF Placed
    <3>4. CASE kind = "copytruncate" /\ pc = "idle" /\ content'[f] = content[1]
      <4>1. Takes(gs[k], 1)
        BY <2>1, <3>4 DEF Takes
      <4>2. dir[1] = 1 /\ 1 \in DOMAIN dir
        BY <1>1, <3>4, LogFacts DEF LogInv
      <4>3. Live(1)
        BY <4>2 DEF Live
      <4>4. ~gs[k].closed /\ gs[k].file = 1
        BY <1>2, <1>5, <3>4, <4>1, <4>3 DEF Placed, Moved
      <4> QED
        BY <3>4, <4>4 DEF Moved
    <3> QED
      BY <3>1, <3>2, <3>3, <3>4 DEF Reachable
  <2>2. ASSUME NEW k \in DOMAIN gs, kind = "copytruncate", Takes(gs[k], 1)'
        PROVE  ~gs[k].closed
    <3>1. Takes(gs[k], 1)
      BY <1>2, <1>4, <2>2
    <3> QED
      BY <1>5, <2>2, <3>1 DEF Placed
  <2> QED
    BY <1>2, <2>1, <2>2 DEF Placed, Moved
<1>9. Covered(gs, lines)'
  <2> SUFFICES ASSUME NEW f \in Files, Live(f)', NEW i \in DOMAIN content'[f], content'[f][i] \in ToSet(lines)
               PROVE  \E k \in DOMAIN gs : Takes(gs[k], f)' /\ i <= gs[k].offset
    BY DEF Covered
  <2>1. content'[f] # <<>>
    OBVIOUS
  <2>2. Reachable(f)
    BY DEF LogEffect
  <2>3. CASE Live(f)
    <3>1. f <= made /\ Grown(f)
      BY <1>1, <2>3, LiveMade DEF LogEffect
    <3>2. content'[f][i] # written + 1
      BY <1>2 DEF Once
    <3>3. i \in DOMAIN content[f] /\ content'[f][i] = content[f][i]
      BY <1>1, <3>1, <3>2, GrownBack
    <3>4. PICK k \in DOMAIN gs : Takes(gs[k], f) /\ i <= gs[k].offset
      BY <1>5, <2>3, <3>3 DEF Covered
    <3>5. 1 \in DOMAIN content[f]
      BY <1>2, <3>3
    <3>6. content'[f][1] = content[f][1]
      BY <1>1, <2>1, <3>1, <3>5, GrownKeeps
    <3> QED
      BY <2>1, <3>4, <3>6 DEF Takes
  <2>4. CASE kind = "copytruncate" /\ content'[f] = content[1]
    <3>1. dir[1] = 1 /\ 1 \in DOMAIN dir
      BY <1>1, <2>4, LogFacts DEF LogInv
    <3>2. Live(1)
      BY <3>1 DEF Live
    <3>3. PICK k \in DOMAIN gs : Takes(gs[k], 1) /\ i <= gs[k].offset
      BY <1>2, <1>5, <2>4, <3>2 DEF Covered
    <3> QED
      BY <2>4, <3>3 DEF Takes
  <2> QED
    BY <2>1, <2>2, <2>3, <2>4 DEF Reachable
<1> QED
  BY <1>5, <1>6, <1>7, <1>8, <1>9 DEF Once

LEMMA OnceInvLog ==
  ASSUME BaseInv, OnceInv, LogNext, ~SeenCopies
  PROVE  OnceInv'
<1>1. Types /\ LogInv /\ StepInv /\ GenInv(gens) /\ GenInv(draft)
  BY DEF BaseInv
<1>2. LogEffect /\ LogTypes'
  BY BaseLog DEF BaseInv, Types
<1>3. UNCHANGED <<kind, gens, archived, held, pc, names, visible, draft, unread, looked, records>>
  BY <1>2 DEF LogEffect, stored, cycle
<1>4. \A k \in DOMAIN gens : gens[k] \in Generations /\ Printed(gens[k])
  BY <1>1 DEF Types, CycleTypes, GenInv
<1>5. \A k \in DOMAIN draft : draft[k] \in Generations /\ Printed(draft[k])
  BY <1>1 DEF Types, CycleTypes, GenInv
<1>6. Between'
  BY <1>2, <1>3 DEF OnceInv, Between, LogEffect
<1>7. Once(gens, archived, FALSE)'
  <2>1. Once(gens, archived, FALSE)
    BY DEF OnceInv
  <2> QED
    BY <1>2, <1>3, <1>4, <2>1, OnceLog
<1>8. ASSUME pc \in {"stat", "read"}
      PROVE  Once(draft, archived \o records, TRUE)'
  <2>1. Once(draft, archived \o records, TRUE) /\ pc # "idle"
    BY <1>8 DEF OnceInv
  <2> QED
    BY <1>2, <1>3, <1>5, <2>1, OnceLog
<1> QED
  BY <1>3, <1>6, <1>7, <1>8 DEF OnceInv

\* Generations of the same lines of the same files, and more of it is asked.
LEMMA OnceSame ==
  ASSUME NEW gs, NEW hs, DOMAIN hs = DOMAIN gs, \A k \in DOMAIN gs : SamePlace(hs[k], gs[k]),
         NEW lines, NEW matched, NEW later, later => matched, Once(gs, lines, matched)
  PROVE  Once(hs, lines, later)
<1>1. \A k \in DOMAIN gs : \A f : Takes(hs[k], f) <=> Takes(gs[k], f)
  BY DEF SamePlace, Takes
<1>2. Exact(hs)
  BY <1>1 DEF Once, Exact, Named, SamePlace
<1>3. Apart(hs)
  BY <1>1 DEF Once, Apart, SamePlace
<1>4. Placed(hs, later)
  BY <1>1 DEF Once, Placed, Moved, SamePlace
<1>5. Covered(hs, lines)
  BY <1>1 DEF Once, Covered, SamePlace
<1> QED
  BY <1>2, <1>3, <1>4, <1>5 DEF Once

\* The parts of the invariant after a step of the cycle that opens no other file.
LEMMA GensOnce ==
  ASSUME UNCHANGED logs, \A f \in Files : Live(f)' => Live(f), Once(gens', archived', FALSE)
  PROVE  Once(gens, archived, FALSE)'
<1>1. UNCHANGED <<content, dir, kind, copying, made, written>>
  BY DEF logs
<1>2. Exact(gens)' /\ Apart(gens)' /\ IsInjective(archived') /\ ToSet(archived') \subseteq 1..written'
  BY <1>1 DEF Once, Exact, Named, Apart, Takes
<1>3. Placed(gens, FALSE)'
  BY <1>1 DEF Once, Placed, Moved, Takes
<1>4. Covered(gens, archived)'
  BY <1>1 DEF Once, Covered, Takes
<1> QED
  BY <1>2, <1>3, <1>4 DEF Once

LEMMA DraftOnce ==
  ASSUME UNCHANGED logs, \A f \in Files : Live(f)' => Live(f), Once(draft', archived' \o records', TRUE)
  PROVE  Once(draft, archived \o records, TRUE)'
<1>1. UNCHANGED <<content, dir, kind, copying, made, written>>
  BY DEF logs
<1>2. Exact(draft)' /\ Apart(draft)' /\ IsInjective(archived' \o records') /\ ToSet(archived' \o records') \subseteq 1..written'
  BY <1>1 DEF Once, Exact, Named, Apart, Takes
<1>3. Placed(draft, TRUE)'
  BY <1>1 DEF Once, Placed, Moved, Takes
<1>4. Covered(draft, archived \o records)'
  BY <1>1 DEF Once, Covered, Takes
<1> QED
  BY <1>2, <1>3, <1>4 DEF Once

\* What remains of the cycle's part when a cycle begins or ends.
LEMMA BetweenAway ==
  ASSUME Between, UNCHANGED logs, pc' = "idle", \A f \in DOMAIN held' : f \in DOMAIN held /\ held'[f] = held[f]
  PROVE  Between'
<1>1. UNCHANGED <<content, dir, kind, copying, made, written>>
  BY DEF logs
<1> QED
  BY <1>1 DEF Between

LEMMA OnceBegin ==
  ASSUME BaseInv, OnceInv, Begin, ~SeenCopies
  PROVE  OnceInv'
<1>1. UNCHANGED logs /\ UNCHANGED <<kind, dir, copying>>
  BY CycleLogs DEF CycleNext, BaseInv, logs
<1>2. ~copying /\ pc' = "open" /\ names' = DOMAIN dir /\ UNCHANGED <<gens, archived, held>>
  BY DEF Begin, stored
<1>3. Between'
  BY <1>1, <1>2 DEF OnceInv, Between
<1>4. Once(gens, archived, FALSE)'
  <2>1. \A f \in Files : Live(f)' => Live(f)
    BY <1>1, <1>2 DEF Live
  <2> QED
    BY <1>1, <1>2, <2>1, GensOnce DEF OnceInv
<1> QED
  BY <1>2, <1>3, <1>4 DEF OnceInv

LEMMA OnceOpen ==
  ASSUME BaseInv, OnceInv, Open
  PROVE  OnceInv'
<1>1. UNCHANGED logs /\ UNCHANGED <<kind, dir, copying>> /\ Types /\ LogInv
  BY CycleLogs DEF CycleNext, BaseInv, logs
<1>2. pc = "open" /\ UNCHANGED <<pc, gens, archived>>
  BY DEF Open, stored
<1>3. PICK n \in names :
        /\ names' = names \ {n}
        /\ IF n \in DOMAIN dir
           THEN /\ visible' = visible \union {dir[n]}
                /\ held' = [f \in DOMAIN held \union {dir[n]} |->
                              IF f = dir[n] THEN [active |-> n = 1, rotation |-> n] ELSE held[f]]
           ELSE UNCHANGED <<visible, held>>
  BY DEF Open
<1>4. /\ \A f \in DOMAIN held' : (f \in DOMAIN held /\ held'[f] = held[f]) \/ (n \in DOMAIN dir /\ f = dir[n] /\ (held'[f].active => n = 1))
      /\ DOMAIN held \subseteq DOMAIN held' /\ visible \subseteq visible'
      /\ n \in DOMAIN dir => dir[n] \in DOMAIN held' \cap visible'
  <2>1. CASE n \in DOMAIN dir
    <3> DEFINE x == dir[n]
               e == [active |-> n = 1, rotation |-> n]
    <3>1. /\ visible' = visible \union {x}
          /\ held' = [f \in DOMAIN held \union {x} |-> IF f = x THEN e ELSE held[f]]
      BY <1>3, <2>1
    <3>2. e.active => n = 1
      OBVIOUS
    <3> HIDE DEF x, e
    <3>3. /\ \A f \in DOMAIN held' : (f \in DOMAIN held /\ held'[f] = held[f]) \/ (f = x /\ (held'[f].active => n = 1))
          /\ DOMAIN held \subseteq DOMAIN held' /\ visible \subseteq visible'
          /\ x \in DOMAIN held' \cap visible'
      BY <3>1, <3>2
    <3> QED
      BY <2>1, <3>3 DEF x
  <2>2. CASE n \notin DOMAIN dir
    BY <1>3, <2>2
  <2> QED
    BY <2>1, <2>2
<1>5. Between'
  <2>1. kind = "copytruncate" => dir[1] = 1
    BY <1>1 DEF LogInv
  <2>2. kind = "copytruncate" => \A f \in DOMAIN held' : held'[f].active => f = 1
    BY <1>4, <2>1 DEF OnceInv, Between
  <2>3. kind = "copytruncate" => \A m \in DOMAIN dir : m \in names' \/ dir[m] \in DOMAIN held' \cap visible'
    BY <1>2, <1>3, <1>4 DEF OnceInv, Between
  <2> QED
    BY <1>1, <1>2, <2>2, <2>3 DEF OnceInv, Between
<1>6. Once(gens, archived, FALSE)'
  <2>1. \A f \in Files : Live(f)' => Live(f)
    BY <1>1, <1>4 DEF Live
  <2> QED
    BY <1>1, <1>2, <2>1, GensOnce DEF OnceInv
<1> QED
  BY <1>2, <1>5, <1>6 DEF OnceInv

LEMMA OnceCommit ==
  ASSUME BaseInv, OnceInv, Commit
  PROVE  OnceInv'
<1>1. UNCHANGED logs
  BY CycleLogs DEF CycleNext, BaseInv
<1>2. pc = "stat" /\ pc' = "idle" /\ gens' = draft /\ archived' = archived \o records
  BY DEF Commit
<1>3. \A f \in DOMAIN held' : f \in DOMAIN held /\ held'[f] = held[f]
  BY DEF Commit, Restrict
<1>4. \A f \in Files : Live(f)' => Live(f)
  BY <1>1, <1>3 DEF Live, logs
<1>5. Once(draft, archived \o records, FALSE)
  <2>1. Once(draft, archived \o records, TRUE)
    BY <1>2 DEF OnceInv
  <2>2. \A k \in DOMAIN draft : SamePlace(draft[k], draft[k])
    BY DEF SamePlace
  <2> QED
    BY <2>1, <2>2, OnceSame
<1>6. Once(gens, archived, FALSE)'
  BY <1>1, <1>2, <1>4, <1>5, GensOnce
<1> QED
  BY <1>1, <1>2, <1>3, <1>6, BetweenAway DEF OnceInv

LEMMA OnceRestart ==
  ASSUME BaseInv, OnceInv, Restart
  PROVE  OnceInv'
<1>1. UNCHANGED logs
  BY CycleLogs DEF CycleNext, BaseInv
<1>2. pc' = "idle" /\ UNCHANGED <<gens, archived>> /\ held' = <<>> /\ DOMAIN held' = {}
  BY DEF Restart, stored
<1>3. \A f \in Files : Live(f)' => Live(f)
  BY <1>1, <1>2 DEF Live, logs
<1>4. Once(gens, archived, FALSE)'
  BY <1>1, <1>2, <1>3, GensOnce DEF OnceInv
<1> QED
  BY <1>1, <1>2, <1>4, BetweenAway DEF OnceInv

\* A step between two files of a cycle.
LEMMA BetweenOn ==
  ASSUME Between, UNCHANGED logs, UNCHANGED <<held, visible, unread>>, pc \in {"stat", "read"}, pc' \in {"stat", "read"}
  PROVE  Between'
<1>1. UNCHANGED <<content, dir, kind, copying, made, written>>
  BY DEF logs
<1>2. pc # "idle" /\ pc' # "idle" /\ pc' # "open"
  OBVIOUS
<1> QED
  BY <1>1, <1>2 DEF Between

LEMMA OnceOn ==
  ASSUME BaseInv, OnceInv, Stat \/ Read \/ ReadFails, Once(draft', archived \o records', TRUE)
  PROVE  OnceInv'
<1>1. UNCHANGED logs
  BY CycleLogs DEF CycleNext, BaseInv
<1>2. pc \in {"stat", "read"} /\ pc' \in {"stat", "read"} /\ UNCHANGED <<gens, archived, held, visible, unread>>
  BY Zenon DEF Stat, Read, ReadFails, stored
<1>3. \A f \in Files : Live(f)' => Live(f)
  BY <1>1, <1>2 DEF Live, logs
<1>4. Once(gens, archived, FALSE)'
  BY <1>1, <1>2, <1>3, GensOnce DEF OnceInv
<1>5. Once(draft, archived \o records, TRUE)'
  BY <1>1, <1>2, <1>3, DraftOnce
<1> QED
  BY <1>1, <1>2, <1>4, <1>5, BetweenOn DEF OnceInv

\* One generation is looked at, or flagged: of no other lines than before.
LEMMA OnceUnmoved ==
  ASSUME BaseInv, OnceInv, Stat \/ Read \/ ReadFails, NEW k, Changes(k), SamePlace(draft'[k], draft[k]), records' = records
  PROVE  OnceInv'
<1>1. pc \in {"stat", "read"}
  BY Zenon DEF Stat, Read, ReadFails
<1>2. Once(draft, archived \o records, TRUE)
  BY <1>1 DEF OnceInv
<1>3. \A j \in DOMAIN draft : SamePlace(draft'[j], draft[j])
  BY DEF Changes, SamePlace
<1>4. Once(draft', archived \o records, TRUE)
  BY <1>2, <1>3, OnceSame DEF Changes
<1> QED
  BY <1>4, OnceOn

LEMMA OnceStat ==
  ASSUME BaseInv, OnceInv, Stat
  PROVE  OnceInv'
<1>1. Changes(looked'.gen) /\ Looked(draft'[looked'.gen], draft[looked'.gen]) /\ records' = records
  BY StatShape DEF BaseInv, Stat
<1> QED
  BY <1>1, OnceUnmoved DEF Looked

LEMMA OnceReadFails ==
  ASSUME BaseInv, OnceInv, ReadFails
  PROVE  OnceInv'
<1>1. Changes(looked.gen) /\ Flagged(draft'[looked.gen], draft[looked.gen]) /\ records' = records
  BY ReadFailsShape DEF BaseInv, ReadFails
<1> QED
  BY <1>1, OnceUnmoved DEF Flagged

\* No two files share a line while no copy is being made; a file's lines follow each other.
LEMMA LinesApart ==
  ASSUME Types, LogInv, ~copying
  PROVE  /\ \A e, f \in Files : \A i \in DOMAIN content[e], j \in DOMAIN content[f] : content[e][i] = content[f][j] => e = f /\ i = j
         /\ \A f \in Files : \A i \in DOMAIN content[f] :
              /\ content[f][i] \in Nat /\ content[f][1] \in Nat /\ content[f][1] # 0
              /\ content[f][i] = content[f][1] + i - 1 /\ content[f][i] \in 1..written /\ 1 \in DOMAIN content[f]
<1>1. \A f \in Files : \A i \in DOMAIN content[f] :
        /\ i \in Nat /\ 1 \in DOMAIN content[f]
        /\ content[f][i] = content[f][1] + i - 1 /\ content[f][i] \in 1..written /\ content[f][1] \in 1..written
  <2> TAKE f \in Files
  <2> TAKE i \in DOMAIN content[f]
  <2>1. DOMAIN content[f] = 1..Len(content[f]) /\ Len(content[f]) \in Nat
    BY LogFacts
  <2>2. 1 \in DOMAIN content[f] /\ i \in Nat
    BY <2>1
  <2> QED
    BY <2>2 DEF LogInv
<1>2. written \in Nat
  BY LogFacts
<1>3. \A f \in Files : \A i \in DOMAIN content[f] : content[f][i] \in Nat /\ content[f][1] \in Nat /\ content[f][1] # 0
  BY <1>1, <1>2
<1>4. ASSUME NEW e \in Files, NEW f \in Files, NEW i \in DOMAIN content[e], NEW j \in DOMAIN content[f], content[e][i] = content[f][j]
      PROVE  e = f /\ i = j
  <2>1. e = f
    BY <1>4 DEF LogInv
  <2> DEFINE x == content[e][1]
  <2>2. x \in Nat /\ i \in Nat /\ j \in Nat /\ x + i - 1 = x + j - 1
    BY <1>1, <1>3, <1>4, <2>1
  <2> HIDE DEF x
  <2>3. i = j
    BY <2>2
  <2> QED
    BY <2>1, <2>3
<1> QED
  BY <1>1, <1>3, <1>4

\* The lines taken are of one file.
LEMMA TakesUnique ==
  ASSUME Types, LogInv, ~copying, NEW g, NEW h, g.first = h.first, NEW e \in Files, NEW f \in Files, Takes(g, e), Takes(h, f)
  PROVE  e = f
<1>1. 1 \in DOMAIN content[e] /\ 1 \in DOMAIN content[f] /\ content[e][1] = content[f][1]
  BY LogFacts DEF Takes
<1> QED
  BY <1>1, LinesApart

LEMMA TakesMatches ==
  ASSUME Types, LogInv, ~copying, NEW g \in Generations, Named(g), NEW f \in Files, Takes(g, f)
  PROVE  Matches(g, f) /\ g.offset \in DOMAIN content[f] /\ g.offset > 0 /\ g.first # 0
<1> DEFINE c == content[f]
           o == g.offset
<1>1. o > 0 /\ c # <<>> /\ c[1] = g.first /\ o \in Nat /\ g.first \in Nat
  BY DEF Takes, Generations
<1>2. Len(c) >= o /\ Len(c) \in Nat /\ DOMAIN c = 1..Len(c)
  BY <1>1, LogFacts DEF Named
<1>3. o \in DOMAIN c
  BY <1>1, <1>2
<1>4. c[o] = c[1] + o - 1 /\ c[1] # 0
  BY <1>3, LinesApart
<1>5. g.first > 0 /\ g.last = g.first + o - 1
  BY <1>1, <1>4 DEF Named
<1>6. c[o] = g.last
  BY <1>1, <1>4, <1>5
<1> QED
  BY <1>1, <1>2, <1>3, <1>4, <1>6 DEF Matches

\* What a read leaves: the generation takes its file, and no other, from the start.
LEMMA ReadsOnTakes ==
  ASSUME Types, LogInv, ~copying, NEW g \in Generations, NEW h, ReadsOn(h, g)
  PROVE  /\ Named(h)
         /\ \A f \in Files : Takes(h, f) => f = g.file
         /\ h.first # 0 => h.offset \in DOMAIN content[g.file] /\ h.first = content[g.file][1]
         /\ h.offset \in DOMAIN content[g.file] => Takes(h, g.file)
         /\ Named(g) /\ Takes(g, g.file) => h.offset \in DOMAIN content[g.file]
<1> DEFINE F == g.file
           c == content[F]
           o == g.offset
           u == h.offset
<1>1. F \in Files /\ o \in Nat /\ u \in Nat /\ h.file = F /\ o <= u
  BY DEF Generations, ReadsOn
<1>2. Len(c) \in Nat /\ DOMAIN c = 1..Len(c)
  BY <1>1, LogFacts
<1>3. /\ u \in DOMAIN c => h.first = c[1] /\ h.last = c[u] /\ h.first # 0
      /\ u \notin DOMAIN c => h.first = 0 /\ h.last = 0
  BY <1>1, LinesApart DEF ReadsOn
<1>4. ASSUME u \in DOMAIN c
      PROVE  Takes(h, F)
  <2>1. u > 0 /\ c # <<>>
    BY <1>1, <1>2, <1>4
  <2> QED
    BY <1>3, <1>4, <2>1 DEF Takes
<1>5. ASSUME NEW f \in Files, Takes(h, f)
      PROVE  f = F /\ u \in DOMAIN c
  <2>1. 1 \in DOMAIN content[f] /\ content[f][1] = h.first
    BY <1>5, LogFacts DEF Takes
  <2>2. h.first # 0
    BY <2>1, LinesApart
  <2>3. u \in DOMAIN c
    BY <1>3, <2>2
  <2>4. Takes(h, F)
    BY <1>4, <2>3
  <2> QED
    BY <1>1, <1>5, <2>3, <2>4, TakesUnique
<1>6. Named(h)
  <2>1. ASSUME h.first > 0
        PROVE  h.last = h.first + u - 1
    <3>1. h.first # 0
      BY <2>1
    <3>2. u \in DOMAIN c
      BY <1>3, <3>1
    <3> QED
      BY <1>1, <1>3, <3>2, LinesApart
  <2>2. ASSUME NEW f \in Files, Takes(h, f)
        PROVE  Len(content[f]) >= u
    <3>1. f = F /\ u \in DOMAIN c
      BY <1>5, <2>2
    <3> QED
      BY <1>1, <1>2, <3>1
  <2>3. h.first = 0 => h.last = 0
    BY <1>3
  <2> QED
    BY <2>1, <2>2, <2>3 DEF Named
<1>7. ASSUME Named(g), Takes(g, F)
      PROVE  u \in DOMAIN c
  <2>1. o \in DOMAIN c
    BY <1>1, <1>7, TakesMatches
  <2>2. u = o \/ u <= Len(c)
    BY DEF ReadsOn
  <2> QED
    BY <1>1, <1>2, <2>1, <2>2
<1> QED
  BY <1>3, <1>4, <1>5, <1>6, <1>7

LEMMA OnceReadsOn ==
  ASSUME BaseInv, pc = "read", ~copying, kind = "copytruncate" => 1 \in visible,
         NEW k, k = looked.gen, Changes(k), ReadsOn(draft'[k], draft[k]),
         NEW lines \in Seq(Nat), NEW more, more = lines \o Piece(content[draft[k].file], draft[k].offset, draft'[k].offset),
         Once(draft, lines, TRUE)
  PROVE  Once(draft', more, TRUE)
<1> DEFINE g == draft[k]
           h == draft'[k]
           F == g.file
           c == content[F]
           o == g.offset
           u == h.offset
           p == Piece(c, o, u)
<1>1. Types /\ LogInv /\ StepInv
  BY DEF BaseInv
<1>2. /\ k \in DOMAIN draft /\ DOMAIN draft' = DOMAIN draft /\ \A j \in DOMAIN draft : j # k => draft'[j] = draft[j]
      /\ \A j \in DOMAIN draft : draft[j] \in Generations
  BY <1>1 DEF Changes, Types, CycleTypes
<1>3. ~g.closed /\ F \in DOMAIN held
  BY <1>1 DEF StepInv
<1>4. g \in Generations /\ F \in Files /\ o \in Nat /\ u \in Nat /\ o <= u /\ h.file = F /\ c \in Seq(Nat)
      /\ Len(c) \in Nat /\ DOMAIN c = 1..Len(c) /\ (u = o \/ u <= Len(c))
  <2>1. g \in Generations
    BY <1>2, Zenon
  <2>2. F \in Files /\ o \in Nat /\ u \in Nat /\ o <= u /\ h.file = F /\ (u = o \/ u <= Len(c))
    BY <2>1, Zenon DEF Generations, ReadsOn
  <2> QED
    BY <1>1, <2>1, <2>2, LogFacts
<1>5. \A j \in DOMAIN draft : draft[j].file \in Files
  BY <1>2 DEF Generations
<1>6. Live(F)
  BY <1>3 DEF Live
<1>7. Exact(draft) /\ Apart(draft) /\ Placed(draft, TRUE) /\ Covered(draft, lines) /\ IsInjective(lines) /\ ToSet(lines) \subseteq 1..written
  BY DEF Once
<1>8. /\ Named(h)
      /\ \A f \in Files : Takes(h, f) => f = F
      /\ h.first # 0 => u \in DOMAIN c /\ h.first = c[1]
      /\ u \in DOMAIN c => Takes(h, F)
      /\ Takes(g, F) => u \in DOMAIN c
  BY <1>1, <1>2, <1>4, <1>7, ReadsOnTakes, Zenon DEF Exact
<1>9. /\ \A e, f \in Files : \A i \in DOMAIN content[e], j \in DOMAIN content[f] : content[e][i] = content[f][j] => e = f /\ i = j
      /\ \A i \in DOMAIN c : c[i] \in Nat /\ c[i] \in 1..written
  BY <1>1, <1>4, LinesApart, Zenon
<1> HIDE DEF g, h, F, c, o, u
<1>10. Exact(draft')
  <2> SUFFICES ASSUME NEW j \in DOMAIN draft
               PROVE  Named(draft'[j])
    BY <1>2 DEF Exact
  <2> QED
    BY <1>2, <1>7, <1>8 DEF Exact, h
<1>11. \A j \in DOMAIN draft : j # k => ~Takes(draft[j], F) /\ (~draft[j].closed => draft[j].file # F)
  BY <1>2, <1>3, <1>7 DEF Apart, F, g
<1>12. Apart(draft')
  <2>1. \A j \in DOMAIN draft : j # k /\ draft[j].offset > 0 /\ h.offset > 0 /\ draft[j].first = h.first => h.first = 0
    <3> SUFFICES ASSUME NEW j \in DOMAIN draft, j # k, draft[j].offset > 0, draft[j].first = h.first, h.first # 0
                 PROVE  FALSE
      OBVIOUS
    <3>1. Takes(h, F)
      BY <1>8
    <3>2. Takes(draft[j], F)
      BY <3>1 DEF Takes
    <3> QED
      BY <1>11, <3>2
  <2>2. \A j \in DOMAIN draft : j # k /\ ~draft[j].closed => ~Takes(h, draft[j].file) /\ draft[j].file # h.file
    BY <1>4, <1>5, <1>8, <1>11
  <2>3. \A j \in DOMAIN draft : j # k => ~Takes(draft[j], h.file)
    BY <1>4, <1>11
  <2> QED
    BY <1>2, <1>7, <2>1, <2>2, <2>3 DEF Apart, h
<1>13. Placed(draft', TRUE)
  <2>1. \A f \in Files : Live(f) /\ Takes(h, f) => h.file = f
    BY <1>4, <1>8
  <2>2. kind = "copytruncate" /\ Takes(h, 1) => ~h.closed
    <3>1. ASSUME kind = "copytruncate", Takes(h, 1), h.closed
          PROVE  FALSE
      <4>1. 1 \in Files /\ 1 \in visible
        <5>1. 1 \in visible
          BY <3>1
        <5> QED
          BY <1>1, <5>1 DEF Types, CycleTypes
      <4>2. F = 1
        BY <1>8, <3>1, <4>1, Zenon
      <4>3. F \notin visible
        BY <3>1, Zenon DEF ReadsOn, F, h, g
      <4> QED
        BY <4>1, <4>2, <4>3
    <3> QED
      BY <3>1
  <2> QED
    BY <1>2, <1>7, <2>1, <2>2 DEF Placed, h
<1>14. p \in Seq(Nat) /\ ToSet(p) = {c[i] : i \in (o + 1)..u} /\ IsInjective(p)
  <2>1. p \in Seq(Nat) /\ Len(p) = u - o /\ \A i \in 1..(u - o) : p[i] = c[o + i]
    <3>1. c \in Seq(Nat) /\ o \in Nat /\ u \in Nat /\ o <= u /\ (u = o \/ u <= Len(c))
      BY <1>4
    <3>2. SubSeq(c, o + 1, u) \in Seq(Nat) /\ Len(SubSeq(c, o + 1, u)) = u - o
          /\ \A i \in 1..(u - o) : SubSeq(c, o + 1, u)[i] = c[o + i]
      BY ONLY <3>1, PartOf, SMTT(30)
    <3> QED
      BY <3>2 DEF Piece
  <2>2. ToSet(p) = {c[i] : i \in (o + 1)..u}
    <3>1. c \in Seq(Nat) /\ o \in Nat /\ u \in Nat /\ o <= u /\ (u = o \/ u <= Len(c))
      BY <1>4
    <3>2. ToSet(Piece(c, o, u)) = {c[i] : i \in (o + 1)..u}
      BY <3>1, PartElements
    <3> QED
      BY <3>2
  <2>3. IsInjective(p)
    <3>1. DOMAIN p = 1..(u - o)
      BY <1>4, <2>1, LenProperties
    <3> SUFFICES ASSUME NEW i \in 1..(u - o), NEW j \in 1..(u - o), p[i] = p[j]
                 PROVE  i = j
      BY <3>1 DEF IsInjective
    <3>2. o + i \in DOMAIN c /\ o + j \in DOMAIN c
      <4>1. DOMAIN c = 1..Len(c) /\ Len(c) \in Nat
        BY <1>4, LenProperties
      <4>2. o \in Nat /\ u \in Nat /\ o <= u /\ (u = o \/ u <= Len(c)) /\ i \in 1..(u - o) /\ j \in 1..(u - o)
        BY <1>4
      <4>3. o + i \in 1..Len(c) /\ o + j \in 1..Len(c)
        BY <4>1, <4>2
      <4> QED
        BY <4>1, <4>3
    <3>3. c[o + i] = c[o + j]
      BY <2>1
    <3>4. \A e, f \in DOMAIN c : c[e] = c[f] => e = f
      <4>1. F \in Files
        BY <1>4
      <4>2. \A e, f \in DOMAIN content[F] : content[F][e] = content[F][f] => e = f
        BY ONLY <1>9, <4>1, Zenon
      <4> QED
        BY <4>2, Zenon DEF c
    <3>5. o + i = o + j
      BY <3>2, <3>3, <3>4, Zenon
    <3> QED
      BY <1>4, <3>5
  <2> QED
    BY <2>1, <2>2, <2>3, SMTT(30)
<1> HIDE DEF p
<1>15. \A i \in (o + 1)..u : i \in DOMAIN c /\ ~ (i <= o) /\ i <= u
  BY <1>4
<1>16. ToSet(lines) \cap ToSet(p) = {}
  <2> SUFFICES ASSUME NEW i \in (o + 1)..u, c[i] \in ToSet(lines)
               PROVE  FALSE
    BY <1>14
  <2>1. PICK j \in DOMAIN draft : Takes(draft[j], F) /\ i <= draft[j].offset
    BY <1>4, <1>6, <1>7, <1>15 DEF Covered, c
  <2>2. j = k
    BY <1>11, <2>1
  <2> QED
    BY <1>15, <2>1, <2>2 DEF o, g
<1>17. more = lines \o p /\ ToSet(more) = ToSet(lines) \union ToSet(p) /\ IsInjective(more)
  <2>1. more = lines \o p
    BY DEF p, c, o, u, F, g, h
  <2>2. ToSet(lines \o p) = ToSet(lines) \union ToSet(p)
    BY <1>14, ToSetConcat
  <2>3. IsInjective(lines \o p)
    BY <1>7, <1>14, <1>16, InjectiveConcat
  <2> QED
    BY <2>1, <2>2, <2>3
<1>18. ToSet(more) \subseteq 1..written
  BY <1>7, <1>9, <1>14, <1>15, <1>17
<1>19. Covered(draft', more)
  <2> SUFFICES ASSUME NEW f \in Files, Live(f), NEW i \in DOMAIN content[f], content[f][i] \in ToSet(more)
               PROVE  \E j \in DOMAIN draft : Takes(draft'[j], f) /\ i <= draft'[j].offset
    BY <1>2 DEF Covered
  <2>1. CASE content[f][i] \in ToSet(lines)
    <3>1. PICK j \in DOMAIN draft : Takes(draft[j], f) /\ i <= draft[j].offset
      BY <1>7, <2>1 DEF Covered
    <3>2. CASE j # k
      BY <1>2, <3>1, <3>2
    <3>3. CASE j = k
      <4>1. f = F /\ Takes(g, F) /\ i <= o
        BY <1>2, <1>7, <3>1, <3>3 DEF Placed, F, g, o
      <4>2. Takes(h, F)
        BY <1>8, <4>1
      <4>3. i \in Nat /\ i <= u
        BY <1>4, <4>1, SMTT(30) DEF c
      <4> QED
        BY <1>2, <4>1, <4>2, <4>3 DEF h, u
    <3> QED
      BY <3>2, <3>3
  <2>2. CASE content[f][i] \in ToSet(p)
    <3>1. PICK m \in (o + 1)..u : c[m] = content[f][i]
      BY <1>14, <2>2
    <3>2. f = F /\ i = m
      BY <1>4, <1>9, <1>15, <3>1 DEF c
    <3>3. u \in DOMAIN c /\ i <= u
      BY <1>4, <1>15, <3>2
    <3> QED
      BY <1>2, <1>8, <3>2, <3>3 DEF h, u
  <2> QED
    BY <1>17, <2>1, <2>2
<1> QED
  BY <1>10, <1>12, <1>13, <1>17, <1>18, <1>19 DEF Once

LEMMA OnceRead ==
  ASSUME BaseInv, OnceInv, Read
  PROVE  OnceInv'
<1> DEFINE k == looked.gen
           g == draft[k]
           h == draft'[k]
           lines == archived \o records
           p == Piece(content[g.file], g.offset, h.offset)
<1>1. Types /\ LogInv /\ StepInv /\ pc = "read"
  BY DEF BaseInv, Read
<1>2. Changes(k)
      /\ \/ Flagged(h, g) /\ records' = records
         \/ ReadsOn(h, g)
  BY <1>1, ReadShape
<1>3. CASE Flagged(h, g) /\ records' = records
  BY <1>2, <1>3, OnceUnmoved DEF Flagged
<1>4. CASE ReadsOn(h, g)
  <2>1. records' = records \o p
    BY <1>4, Zenon DEF ReadsOn, Piece
  <2>2. g \in Generations
    BY <1>1, <1>2 DEF Changes, Types, CycleTypes
  <2>3. p \in Seq(Nat)
    <3> DEFINE c == content[g.file]  o == g.offset  u == h.offset
    <3>1. c \in Seq(Nat) /\ o \in Nat /\ u \in Nat /\ o <= u /\ (u = o \/ u <= Len(c))
      BY <1>1, <1>4, <2>2, Zenon DEF ReadsOn, Generations, Types, LogTypes
    <3> HIDE DEF c, o, u
    <3>2. SubSeq(c, o + 1, u) \in Seq(Nat)
      BY <3>1, PartOf
    <3> QED
      BY <3>2, Zenon DEF Piece, c, o, u
  <2> HIDE DEF p
  <2>4. archived \in Seq(Nat) /\ records \in Seq(Nat) /\ lines \in Seq(Nat)
    BY <1>1, ConcatProperties DEF Types, CycleTypes
  <2>5. archived \o records' = lines \o p
    <3>1. (archived \o records) \o p = archived \o (records \o p)
      BY <2>3, <2>4, ConcatAssociative
    <3> QED
      BY <2>1, <3>1
  <2>6. ~copying /\ (kind = "copytruncate" => 1 \in visible) /\ Once(draft, lines, TRUE)
    BY <1>1 DEF OnceInv, Between
  <2> HIDE DEF lines
  <2>7. Once(draft', lines \o p, TRUE)
    BY <1>1, <1>2, <1>4, <2>4, <2>6, OnceReadsOn DEF p
  <2> QED
    BY <2>5, <2>7, OnceOn, Zenon
<1> QED
  BY <1>2, <1>3, <1>4

-------------------------------------------------------------------------------
(* When the generations are matched, each finds the file its lines are in. *)

MatchStart ==
  /\ draft = gens /\ ~copying /\ archived' \o records' = archived
  /\ Once(draft, archived, FALSE)
  /\ \A k \in DOMAIN draft : draft[k] \in Generations
  /\ DOMAIN held \subseteq Files
  /\ kind = "copytruncate" =>
       /\ unread' = {} /\ 1 \in visible /\ 1 \in DOMAIN held /\ Live(1)
       /\ \A f \in DOMAIN held : held[f].active => f = 1
       /\ \A f : Live(f) => f \in DOMAIN held

LEMMA MatchStarts ==
  ASSUME BaseInv, OnceInv, Match, ~SeenCopies
  PROVE  MatchStart
<1>1. Types /\ LogInv /\ StepInv /\ Between /\ Once(gens, archived, FALSE)
  BY DEF BaseInv, OnceInv
<1>2. pc = "open" /\ names = {} /\ UNCHANGED <<archived, records>> /\ (kind = "copytruncate" => unread' = {})
  BY DEF Match, stored
<1>3. draft = gens /\ archived' \o records' = archived
  <2>1. draft = gens /\ records = <<>> /\ archived \in Seq(Nat)
    BY <1>1, <1>2 DEF StepInv, Types, CycleTypes
  <2> QED
    BY <1>2, <2>1, ConcatEmptySeq
<1>4. ~copying
  BY <1>1, <1>2 DEF Between
<1>5. (\A k \in DOMAIN draft : draft[k] \in Generations) /\ DOMAIN held \subseteq Files
  BY <1>1 DEF Types, CycleTypes
<1>6. ASSUME kind = "copytruncate"
      PROVE  /\ 1 \in visible /\ 1 \in DOMAIN held /\ Live(1)
             /\ \A f \in DOMAIN held : held[f].active => f = 1
             /\ \A f : Live(f) => f \in DOMAIN held
  <2>1. \A n \in DOMAIN dir : dir[n] \in DOMAIN held \cap visible
    BY <1>1, <1>2, <1>6 DEF Between
  <2>2. 1 \in DOMAIN dir /\ dir[1] = 1
    BY <1>1, <1>6, LogFacts DEF LogInv
  <2> QED
    BY <1>1, <1>6, <2>1, <2>2 DEF Between, Live
<1> QED
  BY <1>1, <1>2, <1>3, <1>4, <1>5, <1>6 DEF MatchStart

\* The lines of a generation are the same ones after the match.
LEMMA MatchedLines ==
  ASSUME Types, Match, NEW k \in DOMAIN draft
  PROVE  /\ draft'[k].offset = draft[k].offset /\ draft'[k].first = draft[k].first /\ draft'[k].last = draft[k].last
         /\ \A f : (Takes(draft'[k], f) <=> Takes(draft[k], f)) /\ (Matches(draft'[k], f) <=> Matches(draft[k], f))
         /\ k \in work' <=> ~draft'[k].closed
<1>1. Rests(k) \/ Goes(k) \/ Stops(k)
  BY MatchShape
<1>2. draft'[k].offset = draft[k].offset /\ draft'[k].first = draft[k].first /\ draft'[k].last = draft[k].last
  BY <1>1 DEF Rests, Goes, Stops, CopiedTo, EndedAs, SameRead
<1>3. k \in work' <=> ~draft'[k].closed
  BY <1>1 DEF Rests, Goes, Stops, CopiedTo, EndedAs
<1> QED
  BY <1>2, <1>3 DEF Takes, Matches

\* No other generation that is read on has the file a generation's lines are in.
LEMMA MatchedOther ==
  ASSUME Types, LogInv, Match, MatchStart, NEW k \in DOMAIN draft, NEW j \in DOMAIN draft, j # k, j \in work',
         Takes(draft[k], draft'[j].file)
  PROVE  FALSE
<1> DEFINE f == draft'[j].file
<1>1. Rests(j) \/ Goes(j) \/ Stops(j)
  BY MatchShape
<1>2. Apart(draft) /\ Exact(draft) /\ ~copying /\ draft[k] \in Generations /\ draft[j] \in Generations
  BY DEF MatchStart, Once
<1>3. CASE Rests(j)
  <2>1. ~draft[j].closed /\ draft[j].file = f
    BY <1>3 DEF Rests
  <2> QED
    BY <1>2, <2>1 DEF Apart
<1>4. CASE Goes(j)
  <2>1. f \in Files /\ draft[j].offset > 0 /\ Matches(draft[j], f)
    BY <1>4 DEF Goes, MatchStart
  <2>2. Takes(draft[j], f)
    BY <1>2, <2>1, MatchesTakes
  <2>3. draft[k].first = draft[j].first /\ draft[k].offset > 0
    BY <2>2 DEF Takes
  <2>4. draft[k].first = 0
    BY <1>2, <2>1, <2>3 DEF Apart
  <2>5. draft[k].first # 0
    BY <1>2, <2>1, TakesMatches DEF Exact
  <2> QED
    BY <2>4, <2>5
<1>5. CASE Stops(j)
  BY <1>5 DEF Stops
<1> QED
  BY <1>1, <1>3, <1>4, <1>5

\* A generation finds the file its lines are in, if that can be read.
LEMMA MatchedFile ==
  ASSUME Types, LogInv, Match, MatchStart, NEW k \in DOMAIN draft, NEW f \in Files, Live(f), Takes(draft[k], f)
  PROVE  draft'[k].file = f
<1> DEFINE g == draft[k]
           h == draft'[k]
<1>1. Rests(k) \/ Goes(k) \/ Stops(k)
  BY MatchShape
<1>2. Placed(draft, FALSE) /\ ~copying /\ g \in Generations /\ Named(g) /\ g.offset > 0
  BY DEF MatchStart, Once, Exact, Takes
<1>3. g.file = f \/ (kind = "copytruncate" /\ ~g.closed /\ g.file = 1)
  BY <1>2 DEF Placed, Moved
<1>4. ASSUME NEW e \in Files, Matches(g, e)
      PROVE  e = f
  <2>1. Takes(g, e)
    BY <1>2, <1>4, MatchesTakes
  <2> QED
    BY <1>2, <2>1, TakesUnique
<1>5. CASE Rests(k)
  <2>1. CASE g.file = f
    BY <1>5, <2>1 DEF Rests
  <2>2. CASE kind = "copytruncate" /\ ~g.closed /\ g.file = 1
    <3>1. Matches(g, 1) /\ 1 \in Files
      BY <1>5, <2>2 DEF Rests, MatchStart
    <3> QED
      BY <1>4, <1>5, <2>2, <3>1 DEF Rests
  <2> QED
    BY <1>3, <2>1, <2>2
<1>6. CASE Goes(k)
  BY <1>4, <1>6 DEF Goes, MatchStart
<1>7. CASE Stops(k)
  <2>1. h.file = g.file
    BY <1>7 DEF Stops, EndedAs
  <2> SUFFICES ASSUME g.file # f
               PROVE  FALSE
    BY <2>1
  <2>2. kind = "copytruncate" /\ f # 1 /\ f \in DOMAIN held /\ ~held[f].active
    BY <1>3 DEF MatchStart
  <2>3. Matches(g, f)
    BY <1>2, TakesMatches
  <2>4. \A j \in DOMAIN draft : j \in work' => draft'[j].file # f
    <3> SUFFICES ASSUME NEW j \in DOMAIN draft, j \in work', draft'[j].file = f
                 PROVE  FALSE
      OBVIOUS
    <3>1. j # k
      BY <1>7 DEF Stops
    <3> QED
      BY <3>1, MatchedOther
  <2>5. PICK e \in DOMAIN held : e # f /\ Matches(g, e)
    BY <1>2, <1>7, <2>2, <2>3, <2>4 DEF Stops
  <2> QED
    BY <1>4, <2>5 DEF MatchStart
<1> QED
  BY <1>1, <1>5, <1>6, <1>7

\* A file that a new generation starts with holds no line that was taken.
LEMMA StartsFresh ==
  ASSUME Types, LogInv, Match, MatchStart, NEW j \in DOMAIN draft', j \notin DOMAIN draft
  PROVE  /\ draft'[j].offset = 0 /\ ~draft'[j].closed /\ draft'[j].file \in DOMAIN held
         /\ \A k \in DOMAIN draft : ~Takes(draft[k], draft'[j].file)
<1>1. Starts(j)
  BY MatchShape
<1>2. PICK f \in DOMAIN held :
        /\ draft'[j] = NewGeneration(f) /\ j \in work'
        /\ \A k \in DOMAIN draft : k \in work' => draft'[k].file # f
        /\ \A k \in DOMAIN draft : ~ (draft'[k].closed /\ draft'[k].file = f /\ Matches(draft'[k], f))
  BY <1>1 DEF Starts
<1>3. draft'[j].offset = 0 /\ ~draft'[j].closed /\ draft'[j].file = f
  BY <1>2 DEF NewGeneration
<1>4. ASSUME NEW k \in DOMAIN draft, Takes(draft[k], f)
      PROVE  FALSE
  <2>1. f \in Files /\ Live(f)
    BY DEF MatchStart, Live
  <2>2. draft'[k].file = f
    BY <1>4, <2>1, MatchedFile
  <2>3. draft'[k].closed
    BY <1>2, <2>2, MatchedLines
  <2>4. Matches(draft[k], f)
    BY <1>4, <2>1, TakesMatches DEF MatchStart, Once, Exact
  <2> QED
    BY <1>2, <2>2, <2>3, <2>4, MatchedLines
<1> QED
  BY <1>3, <1>4

\* No two generations follow one file after the match.
LEMMA MatchApart ==
  ASSUME Types, LogInv, Match, MatchStart
  PROVE  Apart(draft')
<1>1. Apart(draft) /\ work' \subseteq DOMAIN draft'
  BY MatchShape DEF MatchStart, Once
<1>2. \A k \in DOMAIN draft' : ~draft'[k].closed => k \in work'
  <2> SUFFICES ASSUME NEW k \in DOMAIN draft', ~draft'[k].closed
               PROVE  k \in work'
    OBVIOUS
  <2>1. CASE k \in DOMAIN draft
    BY <2>1, MatchedLines
  <2>2. CASE k \notin DOMAIN draft
    BY <2>2, MatchShape DEF Starts
  <2> QED
    BY <2>1, <2>2
<1>3. \A k \in DOMAIN draft' : draft'[k].offset > 0 =>
        /\ k \in DOMAIN draft /\ draft[k].offset > 0 /\ draft'[k].first = draft[k].first
        /\ \A f : Takes(draft'[k], f) <=> Takes(draft[k], f)
  <2> TAKE k \in DOMAIN draft'
  <2>1. CASE k \in DOMAIN draft
    BY <2>1, MatchedLines
  <2>2. CASE k \notin DOMAIN draft
    BY <2>2, StartsFresh
  <2> QED
    BY <2>1, <2>2
<1> SUFFICES ASSUME NEW k \in DOMAIN draft', NEW j \in DOMAIN draft', k # j
             PROVE  /\ ~draft'[k].closed /\ ~draft'[j].closed => draft'[k].file # draft'[j].file
                    /\ draft'[k].offset > 0 /\ draft'[j].offset > 0 /\ draft'[k].first = draft'[j].first => draft'[k].first = 0
                    /\ ~draft'[j].closed => ~Takes(draft'[k], draft'[j].file)
  BY DEF Apart
<1>4. ASSUME ~draft'[k].closed, ~draft'[j].closed, draft'[k].file = draft'[j].file
      PROVE  FALSE
  <2>1. k \in work' /\ j \in work'
    BY <1>2, <1>4
  <2>2. \A i \in {k, j} : i \in DOMAIN draft /\ Rests(i) /\ ~draft[i].closed
    BY <1>4, <2>1, MatchShape
  <2>3. draft'[k] = draft[k] /\ draft'[j] = draft[j] /\ k \in DOMAIN draft /\ j \in DOMAIN draft
    BY <2>2 DEF Rests
  <2> QED
    BY <1>1, <1>4, <2>3 DEF Apart
<1>5. ASSUME draft'[k].offset > 0, draft'[j].offset > 0, draft'[k].first = draft'[j].first
      PROVE  draft'[k].first = 0
  BY <1>1, <1>3, <1>5 DEF Apart
<1>6. ASSUME ~draft'[j].closed, Takes(draft'[k], draft'[j].file)
      PROVE  FALSE
  <2>1. k \in DOMAIN draft /\ Takes(draft[k], draft'[j].file)
    BY <1>3, <1>6 DEF Takes
  <2>2. CASE j \in DOMAIN draft
    BY <1>2, <1>6, <2>1, <2>2, MatchedOther
  <2>3. CASE j \notin DOMAIN draft
    BY <2>1, <2>3, StartsFresh
  <2> QED
    BY <2>2, <2>3
<1> QED
  BY <1>4, <1>5, <1>6

\* A generation that takes the active log is not ended.
LEMMA MatchPlaced ==
  ASSUME Types, LogInv, Match, MatchStart
  PROVE  Placed(draft', TRUE)
<1>1. Placed(draft, FALSE) /\ ~copying
  BY DEF MatchStart, Once
<1> SUFFICES ASSUME NEW k \in DOMAIN draft'
             PROVE  /\ \A f \in Files : Live(f) /\ Takes(draft'[k], f) => draft'[k].file = f
                    /\ kind = "copytruncate" /\ Takes(draft'[k], 1) => ~draft'[k].closed
  BY DEF Placed
<1>2. CASE k \notin DOMAIN draft
  <2>1. \A f : ~Takes(draft'[k], f)
    BY <1>2, StartsFresh DEF Takes
  <2> QED
    BY <2>1
<1>3. CASE k \in DOMAIN draft
  <2>1. ASSUME NEW f \in Files, Live(f), Takes(draft'[k], f)
        PROVE  draft'[k].file = f
    BY <1>3, <2>1, MatchedLines, MatchedFile
  <2>2. ASSUME kind = "copytruncate", Takes(draft'[k], 1)
        PROVE  ~draft'[k].closed
    <3>1. Takes(draft[k], 1) /\ ~draft[k].closed
      BY <1>1, <1>3, <2>2, MatchedLines DEF Placed
    <3>2. 1 \in Files /\ Live(1) /\ 1 \in DOMAIN held
      BY <2>2 DEF MatchStart
    <3>3. draft'[k].file = 1
      BY <1>3, <2>1, <2>2, <3>2
    <3>4. Matches(draft[k], 1)
      BY <1>1, <1>3, <3>1, <3>2, TakesMatches DEF MatchStart, Once, Exact
    <3>5. CASE Stops(k)
      <4>1. Gone(draft[k]) /\ draft[k].file = 1
        BY <3>3, <3>5 DEF Stops, EndedAs
      <4> QED
        BY <3>2, <3>4, <4>1 DEF Gone
    <3> QED
      BY <1>3, <3>1, <3>5, MatchShape DEF Rests, Goes, CopiedTo
  <2> QED
    BY <2>1, <2>2
<1> QED
  BY <1>2, <1>3

LEMMA OnceMatch ==
  ASSUME BaseInv, OnceInv, Match, ~SeenCopies
  PROVE  OnceInv'
<1>1. UNCHANGED logs /\ Types /\ LogInv /\ MatchStart
  BY CycleLogs, MatchStarts DEF CycleNext, BaseInv
<1>2. pc' = "stat" /\ UNCHANGED <<gens, archived, held, visible>> /\ archived' \o records' = archived
  BY <1>1 DEF Match, MatchStart, stored
<1>3. UNCHANGED <<content, dir, kind, copying, made, written>>
  BY <1>1 DEF logs
<1>4. \A f \in Files : Live(f)' => Live(f)
  BY <1>2, <1>3 DEF Live
<1>5. Between'
  BY <1>1, <1>2, <1>3 DEF Between, MatchStart
<1>6. Once(gens, archived, FALSE)'
  BY <1>1, <1>2, <1>4, GensOnce DEF OnceInv
<1>7. Exact(draft')
  <2> SUFFICES ASSUME NEW k \in DOMAIN draft'
               PROVE  Named(draft'[k])
    BY DEF Exact
  <2>1. CASE k \in DOMAIN draft
    <3>1. Named(draft[k])
      BY <1>1, <2>1 DEF MatchStart, Once, Exact
    <3> QED
      BY <1>1, <2>1, <3>1, MatchedLines DEF Named
  <2>2. CASE k \notin DOMAIN draft
    BY <1>1, <2>2, StartsFresh DEF Named
  <2> QED
    BY <2>1, <2>2
<1>8. Covered(draft', archived)
  <2>1. Covered(draft, archived) /\ DOMAIN draft \subseteq DOMAIN draft'
    BY <1>1, MatchShape DEF MatchStart, Once
  <2>2. \A k \in DOMAIN draft : draft'[k].offset = draft[k].offset /\ \A f : Takes(draft'[k], f) <=> Takes(draft[k], f)
    BY <1>1, MatchedLines
  <2> QED
    BY <2>1, <2>2 DEF Covered
<1>9. Once(draft', archived, TRUE)
  BY <1>1, <1>7, <1>8, MatchApart, MatchPlaced DEF Once, MatchStart
<1>10. Once(draft, archived \o records, TRUE)'
  BY <1>1, <1>2, <1>4, <1>9, DraftOnce
<1> QED
  BY <1>2, <1>5, <1>6, <1>10 DEF OnceInv

LEMMA OnceStutter ==
  ASSUME OnceInv, UNCHANGED vars
  PROVE  OnceInv'
<1>1. UNCHANGED logs /\ UNCHANGED <<gens, archived, held, pc, names, visible, draft, unread, records>>
  BY DEF vars, stored, cycle
<1>2. UNCHANGED <<content, dir, kind, copying, made, written>>
  BY <1>1 DEF logs
<1>3. \A f \in Files : Live(f)' => Live(f)
  BY <1>1, <1>2 DEF Live
<1>4. Between'
  BY <1>1, <1>2 DEF OnceInv, Between
<1>5. Once(gens, archived, FALSE)'
  BY <1>1, <1>3, GensOnce DEF OnceInv
<1>6. pc' \in {"stat", "read"} => Once(draft, archived \o records, TRUE)'
  BY <1>1, <1>3, DraftOnce DEF OnceInv
<1> QED
  BY <1>4, <1>5, <1>6 DEF OnceInv

LEMMA OnceInit ==
  ASSUME Init
  PROVE  OnceInv
<1>1. gens = <<>> /\ archived = <<>> /\ DOMAIN held = {} /\ pc = "idle" /\ \A f \in Files : content[f] = <<>>
  BY DEF Init
<1>2. DOMAIN <<>> = {} /\ ToSet(<<>>) = {} /\ IsInjective(<<>>)
  BY DEF ToSet, IsInjective
<1>3. Between
  BY <1>1 DEF Between
<1>4. Exact(gens) /\ Apart(gens) /\ Placed(gens, FALSE) /\ Covered(gens, archived)
  BY <1>1, <1>2 DEF Exact, Apart, Placed, Covered
<1> QED
  BY <1>1, <1>2, <1>3, <1>4 DEF OnceInv, Once

LEMMA OnceStep ==
  ASSUME BaseInv, BaseInv', OnceInv, [Next]_vars, ~SeenCopies
  PROVE  OnceInv'
BY OnceInvLog, OnceBegin, OnceOpen, OnceMatch, OnceStat, OnceRead, OnceReadFails, OnceCommit, OnceRestart, OnceStutter
   DEF Next, LogNext

\* No line is archived twice, whatever the rotation renames, removes or empties and
\* whenever the archiver restarts or fails to read (collector.js cycle): LineOnce, where
\* a cycle does not run into a copytruncate half done. Where it does, it is not so.
THEOREM LineOnceHolds == ASSUME ~SeenCopies PROVE Spec => []LineOnce
<1>1. Init => OnceInv
  BY OnceInit
<1>2. BaseInv /\ BaseInv' /\ OnceInv /\ [Next]_vars => OnceInv'
  BY OnceStep
<1>3. OnceInv => LineOnce
  BY DEF OnceInv, Once, LineOnce
<1> QED
  BY <1>1, <1>2, <1>3, BaseInvariant, PTL DEF Spec

-------------------------------------------------------------------------------
(* What a search finds: the elements of a sequence that are in a set, and  *)
(* sequences put together from others, by recursion over their lengths.    *)

\* The elements of a sequence that are in a set, one after the other.
Chosen(A, s, S) ==
  /\ A[0] = <<>>
  /\ \A k \in 1..Len(s) : A[k] = IF s[k] \in S THEN Append(A[k - 1], s[k]) ELSE A[k - 1]

LEMMA AmongSteps ==
  ASSUME NEW T, NEW s \in Seq(T), NEW S
  PROVE  \E A \in [0..Len(s) -> Seq(T \cap S)] : Chosen(A, s, S) /\ Among(s, S) = A[Len(s)]
<1> DEFINE n == Len(s)
           M == Seq(T \cap S)
           G == [p \in (1..n) \X M |-> IF s[p[1]] \in S THEN Append(p[2], s[p[1]]) ELSE p[2]]
           F == CHOOSE among : among = [i \in 0..n |->
                  IF i = 0 THEN <<>> ELSE IF s[i] \in S THEN Append(among[i - 1], s[i]) ELSE among[i - 1]]
<1>1. n \in Nat /\ <<>> \in M /\ \A k \in 1..n : s[k] \in T
  BY LenProperties, EmptySeq
<1>2. ASSUME NEW k \in 1..n, NEW x \in M
      PROVE  G[<<k, x>>] \in M /\ G[<<k, x>>] = IF s[k] \in S THEN Append(x, s[k]) ELSE x
  <2>1. s[k] \in S => Append(x, s[k]) \in M
    BY <1>1, AppendProperties
  <2>2. G[<<k, x>>] = IF s[k] \in S THEN Append(x, s[k]) ELSE x
    <3>1. <<k, x>> \in (1..n) \X M /\ <<k, x>>[1] = k /\ <<k, x>>[2] = x
      OBVIOUS
    <3> HIDE DEF M
    <3> QED
      BY <3>1
  <2> HIDE DEF G, M
  <2> QED
    BY <2>1, <2>2
<1>3. \A k \in 1..n : \A x \in M : G[<<k, x>>] \in M
  BY <1>2
<1>4. PICK f \in [0..n -> M] : f[0] = <<>> /\ \A k \in 1..n : f[k] = G[<<k, f[k - 1]>>]
  <2>1. StaysIn(G, n, M)
    <3> HIDE DEF G, M, n
    <3> QED
      BY <1>3 DEF StaysIn
  <2>2. \E f : Iterates(f, G, n, M, <<>>)
    <3> HIDE DEF G, M, n
    <3> QED
      BY <1>1, <2>1, Recursion
  <2> HIDE DEF G, M, n
  <2> QED
    BY <2>2 DEF Iterates
<1>5. \A k \in 1..n : f[k] = IF s[k] \in S THEN Append(f[k - 1], s[k]) ELSE f[k - 1]
  <2> TAKE k \in 1..n
  <2>1. k - 1 \in 0..n /\ f[k - 1] \in M
    BY <1>1, <1>4
  <2> HIDE DEF G, M
  <2> QED
    BY <1>2, <1>4, <2>1
<1>6. f = [i \in 0..n |-> IF i = 0 THEN <<>> ELSE IF s[i] \in S THEN Append(f[i - 1], s[i]) ELSE f[i - 1]]
  <2>1. f = [k \in 0..n |-> f[k]]
    BY <1>4
  <2>2. \A i \in 0..n : f[i] = IF i = 0 THEN <<>> ELSE IF s[i] \in S THEN Append(f[i - 1], s[i]) ELSE f[i - 1]
    <3>1. f[0] = <<>> /\ \A i \in 0..n : i = 0 \/ (i # 0 /\ i \in 1..n)
      BY <1>1, <1>4
    <3> HIDE DEF M, n
    <3> QED
      BY <1>5, <3>1, Zenon
  <2> HIDE DEF M, n
  <2> QED
    BY <2>1, <2>2, Zenon
<1>7. F = [i \in 0..n |-> IF i = 0 THEN <<>> ELSE IF s[i] \in S THEN Append(F[i - 1], s[i]) ELSE F[i - 1]]
  <2> HIDE DEF n
  <2> QED
    BY <1>6, Zenon
<1>8. Among(s, S) = F[n]
  BY Zenon DEF Among
<1> HIDE DEF F
<1>9. F[0] = <<>> /\ \A k \in 1..n : F[k] = IF s[k] \in S THEN Append(F[k - 1], s[k]) ELSE F[k - 1]
  <2>1. 0 \in 0..n /\ \A k \in 1..n : k \in 0..n /\ k # 0
    BY <1>1
  <2> HIDE DEF n
  <2> QED
    BY <1>7, <2>1
<1>10. \A k \in 0..n : F[k] \in M
  <2> DEFINE Good == {k \in Nat : k <= n => F[k] \in M}
  <2>1. 0 \in Good
    BY <1>1, <1>9
  <2>2. ASSUME NEW k \in Nat, k \in Good
        PROVE  k + 1 \in Good
    <3> SUFFICES ASSUME k + 1 <= n
                 PROVE  F[k + 1] \in M
      OBVIOUS
    <3>1. k + 1 \in 1..n /\ (k + 1) - 1 = k /\ F[k] \in M
      BY <1>1, <2>2
    <3>2. F[k + 1] = IF s[k + 1] \in S THEN Append(F[k], s[k + 1]) ELSE F[k]
      BY <1>9, <3>1
    <3>3. s[k + 1] \in S => Append(F[k], s[k + 1]) \in M
      BY <1>1, <3>1, AppendProperties
    <3> HIDE DEF M
    <3> QED
      BY <3>1, <3>2, <3>3
  <2>3. \A k \in Nat : k \in Good
    <3> HIDE DEF Good
    <3> QED
      BY <2>1, <2>2, NaturalsAll
  <2> QED
    BY <1>1, <2>3
<1>11. F \in [0..n -> M]
  <2>1. DOMAIN F = 0..n /\ F = [k \in DOMAIN F |-> F[k]]
    <3> HIDE DEF n
    <3> QED
      BY <1>7
  <2> HIDE DEF M, n
  <2> QED
    BY <1>10, <2>1
<1>12. Chosen(F, s, S)
  BY <1>9 DEF Chosen
<1> HIDE DEF M
<1> QED
  BY <1>8, <1>11, <1>12

LEMMA AmongType ==
  ASSUME NEW T, NEW s \in Seq(T), NEW S
  PROVE  Among(s, S) \in Seq(T \cap S)
<1>1. Len(s) \in Nat
  BY LenProperties
<1>2. PICK A \in [0..Len(s) -> Seq(T \cap S)] : Among(s, S) = A[Len(s)]
  BY AmongSteps
<1> QED
  BY <1>1, <1>2

\* What is found in one sequence after another.
LEMMA AmongConcat ==
  ASSUME NEW T, NEW s \in Seq(T), NEW t \in Seq(T), NEW S
  PROVE  Among(s \o t, S) = Among(s, S) \o Among(t, S)
<1> DEFINE n == Len(s)
           m == Len(t)
           u == s \o t
           Q == Seq(T \cap S)
<1>1. /\ n \in Nat /\ m \in Nat /\ u \in Seq(T) /\ Len(u) = n + m
      /\ \A k \in 1..n : u[k] = s[k]
      /\ \A k \in 1..m : u[n + k] = t[k] /\ t[k] \in T
  BY ConcatProperties, LenProperties
<1> HIDE DEF u
<1>9. \A a, b, c \in Seq(T \cap S) : (a \o b) \o c = a \o (b \o c)
  <2> DEFINE U == T \cap S
  <2> HIDE DEF U
  <2>1. \A a, b, c \in Seq(U) : (a \o b) \o c = a \o (b \o c)
    BY ConcatAssociative
  <2> QED
    BY <2>1 DEF U
<1>2. PICK A \in [0..n -> Q] : Chosen(A, s, S) /\ Among(s, S) = A[n]
  BY AmongSteps
<1>3. PICK B \in [0..m -> Q] : Chosen(B, t, S) /\ Among(t, S) = B[m]
  BY AmongSteps
<1>4. PICK C \in [0..Len(u) -> Q] : Chosen(C, u, S) /\ Among(u, S) = C[Len(u)]
  BY <1>1, AmongSteps
<1>5. /\ A[0] = <<>> /\ \A k \in 1..n : A[k] = IF s[k] \in S THEN Append(A[k - 1], s[k]) ELSE A[k - 1]
      /\ B[0] = <<>> /\ \A k \in 1..m : B[k] = IF t[k] \in S THEN Append(B[k - 1], t[k]) ELSE B[k - 1]
      /\ C[0] = <<>> /\ \A k \in 1..(n + m) : C[k] = IF u[k] \in S THEN Append(C[k - 1], u[k]) ELSE C[k - 1]
  BY <1>1, <1>2, <1>3, <1>4 DEF Chosen
<1>8. Among(u, S) = C[n + m]
  BY <1>1, <1>4
<1> HIDE DEF Q, n, m
<1>6. C[n] = A[n]
  <2> DEFINE Good == {k \in Nat : k <= n => C[k] = A[k]}
  <2>1. 0 \in Good
    BY <1>5
  <2>2. ASSUME NEW k \in Nat, k \in Good
        PROVE  k + 1 \in Good
    <3> SUFFICES ASSUME k + 1 <= n
                 PROVE  C[k + 1] = A[k + 1]
      OBVIOUS
    <3>1. k + 1 \in 1..n /\ k + 1 \in 1..(n + m) /\ (k + 1) - 1 = k /\ C[k] = A[k]
      BY <1>1, <2>2
    <3>2. A[k + 1] = IF s[k + 1] \in S THEN Append(A[k], s[k + 1]) ELSE A[k]
      BY <1>5, <3>1
    <3>3. C[k + 1] = IF u[k + 1] \in S THEN Append(C[k], u[k + 1]) ELSE C[k]
      BY <1>5, <3>1
    <3> QED
      BY <1>1, <3>1, <3>2, <3>3
  <2>3. \A k \in Nat : k \in Good
    <3> HIDE DEF Good
    <3> QED
      BY <2>1, <2>2, NaturalsAll
  <2> QED
    BY <1>1, <2>3
<1>7. C[n + m] = A[n] \o B[m]
  <2> DEFINE Good == {k \in Nat : k <= m => C[n + k] = A[n] \o B[k]}
  <2>1. 0 \in Good
    <3>1. A[n] \in Q /\ A[n] \o <<>> = A[n] /\ n + 0 = n
      BY <1>1, <1>2, ConcatEmptySeq DEF Q
    <3> QED
      BY <1>5, <1>6, <3>1
  <2>2. ASSUME NEW k \in Nat, k \in Good
        PROVE  k + 1 \in Good
    <3> SUFFICES ASSUME k + 1 <= m
                 PROVE  C[n + (k + 1)] = A[n] \o B[k + 1]
      BY <1>1, SMTT(30)
    <3> DEFINE x == t[k + 1]
    <3>1. /\ k + 1 \in 1..m /\ n + (k + 1) \in 1..(n + m) /\ (k + 1) - 1 = k /\ (n + (k + 1)) - 1 = n + k
          /\ C[n + k] = A[n] \o B[k] /\ A[n] \in Q /\ B[k] \in Q /\ x \in T /\ u[n + (k + 1)] = x
      BY <1>1, <1>2, <1>3, <2>2
    <3>2. B[k + 1] = IF x \in S THEN Append(B[k], x) ELSE B[k]
      BY <1>5, <3>1
    <3>3. C[n + (k + 1)] = IF x \in S THEN Append(C[n + k], x) ELSE C[n + k]
      BY <1>5, <3>1
    <3>4. ASSUME x \in S
          PROVE  Append(A[n] \o B[k], x) = A[n] \o Append(B[k], x)
      <4> DEFINE a == A[n]
                 b == B[k]
                 c == <<x>>
                 U == T \cap S
      <4>1. a \in Seq(U) /\ b \in Seq(U) /\ x \in U
        BY <3>1, <3>4 DEF Q
      <4> HIDE DEF a, b, U
      <4>2. c \in Seq(U) /\ a \o b \in Seq(U)
        BY <4>1, ConcatProperties
      <4>3. Append(a \o b, x) = (a \o b) \o c /\ Append(b, x) = b \o c
        BY <4>1, <4>2, AppendIsConcat
      <4>4. (a \o b) \o c = a \o (b \o c)
        BY <1>9, <4>1, <4>2, Zenon DEF U
      <4> QED
        BY <4>3, <4>4 DEF a, b
    <3> QED
      BY <3>1, <3>2, <3>3, <3>4
  <2>3. \A k \in Nat : k \in Good
    <3> HIDE DEF Good
    <3> QED
      BY <2>1, <2>2, NaturalsAll
  <2>4. m \in Good
    BY <1>1, <2>3
  <2> QED
    BY <1>1, <2>4
<1> QED
  BY <1>2, <1>3, <1>7, <1>8 DEF u


\* The sequences put together so far.
Joined(A, s) ==
  /\ Len(s) > 0 => A[1] = s[1]
  /\ \A k \in 2..Len(s) : A[k] = A[k - 1] \o s[k]

LEMMA FlattenSteps ==
  ASSUME NEW T, NEW s \in Seq(Seq(T)), Len(s) > 0
  PROVE  \E A \in [1..Len(s) -> Seq(T)] : Joined(A, s) /\ FlattenSeq(s) = A[Len(s)]
<1> DEFINE n == Len(s)
           M == Seq(T)
           G == [p \in (1..n) \X M |-> IF p[1] = 1 THEN s[1] ELSE p[2] \o s[p[1]]]
           F == CHOOSE flatten : flatten = [i \in 1..n |->
                  IF i = 1 THEN s[i] ELSE flatten[i - 1] \o s[i]]
<1>1. n \in Nat /\ n > 0 /\ <<>> \in M /\ \A k \in 1..n : s[k] \in M
  BY LenProperties, EmptySeq
<1>2. ASSUME NEW k \in 1..n, NEW x \in M
      PROVE  G[<<k, x>>] \in M /\ G[<<k, x>>] = IF k = 1 THEN s[1] ELSE x \o s[k]
  <2>1. x \o s[k] \in M
    BY <1>1, ConcatProperties
  <2>2. G[<<k, x>>] = IF k = 1 THEN s[1] ELSE x \o s[k]
    <3>1. <<k, x>> \in (1..n) \X M /\ <<k, x>>[1] = k /\ <<k, x>>[2] = x
      OBVIOUS
    <3> HIDE DEF M
    <3> QED
      BY <3>1
  <2>3. s[1] \in M
    BY <1>1
  <2> HIDE DEF G, M
  <2> QED
    BY <2>1, <2>2, <2>3
<1>3. \A k \in 1..n : \A x \in M : G[<<k, x>>] \in M
  BY <1>2
<1>4. PICK f \in [0..n -> M] : f[0] = <<>> /\ \A k \in 1..n : f[k] = G[<<k, f[k - 1]>>]
  <2>1. StaysIn(G, n, M)
    <3> HIDE DEF G, M, n
    <3> QED
      BY <1>3 DEF StaysIn
  <2>2. \E f : Iterates(f, G, n, M, <<>>)
    <3> HIDE DEF G, M, n
    <3> QED
      BY <1>1, <2>1, Recursion
  <2> HIDE DEF G, M, n
  <2> QED
    BY <2>2 DEF Iterates
<1>5. \A k \in 1..n : f[k] = IF k = 1 THEN s[1] ELSE f[k - 1] \o s[k]
  <2> TAKE k \in 1..n
  <2>1. k - 1 \in 0..n
    BY <1>1
  <2>2. f[k - 1] \in M
    <3> HIDE DEF G, M, n
    <3> QED
      BY <1>4, <2>1
  <2> HIDE DEF G, M
  <2> QED
    BY <1>2, <1>4, <2>1, <2>2
<1> DEFINE g == [i \in 1..n |-> f[i]]
<1>6. g = [i \in 1..n |-> IF i = 1 THEN s[i] ELSE g[i - 1] \o s[i]]
  <2>1. \A i \in 1..n : i # 1 => i - 1 \in 1..n
    BY <1>1
  <2>2. \A i \in 1..n : g[i] = IF i = 1 THEN s[i] ELSE g[i - 1] \o s[i]
    <3> TAKE i \in 1..n
    <3>1. g[i] = f[i] /\ (i # 1 => g[i - 1] = f[i - 1])
      BY <2>1
    <3> HIDE DEF g, M, n
    <3> QED
      BY <1>5, <3>1
  <2>3. g = [i \in 1..n |-> g[i]]
    OBVIOUS
  <2> HIDE DEF g, M, n
  <2> QED
    BY <2>2, <2>3, Zenon
<1>7. F = [i \in 1..n |-> IF i = 1 THEN s[i] ELSE F[i - 1] \o s[i]]
  <2> HIDE DEF n, g
  <2> QED
    BY <1>6, Zenon
<1>8. FlattenSeq(s) = F[n]
  <2>1. Len(s) # 0
    BY <1>1
  <2> QED
    BY <2>1, Zenon DEF FlattenSeq
<1> HIDE DEF F
<1>9. F[1] = s[1] /\ \A k \in 2..n : F[k] = F[k - 1] \o s[k]
  <2>1. 1 \in 1..n /\ \A k \in 2..n : k \in 1..n /\ k # 1
    BY <1>1
  <2> HIDE DEF n
  <2> QED
    BY <1>7, <2>1
<1>10. \A k \in 1..n : F[k] \in M
  <2> DEFINE Good == {k \in Nat : k + 1 <= n => F[k + 1] \in M}
  <2>1. 0 \in Good
    BY <1>1, <1>9
  <2>2. ASSUME NEW k \in Nat, k \in Good
        PROVE  k + 1 \in Good
    <3> SUFFICES ASSUME k + 2 <= n
                 PROVE  F[k + 2] \in M
      OBVIOUS
    <3>1. k + 2 \in 1..n /\ k + 2 \in 2..n /\ (k + 2) - 1 = k + 1 /\ F[k + 1] \in M /\ s[k + 2] \in M
      BY <1>1, <2>2
    <3>2. F[k + 2] = F[k + 1] \o s[k + 2]
      BY <1>9, <3>1
    <3> QED
      BY <3>1, <3>2, ConcatProperties
  <2>3. \A k \in Nat : k \in Good
    <3> HIDE DEF Good
    <3> QED
      BY <2>1, <2>2, NaturalsAll
  <2> TAKE k \in 1..n
  <2>4. k - 1 \in Nat /\ (k - 1) + 1 = k /\ k <= n
    BY <1>1
  <2>5. k - 1 \in Good
    <3> HIDE DEF Good
    <3> QED
      BY <2>3, <2>4
  <2> QED
    BY <2>4, <2>5
<1>11. F \in [1..n -> M]
  <2>1. DOMAIN F = 1..n /\ F = [k \in DOMAIN F |-> F[k]]
    <3> HIDE DEF n
    <3> QED
      BY <1>7
  <2> HIDE DEF M, n
  <2> QED
    BY <1>10, <2>1
<1>12. Joined(F, s)
  BY <1>9 DEF Joined
<1> QED
  BY <1>8, <1>11, <1>12, Zenon

LEMMA FlattenType ==
  ASSUME NEW T, NEW s \in Seq(Seq(T))
  PROVE  FlattenSeq(s) \in Seq(T) /\ (Len(s) = 0 => FlattenSeq(s) = <<>>)
<1> DEFINE n == Len(s)
           M == Seq(T)
<1>1. CASE n = 0
  <2>1. s = <<>>
    BY <1>1, EmptySeq
  <2>2. FlattenSeq(s) = s
    BY <1>1, Zenon DEF FlattenSeq
  <2> QED
    BY <2>1, <2>2, EmptySeq
<1>2. CASE n # 0
  <2>1. n \in Nat /\ n > 0
    BY <1>2, LenProperties
  <2>2. PICK A \in [1..n -> M] : Joined(A, s) /\ FlattenSeq(s) = A[n]
    BY <2>1, FlattenSteps
  <2>3. n \in 1..n
    BY <2>1
  <2>4. A[n] \in M
    <3> HIDE DEF M, n
    <3> QED
      BY <2>2, <2>3
  <2> QED
    BY <1>2, <2>2, <2>4
<1> QED
  BY <1>1, <1>2

\* One more sequence is put at the end.
LEMMA FlattenMore ==
  ASSUME NEW T, NEW s \in Seq(Seq(T)), NEW x \in Seq(T)
  PROVE  FlattenSeq(s \o <<x>>) = FlattenSeq(s) \o x
<1> DEFINE n == Len(s)
           u == s \o <<x>>
           M == Seq(T)
<1>1. /\ n \in Nat /\ u \in Seq(M) /\ Len(u) = n + 1 /\ u[n + 1] = x
      /\ \A k \in 1..n : u[k] = s[k]
  <2>1. <<x>> \in Seq(M) /\ Len(<<x>>) = 1 /\ <<x>>[1] = x /\ 1 \in 1..1
    OBVIOUS
  <2> QED
    BY <2>1, ConcatProperties, LenProperties
<1> HIDE DEF u
<1>2. PICK C \in [1..Len(u) -> M] : Joined(C, u) /\ FlattenSeq(u) = C[Len(u)]
  <2>1. Len(u) > 0
    BY <1>1
  <2> QED
    BY <1>1, <2>1, FlattenSteps, Zenon
<1>3. C[1] = u[1] /\ (\A k \in 2..(n + 1) : C[k] = C[k - 1] \o u[k]) /\ FlattenSeq(u) = C[n + 1]
  <2>1. Len(u) > 0 /\ Len(u) = n + 1
    BY <1>1
  <2> HIDE DEF n
  <2> QED
    BY <1>2, <2>1 DEF Joined
<1>4. CASE n = 0
  <2>1. FlattenSeq(s) = <<>> /\ <<>> \o x = x
    BY <1>4, FlattenType, ConcatEmptySeq
  <2> QED
    BY <1>1, <1>3, <1>4, <2>1 DEF u
<1>5. CASE n # 0
  <2>1. n > 0
    BY <1>1, <1>5
  <2>2. PICK A \in [1..n -> M] : Joined(A, s) /\ FlattenSeq(s) = A[n]
    BY <2>1, FlattenSteps
  <2>3. A[1] = s[1] /\ \A k \in 2..n : A[k] = A[k - 1] \o s[k]
    BY <2>1, <2>2 DEF Joined
  <2> DEFINE Good == {k \in Nat : k + 1 <= n => C[k + 1] = A[k + 1]}
  <2>4. 0 \in Good
    BY <1>1, <1>3, <2>1, <2>3
  <2>5. ASSUME NEW k \in Nat, k \in Good
        PROVE  k + 1 \in Good
    <3> SUFFICES ASSUME k + 2 <= n
                 PROVE  C[k + 2] = A[k + 2]
      OBVIOUS
    <3>1. k + 2 \in 1..n /\ k + 2 \in 2..n /\ k + 2 \in 2..(n + 1) /\ (k + 2) - 1 = k + 1 /\ C[k + 1] = A[k + 1]
      BY <1>1, <2>5
    <3>2. A[k + 2] = A[k + 1] \o s[k + 2] /\ C[k + 2] = C[k + 1] \o u[k + 2] /\ u[k + 2] = s[k + 2]
      BY <1>1, <1>3, <2>3, <3>1
    <3> QED
      BY <3>1, <3>2
  <2>6. n - 1 \in Good
    <3>1. \A k \in Nat : k \in Good
      <4> HIDE DEF Good
      <4> QED
        BY <2>4, <2>5, NaturalsAll
    <3> HIDE DEF Good
    <3> QED
      BY <1>1, <2>1, <3>1
  <2>7. C[n] = A[n] /\ n + 1 \in 2..(n + 1) /\ (n + 1) - 1 = n
    BY <1>1, <2>1, <2>6
  <2>8. C[n + 1] = C[n] \o u[n + 1]
    BY <1>3, <2>7
  <2> QED
    BY <1>1, <1>3, <2>2, <2>7, <2>8 DEF u
<1> QED
  BY <1>4, <1>5

\* The elements of the whole are those of its parts.
LEMMA FlattenElements ==
  ASSUME NEW T, NEW s \in Seq(Seq(T))
  PROVE  \A x : x \in ToSet(FlattenSeq(s)) <=> \E i \in DOMAIN s : x \in ToSet(s[i])
<1> DEFINE n == Len(s)
           M == Seq(T)
<1>1. n \in Nat /\ DOMAIN s = 1..n /\ \A k \in 1..n : s[k] \in M
  BY LenProperties
<1>2. CASE n = 0
  <2>1. DOMAIN s = {} /\ DOMAIN <<>> = {}
    BY <1>1, <1>2
  <2>2. FlattenSeq(s) = <<>>
    BY <1>2, FlattenType, Zenon
  <2> QED
    BY <2>1, <2>2 DEF ToSet
<1>3. CASE n # 0
  <2>1. n > 0
    BY <1>1, <1>3
  <2>2. PICK A \in [1..n -> M] : Joined(A, s) /\ FlattenSeq(s) = A[n]
    BY <2>1, FlattenSteps
  <2>3. A[1] = s[1] /\ \A k \in 2..n : A[k] = A[k - 1] \o s[k]
    BY <2>1, <2>2 DEF Joined
  <2> DEFINE Has(k) == \A x : x \in ToSet(A[k]) <=> \E i \in 1..k : x \in ToSet(s[i])
             Good == {k \in Nat : k + 1 <= n => Has(k + 1)}
  <2>4. 0 \in Good
    <3>1. 1..(0 + 1) = {1}
      OBVIOUS
    <3> QED
      BY <2>3, <3>1
  <2>5. ASSUME NEW k \in Nat, k \in Good
        PROVE  k + 1 \in Good
    <3> SUFFICES ASSUME k + 2 <= n
                 PROVE  Has(k + 2)
      OBVIOUS
    <3>1. k + 2 \in 1..n /\ k + 2 \in 2..n /\ k + 1 \in 1..n /\ (k + 2) - 1 = k + 1
      BY <1>1
    <3>5. Has(k + 1)
      <4>1. k + 1 <= n
        BY <1>1
      <4> HIDE DEF Has
      <4> QED
        BY <2>5, <4>1
    <3>2. A[k + 2] = A[k + 1] \o s[k + 2] /\ A[k + 1] \in M /\ s[k + 2] \in M
      BY <1>1, <2>3, <3>1
    <3>3. ToSet(A[k + 2]) = ToSet(A[k + 1]) \union ToSet(s[k + 2])
      BY <3>2, ToSetConcat
    <3>4. 1..(k + 2) = (1..(k + 1)) \union {k + 2}
      OBVIOUS
    <3> QED
      BY <3>3, <3>4, <3>5
  <2>6. n - 1 \in Good
    <3>1. \A k \in Nat : k \in Good
      <4> HIDE DEF Good
      <4> QED
        BY <2>4, <2>5, NaturalsAll
    <3> HIDE DEF Good
    <3> QED
      BY <1>1, <2>1, <3>1
  <2>7. Has(n)
    <3>1. (n - 1) + 1 = n /\ n <= n
      BY <1>1
    <3> HIDE DEF Has
    <3> QED
      BY <2>6, <3>1
  <2> QED
    BY <1>1, <2>2, <2>7
<1> QED
  BY <1>2, <1>3

-------------------------------------------------------------------------------
(* Positions in a snapshot, and the lines before them.                     *)

\* The hours of a snapshot, their lines in T.
Pins(T) == Seq([hour : Hours, id : Nat, members : Seq(Seq(T)) \ {<<>>}])

Positions == [hour : Nat, member : Nat, line : Nat, byte : Nat]

\* A position inside a snapshot.
Inside(E, p) ==
  /\ p \in Positions
  /\ p.hour \in 1..Len(E) /\ p.member \in 1..Len(E[p.hour].members)
  /\ p.line \in 0..Len(E[p.hour].members[p.member])

Whole(E, h) == FlattenSeq(E[h].members)
UpTo(E, k) == [h \in 1..k |-> Whole(E, h)]

LEMMA PinTypes ==
  ASSUME NEW T, NEW E \in Pins(T), NEW h \in 1..Len(E)
  PROVE  /\ Len(E) \in Nat /\ E[h].members \in Seq(Seq(T)) /\ E[h].members # <<>>
         /\ Len(E[h].members) \in Nat /\ Len(E[h].members) > 0 /\ Whole(E, h) \in Seq(T)
         /\ \A m \in 1..Len(E[h].members) : E[h].members[m] \in Seq(T) /\ Len(E[h].members[m]) \in Nat
<1>1. Len(E) \in Nat /\ E[h] \in [hour : Hours, id : Nat, members : Seq(Seq(T)) \ {<<>>}]
  BY LenProperties DEF Pins
<1> DEFINE M == E[h].members
<1>2. M \in Seq(Seq(T)) /\ M # <<>>
  BY <1>1
<1> HIDE DEF M
<1>3. Len(M) \in Nat /\ Len(M) # 0 /\ \A m \in 1..Len(M) : M[m] \in Seq(T)
  BY <1>2, LenProperties, EmptySeq
<1>4. \A m \in 1..Len(M) : Len(M[m]) \in Nat
  BY <1>3, LenProperties
<1>5. FlattenSeq(M) \in Seq(T)
  BY <1>2, FlattenType
<1> QED
  BY <1>1, <1>2, <1>3, <1>4, <1>5 DEF M, Whole

LEMMA UpToType ==
  ASSUME NEW T, NEW E \in Pins(T), NEW k \in 0..Len(E)
  PROVE  UpTo(E, k) \in Seq(Seq(T)) /\ Len(UpTo(E, k)) = k
<1>1. \A h \in 1..k : Whole(E, h) \in Seq(T)
  <2>1. Len(E) \in Nat
    BY LenProperties DEF Pins
  <2>2. \A h \in 1..k : h \in 1..Len(E)
    BY <2>1
  <2> QED
    BY <2>2, PinTypes
<1>2. k \in Nat
  OBVIOUS
<1> DEFINE W == Seq(T)
<1> HIDE DEF W
<1> QED
  BY <1>1, <1>2 DEF UpTo, W

LEMMA UpToMore ==
  ASSUME NEW T, NEW E \in Pins(T), NEW h \in 1..Len(E)
  PROVE  UpTo(E, h) = UpTo(E, h - 1) \o <<Whole(E, h)>>
<1>1. Len(E) \in Nat /\ h - 1 \in 0..Len(E) /\ h \in 0..Len(E) /\ Whole(E, h) \in Seq(T)
  BY PinTypes
<1> DEFINE W == Seq(T)
           a == UpTo(E, h - 1)
           b == UpTo(E, h)
           c == <<Whole(E, h)>>
<1>2. a \in Seq(W) /\ b \in Seq(W) /\ Len(a) = h - 1 /\ Len(b) = h
  BY <1>1, UpToType
<1>3. c \in Seq(W) /\ Len(c) = 1 /\ c[1] = Whole(E, h)
  BY <1>1
<1>4. \A i \in 1..h : b[i] = Whole(E, i)
  BY DEF UpTo
<1>5. \A i \in 1..h - 1 : a[i] = Whole(E, i)
  BY DEF UpTo
<1> HIDE DEF a, b, c, W
<1>6. a \o c \in Seq(W) /\ Len(a \o c) = h
  <2>1. a \o c \in Seq(W) /\ Len(a \o c) = Len(a) + Len(c)
    BY <1>2, <1>3, ConcatProperties
  <2>2. h \in Nat
    BY <1>1
  <2> QED
    BY <1>2, <1>3, <2>1, <2>2
<1>7. \A i \in 1..h : (a \o c)[i] = b[i]
  <2> TAKE i \in 1..h
  <2>1. CASE i = h
    <3>1. (a \o c)[(h - 1) + 1] = c[1] /\ (h - 1) + 1 = h
      BY <1>2, <1>3, ConcatProperties
    <3> QED
      BY <1>3, <1>4, <2>1, <3>1
  <2>2. CASE i # h
    <3>1. i \in 1..h - 1
      BY <2>2
    <3>2. (a \o c)[i] = a[i]
      BY <1>2, <1>3, <3>1, ConcatProperties
    <3> QED
      BY <1>4, <1>5, <3>1, <3>2
  <2> QED
    BY <2>1, <2>2
<1>8. a \o c = b
  BY <1>2, <1>6, <1>7, SeqEqual
<1> QED
  BY <1>8 DEF a, b, c

\* The lines before a position: whole hours, whole members, some lines.
LEMMA LinesBeforeIs ==
  ASSUME NEW T, NEW E \in Pins(T), NEW p, Inside(E, p)
  PROVE  /\ p # Nil
         /\ LinesBefore(E, p) = FlattenSeq(UpTo(E, p.hour - 1))
              \o FlattenSeq(SubSeq(E[p.hour].members, 1, p.member - 1))
              \o SubSeq(E[p.hour].members[p.member], 1, p.line)
<1>1. p # Nil
  BY SearchAssumption DEF Inside, Positions
<1> QED
  BY <1>1 DEF LinesBefore, UpTo, Whole

LEMMA AtInside ==
  ASSUME NEW T, NEW E \in Pins(T), NEW h \in 1..Len(E), NEW m \in 1..Len(E[h].members),
         NEW j \in 0..Len(E[h].members[m]), NEW b \in Nat
  PROVE  Inside(E, At(h, m, j, b))
<1>1. /\ At(h, m, j, b).hour = h /\ At(h, m, j, b).member = m
      /\ At(h, m, j, b).line = j /\ At(h, m, j, b).byte = b
  BY DEF At
<1>2. Len(E) \in Nat /\ Len(E[h].members) \in Nat /\ Len(E[h].members[m]) \in Nat
  BY PinTypes
<1>3. h \in Nat /\ m \in Nat /\ j \in Nat
  BY <1>2
<1>4. At(h, m, j, b) \in Positions
  BY <1>3 DEF At, Positions
<1> QED
  BY <1>1, <1>4 DEF Inside


\* A search that goes on within a member finds its next lines.
LEMMA FurtherInMember ==
  ASSUME NEW T, NEW E \in Pins(T), NEW p, Inside(E, p),
         NEW j \in p.line..Len(E[p.hour].members[p.member]), NEW b \in Nat
  PROVE  /\ Inside(E, At(p.hour, p.member, j, b))
         /\ LinesBefore(E, p) \in Seq(T)
         /\ SubSeq(E[p.hour].members[p.member], p.line + 1, j) \in Seq(T)
         /\ LinesBefore(E, At(p.hour, p.member, j, b))
              = LinesBefore(E, p) \o SubSeq(E[p.hour].members[p.member], p.line + 1, j)
<1> DEFINE h == p.hour
           m == p.member
           i == p.line
           M == E[h].members
           L == M[m]
           q == At(h, m, j, b)
           before == FlattenSeq(UpTo(E, h - 1))
           here == FlattenSeq(SubSeq(M, 1, m - 1))
<1>1. h \in 1..Len(E) /\ m \in 1..Len(M) /\ i \in 0..Len(L)
  BY DEF Inside
<1>2. Len(E) \in Nat /\ M \in Seq(Seq(T)) /\ Len(M) \in Nat /\ L \in Seq(T) /\ Len(L) \in Nat
  BY <1>1, PinTypes
<1>3. j \in 0..Len(L) /\ j \in i..Len(L) /\ i \in Nat /\ j \in Nat
  BY <1>1, <1>2
<1>4. Inside(E, q) /\ q.hour = h /\ q.member = m /\ q.line = j
  <2>1. h \in 1..Len(E) /\ m \in 1..Len(E[h].members) /\ j \in 0..Len(E[h].members[m])
    BY <1>1, <1>3
  <2>2. q.hour = h /\ q.member = m /\ q.line = j
    BY DEF At
  <2>3. Inside(E, q)
    BY <2>1, AtInside
  <2> QED
    BY <2>2, <2>3
<1>5. LinesBefore(E, p) = (before \o here) \o SubSeq(L, 1, i)
  BY LinesBeforeIs
<1>6. LinesBefore(E, q) = (before \o here) \o SubSeq(L, 1, j)
  <2> HIDE DEF q
  <2> QED
    BY <1>4, LinesBeforeIs
<1>7. before \in Seq(T) /\ here \in Seq(T)
  <2>1. h - 1 \in 0..Len(E)
    BY <1>1, <1>2
  <2>2. UpTo(E, h - 1) \in Seq(Seq(T))
    BY <2>1, UpToType
  <2>3. SubSeq(M, 1, m - 1) \in Seq(Seq(T))
    <3> DEFINE W == Seq(T)
    <3>2. 1 \in Int /\ m - 1 \in Int /\ \A k \in 1..m - 1 : k \in 1..Len(M)
      <4> HIDE DEF M, m
      <4> QED
        BY <1>1, <1>2
    <3>3. M \in Seq(W)
      BY <1>2
    <3>4. \A k \in 1..Len(M) : M[k] \in W
      <4> HIDE DEF M, W
      <4> QED
        BY <3>3, LenProperties
    <3>1. 1 \in Int /\ m - 1 \in Int /\ \A k \in 1..m - 1 : M[k] \in W
      BY <3>2, <3>4
    <3> HIDE DEF W, M, m
    <3> QED
      BY <3>1, SubSeqProperties DEF W
  <2> QED
    BY <2>2, <2>3, FlattenType
<1>8. SubSeq(L, 1, i) \in Seq(T) /\ SubSeq(L, i + 1, j) \in Seq(T)
  <2>1. \A k \in 1..i : L[k] \in T
    <3>1. \A k \in 1..i : k \in 1..Len(L)
      <4> HIDE DEF L, i
      <4> QED
        BY <1>1, <1>2
    <3> QED
      BY <1>2, <3>1
  <2>2. \A k \in i + 1..j : L[k] \in T
    <3>1. \A k \in i + 1..j : k \in 1..Len(L)
      BY <1>2, <1>3
    <3> QED
      BY <1>2, <3>1
  <2>3. 1 \in Int /\ i \in Int /\ i + 1 \in Int /\ j \in Int
    BY <1>3
  <2> HIDE DEF L, i
  <2> QED
    BY <2>1, <2>2, <2>3, SubSeqProperties
<1>9. SubSeq(L, 1, j) = SubSeq(L, 1, i) \o SubSeq(L, i + 1, j)
  <2>1. 1 \in 1..Len(L) + 1 /\ i \in 1 - 1..Len(L) /\ j \in i..Len(L)
    <3> HIDE DEF L, i
    <3> QED
      BY <1>1, <1>2, <1>3
  <2> HIDE DEF L, i
  <2> QED
    BY <1>2, <2>1, ConcatAdjacentSubSeq
<1>10. \A a, c, d \in Seq(T) : (a \o c) \o d = a \o (c \o d)
  BY ConcatAssociative
<1>11. before \o here \in Seq(T)
  BY <1>7, ConcatProperties
<1>12. LinesBefore(E, p) \in Seq(T)
  BY <1>5, <1>8, <1>11, ConcatProperties
<1> HIDE DEF before, here, L, i, q
<1> DEFINE ab == before \o here
           c == SubSeq(L, 1, i)
           d == SubSeq(L, i + 1, j)
<1>13. LinesBefore(E, q) = LinesBefore(E, p) \o d
  <2>1. (ab \o c) \o d = ab \o (c \o d)
    BY <1>8, <1>10, <1>11, Zenon
  <2> HIDE DEF ab, c, d
  <2>2. LinesBefore(E, p) = ab \o c
    BY <1>5, Zenon DEF ab, c
  <2>3. LinesBefore(E, q) = ab \o (c \o d)
    BY <1>6, <1>9, Zenon DEF ab, c, d
  <2> QED
    BY <2>1, <2>2, <2>3
<1> QED
  BY <1>4, <1>8, <1>12, <1>13 DEF L, i, q

\* Where a member ends, the lines of the members so far are before.
LEMMA MemberRead ==
  ASSUME NEW T, NEW E \in Pins(T), NEW h \in 1..Len(E), NEW m \in 1..Len(E[h].members)
  PROVE  FlattenSeq(SubSeq(E[h].members, 1, m))
           = FlattenSeq(SubSeq(E[h].members, 1, m - 1)) \o SubSeq(E[h].members[m], 1, Len(E[h].members[m]))
<1> DEFINE M == E[h].members
           W == Seq(T)
           s == SubSeq(M, 1, m - 1)
<1>1. M \in Seq(W) /\ Len(M) \in Nat /\ M[m] \in Seq(T)
  BY PinTypes
<1>2. SubSeq(M, 1, m) = s \o <<M[m]>>
  <2>1. 1 \in 1..Len(M) /\ m \in 1..Len(M)
    BY <1>1
  <2> HIDE DEF M, W
  <2> QED
    BY <1>1, <2>1, SubSeqRecursiveSecond
<1>3. s \in Seq(W)
  <2>1. 1 \in Int /\ m - 1 \in Int /\ \A k \in 1..m - 1 : M[k] \in W
    BY <1>1
  <2> HIDE DEF M, W
  <2> QED
    BY <2>1, SubSeqProperties
<1>4. FlattenSeq(s \o <<M[m]>>) = FlattenSeq(s) \o M[m]
  BY <1>1, <1>3, FlattenMore
<1>5. SubSeq(M[m], 1, Len(M[m])) = M[m]
  BY <1>1, SubSeqFull
<1> QED
  BY <1>2, <1>4, <1>5


\* Nothing lies between the end of a member and the beginning of the next one.
LEMMA NextMemberSame ==
  ASSUME NEW T, NEW E \in Pins(T), NEW h \in 1..Len(E), NEW m \in 1..Len(E[h].members), NEW b \in Nat
  PROVE  LET next == NextMember(E, h, m) IN
         /\ next = Nil \/ Inside(E, next)
         /\ LinesBefore(E, next) = LinesBefore(E, At(h, m, Len(E[h].members[m]), b))
<1> DEFINE M == E[h].members
           n == Len(M[m])
           q == At(h, m, n, b)
           next == NextMember(E, h, m)
           before == FlattenSeq(UpTo(E, h - 1))
           here(k) == FlattenSeq(SubSeq(M, 1, k))
<1>1. Len(E) \in Nat /\ M \in Seq(Seq(T)) /\ Len(M) \in Nat /\ Len(M) > 0 /\ n \in Nat
  BY PinTypes
<1>2. /\ \A k \in 0..Len(E) : UpTo(E, k) \in Seq(Seq(T)) /\ FlattenSeq(UpTo(E, k)) \in Seq(T)
      /\ \A k \in 0..Len(M) : here(k) \in Seq(T)
  <2>1. \A k \in 0..Len(E) : UpTo(E, k) \in Seq(Seq(T))
    BY UpToType
  <2>2. ASSUME NEW k \in 0..Len(M)
        PROVE  SubSeq(M, 1, k) \in Seq(Seq(T))
    <3> DEFINE W == Seq(T)
    <3>1. 1 \in Int /\ k \in Int /\ \A i \in 1..k : M[i] \in W
      BY <1>1
    <3> HIDE DEF W, M
    <3> QED
      BY <3>1, SubSeqProperties DEF W
  <2> QED
    BY <2>1, <2>2, FlattenType
<1>3. LinesBefore(E, q) = before \o here(m)
  <2>1. n \in 0..Len(M[m])
    BY <1>1
  <2>2. Inside(E, q) /\ q.hour = h /\ q.member = m /\ q.line = n
    <3>1. q.hour = h /\ q.member = m /\ q.line = n
      BY <2>1 DEF At
    <3>2. Inside(E, q)
      BY <2>1, AtInside
    <3> QED
      BY <3>1, <3>2
  <2>3. LinesBefore(E, q) = (before \o here(m - 1)) \o SubSeq(M[m], 1, n)
    <3> HIDE DEF q
    <3> QED
      BY <2>2, LinesBeforeIs
  <2>4. here(m) = here(m - 1) \o SubSeq(M[m], 1, n)
    BY MemberRead
  <2>5. before \in Seq(T) /\ here(m - 1) \in Seq(T) /\ SubSeq(M[m], 1, n) \in Seq(T)
    <3>1. h - 1 \in 0..Len(E) /\ m - 1 \in 0..Len(M) /\ M[m] \in Seq(T)
      BY <1>1
    <3>2. SubSeq(M[m], 1, n) = M[m]
      BY <3>1, SubSeqFull
    <3> QED
      BY <1>2, <3>1, <3>2
  <2> DEFINE c == here(m - 1)
             d == SubSeq(M[m], 1, n)
  <2>6. (before \o c) \o d = before \o (c \o d)
    <3> HIDE DEF before, c, d
    <3>1. before \in Seq(T) /\ c \in Seq(T) /\ d \in Seq(T)
      BY <2>5 DEF c, d
    <3> QED
      BY ONLY <3>1, ConcatAssociative, SMTT(30)
  <2> HIDE DEF before, c, d, q
  <2>7. LinesBefore(E, q) = (before \o c) \o d
    BY <2>3, Zenon DEF c, d
  <2>8. here(m) = c \o d
    BY <2>4, Zenon DEF c, d
  <2> QED
    BY <2>6, <2>7, <2>8
<1> SUFFICES (next = Nil \/ Inside(E, next)) /\ LinesBefore(E, next) = LinesBefore(E, q)
  BY Zenon
<1>4. CASE m < Len(M)
  <2>1. next = At(h, m + 1, 0, 0)
    BY <1>4 DEF NextMember
  <2>2. m + 1 \in 1..Len(M) /\ (m + 1) - 1 = m
    BY <1>1, <1>4
  <2>3. 0 \in 0..Len(M[m + 1]) /\ M[m + 1] \in Seq(T)
    BY <2>2, PinTypes
  <2>4. Inside(E, next) /\ next.hour = h /\ next.member = m + 1 /\ next.line = 0
    <3>1. next.hour = h /\ next.member = m + 1 /\ next.line = 0
      BY <2>1, <2>2, <2>3 DEF At
    <3>2. Inside(E, next)
      BY <2>1, <2>2, <2>3, AtInside
    <3> QED
      BY <3>1, <3>2
  <2>5. LinesBefore(E, next) = (before \o here((m + 1) - 1)) \o SubSeq(M[m + 1], 1, 0)
    <3> HIDE DEF next
    <3> QED
      BY <2>4, LinesBeforeIs
  <2>6. SubSeq(M[m + 1], 1, 0) = <<>>
    BY SubSeqEmpty
  <2>7. before \o here(m) \in Seq(T)
    <3>1. h - 1 \in 0..Len(E) /\ m \in 0..Len(M)
      BY <1>1
    <3> QED
      BY <1>2, <3>1, ConcatProperties
  <2> DEFINE x == before \o here(m)
  <2>8. x \o <<>> = x
    BY <2>7, ConcatEmptySeq
  <2> HIDE DEF x, next, q
  <2>9. LinesBefore(E, next) = x \o <<>> /\ LinesBefore(E, q) = x
    BY <1>3, <2>2, <2>5, <2>6, Zenon DEF x
  <2> QED
    BY <2>4, <2>8, <2>9 DEF next, q
<1>5. CASE m = Len(M)
  <2> DEFINE all == FlattenSeq(UpTo(E, h))
  <2>1. here(m) = Whole(E, h)
    <3>1. SubSeq(M, 1, Len(M)) = M
      <4> DEFINE W == Seq(T)
      <4>1. M \in Seq(W)
        BY <1>1
      <4> HIDE DEF W, M
      <4> QED
        BY <4>1, SubSeqFull
    <3> QED
      BY <1>5, <3>1 DEF Whole
  <2>2. all = before \o Whole(E, h)
    <3>1. h - 1 \in 0..Len(E) /\ Whole(E, h) \in Seq(T)
      BY <1>1, PinTypes
    <3>2. UpTo(E, h) = UpTo(E, h - 1) \o <<Whole(E, h)>>
      BY UpToMore
    <3>3. UpTo(E, h - 1) \in Seq(Seq(T))
      BY <1>2, <3>1
    <3> QED
      BY <3>1, <3>2, <3>3, FlattenMore
  <2>3. LinesBefore(E, q) = all
    <3> HIDE DEF all, before, q
    <3> QED
      BY <1>3, <2>1, <2>2, Zenon
  <2>4. CASE h < Len(E)
    <3>1. next = At(h + 1, 1, 0, 0)
      BY <1>1, <1>5, <2>4 DEF NextMember
    <3>2. h + 1 \in 1..Len(E) /\ (h + 1) - 1 = h /\ 1 - 1 = 0 /\ h \in 0..Len(E)
      BY <1>1, <2>4
    <3> DEFINE N == E[h + 1].members
    <3>3. N \in Seq(Seq(T)) /\ 1 \in 1..Len(N)
      <4>1. N \in Seq(Seq(T)) /\ Len(N) \in Nat /\ Len(N) > 0
        BY <3>2, PinTypes
      <4> QED
        BY <4>1
    <3>4. 0 \in 0..Len(N[1])
      <4>1. Len(N[1]) \in Nat
        BY <3>2, <3>3, PinTypes
      <4> QED
        BY <4>1
    <3>5. Inside(E, next) /\ next.hour = h + 1 /\ next.member = 1 /\ next.line = 0
      <4>1. next.hour = h + 1 /\ next.member = 1 /\ next.line = 0
        BY <3>1, <3>2, <3>3, <3>4 DEF At
      <4>2. Inside(E, next)
        BY <3>1, <3>2, <3>3, <3>4, AtInside
      <4> QED
        BY <4>1, <4>2
    <3>6. LinesBefore(E, next) = (FlattenSeq(UpTo(E, (h + 1) - 1)) \o FlattenSeq(SubSeq(N, 1, 1 - 1))) \o SubSeq(N[1], 1, 0)
      <4> HIDE DEF next
      <4> QED
        BY <3>5, LinesBeforeIs
    <3>7. SubSeq(N, 1, 0) = <<>> /\ SubSeq(N[1], 1, 0) = <<>>
      BY SubSeqEmpty
    <3>8. FlattenSeq(<<>>) = <<>>
      <4>1. Len(<<>>) = 0
        OBVIOUS
      <4> QED
        BY <4>1, Zenon DEF FlattenSeq
    <3>9. all \in Seq(T)
      BY <1>2, <3>2
    <3>10. (all \o <<>>) \o <<>> = all
      BY <3>9, ConcatEmptySeq
    <3>11. LinesBefore(E, next) = (all \o <<>>) \o <<>>
      <4> HIDE DEF next, N
      <4> QED
        BY <3>2, <3>6, <3>7, <3>8, Zenon
    <3> QED
      BY <2>3, <3>5, <3>10, <3>11
  <2>5. CASE h = Len(E)
    <3>1. next = Nil
      BY <1>1, <1>5, <2>5 DEF NextMember
    <3>2. LinesBefore(E, Nil) = FlattenSeq(UpTo(E, Len(E)))
      <4>1. DOMAIN E = 1..Len(E)
        BY LenProperties DEF Pins
      <4> QED
        BY <4>1 DEF LinesBefore, UpTo, Whole
    <3> HIDE DEF next, q, n
    <3> QED
      BY <2>3, <2>5, <3>1, <3>2
  <2>6. h < Len(E) \/ h = Len(E)
    BY <1>1
  <2> QED
    BY <2>4, <2>5, <2>6
<1>6. m < Len(M) \/ m = Len(M)
  BY <1>1
<1> HIDE DEF next, q
<1> QED
  BY <1>4, <1>5, <1>6

-------------------------------------------------------------------------------
(* What a search of a member may leave.                                    *)

LEMMA FoundType ==
  ASSUME NEW T, NEW s \in Seq(T)
  PROVE  Found(s) \in Seq(T) /\ Found(s) \in Seq(T \cap Hits)
<1>1. Found(s) \in Seq(T \cap Hits)
  BY AmongType DEF Found
<1>2. Seq(T \cap Hits) \subseteq Seq(T)
  BY SeqMonotonic
<1> QED
  BY <1>1, <1>2

\* Every way to leave a member keeps what was found before where it ends.
LEMMA ScanExact ==
  ASSUME NEW T, NEW s, s.entries \in Pins(T), Inside(s.entries, s.pos), NEW o \in Scans(s)
  PROVE  /\ o.pos = Nil \/ Inside(s.entries, o.pos)
         /\ Found(LinesBefore(s.entries, o.pos)) = Found(LinesBefore(s.entries, s.pos)) \o o.lines
         /\ o.lines \in Seq(T)
<1> DEFINE E == s.entries
           p == s.pos
           h == p.hour
           m == p.member
           L == E[h].members[m]
           n == Len(L)
           from == p.line
           next == NextMember(E, h, m)
           found(j) == Part(L, from, j)
           LB(q) == LinesBefore(E, q)
           Good(q, lines) == /\ q = Nil \/ Inside(E, q)
                             /\ Found(LB(q)) = Found(LB(p)) \o lines
                             /\ lines \in Seq(T)
<1>1. h \in 1..Len(E) /\ m \in 1..Len(E[h].members) /\ from \in 0..n /\ L \in Seq(T) /\ n \in Nat
  <2>1. h \in 1..Len(E) /\ m \in 1..Len(E[h].members) /\ from \in 0..n
    BY DEF Inside
  <2> QED
    BY <2>1, PinTypes
<1>2. ASSUME NEW j \in from..n, NEW b \in Nat
      PROVE  Good(At(h, m, j, b), found(j))
  <2> DEFINE q == At(h, m, j, b)
             add == SubSeq(L, from + 1, j)
  <2>1. Inside(E, q) /\ LB(p) \in Seq(T) /\ add \in Seq(T) /\ LB(q) = LB(p) \o add
    BY FurtherInMember
  <2> HIDE DEF q, add, LB, p
  <2>2. Found(LB(q)) = Found(LB(p)) \o Found(add)
    BY <2>1, AmongConcat DEF Found
  <2>3. Found(add) \in Seq(T)
    BY <2>1, FoundType, Zenon
  <2>4. found(j) = Found(add)
    BY DEF Part, add
  <2> QED
    BY <2>1, <2>2, <2>3, <2>4, SMTT(30) DEF q
<1>3. Good(next, found(n))
  <2>1. (next = Nil \/ Inside(E, next)) /\ LB(next) = LB(At(h, m, n, 0))
    <3> HIDE DEF p
    <3> QED
      BY <1>1, NextMemberSame
  <2>2. Good(At(h, m, n, 0), found(n))
    <3>1. n \in from..n /\ 0 \in Nat
      BY <1>1
    <3> HIDE DEF Good, n, from, found
    <3> QED
      BY <1>2, <3>1
  <2> HIDE DEF next, LB, found
  <2> QED
    BY <2>1, <2>2, Zenon
<1>4. Good(p, <<>>)
  <2>1. LB(p) \in Seq(T)
    <3>1. 0 \in Nat /\ from \in from..n
      BY <1>1
    <3> QED
      BY <3>1, FurtherInMember
  <2>2. Found(LB(p)) \in Seq(T)
    BY <2>1, FoundType
  <2> HIDE DEF LB, p
  <2> QED
    BY <2>2, ConcatEmptySeq, EmptySeq, SMTT(30) DEF p
<1>5. \/ o.pos = next /\ o.lines = found(n)
      \/ \E j \in from..n : o.pos = At(h, m, j, 0) /\ o.lines = found(j)
      \/ o.pos = p /\ o.lines = <<>>
      \/ \E j \in from..n, b \in Nat : found(j) = <<>> /\ o.lines = <<>> /\ o.pos \in {At(h, m, j, b), p}
  <2> DEFINE total(j) == Len(s.lines) + Len(found(j))
             here(j, byte) == IF j > from \/ byte > p.byte THEN At(h, m, j, byte) ELSE p
             reached == {j \in from..n : j = from \/ total(j - 1) < Limit}
             whole == IF n \in reached THEN {Left(found(n), next, total(n) >= Limit)} ELSE {}
             full == {j \in reached : j < n /\ total(j) >= Limit}
             oversize == {j \in reached : j < n /\ total(j) < Limit /\ L[j + 1] \in Hits}
             cut == {j \in reached : j < n /\ total(j) < Limit}
             back == full \union {j \in oversize \union cut : found(j) # <<>>}
             none == {j \in cut : found(j) = <<>>}
  <2>1. o \in whole \union {Left(found(j), At(h, m, j, 0), TRUE) : j \in full \union oversize}
               \union {RollbackMember(s, At(h, m, j, 0)) : j \in back}
               \union {Left(<<>>, here(c[1], c[2]), TRUE) : c \in none \X {0, 1}}
    BY Zenon DEF Scans
  <2>2. full \subseteq from..n /\ oversize \subseteq from..n /\ none \subseteq from..n /\ \A j \in none : found(j) = <<>>
    <3> HIDE DEF total, found, n, from, L
    <3> QED
      OBVIOUS
  <2>3. whole \subseteq {Left(found(n), next, total(n) >= Limit)}
    <3> HIDE DEF reached, total, found, n, next
    <3> QED
      OBVIOUS
  <2>4. \A lines, pos, done : Left(lines, pos, done).lines = lines /\ Left(lines, pos, done).pos = pos
    BY DEF Left
  <2> HIDE DEF whole, full, oversize, back, none, total, found, next, here, p, h, m, n, from, L, E
  <2>5. CASE o \in whole
    BY <2>3, <2>4, <2>5
  <2>6. CASE o \in {Left(found(j), At(h, m, j, 0), TRUE) : j \in full \union oversize}
    <3>1. PICK j \in full \union oversize : o = Left(found(j), At(h, m, j, 0), TRUE)
      BY <2>6
    <3>2. o.lines = found(j) /\ o.pos = At(h, m, j, 0)
      BY <2>4, <3>1, Zenon
    <3> QED
      BY <2>2, <3>2
  <2>7. CASE o \in {RollbackMember(s, At(h, m, j, 0)) : j \in back}
    <3>1. o = Left(<<>>, s.pos, TRUE)
      BY <2>7 DEF RollbackMember
    <3>2. o.lines = <<>> /\ o.pos = s.pos
      BY <3>1 DEF Left
    <3> QED
      BY <3>2 DEF p
  <2>8. CASE o \in {Left(<<>>, here(c[1], c[2]), TRUE) : c \in none \X {0, 1}}
    <3>1. PICK j \in none, byte \in {0, 1} : o = Left(<<>>, here(j, byte), TRUE)
      BY <2>8, Zenon
    <3>2. o.lines = <<>> /\ o.pos = here(j, byte) /\ byte \in Nat /\ j \in from..n /\ found(j) = <<>>
      <4>1. o.lines = <<>> /\ o.pos = here(j, byte)
        BY <3>1 DEF Left
      <4> QED
        BY <2>2, <4>1
    <3>3. here(j, byte) \in {At(h, m, j, byte), p}
      BY DEF here
    <3> QED
      BY <3>2, <3>3
  <2> QED
    BY <2>1, <2>5, <2>6, <2>7, <2>8
<1> HIDE DEF Good
<1>6. Good(o.pos, o.lines)
  <2>1. CASE o.pos = next /\ o.lines = found(n)
    BY <1>3, <2>1, Zenon
  <2>2. CASE \E j \in from..n : o.pos = At(h, m, j, 0) /\ o.lines = found(j)
    BY <1>2, <2>2
  <2>3. CASE o.pos = p /\ o.lines = <<>>
    BY <1>4, <2>3
  <2>4. CASE \E j \in from..n, b \in Nat : found(j) = <<>> /\ o.lines = <<>> /\ o.pos \in {At(h, m, j, b), p}
    <3>1. PICK j \in from..n, b \in Nat : found(j) = <<>> /\ o.lines = <<>> /\ o.pos \in {At(h, m, j, b), p}
      BY <2>4
    <3>2. Good(At(h, m, j, b), <<>>)
      BY <1>2, <3>1
    <3> QED
      BY <1>4, <3>1, <3>2, SMTT(30)
  <2> QED
    BY <1>5, <2>1, <2>2, <2>3, <2>4, Zenon
<1> QED
  BY <1>6 DEF Good

-------------------------------------------------------------------------------
(* The invariants.                                                         *)

Published == [id : Nat, compacted : BOOLEAN, members : Seq(Seq(Nat)) \ {<<>>}]

States == {"idle", "pin", "index", "read", "validate", "answered"}

Searches ==
  [st : States, id : Nat, entries : Pins(Nat), start : Positions \union {Nil}, pos : Positions \union {Nil},
   lines : Seq(Nat), late : BOOLEAN]

\* The files, what is pinned of them, and the searches.
StoreTypes ==
  /\ DOMAIN catalog \subseteq Hours /\ catalog \in [DOMAIN catalog -> Published]
  /\ DOMAIN files \subseteq Hours /\ files \in [DOMAIN files -> Published]
  /\ ids \in Nat /\ newest \in Nat
  /\ busy = Nil => files = catalog

PinnedTypes ==
  /\ asked \in Nat /\ DOMAIN snapshots \subseteq Nat /\ snapshots \in [DOMAIN snapshots -> Pins(Nat)]
  /\ \A c \in cursors : c.id \in DOMAIN snapshots /\ Inside(snapshots[c.id], c.pos)
  /\ search \in [Requests -> Searches]

\* A search that reads what it pinned.
Reading(q) == search[q].st \in {"index", "read", "validate"}

\* What the snapshot of a search is kept under is its own: nothing is kept
\* before it pins, and what is kept then is what the search reads.
OwnInv ==
  /\ \A i \in DOMAIN snapshots : i <= asked
  /\ \A q \in Requests : Running(q) => search[q].id <= asked
  /\ \A q \in Requests : search[q].st = "pin" =>
       /\ search[q].id \notin DOMAIN snapshots
       /\ \A r \in Requests : Running(r) /\ search[r].id = search[q].id => r = q
  /\ \A q \in Requests : Reading(q) /\ search[q].id \in DOMAIN snapshots => snapshots[search[q].id] = search[q].entries

\* A page so far is what the query matches since its cursor.
PageExact(s) ==
  /\ s.start = Nil \/ Inside(s.entries, s.start)
  /\ s.pos = Nil \/ Inside(s.entries, s.pos)
  /\ s.pos = Nil => s.st = "validate"
  /\ Found(LinesBefore(s.entries, s.pos)) = Found(LinesBefore(s.entries, s.start)) \o s.lines

PageInv ==
  \A q \in Requests : (search[q].st = "pin" => search[q].lines = <<>>) /\ (Reading(q) => PageExact(search[q]))

\* The lines of a file.
Shown(members) == UNION {ToSet(members[m]) : m \in DOMAIN members}

\* The published file that is still the one pinned has all of its lines.
Continues(hours, e) ==
  e.hour \in DOMAIN hours /\ hours[e.hour].id = e.id => Shown(e.members) \subseteq Shown(hours[e.hour].members)

Still(entries) == \A i \in DOMAIN entries : entries[i].id <= ids /\ Continues(catalog, entries[i]) /\ Continues(files, entries[i])

SameInv ==
  /\ \A h \in DOMAIN catalog : catalog[h].id <= ids
  /\ \A h \in DOMAIN files : files[h].id <= ids
  /\ \A i \in DOMAIN snapshots : Still(snapshots[i])
  /\ \A q \in Requests : Reading(q) => Still(search[q].entries)

PagesInv == StoreTypes /\ PinnedTypes /\ OwnInv /\ PageInv /\ SameInv


-------------------------------------------------------------------------------
(* The store's steps.                                                      *)

\* A file keeps its lines, or is a new one.
Descends(hours) ==
  \A h \in DOMAIN hours :
    \/ hours[h].id > ids
    \/ h \in DOMAIN catalog /\ hours[h].id = catalog[h].id /\ Shown(catalog[h].members) \subseteq Shown(hours[h].members)
    \/ h \in DOMAIN files /\ hours[h].id = files[h].id /\ Shown(files[h].members) \subseteq Shown(hours[h].members)

LEMMA ContinuesOn ==
  ASSUME NEW e, NEW hours, e.id <= ids, e.id \in Nat, ids \in Nat, Continues(catalog, e), Continues(files, e), Descends(hours),
         \A h \in DOMAIN hours : hours[h].id \in Nat
  PROVE  Continues(hours, e)
<1> SUFFICES ASSUME e.hour \in DOMAIN hours, hours[e.hour].id = e.id
             PROVE  Shown(e.members) \subseteq Shown(hours[e.hour].members)
  BY DEF Continues
<1>1. ~(hours[e.hour].id > ids)
  OBVIOUS
<1> QED
  BY <1>1 DEF Descends, Continues

\* What is published after a step of the store descends from what was before.
LEMMA StoreStep ==
  ASSUME PagesInv, UNCHANGED <<cache, search>>, StoreTypes', ids' >= ids,
         Descends(catalog'), Descends(files'),
         \A h \in DOMAIN catalog' : catalog'[h].id <= ids', \A h \in DOMAIN files' : files'[h].id <= ids'
  PROVE  PagesInv'
<1>1. PinnedTypes' /\ OwnInv' /\ PageInv'
  <2>1. PinnedTypes /\ OwnInv /\ PageInv /\ UNCHANGED <<snapshots, cursors, asked, search>>
    BY DEF PagesInv, cache
  <2>2. PinnedTypes'
    BY <2>1 DEF PinnedTypes
  <2>3. OwnInv'
    BY <2>1 DEF OwnInv, Running, Reading
  <2>4. PageInv'
    BY <2>1 DEF PageInv, Reading
  <2> QED
    BY <2>2, <2>3, <2>4
<1>2. ids \in Nat /\ ids' \in Nat /\ (\A h \in DOMAIN catalog' : catalog'[h].id \in Nat) /\ \A h \in DOMAIN files' : files'[h].id \in Nat
  BY DEF PagesInv, StoreTypes, Published
<1>3. ASSUME NEW E \in Pins(Nat), Still(E)
      PROVE  Still(E)'
  <2> SUFFICES ASSUME NEW i \in DOMAIN E
               PROVE  E[i].id <= ids' /\ Continues(catalog', E[i]) /\ Continues(files', E[i])
    BY DEF Still
  <2>1. E[i].id <= ids /\ Continues(catalog, E[i]) /\ Continues(files, E[i])
    BY <1>3 DEF Still
  <2>2. E[i].id \in Nat
    <3> DEFINE R == [hour : Hours, id : Nat, members : Seq(Seq(Nat)) \ {<<>>}]
    <3>1. E \in Seq(R)
      BY DEF Pins
    <3> HIDE DEF R
    <3>2. E[i] \in R
      BY <3>1, LenProperties
    <3> QED
      BY <3>2 DEF R
  <2>3. E[i].id <= ids'
    BY <1>2, <2>1, <2>2
  <2>4. Continues(catalog', E[i])
    BY <1>2, <2>1, <2>2, ContinuesOn, Zenon
  <2>5. Continues(files', E[i])
    BY <1>2, <2>1, <2>2, ContinuesOn, Zenon
  <2> QED
    BY <2>3, <2>4, <2>5
<1>4. SameInv'
  <2>1. UNCHANGED <<snapshots, search>> /\ SameInv
    BY DEF PagesInv, cache
  <2>2. \A i \in DOMAIN snapshots : Still(snapshots[i])'
    <3>1. \A i \in DOMAIN snapshots : snapshots[i] \in Pins(Nat) /\ Still(snapshots[i]) /\ snapshots'[i] = snapshots[i]
      BY <2>1 DEF PagesInv, PinnedTypes, SameInv
    <3> QED
      BY <1>3, <3>1 DEF Still
  <2>3. \A q \in Requests : Reading(q) => Still(search[q].entries)'
    <3>1. \A q \in Requests : search[q].entries \in Pins(Nat) /\ search'[q].entries = search[q].entries
      BY <2>1 DEF PagesInv, PinnedTypes, Searches
    <3>2. \A q \in Requests : Reading(q) => Still(search[q].entries)
      BY <2>1 DEF SameInv
    <3> QED
      BY <1>3, <3>1, <3>2 DEF Still
  <2> QED
    BY <2>1, <2>2, <2>3 DEF SameInv, Reading
<1> QED
  BY <1>1, <1>4 DEF PagesInv

LEMMA ShownAppend ==
  ASSUME NEW M \in Seq(Seq(Nat)), NEW x \in Seq(Nat)
  PROVE  Append(M, x) \in Seq(Seq(Nat)) \ {<<>>} /\ Shown(M) \subseteq Shown(Append(M, x))
<1> DEFINE W == Seq(Nat)
           N == Append(M, x)
<1>1. M \in Seq(W) /\ x \in W
  OBVIOUS
<1> HIDE DEF W
<1>2. N \in Seq(W) /\ N # <<>> /\ Len(N) = Len(M) + 1 /\ \A i \in 1..Len(M) : N[i] = M[i]
  BY <1>1, AppendProperties, SMTT(30)
<1>3. DOMAIN M = 1..Len(M) /\ DOMAIN N = 1..Len(N) /\ Len(M) \in Nat
  BY <1>1, <1>2, LenProperties
<1>4. \A i \in DOMAIN M : i \in DOMAIN N /\ N[i] = M[i]
  BY <1>2, <1>3
<1> HIDE DEF N
<1>5. Shown(M) \subseteq Shown(N)
  BY <1>4 DEF Shown
<1> QED
  BY <1>2, <1>5 DEF W, N

LEMMA StoreActionAppend ==
  ASSUME PagesInv, AppendBatch
  PROVE  PagesInv'
<1>1. StoreTypes /\ SameInv /\ busy = Nil /\ files = catalog /\ ids \in Nat /\ newest \in Nat
  BY DEF PagesInv, AppendBatch, Change, StoreTypes
<1> DEFINE batch1 == <<newest + 1>>
<1>2. batch1 \in Seq(Nat) /\ <<batch1>> \in Seq(Seq(Nat)) \ {<<>>}
  BY <1>1
<1> HIDE DEF batch1
<1> DEFINE fresh == [id |-> ids + 1, compacted |-> FALSE, members |-> <<batch1>>]
           longer(h) == [catalog[h] EXCEPT !.members = Append(@, batch1)]
           file(h) == IF h \in DOMAIN catalog THEN longer(h) ELSE fresh
<1>3. PICK h \in Hours : /\ catalog' = With(catalog, h, file(h)) /\ files' = With(files, h, file(h))
                         /\ ids' = IF h \in DOMAIN catalog THEN ids ELSE ids + 1
  BY DEF AppendBatch, batch1
<1>4. /\ file(h) \in Published /\ file(h).id <= ids'
      /\ \/ file(h).id > ids
         \/ h \in DOMAIN catalog /\ file(h).id = catalog[h].id /\ Shown(catalog[h].members) \subseteq Shown(file(h).members)
  <2>1. CASE h \in DOMAIN catalog
    <3>1. catalog[h] \in Published /\ catalog[h].id <= ids /\ catalog[h].members \in Seq(Seq(Nat))
      BY <1>1, <2>1 DEF StoreTypes, SameInv, Published
    <3> DEFINE M == Append(catalog[h].members, batch1)
    <3>2. M \in Seq(Seq(Nat)) \ {<<>>} /\ Shown(catalog[h].members) \subseteq Shown(M)
      BY <1>2, <3>1, ShownAppend
    <3>3. longer(h) = [catalog[h] EXCEPT !.members = M]
      BY <3>1 DEF Published
    <3> HIDE DEF M
    <3>4. longer(h).members = M /\ longer(h).id = catalog[h].id /\ longer(h) \in Published
      BY <3>1, <3>2, <3>3 DEF Published
    <3> HIDE DEF longer
    <3> QED
      BY <1>3, <2>1, <3>1, <3>2, <3>4
  <2>2. CASE h \notin DOMAIN catalog
    <3>1. fresh \in Published /\ fresh.id = ids + 1
      BY <1>1, <1>2 DEF Published
    <3> HIDE DEF fresh, longer
    <3> QED
      BY <1>1, <1>3, <2>2, <3>1
  <2> QED
    BY <2>1, <2>2
<1> DEFINE new == With(catalog, h, file(h))
<1>5. catalog' = new /\ files' = new
  BY <1>1, <1>3
<1>6. /\ DOMAIN new = DOMAIN catalog \union {h} /\ new = [k \in DOMAIN new |-> new[k]]
      /\ \A k \in DOMAIN new : new[k] = IF k = h THEN file(h) ELSE catalog[k]
  BY DEF With
<1> HIDE DEF file, new
<1>7. ids' \in Nat /\ ids' >= ids
  BY <1>1, <1>3
<1>8. new \in [DOMAIN new -> Published] /\ DOMAIN new \subseteq Hours /\ \A k \in DOMAIN new : new[k].id <= ids'
  <2>1. \A k \in DOMAIN catalog : catalog[k] \in Published /\ catalog[k].id <= ids /\ catalog[k].id \in Nat
    BY <1>1 DEF StoreTypes, SameInv, Published
  <2>2. \A k \in DOMAIN new : new[k] \in Published
    BY <1>4, <1>6, <2>1
  <2>3. \A k \in DOMAIN new : new[k].id <= ids'
    BY <1>1, <1>4, <1>6, <1>7, <2>1
  <2>4. DOMAIN catalog \subseteq Hours
    BY <1>1 DEF StoreTypes
  <2> QED
    BY <1>6, <2>2, <2>3, <2>4
<1>9. Descends(new)
  BY <1>4, <1>6 DEF Descends
<1>10. StoreTypes'
  <2>1. newest' = newest + 1
    BY DEF AppendBatch
  <2> QED
    BY <1>1, <1>5, <1>7, <1>8, <2>1 DEF StoreTypes
<1> QED
  BY <1>5, <1>7, <1>8, <1>9, <1>10, StoreStep DEF AppendBatch


\* A file in the catalog or on disk descends from itself.
LEMMA DescendsOnly ==
  ASSUME NEW hours,
         \A h \in DOMAIN hours : \/ hours[h].id > ids
                                 \/ h \in DOMAIN catalog /\ hours[h] = catalog[h]
                                 \/ h \in DOMAIN files /\ hours[h] = files[h]
  PROVE  Descends(hours)
BY DEF Descends

LEMMA StoreActionReplace ==
  ASSUME PagesInv, Replace
  PROVE  PagesInv'
<1>1. /\ StoreTypes /\ SameInv /\ busy = Nil /\ files = catalog /\ ids \in Nat
      /\ UNCHANGED <<catalog, newest, cache, search>>
  BY DEF PagesInv, Replace, Change, StoreTypes
<1>2. PICK h \in DOMAIN catalog :
        /\ busy' = h /\ ids' = ids + 1
        /\ files' = [files EXCEPT ![h] = [id |-> ids + 1, compacted |-> TRUE, members |-> <<FlattenSeq(@.members)>>]]
  BY DEF Replace
<1> DEFINE all == FlattenSeq(files[h].members)
           new == [id |-> ids + 1, compacted |-> TRUE, members |-> <<all>>]
<1>3. all \in Seq(Nat)
  <2>1. files[h] \in Published
    BY <1>1, <1>2 DEF StoreTypes
  <2>2. files[h].members \in Seq(Seq(Nat))
    BY <2>1 DEF Published
  <2> QED
    BY <2>2, FlattenType
<1>4. files' = [files EXCEPT ![h] = new]
  BY <1>1, <1>2
<1> HIDE DEF all
<1>5. new \in Published /\ new.id = ids + 1
  <2>1. <<all>> \in Seq(Seq(Nat)) \ {<<>>}
    BY <1>3
  <2> QED
    BY <1>1, <2>1 DEF Published
<1> HIDE DEF new
<1>6. /\ DOMAIN files' = DOMAIN files /\ DOMAIN files \subseteq Hours /\ files' \in [DOMAIN files' -> Published]
      /\ \A k \in DOMAIN files' : files'[k] = IF k = h THEN new ELSE files[k]
  <2>1. DOMAIN files \subseteq Hours /\ files \in [DOMAIN files -> Published]
    BY <1>1, Zenon DEF StoreTypes
  <2>2. new \in Published
    BY <1>5
  <2>3. DOMAIN files' = DOMAIN files
    BY ONLY <1>4, Zenon
  <2>4. \A k \in DOMAIN files' : files'[k] = IF k = h THEN new ELSE files[k]
    BY ONLY <1>4, <2>3, Zenon
  <2>5. files' \in [DOMAIN files -> Published]
    BY ONLY <1>4, <2>1, <2>2, Zenon
  <2> QED
    BY ONLY <2>1, <2>3, <2>4, <2>5, Zenon
<1>7. ids' \in Nat /\ ids' >= ids /\ ids' = ids + 1
  BY <1>1, <1>2
<1>8. StoreTypes'
  <2>1. busy' # Nil
    <3>1. h \in Nat
      BY <1>1, LenProperties, SearchAssumption DEF StoreTypes, Hours
    <3> QED
      BY <1>2, <3>1, SearchAssumption
  <2> QED
    BY <1>1, <1>6, <1>7, <2>1 DEF StoreTypes
<1>9. \A k \in DOMAIN catalog : catalog[k].id <= ids /\ catalog[k].id \in Nat
  BY <1>1 DEF StoreTypes, SameInv, Published
<1>10. (\A k \in DOMAIN catalog' : catalog'[k].id <= ids') /\ \A k \in DOMAIN files' : files'[k].id <= ids'
  BY <1>1, <1>5, <1>6, <1>7, <1>9
<1>11. Descends(catalog')
  BY <1>1, DescendsOnly
<1>12. Descends(files')
  <2>1. ids + 1 > ids
    BY <1>1
  <2> QED
    BY <1>5, <1>6, <2>1, DescendsOnly
<1> QED
  BY <1>1, <1>7, <1>8, <1>10, <1>11, <1>12, StoreStep

LEMMA StoreActionExpire ==
  ASSUME PagesInv, Expire
  PROVE  PagesInv'
<1>1. /\ StoreTypes /\ SameInv /\ busy = Nil /\ files = catalog /\ ids \in Nat
      /\ UNCHANGED <<files, ids, newest, cache, search>>
  BY DEF PagesInv, Expire, Change, StoreTypes
<1>2. PICK h \in DOMAIN catalog : busy' = h /\ catalog' = Without(catalog, h)
  BY DEF Expire
<1>3. /\ DOMAIN catalog' \subseteq DOMAIN catalog /\ catalog' \in [DOMAIN catalog' -> Published]
      /\ \A k \in DOMAIN catalog' : catalog'[k] = catalog[k]
  BY <1>1, <1>2 DEF Without, StoreTypes
<1>4. StoreTypes'
  <2>1. busy' # Nil
    <3>1. h \in Nat
      BY <1>1, LenProperties, SearchAssumption DEF StoreTypes, Hours
    <3> QED
      BY <1>2, <3>1, SearchAssumption
  <2> QED
    BY <1>1, <1>3, <2>1 DEF StoreTypes
<1>5. (\A k \in DOMAIN catalog' : catalog'[k].id <= ids') /\ \A k \in DOMAIN files' : files'[k].id <= ids'
  BY <1>1, <1>3 DEF SameInv
<1>6. Descends(catalog') /\ Descends(files')
  BY <1>1, <1>3, DescendsOnly
<1> QED
  BY <1>1, <1>4, <1>5, <1>6, StoreStep

LEMMA StoreActionPublish ==
  ASSUME PagesInv, Publish
  PROVE  PagesInv'
<1>1. /\ StoreTypes /\ SameInv /\ ids \in Nat /\ busy' = Nil
      /\ UNCHANGED <<ids, newest, cache, search>>
      /\ files' = catalog' /\ (catalog' = catalog \/ catalog' = files)
  BY DEF PagesInv, Publish, StoreTypes
<1>2. StoreTypes'
  BY <1>1 DEF StoreTypes
<1>3. (\A k \in DOMAIN catalog' : catalog'[k].id <= ids') /\ \A k \in DOMAIN files' : files'[k].id <= ids'
  BY <1>1 DEF SameInv
<1>4. Descends(catalog') /\ Descends(files')
  BY <1>1, DescendsOnly
<1> QED
  BY <1>1, <1>2, <1>3, <1>4, StoreStep


-------------------------------------------------------------------------------
(* The steps of a search.                                                  *)

LEMMA BeforeType ==
  ASSUME NEW T, NEW E \in Pins(T), NEW p, p = Nil \/ Inside(E, p)
  PROVE  LinesBefore(E, p) \in Seq(T)
<1>1. CASE p = Nil
  <2>1. Len(E) \in Nat /\ DOMAIN E = 1..Len(E)
    BY LenProperties DEF Pins
  <2>2. LinesBefore(E, p) = FlattenSeq(UpTo(E, Len(E)))
    BY <1>1, <2>1 DEF LinesBefore, UpTo, Whole
  <2>3. UpTo(E, Len(E)) \in Seq(Seq(T))
    BY <2>1, UpToType
  <2> QED
    BY <2>2, <2>3, FlattenType
<1>2. CASE Inside(E, p)
  <2>1. 0 \in Nat /\ p.line \in p.line..Len(E[p.hour].members[p.member])
    <3>1. p.hour \in 1..Len(E) /\ p.member \in 1..Len(E[p.hour].members)
          /\ p.line \in 0..Len(E[p.hour].members[p.member])
      BY <1>2 DEF Inside
    <3>2. Len(E[p.hour].members[p.member]) \in Nat
      BY <3>1, PinTypes
    <3> QED
      BY <3>1, <3>2
  <2> QED
    BY <1>2, <2>1, FurtherInMember
<1> QED
  BY <1>1, <1>2

\* The page is exact where it begins.
LEMMA PageBegins ==
  ASSUME NEW s \in Searches, s.pos = s.start, s.pos = Nil \/ Inside(s.entries, s.pos), s.lines = <<>>,
         s.pos = Nil => s.st = "validate"
  PROVE  PageExact(s)
<1>1. s.entries \in Pins(Nat)
  BY DEF Searches
<1>2. LinesBefore(s.entries, s.pos) \in Seq(Nat)
  BY <1>1, BeforeType
<1>3. Found(LinesBefore(s.entries, s.pos)) \in Seq(Nat)
  BY <1>2, FoundType
<1> DEFINE f == Found(LinesBefore(s.entries, s.pos))
<1>4. f \o <<>> = f
  BY <1>3, ConcatEmptySeq
<1> QED
  BY <1>4 DEF PageExact

\* A step of one search that goes on with what it pinned, or ends.
LEMMA SearchStep ==
  ASSUME PagesInv, NEW q \in Requests, NEW t \in Searches, search' = [search EXCEPT ![q] = t],
         UNCHANGED <<archive, snapshots, asked>>,
         \A c \in cursors' : c.id \in DOMAIN snapshots /\ Inside(snapshots[c.id], c.pos),
         \/ t.st \in {"idle", "answered"}
         \/ /\ Reading(q) /\ t.st \in {"index", "read", "validate"}
            /\ t.id = search[q].id /\ t.entries = search[q].entries /\ PageExact(t)
  PROVE  PagesInv'
<1>1. /\ StoreTypes /\ PinnedTypes /\ OwnInv /\ PageInv /\ SameInv
      /\ UNCHANGED <<catalog, files, busy, ids, newest, snapshots, asked>>
  BY DEF PagesInv, archive
<1>2. search \in [Requests -> Searches] /\ search'[q] = t /\ \A r \in Requests : r # q => search'[r] = search[r]
  BY <1>1 DEF PinnedTypes
<1>3. StoreTypes'
  BY <1>1 DEF StoreTypes
<1>4. PinnedTypes'
  BY <1>1 DEF PinnedTypes
<1>5. \A r \in Requests : Running(r)' => Running(r) /\ search'[r].id = search[r].id
  BY <1>2 DEF Running, Reading
<1>6. \A r \in Requests : search'[r].st = "pin" => search'[r] = search[r]
  BY <1>2
<1>7. \A r \in Requests : Reading(r)' => Reading(r) /\ search'[r].id = search[r].id /\ search'[r].entries = search[r].entries
  BY <1>2 DEF Reading
<1>8. OwnInv'
  <2>1. \A r \in Requests : Running(r)' => search'[r].id <= asked'
    BY <1>1, <1>5 DEF OwnInv
  <2>2. \A i \in DOMAIN snapshots' : i <= asked'
    BY <1>1 DEF OwnInv
  <2>3. \A r \in Requests : search'[r].st = "pin" =>
          /\ search'[r].id \notin DOMAIN snapshots'
          /\ \A o \in Requests : Running(o)' /\ search'[o].id = search'[r].id => o = r
    BY <1>1, <1>5, <1>6 DEF OwnInv
  <2>4. \A r \in Requests : Reading(r)' /\ search'[r].id \in DOMAIN snapshots' =>
          snapshots'[search'[r].id] = search'[r].entries
    BY <1>1, <1>7 DEF OwnInv
  <2> QED
    BY <2>1, <2>2, <2>3, <2>4 DEF OwnInv
<1>9. PageInv'
  <2>1. \A r \in Requests : search'[r].st = "pin" => search'[r].lines = <<>>
    BY <1>1, <1>6 DEF PageInv
  <2>2. \A r \in Requests : Reading(r)' => PageExact(search'[r])
    <3> TAKE r \in Requests
    <3> HAVE Reading(r)'
    <3>1. CASE r = q
      BY <1>2, <3>1 DEF Reading
    <3>2. CASE r # q
      <4>1. Reading(r) /\ search'[r] = search[r]
        BY <1>2, <1>7, <3>2
      <4> QED
        BY <1>1, <4>1 DEF PageInv
    <3> QED
      BY <3>1, <3>2
  <2> QED
    BY <2>1, <2>2 DEF PageInv
<1>10. SameInv'
  <2>1. ASSUME NEW r \in Requests, Reading(r)'
        PROVE  Still(search[r].entries)'
    <3>1. Still(search[r].entries) /\ search'[r].entries = search[r].entries
      BY <1>1, <1>7, <2>1 DEF SameInv
    <3> QED
      BY <1>1, <3>1 DEF Still
  <2>2. ASSUME NEW i \in DOMAIN snapshots
        PROVE  Still(snapshots[i])'
    <3>1. Still(snapshots[i])
      BY <1>1 DEF SameInv
    <3> QED
      BY <1>1, <3>1 DEF Still
  <2> QED
    BY <1>1, <2>1, <2>2 DEF SameInv
<1> QED
  BY <1>3, <1>4, <1>8, <1>9, <1>10 DEF PagesInv

LEMMA IdleTypes == Idle \in Searches /\ Answered \in Searches /\ Idle.st = "idle" /\ Answered.st = "answered"
<1>1. <<>> \in Pins(Nat) /\ <<>> \in Seq(Nat)
  BY EmptySeq DEF Pins
<1> QED
  BY <1>1 DEF Idle, Answered, Searches, States

\* A search that ends without an answer.
LEMMA SearchStops ==
  ASSUME PagesInv, NEW q \in Requests, search' = [search EXCEPT ![q] = Idle], UNCHANGED <<archive, cache>>
  PROVE  PagesInv'
<1>1. \A c \in cursors' : c.id \in DOMAIN snapshots /\ Inside(snapshots[c.id], c.pos)
  BY DEF PagesInv, PinnedTypes, cache
<1>2. UNCHANGED <<archive, snapshots, asked>>
  BY DEF cache
<1> QED
  BY <1>1, <1>2, IdleTypes, SearchStep


LEMMA SearchActionStops ==
  ASSUME PagesInv, NEW q \in Requests, Deadline(q) \/ Fails(q)
  PROVE  PagesInv'
BY SearchStops DEF Deadline, Fails

LEMMA SearchActionReadIndex ==
  ASSUME PagesInv, NEW q \in Requests, ReadIndex(q)
  PROVE  PagesInv'
<1>1. search[q].st = "index" /\ UNCHANGED <<archive, cache>>
  BY DEF ReadIndex
<1>2. CASE search' = [search EXCEPT ![q] = Idle]
  BY <1>1, <1>2, SearchStops
<1>3. CASE search' = [search EXCEPT ![q].st = "read"]
  <2> DEFINE t == [search[q] EXCEPT !.st = "read"]
  <2>1. search[q] \in Searches /\ PageExact(search[q]) /\ search' = [search EXCEPT ![q] = t]
    BY <1>1, <1>3 DEF PagesInv, PinnedTypes, PageInv, Reading
  <2>2. /\ t.st = "read" /\ t.id = search[q].id /\ t.entries = search[q].entries /\ t.start = search[q].start
        /\ t.pos = search[q].pos /\ t.lines = search[q].lines /\ t \in Searches
    BY <2>1 DEF Searches, States
  <2> HIDE DEF t
  <2>3. PageExact(t)
    BY <1>1, <2>1, <2>2 DEF PageExact
  <2>4. \A c \in cursors' : c.id \in DOMAIN snapshots /\ Inside(snapshots[c.id], c.pos)
    BY <1>1 DEF PagesInv, PinnedTypes, cache
  <2>5. UNCHANGED <<archive, snapshots, asked>> /\ Reading(q)
    BY <1>1 DEF cache, Reading
  <2> QED
    BY <2>1, <2>2, <2>3, <2>4, <2>5, SearchStep
<1> QED
  BY <1>2, <1>3 DEF ReadIndex

LEMMA SearchActionReadMember ==
  ASSUME PagesInv, NEW q \in Requests, ReadMember(q)
  PROVE  PagesInv'
<1> DEFINE s == search[q]
<1>1. s.st = "read" /\ UNCHANGED <<archive, cache>>
  BY DEF ReadMember
<1>2. /\ s \in Searches /\ PageExact(s) /\ Reading(q) /\ search \in [Requests -> Searches]
      /\ UNCHANGED <<archive, snapshots, asked>>
      /\ \A c \in cursors' : c.id \in DOMAIN snapshots /\ Inside(snapshots[c.id], c.pos)
  BY <1>1 DEF PagesInv, PinnedTypes, PageInv, Reading, cache
<1>3. CASE search' = [search EXCEPT ![q] = Idle]
  BY <1>1, <1>3, SearchStops
<1>4. CASE search' = [search EXCEPT ![q].st = "validate"]
  <2> DEFINE t == [s EXCEPT !.st = "validate"]
  <2>1. search' = [search EXCEPT ![q] = t]
    BY <1>4
  <2>2. /\ t.st = "validate" /\ t.id = s.id /\ t.entries = s.entries /\ t.start = s.start
        /\ t.pos = s.pos /\ t.lines = s.lines /\ t \in Searches
    BY <1>2 DEF Searches, States
  <2> HIDE DEF t
  <2>3. PageExact(t)
    BY <1>2, <2>2 DEF PageExact
  <2> QED
    BY <1>2, <2>1, <2>2, <2>3, SearchStep
<1>5. CASE \E o \in Scans(s), late \in BOOLEAN : search' = [search EXCEPT ![q] = AfterScan(s, o, late)]
  <2>1. PICK o \in Scans(s), late \in BOOLEAN : search' = [search EXCEPT ![q] = AfterScan(s, o, late)]
    BY <1>5
  <2> DEFINE st == IF o.done \/ o.pos = Nil THEN "validate"
                   ELSE IF o.pos.hour = s.pos.hour THEN "read" ELSE "index"
             lines == s.lines \o o.lines
             tardy == o.done /\ late
             t == [s EXCEPT !.lines = lines, !.pos = o.pos, !.late = tardy, !.st = st]
  <2>2. search' = [search EXCEPT ![q] = t]
    BY <2>1, Zenon DEF AfterScan
  <2>3. s.entries \in Pins(Nat) /\ s.lines \in Seq(Nat)
    BY <1>2 DEF Searches
  <2>4. Inside(s.entries, s.pos)
    BY <1>1, <1>2 DEF PageExact
  <2>5. /\ o.pos = Nil \/ Inside(s.entries, o.pos)
        /\ Found(LinesBefore(s.entries, o.pos)) = Found(LinesBefore(s.entries, s.pos)) \o o.lines
        /\ o.lines \in Seq(Nat)
    BY <2>3, <2>4, ScanExact
  <2>6. lines \in Seq(Nat)
    BY <2>3, <2>5, ConcatProperties
  <2>7. st \in {"index", "read", "validate"} /\ (o.pos = Nil => st = "validate")
    OBVIOUS
  <2>8. o.pos \in Positions \union {Nil}
    BY <2>5 DEF Inside
  <2>9. tardy \in BOOLEAN
    OBVIOUS
  <2> HIDE DEF lines, st, tardy, s
  <2>10. /\ t.st = st /\ t.id = s.id /\ t.entries = s.entries /\ t.start = s.start
         /\ t.pos = o.pos /\ t.lines = lines /\ t \in Searches
    BY <1>2, <2>6, <2>7, <2>8, <2>9 DEF Searches, States
  <2> HIDE DEF t
  <2>11. Found(LinesBefore(s.entries, o.pos)) = Found(LinesBefore(s.entries, s.start)) \o lines
    <3> DEFINE a == Found(LinesBefore(s.entries, s.start))
               b == s.lines
               c == o.lines
    <3>1. s.start = Nil \/ Inside(s.entries, s.start)
      BY <1>2 DEF PageExact
    <3>2. a \in Seq(Nat)
      BY <2>3, <3>1, BeforeType, FoundType
    <3>3. Found(LinesBefore(s.entries, s.pos)) = a \o b
      BY <1>2 DEF PageExact
    <3> HIDE DEF a, b, c
    <3>6. b \in Seq(Nat) /\ c \in Seq(Nat)
      BY <2>3, <2>5 DEF b, c
    <3>4. (a \o b) \o c = a \o (b \o c)
      BY <3>2, <3>6, ConcatAssociative, SMTT(30)
    <3>5. Found(LinesBefore(s.entries, o.pos)) = (a \o b) \o c
      BY <2>5, <3>3 DEF c
    <3> QED
      BY <3>4, <3>5 DEF a, b, c, lines
  <2>12. PageExact(t)
    BY <1>2, <2>5, <2>7, <2>10, <2>11 DEF PageExact
  <2> QED
    BY <1>2, <2>2, <2>7, <2>10, <2>12, SearchStep DEF s
<1> QED
  BY <1>3, <1>4, <1>5 DEF ReadMember

LEMMA SearchActionValidate ==
  ASSUME PagesInv, NEW q \in Requests, Validate(q)
  PROVE  PagesInv'
<1> DEFINE s == search[q]
           answer == busy = Nil /\ Valid(s) /\ (s.pos = Nil \/ Advances(s.pos, s.start))
           t == IF answer THEN Answered ELSE Idle
<1>1. /\ s.st = "validate" /\ UNCHANGED <<archive, snapshots, asked>> /\ search' = [search EXCEPT ![q] = t]
      /\ cursors' = IF answer /\ s.pos # Nil /\ s.id \in DOMAIN snapshots
                    THEN cursors \union {[id |-> s.id, pos |-> s.pos]} ELSE cursors
  BY DEF Validate
<1>2. /\ s \in Searches /\ PageExact(s) /\ Reading(q) /\ search \in [Requests -> Searches]
      /\ \A c \in cursors : c.id \in DOMAIN snapshots /\ Inside(snapshots[c.id], c.pos)
      /\ s.id \in DOMAIN snapshots => snapshots[s.id] = s.entries
  BY <1>1 DEF PagesInv, PinnedTypes, OwnInv, PageInv, Reading
<1>3. \A c \in cursors' : c.id \in DOMAIN snapshots /\ Inside(snapshots[c.id], c.pos)
  <2> DEFINE new == [id |-> s.id, pos |-> s.pos]
  <2>1. cursors' = cursors \/ (cursors' = cursors \union {new} /\ s.pos # Nil /\ s.id \in DOMAIN snapshots)
    BY <1>1
  <2>2. s.pos # Nil => Inside(s.entries, s.pos)
    BY <1>2 DEF PageExact
  <2>3. new.id = s.id /\ new.pos = s.pos
    OBVIOUS
  <2> HIDE DEF new, s
  <2> QED
    BY <1>2, <2>1, <2>2, <2>3
<1>4. t \in Searches /\ t.st \in {"idle", "answered"}
  BY IdleTypes
<1> HIDE DEF t
<1> QED
  BY <1>1, <1>3, <1>4, SearchStep


\* What a snapshot pins of the catalog.
LEMMA EntriesType ==
  ASSUME PagesInv, busy = Nil
  PROVE  Entries \in Pins(Nat) /\ Still(Entries)
<1>1. StoreTypes /\ SameInv /\ files = catalog
  BY DEF PagesInv, StoreTypes
<1> DEFINE all == [h \in Hours |-> h]
           known == Hours \cap DOMAIN catalog
           hours == Among(all, DOMAIN catalog)
<1>2. hours \in Seq(known)
  <2>1. Hours = 1..Len(First) /\ Len(First) \in Nat
    BY SearchAssumption, LenProperties DEF Hours
  <2>2. all \in Seq(Hours)
    <3>1. \A i \in 1..Len(First) : i \in Hours
      BY <2>1
    <3>2. all = [i \in 1..Len(First) |-> i]
      BY <2>1
    <3> HIDE DEF all
    <3> QED
      BY <2>1, <3>1, <3>2
  <2> HIDE DEF all
  <2> QED
    BY <2>2, AmongType
<1> DEFINE pin(h) == [hour |-> h, id |-> catalog[h].id, members |-> catalog[h].members]
           R == [hour : Hours, id : Nat, members : Seq(Seq(Nat)) \ {<<>>}]
<1>3. Entries = [i \in DOMAIN hours |-> pin(hours[i])]
  BY DEF Entries
<1> HIDE DEF hours
<1>4. Len(hours) \in Nat /\ DOMAIN hours = 1..Len(hours) /\ \A i \in 1..Len(hours) : hours[i] \in known
  <2> HIDE DEF known
  <2> QED
    BY <1>2, LenProperties
<1>5. \A h \in known : pin(h) \in R /\ pin(h).hour = h /\ pin(h).id = catalog[h].id /\ pin(h).members = catalog[h].members
  <2> TAKE h \in known
  <2>1. catalog[h] \in Published /\ h \in Hours
    BY <1>1 DEF StoreTypes
  <2> QED
    BY <2>1 DEF Published
<1>6. Entries \in Seq(R)
  <2>1. \A i \in 1..Len(hours) : pin(hours[i]) \in R
    BY <1>4, <1>5
  <2> HIDE DEF pin, R
  <2> QED
    BY <1>3, <1>4, <2>1
<1>7. ASSUME NEW i \in DOMAIN Entries
      PROVE  Entries[i].id <= ids /\ Continues(catalog, Entries[i]) /\ Continues(files, Entries[i])
  <2>1. i \in 1..Len(hours) /\ Entries[i] = pin(hours[i]) /\ hours[i] \in known
    BY <1>3, <1>4, <1>7
  <2> DEFINE h == hours[i]
             entry == Entries[i]
  <2>2. entry.hour = h /\ entry.id = catalog[h].id /\ entry.members = catalog[h].members
    BY <1>5, <2>1
  <2>3. catalog[h].id <= ids
    BY <1>1, <2>1 DEF SameInv
  <2> HIDE DEF entry, h
  <2>4. entry.id <= ids /\ Continues(catalog, entry)
    BY <2>2, <2>3 DEF Continues
  <2> QED
    BY <1>1, <2>4 DEF entry
<1> QED
  BY <1>6, <1>7 DEF Pins, Still

LEMMA SearchActionAsk ==
  ASSUME PagesInv, NEW q \in Requests, Ask(q)
  PROVE  PagesInv'
<1>1. /\ StoreTypes /\ PinnedTypes /\ OwnInv /\ PageInv /\ SameInv
      /\ ~Running(q) /\ asked' = asked + 1 /\ asked \in Nat
      /\ UNCHANGED <<catalog, files, busy, ids, newest, changes, snapshots, cursors>>
  BY DEF PagesInv, Ask, archive, PinnedTypes
<1> DEFINE n == asked + 1
           first == [Idle EXCEPT !.st = "pin", !.id = n]
           more(c) == [Idle EXCEPT !.st = "index", !.id = c.id, !.entries = snapshots[c.id], !.start = c.pos, !.pos = c.pos]
<1>2. PICK t : /\ search' = [search EXCEPT ![q] = t]
               /\ t = first \/ \E c \in cursors : t = more(c)
  BY DEF Ask
<1>3. first \in Searches /\ first.st = "pin" /\ first.id = n /\ first.lines = <<>>
  <2>1. n \in Nat /\ Idle \in Searches /\ Idle.lines = <<>>
    BY <1>1, IdleTypes DEF Idle
  <2> HIDE DEF n
  <2> QED
    BY <2>1 DEF Searches, States
<1>4. ASSUME NEW c \in cursors
      PROVE  /\ more(c) \in Searches /\ more(c).st = "index" /\ more(c).id = c.id /\ c.id \in DOMAIN snapshots
             /\ more(c).entries = snapshots[c.id] /\ PageExact(more(c))
  <2>1. c.id \in DOMAIN snapshots /\ Inside(snapshots[c.id], c.pos)
    BY <1>1 DEF PinnedTypes
  <2>2. c.id \in Nat /\ snapshots[c.id] \in Pins(Nat) /\ c.pos \in Positions
    BY <1>1, <2>1 DEF PinnedTypes, Inside
  <2>3. Idle \in Searches /\ Idle.lines = <<>>
    BY IdleTypes DEF Idle
  <2> DEFINE m == more(c)
             E == snapshots[c.id]
  <2> HIDE DEF E
  <2>4. /\ m \in Searches /\ m.st = "index" /\ m.id = c.id /\ m.entries = E
        /\ m.start = c.pos /\ m.pos = c.pos /\ m.lines = <<>>
    BY <2>2, <2>3 DEF Searches, States, E
  <2> HIDE DEF m
  <2>5. m.pos # Nil
    BY <2>2, <2>4, SearchAssumption DEF Positions
  <2>6. PageExact(m)
    BY <2>1, <2>4, <2>5, PageBegins DEF E
  <2> QED
    BY <2>1, <2>4, <2>6 DEF m, E
<1> HIDE DEF first, more
<1>5. t \in Searches
  BY <1>2, <1>3, <1>4
<1>6. search \in [Requests -> Searches] /\ search'[q] = t /\ \A r \in Requests : r # q => search'[r] = search[r]
  BY <1>1, <1>2 DEF PinnedTypes
<1>7. StoreTypes'
  BY <1>1 DEF StoreTypes
<1>8. PinnedTypes'
  BY <1>1, <1>2, <1>5 DEF PinnedTypes
<1>9. t.st = "pin" => t = first
  BY <1>2, <1>4
<1>10. t.st # "pin" => t.id \in DOMAIN snapshots /\ t.entries = snapshots[t.id] /\ PageExact(t)
  BY <1>2, <1>3, <1>4
<1>11. \A i \in DOMAIN snapshots : i <= asked /\ i \in Nat
  BY <1>1 DEF OwnInv, PinnedTypes
<1>12. \A r \in Requests : Running(r) => search[r].id <= asked /\ search[r].id \in Nat
  BY <1>1, <1>6 DEF OwnInv, Searches
<1>13. OwnInv'
  <2>1. \A i \in DOMAIN snapshots' : i <= asked'
    BY <1>1, <1>11
  <2>2. ASSUME NEW r \in Requests, Running(r)'
        PROVE  search'[r].id <= asked'
    <3>1. CASE r = q
      <4>1. t.id <= asked + 1
        BY <1>1, <1>3, <1>9, <1>10, <1>11
      <4> QED
        BY <1>1, <1>6, <3>1, <4>1
    <3>2. CASE r # q
      BY <1>1, <1>6, <1>12, <2>2, <3>2 DEF Running
    <3> QED
      BY <3>1, <3>2
  <2>3. ASSUME NEW r \in Requests, search'[r].st = "pin"
        PROVE  /\ search'[r].id \notin DOMAIN snapshots'
               /\ \A o \in Requests : Running(o)' /\ search'[o].id = search'[r].id => o = r
    <3>1. CASE r = q
      <4>1. search'[r].id = asked + 1
        BY <1>3, <1>6, <1>9, <2>3, <3>1
      <4>2. \A o \in Requests : o # q /\ Running(o)' => search'[o].id <= asked /\ search'[o].id \in Nat
        BY <1>6, <1>12 DEF Running
      <4> QED
        BY <1>1, <1>11, <3>1, <4>1, <4>2
    <3>2. CASE r # q
      <4>1. search'[r] = search[r] /\ search[r].st = "pin" /\ Running(r)
        BY <1>6, <2>3, <3>2 DEF Running
      <4>2. search[r].id \notin DOMAIN snapshots /\ search[r].id <= asked /\ search[r].id \in Nat
        BY <1>1, <1>12, <4>1 DEF OwnInv
      <4>3. t.id # search[r].id
        BY <1>1, <1>3, <1>9, <1>10, <4>2
      <4>4. \A o \in Requests : o # q /\ Running(o)' => Running(o) /\ search'[o].id = search[o].id
        BY <1>6 DEF Running
      <4> QED
        BY <1>1, <1>6, <4>1, <4>2, <4>3, <4>4 DEF OwnInv
    <3> QED
      BY <3>1, <3>2
  <2>4. ASSUME NEW r \in Requests, Reading(r)', search'[r].id \in DOMAIN snapshots'
        PROVE  snapshots'[search'[r].id] = search'[r].entries
    <3>1. CASE r = q
      BY <1>1, <1>6, <1>10, <2>4, <3>1 DEF Reading
    <3>2. CASE r # q
      BY <1>1, <1>6, <2>4, <3>2 DEF Reading, OwnInv
    <3> QED
      BY <3>1, <3>2
  <2> QED
    BY <2>1, <2>2, <2>3, <2>4 DEF OwnInv
<1>14. PageInv'
  <2> SUFFICES ASSUME NEW r \in Requests
               PROVE  (search'[r].st = "pin" => search'[r].lines = <<>>) /\ (Reading(r)' => PageExact(search'[r]))
    BY DEF PageInv
  <2>1. CASE r = q
    BY <1>3, <1>6, <1>9, <1>10, <2>1 DEF Reading
  <2>2. CASE r # q
    BY <1>1, <1>6, <2>2 DEF Reading, PageInv
  <2> QED
    BY <2>1, <2>2
<1>15. SameInv'
  <2>1. ASSUME NEW r \in Requests, Reading(r)'
        PROVE  Still(search[r].entries)'
    <3>1. Still(search'[r].entries)
      <4>1. CASE r = q
        BY <1>1, <1>6, <1>10, <2>1, <4>1 DEF Reading, SameInv
      <4>2. CASE r # q
        BY <1>1, <1>6, <2>1, <4>2 DEF Reading, SameInv
      <4> QED
        BY <4>1, <4>2
    <3> QED
      BY <1>1, <3>1 DEF Still
  <2>2. ASSUME NEW i \in DOMAIN snapshots
        PROVE  Still(snapshots[i])'
    <3>1. Still(snapshots[i])
      BY <1>1 DEF SameInv
    <3> QED
      BY <1>1, <3>1 DEF Still
  <2> QED
    BY <1>1, <2>1, <2>2 DEF SameInv
<1> QED
  BY <1>7, <1>8, <1>13, <1>14, <1>15 DEF PagesInv


LEMMA SearchActionPin ==
  ASSUME PagesInv, NEW q \in Requests, Pin(q)
  PROVE  PagesInv'
<1> DEFINE s == search[q]
           new == s.id
           from == IF Entries = <<>> THEN Nil ELSE At(1, 1, 0, 0)
           t == [s EXCEPT !.entries = Entries, !.start = from, !.pos = from,
                          !.st = IF from = Nil THEN "validate" ELSE "index"]
<1>1. /\ StoreTypes /\ PinnedTypes /\ OwnInv /\ PageInv /\ SameInv
      /\ s.st = "pin" /\ busy = Nil
      /\ UNCHANGED <<catalog, files, busy, ids, newest, changes, asked>>
  BY DEF PagesInv, Pin, archive
<1>2. PICK kept \in SUBSET DOMAIN snapshots :
        /\ snapshots' = [i \in kept \union {new} |-> IF i = new THEN Entries ELSE snapshots[i]]
        /\ cursors' = {c \in cursors : c.id \in kept}
        /\ search' = [search EXCEPT ![q] = t]
  BY DEF Pin
<1>3. /\ new \notin DOMAIN snapshots /\ s \in Searches /\ new \in Nat /\ new <= asked /\ s.lines = <<>>
      /\ \A r \in Requests : Running(r) /\ search[r].id = new => r = q
  <2>1. Running(q)
    BY <1>1 DEF Running
  <2> QED
    BY <1>1, <2>1 DEF OwnInv, PinnedTypes, PageInv, Searches
<1>4. Entries \in Pins(Nat) /\ Still(Entries)
  BY <1>1, EntriesType
<1> DEFINE E == Entries
<1> HIDE DEF E
<1>5. from = Nil \/ Inside(E, from)
  <2>1. CASE E # <<>>
    <3>1. Len(E) \in Nat /\ Len(E) # 0 /\ E \in Pins(Nat)
      BY <1>4, <2>1, LenProperties, EmptySeq DEF Pins, E
    <3>2. 1 \in 1..Len(E)
      BY <3>1
    <3>3. Len(E[1].members) \in Nat /\ Len(E[1].members) > 0
      BY <3>1, <3>2, PinTypes
    <3>4. 1 \in 1..Len(E[1].members)
      BY <3>3
    <3>5. Len(E[1].members[1]) \in Nat
      BY <3>1, <3>2, <3>4, PinTypes
    <3>6. 0 \in 0..Len(E[1].members[1])
      BY <3>5
    <3>7. Inside(E, At(1, 1, 0, 0))
      BY <3>1, <3>2, <3>4, <3>6, AtInside
    <3> QED
      BY <2>1, <3>7 DEF E
  <2> QED
    BY <2>1 DEF E
<1>6. from \in Positions \union {Nil}
  BY <1>5 DEF Inside
<1> HIDE DEF from
<1>7. /\ t \in Searches /\ t.st \in {"index", "validate"} /\ t.id = new /\ t.entries = Entries
      /\ t.start = from /\ t.pos = from /\ t.lines = <<>> /\ (from = Nil => t.st = "validate")
  BY <1>3, <1>4, <1>6 DEF Searches, States
<1> HIDE DEF t
<1>8. PageExact(t)
  BY <1>5, <1>7, PageBegins DEF E
<1>9. search \in [Requests -> Searches] /\ search'[q] = t /\ \A r \in Requests : r # q => search'[r] = search[r]
  BY <1>1, <1>2 DEF PinnedTypes
<1> HIDE DEF new
<1>10. /\ DOMAIN snapshots' = kept \union {new} /\ snapshots' = [i \in DOMAIN snapshots' |-> snapshots'[i]]
       /\ snapshots'[new] = Entries /\ \A i \in kept : i # new /\ snapshots'[i] = snapshots[i]
  BY <1>2, <1>3
<1>11. StoreTypes'
  BY <1>1 DEF StoreTypes
<1>12. PinnedTypes'
  <2>1. /\ asked \in Nat /\ \A i \in DOMAIN snapshots : i \in Nat /\ snapshots[i] \in Pins(Nat)
        /\ \A c \in cursors : c.id \in DOMAIN snapshots /\ Inside(snapshots[c.id], c.pos)
    BY <1>1 DEF PinnedTypes
  <2>2. \A i \in DOMAIN snapshots' : i \in Nat /\ snapshots'[i] \in Pins(Nat)
    BY <1>2, <1>3, <1>4, <1>10, <2>1
  <2>3. \A c \in cursors' : c.id \in DOMAIN snapshots' /\ Inside(snapshots'[c.id], c.pos)
    BY <1>2, <1>10, <2>1
  <2>4. search' \in [Requests -> Searches]
    BY <1>2, <1>7, <1>9
  <2> QED
    BY <1>1, <1>10, <2>1, <2>2, <2>3, <2>4 DEF PinnedTypes
<1>13. \A r \in Requests : Running(r)' => Running(r) /\ search'[r].id = search[r].id
  <2>1. Running(q) /\ search'[q].id = search[q].id
    BY <1>1, <1>7, <1>9 DEF Running, new
  <2> QED
    BY <1>9, <2>1 DEF Running
<1>14. OwnInv'
  <2>1. \A i \in DOMAIN snapshots' : i <= asked'
    BY <1>1, <1>2, <1>3, <1>10 DEF OwnInv
  <2>2. \A r \in Requests : Running(r)' => search'[r].id <= asked'
    BY <1>1, <1>13 DEF OwnInv
  <2>3. ASSUME NEW r \in Requests, search'[r].st = "pin"
        PROVE  /\ search'[r].id \notin DOMAIN snapshots'
               /\ \A o \in Requests : Running(o)' /\ search'[o].id = search'[r].id => o = r
    <3>1. r # q /\ search'[r] = search[r] /\ search[r].st = "pin" /\ Running(r)
      BY <1>7, <1>9, <2>3 DEF Running
    <3>2. /\ search[r].id \notin DOMAIN snapshots /\ search[r].id # new
          /\ \A o \in Requests : Running(o) /\ search[o].id = search[r].id => o = r
      BY <1>1, <1>3, <3>1 DEF OwnInv
    <3> QED
      BY <1>2, <1>10, <1>13, <3>1, <3>2
  <2>4. ASSUME NEW r \in Requests, Reading(r)', search'[r].id \in DOMAIN snapshots'
        PROVE  snapshots'[search'[r].id] = search'[r].entries
    <3>1. CASE r = q
      BY <1>7, <1>9, <1>10, <3>1
    <3>2. CASE r # q
      <4>1. search'[r] = search[r] /\ Reading(r) /\ Running(r)
        BY <1>9, <2>4, <3>2 DEF Reading, Running
      <4>2. search[r].id # new
        BY <1>3, <3>2, <4>1
      <4>3. search[r].id \in kept
        BY <1>10, <2>4, <4>1, <4>2
      <4> QED
        BY <1>1, <1>2, <1>10, <4>1, <4>3 DEF OwnInv
    <3> QED
      BY <3>1, <3>2
  <2> QED
    BY <2>1, <2>2, <2>3, <2>4 DEF OwnInv
<1>15. PageInv'
  <2> SUFFICES ASSUME NEW r \in Requests
               PROVE  (search'[r].st = "pin" => search'[r].lines = <<>>) /\ (Reading(r)' => PageExact(search'[r]))
    BY DEF PageInv
  <2>1. CASE r = q
    BY <1>7, <1>8, <1>9, <2>1
  <2>2. CASE r # q
    BY <1>1, <1>9, <2>2 DEF Reading, PageInv
  <2> QED
    BY <2>1, <2>2
<1>16. SameInv'
  <2>1. ASSUME NEW r \in Requests, Reading(r)'
        PROVE  Still(search[r].entries)'
    <3>1. Still(search'[r].entries)
      <4>1. CASE r = q
        BY <1>4, <1>7, <1>9, <4>1
      <4>2. CASE r # q
        BY <1>1, <1>9, <2>1, <4>2 DEF Reading, SameInv
      <4> QED
        BY <4>1, <4>2
    <3> QED
      BY <1>1, <3>1 DEF Still
  <2>2. ASSUME NEW i \in DOMAIN snapshots'
        PROVE  Still(snapshots[i])'
    <3>1. Still(snapshots'[i])
      <4>1. CASE i = new
        BY <1>4, <1>10, <4>1
      <4>2. CASE i # new
        <5>1. i \in kept
          BY <1>10, <2>2, <4>2
        <5> QED
          BY <1>1, <1>2, <1>10, <5>1 DEF SameInv
      <4> QED
        BY <4>1, <4>2
    <3> QED
      BY <1>1, <3>1 DEF Still
  <2> QED
    BY <1>1, <2>1, <2>2 DEF SameInv
<1> QED
  BY <1>11, <1>12, <1>14, <1>15, <1>16 DEF PagesInv

LEMMA SnapshotAction ==
  ASSUME PagesInv, SnapshotExpires
  PROVE  PagesInv'
<1>1. /\ StoreTypes /\ PinnedTypes /\ OwnInv /\ PageInv /\ SameInv
      /\ UNCHANGED <<catalog, files, busy, ids, newest, changes, asked, search>>
  BY DEF PagesInv, SnapshotExpires, archive
<1>2. PICK i \in DOMAIN snapshots :
        /\ snapshots' = [j \in DOMAIN snapshots \ {i} |-> snapshots[j]]
        /\ cursors' = {c \in cursors : c.id # i}
  BY DEF SnapshotExpires
<1>3. /\ DOMAIN snapshots' \subseteq DOMAIN snapshots /\ snapshots' = [j \in DOMAIN snapshots' |-> snapshots'[j]]
      /\ \A j \in DOMAIN snapshots' : snapshots'[j] = snapshots[j]
      /\ \A j \in DOMAIN snapshots : j # i => j \in DOMAIN snapshots'
  BY <1>2
<1>4. StoreTypes'
  BY <1>1 DEF StoreTypes
<1>5. PinnedTypes'
  <2>1. \A j \in DOMAIN snapshots' : j \in Nat /\ snapshots'[j] \in Pins(Nat)
    BY <1>1, <1>3 DEF PinnedTypes
  <2>2. \A c \in cursors' : c.id \in DOMAIN snapshots' /\ Inside(snapshots'[c.id], c.pos)
    BY <1>1, <1>2, <1>3 DEF PinnedTypes
  <2> QED
    BY <1>1, <1>3, <2>1, <2>2 DEF PinnedTypes
<1>6. OwnInv'
  BY <1>1, <1>3 DEF OwnInv, Running, Reading
<1>7. PageInv'
  BY <1>1 DEF PageInv, Reading
<1>8. SameInv'
  <2>1. ASSUME NEW r \in Requests, Reading(r)'
        PROVE  Still(search[r].entries)'
    BY <1>1, <2>1 DEF Reading, SameInv, Still
  <2>2. ASSUME NEW j \in DOMAIN snapshots'
        PROVE  Still(snapshots[j])'
    <3>1. Still(snapshots'[j])
      BY <1>1, <1>3 DEF SameInv
    <3> QED
      BY <1>1, <3>1 DEF Still
  <2> QED
    BY <1>1, <2>1, <2>2 DEF SameInv
<1> QED
  BY <1>4, <1>5, <1>6, <1>7, <1>8 DEF PagesInv

-------------------------------------------------------------------------------
(* The theorems.                                                           *)

LEMMA PagesInit ==
  ASSUME SearchInit
  PROVE  PagesInv
<1>1. /\ catalog = [h \in Hours |-> [id |-> h, compacted |-> FALSE, members |-> First[h]]]
      /\ files = catalog /\ busy = Nil /\ ids = Len(First) /\ newest = Newest
      /\ snapshots = <<>> /\ cursors = {} /\ asked = 0 /\ search = [q \in Requests |-> Idle]
  BY DEF SearchInit
<1>2. Hours = 1..Len(First) /\ Len(First) \in Nat /\ Newest \in Nat
  BY SearchAssumption, LenProperties DEF Hours
<1>3. \A h \in Hours : First[h] \in Seq(Seq(Nat)) \ {<<>>}
  <2> TAKE h \in Hours
  <2> DEFINE V == 1..Newest
             W == Seq(V)
  <2>1. V \subseteq Nat
    OBVIOUS
  <2>2. First \in Seq(Seq(W)) /\ First[h] # <<>>
    BY SearchAssumption DEF Hours
  <2>3. First[h] \in Seq(W)
    <3> DEFINE X == Seq(W)
    <3>1. First \in Seq(X)
      BY <2>2
    <3> HIDE DEF X
    <3>2. First[h] \in X
      BY <1>2, <3>1, LenProperties
    <3> QED
      BY <3>2 DEF X
  <2> HIDE DEF V
  <2>4. W \subseteq Seq(Nat)
    BY <2>1, SeqMonotonic
  <2> HIDE DEF W
  <2>5. Seq(W) \subseteq Seq(Seq(Nat))
    BY <2>4, SeqMonotonic
  <2> QED
    BY <2>2, <2>3, <2>5
<1>4. catalog \in [DOMAIN catalog -> Published] /\ DOMAIN catalog = Hours /\ \A h \in Hours : catalog[h].id = h
  <2>1. \A h \in Hours : [id |-> h, compacted |-> FALSE, members |-> First[h]] \in Published
    BY <1>2, <1>3 DEF Published
  <2> QED
    BY <1>1, <2>1
<1>5. DOMAIN snapshots = {} /\ snapshots \in [DOMAIN snapshots -> Pins(Nat)]
  BY <1>1
<1>6. StoreTypes
  BY <1>1, <1>2, <1>4 DEF StoreTypes
<1>7. PinnedTypes
  BY <1>1, <1>5, IdleTypes DEF PinnedTypes
<1>8. \A q \in Requests : ~Running(q) /\ ~Reading(q) /\ search[q].st # "pin"
  BY <1>1, IdleTypes DEF Running, Reading
<1>9. OwnInv
  BY <1>5, <1>8 DEF OwnInv
<1>10. PageInv
  BY <1>8 DEF PageInv
<1>11. SameInv
  BY <1>1, <1>2, <1>4, <1>5, <1>8 DEF SameInv
<1> QED
  BY <1>6, <1>7, <1>9, <1>10, <1>11 DEF PagesInv

LEMMA PagesStep ==
  ASSUME PagesInv, [SearchNext]_searchVars
  PROVE  PagesInv'
<1>1. CASE AppendBatch \/ Replace \/ Expire \/ Publish
  BY <1>1, StoreActionAppend, StoreActionReplace, StoreActionExpire, StoreActionPublish
<1>2. CASE SnapshotExpires
  BY <1>2, SnapshotAction
<1>3. CASE \E q \in Requests : Ask(q) \/ Progress(q) \/ Deadline(q) \/ Fails(q)
  <2>1. PICK q \in Requests : Ask(q) \/ Progress(q) \/ Deadline(q) \/ Fails(q)
    BY <1>3
  <2> QED
    BY <2>1, SearchActionAsk, SearchActionPin, SearchActionReadIndex, SearchActionReadMember, SearchActionValidate,
       SearchActionStops DEF Progress
<1>4. CASE UNCHANGED searchVars
  <2>1. UNCHANGED <<catalog, files, busy, ids, newest, changes, snapshots, cursors, asked, search>>
    BY <1>4 DEF searchVars, archive, cache
  <2>2. StoreTypes' /\ PinnedTypes'
    BY <2>1 DEF PagesInv, StoreTypes, PinnedTypes
  <2>3. OwnInv' /\ PageInv'
    BY <2>1 DEF PagesInv, OwnInv, PageInv, Running, Reading
  <2>4. SameInv'
    BY <2>1 DEF PagesInv, SameInv, Still, Reading
  <2> QED
    BY <2>2, <2>3, <2>4 DEF PagesInv
<1> QED
  BY <1>1, <1>2, <1>3, <1>4 DEF SearchNext

\* A search only ever answers and hands out cursors for what it pinned, and
\* what it found so far is what the query matches since its cursor
\* (search.js search, the pages and the snapshots they are read from).
THEOREM PagesInvariant == SearchSpec => []PagesInv
BY PagesInit, PagesStep, PTL DEF SearchSpec

\* Pages one after the other neither lose nor repeat a line of the snapshot,
\* however each of them was cut short, whatever the store does meanwhile
\* (search.js search, the rows and the position of a member given back).
THEOREM PagesExactHolds == SearchSpec => []PagesExact
<1>1. PagesInv => PagesExact
  BY DEF PagesInv, PageInv, PageExact, Reading, PagesExact
<1> QED
  BY <1>1, PagesInvariant, PTL

\* What a position leaves behind is of the snapshot.
LEMMA PageOfSnapshot ==
  ASSUME NEW s \in Searches, PageExact(s), NEW n \in ToSet(s.lines)
  PROVE  \E i \in DOMAIN s.entries : n \in Shown(s.entries[i].members)
<1> DEFINE E == s.entries
           T == UNION {Shown(E[i].members) : i \in DOMAIN E}
           R(S) == [hour : Hours, id : Nat, members : Seq(Seq(S)) \ {<<>>}]
<1>1. E \in Seq(R(Nat)) /\ s.lines \in Seq(Nat)
  BY DEF Searches, Pins
<1>2. Len(E) \in Nat /\ DOMAIN E = 1..Len(E) /\ \A i \in DOMAIN E : E[i] \in R(Nat)
  <2> DEFINE X == R(Nat)
  <2> HIDE DEF X, E
  <2>1. E \in Seq(X)
    BY <1>1 DEF X
  <2>2. Len(E) \in Nat /\ DOMAIN E = 1..Len(E) /\ \A i \in DOMAIN E : E[i] \in X
    BY <2>1, LenProperties
  <2> QED
    BY <2>2 DEF X
<1>3. \A i \in DOMAIN E : E[i] \in R(T)
  <2> TAKE i \in DOMAIN E
  <2> DEFINE M == E[i].members
  <2>1. E[i] \in R(Nat) /\ M \in Seq(Seq(Nat)) /\ M # <<>>
    BY <1>2
  <2>2. Shown(M) \subseteq T
    OBVIOUS
  <2> HIDE DEF T, M
  <2>3. Len(M) \in Nat /\ DOMAIN M = 1..Len(M) /\ \A m \in DOMAIN M : M[m] \in Seq(Nat)
    <3> DEFINE W == Seq(Nat)
    <3>1. M \in Seq(W)
      BY <2>1
    <3> HIDE DEF W
    <3>2. Len(M) \in Nat /\ DOMAIN M = 1..Len(M) /\ \A m \in DOMAIN M : M[m] \in W
      BY <3>1, LenProperties
    <3> QED
      BY <3>2 DEF W
  <2>4. \A m \in DOMAIN M : M[m] \in Seq(T)
    <3> TAKE m \in DOMAIN M
    <3> DEFINE L == M[m]
    <3>1. L \in Seq(Nat) /\ ToSet(L) \subseteq T
      BY <2>2, <2>3 DEF Shown
    <3> HIDE DEF L
    <3>2. Len(L) \in Nat /\ DOMAIN L = 1..Len(L) /\ L = [k \in 1..Len(L) |-> L[k]]
      BY <3>1, LenProperties
    <3>3. \A k \in 1..Len(L) : L[k] \in T
      BY <3>1, <3>2 DEF ToSet
    <3>4. L \in Seq(T)
      BY <3>2, <3>3, IsASeq
    <3> QED
      BY <3>4 DEF L
  <2>5. M \in Seq(Seq(T))
    <3> DEFINE W == Seq(T)
    <3>1. M = [m \in 1..Len(M) |-> M[m]] /\ \A m \in 1..Len(M) : M[m] \in W
      BY <2>1, <2>3, <2>4
    <3> HIDE DEF W
    <3>2. M \in Seq(W)
      BY <2>3, <3>1, IsASeq
    <3> QED
      BY <3>2 DEF W
  <2> QED
    BY <2>1, <2>5 DEF M
<1> HIDE DEF T
<1>4. E \in Pins(T)
  <2> DEFINE X == R(T)
  <2>1. \A i \in 1..Len(E) : E[i] \in X
    BY <1>2, <1>3
  <2>2. E = [i \in 1..Len(E) |-> E[i]]
    BY <1>1, <1>2
  <2> HIDE DEF X, E
  <2>3. E \in Seq(X)
    BY <1>2, <2>1, <2>2, IsASeq
  <2> QED
    BY <2>3 DEF X, Pins
<1> DEFINE a == Found(LinesBefore(E, s.pos))
           b == Found(LinesBefore(E, s.start))
<1>5. a \in Seq(T) /\ b \in Seq(T) /\ a = b \o s.lines
  <2>1. (s.pos = Nil \/ Inside(E, s.pos)) /\ (s.start = Nil \/ Inside(E, s.start))
    BY DEF PageExact
  <2> QED
    BY <1>4, <2>1, BeforeType, FoundType DEF PageExact
<1>6. ToSet(a) = ToSet(b) \union ToSet(s.lines)
  <2> DEFINE U == T \union Nat
  <2>1. b \in Seq(U) /\ s.lines \in Seq(U)
    BY <1>1, <1>5, SeqMonotonic
  <2> HIDE DEF a, b, U
  <2> QED
    BY <1>5, <2>1, ToSetConcat
<1>7. ToSet(a) \subseteq T
  <2> HIDE DEF a
  <2>1. DOMAIN a = 1..Len(a) /\ \A k \in 1..Len(a) : a[k] \in T
    BY <1>5, LenProperties
  <2> QED
    BY <2>1 DEF ToSet
<1>8. n \in T
  BY <1>6, <1>7
<1> QED
  BY <1>8 DEF T

\* Nothing is answered of an hour that retention has removed by then.
LEMMA AnswerInCatalog ==
  ASSUME PagesInv, [SearchNext]_searchVars, NEW q \in Requests,
         search[q].st = "validate", search'[q].st = "answered", NEW n \in ToSet(search[q].lines)
  PROVE  \E h \in DOMAIN catalog : n \in ToSet(FlattenSeq(catalog[h].members))
<1> DEFINE s == search[q]
<1>1. StoreTypes /\ PinnedTypes /\ PageInv /\ SameInv /\ s \in Searches /\ search \in [Requests -> Searches]
  BY DEF PagesInv, PinnedTypes
<1>2. Valid(s)
  <2>1. search'[q] # search[q]
    OBVIOUS
  <2>2. CASE AppendBatch \/ Replace \/ Expire \/ Publish \/ SnapshotExpires \/ UNCHANGED searchVars
    BY <2>1, <2>2 DEF AppendBatch, Replace, Expire, Publish, SnapshotExpires, searchVars
  <2>3. CASE \E r \in Requests : Ask(r) \/ Progress(r) \/ Deadline(r) \/ Fails(r)
    <3>1. PICK r \in Requests : Ask(r) \/ Progress(r) \/ Deadline(r) \/ Fails(r)
      BY <2>3
    <3>2. ASSUME NEW u, search' = [search EXCEPT ![r] = u]
          PROVE  r = q /\ u.st = "answered"
      BY <1>1, <2>1, <3>2
    <3>3. CASE Validate(r)
      <4>1. /\ r = q
            /\ (IF busy = Nil /\ Valid(search[r]) /\ (search[r].pos = Nil \/ Advances(search[r].pos, search[r].start))
                THEN Answered ELSE Idle).st = "answered"
        BY <3>2, <3>3 DEF Validate
      <4> QED
        BY <4>1, IdleTypes
    <3>4. CASE Ask(r)
      BY <3>2, <3>4 DEF Ask, Running
    <3>5. CASE Pin(r)
      BY <3>2, <3>5 DEF Pin
    <3>6. CASE ReadIndex(r)
      BY <1>1, <2>1, <3>6, Zenon DEF ReadIndex
    <3>7. CASE ReadMember(r)
      BY <1>1, <2>1, <3>7, Zenon DEF ReadMember, AfterScan
    <3>8. CASE Deadline(r) \/ Fails(r)
      BY <3>2, <3>8, IdleTypes DEF Deadline, Fails
    <3> QED
      BY <3>1, <3>3, <3>4, <3>5, <3>6, <3>7, <3>8 DEF Progress
  <2> QED
    BY <2>2, <2>3 DEF SearchNext
<1>3. PICK i \in DOMAIN s.entries : n \in Shown(s.entries[i].members)
  <2>1. PageExact(s)
    BY <1>1 DEF PageInv, Reading
  <2> QED
    BY <1>1, <2>1, PageOfSnapshot
<1> DEFINE e == s.entries[i]
           h == e.hour
<1>4. h \in DOMAIN catalog /\ catalog[h].id = e.id
  BY <1>2 DEF Valid, Pinned
<1>5. Shown(e.members) \subseteq Shown(catalog[h].members)
  <2>1. Continues(catalog, e)
    BY <1>1 DEF SameInv, Reading, Still
  <2> QED
    BY <1>4, <2>1 DEF Continues
<1>6. catalog[h].members \in Seq(Seq(Nat))
  <2>1. catalog[h] \in Published
    BY <1>1, <1>4 DEF StoreTypes
  <2> QED
    BY <2>1 DEF Published
<1> DEFINE M == catalog[h].members
<1>7. n \in ToSet(FlattenSeq(M))
  <2>1. \E m \in DOMAIN M : n \in ToSet(M[m])
    BY <1>3, <1>5 DEF Shown
  <2> QED
    BY <1>6, <2>1, FlattenElements
<1> QED
  BY <1>4, <1>7

\* No page shows a line of an hour retention has removed by then, even if it
\* was read before that (search.js search, the last validation).
THEOREM NothingExpiredHolds == SearchSpec => NothingExpired
<1>1. PagesInv /\ [SearchNext]_searchVars =>
        [\A q \in Requests : search[q].st = "validate" /\ search'[q].st = "answered" =>
           \A n \in ToSet(search[q].lines) : \E h \in DOMAIN catalog : n \in ToSet(FlattenSeq(catalog[h].members))]_searchVars
  BY AnswerInCatalog
<1> QED
  BY <1>1, PagesInvariant, PTL DEF SearchSpec, NothingExpired
===============================================================================
