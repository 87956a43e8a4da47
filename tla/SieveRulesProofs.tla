---------------------------- MODULE SieveRulesProofs ----------------------------
(***************************************************************************)
(* Proofs about SieveRules: the rules in force are never without a copy,   *)
(* an import succeeds or is taken back, an undo is exact and its offer     *)
(* works, and a page replaces only the rules it showed.                    *)
(***************************************************************************)
EXTENDS SieveRules, SequenceTheorems, TLAPS

Store == [Names -> Plain \union Imported \union {Nil}]

\* What is read together belongs together.
FindingOK(f) ==
  /\ f.active = Nil => f.source = Nil
  /\ f.active = "webmail" => f.script # Nil /\ f.source = f.script
  /\ f.active = "other" => f.source # Nil

\* Rules whose code is intact.
Intact(c) == c \in Rule /\ c.body # 0

\* An import found what its record says, and stored newer rules.
ImportedOK(r) ==
  /\ r.at \in DOMAIN replaced
  /\ r.before = replaced[r.at].script /\ r.name = replaced[r.at].active /\ r.source = replaced[r.at].source
  /\ r.before # Nil => Intact(r.before) /\ r.before.doc < r.after.doc
  /\ Intact(r.after) /\ r.after.doc <= jobs

\* The rules of the account's own scripts were made by one of its requests.
Own == {"webmail", "prev", "undo-webmail"}
Numbered(n, c) == n \in Own /\ c \in Rule => c.doc <= jobs

Proper(c) ==
  c.do = "put" => /\ Numbered(c.name, c.script)
                  /\ c.name = "import" => ImportedOK(c.script)

ServerOK ==
  /\ active # Nil => scripts[active] # Nil
  /\ \A n \in Names : Numbered(n, scripts[n])
  /\ scripts["import"] # Nil => ImportedOK(scripts["import"])

\* An import that may yet put back what it found.
Returning == job # Nil /\ job.op = "import" /\ job.phase \in {"work", "reconnect", "recover"}

StoreOK ==
  /\ ServerOK
  /\ \A c \in late : Proper(c)
  /\ job # Nil => \A i \in DOMAIN job.todo : Proper(job.todo[i])
  /\ Returning => job.was \in Finding /\ Numbered("webmail", job.was.script)
  /\ \A i \in DOMAIN replaced : FindingOK(replaced[i])

-------------------------------------------------------------------------------
(* What a page saw.                                                        *)

\* The rules are those seen, or came later.
Since(seen, c) ==
  seen \in Rule => /\ c \in Rule
                   /\ seen.rev <= c.rev
                   /\ seen.rev = c.rev => seen.doc = c.doc

\* What a command leaves in the script of the rules.
SinceBy(seen, c) ==
  /\ c.do = "put" /\ c.name = "webmail" => Since(seen, c.script)
  /\ c.do = "remove" /\ c.name = "webmail" => seen \notin Rule

ViewsOK ==
  \A p \in Pages : views[p] # Nil /\ ~views[p].reused =>
    /\ Since(views[p].script, scripts["webmail"])
    /\ job # Nil => \A i \in DOMAIN job.todo : SinceBy(views[p].script, job.todo[i])
    /\ Returning => Since(views[p].script, job.was.script)

-------------------------------------------------------------------------------
(* A request that replaces the rules, nobody else writing.                 *)

Held(n, s, c) == Alike(s[n], c)

Activation == {<<>>, <<Activate("webmail")>>}

\* The rules are in another script than the one about to be replaced.
Spared(kept, s, doc) == \A c \in kept : Held("other", s, c) \/ Held("prev", s, c) \/ Alike(doc, c)

WriteLast(todo, kept, s) ==
  \E doc \in Rule, t \in Activation : todo = <<Put("webmail", doc)>> \o t /\ Spared(kept, s, doc)

WriteBoth(todo, kept, s) ==
  \E doc \in Rule, t \in Activation :
    /\ s["webmail"] # Nil
    /\ todo = <<Put("prev", s["webmail"])>> \o (<<Put("webmail", doc)>> \o t)
    /\ \A c \in kept : Held("other", s, c) \/ Held("webmail", s, c)

WriteWork(todo, kept, s) ==
  \/ todo \in Activation
  \/ WriteLast(todo, kept, s) \/ WriteBoth(todo, kept, s)
  \/ \E t \in Seq(Command) : todo = <<Check>> \o t /\ (WriteLast(t, kept, s) \/ WriteBoth(t, kept, s))

WriteOK(j, s) ==
  j.op = "write" =>
    /\ j.phase \in {"work", "over"}
    /\ \A c \in j.kept : \E n \in {"other", "webmail", "prev"} : Held(n, s, c)
    /\ j.phase = "work" => WriteWork(j.todo, j.kept, s)

-------------------------------------------------------------------------------
(* An import, nobody else writing.                                         *)

RecordOf(j) == ImportRecord(j.at, j.was, j.doc)

ArchivedScript(w) == IF w.script # Nil THEN Put("undo-webmail", w.script) ELSE Remove("undo-webmail")
ArchivedSource(w) == IF Elsewhere(w.active) THEN Put("undo-active", w.source) ELSE Remove("undo-active")

\* What is left of ImportCommands.
Import1 == <<Activate("webmail")>>
Import2(j) == <<Put("webmail", j.doc)>> \o Import1
Import3(j) == When(j.was.script # Nil, Put("prev", j.was.script)) \o Import2(j)
Import4(j) == <<Check>> \o Import3(j)
Import5(j) == <<Put("import", RecordOf(j))>> \o Import4(j)
Import6(j) == <<ArchivedSource(j.was)>> \o Import5(j)
Import7(j) == <<ArchivedScript(j.was)>> \o Import6(j)

ScriptKept(w, s) == w.script # Nil => s["undo-webmail"] = w.script
SourceKept(w, s) == Elsewhere(w.active) => s["undo-active"] = w.source

Archived(j, s) == s["import"] = RecordOf(j) /\ ScriptKept(j.was, s) /\ SourceKept(j.was, s)

Untouched(j, s, a) == s["webmail"] = j.was.script /\ a = j.was.active

ImportWork(j, s, a) ==
  \/ j.todo = <<>> /\ Archived(j, s) /\ s["webmail"] = j.doc /\ a = "webmail"
  \/ j.todo = Import1 /\ Archived(j, s) /\ s["webmail"] = j.doc /\ a = j.was.active
  \/ j.todo \in {Import2(j), Import3(j), Import4(j)} /\ Archived(j, s) /\ Untouched(j, s, a)
  \/ /\ ~j.archived /\ Untouched(j, s, a)
     /\ \/ j.todo = Import5(j) /\ ScriptKept(j.was, s) /\ SourceKept(j.was, s)
        \/ j.todo = Import6(j) /\ ScriptKept(j.was, s)
        \/ j.todo = Import7(j)

\* What the recovery still has to do; it can do it.
Removal(w) == When(w.script = Nil, Remove("webmail"))

RecoverWork(j, s, a) ==
  \/ j.todo = <<>> /\ Untouched(j, s, a)
  \/ j.todo = Removal(j.was) /\ a = j.was.active /\ (j.was.script # Nil => s["webmail"] = j.was.script)
  \/ /\ j.todo = <<Activate(j.was.active)>> \o Removal(j.was)
     /\ j.was.script # Nil => s["webmail"] = j.was.script
  \/ \E t \in Seq(Command) :
       /\ j.was.script # Nil
       /\ j.todo = <<Put("webmail", j.was.script)>> \o t
       /\ \/ t = Removal(j.was) /\ a = j.was.active
          \/ t = <<Activate(j.was.active)>> \o Removal(j.was)

\* The rules and the script it found active are somewhere, whatever was done.
ImportHeld(j, s, a) ==
  /\ j.was.script # Nil => s["webmail"] = j.was.script \/ s["undo-webmail"] = j.was.script
  /\ j.was.active = "other" => s["other"] = j.was.source
  /\ s["webmail"] \in {j.was.script, j.doc}
  /\ a \in {j.was.active, "webmail"}

ImportOver(j, s, a) ==
  /\ j.ok => Archived(j, s) /\ s["webmail"] = j.doc /\ a = "webmail"
  /\ ~j.ok /\ j.archived /\ ~j.cut => j.restored
  /\ j.restored => Untouched(j, s, a)

ImportOK(j, s, a) ==
  j.op = "import" =>
    /\ j.phase \in {"work", "reconnect", "recover", "over"}
    /\ j.was \in Finding /\ FindingOK(j.was) /\ Intact(j.doc) /\ ImportedOK(RecordOf(j))
    /\ j.kept = {j.was.script, j.was.source} \ {Nil}
    /\ ImportHeld(j, s, a)
    /\ j.phase # "over" => ~j.ok
    /\ j.phase = "work" => ImportWork(j, s, a)
    /\ j.phase \in {"reconnect", "recover"} => Archived(j, s)
    /\ j.phase = "recover" => RecoverWork(j, s, a)
    /\ j.phase = "over" => ImportOver(j, s, a)

-------------------------------------------------------------------------------
(* An undo, nobody else writing.                                           *)

\* The same rules, and recognized while the archive holds the original.
Again(c, orig, archive) ==
  /\ c \in Plain /\ Alike(c, orig)
  /\ archive = orig => IsRestored(c, orig, archive)

SourceBack(f, s) == f.active = "other" => Again(s["other"], f.source, s["undo-active"])
ScriptBack(f, s) == f.script # Nil => Again(s["webmail"], f.script, s["undo-webmail"])

\* The other script is still to be written, or not to be.
SourceAny(f, s) ==
  f.active = "other" => \/ Again(s["other"], f.source, s["undo-active"])
                        \/ s["other"] = Nil /\ s["undo-active"] = f.source

\* So are the rules; if they were edited, that was accepted.
ScriptAny(f, s, accept) ==
  \/ f.script # Nil /\ Again(s["webmail"], f.script, s["undo-webmail"])
  \/ f.script = Nil /\ s["webmail"] = Nil
  \/ /\ s["webmail"] = s["import"].after \/ accept
     /\ f.script # Nil => s["undo-webmail"] = f.script
     /\ s["webmail"] # Nil => Parse(s["webmail"]) # "newer_version"

IsRecord(r, at, f) == r # Nil /\ r.at = at /\ r.before = f.script /\ r.name = f.active /\ r.source = f.source

\* What is left of UndoCommands.
Undo1 == <<Remove("import")>>
Undo2(f) == When(f.script = Nil, Remove("webmail")) \o Undo1
Undo3(f) == <<Activate(f.active)>> \o Undo2(f)
Undo4(f, c) == <<Put("webmail", c)>> \o Undo3(f)
Undo5(c, t) == <<Put("other", c)>> \o t

\* The rules still to be written.
ScriptToCome(t, f, s) ==
  \/ t = Undo3(f) /\ f.script = Nil
  \/ f.script # Nil /\ \E c \in Rule : t = Undo4(f, c) /\ Again(c, f.script, s["undo-webmail"])

Undone0(f, s, a) ==
  /\ Alike(s["webmail"], f.script) /\ a = f.active /\ s["import"] = Nil
  /\ f.active = "other" => Alike(s["other"], f.source)

\* How far an undo got that removes the record last.
UndoHalf(j, f, s) ==
  /\ IsRecord(s["import"], j.at, f)
  /\ SourceAny(f, s) /\ ScriptAny(f, s, j.accept)

UndoWork(j, f, s, a) ==
  \/ j.todo = <<>> /\ Undone0(f, s, a)
  \/ /\ UndoHalf(j, f, s)
     /\ \/ /\ j.todo = Undo1 /\ a = f.active /\ SourceBack(f, s) /\ ScriptBack(f, s)
           /\ f.script = Nil => s["webmail"] = Nil
        \/ j.todo = Undo2(f) /\ a = f.active /\ SourceBack(f, s) /\ ScriptBack(f, s)
        \/ j.todo = Undo3(f) /\ SourceBack(f, s) /\ ScriptBack(f, s)
        \/ SourceBack(f, s) /\ ScriptToCome(j.todo, f, s)
        \/ \E c \in Plain, t \in Seq(Command) :
             /\ f.active = "other" /\ j.todo = Undo5(c, t) /\ Again(c, f.source, s["undo-active"])
             /\ ScriptToCome(t, f, s)

Archives == {Remove("undo-webmail"), Remove("undo-active")}

UndoOK(j, s, a) ==
  j.op = "undo" =>
    /\ j.phase \in {"work", "cleanup", "over"} /\ j.at \in DOMAIN replaced
    /\ replaced[j.at].script # Nil => Intact(replaced[j.at].script)
    /\ j.kept = {replaced[j.at].script, replaced[j.at].source} \ {Nil}
    /\ j.phase # "over" => ~j.ok
    /\ j.phase = "work" => UndoWork(j, replaced[j.at], s, a)
    /\ j.phase = "cleanup" => /\ Undone0(replaced[j.at], s, a)
                              /\ \A i \in DOMAIN j.todo : j.todo[i] \in Archives
    /\ j.phase = "over" => \/ Undone0(replaced[j.at], s, a)
                           \/ ~j.ok /\ UndoHalf(j, replaced[j.at], s)

-------------------------------------------------------------------------------
(* While nothing but saves follows an import.                              *)

\* A command of a save.
Calm(c) ==
  \/ c \in {Check, Activate("webmail")}
  \/ c.do = "put" /\ c.name = "prev"
  \/ /\ c.do = "put" /\ c.name = "webmail"
     /\ Intact(c.script) /\ scripts["import"].after.doc <= c.script.doc

CalmOK ==
  calm =>
    LET record == scripts["import"] IN
    /\ record # Nil /\ active = "webmail" /\ CopiesKept(record)
    /\ Intact(scripts["webmail"]) /\ record.after.doc <= scripts["webmail"].doc
    /\ record.name = "other" => scripts["other"] = record.source
    /\ ~Idle => job.op = "write"
    /\ job # Nil => \A i \in DOMAIN job.todo : Calm(job.todo[i])

-------------------------------------------------------------------------------

\* A request, and what the server holds for it.
Fine(j, s, a) ==
  /\ j.phase = "over" => ~j.touched /\ j.todo = <<>>
  /\ j.touched => j.kept = {}
  /\ j.phase \in {"reconnect", "recover"} => j.op = "import"
  /\ j.phase = "cleanup" => j.op = "undo"
  /\ ~j.touched => WriteOK(j, s) /\ ImportOK(j, s, a) /\ UndoOK(j, s, a)

RequestOK == job # Nil => Fine(job, scripts, active)

ActInv == StoreOK /\ ViewsOK /\ RequestOK /\ CalmOK
IInv == TypeOK /\ ActInv

-------------------------------------------------------------------------------
(* Sequences of commands.                                                  *)

LEMMA One ==
  ASSUME NEW S, NEW c \in S
  PROVE  /\ <<c>> \in Seq(S) /\ <<c>> # <<>> /\ Head(<<c>>) = c /\ Tail(<<c>>) = <<>>
         /\ \A i \in DOMAIN <<c>> : <<c>>[i] = c
OBVIOUS

LEMMA Elements ==
  ASSUME NEW S, NEW s \in Seq(S)
  PROVE  \A i \in DOMAIN s : s[i] \in S
BY LenProperties

\* A command before others.
LEMMA Cons ==
  ASSUME NEW S, NEW c \in S, NEW t \in Seq(S)
  PROVE  /\ <<c>> \o t \in Seq(S) /\ <<c>> \o t # <<>>
         /\ Head(<<c>> \o t) = c /\ Tail(<<c>> \o t) = t
<1>1. <<c>> \in Seq(S) /\ Len(<<c>>) = 1 /\ <<c>>[1] = c
  OBVIOUS
<1> DEFINE u == <<c>> \o t
<1>2. /\ u \in Seq(S) /\ Len(u) = 1 + Len(t) /\ Len(t) \in Nat
      /\ \A i \in 1..1 + Len(t) : u[i] = IF i <= 1 THEN <<c>>[i] ELSE t[i - 1]
  <2>1. Len(t) \in Nat
    BY LenProperties
  <2> QED
    BY <1>1, <2>1, ConcatProperties
<1> HIDE DEF u
<1>3. u # <<>> /\ Head(u) = c
  <2>1. u[1] = c /\ Len(u) # 0
    BY <1>1, <1>2
  <2> QED
    BY <1>2, <2>1, EmptySeq
<1>4. Tail(u) \in Seq(S) /\ Len(Tail(u)) = Len(t) /\ \A i \in 1..Len(t) : Tail(u)[i] = u[i + 1]
  BY <1>2, <1>3, HeadTailProperties
<1>5. \A i \in 1..Len(t) : Tail(u)[i] = t[i]
  BY <1>2, <1>4
<1>6. Tail(u) = t
  BY <1>4, <1>5, SeqEqual
<1> QED
  BY <1>2, <1>3, <1>6 DEF u

LEMMA TailElements ==
  ASSUME NEW S, NEW s \in Seq(S), s # <<>>
  PROVE  /\ Tail(s) \in Seq(S) /\ Head(s) \in S /\ 1 \in DOMAIN s /\ Head(s) = s[1]
         /\ \A i \in DOMAIN Tail(s) : i + 1 \in DOMAIN s /\ Tail(s)[i] = s[i + 1]
<1>1. /\ Tail(s) \in Seq(S) /\ Len(Tail(s)) = Len(s) - 1 /\ Len(s) \in Nat \ {0} /\ Head(s) \in S
      /\ \A i \in 1..Len(Tail(s)) : Tail(s)[i] = s[i + 1]
  BY HeadTailProperties, EmptySeq, LenProperties
<1>2. DOMAIN s = 1..Len(s) /\ DOMAIN Tail(s) = 1..Len(Tail(s))
  BY <1>1, LenProperties
<1>3. Head(s) = s[1]
  OBVIOUS
<1> QED
  BY <1>1, <1>2, <1>3

LEMMA Optional ==
  ASSUME NEW S, NEW c \in S, NEW condition \in BOOLEAN
  PROVE  When(condition, c) \in Seq(S)
BY One, EmptySeq DEF When

\* A command that may be left out.
LEMMA WhenCons ==
  ASSUME NEW S, NEW c \in S, NEW t \in Seq(S), NEW condition \in BOOLEAN
  PROVE  /\ When(condition, c) \o t \in Seq(S)
         /\ condition => When(condition, c) \o t = <<c>> \o t
         /\ ~condition => When(condition, c) \o t = t
<1>1. When(condition, c) \in Seq(S)
  BY Optional
<1>2. When(condition, c) \o t \in Seq(S)
  BY <1>1, ConcatProperties
<1> QED
  BY <1>2, ConcatEmptySeq DEF When

-------------------------------------------------------------------------------
(* Commands.                                                               *)

LEMMA NamesAre == {"webmail", "prev", "undo-webmail", "undo-active", "import", "other"} \subseteq Names
BY DEF Names

LEMMA Commands ==
  /\ Check \in Command /\ Check.do = "check"
  /\ \A n \in Names \ {"import"}, c \in Plain : Put(n, c) \in Command
  /\ \A c \in Imported : Put("import", c) \in Command
  /\ \A n \in Selected : Activate(n) \in Command
  /\ \A n \in Names \ {"prev"} : Remove(n) \in Command
  /\ \A n, c : Put(n, c).do = "put" /\ Put(n, c).name = n /\ Put(n, c).script = c
  /\ \A n : Activate(n).do = "activate" /\ Activate(n).name = n
  /\ \A n : Remove(n).do = "remove" /\ Remove(n).name = n
BY DEF Command, Check, Put, Activate, Remove

\* What a command does.
Does(c, s, a, s2, a2) ==
  /\ c.do = "put" => s2 = [s EXCEPT ![c.name] = c.script] /\ a2 = a
  /\ c.do = "remove" => s2 = [s EXCEPT ![c.name] = Nil] /\ a2 = a
  /\ c.do = "activate" => s2 = s /\ a2 = c.name
  /\ c.do = "check" => s2 = s /\ a2 = a

LEMMA EffectIs ==
  ASSUME NEW c \in Command, Effect(c)
  PROVE  Does(c, scripts, active, scripts', active')
<1>1. c.do \in {"put", "remove", "activate", "check"}
  BY DEF Command
<1> QED
  BY <1>1 DEF Effect, Does

LEMMA NilFacts ==
  /\ Nil \notin Names /\ Nil \notin Nat /\ Nil \notin Plain /\ Nil \notin Rule /\ Nil \notin Imported
  /\ Nil \notin View /\ Nil \notin Finding /\ Nil \notin Request
  /\ Nil \notin {"webmail", "other"}
BY RulesAssumption DEF Plain, Names

\* The scripts after a command.
LEMMA DoesWorks ==
  ASSUME NEW c \in Command, NEW s \in Store, NEW a \in Selected, NEW s2, NEW a2, Does(c, s, a, s2, a2),
         \A n \in Names \ {"import"} : s[n] \in Plain \union {Nil}, s["import"] \in Imported \union {Nil}
  PROVE  /\ s2 \in Store /\ a2 \in Selected
         /\ \A n \in Names \ {"import"} : s2[n] \in Plain \union {Nil}
         /\ s2["import"] \in Imported \union {Nil}
<1>1. CASE c.do = "put"
  <2>1. /\ c.name \in Names
        /\ c.name # "import" => c.script \in Plain
        /\ c.name = "import" => c.script \in Imported
    BY <1>1 DEF Command, Names
  <2> QED
    BY <1>1, <2>1, NamesAre DEF Does, Store
<1>2. CASE c.do = "remove"
  <2>1. c.name \in Names
    BY <1>2 DEF Command
  <2> QED
    BY <1>2, <2>1, NamesAre DEF Does, Store
<1>3. CASE c.do = "activate"
  BY <1>3 DEF Does, Store, Command
<1>4. CASE c.do = "check"
  BY <1>4 DEF Does, Store, Command
<1> QED
  BY <1>1, <1>2, <1>3, <1>4 DEF Command

-------------------------------------------------------------------------------
(* The steps of an import.                                                 *)

Importing(j) == /\ j \in Request /\ j.op = "import" /\ j.was \in Finding /\ FindingOK(j.was)
                /\ Intact(j.doc) /\ j.at \in Nat \ {0}

LEMMA ImportParts ==
  ASSUME NEW j, Importing(j)
  PROVE  /\ Import1 \in Seq(Command) /\ Import1 # <<>>
         /\ Head(Import1) = Activate("webmail") /\ Tail(Import1) = <<>>
         /\ Import2(j) \in Seq(Command) /\ Import2(j) # <<>>
         /\ Head(Import2(j)) = Put("webmail", j.doc) /\ Tail(Import2(j)) = Import1
         /\ Import3(j) \in Seq(Command)
         /\ j.was.script = Nil => Import3(j) = Import2(j)
         /\ j.was.script # Nil => /\ Import3(j) # <<>> /\ Head(Import3(j)) = Put("prev", j.was.script)
                                  /\ Tail(Import3(j)) = Import2(j)
         /\ Import4(j) \in Seq(Command) /\ Import4(j) # <<>>
         /\ Head(Import4(j)) = Check /\ Tail(Import4(j)) = Import3(j)
         /\ Import5(j) \in Seq(Command) /\ Import5(j) # <<>>
         /\ Head(Import5(j)) = Put("import", RecordOf(j)) /\ Tail(Import5(j)) = Import4(j)
         /\ Import6(j) \in Seq(Command) /\ Import6(j) # <<>>
         /\ Head(Import6(j)) = ArchivedSource(j.was) /\ Tail(Import6(j)) = Import5(j)
         /\ Import7(j) \in Seq(Command) /\ Import7(j) # <<>>
         /\ Head(Import7(j)) = ArchivedScript(j.was) /\ Tail(Import7(j)) = Import6(j)
         /\ RecordOf(j) \in Imported
<1>1. /\ Activate("webmail") \in Command /\ Put("webmail", j.doc) \in Command /\ Check \in Command
      /\ j.was.script # Nil => Put("prev", j.was.script) \in Command
  BY Commands, NamesAre DEF Importing, Intact, Plain, Selected, Finding
<1>2. RecordOf(j) \in Imported
  BY DEF RecordOf, ImportRecord, Imported, Importing, Finding, Intact
<1>3. Put("import", RecordOf(j)) \in Command
  BY <1>2, Commands
<1>4. ArchivedSource(j.was) \in Command
  <2>1. CASE Elsewhere(j.was.active)
    <3>1. j.was.source \in Plain
      BY <2>1 DEF Importing, Finding, Selected, FindingOK, Elsewhere
    <3> QED
      BY <2>1, <3>1, Commands, NamesAre DEF ArchivedSource
  <2> QED
    BY <2>1, Commands, NamesAre DEF ArchivedSource
<1>5. ArchivedScript(j.was) \in Command
  BY Commands, NamesAre DEF ArchivedScript, Importing, Finding
<1>6. /\ Import1 \in Seq(Command) /\ Import1 # <<>>
      /\ Head(Import1) = Activate("webmail") /\ Tail(Import1) = <<>>
  BY <1>1, One DEF Import1
<1>7. /\ Import2(j) \in Seq(Command) /\ Import2(j) # <<>>
      /\ Head(Import2(j)) = Put("webmail", j.doc) /\ Tail(Import2(j)) = Import1
  BY <1>1, <1>6, Cons DEF Import2
<1>8. /\ Import3(j) \in Seq(Command)
      /\ j.was.script = Nil => Import3(j) = Import2(j)
      /\ j.was.script # Nil => /\ Import3(j) # <<>> /\ Head(Import3(j)) = Put("prev", j.was.script)
                               /\ Tail(Import3(j)) = Import2(j)
  <2>1. CASE j.was.script = Nil
    <3>1. Import3(j) = <<>> \o Import2(j)
      BY <2>1 DEF Import3, When
    <3> QED
      BY <1>7, <2>1, <3>1, ConcatEmptySeq
  <2>2. CASE j.was.script # Nil
    <3>1. Import3(j) = <<Put("prev", j.was.script)>> \o Import2(j)
      BY <2>2 DEF Import3, When
    <3> QED
      BY <1>1, <1>7, <2>2, <3>1, Cons
  <2> QED
    BY <2>1, <2>2
<1>9. /\ Import4(j) \in Seq(Command) /\ Import4(j) # <<>>
      /\ Head(Import4(j)) = Check /\ Tail(Import4(j)) = Import3(j)
  BY <1>1, <1>8, Cons DEF Import4
<1>10. /\ Import5(j) \in Seq(Command) /\ Import5(j) # <<>>
       /\ Head(Import5(j)) = Put("import", RecordOf(j)) /\ Tail(Import5(j)) = Import4(j)
  BY <1>3, <1>9, Cons DEF Import5
<1>11. /\ Import6(j) \in Seq(Command) /\ Import6(j) # <<>>
       /\ Head(Import6(j)) = ArchivedSource(j.was) /\ Tail(Import6(j)) = Import5(j)
  BY <1>4, <1>10, Cons DEF Import6
<1>12. /\ Import7(j) \in Seq(Command) /\ Import7(j) # <<>>
       /\ Head(Import7(j)) = ArchivedScript(j.was) /\ Tail(Import7(j)) = Import6(j)
  BY <1>5, <1>11, Cons DEF Import7
<1> QED
  BY <1>2, <1>6, <1>7, <1>8, <1>9, <1>10, <1>11, <1>12

\* The scripts after each of the commands.
LEMMA PutDoes ==
  ASSUME NEW s \in Store, NEW a, NEW s2, NEW a2, NEW n \in Names, NEW c, Does(Put(n, c), s, a, s2, a2)
  PROVE  s2[n] = c /\ a2 = a /\ \A m \in Names : m # n => s2[m] = s[m]
BY Commands DEF Does, Store

LEMMA RemoveDoes ==
  ASSUME NEW s \in Store, NEW a, NEW s2, NEW a2, NEW n \in Names, Does(Remove(n), s, a, s2, a2)
  PROVE  s2[n] = Nil /\ a2 = a /\ \A m \in Names : m # n => s2[m] = s[m]
BY Commands DEF Does, Store

LEMMA ActivateDoes ==
  ASSUME NEW s, NEW a, NEW s2, NEW a2, NEW n, Does(Activate(n), s, a, s2, a2)
  PROVE  s2 = s /\ a2 = n
BY Commands DEF Does

LEMMA CheckDoes ==
  ASSUME NEW s, NEW a, NEW s2, NEW a2, Does(Check, s, a, s2, a2)
  PROVE  s2 = s /\ a2 = a
BY Commands DEF Does

LEMMA ImportStep ==
  ASSUME NEW j, NEW s \in Store, NEW a \in Selected, NEW s2, NEW a2,
         Importing(j), ImportWork(j, s, a), j.todo # <<>>, Does(Head(j.todo), s, a, s2, a2),
         NEW k, Importing(k), k.was = j.was, k.at = j.at, k.doc = j.doc, k.todo = Tail(j.todo),
         k.archived = (j.archived \/ RecordStored(Head(j.todo)))
  PROVE  ImportWork(k, s2, a2)
<1>1. /\ Import2(k) = Import2(j) /\ Import3(k) = Import3(j) /\ Import4(k) = Import4(j)
      /\ Import5(k) = Import5(j) /\ Import6(k) = Import6(j) /\ RecordOf(k) = RecordOf(j)
  BY DEF Import2, Import3, Import4, Import5, Import6, RecordOf
<1>2. CASE j.todo = Import1 /\ Archived(j, s) /\ s["webmail"] = j.doc /\ a = j.was.active
  <2>0. Head(j.todo) = Activate("webmail") /\ Tail(j.todo) = <<>>
    BY <1>2, ImportParts
  <2>1. k.todo = <<>> /\ s2 = s /\ a2 = "webmail"
    BY <2>0, ActivateDoes
  <2> QED
    BY <1>1, <1>2, <2>1 DEF ImportWork, Archived
<1>3. CASE j.todo = Import2(j) /\ Archived(j, s) /\ Untouched(j, s, a)
  <2>1. /\ k.todo = Import1 /\ a2 = a /\ s2["webmail"] = j.doc
        /\ \A m \in Names : m # "webmail" => s2[m] = s[m]
    <3>1. Head(j.todo) = Put("webmail", j.doc) /\ Tail(j.todo) = Import1
      BY <1>3, ImportParts
    <3>2. "webmail" \in Names /\ Does(Put("webmail", j.doc), s, a, s2, a2)
      BY <3>1, NamesAre
    <3> QED
      BY <3>1, <3>2, PutDoes
  <2> QED
    BY <1>1, <1>3, <2>1, NamesAre DEF ImportWork, Archived, ScriptKept, SourceKept, Untouched
<1>4. CASE j.todo = Import3(j) /\ Archived(j, s) /\ Untouched(j, s, a) /\ j.was.script # Nil
  <2>1. k.todo = Import2(k) /\ a2 = a /\ \A m \in Names : m # "prev" => s2[m] = s[m]
    <3>1. Head(j.todo) = Put("prev", j.was.script) /\ Tail(j.todo) = Import2(j)
      BY <1>4, ImportParts
    <3>2. "prev" \in Names /\ Does(Put("prev", j.was.script), s, a, s2, a2)
      BY <3>1, NamesAre
    <3> QED
      BY <1>1, <3>1, <3>2, PutDoes
  <2> QED
    BY <1>1, <1>4, <2>1, NamesAre DEF ImportWork, Archived, ScriptKept, SourceKept, Untouched
<1>5. CASE j.todo = Import4(j) /\ Archived(j, s) /\ Untouched(j, s, a)
  <2>1. k.todo = Import3(k) /\ a2 = a /\ s2 = s
    <3>1. Head(j.todo) = Check /\ Tail(j.todo) = Import3(j)
      BY <1>5, ImportParts
    <3> QED
      BY <1>1, <3>1, CheckDoes
  <2> QED
    BY <1>1, <1>5, <2>1 DEF ImportWork, Archived, Untouched
<1>6. CASE j.todo = Import5(j) /\ Untouched(j, s, a) /\ ScriptKept(j.was, s) /\ SourceKept(j.was, s)
  <2>1. /\ k.todo = Import4(k) /\ a2 = a /\ s2["import"] = RecordOf(k)
        /\ \A m \in Names : m # "import" => s2[m] = s[m]
    <3>1. Head(j.todo) = Put("import", RecordOf(j)) /\ Tail(j.todo) = Import4(j)
      BY <1>6, ImportParts
    <3>2. "import" \in Names /\ Does(Put("import", RecordOf(j)), s, a, s2, a2)
      BY <3>1, NamesAre
    <3> QED
      BY <1>1, <3>1, <3>2, PutDoes
  <2> QED
    BY <1>1, <1>6, <2>1, NamesAre DEF ImportWork, Archived, ScriptKept, SourceKept, Untouched
<1>7. CASE j.todo = Import6(j) /\ ~j.archived /\ Untouched(j, s, a) /\ ScriptKept(j.was, s)
  <2>1. k.todo = Import5(k) /\ ArchivedSource(j.was) = Head(j.todo)
    BY <1>1, <1>7, ImportParts
  <2>2. /\ a2 = a /\ \A m \in Names : m # "undo-active" => s2[m] = s[m]
        /\ Elsewhere(j.was.active) => s2["undo-active"] = j.was.source
    <3>1. CASE Head(j.todo) = Put("undo-active", j.was.source)
      <4>1. "undo-active" \in Names /\ Does(Put("undo-active", j.was.source), s, a, s2, a2)
        BY <3>1, NamesAre
      <4>2. s2["undo-active"] = j.was.source /\ a2 = a /\ \A m \in Names : m # "undo-active" => s2[m] = s[m]
        BY <4>1, PutDoes
      <4> QED
        BY <4>2
    <3>2. CASE Head(j.todo) = Remove("undo-active") /\ ~(Elsewhere(j.was.active))
      BY <3>2, RemoveDoes, NamesAre
    <3> QED
      BY <2>1, <3>1, <3>2 DEF ArchivedSource
  <2>3. ~k.archived
    <3>1. ~RecordStored(Put("undo-active", j.was.source)) /\ ~RecordStored(Remove("undo-active"))
      BY Commands DEF RecordStored
    <3> QED
      BY <1>7, <2>1, <3>1 DEF ArchivedSource
  <2> QED
    BY <1>1, <1>7, <2>1, <2>2, <2>3, NamesAre DEF ImportWork, ScriptKept, SourceKept, Untouched
<1>8. CASE j.todo = Import7(j) /\ ~j.archived /\ Untouched(j, s, a)
  <2>1. k.todo = Import6(k) /\ ArchivedScript(j.was) = Head(j.todo)
    BY <1>1, <1>8, ImportParts
  <2>2. /\ a2 = a /\ \A m \in Names : m # "undo-webmail" => s2[m] = s[m]
        /\ j.was.script # Nil => s2["undo-webmail"] = j.was.script
    <3>1. CASE Head(j.todo) = Put("undo-webmail", j.was.script)
      <4>1. "undo-webmail" \in Names /\ Does(Put("undo-webmail", j.was.script), s, a, s2, a2)
        BY <3>1, NamesAre
      <4>2. s2["undo-webmail"] = j.was.script /\ a2 = a /\ \A m \in Names : m # "undo-webmail" => s2[m] = s[m]
        BY <4>1, PutDoes
      <4> QED
        BY <4>2
    <3>2. CASE Head(j.todo) = Remove("undo-webmail") /\ ~(j.was.script # Nil)
      BY <3>2, RemoveDoes, NamesAre
    <3> QED
      BY <2>1, <3>1, <3>2 DEF ArchivedScript
  <2>3. ~k.archived
    <3>1. ~RecordStored(Put("undo-webmail", j.was.script)) /\ ~RecordStored(Remove("undo-webmail"))
      BY Commands DEF RecordStored
    <3> QED
      BY <1>8, <2>1, <3>1 DEF ArchivedScript
  <2> QED
    BY <1>1, <1>8, <2>1, <2>2, <2>3, NamesAre DEF ImportWork, ScriptKept, Untouched
<1> QED
  BY <1>2, <1>3, <1>4, <1>5, <1>6, <1>7, <1>8, ImportParts DEF ImportWork

\* Wherever an import is, what it found is somewhere; once archived, in the archives.
LEMMA ImportKeeps ==
  ASSUME NEW j, NEW s, NEW a, ImportWork(j, s, a),
         j.was.active = "other" => s["other"] = j.was.source
  PROVE  /\ ImportHeld(j, s, a)
         /\ j.archived => Archived(j, s)
BY DEF ImportWork, ImportHeld, Archived, ScriptKept, Untouched

\* No command of an import writes the script of another program.
LEMMA ImportSpares ==
  ASSUME NEW j, NEW s \in Store, NEW a \in Selected, NEW s2, NEW a2,
         Importing(j), ImportWork(j, s, a), j.todo # <<>>, Does(Head(j.todo), s, a, s2, a2)
  PROVE  s2["other"] = s["other"]
<1>1. \/ Head(j.todo) \in {Activate("webmail"), Check}
      \/ \E n \in Names \ {"other"} : \E c : Head(j.todo) \in {Put(n, c), Remove(n)}
  <2>1. Head(j.todo) \in {Activate("webmail"), Check, Put("webmail", j.doc), Put("prev", j.was.script),
                           Put("import", RecordOf(j)), ArchivedSource(j.was), ArchivedScript(j.was)}
    BY ImportParts DEF ImportWork
  <2> QED
    BY <2>1, NamesAre DEF ArchivedSource, ArchivedScript
<1>2. "other" \in Names
  BY NamesAre
<1>3. ASSUME NEW n \in Names \ {"other"}, NEW c, Head(j.todo) = Put(n, c)
      PROVE  s2["other"] = s["other"]
  BY <1>2, <1>3, PutDoes
<1>4. ASSUME NEW n \in Names \ {"other"}, Head(j.todo) = Remove(n)
      PROVE  s2["other"] = s["other"]
  BY <1>2, <1>4, RemoveDoes
<1>5. CASE Head(j.todo) \in {Activate("webmail"), Check}
  BY <1>5, ActivateDoes, CheckDoes
<1> QED
  BY <1>1, <1>3, <1>4, <1>5

LEMMA Two ==
  ASSUME NEW S, NEW c \in S, NEW d \in S
  PROVE  <<c, d>> = <<c>> \o <<d>>
<1>1. <<c>> \in Seq(S) /\ <<d>> \in Seq(S) /\ <<c, d>> \in Seq(S)
  OBVIOUS
<1>2. Len(<<c>>) = 1 /\ Len(<<d>>) = 1 /\ Len(<<c, d>>) = 2
  OBVIOUS
<1>3. <<c>> \o <<d>> \in Seq(S) /\ Len(<<c>> \o <<d>>) = 2
  BY <1>1, <1>2, ConcatProperties
<1>4. (<<c>> \o <<d>>)[1] = <<c>>[1] /\ (<<c>> \o <<d>>)[2] = <<d>>[1]
  BY <1>1, <1>2, ConcatProperties
<1>5. \A i \in 1..2 : (<<c>> \o <<d>>)[i] = <<c, d>>[i]
  BY <1>4
<1> QED
  BY <1>1, <1>2, <1>3, <1>5, SeqEqual

LEMMA Four ==
  ASSUME NEW S, NEW c \in S, NEW d \in S, NEW e \in S, NEW f \in S, NEW t, t = <<c, d, e, f>>
  PROVE  t = <<c>> \o (<<d>> \o (<<e>> \o <<f>>))
<1>1. <<c>> \in Seq(S) /\ <<d>> \in Seq(S) /\ <<e>> \in Seq(S) /\ <<f>> \in Seq(S) /\ <<e, f>> \in Seq(S)
  OBVIOUS
<1>2. <<e, f>> = <<e>> \o <<f>>
  BY Two
<1>3. <<d, e, f>> = <<d>> \o <<e, f>>
  <2>1. Len(<<d>>) = 1 /\ Len(<<e, f>>) = 2 /\ Len(<<d, e, f>>) = 3 /\ <<d, e, f>> \in Seq(S)
    OBVIOUS
  <2>2. /\ <<d>> \o <<e, f>> \in Seq(S) /\ Len(<<d>> \o <<e, f>>) = 3
        /\ (<<d>> \o <<e, f>>)[1] = <<d>>[1] /\ (<<d>> \o <<e, f>>)[2] = <<e, f>>[1]
        /\ (<<d>> \o <<e, f>>)[3] = <<e, f>>[2]
    BY <1>1, <2>1, ConcatProperties
  <2>3. \A i \in 1..3 : (<<d>> \o <<e, f>>)[i] = <<d, e, f>>[i]
    BY <2>2
  <2> QED
    BY <2>1, <2>2, <2>3, SeqEqual
<1>4. <<c, d, e, f>> = <<c>> \o <<d, e, f>>
  <2>1. /\ Len(<<c>>) = 1 /\ Len(<<d, e, f>>) = 3 /\ Len(<<c, d, e, f>>) = 4
        /\ <<d, e, f>> \in Seq(S) /\ <<c, d, e, f>> \in Seq(S)
    OBVIOUS
  <2>2. /\ <<c>> \o <<d, e, f>> \in Seq(S) /\ Len(<<c>> \o <<d, e, f>>) = 4
        /\ (<<c>> \o <<d, e, f>>)[1] = <<c>>[1] /\ (<<c>> \o <<d, e, f>>)[2] = <<d, e, f>>[1]
        /\ (<<c>> \o <<d, e, f>>)[3] = <<d, e, f>>[2] /\ (<<c>> \o <<d, e, f>>)[4] = <<d, e, f>>[3]
    BY <1>1, <2>1, ConcatProperties
  <2>3. \A i \in 1..4 : (<<c>> \o <<d, e, f>>)[i] = <<c, d, e, f>>[i]
    BY <2>2
  <2> QED
    BY <2>1, <2>2, <2>3, SeqEqual
<1> QED
  BY <1>2, <1>3, <1>4

LEMMA ImportPlan ==
  ASSUME NEW j, Importing(j)
  PROVE  ImportCommands(j.was, RecordOf(j)) = Import7(j)
<1> DEFINE A == ArchivedScript(j.was)
           B == ArchivedSource(j.was)
           C == Put("import", RecordOf(j))
           P == When(j.was.script # Nil, Put("prev", j.was.script))
           W == Put("webmail", j.doc)
           X == Activate("webmail")
<1>1. A \in Command /\ B \in Command /\ C \in Command /\ Check \in Command /\ X \in Command /\ W \in Command
  <2>1. /\ Head(Import7(j)) = A /\ Head(Import6(j)) = B /\ Head(Import5(j)) = C
        /\ Import7(j) \in Seq(Command) /\ Import6(j) \in Seq(Command) /\ Import5(j) \in Seq(Command)
        /\ Import7(j) # <<>> /\ Import6(j) # <<>> /\ Import5(j) # <<>>
        /\ Head(Import2(j)) = W /\ Import2(j) \in Seq(Command) /\ Import2(j) # <<>>
    BY ImportParts
  <2>2. X \in Command /\ Check \in Command
    BY Commands DEF Selected
  <2> QED
    BY <2>1, <2>2, HeadTailProperties
<1>2. P \in Seq(Command)
  <2>1. j.was.script # Nil => Put("prev", j.was.script) \in Command
    BY Commands, NamesAre DEF Importing, Finding
  <2> QED
    BY <2>1, One, EmptySeq DEF When
<1>3. ImportCommands(j.was, RecordOf(j)) = (<<A, B, C, Check>> \o P) \o <<W, X>>
  BY DEF ImportCommands, ArchivedScript, ArchivedSource, RecordOf, ImportRecord
<1>4. Import7(j) = <<A>> \o (<<B>> \o (<<C>> \o (<<Check>> \o (P \o (<<W>> \o <<X>>)))))
  BY DEF Import7, Import6, Import5, Import4, Import3, Import2, Import1
<1> HIDE DEF A, B, C, P, W, X
<1>5. <<A, B, C, Check>> = <<A>> \o (<<B>> \o (<<C>> \o <<Check>>)) /\ <<W, X>> = <<W>> \o <<X>>
  <2>1. <<A, B, C, Check>> = <<A>> \o (<<B>> \o (<<C>> \o <<Check>>))
    <3>1. PICK b1 \in Command, b2 \in Command, b3 \in Command, b4 \in Command :
            b1 = A /\ b2 = B /\ b3 = C /\ b4 = Check
      BY <1>1
    <3>2. <<b1, b2, b3, b4>> = <<b1>> \o (<<b2>> \o (<<b3>> \o <<b4>>))
      <4>1. PICK t : t = <<b1, b2, b3, b4>>
        OBVIOUS
      <4>2. t = <<b1>> \o (<<b2>> \o (<<b3>> \o <<b4>>))
        BY <4>1, Four
      <4> QED
        BY <4>1, <4>2
    <3> QED
      BY <3>1, <3>2
  <2>2. <<W, X>> = <<W>> \o <<X>>
    BY <1>1, Two
  <2> QED
    BY <2>1, <2>2
<1>6. /\ <<A>> \in Seq(Command) /\ <<B>> \in Seq(Command) /\ <<C>> \in Seq(Command)
      /\ <<Check>> \in Seq(Command) /\ <<W>> \o <<X>> \in Seq(Command)
  BY <1>1, ConcatProperties
<1> DEFINE T == P \o (<<W>> \o <<X>>)
<1>7. T \in Seq(Command) /\ <<C>> \o <<Check>> \in Seq(Command)
  BY <1>2, <1>6, ConcatProperties
<1>8. <<B>> \o (<<C>> \o <<Check>>) \in Seq(Command)
  BY <1>6, <1>7, ConcatProperties
<1>9. (<<A, B, C, Check>> \o P) \o <<W, X>> = <<A, B, C, Check>> \o T
  BY <1>1, <1>2, <1>5, <1>6, ConcatAssociative
<1> HIDE DEF T
<1>10. <<A, B, C, Check>> \o T = <<A>> \o ((<<B>> \o (<<C>> \o <<Check>>)) \o T)
  BY <1>5, <1>6, <1>7, <1>8, ConcatAssociative
<1>11. (<<B>> \o (<<C>> \o <<Check>>)) \o T = <<B>> \o ((<<C>> \o <<Check>>) \o T)
  BY <1>6, <1>7, ConcatAssociative
<1>12. (<<C>> \o <<Check>>) \o T = <<C>> \o (<<Check>> \o T)
  BY <1>6, <1>7, ConcatAssociative
<1> QED
  BY <1>3, <1>4, <1>9, <1>10, <1>11, <1>12 DEF T

-------------------------------------------------------------------------------
(* The recovery of an import.                                              *)

LEMMA RecoverParts ==
  ASSUME NEW w \in Finding
  PROVE  /\ Removal(w) \in Seq(Command)
         /\ w.script # Nil => Removal(w) = <<>>
         /\ w.script = Nil => /\ Removal(w) # <<>> /\ Head(Removal(w)) = Remove("webmail")
                              /\ Tail(Removal(w)) = <<>>
         /\ <<Activate(w.active)>> \o Removal(w) \in Seq(Command)
         /\ <<Activate(w.active)>> \o Removal(w) # <<>>
         /\ Head(<<Activate(w.active)>> \o Removal(w)) = Activate(w.active)
         /\ Tail(<<Activate(w.active)>> \o Removal(w)) = Removal(w)
         /\ w.script # Nil => Put("webmail", w.script) \in Command
         /\ Activate(w.active) \in Command
<1>1. /\ Remove("webmail") \in Command /\ Activate(w.active) \in Command
      /\ w.script # Nil => Put("webmail", w.script) \in Command
  BY Commands, NamesAre DEF Finding
<1>2. /\ Removal(w) \in Seq(Command)
      /\ w.script # Nil => Removal(w) = <<>>
      /\ w.script = Nil => /\ Removal(w) # <<>> /\ Head(Removal(w)) = Remove("webmail")
                           /\ Tail(Removal(w)) = <<>>
  BY <1>1, One, EmptySeq DEF Removal, When
<1> QED
  BY <1>1, <1>2, Cons

LEMMA RecoverPlan ==
  ASSUME NEW j, Importing(j), scripts["webmail"] \in {j.was.script, j.doc}
  PROVE  \E t : /\ t = RecoveryCommands(j.was) /\ t \in Seq(Command)
                /\ \A k : k.todo = t /\ k.was = j.was => RecoverWork(k, scripts, active)
<1> DEFINE w == j.was
           x == Put("webmail", w.script)
           y == Activate(w.active)
           t == RecoveryCommands(w)
           r == When(active # w.active, y) \o Removal(w)
           change == w.script # Nil /\ scripts["webmail"] # w.script
<1>1. w \in Finding
  BY DEF Importing
<1>2. /\ Removal(w) \in Seq(Command) /\ y \in Command /\ <<y>> \o Removal(w) \in Seq(Command)
      /\ w.script # Nil => x \in Command /\ Removal(w) = <<>>
  BY <1>1, RecoverParts
<1>3. t = (When(change, x) \o When(active # w.active, y)) \o Removal(w)
  BY DEF RecoveryCommands, Removal
<1> HIDE DEF t, w, x, y
<1>4. When(change, x) \in Seq(Command) /\ When(active # w.active, y) \in Seq(Command)
  BY <1>2, One, EmptySeq DEF When
<1>5. t = When(change, x) \o r
  BY <1>2, <1>3, <1>4, ConcatAssociative
<1>6. /\ r \in Seq(Command)
      /\ active # w.active => r = <<y>> \o Removal(w)
      /\ active = w.active => r = Removal(w)
  BY <1>2, WhenCons
<1> HIDE DEF r
<1>7. CASE change
  <2>1. x \in Command /\ w.script # Nil
    BY <1>2, <1>7
  <2>2. t = <<x>> \o r /\ t \in Seq(Command)
    BY <1>5, <1>6, <1>7, <2>1, WhenCons
  <2>3. ASSUME NEW k, k.todo = t, k.was = j.was
        PROVE  RecoverWork(k, scripts, active)
    <3>1. /\ k.was.script # Nil /\ k.todo = <<Put("webmail", k.was.script)>> \o r
          /\ \/ r = Removal(k.was) /\ active = k.was.active
             \/ r = <<Activate(k.was.active)>> \o Removal(k.was)
      BY <1>6, <2>1, <2>2, <2>3 DEF w, x, y
    <3> QED
      BY <1>6, <3>1 DEF RecoverWork
  <2> QED
    BY <2>2, <2>3 DEF t, w
<1>8. CASE ~change
  <2>1. t = r
    BY <1>5, <1>6, <1>8, ConcatEmptySeq DEF When
  <2>2. w.script # Nil => scripts["webmail"] = w.script
    BY <1>8
  <2> QED
    BY <1>6, <2>1, <2>2 DEF t, w, y, RecoverWork
<1> QED
  BY <1>7, <1>8

\* A step of the recovery; the server always carries it out.
LEMMA RecoverStep ==
  ASSUME NEW j, NEW s \in Store, NEW a \in Selected, Importing(j), RecoverWork(j, s, a), j.todo # <<>>,
         s["webmail"] \in {j.was.script, j.doc}, a \in {j.was.active, "webmail"},
         Archived(j, s), j.was.active = "other" => s["other"] = j.was.source
  PROVE  /\ \/ Head(j.todo) = Put("webmail", j.was.script) /\ j.was.script # Nil
            \/ Head(j.todo) = Activate(j.was.active) /\ (j.was.active # Nil => s[j.was.active] # Nil)
            \/ Head(j.todo) = Remove("webmail") /\ a # "webmail" /\ j.was.script = Nil
         /\ \A s2, a2, k : Does(Head(j.todo), s, a, s2, a2) /\ k.todo = Tail(j.todo) /\ k.was = j.was
                             /\ k.doc = j.doc /\ k.at = j.at =>
              /\ RecoverWork(k, s2, a2) /\ Archived(k, s2) /\ s2["other"] = s["other"]
              /\ s2["webmail"] \in {j.was.script, j.doc} /\ a2 \in {j.was.active, "webmail"}
<1>1. j.was \in Finding /\ FindingOK(j.was) /\ j.doc # Nil
  BY NilFacts DEF Importing, Intact
<1>2. CASE j.todo = Removal(j.was) /\ a = j.was.active /\ (j.was.script # Nil => s["webmail"] = j.was.script)
  <2>1. /\ j.was.script = Nil /\ Head(j.todo) = Remove("webmail") /\ Tail(j.todo) = <<>>
    BY <1>1, <1>2, RecoverParts
  <2>2. a # "webmail"
    BY <1>1, <1>2, <2>1 DEF FindingOK
  <2>3. ASSUME NEW s2, NEW a2, Does(Remove("webmail"), s, a, s2, a2)
        PROVE  s2["webmail"] = Nil /\ a2 = a /\ \A m \in Names : m # "webmail" => s2[m] = s[m]
    BY <2>3, RemoveDoes, NamesAre
  <2>4. ASSUME NEW s2, NEW a2, NEW k, Does(Head(j.todo), s, a, s2, a2), k.todo = Tail(j.todo),
               k.was = j.was, k.doc = j.doc, k.at = j.at
        PROVE  /\ RecoverWork(k, s2, a2) /\ Archived(k, s2) /\ s2["other"] = s["other"]
               /\ s2["webmail"] \in {j.was.script, j.doc} /\ a2 \in {j.was.active, "webmail"}
    <3>1. s2["webmail"] = Nil /\ a2 = a /\ \A m \in Names : m # "webmail" => s2[m] = s[m]
      BY <2>1, <2>3, <2>4
    <3> QED
      BY <1>2, <2>1, <2>4, <3>1, NamesAre
      DEF RecoverWork, Archived, ScriptKept, SourceKept, RecordOf, Untouched
  <2> QED
    BY <2>1, <2>2, <2>4
<1>3. CASE j.todo = <<Activate(j.was.active)>> \o Removal(j.was)
           /\ (j.was.script # Nil => s["webmail"] = j.was.script)
  <2>1. Head(j.todo) = Activate(j.was.active) /\ Tail(j.todo) = Removal(j.was)
    BY <1>1, <1>3, RecoverParts
  <2>2. j.was.active # Nil => s[j.was.active] # Nil
    BY <1>1, <1>3, NilFacts DEF Finding, Selected, FindingOK
  <2>3. ASSUME NEW s2, NEW a2, NEW k, Does(Head(j.todo), s, a, s2, a2), k.todo = Tail(j.todo),
               k.was = j.was, k.doc = j.doc, k.at = j.at
        PROVE  /\ RecoverWork(k, s2, a2) /\ Archived(k, s2) /\ s2["other"] = s["other"]
               /\ s2["webmail"] \in {j.was.script, j.doc} /\ a2 \in {j.was.active, "webmail"}
    <3>1. s2 = s /\ a2 = j.was.active
      BY <2>1, <2>3, ActivateDoes
    <3> QED
      BY <1>3, <2>1, <2>3, <3>1 DEF RecoverWork, Archived, RecordOf
  <2> QED
    BY <2>1, <2>2, <2>3
<1>4. ASSUME NEW t \in Seq(Command), j.was.script # Nil, j.todo = <<Put("webmail", j.was.script)>> \o t,
             \/ t = Removal(j.was) /\ a = j.was.active
             \/ t = <<Activate(j.was.active)>> \o Removal(j.was)
      PROVE  /\ Head(j.todo) = Put("webmail", j.was.script)
             /\ \A s2, a2, k : Does(Head(j.todo), s, a, s2, a2) /\ k.todo = Tail(j.todo) /\ k.was = j.was
                                 /\ k.doc = j.doc /\ k.at = j.at =>
                  /\ RecoverWork(k, s2, a2) /\ Archived(k, s2) /\ s2["other"] = s["other"]
                  /\ s2["webmail"] \in {j.was.script, j.doc} /\ a2 \in {j.was.active, "webmail"}
  <2>1. Head(j.todo) = Put("webmail", j.was.script) /\ Tail(j.todo) = t
    BY <1>1, <1>4, RecoverParts, Cons
  <2>2. ASSUME NEW s2, NEW a2, NEW k, Does(Head(j.todo), s, a, s2, a2), k.todo = Tail(j.todo),
               k.was = j.was, k.doc = j.doc, k.at = j.at
        PROVE  /\ RecoverWork(k, s2, a2) /\ Archived(k, s2) /\ s2["other"] = s["other"]
               /\ s2["webmail"] \in {j.was.script, j.doc} /\ a2 \in {j.was.active, "webmail"}
    <3>1. s2["webmail"] = j.was.script /\ a2 = a /\ \A m \in Names : m # "webmail" => s2[m] = s[m]
      <4>0. PICK c : c = j.was.script
        OBVIOUS
      <4>1. "webmail" \in Names /\ Does(Put("webmail", c), s, a, s2, a2)
        BY <2>1, <2>2, <4>0, NamesAre
      <4>2. s2["webmail"] = c /\ a2 = a /\ \A m \in Names : m # "webmail" => s2[m] = s[m]
        BY <4>1, PutDoes
      <4> QED
        BY <4>0, <4>2
    <3> QED
      BY <1>4, <2>1, <2>2, <3>1, NamesAre
      DEF RecoverWork, Archived, ScriptKept, SourceKept, RecordOf, Untouched
  <2> QED
    BY <2>1, <2>2
<1>5. j.todo # <<>> => \/ j.todo = Removal(j.was) /\ a = j.was.active
                            /\ (j.was.script # Nil => s["webmail"] = j.was.script)
                       \/ j.todo = <<Activate(j.was.active)>> \o Removal(j.was)
                            /\ (j.was.script # Nil => s["webmail"] = j.was.script)
                       \/ \E t \in Seq(Command) :
                            /\ j.was.script # Nil
                            /\ j.todo = <<Put("webmail", j.was.script)>> \o t
                            /\ \/ t = Removal(j.was) /\ a = j.was.active
                               \/ t = <<Activate(j.was.active)>> \o Removal(j.was)
  BY DEF RecoverWork
<1> QED
  BY <1>2, <1>3, <1>4, <1>5

-------------------------------------------------------------------------------
(* The steps of an undo.                                                   *)

LEMMA Copies ==
  ASSUME NEW c \in Plain, NEW orig \in Plain \union {Nil}, NEW archive, policy \in Nat \ {0}, IsRestored(c, orig, archive)
  PROVE  /\ Again(c, orig, archive)
         /\ Copy(c) \in Plain /\ Again(Copy(c), orig, archive)
         /\ Intact(orig) => Intact(c) /\ Intact(Copy(c))
<1>1. ASSUME NEW x \in Plain, Parse(x) = "ok"
      PROVE  /\ Intact(x) /\ Intact(Regenerated(x)) /\ Copy(x) = Regenerated(x)
             /\ Regenerated(x) \in Plain /\ Alike(Regenerated(x), x) /\ Regenerated(x).doc = x.doc
             /\ Regenerated(Regenerated(x)) = Regenerated(x)
  <2>1. x \in Rule /\ x.body # 0
    BY <1>1 DEF Parse, Plain, Newer, Rule
  <2>2. Regenerated(x) \in Rule /\ Regenerated(x).body = policy /\ Regenerated(x).doc = x.doc
        /\ Regenerated(x).kind = "rules" /\ x.kind = "rules"
        /\ Regenerated(Regenerated(x)) = Regenerated(x)
    BY <2>1 DEF Regenerated, Rule
  <2> QED
    BY <1>1, <2>1, <2>2, NilFacts DEF Intact, Copy, Plain, Alike
<1>2. \A x \in Plain : Intact(x) => Parse(x) = "ok"
  BY DEF Intact, Parse, Rule
<1>3. CASE c = orig /\ Parse(c) # "ok"
  BY <1>2, <1>3 DEF Again, Alike, IsRestored, Copy
<1>4. CASE c = orig /\ Parse(c) = "ok"
  BY <1>1, <1>4 DEF Again, Alike, IsRestored
<1>5. CASE c # orig
  <2>1. orig # Nil /\ archive = orig /\ Parse(orig) = "ok" /\ c = Regenerated(orig)
    BY <1>5 DEF IsRestored
  <2>2. /\ Intact(orig) /\ Intact(c) /\ Alike(c, orig) /\ Regenerated(c) = c
    BY <1>1, <2>1
  <2>3. Copy(c) = c
    BY <1>1, <1>2, <2>2
  <2> QED
    BY <2>1, <2>2, <2>3 DEF Again, IsRestored
<1> QED
  BY <1>3, <1>4, <1>5

LEMMA UndoParts ==
  ASSUME NEW f \in Finding
  PROVE  /\ Undo1 \in Seq(Command) /\ Undo1 # <<>> /\ Head(Undo1) = Remove("import") /\ Tail(Undo1) = <<>>
         /\ Undo2(f) \in Seq(Command) /\ Undo2(f) # <<>>
         /\ f.script # Nil => Undo2(f) = Undo1
         /\ f.script = Nil => Head(Undo2(f)) = Remove("webmail") /\ Tail(Undo2(f)) = Undo1
         /\ Undo3(f) \in Seq(Command) /\ Undo3(f) # <<>>
         /\ Head(Undo3(f)) = Activate(f.active) /\ Tail(Undo3(f)) = Undo2(f)
         /\ \A c \in Rule : /\ Undo4(f, c) \in Seq(Command) /\ Undo4(f, c) # <<>>
                            /\ Head(Undo4(f, c)) = Put("webmail", c) /\ Tail(Undo4(f, c)) = Undo3(f)
         /\ \A c \in Plain, t \in Seq(Command) :
              /\ Undo5(c, t) \in Seq(Command) /\ Undo5(c, t) # <<>>
              /\ Head(Undo5(c, t)) = Put("other", c) /\ Tail(Undo5(c, t)) = t
<1>1. /\ Remove("import") \in Command /\ Remove("webmail") \in Command /\ Activate(f.active) \in Command
      /\ \A c \in Rule : Put("webmail", c) \in Command
      /\ \A c \in Plain : Put("other", c) \in Command
  BY Commands, NamesAre DEF Finding, Plain
<1>2. /\ Undo1 \in Seq(Command) /\ Undo1 # <<>> /\ Head(Undo1) = Remove("import") /\ Tail(Undo1) = <<>>
  BY <1>1, One DEF Undo1
<1>3. /\ Undo2(f) \in Seq(Command) /\ Undo2(f) # <<>>
      /\ f.script # Nil => Undo2(f) = Undo1
      /\ f.script = Nil => Head(Undo2(f)) = Remove("webmail") /\ Tail(Undo2(f)) = Undo1
  <2>1. CASE f.script = Nil
    <3>1. Undo2(f) = <<Remove("webmail")>> \o Undo1
      BY <2>1 DEF Undo2, When
    <3> QED
      BY <1>1, <1>2, <2>1, <3>1, Cons
  <2>2. CASE f.script # Nil
    <3>1. Undo2(f) = <<>> \o Undo1
      BY <2>2 DEF Undo2, When
    <3> QED
      BY <1>2, <2>2, <3>1, ConcatEmptySeq
  <2> QED
    BY <2>1, <2>2
<1>4. /\ Undo3(f) \in Seq(Command) /\ Undo3(f) # <<>>
      /\ Head(Undo3(f)) = Activate(f.active) /\ Tail(Undo3(f)) = Undo2(f)
  BY <1>1, <1>3, Cons DEF Undo3
<1>5. ASSUME NEW c \in Rule
      PROVE  /\ Undo4(f, c) \in Seq(Command) /\ Undo4(f, c) # <<>>
             /\ Head(Undo4(f, c)) = Put("webmail", c) /\ Tail(Undo4(f, c)) = Undo3(f)
  BY <1>1, <1>4, Cons DEF Undo4
<1>6. ASSUME NEW c \in Plain, NEW t \in Seq(Command)
      PROVE  /\ Undo5(c, t) \in Seq(Command) /\ Undo5(c, t) # <<>>
             /\ Head(Undo5(c, t)) = Put("other", c) /\ Tail(Undo5(c, t)) = t
  BY <1>1, Cons DEF Undo5
<1> QED
  BY <1>2, <1>3, <1>4, <1>5, <1>6

LEMMA UndoStep ==
  ASSUME NEW j, NEW f \in Finding, NEW s \in Store, NEW a \in Selected, NEW s2, NEW a2,
         UndoWork(j, f, s, a), j.todo # <<>>, Does(Head(j.todo), s, a, s2, a2),
         NEW k, k.at = j.at, k.accept = j.accept, k.todo = Tail(j.todo)
  PROVE  UndoWork(k, f, s2, a2)
<1>0. UndoHalf(j, f, s)
  BY DEF UndoWork
<1>1. CASE j.todo = Undo1 /\ a = f.active /\ SourceBack(f, s) /\ ScriptBack(f, s)
           /\ (f.script = Nil => s["webmail"] = Nil)
  <2>1. Does(Remove("import"), s, a, s2, a2) /\ k.todo = <<>>
    BY <1>1, UndoParts
  <2>2. s2["import"] = Nil /\ a2 = a /\ \A m \in Names : m # "import" => s2[m] = s[m]
    BY <2>1, RemoveDoes, NamesAre
  <2> QED
    BY <1>1, <2>1, <2>2, NamesAre DEF UndoWork, Undone0, SourceBack, ScriptBack, Again, Alike
<1>2. CASE j.todo = Undo2(f) /\ a = f.active /\ SourceBack(f, s) /\ ScriptBack(f, s) /\ f.script = Nil
  <2>1. Does(Remove("webmail"), s, a, s2, a2) /\ k.todo = Undo1
    BY <1>2, UndoParts
  <2>2. s2["webmail"] = Nil /\ a2 = a /\ \A m \in Names : m # "webmail" => s2[m] = s[m]
    BY <2>1, RemoveDoes, NamesAre
  <2>3. UndoHalf(k, f, s2)
    BY <1>0, <1>2, <2>2, NamesAre DEF UndoHalf, IsRecord, SourceAny, ScriptAny
  <2> QED
    BY <1>2, <2>1, <2>2, <2>3, NamesAre DEF UndoWork, SourceBack, ScriptBack
<1>3. CASE j.todo = Undo3(f) /\ SourceBack(f, s) /\ ScriptBack(f, s)
  <2>1. Does(Activate(f.active), s, a, s2, a2) /\ k.todo = Undo2(f)
    BY <1>3, UndoParts
  <2>2. s2 = s /\ a2 = f.active
    BY <2>1, ActivateDoes
  <2>3. UndoHalf(k, f, s2)
    BY <1>0, <2>2 DEF UndoHalf, IsRecord, ScriptAny
  <2> QED
    BY <1>3, <2>1, <2>2, <2>3 DEF UndoWork
<1>4. ASSUME NEW c \in Rule, SourceBack(f, s), f.script # Nil, j.todo = Undo4(f, c),
             Again(c, f.script, s["undo-webmail"])
      PROVE  UndoWork(k, f, s2, a2)
  <2>1. Does(Put("webmail", c), s, a, s2, a2) /\ k.todo = Undo3(f)
    BY <1>4, UndoParts
  <2>2. s2["webmail"] = c /\ a2 = a /\ \A m \in Names : m # "webmail" => s2[m] = s[m]
    BY <2>1, PutDoes, NamesAre
  <2>3. UndoHalf(k, f, s2)
    BY <1>0, <1>4, <2>2, NamesAre DEF UndoHalf, IsRecord, SourceAny, ScriptAny
  <2> QED
    BY <1>4, <2>1, <2>2, <2>3, NamesAre DEF UndoWork, SourceBack, ScriptBack
<1>5. ASSUME NEW c \in Plain, NEW t \in Seq(Command), f.active = "other", j.todo = Undo5(c, t),
             Again(c, f.source, s["undo-active"]), ScriptToCome(t, f, s)
      PROVE  UndoWork(k, f, s2, a2)
  <2>1. Does(Put("other", c), s, a, s2, a2) /\ k.todo = t
    BY <1>5, UndoParts
  <2>2. s2["other"] = c /\ a2 = a /\ \A m \in Names : m # "other" => s2[m] = s[m]
    BY <2>1, PutDoes, NamesAre
  <2>3. UndoHalf(k, f, s2)
    BY <1>0, <1>5, <2>2, NamesAre DEF UndoHalf, IsRecord, SourceAny, ScriptAny
  <2>4. SourceBack(f, s2) /\ ScriptToCome(k.todo, f, s2)
    BY <1>5, <2>1, <2>2, NamesAre DEF SourceBack, ScriptToCome
  <2> QED
    BY <2>3, <2>4 DEF UndoWork
<1>6. CASE SourceBack(f, s) /\ ScriptToCome(j.todo, f, s)
  <2>1. CASE j.todo = Undo3(f) /\ f.script = Nil
    BY <1>3, <1>6, <2>1 DEF ScriptBack
  <2> QED
    BY <1>4, <1>6, <2>1 DEF ScriptToCome
<1>7. CASE j.todo = Undo2(f) /\ a = f.active /\ SourceBack(f, s) /\ ScriptBack(f, s) /\ f.script # Nil
  BY <1>1, <1>7, UndoParts
<1> QED
  BY <1>1, <1>2, <1>3, <1>5, <1>6, <1>7 DEF UndoWork

LEMMA UndoKeeps ==
  ASSUME NEW j, NEW f, NEW s, NEW a, UndoWork(j, f, s, a)
  PROVE  Undone0(f, s, a) \/ UndoHalf(j, f, s)
BY DEF UndoWork

\* Every copy of what an undo is to bring back is somewhere.
LEMMA UndoHolds ==
  ASSUME NEW j, NEW f \in Finding, FindingOK(f), NEW s, NEW a, Undone0(f, s, a) \/ UndoHalf(j, f, s)
  PROVE  \A c \in {f.script, f.source} \ {Nil} : \E n \in Names : Alike(s[n], c)
<1>1. f.script # Nil => \E n \in {"webmail", "undo-webmail"} : Alike(s[n], f.script)
  BY DEF Undone0, UndoHalf, ScriptAny, Again, Alike
<1>2. f.active = "other" => \E n \in {"other", "undo-active"} : Alike(s[n], f.source)
  BY DEF Undone0, UndoHalf, SourceAny, Again, Alike
<1>3. f.active \in {Nil, "webmail", "other"}
  BY DEF Finding, Selected
<1>4. f.source # Nil => f.source = f.script \/ f.active = "other"
  BY <1>3 DEF FindingOK
<1> QED
  BY <1>1, <1>2, <1>4, NamesAre

\* An undo that stopped half way can be repeated.
LEMMA HalfRepeats ==
  ASSUME NEW j \in Request, NEW f \in Finding, f.script # Nil => Intact(f.script),
         TypeOK, UndoHalf(j, f, scripts)
  PROVE  \/ UndoVerdict(j.at, j.accept) = "ok"
         \/ scripts["import"] # Nil /\ ~CopiesKept(scripts["import"])
<1> SUFFICES ASSUME CopiesKept(scripts["import"])
             PROVE  UndoVerdict(j.at, j.accept) = "ok"
  BY DEF UndoHalf, IsRecord
<1> DEFINE r == scripts["import"]
<1>1. /\ r # Nil /\ r.at = j.at /\ r.before = f.script /\ r.name = f.active /\ r.source = f.source
      /\ r.before # Nil => scripts["undo-webmail"] = r.before
      /\ Elsewhere(r.name) => scripts["undo-active"] = r.source
  BY DEF UndoHalf, IsRecord, CopiesKept
<1>2. State(Found) # "newer_version"
  <2>1. CASE scripts["webmail"] = Nil
    BY <2>1 DEF State, Found
  <2>2. CASE scripts["webmail"] # Nil
    <3>1. Parse(scripts["webmail"]) # "newer_version"
      <4>1. CASE f.script # Nil /\ Again(scripts["webmail"], f.script, scripts["undo-webmail"])
        <5>1. scripts["webmail"].kind = "rules"
          BY <4>1, <2>2 DEF Again, Alike, Intact, Rule
        <5> QED
          BY <5>1 DEF Parse
      <4> QED
        BY <2>2, <4>1 DEF UndoHalf, ScriptAny
    <3> QED
      BY <2>2, <3>1 DEF State, Found
  <2> QED
    BY <2>1, <2>2
<1>3. Restored(r) \/ scripts["webmail"] = r.after \/ j.accept
  BY <1>1 DEF UndoHalf, ScriptAny, Again, Restored, IsRestored
<1>4. Elsewhere(r.name) => /\ r.name = "other"
                           /\ scripts["other"] # Nil =>
                                IsRestored(scripts["other"], r.source, scripts["undo-active"])
  <2>1. f.active \in {Nil, "webmail", "other"}
    BY DEF Finding, Selected
  <2> QED
    BY <1>1, <2>1 DEF UndoHalf, SourceAny, Again, Elsewhere
<1>5. j.accept \in BOOLEAN
  BY DEF Request
<1> QED
  BY <1>1, <1>2, <1>3, <1>4, <1>5 DEF UndoVerdict

\* What an undo sets out to do.
LEMMA UndoPlan ==
  ASSUME TypeOK, NEW j, NEW f \in Finding, FindingOK(f), f.script # Nil => Intact(f.script),
         IsRecord(scripts["import"], j.at, f), UndoVerdict(j.at, j.accept) = "ok",
         j.todo = UndoCommands(scripts["import"])
  PROVE  j.todo \in Seq(Command) /\ UndoWork(j, f, scripts, active)
<1> DEFINE r == scripts["import"]
           A == ActiveCopy(r)
           W == WebmailCopy(r)
           X == <<Activate(f.active)>>
           R == When(f.script = Nil, Remove("webmail"))
<1>1. r # Nil /\ r.at = j.at /\ r.before = f.script /\ r.name = f.active /\ r.source = f.source
  BY DEF IsRecord
<1>2. /\ State(Found) # "newer_version"
      /\ Restored(r) \/ scripts["webmail"] = r.after \/ j.accept
      /\ ~Restored(r) /\ r.before # Nil => scripts["undo-webmail"] = r.before
      /\ Elsewhere(r.name) /\ scripts[r.name] # Nil =>
           IsRestored(scripts[r.name], r.source, scripts["undo-active"])
      /\ Elsewhere(r.name) /\ scripts[r.name] = Nil => scripts["undo-active"] = r.source
  BY <1>1 DEF UndoVerdict
<1>3. f.active \in {Nil, "webmail", "other"} /\ (Elsewhere(f.active) <=> f.active = "other")
  BY NilFacts DEF Finding, Selected, Elsewhere
<1>4. /\ scripts["webmail"] \in Plain \union {Nil} /\ scripts["other"] \in Plain \union {Nil}
      /\ scripts["undo-webmail"] \in Plain \union {Nil} /\ scripts["undo-active"] \in Plain \union {Nil}
      /\ f.script \in Plain \union {Nil} /\ f.source \in Plain \union {Nil} /\ policy \in Nat \ {0}
  BY NamesAre DEF TypeOK, Finding
<1>5. UndoHalf(j, f, scripts)
  <2>1. SourceAny(f, scripts)
    <3>1. CASE f.active = "other" /\ scripts["other"] # Nil
      <4>1. IsRestored(scripts["other"], f.source, scripts["undo-active"]) /\ scripts["other"] \in Plain
        BY <1>1, <1>2, <1>3, <1>4, <3>1
      <4> QED
        BY <1>4, <4>1, Copies DEF SourceAny
    <3> QED
      BY <1>1, <1>2, <1>3, <3>1 DEF SourceAny
  <2>2. ScriptAny(f, scripts, j.accept)
    <3>1. scripts["webmail"] # Nil => Parse(scripts["webmail"]) # "newer_version"
      BY <1>2 DEF State, Found
    <3>2. CASE Restored(r) /\ f.script # Nil
      <4>1. IsRestored(scripts["webmail"], f.script, scripts["undo-webmail"]) /\ scripts["webmail"] \in Plain
        <5>1. IsRestored(scripts["webmail"], f.script, scripts["undo-webmail"])
          BY <1>1, <3>2 DEF Restored
        <5>2. CASE scripts["webmail"] = f.script
          BY <1>4, <3>2, <5>1, <5>2
        <5>3. CASE scripts["webmail"] # f.script
          <6>1. scripts["webmail"] = Regenerated(f.script)
            BY <5>1, <5>3 DEF IsRestored
          <6>2. Regenerated(f.script) \in Rule
            BY <1>4, <3>2 DEF Regenerated, Intact, Rule
          <6> QED
            BY <5>1, <6>1, <6>2 DEF Plain
        <5> QED
          BY <5>2, <5>3
      <4> QED
        BY <1>4, <3>2, <4>1, Copies DEF ScriptAny
    <3>3. CASE Restored(r) /\ f.script = Nil
      BY <1>1, <3>3 DEF ScriptAny, Restored, IsRestored
    <3>4. CASE ~Restored(r)
      BY <1>1, <1>2, <3>1, <3>4 DEF ScriptAny
    <3> QED
      BY <3>2, <3>3, <3>4
  <2> QED
    BY <2>1, <2>2 DEF UndoHalf
<1>6. \E t : t = W \o Undo3(f) /\ t \in Seq(Command) /\ W \in Seq(Command) /\ ScriptToCome(t, f, scripts)
  <2>1. CASE f.script = Nil
    <3>1. W = <<>>
      BY <1>1, <2>1 DEF WebmailCopy
    <3> QED
      BY <2>1, <3>1, UndoParts, ConcatEmptySeq, EmptySeq DEF ScriptToCome
  <2>2. ASSUME f.script # Nil
        PROVE  \E c \in Rule : W = <<Put("webmail", c)>> /\ Again(c, f.script, scripts["undo-webmail"])
    <3>1. CASE ~Restored(r)
      <4>1. scripts["undo-webmail"] = f.script
        BY <1>1, <1>2, <2>2, <3>1
      <4>2. W = <<Put("webmail", Copy(f.script))>>
        BY <1>1, <2>2, <3>1, <4>1 DEF WebmailCopy
      <4>3. IsRestored(f.script, f.script, f.script) /\ f.script \in Plain
        BY <1>4, <2>2 DEF IsRestored
      <4>4. Again(Copy(f.script), f.script, f.script) /\ Intact(Copy(f.script))
        BY <1>4, <2>2, <4>3, Copies
      <4> QED
        BY <4>1, <4>2, <4>4 DEF Intact
    <3>2. CASE Restored(r)
      <4>1. IsRestored(scripts["webmail"], f.script, scripts["undo-webmail"])
        BY <1>1, <3>2 DEF Restored
      <4>2. scripts["webmail"] \in Plain
        <5>1. Regenerated(f.script) \in Rule
          BY <1>4, <2>2 DEF Regenerated, Intact, Rule
        <5> QED
          BY <1>4, <2>2, <4>1, <5>1 DEF IsRestored, Plain
      <4>3. /\ Again(Copy(scripts["webmail"]), f.script, scripts["undo-webmail"])
            /\ Intact(scripts["webmail"]) /\ Intact(Copy(scripts["webmail"]))
        BY <1>4, <2>2, <4>1, <4>2, Copies
      <4>4. Parse(scripts["webmail"]) = "ok"
        BY <4>3 DEF Parse, Intact, Rule
      <4>5. W = <<Put("webmail", Copy(scripts["webmail"]))>>
        BY <1>1, <2>2, <3>2, <4>4 DEF WebmailCopy, When
      <4> QED
        BY <4>3, <4>5 DEF Intact
    <3> QED
      BY <3>1, <3>2
  <2>3. CASE f.script # Nil
    <3>1. PICK c \in Rule : W = <<Put("webmail", c)>> /\ Again(c, f.script, scripts["undo-webmail"])
      BY <2>2, <2>3
    <3>2. W \o Undo3(f) = Undo4(f, c) /\ Put("webmail", c) \in Command
      BY <3>1, Commands, NamesAre DEF Undo4, Plain
    <3>3. W \in Seq(Command)
      BY <3>1, <3>2, One
    <3> QED
      BY <2>3, <3>1, <3>2, <3>3, UndoParts DEF ScriptToCome
  <2> QED
    BY <2>1, <2>3
<1>7. PICK t : t = W \o Undo3(f) /\ t \in Seq(Command) /\ W \in Seq(Command) /\ ScriptToCome(t, f, scripts)
  BY <1>6
<1>8. \/ A = <<>> /\ SourceBack(f, scripts)
      \/ f.active = "other" /\ \E c \in Plain : A = <<Put("other", c)>> /\ Again(c, f.source, scripts["undo-active"])
  <2>1. CASE f.active # "other"
    BY <1>1, <1>3, <2>1 DEF ActiveCopy, SourceBack
  <2>2. CASE f.active = "other" /\ scripts["other"] = Nil
    <3>1. scripts["undo-active"] = f.source
      BY <1>1, <1>2, <1>3, <2>2
    <3>2. A = <<Put("other", Copy(f.source))>>
      BY <1>1, <1>3, <2>2, <3>1 DEF ActiveCopy
    <3>3. f.source # Nil => IsRestored(f.source, f.source, f.source) /\ f.source \in Plain
      BY <1>4 DEF IsRestored
    <3>4. f.source # Nil => Again(Copy(f.source), f.source, f.source) /\ Copy(f.source) \in Plain
      BY <1>4, <3>3, Copies
    <3>5. f.source # Nil
      BY <2>2 DEF FindingOK
    <3> QED
      BY <2>2, <3>1, <3>2, <3>4, <3>5
  <2>3. CASE f.active = "other" /\ scripts["other"] # Nil
    <3>1. IsRestored(scripts["other"], f.source, scripts["undo-active"]) /\ scripts["other"] \in Plain
      BY <1>1, <1>2, <1>3, <1>4, <2>3
    <3>2. /\ Again(scripts["other"], f.source, scripts["undo-active"])
          /\ Again(Copy(scripts["other"]), f.source, scripts["undo-active"])
          /\ Copy(scripts["other"]) \in Plain
      BY <1>4, <3>1, Copies
    <3>3. A \in {<<>>, <<Put("other", Copy(scripts["other"]))>>}
      BY <1>1, <1>3, <2>3 DEF ActiveCopy, When
    <3> QED
      BY <2>3, <3>2, <3>3 DEF SourceBack
  <2> QED
    BY <2>1, <2>2, <2>3
<1>9. A \in Seq(Command) /\ X \in Seq(Command) /\ R \in Seq(Command) /\ Undo1 \in Seq(Command)
  <2>1. /\ \A c \in Plain : <<Put("other", c)>> \in Seq(Command)
        /\ <<>> \in Seq(Command)
    BY Commands, NamesAre, One, EmptySeq
  <2>2. X \in Seq(Command)
    BY Commands, One DEF Finding
  <2>3. R \in Seq(Command)
    BY Commands, NamesAre, Optional
  <2> QED
    BY <1>8, <2>1, <2>2, <2>3, UndoParts
<1>10. j.todo = (((A \o W) \o X) \o R) \o Undo1
  BY <1>1 DEF UndoCommands, Undo1
<1>11. Undo3(f) = X \o (R \o Undo1)
  BY DEF Undo3, Undo2
<1> HIDE DEF A, W, X, R
<1>12. j.todo = A \o t
  <2>1. PICK ab \in Seq(Command), de \in Seq(Command) : ab = A \o W /\ de = R \o Undo1
    BY <1>7, <1>9, ConcatProperties
  <2>2. PICK abc \in Seq(Command), cde \in Seq(Command) : abc = ab \o X /\ cde = X \o de
    BY <1>9, <2>1, ConcatProperties
  <2>3. (abc \o R) \o Undo1 = abc \o (R \o Undo1)
    BY <1>9, ConcatAssociative, SMTT(60)
  <2>4. (ab \o X) \o de = ab \o (X \o de)
    BY <1>9, ConcatAssociative, SMTT(60)
  <2>5. (A \o W) \o cde = A \o (W \o cde)
    BY <1>7, <1>9, ConcatAssociative, SMTT(60)
  <2> QED
    BY <1>7, <1>10, <1>11, <2>1, <2>2, <2>3, <2>4, <2>5
<1>13. CASE A = <<>> /\ SourceBack(f, scripts)
  <2>1. j.todo = t
    BY <1>7, <1>12, <1>13, ConcatEmptySeq
  <2> QED
    BY <1>5, <1>7, <1>13, <2>1 DEF UndoWork
<1>14. ASSUME f.active = "other", NEW c \in Plain, A = <<Put("other", c)>>,
              Again(c, f.source, scripts["undo-active"])
       PROVE  j.todo \in Seq(Command) /\ UndoWork(j, f, scripts, active)
  <2>1. j.todo = Undo5(c, t) /\ j.todo \in Seq(Command)
    BY <1>7, <1>12, <1>14, UndoParts DEF Undo5
  <2> QED
    BY <1>5, <1>7, <1>14, <2>1 DEF UndoWork
<1> QED
  BY <1>8, <1>13, <1>14

-------------------------------------------------------------------------------
(* The steps of a save.                                                    *)

KeptBy(kept, s) == \A c \in kept : \E n \in {"other", "webmail", "prev"} : Held(n, s, c)

Saves(doc) == {Check, Put("webmail", doc), Activate("webmail")}
                \union {Put("prev", scripts["webmail"]) : x \in {scripts["webmail"]} \ {Nil}}

LEMMA WritePlan ==
  ASSUME TypeOK, NEW doc \in Rule, NEW preserve \in BOOLEAN, NEW activate \in BOOLEAN,
         NEW kept \in SUBSET Plain,
         ~preserve => \A c \in kept : Held("other", scripts, c) \/ Held("webmail", scripts, c),
         preserve => \A c \in kept : Held("prev", scripts, c)
  PROVE  /\ Write(doc, preserve, activate) \in Seq(Saves(doc))
         /\ Saves(doc) \subseteq Command
         /\ WriteWork(Write(doc, preserve, activate), kept, scripts)
<1> DEFINE keep == scripts["webmail"] # Nil /\ ~preserve
           b == Put("prev", scripts["webmail"])
           P == When(keep, b)
           W == <<Put("webmail", doc)>>
           R == When(activate, Activate("webmail"))
           T == Saves(doc)
<1>1. scripts["webmail"] \in Plain \union {Nil}
  BY NamesAre DEF TypeOK
<1>2. T \subseteq Command
  BY <1>1, Commands, NamesAre DEF Saves, Plain, Selected
<1>3. /\ Check \in T /\ Put("webmail", doc) \in T /\ Activate("webmail") \in T
      /\ scripts["webmail"] # Nil => b \in T
  BY DEF Saves
<1>4. R \in Activation
  BY DEF Activation, When
<1>5. Write(doc, preserve, activate) = ((<<Check>> \o P) \o W) \o R
  BY DEF Write
<1> HIDE DEF T, b
<1>6. /\ P \in Seq(T) /\ W \in Seq(T) /\ R \in Seq(T) /\ <<Check>> \in Seq(T)
      /\ W \in Seq(Command) /\ R \in Seq(Command)
  <2>1. P \in Seq(T)
    BY <1>3, One, EmptySeq DEF When
  <2>2. R \in Seq(T)
    BY <1>3, One, EmptySeq DEF When
  <2>3. W \in Seq(T) /\ <<Check>> \in Seq(T)
    BY <1>3, One
  <2> QED
    BY <1>2, <2>1, <2>2, <2>3, SeqMonotonic
<1> HIDE DEF R, W, P
<1>7. PICK t \in Seq(T) : t = W \o R /\ t \in Seq(Command)
  BY <1>6, ConcatProperties
<1>8. PICK u \in Seq(T) : u = P \o t
  BY <1>6, ConcatProperties
<1>9. Write(doc, preserve, activate) = <<Check>> \o u
  <2>1. PICK x \in Seq(T) : x = <<Check>> \o P
    BY <1>6, ConcatProperties
  <2>2. (x \o W) \o R = x \o (W \o R)
    BY <1>6, ConcatAssociative, SMTT(60)
  <2>3. (<<Check>> \o P) \o t = <<Check>> \o (P \o t)
    BY <1>6, ConcatAssociative, SMTT(60)
  <2> QED
    BY <1>5, <1>7, <1>8, <2>1, <2>2, <2>3
<1>10. <<Check>> \o u \in Seq(T) /\ u \in Seq(Command)
  BY <1>2, <1>6, ConcatProperties, SeqMonotonic
<1>11. WriteLast(u, kept, scripts) \/ WriteBoth(u, kept, scripts)
  <2>1. CASE keep
    <3>1. u = <<b>> \o t
      BY <1>8, <2>1 DEF P, When
    <3> QED
      BY <1>4, <1>7, <2>1, <3>1 DEF WriteBoth, b, W
  <2>2. CASE ~keep
    <3>1. u = t
      <4>1. P = <<>>
        BY <2>2 DEF P, When
      <4> QED
        BY <1>7, <1>8, <4>1, ConcatEmptySeq
    <3>2. Spared(kept, scripts, doc)
      BY <2>2, NilFacts DEF Spared, Held, Alike
    <3> QED
      BY <1>4, <1>7, <3>1, <3>2 DEF WriteLast, W
  <2> QED
    BY <2>1, <2>2
<1> QED
  BY <1>2, <1>9, <1>10, <1>11 DEF WriteWork, T

LEMMA WriteStep ==
  ASSUME NEW todo, NEW kept \in SUBSET Plain, NEW s \in Store, NEW a, NEW s2, NEW a2,
         \A n \in Names \ {"import"} : s[n] \in Plain \union {Nil},
         WriteWork(todo, kept, s), KeptBy(kept, s), todo # <<>>, Does(Head(todo), s, a, s2, a2)
  PROVE  WriteWork(Tail(todo), kept, s2) /\ KeptBy(kept, s2)
<1>1. Activation \subseteq Seq(Command)
  BY Commands, One, EmptySeq DEF Activation, Selected
<1>2. /\ \A doc \in Rule : Put("webmail", doc) \in Command
      /\ s["webmail"] # Nil => Put("prev", s["webmail"]) \in Command
      /\ Check \in Command
  BY Commands, NamesAre DEF Plain
<1>3. CASE todo \in Activation
  <2>1. Head(todo) = Activate("webmail") /\ Tail(todo) = <<>>
    <3>1. Activate("webmail") \in Command /\ todo = <<Activate("webmail")>>
      BY <1>3, Commands DEF Activation, Selected
    <3> QED
      BY <3>1, One
  <2>2. s2 = s
    BY <2>1, ActivateDoes
  <2> QED
    BY <2>1, <2>2 DEF WriteWork, Activation
<1>4. ASSUME WriteLast(todo, kept, s)
      PROVE  WriteWork(Tail(todo), kept, s2) /\ KeptBy(kept, s2)
  <2>1. PICK doc \in Rule, t \in Activation : todo = <<Put("webmail", doc)>> \o t /\ Spared(kept, s, doc)
    BY <1>4 DEF WriteLast
  <2>2. Head(todo) = Put("webmail", doc) /\ Tail(todo) = t
    BY <1>1, <1>2, <2>1, Cons
  <2>3. s2["webmail"] = doc /\ \A m \in Names : m # "webmail" => s2[m] = s[m]
    <3>1. Does(Put("webmail", doc), s, a, s2, a2) /\ "webmail" \in Names
      BY <2>2, NamesAre
    <3> QED
      BY <3>1, PutDoes
  <2> QED
    BY <2>1, <2>2, <2>3, NamesAre DEF WriteWork, Spared, KeptBy, Held
<1>5. ASSUME WriteBoth(todo, kept, s)
      PROVE  WriteWork(Tail(todo), kept, s2) /\ KeptBy(kept, s2)
  <2>1. PICK doc \in Rule, t \in Activation :
          /\ s["webmail"] # Nil
          /\ todo = <<Put("prev", s["webmail"])>> \o (<<Put("webmail", doc)>> \o t)
          /\ \A c \in kept : Held("other", s, c) \/ Held("webmail", s, c)
    BY <1>5 DEF WriteBoth
  <2>2. <<Put("webmail", doc)>> \o t \in Seq(Command)
    BY <1>1, <1>2, Cons
  <2>3. Head(todo) = Put("prev", s["webmail"]) /\ Tail(todo) = <<Put("webmail", doc)>> \o t
    BY <1>2, <2>1, <2>2, Cons
  <2>4. PICK c : c = s["webmail"]
    OBVIOUS
  <2>5. Does(Put("prev", c), s, a, s2, a2) /\ "prev" \in Names
    BY <2>3, <2>4, NamesAre
  <2>6. s2["prev"] = c /\ \A m \in Names : m # "prev" => s2[m] = s[m]
    BY <2>5, PutDoes
  <2>7. Spared(kept, s2, doc) /\ KeptBy(kept, s2)
    BY <2>1, <2>4, <2>6, NamesAre DEF Spared, KeptBy, Held
  <2> QED
    BY <2>3, <2>7 DEF WriteWork, WriteLast
<1>6. ASSUME NEW t \in Seq(Command), todo = <<Check>> \o t, WriteLast(t, kept, s) \/ WriteBoth(t, kept, s)
      PROVE  WriteWork(Tail(todo), kept, s2) /\ KeptBy(kept, s2)
  <2>1. Head(todo) = Check /\ Tail(todo) = t
    BY <1>2, <1>6, Cons
  <2>2. s2 = s
    BY <2>1, CheckDoes
  <2> QED
    BY <1>6, <2>1, <2>2 DEF WriteWork
<1> QED
  BY <1>3, <1>4, <1>5, <1>6 DEF WriteWork

-------------------------------------------------------------------------------
(* What every step keeps of the scripts.                                   *)

ServerTypes ==
  /\ scripts \in Store
  /\ \A n \in Names \ {"import"} : scripts[n] \in Plain \union {Nil}
  /\ scripts["import"] \in Imported \union {Nil}
  /\ active \in Selected

\* Judgements of a script do not depend on the scripts.
LEMMA SameCounts ==
  ASSUME UNCHANGED <<jobs, replaced>>
  PROVE  /\ \A n, d : Numbered(n, d)' <=> Numbered(n, d)
         /\ \A r : ImportedOK(r)' <=> ImportedOK(r)
         /\ \A c : Proper(c)' <=> Proper(c)
BY DEF Numbered, ImportedOK, Proper

LEMMA ScriptStored ==
  ASSUME TypeOK, ServerOK, UNCHANGED <<jobs, replaced>>, NEW n \in Names, NEW d,
         scripts' = [scripts EXCEPT ![n] = d], active' = active,
         Numbered(n, d), d = Nil => active # n, n = "import" /\ d # Nil => ImportedOK(d)
  PROVE  ServerOK'
<1>1. scripts \in Store /\ (active # Nil => active \in Names)
  BY DEF TypeOK, Store, Selected, Names
<1>2. scripts'[n] = d /\ \A m \in Names : m # n => scripts'[m] = scripts[m]
  BY <1>1 DEF Store
<1>3. active' # Nil => scripts'[active'] # Nil
  BY <1>1, <1>2 DEF ServerOK
<1>4. ASSUME NEW m \in Names
      PROVE  Numbered(m, scripts[m])'
  <2>1. Numbered(m, scripts'[m])
    BY <1>2, <1>4 DEF ServerOK
  <2> QED
    BY <2>1 DEF Numbered
<1>5. scripts'["import"] # Nil => ImportedOK(scripts["import"])'
  <2>1. scripts'["import"] # Nil => ImportedOK(scripts'["import"])
    BY <1>2, NamesAre DEF ServerOK
  <2> QED
    BY <2>1 DEF ImportedOK
<1> QED
  BY <1>3, <1>4, <1>5 DEF ServerOK

LEMMA ServerStep ==
  ASSUME TypeOK, ServerOK, NEW c \in Command, Proper(c), Possible(c),
         Does(c, scripts, active, scripts', active'), UNCHANGED <<jobs, replaced>>
  PROVE  ServerTypes' /\ ServerOK'
<1>1. ServerTypes
  BY DEF TypeOK, ServerTypes, Store
<1>2. ServerTypes'
  <2>1. /\ scripts' \in Store /\ active' \in Selected
        /\ \A n \in Names \ {"import"} : scripts'[n] \in Plain \union {Nil}
        /\ scripts'["import"] \in Imported \union {Nil}
    BY <1>1, DoesWorks DEF ServerTypes
  <2> QED
    BY <2>1 DEF ServerTypes
<1>4. CASE c.do \in {"activate", "check"}
  <2>1. scripts' = scripts
    BY <1>4 DEF Does
  <2>2. active' # Nil => scripts'[active'] # Nil
    <3>1. CASE c.do = "check"
      BY <3>1, <2>1 DEF Does, ServerOK
    <3>2. CASE c.do = "activate"
      BY <3>2, <2>1 DEF Does, Possible
    <3> QED
      BY <1>4, <3>1, <3>2
  <2>3. ASSUME NEW n \in Names
        PROVE  Numbered(n, scripts[n])'
    BY <2>1 DEF ServerOK, Numbered
  <2>4. scripts'["import"] # Nil => ImportedOK(scripts["import"])'
    BY <2>1 DEF ServerOK, ImportedOK
  <2> QED
    BY <1>2, <2>2, <2>3, <2>4 DEF ServerOK
<1>6. CASE c.do = "put"
  <2>1. /\ c.name \in Names /\ c.script # Nil
    BY <1>6, NilFacts DEF Command, Names
  <2>2. /\ scripts' = [scripts EXCEPT ![c.name] = c.script] /\ active' = active
        /\ Numbered(c.name, c.script) /\ (c.name = "import" => ImportedOK(c.script))
    BY <1>6 DEF Does, Proper
  <2>3. PICK n, d : n = c.name /\ d = c.script
    OBVIOUS
  <2>4. /\ n \in Names /\ scripts' = [scripts EXCEPT ![n] = d] /\ active' = active /\ Numbered(n, d)
        /\ (d = Nil => active # n) /\ (n = "import" /\ d # Nil => ImportedOK(d))
    BY <2>1, <2>2, <2>3
  <2>5. ServerOK'
    BY <2>4, ScriptStored
  <2> QED
    BY <1>2, <2>5
<1>7. CASE c.do = "remove"
  <2>1. c.name \in Names /\ Numbered(c.name, Nil)
    BY <1>7, NilFacts DEF Command, Numbered
  <2>2. scripts' = [scripts EXCEPT ![c.name] = Nil] /\ active' = active /\ active # c.name
    BY <1>7 DEF Does, Possible
  <2>3. PICK n : n = c.name
    OBVIOUS
  <2>4. n \in Names /\ scripts' = [scripts EXCEPT ![n] = Nil] /\ active' = active /\ Numbered(n, Nil) /\ active # n
    BY <2>1, <2>2, <2>3
  <2>5. ServerOK'
    BY <2>4, ScriptStored
  <2> QED
    BY <1>2, <2>5
<1>8. c.do \in {"activate", "check", "put", "remove"}
  BY DEF Command
<1> QED
  BY <1>2, <1>4, <1>6, <1>7, <1>8

\* What a page saw stays older than the rules.
LEMMA SinceStep ==
  ASSUME NEW seen, Since(seen, scripts["webmail"]), NEW c \in Command, SinceBy(seen, c), TypeOK,
         Does(c, scripts, active, scripts', active')
  PROVE  Since(seen, scripts'["webmail"])
<1>1. scripts \in Store
  BY DEF TypeOK, Store
<1>2. c.do \in {"put", "remove"} => c.name \in Names
  BY DEF Command, Names
<1>3. c.do \in {"activate", "check", "put", "remove"}
  BY DEF Command
<1>4. \/ scripts'["webmail"] = scripts["webmail"]
      \/ c.do = "put" /\ c.name = "webmail" /\ scripts'["webmail"] = c.script
      \/ c.do = "remove" /\ c.name = "webmail" /\ scripts'["webmail"] = Nil
  BY <1>1, <1>2, <1>3, NamesAre DEF Does, Store
<1> QED
  BY <1>4 DEF SinceBy, Since

\* What every step of a request keeps.
LEMMA StepKeeps ==
  ASSUME IInv, ~Idle, UNCHANGED <<views, replaced, jobs, policy>>, trouble' \in Nat, calm' \in BOOLEAN,
         late' \subseteq late \union {c \in Command : Proper(c)},
         \/ UNCHANGED <<scripts, active>>
         \/ /\ job.todo # <<>> /\ Possible(Head(job.todo))
            /\ Does(Head(job.todo), scripts, active, scripts', active'),
         job' \in Request \union {Nil},
         job' # Nil =>
           /\ job'.op = job.op /\ job'.was = job.was
           /\ job'.phase = "work" => job.phase = "work"
           /\ job'.phase \in {"reconnect", "recover"} => Returning
           /\ \A i \in DOMAIN job'.todo :
                /\ Proper(job'.todo[i])
                /\ \A p \in Pages : views[p] # Nil /\ ~views[p].reused => SinceBy(views[p].script, job'.todo[i])
  PROVE  TypeOK' /\ StoreOK' /\ ViewsOK'
<1>1. job \in Request /\ job # Nil
  BY DEF IInv, TypeOK, Idle
<1>2. TypeOK /\ ServerOK /\ ServerTypes
  BY DEF IInv, ActInv, StoreOK, TypeOK, ServerTypes, Store
<1>3. job.todo # <<>> => /\ Head(job.todo) \in Command /\ Proper(Head(job.todo))
                         /\ \A p \in Pages : views[p] # Nil /\ ~views[p].reused =>
                              SinceBy(views[p].script, Head(job.todo))
  <2>1. ASSUME job.todo # <<>>
        PROVE  Head(job.todo) \in Command /\ 1 \in DOMAIN job.todo /\ Head(job.todo) = job.todo[1]
    <3>1. job.todo \in Seq(Command)
      BY <1>1 DEF Request
    <3> QED
      BY <2>1, <3>1, TailElements
  <2> QED
    BY <1>1, <2>1 DEF IInv, ActInv, StoreOK, ViewsOK
<1>4. ServerTypes' /\ ServerOK'
  <2>1. CASE UNCHANGED <<scripts, active>>
    BY <1>2, <2>1 DEF ServerTypes, ServerOK, Numbered, ImportedOK
  <2> QED
    BY <1>2, <1>3, <2>1, ServerStep
<1>5. TypeOK'
  BY <1>2, <1>4 DEF TypeOK, ServerTypes, Store
<1>6. UNCHANGED <<jobs, replaced>>
  OBVIOUS
<1>7. StoreOK'
  <2>1. \A c \in late' : Proper(c)'
    BY <1>6, SameCounts DEF IInv, ActInv, StoreOK
  <2>2. (job # Nil => \A i \in DOMAIN job.todo : Proper(job.todo[i]))'
    <3>1. job' # Nil => \A i \in DOMAIN job'.todo : Proper(job'.todo[i])
      OBVIOUS
    <3> QED
      BY <1>6, <3>1 DEF Proper, Numbered, ImportedOK
  <2>3. (Returning => job.was \in Finding /\ Numbered("webmail", job.was.script))'
    <3>1. Returning' => Returning /\ job'.was = job.was
      BY <1>1 DEF Returning
    <3>2. Returning => job.was \in Finding /\ Numbered("webmail", job.was.script)
      BY DEF IInv, ActInv, StoreOK
    <3> QED
      BY <1>6, <3>1, <3>2 DEF Numbered
  <2>4. \A i \in DOMAIN replaced' : FindingOK(replaced'[i])
    BY DEF IInv, ActInv, StoreOK
  <2> QED
    BY <1>4, <2>1, <2>2, <2>3, <2>4 DEF StoreOK
<1>8. ViewsOK'
  <2> SUFFICES ASSUME NEW p \in Pages, views[p] # Nil, ~views[p].reused
               PROVE  /\ Since(views[p].script, scripts'["webmail"])
                      /\ job' # Nil => \A i \in DOMAIN job'.todo : SinceBy(views[p].script, job'.todo[i])
                      /\ Returning' => Since(views[p].script, job'.was.script)
    BY DEF ViewsOK, Since, SinceBy
  <2>1. Since(views[p].script, scripts["webmail"]) /\ (Returning => Since(views[p].script, job.was.script))
    BY DEF IInv, ActInv, ViewsOK
  <2>2. Since(views[p].script, scripts'["webmail"])
    BY <1>2, <1>3, <2>1, SinceStep
  <2>3. Returning' => Returning
    BY <1>1 DEF Returning
  <2>4. Returning' => job' # Nil
    BY DEF Returning
  <2> QED
    BY <2>1, <2>2, <2>3, <2>4
<1> QED
  BY <1>5, <1>7, <1>8

-------------------------------------------------------------------------------
(* How a step leaves the request.                                          *)

Same(k, j) ==
  /\ k.op = j.op /\ k.was = j.was /\ k.touched = j.touched /\ k.kept = j.kept
  /\ k.at = j.at /\ k.accept = j.accept /\ k.doc = j.doc

LEMMA OverIs ==
  ASSUME job \in Request, NEW ok \in BOOLEAN, NEW restored \in BOOLEAN, NEW cut \in BOOLEAN,
         Over(ok, restored, cut)
  PROVE  /\ job' \in Request \union {Nil}
         /\ job.touched => job' = Nil
         /\ ~job.touched =>
              /\ job' \in Request /\ Same(job', job) /\ job'.archived = job.archived
              /\ job'.phase = "over" /\ job'.todo = <<>>
              /\ job'.ok = ok /\ job'.restored = restored /\ job'.cut = cut
<1>1. CASE job.touched
  BY <1>1 DEF Over
<1>2. CASE ~job.touched
  <2>1. <<>> \in Seq(Command)
    BY EmptySeq
  <2>2. PICK j : j = [job EXCEPT !.phase = "over", !.todo = <<>>]
    OBVIOUS
  <2>3. /\ j \in Request /\ Same(j, job) /\ j.archived = job.archived /\ j.phase = "over" /\ j.todo = <<>>
    BY <2>1, <2>2 DEF Request, Same
  <2>4. PICK k : k = [j EXCEPT !.ok = ok, !.restored = restored]
    OBVIOUS
  <2>5. /\ k \in Request /\ Same(k, j) /\ k.archived = j.archived /\ k.phase = j.phase /\ k.todo = j.todo
        /\ k.ok = ok /\ k.restored = restored
    BY <2>3, <2>4 DEF Request, Same
  <2>6. job' = [k EXCEPT !.cut = cut]
    BY <1>2, <2>2, <2>4 DEF Over
  <2>7. /\ job' \in Request /\ Same(job', k) /\ job'.archived = k.archived /\ job'.phase = k.phase
        /\ job'.todo = k.todo /\ job'.ok = k.ok /\ job'.restored = k.restored /\ job'.cut = cut
    BY <2>5, <2>6 DEF Request, Same
  <2> QED
    BY <1>2, <2>3, <2>5, <2>7 DEF Same
<1> QED
  BY <1>1, <1>2 DEF Request

LEMMA TodoIs ==
  ASSUME NEW j \in Request, NEW t \in Seq(Command), NEW b \in BOOLEAN,
         NEW k, k = [j EXCEPT !.todo = t, !.archived = b]
  PROVE  /\ k \in Request /\ Same(k, j) /\ k.phase = j.phase /\ k.ok = j.ok
         /\ k.todo = t /\ k.archived = b
BY DEF Request, Same

LEMMA PhaseIs ==
  ASSUME NEW j \in Request, NEW t \in Seq(Command), NEW p \in {"reconnect", "recover", "cleanup"},
         NEW k, k = [j EXCEPT !.phase = p, !.todo = t]
  PROVE  /\ k \in Request /\ Same(k, j) /\ k.phase = p /\ k.ok = j.ok
         /\ k.todo = t /\ k.archived = j.archived
BY DEF Request, Same

\* The same judgement after a step that leaves the counters alone.
LEMMA RequestLater ==
  ASSUME UNCHANGED <<jobs, replaced, policy>>, job' # Nil => Fine(job', scripts', active')
  PROVE  RequestOK'
BY DEF RequestOK, Fine, ImportOK, ImportedOK, UndoOK, UndoWork, UndoHalf, SourceBack, ScriptBack,
       SourceAny, ScriptAny, ScriptToCome, Again, IsRestored, Regenerated

LEMMA Begun ==
  ASSUME IInv, ~Idle
  PROVE  /\ job \in Request /\ job # Nil /\ job.phase # "over" /\ Fine(job, scripts, active)
         /\ scripts \in Store /\ active \in Selected /\ policy \in Nat \ {0}
         /\ \A n \in Names \ {"import"} : scripts[n] \in Plain \union {Nil}
         /\ ~job.touched /\ job.op = "import" => Importing(job)
         /\ ~job.touched /\ job.op = "undo" => replaced[job.at] \in Finding
<1>1. /\ job \in Request /\ job # Nil /\ job.phase # "over" /\ Fine(job, scripts, active)
      /\ scripts \in Store /\ active \in Selected /\ policy \in Nat \ {0} /\ replaced \in Seq(Finding)
      /\ \A n \in Names \ {"import"} : scripts[n] \in Plain \union {Nil}
  BY DEF IInv, ActInv, TypeOK, RequestOK, Idle, Store
<1>2. ~job.touched /\ job.op = "undo" => replaced[job.at] \in Finding
  BY <1>1, Elements DEF Fine, UndoOK
<1>3. ASSUME ~job.touched, job.op = "import"
      PROVE  Importing(job)
  <2>1. /\ job.was \in Finding /\ FindingOK(job.was) /\ Intact(job.doc) /\ ImportedOK(RecordOf(job))
    BY <1>1, <1>3 DEF Fine, ImportOK
  <2>2. RecordOf(job).at = job.at
    BY DEF RecordOf, ImportRecord
  <2>3. job.at \in DOMAIN replaced /\ DOMAIN replaced = 1..Len(replaced) /\ Len(replaced) \in Nat
    BY <1>1, <2>1, <2>2, LenProperties DEF ImportedOK
  <2>4. job.at \in Nat \ {0}
    BY <2>3
  <2> QED
    BY <1>1, <1>3, <2>1, <2>4 DEF Importing
<1> QED
  BY <1>1, <1>2, <1>3

\* A command of an untouched request was carried out.
LEMMA CommandDone ==
  ASSUME IInv, ~Idle, Working, job.todo # <<>>, Does(Head(job.todo), scripts, active, scripts', active'),
         NEW k \in Request, Same(k, job), k.phase = job.phase, k.ok = job.ok, k.todo = Tail(job.todo),
         k.archived = (job.archived \/ RecordStored(Head(job.todo)))
  PROVE  Fine(k, scripts', active')
<1>1. /\ job \in Request /\ job.phase \in {"work", "recover", "cleanup"} /\ Fine(job, scripts, active)
      /\ scripts \in Store /\ active \in Selected
      /\ \A n \in Names \ {"import"} : scripts[n] \in Plain \union {Nil}
      /\ job.kept \in SUBSET Plain /\ job.todo \in Seq(Command)
  BY Begun DEF Working, Request
<1> SUFFICES ASSUME ~k.touched
             PROVE  WriteOK(k, scripts') /\ ImportOK(k, scripts', active') /\ UndoOK(k, scripts', active')
  BY <1>1 DEF Fine, Same
<1>2. ~job.touched
  BY DEF Same
<1>3. WriteOK(k, scripts')
  <2> SUFFICES ASSUME job.op = "write"
               PROVE  /\ k.phase \in {"work", "over"} /\ KeptBy(job.kept, scripts')
                      /\ WriteWork(Tail(job.todo), job.kept, scripts')
    BY DEF WriteOK, KeptBy, Same
  <2>1. job.phase = "work" /\ KeptBy(job.kept, scripts) /\ WriteWork(job.todo, job.kept, scripts)
    BY <1>1, <1>2 DEF Fine, WriteOK, KeptBy
  <2>2. WriteWork(Tail(job.todo), job.kept, scripts') /\ KeptBy(job.kept, scripts')
    BY <1>1, <2>1, WriteStep
  <2> QED
    BY <2>1, <2>2
<1>4. ImportOK(k, scripts', active')
  <2> SUFFICES ASSUME job.op = "import"
               PROVE  ImportOK(k, scripts', active')
    BY DEF ImportOK, Same
  <2>1. Importing(job) /\ ImportOK(job, scripts, active)
    BY <1>1, <1>2, Begun DEF Fine
  <2>2. Importing(k)
    BY <2>1 DEF Importing, Same
  <2>3. RecordOf(k) = RecordOf(job)
    BY DEF RecordOf, Same
  <2>4. /\ ImportHeld(job, scripts, active) /\ ~job.ok /\ job.phase \in {"work", "recover"}
        /\ job.phase = "work" => ImportWork(job, scripts, active)
        /\ job.phase = "recover" => Archived(job, scripts) /\ RecoverWork(job, scripts, active)
    BY <1>1, <2>1 DEF ImportOK
  <2>5. CASE job.phase = "work"
    <3>1. ImportWork(k, scripts', active')
      BY <1>1, <2>1, <2>2, <2>4, <2>5, ImportStep DEF Same
    <3>2. scripts'["other"] = scripts["other"]
      BY <1>1, <2>1, <2>4, <2>5, ImportSpares
    <3>3. k.was.active = "other" => scripts'["other"] = k.was.source
      BY <2>4, <3>2 DEF ImportHeld, Same
    <3>4. ImportHeld(k, scripts', active')
      BY <3>1, <3>3, ImportKeeps
    <3> QED
      BY <2>1, <2>3, <2>4, <2>5, <3>1, <3>4 DEF ImportOK, Same
  <2>6. CASE job.phase = "recover"
    <3>1. /\ RecoverWork(job, scripts, active) /\ Archived(job, scripts)
          /\ scripts["webmail"] \in {job.was.script, job.doc} /\ active \in {job.was.active, "webmail"}
          /\ job.was.active = "other" => scripts["other"] = job.was.source
      BY <2>4, <2>6 DEF ImportHeld
    <3>4. \A s2, a2, i : Does(Head(job.todo), scripts, active, s2, a2) /\ i.todo = Tail(job.todo) /\ i.was = job.was
                         /\ i.doc = job.doc /\ i.at = job.at =>
              /\ RecoverWork(i, s2, a2) /\ Archived(i, s2) /\ s2["other"] = scripts["other"]
              /\ s2["webmail"] \in {job.was.script, job.doc} /\ a2 \in {job.was.active, "webmail"}
      BY <1>1, <2>1, <3>1, RecoverStep
    <3>5. k.was = job.was /\ k.doc = job.doc /\ k.at = job.at
      BY DEF Same
    <3>2. /\ RecoverWork(k, scripts', active') /\ Archived(k, scripts') /\ scripts'["other"] = scripts["other"]
          /\ scripts'["webmail"] \in {job.was.script, job.doc} /\ active' \in {job.was.active, "webmail"}
      BY <3>4, <3>5
    <3>3. ImportHeld(k, scripts', active')
      BY <3>1, <3>2 DEF ImportHeld, Archived, ScriptKept, Same
    <3> QED
      BY <2>1, <2>3, <2>4, <2>6, <3>2, <3>3 DEF ImportOK, Same
  <2> QED
    BY <2>4, <2>5, <2>6
<1>5. UndoOK(k, scripts', active')
  <2> SUFFICES ASSUME job.op = "undo"
               PROVE  UndoOK(k, scripts', active')
    BY DEF UndoOK, Same
  <2> DEFINE f == replaced[job.at]
  <2>1. UndoOK(job, scripts, active) /\ f \in Finding
    BY <1>1, <1>2, Begun DEF Fine
  <2>2. /\ job.phase \in {"work", "cleanup"} /\ ~job.ok
        /\ job.phase = "work" => UndoWork(job, f, scripts, active)
        /\ job.phase = "cleanup" => /\ Undone0(f, scripts, active)
                                    /\ \A i \in DOMAIN job.todo : job.todo[i] \in Archives
    BY <1>1, <2>1 DEF UndoOK
  <2>3. replaced[k.at] = f
    BY DEF Same
  <2> HIDE DEF f
  <2>4. CASE job.phase = "work"
    <3>1. UndoWork(k, f, scripts', active')
      BY <1>1, <2>1, <2>2, <2>4, UndoStep DEF Same
    <3> QED
      BY <2>1, <2>2, <2>3, <2>4, <3>1 DEF UndoOK, Same, f
  <2>5. CASE job.phase = "cleanup"
    <3>1. /\ Head(job.todo) \in Archives
          /\ \A i \in DOMAIN k.todo : k.todo[i] \in Archives
      BY <1>1, <2>2, <2>5, TailElements
    <3>2. PICK n \in {"undo-webmail", "undo-active"} : Head(job.todo) = Remove(n)
      BY <3>1 DEF Archives
    <3>3. n \in Names
      BY NamesAre
    <3>6. Does(Remove(n), scripts, active, scripts', active')
      BY <3>2
    <3>4. active' = active /\ \A m \in Names : m # n => scripts'[m] = scripts[m]
      <4>1. scripts' = [scripts EXCEPT ![n] = Nil] /\ active' = active
        BY <3>6, Commands DEF Does
      <4>2. scripts \in [Names -> Plain \union Imported \union {Nil}]
        BY <1>1 DEF Store
      <4> QED
        BY <3>3, <4>1, <4>2
    <3>5. Undone0(f, scripts', active')
      BY <2>2, <2>5, <3>4, NamesAre DEF Undone0
    <3> QED
      BY <2>1, <2>2, <2>3, <2>5, <3>1, <3>5 DEF UndoOK, Same, f
  <2> QED
    BY <2>2, <2>4, <2>5
<1> QED
  BY <1>3, <1>4, <1>5

\* What an untouched request leaves when it stops, its command carried out or not.
Left(j, s, a) ==
  /\ j.op = "write" => KeptBy(j.kept, s)
  /\ j.op = "import" => ImportHeld(j, s, a) /\ (j.archived \/ j.phase # "work" => Archived(j, s))
  /\ j.op = "undo" => /\ Undone0(replaced[j.at], s, a) \/ UndoHalf(j, replaced[j.at], s)
                      /\ j.phase = "cleanup" => Undone0(replaced[j.at], s, a)

LEMMA Stopped ==
  ASSUME NEW j \in Request, NEW s, NEW a, Fine(j, s, a), j.phase # "over", ~j.touched
  PROVE  Left(j, s, a)
<1>1. WriteOK(j, s) /\ ImportOK(j, s, a) /\ UndoOK(j, s, a)
  BY DEF Fine
<1>2. j.op = "write" => KeptBy(j.kept, s)
  BY <1>1 DEF WriteOK, KeptBy
<1>3. ASSUME j.op = "import"
      PROVE  ImportHeld(j, s, a) /\ (j.archived \/ j.phase # "work" => Archived(j, s))
  <2>1. /\ ImportHeld(j, s, a) /\ (j.phase = "work" => ImportWork(j, s, a))
        /\ j.phase \in {"work", "reconnect", "recover"} /\ (j.phase # "work" => Archived(j, s))
    BY <1>1, <1>3 DEF ImportOK
  <2>2. j.was.active = "other" => s["other"] = j.was.source
    BY <2>1 DEF ImportHeld
  <2> QED
    BY <2>1, <2>2, ImportKeeps
<1>4. ASSUME j.op = "undo"
      PROVE  /\ Undone0(replaced[j.at], s, a) \/ UndoHalf(j, replaced[j.at], s)
             /\ j.phase = "cleanup" => Undone0(replaced[j.at], s, a)
  <2>1. /\ j.phase \in {"work", "cleanup"} /\ (j.phase = "work" => UndoWork(j, replaced[j.at], s, a))
        /\ j.phase = "cleanup" => Undone0(replaced[j.at], s, a)
    BY <1>1, <1>4 DEF UndoOK
  <2> QED
    BY <2>1, UndoKeeps
<1> QED
  BY <1>2, <1>3, <1>4 DEF Left

LEMMA LeftAfter ==
  ASSUME IInv, ~Idle, ~job.touched,
         \/ UNCHANGED <<scripts, active>>
         \/ Working /\ job.todo # <<>> /\ Does(Head(job.todo), scripts, active, scripts', active')
  PROVE  Left(job, scripts', active')
<1>1. job \in Request /\ job.phase # "over" /\ Fine(job, scripts, active)
  BY Begun
<1>2. CASE UNCHANGED <<scripts, active>>
  BY <1>1, <1>2, Stopped
<1>3. CASE Working /\ job.todo # <<>> /\ Does(Head(job.todo), scripts, active, scripts', active')
  <2>1. PICK t, b : t = Tail(job.todo) /\ b = (job.archived \/ RecordStored(Head(job.todo)))
    OBVIOUS
  <2>2. t \in Seq(Command) /\ b \in BOOLEAN
    BY <1>1, <1>3, <2>1, TailElements DEF Request, RecordStored
  <2>3. PICK k : k = [job EXCEPT !.todo = t, !.archived = b]
    OBVIOUS
  <2>4. k \in Request /\ Same(k, job) /\ k.phase = job.phase /\ k.ok = job.ok /\ k.todo = t /\ k.archived = b
    BY <1>1, <2>2, <2>3 DEF Request, Same
  <2>5. Fine(k, scripts', active')
    BY <1>3, <2>1, <2>4, CommandDone
  <2>6. Left(k, scripts', active')
    BY <1>1, <2>4, <2>5, Stopped DEF Same
  <2> QED
    BY <2>1, <2>4, <2>6 DEF Left, Same, ImportHeld, Archived, RecordOf, UndoHalf
<1> QED
  BY <1>2, <1>3

\* A request is over.
LEMMA Ended ==
  ASSUME IInv, ~Idle, UNCHANGED <<jobs, replaced, policy>>,
         NEW ok \in BOOLEAN, NEW restored \in BOOLEAN, NEW cut \in BOOLEAN, Over(ok, restored, cut),
         ~job.touched =>
           /\ Left(job, scripts', active')
           /\ job.op = "import" => /\ ok => Archived(job, scripts') /\ scripts'["webmail"] = job.doc /\ active' = "webmail"
                                   /\ ~ok /\ job.archived /\ ~cut => restored
                                   /\ restored => Untouched(job, scripts', active')
           /\ job.op = "undo" /\ ok => Undone0(replaced[job.at], scripts', active')
  PROVE  RequestOK' /\ job' \in Request \union {Nil}
<1>1. /\ job \in Request /\ Fine(job, scripts, active)
  BY Begun
<1>2. /\ job' \in Request \union {Nil} /\ (job.touched => job' = Nil)
      /\ ~job.touched => /\ job' \in Request /\ Same(job', job) /\ job'.archived = job.archived
                         /\ job'.phase = "over" /\ job'.todo = <<>>
                         /\ job'.ok = ok /\ job'.restored = restored /\ job'.cut = cut
  BY <1>1, OverIs
<1>3. ASSUME ~job.touched, NEW k, k = job'
      PROVE  Fine(k, scripts', active')
  <2>1. /\ Same(k, job) /\ k.archived = job.archived /\ k.phase = "over" /\ k.todo = <<>>
        /\ k.ok = ok /\ k.restored = restored /\ k.cut = cut /\ ~k.touched
    BY <1>2, <1>3 DEF Same
  <2>2. WriteOK(job, scripts) /\ ImportOK(job, scripts, active) /\ UndoOK(job, scripts, active)
    BY <1>1, <1>3 DEF Fine
  <2>3. WriteOK(k, scripts')
    BY <1>3, <2>1 DEF WriteOK, Left, KeptBy, Same
  <2>4. ImportOK(k, scripts', active')
    <3> SUFFICES ASSUME job.op = "import"
                 PROVE  ImportOK(k, scripts', active')
      BY <2>1 DEF ImportOK, Same
    <3>1. RecordOf(k) = RecordOf(job)
      BY <2>1 DEF RecordOf, Same
    <3>2. ImportHeld(k, scripts', active')
      BY <1>3, <2>1 DEF Left, ImportHeld, Same
    <3>3. ImportOver(k, scripts', active')
      BY <1>3, <2>1, <3>1 DEF ImportOver, Archived, Untouched, Same
    <3> QED
      BY <2>1, <2>2, <3>1, <3>2, <3>3 DEF ImportOK, Same
  <2>5. UndoOK(k, scripts', active')
    <3> SUFFICES ASSUME job.op = "undo"
                 PROVE  UndoOK(k, scripts', active')
      BY <2>1 DEF UndoOK, Same
    <3>1. Undone0(replaced[k.at], scripts', active') \/ (~ok /\ UndoHalf(k, replaced[k.at], scripts'))
      <4>1. k.at = job.at /\ k.accept = job.accept
        BY <2>1 DEF Same
      <4>2. Undone0(replaced[job.at], scripts', active') \/ UndoHalf(job, replaced[job.at], scripts')
        BY <1>3 DEF Left
      <4>3. UndoHalf(job, replaced[job.at], scripts') => UndoHalf(k, replaced[k.at], scripts')
        BY <4>1 DEF UndoHalf
      <4>4. ok => Undone0(replaced[job.at], scripts', active')
        BY <1>3
      <4> QED
        BY <4>1, <4>2, <4>3, <4>4
    <3> QED
      BY <2>1, <2>2, <3>1 DEF UndoOK, Same
  <2>6. k.touched => k.kept = {}
    BY <2>1
  <2> QED
    BY <2>1, <2>3, <2>4, <2>5, <2>6 DEF Fine
<1>4. job' # Nil => Fine(job', scripts', active')
  BY <1>2, <1>3
<1> QED
  BY <1>2, <1>4, RequestLater

\* A command that a page's view allows.
Passing(c) ==
  /\ Proper(c)
  /\ \A p \in Pages : views[p] # Nil /\ ~views[p].reused => SinceBy(views[p].script, c)

LEMMA Passed ==
  ASSUME IInv, job # Nil, NEW c, (\E i \in DOMAIN job.todo : c = job.todo[i]) \/ c \in Archives
  PROVE  Passing(c)
<1>1. CASE c \in Archives
  BY <1>1, Commands DEF Archives, Passing, Proper, SinceBy
<1>2. CASE \E i \in DOMAIN job.todo : c = job.todo[i]
  BY <1>2 DEF Passing, IInv, ActInv, StoreOK, ViewsOK
<1> QED
  BY <1>1, <1>2

\* Saves leave an import's record and archives alone.
LEMMA CalmCommand ==
  ASSUME IInv, calm, NEW c \in Command, Calm(c), Does(c, scripts, active, scripts', active')
  PROVE  /\ \A n \in Names \ {"webmail", "prev"} : scripts'[n] = scripts[n]
         /\ active' = "webmail"
         /\ Intact(scripts'["webmail"]) /\ scripts["import"].after.doc <= scripts'["webmail"].doc
<1>1. scripts \in Store
  BY DEF IInv, TypeOK, Store
<1>2. /\ active = "webmail" /\ Intact(scripts["webmail"])
      /\ scripts["import"].after.doc <= scripts["webmail"].doc
  BY DEF IInv, ActInv, CalmOK
<1>3. c.do \in {"check", "put", "activate", "remove"} /\ (c.do = "put" => c.name \in Names)
  BY DEF Command, Names
<1>4. CASE c = Check
  BY <1>1, <1>2, <1>4, CheckDoes
<1>5. CASE c = Activate("webmail")
  <2>1. Does(Activate("webmail"), scripts, active, scripts', active')
    BY <1>5
  <2>2. scripts' = scripts /\ active' = "webmail"
    BY <2>1, ActivateDoes
  <2> QED
    BY <1>2, <2>2
<1>6. CASE c.do = "put" /\ c.name = "prev"
  <2>1. scripts' = [scripts EXCEPT !["prev"] = c.script] /\ active' = active
    BY <1>6 DEF Does
  <2>2. scripts'["webmail"] = scripts["webmail"] /\ \A n \in Names \ {"webmail", "prev"} : scripts'[n] = scripts[n]
    BY <1>1, <2>1, NamesAre DEF Store
  <2> QED
    BY <1>2, <2>1, <2>2
<1>7. CASE c.do = "put" /\ c.name = "webmail"
  <2>1. scripts' = [scripts EXCEPT !["webmail"] = c.script] /\ active' = active
    BY <1>7 DEF Does
  <2>2. scripts'["webmail"] = c.script /\ \A n \in Names \ {"webmail", "prev"} : scripts'[n] = scripts[n]
    BY <1>1, <2>1, NamesAre DEF Store
  <2>3. Intact(c.script) /\ scripts["import"].after.doc <= c.script.doc
    BY <1>7, Commands DEF Calm
  <2> QED
    BY <1>2, <2>1, <2>2, <2>3
<1> QED
  BY <1>4, <1>5, <1>6, <1>7 DEF Calm

LEMMA CalmStep ==
  ASSUME IInv, ~Idle, UNCHANGED <<jobs, replaced>>, RequestOK', job' \in Request \union {Nil},
         calm' = (calm \/ (job.op = "import" /\ ~job.touched /\ job'.ok)),
         \/ UNCHANGED <<scripts, active>>
         \/ job.todo # <<>> /\ Does(Head(job.todo), scripts, active, scripts', active'),
         job' = Nil => job.touched,
         job' # Nil =>
           /\ job'.op = job.op /\ job'.touched = job.touched
           /\ job.op = "write" => \A i \in DOMAIN job'.todo : \E k \in DOMAIN job.todo : job'.todo[i] = job.todo[k]
  PROVE  CalmOK'
<1>1. /\ job \in Request /\ job # Nil
  BY Begun
<1>2. CASE calm
  <2>1. /\ job.op = "write" /\ \A i \in DOMAIN job.todo : Calm(job.todo[i])
        /\ scripts["import"] # Nil /\ active = "webmail" /\ CopiesKept(scripts["import"])
        /\ Intact(scripts["webmail"]) /\ scripts["import"].after.doc <= scripts["webmail"].doc
        /\ scripts["import"].name = "other" => scripts["other"] = scripts["import"].source
    BY <1>1, <1>2 DEF IInv, ActInv, CalmOK
  <2>2. /\ \A n \in Names \ {"webmail", "prev"} : scripts'[n] = scripts[n]
        /\ active' = "webmail"
        /\ Intact(scripts'["webmail"]) /\ scripts["import"].after.doc <= scripts'["webmail"].doc
    <3>1. CASE UNCHANGED <<scripts, active>>
      BY <2>1, <3>1
    <3>2. CASE job.todo # <<>> /\ Does(Head(job.todo), scripts, active, scripts', active')
      <4>1. /\ Head(job.todo) \in Command /\ 1 \in DOMAIN job.todo /\ Head(job.todo) = job.todo[1]
        BY <1>1, <3>2, TailElements DEF Request
      <4> QED
        BY <1>2, <2>1, <3>2, <4>1, CalmCommand
    <3> QED
      BY <3>1, <3>2
  <2>3. \A n \in {"import", "other", "undo-webmail", "undo-active"} : scripts'[n] = scripts[n]
    BY <2>2, NamesAre
  <2>4. CopiesKept(scripts["import"])'
    BY <2>1, <2>3 DEF CopiesKept
  <2>5. ASSUME NEW c, Calm(c)
        PROVE  Calm(c)'
    BY <2>3, <2>5 DEF Calm
  <2>6. (job # Nil => \A i \in DOMAIN job.todo : Calm(job.todo[i]))'
    <3>1. job' # Nil => \A i \in DOMAIN job'.todo : Calm(job'.todo[i])
      BY <2>1
    <3> QED
      BY <2>3, <3>1 DEF Calm
  <2>7. (~Idle => job.op = "write")'
    BY <2>1 DEF Idle
  <2> QED
    BY <2>1, <2>2, <2>3, <2>4, <2>6, <2>7 DEF CalmOK
<1>3. CASE ~calm
  <2> SUFFICES ASSUME calm'
               PROVE  CalmOK'
    BY DEF CalmOK
  <2>1. job' \in Request /\ job' # Nil /\ job'.op = "import" /\ ~job'.touched /\ job'.ok
    BY <1>3
  <2>2. ImportOK(job, scripts, active)' /\ (job'.phase = "over" => job'.todo = <<>>)
    BY <2>1 DEF RequestOK, Fine
  <2>3. /\ job'.phase = "over" /\ Intact(job'.doc) /\ job'.was \in Finding
        /\ (ImportHeld(job, scripts, active))' /\ (ImportOver(job, scripts, active))'
    BY <2>1, <2>2 DEF ImportOK
  <2>4. /\ scripts'["import"] = ImportRecord(job'.at, job'.was, job'.doc) /\ scripts'["webmail"] = job'.doc
        /\ active' = "webmail"
        /\ job'.was.script # Nil => scripts'["undo-webmail"] = job'.was.script
        /\ Elsewhere(job'.was.active) => scripts'["undo-active"] = job'.was.source
        /\ job'.was.active = "other" => scripts'["other"] = job'.was.source
    BY <2>1, <2>3 DEF ImportHeld, ImportOver, Archived, ScriptKept, SourceKept, RecordOf
  <2>5. PICK r : r = ImportRecord(job'.at, job'.was, job'.doc)
    OBVIOUS
  <2>6. /\ r # Nil /\ r.before = job'.was.script /\ r.name = job'.was.active /\ r.source = job'.was.source
        /\ r.after = job'.doc
    <3>1. scripts'["import"] = r
      BY <2>4, <2>5
    <3>2. r.before = job'.was.script /\ r.name = job'.was.active /\ r.source = job'.was.source /\ r.after = job'.doc
      BY <2>5 DEF ImportRecord
    <3>3. r # Nil
      <4>1. (ImportedOK(RecordOf(job)))'
        BY <2>1, <2>2 DEF ImportOK
      <4>2. r.at \in DOMAIN replaced
        BY <2>5, <4>1 DEF ImportedOK, RecordOf
      <4>3. DOMAIN replaced = 1..Len(replaced) /\ Len(replaced) \in Nat
        BY LenProperties DEF IInv, TypeOK
      <4>4. job'.at \in Nat \ {0}
        BY <2>5, <4>2, <4>3 DEF ImportRecord
      <4>5. r \in Imported
        BY <2>3, <2>5, <4>4 DEF ImportRecord, Imported, Finding, Intact
      <4> QED
        BY <4>5, NilFacts
    <3> QED
      BY <3>2, <3>3
  <2>7. CopiesKept(scripts["import"])'
    BY <2>4, <2>5, <2>6 DEF CopiesKept
  <2>8. job'.doc.doc \in Nat
    BY <2>3 DEF Intact, Rule
  <2>9. Idle' /\ job'.todo = <<>>
    BY <2>1, <2>2, <2>3 DEF Idle
  <2> QED
    BY <2>3, <2>4, <2>5, <2>6, <2>7, <2>8, <2>9 DEF CalmOK
<1> QED
  BY <1>2, <1>3

LEMMA StepOK ==
  ASSUME IInv, ~Idle, UNCHANGED <<views, replaced, jobs, policy>>, trouble' \in Nat,
         calm' = (calm \/ (job.op = "import" /\ ~job.touched /\ job'.ok)),
         late' \subseteq late \union {c \in Command : Proper(c)},
         \/ UNCHANGED <<scripts, active>>
         \/ /\ Working /\ job.todo # <<>> /\ Possible(Head(job.todo))
            /\ Does(Head(job.todo), scripts, active, scripts', active'),
         RequestOK', job' \in Request \union {Nil}, job' = Nil => job.touched,
         job' # Nil =>
           /\ job'.op = job.op /\ job'.was = job.was /\ job'.touched = job.touched
           /\ job'.phase = "work" => job.phase = "work"
           /\ job'.phase \in {"reconnect", "recover"} => Returning
           /\ \A i \in DOMAIN job'.todo : Passing(job'.todo[i])
           /\ job.op = "write" => \A i \in DOMAIN job'.todo : \E k \in DOMAIN job.todo : job'.todo[i] = job.todo[k]
  PROVE  IInv'
<1>1. calm' \in BOOLEAN
  OBVIOUS
<1>2. TypeOK' /\ StoreOK' /\ ViewsOK'
  BY <1>1, StepKeeps DEF Passing
<1>3. CalmOK'
  BY CalmStep
<1> QED
  BY <1>2, <1>3 DEF IInv, ActInv

\* A step that ends the request.
LEMMA EndStep ==
  ASSUME IInv, ~Idle, UNCHANGED <<views, replaced, jobs, policy>>, trouble' \in Nat,
         calm' = (calm \/ (job.op = "import" /\ ~job.touched /\ job'.ok)),
         late' \subseteq late \union {c \in Command : Proper(c)},
         \/ UNCHANGED <<scripts, active>>
         \/ /\ Working /\ job.todo # <<>> /\ Possible(Head(job.todo))
            /\ Does(Head(job.todo), scripts, active, scripts', active'),
         NEW ok \in BOOLEAN, NEW restored \in BOOLEAN, NEW cut \in BOOLEAN, Over(ok, restored, cut),
         ~job.touched =>
           /\ job.op = "import" => /\ ok => Archived(job, scripts') /\ scripts'["webmail"] = job.doc /\ active' = "webmail"
                                   /\ ~ok /\ job.archived /\ ~cut => restored
                                   /\ restored => Untouched(job, scripts', active')
           /\ job.op = "undo" /\ ok => Undone0(replaced[job.at], scripts', active')
  PROVE  IInv'
<1>1. job \in Request
  BY Begun
<1>2. /\ job' \in Request \union {Nil} /\ (job.touched => job' = Nil)
      /\ ~job.touched => job' \in Request /\ Same(job', job) /\ job'.phase = "over" /\ job'.todo = <<>>
  BY <1>1, OverIs
<1>3. ~job.touched => Left(job, scripts', active')
  BY LeftAfter
<1>4. RequestOK'
  BY <1>3, Ended
<1>5. job' = Nil => job.touched
  BY <1>2, NilFacts
<1>6. job' # Nil =>
        /\ job'.op = job.op /\ job'.was = job.was /\ job'.touched = job.touched
        /\ job'.phase = "over" /\ DOMAIN job'.todo = {}
  BY <1>2 DEF Same
<1> QED
  BY <1>2, <1>4, <1>5, <1>6, StepOK

LEMMA FailIs ==
  ASSUME job \in Request, NEW broken \in BOOLEAN, Fail(broken)
  PROVE  \/ /\ job.op = "import" /\ job.phase = "work" /\ job.archived
            /\ job' = [job EXCEPT !.phase = "reconnect"]
         \/ job.phase = "recover" /\ Over(FALSE, FALSE, trouble' # trouble)
         \/ job.phase = "cleanup" /\ job' = [job EXCEPT !.todo = Tail(@)]
         \/ /\ job.phase # "recover" /\ ~(job.op = "import" /\ job.phase = "work" /\ job.archived)
            /\ Over(job.phase = "cleanup", FALSE, FALSE)
BY DEF Fail

LEMMA FailOK ==
  ASSUME IInv, Working, job.todo # <<>>, UNCHANGED <<views, replaced, jobs, policy>>, trouble' \in Nat,
         calm' = (calm \/ (job.op = "import" /\ ~job.touched /\ job'.ok)),
         late' \subseteq late \union {c \in Command : Proper(c)},
         \/ UNCHANGED <<scripts, active>>
         \/ Possible(Head(job.todo)) /\ Does(Head(job.todo), scripts, active, scripts', active'),
         NEW broken \in BOOLEAN, Fail(broken),
         job.phase = "recover" /\ ~job.touched => trouble' # trouble
  PROVE  IInv'
<1>1. ~Idle
  BY DEF Working, Idle
<1>2. /\ job \in Request /\ job # Nil /\ Fine(job, scripts, active) /\ job.todo \in Seq(Command)
  BY <1>1, Begun DEF Request
<1>3. ~job.touched => Left(job, scripts', active')
  BY <1>1, LeftAfter
<1>4. CASE /\ job.op = "import" /\ job.phase = "work" /\ job.archived
           /\ job' = [job EXCEPT !.phase = "reconnect"]
  <2>1. PICK k : k = job'
    OBVIOUS
  <2>2. /\ k \in Request /\ Same(k, job) /\ k.phase = "reconnect" /\ k.ok = job.ok
        /\ k.todo = job.todo /\ k.archived = job.archived
    BY <1>2, <1>4, <2>1 DEF Request, Same
  <2>3. Fine(k, scripts', active')
    <3> SUFFICES ASSUME ~job.touched
                 PROVE  ImportOK(k, scripts', active')
      BY <1>2, <1>4, <2>2 DEF Fine, Same, WriteOK, UndoOK
    <3>1. ImportHeld(job, scripts', active') /\ Archived(job, scripts')
      BY <1>3, <1>4 DEF Left
    <3>2. RecordOf(k) = RecordOf(job)
      BY <2>2 DEF RecordOf, Same
    <3>3. ImportHeld(k, scripts', active') /\ Archived(k, scripts')
      BY <2>2, <3>1, <3>2 DEF ImportHeld, Archived, Same
    <3>4. ImportOK(job, scripts, active)
      BY <1>2 DEF Fine
    <3> QED
      BY <1>4, <2>2, <3>2, <3>3, <3>4 DEF ImportOK, Same
  <2>4. RequestOK'
    BY <2>1, <2>3, RequestLater
  <2>5. \A i \in DOMAIN job'.todo : Passing(job'.todo[i])
    BY <1>2, <2>1, <2>2, Passed
  <2>6. Returning
    BY <1>2, <1>4 DEF Returning
  <2>7. job' \in Request /\ job' # Nil
    BY <2>1, <2>2, NilFacts
  <2>8. /\ job'.op = job.op /\ job'.was = job.was /\ job'.touched = job.touched /\ job'.phase = "reconnect"
    BY <2>1, <2>2 DEF Same
  <2> QED
    BY <1>1, <1>4, <2>4, <2>5, <2>6, <2>7, <2>8, StepOK
<1>5. CASE job.phase = "recover" /\ Over(FALSE, FALSE, trouble' # trouble)
  <2>1. PICK cut \in BOOLEAN : cut = (trouble' # trouble)
    OBVIOUS
  <2>2. Over(FALSE, FALSE, cut)
    BY <1>5, <2>1
  <2>3. ~job.touched => cut
    BY <1>5, <2>1
  <2> QED
    BY <1>1, <2>2, <2>3, EndStep
<1>6. CASE job.phase = "cleanup" /\ job' = [job EXCEPT !.todo = Tail(@)]
  <2>1. PICK k : k = job'
    OBVIOUS
  <2>2. /\ k \in Request /\ Same(k, job) /\ k.phase = "cleanup" /\ k.ok = job.ok
        /\ k.todo = Tail(job.todo) /\ k.archived = job.archived
    <3>1. Tail(job.todo) \in Seq(Command)
      BY <1>2, TailElements
    <3> QED
      BY <1>2, <1>6, <2>1, <3>1 DEF Request, Same
  <2>3. \A i \in DOMAIN k.todo : \E m \in DOMAIN job.todo : k.todo[i] = job.todo[m]
    BY <1>2, <2>2, TailElements
  <2>4. job.op = "undo"
    BY <1>2, <1>6 DEF Fine
  <2>5. Fine(k, scripts', active')
    <3> SUFFICES ASSUME ~job.touched
                 PROVE  UndoOK(k, scripts', active')
      BY <1>2, <2>2, <2>4 DEF Fine, Same, WriteOK, ImportOK
    <3>1. Undone0(replaced[job.at], scripts', active')
      BY <1>3, <1>6, <2>4 DEF Left
    <3>2. UndoOK(job, scripts, active)
      BY <1>2 DEF Fine
    <3>3. \A i \in DOMAIN k.todo : k.todo[i] \in Archives
      BY <1>6, <2>3, <2>4, <3>2 DEF UndoOK
    <3>4. k.at = job.at
      BY <2>2 DEF Same
    <3> QED
      BY <1>6, <2>2, <2>4, <3>1, <3>2, <3>3, <3>4 DEF UndoOK, Same
  <2>6. RequestOK'
    BY <2>1, <2>5, RequestLater
  <2>7. \A i \in DOMAIN job'.todo : Passing(job'.todo[i])
    BY <1>2, <2>1, <2>3, Passed
  <2>8. job' \in Request /\ job' # Nil
    BY <2>1, <2>2, NilFacts
  <2>9. /\ job'.op = job.op /\ job'.was = job.was /\ job'.touched = job.touched /\ job'.phase = "cleanup"
    BY <2>1, <2>2 DEF Same
  <2> QED
    BY <1>1, <2>4, <2>6, <2>7, <2>8, <2>9, StepOK
<1>7. CASE /\ job.phase # "recover" /\ ~(job.op = "import" /\ job.phase = "work" /\ job.archived)
           /\ Over(job.phase = "cleanup", FALSE, FALSE)
  <2>1. PICK ok \in BOOLEAN : ok = (job.phase = "cleanup")
    OBVIOUS
  <2>2. Over(ok, FALSE, FALSE)
    BY <1>7, <2>1
  <2>3. ok => job.op = "undo"
    BY <1>2, <2>1 DEF Fine
  <2>4. job.op = "import" => ~job.archived
    BY <1>2, <1>7, <2>1, <2>3 DEF Working
  <2>5. ~job.touched /\ job.op = "undo" /\ ok => Undone0(replaced[job.at], scripts', active')
    BY <1>3, <2>1 DEF Left
  <2> QED
    BY <1>1, <2>2, <2>3, <2>4, <2>5, EndStep
<1> QED
  BY <1>2, <1>4, <1>5, <1>6, <1>7, FailIs

LEMMA AnsweredOK ==
  ASSUME IInv, Answered, UNCHANGED <<views, replaced, jobs>>,
         calm' = (calm \/ (job.op = "import" /\ ~job.touched /\ job'.ok))
  PROVE  IInv'
<1>1. ~Idle
  BY DEF Answered, Working, Idle
<1>2. /\ job \in Request /\ job # Nil /\ Fine(job, scripts, active) /\ job.todo \in Seq(Command)
  BY <1>1, Begun DEF Request
<1>3. /\ Working /\ job.todo # <<>> /\ Possible(Head(job.todo)) /\ Head(job.todo) \in Command
      /\ Effect(Head(job.todo)) /\ UNCHANGED <<policy, late, trouble>>
  BY <1>2, TailElements DEF Answered
<1>4. Does(Head(job.todo), scripts, active, scripts', active')
  BY <1>3, EffectIs
<1>5. PICK k : k = job'
  OBVIOUS
<1>6. /\ k \in Request /\ Same(k, job) /\ k.phase = job.phase /\ k.ok = job.ok
      /\ k.todo = Tail(job.todo) /\ k.archived = (job.archived \/ RecordStored(Head(job.todo)))
  <2>1. PICK t, b : t = Tail(job.todo) /\ b = (job.archived \/ RecordStored(Head(job.todo)))
    OBVIOUS
  <2>2. t \in Seq(Command) /\ b \in BOOLEAN
    BY <1>2, <1>3, <2>1, TailElements DEF Request, RecordStored
  <2>3. k = [job EXCEPT !.todo = t, !.archived = b]
    BY <1>5, <2>1 DEF Answered
  <2> QED
    BY <1>2, <2>1, <2>2, <2>3 DEF Request, Same
<1>7. Fine(k, scripts', active')
  BY <1>1, <1>3, <1>4, <1>6, CommandDone
<1>8. RequestOK'
  BY <1>3, <1>5, <1>7, RequestLater
<1>9. \A i \in DOMAIN job'.todo : \E m \in DOMAIN job.todo : job'.todo[i] = job.todo[m]
  BY <1>2, <1>3, <1>5, <1>6, TailElements
<1>10. \A i \in DOMAIN job'.todo : Passing(job'.todo[i])
  BY <1>2, <1>9, Passed
<1>11. /\ job' \in Request /\ job' # Nil
  BY <1>5, <1>6, NilFacts
<1>12. /\ job'.op = job.op /\ job'.was = job.was /\ job'.touched = job.touched /\ job'.phase = job.phase
  BY <1>5, <1>6 DEF Same
<1>13. job.phase \in {"reconnect", "recover"} => Returning
  BY <1>2 DEF Fine, Returning
<1>14. trouble' \in Nat
  BY <1>3 DEF IInv, TypeOK
<1> QED
  BY <1>1, <1>3, <1>4, <1>8, <1>9, <1>10, <1>11, <1>12, <1>13, <1>14, StepOK

LEMMA RejectedOK ==
  ASSUME IInv, Rejected, UNCHANGED <<views, replaced, jobs>>,
         calm' = (calm \/ (job.op = "import" /\ ~job.touched /\ job'.ok))
  PROVE  IInv'
<1>1. ~Idle /\ Working /\ job.todo # <<>> /\ Fail(FALSE) /\ UNCHANGED <<scripts, active, late, policy>>
  BY DEF Rejected, Working, Idle, NoEffect
<1>2. trouble' \in Nat
  BY DEF IInv, TypeOK, Rejected, Trouble
<1>3. job.phase = "recover" /\ ~job.touched => trouble' # trouble
  <2> SUFFICES ASSUME job.phase = "recover", ~job.touched
               PROVE  trouble' # trouble
    OBVIOUS
  <2>1. /\ job.op = "import" /\ Importing(job) /\ ImportOK(job, scripts, active)
        /\ scripts \in Store /\ active \in Selected
    BY <1>1, Begun DEF Fine
  <2>2. /\ ImportHeld(job, scripts, active) /\ Archived(job, scripts) /\ RecoverWork(job, scripts, active)
    BY <2>1 DEF ImportOK
  <2>3. \/ Head(job.todo) = Put("webmail", job.was.script)
        \/ Head(job.todo) = Activate(job.was.active) /\ (job.was.active # Nil => scripts[job.was.active] # Nil)
        \/ Head(job.todo) = Remove("webmail") /\ active # "webmail"
    BY <1>1, <2>1, <2>2, RecoverStep DEF ImportHeld
  <2>4. Possible(Head(job.todo))
    BY <2>3, Commands DEF Possible
  <2>5. trouble' = trouble + 1 /\ trouble \in Nat
    BY <2>4 DEF Rejected, Trouble, IInv, TypeOK
  <2> QED
    BY <2>5
<1> QED
  BY <1>1, <1>2, <1>3, FailOK

LEMMA AnswerLostOK ==
  ASSUME IInv, AnswerLost, UNCHANGED <<views, replaced, jobs>>,
         calm' = (calm \/ (job.op = "import" /\ ~job.touched /\ job'.ok))
  PROVE  IInv'
<1>1. ~Idle /\ Working /\ job.todo # <<>> /\ Fail(TRUE) /\ UNCHANGED policy
  BY DEF AnswerLost, Working, Idle
<1>2. trouble \in Nat /\ trouble' = trouble + 1
  BY DEF IInv, TypeOK, AnswerLost, Trouble
<1>3. job \in Request /\ job # Nil
  BY <1>1, Begun
<1>4. Head(job.todo) \in Command /\ 1 \in DOMAIN job.todo /\ Head(job.todo) = job.todo[1]
  BY <1>1, <1>3, TailElements DEF Request
<1>5. Proper(Head(job.todo))
  BY <1>3, <1>4, Passed DEF Passing
<1>6. late' \subseteq late \union {c \in Command : Proper(c)}
  BY <1>4, <1>5 DEF AnswerLost
<1>7. \/ UNCHANGED <<scripts, active>>
      \/ Possible(Head(job.todo)) /\ Does(Head(job.todo), scripts, active, scripts', active')
  BY <1>4, EffectIs DEF AnswerLost, NoEffect
<1>8. trouble' \in Nat /\ trouble' # trouble
  BY <1>2
<1> QED
  BY <1>1, <1>6, <1>7, <1>8, FailOK

LEMMA CompleteOK ==
  ASSUME IInv, Complete, UNCHANGED <<views, replaced, jobs>>,
         calm' = (calm \/ (job.op = "import" /\ ~job.touched /\ job'.ok))
  PROVE  IInv'
<1>1. ~Idle /\ Working /\ job.todo = <<>> /\ job.phase \in {"work", "cleanup"}
      /\ UNCHANGED <<scripts, active, late, policy, trouble>>
  BY DEF Complete, Working, Idle, serverVars
<1>2. trouble' \in Nat
  BY <1>1 DEF IInv, TypeOK
<1>3. /\ job \in Request /\ job # Nil /\ Fine(job, scripts, active)
  BY <1>1, Begun
<1>4. CASE job.op = "undo" /\ job.phase = "work"
  <2>1. PICK t : t = <<Remove("undo-webmail"), Remove("undo-active")>>
    OBVIOUS
  <2>2. t \in Seq(Command) /\ \A i \in DOMAIN t : t[i] \in Archives
    <3>1. Remove("undo-webmail") \in Command /\ Remove("undo-active") \in Command
      BY Commands, NamesAre
    <3> QED
      BY <2>1, <3>1 DEF Archives
  <2>3. PICK k : k = job'
    OBVIOUS
  <2>4. k = [job EXCEPT !.phase = "cleanup", !.todo = t]
    BY <1>4, <2>1, <2>3 DEF Complete
  <2>5. /\ k \in Request /\ Same(k, job) /\ k.phase = "cleanup" /\ k.ok = job.ok /\ k.todo = t
    BY <1>3, <2>2, <2>4 DEF Request, Same
  <2>6. Fine(k, scripts', active')
    <3> SUFFICES ASSUME ~job.touched
                 PROVE  UndoOK(k, scripts, active)
      BY <1>1, <1>3, <1>4, <2>5 DEF Fine, Same, WriteOK, ImportOK
    <3>1. UndoOK(job, scripts, active)
      BY <1>3 DEF Fine
    <3>2. UndoWork(job, replaced[job.at], scripts, active) /\ job.todo = <<>>
      BY <1>1, <1>4, <3>1 DEF UndoOK
    <3>3. replaced[job.at] \in Finding
      BY <1>1, <1>4, Begun
    <3>4. Undone0(replaced[job.at], scripts, active)
      BY <3>2, <3>3, UndoParts DEF UndoWork, ScriptToCome
    <3> QED
      BY <1>4, <2>2, <2>5, <3>1, <3>4 DEF UndoOK, Same
  <2>7. RequestOK'
    BY <1>1, <2>3, <2>6, RequestLater
  <2>8. \A i \in DOMAIN job'.todo : Passing(job'.todo[i])
    BY <1>3, <2>2, <2>3, <2>5, Passed
  <2>9. job' \in Request /\ job' # Nil
    BY <2>3, <2>5, NilFacts
  <2>10. /\ job'.op = job.op /\ job'.was = job.was /\ job'.touched = job.touched /\ job'.phase = "cleanup"
    BY <2>3, <2>5 DEF Same
  <2> QED
    BY <1>1, <1>2, <1>4, <2>7, <2>8, <2>9, <2>10, StepOK
<1>5. CASE ~(job.op = "undo" /\ job.phase = "work")
  <2>1. Over(TRUE, FALSE, FALSE)
    BY <1>5 DEF Complete
  <2>2. ~job.touched /\ job.op = "import" =>
          Archived(job, scripts) /\ scripts["webmail"] = job.doc /\ active = "webmail"
    <3> SUFFICES ASSUME ~job.touched, job.op = "import"
                 PROVE  Archived(job, scripts) /\ scripts["webmail"] = job.doc /\ active = "webmail"
      OBVIOUS
    <3>1. Importing(job) /\ ImportWork(job, scripts, active) /\ job.todo = <<>>
      BY <1>1, <1>3, Begun DEF Fine, ImportOK
    <3>2. /\ Import1 # <<>> /\ Import2(job) # <<>> /\ Import3(job) # <<>> /\ Import4(job) # <<>>
          /\ Import5(job) # <<>> /\ Import6(job) # <<>> /\ Import7(job) # <<>>
      BY <3>1, ImportParts
    <3> QED
      BY <3>1, <3>2 DEF ImportWork
  <2>3. ~job.touched /\ job.op = "undo" => Undone0(replaced[job.at], scripts, active)
    BY <1>1, <1>3, <1>5 DEF Fine, UndoOK
  <2> QED
    BY <1>1, <1>2, <2>1, <2>2, <2>3, EndStep
<1> QED
  BY <1>4, <1>5

LEMMA VerifyOK ==
  ASSUME IInv, Verify, UNCHANGED <<views, replaced, jobs>>,
         calm' = (calm \/ (job.op = "import" /\ ~job.touched /\ job'.ok))
  PROVE  IInv'
<1>1. ~Idle /\ Working /\ job.todo = <<>> /\ job.phase = "recover"
      /\ UNCHANGED <<scripts, active, late, policy, trouble>>
  BY DEF Verify, Working, Idle, serverVars
<1>2. trouble' \in Nat
  BY <1>1 DEF IInv, TypeOK
<1>3. /\ job \in Request /\ job # Nil /\ Fine(job, scripts, active)
  BY <1>1, Begun
<1>4. PICK restored \in BOOLEAN : restored = AsBefore(job.was, job.at, job.doc)
  BY DEF AsBefore
<1>5. Over(FALSE, restored, FALSE)
  BY <1>4 DEF Verify
<1>6. job.op = "import"
  BY <1>1, <1>3 DEF Fine
<1>7. ~job.touched => restored /\ Untouched(job, scripts', active')
  <2> SUFFICES ASSUME ~job.touched
               PROVE  restored /\ Untouched(job, scripts, active)
    BY <1>1
  <2>1. /\ Importing(job) /\ RecoverWork(job, scripts, active) /\ Archived(job, scripts)
        /\ ImportHeld(job, scripts, active)
    BY <1>1, <1>3, <1>6, Begun DEF Fine, ImportOK
  <2>2. Untouched(job, scripts, active)
    <3>1. job.was \in Finding
      BY <2>1 DEF Importing
    <3>2. PICK t : t = Removal(job.was)
      OBVIOUS
    <3>3. /\ t = <<>> => job.was.script # Nil
          /\ <<Activate(job.was.active)>> \o Removal(job.was) # <<>>
      BY <3>1, <3>2, RecoverParts
    <3>4. \A u \in Seq(Command) : job.was.script # Nil => <<Put("webmail", job.was.script)>> \o u # <<>>
      BY <3>1, RecoverParts, Cons
    <3> QED
      BY <1>1, <2>1, <3>2, <3>3, <3>4 DEF RecoverWork, Untouched
  <2>3. /\ scripts["import"] = ImportRecord(job.at, job.was, job.doc)
        /\ job.was.script # Nil => scripts["undo-webmail"] = job.was.script
        /\ Elsewhere(job.was.active) => scripts["undo-active"] = job.was.source
        /\ job.was.active = "other" => scripts["other"] = job.was.source
    BY <2>1 DEF Archived, ScriptKept, SourceKept, RecordOf, ImportHeld
  <2>4. Elsewhere(job.was.active) => job.was.active = "other"
    BY <2>1 DEF Importing, Finding, Selected, Elsewhere
  <2>5. AsBefore(job.was, job.at, job.doc)
    BY <2>2, <2>3, <2>4 DEF AsBefore, Untouched
  <2> QED
    BY <1>4, <2>2, <2>5
<1> QED
  BY <1>1, <1>2, <1>5, <1>6, <1>7, EndStep

LEMMA CrashOK ==
  ASSUME IInv, Crash, UNCHANGED <<views, replaced, jobs>>,
         calm' = (calm \/ (job.op = "import" /\ ~job.touched /\ job'.ok))
  PROVE  IInv'
<1>1. ~Idle /\ UNCHANGED <<scripts, active, late, policy>>
  BY DEF Crash, serverVars
<1>2. trouble' \in Nat
  BY DEF Crash, Trouble, IInv, TypeOK
<1>3. PICK cut \in BOOLEAN : cut = (job.op = "import")
  OBVIOUS
<1>4. Over(FALSE, FALSE, cut)
  BY <1>3 DEF Crash
<1>5. job.op = "import" => cut
  BY <1>3
<1> QED
  BY <1>1, <1>2, <1>4, <1>5, EndStep

LEMMA RecoverySeq ==
  ASSUME NEW w \in Finding, NEW S,
         S = {c \in Command : \/ c = Activate(w.active)
                              \/ c = Put("webmail", w.script) /\ w.script # Nil
                              \/ c = Remove("webmail") /\ w.script = Nil}
  PROVE  RecoveryCommands(w) \in Seq(S)
<1>1. /\ Activate(w.active) \in S
      /\ w.script # Nil => Put("webmail", w.script) \in S
      /\ w.script = Nil => Remove("webmail") \in S
  BY RecoverParts, Commands, NamesAre
<1>2. When(w.script # Nil /\ scripts["webmail"] # w.script, Put("webmail", w.script)) \in Seq(S)
  BY <1>1, One, EmptySeq DEF When
<1>3. When(active # w.active, Activate(w.active)) \in Seq(S)
  BY <1>1, One, EmptySeq DEF When
<1>4. When(w.script = Nil, Remove("webmail")) \in Seq(S)
  BY <1>1, One, EmptySeq DEF When
<1> QED
  BY <1>2, <1>3, <1>4, ConcatProperties DEF RecoveryCommands

LEMMA ReconnectOK ==
  ASSUME IInv, Reconnect, UNCHANGED <<views, replaced, jobs>>,
         calm' = (calm \/ (job.op = "import" /\ ~job.touched /\ job'.ok))
  PROVE  IInv'
<1>1. ~Idle /\ job.phase = "reconnect" /\ UNCHANGED <<scripts, active, late, policy>>
  BY DEF Reconnect, Idle, serverVars
<1>2. trouble' \in Nat
  <2>1. trouble \in Nat
    BY DEF IInv, TypeOK
  <2>2. UNCHANGED trouble \/ Trouble
    BY Zenon DEF Reconnect
  <2> QED
    BY <2>1, <2>2 DEF Trouble
<1>3. /\ job \in Request /\ job # Nil /\ Fine(job, scripts, active)
  BY <1>1, Begun
<1>4. job.op = "import" /\ Returning
  BY <1>1, <1>3 DEF Fine, Returning
<1>5. CASE job' = [job EXCEPT !.phase = "recover", !.todo = RecoveryCommands(job.was)]
  <2>1. job.was \in Finding /\ Numbered("webmail", job.was.script)
    BY <1>4 DEF IInv, ActInv, StoreOK
  <2>2. PICK S : S = {c \in Command : \/ c = Activate(job.was.active)
                                      \/ c = Put("webmail", job.was.script) /\ job.was.script # Nil
                                      \/ c = Remove("webmail") /\ job.was.script = Nil}
    OBVIOUS
  <2>3. PICK t : t = RecoveryCommands(job.was)
    OBVIOUS
  <2>4. t \in Seq(S)
    <3>1. RecoveryCommands(job.was) \in Seq(S)
      BY <2>1, <2>2, RecoverySeq
    <3> QED
      BY <2>3, <3>1
  <2>5. \A i \in DOMAIN t : t[i] \in S
    BY <2>4, Elements
  <2>6. t \in Seq(Command)
    <3>1. S \subseteq Command
      BY <2>2
    <3> QED
      BY <2>4, <3>1
  <2>7. PICK k : k = job'
    OBVIOUS
  <2>8. /\ k \in Request /\ Same(k, job) /\ k.phase = "recover" /\ k.ok = job.ok
        /\ k.todo = t /\ k.archived = job.archived
    BY <1>3, <1>5, <2>3, <2>6, <2>7 DEF Request, Same
  <2>9. Fine(k, scripts, active)
    <3> SUFFICES ASSUME ~job.touched
                 PROVE  ImportOK(k, scripts, active)
      BY <1>3, <1>4, <2>8 DEF Fine, Same, WriteOK, UndoOK
    <3>1. Importing(job) /\ ImportOK(job, scripts, active)
      BY <1>1, <1>3, <1>4, Begun DEF Fine
    <3>2. ImportHeld(job, scripts, active) /\ Archived(job, scripts) /\ ~job.ok
      BY <1>1, <1>4, <3>1 DEF ImportOK
    <3>3. scripts["webmail"] \in {job.was.script, job.doc}
      BY <3>2 DEF ImportHeld
    <3>4. \E u : /\ u = RecoveryCommands(job.was) /\ u \in Seq(Command)
                 /\ \A m : m.todo = u /\ m.was = job.was => RecoverWork(m, scripts, active)
      BY <3>1, <3>3, RecoverPlan
    <3>5. RecoverWork(k, scripts, active)
      BY <2>3, <2>8, <3>4 DEF Same
    <3>6. RecordOf(k) = RecordOf(job)
      BY <2>8 DEF RecordOf, Same
    <3>7. ImportHeld(k, scripts, active) /\ Archived(k, scripts)
      BY <2>8, <3>2, <3>6 DEF ImportHeld, Archived, Same
    <3> QED
      BY <1>4, <2>8, <3>1, <3>2, <3>5, <3>6, <3>7 DEF ImportOK, Same
  <2>10. RequestOK'
    <3>1. UNCHANGED <<jobs, replaced, policy>> /\ (job' # Nil => Fine(job', scripts', active'))
      BY <1>1, <2>7, <2>9
    <3> QED
      BY <3>1, RequestLater
  <2>11. \A c \in S : Passing(c)
    <3> SUFFICES ASSUME NEW c \in S
                 PROVE  Passing(c)
      OBVIOUS
    <3>1. \A p \in Pages : views[p] # Nil /\ ~views[p].reused => Since(views[p].script, job.was.script)
      BY <1>4 DEF IInv, ActInv, ViewsOK
    <3>2. CASE c = Activate(job.was.active)
      BY <3>2, Commands DEF Passing, Proper, SinceBy
    <3>3. CASE c = Put("webmail", job.was.script)
      BY <2>1, <3>1, <3>3, Commands DEF Passing, Proper, SinceBy
    <3>4. CASE c = Remove("webmail") /\ job.was.script = Nil
      <4>1. \A p \in Pages : views[p] # Nil /\ ~views[p].reused => views[p].script \notin Rule
        BY <3>1, <3>4, NilFacts DEF Since
      <4> QED
        BY <3>4, <4>1, Commands DEF Passing, Proper, SinceBy
    <3> QED
      BY <2>2, <3>2, <3>3, <3>4
  <2>12. /\ job' \in Request /\ job' # Nil /\ job'.op = job.op /\ job'.was = job.was
         /\ job'.touched = job.touched /\ job'.phase = "recover"
    BY <2>7, <2>8, NilFacts DEF Same
  <2>13. \A i \in DOMAIN job'.todo : Passing(job'.todo[i])
    BY <2>5, <2>7, <2>8, <2>11
  <2> QED
    BY <1>1, <1>2, <1>4, <2>10, <2>12, <2>13, StepOK
<1>6. CASE Over(FALSE, FALSE, TRUE)
  BY <1>1, <1>2, <1>4, <1>6, EndStep
<1> QED
  BY <1>5, <1>6 DEF Reconnect

LEMMA StepKeepsAll ==
  ASSUME IInv, Step
  PROVE  IInv'
<1>1. /\ UNCHANGED <<views, replaced, jobs>>
      /\ calm' = (calm \/ (job.op = "import" /\ ~job.touched /\ job'.ok))
  BY DEF Step
<1>2. CASE Answered
  BY <1>1, <1>2, AnsweredOK
<1>3. CASE Rejected
  BY <1>1, <1>3, RejectedOK
<1>4. CASE AnswerLost
  BY <1>1, <1>4, AnswerLostOK
<1>5. CASE Complete
  BY <1>1, <1>5, CompleteOK
<1>6. CASE Reconnect
  BY <1>1, <1>6, ReconnectOK
<1>7. CASE Verify
  BY <1>1, <1>7, VerifyOK
<1>8. CASE Crash
  BY <1>1, <1>8, CrashOK
<1> QED
  BY <1>2, <1>3, <1>4, <1>5, <1>6, <1>7, <1>8 DEF Step
-------------------------------------------------------------------------------
(* Requests that begin.                                                    *)

LEMMA FoundOK ==
  ASSUME IInv
  PROVE  /\ Found \in Finding /\ FindingOK(Found) /\ Numbered("webmail", Found.script)
         /\ Found.script = scripts["webmail"] /\ Found.active = active
         /\ active = "other" => Found.source = scripts["other"]
         /\ {Found.script, Found.source} \ {Nil} \in SUBSET Plain
         /\ \A c \in {Found.script, Found.source} \ {Nil} : Held("other", scripts, c) \/ Held("webmail", scripts, c)
<1>1. /\ \A n \in {"webmail", "other"} : scripts[n] \in Plain \union {Nil}
      /\ active \in {Nil, "webmail", "other"} /\ (active # Nil => scripts[active] # Nil)
      /\ Numbered("webmail", scripts["webmail"])
  BY NamesAre DEF IInv, ActInv, TypeOK, StoreOK, ServerOK, Selected
<1>2. /\ Found.script = scripts["webmail"] /\ Found.active = active
      /\ Found.source = IF active = Nil THEN Nil ELSE scripts[active]
  BY DEF Found
<1>3. Found \in Finding
  BY <1>1 DEF Found, Finding, Selected
<1>4. FindingOK(Found)
  BY <1>1, <1>2, NilFacts DEF FindingOK
<1>5. \A c \in {Found.script, Found.source} \ {Nil} : Held("other", scripts, c) \/ Held("webmail", scripts, c)
  BY <1>1, <1>2 DEF Held, Alike
<1> QED
  BY <1>1, <1>2, <1>3, <1>4, <1>5, NilFacts DEF Finding

\* What the states of an account mean.
LEMMA States ==
  ASSUME IInv
  PROVE  /\ State(Found) \in Importable /\ scripts["webmail"] # Nil => Intact(scripts["webmail"])
         /\ State(Found) = "modified_externally" => scripts["webmail"] \in Rule
         /\ State(Found) = "none" => scripts["webmail"] = Nil
         /\ Intact(scripts["webmail"]) /\ active = "webmail" => State(Found) = "ok"
         /\ Rev(Found) = IF scripts["webmail"] = Nil THEN 0 ELSE scripts["webmail"].rev
<1>1. scripts["webmail"] \in Plain \union {Nil}
  BY NamesAre DEF IInv, TypeOK
<1>2. \A c \in Plain : /\ Parse(c) \in {"ok", "modified_externally", "newer_version", "damaged"}
                       /\ Parse(c) = "ok" => Intact(c)
                       /\ Parse(c) = "modified_externally" => c \in Rule
                       /\ Intact(c) => Parse(c) = "ok"
  BY DEF Parse, Plain, Newer, Intact, Rule
<1>3. Found.script = scripts["webmail"] /\ Found.active = active
  BY DEF Found
<1>4. "webmail" # Nil
  BY NilFacts
<1>5. State(Found) \in Importable /\ scripts["webmail"] # Nil => Intact(scripts["webmail"])
  BY <1>1, <1>2, <1>3 DEF State, Importable
<1>6. State(Found) = "modified_externally" => scripts["webmail"] \in Rule
  BY <1>1, <1>2, <1>3 DEF State
<1>7. State(Found) = "none" => scripts["webmail"] = Nil
  BY <1>1, <1>2, <1>3 DEF State
<1>8. Intact(scripts["webmail"]) /\ active = "webmail" => State(Found) = "ok"
  <2> SUFFICES ASSUME Intact(scripts["webmail"]), active = "webmail"
               PROVE  State(Found) = "ok"
    OBVIOUS
  <2>1. scripts["webmail"] # Nil /\ scripts["webmail"] \in Plain
    BY <1>1, NilFacts DEF Intact
  <2> QED
    BY <1>2, <1>3, <1>4, <2>1 DEF State
<1> QED
  BY <1>3, <1>5, <1>6, <1>7, <1>8 DEF Rev

\* Later requests and imports leave what was said of the earlier ones.
LEMMA CountsGrow ==
  ASSUME IInv, jobs' = jobs + 1, \/ replaced' = replaced
                                 \/ replaced' = Append(replaced, Found)
  PROVE  /\ jobs' \in Nat /\ replaced' \in Seq(Finding)
         /\ DOMAIN replaced \subseteq DOMAIN replaced' /\ \A i \in DOMAIN replaced : replaced'[i] = replaced[i]
         /\ \A i \in DOMAIN replaced' : FindingOK(replaced'[i])
         /\ \A n, c : Numbered(n, c) => Numbered(n, c)'
         /\ \A r : ImportedOK(r) /\ r.after \in Rule => ImportedOK(r)'
         /\ \A c \in Command : Proper(c) => Proper(c)'
<1>1. jobs \in Nat /\ replaced \in Seq(Finding) /\ \A i \in DOMAIN replaced : FindingOK(replaced[i])
  BY DEF IInv, ActInv, TypeOK, StoreOK
<1>2. /\ replaced' \in Seq(Finding) /\ DOMAIN replaced \subseteq DOMAIN replaced'
      /\ \A i \in DOMAIN replaced : replaced'[i] = replaced[i]
      /\ \A i \in DOMAIN replaced' : FindingOK(replaced'[i])
  <2>1. CASE replaced' = replaced
    BY <1>1, <2>1
  <2>2. CASE replaced' = Append(replaced, Found)
    <3>1. Found \in Finding /\ FindingOK(Found)
      BY FoundOK
    <3>2. /\ replaced' \in Seq(Finding) /\ Len(replaced') = Len(replaced) + 1 /\ Len(replaced) \in Nat
          /\ \A i \in 1..Len(replaced) : replaced'[i] = replaced[i]
          /\ replaced'[Len(replaced) + 1] = Found
      BY <1>1, <2>2, <3>1, AppendProperties, LenProperties
    <3>3. DOMAIN replaced = 1..Len(replaced) /\ DOMAIN replaced' = 1..Len(replaced) + 1
      BY <1>1, <3>2, LenProperties
    <3> QED
      BY <1>1, <3>1, <3>2, <3>3
  <2> QED
    BY <2>1, <2>2
<1>3. \A n, c : Numbered(n, c) => Numbered(n, c)'
  BY <1>1 DEF Numbered, Rule
<1>4. \A r : ImportedOK(r) /\ r.after \in Rule => ImportedOK(r)'
  BY <1>1, <1>2 DEF ImportedOK, Rule
<1>5. ASSUME NEW c \in Command, Proper(c)
      PROVE  Proper(c)'
  <2>1. c.do = "put" /\ c.name = "import" => c.script.after \in Rule
    BY DEF Command, Imported
  <2> QED
    BY <1>3, <1>4, <1>5, <2>1 DEF Proper
<1> QED
  BY <1>1, <1>2, <1>3, <1>4, <1>5

\* A request begins.
LEMMA Begins ==
  ASSUME IInv, NEW j \in Request, Begin(j), j.phase = "work", RequestOK',
         views' \in [Pages -> View \union {Nil}], calm' \in BOOLEAN,
         replaced' = replaced \/ replaced' = Append(replaced, Found),
         NEW S \in SUBSET Command, j.todo \in Seq(S),
         \A c \in S : Proper(c)',
         \A p \in Pages : views'[p] # Nil /\ ~views'[p].reused =>
           /\ views'[p] = views[p] /\ (j.op = "import" => Since(views[p].script, j.was.script))
           /\ \A c \in S : SinceBy(views[p].script, c),
         j.op = "import" => j.was \in Finding /\ Numbered("webmail", j.was.script),
         calm' => calm /\ j.op = "write" /\ \A c \in S : Calm(c)
  PROVE  IInv'
<1>1. /\ jobs' = jobs + 1 /\ job' = j /\ UNCHANGED <<scripts, active, late, policy, trouble>>
  BY DEF Begin, serverVars
<1>2. /\ jobs' \in Nat /\ replaced' \in Seq(Finding)
      /\ \A i \in DOMAIN replaced' : FindingOK(replaced'[i])
      /\ \A n, c : Numbered(n, c) => Numbered(n, c)'
      /\ \A r : ImportedOK(r) /\ r.after \in Rule => ImportedOK(r)'
      /\ \A c \in Command : Proper(c) => Proper(c)'
  BY <1>1, CountsGrow
<1>3. TypeOK'
  BY <1>1, <1>2 DEF IInv, TypeOK
<1>4. \A i \in DOMAIN j.todo : j.todo[i] \in S
  BY Elements
<1>5. j # Nil
  BY NilFacts
<1>6. ServerOK'
  <2>1. active' # Nil => scripts'[active'] # Nil
    BY <1>1 DEF IInv, ActInv, StoreOK, ServerOK
  <2>2. ASSUME NEW n \in Names
        PROVE  Numbered(n, scripts[n])'
    <3>1. \A c : Numbered(n, c) => Numbered(n, c)'
      BY <1>2
    <3>2. Numbered(n, scripts[n])
      BY DEF IInv, ActInv, StoreOK, ServerOK
    <3>3. (\A c : c = scripts[n] => Numbered(n, c))'
      BY <1>1, <3>1, <3>2
    <3> QED
      BY <3>3
  <2>3. scripts'["import"] # Nil => ImportedOK(scripts["import"])'
    <3> SUFFICES ASSUME scripts["import"] # Nil
                 PROVE  ImportedOK(scripts["import"])'
      BY <1>1
    <3>1. ImportedOK(scripts["import"]) /\ scripts["import"].after \in Rule
      BY DEF IInv, ActInv, StoreOK, ServerOK, TypeOK, Imported
    <3>2. (\A r : r = scripts["import"] => ImportedOK(r))'
      BY <1>1, <1>2, <3>1
    <3> QED
      BY <3>2
  <2> QED
    BY <2>1, <2>2, <2>3 DEF ServerOK
<1>7. StoreOK'
  <2>1. (\A c \in late : Proper(c))'
    <3>1. \A c \in late : c \in Command /\ Proper(c)
      BY DEF IInv, ActInv, StoreOK, TypeOK
    <3> QED
      BY <1>1, <1>2, <3>1
  <2>2. (job # Nil => \A i \in DOMAIN job.todo : Proper(job.todo[i]))'
    <3>1. ASSUME NEW i \in DOMAIN job'.todo
          PROVE  \E c \in S : c = job'.todo[i] /\ Proper(c)'
      BY <1>1, <1>4
    <3>2. (\A i \in DOMAIN job.todo : Proper(job.todo[i]))'
      BY <3>1 DEF Proper, Numbered, ImportedOK
    <3> QED
      BY <3>2
  <2>3. (Returning => job.was \in Finding /\ Numbered("webmail", job.was.script))'
    <3>1. Returning' => j.op = "import"
      BY <1>1 DEF Returning
    <3>2. j.op = "import" => j.was \in Finding /\ Numbered("webmail", j.was.script)'
      BY <1>2
    <3> QED
      BY <1>1, <3>1, <3>2 DEF Numbered
  <2> QED
    BY <1>2, <1>6, <2>1, <2>2, <2>3 DEF StoreOK
<1>8. ViewsOK'
  <2> SUFFICES ASSUME NEW p \in Pages, views'[p] # Nil, ~views'[p].reused
               PROVE  /\ Since(views'[p].script, scripts'["webmail"])
                      /\ job' # Nil => \A i \in DOMAIN job'.todo : SinceBy(views'[p].script, job'.todo[i])
                      /\ Returning' => Since(views'[p].script, job'.was.script)
    BY DEF ViewsOK
  <2>1. /\ views'[p] = views[p] /\ (j.op = "import" => Since(views[p].script, j.was.script))
        /\ \A c \in S : SinceBy(views[p].script, c)
    OBVIOUS
  <2>2. Since(views[p].script, scripts["webmail"])
    BY <2>1 DEF IInv, ActInv, ViewsOK
  <2>3. Returning' => j.op = "import"
    BY <1>1 DEF Returning
  <2> QED
    BY <1>1, <1>4, <2>1, <2>2, <2>3
<1>9. CalmOK'
  <2> SUFFICES ASSUME calm'
               PROVE  CalmOK'
    BY DEF CalmOK
  <2>1. (\A i \in DOMAIN job.todo : Calm(job.todo[i]))'
    <3>1. \A i \in DOMAIN j.todo : Calm(j.todo[i])
      BY <1>4
    <3> QED
      BY <1>1, <3>1 DEF Calm
  <2>2. CopiesKept(scripts["import"])' <=> CopiesKept(scripts["import"])
    BY <1>1 DEF CopiesKept
  <2>3. job' # Nil /\ job'.op = "write"
    BY <1>1, <1>5
  <2>4. calm
    OBVIOUS
  <2> QED
    BY <1>1, <2>1, <2>2, <2>3, <2>4 DEF IInv, ActInv, CalmOK
<1> QED
  BY <1>3, <1>7, <1>8, <1>9 DEF IInv, ActInv

\* A request that writes rules.
LEMMA WriteBegins ==
  ASSUME IInv, NEW j \in Request, Begin(j), j.op = "write", j.phase = "work", ~j.touched,
         NEW doc \in Rule, doc.doc <= jobs + 1, NEW preserve \in BOOLEAN, NEW activate \in BOOLEAN,
         j.todo = Write(doc, preserve, activate),
         ~preserve => \A c \in j.kept : Held("other", scripts, c) \/ Held("webmail", scripts, c),
         preserve => \A c \in j.kept : Held("prev", scripts, c),
         views' \in [Pages -> View \union {Nil}],
         \A p \in Pages : views'[p] # Nil /\ ~views'[p].reused =>
           views'[p] = views[p] /\ (scripts["webmail"] \in Rule => scripts["webmail"].rev < doc.rev),
         UNCHANGED historyVars, calm => Intact(doc) /\ scripts["import"].after.doc <= doc.doc
  PROVE  IInv'
<1> DEFINE S == Saves(doc)
<1>1. /\ jobs' = jobs + 1 /\ job' = j /\ UNCHANGED <<scripts, active, late, policy, trouble, replaced, calm>>
  BY DEF Begin, serverVars, historyVars
<1>2. j.kept \in SUBSET Plain
  BY DEF Request
<1>3. /\ j.todo \in Seq(S) /\ S \subseteq Command /\ WriteWork(j.todo, j.kept, scripts)
  BY <1>2, WritePlan DEF IInv
<1>4. \A c \in j.kept : \E n \in {"other", "webmail", "prev"} : Held(n, scripts, c)
  BY DEF Held
<1>5. WriteOK(j, scripts) /\ j # Nil
  BY <1>3, <1>4, NilFacts DEF WriteOK
<1>6. RequestOK'
  BY <1>1, <1>5 DEF RequestOK, Fine, ImportOK, UndoOK
<1>7. \A c \in S : \/ c \in {Check, Activate("webmail"), Put("webmail", doc)}
                   \/ c = Put("prev", scripts["webmail"])
  BY DEF Saves
<1> HIDE DEF S
<1>8. \A c \in S : Proper(c)'
  <2> SUFFICES ASSUME NEW c \in S
               PROVE  Proper(c)'
    OBVIOUS
  <2>1. /\ scripts["webmail"] \in Rule => scripts["webmail"].doc <= jobs
        /\ scripts["webmail"] \in Rule => scripts["webmail"].doc \in Nat
    BY NamesAre DEF IInv, ActInv, StoreOK, ServerOK, Numbered, Own, Rule
  <2>2. jobs \in Nat
    BY DEF IInv, TypeOK
  <2>3. /\ c.do = "put" => c.name # "import"
        /\ c.do = "put" => c.script \in {doc, scripts["webmail"]}
    BY <1>7, Commands
  <2> QED
    BY <1>1, <2>1, <2>2, <2>3 DEF Proper, Numbered
<1>9. ASSUME NEW p \in Pages, views'[p] # Nil, ~views'[p].reused
      PROVE  /\ views'[p] = views[p] /\ (j.op = "import" => Since(views[p].script, j.was.script))
             /\ \A c \in S : SinceBy(views[p].script, c)
  <2>1. views'[p] = views[p] /\ (scripts["webmail"] \in Rule => scripts["webmail"].rev < doc.rev)
    BY <1>9
  <2>2. Since(views[p].script, scripts["webmail"])
    BY <1>9, <2>1 DEF IInv, ActInv, ViewsOK
  <2>3. Since(views[p].script, doc)
    BY <2>1, <2>2 DEF Since, Rule
  <2>4. \A c \in S : SinceBy(views[p].script, c)
    BY <1>7, <2>3, Commands DEF SinceBy
  <2> QED
    BY <2>1, <2>4
<1>10. calm' => calm /\ j.op = "write" /\ \A c \in S : Calm(c)
  BY <1>1, <1>7, Commands DEF Calm
<1>11. calm' \in BOOLEAN /\ (j.op = "import" => j.was \in Finding /\ Numbered("webmail", j.was.script))
  BY <1>1 DEF IInv, TypeOK
<1> QED
  BY <1>1, <1>3, <1>6, <1>8, <1>9, <1>10, <1>11, Begins

LEMMA ReusedOK ==
  ASSUME IInv, views' = Reused(views)
  PROVE  views' \in [Pages -> View \union {Nil}] /\ \A p \in Pages : views'[p] # Nil => views'[p].reused
<1>1. ASSUME NEW v \in View
      PROVE  [v EXCEPT !.reused = TRUE] \in View /\ [v EXCEPT !.reused = TRUE].reused
  BY DEF View
<1>2. \A p \in Pages : views[p] \in View \union {Nil}
  BY DEF IInv, TypeOK
<1> QED
  BY <1>1, <1>2 DEF Reused

\* The documents that are stored.
LEMMA NextDocument ==
  ASSUME IInv, State(Found) \in Importable, NEW doc, doc = Rules(jobs + 1, Rev(Found) + 1, policy)
  PROVE  /\ doc \in Rule /\ Intact(doc) /\ doc.doc = jobs + 1
         /\ scripts["webmail"] \in Rule => scripts["webmail"].rev < doc.rev
         /\ calm => scripts["import"].after.doc <= doc.doc
<1>1. jobs \in Nat /\ policy \in Nat \ {0}
  BY DEF IInv, TypeOK
<1>2. /\ scripts["webmail"] # Nil => scripts["webmail"] \in Rule
      /\ Rev(Found) = IF scripts["webmail"] = Nil THEN 0 ELSE scripts["webmail"].rev
  BY States DEF Intact
<1>3. Rev(Found) \in Nat
  BY <1>2 DEF Rule
<1>4. doc \in Rule /\ Intact(doc) /\ doc.doc = jobs + 1 /\ doc.rev = Rev(Found) + 1
  BY <1>1, <1>3 DEF Rules, Rule, Intact
<1>5. scripts["webmail"] \in Rule => scripts["webmail"].rev < doc.rev
  BY <1>2, <1>4, NilFacts DEF Rule
<1>6. calm => scripts["import"].after.doc <= doc.doc
  <2>1. scripts["import"] # Nil => scripts["import"].after.doc <= jobs /\ scripts["import"].after.doc \in Nat
    BY DEF IInv, ActInv, StoreOK, ServerOK, ImportedOK, TypeOK, Imported, Rule
  <2>2. calm => scripts["import"] # Nil
    BY DEF IInv, ActInv, CalmOK
  <2> QED
    BY <1>1, <1>4, <2>1, <2>2
<1> QED
  BY <1>4, <1>5, <1>6

LEMMA SaveOK ==
  ASSUME IInv, NEW p \in Pages, Save(p)
  PROVE  IInv'
<1>1. PICK doc, activate : doc = Rules(jobs + 1, Rev(Found) + 1, policy) /\ activate = (State(Found) = "none")
  OBVIOUS
<1>2. State(Found) \in {"ok", "none"} /\ activate \in BOOLEAN
  BY <1>1 DEF Save, SaveAllowed
<1>3. /\ doc \in Rule /\ Intact(doc) /\ doc.doc = jobs + 1
      /\ scripts["webmail"] \in Rule => scripts["webmail"].rev < doc.rev
      /\ calm => scripts["import"].after.doc <= doc.doc
  BY <1>1, <1>2, NextDocument DEF Importable
<1>4. PICK j, t : j = Job("write", t) /\ t = Write(doc, FALSE, activate)
  OBVIOUS
<1>5. Begin(j) /\ views' = [views EXCEPT ![p] = Nil] /\ UNCHANGED historyVars
  BY <1>1, <1>4 DEF Save
<1>6. /\ {Found.script, Found.source} \ {Nil} \in SUBSET Plain
      /\ \A c \in {Found.script, Found.source} \ {Nil} : Held("other", scripts, c) \/ Held("webmail", scripts, c)
  BY FoundOK
<1>7. t \in Seq(Command)
  <2>1. t \in Seq(Saves(doc)) /\ Saves(doc) \subseteq Command
    BY <1>2, <1>3, <1>4, <1>6, WritePlan DEF IInv
  <2> QED
    BY <2>1
<1>8. /\ j \in Request /\ j.op = "write" /\ j.phase = "work" /\ ~j.touched /\ j.todo = t
      /\ j.kept = {Found.script, Found.source} \ {Nil}
  BY <1>4, <1>6, <1>7 DEF Job, Request
<1>9. /\ views' \in [Pages -> View \union {Nil}]
      /\ \A q \in Pages : views'[q] # Nil => views'[q] = views[q]
  BY <1>5 DEF IInv, TypeOK
<1>10. doc.doc <= jobs + 1
  BY <1>3 DEF IInv, TypeOK
<1> QED
  BY <1>2, <1>3, <1>4, <1>5, <1>6, <1>8, <1>9, <1>10, WriteBegins

LEMMA RenameFolderRefsOK ==
  ASSUME IInv, RenameFolderRefs
  PROVE  IInv'
<1>1. PICK doc : doc = Rules(jobs + 1, Rev(Found) + 1, policy)
  OBVIOUS
<1>2. State(Found) \in {"ok", "none"}
  BY DEF RenameFolderRefs
<1>3. /\ doc \in Rule /\ Intact(doc) /\ doc.doc = jobs + 1
      /\ scripts["webmail"] \in Rule => scripts["webmail"].rev < doc.rev
      /\ calm => scripts["import"].after.doc <= doc.doc
  BY <1>1, <1>2, NextDocument DEF Importable
<1>4. PICK j, t : j = Job("write", t) /\ t = Write(doc, FALSE, FALSE)
  OBVIOUS
<1>5. Begin(j) /\ views' = views /\ UNCHANGED historyVars
  BY <1>1, <1>4 DEF RenameFolderRefs
<1>6. /\ {Found.script, Found.source} \ {Nil} \in SUBSET Plain
      /\ \A c \in {Found.script, Found.source} \ {Nil} : Held("other", scripts, c) \/ Held("webmail", scripts, c)
  BY FoundOK
<1>7. t \in Seq(Command)
  <2>1. t \in Seq(Saves(doc)) /\ Saves(doc) \subseteq Command
    BY <1>3, <1>4, <1>6, WritePlan DEF IInv
  <2> QED
    BY <2>1
<1>8. /\ j \in Request /\ j.op = "write" /\ j.phase = "work" /\ ~j.touched /\ j.todo = t
      /\ j.kept = {Found.script, Found.source} \ {Nil}
  BY <1>4, <1>6, <1>7 DEF Job, Request
<1>9. views' \in [Pages -> View \union {Nil}]
  BY <1>5 DEF IInv, TypeOK
<1>10. doc.doc <= jobs + 1
  BY <1>3 DEF IInv, TypeOK
<1> QED
  BY <1>3, <1>4, <1>5, <1>6, <1>8, <1>9, <1>10, WriteBegins

LEMMA Revised ==
  ASSUME NEW r \in Rule, NEW b \in Nat \ {0}, NEW d, d = [r EXCEPT !.rev = @ + 1, !.body = b]
  PROVE  d \in Rule /\ Intact(d) /\ d.doc = r.doc /\ r.rev < d.rev
<1>1. PICK e : e = [r EXCEPT !.rev = @ + 1]
  OBVIOUS
<1>2. e \in Rule /\ e.doc = r.doc /\ e.rev = r.rev + 1 /\ r.rev \in Nat
  BY <1>1 DEF Rule
<1>3. d = [e EXCEPT !.body = b]
  BY <1>1
<1>4. d \in Rule /\ d.doc = e.doc /\ d.rev = e.rev /\ d.body = b
  BY <1>2, <1>3 DEF Rule
<1> QED
  BY <1>2, <1>4 DEF Intact

LEMMA RestoreDataOK ==
  ASSUME IInv, RestoreData
  PROVE  IInv'
<1>1. PICK doc : doc = [scripts["webmail"] EXCEPT !.rev = @ + 1, !.body = policy]
  OBVIOUS
<1>2. State(Found) = "modified_externally" /\ scripts["webmail"] \in Rule /\ policy \in Nat \ {0} /\ jobs \in Nat
  BY States DEF RestoreData, IInv, TypeOK
<1>3. /\ doc \in Rule /\ Intact(doc) /\ doc.doc = scripts["webmail"].doc /\ scripts["webmail"].rev < doc.rev
  BY <1>1, <1>2, Revised
<1>4. /\ doc.doc <= jobs /\ doc.doc \in Nat
  BY <1>2, <1>3, NamesAre DEF IInv, ActInv, StoreOK, ServerOK, Numbered, Own, Rule
<1>5. PICK j, t : j = Job("write", t) /\ t = Write(doc, FALSE, FALSE)
  OBVIOUS
<1>6. Begin(j) /\ views' = views /\ UNCHANGED historyVars
  BY <1>1, <1>5 DEF RestoreData
<1>7. /\ {Found.script, Found.source} \ {Nil} \in SUBSET Plain
      /\ \A c \in {Found.script, Found.source} \ {Nil} : Held("other", scripts, c) \/ Held("webmail", scripts, c)
  BY FoundOK
<1>8. t \in Seq(Command)
  <2>1. t \in Seq(Saves(doc)) /\ Saves(doc) \subseteq Command
    BY <1>3, <1>5, <1>7, WritePlan DEF IInv
  <2> QED
    BY <2>1
<1>9. /\ j \in Request /\ j.op = "write" /\ j.phase = "work" /\ ~j.touched /\ j.todo = t
      /\ j.kept = {Found.script, Found.source} \ {Nil}
  BY <1>5, <1>7, <1>8 DEF Job, Request
<1>10. views' \in [Pages -> View \union {Nil}]
  BY <1>6 DEF IInv, TypeOK
<1>11. doc.doc <= jobs + 1
  BY <1>2, <1>4
<1>12. calm => scripts["import"].after.doc <= doc.doc
  BY <1>3 DEF IInv, ActInv, CalmOK
<1> QED
  BY <1>3, <1>5, <1>6, <1>7, <1>9, <1>10, <1>11, <1>12, WriteBegins

LEMMA RestorePreviousOK ==
  ASSUME IInv, RestorePrevious
  PROVE  IInv'
<1>1. PICK doc : doc = [scripts["prev"] EXCEPT !.rev = @ + 1, !.body = policy]
  OBVIOUS
<1>2. /\ scripts["prev"] \in Rule /\ scripts["prev"] \in Plain /\ policy \in Nat \ {0} /\ jobs \in Nat
      /\ State(Found) = "damaged"
  <2>1. scripts["prev"] \in Plain
    BY NamesAre DEF RestorePrevious, IInv, TypeOK
  <2>2. scripts["prev"] \in Rule
    BY <2>1 DEF RestorePrevious, Parse, Plain, Newer, Rule
  <2> QED
    BY <2>1, <2>2 DEF RestorePrevious, IInv, TypeOK
<1>3. doc \in Rule /\ Intact(doc) /\ doc.doc = scripts["prev"].doc
  BY <1>1, <1>2, Revised
<1>4. doc.doc <= jobs /\ doc.doc \in Nat
  BY <1>2, <1>3, NamesAre DEF IInv, ActInv, StoreOK, ServerOK, Numbered, Own, Rule
<1>5. PICK i, t : i = Job("write", t) /\ t = Write(doc, TRUE, FALSE)
  OBVIOUS
<1>6. PICK j : j = [i EXCEPT !.kept = {scripts["prev"]}]
  OBVIOUS
<1>7. Begin(j) /\ views' = Reused(views) /\ UNCHANGED historyVars
  BY <1>1, <1>5, <1>6 DEF RestorePrevious
<1>8. {scripts["prev"]} \in SUBSET Plain /\ \A c \in {scripts["prev"]} : Held("prev", scripts, c)
  BY <1>2 DEF Held, Alike
<1>9. t \in Seq(Command)
  <2>1. t \in Seq(Saves(doc)) /\ Saves(doc) \subseteq Command
    BY <1>3, <1>5, <1>8, WritePlan DEF IInv
  <2> QED
    BY <2>1
<1>10. /\ i \in Request /\ i.op = "write" /\ i.phase = "work" /\ ~i.touched /\ i.todo = t
  <2>1. {Found.script, Found.source} \ {Nil} \in SUBSET Plain
    BY FoundOK
  <2> QED
    BY <1>5, <1>9, <2>1 DEF Job, Request
<1>11. /\ j \in Request /\ j.op = "write" /\ j.phase = "work" /\ ~j.touched /\ j.todo = t
       /\ j.kept = {scripts["prev"]}
  BY <1>6, <1>8, <1>10 DEF Request
<1>12. /\ views' \in [Pages -> View \union {Nil}] /\ \A p \in Pages : views'[p] # Nil => views'[p].reused
  BY <1>7, ReusedOK
<1>13. doc.doc <= jobs + 1
  BY <1>2, <1>4
<1>14. ~calm
  <2>1. calm => Intact(scripts["webmail"]) /\ active = "webmail"
    BY DEF IInv, ActInv, CalmOK
  <2> QED
    BY <1>2, <2>1, States
<1> QED
  BY <1>3, <1>5, <1>7, <1>8, <1>11, <1>12, <1>13, <1>14, WriteBegins

LEMMA ReactivateOK ==
  ASSUME IInv, Reactivate
  PROVE  IInv'
<1>1. PICK j, t : j = Job("write", t) /\ t = <<Activate("webmail")>>
  OBVIOUS
<1>2. Begin(j) /\ views' = views /\ replaced' = replaced /\ calm' = calm
  BY <1>1 DEF Reactivate, historyVars
<1>3. PICK S : S = {Activate("webmail")}
  OBVIOUS
<1>4. S \in SUBSET Command /\ t \in Seq(S) /\ t \in Seq(Command)
  BY <1>1, <1>3, Commands, One DEF Selected
<1>5. /\ j \in Request /\ j.op = "write" /\ j.phase = "work" /\ ~j.touched /\ j.todo = t
      /\ j.kept = {Found.script, Found.source} \ {Nil}
  <2>1. {Found.script, Found.source} \ {Nil} \in SUBSET Plain
    BY FoundOK
  <2> QED
    BY <1>1, <1>4, <2>1 DEF Job, Request
<1>6. \A c \in j.kept : Held("other", scripts, c) \/ Held("webmail", scripts, c)
  BY <1>5, FoundOK
<1>7. WriteOK(j, scripts) /\ j # Nil
  BY <1>1, <1>5, <1>6, NilFacts DEF WriteOK, WriteWork, Activation
<1>8. RequestOK'
  BY <1>2, <1>5, <1>7 DEF RequestOK, Fine, ImportOK, UndoOK, Begin, serverVars
<1>9. \A c \in S : Proper(c)' /\ Calm(c) /\ \A seen : SinceBy(seen, c)
  BY <1>3, Commands DEF Proper, Calm, SinceBy
<1>10. views' \in [Pages -> View \union {Nil}] /\ calm' \in BOOLEAN
  BY <1>2 DEF IInv, TypeOK
<1> QED
  BY <1>2, <1>4, <1>5, <1>8, <1>9, <1>10, Begins

\* The commands of an import are in order.
LEMMA ImportSeq ==
  ASSUME NEW j, Importing(j), NEW S,
         S = {c \in Command :
                \/ c \in {Check, Activate("webmail"), Remove("undo-webmail"), Remove("undo-active")}
                \/ c = Put("undo-active", j.was.source) \/ c = Put("import", RecordOf(j)) \/ c = Put("webmail", j.doc)
                \/ c \in {Put("undo-webmail", j.was.script), Put("prev", j.was.script)} /\ j.was.script # Nil}
  PROVE  ImportCommands(j.was, RecordOf(j)) \in Seq(S) /\ S \subseteq Command
<1> DEFINE A == ArchivedScript(j.was)
           B == ArchivedSource(j.was)
           C == Put("import", RecordOf(j))
           P == When(j.was.script # Nil, Put("prev", j.was.script))
           W == Put("webmail", j.doc)
           X == Activate("webmail")
<1>1. /\ Head(Import7(j)) = A /\ Head(Import6(j)) = B /\ Head(Import5(j)) = C
      /\ Import7(j) \in Seq(Command) /\ Import6(j) \in Seq(Command) /\ Import5(j) \in Seq(Command)
      /\ Import7(j) # <<>> /\ Import6(j) # <<>> /\ Import5(j) # <<>>
      /\ Head(Import2(j)) = W /\ Import2(j) \in Seq(Command) /\ Import2(j) # <<>>
      /\ Head(Import1) = X /\ Import1 \in Seq(Command) /\ Import1 # <<>>
  BY ImportParts
<1>2. A \in Command /\ B \in Command /\ C \in Command /\ W \in Command /\ X \in Command /\ Check \in Command
  BY <1>1, TailElements, Commands
<1>3. A \in S /\ B \in S /\ C \in S /\ W \in S /\ X \in S /\ Check \in S
  BY <1>2 DEF ArchivedScript, ArchivedSource
<1>4. j.was.script # Nil => Put("prev", j.was.script) \in S
  BY Commands, NamesAre DEF Importing, Finding
<1>5. ImportCommands(j.was, RecordOf(j)) = (<<A, B, C, Check>> \o P) \o <<W, X>>
  BY DEF ImportCommands, ArchivedScript, ArchivedSource, RecordOf, ImportRecord
<1> HIDE DEF A, B, C, W, X
<1>6. <<A, B, C, Check>> \in Seq(S) /\ <<W, X>> \in Seq(S)
  BY <1>3
<1>7. P \in Seq(S)
  BY <1>4, One, EmptySeq DEF When
<1> HIDE DEF P
<1>8. (<<A, B, C, Check>> \o P) \o <<W, X>> \in Seq(S)
  BY <1>6, <1>7, ConcatProperties
<1> QED
  BY <1>5, <1>8

LEMMA ImportBegins ==
  ASSUME IInv, NEW p \in Pages, Import(p)
  PROVE  IInv'
<1>1. PICK at, doc, w : at = Len(replaced) + 1 /\ doc = Rules(jobs + 1, Rev(Found) + 1, policy) /\ w = Found
  OBVIOUS
<1>2. State(Found) \in Importable /\ ~calm' /\ replaced' = Append(replaced, Found)
      /\ views' = [views EXCEPT ![p] = Nil]
  BY DEF Import
<1>3. /\ doc \in Rule /\ Intact(doc) /\ doc.doc = jobs + 1
      /\ scripts["webmail"] \in Rule => scripts["webmail"].rev < doc.rev
  BY <1>1, <1>2, NextDocument
<1>4. /\ w \in Finding /\ FindingOK(w) /\ Numbered("webmail", w.script)
      /\ w.script = scripts["webmail"] /\ w.active = active
      /\ active = "other" => w.source = scripts["other"]
      /\ {w.script, w.source} \ {Nil} \in SUBSET Plain
  BY <1>1, FoundOK
<1>5. /\ Len(replaced) \in Nat /\ DOMAIN replaced = 1..Len(replaced) /\ replaced \in Seq(Finding) /\ jobs \in Nat
  BY LenProperties DEF IInv, TypeOK
<1>6. at \in Nat \ {0}
  BY <1>1, <1>5
<1>7. PICK t : t = ImportCommands(w, ImportRecord(at, w, doc))
  OBVIOUS
<1>8. PICK i : i = [op |-> "import", phase |-> "work", was |-> w, todo |-> <<>>, archived |-> FALSE, ok |-> FALSE,
                    restored |-> FALSE, cut |-> FALSE, touched |-> FALSE, kept |-> {w.script, w.source} \ {Nil},
                    at |-> at, accept |-> FALSE, doc |-> doc]
  OBVIOUS
<1>9. i \in Request /\ i.was = w /\ i.at = at /\ i.doc = doc /\ i.op = "import"
  <2>1. <<>> \in Seq(Command)
    BY EmptySeq
  <2> QED
    BY <1>3, <1>4, <1>6, <1>8, <2>1 DEF Request
<1>10. Importing(i)
  BY <1>3, <1>4, <1>6, <1>9 DEF Importing
<1>11. RecordOf(i) = ImportRecord(at, w, doc)
  BY <1>9 DEF RecordOf
<1>12. t = Import7(i) /\ t \in Seq(Command)
  <2>1. t = ImportCommands(i.was, RecordOf(i))
    BY <1>7, <1>9, <1>11
  <2>2. Import7(i) \in Seq(Command)
    BY <1>10, ImportParts
  <2> QED
    BY <1>10, <2>1, <2>2, ImportPlan
<1>13. PICK j : j = [Job("import", t) EXCEPT !.was = w, !.at = at, !.doc = doc]
  OBVIOUS
<1>14. Begin(j)
  BY <1>1, <1>7, <1>13 DEF Import
<1>16. /\ j \in Request /\ j.op = "import" /\ j.phase = "work" /\ j.was = w /\ j.at = at /\ j.doc = doc
       /\ j.todo = t /\ ~j.archived /\ ~j.ok /\ ~j.touched /\ j.kept = {w.script, w.source} \ {Nil}
  <2>1. PICK k : k = Job("import", t)
    OBVIOUS
  <2>2. /\ k \in Request /\ k.op = "import" /\ k.phase = "work" /\ k.todo = t
        /\ ~k.archived /\ ~k.ok /\ ~k.touched /\ k.kept = {w.script, w.source} \ {Nil}
    BY <1>1, <1>4, <1>12, <2>1 DEF Job, Request
  <2>3. PICK m : m = [k EXCEPT !.was = w, !.at = at]
    OBVIOUS
  <2>4. /\ m \in Request /\ m.op = "import" /\ m.phase = "work" /\ m.todo = t /\ m.was = w /\ m.at = at
        /\ ~m.archived /\ ~m.ok /\ ~m.touched /\ m.kept = {w.script, w.source} \ {Nil}
    BY <1>4, <1>6, <2>2, <2>3 DEF Request
  <2>5. j = [m EXCEPT !.doc = doc]
    BY <1>13, <2>1, <2>3
  <2> QED
    BY <1>3, <2>4, <2>5 DEF Request
<1>17. /\ RecordOf(j) = RecordOf(i) /\ Import7(j) = Import7(i) /\ Importing(j)
  <2>1. RecordOf(j) = RecordOf(i)
    BY <1>9, <1>16 DEF RecordOf
  <2>2. Import7(j) = Import7(i)
    BY <1>9, <1>16, <2>1 DEF Import7, Import6, Import5, Import4, Import3, Import2
  <2> QED
    BY <1>3, <1>4, <1>6, <1>16, <2>1, <2>2 DEF Importing
<1>18. PICK r : r = RecordOf(j)
  OBVIOUS
<1>19. /\ r.at = at /\ r.before = w.script /\ r.name = w.active /\ r.source = w.source /\ r.after = doc
  BY <1>11, <1>17, <1>18 DEF ImportRecord
<1>20. ImportedOK(r)'
  <2>1. at \in DOMAIN replaced' /\ replaced'[at] = w
    <3>1. Len(replaced') = Len(replaced) + 1 /\ replaced' \in Seq(Finding) /\ replaced'[Len(replaced) + 1] = w
      BY <1>1, <1>2, <1>4, <1>5, AppendProperties
    <3> QED
      BY <1>1, <1>5, <3>1, LenProperties
  <2>2. w.script # Nil => Intact(w.script) /\ w.script.doc <= jobs /\ w.script.doc \in Nat
    <3>1. w.script # Nil => Intact(w.script)
      BY <1>2, <1>4, States
    <3> QED
      BY <1>4, <3>1 DEF Numbered, Own, Intact, Rule
  <2>3. jobs' = jobs + 1
    BY <1>14 DEF Begin
  <2> QED
    BY <1>3, <1>5, <1>19, <2>1, <2>2, <2>3 DEF ImportedOK
<1>21. /\ ImportHeld(j, scripts, active) /\ ImportWork(j, scripts, active)
  <2>1. ImportHeld(j, scripts, active)
    BY <1>4, <1>16 DEF ImportHeld
  <2> QED
    BY <1>4, <1>12, <1>16, <1>17, <2>1 DEF ImportWork, Untouched
<1>22. job' = j /\ UNCHANGED <<scripts, active, policy>>
  BY <1>14 DEF Begin, serverVars
<1>23. RequestOK'
  <2>1. ImportedOK(RecordOf(job))'
    BY <1>18, <1>20, <1>22 DEF ImportedOK, RecordOf
  <2>2. (ImportHeld(job, scripts, active) /\ ImportWork(job, scripts, active))'
    <3>1. ImportHeld(job', scripts', active') /\ ImportWork(job', scripts', active')
      BY <1>21, <1>22
    <3> QED
      BY <3>1 DEF ImportHeld, ImportWork
  <2>3. ImportOK(job, scripts, active)'
    BY <1>3, <1>4, <1>16, <1>22, <2>1, <2>2 DEF ImportOK
  <2> QED
    BY <1>16, <1>22, <2>3 DEF RequestOK, Fine, WriteOK, UndoOK
<1>24. PICK S : S = {c \in Command :
                \/ c \in {Check, Activate("webmail"), Remove("undo-webmail"), Remove("undo-active")}
                \/ c = Put("undo-active", j.was.source) \/ c = Put("import", RecordOf(j)) \/ c = Put("webmail", j.doc)
                \/ c \in {Put("undo-webmail", j.was.script), Put("prev", j.was.script)} /\ j.was.script # Nil}
  OBVIOUS
<1>25. S \in SUBSET Command /\ j.todo \in Seq(S)
  <2>1. ImportCommands(j.was, RecordOf(j)) \in Seq(S) /\ S \subseteq Command
    BY <1>17, <1>24, ImportSeq
  <2>2. j.todo = ImportCommands(j.was, RecordOf(j))
    BY <1>7, <1>11, <1>16, <1>17
  <2> QED
    BY <2>1, <2>2
<1>26. ASSUME NEW c \in S
       PROVE  Proper(c)' /\ \A seen : Since(seen, scripts["webmail"]) => SinceBy(seen, c)
  <2>1. jobs' = jobs + 1
    BY <1>14 DEF Begin
  <2>2. CASE c \in {Check, Activate("webmail"), Remove("undo-webmail"), Remove("undo-active")}
    BY <2>2, Commands DEF Proper, SinceBy
  <2>3. CASE c = Put("undo-active", j.was.source)
    BY <2>3, Commands DEF Proper, SinceBy, Numbered, Own
  <2>4. CASE c = Put("import", RecordOf(j))
    <3>1. c.name = "import" /\ c.script = r
      BY <1>18, <2>4, Commands
    <3> QED
      BY <1>20, <3>1 DEF Proper, SinceBy, Numbered, Own, ImportedOK
  <2>5. CASE c = Put("webmail", j.doc)
    <3>1. c.name = "webmail" /\ c.script = doc /\ c.do = "put"
      BY <1>16, <2>5, Commands
    <3>2. \A seen : Since(seen, scripts["webmail"]) => Since(seen, doc)
      BY <1>3 DEF Since, Rule
    <3> QED
      BY <1>3, <1>5, <2>1, <3>1, <3>2 DEF Proper, SinceBy, Numbered
  <2>6. CASE c \in {Put("undo-webmail", j.was.script), Put("prev", j.was.script)}
    <3>1. c.name \in {"undo-webmail", "prev"} /\ c.script = w.script /\ c.do = "put"
      BY <1>16, <2>6, Commands
    <3>2. w.script \in Rule => w.script.doc <= jobs /\ w.script.doc \in Nat
      BY <1>4 DEF Numbered, Own, Rule
    <3> QED
      BY <1>5, <2>1, <3>1, <3>2 DEF Proper, SinceBy, Numbered
  <2> QED
    BY <1>24, <2>2, <2>3, <2>4, <2>5, <2>6
<1>27. /\ views' \in [Pages -> View \union {Nil}]
       /\ \A q \in Pages : views'[q] # Nil => views'[q] = views[q]
  BY <1>2 DEF IInv, TypeOK
<1>28. \A q \in Pages : views'[q] # Nil /\ ~views'[q].reused => Since(views[q].script, scripts["webmail"])
  BY <1>27 DEF IInv, ActInv, ViewsOK
<1>29. calm' \in BOOLEAN
  BY DEF Import
<1> QED
  BY <1>2, <1>4, <1>14, <1>16, <1>23, <1>25, <1>26, <1>27, <1>28, <1>29, Begins

LEMMA Both ==
  ASSUME NEW A, NEW B, NEW t, t \in Seq(A), t \in Seq(B)
  PROVE  t \in Seq(A \cap B)
<1>1. /\ Len(t) \in Nat /\ t \in [1..Len(t) -> A] /\ t \in [1..Len(t) -> B]
  BY LenProperties
<1>2. t \in [1..Len(t) -> A \cap B]
  BY <1>1
<1> QED
  BY <1>1, <1>2, SeqDef

\* The commands of an undo are in order.
LEMMA UndoSeq ==
  ASSUME IInv, NEW r, r = scripts["import"], r # Nil,
         r.before # Nil => IF Restored(r) THEN scripts["webmail"] # Nil ELSE scripts["undo-webmail"] # Nil,
         NEW S, S = {Put("other", Copy(scripts["undo-active"])), Put("other", Copy(scripts["other"])),
                     Activate(r.name), Remove("webmail"), Remove("import")}
                    \union {Put("webmail", Copy(scripts[n])) : n \in {m \in {"webmail", "undo-webmail"} : scripts[m] # Nil}}
  PROVE  UndoCommands(r) \in Seq(S) /\ \A c \in S : Proper(c)
<1>1. /\ r.name \in {Nil, "webmail", "other"} /\ (Elsewhere(r.name) <=> r.name = "other")
  BY NilFacts DEF IInv, TypeOK, Imported, Selected, Elsewhere
<1>2. ActiveCopy(r) \in Seq(S)
  BY <1>1, One, EmptySeq DEF ActiveCopy, When
<1>3. WebmailCopy(r) \in Seq(S)
  BY One, EmptySeq DEF WebmailCopy, When
<1>4. <<Activate(r.name)>> \in Seq(S) /\ <<Remove("import")>> \in Seq(S)
  BY One
<1>5. When(r.before = Nil, Remove("webmail")) \in Seq(S)
  BY One, EmptySeq DEF When
<1>6. UndoCommands(r) \in Seq(S)
  BY <1>2, <1>3, <1>4, <1>5, ConcatProperties DEF UndoCommands
<1>7. ASSUME NEW c \in S
      PROVE  Proper(c)
  <2>1. \A n \in {"webmail", "undo-webmail"} : /\ scripts[n] \in Rule => scripts[n].doc <= jobs
                                               /\ scripts[n] \in Plain \union {Nil}
    BY NamesAre DEF IInv, ActInv, StoreOK, ServerOK, TypeOK, Numbered, Own
  <2>2. ASSUME NEW d \in Plain, d \in Rule => d.doc <= jobs, Copy(d) \in Rule
        PROVE  Copy(d).doc <= jobs
    <3>1. CASE Parse(d) = "ok"
      <4>1. d \in Rule
        BY <3>1 DEF Parse, Plain, Newer, Rule
      <4> QED
        BY <2>2, <3>1, <4>1 DEF Copy, Regenerated, Rule
    <3>2. CASE Parse(d) # "ok"
      BY <2>2, <3>2 DEF Copy
    <3> QED
      BY <3>1, <3>2
  <2>3. CASE c \in {Activate(r.name), Remove("webmail"), Remove("import")}
    BY <2>3, Commands DEF Proper
  <2>4. CASE c.do = "put" /\ c.name = "other"
    BY <2>4 DEF Proper, Numbered, Own
  <2>5. CASE \E n \in {"webmail", "undo-webmail"} : scripts[n] # Nil /\ c = Put("webmail", Copy(scripts[n]))
    BY <2>1, <2>2, <2>5, Commands DEF Proper, Numbered
  <2> QED
    BY <2>3, <2>4, <2>5, Commands
<1> QED
  BY <1>6, <1>7

LEMMA UndoBegins ==
  ASSUME IInv, NEW p \in Pages, NEW accept \in BOOLEAN, UndoImport(p, accept)
  PROVE  IInv'
<1>1. PICK at, r, t : at = views[p].at /\ r = scripts["import"] /\ t = UndoCommands(scripts["import"])
  OBVIOUS
<1>2. at # Nil /\ UndoVerdict(at, accept) = "ok" /\ views' = Reused(views) /\ ~calm' /\ replaced' = replaced
      /\ calm' = FALSE /\ at \in Nat
  BY <1>1 DEF UndoImport, IInv, TypeOK, View
<1>3. r # Nil /\ r.at = at
  BY <1>1, <1>2 DEF UndoVerdict
<1>4. PICK f : f = replaced[at]
  OBVIOUS
<1>5. /\ at \in DOMAIN replaced /\ f \in Finding /\ FindingOK(f)
      /\ r.before = f.script /\ r.name = f.active /\ r.source = f.source
      /\ f.script # Nil => Intact(f.script)
  <2>1. ImportedOK(r)
    BY <1>1, <1>3 DEF IInv, ActInv, StoreOK, ServerOK
  <2>2. at \in DOMAIN replaced /\ r.before = f.script /\ r.name = f.active /\ r.source = f.source
        /\ (f.script # Nil => Intact(f.script))
    BY <1>3, <1>4, <2>1 DEF ImportedOK
  <2>3. f \in Finding /\ FindingOK(f)
    BY <1>4, <2>2, Elements DEF IInv, ActInv, TypeOK, StoreOK
  <2> QED
    BY <2>2, <2>3
<1>6. IsRecord(scripts["import"], at, f)
  BY <1>1, <1>3, <1>5 DEF IsRecord
<1>7. PICK k : k = [at |-> at, accept |-> accept, todo |-> t]
  OBVIOUS
<1>8. TypeOK
  BY DEF IInv
<1>9. t \in Seq(Command)
  <2>1. k.at = at /\ k.accept = accept /\ k.todo = t
    BY <1>7
  <2>2. k.todo \in Seq(Command)
    BY <1>1, <1>2, <1>5, <1>6, <1>8, <2>1, UndoPlan
  <2> QED
    BY <2>1, <2>2
<1>10. PICK j : j = [Job("undo", t) EXCEPT !.at = at, !.accept = accept, !.kept = {r.before, r.source} \ {Nil}]
  OBVIOUS
<1>11. Begin(j)
  BY <1>1, <1>10 DEF UndoImport
<1>12. /\ j \in Request /\ j.op = "undo" /\ j.phase = "work" /\ j.todo = t /\ j.at = at /\ j.accept = accept
       /\ ~j.ok /\ ~j.touched /\ j.kept = {f.script, f.source} \ {Nil}
  <2>1. {Found.script, Found.source} \ {Nil} \in SUBSET Plain
    BY FoundOK
  <2>2. PICK i : i = Job("undo", t)
    OBVIOUS
  <2>3. /\ i \in Request /\ i.op = "undo" /\ i.phase = "work" /\ i.todo = t /\ ~i.ok /\ ~i.touched
    BY <1>9, <2>1, <2>2 DEF Job, Request
  <2>4. PICK m : m = [i EXCEPT !.at = at, !.accept = accept]
    OBVIOUS
  <2>5. /\ m \in Request /\ m.op = "undo" /\ m.phase = "work" /\ m.todo = t /\ ~m.ok /\ ~m.touched
        /\ m.at = at /\ m.accept = accept
    BY <1>2, <2>3, <2>4 DEF Request
  <2>6. j = [m EXCEPT !.kept = {f.script, f.source} \ {Nil}]
    BY <1>5, <1>10, <2>2, <2>4
  <2>7. {f.script, f.source} \ {Nil} \in SUBSET Plain
    BY <1>5 DEF Finding
  <2> QED
    BY <2>5, <2>6, <2>7 DEF Request
<1>13. UndoWork(j, f, scripts, active)
  BY <1>1, <1>2, <1>5, <1>6, <1>8, <1>12, UndoPlan
<1>14. job' = j /\ UNCHANGED <<scripts, active, policy>>
  BY <1>11 DEF Begin, serverVars
<1>15. RequestOK'
  <2>1. UndoOK(j, scripts, active)
    BY <1>4, <1>5, <1>12, <1>13 DEF UndoOK
  <2>2. UndoOK(job', scripts', active')
    BY <1>14, <2>1
  <2>3. UndoOK(job, scripts, active)'
    BY <1>2, <1>14, <2>2 DEF UndoOK, UndoWork, UndoHalf, SourceBack, ScriptBack,
       SourceAny, ScriptAny, ScriptToCome, Again, IsRestored, Regenerated
  <2> QED
    BY <1>12, <1>14, <2>3 DEF RequestOK, Fine, WriteOK, ImportOK
<1>16. PICK S : S = {Put("other", Copy(scripts["undo-active"])), Put("other", Copy(scripts["other"])),
                     Activate(r.name), Remove("webmail"), Remove("import")}
                    \union {Put("webmail", Copy(scripts[n])) : n \in {m \in {"webmail", "undo-webmail"} : scripts[m] # Nil}}
  OBVIOUS
<1>17. j.todo \in Seq(S \cap Command) /\ \A c \in S : Proper(c)
  <2>1. UndoCommands(r) \in Seq(S) /\ \A c \in S : Proper(c)
    <3>1. CASE r.before # Nil /\ Restored(r)
      <4>1. scripts["webmail"] # Nil
        <5>1. \A d \in Rule : Regenerated(d) \in Rule
          BY <1>8 DEF Regenerated, Rule, TypeOK
        <5> QED
          BY <1>5, <3>1, <5>1, NilFacts DEF Restored, IsRestored, Intact
      <4> QED
        BY <1>1, <1>3, <1>16, <3>1, <4>1, UndoSeq
    <3>2. CASE r.before # Nil /\ ~Restored(r)
      <4>1. scripts["undo-webmail"] # Nil
        BY <1>1, <1>2, <3>2 DEF UndoVerdict
      <4> QED
        BY <1>1, <1>3, <1>16, <3>2, <4>1, UndoSeq
    <3>3. CASE r.before = Nil
      BY <1>1, <1>3, <1>16, <3>3, UndoSeq
    <3> QED
      BY <3>1, <3>2, <3>3
  <2> QED
    BY <1>1, <1>9, <1>12, <2>1, Both
<1>18. \A c \in S \cap Command : Proper(c)'
  <2>1. jobs' = jobs + 1
    BY <1>11 DEF Begin
  <2> QED
    BY <1>2, <1>17, <2>1, CountsGrow
<1>19. views' \in [Pages -> View \union {Nil}] /\ \A q \in Pages : views'[q] # Nil => views'[q].reused
  BY <1>2, ReusedOK
<1>20. PICK T : T = S \cap Command
  OBVIOUS
<1>21. T \in SUBSET Command /\ j.todo \in Seq(T) /\ \A c \in T : Proper(c)'
  BY <1>17, <1>18, <1>20
<1> QED
  BY <1>2, <1>11, <1>12, <1>15, <1>19, <1>21, Begins

LEMMA GetOK ==
  ASSUME IInv, NEW p \in Pages, Get(p)
  PROVE  IInv'
<1>1. UNCHANGED <<scripts, active, late, policy, job, replaced, calm, jobs, trouble>> /\ Idle
  BY DEF Get, serverVars, historyVars
<1>2. PICK v : v = [script |-> Found.script, active |-> Found.active, source |-> Found.source,
                    at |-> IF UndoOffered THEN scripts["import"].at ELSE Nil, reused |-> FALSE]
  OBVIOUS
<1>3. v \in View /\ v.script = scripts["webmail"]
  <2>1. Found \in Finding /\ Found.script = scripts["webmail"]
    BY FoundOK
  <2>2. UndoOffered => scripts["import"].at \in Nat
    BY DEF UndoOffered, IInv, TypeOK, Imported
  <2> QED
    BY <1>2, <2>1, <2>2 DEF Finding, View
<1>4. views' = [views EXCEPT ![p] = v] /\ views \in [Pages -> View \union {Nil}]
  BY <1>2 DEF Get, IInv, TypeOK
<1>5. TypeOK'
  <2>1. views' \in [Pages -> View \union {Nil}]
    BY <1>3, <1>4
  <2> QED
    BY <1>1, <2>1 DEF IInv, TypeOK
<1>6. StoreOK'
  BY <1>1 DEF IInv, ActInv, StoreOK, ServerOK, Proper, Numbered, ImportedOK, Returning
<1>7. RequestOK'
  BY <1>1, RequestLater DEF IInv, ActInv, RequestOK
<1>8. ViewsOK'
  <2> SUFFICES ASSUME NEW q \in Pages, views'[q] # Nil, ~views'[q].reused
               PROVE  /\ Since(views'[q].script, scripts["webmail"])
                      /\ job # Nil => \A i \in DOMAIN job.todo : SinceBy(views'[q].script, job.todo[i])
                      /\ Returning => Since(views'[q].script, job.was.script)
    BY <1>1 DEF ViewsOK, Returning
  <2>1. CASE q = p
    <3>1. views'[q].script = scripts["webmail"]
      BY <1>3, <1>4, <2>1
    <3>2. Since(scripts["webmail"], scripts["webmail"])
      BY DEF Since, Rule
    <3>3. job # Nil => job.phase = "over" /\ job.todo = <<>> /\ ~Returning
      BY <1>1 DEF Idle, IInv, ActInv, RequestOK, Fine, Returning
    <3>4. Returning => job # Nil
      BY DEF Returning
    <3> QED
      BY <3>1, <3>2, <3>3, <3>4
  <2>2. CASE q # p
    <3>1. views'[q] = views[q]
      BY <1>4, <2>2
    <3> QED
      BY <3>1 DEF IInv, ActInv, ViewsOK
  <2> QED
    BY <2>1, <2>2
<1>9. CalmOK'
  BY <1>1 DEF IInv, ActInv, CalmOK, CopiesKept, Calm, Idle
<1> QED
  BY <1>5, <1>6, <1>7, <1>8, <1>9 DEF IInv, ActInv
-------------------------------------------------------------------------------
(* Others.                                                                 *)

LEMMA Touched ==
  ASSUME IInv, Touch
  PROVE  /\ job' \in Request \union {Nil} /\ RequestOK'
         /\ job' # Nil => /\ ~Idle /\ job # Nil /\ job'.op = job.op /\ job'.phase = job.phase /\ job'.was = job.was
                          /\ job'.todo = job.todo
<1>1. CASE Idle
  BY <1>1 DEF Touch, RequestOK
<1>2. CASE ~Idle
  <2>1. PICK k : k = job'
    OBVIOUS
  <2>2. /\ job \in Request /\ job # Nil /\ job.phase # "over" /\ Fine(job, scripts, active)
    BY <1>2, Begun
  <2>3. /\ k \in Request /\ k.op = job.op /\ k.phase = job.phase /\ k.was = job.was /\ k.todo = job.todo
        /\ k.touched /\ k.kept = {}
    BY <1>2, <2>1, <2>2 DEF Touch, Request
  <2>4. RequestOK'
    BY <2>1, <2>2, <2>3 DEF RequestOK, Fine
  <2> QED
    BY <1>2, <2>1, <2>2, <2>3, <2>4
<1> QED
  BY <1>1, <1>2

\* A command of somebody else is carried out.
LEMMA OthersOK ==
  ASSUME IInv, NEW c \in Command, Proper(c), Possible(c), Effect(c), Touch,
         views' = Reused(views), calm' = FALSE, late' \subseteq late, trouble' \in Nat,
         UNCHANGED <<policy, replaced, jobs>>
  PROVE  IInv'
<1>1. /\ job' \in Request \union {Nil} /\ RequestOK'
      /\ job' # Nil => /\ ~Idle /\ job # Nil /\ job'.op = job.op /\ job'.phase = job.phase /\ job'.was = job.was
                       /\ job'.todo = job.todo
  BY Touched
<1>2. ServerTypes' /\ ServerOK'
  <2>1. Does(c, scripts, active, scripts', active')
    BY EffectIs
  <2> QED
    BY <2>1, ServerStep DEF IInv, ActInv, StoreOK
<1>3. views' \in [Pages -> View \union {Nil}] /\ \A p \in Pages : views'[p] # Nil => views'[p].reused
  BY ReusedOK
<1>4. TypeOK'
  BY <1>1, <1>2, <1>3 DEF IInv, TypeOK, ServerTypes, Store
<1>5. StoreOK'
  <2>1. (\A d \in late : Proper(d))'
    BY DEF IInv, ActInv, StoreOK, Proper, Numbered, ImportedOK
  <2>2. (job # Nil => \A i \in DOMAIN job.todo : Proper(job.todo[i]))'
    <3>1. job' # Nil => \A i \in DOMAIN job'.todo : Proper(job'.todo[i])
      BY <1>1 DEF IInv, ActInv, StoreOK
    <3> QED
      BY <3>1 DEF Proper, Numbered, ImportedOK
  <2>3. (Returning => job.was \in Finding /\ Numbered("webmail", job.was.script))'
    <3>1. Returning' => Returning /\ job'.was = job.was
      BY <1>1 DEF Returning
    <3> QED
      BY <3>1 DEF IInv, ActInv, StoreOK, Numbered
  <2>4. (\A i \in DOMAIN replaced : FindingOK(replaced[i]))'
    BY DEF IInv, ActInv, StoreOK
  <2> QED
    BY <1>2, <2>1, <2>2, <2>3, <2>4 DEF StoreOK
<1>6. ViewsOK'
  BY <1>3 DEF ViewsOK
<1>7. CalmOK'
  BY DEF CalmOK
<1> QED
  BY <1>1, <1>4, <1>5, <1>6, <1>7 DEF IInv, ActInv

LEMMA LateOK ==
  ASSUME IInv, Late
  PROVE  IInv'
<1>1. PICK c \in late : late' = late \ {c} /\ Possible(c) /\ Effect(c)
  BY DEF Late
<1>2. c \in Command /\ Proper(c)
  BY DEF IInv, ActInv, TypeOK, StoreOK
<1>3. Touch /\ views' = Reused(views) /\ calm' = FALSE /\ UNCHANGED <<policy, replaced, jobs, trouble>>
  BY DEF Late
<1>4. trouble' \in Nat
  BY <1>3 DEF IInv, TypeOK
<1> QED
  BY <1>1, <1>2, <1>3, <1>4, OthersOK

LEMMA OutsideOK ==
  ASSUME IInv, Outside
  PROVE  IInv'
<1>1. \E c \in Command : Proper(c) /\ Possible(c) /\ Effect(c)
  <2>1. CASE \E c \in {Put("other", Foreign(1)), Put("webmail", Foreign(2)), Put("webmail", Newer)} : Effect(c)
    <3>1. Foreign(1) \in Plain \ Rule /\ Foreign(2) \in Plain \ Rule /\ Newer \in Plain \ Rule
      BY DEF Foreign, Newer, Plain, Rule
    <3>2. \A c \in {Put("other", Foreign(1)), Put("webmail", Foreign(2)), Put("webmail", Newer)} :
            c \in Command /\ Proper(c) /\ Possible(c)
      BY <3>1, Commands, NamesAre DEF Proper, Numbered, Possible
    <3> QED
      BY <2>1, <3>2
  <2>2. CASE /\ scripts["webmail"] # Nil /\ scripts["webmail"].kind = "rules"
             /\ Effect(Put("webmail", [scripts["webmail"] EXCEPT !.body = 0]))
    <3>1. scripts["webmail"] \in Rule /\ scripts["webmail"].doc <= jobs
      <4>1. scripts["webmail"] \in Plain
        BY <2>2, NamesAre DEF IInv, TypeOK
      <4>2. scripts["webmail"] \in Rule
        BY <2>2, <4>1 DEF Plain, Newer, Rule
      <4> QED
        BY <4>2, NamesAre DEF IInv, ActInv, StoreOK, ServerOK, Numbered, Own
    <3>2. PICK d : d = [scripts["webmail"] EXCEPT !.body = 0]
      OBVIOUS
    <3>3. d \in Rule /\ d.doc <= jobs /\ d \in Plain
      BY <3>1, <3>2 DEF Rule, Plain
    <3>4. Put("webmail", d) \in Command /\ Proper(Put("webmail", d)) /\ Possible(Put("webmail", d))
      BY <3>3, Commands, NamesAre DEF Proper, Numbered, Possible
    <3> QED
      BY <2>2, <3>2, <3>4
  <2>3. CASE \E n \in {"other", "undo-webmail", "undo-active"} :
               scripts[n] # Nil /\ Possible(Remove(n)) /\ Effect(Remove(n))
    <3>1. \A n \in {"other", "undo-webmail", "undo-active"} : Remove(n) \in Command /\ Proper(Remove(n))
      BY Commands, NamesAre DEF Proper
    <3> QED
      BY <2>3, <3>1
  <2>4. CASE \E n \in {"webmail", "other"} \ {active} : Possible(Activate(n)) /\ Effect(Activate(n))
    <3>1. \A n \in {"webmail", "other"} : Activate(n) \in Command /\ Proper(Activate(n))
      BY Commands DEF Proper, Selected
    <3> QED
      BY <2>4, <3>1
  <2> QED
    BY <2>1, <2>2, <2>3, <2>4 DEF Outside
<1>2. PICK c \in Command : Proper(c) /\ Possible(c) /\ Effect(c)
  BY <1>1
<1>3. Touch /\ views' = Reused(views) /\ calm' = FALSE /\ UNCHANGED <<late, policy, replaced, jobs>>
  BY DEF Outside
<1>4. trouble' \in Nat
  BY DEF Outside, Trouble, IInv, TypeOK
<1> QED
  BY <1>2, <1>3, <1>4, OthersOK

LEMMA PolicyChangeOK ==
  ASSUME IInv, PolicyChange
  PROVE  IInv'
<1>1. /\ UNCHANGED <<scripts, active, late, views, replaced, calm, jobs>> /\ Touch /\ policy' = policy + 1
      /\ trouble' = trouble + 1
  BY DEF PolicyChange, historyVars, Trouble
<1>2. /\ job' \in Request \union {Nil} /\ RequestOK'
      /\ job' # Nil => /\ ~Idle /\ job # Nil /\ job'.op = job.op /\ job'.phase = job.phase /\ job'.was = job.was
                       /\ job'.todo = job.todo
  BY <1>1, Touched
<1>3. policy' \in Nat \ {0} /\ trouble' \in Nat
  BY <1>1 DEF IInv, TypeOK
<1>4. TypeOK'
  BY <1>1, <1>2, <1>3 DEF IInv, TypeOK
<1>5. Returning' => Returning /\ job'.was = job.was
  BY <1>2 DEF Returning
<1>6. StoreOK'
  <2>1. (\A d \in late : Proper(d))'
    BY <1>1 DEF IInv, ActInv, StoreOK, Proper, Numbered, ImportedOK
  <2>2. (job # Nil => \A i \in DOMAIN job.todo : Proper(job.todo[i]))'
    <3>1. job' # Nil => \A i \in DOMAIN job'.todo : Proper(job'.todo[i])
      BY <1>2 DEF IInv, ActInv, StoreOK
    <3> QED
      BY <1>1, <3>1 DEF Proper, Numbered, ImportedOK
  <2>3. (Returning => job.was \in Finding /\ Numbered("webmail", job.was.script))'
    BY <1>1, <1>5 DEF IInv, ActInv, StoreOK, Numbered
  <2>4. ServerOK' /\ (\A i \in DOMAIN replaced : FindingOK(replaced[i]))'
    BY <1>1 DEF IInv, ActInv, StoreOK, ServerOK, Numbered, ImportedOK
  <2> QED
    BY <2>1, <2>2, <2>3, <2>4 DEF StoreOK
<1>7. ViewsOK'
  <2> SUFFICES ASSUME NEW p \in Pages, views[p] # Nil, ~views[p].reused
               PROVE  /\ Since(views[p].script, scripts["webmail"])
                      /\ job' # Nil => \A i \in DOMAIN job'.todo : SinceBy(views[p].script, job'.todo[i])
                      /\ Returning' => Since(views[p].script, job'.was.script)
    BY <1>1 DEF ViewsOK
  <2> QED
    BY <1>2, <1>5 DEF IInv, ActInv, ViewsOK
<1>8. CalmOK'
  <2> SUFFICES ASSUME calm
               PROVE  CalmOK'
    BY <1>1 DEF CalmOK
  <2>1. job' # Nil => job'.op = "write" /\ \A i \in DOMAIN job'.todo : Calm(job'.todo[i])
    BY <1>2 DEF IInv, ActInv, CalmOK
  <2>2. (job # Nil => \A i \in DOMAIN job.todo : Calm(job.todo[i]))'
    BY <1>1, <2>1 DEF Calm
  <2>3. (~Idle => job.op = "write")'
    BY <2>1 DEF Idle
  <2>4. CopiesKept(scripts["import"])' <=> CopiesKept(scripts["import"])
    BY <1>1 DEF CopiesKept
  <2> QED
    BY <1>1, <2>2, <2>3, <2>4 DEF IInv, ActInv, CalmOK
<1> QED
  BY <1>2, <1>4, <1>6, <1>7, <1>8 DEF IInv, ActInv

-------------------------------------------------------------------------------
(* The theorems.                                                           *)

LEMMA InitOK == Init => IInv
<1> SUFFICES ASSUME Init
             PROVE  IInv
  OBVIOUS
<1>1. PICK webmail \in {Nil, Rules(0, 1, 1)}, other \in {Foreign(0), Rules(MaxJobs + 1, 1, 1)} :
        /\ scripts = [n \in Names |-> CASE n = "webmail" -> webmail [] n = "other" -> other [] OTHER -> Nil]
        /\ active \in {n \in Names : scripts[n] # Nil} \union {Nil}
  BY DEF Init
<1>2. /\ late = {} /\ policy = 1 /\ job = Nil /\ views = [p \in Pages |-> Nil]
      /\ replaced = <<>> /\ calm = FALSE /\ jobs = 0 /\ trouble = 0
  BY DEF Init
<1>3. /\ Rules(0, 1, 1) \in Rule /\ Rules(MaxJobs + 1, 1, 1) \in Rule /\ Foreign(0) \in Plain
      /\ Rules(0, 1, 1) \in Plain /\ Rules(MaxJobs + 1, 1, 1) \in Plain /\ Rules(0, 1, 1).doc = 0
  BY RulesAssumption DEF Rules, Rule, Foreign, Plain
<1>4. /\ scripts["webmail"] = webmail /\ scripts["other"] = other
      /\ \A n \in Names \ {"webmail", "other"} : scripts[n] = Nil
  BY <1>1, NamesAre
<1>5. active \in {Nil, "webmail", "other"}
  BY <1>1, <1>4
<1>6. TypeOK
  <2>1. scripts \in [Names -> Plain \union Imported \union {Nil}]
    BY <1>1, <1>3
  <2>2. \A n \in Names \ {"import"} : scripts[n] \in Plain \union {Nil}
    BY <1>1, <1>3, <1>4
  <2>3. scripts["import"] = Nil
    BY <1>4, NamesAre
  <2>4. replaced \in Seq(Finding)
    BY <1>2, EmptySeq
  <2>5. views \in [Pages -> View \union {Nil}] /\ late \subseteq Command
    BY <1>2
  <2>6. active \in Selected
    BY <1>5 DEF Selected
  <2>7. policy \in Nat \ {0} /\ job = Nil /\ jobs \in Nat /\ trouble \in Nat
    BY <1>2
  <2>8. calm \in BOOLEAN
    BY <1>2, Zenon
  <2> QED
    BY <2>1, <2>2, <2>3, <2>4, <2>5, <2>6, <2>7, <2>8 DEF TypeOK
<1>7. ServerOK
  <2>1. active # Nil => scripts[active] # Nil
    BY <1>1
  <2>2. \A n \in Names : Numbered(n, scripts[n])
    BY <1>1, <1>2, <1>3, <1>4, NilFacts DEF Numbered, Own
  <2>3. scripts["import"] = Nil
    BY <1>4, NamesAre
  <2> QED
    BY <2>1, <2>2, <2>3 DEF ServerOK
<1>8. DOMAIN replaced = {}
  BY <1>2
<1>9. StoreOK /\ ViewsOK /\ RequestOK /\ CalmOK
  BY <1>2, <1>7, <1>8 DEF StoreOK, ViewsOK, RequestOK, CalmOK, Returning
<1> QED
  BY <1>6, <1>9 DEF IInv, ActInv

LEMMA NextOK == IInv /\ [Next]_vars => IInv'
<1> SUFFICES ASSUME IInv, [Next]_vars
             PROVE  IInv'
  OBVIOUS
<1>1. CASE UNCHANGED vars
  <2>1. UNCHANGED <<scripts, active, late, policy, job, views, replaced, calm, jobs, trouble>>
    BY <1>1 DEF vars, serverVars, historyVars
  <2>2. TypeOK'
    BY <2>1 DEF IInv, TypeOK
  <2>3. StoreOK' /\ ViewsOK'
    BY <2>1 DEF IInv, ActInv, StoreOK, ServerOK, Proper, Numbered, ImportedOK, Returning, ViewsOK
  <2>4. RequestOK'
    BY <2>1, RequestLater DEF IInv, ActInv, RequestOK
  <2>5. CalmOK'
    BY <2>1 DEF IInv, ActInv, CalmOK, CopiesKept, Calm, Idle
  <2> QED
    BY <2>2, <2>3, <2>4, <2>5 DEF IInv, ActInv
<1>2. CASE \E p \in Pages : Save(p) \/ Import(p) \/ Get(p) \/ \E accept \in BOOLEAN : UndoImport(p, accept)
  BY <1>2, SaveOK, ImportBegins, GetOK, UndoBegins
<1>3. CASE RenameFolderRefs \/ Reactivate \/ RestoreData \/ RestorePrevious
  BY <1>3, RenameFolderRefsOK, ReactivateOK, RestoreDataOK, RestorePreviousOK
<1>4. CASE Step
  BY <1>4, StepKeepsAll
<1>5. CASE Late \/ Outside \/ PolicyChange
  BY <1>5, LateOK, OutsideOK, PolicyChangeOK
<1> QED
  BY <1>1, <1>2, <1>3, <1>4, <1>5 DEF Next

\* The inductive invariant holds at every moment.
THEOREM Inductive == Spec => []IInv
BY InitOK, NextOK, PTL DEF Spec

\* Each variable holds what it is made for.
THEOREM TypesHold == Spec => []TypeOK
<1>1. IInv => TypeOK
  BY DEF IInv
<1> QED
  BY <1>1, Inductive, PTL

LEMMA KeptNow == ASSUME IInv PROVE RulesKept
<1> SUFFICES ASSUME job # Nil, NEW c \in job.kept
             PROVE  \E n \in Names : Alike(scripts[n], c)
  BY DEF RulesKept
<1>1. /\ job \in Request /\ Fine(job, scripts, active) /\ ~job.touched
      /\ job.op \in {"write", "import", "undo"}
  BY DEF IInv, ActInv, TypeOK, RequestOK, Fine, Request
<1>2. CASE job.op = "write"
  BY <1>1, <1>2, NamesAre DEF Fine, WriteOK, Held
<1>3. CASE job.op = "import"
  <2>1. /\ job.was \in Finding /\ FindingOK(job.was) /\ ImportHeld(job, scripts, active)
        /\ c \in {job.was.script, job.was.source} \ {Nil}
    BY <1>1, <1>3 DEF Fine, ImportOK
  <2>2. job.was.active \in {Nil, "webmail", "other"}
    BY <2>1 DEF Finding, Selected
  <2>3. c = job.was.script \/ (job.was.active = "other" /\ c = job.was.source)
    BY <2>1, <2>2 DEF FindingOK
  <2>4. \E n \in {"webmail", "undo-webmail", "other"} : scripts[n] = c
    BY <2>1, <2>3 DEF ImportHeld
  <2> QED
    BY <2>4, NamesAre DEF Alike
<1>4. CASE job.op = "undo"
  <2> DEFINE f == replaced[job.at]
  <2>1. UndoOK(job, scripts, active) /\ job.at \in DOMAIN replaced
    BY <1>1, <1>4 DEF Fine, UndoOK
  <2>2. f \in Finding /\ FindingOK(f)
    BY <2>1, Elements DEF IInv, ActInv, StoreOK, TypeOK
  <2>3. c \in {f.script, f.source} \ {Nil}
    BY <1>4, <2>1 DEF UndoOK
  <2>4. Undone0(f, scripts, active) \/ UndoHalf(job, f, scripts)
    BY <1>4, <2>1, UndoKeeps DEF UndoOK
  <2> HIDE DEF f
  <2> QED
    BY <2>2, <2>3, <2>4, UndoHolds
<1> QED
  BY <1>1, <1>2, <1>3, <1>4

\* The rules a request replaces, and those an undo is to bring back, are never gone: whatever of
\* the request was carried out, some script still holds them (service.js, write, applyImport and
\* undoImport).
THEOREM RulesKeptHolds == Spec => []RulesKept
BY Inductive, KeptNow, PTL

LEMMA AllOrNothingNow == ASSUME IInv PROVE AllOrNothing
<1> SUFFICES ASSUME Judged, job.op = "import"
             PROVE  /\ job.ok => scripts["webmail"] = job.doc /\ active = "webmail" /\ UndoOffered
                    /\ ~job.ok /\ job.archived /\ ~job.cut => job.restored
                    /\ job.restored => Found = job.was
  BY DEF AllOrNothing
<1>1. /\ job \in Request /\ Fine(job, scripts, active) /\ job.phase = "over" /\ ~job.touched
  BY DEF Judged, IInv, ActInv, TypeOK, RequestOK, Fine
<1>2. /\ ImportOver(job, scripts, active) /\ ImportHeld(job, scripts, active) /\ Intact(job.doc)
      /\ job.was \in Finding /\ FindingOK(job.was) /\ ImportedOK(RecordOf(job))
  BY <1>1 DEF Fine, ImportOK
<1>3. ASSUME job.ok
      PROVE  scripts["webmail"] = job.doc /\ active = "webmail" /\ UndoOffered
  <2>1. Archived(job, scripts) /\ scripts["webmail"] = job.doc /\ active = "webmail"
    BY <1>2, <1>3 DEF ImportOver
  <2>2. PICK r : r = RecordOf(job)
    OBVIOUS
  <2>3. /\ scripts["import"] = r /\ r.before = job.was.script /\ r.name = job.was.active
        /\ r.source = job.was.source /\ r.after = job.doc
    BY <2>1, <2>2 DEF Archived, RecordOf, ImportRecord
  <2>4. r # Nil
    <3>1. r.at \in DOMAIN replaced /\ DOMAIN replaced = 1..Len(replaced) /\ Len(replaced) \in Nat
      BY <1>2, <2>2, LenProperties DEF ImportedOK, IInv, TypeOK
    <3>2. r.at = job.at
      BY <2>2 DEF RecordOf, ImportRecord
    <3>3. Importing(job)
      BY <1>1, <1>2, <3>1, <3>2 DEF Importing
    <3>4. Head(Import5(job)) = Put("import", r) /\ Import5(job) \in Seq(Command) /\ Import5(job) # <<>>
      BY <2>2, <3>3, ImportParts
    <3>5. Put("import", r) \in Command
      BY <3>4, TailElements
    <3> QED
      BY <3>5, NilFacts, Commands DEF Command
  <2>5. State(Found) = "ok"
    BY <1>2, <2>1, States
  <2>6. CopiesKept(r)
    BY <2>1, <2>3 DEF CopiesKept, Archived, ScriptKept, SourceKept
  <2> QED
    BY <2>1, <2>3, <2>4, <2>5, <2>6 DEF UndoOffered
<1>4. ASSUME job.restored
      PROVE  Found = job.was
  <2>1. scripts["webmail"] = job.was.script /\ active = job.was.active
    BY <1>2, <1>4 DEF ImportOver, Untouched
  <2>2. active \in {Nil, "webmail", "other"}
    BY DEF IInv, TypeOK, Selected
  <2>3. Found.script = job.was.script /\ Found.active = job.was.active /\ Found.source = job.was.source
    BY <1>2, <2>1, <2>2, NilFacts DEF Found, FindingOK, ImportHeld
  <2>4. Found \in Finding
    BY FoundOK
  <2> QED
    BY <1>2, <2>3, <2>4 DEF Finding
<1> QED
  BY <1>2, <1>3, <1>4 DEF ImportOver

\* An import that succeeds is active and can be undone; one that fails after it was archived is
\* taken back if the recovery itself meets no fault, and "restored" is said only when everything
\* is as it was (service.js, applyImport).
THEOREM AllOrNothingHolds == Spec => []AllOrNothing
BY Inductive, AllOrNothingNow, PTL

LEMMA UndoExactNow == ASSUME IInv PROVE UndoExact
<1> SUFFICES ASSUME Judged, job.op = "undo"
             PROVE  \/ Undone(replaced[job.at])
                    \/ /\ ~job.ok
                       /\ \/ UndoVerdict(job.at, job.accept) = "ok"
                          \/ scripts["import"] # Nil /\ ~CopiesKept(scripts["import"])
  BY DEF UndoExact
<1> DEFINE f == replaced[job.at]
<1>1. /\ job \in Request /\ Fine(job, scripts, active) /\ job.phase = "over" /\ ~job.touched /\ TypeOK
  BY DEF Judged, IInv, ActInv, TypeOK, RequestOK, Fine
<1>2. /\ job.at \in DOMAIN replaced /\ (f.script # Nil => Intact(f.script))
      /\ Undone0(f, scripts, active) \/ (~job.ok /\ UndoHalf(job, f, scripts))
  BY <1>1 DEF Fine, UndoOK
<1>3. f \in Finding /\ FindingOK(f)
  BY <1>2, Elements DEF IInv, ActInv, StoreOK, TypeOK
<1> HIDE DEF f
<1>4. CASE Undone0(f, scripts, active)
  <2>1. active \in {Nil, "webmail", "other"}
    BY DEF IInv, TypeOK, Selected
  <2>2. Alike(Found.source, f.source)
    <3>1. CASE active = Nil
      BY <1>3, <1>4, <3>1 DEF Undone0, Found, FindingOK, Alike
    <3>2. CASE active = "webmail"
      BY <1>3, <1>4, <3>2, NilFacts DEF Undone0, Found, FindingOK
    <3>3. CASE active = "other"
      BY <1>4, <3>3, NilFacts DEF Undone0, Found
    <3> QED
      BY <2>1, <3>1, <3>2, <3>3
  <2>3. Undone(f)
    BY <1>4, <2>2 DEF Undone0, Undone
  <2> QED
    BY <2>3 DEF f
<1>5. CASE ~job.ok /\ UndoHalf(job, f, scripts)
  BY <1>1, <1>2, <1>3, <1>5, HalfRepeats
<1> QED
  BY <1>2, <1>4, <1>5

\* An undo that succeeds leaves the rules, the active script and its contents as the import found
\* them; one that failed part-way is complete nevertheless or can be repeated as it was
\* (service.js, undoImport).
THEOREM UndoExactHolds == Spec => []UndoExact
BY Inductive, UndoExactNow, PTL

LEMMA OfferWorksNow == ASSUME IInv PROVE OfferWorks
<1> DEFINE r == scripts["import"]
<1>1. ASSUME UndoOffered
      PROVE  UndoVerdict(r.at, TRUE) \in {"ok", "UNDO_SOURCE_CHANGED"}
  <2>1. r # Nil /\ State(Found) # "newer_version" /\ CopiesKept(r)
    BY <1>1 DEF UndoOffered
  <2>2. /\ ~(r = Nil \/ (r # Nil /\ r.at # r.at))
        /\ ~(~Restored(r) /\ scripts["webmail"] # r.after /\ ~TRUE)
        /\ ~(~Restored(r) /\ r.before # Nil /\ scripts["undo-webmail"] # r.before)
        /\ ~(Elsewhere(r.name) /\ scripts[r.name] = Nil /\ scripts["undo-active"] # r.source)
    BY <2>1 DEF CopiesKept
  <2> QED
    BY <2>1, <2>2 DEF UndoVerdict
<1>2. ASSUME calm
      PROVE  UndoOffered /\ UndoVerdict(r.at, TRUE) = "ok"
  <2>1. /\ r # Nil /\ active = "webmail" /\ CopiesKept(r)
        /\ Intact(scripts["webmail"]) /\ r.after.doc <= scripts["webmail"].doc
        /\ r.name = "other" => scripts["other"] = r.source
    BY <1>2 DEF IInv, ActInv, CalmOK
  <2>2. State(Found) = "ok"
    BY <2>1, States
  <2>3. /\ r \in Imported /\ ImportedOK(r) /\ r.name \in {Nil, "webmail", "other"}
    BY <2>1 DEF IInv, ActInv, StoreOK, ServerOK, TypeOK, Imported, Selected
  <2>4. ~Restored(r)
    <3> SUFFICES ASSUME Restored(r)
                 PROVE  FALSE
      OBVIOUS
    <3>1. r.before # Nil => /\ Intact(r.before) /\ r.before.doc < r.after.doc
                            /\ Regenerated(r.before).doc = r.before.doc
      BY <2>3 DEF ImportedOK, Regenerated, Intact, Rule
    <3>2. scripts["webmail"] # Nil
      BY <2>1, NilFacts DEF Intact
    <3>3. r.before # Nil /\ scripts["webmail"].doc = r.before.doc
      BY <3>1, <3>2 DEF Restored, IsRestored
    <3>4. r.before.doc \in Nat /\ r.after.doc \in Nat
      BY <2>3, <3>1, <3>3 DEF Intact, Rule, Imported
    <3> QED
      BY <2>1, <3>1, <3>3, <3>4
  <2>5. UndoOffered
    BY <2>1, <2>2, <2>4 DEF UndoOffered
  <2>6. /\ ~(r = Nil \/ (r # Nil /\ r.at # r.at))
        /\ ~(~Restored(r) /\ scripts["webmail"] # r.after /\ ~TRUE)
        /\ ~(~Restored(r) /\ r.before # Nil /\ scripts["undo-webmail"] # r.before)
        /\ ~(Elsewhere(r.name) /\ scripts[r.name] # Nil /\ ~IsRestored(scripts[r.name], r.source, scripts["undo-active"]))
        /\ ~(Elsewhere(r.name) /\ scripts[r.name] = Nil /\ scripts["undo-active"] # r.source)
    BY <2>1, <2>3 DEF CopiesKept, Elsewhere, IsRestored
  <2> QED
    BY <2>2, <2>5, <2>6 DEF UndoVerdict
<1> QED
  BY <1>1, <1>2 DEF OfferWorks

\* An undo the page shows is refused only for a source that was changed elsewhere, and while only
\* this service writes it is offered until the next import, and accepted (import-store.js, importInfo).
THEOREM OfferWorksHolds == Spec => []OfferWorks
BY Inductive, OfferWorksNow, PTL

LEMMA ReplacesNow ==
  ASSUME IInv, Next, NEW p \in Pages, views[p] # Nil, views'[p] = Nil, ~views[p].reused
  PROVE  Alike(scripts["webmail"], views[p].script)
<1>1. /\ views \in [Pages -> View \union {Nil}] /\ views[p] \in View
  BY DEF IInv, TypeOK
<1>2. \A q \in Pages : [views[p] EXCEPT !.reused = TRUE] \in View
  BY <1>1 DEF View
<1>3. ~(views' = Reused(views))
  BY <1>1, <1>2, NilFacts DEF Reused
<1>4. ~(\E q \in Pages : Get(q))
  <2> SUFFICES ASSUME NEW q \in Pages, Get(q)
               PROVE  FALSE
    OBVIOUS
  <2>1. PICK v : v = [script |-> Found.script, active |-> Found.active, source |-> Found.source,
                      at |-> IF UndoOffered THEN scripts["import"].at ELSE Nil, reused |-> FALSE]
    OBVIOUS
  <2>2. UndoOffered => scripts["import"].at \in Nat
    BY DEF UndoOffered, IInv, TypeOK, Imported
  <2>3. v \in View
    BY <2>1, <2>2, FoundOK DEF Finding, View
  <2>4. views' = [views EXCEPT ![q] = v]
    BY <2>1 DEF Get
  <2> QED
    BY <1>1, <2>3, <2>4, NilFacts
<1>5. views' # views
  OBVIOUS
<1>6. \E q \in Pages : (Save(q) \/ Import(q)) /\ views' = [views EXCEPT ![q] = Nil]
  BY <1>3, <1>4, <1>5 DEF Next, Save, Import, UndoImport, RenameFolderRefs, Reactivate, RestoreData,
                          RestorePrevious, Step, Late, Outside, PolicyChange
<1>7. Save(p) \/ Import(p)
  BY <1>1, <1>6
<1>8. Since(views[p].script, scripts["webmail"])
  BY DEF IInv, ActInv, ViewsOK
<1>9. /\ Rev(views[p]) = Rev(Found) /\ State(Found) \in Importable
      /\ State(views[p]) \in Importable
  BY <1>7 DEF Save, SaveAllowed, Import, Expect, Importable
<1>10. /\ views[p].script # Nil => Intact(views[p].script)
       /\ scripts["webmail"] # Nil => Intact(scripts["webmail"])
  <2>1. views[p].script \in Plain \union {Nil}
    BY <1>1 DEF View
  <2>2. \A c \in Plain : /\ Parse(c) \in {"ok", "modified_externally", "newer_version", "damaged"}
                         /\ Parse(c) = "ok" => Intact(c)
    BY DEF Parse, Plain, Newer, Intact, Rule
  <2>3. views[p].script # Nil => Intact(views[p].script)
    BY <1>9, <2>1, <2>2 DEF State, Importable
  <2> QED
    BY <1>9, <2>3, States
<1>11. Rev(Found) = IF scripts["webmail"] = Nil THEN 0 ELSE scripts["webmail"].rev
  BY States
<1>12. Rev(views[p]) = IF views[p].script = Nil THEN 0 ELSE views[p].script.rev
  BY DEF Rev
<1> QED
  BY <1>8, <1>9, <1>10, <1>11, <1>12 DEF Since, Intact, Rule, Alike

\* A save or an import replaces the rules its page showed, not those of another page (service.js,
\* save: baseRev; xmlPlan: expect).
THEOREM ReplacesHolds == Spec => ReplacesWhatWasSeen
<1>1. IInv /\ [Next]_vars =>
        [\A p \in Pages : views[p] # Nil /\ views'[p] = Nil /\ ~views[p].reused =>
           Alike(scripts["webmail"], views[p].script)]_vars
  BY ReplacesNow
<1> QED
  BY <1>1, Inductive, PTL DEF Spec, ReplacesWhatWasSeen
====
