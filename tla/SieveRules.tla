------------------------------ MODULE SieveRules ------------------------------
(***************************************************************************)
(* The filter rules of one account (webmail/server/sieve/service.js and    *)
(* import-store.js) on a ManageSieve server.  Requests are worked off one  *)
(* after the other, each over a connection of its own and command by       *)
(* command.  Other programs use the same scripts, an answer may be lost    *)
(* with its command carried out, not carried out or carried out later, and *)
(* the process may end between two commands.                               *)
(***************************************************************************)
EXTENDS Naturals, Sequences

CONSTANTS Pages,      \* browser pages of the account's owner
          MaxJobs,    \* bound: requests that pass their checks
          MaxTrouble, \* bound: rejections, lost answers, ends of the process, changes
                      \* by other programs and of the policy, all together
          Nil

VARIABLES
  scripts,   \* name -> the script stored under it, Nil when there is none
  active,    \* the name of the active script, or Nil
  late,      \* commands given up on that the server may yet carry out
  policy,    \* the current addresses, domains and folders, as a version
  job,       \* the request worked on, or the last one
  views,     \* page -> what its last GET returned
  replaced,  \* history: what the n-th import found
  calm,      \* history: since an import succeeded only this service wrote
  jobs, trouble

serverVars  == <<scripts, active, late, policy>>
historyVars == <<replaced, calm>>
vars == <<serverVars, job, views, historyVars, jobs, trouble>>

Names == {"webmail", "prev", "undo-webmail", "undo-active", "import", "other"}

-------------------------------------------------------------------------------
(* Scripts.  Equal contents stand for equal hashes.                        *)

\* A document in its envelope; body: the policy its code was generated under, 0 once edited.
Rules(doc, rev, body) == [kind |-> "rules", doc |-> doc, rev |-> rev, body |-> body]

Foreign(n) == [kind |-> "foreign", id |-> n]
Newer      == [kind |-> "newer"]

\* What a script may hold, and the record of an import.
Rule     == [kind : {"rules"}, doc : Nat, rev : Nat \ {0}, body : Nat]
Plain    == Rule \union [kind : {"foreign"}, id : Nat] \union {Newer}
Selected == {Nil, "webmail", "other"}
Imported == [kind : {"import"}, at : Nat \ {0}, before : Plain \union {Nil}, name : Selected,
             source : Plain \union {Nil}, after : Rule]

\* importRecord(): what an import found and what it stored.
ImportRecord(at, found, after) ==
  [kind |-> "import", at |-> at, before |-> found.script, name |-> found.active,
   source |-> found.source, after |-> after]

\* parseScript().
Parse(c) ==
  CASE c.kind = "rules" /\ c.body # 0 -> "ok"
    [] c.kind = "rules" /\ c.body = 0 -> "modified_externally"
    [] c.kind = "newer"               -> "newer_version"
    [] OTHER                          -> "damaged"

\* regenerateScript(): the same document, its code for the policy of today.
Regenerated(c) == [c EXCEPT !.body = policy]

\* The two contents hold the same rules, whatever policy their code is for.
Alike(c, d) ==
  \/ c = d
  \/ c # Nil /\ d # Nil /\ c.kind = "rules" /\ d.kind = "rules" /\ c.doc = d.doc

\* What read() finds.
Found ==
  [script |-> scripts["webmail"], active |-> active,
   source |-> IF active = Nil THEN Nil ELSE scripts[active]]

\* classifyState(); import_pending and import_blocked allow the same writes.
State(f) ==
  CASE f.script = Nil /\ f.active = Nil -> "none"
    [] f.script = Nil /\ f.active # Nil -> "import"
    [] f.script # Nil /\ Parse(f.script) = "ok" /\ f.active # "webmail" -> "inactive_other"
    [] OTHER -> Parse(f.script)

Rev(f) == IF f.script = Nil THEN 0 ELSE f.script.rev

-------------------------------------------------------------------------------
(* What the variables hold.                                                *)

Command ==
  [do : {"check"}] \union [do : {"activate"}, name : Selected]
    \union [do : {"put"}, name : Names \ {"import"}, script : Plain]
    \union [do : {"put"}, name : {"import"}, script : Imported]
    \union [do : {"remove"}, name : Names \ {"prev"}]

Finding == [script : Plain \union {Nil}, active : Selected, source : Plain \union {Nil}]
View    == [script : Plain \union {Nil}, active : Selected, source : Plain \union {Nil},
            at : Nat \union {Nil}, reused : BOOLEAN]
Request ==
  [op : {"write", "import", "undo"}, phase : {"work", "reconnect", "recover", "cleanup", "over"},
   was : Finding \union {Nil}, todo : Seq(Command), archived : BOOLEAN, ok : BOOLEAN,
   restored : BOOLEAN, cut : BOOLEAN, touched : BOOLEAN, kept : SUBSET Plain,
   at : Nat \union {Nil}, accept : BOOLEAN, doc : Rule \union {Nil}]

ASSUME RulesAssumption ==
  /\ MaxJobs \in Nat /\ MaxTrouble \in Nat
  /\ Nil \notin Nat \union Names
  /\ Nil \notin Plain /\ Nil \notin Imported
  /\ Nil \notin Finding /\ Nil \notin View /\ Nil \notin Request

\* Each variable holds what it is made for.
TypeOK ==
  /\ scripts \in [Names -> Plain \union Imported \union {Nil}]
  /\ \A n \in Names \ {"import"} : scripts[n] \in Plain \union {Nil}
  /\ scripts["import"] \in Imported \union {Nil}
  /\ active \in Selected /\ late \subseteq Command /\ policy \in Nat \ {0}
  /\ job \in Request \union {Nil} /\ views \in [Pages -> View \union {Nil}]
  /\ replaced \in Seq(Finding) /\ calm \in BOOLEAN /\ jobs \in Nat /\ trouble \in Nat

-------------------------------------------------------------------------------
(* The record of the last import (import-store.js).                        *)

\* Only the original bytes.
IsRestoredExact(script, before, archive) == script = before

\* isRestoredWebmail(): the original, or the archived original regenerated.
IsRestored(script, before, archive) ==
  \/ script = before
  \/ /\ before # Nil /\ archive = before /\ Parse(archive) = "ok"
     /\ script = Regenerated(archive)

Restored(record) == IsRestored(scripts["webmail"], record.before, scripts["undo-webmail"])

Elsewhere(name) == name \notin {Nil, "webmail"}

\* The archives hold what the record says.
CopiesKept(record) ==
  /\ record.before # Nil => scripts["undo-webmail"] = record.before
  /\ Elsewhere(record.name) => scripts["undo-active"] = record.source

\* Offered whatever the archives hold.
UndoOfferedAnyway ==
  /\ scripts["import"] # Nil /\ State(Found) # "newer_version"
  /\ ~(scripts["webmail"] # scripts["import"].after /\ Restored(scripts["import"])
         /\ active = scripts["import"].name)

\* importInfo(): whether the page offers to undo the import.
UndoOffered ==
  LET record == scripts["import"] IN
  /\ record # Nil
  /\ State(Found) # "newer_version"
  /\ ~(scripts["webmail"] # record.after /\ Restored(record) /\ active = record.name)
  /\ CopiesKept(record)

\* The checks of undoImport(), in their order.
UndoVerdict(at, acceptEdits) ==
  LET record == scripts["import"] IN
  CASE State(Found) = "newer_version"          -> "RULES_STATE"
    [] record = Nil \/ (record # Nil /\ record.at # at) -> "UNDO_UNAVAILABLE"
    [] ~Restored(record) /\ scripts["webmail"] # record.after /\ ~acceptEdits -> "UNDO_EDITED"
    [] ~Restored(record) /\ record.before # Nil
         /\ scripts["undo-webmail"] # record.before -> "UNDO_UNAVAILABLE"
    [] Elsewhere(record.name) /\ scripts[record.name] # Nil
         /\ ~IsRestored(scripts[record.name], record.source, scripts["undo-active"])
                                               -> "UNDO_SOURCE_CHANGED"
    [] Elsewhere(record.name) /\ scripts[record.name] = Nil
         /\ scripts["undo-active"] # record.source -> "UNDO_UNAVAILABLE"
    [] OTHER                                   -> "ok"

-------------------------------------------------------------------------------
(* Commands of ManageSieve.                                                *)

Check           == [do |-> "check"]
Put(n, c)       == [do |-> "put", name |-> n, script |-> c]
Activate(n)     == [do |-> "activate", name |-> n]
Remove(n)       == [do |-> "remove", name |-> n]   \* removeScript(): if it is there

When(condition, command) == IF condition THEN <<command>> ELSE <<>>

\* The server activates what exists and deletes what is not active.
Possible(c) ==
  CASE c.do = "activate" -> c.name # Nil => scripts[c.name] # Nil
    [] c.do = "remove"   -> active # c.name
    [] OTHER             -> TRUE

Effect(c) ==
  /\ scripts' = CASE c.do = "put"    -> [scripts EXCEPT ![c.name] = c.script]
                  [] c.do = "remove" -> [scripts EXCEPT ![c.name] = Nil]
                  [] OTHER           -> scripts
  /\ active' = IF c.do = "activate" THEN c.name ELSE active

NoEffect == UNCHANGED <<scripts, active>>

-------------------------------------------------------------------------------
(* Requests.  One that is refused changes nothing and is left out.         *)

Idle == job = Nil \/ (job # Nil /\ job.phase = "over")

\* The bounds: nothing new happens once the last request is answered.
Trouble ==
  /\ trouble < MaxTrouble /\ trouble' = trouble + 1
  /\ ~(Idle /\ jobs = MaxJobs)

Job(op, todo) ==
  [op |-> op, phase |-> "work", was |-> Nil, todo |-> todo, archived |-> FALSE, ok |-> FALSE,
   restored |-> FALSE, cut |-> FALSE, touched |-> FALSE,
   kept |-> {Found.script, Found.source} \ {Nil}, at |-> Nil, accept |-> FALSE,
   doc |-> Nil]

Begin(j) ==
  /\ Idle /\ jobs < MaxJobs
  /\ jobs' = jobs + 1
  /\ job' = j
  /\ UNCHANGED <<serverVars, trouble>>

\* The backup is made last.
WriteThenKeep(doc, preservePrevious, activate) ==
  <<Check, Put("webmail", doc)>>
    \o When(scripts["webmail"] # Nil /\ ~preservePrevious, Put("prev", scripts["webmail"]))
    \o When(activate, Activate("webmail"))

\* write().
Write(doc, preservePrevious, activate) ==
  <<Check>>
    \o When(scripts["webmail"] # Nil /\ ~preservePrevious, Put("prev", scripts["webmail"]))
    \o <<Put("webmail", doc)>>
    \o When(activate, Activate("webmail"))

\* The revision is not compared.
SaveAnyway(view) == State(Found) \in {"ok", "none"}

SaveAllowed(view) ==
  /\ State(Found) \in {"ok", "none"}
  /\ Rev(view) = Rev(Found)

\* save().
Save(p) ==
  /\ views[p] # Nil /\ State(views[p]) \in {"ok", "none"}
  /\ SaveAllowed(views[p])
  /\ Begin(Job("write", Write(Rules(jobs + 1, Rev(Found) + 1, policy), FALSE, State(Found) = "none")))
  /\ views' = [views EXCEPT ![p] = Nil]
  /\ UNCHANGED historyVars

\* renameFolderRefs(), when a rule names the folder.
RenameFolderRefs ==
  /\ State(Found) = "ok"
  /\ Begin(Job("write", Write(Rules(jobs + 1, Rev(Found) + 1, policy), FALSE, FALSE)))
  /\ UNCHANGED <<views, historyVars>>

\* reactivate().
Reactivate ==
  /\ State(Found) = "inactive_other"
  /\ Begin(Job("write", <<Activate("webmail")>>))
  /\ UNCHANGED <<views, historyVars>>

\* restore() from the data inside the edited script.
RestoreData ==
  /\ State(Found) = "modified_externally"
  /\ Begin(Job("write", Write([scripts["webmail"] EXCEPT !.rev = @ + 1, !.body = policy], FALSE, FALSE)))
  /\ UNCHANGED <<views, historyVars>>

\* Revision numbers that pages have seen may come back with other rules.
Reused(v) == [p \in Pages |-> IF v[p] = Nil THEN Nil ELSE [v[p] EXCEPT !.reused = TRUE]]

\* restore() of the previous version, which stays where it is.
RestorePrevious ==
  /\ State(Found) = "damaged"
  /\ scripts["prev"] # Nil /\ Parse(scripts["prev"]) = "ok"
  /\ Begin([Job("write", Write([scripts["prev"] EXCEPT !.rev = @ + 1, !.body = policy], TRUE, FALSE))
              EXCEPT !.kept = {scripts["prev"]}])
  /\ views' = Reused(views)
  /\ UNCHANGED historyVars

Importable == {"none", "ok", "import", "inactive_other"}

\* What an import must find as its preview showed it: expect.
Expect(f) == <<f.script = Nil, Rev(f), f.active, f.source>>

\* The commands of applyImport().
ImportCommands(found, record) ==
  << IF found.script # Nil THEN Put("undo-webmail", found.script) ELSE Remove("undo-webmail"),
     IF Elsewhere(found.active) THEN Put("undo-active", found.source) ELSE Remove("undo-active"),
     Put("import", record), Check >>
    \o When(found.script # Nil, Put("prev", found.script))
    \o << Put("webmail", record.after), Activate("webmail") >>

\* From its answer on the import is archived and can be taken back.
RecordStored(c) == c.do = "put" /\ c.name = "import"

\* importXml() from its second look at the server on, and importRules().
Import(p) ==
  LET at  == Len(replaced) + 1
      doc == Rules(jobs + 1, Rev(Found) + 1, policy)
  IN
  /\ State(Found) \in Importable
  /\ views[p] # Nil /\ State(views[p]) \in Importable /\ Expect(views[p]) = Expect(Found)
  /\ Begin([Job("import", ImportCommands(Found, ImportRecord(at, Found, doc)))
              EXCEPT !.was = Found, !.at = at, !.doc = doc])
  /\ views' = [views EXCEPT ![p] = Nil]
  /\ replaced' = Append(replaced, Found)
  /\ calm' = FALSE

\* What undoImport() stores: copies of the two scripts, regenerated when they can be.
Copy(c) == IF Parse(c) = "ok" THEN Regenerated(c) ELSE c

WebmailCopy(record) ==
  IF record.before = Nil THEN <<>>
  ELSE IF ~Restored(record) THEN <<Put("webmail", Copy(scripts["undo-webmail"]))>>
  ELSE When(Parse(scripts["webmail"]) = "ok", Put("webmail", Copy(scripts["webmail"])))

ActiveCopy(record) ==
  IF ~Elsewhere(record.name) THEN <<>>
  ELSE IF scripts[record.name] = Nil THEN <<Put(record.name, Copy(scripts["undo-active"]))>>
  ELSE When(Parse(scripts[record.name]) = "ok", Put(record.name, Copy(scripts[record.name])))

\* The selection is restored first: an active script cannot be deleted.
UndoCommands(record) ==
  ActiveCopy(record) \o WebmailCopy(record) \o <<Activate(record.name)>>
    \o When(record.before = Nil, Remove("webmail")) \o <<Remove("import")>>

\* undoImport().
UndoImport(p, acceptEdits) ==
  /\ views[p] # Nil /\ views[p].at # Nil
  /\ UndoVerdict(views[p].at, acceptEdits) = "ok"
  /\ Begin([Job("undo", UndoCommands(scripts["import"]))
              EXCEPT !.at = views[p].at, !.accept = acceptEdits,
                     !.kept = {scripts["import"].before, scripts["import"].source} \ {Nil}])
  /\ views' = Reused(views)
  /\ calm' = FALSE
  /\ UNCHANGED replaced

\* get(): the page learns the rules, their revision and whether an import can be undone.
Get(p) ==
  /\ Idle /\ jobs < MaxJobs
  /\ views' = [views EXCEPT ![p] =
       [script |-> Found.script, active |-> Found.active, source |-> Found.source,
        at |-> IF UndoOffered THEN scripts["import"].at ELSE Nil, reused |-> FALSE]]
  /\ UNCHANGED <<serverVars, job, historyVars, jobs, trouble>>

-------------------------------------------------------------------------------
(* The commands of a request, one after the other.                         *)

Working == job # Nil /\ job.phase \in {"work", "recover", "cleanup"}

\* cut: new trouble kept an import from seeing its recovery through.  A request that others
\* wrote in is forgotten.
Over(ok, restored, cut) ==
  job' = IF job.touched THEN Nil
         ELSE [job EXCEPT !.phase = "over", !.todo = <<>>, !.ok = ok, !.restored = restored, !.cut = cut]

\* The error path of each request; a clean-up only stops when the connection is gone.
Fail(broken) ==
  CASE job.op = "import" /\ job.phase = "work" /\ job.archived ->
         job' = [job EXCEPT !.phase = "reconnect"]
    [] job.phase = "recover" -> Over(FALSE, FALSE, trouble' # trouble)
    [] job.phase = "cleanup" /\ ~broken ->
         job' = [job EXCEPT !.todo = Tail(@)]
    [] OTHER -> Over(job.phase = "cleanup", FALSE, FALSE)

Answered ==
  /\ Working /\ job.todo # <<>> /\ Possible(Head(job.todo))
  /\ Effect(Head(job.todo))
  /\ job' = [job EXCEPT !.todo = Tail(@), !.archived = @ \/ RecordStored(Head(job.todo))]
  /\ UNCHANGED <<late, policy, trouble>>

Rejected ==
  /\ Working /\ job.todo # <<>>
  /\ \/ ~Possible(Head(job.todo)) /\ UNCHANGED trouble
     \/ Possible(Head(job.todo)) /\ Trouble
  /\ Fail(FALSE)
  /\ NoEffect
  /\ UNCHANGED <<late, policy>>

\* The connection breaks or the time is up: the command was carried out, was not, or will be.
AnswerLost ==
  /\ Working /\ job.todo # <<>> /\ Trouble
  /\ Fail(TRUE)
  /\ \/ Possible(Head(job.todo)) /\ Effect(Head(job.todo)) /\ UNCHANGED late
     \/ NoEffect /\ UNCHANGED late
     \/ NoEffect /\ late' = late \union {Head(job.todo)}
  /\ UNCHANGED policy

\* Everything was answered; undoImport() goes on to the archives.
Complete ==
  /\ Working /\ job.todo = <<>> /\ job.phase # "recover"
  /\ IF job.op = "undo" /\ job.phase = "work"
     THEN job' = [job EXCEPT !.phase = "cleanup",
                             !.todo = <<Remove("undo-webmail"), Remove("undo-active")>>]
     ELSE Over(TRUE, FALSE, FALSE)
  /\ UNCHANGED <<serverVars, trouble>>

\* The new script is removed while it is active.
RecoveryRemovesFirst(was) ==
  When(was.script = Nil, Remove("webmail"))
    \o When(was.script # Nil /\ scripts["webmail"] # was.script, Put("webmail", was.script))
    \o When(active # was.active, Activate(was.active))

\* A failed import puts back what it found, over a fresh connection.
RecoveryCommands(was) ==
  When(was.script # Nil /\ scripts["webmail"] # was.script, Put("webmail", was.script))
    \o When(active # was.active, Activate(was.active))
    \o When(was.script = Nil, Remove("webmail"))

Reconnect ==
  /\ job # Nil /\ job.phase = "reconnect"
  /\ \/ /\ job' = [job EXCEPT !.phase = "recover", !.todo = RecoveryCommands(job.was)]
        /\ UNCHANGED trouble
     \/ /\ Trouble
        /\ Over(FALSE, FALSE, TRUE)
  /\ UNCHANGED serverVars

\* And looks whether everything is as it was.
AsBefore(was, at, doc) ==
  /\ scripts["webmail"] = was.script
  /\ active = was.active
  /\ Elsewhere(was.active) => scripts[was.active] = was.source /\ scripts["undo-active"] = was.source
  /\ scripts["import"] = ImportRecord(at, was, doc)
  /\ was.script # Nil => scripts["undo-webmail"] = was.script

Verify ==
  /\ Working /\ job.phase = "recover" /\ job.todo = <<>>
  /\ Over(FALSE, AsBefore(job.was, job.at, job.doc), FALSE)
  /\ UNCHANGED <<serverVars, trouble>>

\* The process ends; the connections with it.
Crash ==
  /\ ~Idle /\ Trouble
  /\ Over(FALSE, FALSE, job.op = "import")
  /\ UNCHANGED serverVars

Step ==
  /\ Answered \/ Rejected \/ AnswerLost \/ Complete \/ Reconnect \/ Verify \/ Crash
  /\ calm' = (calm \/ (job.op = "import" /\ ~job.touched /\ job'.ok))
  /\ UNCHANGED <<views, replaced, jobs>>

-------------------------------------------------------------------------------
(* Everything else that writes.                                            *)

Touch == job' = IF Idle THEN Nil ELSE [job EXCEPT !.touched = TRUE, !.kept = {}]

\* A command nobody waits for any more is carried out.
Late ==
  /\ \E c \in late : late' = late \ {c} /\ Possible(c) /\ Effect(c)
  /\ Touch
  /\ views' = Reused(views)
  /\ calm' = FALSE
  /\ UNCHANGED <<policy, replaced, jobs, trouble>>

\* Another ManageSieve program, or an administrator, edits, deletes or selects scripts.
Outside ==
  /\ Trouble
  /\ \/ \E c \in {Put("other", Foreign(1)), Put("webmail", Foreign(2)), Put("webmail", Newer)} : Effect(c)
     \/ /\ scripts["webmail"] # Nil /\ scripts["webmail"].kind = "rules"
        /\ Effect(Put("webmail", [scripts["webmail"] EXCEPT !.body = 0]))
     \/ \E n \in {"other", "undo-webmail", "undo-active"} : scripts[n] # Nil /\ Possible(Remove(n)) /\ Effect(Remove(n))
     \/ \E n \in {"webmail", "other"} \ {active} : Possible(Activate(n)) /\ Effect(Activate(n))
  /\ Touch
  /\ views' = Reused(views)
  /\ calm' = FALSE
  /\ UNCHANGED <<late, policy, replaced, jobs>>

\* Addresses, domains or folders change, and with them the code rules turn into.
PolicyChange ==
  /\ Trouble
  /\ policy' = policy + 1
  /\ Touch
  /\ UNCHANGED <<scripts, active, late, views, historyVars, jobs>>

-------------------------------------------------------------------------------

Init ==
  /\ \E webmail \in {Nil, Rules(0, 1, 1)}, other \in {Foreign(0), Rules(MaxJobs + 1, 1, 1)} :
       /\ scripts = [n \in Names |-> CASE n = "webmail" -> webmail [] n = "other" -> other [] OTHER -> Nil]
       /\ active \in {n \in Names : scripts[n] # Nil} \union {Nil}
       /\ other # Foreign(0) => active = "other"   \* otherwise nothing depends on it
  /\ late = {} /\ policy = 1
  /\ job = Nil /\ views = [p \in Pages |-> Nil]
  /\ replaced = <<>> /\ calm = FALSE
  /\ jobs = 0 /\ trouble = 0

Next ==
  \/ \E p \in Pages : Save(p) \/ Import(p) \/ Get(p) \/ \E accept \in BOOLEAN : UndoImport(p, accept)
  \/ RenameFolderRefs \/ Reactivate \/ RestoreData \/ RestorePrevious
  \/ Step
  \/ Late \/ Outside \/ PolicyChange

Spec == Init /\ [][Next]_vars

-------------------------------------------------------------------------------
(* Properties.  A request is judged when no one else wrote while it ran.   *)

Judged == job # Nil /\ job.phase = "over"

\* The rules a request replaces, and those an undo is to bring back, are never gone: at every
\* moment, also after an end of the process or a lost answer, some script still holds them
\* (service.js, write, applyImport and undoImport: copies are stored before the original is).
RulesKept ==
  job # Nil =>
    \A c \in job.kept : \E n \in Names : Alike(scripts[n], c)

\* An import that succeeds is active and can be undone; one that fails after it was archived is
\* taken back if the recovery itself meets no fault, and whenever the answer says "restored"
\* everything is as the import found it (service.js, applyImport).
AllOrNothing ==
  Judged /\ job.op = "import" =>
    /\ job.ok => scripts["webmail"] = job.doc /\ active = "webmail" /\ UndoOffered
    /\ ~job.ok /\ job.archived /\ ~job.cut => job.restored
    /\ job.restored => Found = job.was

Undone(found) ==
  /\ Alike(scripts["webmail"], found.script)
  /\ active = found.active
  /\ Alike(Found.source, found.source)
  /\ scripts["import"] = Nil

\* An undo that succeeds leaves the rules, the active script and its contents as the import with
\* that time found them, whatever failed imports and undos left in the archives meanwhile.  One
\* that failed part-way, by a rejection, a lost answer or the end of the process, is complete
\* nevertheless, or can be repeated as it was, without confirming edits nobody made, as long as no
\* other program took the archived copies (service.js, undoImport: the record's hashes; the
\* archives stay until the record is gone; regenerated copies are recognized).
UndoExact ==
  Judged /\ job.op = "undo" =>
    \/ Undone(replaced[job.at])
    \/ /\ ~job.ok
       /\ \/ UndoVerdict(job.at, job.accept) = "ok"
          \/ scripts["import"] # Nil /\ ~CopiesKept(scripts["import"])

\* What the page offers works: an undo it shows is refused only for a source that was changed
\* elsewhere, and as long as only this service writes, it is offered until the next import and
\* accepted, whatever is saved in between (import-store.js, importInfo; ImportResult.jsx).
OfferWorks ==
  /\ Idle /\ UndoOffered =>
       UndoVerdict(scripts["import"].at, TRUE) \in {"ok", "UNDO_SOURCE_CHANGED"}
  /\ calm => UndoOffered /\ UndoVerdict(scripts["import"].at, TRUE) = "ok"

\* A save or an import replaces the rules its page showed, not those of another page; except
\* that an undo, a restored previous version or another program may bring back a revision
\* number with other rules (service.js, save: baseRev; xmlPlan: expect).
ReplacesWhatWasSeen ==
  [][\A p \in Pages :
       views[p] # Nil /\ views'[p] = Nil /\ ~views[p].reused =>
         Alike(scripts["webmail"], views[p].script)]_vars
===============================================================================
