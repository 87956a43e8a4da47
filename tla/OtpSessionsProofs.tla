--------------------------- MODULE OtpSessionsProofs ---------------------------
(***************************************************************************)
(* Proofs about OtpSessions: no code is accepted twice, no request is      *)
(* served without the second factor of its account, and guesses are        *)
(* bounded.                                                                *)
(***************************************************************************)
EXTENDS OtpSessions, TLAPS, SequenceTheorems, FiniteSetTheorems, WellFoundedInduction

Row    == [version : Nat, seed : Nat \union {Nil}, last : Int]
Policy == [force : BOOLEAN, revision : Nat]
Snap   == [row : Row \union {Nil}, policy : Policy]
Draft  == [seed : Nat, base : Nat, revision : Nat, expires : Nat]
Code   == [seed : Nat, step : Nat]
Saved  == [version : Nat, revision : Nat]
States == {"ready", "otp", "enroll"}
Sess   == [phase : {"unused", "live", "dead"}, cookie : Nat, state : States, version : Nat, revision : Nat,
           draft : Draft \union {Nil}, pending : Nat \union {Nil}]
Kinds  == {"use", "begin", "cancel", "verify", "confirm", "disable", "login"}
Slot   == [kind : Kinds, s : Sessions, cookie : Nat, state : States,
           pc : {"read", "check", "authorize", "queued", "recheck", "begin", "store", "saved",
                 "insert", "select", "initialize"},
           snap : Snap \union {Nil}, at : Nat \union {Nil}, code : Code \union {Nil},
           draft : Draft \union {Nil}, saved : Saved \union {Nil}]

\* Steps at which a request makes something of what it read.
Informed(q) == q.pc \in {"check", "authorize", "recheck", "begin", "store", "initialize"}

\* What a request holds at each of its steps.
SlotOK(q) ==
  /\ q \in Slot
  /\ Informed(q) => q.snap \in Snap
  /\ q.pc = "saved" => q.saved \in Saved
  /\ q.kind = "confirm" => q.draft \in Draft
  /\ q.kind = "login" <=> q.pc \in {"insert", "select", "initialize"}

TypeOK ==
  /\ row \in Row \union {Nil} /\ policy \in Policy
  /\ fresh \in Nat /\ now \in Nat
  /\ sess \in [Sessions -> Sess]
  /\ DOMAIN slot = Requests
  /\ \A k \in Requests : slot[k] # Nil => SlotOK(slot[k])
  /\ proved \in [Sessions -> SUBSET Nat]
  /\ used \in Seq(Code)

\* A draft still at hand, of a session or of a request that brought it.
Known(d) == \/ \E s \in Sessions : sess[s].draft # Nil /\ d = sess[s].draft
            \/ \E k \in Requests : slot[k] # Nil /\ slot[k].kind = "confirm" /\ d = slot[k].draft

Spent(seed) == \E i \in DOMAIN used : used[i].seed = seed

\* Versions and seeds are drawn in order.
DrawnOK ==
  /\ row # Nil => row.version <= fresh /\ (row.seed # Nil => row.seed <= fresh)
  /\ \A s \in Sessions : sess[s].version <= fresh
  /\ \A k \in Requests : slot[k] # Nil =>
       /\ Informed(slot[k]) /\ slot[k].snap.row # Nil => slot[k].snap.row.version <= fresh
       /\ slot[k].pc = "saved" => slot[k].saved.version <= fresh
  /\ \A d \in Draft : Known(d) => d.seed <= fresh /\ d.base <= fresh
  /\ \A i \in DOMAIN used : used[i].seed <= fresh

\* A seed that is registered, or of which a code was accepted, cannot be
\* registered from a draft again: the registration has moved on.
DraftsOK ==
  \A d \in Draft : Known(d) /\ row # Nil /\ (Spent(d.seed) \/ (row.seed # Nil /\ row.seed = d.seed)) => row.version > d.base

\* The registration knows the last step a code of its seed was accepted for.
LastOK == row # Nil /\ row.seed # Nil => \A i \in DOMAIN used : used[i].seed = row.seed => used[i].step <= row.last

CodeInv == DrawnOK /\ DraftsOK /\ LastOK /\ CodeOnce

\* One version, one registration: what was read of it is still true.
SameFactor(r, t) == r # Nil /\ t # Nil /\ r.version = t.version => r.seed = t.seed

SnapRow(k) == IF slot[k] = Nil THEN Nil ELSE IF Informed(slot[k]) THEN slot[k].snap.row ELSE Nil

RowsOK ==
  /\ \A k \in Requests : SameFactor(row, SnapRow(k))
  /\ \A k, l \in Requests : SameFactor(SnapRow(k), SnapRow(l))

\* A session that is ready proved the factor of the version it knows, or that
\* version has none.
NoFactor(r, version) == r # Nil /\ r.version = version => r.seed = Nil

ReadyOK ==
  \A s \in Sessions :
    sess[s].phase = "live" /\ sess[s].cookie # 0 /\ sess[s].state = "ready" /\ sess[s].version \notin proved[s] =>
      /\ NoFactor(row, sess[s].version)
      /\ \A k \in Requests : NoFactor(SnapRow(k), sess[s].version)

\* A session is being logged in by one request, and used by none meanwhile.
LoginOK ==
  /\ \A s \in Sessions : sess[s].phase = "unused" =>
       sess[s].cookie = 0 /\ \A k \in Requests : slot[k] # Nil => slot[k].s # s
  /\ \A k, l \in Requests : slot[k] # Nil /\ slot[l] # Nil /\ slot[k].kind = "login" =>
       sess[slot[k].s].cookie = 0 /\ (slot[k].s = slot[l].s => k = l)

\* The cookie of a request is the present one, an older one, or its session is gone.
CookieOK ==
  \A k \in Requests : slot[k] # Nil /\ slot[k].kind # "login" =>
    /\ slot[k].cookie # 0
    /\ slot[k].cookie <= sess[slot[k].s].cookie \/ sess[slot[k].s].phase = "dead"

\* What was found before authorize holds as long as the cookie does.
ServedOK ==
  \A k \in Requests :
    /\ slot[k] # Nil /\ slot[k].pc = "authorize"
    /\ sess[slot[k].s].cookie = slot[k].cookie /\ sess[slot[k].s].state = "ready"
    => /\ Enabled(slot[k].snap.row) => slot[k].snap.row.version \in proved[slot[k].s]
       /\ slot[k].snap.policy.force => Enabled(slot[k].snap.row)

FactorInv == RowsOK /\ ReadyOK /\ LoginOK /\ CookieOK /\ ServedOK

IInv == TypeOK /\ CodeInv /\ FactorInv

-------------------------------------------------------------------------------
(* Types.                                                                  *)

\* A step of one request that only changes its slot, or ends it.
LEMMA GoType ==
  ASSUME TypeOK, NEW k \in Requests, NEW q, Go(k, q), SlotOK(q)
  PROVE  /\ DOMAIN slot' = Requests
         /\ \A l \in Requests : slot'[l] # Nil => SlotOK(slot'[l])
BY DEF TypeOK, Go

LEMMA LeaveType ==
  ASSUME TypeOK, NEW k \in Requests, Leave(k)
  PROVE  /\ DOMAIN slot' = Requests
         /\ \A l \in Requests : slot'[l] # Nil => SlotOK(slot'[l])
BY DEF TypeOK, Leave

LEMMA FailLeaves == ASSUME NEW k, NEW error, Fail(k, error) PROVE Leave(k)
BY DEF Fail

LEMMA DestroyedType ==
  ASSUME TypeOK, NEW s \in Sessions
  PROVE  /\ Destroyed(s) \in [Sessions -> Sess]
         /\ Destroyed(s)[s].phase = "dead" /\ Destroyed(s)[s].cookie = 0 /\ Destroyed(s)[s].draft = Nil
         /\ Destroyed(s)[s].version = sess[s].version
         /\ \A t \in Sessions : t # s => Destroyed(s)[t] = sess[t]
<1>1. Unused \in Sess
  BY DEF Unused, Sess, States
<1>2. sess[s].version \in Nat
  BY DEF TypeOK, Sess
<1>3. [Unused EXCEPT !.phase = "dead", !.version = sess[s].version] \in Sess
  BY <1>1, <1>2 DEF Sess
<1> QED
  BY <1>1, <1>2, <1>3 DEF Destroyed, TypeOK, Unused

\* What checkAccess makes of a session: nothing, or one that must enroll.
LEMMA AdmittedType ==
  ASSUME TypeOK, OtpAssumption, NEW s \in Sessions, NEW snap \in Snap
  PROVE  /\ Admitted(s, snap) \in [Sessions -> Sess]
         /\ \A t \in Sessions : /\ Admitted(s, snap)[t].phase = sess[t].phase
                                /\ Admitted(s, snap)[t].cookie = sess[t].cookie
                                /\ Admitted(s, snap)[t].draft = sess[t].draft
                                /\ Admitted(s, snap)[t].version = sess[t].version
                                /\ Admitted(s, snap)[t].state = "ready" => sess[t].state = "ready"
         /\ Admitted(s, snap)[s].state = "ready" => ~snap.policy.force \/ Enabled(snap.row)
<1> DEFINE enroll == sess[s].state = "ready" /\ ~Enabled(snap.row) /\ snap.policy.force
           new == [sess[s] EXCEPT !.state = IF enroll THEN "enroll" ELSE @,
                                  !.pending = IF enroll THEN now + Pending ELSE @,
                                  !.revision = snap.policy.revision]
<1>1. sess[s] \in Sess /\ snap.policy.revision \in Nat /\ now + Pending \in Nat /\ snap.policy.force \in BOOLEAN
  BY DEF TypeOK, Snap, Policy, OtpAssumption
<1>2. new \in Sess
  BY <1>1 DEF Sess, States
<1>3. /\ new.phase = sess[s].phase /\ new.cookie = sess[s].cookie /\ new.draft = sess[s].draft
      /\ new.version = sess[s].version
      /\ new.state = IF enroll THEN "enroll" ELSE sess[s].state
  BY <1>1 DEF Sess
<1>4. Admitted(s, snap) = [sess EXCEPT ![s] = new]
  BY DEF Admitted, TypeOK
<1> HIDE DEF new
<1> QED
  BY <1>1, <1>2, <1>3, <1>4 DEF TypeOK

LEMMA ArriveType == ASSUME TypeOK, Arrive PROVE TypeOK'
<1>1. PICK k \in Requests, s \in Sessions :
        LET draft == sess[s].draft IN
        /\ slot[k] = Nil /\ Alive(s) /\ sess[s].cookie # 0
        /\ \/ Go(k, Request("use", s, Nil, Nil))
           \/ sess[s].state # "otp" /\ draft = Nil /\ Go(k, Request("begin", s, Nil, Nil))
           \/ sess[s].state = "ready" /\ draft # Nil /\ Go(k, Request("cancel", s, Nil, Nil))
           \/ /\ row # Nil
              /\ \E kind \in {IF sess[s].state = "otp" THEN "verify" ELSE "disable"},
                    code \in {Nil} \union Shown(row.seed) : Go(k, Request(kind, s, code, Nil))
           \/ /\ draft # Nil
              /\ \E code \in {Nil} \union Shown(draft.seed) : Go(k, Request("confirm", s, code, draft))
  BY DEF Arrive
<1>2. sess[s] \in Sess
  BY DEF TypeOK
<1>3. \A seed \in Nat \union {Nil} : Shown(seed) \subseteq Code
  BY DEF Shown, Code
<1>4. ASSUME NEW kind \in Kinds \ {"login"}, NEW code \in Code \union {Nil}, NEW draft \in Draft \union {Nil},
             kind = "confirm" => draft \in Draft
      PROVE  SlotOK(Request(kind, s, code, draft))
  BY <1>2, <1>4 DEF Request, Informed, SlotOK, Slot, Sess, Kinds, States
<1>5. \E q : Go(k, q) /\ SlotOK(q)
  <2>1. CASE \/ Go(k, Request("use", s, Nil, Nil)) \/ Go(k, Request("begin", s, Nil, Nil))
             \/ Go(k, Request("cancel", s, Nil, Nil))
    BY <1>4, <2>1 DEF Kinds
  <2>2. CASE /\ row # Nil
             /\ \E kind \in {IF sess[s].state = "otp" THEN "verify" ELSE "disable"},
                   code \in {Nil} \union Shown(row.seed) : Go(k, Request(kind, s, code, Nil))
    <3>1. row.seed \in Nat \union {Nil}
      BY <2>2 DEF TypeOK, Row
    <3>2. PICK kind \in {"verify", "disable"}, code \in Code \union {Nil} : Go(k, Request(kind, s, code, Nil))
      BY <1>3, <2>2, <3>1
    <3> QED
      BY <1>4, <3>2 DEF Kinds
  <2>3. CASE /\ sess[s].draft # Nil
             /\ \E code \in {Nil} \union Shown(sess[s].draft.seed) : Go(k, Request("confirm", s, code, sess[s].draft))
    <3>1. sess[s].draft \in Draft /\ sess[s].draft.seed \in Nat
      BY <1>2, <2>3 DEF Sess, Draft
    <3>2. PICK code \in Code \union {Nil} : Go(k, Request("confirm", s, code, sess[s].draft))
      BY <1>3, <2>3, <3>1
    <3> QED
      BY <1>4, <3>1, <3>2 DEF Kinds
  <2> QED
    BY <1>1, <2>1, <2>2, <2>3
<1>6. DOMAIN slot' = Requests /\ \A l \in Requests : slot'[l] # Nil => SlotOK(slot'[l])
  BY <1>5, GoType
<1> QED
  BY <1>6 DEF Arrive, TypeOK, db, history

\* A request that fails, and one that reads, change nothing but its slot.
LEMMA ReadType ==
  ASSUME TypeOK, NEW k \in Requests, slot[k] # Nil, Read(k) \/ ReadFails(k) \/ Authorize(k) \/ ReadAgain(k)
  PROVE  TypeOK'
<1>1. SlotOK(slot[k]) /\ slot[k] \in Slot
  BY DEF TypeOK, SlotOK
<1>2. [row |-> row, policy |-> policy] \in Snap
  BY DEF TypeOK, Snap
<1>3. CASE \/ Read(k)
           \/ ReadAgain(k) /\ Alive(slot[k].s)
  <2>1. PICK pc \in {"check", "recheck"} : Go(k, [slot[k] EXCEPT !.pc = pc, !.snap = [row |-> row, policy |-> policy]])
    BY <1>3 DEF Read, ReadAgain
  <2>2. slot[k].kind # "login"
    BY <1>1, <1>3 DEF SlotOK, Read, ReadAgain
  <2>3. SlotOK([slot[k] EXCEPT !.pc = pc, !.snap = [row |-> row, policy |-> policy]])
    BY <1>1, <1>2, <2>2 DEF SlotOK, Slot, Informed
  <2>4. DOMAIN slot' = Requests /\ \A l \in Requests : slot'[l] # Nil => SlotOK(slot'[l])
    BY <2>1, <2>3, GoType
  <2> QED
    BY <1>3, <2>4 DEF Read, ReadAgain, TypeOK, db, history
<1>4. CASE \/ ReadFails(k) \/ (ReadAgain(k) /\ ~Alive(slot[k].s))
           \/ (Authorize(k) /\ Leave(k))
  <2>1. Leave(k)
    BY <1>4, FailLeaves DEF ReadFails, ReadAgain
  <2>2. DOMAIN slot' = Requests /\ \A l \in Requests : slot'[l] # Nil => SlotOK(slot'[l])
    BY <2>1, LeaveType
  <2> QED
    BY <1>4, <2>2 DEF ReadFails, ReadAgain, Authorize, TypeOK, db, history
<1>5. CASE Authorize(k) /\ ~Leave(k)
  <2>1. PICK at \in Nat \union {Nil} : slot' = [slot EXCEPT ![k] = [slot[k] EXCEPT !.pc = "queued", !.at = at]]
    BY <1>5, FailLeaves DEF Authorize, TypeOK
  <2>2. slot[k].kind # "login"
    BY <1>1, <1>5 DEF SlotOK, Authorize
  <2>3. SlotOK([slot[k] EXCEPT !.pc = "queued", !.at = at])
    BY <1>1, <2>2 DEF SlotOK, Slot, Informed
  <2> QED
    BY <1>5, <2>1, <2>3 DEF Authorize, TypeOK, db, history
<1> QED
  BY <1>3, <1>4, <1>5

LEMMA SlotOKHere ==
  ASSUME TypeOK, NEW k \in Requests, slot[k] # Nil
  PROVE  SlotOK(slot[k]) /\ slot[k] \in Slot /\ slot[k].s \in Sessions /\ sess[slot[k].s] \in Sess
BY DEF TypeOK, SlotOK, Slot

LEMMA CheckType ==
  ASSUME TypeOK, OtpAssumption, NEW k \in Requests, slot[k] # Nil, Check(k) \/ Recheck(k)
  PROVE  TypeOK'
<1> DEFINE q == slot[k]
           next == Admitted(q.s, q.snap)
<1>1. SlotOK(q) /\ q \in Slot /\ q.s \in Sessions /\ q.snap \in Snap /\ q.kind # "login"
  BY SlotOKHere DEF SlotOK, Informed, Check, Recheck
<1>2. next \in [Sessions -> Sess] /\ Destroyed(q.s) \in [Sessions -> Sess] /\ sess \in [Sessions -> Sess]
  BY <1>1, AdmittedType, DestroyedType DEF TypeOK
<1>3. [next EXCEPT ![q.s].draft = Nil] \in [Sessions -> Sess]
  <2>1. next[q.s] \in Sess
    BY <1>1, <1>2
  <2> HIDE DEF next
  <2>2. [next[q.s] EXCEPT !.draft = Nil] \in Sess
    BY <2>1 DEF Sess
  <2> QED
    BY <1>1, <1>2, <2>1, <2>2
<1>4. sess' \in {sess, next, Destroyed(q.s), [next EXCEPT ![q.s].draft = Nil]}
  BY DEF Check, Recheck
<1>5. \/ Leave(k)
      \/ \E pc \in {"authorize", "begin", "store"} : Go(k, [q EXCEPT !.pc = pc])
  BY FailLeaves DEF Check, Recheck
<1>6. \A pc \in {"authorize", "begin", "store"} : SlotOK([q EXCEPT !.pc = pc])
  BY <1>1 DEF SlotOK, Slot, Informed
<1>7. DOMAIN slot' = Requests /\ \A l \in Requests : slot'[l] # Nil => SlotOK(slot'[l])
  BY <1>5, <1>6, GoType, LeaveType
<1>8. sess' \in [Sessions -> Sess]
  BY <1>2, <1>3, <1>4
<1> HIDE DEF next
<1> QED
  BY <1>7, <1>8 DEF Check, Recheck, TypeOK, db, history

LEMMA BeginType ==
  ASSUME TypeOK, OtpAssumption, NEW k \in Requests, slot[k] # Nil, Begin(k)
  PROVE  TypeOK'
<1> DEFINE q == slot[k]
           p == sess[q.s].pending
           new == [seed |-> fresh + 1, base |-> sess[q.s].version, revision |-> q.snap.policy.revision,
                   expires |-> IF p # Nil /\ p < now + Pending THEN p ELSE now + Pending]
<1>1. q.s \in Sessions /\ sess[q.s] \in Sess /\ q.snap \in Snap
  BY SlotOKHere DEF SlotOK, Informed, Begin
<1>2. new \in Draft
  <2>1. Pending \in Nat /\ now \in Nat /\ fresh \in Nat
    BY DEF OtpAssumption, TypeOK
  <2> QED
    BY <1>1, <2>1 DEF Draft, Sess, Snap, Policy
<1>3. DOMAIN slot' = Requests /\ \A l \in Requests : slot'[l] # Nil => SlotOK(slot'[l])
  BY LeaveType DEF Begin
<1>4. \/ UNCHANGED <<sess, fresh>>
      \/ fresh' = fresh + 1 /\ sess' = [sess EXCEPT ![q.s] = [sess[q.s] EXCEPT !.draft = new]]
  BY DEF Begin
<1>5. [sess[q.s] EXCEPT !.draft = new] \in Sess
  BY <1>1, <1>2 DEF Sess
<1> HIDE DEF new
<1>6. sess' \in [Sessions -> Sess] /\ fresh' \in Nat
  BY <1>1, <1>4, <1>5 DEF TypeOK
<1> QED
  BY <1>3, <1>6 DEF Begin, TypeOK, history

LEMMA StoreFailsType ==
  ASSUME TypeOK, NEW k \in Requests, slot[k] # Nil, StoreFails(k)
  PROVE  TypeOK'
<1>1. slot[k].s \in Sessions
  BY SlotOKHere
<1>2. sess' \in [Sessions -> Sess]
  BY <1>1, DestroyedType DEF StoreFails, TypeOK
<1>3. Leave(k)
  BY FailLeaves DEF StoreFails
<1>4. DOMAIN slot' = Requests /\ \A l \in Requests : slot'[l] # Nil => SlotOK(slot'[l])
  BY <1>3, LeaveType
<1> QED
  BY <1>2, <1>4 DEF StoreFails, TypeOK, db

\* What a code of the request that was accepted is, and what it leaves registered.
LEMMA AcceptedCode ==
  ASSUME TypeOK, NEW k \in Requests, slot[k] # Nil, Store(k)
  PROVE  LET q == slot[k] IN
         /\ q.code \in Code /\ row \in Row /\ row # Nil
         /\ Stored(q) \in Row /\ fresh' \in Nat
         /\ q.kind = "confirm" =>
              /\ q.draft \in Draft /\ q.code.seed = q.draft.seed
              /\ row.version = q.draft.base
              /\ Stored(q).version = fresh + 1 /\ Stored(q).seed = q.draft.seed /\ Stored(q).last = q.code.step
         /\ q.kind # "confirm" => row.seed # Nil /\ q.code.seed = row.seed /\ q.code.step > row.last
         /\ q.kind = "disable" => Stored(q).version = fresh + 1 /\ Stored(q).seed = Nil
         /\ q.kind \notin {"confirm", "disable"} =>
              /\ Stored(q).version = row.version /\ Stored(q).seed = row.seed /\ Stored(q).last = q.code.step
<1> DEFINE q == slot[k]
<1>1. SlotOK(q) /\ q \in Slot
  BY SlotOKHere
<1>2. row \in Row /\ row # Nil
  BY DEF Store, Conflict, TypeOK
<1>3. q.code \in Code
  BY <1>1 DEF Store, Accepted, Matches, Slot
<1>4. CASE q.kind = "confirm"
  <2>1. q.draft \in Draft
    BY <1>1, <1>4 DEF SlotOK
  <2>2. q.code.seed = q.draft.seed
    BY <1>4 DEF Store, Accepted, Matches, Seed
  <2>3. row.version = q.draft.base
    BY <1>4 DEF Store, Conflict
  <2>4. Stored(q) = [version |-> fresh + 1, seed |-> q.draft.seed, last |-> q.code.step]
    BY <1>4 DEF Stored, Confirmed
  <2>5. Stored(q) \in Row
    BY <1>3, <2>1, <2>4 DEF Row, Draft, Code, TypeOK
  <2> QED
    BY <1>2, <1>3, <1>4, <2>1, <2>2, <2>3, <2>4, <2>5 DEF Store, TypeOK
<1>5. CASE q.kind # "confirm"
  <2>1. row.seed # Nil /\ q.code.seed = row.seed /\ q.code.step > row.last
    BY <1>5 DEF Store, Accepted, Matches, Seed
  <2>2. CASE q.kind = "disable"
    <3>1. Stored(q) = [version |-> fresh + 1, seed |-> Nil, last |-> -1]
      BY <2>2 DEF Stored
    <3> QED
      BY <1>2, <1>3, <2>1, <2>2, <3>1 DEF Row, TypeOK, Store
  <2>3. CASE q.kind # "disable"
    <3>1. Stored(q) = [row EXCEPT !.last = q.code.step]
      BY <1>5, <2>3 DEF Stored
    <3>2. q.code.step \in Int
      BY <1>3 DEF Code
    <3> QED
      BY <1>2, <1>3, <1>5, <2>1, <2>3, <3>1, <3>2 DEF Row, TypeOK, Store
  <2> QED
    BY <2>2, <2>3
<1> QED
  BY <1>4, <1>5

LEMMA StoreType ==
  ASSUME TypeOK, NEW k \in Requests, slot[k] # Nil, Store(k)
  PROVE  TypeOK'
<1> DEFINE q == slot[k]
           new == [q EXCEPT !.pc = "saved", !.saved = [version |-> row'.version, revision |-> policy.revision]]
<1>1. SlotOK(q) /\ q \in Slot /\ q.kind # "login"
  BY SlotOKHere DEF SlotOK, Store
<1>2. row' \in Row /\ fresh' \in Nat /\ q.code \in Code
  BY AcceptedCode DEF Store
<1>3. [version |-> row'.version, revision |-> policy.revision] \in Saved
  BY <1>2 DEF Saved, Row, Policy, TypeOK
<1>4. SlotOK(new)
  BY <1>1, <1>3 DEF SlotOK, Slot, Informed
<1>5. Leave(k) \/ Go(k, new)
  BY FailLeaves DEF Store
<1> HIDE DEF new
<1>6. DOMAIN slot' = Requests /\ \A l \in Requests : slot'[l] # Nil => SlotOK(slot'[l])
  BY <1>4, <1>5, GoType, LeaveType
<1>7. used' \in Seq(Code)
  BY <1>2, AppendProperties DEF Store, TypeOK
<1> QED
  BY <1>2, <1>6, <1>7 DEF Store, TypeOK

LEMMA RotateType ==
  ASSUME TypeOK, NEW k \in Requests, slot[k] # Nil, Rotate(k)
  PROVE  TypeOK'
<1> DEFINE q == slot[k]
<1>1. q.s \in Sessions /\ q.saved \in Saved
  BY SlotOKHere DEF SlotOK, Rotate
<1>2. DOMAIN slot' = Requests /\ \A l \in Requests : slot'[l] # Nil => SlotOK(slot'[l])
  BY LeaveType DEF Rotate
<1>3. CASE UNCHANGED <<sess, proved>>
  BY <1>2, <1>3 DEF Rotate, TypeOK, db
<1>4. CASE ~UNCHANGED <<sess, proved>>
  <2> DEFINE mine(s) == [sess[s] EXCEPT !.cookie = @ + 1, !.state = "ready", !.pending = Nil, !.draft = Nil,
                                        !.version = q.saved.version, !.revision = q.saved.revision]
  <2>1. /\ sess' = [s \in Sessions |-> IF s = q.s THEN mine(s)
                    ELSE IF q.kind # "verify" /\ sess[s].phase = "live" THEN Destroyed(s)[s] ELSE sess[s]]
        /\ proved' = [proved EXCEPT ![q.s] = @ \union {q.saved.version}]
    BY <1>4 DEF Rotate
  <2>2. \A s \in Sessions : mine(s) \in Sess /\ Destroyed(s)[s] \in Sess /\ sess[s] \in Sess
    <3> SUFFICES ASSUME NEW s \in Sessions PROVE mine(s) \in Sess /\ Destroyed(s)[s] \in Sess /\ sess[s] \in Sess
      OBVIOUS
    <3>1. sess[s] \in Sess /\ Destroyed(s)[s] \in Sess
      BY DestroyedType DEF TypeOK
    <3>2. q.saved.version \in Nat /\ q.saved.revision \in Nat /\ sess[s].cookie + 1 \in Nat
      BY <1>1, <3>1 DEF Sess, Saved
    <3>3. mine(s) = [sess[s] EXCEPT !.cookie = sess[s].cookie + 1, !.state = "ready", !.pending = Nil, !.draft = Nil,
                                    !.version = q.saved.version, !.revision = q.saved.revision]
      BY <3>1 DEF Sess
    <3>4. mine(s) \in Sess
      BY <3>1, <3>2, <3>3 DEF Sess, States
    <3> QED
      BY <3>1, <3>4
  <2> HIDE DEF mine
  <2>3. sess' \in [Sessions -> Sess]
    BY <2>1, <2>2
  <2>4. proved' \in [Sessions -> SUBSET Nat]
    BY <1>1, <2>1 DEF TypeOK, Saved
  <2> QED
    BY <1>2, <2>3, <2>4 DEF Rotate, TypeOK, db
<1> QED
  BY <1>3, <1>4

LEMMA LoginType == ASSUME TypeOK, Login PROVE TypeOK'
<1>1. PICK k \in Requests, s \in Sessions :
        /\ slot[k] = Nil /\ sess[s].phase = "unused"
        /\ sess' = [sess EXCEPT ![s].phase = "live"]
        /\ slot' = [slot EXCEPT ![k] = [Request("login", s, Nil, Nil) EXCEPT !.pc = "insert"]]
  BY DEF Login
<1>2. sess[s] \in Sess
  BY DEF TypeOK
<1>3. SlotOK([Request("login", s, Nil, Nil) EXCEPT !.pc = "insert"])
  BY <1>2 DEF Request, Informed, SlotOK, Slot, Sess, Kinds, States
<1>4. [sess[s] EXCEPT !.phase = "live"] \in Sess
  BY <1>2 DEF Sess
<1> QED
  BY <1>1, <1>3, <1>4 DEF Login, TypeOK, db, history

LEMMA LoggedInType ==
  ASSUME TypeOK, OtpAssumption, NEW snap \in Snap, snap.row # Nil
  PROVE  /\ LoggedIn(snap) \in Sess
         /\ LoggedIn(snap).draft = Nil /\ LoggedIn(snap).version = snap.row.version
         /\ LoggedIn(snap).state = "ready" => ~Enabled(snap.row)
<1>1. snap.row \in Row /\ snap.policy \in Policy
  BY DEF Snap
<1>2. now + Pending \in Nat
  BY DEF TypeOK, OtpAssumption
<1> QED
  BY <1>1, <1>2 DEF LoggedIn, Sess, States, Row, Policy

LEMMA EnterType ==
  ASSUME TypeOK, OtpAssumption, NEW k \in Requests, slot[k] # Nil,
         EnsureAccount(k) \/ Initialize(k) \/ LoginFails(k)
  PROVE  TypeOK'
<1> DEFINE q == slot[k]
<1>1. SlotOK(q) /\ q \in Slot /\ q.s \in Sessions /\ sess[q.s] \in Sess
  BY SlotOKHere
<1>2. [row |-> row, policy |-> policy] \in Snap
  BY DEF TypeOK, Snap
<1>3. CASE q.pc = "insert" /\ Go(k, [q EXCEPT !.pc = "select"])
           /\ UNCHANGED <<policy, now, sess, bucket, history, asked, events>>
           /\ (UNCHANGED <<row, fresh>> \/ (row' = [version |-> fresh + 1, seed |-> Nil, last |-> -1] /\ fresh' = fresh + 1))
  <2>1. SlotOK([q EXCEPT !.pc = "select"])
    BY <1>1, <1>3 DEF SlotOK, Slot, Informed
  <2>2. DOMAIN slot' = Requests /\ \A l \in Requests : slot'[l] # Nil => SlotOK(slot'[l])
    BY <1>3, <2>1, GoType
  <2>3. row' \in Row \union {Nil} /\ fresh' \in Nat
    BY <1>3 DEF TypeOK, Row
  <2> QED
    BY <1>3, <2>2, <2>3 DEF TypeOK, history
<1>4. CASE /\ q.pc = "select"
           /\ Go(k, [q EXCEPT !.pc = "initialize", !.snap = [row |-> row, policy |-> policy]])
           /\ UNCHANGED <<db, now, sess, bucket, history, asked, events>>
  <2>1. SlotOK([q EXCEPT !.pc = "initialize", !.snap = [row |-> row, policy |-> policy]])
    BY <1>1, <1>2, <1>4 DEF SlotOK, Slot, Informed
  <2>2. DOMAIN slot' = Requests /\ \A l \in Requests : slot'[l] # Nil => SlotOK(slot'[l])
    BY <1>4, <2>1, GoType
  <2> QED
    BY <1>4, <2>2 DEF TypeOK, db, history
<1>5. CASE Initialize(k)
  <2>1. q.snap \in Snap
    BY <1>1, <1>5 DEF SlotOK, Informed, Initialize
  <2>2. ASSUME q.snap.row # Nil PROVE [LoggedIn(q.snap) EXCEPT !.phase = sess[q.s].phase] \in Sess
    <3>1. LoggedIn(q.snap) \in Sess
      BY <2>1, <2>2, LoggedInType
    <3> QED
      BY <1>1, <3>1 DEF Sess
  <2>3. sess' \in [Sessions -> Sess]
    BY <1>1, <1>5, <2>2, DestroyedType DEF Initialize, TypeOK
  <2>4. DOMAIN slot' = Requests /\ \A l \in Requests : slot'[l] # Nil => SlotOK(slot'[l])
    BY <1>5, LeaveType DEF Initialize
  <2> QED
    BY <1>5, <2>3, <2>4 DEF Initialize, TypeOK, db, history
<1>6. CASE LoginFails(k)
  <2>1. DOMAIN slot' = Requests /\ \A l \in Requests : slot'[l] # Nil => SlotOK(slot'[l])
    BY <1>6, LeaveType DEF LoginFails
  <2> QED
    BY <1>1, <1>6, <2>1, DestroyedType DEF LoginFails, TypeOK, db, history
<1> QED
  BY <1>3, <1>4, <1>5, <1>6 DEF EnsureAccount

LEMMA OutsideType == ASSUME TypeOK, Logout \/ Sweep \/ Admin \/ Tick PROVE TypeOK'
<1>1. CASE Logout
  <2>1. sess' \in [Sessions -> Sess]
    BY <1>1, DestroyedType DEF Logout
  <2> QED
    BY <1>1, <2>1 DEF Logout, TypeOK, db, history
<1>2. CASE Sweep
  <2>1. PICK s \in Sessions : sess' = [sess EXCEPT ![s].draft = Nil]
    BY <1>2 DEF Sweep
  <2>2. sess[s] \in Sess
    BY DEF TypeOK
  <2>3. [sess[s] EXCEPT !.draft = Nil] \in Sess
    BY <2>2 DEF Sess
  <2> QED
    BY <1>2, <2>1, <2>3 DEF Sweep, TypeOK, db, history
<1>3. CASE Admin
  <2>1. policy' \in Policy
    <3>1. policy.revision + 1 \in Nat /\ (~policy.force) \in BOOLEAN /\ policy \in Policy
      BY DEF TypeOK, Policy
    <3>2. [force |-> ~policy.force, revision |-> policy.revision + 1] \in Policy
      BY <3>1 DEF Policy
    <3> QED
      BY <1>3, <3>1, <3>2 DEF Admin
  <2>2. [version |-> fresh + 1, seed |-> Nil, last |-> -1] \in Row /\ fresh + 1 \in Nat
    BY DEF TypeOK, Row
  <2>3. row' \in Row \union {Nil} /\ fresh' \in Nat
    BY <1>3, <2>2 DEF Admin, TypeOK
  <2> QED
    BY <1>3, <2>1, <2>3 DEF Admin, TypeOK, history
<1>4. CASE Tick
  BY <1>4 DEF Tick, TypeOK, db, history
<1> QED
  BY <1>1, <1>2, <1>3, <1>4

LEMMA NextType == ASSUME TypeOK, OtpAssumption, [Next]_vars PROVE TypeOK'
<1>1. ASSUME NEW k \in Requests, Handle(k) PROVE TypeOK'
  BY <1>1, ReadType, CheckType, BeginType, StoreFailsType, StoreType, RotateType, EnterType DEF Handle
<1>2. CASE UNCHANGED vars
  BY <1>2 DEF vars, TypeOK, db, history
<1> QED
  BY <1>1, <1>2, ArriveType, LoginType, OutsideType DEF Next

-------------------------------------------------------------------------------
(* Codes.                                                                  *)

\* What a slot holds was drawn already, and its draft is known.
Drawn(q) == /\ q.kind = "confirm" => Known(q.draft)
            /\ Informed(q) /\ q.snap.row # Nil => q.snap.row.version <= fresh
            /\ q.pc = "saved" => q.saved.version <= fresh

LEMMA DrawnHere ==
  ASSUME DrawnOK, NEW k \in Requests, slot[k] # Nil
  PROVE  Drawn(slot[k])
BY DEF DrawnOK, Drawn, Known

\* A step that registers nothing and accepts nothing.
LEMMA KeepsCodes ==
  ASSUME TypeOK, TypeOK', CodeInv, UNCHANGED <<row, fresh, used>>,
         \A s \in Sessions : /\ sess'[s].draft # Nil => Known(sess'[s].draft)
                             /\ sess'[s].version <= fresh,
         \A k \in Requests : slot'[k] # Nil => Drawn(slot'[k])
  PROVE  CodeInv'
<1>1. \A d \in Draft : Known(d)' => Known(d)
  BY DEF Known, Drawn
<1>2. DrawnOK'
  BY <1>1 DEF CodeInv, DrawnOK, Drawn
<1>3. DraftsOK'
  BY <1>1 DEF CodeInv, DraftsOK, Spent
<1>4. LastOK' /\ CodeOnce'
  BY DEF CodeInv, LastOK, CodeOnce
<1> QED
  BY <1>2, <1>3, <1>4 DEF CodeInv

LEMMA KeepsSessions ==
  ASSUME TypeOK, CodeInv, UNCHANGED sess
  PROVE  \A s \in Sessions : (sess'[s].draft # Nil => Known(sess'[s].draft)) /\ sess'[s].version <= fresh
BY DEF CodeInv, DrawnOK, Known

LEMMA LeaveDrawn ==
  ASSUME TypeOK, CodeInv, NEW k \in Requests, Leave(k)
  PROVE  \A l \in Requests : slot'[l] # Nil => Drawn(slot'[l])
<1>1. \A l \in Requests : slot'[l] # Nil => slot'[l] = slot[l]
  BY DEF Leave, TypeOK
<1> QED
  BY <1>1, DrawnHere DEF CodeInv

LEMMA GoDrawn ==
  ASSUME TypeOK, CodeInv, NEW k \in Requests, NEW q, slot' = [slot EXCEPT ![k] = q], Drawn(q)
  PROVE  \A l \in Requests : slot'[l] # Nil => Drawn(slot'[l])
<1>1. \A l \in Requests : slot'[l] # Nil => slot'[l] = slot[l] \/ slot'[l] = q
  BY DEF TypeOK
<1> QED
  BY <1>1, DrawnHere DEF CodeInv

LEMMA ReadDrawn ==
  ASSUME TypeOK, CodeInv, NEW q, Drawn(q), NEW r, r.kind = q.kind, r.draft = q.draft, r.pc # "saved",
         r.snap = [row |-> row, policy |-> policy]
  PROVE  Drawn(r)
BY DEF CodeInv, DrawnOK, Drawn

LEMMA ArriveCodes == ASSUME TypeOK, TypeOK', CodeInv, Arrive PROVE CodeInv'
<1>1. \A s \in Sessions : \A kind, code, draft :
        kind # "confirm" \/ (draft # Nil /\ draft = sess[s].draft) => Drawn(Request(kind, s, code, draft))
  BY DEF Drawn, Request, Known, Informed
<1> HIDE DEF Request
<1>2. \E k \in Requests : \E q : Go(k, q) /\ Drawn(q)
  <2>1. PICK k \in Requests, s \in Sessions : \E kind, code, draft :
          /\ Go(k, Request(kind, s, code, draft))
          /\ kind # "confirm" \/ (draft # Nil /\ draft = sess[s].draft)
    BY DEF Arrive
  <2> QED
    BY <1>1, <2>1
<1>3. \A l \in Requests : slot'[l] # Nil => Drawn(slot'[l])
  BY <1>2, GoDrawn DEF Go
<1>4. UNCHANGED <<row, fresh, used, sess>>
  BY DEF Arrive, db, history
<1> QED
  BY <1>3, <1>4, KeepsCodes, KeepsSessions

LEMMA ReadCodes ==
  ASSUME TypeOK, TypeOK', CodeInv, NEW k \in Requests, slot[k] # Nil,
         Read(k) \/ ReadFails(k) \/ Authorize(k) \/ ReadAgain(k)
  PROVE  CodeInv'
<1>1. SlotOK(slot[k]) /\ slot[k] \in Slot /\ Drawn(slot[k])
  BY SlotOKHere, DrawnHere DEF CodeInv
<1>2. CASE Leave(k)
  <2>1. UNCHANGED <<row, fresh, used, sess>>
    BY DEF Read, ReadFails, Authorize, ReadAgain, db, history
  <2> QED
    BY <1>2, <2>1, LeaveDrawn, KeepsCodes, KeepsSessions
<1>3. CASE ~Leave(k)
  <2>1. PICK q : slot' = [slot EXCEPT ![k] = q] /\ Drawn(q)
    <3>1. CASE \E pc \in {"check", "recheck"} :
                 slot' = [slot EXCEPT ![k] = [slot[k] EXCEPT !.pc = pc, !.snap = [row |-> row, policy |-> policy]]]
      <4>1. PICK pc \in {"check", "recheck"} :
                 slot' = [slot EXCEPT ![k] = [slot[k] EXCEPT !.pc = pc, !.snap = [row |-> row, policy |-> policy]]]
        BY <3>1
      <4>2. Drawn([slot[k] EXCEPT !.pc = pc, !.snap = [row |-> row, policy |-> policy]])
        BY <1>1, ReadDrawn DEF Slot
      <4> QED
        BY <4>1, <4>2
    <3>2. CASE \E at : slot' = [slot EXCEPT ![k] = [slot[k] EXCEPT !.pc = "queued", !.at = at]]
      <4>1. PICK at : slot' = [slot EXCEPT ![k] = [slot[k] EXCEPT !.pc = "queued", !.at = at]]
        BY <3>2
      <4>2. Drawn([slot[k] EXCEPT !.pc = "queued", !.at = at])
        BY <1>1 DEF Drawn, Slot, Informed
      <4> QED
        BY <4>1, <4>2
    <3> QED
      BY <1>3, <3>1, <3>2, FailLeaves DEF Read, ReadFails, Authorize, ReadAgain, Go
  <2>2. UNCHANGED <<row, fresh, used, sess>>
    BY DEF Read, ReadFails, Authorize, ReadAgain, db, history
  <2> QED
    BY <2>1, <2>2, GoDrawn, KeepsCodes, KeepsSessions
<1> QED
  BY <1>2, <1>3

\* Drafts and versions of the sessions after a step that makes none.
LEMMA SameSessions ==
  ASSUME TypeOK, CodeInv,
         \A s \in Sessions : (sess'[s].draft = Nil \/ sess'[s].draft = sess[s].draft) /\ sess'[s].version = sess[s].version
  PROVE  \A s \in Sessions : (sess'[s].draft # Nil => Known(sess'[s].draft)) /\ sess'[s].version <= fresh
BY DEF CodeInv, DrawnOK, Known

LEMMA CheckSessions ==
  ASSUME TypeOK, OtpAssumption, NEW k \in Requests, slot[k] # Nil, Check(k) \/ Recheck(k)
  PROVE  \A s \in Sessions : (sess'[s].draft = Nil \/ sess'[s].draft = sess[s].draft) /\ sess'[s].version = sess[s].version
<1> DEFINE q == slot[k]
           next == Admitted(q.s, q.snap)
<1>1. q.s \in Sessions /\ q.snap \in Snap
  BY SlotOKHere DEF SlotOK, Informed, Check, Recheck
<1>2. /\ next \in [Sessions -> Sess]
      /\ \A s \in Sessions : next[s].draft = sess[s].draft /\ next[s].version = sess[s].version
  BY <1>1, AdmittedType
<1>3. sess' \in {sess, next, Destroyed(q.s), [next EXCEPT ![q.s].draft = Nil]}
  BY DEF Check, Recheck
<1> HIDE DEF next
<1>4. CASE sess' = [next EXCEPT ![q.s].draft = Nil]
  <2>1. next[q.s] \in Sess
    BY <1>1, <1>2
  <2>2. [next[q.s] EXCEPT !.draft = Nil].draft = Nil /\ [next[q.s] EXCEPT !.draft = Nil].version = next[q.s].version
    BY <2>1 DEF Sess
  <2> QED
    BY <1>1, <1>2, <1>4, <2>2
<1>5. CASE sess' = Destroyed(q.s)
  BY <1>1, <1>5, DestroyedType
<1> QED
  BY <1>2, <1>3, <1>4, <1>5

LEMMA CheckCodes ==
  ASSUME TypeOK, TypeOK', OtpAssumption, CodeInv, NEW k \in Requests, slot[k] # Nil, Check(k) \/ Recheck(k)
  PROVE  CodeInv'
<1>1. slot[k] \in Slot /\ Drawn(slot[k])
  BY SlotOKHere, DrawnHere DEF CodeInv
<1>2. \A pc \in {"authorize", "begin", "store"} : Drawn([slot[k] EXCEPT !.pc = pc])
  <2>1. Informed(slot[k])
    BY DEF Informed, Check, Recheck
  <2> QED
    BY <1>1, <2>1 DEF Drawn, Slot
<1>3. Leave(k) \/ \E pc \in {"authorize", "begin", "store"} : Go(k, [slot[k] EXCEPT !.pc = pc])
  BY FailLeaves DEF Check, Recheck
<1>4. \A l \in Requests : slot'[l] # Nil => Drawn(slot'[l])
  BY <1>2, <1>3, LeaveDrawn, GoDrawn DEF Go
<1>5. UNCHANGED <<row, fresh, used>>
  BY DEF Check, Recheck, db, history
<1>6. \A s \in Sessions : (sess'[s].draft # Nil => Known(sess'[s].draft)) /\ sess'[s].version <= fresh
  BY CheckSessions, SameSessions
<1> QED
  BY <1>4, <1>5, <1>6, KeepsCodes

LEMMA StoreFailsCodes ==
  ASSUME TypeOK, TypeOK', CodeInv, NEW k \in Requests, slot[k] # Nil, StoreFails(k)
  PROVE  CodeInv'
<1>1. Leave(k) /\ UNCHANGED <<row, fresh, used>>
  BY FailLeaves DEF StoreFails, db
<1>2. sess' = sess \/ sess' = Destroyed(slot[k].s)
  BY DEF StoreFails
<1>3. \A s \in Sessions : (sess'[s].draft # Nil => Known(sess'[s].draft)) /\ sess'[s].version <= fresh
  <2>1. slot[k].s \in Sessions
    BY SlotOKHere
  <2>2. \A s \in Sessions : (sess'[s].draft = Nil \/ sess'[s].draft = sess[s].draft) /\ sess'[s].version = sess[s].version
    BY <1>2, <2>1, DestroyedType
  <2> QED
    BY <2>2, SameSessions
<1> QED
  BY <1>1, <1>3, LeaveDrawn, KeepsCodes

LEMMA RotateCodes ==
  ASSUME TypeOK, TypeOK', CodeInv, NEW k \in Requests, slot[k] # Nil, Rotate(k)
  PROVE  CodeInv'
<1> DEFINE q == slot[k]
<1>1. q.s \in Sessions /\ q.saved \in Saved /\ Drawn(q)
  BY SlotOKHere, DrawnHere DEF SlotOK, Rotate, CodeInv
<1>2. Leave(k) /\ UNCHANGED <<row, fresh, used>>
  BY DEF Rotate, db
<1>3. q.saved.version <= fresh
  BY <1>1 DEF Drawn, Rotate
<1>4. CASE UNCHANGED sess
  BY <1>2, <1>4, LeaveDrawn, KeepsCodes, KeepsSessions
<1>5. CASE ~UNCHANGED sess
  <2>1. sess' = [s \in Sessions |->
          IF s = q.s
          THEN [sess[s] EXCEPT !.cookie = @ + 1, !.state = "ready", !.pending = Nil, !.draft = Nil,
                               !.version = q.saved.version, !.revision = q.saved.revision]
          ELSE IF q.kind # "verify" /\ sess[s].phase = "live" THEN Destroyed(s)[s] ELSE sess[s]]
    BY <1>5 DEF Rotate
  <2>2. ASSUME NEW s \in Sessions
        PROVE  (sess'[s].draft # Nil => Known(sess'[s].draft)) /\ sess'[s].version <= fresh
    <3>1. sess[s] \in Sess /\ sess[s].version <= fresh /\ (sess[s].draft # Nil => Known(sess[s].draft))
      BY DEF TypeOK, CodeInv, DrawnOK, Known
    <3>2. CASE s = q.s
      <4>1. sess'[s].draft = Nil /\ sess'[s].version = q.saved.version
        BY <2>1, <3>1, <3>2 DEF Sess
      <4> QED
        BY <1>3, <4>1
    <3>3. CASE s # q.s
      BY <2>1, <3>1, <3>3, DestroyedType
    <3> QED
      BY <3>2, <3>3
  <2> QED
    BY <1>2, <2>2, LeaveDrawn, KeepsCodes
<1> QED
  BY <1>4, <1>5

\* A new draft has a seed nobody had.
LEMMA BeginCodes ==
  ASSUME TypeOK, TypeOK', OtpAssumption, CodeInv, NEW k \in Requests, slot[k] # Nil, Begin(k)
  PROVE  CodeInv'
<1> DEFINE q == slot[k]
<1>1. q.s \in Sessions /\ sess[q.s] \in Sess /\ sess[q.s].version <= fresh
  BY SlotOKHere DEF CodeInv, DrawnOK
<1>2. Leave(k) /\ UNCHANGED <<row, used>>
  BY DEF Begin, history
<1>3. \A l \in Requests : slot'[l] # Nil => Drawn(slot'[l])
  BY <1>2, LeaveDrawn
<1>4. CASE UNCHANGED <<sess, fresh>>
  BY <1>2, <1>3, <1>4, KeepsCodes, KeepsSessions
<1>5. CASE ~UNCHANGED <<sess, fresh>>
  <2>1. PICK new : /\ fresh' = fresh + 1 /\ new.seed = fresh + 1 /\ new.base = sess[q.s].version
                   /\ sess' = [sess EXCEPT ![q.s] = [sess[q.s] EXCEPT !.draft = new]]
    BY <1>5 DEF Begin
  <2>2. \A s \in Sessions : /\ sess'[s].draft = new \/ sess'[s].draft = sess[s].draft
                            /\ sess'[s].version = sess[s].version
    BY <1>1, <2>1 DEF TypeOK, Sess
  <2>3. \A d \in Draft : Known(d)' => Known(d) \/ d = new
    BY <1>3, <2>2 DEF Known, Drawn
  <2>4. fresh \in Nat /\ (row # Nil => row \in Row) /\ \A i \in DOMAIN used : used[i] \in Code
    BY DEF TypeOK
  <2>5. DrawnOK'
    <3>1. \A d \in Draft : Known(d) => d.seed <= fresh + 1 /\ d.base <= fresh + 1
      BY <2>4 DEF CodeInv, DrawnOK, Draft
    <3>2. \A i \in DOMAIN used : used[i].seed <= fresh + 1
      BY <2>4 DEF CodeInv, DrawnOK, Code
    <3>3. row # Nil => row.version <= fresh + 1 /\ (row.seed # Nil => row.seed <= fresh + 1)
      BY <2>4 DEF CodeInv, DrawnOK, Row
    <3>4. \A s \in Sessions : sess'[s].version <= fresh + 1
      BY <2>2, <2>4 DEF CodeInv, DrawnOK, TypeOK, Sess
    <3>5. ASSUME NEW l \in Requests, slot'[l] # Nil
          PROVE  /\ Informed(slot'[l]) /\ slot'[l].snap.row # Nil => slot'[l].snap.row.version <= fresh + 1
                 /\ slot'[l].pc = "saved" => slot'[l].saved.version <= fresh + 1
      <4>1. SlotOK(slot'[l]) /\ Drawn(slot'[l])
        BY <1>3, <3>5 DEF TypeOK
      <4> QED
        BY <2>4, <4>1 DEF SlotOK, Drawn, Snap, Row, Saved
    <3> QED
      BY <1>1, <1>2, <2>1, <2>3, <2>4, <3>1, <3>2, <3>3, <3>4, <3>5 DEF DrawnOK, Sess, Informed
  <2>6. DraftsOK'
    <3>1. \A i \in DOMAIN used : used[i].seed # new.seed
      BY <2>1, <2>4 DEF CodeInv, DrawnOK, Code
    <3>2. row # Nil /\ row.seed # Nil => row.seed # new.seed
      BY <2>1, <2>4 DEF CodeInv, DrawnOK, Row
    <3> QED
      BY <1>2, <2>3, <3>1, <3>2 DEF CodeInv, DraftsOK, Spent
  <2>7. LastOK' /\ CodeOnce'
    BY <1>2 DEF CodeInv, LastOK, CodeOnce
  <2> QED
    BY <2>5, <2>6, <2>7 DEF CodeInv
<1> QED
  BY <1>4, <1>5

\* A registration of a version nobody had.
LEMMA RegisteredCodes ==
  ASSUME TypeOK, TypeOK', CodeInv, fresh' = fresh + 1, row' = [version |-> fresh + 1, seed |-> Nil, last |-> -1],
         UNCHANGED <<sess, used>>,
         \A l \in Requests : slot'[l] # Nil => Drawn(slot'[l])
  PROVE  CodeInv'
<1>1. fresh \in Nat /\ \A i \in DOMAIN used : used[i] \in Code
  BY DEF TypeOK
<1>2. \A d \in Draft : Known(d)' => Known(d)
  BY DEF Known, Drawn
<1>3. DrawnOK'
  <2>1. \A d \in Draft : Known(d) => d.seed <= fresh + 1 /\ d.base <= fresh + 1
    BY <1>1 DEF CodeInv, DrawnOK, Draft
  <2>2. \A i \in DOMAIN used : used[i].seed <= fresh + 1
    BY <1>1 DEF CodeInv, DrawnOK, Code
  <2>3. \A s \in Sessions : sess[s].version <= fresh + 1
    BY <1>1 DEF CodeInv, DrawnOK, TypeOK, Sess
  <2>4. ASSUME NEW l \in Requests, slot'[l] # Nil
        PROVE  /\ Informed(slot'[l]) /\ slot'[l].snap.row # Nil => slot'[l].snap.row.version <= fresh + 1
               /\ slot'[l].pc = "saved" => slot'[l].saved.version <= fresh + 1
    <3>1. SlotOK(slot'[l]) /\ Drawn(slot'[l])
      BY <2>4 DEF TypeOK
    <3> QED
      BY <1>1, <3>1 DEF SlotOK, Drawn, Snap, Row, Saved
  <2> QED
    BY <1>1, <1>2, <2>1, <2>2, <2>3, <2>4 DEF DrawnOK, Informed
<1>4. DraftsOK'
  BY <1>1, <1>2 DEF CodeInv, DraftsOK, DrawnOK, Draft
<1>5. LastOK' /\ CodeOnce'
  BY DEF CodeInv, LastOK, CodeOnce
<1> QED
  BY <1>3, <1>4, <1>5 DEF CodeInv

LEMMA EnterCodes ==
  ASSUME TypeOK, TypeOK', OtpAssumption, CodeInv, NEW k \in Requests, slot[k] # Nil,
         EnsureAccount(k) \/ Initialize(k) \/ LoginFails(k)
  PROVE  CodeInv'
<1> DEFINE q == slot[k]
<1>1. SlotOK(q) /\ q \in Slot /\ q.s \in Sessions /\ Drawn(q)
  BY SlotOKHere, DrawnHere DEF CodeInv
<1>2. CASE q.pc = "insert" /\ EnsureAccount(k)
  <2>1. Go(k, [q EXCEPT !.pc = "select"]) /\ UNCHANGED <<sess, used>>
    BY <1>2 DEF EnsureAccount, history
  <2>2. Drawn([q EXCEPT !.pc = "select"])
    BY <1>1 DEF Drawn, Slot, Informed
  <2>3. \A l \in Requests : slot'[l] # Nil => Drawn(slot'[l])
    BY <2>1, <2>2, GoDrawn DEF Go
  <2>4. \/ UNCHANGED <<row, fresh>>
        \/ row' = [version |-> fresh + 1, seed |-> Nil, last |-> -1] /\ fresh' = fresh + 1
    BY <1>2 DEF EnsureAccount
  <2> QED
    BY <2>1, <2>3, <2>4, KeepsCodes, KeepsSessions, RegisteredCodes
<1>3. CASE q.pc = "select" /\ EnsureAccount(k)
  <2>1. Go(k, [q EXCEPT !.pc = "initialize", !.snap = [row |-> row, policy |-> policy]])
        /\ UNCHANGED <<row, fresh, sess, used>>
    BY <1>3 DEF EnsureAccount, history, db
  <2>2. Drawn([q EXCEPT !.pc = "initialize", !.snap = [row |-> row, policy |-> policy]])
    BY <1>1, ReadDrawn DEF Slot
  <2> QED
    BY <2>1, <2>2, GoDrawn, KeepsCodes, KeepsSessions DEF Go
<1>4. CASE Initialize(k) \/ LoginFails(k)
  <2>1. Leave(k) /\ UNCHANGED <<row, fresh, used>>
    BY <1>4 DEF Initialize, LoginFails, db, history
  <2>2. CASE sess' = Destroyed(q.s)
    <3>1. \A s \in Sessions : (sess'[s].draft = Nil \/ sess'[s].draft = sess[s].draft) /\ sess'[s].version = sess[s].version
      BY <1>1, <2>2, DestroyedType
    <3> QED
      BY <2>1, <3>1, SameSessions, LeaveDrawn, KeepsCodes
  <2>3. CASE Initialize(k) /\ q.snap.row # Nil
    <3>1. q.snap \in Snap /\ q.snap.row.version <= fresh
      BY <1>1, <2>3 DEF SlotOK, Informed, Initialize, Drawn
    <3>2. /\ LoggedIn(q.snap) \in Sess
          /\ LoggedIn(q.snap).draft = Nil /\ LoggedIn(q.snap).version = q.snap.row.version
      BY <2>3, <3>1, LoggedInType
    <3>3. sess' = [sess EXCEPT ![q.s] = [LoggedIn(q.snap) EXCEPT !.phase = sess[q.s].phase]]
      BY <2>3 DEF Initialize
    <3>4. /\ [LoggedIn(q.snap) EXCEPT !.phase = sess[q.s].phase].draft = Nil
          /\ [LoggedIn(q.snap) EXCEPT !.phase = sess[q.s].phase].version <= fresh
      BY <3>1, <3>2 DEF Sess
    <3>5. \A s \in Sessions : (sess'[s].draft # Nil => Known(sess'[s].draft)) /\ sess'[s].version <= fresh
      BY <1>1, <3>3, <3>4 DEF TypeOK, CodeInv, DrawnOK, Known
    <3> QED
      BY <2>1, <3>5, LeaveDrawn, KeepsCodes
  <2> QED
    BY <1>4, <2>2, <2>3 DEF Initialize, LoginFails
<1> QED
  BY <1>2, <1>3, <1>4 DEF EnsureAccount

LEMMA LoginCodes == ASSUME TypeOK, TypeOK', CodeInv, Login PROVE CodeInv'
<1>1. PICK k \in Requests, s \in Sessions :
        /\ sess' = [sess EXCEPT ![s].phase = "live"]
        /\ slot' = [slot EXCEPT ![k] = [Request("login", s, Nil, Nil) EXCEPT !.pc = "insert"]]
  BY DEF Login
<1>2. Drawn([Request("login", s, Nil, Nil) EXCEPT !.pc = "insert"])
  BY DEF Drawn, Request, Informed
<1> HIDE DEF Request
<1>3. \A l \in Requests : slot'[l] # Nil => Drawn(slot'[l])
  BY <1>1, <1>2, GoDrawn
<1>4. \A t \in Sessions : sess'[t].draft = sess[t].draft /\ sess'[t].version = sess[t].version
  BY <1>1 DEF TypeOK, Sess
<1>5. \A t \in Sessions : (sess'[t].draft # Nil => Known(sess'[t].draft)) /\ sess'[t].version <= fresh
  BY <1>4, SameSessions
<1> QED
  BY <1>3, <1>5, KeepsCodes DEF Login, db, history

LEMMA OutsideCodes == ASSUME TypeOK, TypeOK', CodeInv, Logout \/ Sweep \/ Admin \/ Tick PROVE CodeInv'
<1>1. \A l \in Requests : slot'[l] # Nil => Drawn(slot'[l])
  BY DrawnHere DEF Logout, Sweep, Admin, Tick, CodeInv
<1>2. CASE Logout \/ Sweep \/ Tick
  <2>1. UNCHANGED <<row, fresh, used>>
    BY <1>2 DEF Logout, Sweep, Tick, db, history
  <2>2. \A t \in Sessions : (sess'[t].draft = Nil \/ sess'[t].draft = sess[t].draft) /\ sess'[t].version = sess[t].version
    <3>1. CASE Logout
      BY <3>1, DestroyedType DEF Logout
    <3>2. CASE Sweep
      BY <3>2 DEF Sweep, TypeOK, Sess
    <3>3. CASE Tick
      BY <3>3 DEF Tick
    <3> QED
      BY <1>2, <3>1, <3>2, <3>3
  <2> QED
    BY <1>1, <2>1, <2>2, SameSessions, KeepsCodes
<1>3. CASE Admin
  <2>1. UNCHANGED <<sess, used, slot>>
    BY <1>3 DEF Admin, history
  <2>2. CASE UNCHANGED <<row, fresh>>
    BY <1>1, <2>1, <2>2, KeepsSessions, KeepsCodes
  <2>3. CASE row' = [version |-> fresh + 1, seed |-> Nil, last |-> -1] /\ fresh' = fresh + 1
    BY <1>1, <2>1, <2>3, RegisteredCodes
  <2>4. CASE row' = Nil /\ UNCHANGED fresh
    BY <2>1, <2>4 DEF CodeInv, DrawnOK, DraftsOK, LastOK, CodeOnce, Known, Spent
  <2> QED
    BY <1>3, <2>2, <2>3, <2>4 DEF Admin
<1> QED
  BY <1>2, <1>3

\* A code that is accepted was not accepted before; what it registers, no draft
\* can register again.
LEMMA StoreCodes ==
  ASSUME TypeOK, TypeOK', CodeInv, NEW k \in Requests, slot[k] # Nil, Store(k)
  PROVE  CodeInv'
<1> DEFINE q == slot[k]
           r == Stored(q)
           c == q.code
<1>1. /\ SlotOK(q) /\ q \in Slot /\ q.kind # "login" /\ Drawn(q)
      /\ q.pc = "store"
  BY SlotOKHere, DrawnHere DEF SlotOK, Store, CodeInv
<1>2. row' = r /\ used' = Append(used, c) /\ UNCHANGED sess
  BY DEF Store
<1>3. /\ c \in Code /\ row \in Row /\ row # Nil /\ r \in Row /\ fresh \in Nat /\ fresh' \in Nat
      /\ fresh' = IF q.kind = "verify" THEN fresh ELSE fresh + 1
  BY AcceptedCode DEF Store, TypeOK
<1>4. /\ q.kind = "confirm" =>
           /\ q.draft \in Draft /\ c.seed = q.draft.seed /\ row.version = q.draft.base
           /\ r.version = fresh + 1 /\ r.seed = q.draft.seed /\ r.last = c.step
      /\ q.kind # "confirm" => row.seed # Nil /\ c.seed = row.seed /\ c.step > row.last
      /\ q.kind = "disable" => r.version = fresh + 1 /\ r.seed = Nil
      /\ q.kind \notin {"confirm", "disable"} => r.version = row.version /\ r.seed = row.seed /\ r.last = c.step
  BY AcceptedCode
<1>5. q.kind = "confirm" => Known(q.draft)
  BY DEF Known
<1>6. /\ \A i \in DOMAIN used : used[i] \in Code
      /\ Len(used') = Len(used) + 1 /\ DOMAIN used = 1..Len(used) /\ DOMAIN used' = 1..(Len(used) + 1)
      /\ \A i \in DOMAIN used : used'[i] = used[i]
      /\ used'[Len(used) + 1] = c
      /\ Len(used) \in Nat
  BY <1>2, <1>3 DEF TypeOK
<1> HIDE DEF r, c
<1>7. \A d \in Draft : Known(d)' => Known(d)
  <2> DEFINE new == [q EXCEPT !.pc = "saved", !.saved = [version |-> row'.version, revision |-> policy.revision]]
  <2>1. \A l \in Requests : slot'[l] # Nil => slot[l] # Nil /\ slot'[l].draft = slot[l].draft /\ slot'[l].kind = slot[l].kind
    <3>1. Leave(k) \/ Go(k, new)
      BY FailLeaves DEF Store
    <3>2. new.draft = q.draft /\ new.kind = q.kind
      BY <1>1 DEF Slot
    <3> HIDE DEF new
    <3>3. \A l \in Requests : slot'[l] # Nil => slot'[l] = slot[l] \/ (l = k /\ slot'[l] = new)
      BY <3>1 DEF Leave, Go, TypeOK
    <3> QED
      BY <3>2, <3>3
  <2> QED
    BY <1>2, <2>1 DEF Known
<1>8. \A i \in DOMAIN used : used[i] # c
  <2>1. CASE q.kind = "confirm"
    <3>1. ~(row.version > q.draft.base)
      BY <1>3, <1>4, <2>1 DEF Row
    <3>2. ~Spent(q.draft.seed)
      BY <1>3, <1>4, <1>5, <2>1, <3>1 DEF CodeInv, DraftsOK
    <3> QED
      BY <1>4, <2>1, <3>2 DEF Spent
  <2>2. CASE q.kind # "confirm"
    <3>1. \A i \in DOMAIN used : used[i].seed = row.seed => used[i].step <= row.last
      BY <1>3, <1>4, <2>2 DEF CodeInv, LastOK
    <3> QED
      BY <1>3, <1>4, <1>6, <2>2, <3>1 DEF Code, Row
  <2> QED
    BY <2>1, <2>2
<1>9. CodeOnce'
  BY <1>6, <1>8 DEF CodeInv, CodeOnce
<1>10. LastOK'
  <2>1. CASE q.kind = "disable"
    BY <1>2, <1>4, <2>1 DEF LastOK
  <2>2. CASE q.kind = "confirm"
    <3>1. ~(row.version > q.draft.base)
      BY <1>3, <1>4, <2>2 DEF Row
    <3>2. ~Spent(q.draft.seed)
      BY <1>3, <1>4, <1>5, <2>2, <3>1 DEF CodeInv, DraftsOK
    <3>3. \A i \in DOMAIN used : used[i].seed # r.seed
      BY <1>4, <2>2, <3>2 DEF Spent
    <3> QED
      BY <1>2, <1>3, <1>4, <1>6, <2>2, <3>3 DEF LastOK, Code, Row
  <2>3. CASE q.kind \notin {"confirm", "disable"}
    <3>1. \A i \in DOMAIN used : used[i].seed = row.seed => used[i].step <= row.last
      BY <1>3, <1>4, <2>3 DEF CodeInv, LastOK
    <3> QED
      BY <1>2, <1>3, <1>4, <1>6, <2>3, <3>1 DEF LastOK, Code, Row
  <2> QED
    BY <2>1, <2>2, <2>3
<1>11. fresh <= fresh' /\ c.seed <= fresh /\ r.version <= fresh' /\ (r.seed # Nil => r.seed <= fresh')
  <2>1. row.version <= fresh /\ (row.seed # Nil => row.seed <= fresh)
    BY <1>3 DEF CodeInv, DrawnOK
  <2>2. q.kind = "confirm" => q.draft.seed <= fresh /\ q.draft.seed \in Nat
    BY <1>4, <1>5 DEF CodeInv, DrawnOK, Draft
  <2> QED
    BY <1>3, <1>4, <2>1, <2>2 DEF Row
<1>12. DrawnOK'
  <2>1. \A d \in Draft : Known(d) => d.seed <= fresh' /\ d.base <= fresh'
    BY <1>3, <1>11 DEF CodeInv, DrawnOK, Draft
  <2>2. \A i \in DOMAIN used' : used'[i].seed <= fresh'
    BY <1>3, <1>6, <1>11 DEF CodeInv, DrawnOK, Code
  <2>3. \A s \in Sessions : sess'[s].version <= fresh'
    BY <1>2, <1>3, <1>11 DEF CodeInv, DrawnOK, TypeOK, Sess
  <2>4. ASSUME NEW l \in Requests, slot'[l] # Nil
        PROVE  /\ Informed(slot'[l]) /\ slot'[l].snap.row # Nil => slot'[l].snap.row.version <= fresh'
               /\ slot'[l].pc = "saved" => slot'[l].saved.version <= fresh'
    <3>1. CASE slot'[l] = slot[l]
      <4>1. SlotOK(slot[l]) /\ Drawn(slot[l])
        BY <2>4, <3>1, DrawnHere DEF TypeOK, CodeInv
      <4> QED
        BY <1>3, <1>11, <3>1, <4>1 DEF SlotOK, Drawn, Snap, Row, Saved
    <3>2. CASE slot'[l] # slot[l]
      <4>1. slot'[l] = [q EXCEPT !.pc = "saved", !.saved = [version |-> row'.version, revision |-> policy.revision]]
        BY <2>4, <3>2, FailLeaves DEF Store, Leave, Go, TypeOK
      <4>2. slot'[l].pc = "saved" /\ slot'[l].saved.version = row'.version
        BY <1>1, <4>1 DEF Slot
      <4> QED
        BY <1>2, <1>11, <4>2 DEF Informed
    <3> QED
      BY <3>1, <3>2
  <2> QED
    BY <1>2, <1>7, <1>11, <2>1, <2>2, <2>3, <2>4 DEF DrawnOK, Informed
<1>13. DraftsOK'
  <2> SUFFICES ASSUME NEW d \in Draft, Known(d), Spent(d.seed)' \/ (r.seed # Nil /\ r.seed = d.seed)
               PROVE  r.version > d.base
    BY <1>2, <1>7 DEF DraftsOK
  <2>1. d.base <= fresh /\ d.base \in Nat
    BY DEF CodeInv, DrawnOK, Draft
  <2>2. CASE q.kind \in {"confirm", "disable"}
    BY <1>3, <1>4, <2>1, <2>2
  <2>3. CASE q.kind \notin {"confirm", "disable"}
    <3>1. Spent(d.seed) \/ row.seed = d.seed
      BY <1>4, <1>6, <2>3 DEF Spent
    <3> QED
      BY <1>3, <1>4, <2>3, <3>1 DEF CodeInv, DraftsOK
  <2> QED
    BY <2>2, <2>3
<1> QED
  BY <1>9, <1>10, <1>12, <1>13 DEF CodeInv

LEMMA NextCodes == ASSUME TypeOK, TypeOK', OtpAssumption, CodeInv, [Next]_vars PROVE CodeInv'
<1>1. ASSUME NEW k \in Requests, Handle(k) PROVE CodeInv'
  BY <1>1, ReadCodes, CheckCodes, BeginCodes, StoreFailsCodes, StoreCodes, RotateCodes, EnterCodes DEF Handle
<1>2. CASE UNCHANGED vars
  <2>1. UNCHANGED <<row, fresh, used, sess, slot>>
    BY <1>2 DEF vars, db, history
  <2>2. \A l \in Requests : slot'[l] # Nil => Drawn(slot'[l])
    BY <2>1, DrawnHere DEF CodeInv
  <2> QED
    BY <2>1, <2>2, KeepsCodes, KeepsSessions
<1> QED
  BY <1>1, <1>2, ArriveCodes, LoginCodes, OutsideCodes DEF Next

-------------------------------------------------------------------------------
(* The second factor.                                                      *)

\* The registration stays what it was, goes, or gets a new version.
RowStep == \/ row' = Nil
           \/ row # Nil /\ row'.version = row.version /\ row'.seed = row.seed
           \/ row'.version = fresh + 1

\* No session gets ready, or another cookie than none.
SessionsStep ==
  \A s \in Sessions :
    /\ sess'[s].cookie = sess[s].cookie \/ (sess'[s].cookie = 0 /\ sess'[s].phase = "dead")
    /\ sess'[s].phase = "unused" => sess[s].phase = "unused"
    /\ sess'[s].phase = "live" => sess[s].phase = "live"
    /\ sess'[s].version = sess[s].version
    /\ sess'[s].state = "ready" /\ sess'[s].cookie # 0 => sess[s].state = "ready"

\* No request arrives, and what one has read is of the present registration.
SlotStep(l) ==
  slot'[l] # Nil =>
    /\ slot[l] # Nil
    /\ slot'[l].s = slot[l].s /\ slot'[l].kind = slot[l].kind /\ slot'[l].cookie = slot[l].cookie
    /\ \/ SnapRow(l)' \in {SnapRow(l), Nil}
       \/ SnapRow(l)' = row /\ UNCHANGED row

SlotsStep == \A l \in Requests : SlotStep(l)

LEMMA SnapRowHere ==
  ASSUME TypeOK, CodeInv, NEW l \in Requests, SnapRow(l) # Nil
  PROVE  SnapRow(l) \in Row /\ SnapRow(l).version <= fresh
<1>1. slot[l] # Nil /\ Informed(slot[l]) /\ SnapRow(l) = slot[l].snap.row
  BY DEF SnapRow
<1>2. slot[l].snap \in Snap
  BY <1>1, SlotOKHere DEF SlotOK
<1> QED
  BY <1>1, <1>2 DEF Snap, CodeInv, DrawnOK

LEMMA KeepsRows ==
  ASSUME TypeOK, CodeInv, RowsOK, RowStep, SlotsStep
  PROVE  RowsOK'
<1>1. fresh \in Nat /\ (row # Nil => row \in Row /\ row.version <= fresh)
  BY DEF TypeOK, CodeInv, DrawnOK
<1>2. \A l \in Requests : SnapRow(l)' # Nil =>
        \/ SnapRow(l)' = SnapRow(l) /\ SnapRow(l) # Nil
        \/ SnapRow(l)' = row /\ UNCHANGED row
  <2>1. \A l \in Requests : SnapRow(l)' # Nil => slot'[l] # Nil
    BY DEF SnapRow
  <2> QED
    BY <2>1 DEF SlotsStep, SlotStep
<1> DEFINE Old(r) == r # Nil => r \in Row /\ r.version <= fresh
<1>3. \A l \in Requests : Old(SnapRow(l)) /\ Old(SnapRow(l)')
  BY <1>1, <1>2, SnapRowHere
<1>4. \A l \in Requests : SameFactor(row', SnapRow(l)')
  <2> SUFFICES ASSUME NEW l \in Requests, row' # Nil, SnapRow(l)' # Nil, row'.version = SnapRow(l)'.version
               PROVE  row'.seed = SnapRow(l)'.seed
    BY DEF SameFactor
  <2>1. row'.version # fresh + 1
    BY <1>1, <1>3 DEF Row
  <2>2. row # Nil /\ row'.version = row.version /\ row'.seed = row.seed
    BY <2>1 DEF RowStep
  <2> QED
    BY <1>2, <2>2 DEF RowsOK, SameFactor
<1>5. \A k, l \in Requests : SameFactor(SnapRow(k)', SnapRow(l)')
  <2> SUFFICES ASSUME NEW k \in Requests, NEW l \in Requests PROVE SameFactor(SnapRow(k)', SnapRow(l)')
    OBVIOUS
  <2>1. SameFactor(SnapRow(k), SnapRow(l)) /\ SameFactor(row, SnapRow(k)) /\ SameFactor(row, SnapRow(l))
    BY DEF RowsOK
  <2> QED
    BY <1>2, <2>1 DEF SameFactor
<1> QED
  BY <1>4, <1>5 DEF RowsOK

LEMMA KeepsReady ==
  ASSUME TypeOK, CodeInv, ReadyOK, RowStep, SessionsStep, SlotsStep, \A s \in Sessions : proved[s] \subseteq proved'[s]
  PROVE  ReadyOK'
<1> SUFFICES ASSUME NEW s \in Sessions, sess'[s].phase = "live", sess'[s].cookie # 0, sess'[s].state = "ready",
                    sess'[s].version \notin proved'[s]
             PROVE  /\ NoFactor(row', sess'[s].version)
                    /\ \A k \in Requests : NoFactor(SnapRow(k)', sess'[s].version)
  BY DEF ReadyOK
<1>1. /\ NoFactor(row, sess[s].version)
      /\ \A k \in Requests : NoFactor(SnapRow(k), sess[s].version)
      /\ sess'[s].version = sess[s].version
  BY DEF SessionsStep, ReadyOK
<1>2. sess[s].version <= fresh /\ sess[s].version \in Nat /\ fresh \in Nat
  BY DEF CodeInv, DrawnOK, TypeOK, Sess
<1>3. \A l \in Requests : SnapRow(l)' # Nil => slot'[l] # Nil
  BY DEF SnapRow
<1>4. NoFactor(row', sess[s].version)
  BY <1>1, <1>2 DEF RowStep, NoFactor
<1> QED
  BY <1>1, <1>3, <1>4 DEF NoFactor, SlotsStep, SlotStep

LEMMA KeepsLogin ==
  ASSUME TypeOK, TypeOK', LoginOK, CookieOK, SessionsStep, SlotsStep
  PROVE  LoginOK' /\ CookieOK'
<1>1. \A l \in Requests : slot'[l] # Nil => slot'[l].s \in Sessions
  BY DEF TypeOK, SlotOK, Slot
<1>2. LoginOK'
  BY <1>1 DEF LoginOK, SessionsStep, SlotsStep, SlotStep
<1>4. \A s \in Sessions : sess[s].phase = "dead" => sess'[s].phase = "dead"
  BY DEF SessionsStep, TypeOK, Sess
<1>3. CookieOK'
  BY <1>1, <1>4 DEF CookieOK, SessionsStep, SlotsStep, SlotStep
<1> QED
  BY <1>2, <1>3

LEMMA KeepsServed ==
  ASSUME TypeOK, CookieOK, ServedOK, SessionsStep, \A s \in Sessions : proved[s] \subseteq proved'[s],
         NEW l \in Requests, slot'[l] # Nil, slot'[l] = slot[l], slot[l].pc = "authorize",
         sess'[slot[l].s].cookie = slot[l].cookie, sess'[slot[l].s].state = "ready"
  PROVE  /\ Enabled(slot[l].snap.row) => slot[l].snap.row.version \in proved'[slot[l].s]
         /\ slot[l].snap.policy.force => Enabled(slot[l].snap.row)
<1>1. slot[l].s \in Sessions /\ slot[l].kind # "login"
  BY SlotOKHere DEF SlotOK
<1>2. slot[l].cookie # 0
  BY <1>1 DEF CookieOK
<1> QED
  BY <1>1, <1>2 DEF ServedOK, SessionsStep

LEMMA KeepsFactor ==
  ASSUME TypeOK, TypeOK', CodeInv, FactorInv, RowStep, SessionsStep, SlotsStep, UNCHANGED proved,
         \A l \in Requests : slot'[l] # Nil /\ slot'[l].pc = "authorize" => slot'[l] = slot[l]
  PROVE  FactorInv'
<1>1. RowsOK' /\ ReadyOK' /\ LoginOK' /\ CookieOK'
  BY KeepsRows, KeepsReady, KeepsLogin DEF FactorInv
<1>2. ServedOK'
  BY KeepsServed DEF FactorInv, ServedOK
<1> QED
  BY <1>1, <1>2 DEF FactorInv

LEMMA LeaveStep ==
  ASSUME TypeOK, NEW k \in Requests, Leave(k)
  PROVE  SlotsStep /\ \A l \in Requests : slot'[l] # Nil => slot'[l] = slot[l]
<1>1. \A l \in Requests : slot'[l] \in {slot[l], Nil}
  BY DEF Leave, TypeOK
<1> QED
  BY <1>1 DEF SlotsStep, SlotStep, SnapRow

LEMMA GoStep ==
  ASSUME TypeOK, NEW k \in Requests, slot[k] # Nil, NEW q, slot' = [slot EXCEPT ![k] = q],
         q.s = slot[k].s, q.kind = slot[k].kind, q.cookie = slot[k].cookie,
         \/ ~Informed(q)
         \/ Informed(slot[k]) /\ q.snap = slot[k].snap
         \/ q.snap.row = row /\ UNCHANGED row
  PROVE  SlotsStep /\ \A l \in Requests : slot'[l] = IF l = k THEN q ELSE slot[l]
<1>1. \A l \in Requests : slot'[l] = IF l = k THEN q ELSE slot[l]
  BY DEF TypeOK
<1>2. SlotStep(k)
  <2>1. slot'[k] = q
    BY <1>1
  <2>2. SnapRow(k)' = IF q = Nil THEN Nil ELSE IF Informed(q) THEN q.snap.row ELSE Nil
    BY <2>1 DEF SnapRow, Informed
  <2>3. Informed(slot[k]) => SnapRow(k) = slot[k].snap.row
    BY DEF SnapRow
  <2> QED
    BY <2>1, <2>2, <2>3 DEF SlotStep
<1>3. \A l \in Requests : l # k => SlotStep(l)
  BY <1>1 DEF SlotStep, SnapRow, Informed
<1> QED
  BY <1>1, <1>2, <1>3 DEF SlotsStep

LEMMA SameSessionsStep ==
  ASSUME UNCHANGED sess
  PROVE  SessionsStep
BY DEF SessionsStep

LEMMA DestroyedStep ==
  ASSUME TypeOK, NEW s \in Sessions, sess' = Destroyed(s)
  PROVE  SessionsStep
<1>1. sess'[s].phase = "dead" /\ sess'[s].cookie = 0 /\ sess'[s].version = sess[s].version
  BY DestroyedType
<1>2. \A t \in Sessions : t # s => sess'[t] = sess[t]
  BY DestroyedType
<1> QED
  BY <1>1, <1>2 DEF SessionsStep

LEMMA SameRowStep ==
  ASSUME UNCHANGED row
  PROVE  RowStep
BY DEF RowStep

LEMMA ReadFactor ==
  ASSUME TypeOK, TypeOK', CodeInv, FactorInv, NEW k \in Requests, slot[k] # Nil,
         Read(k) \/ ReadFails(k) \/ Authorize(k) \/ ReadAgain(k)
  PROVE  FactorInv'
<1>1. UNCHANGED <<row, sess, proved>>
  BY DEF Read, ReadFails, Authorize, ReadAgain, db, history
<1>2. RowStep /\ SessionsStep
  BY <1>1, SameRowStep, SameSessionsStep
<1>3. slot[k] \in Slot
  BY SlotOKHere
<1>4. CASE Leave(k)
  BY <1>1, <1>2, <1>4, LeaveStep, KeepsFactor
<1>5. CASE ~Leave(k)
  <2>1. \/ \E pc \in {"check", "recheck"} :
             slot' = [slot EXCEPT ![k] = [slot[k] EXCEPT !.pc = pc, !.snap = [row |-> row, policy |-> policy]]]
        \/ \E at \in {now, Nil} : slot' = [slot EXCEPT ![k] = [slot[k] EXCEPT !.pc = "queued", !.at = at]]
    BY <1>5, FailLeaves DEF Read, ReadFails, Authorize, ReadAgain, Go
  <2>2. CASE \E pc \in {"check", "recheck"} :
               slot' = [slot EXCEPT ![k] = [slot[k] EXCEPT !.pc = pc, !.snap = [row |-> row, policy |-> policy]]]
    <3>1. PICK pc \in {"check", "recheck"} :
               slot' = [slot EXCEPT ![k] = [slot[k] EXCEPT !.pc = pc, !.snap = [row |-> row, policy |-> policy]]]
      BY <2>2
    <3> DEFINE q == [slot[k] EXCEPT !.pc = pc, !.snap = [row |-> row, policy |-> policy]]
    <3>2. q.s = slot[k].s /\ q.kind = slot[k].kind /\ q.cookie = slot[k].cookie /\ q.pc = pc /\ q.snap.row = row
      BY <1>3 DEF Slot
    <3> HIDE DEF q
    <3>3. slot' = [slot EXCEPT ![k] = q]
      BY <3>1 DEF q
    <3>4. SlotsStep /\ \A l \in Requests : slot'[l] = IF l = k THEN q ELSE slot[l]
      BY <1>1, <3>2, <3>3, GoStep
    <3> QED
      BY <1>1, <1>2, <3>2, <3>4, KeepsFactor
  <2>3. CASE \E at \in {now, Nil} : slot' = [slot EXCEPT ![k] = [slot[k] EXCEPT !.pc = "queued", !.at = at]]
    <3>1. PICK at \in {now, Nil} : slot' = [slot EXCEPT ![k] = [slot[k] EXCEPT !.pc = "queued", !.at = at]]
      BY <2>3
    <3> DEFINE q == [slot[k] EXCEPT !.pc = "queued", !.at = at]
    <3>2. q.s = slot[k].s /\ q.kind = slot[k].kind /\ q.cookie = slot[k].cookie /\ q.pc = "queued"
      BY <1>3 DEF Slot
    <3> HIDE DEF q
    <3>3. slot' = [slot EXCEPT ![k] = q]
      BY <3>1 DEF q
    <3>4. SlotsStep /\ \A l \in Requests : slot'[l] = IF l = k THEN q ELSE slot[l]
      BY <3>2, <3>3, GoStep DEF Informed
    <3> QED
      BY <1>1, <1>2, <3>2, <3>4, KeepsFactor
  <2> QED
    BY <2>1, <2>2, <2>3
<1> QED
  BY <1>4, <1>5

LEMMA CheckStep ==
  ASSUME TypeOK, OtpAssumption, NEW k \in Requests, slot[k] # Nil, Check(k) \/ Recheck(k)
  PROVE  SessionsStep
<1> DEFINE q == slot[k]
           next == Admitted(q.s, q.snap)
<1>1. q.s \in Sessions /\ q.snap \in Snap
  BY SlotOKHere DEF SlotOK, Informed, Check, Recheck
<1>2. /\ next \in [Sessions -> Sess]
      /\ \A t \in Sessions : /\ next[t].phase = sess[t].phase
                             /\ next[t].cookie = sess[t].cookie
                             /\ next[t].version = sess[t].version
                             /\ next[t].state = "ready" => sess[t].state = "ready"
  BY <1>1, AdmittedType
<1>3. sess' \in {sess, next, Destroyed(q.s), [next EXCEPT ![q.s].draft = Nil]}
  BY DEF Check, Recheck
<1>4. CASE sess' = Destroyed(q.s)
  BY <1>1, <1>4, DestroyedStep
<1> HIDE DEF next
<1>5. CASE sess' \in {sess, next, [next EXCEPT ![q.s].draft = Nil]}
  <2>1. \A t \in Sessions : sess' = [next EXCEPT ![q.s].draft = Nil] =>
          /\ sess'[t].phase = next[t].phase /\ sess'[t].cookie = next[t].cookie
          /\ sess'[t].version = next[t].version /\ sess'[t].state = next[t].state
    BY <1>2 DEF Sess
  <2> QED
    BY <1>2, <1>5, <2>1 DEF SessionsStep
<1> QED
  BY <1>3, <1>4, <1>5

\* A request whose snapshot is found current is of a session that proved its factor.
LEMMA AdmittedServed ==
  ASSUME TypeOK, OtpAssumption, ReadyOK, CookieOK, NEW k \in Requests, slot[k] # Nil, slot[k].pc = "check",
         Bound(slot[k]), ~Outdated(slot[k].s, slot[k].snap),
         Admitted(slot[k].s, slot[k].snap)[slot[k].s].state = "ready"
  PROVE  /\ Enabled(slot[k].snap.row) => slot[k].snap.row.version \in proved[slot[k].s]
         /\ slot[k].snap.policy.force => Enabled(slot[k].snap.row)
<1> DEFINE q == slot[k]
<1>1. q.s \in Sessions /\ q.snap \in Snap /\ q.kind # "login"
  BY SlotOKHere DEF SlotOK, Informed
<1>2. sess[q.s].state = "ready" /\ (q.snap.policy.force => Enabled(q.snap.row))
  BY <1>1, AdmittedType
<1>3. sess[q.s].phase = "live" /\ sess[q.s].cookie # 0
  BY <1>1 DEF Bound, Alive, CookieOK
<1>4. q.snap.row # Nil /\ q.snap.row.version = sess[q.s].version
  BY DEF Outdated
<1>5. SnapRow(k) = q.snap.row
  BY DEF SnapRow, Informed
<1>6. Enabled(q.snap.row) => sess[q.s].version \in proved[q.s]
  BY <1>1, <1>2, <1>3, <1>4, <1>5 DEF ReadyOK, NoFactor, Enabled
<1> QED
  BY <1>2, <1>4, <1>6

LEMMA CheckFactor ==
  ASSUME TypeOK, TypeOK', OtpAssumption, CodeInv, FactorInv, NEW k \in Requests, slot[k] # Nil, Check(k) \/ Recheck(k)
  PROVE  FactorInv'
<1>1. UNCHANGED <<row, proved>> /\ RowStep
  BY SameRowStep DEF Check, Recheck, db, history
<1>2. SessionsStep
  BY CheckStep
<1>3. slot[k] \in Slot /\ Informed(slot[k]) /\ slot[k].pc # "authorize"
  BY SlotOKHere DEF Check, Recheck, Informed
<1>4. CASE Leave(k)
  BY <1>1, <1>2, <1>4, LeaveStep, KeepsFactor
<1>5. CASE \E pc \in {"begin", "store"} : Go(k, [slot[k] EXCEPT !.pc = pc])
  <2>1. PICK pc \in {"begin", "store"} : slot' = [slot EXCEPT ![k] = [slot[k] EXCEPT !.pc = pc]]
    BY <1>5 DEF Go
  <2> DEFINE q == [slot[k] EXCEPT !.pc = pc]
  <2>2. q.s = slot[k].s /\ q.kind = slot[k].kind /\ q.cookie = slot[k].cookie /\ q.pc = pc /\ q.snap = slot[k].snap
    BY <1>3 DEF Slot
  <2> HIDE DEF q
  <2>3. slot' = [slot EXCEPT ![k] = q]
    BY <2>1 DEF q
  <2>4. SlotsStep /\ \A l \in Requests : slot'[l] = IF l = k THEN q ELSE slot[l]
    BY <1>3, <2>2, <2>3, GoStep
  <2> QED
    BY <1>1, <1>2, <2>2, <2>4, KeepsFactor
<1>6. CASE /\ Check(k) /\ Bound(slot[k]) /\ ~Outdated(slot[k].s, slot[k].snap)
           /\ sess' = Admitted(slot[k].s, slot[k].snap)
           /\ slot' = [slot EXCEPT ![k] = [slot[k] EXCEPT !.pc = "authorize"]]
  <2> DEFINE q == [slot[k] EXCEPT !.pc = "authorize"]
  <2>1. q.s = slot[k].s /\ q.kind = slot[k].kind /\ q.cookie = slot[k].cookie /\ q.pc = "authorize" /\ q.snap = slot[k].snap
    BY <1>3 DEF Slot
  <2> HIDE DEF q
  <2>2. slot' = [slot EXCEPT ![k] = q]
    BY <1>6 DEF q
  <2>3. SlotsStep /\ \A l \in Requests : slot'[l] = IF l = k THEN q ELSE slot[l]
    BY <1>3, <2>1, <2>2, GoStep
  <2>4. RowsOK' /\ ReadyOK' /\ LoginOK' /\ CookieOK'
    BY <1>1, <1>2, <2>3, KeepsRows, KeepsReady, KeepsLogin DEF FactorInv
  <2>5. slot[k].pc = "check"
    BY <1>6 DEF Check
  <2>6. ServedOK'
    <3> SUFFICES ASSUME NEW l \in Requests, slot'[l] # Nil, slot'[l].pc = "authorize",
                        sess'[slot'[l].s].cookie = slot'[l].cookie, sess'[slot'[l].s].state = "ready"
                 PROVE  /\ Enabled(slot'[l].snap.row) => slot'[l].snap.row.version \in proved'[slot'[l].s]
                        /\ slot'[l].snap.policy.force => Enabled(slot'[l].snap.row)
      BY DEF ServedOK, Enabled
    <3>1. CASE l # k
      <4>1. slot'[l] = slot[l]
        BY <2>3, <3>1
      <4> QED
        BY <1>1, <1>2, <4>1, KeepsServed DEF FactorInv
    <3>2. CASE l = k
      <4>1. slot'[l].s = slot[k].s /\ slot'[l].snap = slot[k].snap
        BY <2>1, <2>3, <3>2
      <4>2. Admitted(slot[k].s, slot[k].snap)[slot[k].s].state = "ready"
        BY <1>6, <4>1
      <4> QED
        BY <1>1, <1>6, <2>5, <4>1, <4>2, AdmittedServed DEF FactorInv
    <3> QED
      BY <3>1, <3>2
  <2> QED
    BY <2>4, <2>6 DEF FactorInv
<1>7. CASE Check(k) /\ ~Leave(k)
  BY <1>6, <1>7, FailLeaves DEF Check, Go
<1>8. CASE Recheck(k) /\ ~Leave(k)
  BY <1>5, <1>8, FailLeaves DEF Recheck
<1> QED
  BY <1>4, <1>7, <1>8

LEMMA BeginFactor ==
  ASSUME TypeOK, TypeOK', CodeInv, FactorInv, NEW k \in Requests, slot[k] # Nil, Begin(k)
  PROVE  FactorInv'
<1>1. UNCHANGED <<row, proved>> /\ RowStep /\ Leave(k)
  BY SameRowStep DEF Begin, db, history
<1>2. \/ UNCHANGED sess
      \/ \E d : sess' = [sess EXCEPT ![slot[k].s].draft = d]
  BY DEF Begin
<1>3. SessionsStep
  <2>1. CASE UNCHANGED sess
    BY <2>1, SameSessionsStep
  <2>2. CASE \E d : sess' = [sess EXCEPT ![slot[k].s].draft = d]
    <3>1. PICK d : sess' = [sess EXCEPT ![slot[k].s] = [sess[slot[k].s] EXCEPT !.draft = d]]
      BY <2>2
    <3>2. slot[k].s \in Sessions /\ sess[slot[k].s] \in Sess
      BY SlotOKHere
    <3> DEFINE new == [sess[slot[k].s] EXCEPT !.draft = d]
    <3>3. /\ new.phase = sess[slot[k].s].phase /\ new.cookie = sess[slot[k].s].cookie
          /\ new.version = sess[slot[k].s].version /\ new.state = sess[slot[k].s].state
      BY <3>2 DEF Sess
    <3> HIDE DEF new
    <3>4. sess' = [sess EXCEPT ![slot[k].s] = new]
      BY <3>1 DEF new
    <3> QED
      BY <3>2, <3>3, <3>4 DEF SessionsStep, TypeOK
  <2> QED
    BY <1>2, <2>1, <2>2
<1> QED
  BY <1>1, <1>3, LeaveStep, KeepsFactor

LEMMA StoreFailsFactor ==
  ASSUME TypeOK, TypeOK', CodeInv, FactorInv, NEW k \in Requests, slot[k] # Nil, StoreFails(k)
  PROVE  FactorInv'
<1>1. UNCHANGED <<row, proved>> /\ RowStep /\ Leave(k)
  BY SameRowStep, FailLeaves DEF StoreFails, db
<1>2. UNCHANGED sess \/ sess' = Destroyed(slot[k].s)
  BY DEF StoreFails
<1>3. SessionsStep
  BY <1>2, SameSessionsStep, DestroyedStep, SlotOKHere
<1> QED
  BY <1>1, <1>3, LeaveStep, KeepsFactor

LEMMA StoreFactor ==
  ASSUME TypeOK, TypeOK', CodeInv, FactorInv, NEW k \in Requests, slot[k] # Nil, Store(k)
  PROVE  FactorInv'
<1> DEFINE new == [slot[k] EXCEPT !.pc = "saved", !.saved = [version |-> row'.version, revision |-> policy.revision]]
<1>1. UNCHANGED <<sess, proved>> /\ SessionsStep
  BY SameSessionsStep DEF Store
<1>2. RowStep
  BY AcceptedCode DEF RowStep, Store
<1>3. Leave(k) \/ slot' = [slot EXCEPT ![k] = new]
  BY FailLeaves DEF Store, Go
<1>4. new.s = slot[k].s /\ new.kind = slot[k].kind /\ new.cookie = slot[k].cookie /\ new.pc = "saved"
  BY SlotOKHere DEF Slot
<1> HIDE DEF new
<1>5. CASE Leave(k)
  BY <1>1, <1>2, <1>5, LeaveStep, KeepsFactor
<1>6. CASE slot' = [slot EXCEPT ![k] = new]
  <2>1. SlotsStep /\ \A l \in Requests : slot'[l] = IF l = k THEN new ELSE slot[l]
    BY <1>4, <1>6, GoStep DEF Informed
  <2> QED
    BY <1>1, <1>2, <1>4, <2>1, KeepsFactor
<1> QED
  BY <1>3, <1>5, <1>6

LEMMA SameSlotsStep ==
  ASSUME UNCHANGED slot
  PROVE  SlotsStep /\ \A l \in Requests : slot'[l] = slot[l]
BY DEF SlotsStep, SlotStep, SnapRow, Informed

LEMMA OutsideFactor ==
  ASSUME TypeOK, TypeOK', CodeInv, FactorInv, Logout \/ Sweep \/ Admin \/ Tick
  PROVE  FactorInv'
<1>1. UNCHANGED <<slot, proved>>
  BY DEF Logout, Sweep, Admin, Tick, history
<1>2. RowStep
  BY DEF RowStep, Logout, Sweep, Admin, Tick, db
<1>3. SessionsStep
  <2>1. CASE Logout
    BY <2>1, DestroyedStep DEF Logout
  <2>2. CASE Sweep
    <3>1. PICK s \in Sessions : sess' = [sess EXCEPT ![s] = [sess[s] EXCEPT !.draft = Nil]]
      BY <2>2 DEF Sweep
    <3> DEFINE new == [sess[s] EXCEPT !.draft = Nil]
    <3>2. /\ new.phase = sess[s].phase /\ new.cookie = sess[s].cookie
          /\ new.version = sess[s].version /\ new.state = sess[s].state
      BY DEF TypeOK, Sess
    <3> HIDE DEF new
    <3>3. sess' = [sess EXCEPT ![s] = new]
      BY <3>1 DEF new
    <3> QED
      BY <3>2, <3>3 DEF SessionsStep, TypeOK
  <2>3. CASE Admin \/ Tick
    BY <2>3, SameSessionsStep DEF Admin, Tick
  <2> QED
    BY <2>1, <2>2, <2>3
<1> QED
  BY <1>1, <1>2, <1>3, SameSlotsStep, KeepsFactor

\* A request that begins has read nothing yet.
LEMMA NewRows ==
  ASSUME TypeOK, FactorInv, UNCHANGED <<row, proved>>,
         \A l \in Requests : SnapRow(l)' \in {SnapRow(l), Nil},
         \A s \in Sessions : sess'[s].cookie = sess[s].cookie /\ sess'[s].state = sess[s].state
                             /\ sess'[s].version = sess[s].version,
         \A s \in Sessions : sess'[s].phase = "live" /\ sess'[s].cookie # 0 => sess[s].phase = "live"
  PROVE  RowsOK' /\ ReadyOK'
<1>1. RowsOK'
  <2>1. \A l \in Requests : SameFactor(row', SnapRow(l)')
    BY DEF FactorInv, RowsOK, SameFactor
  <2>2. \A k, l \in Requests : SameFactor(SnapRow(k)', SnapRow(l)')
    BY DEF FactorInv, RowsOK, SameFactor
  <2> QED
    BY <2>1, <2>2 DEF RowsOK
<1>2. ReadyOK'
  <2> SUFFICES ASSUME NEW s \in Sessions, sess'[s].phase = "live", sess'[s].cookie # 0, sess'[s].state = "ready",
                      sess'[s].version \notin proved'[s]
               PROVE  /\ NoFactor(row', sess'[s].version)
                      /\ \A k \in Requests : NoFactor(SnapRow(k)', sess'[s].version)
    BY DEF ReadyOK
  <2>1. /\ NoFactor(row, sess[s].version)
        /\ \A k \in Requests : NoFactor(SnapRow(k), sess[s].version)
    BY DEF FactorInv, ReadyOK
  <2> QED
    BY <2>1 DEF NoFactor
<1> QED
  BY <1>1, <1>2

LEMMA ArriveFactor ==
  ASSUME TypeOK, TypeOK', FactorInv, Arrive
  PROVE  FactorInv'
<1>1. PICK k \in Requests, s \in Sessions :
        /\ slot[k] = Nil /\ Alive(s) /\ sess[s].cookie # 0
        /\ \E kind \in Kinds \ {"login"} : \E code, draft : Go(k, Request(kind, s, code, draft))
  <2>1. Kinds \ {"login"} = {"use", "begin", "cancel", "verify", "confirm", "disable"}
    BY DEF Kinds
  <2>2. PICK k \in Requests, s \in Sessions :
        LET draft == sess[s].draft IN
        /\ slot[k] = Nil /\ Alive(s) /\ sess[s].cookie # 0
        /\ \/ Go(k, Request("use", s, Nil, Nil))
           \/ sess[s].state # "otp" /\ draft = Nil /\ Go(k, Request("begin", s, Nil, Nil))
           \/ sess[s].state = "ready" /\ draft # Nil /\ Go(k, Request("cancel", s, Nil, Nil))
           \/ /\ row # Nil
              /\ \E kind \in {IF sess[s].state = "otp" THEN "verify" ELSE "disable"},
                    code \in {Nil} \union Shown(row.seed) : Go(k, Request(kind, s, code, Nil))
           \/ /\ draft # Nil
              /\ \E code \in {Nil} \union Shown(draft.seed) : Go(k, Request("confirm", s, code, draft))
    BY DEF Arrive
  <2> QED
    BY <2>1, <2>2
<1>2. PICK kind \in Kinds \ {"login"} : \E code, draft : Go(k, Request(kind, s, code, draft))
  BY <1>1
<1>3. PICK code, draft : slot' = [slot EXCEPT ![k] = Request(kind, s, code, draft)]
  BY <1>2 DEF Go
<1> DEFINE q == Request(kind, s, code, draft)
<1>4. q.s = s /\ q.kind # "login" /\ q.cookie = sess[s].cookie /\ q.pc = "read"
  BY DEF Request
<1> HIDE DEF q
<1>5. \A l \in Requests : slot'[l] = IF l = k THEN q ELSE slot[l]
  BY <1>3 DEF TypeOK, q
<1>6. UNCHANGED <<row, sess, proved>>
  BY DEF Arrive, db, history
<1>7. \A l \in Requests : SnapRow(l)' \in {SnapRow(l), Nil}
  BY <1>4, <1>5 DEF SnapRow, Informed
<1>8. RowsOK' /\ ReadyOK'
  BY <1>6, <1>7, NewRows
<1>9. LoginOK'
  BY <1>1, <1>4, <1>5, <1>6 DEF FactorInv, LoginOK
<1>10. CookieOK'
  <2>1. sess[s].cookie <= sess[s].cookie
    BY DEF TypeOK, Sess
  <2> QED
    BY <1>1, <1>4, <1>5, <1>6, <2>1 DEF FactorInv, CookieOK
<1>11. ServedOK'
  BY <1>4, <1>5, <1>6 DEF FactorInv, ServedOK, Enabled
<1> QED
  BY <1>8, <1>9, <1>10, <1>11 DEF FactorInv

LEMMA LoginFactor ==
  ASSUME TypeOK, TypeOK', FactorInv, Login
  PROVE  FactorInv'
<1>1. PICK k \in Requests, s \in Sessions :
        /\ slot[k] = Nil /\ sess[s].phase = "unused"
        /\ sess' = [sess EXCEPT ![s] = [sess[s] EXCEPT !.phase = "live"]]
        /\ slot' = [slot EXCEPT ![k] = [Request("login", s, Nil, Nil) EXCEPT !.pc = "insert"]]
  BY DEF Login
<1> DEFINE q == [Request("login", s, Nil, Nil) EXCEPT !.pc = "insert"]
           new == [sess[s] EXCEPT !.phase = "live"]
<1>2. q.s = s /\ q.kind = "login" /\ q.pc = "insert"
  BY DEF Request
<1>3. /\ new.phase = "live" /\ new.cookie = sess[s].cookie /\ new.state = sess[s].state
      /\ new.version = sess[s].version
  BY DEF TypeOK, Sess
<1> HIDE DEF q, new
<1>4. /\ \A l \in Requests : slot'[l] = IF l = k THEN q ELSE slot[l]
      /\ \A t \in Sessions : sess'[t] = IF t = s THEN new ELSE sess[t]
  BY <1>1 DEF TypeOK, q, new
<1>5. UNCHANGED <<row, proved>>
  BY DEF Login, db, history
<1>6. sess[s].cookie = 0 /\ \A l \in Requests : slot[l] # Nil => slot[l].s # s
  BY <1>1 DEF FactorInv, LoginOK
<1>7. \A l \in Requests : slot[l] # Nil => slot[l].s \in Sessions
  BY SlotOKHere
<1>8. \A l \in Requests : SnapRow(l)' \in {SnapRow(l), Nil}
  BY <1>2, <1>4 DEF SnapRow, Informed
<1>9. RowsOK' /\ ReadyOK'
  BY <1>3, <1>4, <1>5, <1>6, <1>8, NewRows
<1>10. LoginOK'
  <2>1. ASSUME NEW t \in Sessions, sess'[t].phase = "unused"
        PROVE  sess'[t].cookie = 0 /\ \A l \in Requests : slot'[l] # Nil => slot'[l].s # t
    <3>1. t # s /\ sess'[t] = sess[t]
      BY <1>3, <1>4, <2>1
    <3> QED
      BY <1>2, <1>4, <2>1, <3>1 DEF FactorInv, LoginOK
  <2>2. ASSUME NEW i \in Requests, NEW l \in Requests, slot'[i] # Nil, slot'[l] # Nil, slot'[i].kind = "login"
        PROVE  sess'[slot'[i].s].cookie = 0 /\ (slot'[i].s = slot'[l].s => i = l)
    <3>1. CASE i = k
      BY <1>2, <1>3, <1>4, <1>6, <2>2, <3>1
    <3>2. CASE i # k
      <4>1. slot'[i] = slot[i] /\ slot[i].s # s /\ slot[i].s \in Sessions
        BY <1>4, <1>6, <1>7, <2>2, <3>2
      <4>2. sess'[slot'[i].s] = sess[slot[i].s]
        BY <1>4, <4>1
      <4>3. sess[slot[i].s].cookie = 0
        BY <2>2, <4>1 DEF FactorInv, LoginOK
      <4>4. slot'[i].s = slot'[l].s => i = l
        BY <1>2, <1>4, <2>2, <4>1 DEF FactorInv, LoginOK
      <4> QED
        BY <4>2, <4>3, <4>4
    <3> QED
      BY <3>1, <3>2
  <2> QED
    BY <2>1, <2>2 DEF LoginOK
<1>11. CookieOK'
  BY <1>2, <1>4, <1>6, <1>7 DEF FactorInv, CookieOK
<1>12. ServedOK'
  BY <1>2, <1>4, <1>5, <1>6, <1>7 DEF FactorInv, ServedOK, Enabled
<1> QED
  BY <1>9, <1>10, <1>11, <1>12 DEF FactorInv

LEMMA EnsureFactor ==
  ASSUME TypeOK, TypeOK', CodeInv, FactorInv, NEW k \in Requests, slot[k] # Nil, EnsureAccount(k) \/ LoginFails(k)
  PROVE  FactorInv'
<1>1. UNCHANGED proved /\ RowStep
  BY DEF EnsureAccount, LoginFails, RowStep, db, history
<1>2. slot[k] \in Slot
  BY SlotOKHere
<1>3. CASE LoginFails(k)
  <2>1. SessionsStep
    BY <1>3, DestroyedStep, SlotOKHere DEF LoginFails
  <2> QED
    BY <1>1, <1>3, <2>1, LeaveStep, KeepsFactor DEF LoginFails
<1>4. CASE EnsureAccount(k) /\ slot[k].pc = "insert"
  <2> DEFINE q == [slot[k] EXCEPT !.pc = "select"]
  <2>1. q.s = slot[k].s /\ q.kind = slot[k].kind /\ q.cookie = slot[k].cookie /\ q.pc = "select"
    BY <1>2 DEF Slot
  <2>2. slot' = [slot EXCEPT ![k] = q] /\ SessionsStep
    BY <1>4, SameSessionsStep DEF EnsureAccount, Go
  <2> HIDE DEF q
  <2>3. SlotsStep /\ \A l \in Requests : slot'[l] = IF l = k THEN q ELSE slot[l]
    BY <2>1, <2>2, GoStep DEF Informed
  <2> QED
    BY <1>1, <2>1, <2>2, <2>3, KeepsFactor
<1>5. CASE EnsureAccount(k) /\ slot[k].pc # "insert"
  <2> DEFINE q == [slot[k] EXCEPT !.pc = "initialize", !.snap = [row |-> row, policy |-> policy]]
  <2>1. q.s = slot[k].s /\ q.kind = slot[k].kind /\ q.cookie = slot[k].cookie /\ q.pc = "initialize" /\ q.snap.row = row
    BY <1>2 DEF Slot
  <2>2. slot' = [slot EXCEPT ![k] = q] /\ SessionsStep /\ UNCHANGED row
    BY <1>5, SameSessionsStep DEF EnsureAccount, Go, db
  <2> HIDE DEF q
  <2>3. SlotsStep /\ \A l \in Requests : slot'[l] = IF l = k THEN q ELSE slot[l]
    BY <2>1, <2>2, GoStep
  <2> QED
    BY <1>1, <2>1, <2>2, <2>3, KeepsFactor
<1> QED
  BY <1>3, <1>4, <1>5

\* The session of a login had no cookie, and no other request is of it.
LEMMA InitializeFactor ==
  ASSUME TypeOK, TypeOK', OtpAssumption, CodeInv, FactorInv, NEW k \in Requests, slot[k] # Nil, Initialize(k)
  PROVE  FactorInv'
<1> DEFINE q == slot[k]
           new == [LoggedIn(q.snap) EXCEPT !.phase = sess[q.s].phase]
<1>1. /\ q.s \in Sessions /\ sess[q.s] \in Sess /\ q.snap \in Snap /\ q.kind = "login" /\ q.pc = "initialize"
  BY SlotOKHere DEF SlotOK, Informed, Initialize
<1>2. UNCHANGED <<row, proved>> /\ RowStep /\ Leave(k)
  BY SameRowStep DEF Initialize, db, history
<1>3. CASE q.snap.row = Nil
  <2>1. SessionsStep
    BY <1>1, <1>3, DestroyedStep DEF Initialize
  <2> QED
    BY <1>2, <2>1, LeaveStep, KeepsFactor
<1>4. CASE q.snap.row # Nil
  <2>1. /\ LoggedIn(q.snap) \in Sess /\ LoggedIn(q.snap).version = q.snap.row.version
        /\ LoggedIn(q.snap).state = "ready" => ~Enabled(q.snap.row)
    BY <1>1, <1>4, LoggedInType
  <2>2. /\ new.phase = sess[q.s].phase /\ new.version = q.snap.row.version
        /\ new.state = "ready" => q.snap.row.seed = Nil
    BY <1>4, <2>1 DEF Sess, Enabled
  <2>3. \A t \in Sessions : sess'[t] = IF t = q.s THEN new ELSE sess[t]
    BY <1>4 DEF Initialize, TypeOK
  <2> HIDE DEF new
  <2>4. SlotsStep /\ \A l \in Requests : slot'[l] # Nil => slot'[l] = slot[l] /\ l # k
    <3>1. slot'[k] = Nil
      BY <1>2 DEF Leave, TypeOK
    <3> QED
      BY <1>2, <3>1, LeaveStep
  <2>5. \A l \in Requests : slot'[l] # Nil => slot'[l].s # q.s
    BY <1>1, <2>4 DEF FactorInv, LoginOK
  <2>6. RowsOK'
    BY <1>2, <2>4, KeepsRows DEF FactorInv
  <2>7. ReadyOK'
    <3> SUFFICES ASSUME NEW s \in Sessions, sess'[s].phase = "live", sess'[s].cookie # 0, sess'[s].state = "ready",
                        sess'[s].version \notin proved'[s]
                 PROVE  /\ NoFactor(row', sess'[s].version)
                        /\ \A l \in Requests : NoFactor(SnapRow(l)', sess'[s].version)
      BY DEF ReadyOK
    <3>1. \A l \in Requests : SnapRow(l)' \in {SnapRow(l), Nil}
      BY <2>4 DEF SnapRow, Informed
    <3>2. NoFactor(row, sess'[s].version) /\ \A l \in Requests : NoFactor(SnapRow(l), sess'[s].version)
      <4>1. CASE s # q.s
        BY <1>2, <2>3, <4>1 DEF FactorInv, ReadyOK
      <4>2. CASE s = q.s
        <5>1. q.snap.row.seed = Nil /\ sess'[s].version = q.snap.row.version
          BY <2>2, <2>3, <4>2
        <5>2. SnapRow(k) = q.snap.row
          BY <1>1 DEF SnapRow, Informed
        <5> QED
          BY <1>4, <5>1, <5>2 DEF FactorInv, RowsOK, SameFactor, NoFactor
      <4> QED
        BY <4>1, <4>2
    <3> QED
      BY <1>2, <3>1, <3>2 DEF NoFactor
  <2>8. LoginOK'
    <3>1. ASSUME NEW t \in Sessions, sess'[t].phase = "unused"
          PROVE  sess'[t].cookie = 0 /\ \A l \in Requests : slot'[l] # Nil => slot'[l].s # t
      <4>1. sess[t].phase = "unused"
        BY <2>2, <2>3, <3>1
      <4>2. t # q.s
        BY <1>1, <4>1 DEF FactorInv, LoginOK
      <4> QED
        BY <2>3, <2>4, <4>1, <4>2 DEF FactorInv, LoginOK
    <3>2. ASSUME NEW i \in Requests, NEW l \in Requests, slot'[i] # Nil, slot'[l] # Nil, slot'[i].kind = "login"
          PROVE  sess'[slot'[i].s].cookie = 0 /\ (slot'[i].s = slot'[l].s => i = l)
      <4>1. slot'[i] = slot[i] /\ slot'[l] = slot[l] /\ slot[i].s # q.s /\ slot[i].s \in Sessions
        BY <2>4, <2>5, <3>2, SlotOKHere
      <4> QED
        BY <2>3, <3>2, <4>1 DEF FactorInv, LoginOK
    <3> QED
      BY <3>1, <3>2 DEF LoginOK
  <2>9. \A l \in Requests : slot'[l] # Nil => slot[l].s \in Sessions /\ sess'[slot[l].s] = sess[slot[l].s]
    BY <2>3, <2>4, <2>5, SlotOKHere
  <2>10. CookieOK'
    BY <2>4, <2>9 DEF FactorInv, CookieOK
  <2>11. ServedOK'
    BY <1>2, <2>4, <2>9 DEF FactorInv, ServedOK, Enabled
  <2> QED
    BY <2>6, <2>7, <2>8, <2>10, <2>11 DEF FactorInv
<1> QED
  BY <1>3, <1>4

\* The new cookie is past the cookies of the requests at hand.
LEMMA RotateFactor ==
  ASSUME TypeOK, TypeOK', CodeInv, FactorInv, NEW k \in Requests, slot[k] # Nil, Rotate(k)
  PROVE  FactorInv'
<1> DEFINE q == slot[k]
<1>1. q.s \in Sessions /\ sess[q.s] \in Sess /\ q.kind # "login" /\ q.saved.version \in Nat
  BY SlotOKHere DEF SlotOK, Rotate, Saved
<1>2. UNCHANGED row /\ RowStep /\ Leave(k)
  BY SameRowStep DEF Rotate, db
<1>3. SlotsStep /\ \A l \in Requests : slot'[l] # Nil => slot'[l] = slot[l]
  BY <1>2, LeaveStep
<1>4. CASE ~Alive(q.s)
  <2>1. UNCHANGED <<sess, proved>> /\ SessionsStep
    BY <1>4, SameSessionsStep DEF Rotate
  <2> QED
    BY <1>2, <1>3, <2>1, KeepsFactor
<1>5. CASE Alive(q.s)
  <2> DEFINE new == [sess[q.s] EXCEPT !.cookie = @ + 1, !.state = "ready", !.pending = Nil, !.draft = Nil,
                                      !.version = q.saved.version, !.revision = q.saved.revision]
  <2>1. /\ sess' = [s \in Sessions |-> IF s = q.s THEN [sess[s] EXCEPT !.cookie = @ + 1, !.state = "ready",
                      !.pending = Nil, !.draft = Nil, !.version = q.saved.version, !.revision = q.saved.revision]
                    ELSE IF q.kind # "verify" /\ sess[s].phase = "live" THEN Destroyed(s)[s] ELSE sess[s]]
        /\ proved' = [proved EXCEPT ![q.s] = @ \union {q.saved.version}]
    BY <1>5 DEF Rotate
  <2>2. /\ sess'[q.s] = new
        /\ \A s \in Sessions : s # q.s => sess'[s] \in {sess[s], Destroyed(s)[s]}
    BY <1>1, <2>1
  <2>3. new.phase = "live" /\ new.cookie = sess[q.s].cookie + 1 /\ new.version = q.saved.version
    BY <1>1, <1>5 DEF Sess, Alive
  <2>4. /\ \A s \in Sessions : proved[s] \subseteq proved'[s]
        /\ q.saved.version \in proved'[q.s]
    BY <1>1, <2>1 DEF TypeOK
  <2> HIDE DEF new
  <2>5. \A s \in Sessions : s # q.s => sess'[s] = sess[s] \/ (sess'[s].phase = "dead" /\ sess'[s].cookie = 0)
    BY <2>2, DestroyedType
  <2>6. sess[q.s].cookie \in Nat /\ sess[q.s].phase = "live"
    BY <1>1, <1>5 DEF Sess, Alive
  <2>7. RowsOK'
    BY <1>2, <1>3, KeepsRows DEF FactorInv
  <2>8. ReadyOK'
    <3> SUFFICES ASSUME NEW s \in Sessions, sess'[s].phase = "live", sess'[s].cookie # 0, sess'[s].state = "ready",
                        sess'[s].version \notin proved'[s]
                 PROVE  /\ NoFactor(row', sess'[s].version)
                        /\ \A l \in Requests : NoFactor(SnapRow(l)', sess'[s].version)
      BY DEF ReadyOK
    <3>1. s # q.s /\ sess'[s] = sess[s]
      BY <2>2, <2>3, <2>4, <2>5
    <3>2. NoFactor(row, sess[s].version) /\ \A l \in Requests : NoFactor(SnapRow(l), sess[s].version)
      BY <2>4, <3>1 DEF FactorInv, ReadyOK
    <3>3. \A l \in Requests : SnapRow(l)' \in {SnapRow(l), Nil}
      BY <1>3 DEF SnapRow, Informed
    <3> QED
      BY <1>2, <3>1, <3>2, <3>3 DEF NoFactor
  <2>9. LoginOK'
    <3>1. ASSUME NEW t \in Sessions, sess'[t].phase = "unused"
          PROVE  sess'[t].cookie = 0 /\ \A l \in Requests : slot'[l] # Nil => slot'[l].s # t
      <4>1. sess'[t] = sess[t]
        BY <2>2, <2>3, <2>5, <3>1
      <4> QED
        BY <1>3, <3>1, <4>1 DEF FactorInv, LoginOK
    <3>2. ASSUME NEW i \in Requests, NEW l \in Requests, slot'[i] # Nil, slot'[l] # Nil, slot'[i].kind = "login"
          PROVE  sess'[slot'[i].s].cookie = 0 /\ (slot'[i].s = slot'[l].s => i = l)
      <4>1. slot'[i] = slot[i] /\ slot'[l] = slot[l] /\ slot[i].s \in Sessions
        BY <1>3, <3>2, SlotOKHere
      <4>2. slot[i].s # q.s
        BY <1>1, <3>2, <4>1 DEF FactorInv, LoginOK
      <4>3. sess[slot[i].s].cookie = 0 /\ (slot[i].s = slot[l].s => i = l)
        BY <3>2, <4>1 DEF FactorInv, LoginOK
      <4> QED
        BY <2>5, <4>1, <4>2, <4>3
    <3> QED
      BY <3>1, <3>2 DEF LoginOK
  <2>10. ASSUME NEW l \in Requests, slot'[l] # Nil, slot'[l].kind # "login"
         PROVE  /\ slot'[l].cookie # 0
                /\ slot'[l].cookie <= sess'[slot'[l].s].cookie \/ sess'[slot'[l].s].phase = "dead"
                /\ slot'[l].s = q.s => slot'[l].cookie # sess'[q.s].cookie
    <3>1. slot'[l] = slot[l] /\ slot[l].s \in Sessions /\ slot[l].cookie \in Nat
      BY <1>3, <2>10, SlotOKHere DEF Slot
    <3>2. slot[l].cookie # 0 /\ (slot[l].cookie <= sess[slot[l].s].cookie \/ sess[slot[l].s].phase = "dead")
      BY <2>10, <3>1 DEF FactorInv, CookieOK
    <3>3. CASE slot[l].s = q.s
      BY <2>2, <2>3, <2>6, <3>1, <3>2, <3>3
    <3>4. CASE slot[l].s # q.s
      BY <2>5, <3>1, <3>2, <3>4
    <3> QED
      BY <3>3, <3>4
  <2>11. CookieOK'
    BY <2>10 DEF CookieOK
  <2>12. ServedOK'
    <3> SUFFICES ASSUME NEW l \in Requests, slot'[l] # Nil, slot'[l].pc = "authorize",
                        sess'[slot'[l].s].cookie = slot'[l].cookie, sess'[slot'[l].s].state = "ready"
                 PROVE  /\ Enabled(slot'[l].snap.row) => slot'[l].snap.row.version \in proved'[slot'[l].s]
                        /\ slot'[l].snap.policy.force => Enabled(slot'[l].snap.row)
      BY DEF ServedOK, Enabled
    <3>1. slot'[l] = slot[l] /\ slot[l].s \in Sessions /\ slot[l].kind # "login"
      BY <1>3, SlotOKHere DEF SlotOK
    <3>2. slot[l].cookie # 0 /\ slot[l].s # q.s
      BY <2>10, <3>1
    <3>3. sess'[slot[l].s] = sess[slot[l].s]
      BY <2>5, <3>1, <3>2
    <3> QED
      BY <2>4, <3>1, <3>3 DEF FactorInv, ServedOK
  <2> QED
    BY <2>7, <2>8, <2>9, <2>11, <2>12 DEF FactorInv
<1> QED
  BY <1>4, <1>5

LEMMA NextFactor ==
  ASSUME TypeOK, TypeOK', OtpAssumption, CodeInv, FactorInv, [Next]_vars
  PROVE  FactorInv'
<1>1. ASSUME NEW k \in Requests, Handle(k) PROVE FactorInv'
  BY <1>1, ReadFactor, CheckFactor, BeginFactor, StoreFailsFactor, StoreFactor, RotateFactor,
     EnsureFactor, InitializeFactor DEF Handle
<1>2. CASE UNCHANGED vars
  <2>1. UNCHANGED <<row, sess, slot, proved>>
    BY <1>2 DEF vars, db, history
  <2> QED
    BY <2>1, SameRowStep, SameSessionsStep, SameSlotsStep, KeepsFactor
<1> QED
  BY <1>1, <1>2, ArriveFactor, LoginFactor, OutsideFactor DEF Next

-------------------------------------------------------------------------------
(* The theorems.                                                           *)

LEMMA InitInv == ASSUME OtpAssumption, Init PROVE IInv
<1>1. /\ row = Nil \/ (row \in Row /\ row.version = 1 /\ row.seed \in {Nil, 2} /\ row.last = -1)
      /\ policy \in Policy /\ fresh = 2 /\ now = 0 /\ used = <<>>
      /\ slot = [k \in Requests |-> Nil] /\ proved = [s \in Sessions |-> {}]
  <2>1. row \in {Nil, [version |-> 1, seed |-> Nil, last |-> -1], [version |-> 1, seed |-> 2, last |-> -1]}
    BY DEF Init
  <2>2. row = Nil \/ (row \in Row /\ row.version = 1 /\ row.seed \in {Nil, 2} /\ row.last = -1)
    BY <2>1 DEF Row
  <2>3. policy \in Policy
    BY DEF Init, Policy
  <2> QED
    BY <2>2, <2>3 DEF Init
<1> DEFINE in == LoggedIn([row |-> row, policy |-> policy])
<1>2. row # Nil => /\ in \in Sess /\ in.draft = Nil /\ in.version = row.version /\ in.phase = "live"
                   /\ in.state = "ready" => row.seed = Nil
  <2> SUFFICES ASSUME row # Nil
               PROVE  /\ in \in Sess /\ in.draft = Nil /\ in.version = row.version /\ in.phase = "live"
                      /\ in.state = "ready" => row.seed = Nil
    OBVIOUS
  <2>1. row \in Row /\ (row.seed # Nil => row.seed \in Nat)
    BY <1>1
  <2>2. in.state = "ready" => row.seed = Nil
    BY DEF LoggedIn, Enabled
  <2>3. in \in Sess
    BY <1>1, <2>1 DEF LoggedIn, Sess, States, Policy, Row, OtpAssumption
  <2> QED
    BY <2>2, <2>3 DEF LoggedIn
<1>3. /\ Unused \in Sess /\ Unused.draft = Nil /\ Unused.version = 0 /\ Unused.cookie = 0 /\ Unused.phase = "unused"
  BY DEF Unused, Sess, States
<1> HIDE DEF in
<1>4. \A s \in Sessions : sess[s] = Unused \/ (row # Nil /\ sess[s] = in)
  BY DEF Init, in
<1>5. TypeOK
  <2>1. sess \in [Sessions -> Sess]
    BY <1>2, <1>3, <1>4 DEF Init
  <2> QED
    BY <1>1, <2>1 DEF TypeOK
<1>6. \A d : ~Known(d)
  BY <1>1, <1>2, <1>3, <1>4 DEF Known
<1>7. DOMAIN used = {}
  BY <1>1
<1>8. CodeInv
  <2>1. DrawnOK
    BY <1>1, <1>2, <1>3, <1>4, <1>6, <1>7 DEF DrawnOK
  <2> QED
    BY <1>6, <1>7, <2>1 DEF CodeInv, DraftsOK, LastOK, CodeOnce
<1>9. \A k \in Requests : slot[k] = Nil /\ SnapRow(k) = Nil
  BY <1>1 DEF SnapRow
<1>10. ReadyOK
  BY <1>2, <1>3, <1>4, <1>9 DEF ReadyOK, NoFactor
<1>11. LoginOK
  BY <1>2, <1>3, <1>4, <1>9 DEF LoginOK
<1>12. RowsOK /\ CookieOK /\ ServedOK
  BY <1>9 DEF RowsOK, SameFactor, CookieOK, ServedOK
<1> QED
  BY <1>5, <1>8, <1>10, <1>11, <1>12 DEF IInv, FactorInv

\* The invariant: types, the order in which versions and seeds are drawn, the drafts a
\* registration has outlived, the last step remembered, and what a session proved; it holds
\* whatever the interleaving of requests, the administrator and lost answers.
THEOREM Inductive == Spec => []IInv
<1>1. Init => IInv
  BY OtpAssumption, InitInv
<1>2. IInv /\ [Next]_vars => IInv'
  BY OtpAssumption, NextType, NextCodes, NextFactor DEF IInv
<1> QED
  BY <1>1, <1>2, PTL DEF Spec

\* No code is accepted twice (last_step, the version an enrollment is checked against), for
\* any number of sessions and requests at once and however many answers of the database are lost.
THEOREM CodeOnceHolds == Spec => []CodeOnce
<1>1. IInv => CodeOnce
  BY DEF IInv, CodeInv
<1> QED
  BY <1>1, Inductive, PTL

\* No request is served without the second factor its account had when it was read, nor while
\* one is demanded and missing, and a ready session that knows the present registration proved
\* it (checkAccess, authorize, rotate, initialize).
THEOREM NoBypassHolds == Spec => []NoBypass
<1>1. ASSUME IInv PROVE NoBypass
  <2>1. ASSUME NEW k \in Requests, Authorizing(k)
        PROVE  /\ Enabled(slot[k].snap.row) => slot[k].snap.row.version \in proved[slot[k].s]
               /\ slot[k].snap.policy.force => Enabled(slot[k].snap.row)
    <3>1. /\ slot[k] # Nil /\ slot[k].pc = "authorize" /\ sess[slot[k].s].cookie = slot[k].cookie
          /\ sess[slot[k].s].state = "ready"
      BY <2>1 DEF Authorizing, Authorized, Allowed
    <3> QED
      BY <1>1, <3>1 DEF IInv, FactorInv, ServedOK
  <2>2. ASSUME NEW s \in Sessions, Alive(s), sess[s].cookie # 0, sess[s].state = "ready",
               Enabled(row), row.version = sess[s].version
        PROVE  row.version \in proved[s]
    BY <1>1, <2>2 DEF IInv, FactorInv, ReadyOK, NoFactor, Alive, Enabled
  <2> QED
    BY <2>1, <2>2 DEF NoBypass
<1> QED
  BY <1>1, Inductive, PTL

-------------------------------------------------------------------------------
(* Sums over finite sets.                                                  *)

\* The fold, as the function it chooses.
Pick(S) == CHOOSE x \in S : TRUE

Folded(g, f, S) == g = [T \in SUBSET S |-> IF T = {} THEN 0 ELSE f[Pick(T)] + g[T \ {Pick(T)}]]

Total(f, S) == FoldFunctionOnSet(+, 0, f, S)

LEMMA TotalIs ==
  ASSUME NEW f, NEW S
  PROVE  Total(f, S) = (CHOOSE g : Folded(g, f, S))[S]
BY DEF Total, FoldFunctionOnSet, MapThenFoldSet, Folded, Pick

LEMMA PickIn == ASSUME NEW S, S # {} PROVE Pick(S) \in S
BY DEF Pick

\* Of the finite sets that fail, one fails although it does not with one element less.
LEMMA Smallest ==
  ASSUME NEW Bad, Bad # {}, \A S \in Bad : IsFiniteSet(S)
  PROVE  \E S \in Bad : \A x \in S : S \ {x} \notin Bad
<1> DEFINE Sizes == {Cardinality(S) : S \in Bad}
<1>1. Sizes \subseteq Nat /\ Sizes # {}
  BY FS_CardinalityType
<1>2. PICK n \in Sizes : \A m \in Sizes : ~ (<<m, n>> \in OpToRel(<, Nat))
  BY <1>1, WFMin, NatLessThanWellFounded
<1>3. \A m \in Sizes : ~ (m < n)
  BY <1>1, <1>2 DEF OpToRel
<1>4. PICK S \in Bad : Cardinality(S) = n
  BY <1>2
<1>5. ASSUME NEW x \in S, S \ {x} \in Bad
      PROVE  FALSE
  <2>1. Cardinality(S \ {x}) = Cardinality(S) - 1 /\ Cardinality(S) \in Nat
    BY FS_RemoveElement, FS_CardinalityType
  <2> QED
    BY <1>3, <1>4, <1>5, <2>1
<1> QED
  BY <1>4, <1>5

LEMMA FoldedSame ==
  ASSUME NEW f, NEW S, NEW T, IsFiniteSet(S), IsFiniteSet(T),
         NEW g, NEW h, Folded(g, f, S), Folded(h, f, T)
  PROVE  \A U \in SUBSET (S \cap T) : g[U] = h[U]
<1> DEFINE Bad == {U \in SUBSET (S \cap T) : g[U] # h[U]}
<1> SUFFICES ASSUME Bad # {}
             PROVE  FALSE
  OBVIOUS
<1>1. \A U \in Bad : IsFiniteSet(U)
  BY FS_Subset
<1>2. PICK U \in Bad : \A x \in U : U \ {x} \notin Bad
  BY <1>1, Smallest
<1>3. U \in SUBSET S /\ U \in SUBSET T /\ g[U] # h[U]
  OBVIOUS
<1>4. g[U] = (IF U = {} THEN 0 ELSE f[Pick(U)] + g[U \ {Pick(U)}])
  BY <1>3 DEF Folded
<1>5. h[U] = (IF U = {} THEN 0 ELSE f[Pick(U)] + h[U \ {Pick(U)}])
  BY <1>3 DEF Folded
<1>6. U # {}
  BY <1>3, <1>4, <1>5
<1>7. U \ {Pick(U)} \notin Bad
  BY <1>2, <1>6, PickIn
<1>8. g[U \ {Pick(U)}] = h[U \ {Pick(U)}]
  BY <1>3, <1>7
<1> QED
  BY <1>3, <1>4, <1>5, <1>8

\* What the fold chooses exists.
LEMMA FoldedExists ==
  ASSUME NEW f, NEW S, IsFiniteSet(S)
  PROVE  \E g : Folded(g, f, S)
<1> DEFINE Fun(T) == CHOOSE g : Folded(g, f, T)
           Bad == {T \in SUBSET S : ~ \E g : Folded(g, f, T)}
<1> SUFFICES ASSUME Bad # {}
             PROVE  FALSE
  OBVIOUS
<1>1. \A T \in Bad : IsFiniteSet(T)
  BY FS_Subset
<1>2. PICK T \in Bad : \A x \in T : T \ {x} \notin Bad
  BY <1>1, Smallest
<1>3. T \in SUBSET S /\ IsFiniteSet(T)
  BY <1>1
<1>4. ASSUME NEW U \in SUBSET T, U # T
      PROVE  \E g : Folded(g, f, U)
  <2>1. PICK x \in T : x \notin U
    BY <1>4
  <2>2. T \ {x} \in SUBSET S
    BY <1>3
  <2>3. PICK g : Folded(g, f, T \ {x})
    BY <1>2, <2>2
  <2> DEFINE h == [V \in SUBSET U |-> g[V]]
  <2>4. ASSUME NEW V \in SUBSET U
        PROVE  h[V] = IF V = {} THEN 0 ELSE f[Pick(V)] + h[V \ {Pick(V)}]
    <3>1. V \in SUBSET (T \ {x})
      BY <2>1
    <3>2. g[V] = IF V = {} THEN 0 ELSE f[Pick(V)] + g[V \ {Pick(V)}]
      BY <2>3, <3>1 DEF Folded
    <3>3. h[V] = g[V] /\ h[V \ {Pick(V)}] = g[V \ {Pick(V)}]
      OBVIOUS
    <3> QED
      BY <3>2, <3>3
  <2>5. h = [V \in SUBSET U |-> IF V = {} THEN 0 ELSE f[Pick(V)] + h[V \ {Pick(V)}]]
    <3> HIDE DEF h
    <3>1. h = [V \in SUBSET U |-> h[V]]
      BY DEF h
    <3> QED
      BY <2>4, <3>1
  <2> QED
    BY <2>5 DEF Folded
<1>5. ASSUME NEW U \in SUBSET T, U # T
      PROVE  Folded(Fun(U), f, U)
  BY <1>4, <1>5
<1> DEFINE h == [U \in SUBSET T |-> IF U = {} THEN 0
                                    ELSE f[Pick(U)] + Fun(U \ {Pick(U)})[U \ {Pick(U)}]]
<1>6. ASSUME NEW U \in SUBSET T, U # T
      PROVE  h[U] = Fun(U)[U]
  <2>1. Folded(Fun(U), f, U)
    BY <1>5, <1>6
  <2>2. Fun(U)[U] = IF U = {} THEN 0 ELSE f[Pick(U)] + Fun(U)[U \ {Pick(U)}]
    <3> HIDE DEF Fun
    <3> QED
      BY <2>1 DEF Folded
  <2>3. CASE U = {}
    <3> HIDE DEF Fun
    <3> QED
      BY <2>2, <2>3
  <2>4. CASE U # {}
    <3> DEFINE V == U \ {Pick(U)}
    <3>1. V \in SUBSET T /\ V # T /\ V \in SUBSET (U \cap V)
      BY <2>4, PickIn
    <3>2. Folded(Fun(V), f, V)
      BY <1>5, <3>1
    <3>3. IsFiniteSet(U) /\ IsFiniteSet(V)
      BY <1>3, <3>1, FS_Subset
    <3>4. Fun(U)[V] = Fun(V)[V]
      <4> HIDE DEF Fun, V
      <4> QED
        BY <2>1, <3>1, <3>2, <3>3, FoldedSame
    <3> HIDE DEF Fun
    <3> QED
      BY <2>2, <2>4, <3>4
  <2> QED
    BY <2>3, <2>4
<1>7. ASSUME NEW U \in SUBSET T
      PROVE  h[U] = IF U = {} THEN 0 ELSE f[Pick(U)] + h[U \ {Pick(U)}]
  <2>1. U # {} => U \ {Pick(U)} \in SUBSET T /\ U \ {Pick(U)} # T
    BY PickIn
  <2>2. U # {} => h[U \ {Pick(U)}] = Fun(U \ {Pick(U)})[U \ {Pick(U)}]
    BY <1>6, <2>1
  <2> HIDE DEF Fun
  <2>3. h[U] = IF U = {} THEN 0 ELSE f[Pick(U)] + Fun(U \ {Pick(U)})[U \ {Pick(U)}]
    OBVIOUS
  <2> QED
    BY <2>2, <2>3
<1>8. h = [U \in SUBSET T |-> IF U = {} THEN 0 ELSE f[Pick(U)] + h[U \ {Pick(U)}]]
  <2> HIDE DEF Fun
  <2>1. h = [U \in SUBSET T |-> h[U]]
    OBVIOUS
  <2> HIDE DEF h
  <2> QED
    BY <1>7, <2>1
<1>9. Folded(h, f, T)
  BY <1>8 DEF Folded
<1> QED
  BY <1>2, <1>9

\* A sum is its first summand and the sum of the others.
LEMMA TotalFirst ==
  ASSUME NEW f, NEW S, IsFiniteSet(S)
  PROVE  Total(f, S) = IF S = {} THEN 0 ELSE f[Pick(S)] + Total(f, S \ {Pick(S)})
<1> DEFINE R == S \ {Pick(S)}
           g == CHOOSE g : Folded(g, f, S)
           h == CHOOSE h : Folded(h, f, R)
<1>1. IsFiniteSet(R)
  BY FS_RemoveElement
<1>2. Folded(g, f, S)
  BY FoldedExists
<1>3. Folded(h, f, R)
  BY <1>1, FoldedExists
<1>4. Total(f, S) = g[S] /\ Total(f, R) = h[R]
  BY TotalIs
<1> HIDE DEF g, h
<1>5. g[S] = IF S = {} THEN 0 ELSE f[Pick(S)] + g[R]
  BY <1>2 DEF Folded
<1>6. R \in SUBSET (S \cap R)
  OBVIOUS
<1> HIDE DEF R
<1>7. g[R] = h[R]
  BY <1>1, <1>2, <1>3, <1>6, FoldedSame
<1> QED
  BY <1>4, <1>5, <1>7 DEF R

LEMMA TotalNat ==
  ASSUME NEW f, NEW S, IsFiniteSet(S), \A i \in S : f[i] \in Nat
  PROVE  Total(f, S) \in Nat
<1> DEFINE Bad == {T \in SUBSET S : Total(f, T) \notin Nat}
<1> SUFFICES ASSUME Bad # {}
             PROVE  FALSE
  OBVIOUS
<1>1. \A T \in Bad : IsFiniteSet(T)
  BY FS_Subset
<1>2. PICK T \in Bad : \A x \in T : T \ {x} \notin Bad
  BY <1>1, Smallest
<1>3. T \in SUBSET S /\ IsFiniteSet(T) /\ Total(f, T) \notin Nat
  BY <1>1
<1>4. Total(f, T) = IF T = {} THEN 0 ELSE f[Pick(T)] + Total(f, T \ {Pick(T)})
  BY <1>3, TotalFirst
<1>5. T # {}
  BY <1>3, <1>4
<1>6. Pick(T) \in T /\ T \ {Pick(T)} \notin Bad
  BY <1>2, <1>5, PickIn
<1>7. f[Pick(T)] \in Nat /\ Total(f, T \ {Pick(T)}) \in Nat
  BY <1>3, <1>6
<1> QED
  BY <1>3, <1>4, <1>5, <1>7

\* Any summand may come first.
LEMMA TotalRemove ==
  ASSUME NEW f, NEW S, IsFiniteSet(S), \A i \in S : f[i] \in Nat, NEW x \in S
  PROVE  Total(f, S) = f[x] + Total(f, S \ {x})
<1> DEFINE Good(T) == \A z \in T : Total(f, T) = f[z] + Total(f, T \ {z})
           Bad == {T \in SUBSET S : ~ Good(T)}
<1> SUFFICES ASSUME Bad # {}
             PROVE  FALSE
  OBVIOUS
<1>1. \A T \in Bad : IsFiniteSet(T)
  BY FS_Subset
<1>2. PICK T \in Bad : \A z \in T : T \ {z} \notin Bad
  BY <1>1, Smallest
<1>3. T \in SUBSET S /\ IsFiniteSet(T)
  BY <1>1
<1>4. PICK z \in T : Total(f, T) # f[z] + Total(f, T \ {z})
  BY <1>2
<1>5. PICK y : y = Pick(T)
  OBVIOUS
<1>6. y \in T
  BY <1>4, <1>5, PickIn
<1>7. Total(f, T) = f[y] + Total(f, T \ {y})
  BY <1>3, <1>4, <1>5, TotalFirst
<1>8. y # z
  BY <1>4, <1>7
<1>9. Good(T \ {y}) /\ Good(T \ {z})
  BY <1>2, <1>3, <1>4, <1>6
<1>10. Total(f, T \ {y}) = f[z] + Total(f, (T \ {y}) \ {z})
  BY <1>4, <1>8, <1>9
<1>11. Total(f, T \ {z}) = f[y] + Total(f, (T \ {z}) \ {y})
  BY <1>6, <1>8, <1>9
<1>12. (T \ {y}) \ {z} = (T \ {z}) \ {y}
  OBVIOUS
<1>13. PICK rest : rest = Total(f, (T \ {y}) \ {z})
  OBVIOUS
<1>14. IsFiniteSet((T \ {y}) \ {z})
  BY <1>3, FS_RemoveElement
<1>15. rest \in Nat /\ f[y] \in Nat /\ f[z] \in Nat
  BY <1>3, <1>4, <1>6, <1>13, <1>14, TotalNat
<1> HIDE DEF Good, Bad
<1>16. Total(f, T) = f[y] + (f[z] + rest) /\ Total(f, T \ {z}) = f[y] + rest
  BY <1>7, <1>10, <1>11, <1>12, <1>13
<1> QED
  BY <1>4, <1>15, <1>16

\* More and greater summands have a greater sum.
LEMMA TotalMono ==
  ASSUME NEW f, NEW h, NEW T, IsFiniteSet(T), NEW S \in SUBSET T,
         \A i \in S : f[i] \in Nat /\ f[i] <= h[i], \A i \in T : h[i] \in Nat
  PROVE  Total(f, S) <= Total(h, T)
<1> DEFINE Good(U) == Total(f, S \cap U) <= Total(h, U)
           Bad == {U \in SUBSET T : ~ Good(U)}
<1>1. ASSUME Bad # {}
      PROVE  FALSE
  <2>1. \A U \in Bad : IsFiniteSet(U)
    BY FS_Subset
  <2>2. PICK U \in Bad : \A x \in U : U \ {x} \notin Bad
    BY <1>1, <2>1, Smallest
  <2>3. /\ U \in SUBSET T /\ IsFiniteSet(U) /\ ~ Good(U) /\ IsFiniteSet(S \cap U)
        /\ \A i \in U : h[i] \in Nat
        /\ \A i \in S \cap U : f[i] \in Nat
    <3>1. U \in SUBSET T /\ IsFiniteSet(U) /\ ~ Good(U)
      BY <2>1
    <3>2. IsFiniteSet(S \cap U)
      BY <3>1, FS_Subset
    <3> QED
      BY <3>1, <3>2
  <2>4. CASE U = {}
    <3>1. Total(f, S \cap U) = 0 /\ Total(h, U) = 0
      <4>1. S \cap U = {}
        BY <2>4
      <4>2. Total(f, S \cap U) = 0
        BY <2>3, <4>1, TotalFirst
      <4> QED
        BY <2>3, <2>4, <4>2, TotalFirst
    <3> QED
      BY <2>3, <3>1
  <2>5. CASE U # {}
    <3>1. PICK x \in U : TRUE
      BY <2>5
    <3>2. Good(U \ {x})
      BY <2>2, <2>3
    <3>3. Total(h, U) = h[x] + Total(h, U \ {x})
      BY <2>3, TotalRemove
    <3>4. IsFiniteSet(U \ {x}) /\ IsFiniteSet(S \cap (U \ {x}))
      <4>1. IsFiniteSet(U \ {x})
        BY <2>3, FS_RemoveElement
      <4> QED
        BY <4>1, FS_Subset
    <3>5. Total(h, U \ {x}) \in Nat /\ Total(f, S \cap (U \ {x})) \in Nat
      <4>1. Total(h, U \ {x}) \in Nat
        BY <2>3, <3>4, TotalNat
      <4>2. \A i \in S \cap (U \ {x}) : f[i] \in Nat
        BY <2>3
      <4> QED
        BY <3>4, <4>1, <4>2, TotalNat
    <3>6. CASE x \in S
      <4>1. Total(f, S \cap U) = f[x] + Total(f, (S \cap U) \ {x})
        BY <2>3, <3>6, TotalRemove
      <4>2. Total(f, (S \cap U) \ {x}) = Total(f, S \cap (U \ {x}))
        <5>1. (S \cap U) \ {x} = S \cap (U \ {x})
          OBVIOUS
        <5> QED
          BY <5>1, Zenon
      <4>3. Total(f, S \cap (U \ {x})) <= Total(h, U \ {x})
        BY <3>2
      <4>4. f[x] \in Nat /\ h[x] \in Nat /\ f[x] <= h[x]
        BY <2>3, <3>6
      <4>5. ~ (Total(f, S \cap U) <= Total(h, U))
        BY <2>3
      <4> HIDE DEF Good, Bad
      <4> QED
        BY <3>3, <3>5, <4>1, <4>2, <4>3, <4>4, <4>5
    <3>7. CASE x \notin S
      <4>1. Total(f, S \cap U) = Total(f, S \cap (U \ {x}))
        <5>1. S \cap U = S \cap (U \ {x})
          BY <3>7
        <5> QED
          BY <5>1, Zenon
      <4>2. Total(f, S \cap (U \ {x})) <= Total(h, U \ {x})
        BY <3>2
      <4>3. h[x] \in Nat
        BY <2>3
      <4>4. ~ (Total(f, S \cap U) <= Total(h, U))
        BY <2>3
      <4> HIDE DEF Good, Bad
      <4> QED
        BY <3>3, <3>5, <4>1, <4>2, <4>3, <4>4
    <3> QED
      BY <3>6, <3>7
  <2> QED
    BY <2>4, <2>5
<1>2. Good(T)
  BY <1>1
<1>3. S \cap T = S
  OBVIOUS
<1> QED
  BY <1>2, <1>3

\* One summand grows by one.
LEMMA TotalPlus ==
  ASSUME NEW f, NEW h, NEW S, IsFiniteSet(S), NEW x \in S, h[x] = f[x] + 1,
         \A i \in S : f[i] \in Nat /\ h[i] \in Nat, \A i \in S \ {x} : h[i] <= f[i]
  PROVE  Total(h, S) <= Total(f, S) + 1
<1>1. Total(h, S) = h[x] + Total(h, S \ {x}) /\ Total(f, S) = f[x] + Total(f, S \ {x})
  <2>1. Total(h, S) = h[x] + Total(h, S \ {x})
    BY TotalRemove
  <2>2. Total(f, S) = f[x] + Total(f, S \ {x})
    BY TotalRemove
  <2> QED
    BY <2>1, <2>2
<1>2. IsFiniteSet(S \ {x})
  BY FS_RemoveElement
<1>3. Total(h, S \ {x}) <= Total(f, S \ {x})
  BY <1>2, TotalMono
<1>4. Total(h, S \ {x}) \in Nat /\ Total(f, S \ {x}) \in Nat
  BY <1>2, TotalNat
<1> QED
  BY <1>1, <1>3, <1>4

\* Nothing is summed up.
LEMMA TotalZero ==
  ASSUME NEW f, NEW S, IsFiniteSet(S), \A i \in S : f[i] = 0
  PROVE  Total(f, S) = 0
<1> DEFINE Bad == {T \in SUBSET S : Total(f, T) # 0}
<1> SUFFICES ASSUME Bad # {}
             PROVE  FALSE
  OBVIOUS
<1>1. \A T \in Bad : IsFiniteSet(T)
  BY FS_Subset
<1>2. PICK T \in Bad : \A x \in T : T \ {x} \notin Bad
  BY <1>1, Smallest
<1>3. T \in SUBSET S /\ IsFiniteSet(T) /\ Total(f, T) # 0
  BY <1>1
<1>4. Total(f, T) = IF T = {} THEN 0 ELSE f[Pick(T)] + Total(f, T \ {Pick(T)})
  BY <1>3, TotalFirst
<1>5. T # {}
  BY <1>3, <1>4
<1>6. Pick(T) \in T /\ T \ {Pick(T)} \notin Bad
  BY <1>2, <1>5, PickIn
<1>7. f[Pick(T)] = 0 /\ Total(f, T \ {Pick(T)}) = 0
  BY <1>3, <1>6
<1> QED
  BY <1>3, <1>4, <1>5, <1>7

-------------------------------------------------------------------------------
(* The guesses.                                                            *)

\* A request that has an attempt and is not decided.
Trying(q) == q.kind \in Changes /\ q.pc \in {"queued", "recheck", "store", "saved"}

TriedAt(slots, t) == {k \in Requests : slots[k] # Nil /\ Trying(slots[k]) /\ slots[k].at = t}

\* The wrong codes of each moment, and the attempts that may yet be of one.
Counts(codes, slots) == [t \in 0..MaxTime |-> codes[t] + Cardinality(TriedAt(slots, t))]

Span(t) == (t..(t + Block - 1)) \intersect (0..MaxTime)

TryFits(q) ==
  /\ IF Trying(q) THEN q.at \in 0..now ELSE q.at = Nil
  /\ q.pc \in {"queued", "recheck"} => q.kind \in Changes \union {"begin", "cancel"}
  /\ q.pc \in {"store", "saved"} => q.kind \in Changes

TryOK == \A k \in Requests : slot[k] # Nil => TryFits(slot[k])

\* As long as the limiter remembers a moment, it knows every attempt that counts; when
\* it is full, it is closed for Block after the last of them.
BucketOK ==
  LET counts == Counts(wrong, slot) IN
  /\ now \in 0..MaxTime
  /\ bucket.times \in [0..MaxTime -> Nat] /\ wrong \in [0..MaxTime -> Nat]
  /\ \A t \in 0..MaxTime : /\ t > now => bucket.times[t] = 0
                           /\ t + Window > now => counts[t] <= bucket.times[t]
  /\ Attempts(bucket.times) >= Limit =>
       \A t \in 0..MaxTime : bucket.times[t] > 0 => bucket.until \in Nat /\ t + Block <= bucket.until
  /\ \A t \in 0..MaxTime : Total(counts, Span(t)) <= Limit

GuessInv == TryOK /\ BucketOK

LEMMA TriedFinite ==
  ASSUME OtpAssumption, NEW slots, NEW t
  PROVE  IsFiniteSet(TriedAt(slots, t)) /\ Cardinality(TriedAt(slots, t)) \in Nat
<1>1. TriedAt(slots, t) \subseteq Requests
  BY DEF TriedAt
<1>2. IsFiniteSet(TriedAt(slots, t))
  BY <1>1, FS_Subset DEF OtpAssumption
<1> QED
  BY <1>2, FS_CardinalityType

LEMMA CountsType ==
  ASSUME OtpAssumption, NEW codes \in [0..MaxTime -> Nat], NEW slots
  PROVE  /\ Counts(codes, slots) \in [0..MaxTime -> Nat]
         /\ \A t \in 0..MaxTime : Counts(codes, slots)[t] = codes[t] + Cardinality(TriedAt(slots, t))
BY TriedFinite DEF Counts

\* Fewer attempts of the same moments.
LEMMA CountsFewer ==
  ASSUME OtpAssumption, NEW codes \in [0..MaxTime -> Nat], NEW old, NEW new,
         \A t \in 0..MaxTime : TriedAt(new, t) \subseteq TriedAt(old, t)
  PROVE  \A t \in 0..MaxTime : Counts(codes, new)[t] <= Counts(codes, old)[t]
<1> SUFFICES ASSUME NEW t \in 0..MaxTime
             PROVE  Counts(codes, new)[t] <= Counts(codes, old)[t]
  OBVIOUS
<1>1. Cardinality(TriedAt(new, t)) <= Cardinality(TriedAt(old, t))
  BY TriedFinite, FS_Subset
<1> QED
  BY <1>1, TriedFinite, CountsType

LEMMA SpanFinite ==
  ASSUME OtpAssumption, NEW t \in 0..MaxTime
  PROVE  /\ IsFiniteSet(0..MaxTime) /\ IsFiniteSet(Span(t)) /\ Span(t) \in SUBSET (0..MaxTime)
         /\ \A i \in Span(t) : \A n \in Span(t) : i + Block > n
<1>1. IsFiniteSet(0..MaxTime)
  BY FS_Interval DEF OtpAssumption
<1>2. Span(t) \in SUBSET (0..MaxTime)
  BY DEF Span
<1>3. IsFiniteSet(Span(t))
  BY <1>1, <1>2, FS_Subset
<1>4. \A i \in Span(t) : \A n \in Span(t) : i + Block > n
  BY DEF Span, OtpAssumption
<1> QED
  BY <1>1, <1>2, <1>3, <1>4

LEMMA AttemptsTotal ==
  ASSUME NEW times \in [0..MaxTime -> Nat]
  PROVE  Attempts(times) = Total(times, 0..MaxTime)
<1>1. DOMAIN times = 0..MaxTime
  OBVIOUS
<1> QED
  BY <1>1 DEF Attempts, FoldFunction, Total

\* No span counts more than before.
LEMMA SpansKept ==
  ASSUME OtpAssumption, NEW old \in [0..MaxTime -> Nat], NEW new \in [0..MaxTime -> Nat],
         \A t \in 0..MaxTime : new[t] <= old[t],
         \A t \in 0..MaxTime : Total(old, Span(t)) <= Limit
  PROVE  \A t \in 0..MaxTime : Total(new, Span(t)) <= Limit
<1> SUFFICES ASSUME NEW t \in 0..MaxTime
             PROVE  Total(new, Span(t)) <= Limit
  OBVIOUS
<1>1. IsFiniteSet(Span(t)) /\ Span(t) \in SUBSET (0..MaxTime)
  BY SpanFinite
<1>2. /\ \A i \in Span(t) : new[i] \in Nat /\ new[i] <= old[i]
      /\ \A i \in Span(t) : old[i] \in Nat
  BY <1>1
<1>3. Total(new, Span(t)) <= Total(old, Span(t))
  BY <1>1, <1>2, TotalMono
<1>4. Total(new, Span(t)) \in Nat /\ Total(old, Span(t)) \in Nat
  BY <1>1, <1>2, TotalNat
<1>5. Total(old, Span(t)) <= Limit
  OBVIOUS
<1> QED
  BY <1>3, <1>4, <1>5 DEF OtpAssumption

-------------------------------------------------------------------------------
(* The record of the limiter, and what counts against it.                  *)

\* Time goes on, or a request ends.
LEMMA QuietBucket ==
  ASSUME OtpAssumption, BucketOK, now' \in now..MaxTime, bucket' = bucket,
         wrong' \in [0..MaxTime -> Nat],
         \A t \in 0..MaxTime : Counts(wrong', slot')[t] <= Counts(wrong, slot)[t]
  PROVE  BucketOK'
<1> DEFINE old == Counts(wrong, slot)
           new == Counts(wrong', slot')
<1>1. old \in [0..MaxTime -> Nat] /\ new \in [0..MaxTime -> Nat]
  BY CountsType DEF BucketOK
<1>2. \A t \in 0..MaxTime : new[t] <= old[t]
  OBVIOUS
<1>3. \A t \in 0..MaxTime : Total(old, Span(t)) <= Limit
  BY DEF BucketOK
<1>4. \A t \in 0..MaxTime : t + Window > now => old[t] <= bucket.times[t]
  BY DEF BucketOK
<1>5. /\ now \in 0..MaxTime /\ now' \in 0..MaxTime /\ bucket.times \in [0..MaxTime -> Nat]
      /\ \A t \in 0..MaxTime : t > now => bucket.times[t] = 0
  BY DEF BucketOK, OtpAssumption
<1>6. Attempts(bucket.times) >= Limit =>
        \A t \in 0..MaxTime : bucket.times[t] > 0 => bucket.until \in Nat /\ t + Block <= bucket.until
  BY DEF BucketOK
<1> HIDE DEF old, new
<1>7. \A t \in 0..MaxTime : Total(new, Span(t)) <= Limit
  BY <1>1, <1>2, <1>3, SpansKept
<1>8. \A t \in 0..MaxTime : t + Window > now' => new[t] <= bucket.times[t]
  <2> SUFFICES ASSUME NEW t \in 0..MaxTime, t + Window > now'
               PROVE  new[t] <= bucket.times[t]
    OBVIOUS
  <2>1. t + Window > now
    BY <1>5 DEF OtpAssumption
  <2>2. old[t] <= bucket.times[t] /\ new[t] <= old[t]
    BY <1>2, <1>4, <2>1
  <2>3. new[t] \in Nat /\ old[t] \in Nat /\ bucket.times[t] \in Nat
    BY <1>1, <1>5
  <2> QED
    BY <2>2, <2>3
<1>9. \A t \in 0..MaxTime : t > now' => bucket.times[t] = 0
  BY <1>5
<1> QED
  BY <1>5, <1>6, <1>7, <1>8, <1>9 DEF BucketOK, new

LEMMA PrunedType ==
  ASSUME OtpAssumption, BucketOK
  PROVE  /\ Pruned \in [0..MaxTime -> Nat]
         /\ \A t \in 0..MaxTime : /\ Pruned[t] <= bucket.times[t]
                                  /\ t + Window > now => Pruned[t] = bucket.times[t]
BY DEF Pruned, BucketOK

\* An attempt is given back.
LEMMA ReleasedBucket ==
  ASSUME OtpAssumption, BucketOK, NEW at \in 0..MaxTime, now' = now, bucket' = Released(at), wrong' = wrong,
         \A t \in 0..MaxTime : Counts(wrong, slot')[t] <= Counts(wrong, slot)[t],
         Counts(wrong, slot')[at] + 1 <= Counts(wrong, slot)[at]
  PROVE  BucketOK'
<1> DEFINE old == Counts(wrong, slot)
           new == Counts(wrong, slot')
           times == [Pruned EXCEPT ![at] = IF @ = 0 THEN 0 ELSE @ - 1]
<1>1. old \in [0..MaxTime -> Nat] /\ new \in [0..MaxTime -> Nat] /\ wrong \in [0..MaxTime -> Nat]
  BY CountsType DEF BucketOK
<1>2. (\A t \in 0..MaxTime : new[t] <= old[t]) /\ new[at] + 1 <= old[at]
  OBVIOUS
<1>3. \A t \in 0..MaxTime : Total(old, Span(t)) <= Limit
  BY DEF BucketOK
<1>4. /\ now \in 0..MaxTime /\ bucket.times \in [0..MaxTime -> Nat]
      /\ \A t \in 0..MaxTime : /\ t > now => bucket.times[t] = 0
                               /\ t + Window > now => old[t] <= bucket.times[t]
  BY DEF BucketOK
<1>5. times \in [0..MaxTime -> Nat] /\ \A t \in 0..MaxTime : times[t] <= Pruned[t]
  BY PrunedType
<1>6. bucket'.times = times
  BY DEF Released
<1>7. Attempts(times) >= Limit => bucket'.until = Max({t \in DOMAIN times : times[t] > 0}) + Block
  BY DEF Released
<1> HIDE DEF old, new
<1>8. \A t \in 0..MaxTime : Total(new, Span(t)) <= Limit
  BY <1>1, <1>2, <1>3, SpansKept
<1>9. ASSUME NEW t \in 0..MaxTime
      PROVE  /\ t > now => times[t] = 0
             /\ t + Window > now => new[t] <= times[t]
  <2>1. /\ Pruned[t] \in Nat /\ Pruned[t] <= bucket.times[t] /\ bucket.times[t] \in Nat
        /\ t + Window > now => Pruned[t] = bucket.times[t]
    BY <1>4, PrunedType
  <2>2. times[t] = IF t = at THEN (IF Pruned[t] = 0 THEN 0 ELSE Pruned[t] - 1) ELSE Pruned[t]
    BY PrunedType
  <2> HIDE DEF times
  <2>3. new[t] \in Nat /\ old[t] \in Nat
    BY <1>1
  <2> QED
    BY <1>2, <1>4, <2>1, <2>2, <2>3
<1>10. ASSUME Attempts(times) >= Limit, NEW t \in 0..MaxTime, times[t] > 0
       PROVE  bucket'.until \in Nat /\ t + Block <= bucket'.until
  <2> DEFINE Taken == {i \in DOMAIN times : times[i] > 0}
  <2>1. Taken \subseteq 0..MaxTime /\ t \in Taken
    BY <1>5, <1>10
  <2>2. \E m \in Taken : \A i \in Taken : m >= i
    <3> HIDE DEF Taken
    <3>1. {MaxTime - i : i \in Taken} \subseteq Nat /\ {MaxTime - i : i \in Taken} # {}
      BY <2>1 DEF OtpAssumption
    <3>2. PICK n \in {MaxTime - i : i \in Taken} :
             \A j \in {MaxTime - i : i \in Taken} : ~ (<<j, n>> \in OpToRel(<, Nat))
      BY <3>1, WFMin, NatLessThanWellFounded
    <3>3. \A j \in {MaxTime - i : i \in Taken} : ~ (j < n)
      BY <3>1, <3>2 DEF OpToRel
    <3>4. PICK m \in Taken : n = MaxTime - m
      BY <3>2
    <3>5. ASSUME NEW i \in Taken
          PROVE  m >= i
      <4>1. ~ (MaxTime - i < MaxTime - m)
        BY <3>3, <3>4
      <4> QED
        BY <2>1, <4>1 DEF OtpAssumption
    <3> QED
      BY <3>5
  <2>3. Max(Taken) \in Taken /\ \A i \in Taken : Max(Taken) >= i
    <3> HIDE DEF Taken
    <3> QED
      BY <2>2 DEF Max
  <2>4. bucket'.until = Max(Taken) + Block
    BY <1>7, <1>10
  <2>5. PICK m \in 0..MaxTime : m = Max(Taken)
    BY <2>1, <2>3
  <2>6. m >= t /\ bucket'.until = m + Block
    <3> HIDE DEF Taken
    <3> QED
      BY <2>1, <2>3, <2>4, <2>5
  <2> HIDE DEF Taken, times
  <2> QED
    BY <2>6 DEF OtpAssumption
<1> HIDE DEF times
<1> QED
  BY <1>1, <1>4, <1>5, <1>6, <1>8, <1>9, <1>10 DEF BucketOK, new

\* An attempt is taken, while the limiter is open.
LEMMA ReservedBucket ==
  ASSUME OtpAssumption, BucketOK, ~ (bucket.until > now), now' = now, bucket' = Reserved, wrong' = wrong,
         \A t \in 0..MaxTime : t # now => Counts(wrong, slot')[t] <= Counts(wrong, slot)[t],
         Counts(wrong, slot')[now] <= Counts(wrong, slot)[now] + 1
  PROVE  BucketOK'
<1> DEFINE old == Counts(wrong, slot)
           new == Counts(wrong, slot')
           times == [Pruned EXCEPT ![now] = @ + 1]
<1>1. old \in [0..MaxTime -> Nat] /\ new \in [0..MaxTime -> Nat] /\ wrong \in [0..MaxTime -> Nat]
  BY CountsType DEF BucketOK
<1>2. (\A t \in 0..MaxTime : t # now => new[t] <= old[t]) /\ new[now] <= old[now] + 1
  OBVIOUS
<1>3. \A t \in 0..MaxTime : Total(old, Span(t)) <= Limit
  BY DEF BucketOK
<1>4. /\ now \in 0..MaxTime /\ bucket.times \in [0..MaxTime -> Nat]
      /\ \A t \in 0..MaxTime : /\ t > now => bucket.times[t] = 0
                               /\ t + Window > now => old[t] <= bucket.times[t]
  BY DEF BucketOK
<1>5. Attempts(bucket.times) >= Limit =>
        \A t \in 0..MaxTime : bucket.times[t] > 0 => bucket.until \in Nat /\ t + Block <= bucket.until
  BY DEF BucketOK
<1>6. /\ times \in [0..MaxTime -> Nat] /\ Pruned \in [0..MaxTime -> Nat]
      /\ times[now] = Pruned[now] + 1
      /\ \A t \in 0..MaxTime : t # now => times[t] = Pruned[t]
  BY <1>4, PrunedType
<1>7. /\ bucket'.times = times
      /\ Attempts(times) >= Limit => bucket'.until = now + Block
  BY DEF Reserved
<1>8. \A t \in 0..MaxTime : /\ Pruned[t] <= bucket.times[t]
                            /\ t + Window > now => Pruned[t] = bucket.times[t]
  BY PrunedType
<1> HIDE DEF old, new, times
<1>9. ASSUME NEW t \in 0..MaxTime
      PROVE  /\ t > now => times[t] = 0
             /\ t + Window > now => new[t] <= times[t]
  <2>1. /\ Pruned[t] \in Nat /\ bucket.times[t] \in Nat /\ new[t] \in Nat /\ old[t] \in Nat
        /\ new[now] \in Nat /\ old[now] \in Nat
    BY <1>1, <1>4, <1>6
  <2>2. CASE t = now
    BY <1>2, <1>4, <1>6, <1>8, <2>1, <2>2
  <2>3. CASE t # now
    <3>1. times[t] = Pruned[t] /\ new[t] <= old[t]
      BY <1>2, <1>6, <2>3
    <3>2. t > now => bucket.times[t] = 0
      BY <1>4
    <3>3. t + Window > now => old[t] <= bucket.times[t] /\ Pruned[t] = bucket.times[t]
      BY <1>4, <1>8
    <3>4. Pruned[t] <= bucket.times[t]
      BY <1>8
    <3> QED
      BY <2>1, <3>1, <3>2, <3>3, <3>4
  <2> QED
    BY <2>2, <2>3
<1>10. ASSUME Attempts(times) >= Limit, NEW t \in 0..MaxTime, times[t] > 0
       PROVE  bucket'.until \in Nat /\ t + Block <= bucket'.until
  <2>1. ~ (t > now)
    BY <1>9, <1>10
  <2> QED
    BY <1>4, <1>7, <1>10, <2>1 DEF OtpAssumption
<1>11. ASSUME NEW t \in 0..MaxTime, now \notin Span(t)
       PROVE  Total(new, Span(t)) <= Limit
  <2>1. IsFiniteSet(Span(t)) /\ Span(t) \in SUBSET (0..MaxTime)
    BY SpanFinite
  <2>2. /\ \A i \in Span(t) : new[i] \in Nat /\ new[i] <= old[i]
        /\ \A i \in Span(t) : old[i] \in Nat
    BY <1>1, <1>2, <1>11, <2>1
  <2>3. Total(new, Span(t)) <= Total(old, Span(t))
    BY <2>1, <2>2, TotalMono
  <2>4. Total(new, Span(t)) \in Nat /\ Total(old, Span(t)) \in Nat
    BY <2>1, <2>2, TotalNat
  <2>5. Total(old, Span(t)) <= Limit
    BY <1>3
  <2> QED
    BY <2>3, <2>4, <2>5 DEF OtpAssumption
<1>12. ASSUME NEW t \in 0..MaxTime, now \in Span(t)
       PROVE  Total(new, Span(t)) <= Limit
  <2>1. /\ IsFiniteSet(0..MaxTime) /\ IsFiniteSet(Span(t)) /\ Span(t) \in SUBSET (0..MaxTime)
        /\ \A i \in Span(t) : i + Block > now
    BY <1>12, SpanFinite
  <2>2. \A i \in Span(t) : i + Window > now
    BY <1>4, <2>1 DEF OtpAssumption
  <2>3. \A i \in Span(t) : new[i] \in Nat /\ new[i] <= times[i]
    BY <1>1, <1>9, <2>1, <2>2
  <2>4. \A i \in 0..MaxTime : times[i] \in Nat /\ Pruned[i] \in Nat /\ bucket.times[i] \in Nat
    BY <1>4, <1>6
  <2>5. Total(new, Span(t)) \in Nat /\ Attempts(times) \in Nat
        /\ Total(Pruned, 0..MaxTime) \in Nat /\ Attempts(bucket.times) \in Nat
    <3>1. Total(new, Span(t)) \in Nat
      BY <2>1, <2>3, TotalNat
    <3>2. Attempts(times) \in Nat
      BY <1>6, <2>1, <2>4, AttemptsTotal, TotalNat
    <3>3. Total(Pruned, 0..MaxTime) \in Nat
      BY <2>1, <2>4, TotalNat
    <3>4. Attempts(bucket.times) \in Nat
      <4>1. PICK f \in [0..MaxTime -> Nat] : f = bucket.times
        BY <1>4
      <4>2. Total(f, 0..MaxTime) \in Nat
        BY <2>1, TotalNat
      <4> QED
        BY <4>1, <4>2, AttemptsTotal
    <3> QED
      BY <3>1, <3>2, <3>3, <3>4
  <2>6. CASE Attempts(times) <= Limit
    <3>1. Total(new, Span(t)) <= Total(times, 0..MaxTime)
      BY <2>1, <2>3, <2>4, TotalMono
    <3>2. Attempts(times) = Total(times, 0..MaxTime)
      BY <1>6, AttemptsTotal
    <3> QED
      BY <2>5, <2>6, <3>1, <3>2 DEF OtpAssumption
  <2>7. CASE ~ (Attempts(times) <= Limit)
    <3>1. Total(times, 0..MaxTime) <= Total(Pruned, 0..MaxTime) + 1
      <4>1. \A i \in (0..MaxTime) \ {now} : times[i] <= Pruned[i]
        BY <1>6, <2>4
      <4> QED
        BY <1>4, <1>6, <2>1, <2>4, <4>1, TotalPlus
    <3>2. Total(Pruned, 0..MaxTime) <= Total(bucket.times, 0..MaxTime)
      <4>1. 0..MaxTime \in SUBSET (0..MaxTime)
        OBVIOUS
      <4>2. \A i \in 0..MaxTime : Pruned[i] \in Nat /\ Pruned[i] <= bucket.times[i]
        BY <1>8, <2>4
      <4> QED
        BY <2>1, <2>4, <4>1, <4>2, TotalMono
    <3>3. /\ Attempts(times) = Total(times, 0..MaxTime)
          /\ Attempts(bucket.times) = Total(bucket.times, 0..MaxTime)
      BY <1>4, <1>6, AttemptsTotal
    <3>4. Attempts(bucket.times) >= Limit
      BY <2>5, <2>7, <3>1, <3>2, <3>3 DEF OtpAssumption
    <3>5. ASSUME NEW i \in Span(t)
          PROVE  old[i] = 0
      <4>1. i \in 0..MaxTime /\ i + Block > now
        BY <2>1
      <4>2. ~ (bucket.times[i] > 0)
        BY <1>4, <1>5, <3>4, <4>1 DEF OtpAssumption
      <4>3. old[i] <= bucket.times[i] /\ old[i] \in Nat /\ bucket.times[i] \in Nat
        BY <1>1, <1>4, <2>2, <4>1
      <4> QED
        BY <4>2, <4>3
    <3> DEFINE none == [i \in 0..MaxTime |-> 0]
               one == [i \in 0..MaxTime |-> IF i = now THEN 1 ELSE 0]
    <3>6. \A i \in Span(t) : none[i] = 0 /\ none[i] \in Nat /\ one[i] \in Nat /\ new[i] <= one[i]
      <4> SUFFICES ASSUME NEW i \in Span(t)
                   PROVE  new[i] <= one[i]
        BY <2>1
      <4>1. old[i] = 0 /\ new[i] \in Nat
        BY <2>3, <3>5
      <4>2. IF i = now THEN new[i] <= old[i] + 1 ELSE new[i] <= old[i]
        BY <1>2, <2>1
      <4> QED
        BY <2>1, <4>1, <4>2
    <3>7. one[now] = none[now] + 1 /\ \A i \in Span(t) \ {now} : one[i] <= none[i]
      BY <1>4, <2>1
    <3> HIDE DEF none, one
    <3>8. Total(none, Span(t)) = 0
      BY <2>1, <3>6, TotalZero
    <3>9. Total(one, Span(t)) <= Total(none, Span(t)) + 1
      BY <1>12, <2>1, <3>6, <3>7, TotalPlus
    <3>10. Total(new, Span(t)) <= Total(one, Span(t))
      <4>1. Span(t) \in SUBSET Span(t)
        OBVIOUS
      <4> QED
        BY <2>1, <2>3, <3>6, <4>1, TotalMono
    <3>11. Total(one, Span(t)) \in Nat
      BY <2>1, <3>6, TotalNat
    <3> QED
      BY <2>5, <3>8, <3>9, <3>10, <3>11 DEF OtpAssumption
  <2> QED
    BY <2>6, <2>7
<1> QED
  BY <1>1, <1>4, <1>6, <1>7, <1>9, <1>10, <1>11, <1>12 DEF BucketOK, new

-------------------------------------------------------------------------------
(* The steps.                                                              *)

\* A request ends: its attempt counts no more.
LEMMA LeaveTries ==
  ASSUME DOMAIN slot = Requests, NEW k \in Requests, Leave(k), slot[k] # Nil
  PROVE  /\ \A t : TriedAt(slot', t) \subseteq TriedAt(slot, t)
         /\ Trying(slot[k]) => /\ k \in TriedAt(slot, slot[k].at)
                               /\ TriedAt(slot', slot[k].at) \subseteq TriedAt(slot, slot[k].at) \ {k}
<1>1. slot' = [slot EXCEPT ![k] = Nil]
  BY DEF Leave
<1>2. slot'[k] = Nil /\ \A l \in Requests : l # k => slot'[l] = slot[l]
  BY <1>1
<1> QED
  BY <1>2 DEF TriedAt

LEMMA GoTries ==
  ASSUME DOMAIN slot = Requests, NEW k \in Requests, NEW q, slot' = [slot EXCEPT ![k] = q],
         Trying(q) => slot[k] # Nil /\ Trying(slot[k]) /\ q.at = slot[k].at
  PROVE  \A t : TriedAt(slot', t) \subseteq TriedAt(slot, t)
<1>1. slot'[k] = q /\ \A l \in Requests : l # k => slot'[l] = slot[l]
  OBVIOUS
<1> QED
  BY <1>1 DEF TriedAt

LEMMA FitsLater ==
  ASSUME NEW q, TryFits(q), now \in Nat, now' \in Nat, now <= now'
  PROVE  TryFits(q)'
BY DEF TryFits

LEMMA FewerGuesses ==
  ASSUME OtpAssumption, GuessInv, now' \in now..MaxTime, bucket' = bucket, wrong' = wrong,
         \A t : TriedAt(slot', t) \subseteq TriedAt(slot, t), TryOK'
  PROVE  GuessInv'
<1>1. wrong \in [0..MaxTime -> Nat]
  BY DEF GuessInv, BucketOK
<1>2. \A t \in 0..MaxTime : Counts(wrong', slot')[t] <= Counts(wrong, slot)[t]
  BY <1>1, CountsFewer
<1>3. BucketOK'
  BY <1>1, <1>2, QuietBucket DEF GuessInv
<1> QED
  BY <1>3 DEF GuessInv

LEMMA NowType ==
  ASSUME OtpAssumption, GuessInv
  PROVE  now \in Nat /\ now \in 0..MaxTime /\ now \in now..MaxTime
BY DEF OtpAssumption, GuessInv, BucketOK

LEMMA LeaveFits ==
  ASSUME OtpAssumption, DOMAIN slot = Requests, GuessInv, NEW k \in Requests, Leave(k), now' = now
  PROVE  TryOK'
<1>1. slot' = [slot EXCEPT ![k] = Nil]
  BY DEF Leave
<1>2. slot'[k] = Nil /\ \A l \in Requests : l # k => slot'[l] = slot[l]
  BY <1>1
<1> SUFFICES ASSUME NEW l \in Requests, slot'[l] # Nil
             PROVE  TryFits(slot[l])'
  BY DEF TryOK
<1>3. slot'[l] = slot[l] /\ TryFits(slot[l])
  BY <1>2 DEF GuessInv, TryOK
<1> QED
  BY <1>3 DEF TryFits, Trying

LEMMA GoFits ==
  ASSUME DOMAIN slot = Requests, TryOK, NEW k \in Requests, NEW q, slot' = [slot EXCEPT ![k] = q],
         TryFits(q), now' = now
  PROVE  TryOK'
<1>1. slot'[k] = q /\ \A l \in Requests : l # k => slot'[l] = slot[l]
  OBVIOUS
<1> SUFFICES ASSUME NEW l \in Requests, slot'[l] # Nil
             PROVE  TryFits(slot[l])'
  BY DEF TryOK
<1>2. CASE l = k
  BY <1>1, <1>2 DEF TryFits, Trying
<1>3. CASE l # k
  <2>1. slot'[l] = slot[l] /\ TryFits(slot[l])
    BY <1>1, <1>3 DEF TryOK
  <2> QED
    BY <2>1 DEF TryFits, Trying
<1> QED
  BY <1>2, <1>3

\* A request ends without another word to the limiter.
LEMMA LeaveGuess ==
  ASSUME OtpAssumption, DOMAIN slot = Requests, GuessInv, NEW k \in Requests, slot[k] # Nil, Leave(k),
         now' = now, bucket' = bucket, wrong' = wrong
  PROVE  GuessInv'
<1>1. \A t : TriedAt(slot', t) \subseteq TriedAt(slot, t)
  BY LeaveTries
<1>2. TryOK'
  BY LeaveFits
<1> QED
  BY <1>1, <1>2, NowType, FewerGuesses

\* A request goes on.
LEMMA GoGuess ==
  ASSUME OtpAssumption, DOMAIN slot = Requests, GuessInv, NEW k \in Requests, NEW q,
         slot' = [slot EXCEPT ![k] = q], TryFits(q),
         Trying(q) => slot[k] # Nil /\ Trying(slot[k]) /\ q.at = slot[k].at,
         now' = now, bucket' = bucket, wrong' = wrong
  PROVE  GuessInv'
<1>1. \A t : TriedAt(slot', t) \subseteq TriedAt(slot, t)
  BY GoTries
<1>2. TryOK'
  BY GoFits DEF GuessInv
<1> QED
  BY <1>1, <1>2, NowType, FewerGuesses

\* A request ends, and gives its attempt back.
LEMMA ReleaseGuess ==
  ASSUME OtpAssumption, DOMAIN slot = Requests, GuessInv, NEW k \in Requests, slot[k] # Nil, Leave(k),
         Trying(slot[k]), now' = now, bucket' = Released(slot[k].at), wrong' = wrong
  PROVE  GuessInv'
<1> DEFINE at == slot[k].at
<1>1. at \in 0..MaxTime
  <2>1. TryFits(slot[k])
    BY DEF GuessInv, TryOK
  <2>2. now \in 0..MaxTime
    BY NowType
  <2> QED
    BY <2>1, <2>2 DEF TryFits, OtpAssumption
<1>2. wrong \in [0..MaxTime -> Nat]
  BY DEF GuessInv, BucketOK
<1>3. /\ \A t : TriedAt(slot', t) \subseteq TriedAt(slot, t)
      /\ k \in TriedAt(slot, at) /\ TriedAt(slot', at) \subseteq TriedAt(slot, at) \ {k}
  BY LeaveTries
<1>4. \A t \in 0..MaxTime : Counts(wrong, slot')[t] <= Counts(wrong, slot)[t]
  BY <1>2, <1>3, CountsFewer
<1>5. Counts(wrong, slot')[at] + 1 <= Counts(wrong, slot)[at]
  <2>1. IsFiniteSet(TriedAt(slot, at)) /\ Cardinality(TriedAt(slot, at)) \in Nat
    BY TriedFinite
  <2>2. IsFiniteSet(TriedAt(slot, at) \ {k})
        /\ Cardinality(TriedAt(slot, at) \ {k}) = Cardinality(TriedAt(slot, at)) - 1
    BY <1>3, <2>1, FS_RemoveElement
  <2>3. Cardinality(TriedAt(slot', at)) <= Cardinality(TriedAt(slot, at) \ {k})
    BY <1>3, <2>2, FS_Subset
  <2>4. Cardinality(TriedAt(slot', at)) \in Nat
    BY TriedFinite
  <2>5. /\ Counts(wrong, slot')[at] = wrong[at] + Cardinality(TriedAt(slot', at))
        /\ Counts(wrong, slot)[at] = wrong[at] + Cardinality(TriedAt(slot, at))
    BY <1>1, <1>2, CountsType
  <2> HIDE DEF at
  <2> QED
    BY <1>1, <1>2, <2>1, <2>2, <2>3, <2>4, <2>5
<1>6. BucketOK'
  <2> HIDE DEF at
  <2>1. bucket' = Released(at)
    BY DEF at
  <2> QED
    BY <1>1, <1>4, <1>5, <2>1, ReleasedBucket DEF GuessInv
<1>7. TryOK'
  BY LeaveFits
<1> QED
  BY <1>6, <1>7 DEF GuessInv

\* A wrong code: the request ends, and its attempt goes on to count.
LEMMA WrongGuess ==
  ASSUME OtpAssumption, DOMAIN slot = Requests, GuessInv, NEW k \in Requests, slot[k] # Nil, Leave(k),
         Trying(slot[k]), now' = now, bucket' = bucket, wrong' = [wrong EXCEPT ![slot[k].at] = @ + 1]
  PROVE  GuessInv'
<1> DEFINE at == slot[k].at
<1>1. at \in 0..MaxTime
  <2>1. TryFits(slot[k])
    BY DEF GuessInv, TryOK
  <2>2. now \in 0..MaxTime
    BY NowType
  <2> QED
    BY <2>1, <2>2 DEF TryFits, OtpAssumption
<1>2. wrong \in [0..MaxTime -> Nat]
  BY DEF GuessInv, BucketOK
<1>3. /\ \A t : TriedAt(slot', t) \subseteq TriedAt(slot, t)
      /\ k \in TriedAt(slot, at) /\ TriedAt(slot', at) \subseteq TriedAt(slot, at) \ {k}
  BY LeaveTries
<1>4. wrong' = [wrong EXCEPT ![at] = @ + 1]
  OBVIOUS
<1>5. IsFiniteSet(TriedAt(slot, at)) /\ Cardinality(TriedAt(slot, at)) \in Nat
  BY TriedFinite
<1>6. IsFiniteSet(TriedAt(slot, at) \ {k})
      /\ Cardinality(TriedAt(slot, at) \ {k}) = Cardinality(TriedAt(slot, at)) - 1
  BY <1>3, <1>5, FS_RemoveElement
<1>7. Cardinality(TriedAt(slot', at)) <= Cardinality(TriedAt(slot, at) \ {k})
  BY <1>3, <1>6, FS_Subset
<1> HIDE DEF at
<1>8. wrong' \in [0..MaxTime -> Nat]
  BY <1>1, <1>2, <1>4
<1>9. ASSUME NEW t \in 0..MaxTime
      PROVE  Counts(wrong', slot')[t] <= Counts(wrong, slot)[t]
  <2>1. /\ Counts(wrong', slot')[t] = wrong'[t] + Cardinality(TriedAt(slot', t))
        /\ Counts(wrong, slot)[t] = wrong[t] + Cardinality(TriedAt(slot, t))
    <3>1. Counts(wrong, slot)[t] = wrong[t] + Cardinality(TriedAt(slot, t))
      BY <1>2, CountsType
    <3>2. PICK codes \in [0..MaxTime -> Nat], slots \in {slot'} : codes = wrong' /\ slots = slot'
      BY <1>8
    <3>3. Counts(codes, slots)[t] = codes[t] + Cardinality(TriedAt(slots, t))
      BY CountsType
    <3> QED
      BY <3>1, <3>2, <3>3
  <2>2. Cardinality(TriedAt(slot', t)) \in Nat /\ Cardinality(TriedAt(slot, t)) \in Nat
    BY TriedFinite
  <2>3. CASE t = at
    <3>1. wrong'[t] = wrong[t] + 1
      BY <1>2, <1>4, <2>3
    <3>2. Cardinality(TriedAt(slot', t)) <= Cardinality(TriedAt(slot, t)) - 1
      BY <1>6, <1>7, <2>3
    <3> QED
      BY <1>2, <2>1, <2>2, <3>1, <3>2
  <2>4. CASE t # at
    <3>1. wrong'[t] = wrong[t]
      BY <1>2, <1>4, <2>4
    <3>2. Cardinality(TriedAt(slot', t)) <= Cardinality(TriedAt(slot, t))
      <4>1. IsFiniteSet(TriedAt(slot, t)) /\ TriedAt(slot', t) \in SUBSET TriedAt(slot, t)
        BY <1>3, TriedFinite
      <4> QED
        BY <4>1, FS_Subset
    <3> QED
      BY <1>2, <2>1, <2>2, <3>1, <3>2
  <2> QED
    BY <2>3, <2>4
<1>10. BucketOK'
  BY <1>8, <1>9, NowType, QuietBucket DEF GuessInv
<1>11. TryOK'
  BY LeaveFits
<1> QED
  BY <1>10, <1>11 DEF GuessInv

LEMMA FailGuess ==
  ASSUME OtpAssumption, DOMAIN slot = Requests, GuessInv, NEW k \in Requests, slot[k] # Nil,
         NEW error, error # "OTP_INVALID", Fail(k, error), now' = now, wrong' = wrong
  PROVE  GuessInv'
<1>1. Leave(k)
  BY DEF Fail
<1>2. CASE slot[k].at # Nil
  <2>1. bucket' = Released(slot[k].at)
    BY <1>2 DEF Fail
  <2>2. Trying(slot[k])
    BY <1>2 DEF GuessInv, TryOK, TryFits
  <2> QED
    BY <1>1, <2>1, <2>2, ReleaseGuess
<1>3. CASE slot[k].at = Nil
  <2>1. bucket' = bucket
    BY <1>3 DEF Fail
  <2> QED
    BY <1>1, <2>1, LeaveGuess
<1> QED
  BY <1>2, <1>3

LEMMA ArriveGuess ==
  ASSUME OtpAssumption, TypeOK, GuessInv, Arrive \/ Login
  PROVE  GuessInv'
<1>1. \A kind, s, code, d : Request(kind, s, code, d).pc = "read" /\ Request(kind, s, code, d).at = Nil
  BY DEF Request
<1>2. PICK k \in Requests : \E q : slot' = [slot EXCEPT ![k] = q] /\ q.pc \in {"read", "insert"} /\ q.at = Nil
  <2>1. CASE Login
    <3>1. PICK k \in Requests, s \in Sessions :
            slot' = [slot EXCEPT ![k] = [Request("login", s, Nil, Nil) EXCEPT !.pc = "insert"]]
      BY <2>1 DEF Login
    <3>2. PICK q : q = [Request("login", s, Nil, Nil) EXCEPT !.pc = "insert"]
      OBVIOUS
    <3>3. q.pc = "insert" /\ q.at = Nil
      BY <3>2 DEF Request
    <3> QED
      BY <3>1, <3>2, <3>3
  <2>2. CASE Arrive
    <3>1. PICK k \in Requests : \E kind, s, code, d : Go(k, Request(kind, s, code, d))
      BY <2>2, Zenon DEF Arrive
    <3>2. PICK q : Go(k, q) /\ \E kind, s, code, d : q = Request(kind, s, code, d)
      BY <3>1, Zenon
    <3>3. q.pc = "read" /\ q.at = Nil
      BY <1>1, <3>2, Zenon
    <3> QED
      BY <3>2, <3>3 DEF Go
  <2> QED
    BY <2>1, <2>2
<1>2a. PICK q : slot' = [slot EXCEPT ![k] = q] /\ q.pc \in {"read", "insert"} /\ q.at = Nil
  BY <1>2
<1>3. TryFits(q) /\ ~Trying(q)
  BY <1>2a DEF TryFits, Trying
<1>4. now' = now /\ bucket' = bucket /\ wrong' = wrong /\ DOMAIN slot = Requests
  BY DEF Arrive, Login, history, TypeOK
<1> QED
  BY <1>2a, <1>3, <1>4, GoGuess

\* What the invariant says of one request.
LEMMA FitsHere ==
  ASSUME TypeOK, GuessInv, NEW k \in Requests, slot[k] # Nil
  PROVE  TryFits(slot[k]) /\ slot[k] \in Slot /\ DOMAIN slot = Requests
BY SlotOKHere DEF GuessInv, TryOK, TypeOK

\* Steps of a request on its way.
LEMMA OnItsWay ==
  ASSUME OtpAssumption, TypeOK, GuessInv, NEW k \in Requests, slot[k] # Nil, NEW q, Go(k, q),
         slot[k].pc \notin {"queued", "recheck", "store", "saved"}, q.at = slot[k].at,
         q.pc \notin {"queued", "recheck", "store", "saved"},
         now' = now, bucket' = bucket, wrong' = wrong
  PROVE  GuessInv'
<1>1. TryFits(q) /\ ~Trying(q)
  BY FitsHere DEF TryFits, Trying
<1> QED
  BY <1>1, FitsHere, GoGuess DEF Go

LEMMA ReadGuess ==
  ASSUME OtpAssumption, TypeOK, GuessInv, NEW k \in Requests, slot[k] # Nil,
         Read(k) \/ Check(k) \/ ReadFails(k) \/ EnsureAccount(k)
  PROVE  GuessInv'
<1>1. slot[k] \in Slot
  BY FitsHere
<1>2. PICK snap : snap = [row |-> row, policy |-> policy]
  OBVIOUS
<1>3. CASE Read(k)
  <2>1. PICK q : q = [slot[k] EXCEPT !.pc = "check", !.snap = snap]
    OBVIOUS
  <2>2. q.pc = "check" /\ q.at = slot[k].at
    BY <1>1, <2>1 DEF Slot
  <2>3. Go(k, q) /\ slot[k].pc = "read" /\ now' = now /\ bucket' = bucket /\ wrong' = wrong
    BY <1>2, <1>3, <2>1 DEF Read, history
  <2> QED
    BY <2>2, <2>3, OnItsWay
<1>4. CASE Check(k)
  <2>1. CASE Fail(k, "SESSION_EXPIRED")
    <3>1. now' = now /\ wrong' = wrong /\ DOMAIN slot = Requests
      BY <1>4, FitsHere DEF Check, history
    <3> QED
      BY <2>1, <3>1, FailGuess
  <2>2. CASE Go(k, [slot[k] EXCEPT !.pc = "authorize"]) /\ UNCHANGED bucket /\ slot[k].pc = "check"
    <3>1. PICK q : q = [slot[k] EXCEPT !.pc = "authorize"]
      OBVIOUS
    <3>2. q.pc = "authorize" /\ q.at = slot[k].at
      BY <1>1, <3>1 DEF Slot
    <3>3. Go(k, q) /\ now' = now /\ bucket' = bucket /\ wrong' = wrong
      BY <1>4, <2>2, <3>1 DEF Check, history
    <3> QED
      BY <2>2, <3>2, <3>3, OnItsWay
  <2> QED
    BY <1>4, <2>1, <2>2 DEF Check
<1>5. CASE ReadFails(k)
  <2>1. now' = now /\ wrong' = wrong /\ DOMAIN slot = Requests /\ Fail(k, "OTP_UNAVAILABLE")
    BY <1>5, FitsHere DEF ReadFails, history
  <2> QED
    BY <2>1, FailGuess
<1>6. CASE EnsureAccount(k)
  <2>0. now' = now /\ wrong' = wrong /\ bucket' = bucket
    BY <1>6 DEF EnsureAccount, history
  <2>1. CASE slot[k].pc = "insert" /\ Go(k, [slot[k] EXCEPT !.pc = "select"])
    <3>1. PICK q : q = [slot[k] EXCEPT !.pc = "select"]
      OBVIOUS
    <3>2. q.pc = "select" /\ q.at = slot[k].at
      BY <1>1, <3>1 DEF Slot
    <3>3. Go(k, q)
      BY <2>1, <3>1
    <3> QED
      BY <2>0, <2>1, <3>2, <3>3, OnItsWay
  <2>2. CASE slot[k].pc = "select" /\ Go(k, [slot[k] EXCEPT !.pc = "initialize", !.snap = [row |-> row, policy |-> policy]])
    <3>1. PICK q : q = [slot[k] EXCEPT !.pc = "initialize", !.snap = snap]
      OBVIOUS
    <3>2. q.pc = "initialize" /\ q.at = slot[k].at
      BY <1>1, <3>1 DEF Slot
    <3>3. Go(k, q)
      BY <1>2, <2>2, <3>1
    <3> QED
      BY <2>0, <2>2, <3>2, <3>3, OnItsWay
  <2> QED
    BY <1>6, <2>1, <2>2 DEF EnsureAccount
<1> QED
  BY <1>3, <1>4, <1>5, <1>6

\* authorize: the attempt is reserved.
LEMMA AuthorizeGuess ==
  ASSUME OtpAssumption, TypeOK, GuessInv, NEW k \in Requests, slot[k] # Nil, Authorize(k)
  PROVE  GuessInv'
<1> DEFINE q == slot[k]
<1>0. q \in Slot /\ TryFits(q) /\ DOMAIN slot = Requests /\ q.kind # "login" /\ q.pc = "authorize"
  BY FitsHere, SlotOKHere DEF SlotOK, Authorize
<1>1. now' = now /\ wrong' = wrong
  BY DEF Authorize, history
<1>2. CASE ~Authorized(q) \/ (q.kind \in Changes /\ bucket.until > now)
  <2>1. Fail(k, "OTP_REQUIRED")
    BY <1>2 DEF Authorize
  <2> QED
    BY <1>0, <1>1, <2>1, FailGuess
<1>3. CASE /\ ~(~Authorized(q) \/ (q.kind \in Changes /\ bucket.until > now))
           /\ q.kind = "use"
  <2>1. Leave(k) /\ bucket' = bucket
    BY <1>3 DEF Authorize
  <2> QED
    BY <1>0, <1>1, <2>1, LeaveGuess
<1>4. CASE /\ ~(~Authorized(q) \/ (q.kind \in Changes /\ bucket.until > now))
           /\ q.kind # "use"
  <2> DEFINE new == [q EXCEPT !.pc = "queued", !.at = IF q.kind \in Changes THEN now ELSE Nil]
  <2>1. slot' = [slot EXCEPT ![k] = new] /\ bucket' = IF q.kind \in Changes THEN Reserved ELSE bucket
    BY <1>4 DEF Authorize
  <2>2. new.pc = "queued" /\ new.kind = q.kind /\ new.at = IF q.kind \in Changes THEN now ELSE Nil
    BY <1>0 DEF Slot
  <2>3. TryFits(new)
    <3>1. q.kind \in Changes \union {"begin", "cancel"}
      BY <1>0, <1>4 DEF Slot, Kinds, Changes
    <3> HIDE DEF new
    <3> QED
      BY <2>2, <3>1, NowType DEF TryFits, Trying
  <2>4. TryOK'
    <3> HIDE DEF new
    <3> QED
      BY <1>0, <1>1, <2>1, <2>3, GoFits DEF GuessInv
  <2>5. CASE q.kind \notin Changes
    <3>1. ~Trying(new) /\ bucket' = bucket
      BY <2>1, <2>2, <2>5 DEF Trying
    <3> HIDE DEF new
    <3> QED
      BY <1>0, <1>1, <2>1, <2>3, <3>1, GoGuess
  <2>6. CASE q.kind \in Changes
    <3>0. slot'[k] = new /\ \A l \in Requests : l # k => slot'[l] = slot[l]
      BY <1>0, <2>1
    <3>1. new.at = now
      BY <2>2, <2>6
    <3> HIDE DEF new
    <3>2. \A t : t # now => TriedAt(slot', t) \subseteq TriedAt(slot, t)
      BY <3>0, <3>1 DEF TriedAt
    <3>3. TriedAt(slot', now) \subseteq TriedAt(slot, now) \union {k}
      BY <3>0 DEF TriedAt
    <3>4. wrong \in [0..MaxTime -> Nat] /\ now \in 0..MaxTime
      BY DEF GuessInv, BucketOK
    <3>5. ASSUME NEW t \in 0..MaxTime, t # now
          PROVE  Counts(wrong, slot')[t] <= Counts(wrong, slot)[t]
      <4>1. Cardinality(TriedAt(slot', t)) <= Cardinality(TriedAt(slot, t))
        <5>1. IsFiniteSet(TriedAt(slot, t)) /\ TriedAt(slot', t) \in SUBSET TriedAt(slot, t)
          BY <3>2, <3>5, TriedFinite
        <5> QED
          BY <5>1, FS_Subset
      <4>2. Cardinality(TriedAt(slot', t)) \in Nat /\ Cardinality(TriedAt(slot, t)) \in Nat
        BY TriedFinite
      <4>3. /\ Counts(wrong, slot')[t] = wrong[t] + Cardinality(TriedAt(slot', t))
            /\ Counts(wrong, slot)[t] = wrong[t] + Cardinality(TriedAt(slot, t))
        BY <3>4, CountsType
      <4> QED
        BY <3>4, <4>1, <4>2, <4>3
    <3>6. Counts(wrong, slot')[now] <= Counts(wrong, slot)[now] + 1
      <4>0. IsFiniteSet(TriedAt(slot, now)) /\ Cardinality(TriedAt(slot, now)) \in Nat
        BY TriedFinite
      <4>1. /\ IsFiniteSet(TriedAt(slot, now) \union {k})
            /\ Cardinality(TriedAt(slot, now) \union {k}) <= Cardinality(TriedAt(slot, now)) + 1
        <5>1. PICK T : T = TriedAt(slot, now)
          OBVIOUS
        <5>2. /\ IsFiniteSet(T \union {k})
              /\ Cardinality(T \union {k}) = IF k \in T THEN Cardinality(T) ELSE Cardinality(T) + 1
          BY <4>0, <5>1, FS_AddElement
        <5> QED
          BY <4>0, <5>1, <5>2
      <4>2. Cardinality(TriedAt(slot', now)) <= Cardinality(TriedAt(slot, now) \union {k})
        BY <3>3, <4>1, FS_Subset
      <4>3. Cardinality(TriedAt(slot', now)) \in Nat /\ Cardinality(TriedAt(slot, now) \union {k}) \in Nat
        BY <4>1, TriedFinite, FS_CardinalityType
      <4>4. /\ Counts(wrong, slot')[now] = wrong[now] + Cardinality(TriedAt(slot', now))
            /\ Counts(wrong, slot)[now] = wrong[now] + Cardinality(TriedAt(slot, now))
        BY <3>4, CountsType
      <4> QED
        BY <3>4, <4>0, <4>1, <4>2, <4>3, <4>4
    <3>7. ~ (bucket.until > now) /\ bucket' = Reserved
      BY <1>4, <2>1, <2>6
    <3>8. BucketOK'
      BY <1>1, <3>5, <3>6, <3>7, ReservedBucket DEF GuessInv
    <3> QED
      BY <2>4, <3>8 DEF GuessInv
  <2> QED
    BY <2>5, <2>6
<1> QED
  BY <1>2, <1>3, <1>4

\* Steps of a request that has its attempt.
LEMMA Tries ==
  ASSUME OtpAssumption, TypeOK, GuessInv, NEW k \in Requests, slot[k] # Nil, NEW q, Go(k, q),
         slot[k].pc \in {"queued", "recheck", "store"}, q.kind = slot[k].kind, q.at = slot[k].at,
         q.pc \in {"recheck", "begin", "store", "saved"},
         q.pc \in {"store", "saved"} => q.kind \in Changes, q.pc = "begin" => q.kind = "begin",
         now' = now, bucket' = bucket, wrong' = wrong
  PROVE  GuessInv'
<1>1. TryFits(slot[k])
  BY FitsHere
<1>2. q.kind \in Changes \union {"begin", "cancel"}
  BY <1>1 DEF TryFits
<1>3. Trying(q) => Trying(slot[k])
  BY DEF Trying
<1>4. Trying(slot[k]) => Trying(q)
  BY DEF Trying, Changes
<1>5. TryFits(q)
  BY <1>1, <1>2, <1>3, <1>4 DEF TryFits
<1> QED
  BY <1>3, <1>5, FitsHere, GoGuess DEF Go

LEMMA RecheckGuess ==
  ASSUME OtpAssumption, TypeOK, GuessInv, NEW k \in Requests, slot[k] # Nil, ReadAgain(k) \/ Recheck(k)
  PROVE  GuessInv'
<1>1. slot[k] \in Slot /\ TryFits(slot[k]) /\ DOMAIN slot = Requests
  BY FitsHere
<1>2. now' = now /\ wrong' = wrong
  BY DEF ReadAgain, Recheck, history
<1>3. ASSUME NEW error, error # "OTP_INVALID", Fail(k, error)
      PROVE  GuessInv'
  BY <1>1, <1>2, <1>3, FailGuess
<1>4. CASE ReadAgain(k) /\ Alive(slot[k].s)
  <2>1. PICK q : q = [slot[k] EXCEPT !.pc = "recheck", !.snap = [row |-> row, policy |-> policy]]
    OBVIOUS
  <2>2. q.pc = "recheck" /\ q.at = slot[k].at /\ q.kind = slot[k].kind
    <3>1. PICK snap : snap = [row |-> row, policy |-> policy]
      OBVIOUS
    <3>2. q = [slot[k] EXCEPT !.pc = "recheck", !.snap = snap]
      BY <2>1, <3>1
    <3> QED
      BY <1>1, <3>2 DEF Slot
  <2>3. Go(k, q) /\ bucket' = bucket /\ slot[k].pc = "queued"
    BY <1>4, <2>1 DEF ReadAgain
  <2> QED
    BY <1>2, <2>2, <2>3, Tries
<1>5. CASE ReadAgain(k) /\ ~Alive(slot[k].s)
  BY <1>3, <1>5 DEF ReadAgain
<1>6. CASE Recheck(k)
  <2>1. slot[k].pc = "recheck"
    BY <1>6 DEF Recheck
  <2>2. CASE \E error \in {"SESSION_EXPIRED", "OTP_REQUIRED", "OTP_SETUP_EXPIRED", "OTP_STATE_CHANGED"} : Fail(k, error)
    BY <1>3, <2>2
  <2>3. CASE /\ slot[k].kind # "cancel" /\ bucket' = bucket
             /\ Go(k, [slot[k] EXCEPT !.pc = IF slot[k].kind = "begin" THEN "begin" ELSE "store"])
    <3>1. PICK q : q = [slot[k] EXCEPT !.pc = IF slot[k].kind = "begin" THEN "begin" ELSE "store"]
      OBVIOUS
    <3>2. /\ q.pc = IF slot[k].kind = "begin" THEN "begin" ELSE "store"
          /\ q.at = slot[k].at /\ q.kind = slot[k].kind
      BY <1>1, <3>1 DEF Slot
    <3>3. slot[k].kind \in Changes \union {"begin"}
      BY <1>1, <2>1, <2>3 DEF TryFits
    <3>4. Go(k, q)
      BY <2>3, <3>1
    <3> QED
      BY <1>2, <2>1, <2>3, <3>2, <3>3, <3>4, Tries
  <2> QED
    BY <1>6, <2>2, <2>3 DEF Recheck
<1> QED
  BY <1>4, <1>5, <1>6

LEMMA StoreGuess ==
  ASSUME OtpAssumption, TypeOK, GuessInv, NEW k \in Requests, slot[k] # Nil, StoreFails(k) \/ Store(k)
  PROVE  GuessInv'
<1>1. slot[k] \in Slot /\ TryFits(slot[k]) /\ DOMAIN slot = Requests
  BY FitsHere
<1>2. now' = now /\ slot[k].pc = "store"
  BY DEF StoreFails, Store
<1>3. slot[k].kind \in Changes /\ Trying(slot[k])
  BY <1>1, <1>2 DEF TryFits, Trying
<1>4. CASE wrong' = wrong /\ \E error \in {"OTP_UNAVAILABLE", "OTP_FORCED", "OTP_STATE_CHANGED", "OTP_SETUP_EXPIRED"} : Fail(k, error)
  <2>1. PICK error \in {"OTP_UNAVAILABLE", "OTP_FORCED", "OTP_STATE_CHANGED", "OTP_SETUP_EXPIRED"} : Fail(k, error)
    BY <1>4
  <2>2. error # "OTP_INVALID"
    OBVIOUS
  <2> QED
    BY <1>1, <1>2, <1>4, <2>1, <2>2, FailGuess
<1>5. CASE Fail(k, "OTP_INVALID") /\ wrong' = [wrong EXCEPT ![slot[k].at] = @ + 1]
  <2>1. Leave(k) /\ bucket' = bucket
    BY <1>5 DEF Fail
  <2> QED
    BY <1>1, <1>2, <1>3, <1>5, <2>1, WrongGuess
<1>6. CASE StoreFails(k)
  BY <1>4, <1>5, <1>6 DEF StoreFails
<1>7. CASE Store(k)
  <2>1. wrong' = wrong
    BY <1>7 DEF Store
  <2>2. CASE Fail(k, "OTP_UNAVAILABLE")
    BY <1>4, <2>1, <2>2
  <2>3. CASE ~ Fail(k, "OTP_UNAVAILABLE")
    <3>1. PICK saved : saved = [version |-> row'.version, revision |-> policy.revision]
      OBVIOUS
    <3>2. PICK q : q = [slot[k] EXCEPT !.pc = "saved", !.saved = saved]
      OBVIOUS
    <3>3. q.pc = "saved" /\ q.at = slot[k].at /\ q.kind = slot[k].kind
      BY <1>1, <3>2 DEF Slot
    <3>4. Go(k, q) /\ bucket' = bucket
      BY <1>7, <2>3, <3>1, <3>2 DEF Store
    <3> QED
      BY <1>2, <1>3, <2>1, <3>3, <3>4, Tries
  <2> QED
    BY <2>2, <2>3
<1> QED
  BY <1>6, <1>7

LEMMA EndGuess ==
  ASSUME OtpAssumption, TypeOK, GuessInv, NEW k \in Requests, slot[k] # Nil,
         Begin(k) \/ Rotate(k) \/ Initialize(k) \/ LoginFails(k)
  PROVE  GuessInv'
<1>1. slot[k] \in Slot /\ TryFits(slot[k]) /\ DOMAIN slot = Requests
  BY FitsHere
<1>2. now' = now /\ wrong' = wrong /\ Leave(k)
  BY DEF Begin, Rotate, Initialize, LoginFails, history
<1>3. CASE Rotate(k)
  <2>1. Trying(slot[k]) /\ bucket' = Released(slot[k].at)
    BY <1>1, <1>3 DEF Rotate, TryFits, Trying
  <2> QED
    BY <1>1, <1>2, <2>1, ReleaseGuess
<1>4. CASE Begin(k) \/ Initialize(k) \/ LoginFails(k)
  <2>1. bucket' = bucket
    BY <1>4 DEF Begin, Initialize, LoginFails
  <2> QED
    BY <1>1, <1>2, <2>1, LeaveGuess
<1> QED
  BY <1>3, <1>4

LEMMA OutsideGuess ==
  ASSUME OtpAssumption, TypeOK, GuessInv, Logout \/ Sweep \/ Admin \/ Tick \/ UNCHANGED vars
  PROVE  GuessInv'
<1>1. slot' = slot /\ bucket' = bucket /\ wrong' = wrong
  BY DEF Logout, Sweep, Admin, Tick, vars, history
<1>2. now' \in now..MaxTime /\ now \in Nat /\ now' \in Nat /\ now <= now'
  BY NowType DEF Logout, Sweep, Admin, Tick, vars, OtpAssumption
<1>3. TryOK'
  BY <1>1, <1>2 DEF GuessInv, TryOK, TryFits, Trying
<1>4. \A t : TriedAt(slot', t) \subseteq TriedAt(slot, t)
  BY <1>1
<1> QED
  BY <1>1, <1>2, <1>3, <1>4, FewerGuesses

LEMMA NextGuess == ASSUME OtpAssumption, TypeOK, GuessInv, [Next]_vars PROVE GuessInv'
<1>1. CASE Arrive \/ Login
  BY <1>1, ArriveGuess
<1>2. ASSUME NEW k \in Requests, Handle(k)
      PROVE  GuessInv'
  <2>1. slot[k] # Nil
    BY <1>2 DEF Handle
  <2>2. CASE Read(k) \/ Check(k) \/ ReadFails(k) \/ EnsureAccount(k)
    BY <2>1, <2>2, ReadGuess
  <2>3. CASE Authorize(k)
    BY <2>1, <2>3, AuthorizeGuess
  <2>4. CASE ReadAgain(k) \/ Recheck(k)
    BY <2>1, <2>4, RecheckGuess
  <2>5. CASE StoreFails(k) \/ Store(k)
    BY <2>1, <2>5, StoreGuess
  <2>6. CASE Begin(k) \/ Rotate(k) \/ Initialize(k) \/ LoginFails(k)
    BY <2>1, <2>6, EndGuess
  <2> QED
    BY <1>2, <2>2, <2>3, <2>4, <2>5, <2>6 DEF Handle
<1>3. CASE Logout \/ Sweep \/ Admin \/ Tick \/ UNCHANGED vars
  BY <1>3, OutsideGuess
<1> QED
  BY <1>1, <1>2, <1>3 DEF Next

LEMMA InitGuess == ASSUME OtpAssumption, Init PROVE GuessInv
<1>1. TryOK
  BY DEF Init, TryOK
<1>2. /\ now = 0 /\ bucket.times = [t \in 0..MaxTime |-> 0] /\ wrong = [t \in 0..MaxTime |-> 0]
      /\ \A k \in Requests : slot[k] = Nil
  BY DEF Init
<1>3. now \in 0..MaxTime
  BY <1>2 DEF OtpAssumption
<1>4. ASSUME NEW t \in 0..MaxTime
      PROVE  Counts(wrong, slot)[t] = 0
  <2>1. TriedAt(slot, t) = {}
    BY <1>2 DEF TriedAt
  <2>2. wrong \in [0..MaxTime -> Nat] /\ wrong[t] = 0
    BY <1>2
  <2>3. Cardinality(TriedAt(slot, t)) = 0
    BY <2>1, FS_EmptySet, Zenon
  <2>4. Counts(wrong, slot)[t] = wrong[t] + Cardinality(TriedAt(slot, t))
    BY <2>2, CountsType
  <2> QED
    BY <2>2, <2>3, <2>4
<1>5. ASSUME NEW t \in 0..MaxTime
      PROVE  Total(Counts(wrong, slot), Span(t)) <= Limit
  <2>1. IsFiniteSet(Span(t)) /\ \A i \in Span(t) : Counts(wrong, slot)[i] = 0
    BY <1>4, SpanFinite
  <2>2. Total(Counts(wrong, slot), Span(t)) = 0
    BY <2>1, TotalZero
  <2> QED
    BY <2>2 DEF OtpAssumption
<1>6. BucketOK
  BY <1>2, <1>3, <1>4, <1>5 DEF BucketOK
<1> QED
  BY <1>1, <1>6 DEF GuessInv

\* The limiter's invariant: of each moment it remembers, it knows every attempt that counts.
THEOREM GuessesCounted == Spec => []GuessInv
<1>1. ASSUME OtpAssumption, IInv, GuessInv, [Next]_vars
      PROVE  GuessInv'
  BY <1>1, NextGuess DEF IInv
<1>2. ASSUME OtpAssumption, Init
      PROVE  GuessInv
  BY <1>2, InitGuess
<1> QED
  BY <1>1, <1>2, Inductive, OtpAssumption, PTL DEF Spec

\* However many sessions guess at once: within any Block steps no more than Limit wrong codes
\* are compared, counted when they were reserved (reserve and release of ratelimit.js).
THEOREM GuessesBoundedHolds == Spec => []GuessesBounded
<1>1. ASSUME OtpAssumption, GuessInv
      PROVE  GuessesBounded
  <2>1. wrong \in [0..MaxTime -> Nat]
    BY <1>1 DEF GuessInv, BucketOK
  <2>2. PICK counts : counts = Counts(wrong, slot)
    OBVIOUS
  <2>3. counts \in [0..MaxTime -> Nat] /\ \A t \in 0..MaxTime : wrong[t] <= counts[t]
    BY <1>1, <2>1, <2>2, CountsType, TriedFinite
  <2>4. \A t \in 0..MaxTime : Total(counts, Span(t)) <= Limit
    BY <1>1, <2>2 DEF GuessInv, BucketOK
  <2>5. \A t \in 0..MaxTime : Total(wrong, Span(t)) <= Limit
    BY <1>1, <2>1, <2>3, <2>4, SpansKept
  <2>6. DOMAIN wrong = 0..MaxTime
    BY <2>1
  <2>7. ASSUME NEW t \in 0..MaxTime
        PROVE  FoldFunctionOnSet(+, 0, wrong, (t..(t + Block - 1)) \intersect (0..MaxTime)) <= Limit
    BY <2>5 DEF Total, Span
  <2> QED
    BY <2>6, <2>7 DEF GuessesBounded
<1> QED
  BY <1>1, GuessesCounted, OtpAssumption, PTL
===============================================================================
