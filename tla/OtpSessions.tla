------------------------------ MODULE OtpSessions ------------------------------
(***************************************************************************)
(* Sessions of one account and its second factor (webmail/server/security: *)
(* session.js, otp-service.js, otp-store.js, otp.js, the OTP limiter of    *)
(* ratelimit.js; the preHandler and routes of routes/auth.js, otp.js).     *)
(* SQL answers later: between a read and what is made of it every other    *)
(* request, and the administrator, may take a step.  Time counts the steps *)
(* of the one-time password.                                               *)
(***************************************************************************)
EXTENDS Integers, Sequences, FiniteSets, FiniteSetsExt, SequencesExt

CONSTANTS Sessions, Requests,
          Limit, Block, Window,  \* of the limiter: attempts, and durations in steps
          Pending,               \* time to finish a login or an enrollment, in steps
          MaxTime,               \* bound: steps
          MaxAsked,              \* bound: requests and logins
          MaxEvents,             \* bound: acts of the administrator, sessions ended
          Nil

ASSUME OtpAssumption ==
  /\ IsFiniteSet(Requests)
  /\ Limit \in Nat \ {0} /\ Block \in Nat \ {0} /\ Window \in Nat /\ Block <= Window
  /\ Pending \in Nat /\ MaxTime \in Nat /\ MaxAsked \in Nat /\ MaxEvents \in Nat

VARIABLES
  row,      \* otp_accounts: [version, seed, last], Nil without one; no seed: not registered
  policy,   \* otp_policy: [force, revision]
  fresh,    \* the last version or seed drawn at random
  now,
  sess,     \* the session objects
  slot,     \* request -> what it is doing, Nil when idle
  queue,    \* session -> the requests that hold or await its lock
  bucket,   \* the limiter's record of the account: [times, until]
  proved,   \* session -> versions of a second factor it proved (for the properties)
  used,     \* codes accepted, in order (for the properties)
  wrong,    \* time of the reservation -> wrong codes compared (for the properties)
  asked, events

db == <<row, policy, fresh>>
history == <<proved, used, wrong>>
vars == <<row, policy, fresh, now, sess, slot, queue, bucket, proved, used, wrong, asked, events>>

Changes == {"verify", "confirm", "disable"}
Enabled(r) == r # Nil /\ r.seed # Nil

-------------------------------------------------------------------------------
(* Sessions.                                                               *)

Unused == [phase |-> "unused", cookie |-> 0, state |-> "ready", version |-> 0, revision |-> 0,
           draft |-> Nil, pending |-> Nil]

\* In the map, and its time to finish the login is not over.
Alive(s) == /\ sess[s].phase = "live"
            /\ sess[s].pending # Nil => now < sess[s].pending

\* destroy(): the draft and its seed are wiped; a transaction under way still reads the version.
Destroyed(s) == [sess EXCEPT ![s] = [Unused EXCEPT !.phase = "dead", !.version = sess[s].version]]

Bound(q) == Alive(q.s) /\ sess[q.s].cookie = q.cookie

\* What a state short of ready may ask for (pendingPaths).
Allowed(state, kind) ==
  \/ state = "ready"
  \/ state = "otp" /\ kind = "verify"
  \/ state = "enroll" /\ kind \in {"begin", "confirm"}

-------------------------------------------------------------------------------
(* The limiter: reserve() before anything is awaited, and its release.     *)

\* The attempts of one moment are alike: the record counts them.
Pruned == [t \in DOMAIN bucket.times |-> IF t + Window > now THEN bucket.times[t] ELSE 0]

Attempts(times) == FoldFunction(+, 0, times)

Reserved ==
  LET times == [Pruned EXCEPT ![now] = @ + 1] IN
  [times |-> times, until |-> IF Attempts(times) >= Limit THEN now + Block ELSE bucket.until]

Released(at) ==
  LET times == [Pruned EXCEPT ![at] = IF @ = 0 THEN 0 ELSE @ - 1] IN
  [times |-> times,
   until |-> IF Attempts(times) >= Limit THEN Max({t \in DOMAIN times : times[t] > 0}) + Block ELSE 0]

-------------------------------------------------------------------------------
(* The end of a request; its lock goes to the next.                        *)

\* The lock of a session is handed on in the order of arrival.
Holds(k) == slot[k] # Nil /\ queue[slot[k].s] # <<>> /\ Head(queue[slot[k].s]) = k

Go(k, q) == slot' = [slot EXCEPT ![k] = q] /\ UNCHANGED queue

Leave(k) ==
  /\ slot' = [slot EXCEPT ![k] = Nil]
  /\ queue' = [queue EXCEPT ![slot[k].s] = SelectSeq(@, LAMBDA x : x # k)]

\* Every failure gives the attempt back, a wrong code too.
FailReleased(k, error) ==
  /\ Leave(k)
  /\ bucket' = IF slot[k].at # Nil THEN Released(slot[k].at) ELSE bucket

\* The attempt is given back unless the code was wrong.
Fail(k, error) ==
  /\ Leave(k)
  /\ bucket' = IF slot[k].at # Nil /\ error # "OTP_INVALID" THEN Released(slot[k].at) ELSE bucket

-------------------------------------------------------------------------------
(* A request arrives with the cookie its session has now: one that needs a *)
(* ready session, or one the page offers in its state, with a code that    *)
(* was once displayed for the seed registered or being registered, or not. *)

Request(kind, s, code, draft) ==
  [kind |-> kind, s |-> s, cookie |-> sess[s].cookie, state |-> sess[s].state, pc |-> "read",
   snap |-> Nil, at |-> Nil, code |-> code, draft |-> draft, saved |-> Nil]

Shown(seed) == IF seed = Nil THEN {} ELSE {[seed |-> seed, step |-> t] : t \in {now - 1, now} \intersect Nat}

Arrive ==
  /\ asked < MaxAsked
  /\ asked' = asked + 1
  /\ \E k \in Requests, s \in Sessions :
       LET draft == sess[s].draft IN
       /\ slot[k] = Nil /\ Alive(s) /\ sess[s].cookie # 0
       /\ \/ Go(k, Request("use", s, Nil, Nil))
          \/ /\ sess[s].state # "otp" /\ draft = Nil /\ Go(k, Request("begin", s, Nil, Nil))
          \/ /\ sess[s].state = "ready" /\ draft # Nil /\ Go(k, Request("cancel", s, Nil, Nil))
          \/ /\ row # Nil
             /\ \E kind \in {IF sess[s].state = "otp" THEN "verify" ELSE "disable"},
                   code \in {Nil} \union Shown(row.seed) : Go(k, Request(kind, s, code, Nil))
          \/ /\ draft # Nil
             /\ \E code \in {Nil} \union Shown(draft.seed) : Go(k, Request("confirm", s, code, draft))
  /\ UNCHANGED <<db, now, sess, bucket, history, events>>

\* The answer of readAccess, and its failure.
Read(k) ==
  /\ slot[k].pc = "read"
  /\ Go(k, [slot[k] EXCEPT !.pc = "check", !.snap = [row |-> row, policy |-> policy]])
  /\ UNCHANGED <<db, now, sess, bucket, history, asked, events>>

ReadFails(k) ==
  /\ slot[k].pc = "read" \/ (slot[k].pc = "queued" /\ Holds(k))
  /\ Fail(k, "OTP_UNAVAILABLE")
  /\ UNCHANGED <<db, now, sess, history, asked, events>>

\* The registration the session knows is not compared.
OutdatedPolicy(s, snap) ==
  \/ snap.row = Nil
  \/ /\ sess[s].state = "enroll" \/ sess[s].draft # Nil
     /\ sess[s].revision # snap.policy.revision

\* checkAccess: what is made of a snapshot.
Outdated(s, snap) ==
  \/ (IF snap.row = Nil THEN TRUE ELSE snap.row.version # sess[s].version)
  \/ /\ sess[s].state = "enroll" \/ sess[s].draft # Nil
     /\ sess[s].revision # snap.policy.revision

Admitted(s, snap) ==
  LET enroll == sess[s].state = "ready" /\ ~Enabled(snap.row) /\ snap.policy.force IN
  [sess EXCEPT ![s].state = IF enroll THEN "enroll" ELSE @,
               ![s].pending = IF enroll THEN now + Pending ELSE @,
               ![s].revision = snap.policy.revision]

\* preHandler after the read, under the cookie of the request.
Check(k) ==
  LET q == slot[k] IN
  /\ q.pc = "check"
  /\ IF ~Bound(q) THEN Fail(k, "SESSION_EXPIRED") /\ UNCHANGED sess
     ELSE IF Outdated(q.s, q.snap) THEN Fail(k, "SESSION_EXPIRED") /\ sess' = Destroyed(q.s)
     ELSE /\ sess' = Admitted(q.s, q.snap)
          /\ Go(k, [q EXCEPT !.pc = "authorize"]) /\ UNCHANGED bucket
  /\ UNCHANGED <<db, now, history, asked, events>>

Authorized(q) == /\ sess[q.s].cookie = q.cookie
                 /\ Allowed(q.state, q.kind) /\ Allowed(sess[q.s].state, q.kind)

\* authorize, and the first synchronous steps of the handler.
Authorize(k) ==
  LET q == slot[k]
      waiting == Append(queue[q.s], k) IN
  /\ q.pc = "authorize"
  /\ IF ~Authorized(q) \/ (q.kind \in Changes /\ bucket.until > now)
     THEN Fail(k, "OTP_REQUIRED")
     ELSE IF q.kind = "use" THEN Leave(k) /\ UNCHANGED bucket
     ELSE /\ slot' = [slot EXCEPT ![k] = [q EXCEPT !.pc = "queued",
                                                   !.at = IF q.kind \in Changes THEN now ELSE Nil]]
          /\ queue' = [queue EXCEPT ![q.s] = waiting]
          /\ bucket' = IF q.kind \in Changes THEN Reserved ELSE bucket
  /\ UNCHANGED <<db, now, sess, history, asked, events>>

-------------------------------------------------------------------------------
(* Under the lock of the session: lock.run, then once more checkAccess.    *)

ReadAgain(k) ==
  LET q == slot[k] IN
  /\ q.pc = "queued" /\ Holds(k)
  /\ IF Alive(q.s)
     THEN /\ Go(k, [q EXCEPT !.pc = "recheck", !.snap = [row |-> row, policy |-> policy]])
          /\ UNCHANGED bucket
     ELSE Fail(k, "SESSION_EXPIRED")
  /\ UNCHANGED <<db, now, sess, history, asked, events>>

\* The cookie is not asked for any more; the state must suit the operation.
Suits(state, kind) ==
  CASE kind = "verify" -> state = "otp"
    [] kind \in {"disable", "cancel"} -> state = "ready"
    [] OTHER -> state \in {"ready", "enroll"}

Recheck(k) ==
  LET q == slot[k]
      next == Admitted(q.s, q.snap)
      draft == next[q.s].draft
      late == draft # Nil /\ now >= draft.expires
  IN
  /\ q.pc = "recheck"
  /\ IF ~Alive(q.s) THEN Fail(k, "SESSION_EXPIRED") /\ UNCHANGED sess
     ELSE IF Outdated(q.s, q.snap) THEN Fail(k, "SESSION_EXPIRED") /\ sess' = Destroyed(q.s)
     ELSE IF ~Suits(next[q.s].state, q.kind) THEN Fail(k, "OTP_REQUIRED") /\ sess' = next
     ELSE IF q.kind = "cancel" \/ (late /\ q.kind \in {"begin", "confirm"})
          THEN Fail(k, "OTP_SETUP_EXPIRED") /\ sess' = [next EXCEPT ![q.s].draft = Nil]
     ELSE IF q.kind = "confirm" /\ draft = Nil THEN Fail(k, "OTP_SETUP_EXPIRED") /\ sess' = next
     ELSE IF q.kind = "confirm" /\ draft # q.draft
          THEN Fail(k, "OTP_STATE_CHANGED") /\ sess' = Destroyed(q.s)
     ELSE /\ sess' = next
          /\ Go(k, [q EXCEPT !.pc = IF q.kind = "begin" THEN "begin" ELSE "store"])
          /\ UNCHANGED bucket
  /\ UNCHANGED <<db, now, history, asked, events>>

\* begin(): a draft against the registration and the policy of the snapshot.
Begin(k) ==
  LET q == slot[k] IN
  /\ q.pc = "begin"
  /\ Leave(k)
  /\ IF Enabled(q.snap.row) \/ sess[q.s].draft # Nil \/ ~Alive(q.s)
     THEN UNCHANGED <<sess, fresh>>
     ELSE /\ fresh' = fresh + 1
          /\ sess' = [sess EXCEPT ![q.s].draft =
               [seed |-> fresh + 1, base |-> sess[q.s].version, revision |-> q.snap.policy.revision,
                expires |-> LET p == sess[q.s].pending IN
                            IF p # Nil /\ p < now + Pending THEN p ELSE now + Pending]]
  /\ UNCHANGED <<row, policy, now, bucket, history, asked, events>>

-------------------------------------------------------------------------------
(* The transactions of otp-store.js: rows are locked, so each is one step, *)
(* but the answer to a COMMIT may be lost.                                 *)

Matches(code, seed, last) ==
  /\ code # Nil /\ seed # Nil
  /\ code.seed = seed /\ code.step \in {now - 1, now, now + 1} /\ code.step > last

\* confirmEnrollment that does not remember the step of its code.
ConfirmedUnused(q) == [version |-> fresh + 1, seed |-> q.draft.seed, last |-> -1]

Confirmed(q) == [version |-> fresh + 1, seed |-> q.draft.seed, last |-> q.code.step]

Stored(q) ==
  CASE q.kind = "confirm" -> Confirmed(q)
    [] q.kind = "disable" -> [version |-> fresh + 1, seed |-> Nil, last |-> -1]
    [] OTHER -> [row EXCEPT !.last = q.code.step]

\* A draft that was wiped meanwhile is a seed of zeros no code belongs to.
Seed(q) == IF q.kind # "confirm" THEN row.seed ELSE IF sess[q.s].draft # Nil THEN q.draft.seed ELSE Nil

Accepted(q) == Matches(q.code, Seed(q), IF q.kind = "confirm" THEN -1 ELSE row.last)

Conflict(q) ==
  IF row = Nil THEN TRUE
  ELSE IF q.kind = "confirm"
       THEN \/ row.version # sess[q.s].version \/ row.version # q.draft.base
            \/ Enabled(row) \/ policy.revision # q.draft.revision
       ELSE row.version # sess[q.s].version \/ ~Enabled(row)

Late(q) == q.kind = "confirm" /\ now >= q.draft.expires

Barred(q) == q.kind = "disable" /\ policy.force

\* Refused, by a database out of reach, the policy, the registration or the code.
StoreFails(k) ==
  LET q == slot[k] IN
  /\ q.pc = "store"
  /\ \/ Fail(k, "OTP_UNAVAILABLE") /\ UNCHANGED <<sess, wrong>>
     \/ Barred(q) /\ Fail(k, "OTP_FORCED") /\ UNCHANGED <<sess, wrong>>
     \/ /\ ~Barred(q) /\ Conflict(q)
        /\ Fail(k, "OTP_STATE_CHANGED") /\ sess' = Destroyed(q.s) /\ UNCHANGED wrong
     \/ /\ ~Conflict(q) /\ Late(q)
        /\ Fail(k, "OTP_SETUP_EXPIRED") /\ UNCHANGED <<sess, wrong>>
     \/ /\ ~Barred(q) /\ ~Conflict(q) /\ ~Late(q) /\ ~Accepted(q)
        /\ Fail(k, "OTP_INVALID") /\ wrong' = [wrong EXCEPT ![q.at] = @ + 1] /\ UNCHANGED sess
  /\ UNCHANGED <<db, now, proved, used, asked, events>>

Store(k) ==
  LET q == slot[k] IN
  /\ q.pc = "store"
  /\ ~Barred(q) /\ ~Conflict(q) /\ ~Late(q) /\ Accepted(q)
  /\ row' = Stored(q)
  /\ fresh' = IF q.kind = "verify" THEN fresh ELSE fresh + 1
  /\ used' = Append(used, q.code)
  /\ \/ /\ Go(k, [q EXCEPT !.pc = "saved", !.saved = [version |-> row'.version, revision |-> policy.revision]])
        /\ UNCHANGED bucket
     \/ Fail(k, "OTP_UNAVAILABLE")
  /\ UNCHANGED <<policy, now, sess, proved, wrong, asked, events>>

\* rotate(): a new cookie; the session is ready, and after a change of the
\* registration it is the only one.
Rotate(k) ==
  LET q == slot[k] IN
  /\ q.pc = "saved"
  /\ Leave(k)
  /\ bucket' = Released(q.at)
  /\ IF ~Alive(q.s) THEN UNCHANGED <<sess, proved>>
     ELSE /\ sess' = [s \in Sessions |->
               IF s = q.s
               THEN [sess[s] EXCEPT !.cookie = @ + 1, !.state = "ready", !.pending = Nil, !.draft = Nil,
                                    !.version = q.saved.version, !.revision = q.saved.revision]
               ELSE IF q.kind # "verify" /\ sess[s].phase = "live" THEN Destroyed(s)[s] ELSE sess[s]]
          /\ proved' = [proved EXCEPT ![q.s] = @ \union {q.saved.version}]
  /\ UNCHANGED <<db, now, used, wrong, asked, events>>

-------------------------------------------------------------------------------
(* Login: the session exists before its account is read (initialize).      *)

Login ==
  /\ asked < MaxAsked
  /\ asked' = asked + 1
  /\ \E k \in Requests, s \in Sessions :
       /\ slot[k] = Nil /\ sess[s].phase = "unused"
       /\ sess' = [sess EXCEPT ![s].phase = "live"]
       /\ slot' = [slot EXCEPT ![k] = [Request("login", s, Nil, Nil) EXCEPT !.pc = "insert"]]
  /\ UNCHANGED <<db, now, queue, bucket, history, events>>

\* INSERT IGNORE, then a SELECT of its own.
EnsureAccount(k) ==
  LET q == slot[k] IN
  \/ /\ q.pc = "insert"
     /\ IF row # Nil THEN UNCHANGED <<row, fresh>>
        ELSE row' = [version |-> fresh + 1, seed |-> Nil, last |-> -1] /\ fresh' = fresh + 1
     /\ Go(k, [q EXCEPT !.pc = "select"])
     /\ UNCHANGED <<policy, now, sess, bucket, history, asked, events>>
  \/ /\ q.pc = "select"
     /\ Go(k, [q EXCEPT !.pc = "initialize", !.snap = [row |-> row, policy |-> policy]])
     /\ UNCHANGED <<db, now, sess, bucket, history, asked, events>>

LoggedIn(snap) ==
  LET state == IF Enabled(snap.row) THEN "otp" ELSE IF snap.policy.force THEN "enroll" ELSE "ready" IN
  [phase |-> "live", cookie |-> 1, state |-> state, version |-> snap.row.version,
   revision |-> snap.policy.revision, draft |-> Nil,
   pending |-> IF state = "ready" THEN Nil ELSE now + Pending]

Initialize(k) ==
  LET q == slot[k] IN
  /\ q.pc = "initialize"
  /\ Leave(k)
  /\ sess' = IF q.snap.row = Nil THEN Destroyed(q.s)
             ELSE [sess EXCEPT ![q.s] = [LoggedIn(q.snap) EXCEPT !.phase = sess[q.s].phase]]
  /\ UNCHANGED <<db, now, bucket, history, asked, events>>

LoginFails(k) ==
  /\ slot[k].pc \in {"insert", "select"}
  /\ Leave(k) /\ sess' = Destroyed(slot[k].s)
  /\ UNCHANGED <<db, now, bucket, history, asked, events>>

Handle(k) ==
  /\ slot[k] # Nil
  /\ \/ Read(k) \/ ReadFails(k) \/ Check(k) \/ Authorize(k) \/ ReadAgain(k) \/ Recheck(k)
     \/ Begin(k) \/ StoreFails(k) \/ Store(k) \/ Rotate(k)
     \/ EnsureAccount(k) \/ Initialize(k) \/ LoginFails(k)

-------------------------------------------------------------------------------
(* Logout, idle time, the end of the longest life: a session is destroyed. *)

Logout ==
  /\ events < MaxEvents
  /\ events' = events + 1
  /\ \E s \in Sessions : sess[s].phase = "live" /\ sess[s].cookie # 0 /\ sess' = Destroyed(s)
  /\ UNCHANGED <<db, now, slot, queue, bucket, history, asked>>

\* sweep() drops a draft whose time is over.
Sweep ==
  /\ \E s \in Sessions : /\ sess[s].draft # Nil /\ now >= sess[s].draft.expires
                         /\ sess' = [sess EXCEPT ![s].draft = Nil]
  /\ UNCHANGED <<db, now, slot, queue, bucket, history, asked, events>>

\* The administrator: setPolicy, reset and cleanup of an account.
Admin ==
  /\ events < MaxEvents
  /\ events' = events + 1
  /\ \/ /\ policy' = [force |-> ~policy.force, revision |-> policy.revision + 1]
        /\ UNCHANGED <<row, fresh>>
     \/ /\ row # Nil /\ row' = [version |-> fresh + 1, seed |-> Nil, last |-> -1] /\ fresh' = fresh + 1
        /\ UNCHANGED policy
     \/ /\ row # Nil /\ row' = Nil
        /\ UNCHANGED <<policy, fresh>>
  /\ UNCHANGED <<now, sess, slot, queue, bucket, history, asked>>

Tick ==
  /\ now < MaxTime
  /\ now' = now + 1
  /\ UNCHANGED <<db, sess, slot, queue, bucket, history, asked, events>>

\* Some sessions may just have logged in.
Init ==
  /\ row \in {Nil, [version |-> 1, seed |-> Nil, last |-> -1], [version |-> 1, seed |-> 2, last |-> -1]}
  /\ \E force \in BOOLEAN : policy = [force |-> force, revision |-> 0]
  /\ fresh = 2 /\ now = 0
  /\ sess \in [Sessions -> {Unused} \union
                 (IF row = Nil THEN {} ELSE {LoggedIn([row |-> row, policy |-> policy])})]
  /\ slot = [k \in Requests |-> Nil]
  /\ queue = [s \in Sessions |-> <<>>]
  /\ bucket = [times |-> [t \in 0..MaxTime |-> 0], until |-> 0]
  /\ proved = [s \in Sessions |-> {}] /\ used = <<>> /\ wrong = [t \in 0..MaxTime |-> 0]
  /\ asked = 0 /\ events = 0

Next == Arrive \/ Login \/ (\E k \in Requests : Handle(k)) \/ Logout \/ Sweep \/ Admin \/ Tick

Spec == Init /\ [][Next]_vars

-------------------------------------------------------------------------------
(* Properties.                                                             *)

\* The next step of the request does what only a ready session may.
Authorizing(k) == /\ slot[k] # Nil /\ slot[k].pc = "authorize" /\ slot[k].kind = "use"
                  /\ Authorized(slot[k])

\* No code is accepted twice, by whatever logins, enrollments and removals at once,
\* and however many answers of the database were lost (last_step, the seed of a draft).
CodeOnce == \A i, j \in DOMAIN used : used[i] = used[j] => i = j

\* A request is served only by a session that proved the second factor its account had when
\* it was read, and none while one is demanded and missing; a session that knows the present
\* registration proved it (checkAccess, authorize, rotate, initialize).
NoBypass ==
  /\ \A k \in Requests : Authorizing(k) =>
       /\ Enabled(slot[k].snap.row) => slot[k].snap.row.version \in proved[slot[k].s]
       /\ slot[k].snap.policy.force => Enabled(slot[k].snap.row)
  /\ \A s \in Sessions : 
       /\ Alive(s) /\ sess[s].cookie # 0 /\ sess[s].state = "ready"
       /\ Enabled(row) /\ row.version = sess[s].version
       => row.version \in proved[s]

\* However many sessions guess at once: within any Block steps no more than Limit wrong codes
\* are compared, counted when they were reserved (reserve, release).
GuessesBounded ==
  \A t \in DOMAIN wrong : FoldFunctionOnSet(+, 0, wrong, (t..(t + Block - 1)) \intersect DOMAIN wrong) <= Limit
===============================================================================
