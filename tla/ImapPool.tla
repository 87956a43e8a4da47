-------------------------------- MODULE ImapPool --------------------------------
(***************************************************************************)
(* The IMAP connections of one web session (webmail/server/mail/           *)
(* imap-pool.js): the work connection its requests share under a lock, the *)
(* monitor that watches INBOX for its event streams, and their replacement *)
(* when connections break, when the shared mailboxes change and when the   *)
(* session ends.  Code between two awaits is one step.                     *)
(***************************************************************************)
EXTENDS Integers, FiniteSets

CONSTANTS Requests,     \* calls of withMailbox
          Budgeted,     \* those that may run out of their time budget
          Clients,      \* identities of connections; a closed one is used again
          MaxFaults,    \* bound: broken connections and failed attempts
          MaxRefreshes  \* bound: changes of the shared mailboxes
CONSTANT Nil

ASSUME PoolAssumption ==
  /\ Budgeted \subseteq Requests /\ Nil \notin Clients \union Requests
  /\ MaxFaults \in Nat /\ MaxRefreshes \in Nat
  /\ IsFiniteSet(Requests) /\ IsFiniteSet(Clients)
  /\ Cardinality(Clients) > Cardinality(Requests) + 5     \* one is always unused

VARIABLES
  client,   \* connection -> [st, born]: closed, connecting or up, and since which refresh
  lock,     \* connection -> the request that holds its mailbox, or Nil
  late,     \* connection -> requests that left while the lock was being granted
  state,    \* the fields of the session's state
  request,  \* request -> [pc, client, seen]: its connection; the refresh before it came
  epoch, faults

vars == <<client, lock, late, state, request, epoch, faults>>

Live(c) == client[c].st # "closed"

Referenced == {state.work, state.workPending, state.monitor, state.monitorPending, state.leaving}
                \union {request[r].client : r \in Requests}

\* A connection nothing refers to stands for the next one that is made.
Unused == CHOOSE c \in Clients : c \notin Referenced /\ ~Live(c)

\* What closing a connection does: its lock goes with it.
Closed(cl, c) == IF c = Nil THEN cl ELSE [cl EXCEPT ![c] = [st |-> "closed", born |-> 0]]
Fresh == [st |-> "connecting", born |-> epoch]

\* Locks and abandoned waiters of closed connections are gone.
Locks == /\ lock' = [c \in Clients |-> IF client'[c].st = "closed" THEN Nil ELSE lock[c]]
         /\ late' = [c \in Clients |-> IF client'[c].st = "closed" THEN {} ELSE late[c]]

-------------------------------------------------------------------------------
(* The monitor.                                                            *)

Usable(c) == c # Nil /\ client[c].st = "up"

\* A timer will start the monitor again.
ScheduleMonitor(s) == [s EXCEPT !.timer = @ \/ (~s.closed /\ s.listeners > 0)]

\* It is started unless there is one, or one being connected.
MayStart(s) == ~s.closed /\ s.listeners > 0 /\ s.monitorPending = Nil /\ ~Usable(s.monitor)

StartMonitor(s) ==
  IF MayStart(s)
  THEN /\ state' = [s EXCEPT !.monitor = Unused, !.monitorPending = Unused, !.opening = FALSE]
       /\ client' = [client EXCEPT ![Unused] = Fresh]
  ELSE state' = s /\ client' = client

Watch ==
  /\ ~state.closed /\ state.listeners = 0
  /\ StartMonitor([state EXCEPT !.listeners = 1])
  /\ Locks /\ UNCHANGED <<request, epoch, faults>>

\* The last listener leaves.
Unwatch ==
  /\ state.listeners > 0
  /\ state' = [state EXCEPT !.listeners = 0, !.timer = FALSE, !.monitor = Nil]
  /\ client' = Closed(client, state.monitor)
  /\ Locks /\ UNCHANGED <<request, epoch, faults>>

TimerFires ==
  /\ state.timer
  /\ StartMonitor([state EXCEPT !.timer = FALSE])
  /\ Locks /\ UNCHANGED <<request, epoch, faults>>

\* Nothing is scheduled when it ends.
MonitorForgets(s, cl) == [s EXCEPT !.monitorPending = Nil]

\* The pending attempt is over; without a usable monitor another one is due.
MonitorEnds(s, cl) ==
  LET t == [s EXCEPT !.monitorPending = Nil]
  IN  IF t.monitor # Nil /\ cl[t.monitor].st = "up" THEN t ELSE ScheduleMonitor(t)

\* Nobody wants it any more: closed, no listener, or replaced meanwhile.
Unwanted(s) == s.closed \/ s.listeners = 0 \/ s.monitor # s.monitorPending

MonitorConnected ==
  /\ state.monitorPending # Nil /\ ~state.opening /\ client[state.monitorPending].st = "connecting"
  /\ IF Unwanted(state)
     THEN /\ client' = Closed(client, state.monitorPending)
          /\ state' = MonitorEnds(state, client')
     ELSE /\ client' = [client EXCEPT ![state.monitorPending].st = "up"]
          /\ state' = [state EXCEPT !.opening = TRUE]
  /\ Locks /\ UNCHANGED <<request, epoch, faults>>

MonitorOpened ==
  /\ state.monitorPending # Nil /\ state.opening /\ Live(state.monitorPending)
  /\ client' = IF Unwanted(state) THEN Closed(client, state.monitorPending) ELSE client
  /\ state' = MonitorEnds(state, client')
  /\ Locks /\ UNCHANGED <<request, epoch, faults>>

\* The attempt fails, or its connection was closed under it.
MonitorFails ==
  /\ state.monitorPending # Nil
  /\ IF Live(state.monitorPending) THEN faults < MaxFaults /\ faults' = faults + 1 ELSE UNCHANGED faults
  /\ client' = Closed(Closed(client, state.monitorPending), state.monitor)
  /\ state' = MonitorEnds([state EXCEPT !.monitor = Nil], client')
  /\ Locks /\ UNCHANGED <<request, epoch>>

\* A monitor at work breaks.
MonitorBreaks ==
  /\ faults < MaxFaults /\ Usable(state.monitor) /\ state.monitorPending = Nil
  /\ faults' = faults + 1
  /\ client' = Closed(client, state.monitor)
  /\ state' = ScheduleMonitor([state EXCEPT !.monitor = Nil])
  /\ Locks /\ UNCHANGED <<request, epoch>>

-------------------------------------------------------------------------------
(* The work connection.                                                    *)

\* A request is over: it no longer counts among the active ones.
Idle == [pc |-> "idle", client |-> Nil, seen |-> 0]

\* Nobody is told.
RetireQuietly(s) == [s EXCEPT !.work = Nil]

\* The connection is given up, and whoever waits for that goes on.
RetireWork(s) == [s EXCEPT !.work = Nil, !.workRefresh = FALSE]

\* It joins the connection there is, or the attempt there is, or makes one.
Begin(r, seen) ==
  LET s == [state EXCEPT !.workActive = @ + 1] IN
  IF Usable(state.work)
  THEN /\ request' = [request EXCEPT ![r] = [pc |-> "lock", client |-> state.work, seen |-> seen]]
       /\ state' = s /\ client' = client
  ELSE IF state.workPending # Nil
  THEN /\ request' = [request EXCEPT ![r] = [pc |-> "connect", client |-> state.workPending, seen |-> seen]]
       /\ state' = s /\ client' = client
  ELSE LET c == Unused IN
       /\ request' = [request EXCEPT ![r] = [pc |-> "connect", client |-> c, seen |-> seen]]
       /\ state' = [s EXCEPT !.work = c, !.workPending = c]
       /\ client' = [Closed(client, state.work) EXCEPT ![c] = Fresh]

\* Nobody waits.
MustWaitNever(s) == FALSE

\* A connection about to be replaced takes no more requests.
MustWait(s) == s.workRefresh

Enter(r) ==
  /\ request[r].pc = "idle" /\ ~state.closed
  /\ IF MustWait(state)
     THEN request' = [request EXCEPT ![r] = [pc |-> "refresh", client |-> Nil, seen |-> epoch]] /\ UNCHANGED <<state, client>>
     ELSE Begin(r, epoch)
  /\ Locks /\ UNCHANGED <<epoch, faults>>

Wake(r) ==
  /\ request[r].pc = "refresh"
  /\ IF state.closed THEN request' = [request EXCEPT ![r] = Idle] /\ UNCHANGED <<state, client>>
     ELSE ~MustWait(state) /\ Begin(r, request[r].seen)
  /\ Locks /\ UNCHANGED <<epoch, faults>>

\* What the callers of an attempt do next.
Waiters(c, pc) == [r \in Requests |-> IF request[r].pc = "connect" /\ request[r].client = c THEN [request[r] EXCEPT !.pc = pc]
                                      ELSE request[r]]

Connected ==
  /\ state.workPending # Nil /\ client[state.workPending].st = "connecting"
  /\ client' = IF state.closed THEN Closed(client, state.workPending) ELSE [client EXCEPT ![state.workPending].st = "up"]
  /\ request' = Waiters(state.workPending, IF state.closed THEN "leave" ELSE "lock")
  /\ state' = [state EXCEPT !.workPending = Nil]
  /\ Locks /\ UNCHANGED <<epoch, faults>>

\* It fails, or was closed meanwhile.
ConnectFails ==
  /\ state.workPending # Nil
  /\ IF Live(state.workPending) THEN faults < MaxFaults /\ faults' = faults + 1 ELSE UNCHANGED faults
  /\ client' = Closed(client, state.workPending)
  /\ request' = Waiters(state.workPending, "leave")
  /\ state' = [state EXCEPT !.workPending = Nil]
  /\ Locks /\ UNCHANGED epoch

\* The lock is given; a connection that is gone gives none.
Lock(r) ==
  /\ request[r].pc = "lock"
  /\ IF client[request[r].client].st # "up"
     THEN request' = [request EXCEPT ![r].pc = "leave"] /\ UNCHANGED lock
     ELSE /\ lock[request[r].client] = Nil
          /\ lock' = [lock EXCEPT ![request[r].client] = r]
          /\ request' = [request EXCEPT ![r].pc = "work"]
  /\ UNCHANGED <<client, late, state, epoch, faults>>

\* The operation ends, or its connection was closed.
Done(r) ==
  /\ request[r].pc = "work"
  /\ request' = [request EXCEPT ![r].pc = "leave"]
  /\ UNCHANGED <<client, lock, late, state, epoch, faults>>

\* The operation takes too long, or the connection breaks.
Breaks ==
  /\ faults < MaxFaults /\ Usable(state.work)
  /\ faults' = faults + 1
  /\ client' = Closed(client, state.work)
  /\ Locks /\ UNCHANGED <<state, request, epoch>>

\* The budget ends while the request waits.  A lock that is being granted to
\* it arrives later.
GiveUp(r) ==
  /\ r \in Budgeted /\ request[r].pc \in {"refresh", "connect", "lock"}
  /\ LET c == request[r].client IN
     late' = IF request[r].pc = "lock" /\ Live(c) THEN [late EXCEPT ![c] = @ \union {r}] ELSE late
  /\ request' = [request EXCEPT ![r] = IF @.pc = "refresh" THEN Idle ELSE [@ EXCEPT !.pc = "leave"]]
  /\ UNCHANGED <<client, lock, state, epoch, faults>>

\* The lock is kept.
Keeps(r) == r

\* A lock that came too late is given back at once.
Cancelled(r) == Nil

LockTooLate(c) ==
  /\ lock[c] = Nil
  /\ \E r \in late[c] :
       /\ late' = [late EXCEPT ![c] = @ \ {r}]
       /\ lock' = [lock EXCEPT ![c] = Cancelled(r)]
  /\ UNCHANGED <<client, state, request, epoch, faults>>

\* The last request of a connection to be replaced retires it.
Leave(r) ==
  /\ request[r].pc = "leave"
  /\ LET s == [state EXCEPT !.workActive = @ - 1]
         last == s.workActive = 0 /\ s.workRefresh
     IN  /\ state' = IF last THEN RetireWork(s) ELSE s
         /\ client' = IF last THEN Closed(client, state.work) ELSE client
  /\ request' = [request EXCEPT ![r] = Idle]
  /\ lock' = [c \in Clients |-> IF client'[c].st = "closed" \/ lock[c] = r THEN Nil ELSE lock[c]]
  /\ late' = [c \in Clients |-> IF client'[c].st = "closed" THEN {} ELSE late[c]]
  /\ UNCHANGED <<epoch, faults>>

-------------------------------------------------------------------------------
(* Connections of one call only (withFreshConnection).                     *)

Own(r) == request[r].pc \in {"dial", "own"}

Dial(r) ==
  /\ request[r].pc = "idle" /\ ~state.closed /\ r \notin Budgeted
  /\ request' = [request EXCEPT ![r] = [pc |-> "dial", client |-> Unused, seen |-> epoch]]
  /\ client' = [client EXCEPT ![Unused] = Fresh]
  /\ Locks /\ UNCHANGED <<state, epoch, faults>>

Dialed(r) ==
  /\ request[r].pc = "dial" /\ Live(request[r].client)
  /\ client' = [client EXCEPT ![request[r].client].st = "up"]
  /\ request' = [request EXCEPT ![r].pc = "own"]
  /\ Locks /\ UNCHANGED <<state, epoch, faults>>

\* It succeeds or fails; either way its connection is closed.
OwnEnds(r) ==
  /\ Own(r)
  /\ client' = Closed(client, request[r].client)
  /\ request' = [request EXCEPT ![r] = Idle]
  /\ Locks /\ UNCHANGED <<state, epoch, faults>>

-------------------------------------------------------------------------------
(* What concerns both.                                                     *)

CloseAll(cl, cs) == [c \in Clients |-> IF c \in cs THEN [st |-> "closed", born |-> 0] ELSE cl[c]]

\* A call that lists the folders finds other shared mailboxes: nothing that comes now may run
\* on a connection made before.
RefreshShared ==
  /\ ~state.closed /\ epoch < MaxRefreshes
  /\ \E r \in Requests : request[r].pc = "own"
  /\ epoch' = epoch + 1
  /\ LET s == [state EXCEPT !.timer = FALSE, !.monitor = Nil]
         cl == Closed(client, state.monitor)
     IN  IF state.workActive > 0
         THEN state' = ScheduleMonitor([s EXCEPT !.workRefresh = TRUE]) /\ client' = cl
         ELSE state' = ScheduleMonitor(RetireWork(s)) /\ client' = Closed(cl, state.work)
  /\ Locks /\ UNCHANGED <<request, faults>>

\* Connections of single calls are forgotten.
EndedShared == {state.monitor} \union IF Usable(state.work) THEN {} ELSE {state.work}

\* What the end of the session closes at once.
Ended ==
  {state.monitor} \union {request[r].client : r \in {r \in Requests : Own(r)}}
    \union IF Usable(state.work) THEN {} ELSE {state.work}

\* The session ends (logout, expiry, a refused login): a usable connection
\* logs out first.
CloseState ==
  /\ ~state.closed
  /\ state' = [state EXCEPT !.closed = TRUE, !.listeners = 0, !.timer = FALSE, !.monitor = Nil, !.work = Nil,
                            !.leaving = IF Usable(state.work) THEN state.work ELSE Nil]
  /\ client' = CloseAll(client, Ended)
  /\ Locks /\ UNCHANGED <<request, epoch, faults>>

LoggedOut ==
  /\ state.leaving # Nil
  /\ state' = [state EXCEPT !.leaving = Nil]
  /\ client' = Closed(client, state.leaving)
  /\ Locks /\ UNCHANGED <<request, epoch, faults>>

-------------------------------------------------------------------------------
\* A session begins with the connection that verified its login.
Init ==
  /\ LET first == CHOOSE c \in Clients : TRUE IN
     /\ client = [c \in Clients |-> IF c = first THEN [st |-> "up", born |-> 0] ELSE [st |-> "closed", born |-> 0]]
     /\ state = [closed |-> FALSE, work |-> first, workPending |-> Nil, workActive |-> 0, workRefresh |-> FALSE,
                 listeners |-> 0, timer |-> FALSE, monitor |-> Nil, monitorPending |-> Nil, opening |-> FALSE, leaving |-> Nil]
  /\ lock = [c \in Clients |-> Nil] /\ late = [c \in Clients |-> {}]
  /\ request = [r \in Requests |-> Idle]
  /\ epoch = 0 /\ faults = 0

Monitor == TimerFires \/ MonitorConnected \/ MonitorOpened \/ MonitorFails
Work == Connected \/ ConnectFails \/ \E c \in Clients : LockTooLate(c)
Step(r) == Wake(r) \/ Lock(r) \/ Done(r) \/ Leave(r) \/ Dialed(r) \/ OwnEnds(r)

Next ==
  \/ Monitor \/ MonitorBreaks \/ Watch \/ Unwatch
  \/ Work \/ Breaks \/ RefreshShared \/ CloseState \/ LoggedOut
  \/ \E r \in Requests : Enter(r) \/ Dial(r) \/ Step(r) \/ GiveUp(r)

Spec == Init /\ [][Next]_vars

\* Every wait of the code has a timer of its own, and locks are given in turn.
FairSpec ==
  /\ Spec /\ WF_vars(Monitor) /\ WF_vars(Connected \/ ConnectFails) /\ WF_vars(LoggedOut)
  /\ \A r \in Requests : SF_vars(Step(r))

-------------------------------------------------------------------------------
(* Properties.                                                             *)

\* A request that came after the shared mailboxes changed never works on a
\* connection made before (imap-pool.js refreshShared, withMailbox).
FreshAfterRefresh ==
  \A r \in Requests : request[r].pc = "work" /\ Live(request[r].client) => client[request[r].client].born >= request[r].seen

\* Every open connection is one the session can still close, and an ended
\* session is left with none but those on their way out (closeState,
\* startMonitor, watch, retireWork).
NothingLeft ==
  \A c \in Clients : Live(c) =>
    \/ c \in {state.work, state.monitor, state.leaving}
    \/ \E r \in Requests : Own(r) /\ request[r].client = c /\ ~state.closed
    \/ (~state.closed /\ c \in {state.workPending, state.monitorPending})

\* A mailbox is locked only for a request that is still there
\* (withBudgetMailbox: cancelled).
LockedForSomeone ==
  \A c \in Clients : lock[c] # Nil => request[lock[c]].client = c /\ request[lock[c]].pc \in {"work", "leave"}

\* As long as somebody listens there will be a monitor again, whatever
\* happened to the one before (scheduleMonitor, startMonitor).
Watched == state.listeners > 0 ~> (state.listeners = 0 \/ (Usable(state.monitor) /\ state.monitorPending = Nil))

\* Every call comes to an end: no lock is lost, and nobody waits for a
\* replacement that was forgotten (withMailbox, retireWork, closeState).
CallsEnd == \A r \in Requests : request[r].pc # "idle" ~> request[r].pc = "idle"
===============================================================================
