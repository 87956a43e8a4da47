---------------------------- MODULE ImapPoolProofs -----------------------------
(***************************************************************************)
(* The inductive invariant of ImapPool and the proofs of its safety        *)
(* properties, for any number of calls, connections, faults and refreshes. *)
(***************************************************************************)
EXTENDS ImapPool, FiniteSetTheorems, TLAPS

ClientOrNil == Clients \union {Nil}
Links == [st : {"closed", "connecting", "up"}, born : Nat]
States == [closed : BOOLEAN, work : ClientOrNil, workPending : ClientOrNil, workActive : Int, workRefresh : BOOLEAN,
           listeners : {0, 1}, timer : BOOLEAN, monitor : ClientOrNil, monitorPending : ClientOrNil,
           opening : BOOLEAN, leaving : ClientOrNil]
Calls == [pc : {"idle", "refresh", "connect", "lock", "work", "leave", "dial", "own"}, client : ClientOrNil, seen : Nat]

TypeOK ==
  /\ client \in [Clients -> Links]
  /\ lock \in [Clients -> Requests \union {Nil}]
  /\ late \in [Clients -> SUBSET Requests]
  /\ state \in States
  /\ request \in [Requests -> Calls]
  /\ epoch \in Nat /\ faults \in Nat

\* An attempt still under way is the one the session would use, and what it
\* may use now was made since the last refresh.
WorkOK ==
  /\ ~state.closed /\ state.workPending # Nil /\ Live(state.workPending) => state.workPending = state.work
  /\ ~state.closed /\ ~state.workRefresh /\ state.work # Nil /\ Live(state.work) => client[state.work].born = epoch

\* A monitor is replaced only when its attempt is over.
MonitorOK ==
  /\ state.monitorPending # Nil => state.monitor \in {Nil, state.monitorPending}
  /\ state.monitorPending # Nil /\ Live(state.monitorPending) => state.monitor = state.monitorPending
  /\ state.monitorPending # Nil /\ state.opening => client[state.monitorPending].st # "connecting"
  /\ state.monitor # Nil /\ client[state.monitor].st = "connecting" => state.monitorPending = state.monitor

\* A session that ended uses nothing; one that did not lets nothing leave.
EndOK ==
  /\ state.closed => state.work = Nil /\ state.monitor = Nil
  /\ state.leaving # Nil => state.closed

\* A call has a connection as soon as it waits for one, and none that is
\* open is older than the refresh before the call.
CallOK(r) ==
  /\ request[r].pc \notin {"idle", "refresh"} => request[r].client # Nil
  /\ request[r].seen <= epoch
  /\ request[r].pc \in {"connect", "lock", "work"} /\ Live(request[r].client) => client[request[r].client].born >= request[r].seen

CallsOK == \A r \in Requests : CallOK(r)

IInv == TypeOK /\ NothingLeft /\ LockedForSomeone /\ WorkOK /\ MonitorOK /\ EndOK /\ CallsOK

-------------------------------------------------------------------------------
(* There is always a connection to be made: fewer are referred to than     *)
(* there are.                                                              *)

LEMMA OneMore ==
  ASSUME NEW S, NEW x, NEW n \in Nat, IsFiniteSet(S), Cardinality(S) <= n
  PROVE  IsFiniteSet(S \union {x}) /\ Cardinality(S \union {x}) <= n + 1
<1>1. IsFiniteSet(S \union {x}) /\ Cardinality(S \union {x}) = IF x \in S THEN Cardinality(S) ELSE Cardinality(S) + 1
  BY FS_AddElement
<1>2. Cardinality(S) \in Nat
  BY FS_CardinalityType
<1> QED
  BY <1>1, <1>2

LEMMA FewReferenced == IsFiniteSet(Referenced) /\ Cardinality(Referenced) <= Cardinality(Requests) + 5
<1> DEFINE Of == {request[r].client : r \in Requests}
           f == [r \in Requests |-> request[r].client]
           n == Cardinality(Requests)
           A == Of \union {state.work}
           B == A \union {state.workPending}
           C == B \union {state.monitor}
           D == C \union {state.monitorPending}
           E == D \union {state.leaving}
<1>1. IsFiniteSet(Of) /\ Cardinality(Of) <= n
  <2>1. f \in Surjection(Requests, Of)
    BY DEF Surjection
  <2> HIDE DEF f, Of
  <2> QED
    BY <2>1, FS_Surjection, PoolAssumption
<1>2. /\ n \in Nat /\ n + 1 \in Nat /\ n + 2 \in Nat /\ n + 3 \in Nat /\ n + 4 \in Nat
      /\ (n + 1) + 1 = n + 2 /\ (n + 2) + 1 = n + 3 /\ (n + 3) + 1 = n + 4 /\ (n + 4) + 1 = n + 5
  BY FS_CardinalityType, PoolAssumption
<1>3. Referenced = E
  BY DEF Referenced
<1> HIDE DEF Of, n, A, B, C, D, E
<1>4. IsFiniteSet(A) /\ Cardinality(A) <= n + 1
  BY <1>1, <1>2, OneMore DEF A
<1>5. IsFiniteSet(B) /\ Cardinality(B) <= n + 2
  BY <1>4, <1>2, OneMore DEF B
<1>6. IsFiniteSet(C) /\ Cardinality(C) <= n + 3
  BY <1>5, <1>2, OneMore DEF C
<1>7. IsFiniteSet(D) /\ Cardinality(D) <= n + 4
  BY <1>6, <1>2, OneMore DEF D
<1>8. IsFiniteSet(E) /\ Cardinality(E) <= n + 5
  BY <1>7, <1>2, OneMore DEF E
<1> QED
  BY <1>2, <1>3, <1>8 DEF n

LEMMA UnusedFree == ASSUME IInv PROVE Unused \in Clients /\ Unused \notin Referenced /\ ~Live(Unused)
<1>1. ~(Clients \subseteq Referenced)
  <2>1. SUFFICES ASSUME Clients \subseteq Referenced PROVE FALSE
    OBVIOUS
  <2>2. Cardinality(Clients) <= Cardinality(Referenced)
    BY <2>1, FewReferenced, FS_Subset
  <2> QED
    BY <2>2, FewReferenced, FS_CardinalityType, PoolAssumption
<1>2. PICK c \in Clients : c \notin Referenced
  BY <1>1
<1>3. ~Live(c)
  BY <1>2 DEF IInv, NothingLeft, Referenced
<1> QED
  BY <1>2, <1>3 DEF Unused

-------------------------------------------------------------------------------
(* What closing and locking keep.                                          *)

LEMMA ClosedIs ==
  ASSUME NEW cl \in [Clients -> Links], NEW c \in ClientOrNil
  PROVE  /\ Closed(cl, c) \in [Clients -> Links]
         /\ \A d \in Clients : Closed(cl, c)[d] = IF d = c THEN [st |-> "closed", born |-> 0] ELSE cl[d]
BY PoolAssumption DEF Closed, Links, ClientOrNil

LEMMA FreshIs ==
  ASSUME TypeOK, NEW cl \in [Clients -> Links], NEW c \in Clients
  PROVE  /\ [cl EXCEPT ![c] = Fresh] \in [Clients -> Links]
         /\ \A d \in Clients : [cl EXCEPT ![c] = Fresh][d] = IF d = c THEN Fresh ELSE cl[d]
         /\ Fresh.st = "connecting" /\ Fresh.born = epoch
BY DEF Fresh, Links, TypeOK

\* A lock outlives every step that leaves its holder alone.
LEMMA LocksKept ==
  ASSUME TypeOK, LockedForSomeone, Locks, client' \in [Clients -> Links],
         \A r \in Requests : request[r].pc \in {"work", "leave"} => request'[r] = request[r]
  PROVE  lock' \in [Clients -> Requests \union {Nil}] /\ late' \in [Clients -> SUBSET Requests] /\ LockedForSomeone'
BY DEF Locks, LockedForSomeone, TypeOK

\* An open connection that a call may use was open and no younger before.
Kept(c) == client'[c].st # "closed" => client[c].st # "closed" /\ client'[c].born = client[c].born

LEMMA CallsKept ==
  ASSUME TypeOK, CallsOK, request' = request, epoch' = epoch, \A c \in Clients : c \in Referenced => Kept(c)
  PROVE  CallsOK'
<1> SUFFICES ASSUME NEW r \in Requests PROVE CallOK(r)'
  BY DEF CallsOK
<1>1. request[r].client \in Referenced /\ request[r] \in Calls
  BY DEF Referenced, TypeOK
<1>2. request[r].client # Nil => request[r].client \in Clients
  BY <1>1 DEF Calls, ClientOrNil
<1> QED
  BY <1>1, <1>2 DEF CallsOK, CallOK, Kept, Live, TypeOK

-------------------------------------------------------------------------------
(* The monitor.                                                            *)

LEMMA StartMonitorInv ==
  ASSUME IInv, NEW s \in States, StartMonitor(s), Locks, UNCHANGED <<request, epoch, faults>>, ~s.closed,
         \E l \in {0, 1}, t \in BOOLEAN : s = [state EXCEPT !.listeners = l, !.timer = t]
  PROVE  IInv'
<1>1. PICK l \in {0, 1}, t \in BOOLEAN : s = [state EXCEPT !.listeners = l, !.timer = t]
  OBVIOUS
<1>2. /\ s.closed = state.closed /\ s.work = state.work /\ s.workPending = state.workPending
      /\ s.workRefresh = state.workRefresh /\ s.monitor = state.monitor /\ s.monitorPending = state.monitorPending
      /\ s.opening = state.opening /\ s.leaving = state.leaving
  BY <1>1 DEF IInv, TypeOK, States
<1>3. CASE ~MayStart(s)
  <2>1. state' = s /\ client' = client
    BY <1>3 DEF StartMonitor
  <2>2. TypeOK' /\ LockedForSomeone'
    BY <2>1, LocksKept DEF IInv, TypeOK
  <2>3. CallsOK'
    BY <2>1, CallsKept DEF IInv, Kept
  <2> QED
    BY <1>2, <2>1, <2>2, <2>3 DEF IInv, NothingLeft, WorkOK, MonitorOK, EndOK, Live, Own
<1>4. CASE MayStart(s)
  <2> DEFINE u == Unused
  <2>1. u \in Clients /\ u \notin Referenced /\ ~Live(u) /\ u # Nil
    BY UnusedFree, PoolAssumption
  <2>2. state' = [s EXCEPT !.monitor = u, !.monitorPending = u, !.opening = FALSE] /\ client' = [client EXCEPT ![u] = Fresh]
    BY <1>4 DEF StartMonitor
  <2>3. /\ state' \in States /\ state'.monitor = u /\ state'.monitorPending = u /\ state'.opening = FALSE
        /\ state'.closed = state.closed /\ state'.work = state.work /\ state'.workPending = state.workPending
        /\ state'.workRefresh = state.workRefresh /\ state'.leaving = state.leaving
    BY <1>2, <2>1, <2>2 DEF States, ClientOrNil
  <2>4. /\ client' \in [Clients -> Links]
        /\ \A d \in Clients : d # u => client'[d] = client[d]
        /\ client'[u].st = "connecting"
    BY <2>1, <2>2, FreshIs DEF IInv, TypeOK
  <2> HIDE DEF u
  <2>5. TypeOK' /\ LockedForSomeone'
    BY <2>3, <2>4, LocksKept DEF IInv, TypeOK
  <2>6. CallsOK'
    BY <2>1, <2>4, CallsKept DEF IInv, Kept
  <2>7. NothingLeft'
    <3>1. state.monitor # Nil => ~Live(state.monitor)
      BY <1>2, <1>4 DEF IInv, TypeOK, States, Links, ClientOrNil, MonitorOK, MayStart, Usable, Live
    <3>2. state.monitorPending = Nil
      BY <1>2, <1>4 DEF MayStart
    <3>3. SUFFICES ASSUME NEW c \in Clients, Live(c), c # u, Nil \notin Clients
                   PROVE  \/ c \in {state'.work, state'.monitor, state'.leaving}
                          \/ \E r \in Requests : Own(r)' /\ request'[r].client = c /\ ~state'.closed
                          \/ (~state'.closed /\ c \in {state'.workPending, state'.monitorPending})
      BY <2>3, <2>4, PoolAssumption DEF NothingLeft, Live
    <3>4. c # state.monitor /\ c # state.monitorPending
      BY <3>1, <3>2, <3>3
    <3> QED
      BY <2>3, <3>3, <3>4 DEF IInv, NothingLeft, Own
  <2>8. WorkOK'
    BY <2>1, <2>3, <2>4 DEF IInv, WorkOK, Live, Referenced, TypeOK, States, ClientOrNil
  <2>9. MonitorOK' /\ EndOK'
    BY <1>2, <2>1, <2>3, <2>4 DEF IInv, MonitorOK, EndOK, Live
  <2> QED
    BY <2>5, <2>6, <2>7, <2>8, <2>9 DEF IInv
<1> QED
  BY <1>3, <1>4

LEMMA WatchInv == ASSUME IInv, Watch \/ TimerFires PROVE IInv'
<1>1. CASE Watch
  <2>1. [state EXCEPT !.listeners = 1] = [state EXCEPT !.listeners = 1, !.timer = state.timer]
    BY DEF IInv, TypeOK, States
  <2>2. [state EXCEPT !.listeners = 1] \in States /\ ~[state EXCEPT !.listeners = 1].closed /\ state.timer \in BOOLEAN
    BY <1>1 DEF Watch, IInv, TypeOK, States
  <2> QED
    BY <1>1, <2>1, <2>2, StartMonitorInv DEF Watch
<1>2. CASE TimerFires
  <2> DEFINE s == [state EXCEPT !.timer = FALSE]
  <2>1. s = [state EXCEPT !.listeners = state.listeners, !.timer = FALSE]
    BY DEF IInv, TypeOK, States
  <2>2. s \in States /\ state.listeners \in {0, 1} /\ s.closed = state.closed
    BY DEF IInv, TypeOK, States
  <2>3. CASE ~state.closed
    BY <1>2, <2>1, <2>2, <2>3, StartMonitorInv DEF TimerFires
  <2>4. CASE state.closed
    <3>1. state' = s /\ client' = client /\ Locks /\ UNCHANGED <<request, epoch, faults>>
      BY <1>2, <2>2, <2>4 DEF TimerFires, StartMonitor, MayStart
    <3>2. TypeOK' /\ LockedForSomeone' /\ CallsOK'
      BY <2>2, <3>1, LocksKept, CallsKept DEF IInv, TypeOK, Kept
    <3> QED
      BY <3>1, <3>2 DEF IInv, TypeOK, States, NothingLeft, WorkOK, MonitorOK, EndOK, Live, Own
  <2> QED
    BY <2>3, <2>4
<1> QED
  BY <1>1, <1>2

LEMMA MonitorEndsIs ==
  ASSUME NEW s \in States, NEW cl
  PROVE  /\ MonitorEnds(s, cl) \in States /\ MonitorEnds(s, cl).monitorPending = Nil
         /\ MonitorEnds(s, cl).monitor = s.monitor /\ MonitorEnds(s, cl).opening = s.opening
         /\ MonitorEnds(s, cl).closed = s.closed /\ MonitorEnds(s, cl).work = s.work
         /\ MonitorEnds(s, cl).workPending = s.workPending /\ MonitorEnds(s, cl).workRefresh = s.workRefresh
         /\ MonitorEnds(s, cl).leaving = s.leaving
BY DEF MonitorEnds, ScheduleMonitor, States, ClientOrNil

\* The monitor is given up with its connection: by its last listener, by a failed attempt, or
\* because it broke.
LEMMA DroppedInv ==
  ASSUME IInv, Locks, UNCHANGED <<request, epoch>>, faults' \in Nat,
         state' \in States, state'.monitor = Nil, state'.monitorPending \in {state.monitorPending, Nil},
         state'.opening = state.opening, state'.closed = state.closed, state'.work = state.work,
         state'.workPending = state.workPending, state'.workRefresh = state.workRefresh, state'.leaving = state.leaving,
         client' \in [Clients -> Links],
         \A d \in Clients : client'[d] = IF d = state.monitor \/ (d = state.monitorPending /\ state'.monitorPending = Nil)
                                         THEN [st |-> "closed", born |-> 0] ELSE client[d]
  PROVE  IInv'
<1>0. /\ Nil \notin Clients /\ state \in States
      /\ \A d \in Clients : d = state.monitor => client'[d].st = "closed"
      /\ \A d \in Clients : client'[d] = client[d] \/ client'[d].st = "closed"
  BY PoolAssumption DEF IInv, TypeOK
<1>1. TypeOK' /\ LockedForSomeone' /\ CallsOK'
  BY <1>0, LocksKept, CallsKept DEF IInv, TypeOK, Kept
<1>2. NothingLeft'
  <2> SUFFICES ASSUME NEW c \in Clients, client'[c].st # "closed"
               PROVE  \/ c \in {state'.work, state'.leaving}
                      \/ \E r \in Requests : Own(r)' /\ request'[r].client = c /\ ~state'.closed
                      \/ (~state'.closed /\ c \in {state'.workPending, state'.monitorPending})
    BY DEF NothingLeft, Live
  <2>1. client'[c] = client[c] /\ Live(c) /\ c # state.monitor
    BY <1>0 DEF Live
  <2>2. c = state.monitorPending => state'.monitorPending = state.monitorPending
    BY <1>0
  <2> QED
    BY <2>1, <2>2, <1>0 DEF IInv, NothingLeft, Own
<1>3. WorkOK'
  BY <1>0 DEF IInv, WorkOK, Live, TypeOK, States, ClientOrNil
<1>4. MonitorOK'
  BY <1>0 DEF IInv, MonitorOK, Live, TypeOK, States, ClientOrNil
<1>5. EndOK'
  BY DEF IInv, EndOK
<1> QED
  BY <1>1, <1>2, <1>3, <1>4, <1>5 DEF IInv

LEMMA MonitorDropped == ASSUME IInv, Unwatch \/ MonitorFails \/ MonitorBreaks PROVE IInv'
<1>0. state \in States /\ state.monitor \in ClientOrNil /\ state.monitorPending \in ClientOrNil /\ client \in [Clients -> Links] /\ Nil \notin Clients
      /\ faults \in Nat
  BY PoolAssumption DEF IInv, TypeOK, States
<1>1. CASE Unwatch
  <2>1. /\ state' \in States /\ state'.monitor = Nil /\ state'.monitorPending = state.monitorPending
        /\ state'.opening = state.opening /\ state'.closed = state.closed /\ state'.work = state.work
        /\ state'.workPending = state.workPending /\ state'.workRefresh = state.workRefresh /\ state'.leaving = state.leaving
    BY <1>0, <1>1 DEF Unwatch, States, ClientOrNil
  <2>2. /\ client' \in [Clients -> Links]
        /\ \A d \in Clients : client'[d] = IF d = state.monitor THEN [st |-> "closed", born |-> 0] ELSE client[d]
    BY <1>0, <1>1, ClosedIs DEF Unwatch
  <2> QED
    BY <1>0, <1>1, <2>1, <2>2, DroppedInv DEF Unwatch
<1>2. CASE MonitorFails
  <2> DEFINE s == [state EXCEPT !.monitor = Nil]
             cl == Closed(client, state.monitorPending)
  <2>1. s \in States /\ s.monitor = Nil /\ s.opening = state.opening /\ s.closed = state.closed /\ s.work = state.work
        /\ s.workPending = state.workPending /\ s.workRefresh = state.workRefresh /\ s.leaving = state.leaving
    BY <1>0 DEF States, ClientOrNil
  <2>2. state' = MonitorEnds(s, client') /\ client' = Closed(cl, state.monitor) /\ Locks
        /\ UNCHANGED <<request, epoch>> /\ faults' \in Nat
    BY <1>0, <1>2 DEF MonitorFails
  <2>3. cl \in [Clients -> Links] /\ \A d \in Clients : cl[d] = IF d = state.monitorPending THEN [st |-> "closed", born |-> 0] ELSE client[d]
    BY <1>0, ClosedIs
  <2> HIDE DEF s, cl
  <2>4. /\ client' \in [Clients -> Links]
        /\ \A d \in Clients : client'[d] = IF d = state.monitor THEN [st |-> "closed", born |-> 0] ELSE cl[d]
    BY <1>0, <2>2, <2>3, ClosedIs
  <2>5. /\ state' \in States /\ state'.monitor = Nil /\ state'.monitorPending = Nil
        /\ state'.opening = state.opening /\ state'.closed = state.closed /\ state'.work = state.work
        /\ state'.workPending = state.workPending /\ state'.workRefresh = state.workRefresh /\ state'.leaving = state.leaving
    BY <2>1, <2>2, MonitorEndsIs
  <2> QED
    BY <2>2, <2>3, <2>4, <2>5, DroppedInv
<1>3. CASE MonitorBreaks
  <2>1. /\ state' \in States /\ state'.monitor = Nil /\ state'.monitorPending = state.monitorPending
        /\ state'.opening = state.opening /\ state'.closed = state.closed /\ state'.work = state.work
        /\ state'.workPending = state.workPending /\ state'.workRefresh = state.workRefresh /\ state'.leaving = state.leaving
        /\ state.monitorPending = Nil
    BY <1>0, <1>3 DEF MonitorBreaks, ScheduleMonitor, States, ClientOrNil
  <2>2. /\ client' \in [Clients -> Links]
        /\ \A d \in Clients : client'[d] = IF d = state.monitor THEN [st |-> "closed", born |-> 0] ELSE client[d]
    BY <1>0, <1>3, ClosedIs DEF MonitorBreaks
  <2>3. faults' \in Nat /\ Locks /\ UNCHANGED <<request, epoch>>
    BY <1>0, <1>3 DEF MonitorBreaks
  <2> QED
    BY <1>0, <2>1, <2>2, <2>3, DroppedInv
<1> QED
  BY <1>1, <1>2, <1>3

LEMMA MonitorAttempt == ASSUME IInv, MonitorConnected \/ MonitorOpened PROVE IInv'
<1> DEFINE p == state.monitorPending
<1>0. /\ p \in Clients /\ p # Nil /\ Nil \notin Clients /\ state \in States /\ client \in [Clients -> Links]
      /\ Locks /\ UNCHANGED <<request, epoch, faults>>
  BY PoolAssumption DEF MonitorConnected, MonitorOpened, IInv, TypeOK, States, ClientOrNil
<1> HIDE DEF p
<1>1. CASE client' = Closed(client, p) /\ state' = MonitorEnds(state, client')
  <2>1. /\ client' \in [Clients -> Links]
        /\ \A d \in Clients : client'[d] = IF d = p THEN [st |-> "closed", born |-> 0] ELSE client[d]
    BY <1>0, <1>1, ClosedIs DEF ClientOrNil
  <2>2. /\ state' \in States /\ state'.monitor = state.monitor /\ state'.monitorPending = Nil
        /\ state'.opening = state.opening /\ state'.closed = state.closed /\ state'.work = state.work
        /\ state'.workPending = state.workPending /\ state'.workRefresh = state.workRefresh /\ state'.leaving = state.leaving
    BY <1>0, <1>1, MonitorEndsIs
  <2>3. TypeOK' /\ LockedForSomeone' /\ CallsOK'
    BY <1>0, <2>1, <2>2, LocksKept, CallsKept DEF IInv, TypeOK, Kept
  <2>4. NothingLeft'
    BY <1>0, <2>1, <2>2 DEF IInv, NothingLeft, Live, Own, p
  <2>5. WorkOK'
    BY <1>0, <2>1, <2>2 DEF IInv, WorkOK, Live, States, ClientOrNil
  <2>6. MonitorOK' /\ EndOK'
    BY <1>0, <2>1, <2>2 DEF IInv, MonitorOK, EndOK, p, States, ClientOrNil
  <2> QED
    BY <2>3, <2>4, <2>5, <2>6 DEF IInv
<1>2. CASE MonitorConnected /\ ~Unwanted(state)
  <2>1. client[p].st = "connecting" /\ client' = [client EXCEPT ![p].st = "up"] /\ state' = [state EXCEPT !.opening = TRUE]
    BY <1>2 DEF MonitorConnected, p
  <2>2. /\ client' \in [Clients -> Links] /\ client'[p].st = "up" /\ client'[p].born = client[p].born
        /\ \A d \in Clients : d # p => client'[d] = client[d]
    BY <1>0, <2>1 DEF Links
  <2>3. /\ state' \in States /\ state'.monitor = state.monitor /\ state'.monitorPending = p
        /\ state'.opening = TRUE /\ state'.closed = state.closed /\ state'.work = state.work
        /\ state'.workPending = state.workPending /\ state'.workRefresh = state.workRefresh /\ state'.leaving = state.leaving
    BY <1>0, <2>1 DEF States, p
  <2>4. TypeOK' /\ LockedForSomeone' /\ CallsOK'
    BY <1>0, <2>1, <2>2, <2>3, LocksKept, CallsKept DEF IInv, TypeOK, Kept
  <2>5. NothingLeft'
    BY <1>0, <2>1, <2>2, <2>3 DEF IInv, NothingLeft, Live, Own, p
  <2>6. WorkOK'
    BY <1>0, <2>1, <2>2, <2>3 DEF IInv, WorkOK, Live, States, ClientOrNil
  <2>7. MonitorOK' /\ EndOK'
    BY <1>0, <2>1, <2>2, <2>3 DEF IInv, MonitorOK, EndOK, p, Live, States, ClientOrNil
  <2> QED
    BY <2>4, <2>5, <2>6, <2>7 DEF IInv
<1>3. CASE MonitorOpened /\ ~Unwanted(state)
  <2>1. client' = client /\ state' = MonitorEnds(state, client') /\ state.opening /\ state.monitor = p
    BY <1>3 DEF MonitorOpened, Unwanted, p
  <2>2. /\ state' \in States /\ state'.monitor = state.monitor /\ state'.monitorPending = Nil
        /\ state'.opening = state.opening /\ state'.closed = state.closed /\ state'.work = state.work
        /\ state'.workPending = state.workPending /\ state'.workRefresh = state.workRefresh /\ state'.leaving = state.leaving
    BY <1>0, <2>1, MonitorEndsIs
  <2>3. TypeOK' /\ LockedForSomeone' /\ CallsOK'
    BY <1>0, <2>1, <2>2, LocksKept, CallsKept DEF IInv, TypeOK, Kept
  <2> QED
    BY <1>0, <2>1, <2>2, <2>3 DEF IInv, NothingLeft, WorkOK, MonitorOK, EndOK, Live, Own, p
<1> QED
  BY <1>1, <1>2, <1>3 DEF MonitorConnected, MonitorOpened, p

-------------------------------------------------------------------------------
(* The work connection.                                                    *)

\* A call that begins joins a connection made since the last refresh.
LEMMA BeginInv ==
  ASSUME IInv, NEW r \in Requests, NEW seen \in Nat, seen <= epoch, request[r].pc \in {"idle", "refresh"},
         ~state.closed, ~state.workRefresh, Begin(r, seen), Locks, UNCHANGED <<epoch, faults>>
  PROVE  IInv'
<1> DEFINE s == [state EXCEPT !.workActive = @ + 1]
<1>0. /\ state \in States /\ client \in [Clients -> Links] /\ request \in [Requests -> Calls] /\ epoch \in Nat
      /\ Nil \notin Clients /\ state.work \in ClientOrNil /\ state.workPending \in ClientOrNil
  BY PoolAssumption DEF IInv, TypeOK, States
<1>1. /\ s \in States /\ s.closed = state.closed /\ s.work = state.work /\ s.workPending = state.workPending
      /\ s.workRefresh = state.workRefresh /\ s.monitor = state.monitor /\ s.monitorPending = state.monitorPending
      /\ s.opening = state.opening /\ s.leaving = state.leaving
  BY <1>0 DEF States
<1>2. ASSUME NEW c \in Clients, NEW pc \in {"lock", "connect"}, request' = [request EXCEPT ![r] = [pc |-> pc, client |-> c, seen |-> seen]],
             state' = s, client' = client, Live(c) => client[c].born = epoch
      PROVE  IInv'
  <2>1. /\ request' \in [Requests -> Calls] /\ request'[r].client = c /\ request'[r].seen = seen /\ request'[r].pc = pc
        /\ \A q \in Requests : q # r => request'[q] = request[q]
    BY <1>0, <1>2 DEF Calls, ClientOrNil
  <2> HIDE DEF s
  <2>2. TypeOK' /\ LockedForSomeone'
    BY <1>0, <1>1, <1>2, <2>1, LocksKept DEF IInv, TypeOK
  <2>3. CallsOK'
    BY <1>0, <1>2, <2>1 DEF IInv, CallsOK, CallOK, Live, Calls
  <2>4. NothingLeft'
    BY <1>1, <1>2, <2>1 DEF IInv, NothingLeft, Live, Own
  <2> QED
    BY <1>1, <1>2, <2>2, <2>3, <2>4 DEF IInv, WorkOK, MonitorOK, EndOK, Live
<1>3. CASE Usable(state.work)
  BY <1>0, <1>2, <1>3 DEF Begin, Usable, IInv, WorkOK, Live, ClientOrNil
<1>4. CASE ~Usable(state.work) /\ state.workPending # Nil
  BY <1>0, <1>2, <1>4 DEF Begin, IInv, WorkOK, Live, ClientOrNil
<1>5. CASE ~Usable(state.work) /\ state.workPending = Nil
  <2> DEFINE u == Unused
             cl == Closed(client, state.work)
  <2>1. u \in Clients /\ u \notin Referenced /\ ~Live(u) /\ u # Nil
    BY UnusedFree, PoolAssumption
  <2>2. /\ request' = [request EXCEPT ![r] = [pc |-> "connect", client |-> u, seen |-> seen]]
        /\ state' = [s EXCEPT !.work = u, !.workPending = u] /\ client' = [cl EXCEPT ![u] = Fresh]
    BY <1>5 DEF Begin
  <2>3. cl \in [Clients -> Links] /\ \A d \in Clients : cl[d] = IF d = state.work THEN [st |-> "closed", born |-> 0] ELSE client[d]
    BY <1>0, ClosedIs
  <2> HIDE DEF u, cl
  <2>4. /\ client' \in [Clients -> Links] /\ client'[u].st = "connecting" /\ client'[u].born = epoch
        /\ \A d \in Clients : d # u => client'[d] = IF d = state.work THEN [st |-> "closed", born |-> 0] ELSE client[d]
    BY <2>1, <2>2, <2>3, FreshIs DEF IInv
  <2>5. /\ state' \in States /\ state'.closed = state.closed /\ state'.work = u /\ state'.workPending = u
        /\ state'.workRefresh = state.workRefresh /\ state'.monitor = state.monitor
        /\ state'.monitorPending = state.monitorPending /\ state'.opening = state.opening /\ state'.leaving = state.leaving
    BY <1>1, <2>1, <2>2 DEF States, ClientOrNil
  <2>6. /\ request' \in [Requests -> Calls] /\ request'[r].client = u /\ request'[r].seen = seen /\ request'[r].pc = "connect"
        /\ \A q \in Requests : q # r => request'[q] = request[q]
    BY <1>0, <2>1, <2>2 DEF Calls, ClientOrNil
  <2> HIDE DEF s
  <2>7. TypeOK' /\ LockedForSomeone'
    BY <1>0, <2>4, <2>5, <2>6, LocksKept DEF IInv, TypeOK
  <2>8. CallsOK'
    <3> SUFFICES ASSUME NEW q \in Requests PROVE CallOK(q)'
      BY DEF CallsOK
    <3>1. CASE q = r
      BY <1>0, <2>1, <2>4, <2>6, <3>1 DEF CallOK
    <3>2. CASE q # r
      <4>1. request'[q] = request[q] /\ request[q].client \in ClientOrNil /\ request[q].client # u
        BY <1>0, <2>1, <2>6, <3>2 DEF Calls, Referenced
      <4> QED
        BY <1>0, <2>4, <4>1 DEF IInv, CallsOK, CallOK, Live, ClientOrNil
    <3> QED
      BY <3>1, <3>2
  <2>9. NothingLeft'
    BY <1>0, <1>5, <2>1, <2>4, <2>5, <2>6 DEF IInv, NothingLeft, Live, Own
  <2>10. WorkOK' /\ EndOK'
    BY <2>1, <2>4, <2>5 DEF IInv, WorkOK, EndOK
  <2>11. MonitorOK'
    <3>1. \A d \in Clients : d # u => client'[d] = client[d] \/ client'[d].st = "closed"
      BY <2>4
    <3>2. state.monitor # u /\ state.monitorPending # u
      BY <2>1 DEF Referenced
    <3> QED
      BY <1>0, <2>5, <3>1, <3>2 DEF IInv, MonitorOK, Live, States, ClientOrNil
  <2> QED
    BY <2>7, <2>8, <2>9, <2>10, <2>11 DEF IInv
<1> QED
  BY <1>3, <1>4, <1>5

\* A call moves on and nothing else but locks changes.
LEMMA MovesInv ==
  ASSUME IInv, NEW r \in Requests, UNCHANGED <<client, state, epoch, faults>>, request' \in [Requests -> Calls],
         \A q \in Requests : q # r => request'[q] = request[q],
         ~Own(r), ~Own(r)', CallOK(r)', LockedForSomeone',
         lock' \in [Clients -> Requests \union {Nil}], late' \in [Clients -> SUBSET Requests]
  PROVE  IInv'
<1>1. TypeOK' /\ CallsOK'
  <2>1. \A q \in Requests : q # r => CallOK(q)'
    BY DEF IInv, CallsOK, CallOK, Live
  <2> QED
    BY <2>1 DEF IInv, TypeOK, CallsOK
<1>2. NothingLeft'
  BY DEF IInv, NothingLeft, Live, Own
<1> QED
  BY <1>1, <1>2 DEF IInv, WorkOK, MonitorOK, EndOK, Live

LEMMA EnterInv == ASSUME IInv, NEW r \in Requests, Enter(r) \/ Wake(r) PROVE IInv'
<1>0. /\ request \in [Requests -> Calls] /\ epoch \in Nat /\ request[r].seen \in Nat /\ request[r].seen <= epoch
      /\ client \in [Clients -> Links] /\ Idle \in Calls /\ request[r].pc \in {"idle", "refresh"}
      /\ Locks /\ UNCHANGED <<epoch, faults>>
  BY DEF IInv, TypeOK, CallsOK, CallOK, Calls, Idle, ClientOrNil, Enter, Wake
<1>1. ASSUME NEW x \in Calls, x.pc \in {"idle", "refresh"}, x.seen <= epoch, UNCHANGED <<state, client>>,
             request' = [request EXCEPT ![r] = x]
      PROVE  IInv'
  <2>1. request' \in [Requests -> Calls] /\ request'[r] = x /\ \A q \in Requests : q # r => request'[q] = request[q]
    BY <1>0, <1>1
  <2>2. ~Own(r) /\ ~Own(r)' /\ CallOK(r)'
    BY <1>0, <1>1, <2>1 DEF Own, CallOK
  <2>3. LockedForSomeone' /\ lock' \in [Clients -> Requests \union {Nil}] /\ late' \in [Clients -> SUBSET Requests]
    BY <1>0, <1>1, <2>1, LocksKept DEF IInv
  <2> QED
    BY <1>0, <1>1, <2>1, <2>2, <2>3, MovesInv
<1>2. CASE Enter(r)
  <2>1. CASE MustWait(state)
    <3>1. [pc |-> "refresh", client |-> Nil, seen |-> epoch] \in Calls
      BY <1>0 DEF Calls, ClientOrNil
    <3> QED
      BY <1>0, <1>1, <1>2, <2>1, <3>1 DEF Enter
  <2>2. CASE ~MustWait(state)
    BY <1>0, <1>2, <2>2, BeginInv DEF Enter, MustWait
  <2> QED
    BY <2>1, <2>2
<1>3. CASE Wake(r)
  <2>1. CASE state.closed
    BY <1>0, <1>1, <1>3, <2>1 DEF Wake, Idle
  <2>2. CASE ~state.closed
    BY <1>0, <1>3, <2>2, BeginInv DEF Wake, MustWait
  <2> QED
    BY <2>1, <2>2
<1> QED
  BY <1>2, <1>3

LEMMA LockInv == ASSUME IInv, NEW r \in Requests, Lock(r) \/ Done(r) \/ GiveUp(r) PROVE IInv'
<1>0. /\ request \in [Requests -> Calls] /\ epoch \in Nat /\ client \in [Clients -> Links] /\ Nil \notin Requests
      /\ lock \in [Clients -> Requests \union {Nil}] /\ late \in [Clients -> SUBSET Requests] /\ CallOK(r)
      /\ UNCHANGED <<client, state, epoch, faults>> /\ Nil \notin Clients
  BY PoolAssumption DEF IInv, TypeOK, CallsOK, Lock, Done, GiveUp
<1>1. ASSUME NEW pc \in {"work", "leave"}, request' = [request EXCEPT ![r].pc = pc], pc = "leave" \/ request[r].pc = "lock",
             request[r].pc \in {"lock", "work", "connect"},
             lock' = lock \/ (pc = "work" /\ lock' = [lock EXCEPT ![request[r].client] = r]),
             late' \in [Clients -> SUBSET Requests]
      PROVE  IInv'
  <2>1. /\ request' \in [Requests -> Calls] /\ request'[r].pc = pc /\ request'[r].client = request[r].client
        /\ request'[r].seen = request[r].seen /\ \A q \in Requests : q # r => request'[q] = request[q]
    BY <1>0, <1>1 DEF Calls
  <2>2. ~Own(r) /\ ~Own(r)' /\ CallOK(r)'
    BY <1>0, <1>1, <2>1 DEF Own, CallOK, Live
  <2>3. lock' \in [Clients -> Requests \union {Nil}] /\ LockedForSomeone'
    BY <1>0, <1>1, <2>1 DEF IInv, LockedForSomeone
  <2> QED
    BY <1>0, <1>1, <2>1, <2>2, <2>3, MovesInv
<1>2. CASE Lock(r)
  BY <1>0, <1>1, <1>2 DEF Lock
<1>3. CASE Done(r)
  BY <1>0, <1>1, <1>3 DEF Done
<1>4. CASE GiveUp(r)
  <2>1. late' \in [Clients -> SUBSET Requests]
    BY <1>0, <1>4 DEF GiveUp
  <2>2. CASE request[r].pc = "refresh"
    <3>1. request' = [request EXCEPT ![r] = Idle] /\ Idle \in Calls /\ lock' = lock
      BY <1>4, <2>2 DEF GiveUp, Idle, Calls, ClientOrNil
    <3>2. request' \in [Requests -> Calls] /\ request'[r] = Idle /\ \A q \in Requests : q # r => request'[q] = request[q]
      BY <1>0, <3>1
    <3>3. ~Own(r) /\ ~Own(r)' /\ CallOK(r)'
      BY <1>0, <2>2, <3>2 DEF Own, CallOK, Idle
    <3>4. LockedForSomeone'
      BY <1>0, <2>2, <3>1, <3>2 DEF IInv, LockedForSomeone
    <3> QED
      BY <1>0, <2>1, <3>1, <3>2, <3>3, <3>4, MovesInv
  <2>3. CASE request[r].pc # "refresh"
    <3>1. request' = [request EXCEPT ![r].pc = "leave"] /\ lock' = lock /\ request[r].pc \in {"connect", "lock"}
      BY <1>4, <2>3 DEF GiveUp
    <3> QED
      BY <1>1, <2>1, <3>1
  <2> QED
    BY <2>2, <2>3
<1> QED
  BY <1>2, <1>3, <1>4

LEMMA LockTooLateInv == ASSUME IInv, NEW c \in Clients, LockTooLate(c) PROVE IInv'
<1>1. /\ lock' \in [Clients -> Requests \union {Nil}] /\ late' \in [Clients -> SUBSET Requests] /\ LockedForSomeone'
      /\ UNCHANGED <<client, state, request, epoch, faults>>
  BY DEF LockTooLate, Cancelled, IInv, TypeOK, LockedForSomeone
<1> QED
  BY <1>1 DEF IInv, TypeOK, NothingLeft, WorkOK, MonitorOK, EndOK, CallsOK, CallOK, Live, Own

LEMMA AttemptInv == ASSUME IInv, Connected \/ ConnectFails PROVE IInv'
<1> DEFINE p == state.workPending
<1>0. /\ p \in Clients /\ p # Nil /\ Nil \notin Clients /\ state \in States /\ client \in [Clients -> Links]
      /\ request \in [Requests -> Calls] /\ epoch \in Nat /\ Locks /\ epoch' = epoch /\ faults' \in Nat
      /\ state' = [state EXCEPT !.workPending = Nil]
  BY PoolAssumption DEF Connected, ConnectFails, IInv, TypeOK, States, ClientOrNil
<1>1. PICK pc \in {"leave", "lock"} : request' = Waiters(p, pc)
  BY DEF Connected, ConnectFails
<1>2. /\ client' \in [Clients -> Links] /\ \A d \in Clients : d # p => client'[d] = client[d]
      /\ \/ client'[p].st = "closed"
         \/ client'[p].st = "up" /\ client'[p].born = client[p].born /\ Live(p) /\ ~state.closed
  <2>1. CASE client' = Closed(client, p)
    BY <1>0, <2>1, ClosedIs DEF ClientOrNil
  <2>2. CASE Connected /\ client' = [client EXCEPT ![p].st = "up"] /\ ~state.closed
    BY <1>0, <2>2 DEF Connected, Live, Links, p
  <2> QED
    BY <2>1, <2>2 DEF Connected, ConnectFails, p
<1>3. /\ state' \in States /\ state'.closed = state.closed /\ state'.work = state.work /\ state'.workPending = Nil
      /\ state'.workRefresh = state.workRefresh /\ state'.monitor = state.monitor
      /\ state'.monitorPending = state.monitorPending /\ state'.opening = state.opening /\ state'.leaving = state.leaving
  BY <1>0 DEF States, ClientOrNil
<1>4. /\ request' \in [Requests -> Calls]
      /\ \A q \in Requests : request'[q].client = request[q].client /\ request'[q].seen = request[q].seen
      /\ \A q \in Requests : request'[q] = request[q] \/ (request[q].pc = "connect" /\ request'[q].pc = pc)
  BY <1>0, <1>1 DEF Waiters, Calls
<1>5. TypeOK' /\ LockedForSomeone'
  BY <1>0, <1>2, <1>3, <1>4, LocksKept DEF IInv, TypeOK
<1>6. CallsOK'
  <2> SUFFICES ASSUME NEW q \in Requests PROVE CallOK(q)'
    BY DEF CallsOK
  <2>1. /\ request[q].client \in ClientOrNil /\ CallOK(q)
        /\ request'[q].pc = request[q].pc \/ (request[q].pc = "connect" /\ request'[q].pc \in {"leave", "lock"})
    BY <1>0, <1>4 DEF IInv, CallsOK, Calls
  <2>2. request[q].client # Nil => request[q].client \in Clients
    BY <2>1 DEF ClientOrNil
  <2>3. request[q].client # Nil /\ client'[request[q].client].st # "closed" => Live(request[q].client) /\ client'[request[q].client].born = client[request[q].client].born
    BY <1>2, <2>2 DEF Live
  <2> QED
    BY <1>0, <1>4, <2>1, <2>3 DEF CallOK, Live
<1>7. NothingLeft'
  <2> SUFFICES ASSUME NEW c \in Clients, Live(c)'
               PROVE  \/ c \in {state'.work, state'.monitor, state'.leaving}
                      \/ \E r \in Requests : Own(r)' /\ request'[r].client = c /\ ~state'.closed
                      \/ (~state'.closed /\ c \in {state'.workPending, state'.monitorPending})
    BY DEF NothingLeft
  <2>1. Live(c) /\ (c = p => ~state.closed)
    BY <1>2 DEF Live
  <2>2. c = p => c = state.work
    BY <1>0, <2>1 DEF IInv, WorkOK, p
  <2>3. \A r \in Requests : Own(r) => Own(r)'
    BY <1>4 DEF Own
  <2> QED
    BY <1>3, <1>4, <2>1, <2>2, <2>3 DEF IInv, NothingLeft, p
<1>8. WorkOK'
  BY <1>0, <1>2, <1>3 DEF IInv, WorkOK, Live, States, ClientOrNil
<1>9. MonitorOK' /\ EndOK'
  <2>1. \A d \in Clients : client'[d].st = "connecting" => client[d].st = "connecting"
    BY <1>2
  <2>2. \A d \in Clients : Live(d)' => Live(d)
    BY <1>2 DEF Live
  <2> QED
    BY <1>0, <1>3, <2>1, <2>2 DEF IInv, MonitorOK, EndOK, States, ClientOrNil
<1> QED
  BY <1>5, <1>6, <1>7, <1>8, <1>9 DEF IInv

\* Connections close, with the parts of the state that named them.
LEMMA ClosingInv ==
  ASSUME IInv, NEW cs \in SUBSET Clients, client' \in [Clients -> Links],
         \A d \in Clients : client'[d] = IF d \in cs THEN [st |-> "closed", born |-> 0] ELSE client[d],
         lock' \in [Clients -> Requests \union {Nil}], late' \in [Clients -> SUBSET Requests], LockedForSomeone',
         state' \in States, request' \in [Requests -> Calls], epoch' \in Nat, epoch' >= epoch, faults' \in Nat,
         state'.monitorPending = state.monitorPending, state'.opening = state.opening, state'.workPending = state.workPending,
         state'.monitor \in {state.monitor, Nil}, state'.monitor # state.monitor => state.monitor \in cs \union {Nil},
         \A r \in Requests : \/ request'[r] = request[r]
                             \/ request'[r] = Idle /\ (Own(r) => request[r].client \in cs),
         NothingLeft', WorkOK', EndOK'
  PROVE  IInv'
<1>0. Nil \notin Clients /\ state \in States /\ client \in [Clients -> Links] /\ request \in [Requests -> Calls] /\ epoch \in Nat
  BY PoolAssumption DEF IInv, TypeOK
<1>1. TypeOK'
  BY DEF TypeOK
<1>2. \A d \in Clients : Live(d)' => Live(d) /\ client'[d] = client[d]
  BY DEF Live
<1>3. CallsOK'
  <2> SUFFICES ASSUME NEW q \in Requests PROVE CallOK(q)'
    BY DEF CallsOK
  <2>1. request[q].client \in ClientOrNil /\ CallOK(q) /\ request[q].seen \in Nat
    BY <1>0 DEF IInv, CallsOK, Calls
  <2>2. CASE request'[q] = Idle
    BY <2>2 DEF Idle, CallOK
  <2>3. CASE request'[q] = request[q]
    BY <1>0, <1>2, <2>1, <2>3 DEF CallOK, Live, ClientOrNil
  <2> QED
    BY <2>2, <2>3
<1>4. MonitorOK'
  BY <1>0, <1>2 DEF IInv, MonitorOK, Live, States, ClientOrNil
<1> QED
  BY <1>1, <1>3, <1>4 DEF IInv

LEMMA BreaksInv == ASSUME IInv, Breaks PROVE IInv'
<1>0. /\ Nil \notin Clients /\ state \in States /\ client \in [Clients -> Links] /\ request \in [Requests -> Calls]
      /\ epoch \in Nat /\ faults' \in Nat /\ Locks /\ UNCHANGED <<state, request, epoch>> /\ state.work \in Clients
  BY PoolAssumption DEF IInv, TypeOK, States, ClientOrNil, Breaks, Usable
<1> DEFINE cs == {state.work}
<1>1. /\ client' \in [Clients -> Links] /\ cs \in SUBSET Clients
      /\ \A d \in Clients : client'[d] = IF d \in cs THEN [st |-> "closed", born |-> 0] ELSE client[d]
  BY <1>0, ClosedIs DEF Breaks, ClientOrNil
<1>2. lock' \in [Clients -> Requests \union {Nil}] /\ late' \in [Clients -> SUBSET Requests] /\ LockedForSomeone'
  BY <1>0, <1>1, LocksKept DEF IInv
<1>3. NothingLeft' /\ WorkOK' /\ EndOK'
  BY <1>0, <1>1 DEF IInv, NothingLeft, WorkOK, EndOK, Live, Own, States, ClientOrNil
<1> HIDE DEF cs
<1> QED
  BY <1>0, <1>1, <1>2, <1>3, ClosingInv

LEMMA LeaveInv == ASSUME IInv, NEW r \in Requests, Leave(r) PROVE IInv'
<1> DEFINE s == [state EXCEPT !.workActive = @ - 1]
           last == s.workActive = 0 /\ s.workRefresh
           cs == IF last THEN {state.work} \ {Nil} ELSE {}
<1>0. /\ Nil \notin Clients /\ Nil \notin Requests /\ state \in States /\ client \in [Clients -> Links]
      /\ request \in [Requests -> Calls] /\ request[r].pc = "leave" /\ epoch \in Nat /\ faults \in Nat
      /\ UNCHANGED <<epoch, faults>> /\ state.work \in ClientOrNil
  BY PoolAssumption DEF IInv, TypeOK, States, Leave
<1>1. s \in States /\ s.work = state.work /\ s.closed = state.closed /\ s.workPending = state.workPending
      /\ s.workRefresh = state.workRefresh /\ s.monitor = state.monitor /\ s.monitorPending = state.monitorPending
      /\ s.opening = state.opening /\ s.leaving = state.leaving
  BY <1>0 DEF States
<1>2. /\ state' = IF last THEN RetireWork(s) ELSE s
      /\ client' = IF last THEN Closed(client, state.work) ELSE client
      /\ request' = [request EXCEPT ![r] = Idle]
      /\ lock' = [c \in Clients |-> IF client'[c].st = "closed" \/ lock[c] = r THEN Nil ELSE lock[c]]
      /\ late' = [c \in Clients |-> IF client'[c].st = "closed" THEN {} ELSE late[c]]
  BY DEF Leave
<1> HIDE DEF s
<1>3. /\ client' \in [Clients -> Links] /\ cs \in SUBSET Clients
      /\ \A d \in Clients : client'[d] = IF d \in cs THEN [st |-> "closed", born |-> 0] ELSE client[d]
  BY <1>0, <1>2, ClosedIs DEF ClientOrNil
<1>4. /\ state' \in States /\ state'.closed = state.closed /\ state'.workPending = state.workPending
      /\ state'.monitor = state.monitor /\ state'.monitorPending = state.monitorPending
      /\ state'.opening = state.opening /\ state'.leaving = state.leaving
      /\ \/ state'.work = state.work /\ state'.workRefresh = state.workRefresh
         \/ state'.work = Nil /\ state.work \in cs \union {Nil}
  BY <1>0, <1>1, <1>2 DEF RetireWork, States, ClientOrNil
<1> HIDE DEF cs, last
<1>5. request' \in [Requests -> Calls] /\ request'[r] = Idle /\ \A q \in Requests : q # r => request'[q] = request[q]
  BY <1>0, <1>2 DEF Idle, Calls, ClientOrNil
<1>6. lock' \in [Clients -> Requests \union {Nil}] /\ late' \in [Clients -> SUBSET Requests] /\ LockedForSomeone'
  BY <1>2, <1>5 DEF IInv, TypeOK, LockedForSomeone
<1>7. NothingLeft'
  <2>1. \A q \in Requests : Own(q) <=> Own(q)'
    BY <1>0, <1>5 DEF Own, Idle
  <2>2. \A q \in Requests : Own(q) => request'[q].client = request[q].client
    BY <1>0, <1>5 DEF Own
  <2>3. \A d \in Clients : Live(d)' => Live(d) /\ d \notin cs
    BY <1>3 DEF Live
  <2> QED
    BY <1>0, <1>4, <2>1, <2>2, <2>3 DEF IInv, NothingLeft
<1>8. WorkOK'
  <2>1. CASE state'.work = state.work /\ state'.workRefresh = state.workRefresh
    BY <1>0, <1>3, <1>4, <2>1 DEF IInv, WorkOK, Live, States, ClientOrNil
  <2>2. CASE state'.work = Nil /\ state.work \in cs \union {Nil}
    BY <1>0, <1>3, <1>4, <2>2 DEF IInv, WorkOK, Live, States, ClientOrNil
  <2> QED
    BY <1>4, <2>1, <2>2
<1>9. EndOK'
  BY <1>4 DEF IInv, EndOK
<1>10. \A q \in Requests : \/ request'[q] = request[q]
                           \/ request'[q] = Idle /\ (Own(q) => request[q].client \in cs)
  BY <1>0, <1>5 DEF Own
<1> QED
  BY <1>0, <1>3, <1>4, <1>5, <1>6, <1>7, <1>8, <1>9, <1>10, ClosingInv

-------------------------------------------------------------------------------
(* Connections of one call.                                                *)

LEMMA DialInv == ASSUME IInv, NEW r \in Requests, Dial(r) PROVE IInv'
<1> DEFINE u == Unused
<1>0. /\ Nil \notin Clients /\ state \in States /\ client \in [Clients -> Links] /\ request \in [Requests -> Calls]
      /\ epoch \in Nat /\ request[r].pc = "idle" /\ ~state.closed /\ Locks /\ UNCHANGED <<state, epoch, faults>>
  BY PoolAssumption DEF IInv, TypeOK, Dial
<1>1. u \in Clients /\ u \notin Referenced /\ ~Live(u)
  BY UnusedFree
<1>2. /\ request' = [request EXCEPT ![r] = [pc |-> "dial", client |-> u, seen |-> epoch]]
      /\ client' = [client EXCEPT ![u] = Fresh]
  BY DEF Dial
<1> HIDE DEF u
<1>3. /\ client' \in [Clients -> Links] /\ client'[u].born = epoch /\ \A d \in Clients : d # u => client'[d] = client[d]
  BY <1>0, <1>1, <1>2, FreshIs DEF IInv
<1>4. /\ request' \in [Requests -> Calls] /\ request'[r] = [pc |-> "dial", client |-> u, seen |-> epoch]
      /\ \A q \in Requests : q # r => request'[q] = request[q]
  BY <1>0, <1>1, <1>2 DEF Calls, ClientOrNil
<1>5. TypeOK' /\ LockedForSomeone'
  BY <1>0, <1>3, <1>4, LocksKept DEF IInv, TypeOK
<1>6. CallsOK'
  <2> SUFFICES ASSUME NEW q \in Requests PROVE CallOK(q)'
    BY DEF CallsOK
  <2>1. CASE q = r
    BY <1>0, <1>1, <1>3, <1>4, <2>1 DEF CallOK
  <2>2. CASE q # r
    <3>1. request'[q] = request[q] /\ request[q].client \in ClientOrNil /\ request[q].client # u
      BY <1>0, <1>1, <1>4, <2>2 DEF Calls, Referenced
    <3> QED
      BY <1>0, <1>3, <3>1 DEF IInv, CallsOK, CallOK, Live, ClientOrNil
  <2> QED
    BY <2>1, <2>2
<1>7. NothingLeft'
  <2>1. Own(r)' /\ request'[r].client = u /\ ~state'.closed
    BY <1>0, <1>4 DEF Own
  <2>2. \A q \in Requests : Own(q) => Own(q)' /\ request'[q].client = request[q].client
    BY <1>0, <1>4 DEF Own
  <2>3. \A d \in Clients : Live(d)' => Live(d) \/ d = u
    BY <1>3 DEF Live
  <2> QED
    BY <1>0, <2>1, <2>2, <2>3 DEF IInv, NothingLeft
<1>8. WorkOK' /\ EndOK' /\ MonitorOK'
  <2>1. u \notin {state.work, state.workPending, state.monitor, state.monitorPending}
    BY <1>1 DEF Referenced
  <2> QED
    BY <1>0, <1>3, <2>1 DEF IInv, WorkOK, EndOK, MonitorOK, Live, States, ClientOrNil
<1> QED
  BY <1>5, <1>6, <1>7, <1>8 DEF IInv

LEMMA DialedInv == ASSUME IInv, NEW r \in Requests, Dialed(r) PROVE IInv'
<1> DEFINE c == request[r].client
<1>0. /\ Nil \notin Clients /\ state \in States /\ client \in [Clients -> Links] /\ request \in [Requests -> Calls]
      /\ epoch \in Nat /\ request[r].pc = "dial" /\ Locks /\ UNCHANGED <<state, epoch, faults>>
  BY PoolAssumption DEF IInv, TypeOK, Dialed
<1>1. c \in Clients /\ Live(c)
  BY <1>0 DEF IInv, CallsOK, CallOK, Calls, ClientOrNil, Dialed
<1>2. client' = [client EXCEPT ![c].st = "up"] /\ request' = [request EXCEPT ![r].pc = "own"]
  BY DEF Dialed
<1>3. /\ client' \in [Clients -> Links] /\ client'[c].born = client[c].born /\ client'[c].st = "up"
      /\ \A d \in Clients : d # c => client'[d] = client[d]
  BY <1>0, <1>1, <1>2 DEF Links
<1>4. /\ request' \in [Requests -> Calls] /\ request'[r].pc = "own" /\ request'[r].client = c /\ request'[r].seen = request[r].seen
      /\ \A q \in Requests : q # r => request'[q] = request[q]
  BY <1>0, <1>2 DEF Calls
<1> HIDE DEF c
<1>5. TypeOK' /\ LockedForSomeone'
  BY <1>0, <1>3, <1>4, LocksKept DEF IInv, TypeOK
<1>6. \A d \in Clients : Live(d)' <=> Live(d)
  BY <1>1, <1>3 DEF Live
<1>7. \A d \in Clients : client'[d].born = client[d].born /\ (client'[d].st = "connecting" => client[d].st = "connecting")
  BY <1>1, <1>3
<1>8. CallsOK'
  <2> SUFFICES ASSUME NEW q \in Requests PROVE CallOK(q)'
    BY DEF CallsOK
  <2>1. CallOK(q) /\ request[q].client \in ClientOrNil /\ request[q].seen \in Nat
    BY <1>0 DEF IInv, CallsOK, Calls
  <2>2. CASE q = r
    BY <1>0, <1>1, <1>4, <2>1, <2>2 DEF CallOK
  <2>3. CASE q # r
    BY <1>0, <1>4, <1>6, <1>7, <2>1, <2>3 DEF CallOK, Live, ClientOrNil
  <2> QED
    BY <2>2, <2>3
<1>9. NothingLeft'
  <2>1. \A q \in Requests : Own(q) => Own(q)' /\ request'[q].client = request[q].client
    BY <1>0, <1>4 DEF Own, c
  <2> QED
    BY <1>0, <1>6, <2>1 DEF IInv, NothingLeft
<1>10. WorkOK' /\ EndOK' /\ MonitorOK'
  BY <1>0, <1>6, <1>7 DEF IInv, WorkOK, EndOK, MonitorOK, Live, States, ClientOrNil
<1> QED
  BY <1>5, <1>8, <1>9, <1>10 DEF IInv

LEMMA OwnEndsInv == ASSUME IInv, NEW r \in Requests, OwnEnds(r) PROVE IInv'
<1> DEFINE cs == {request[r].client}
<1>0. /\ Nil \notin Clients /\ state \in States /\ client \in [Clients -> Links] /\ request \in [Requests -> Calls]
      /\ epoch \in Nat /\ faults \in Nat /\ Own(r) /\ Locks /\ UNCHANGED <<state, epoch, faults>>
      /\ request[r].client \in Clients
  BY PoolAssumption DEF IInv, TypeOK, OwnEnds, CallsOK, CallOK, Own, Calls, ClientOrNil
<1>1. client' = Closed(client, request[r].client) /\ request' = [request EXCEPT ![r] = Idle]
  BY DEF OwnEnds
<1>2. /\ client' \in [Clients -> Links] /\ cs \in SUBSET Clients
      /\ \A d \in Clients : client'[d] = IF d \in cs THEN [st |-> "closed", born |-> 0] ELSE client[d]
  BY <1>0, <1>1, ClosedIs DEF ClientOrNil
<1>3. request' \in [Requests -> Calls] /\ request'[r] = Idle /\ \A q \in Requests : q # r => request'[q] = request[q]
  BY <1>0, <1>1 DEF Idle, Calls, ClientOrNil
<1>4. lock' \in [Clients -> Requests \union {Nil}] /\ late' \in [Clients -> SUBSET Requests] /\ LockedForSomeone'
  BY <1>0, <1>2, <1>3, LocksKept DEF IInv, Own
<1>5. \A q \in Requests : request'[q] = request[q] \/ (request'[q] = Idle /\ (Own(q) => request[q].client \in cs))
  BY <1>3
<1>6. NothingLeft'
  <2>1. \A d \in Clients : Live(d)' => Live(d) /\ d # request[r].client
    BY <1>2 DEF Live
  <2>2. \A q \in Requests : q # r /\ Own(q) => Own(q)' /\ request'[q].client = request[q].client
    BY <1>3 DEF Own
  <2> QED
    BY <1>0, <2>1, <2>2 DEF IInv, NothingLeft
<1>7. WorkOK' /\ EndOK'
  BY <1>0, <1>2 DEF IInv, WorkOK, EndOK, Live, States, ClientOrNil
<1> HIDE DEF cs
<1> QED
  BY <1>0, <1>2, <1>3, <1>4, <1>5, <1>6, <1>7, ClosingInv

-------------------------------------------------------------------------------
(* What concerns both.                                                     *)

LEMMA RefreshInv == ASSUME IInv, RefreshShared PROVE IInv'
<1> DEFINE busy == state.workActive > 0
           s == [state EXCEPT !.timer = FALSE, !.monitor = Nil]
           cl == Closed(client, state.monitor)
           cs == ({state.monitor} \union IF busy THEN {} ELSE {state.work}) \ {Nil}
<1>0. /\ Nil \notin Clients /\ state \in States /\ client \in [Clients -> Links] /\ request \in [Requests -> Calls]
      /\ epoch \in Nat /\ faults \in Nat /\ epoch' = epoch + 1 /\ ~state.closed /\ Locks /\ UNCHANGED <<request, faults>>
      /\ state.work \in ClientOrNil /\ state.monitor \in ClientOrNil
  BY PoolAssumption DEF IInv, TypeOK, States, RefreshShared
<1>1. IF busy THEN state' = ScheduleMonitor([s EXCEPT !.workRefresh = TRUE]) /\ client' = cl
      ELSE state' = ScheduleMonitor(RetireWork(s)) /\ client' = Closed(cl, state.work)
  BY DEF RefreshShared
<1>2. cl \in [Clients -> Links] /\ \A d \in Clients : cl[d] = IF d = state.monitor THEN [st |-> "closed", born |-> 0] ELSE client[d]
  BY <1>0, ClosedIs
<1>3. /\ client' \in [Clients -> Links] /\ cs \in SUBSET Clients
      /\ \A d \in Clients : client'[d] = IF d \in cs THEN [st |-> "closed", born |-> 0] ELSE client[d]
  <2>1. CASE busy
    BY <1>0, <1>1, <1>2, <2>1 DEF ClientOrNil
  <2>2. CASE ~busy
    <3> HIDE DEF cl
    <3>1. client' \in [Clients -> Links] /\ \A d \in Clients : client'[d] = IF d = state.work THEN [st |-> "closed", born |-> 0] ELSE cl[d]
      BY <1>0, <1>1, <1>2, <2>2, ClosedIs
    <3> QED
      BY <1>0, <1>2, <2>2, <3>1 DEF ClientOrNil
  <2> QED
    BY <2>1, <2>2
<1>4. /\ state' \in States /\ state'.closed = state.closed /\ state'.workPending = state.workPending
      /\ state'.monitor = Nil /\ state'.monitorPending = state.monitorPending
      /\ state'.opening = state.opening /\ state'.leaving = state.leaving
      /\ IF busy THEN state'.work = state.work /\ state'.workRefresh ELSE state'.work = Nil
  <2> DEFINE t == IF busy THEN [s EXCEPT !.workRefresh = TRUE] ELSE RetireWork(s)
  <2>1. s \in States /\ s.monitor = Nil /\ s.work = state.work /\ s.closed = state.closed /\ s.workPending = state.workPending
        /\ s.monitorPending = state.monitorPending /\ s.opening = state.opening /\ s.leaving = state.leaving
    BY <1>0 DEF States, ClientOrNil
  <2> HIDE DEF s, busy
  <2>2. /\ t \in States /\ t.closed = state.closed /\ t.workPending = state.workPending /\ t.monitor = Nil
        /\ t.monitorPending = state.monitorPending /\ t.opening = state.opening /\ t.leaving = state.leaving
        /\ IF busy THEN t.work = state.work /\ t.workRefresh ELSE t.work = Nil
    <3>1. CASE busy
      BY <2>1, <3>1 DEF States
    <3>2. CASE ~busy
      <4>1. t = [s EXCEPT !.work = Nil, !.workRefresh = FALSE]
        BY <3>2 DEF RetireWork
      <4> QED
        BY <2>1, <3>2, <4>1 DEF States, ClientOrNil
    <3> QED
      BY <3>1, <3>2
  <2>3. state' = ScheduleMonitor(t)
    BY <1>1
  <2> HIDE DEF t
  <2> QED
    BY <2>2, <2>3 DEF ScheduleMonitor, States
<1>5. /\ state.monitor \in cs \union {Nil} /\ (busy \/ state.work \in cs \union {Nil})
      /\ \A d \in Clients : Live(d)' => Live(d) /\ d \notin cs
  BY <1>3 DEF Live
<1> HIDE DEF busy, cs, cl, s
<1>6. lock' \in [Clients -> Requests \union {Nil}] /\ late' \in [Clients -> SUBSET Requests] /\ LockedForSomeone'
  BY <1>0, <1>3, LocksKept DEF IInv
<1>7. NothingLeft'
  BY <1>0, <1>4, <1>5 DEF IInv, NothingLeft, Own
<1>8. WorkOK'
  BY <1>0, <1>4, <1>5 DEF IInv, WorkOK, Live, States, ClientOrNil
<1>9. EndOK'
  BY <1>0, <1>4 DEF IInv, EndOK
<1>10. epoch' \in Nat /\ epoch' >= epoch
  BY <1>0
<1> QED
  BY <1>0, <1>3, <1>4, <1>5, <1>6, <1>7, <1>8, <1>9, <1>10, ClosingInv

LEMMA CloseStateInv == ASSUME IInv, CloseState PROVE IInv'
<1> DEFINE cs == Ended \intersect Clients
<1>0. /\ Nil \notin Clients /\ state \in States /\ client \in [Clients -> Links] /\ request \in [Requests -> Calls]
      /\ epoch \in Nat /\ faults \in Nat /\ ~state.closed /\ Locks /\ UNCHANGED <<request, epoch, faults>>
      /\ state.work \in ClientOrNil /\ state.monitor \in ClientOrNil
  BY PoolAssumption DEF IInv, TypeOK, States, CloseState
<1>1. /\ client' \in [Clients -> Links] /\ cs \in SUBSET Clients
      /\ \A d \in Clients : client'[d] = IF d \in cs THEN [st |-> "closed", born |-> 0] ELSE client[d]
  BY <1>0 DEF CloseState, CloseAll, Links
<1>2. /\ state' \in States /\ state'.closed /\ state'.work = Nil /\ state'.monitor = Nil
      /\ state'.workPending = state.workPending /\ state'.monitorPending = state.monitorPending
      /\ state'.opening = state.opening /\ state'.leaving = (IF Usable(state.work) THEN state.work ELSE Nil)
  BY <1>0 DEF CloseState, States, ClientOrNil
<1>3. /\ state.monitor \in cs \union {Nil} /\ (~Usable(state.work) => state.work \in cs \union {Nil})
      /\ \A r \in Requests : Own(r) /\ request[r].client # Nil => request[r].client \in cs
  BY <1>0 DEF Ended, ClientOrNil, Calls
<1>4. \A d \in Clients : Live(d)' => Live(d) /\ d \notin cs
  BY <1>1 DEF Live
<1> HIDE DEF cs
<1>5. lock' \in [Clients -> Requests \union {Nil}] /\ late' \in [Clients -> SUBSET Requests] /\ LockedForSomeone'
  BY <1>0, <1>1, LocksKept DEF IInv
<1>6. NothingLeft'
  <2> SUFFICES ASSUME NEW c \in Clients, Live(c)' PROVE c = state'.leaving
    BY DEF NothingLeft
  <2>1. Live(c) /\ c \notin cs
    BY <1>4
  <2>2. c \in {state.work, state.monitor, state.workPending, state.monitorPending}
    BY <1>0, <1>3, <2>1 DEF IInv, NothingLeft, EndOK
  <2>3. c \in {state.work, state.monitor}
    BY <1>0, <2>1, <2>2 DEF IInv, WorkOK, MonitorOK
  <2> QED
    BY <1>0, <1>2, <1>3, <2>1, <2>3
<1>7. WorkOK' /\ EndOK'
  BY <1>2 DEF WorkOK, EndOK
<1> QED
  BY <1>0, <1>1, <1>2, <1>3, <1>5, <1>6, <1>7, ClosingInv

LEMMA LoggedOutInv == ASSUME IInv, LoggedOut PROVE IInv'
<1> DEFINE cs == {state.leaving}
<1>0. /\ Nil \notin Clients /\ state \in States /\ client \in [Clients -> Links] /\ request \in [Requests -> Calls]
      /\ epoch \in Nat /\ faults \in Nat /\ Locks /\ UNCHANGED <<request, epoch, faults>> /\ state.leaving \in Clients /\ state.closed
  BY PoolAssumption DEF IInv, TypeOK, States, ClientOrNil, EndOK, LoggedOut
<1>1. /\ client' \in [Clients -> Links] /\ cs \in SUBSET Clients
      /\ \A d \in Clients : client'[d] = IF d \in cs THEN [st |-> "closed", born |-> 0] ELSE client[d]
  BY <1>0, ClosedIs DEF LoggedOut, ClientOrNil
<1>2. /\ state' \in States /\ state'.closed /\ state'.work = state.work /\ state'.monitor = state.monitor
      /\ state'.workPending = state.workPending /\ state'.monitorPending = state.monitorPending
      /\ state'.opening = state.opening /\ state'.leaving = Nil
  BY <1>0 DEF LoggedOut, States, ClientOrNil
<1>3. lock' \in [Clients -> Requests \union {Nil}] /\ late' \in [Clients -> SUBSET Requests] /\ LockedForSomeone'
  BY <1>0, <1>1, LocksKept DEF IInv
<1>4. NothingLeft' /\ WorkOK' /\ EndOK'
  BY <1>0, <1>1, <1>2 DEF IInv, NothingLeft, WorkOK, EndOK, Live, Own
<1> HIDE DEF cs
<1> QED
  BY <1>0, <1>1, <1>2, <1>3, <1>4, ClosingInv

-------------------------------------------------------------------------------
(* The theorems.                                                           *)

\* The connections of a session are accounted for: which are open, for whom, since when.
THEOREM Inductive == Spec => []IInv
<1>1. Init => IInv
  <2> SUFFICES ASSUME Init PROVE IInv
    OBVIOUS
  <2> DEFINE first == CHOOSE c \in Clients : TRUE
  <2>1. Clients # {}
    BY FS_EmptySet, FS_CardinalityType, PoolAssumption
  <2>2. first \in Clients /\ first # Nil
    BY <2>1, PoolAssumption
  <2>3. /\ client = [c \in Clients |-> IF c = first THEN [st |-> "up", born |-> 0] ELSE [st |-> "closed", born |-> 0]]
        /\ state = [closed |-> FALSE, work |-> first, workPending |-> Nil, workActive |-> 0, workRefresh |-> FALSE,
                    listeners |-> 0, timer |-> FALSE, monitor |-> Nil, monitorPending |-> Nil, opening |-> FALSE, leaving |-> Nil]
    BY DEF Init
  <2> HIDE DEF first
  <2>4. TypeOK
    BY <2>2, <2>3 DEF Init, TypeOK, Links, States, Calls, Idle, ClientOrNil
  <2>5. NothingLeft /\ LockedForSomeone
    BY <2>2, <2>3 DEF Init, NothingLeft, LockedForSomeone, Live
  <2>6. WorkOK /\ MonitorOK /\ EndOK
    BY <2>2, <2>3 DEF Init, WorkOK, MonitorOK, EndOK, Live
  <2>7. CallsOK
    BY DEF Init, CallsOK, CallOK, Idle
  <2> QED
    BY <2>4, <2>5, <2>6, <2>7 DEF IInv
<1>2. IInv /\ [Next]_vars => IInv'
  <2> SUFFICES ASSUME IInv, [Next]_vars PROVE IInv'
    OBVIOUS
  <2>1. CASE UNCHANGED vars
    BY <2>1 DEF vars, IInv, TypeOK, NothingLeft, LockedForSomeone, WorkOK, MonitorOK, EndOK, CallsOK, CallOK, Live, Own
  <2>2. CASE Monitor \/ MonitorBreaks \/ Watch \/ Unwatch
    BY <2>2, WatchInv, MonitorDropped, MonitorAttempt DEF Monitor
  <2>3. CASE Work \/ Breaks
    BY <2>3, AttemptInv, LockTooLateInv, BreaksInv DEF Work
  <2>4. CASE RefreshShared \/ CloseState \/ LoggedOut
    BY <2>4, RefreshInv, CloseStateInv, LoggedOutInv
  <2>5. ASSUME NEW r \in Requests, Enter(r) \/ Dial(r) \/ Step(r) \/ GiveUp(r) PROVE IInv'
    BY <2>5, EnterInv, DialInv, LockInv, LeaveInv, DialedInv, OwnEndsInv DEF Step
  <2> QED
    BY <2>1, <2>2, <2>3, <2>4, <2>5 DEF Next
<1> QED
  BY <1>1, <1>2, PTL DEF Spec

\* No call works on a connection made before the refresh it came after
\* (imap-pool.js refreshShared, withMailbox).
THEOREM FreshHolds == Spec => []FreshAfterRefresh
<1>1. IInv => FreshAfterRefresh
  BY DEF IInv, CallsOK, CallOK, FreshAfterRefresh
<1> QED
  BY <1>1, Inductive, PTL

\* No connection is lost sight of, and an ended session has none
\* (imap-pool.js closeState, startMonitor, watch, retireWork).
THEOREM NothingLeftHolds == Spec => []NothingLeft
<1>1. IInv => NothingLeft
  BY DEF IInv
<1> QED
  BY <1>1, Inductive, PTL

\* No mailbox is locked for a call that went away (imap-pool.js withBudgetMailbox).
THEOREM LockedHolds == Spec => []LockedForSomeone
<1>1. IInv => LockedForSomeone
  BY DEF IInv
<1> QED
  BY <1>1, Inductive, PTL
===============================================================================
