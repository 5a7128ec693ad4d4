------------------------ MODULE ConnectionPool_proofs ------------------------
(***************************************************************************)
(* Proofs about the connection pool of a child, for any number of nodes,   *)
(* entries, users and startup packets.                                     *)
(***************************************************************************)
EXTENDS ConnectionPool, NumberFacts, TLAPS

-----------------------------------------------------------------------------
(* The inductive invariant.                                                *)

\* Every slot of the pool belongs to a node of the private status, and every
\* such node is up: a child never connects to a node that is down, and its
\* copy of the status only ages.
ConnectionsValid ==
    /\ \A i \in Entries : pool[i].slots \cup pool[i].freed \subseteq valid
    /\ valid \subseteq up

\* get_next_master_node: the master is the first node that is up, except
\* while a failback has written the status of its node, but not the master.
MasterIsFirst == /\ master \in up
                 /\ parent # "status" => \A m \in up : master <= m

\* From pool_get_cp or pool_create_cp to the end of the session, the entry in
\* use is the client's own, is marked in use (closetime 0) and has a
\* connection to every valid node.
EntryInUse ==
    pc \in {"auth", "reuse", "session"} =>
        /\ cur \in Entries
        /\ pool[cur].key = client.key /\ pool[cur].packet = client.packet
        /\ pool[cur].closetime = 0
        /\ valid \subseteq pool[cur].slots

\* A client whose startup packet was read has a user and a database.
ClientKnown ==
    pc \in {"startup", "check", "lookup", "create", "auth", "reuse", "session"}
        => client.key \in Keys

Inv == TypeOK /\ ConnectionsValid /\ MasterIsFirst /\ EntryInUse /\ ClientKnown

-----------------------------------------------------------------------------
(* Facts about the operators.                                              *)

\* The memset of pool_init_cp: an empty entry is an entry.
LEMMA EmptyEntry ==
    /\ Empty \in PoolEntries
    /\ Empty.key = NoKey /\ Empty.slots = {} /\ Empty.freed = {} /\ Empty.closetime = 0
    /\ NoClient \in [key : Keys \cup {NoKey}, packet : Packets] /\ NoClient.key = NoKey
    /\ NoAlarm \in [at : Nat, handler : {"none", "pool", "auth"}]
    /\ NoAlarm.handler = "none"
<1>1. (CHOOSE p \in Packets : TRUE) \in Packets
  BY PoolAssumption
<1>2. QED
  BY <1>1, PoolAssumption DEF Empty, PoolEntries, NoClient, NoAlarm

\* The first entry of a non-empty set of entries is one of them.
LEMMA FirstEntryIn ==
    ASSUME NEW S, S \subseteq Entries, S # {}
    PROVE  FirstEntry(S) \in S /\ FirstEntry(S) \in Entries
<1>1. S \subseteq Nat
  BY PoolAssumption DEF Entries
<1>2. FirstEntry(S) \in S
  BY <1>1, ChosenLeast DEF FirstEntry
<1>3. QED
  BY <1>2

\* The least node that is up.
LEMMA FirstNodeIn ==
    ASSUME NEW S, S \subseteq Nodes, S # {}
    PROVE  FirstNode(S) \in S /\ \A m \in S : FirstNode(S) <= m
<1>1. S \subseteq Nat
  BY PoolAssumption DEF Nodes
<1>2. QED
  BY <1>1, ChosenLeast DEF FirstNode

\* Node 0, if it is up, is the first.
LEMMA FirstIsZero ==
    ASSUME NEW S, S \subseteq Nodes, 0 \in S
    PROVE  FirstNode(S) = 0
<1>1. FirstNode(S) \in Nodes /\ FirstNode(S) <= 0
  BY FirstNodeIn
<1>2. Nodes \subseteq Nat
  BY PoolAssumption DEF Nodes
<1>3. ASSUME NEW f \in Nat, f <= 0 PROVE f = 0
  BY <1>3
<1>4. QED
  BY <1>1, <1>2, <1>3

\* The eviction of pool_create_cp always finds an entry.
LEMMA ChosenEntry ==
    ASSUME TypeOK
    PROVE  Chosen \in Entries
<1> DEFINE T == {pool[i].closetime : i \in Entries}
<1>1. T \subseteq Nat
  BY PoolAssumption DEF TypeOK, PoolEntries
<1>2. 1 \in Entries
  BY PoolAssumption DEF Entries
<1>3. T # {}
  BY <1>2
<1>4. PICK t \in T : \A u \in T : t <= u
  <2> HIDE DEF T
  <2>1. QED
    BY <1>1, <1>3, LeastNatural
<1>5. Oldest # {}
  <2>1. PICK i \in Entries : t = pool[i].closetime
    BY <1>4
  <2>2. \A j \in Entries : pool[i].closetime <= pool[j].closetime
    BY <1>4, <2>1
  <2>3. i \in Oldest
    BY <2>1, <2>2 DEF Oldest
  <2>4. QED
    BY <2>3
<1>6. Oldest \subseteq Entries /\ Vacant \subseteq Entries
  BY DEF Oldest, Vacant
<1>7. QED
  BY <1>5, <1>6, FirstEntryIn DEF Chosen

\* The entry pool_create_cp makes.
LEMMA NewEntry ==
    ASSUME Inv, pc = "create"
    PROVE  /\ [Empty EXCEPT !.key = client.key, !.packet = client.packet,
                            !.slots = valid \cup Kept.slots,
                            !.freed = Kept.freed \ valid] \in PoolEntries
           /\ Kept.slots \subseteq valid /\ Kept.freed \subseteq valid
<1>1. Chosen \in Entries
  BY ChosenEntry DEF Inv
<1>2. Kept \in {pool[Chosen], Empty}
  BY DEF Kept
<1>3. Kept.slots \subseteq valid /\ Kept.freed \subseteq valid
  BY <1>1, <1>2, EmptyEntry DEF Inv, ConnectionsValid
<1>4. valid \subseteq Nodes
  BY DEF Inv, TypeOK
<1>5. client.key \in Keys /\ client.packet \in Packets
  BY DEF Inv, ClientKnown, TypeOK
<1>6. QED
  BY <1>3, <1>4, <1>5, EmptyEntry DEF PoolEntries

\* The entries pool_get_cp leaves behind a broken socket.
LEMMA ShortCleared ==
    ASSUME Inv, NEW i \in Entries
    PROVE  /\ ShortClear(i) \in [Entries -> PoolEntries]
           /\ \A j \in Entries : ShortClear(i)[j].slots \cup ShortClear(i)[j].freed
                                   \subseteq valid
<1> DEFINE d == {n \in (pool[i].slots \cap valid) \cup pool[i].freed : n >= Cleared}
           e == IF d = {} THEN Empty ELSE [Empty EXCEPT !.freed = d, !.key = pool[i].key]
<1>1. ShortClear(i) = [pool EXCEPT ![i] = e]
  BY DEF ShortClear
<1>2. d \subseteq valid /\ valid \subseteq Nodes
  BY DEF Inv, TypeOK, ConnectionsValid
<1>3. pool \in [Entries -> PoolEntries] /\ pool[i].key \in Keys \cup {NoKey}
  BY DEF Inv, TypeOK, PoolEntries
<1>4. e \in PoolEntries /\ e.slots \cup e.freed \subseteq valid
  <2> HIDE DEF d
  <2>1. QED
    BY <1>2, <1>3, EmptyEntry DEF PoolEntries
<1>5. \A j \in Entries : pool[j].slots \cup pool[j].freed \subseteq valid
  BY DEF Inv, ConnectionsValid
<1> HIDE DEF e, d
<1>6. QED
  BY <1>1, <1>3, <1>4, <1>5

\* The pool after the entries of S were emptied (pool_backend_timer,
\* close_idle_connection, pool_discard_cp): still typed, nothing new in it.
LEMMA Emptied ==
    ASSUME TypeOK, NEW S
    PROVE  LET q == [i \in Entries |-> IF i \in S THEN Empty ELSE pool[i]] IN
           /\ q \in [Entries -> PoolEntries]
           /\ \A i \in Entries : q[i] = pool[i] \/ q[i] = Empty
           /\ \A i \in Entries : i \notin S => q[i] = pool[i]
           /\ \A i \in Entries : i \in S => q[i] = Empty
BY EmptyEntry DEF TypeOK

\* pool_discard_cp empties one entry.
LEMMA Cleared1 ==
    ASSUME TypeOK, NEW i
    PROVE  /\ Clear(i) \in [Entries -> PoolEntries]
           /\ \A j \in Entries : Clear(i)[j] = pool[j] \/ Clear(i)[j] = Empty
           /\ \A j \in Entries : j # i => Clear(i)[j] = pool[j]
           /\ i \in Entries => Clear(i)[i] = Empty
BY EmptyEntry DEF TypeOK, Clear

-----------------------------------------------------------------------------
(* Every step preserves the invariant.                                     *)

LEMMA InitInv == Init => Inv
<1> SUFFICES ASSUME Init PROVE Inv
  OBVIOUS
<1>1. Nodes \ InitialDown # {} /\ Nodes \ InitialDown \subseteq Nodes
  BY PoolAssumption
<1>2. MasterIsFirst /\ up \subseteq Nodes
  BY <1>1, FirstNodeIn DEF MasterIsFirst, Init
<1>3. TypeOK
  <2>1. pool \in [Entries -> PoolEntries] /\ client \in [key : Keys \cup {NoKey}, packet : Packets]
        /\ alarm \in [at : Nat, handler : {"none", "pool", "auth"}]
    BY EmptyEntry DEF Init
  <2>2. up \subseteq Nodes /\ valid \subseteq Nodes /\ master \in Nodes
    BY <1>2 DEF Init, MasterIsFirst
  <2>3. cur \in 0 .. MaxPool /\ now \in 1 .. MaxTime /\ events \in 0 .. MaxEvents
    BY PoolAssumption DEF Init
  <2>4. QED
    BY <2>1, <2>2, <2>3 DEF TypeOK, Init
<1>4. ConnectionsValid
  BY EmptyEntry DEF ConnectionsValid, Init
<1>5. EntryInUse /\ ClientKnown
  BY DEF EntryInUse, ClientKnown, Init
<1>6. QED
  BY <1>2, <1>3, <1>4, <1>5 DEF Inv

\* A child that exits leaves an empty pool.
LEMMA ExitInv ==
    ASSUME Inv, ChildExits, up' = up, master' = master, parent' = parent,
           needRestart' \in BOOLEAN,
           now' \in 1 .. MaxTime, events' \in 0 .. MaxEvents
    PROVE  Inv'
<1>1. TypeOK'
  <2>1. /\ pool' \in [Entries -> PoolEntries]
        /\ client' \in [key : Keys \cup {NoKey}, packet : Packets]
        /\ alarm' \in [at : Nat, handler : {"none", "pool", "auth"}]
    BY EmptyEntry DEF ChildExits
  <2>2. up' \subseteq Nodes /\ valid' \subseteq Nodes /\ master' \in Nodes
    BY DEF ChildExits, Inv, TypeOK
  <2>3. cur' \in 0 .. MaxPool
    BY PoolAssumption DEF ChildExits
  <2>4. parent' \in {"idle", "status", "master"}
    BY DEF Inv, TypeOK
  <2>5. QED
    BY <2>1, <2>2, <2>3, <2>4 DEF TypeOK, ChildExits
<1>2. ConnectionsValid'
  BY EmptyEntry DEF Inv, ConnectionsValid, ChildExits
<1>3. MasterIsFirst' /\ EntryInUse' /\ ClientKnown'
  BY DEF Inv, MasterIsFirst, EntryInUse, ClientKnown, ChildExits
<1>4. QED
  BY <1>1, <1>2, <1>3 DEF Inv

\* Steps that leave the pool and the status alone and stay where they are.
LEMMA QuietInv ==
    ASSUME Inv, UNCHANGED <<pool, cur, client, pc, valid, up, master, parent>>,
           broken' \subseteq Entries \X Nodes, TypeOK'
    PROVE  Inv'
BY DEF Inv, ConnectionsValid, MasterIsFirst, EntryInUse, ClientKnown

\* Time passes: the alarm may end the child or mark the timer as expired.
LEMMA TickInv ==
    ASSUME Inv, tick
    PROVE  Inv'
<1>1. now' \in 1 .. MaxTime /\ events' = events /\ up' = up /\ master' = master
      /\ needRestart' = needRestart /\ parent' = parent
  BY PoolAssumption DEF Inv, TypeOK, tick, shared
<1>2. CASE ChildExits
  BY <1>1, <1>2, ExitInv DEF Inv, TypeOK
<1>3. CASE alarm' = NoAlarm /\ expired' = TRUE
           /\ UNCHANGED <<pool, broken, cur, client, pc, valid, leaked>>
  <2>1. TypeOK'
    BY <1>1, <1>3, EmptyEntry DEF Inv, TypeOK
  <2>2. QED
    BY <1>1, <1>3, <2>1, QuietInv DEF Inv, TypeOK
<1>4. CASE UNCHANGED <<pool, broken, cur, client, pc, valid, timer, leaked>>
  <2>1. TypeOK'
    BY <1>1, <1>4 DEF Inv, TypeOK, timer
  <2>2. QED
    BY <1>1, <1>4, <2>1, QuietInv DEF Inv, TypeOK
<1>5. QED
  BY <1>2, <1>3, <1>4 DEF tick

LEMMA BackendClosesInv ==
    ASSUME Inv, NEW i \in Entries, NEW n \in Nodes, backend_closes(i, n)
    PROVE  Inv'
<1>1. TypeOK'
  BY PoolAssumption DEF Inv, TypeOK, backend_closes, Event, shared, timer
<1>2. UNCHANGED <<pool, cur, client, pc, valid, up, master, parent>>
  BY DEF backend_closes, shared
<1>3. QED
  BY <1>1, <1>2, QuietInv DEF TypeOK

\* A failback adds a node to those that are up; the children's copies and
\* pools stay as they are, and the master is set from the new statuses.
LEMMA FailbackInv ==
    ASSUME Inv, NEW n \in Nodes, failback(n)
    PROVE  Inv'
<1>1. up' = up \cup {n} /\ parent' = "status" /\ master' = master
      /\ UNCHANGED <<pool, cur, client, pc, valid>>
  BY DEF failback
<1>2. TypeOK'
  BY PoolAssumption DEF Inv, TypeOK, failback, Event, timer
<1>3. ConnectionsValid' /\ EntryInUse' /\ ClientKnown' /\ MasterIsFirst'
  BY <1>1 DEF Inv, ConnectionsValid, EntryInUse, ClientKnown, MasterIsFirst
<1>4. QED
  BY <1>2, <1>3 DEF Inv

LEMMA NewMasterInv ==
    ASSUME Inv, set_new_master
    PROVE  Inv'
<1>1. /\ master' = FirstNode(up) /\ parent' = "master"
      /\ UNCHANGED <<pool, cur, client, pc, valid, up>>
  BY DEF set_new_master
<1>2. up \subseteq Nodes /\ up # {}
  BY DEF Inv, TypeOK, MasterIsFirst
<1>3. MasterIsFirst'
  BY <1>1, <1>2, FirstNodeIn DEF MasterIsFirst
<1>4. TypeOK'
  BY <1>1, <1>2, FirstNodeIn DEF Inv, TypeOK, set_new_master, timer
<1>5. ConnectionsValid' /\ EntryInUse' /\ ClientKnown'
  BY <1>1 DEF Inv, ConnectionsValid, EntryInUse, ClientKnown
<1>6. QED
  BY <1>3, <1>4, <1>5 DEF Inv

\* The end of a failback, and the fork of a child, which copies the status.
LEMMA ParentInv ==
    ASSUME Inv, request_restart \/ fork_a_child
    PROVE  Inv'
<1>1. TypeOK'
  BY DEF Inv, TypeOK, request_restart, fork_a_child, shared, timer
<1>2. ConnectionsValid' /\ EntryInUse' /\ ClientKnown'
  BY DEF Inv, ConnectionsValid, EntryInUse, ClientKnown, request_restart,
         fork_a_child, shared
<1>3. MasterIsFirst'
  BY DEF Inv, MasterIsFirst, request_restart, fork_a_child, shared
<1>4. QED
  BY <1>1, <1>2, <1>3 DEF Inv

\* Emptying idle entries touches nobody's session: its closetime is 0.
LEMMA EmptyIdleInv ==
    ASSUME Inv, NEW S, \A i \in Entries : i \in S => pool[i].closetime > 0,
           pool' = [i \in Entries |-> IF i \in S THEN Empty ELSE pool[i]],
           UNCHANGED <<cur, client, up, master, parent>>,
           \/ UNCHANGED <<pc, valid>>
           \/ pc = "check" /\ pc' = "lookup" /\ valid' \in {valid, up},
           TypeOK'
    PROVE  Inv'
<1>1. /\ \A i \in Entries : pool'[i] = pool[i] \/ pool'[i] = Empty
      /\ \A i \in Entries : i \notin S => pool'[i] = pool[i]
  BY EmptyEntry
<1>2. ConnectionsValid'
  BY <1>1, EmptyEntry DEF Inv, ConnectionsValid
<1>3. EntryInUse'
  <2>1. SUFFICES ASSUME pc' \in {"auth", "reuse", "session"} PROVE EntryInUse'
    BY DEF EntryInUse
  <2>2. pc = pc' /\ valid' = valid
    BY <2>1
  <2>3. cur \in Entries /\ cur \notin S
    BY <2>1, <2>2, PoolAssumption DEF Inv, EntryInUse
  <2>4. QED
    BY <2>1, <2>2, <2>3, <1>1 DEF Inv, EntryInUse
<1>4. MasterIsFirst' /\ ClientKnown'
  BY DEF Inv, MasterIsFirst, ClientKnown
<1>5. QED
  BY <1>2, <1>3, <1>4 DEF Inv

LEMMA TimerInv ==
    ASSUME Inv, pool_backend_timer
    PROVE  Inv'
<1>1. Due \subseteq Entries /\ \A i \in Entries : i \in Due => pool[i].closetime > 0
  BY DEF Due
<1>2. alarm' \in [at : Nat, handler : {"none", "pool", "auth"}]
  <2>1. CASE Pending = {}
    BY <2>1 DEF pool_backend_timer, Inv, TypeOK
  <2>2. CASE Pending # {}
    <3> DEFINE left == {LifeTime - (now - pool[i].closetime) : i \in Pending}
               least == CHOOSE t \in left : \A u \in left : t <= u
    <3>1. left \subseteq Nat
      <4>1. ASSUME NEW i \in Pending PROVE LifeTime - (now - pool[i].closetime) \in Nat
        <5>1. i \in Entries /\ ~ (now >= pool[i].closetime + LifeTime)
          BY DEF Pending, Due
        <5>2. pool[i].closetime \in Nat /\ now \in Nat /\ LifeTime \in Nat
          BY <5>1, PoolAssumption DEF Inv, TypeOK, PoolEntries
        <5>3. QED
          BY <5>1, <5>2
      <4>2. QED
        BY <4>1
    <3>2. left # {}
      BY <2>2
    <3>3. alarm' = [at |-> now + (IF least <= 0 THEN 1 ELSE least), handler |-> "pool"]
      BY <2>2 DEF pool_backend_timer
    <3>4. least \in Nat
      <4> HIDE DEF left
      <4>1. QED
        BY <3>1, <3>2, ChosenLeast
    <3>5. now \in Nat
      BY PoolAssumption DEF Inv, TypeOK
    <3> HIDE DEF least
    <3>6. QED
      BY <3>3, <3>4, <3>5
  <2>3. QED
    BY <2>1, <2>2
<1>3. pool' = [i \in Entries |-> IF i \in Due THEN Empty ELSE pool[i]]
  BY DEF pool_backend_timer
<1>4. pool' \in [Entries -> PoolEntries]
  BY <1>3, Emptied DEF Inv
<1>5. TypeOK'
  BY <1>2, <1>4 DEF Inv, TypeOK, pool_backend_timer, shared
<1>6. UNCHANGED <<cur, client, up, master, parent>> /\ UNCHANGED <<pc, valid>>
  BY DEF pool_backend_timer, shared
<1>7. QED
  BY <1>1, <1>3, <1>5, <1>6, EmptyIdleInv

LEMMA CloseIdleInv ==
    ASSUME Inv, close_idle_signal \/ check_restart
    PROVE  Inv'
<1>1. Idle \subseteq Entries /\ \A i \in Entries : i \in Idle => pool[i].closetime > 0
  BY DEF Idle
<1>2. CASE close_idle_connection /\ close_idle_signal
  <2>1. pool' \in [Entries -> PoolEntries]
    BY <1>2, Emptied DEF Inv, close_idle_connection
  <2>2. TypeOK'
    BY <1>2, <2>1, PoolAssumption
       DEF Inv, TypeOK, close_idle_connection, close_idle_signal, Event, shared, timer
  <2>3. /\ pool' = [i \in Entries |-> IF i \in Idle THEN Empty ELSE pool[i]]
        /\ UNCHANGED <<cur, client, up, master, parent>> /\ UNCHANGED <<pc, valid>>
    BY <1>2 DEF close_idle_connection, close_idle_signal, shared
  <2>4. QED
    BY <1>1, <2>2, <2>3, EmptyIdleInv
<1>3. CASE close_idle_connection /\ check_restart
  <2>1. pool' \in [Entries -> PoolEntries]
    BY <1>3, Emptied DEF Inv, close_idle_connection
  <2>2. TypeOK'
    BY <1>3, <2>1 DEF Inv, TypeOK, close_idle_connection, check_restart, timer
  <2>3. QED
    BY <1>1, <1>3, <2>2, EmptyIdleInv DEF close_idle_connection, check_restart
<1>4. CASE check_restart /\ UNCHANGED <<pool, broken, leaked, valid, needRestart>>
  <2>1. TypeOK'
    BY <1>4 DEF Inv, TypeOK, check_restart, timer
  <2>2. QED
    BY <1>4, <2>1 DEF Inv, ConnectionsValid, MasterIsFirst, EntryInUse, ClientKnown,
                      check_restart
<1>5. QED
  BY <1>2, <1>3, <1>4 DEF close_idle_signal, check_restart

LEMMA AcceptInv ==
    ASSUME Inv, NEW k \in Keys, NEW p \in Packets, accept(k, p)
    PROVE  Inv'
<1>1. alarm' \in [at : Nat, handler : {"none", "pool", "auth"}]
  BY PoolAssumption DEF Inv, TypeOK, accept
<1>2. client' \in [key : Keys \cup {NoKey}, packet : Packets] /\ client'.key \in Keys
  BY DEF accept
<1>3. TypeOK'
  BY <1>1, <1>2, PoolAssumption DEF Inv, TypeOK, accept, Event, shared
<1>4. QED
  BY <1>2, <1>3 DEF Inv, ConnectionsValid, MasterIsFirst, EntryInUse, ClientKnown, accept,
                    shared

\* Steps that only move on: a startup packet, a wild read, a re-authentication.
LEMMA MoveInv ==
    ASSUME Inv,
           read_startup_packet \/ use_after_free \/ connect_using_existing_connection
    PROVE  Inv'
<1>1. UNCHANGED <<pool, broken, valid, up, master, needRestart, parent, expired, leaked,
                  now, events>>
  BY DEF read_startup_packet, use_after_free, connect_using_existing_connection, shared, timer
<1>2. /\ alarm' \in {alarm, NoAlarm} /\ client' \in {client, NoClient} /\ cur' \in {cur, 0}
      /\ pc' \in {"check", "loop", "undefined", "session"}
  BY DEF read_startup_packet, use_after_free, connect_using_existing_connection, timer,
         AlarmAfterStartup
<1>3. TypeOK'
  BY <1>1, <1>2, EmptyEntry, PoolAssumption DEF Inv, TypeOK
<1>4. EntryInUse' /\ ClientKnown'
  <2>1. pc' = "session" => pc = "reuse" /\ UNCHANGED <<cur, client>>
    BY DEF read_startup_packet, use_after_free, connect_using_existing_connection
  <2>2. pc' = "check" => pc = "startup" /\ UNCHANGED client
    BY DEF read_startup_packet, use_after_free, connect_using_existing_connection
  <2>3. QED
    BY <1>1, <1>2, <2>1, <2>2 DEF Inv, EntryInUse, ClientKnown
<1>5. ConnectionsValid' /\ MasterIsFirst'
  BY <1>1 DEF Inv, ConnectionsValid, MasterIsFirst
<1>6. QED
  BY <1>3, <1>4, <1>5 DEF Inv

\* The client's entry, as pool_get_cp finds it.
LEMMA FoundEntry ==
    ASSUME Inv, NEW k, Matches(k) # {}
    PROVE  LET i == FirstEntry(Matches(k)) IN
           i \in Entries /\ Occupied(i) /\ pool[i].key = k
<1>1. Matches(k) \subseteq Entries
  BY DEF Matches
<1>2. FirstEntry(Matches(k)) \in Matches(k)
  BY <1>1, FirstEntryIn
<1>3. QED
  BY <1>2 DEF Matches

\* An entry is discarded and the child is left outside any session.
LEMMA DiscardInv ==
    ASSUME Inv, NEW i, pool' = Clear(i),
           broken' = broken \ BrokenAt(i), leaked' \in BOOLEAN,
           UNCHANGED <<valid, shared, timer, now, events>>,
           \/ pc' = "create" /\ pc = "lookup" /\ UNCHANGED <<cur, client>>
           \/ pc' = "loop" /\ cur' = 0 /\ client' = NoClient
    PROVE  Inv'
<1>1. pool' \in [Entries -> PoolEntries]
      /\ \A j \in Entries : pool'[j] = pool[j] \/ pool'[j] = Empty
  BY Cleared1 DEF Inv
<1>2. client' \in [key : Keys \cup {NoKey}, packet : Packets] /\ cur' \in 0 .. MaxPool
  BY EmptyEntry, PoolAssumption DEF Inv, TypeOK
<1>3. TypeOK'
  BY <1>1, <1>2 DEF Inv, TypeOK, shared, timer
<1>4. ConnectionsValid'
  BY <1>1, EmptyEntry DEF Inv, ConnectionsValid, shared
<1>5. MasterIsFirst' /\ EntryInUse' /\ ClientKnown'
  BY DEF Inv, MasterIsFirst, EntryInUse, ClientKnown, shared
<1>6. QED
  BY <1>3, <1>4, <1>5 DEF Inv

LEMMA GetInv ==
    ASSUME Inv, pool_get_cp
    PROVE  Inv'
<1> DEFINE i == FirstEntry(Matches(client.key))
<1>1. pc = "lookup" /\ UNCHANGED <<client, valid, up, master, needRestart, parent, alarm, expired,
                                   now, events>>
  BY DEF pool_get_cp, shared, timer
<1>2. CASE Matches(client.key) = {}
  <2>1. pc' = "create" /\ UNCHANGED <<pool, broken, cur, leaked>>
    BY <1>2 DEF pool_get_cp
  <2>2. TypeOK'
    BY <1>1, <2>1 DEF Inv, TypeOK
  <2>3. QED
    BY <1>1, <2>1, <2>2 DEF Inv, ConnectionsValid, MasterIsFirst, EntryInUse, ClientKnown
<1>3. CASE Matches(client.key) # {}
  <2>1. i \in Entries /\ pool[i].key = client.key
    BY <1>3, FoundEntry
  <2>2. CASE /\ pool' = ShortClear(i) /\ broken' = broken \ BrokenAt(i)
             /\ leaked' = (leaked \/ ~(pool[i].slots \subseteq valid))
             /\ pc' = "create" /\ UNCHANGED cur
    <3> HIDE DEF i
    <3>1. pool' \in [Entries -> PoolEntries]
          /\ \A j \in Entries : pool'[j].slots \cup pool'[j].freed \subseteq valid
      BY <2>1, <2>2, ShortCleared
    <3>2. TypeOK'
      BY <1>1, <2>2, <3>1 DEF Inv, TypeOK
    <3>3. QED
      BY <1>1, <2>2, <3>1, <3>2
         DEF Inv, ConnectionsValid, MasterIsFirst, EntryInUse, ClientKnown
  <2>3. CASE /\ pool' = Discarded(i) /\ broken' = broken \ BrokenAt(i)
             /\ leaked' = (leaked \/ ~(pool[i].slots \subseteq valid))
             /\ pc' = "create" /\ UNCHANGED cur
    <3> HIDE DEF i
    <3>1. leaked' \in BOOLEAN
      BY <2>3 DEF Inv, TypeOK
    <3>2. QED
      BY <1>1, <2>1, <2>3, <3>1, DiscardInv DEF Discarded, shared, timer
  <2>4. CASE /\ ~SocketBroken(i) /\ SamePacket(i)
             /\ pool' = [pool EXCEPT ![i].closetime = 0]
             /\ cur' = i
             /\ pc' = "reuse" /\ UNCHANGED <<broken, leaked>>
    <3> HIDE DEF i
    <3>1. pool[i] \in PoolEntries /\ pool \in [Entries -> PoolEntries]
      BY <2>1 DEF Inv, TypeOK
    <3>2. /\ pool' \in [Entries -> PoolEntries]
          /\ \A j \in Entries : pool'[j].slots = pool[j].slots /\ pool'[j].freed = pool[j].freed
          /\ pool'[i].key = pool[i].key /\ pool'[i].packet = pool[i].packet
          /\ pool'[i].closetime = 0
      BY <2>1, <2>4, <3>1, PoolAssumption DEF PoolEntries
    <3>3. TypeOK'
      BY <1>1, <2>1, <2>4, <3>2, PoolAssumption DEF Inv, TypeOK, Entries
    <3>4. ConnectionsValid'
      BY <1>1, <3>2 DEF Inv, ConnectionsValid
    <3>5. EntryInUse'
      <4>1. valid \subseteq pool[i].slots
        BY <2>4 DEF SocketBroken
      <4>2. QED
        BY <1>1, <2>1, <2>4, <3>2, <4>1 DEF EntryInUse, SamePacket
    <3>6. MasterIsFirst' /\ ClientKnown'
      BY <1>1, <2>4 DEF Inv, MasterIsFirst, ClientKnown
    <3>7. QED
      BY <3>3, <3>4, <3>5, <3>6 DEF Inv
  <2>5. QED
    BY <1>3, <2>2, <2>3, <2>4 DEF pool_get_cp
<1>4. QED
  BY <1>2, <1>3

LEMMA CreateInv ==
    ASSUME Inv, pool_create_cp
    PROVE  Inv'
<1> DEFINE e == [Empty EXCEPT !.key = client.key, !.packet = client.packet,
                              !.slots = valid \cup Kept.slots, !.freed = Kept.freed \ valid]
           c == Chosen
<1>1. pc = "create" /\ pc' = "auth" /\ cur' = c /\ pool' = [pool EXCEPT ![c] = e]
      /\ UNCHANGED <<client, valid, up, master, needRestart, parent, alarm, expired, now,
                    events>>
  BY DEF pool_create_cp, shared, timer
<1>2. c \in Entries
  BY ChosenEntry DEF Inv
<1>3. e \in PoolEntries /\ Kept.slots \subseteq valid /\ Kept.freed \subseteq valid
  BY <1>1, NewEntry
<1>4. /\ e.slots \cup e.freed \subseteq valid /\ valid \subseteq e.slots
      /\ e.key = client.key /\ e.packet = client.packet /\ e.closetime = 0
  BY <1>3, EmptyEntry DEF PoolEntries
<1>5. broken' \subseteq broken /\ leaked' \in BOOLEAN
  BY DEF pool_create_cp, Inv, TypeOK
<1> HIDE DEF e, c
<1>6. pool \in [Entries -> PoolEntries]
  BY DEF Inv, TypeOK
<1>7. pool' \in [Entries -> PoolEntries] /\ pool'[c] = e
      /\ \A j \in Entries : pool'[j] = pool[j] \/ pool'[j] = e
  BY <1>1, <1>2, <1>3, <1>6
<1>8. TypeOK'
  BY <1>1, <1>2, <1>5, <1>7, PoolAssumption DEF Inv, TypeOK, Entries
<1>9. ConnectionsValid'
  BY <1>1, <1>4, <1>7 DEF Inv, ConnectionsValid
<1>10. EntryInUse' /\ ClientKnown'
  BY <1>1, <1>2, <1>4, <1>7 DEF Inv, EntryInUse, ClientKnown
<1>11. MasterIsFirst'
  BY <1>1 DEF Inv, MasterIsFirst
<1>12. QED
  BY <1>8, <1>9, <1>10, <1>11 DEF Inv

LEMMA AuthInv ==
    ASSUME Inv, pool_do_auth \/ session_discarded
    PROVE  Inv'
<1>1. CASE pc' = "session" /\ pc = "auth"
           /\ UNCHANGED <<pool, broken, cur, client, leaked, valid, shared, timer, now, events>>
  <2>1. TypeOK'
    BY <1>1 DEF Inv, TypeOK, shared, timer
  <2>2. QED
    BY <1>1, <2>1
       DEF Inv, ConnectionsValid, MasterIsFirst, EntryInUse, ClientKnown, shared
<1>2. CASE /\ Close(FirstEntry(Matches(client.key)))
           /\ cur' = 0 /\ client' = NoClient /\ pc' = "loop"
           /\ UNCHANGED <<valid, shared, timer, now, events>>
  <2>1. leaked' \in BOOLEAN
    BY <1>2 DEF Close, Inv, TypeOK
  <2>2. QED
    BY <1>2, <2>1, DiscardInv DEF Close
<1>3. QED
  BY <1>1, <1>2 DEF pool_do_auth, session_discarded

LEMMA EndsInv ==
    ASSUME Inv, session_ends
    PROVE  Inv'
<1>1. cur \in Entries /\ pool \in [Entries -> PoolEntries] /\ pool[cur] \in PoolEntries
  BY DEF Inv, EntryInUse, TypeOK, session_ends
<1>2. now \in 1 .. MaxTime
  BY DEF Inv, TypeOK
<1>3. pool' = [pool EXCEPT ![cur].closetime = now]
  BY DEF session_ends, ClosedAt
<1>4. /\ pool' \in [Entries -> PoolEntries]
      /\ \A j \in Entries : pool'[j].slots = pool[j].slots /\ pool'[j].freed = pool[j].freed
  BY <1>1, <1>2, <1>3, PoolAssumption DEF PoolEntries
<1>5. alarm' \in [at : Nat, handler : {"none", "pool", "auth"}]
  BY <1>2, PoolAssumption DEF session_ends, Inv, TypeOK
<1>6. client' \in [key : Keys \cup {NoKey}, packet : Packets] /\ cur' \in 0 .. MaxPool
  BY EmptyEntry, PoolAssumption DEF session_ends
<1>7. TypeOK'
  BY <1>4, <1>5, <1>6 DEF Inv, TypeOK, session_ends, shared
<1>8. ConnectionsValid'
  BY <1>4 DEF Inv, ConnectionsValid, session_ends, shared
<1>9. MasterIsFirst' /\ EntryInUse' /\ ClientKnown'
  BY DEF Inv, MasterIsFirst, EntryInUse, ClientKnown, session_ends, shared
<1>10. QED
  BY <1>7, <1>8, <1>9 DEF Inv

\* The five ways a child ends outside the alarm.
LEMMA CrashInv ==
    ASSUME Inv, \/ child_restarts \/ eviction_crashes \/ new_connection_fails
                \/ session_crashes \/ session_exits
    PROVE  Inv'
<1>1. ChildExits /\ up' = up /\ master' = master /\ parent' = parent
      /\ now' = now /\ events' = events
  BY DEF child_restarts, eviction_crashes, new_connection_fails, session_crashes,
         session_exits, shared
<1>2. needRestart' \in BOOLEAN
  BY DEF child_restarts, eviction_crashes, new_connection_fails, session_crashes,
         session_exits, shared, Inv, TypeOK
<1>3. QED
  BY <1>1, <1>2, ExitInv DEF Inv, TypeOK

LEMMA StepInv == Inv /\ [Next]_vars => Inv'
<1> SUFFICES ASSUME Inv, [Next]_vars PROVE Inv'
  OBVIOUS
<1>1. CASE UNCHANGED vars
  <2>1. TypeOK'
    BY <1>1 DEF Inv, TypeOK, vars, shared, timer
  <2>2. QED
    BY <1>1, <2>1, QuietInv DEF vars, shared, TypeOK
<1>2. CASE Next
  BY <1>2, TickInv, CrashInv, TimerInv, MoveInv, CloseIdleInv, GetInv, CreateInv, AuthInv,
     EndsInv, AcceptInv, BackendClosesInv, FailbackInv, NewMasterInv, ParentInv DEF Next
<1>3. QED
  BY <1>1, <1>2

LEMMA Invariance == Spec => []Inv
BY InitInv, StepInv, PTL DEF Spec

-----------------------------------------------------------------------------
(* What holds of every pool.                                               *)

\* Every variable keeps its type, whatever the backends, the parent and the
\* clients do.
THEOREM TypeCorrect == Spec => []TypeOK
<1>1. Inv => TypeOK
  BY DEF Inv
<1>2. QED
  BY <1>1, Invariance, PTL

\* do_child: the client of a session talks through the entry made for its own
\* user, database and startup packet, however the entry was found, and
\* whatever the idle timer, a DROP DATABASE or a failback do meanwhile.
THEOREM OwnEntry == Spec => []SessionIsMine
<1>1. Inv => SessionIsMine
  BY DEF Inv, EntryInUse, SessionIsMine
<1>2. QED
  BY <1>1, Invariance, PTL

\* A session has a connection to every node of its child's status, so that
\* CONNECTION(backend, i) may be followed without a test: pool_get_cp refuses
\* an entry that lacks one, and the status does not change until the end.
THEOREM EveryNodeConnected == Spec => []SessionHasEveryNode
<1>1. Inv => SessionHasEveryNode
  BY DEF Inv, EntryInUse, SessionHasEveryNode
<1>2. QED
  BY <1>1, Invariance, PTL

-----------------------------------------------------------------------------
(* authentication_timeout.                                                 *)

LEMMA StepAlarm == AuthAlarmHitsNoSession /\ [Next]_vars => AuthAlarmHitsNoSession'
<1> SUFFICES ASSUME AuthAlarmHitsNoSession, [Next]_vars PROVE AuthAlarmHitsNoSession'
  OBVIOUS
<1> USE DEF AuthAlarmHitsNoSession
<1>1. CASE UNCHANGED <<alarm, pc>>
  BY <1>1
<1>2. CASE alarm' = NoAlarm
  BY <1>2, EmptyEntry
<1>3. CASE alarm' = alarm /\ pc \notin {"loop", "startup"}
  BY <1>3
<1>4. CASE \E k \in Keys, p \in Packets : accept(k, p)
  BY <1>4 DEF accept
<1>5. CASE pool_backend_timer
  <2>1. alarm' = alarm \/ alarm'.handler = "pool"
    BY <1>5 DEF pool_backend_timer
  <2>2. QED
    BY <1>5, <2>1 DEF pool_backend_timer
<1>6. CASE session_ends
  BY <1>6 DEF session_ends
<1>7. CASE tick
  BY <1>1, <1>2, <1>7 DEF tick, ChildExits, timer
<1>8. CASE \/ child_restarts \/ eviction_crashes \/ new_connection_fails
           \/ session_crashes \/ session_exits
  BY <1>2, <1>8 DEF child_restarts, eviction_crashes, new_connection_fails, session_crashes,
                    session_exits, ChildExits
\* A client that goes away inside its packet leaves the alarm to the loop.
<1>9. CASE read_startup_packet
  BY <1>2, <1>9 DEF read_startup_packet, AlarmAfterStartup
<1>10. CASE \/ check_restart \/ pool_get_cp \/ use_after_free \/ pool_create_cp
            \/ pool_do_auth \/ connect_using_existing_connection \/ session_discarded
            \/ fork_a_child
  BY <1>3, <1>10 DEF check_restart, pool_get_cp, use_after_free, pool_create_cp,
                     pool_do_auth, connect_using_existing_connection, session_discarded,
                     fork_a_child, timer
<1>11. CASE \/ UNCHANGED vars \/ close_idle_signal
            \/ \E i \in Entries, n \in Nodes : backend_closes(i, n)
            \/ \E n \in Nodes : failback(n)
            \/ set_new_master \/ request_restart
  BY <1>1, <1>11 DEF vars, timer, close_idle_signal, backend_closes, failback,
                     set_new_master, request_restart
<1>12. QED
  BY <1>4, <1>5, <1>6, <1>7, <1>8, <1>9, <1>10, <1>11 DEF Next

\* authentication_timeout, which ends the child, never fires on a client whose
\* startup packet has been read: neither the alarm of its own packet nor one
\* left behind by an earlier client that went away inside its packet, and no
\* failed authentication, discarded session or restart brings it back.
THEOREM AlarmScoped == Spec => []AuthAlarmHitsNoSession
<1>1. Init => AuthAlarmHitsNoSession
  BY EmptyEntry DEF Init, AuthAlarmHitsNoSession
<1>2. AuthAlarmHitsNoSession /\ [Next]_vars => AuthAlarmHitsNoSession'
  BY StepAlarm
<1>3. QED
  BY <1>1, <1>2, PTL DEF Spec

-----------------------------------------------------------------------------
(* No connection is lost while the master stays where it is.               *)

\* The master can move only by the failback of a node before it.
MasterStays == \/ 0 \in up /\ master = 0
               \/ "failback" \notin Ops /\ parent = "idle"

\* Every entry is empty or has the master's connection, so that
\* MASTER_CONNECTION tells a vacant entry from a filled one.
FilledHasMaster == \A i \in Entries : pool[i].slots = {} \/ master \in pool[i].slots

LeakInv == NoLeak /\ MasterStays /\ FilledHasMaster /\ master \in valid

LEMMA MasterFixed ==
    ASSUME Inv, MasterStays, [Next]_vars
    PROVE  master' = master /\ MasterStays'
<1>1. CASE \E n \in Nodes : failback(n)
  BY <1>1 DEF MasterStays, failback
<1>2. CASE set_new_master
  <2>1. 0 \in up /\ master = 0
    BY <1>2 DEF MasterStays, set_new_master
  <2>2. up \subseteq Nodes
    BY DEF Inv, TypeOK
  <2>3. FirstNode(up) = 0
    BY <2>1, <2>2, FirstIsZero
  <2>4. QED
    BY <1>2, <2>1, <2>3 DEF MasterStays, set_new_master
<1>3. CASE request_restart
  BY <1>3 DEF MasterStays, request_restart
<1>4. CASE UNCHANGED <<up, master, parent>>
  BY <1>4 DEF MasterStays
<1>5. QED
  BY <1>1, <1>2, <1>3, <1>4 DEF Next, vars, shared, tick, fork_a_child, child_restarts,
     pool_backend_timer,
     read_startup_packet, close_idle_signal, check_restart, pool_get_cp, use_after_free,
     pool_create_cp, eviction_crashes, new_connection_fails, pool_do_auth,
     connect_using_existing_connection, session_crashes, session_ends, session_discarded,
     session_exits, accept, backend_closes

\* The private status is kept or copied from the shared one.
LEMMA ValidCopied ==
    ASSUME [Next]_vars
    PROVE  valid' \in {valid, up}
BY DEF Next, vars, shared, tick, child_restarts, pool_backend_timer,
     read_startup_packet, close_idle_signal, check_restart, pool_get_cp, use_after_free,
     pool_create_cp, eviction_crashes, new_connection_fails, pool_do_auth,
     connect_using_existing_connection, session_crashes, session_ends, session_discarded,
     session_exits, accept, backend_closes, failback, set_new_master, request_restart,
     fork_a_child, ChildExits

\* What a step does to the entries: keep, empty or release one, change its
\* closetime, or fill the one pool_create_cp chose.
EntryEffect(i) ==
    \/ pool'[i] = pool[i] \/ pool'[i] = Empty
    \/ pc = "lookup" /\ pool' = ShortClear(i)
    \/ /\ pc \in {"lookup", "session"} /\ pool'[i].slots = pool[i].slots
       /\ pool'[i].freed = pool[i].freed /\ pool'[i].key = pool[i].key
    \/ pool_create_cp /\ i = Chosen

LEMMA Effects ==
    ASSUME Inv, [Next]_vars, NEW i \in Entries
    PROVE  EntryEffect(i)
<1> USE DEF EntryEffect
<1>1. CASE pool' = pool
  BY <1>1
<1>2. CASE ChildExits
  BY <1>2 DEF ChildExits
<1>3. ASSUME NEW S, pool' = [j \in Entries |-> IF j \in S THEN Empty ELSE pool[j]]
      PROVE  EntryEffect(i)
  BY <1>3
<1>4. CASE pool_backend_timer
  BY <1>3, <1>4 DEF pool_backend_timer
<1>5. CASE close_idle_signal \/ check_restart
  BY <1>1, <1>3, <1>5 DEF close_idle_signal, check_restart, close_idle_connection
<1>6. ASSUME NEW c, pool' = Clear(c) PROVE EntryEffect(i)
  BY <1>6, Cleared1 DEF Inv
<1>7. CASE pool_do_auth \/ session_discarded
  BY <1>1, <1>6, <1>7 DEF pool_do_auth, session_discarded, Close
<1>8. CASE pool_get_cp
  <2> DEFINE c == FirstEntry(Matches(client.key))
  <2>1. CASE Matches(client.key) # {}
    <3>1. c \in Entries /\ pool \in [Entries -> PoolEntries]
      BY <2>1, FoundEntry DEF Inv, TypeOK
    <3>2. \/ pool' = ShortClear(c) \/ pool' = Clear(c)
          \/ pool' = [pool EXCEPT ![c].closetime = 0]
      BY <1>8, <2>1 DEF pool_get_cp, Discarded
    <3>3. pc = "lookup"
      BY <1>8 DEF pool_get_cp
    <3> HIDE DEF c
    <3>4. CASE pool' = ShortClear(c)
      BY <3>1, <3>3, <3>4 DEF ShortClear
    <3>5. CASE pool' = Clear(c)
      BY <1>6, <3>5
    <3>6. CASE pool' = [pool EXCEPT ![c].closetime = 0]
      <4>1. pool[i] \in PoolEntries
        BY <3>1
      <4>2. QED
        BY <3>1, <3>3, <3>6, <4>1 DEF PoolEntries
    <3>7. QED
      BY <3>2, <3>4, <3>5, <3>6
  <2>2. QED
    BY <1>1, <1>8, <2>1 DEF pool_get_cp
<1>9. CASE pool_create_cp
  BY <1>9 DEF pool_create_cp, Inv, TypeOK
<1>10. CASE session_ends
  <2>1. pool[i] \in PoolEntries /\ pool \in [Entries -> PoolEntries] /\ pc = "session"
    BY <1>10 DEF Inv, TypeOK, session_ends
  <2>2. pool' = [pool EXCEPT ![cur].closetime = ClosedAt]
    BY <1>10 DEF session_ends
  <2>3. QED
    BY <2>1, <2>2 DEF PoolEntries
<1>11. QED
  BY <1>1, <1>2, <1>4, <1>5, <1>7, <1>8, <1>9, <1>10 DEF Next, vars, tick, child_restarts,
     read_startup_packet, use_after_free, eviction_crashes, new_connection_fails,
     connect_using_existing_connection, session_crashes, session_exits, accept,
     backend_closes, failback, set_new_master, request_restart, fork_a_child

\* The entry pool_create_cp has filled.
LEMMA Filled ==
    ASSUME Inv, pool_create_cp
    PROVE  /\ Chosen \in Entries
           /\ pool'[Chosen].key = client.key /\ client.key \in Keys
           /\ valid \subseteq pool'[Chosen].slots
           /\ pool'[Chosen].freed \subseteq Kept.freed
           /\ pc = "create" /\ pc' = "auth"
<1> DEFINE e == [Empty EXCEPT !.key = client.key, !.packet = client.packet,
                              !.slots = valid \cup Kept.slots, !.freed = Kept.freed \ valid]
<1>1. pc = "create" /\ pc' = "auth" /\ pool' = [pool EXCEPT ![Chosen] = e]
  BY DEF pool_create_cp
<1>2. Chosen \in Entries
  BY ChosenEntry DEF Inv
<1>3. e.key = client.key /\ valid \subseteq e.slots /\ e.freed \subseteq Kept.freed
  BY EmptyEntry DEF PoolEntries
<1> HIDE DEF e
<1>4. pool'[Chosen] = e
  BY <1>1, <1>2 DEF Inv, TypeOK
<1>5. client.key \in Keys
  BY <1>1 DEF Inv, ClientKnown
<1>6. QED
  BY <1>1, <1>2, <1>3, <1>4, <1>5

\* Only pool_create_cp can lose a connection: all that is closed is valid.
LEMMA LeaksInCreate ==
    ASSUME Inv, NoLeak, [Next]_vars, ~pool_create_cp
    PROVE  NoLeak'
<1> USE DEF NoLeak
<1>1. \A i \in Entries : pool[i].slots \subseteq valid
  BY DEF Inv, ConnectionsValid
<1>2. CASE UNCHANGED leaked
  BY <1>2
<1>3. CASE ChildExits
  BY <1>3 DEF ChildExits
<1>4. CASE pool_backend_timer \/ close_idle_connection
  BY <1>1, <1>4 DEF pool_backend_timer, close_idle_connection, Due, Idle
<1>5. CASE pool_get_cp
  <2>1. Matches(client.key) # {} => FirstEntry(Matches(client.key)) \in Entries
    BY FoundEntry
  <2>2. QED
    BY <1>1, <1>5, <2>1 DEF pool_get_cp
<1>6. CASE pool_do_auth \/ session_discarded
  <2>1. CASE UNCHANGED leaked
    BY <2>1
  <2>2. CASE HasMaster(cur) /\ Close(FirstEntry(Matches(client.key)))
    <3>1. pc \in {"auth", "session"}
      BY <1>6 DEF pool_do_auth, session_discarded
    <3>2. cur \in Entries /\ pool[cur].key = client.key /\ client.key \in Keys
      BY <3>1 DEF Inv, EntryInUse, ClientKnown
    <3>3. cur \in Matches(client.key)
      BY <2>2, <3>2, PoolAssumption DEF Matches, Occupied
    <3>4. FirstEntry(Matches(client.key)) \in Entries
      BY <3>3, FoundEntry
    <3>5. QED
      BY <1>1, <2>2, <3>4 DEF Close
  <2>3. QED
    BY <1>6, <2>1, <2>2 DEF pool_do_auth, session_discarded
<1>7. QED
  BY <1>2, <1>3, <1>4, <1>5, <1>6 DEF Next, vars, tick, child_restarts,
     read_startup_packet, close_idle_signal, check_restart, use_after_free,
     eviction_crashes, new_connection_fails,
     connect_using_existing_connection, session_crashes, session_ends, session_exits, accept,
     backend_closes, failback, set_new_master, request_restart, fork_a_child

LEMMA StepLeak == Inv /\ LeakInv /\ [Next]_vars => LeakInv'
<1> SUFFICES ASSUME Inv, LeakInv, [Next]_vars PROVE LeakInv'
  OBVIOUS
<1>1. master' = master /\ MasterStays'
  BY MasterFixed DEF LeakInv
<1>2. master' \in valid'
  BY <1>1, ValidCopied DEF LeakInv, Inv, MasterIsFirst
<1>3. FilledHasMaster'
  <2> SUFFICES ASSUME NEW i \in Entries
               PROVE  pool'[i].slots = {} \/ master' \in pool'[i].slots
    BY DEF FilledHasMaster
  <2>1. CASE pool_create_cp /\ i = Chosen
    BY <1>1, <2>1, Filled DEF LeakInv
  <2>2. CASE pc = "lookup" /\ pool' = ShortClear(i)
    <3>1. ShortClear(i)[i].slots = {}
      BY EmptyEntry DEF ShortClear, Inv, TypeOK, PoolEntries
    <3>2. QED
      BY <2>2, <3>1
  <2>3. QED
    BY <1>1, <2>1, <2>2, Effects, EmptyEntry DEF EntryEffect, LeakInv, FilledHasMaster
<1>4. NoLeak'
  <2>1. CASE pool_create_cp
    <3>1. Chosen \in Entries
      BY ChosenEntry DEF Inv
    <3>2. CASE Vacant # {}
      <4>1. Vacant \subseteq Entries
        BY DEF Vacant
      <4>2. Chosen \in Vacant
        BY <3>2, <4>1, FirstEntryIn DEF Chosen
      <4>3. pool[Chosen].slots = {}
        BY <3>1, <4>2 DEF Vacant, HasMaster, LeakInv, FilledHasMaster
      <4>4. QED
        BY <2>1, <3>2, <4>3 DEF pool_create_cp, LeftBehind, NoLeak, LeakInv
    <3>3. CASE Vacant = {}
      <4>1. pool[Chosen].slots \subseteq valid
        BY <3>1 DEF Inv, ConnectionsValid
      <4>2. QED
        BY <2>1, <3>3, <4>1 DEF pool_create_cp, LeftBehind, NoLeak, LeakInv
    <3>4. QED
      BY <3>2, <3>3
  <2>2. QED
    BY <2>1, LeaksInCreate DEF LeakInv
<1>5. QED
  BY <1>1, <1>2, <1>3, <1>4 DEF LeakInv

\* As long as no failback can move the master (node 0 is up from the start,
\* or nodes do not come back), a child never loses track of a connection:
\* eviction, discarding, the idle timer and a refilled entry close all they
\* overwrite.
THEOREM NothingLost ==
    ASSUME 0 \notin InitialDown \/ "failback" \notin Ops
    PROVE  Spec => []NoLeak
<1>1. Init => LeakInv
  <2> SUFFICES ASSUME Init PROVE LeakInv
    OBVIOUS
  <2>1. 0 \in Nodes /\ up \subseteq Nodes
    BY PoolAssumption DEF Nodes, Init
  <2>2. MasterStays
    <3>1. CASE 0 \notin InitialDown
      <4>1. 0 \in up /\ master = FirstNode(up)
        BY <2>1, <3>1 DEF Init
      <4>2. FirstNode(up) = 0
        BY <2>1, <4>1, FirstIsZero
      <4>3. QED
        BY <4>1, <4>2 DEF MasterStays
    <3>2. QED
      BY <3>1 DEF Init, MasterStays
  <2>3. master \in valid
    BY InitInv DEF Inv, MasterIsFirst, Init
  <2>4. QED
    BY <2>2, <2>3, EmptyEntry DEF LeakInv, Init, NoLeak, FilledHasMaster
<1>2. Inv /\ LeakInv /\ [Next]_vars => LeakInv'
  BY StepLeak
<1>3. LeakInv => NoLeak
  BY DEF LeakInv
<1>4. QED
  BY <1>1, <1>2, <1>3, Invariance, PTL DEF Spec

-----------------------------------------------------------------------------
(* One entry per user and database, where the memset of pool_get_cp covers *)
(* all slots.                                                              *)

\* No slot points to released memory.
NothingFreed == \A i \in Entries : pool[i].freed = {}

\* pool_create_cp runs only when the scan of pool_get_cp found nothing.
NotFound == pc = "create" => Matches(client.key) = {}

\* A node that has been attached and is about to become the master is known
\* only where the present master is: the master was there before it.
NextMasterLater ==
    LET first == FirstNode(up) IN
    /\ first \in valid => master \in valid
    /\ \A i \in Entries : first \in pool[i].slots => master \in pool[i].slots

KeyInv == NothingFreed /\ NextMasterLater /\ UniqueKey /\ NotFound

\* A new master has a connection only where the former one has.
LEMMA MasterUnknown ==
    ASSUME Inv, NextMasterLater, [Next]_vars, NEW i \in Entries, master' \in pool[i].slots
    PROVE  master \in pool[i].slots
<1>1. CASE set_new_master
  BY <1>1 DEF set_new_master, NextMasterLater
<1>2. CASE master' = master
  BY <1>2
<1>3. QED
  BY <1>1, <1>2 DEF Next, vars, shared, tick, fork_a_child, child_restarts,
     pool_backend_timer,
     read_startup_packet, close_idle_signal, check_restart, pool_get_cp, use_after_free,
     pool_create_cp, eviction_crashes, new_connection_fails, pool_do_auth,
     connect_using_existing_connection, session_crashes, session_ends, session_discarded,
     session_exits, accept, backend_closes, failback, request_restart

\* An entry that is occupied after a step was occupied before it, by the same
\* user and database, unless pool_create_cp has just filled it: a new master
\* has no connection in any entry.
LEMMA OccupiedBefore ==
    ASSUME Inv, KeyInv, NothingFreed', [Next]_vars, NEW i \in Entries, Occupied(i)'
    PROVE  \/ Occupied(i) /\ pool'[i].key = pool[i].key
           \/ pool_create_cp /\ i = Chosen
<1>1. master' \in pool'[i].slots /\ pool'[i].key # NoKey
  BY DEF Occupied, HasMaster, NothingFreed
<1>2. SUFFICES ASSUME ~(pool_create_cp /\ i = Chosen)
               PROVE  Occupied(i) /\ pool'[i].key = pool[i].key
  OBVIOUS
<1>3. pool'[i].slots = pool[i].slots /\ pool'[i].key = pool[i].key
  <2>1. CASE pc = "lookup" /\ pool' = ShortClear(i)
    <3>1. ShortClear(i)[i].slots = {}
      BY EmptyEntry DEF ShortClear, Inv, TypeOK, PoolEntries
    <3>2. QED
      BY <1>1, <2>1, <3>1
  <2>2. QED
    BY <1>1, <1>2, <2>1, Effects, EmptyEntry DEF EntryEffect
<1>4. master \in pool[i].slots
  BY <1>1, <1>3, MasterUnknown DEF KeyInv
<1>5. QED
  BY <1>1, <1>3, <1>4 DEF Occupied, HasMaster

\* The slots and the private status know the nodes that are up in the order
\* in which the nodes came up.
LEMMA StepNextMaster ==
    ASSUME Inv, NextMasterLater, [Next]_vars
    PROVE  NextMasterLater'
<1>1. up \subseteq Nodes /\ master \in up /\ FirstNode(up) \in up
  BY FirstNodeIn DEF Inv, TypeOK, MasterIsFirst
<1>2. CASE \E n \in Nodes : failback(n)
  <2>1. PICK n \in Nodes : failback(n)
    BY <1>2
  <2>2. up' = up \cup {n} /\ n \notin up /\ UNCHANGED <<pool, valid, master>>
        /\ parent = "idle"
    BY <2>1 DEF failback
  <2>3. \/ FirstNode(up') \notin up
        \/ FirstNode(up') = master
    <3>1. FirstNode(up') \in up' /\ \A m \in up' : FirstNode(up') <= m
      BY <1>1, <2>2, FirstNodeIn
    <3>2. \A m \in up : master <= m
      BY <2>2 DEF Inv, MasterIsFirst
    <3>3. CASE FirstNode(up') \in up
      <4>1. FirstNode(up') <= master /\ master <= FirstNode(up')
        BY <1>1, <2>2, <3>1, <3>2, <3>3
      <4>2. Nodes \subseteq Int
        BY DEF Nodes
      <4>3. FirstNode(up') \in Int /\ master \in Int
        BY <1>1, <3>3, <4>2
      <4> HIDE DEF FirstNode
      <4>4. ASSUME NEW a \in Int, NEW b \in Int, a <= b, b <= a PROVE a = b
        BY <4>4
      <4>5. QED
        BY <4>1, <4>3, <4>4
    <3>4. QED
      BY <3>3
  <2>4. valid \subseteq up /\ \A i \in Entries : pool[i].slots \subseteq up
    BY DEF Inv, ConnectionsValid
  <2>5. QED
    BY <2>2, <2>3, <2>4 DEF NextMasterLater
<1>3. CASE set_new_master
  BY <1>3 DEF set_new_master, NextMasterLater
<1>4. CASE UNCHANGED <<up, master>>
  <2>1. FirstNode(up)' = FirstNode(up)
    BY <1>4 DEF FirstNode
  <2>2. valid' \in {valid, up}
    BY ValidCopied
  <2>3. ASSUME NEW i \in Entries, FirstNode(up) \in pool'[i].slots
        PROVE  master \in pool'[i].slots
    <3>1. CASE pool_create_cp /\ i = Chosen
      <4>1. pool'[i].slots = valid \cup Kept.slots
        <5> DEFINE e == [Empty EXCEPT !.key = client.key, !.packet = client.packet,
                                      !.slots = valid \cup Kept.slots,
                                      !.freed = Kept.freed \ valid]
        <5>1. e.slots = valid \cup Kept.slots
          BY EmptyEntry DEF PoolEntries
        <5>2. pool' = [pool EXCEPT ![i] = e]
          BY <3>1 DEF pool_create_cp
        <5> HIDE DEF e
        <5>3. QED
          BY <5>1, <5>2 DEF Inv, TypeOK
      <4>2. Kept.slots = pool[i].slots \/ Kept.slots = {}
        BY <3>1, EmptyEntry DEF Kept
      <4>3. QED
        BY <2>3, <4>1, <4>2 DEF NextMasterLater
    <3>2. CASE pc = "lookup" /\ pool' = ShortClear(i)
      <4>1. ShortClear(i)[i].slots = {}
        BY EmptyEntry DEF ShortClear, Inv, TypeOK, PoolEntries
      <4>2. QED
        BY <2>3, <3>2, <4>1
    <3>3. QED
      BY <2>3, <3>1, <3>2, Effects, EmptyEntry DEF EntryEffect, NextMasterLater
  <2>4. QED
    BY <1>1, <1>4, <2>1, <2>2, <2>3 DEF NextMasterLater
<1>5. QED
  BY <1>2, <1>3, <1>4 DEF Next, vars, shared, tick, fork_a_child, child_restarts,
     pool_backend_timer,
     read_startup_packet, close_idle_signal, check_restart, pool_get_cp, use_after_free,
     pool_create_cp, eviction_crashes, new_connection_fails, pool_do_auth,
     connect_using_existing_connection, session_crashes, session_ends, session_discarded,
     session_exits, accept, backend_closes, request_restart

LEMMA StepKey ==
    ASSUME N <= Cleared
    PROVE  Inv /\ KeyInv /\ [Next]_vars => KeyInv'
<1> SUFFICES ASSUME Inv, KeyInv, [Next]_vars PROVE KeyInv'
  OBVIOUS
<1>1. ASSUME NEW i \in Entries PROVE ShortClear(i) = Clear(i)
  <2>1. ASSUME NEW n \in valid PROVE ~(n >= Cleared)
    BY PoolAssumption, N <= Cleared DEF Inv, TypeOK, Nodes
  <2>2. {n \in (pool[i].slots \cap valid) \cup pool[i].freed : n >= Cleared} = {}
    BY <2>1 DEF KeyInv, NothingFreed
  <2>3. QED
    BY <2>2 DEF ShortClear, Clear
<1>2. NothingFreed'
  <2> SUFFICES ASSUME NEW i \in Entries PROVE pool'[i].freed = {}
    BY DEF NothingFreed
  <2>1. CASE pool_create_cp /\ i = Chosen
    <3>1. Kept.freed = {}
      BY <2>1, EmptyEntry DEF Kept, KeyInv, NothingFreed
    <3>2. QED
      BY <2>1, <3>1, Filled
  <2>2. CASE pc = "lookup" /\ pool' = ShortClear(i)
    BY <1>1, <2>2, Cleared1, EmptyEntry DEF Inv
  <2>3. QED
    BY <2>1, <2>2, Effects, EmptyEntry DEF EntryEffect, KeyInv, NothingFreed
<1>3. UniqueKey'
  <2> SUFFICES ASSUME NEW i \in Entries, NEW j \in Entries, Occupied(i)', Occupied(j)',
                      pool'[i].key = pool'[j].key
               PROVE  i = j
    BY DEF UniqueKey
  <2>1. ASSUME NEW a \in Entries, NEW b \in Entries, pool_create_cp, a = Chosen,
               Occupied(b), pool'[b].key = pool[b].key, pool'[a].key = pool'[b].key
        PROVE  FALSE
    <3>1. pool[b].key = client.key /\ pc = "create"
      BY <2>1, Filled
    <3>2. b \in Matches(client.key)
      BY <2>1, <3>1 DEF Matches
    <3>3. QED
      BY <3>1, <3>2 DEF KeyInv, NotFound
  <2>2. /\ \/ Occupied(i) /\ pool'[i].key = pool[i].key
           \/ pool_create_cp /\ i = Chosen
        /\ \/ Occupied(j) /\ pool'[j].key = pool[j].key
           \/ pool_create_cp /\ j = Chosen
    BY <1>2, OccupiedBefore
  <2>3. QED
    BY <2>1, <2>2 DEF KeyInv, UniqueKey
<1>4. NotFound'
  <2> SUFFICES ASSUME pc' = "create", NEW j \in Entries, Occupied(j)',
                      pool'[j].key = client'.key
               PROVE  FALSE
    BY DEF NotFound, Matches
  <2>1. client' = client /\ ~pool_create_cp /\ (pc = "create" \/ pool_get_cp)
    BY DEF Next, vars, shared, tick, child_restarts, pool_backend_timer,
     read_startup_packet, close_idle_signal, check_restart, pool_get_cp, use_after_free,
     pool_create_cp, eviction_crashes, new_connection_fails, pool_do_auth,
     connect_using_existing_connection, session_crashes, session_ends, session_discarded,
     session_exits, accept, backend_closes, failback, set_new_master, request_restart,
     fork_a_child, ChildExits
  <2>2. j \in Matches(client.key)
    BY <1>2, <2>1, OccupiedBefore DEF Matches
  <2>3. pool_get_cp
    BY <2>1, <2>2 DEF KeyInv, NotFound
  <2> DEFINE i == FirstEntry(Matches(client.key))
  <2>4. i \in Entries /\ Occupied(i) /\ pool[i].key = client.key
    BY <2>2, FoundEntry
  <2>5. pool' = Clear(i)
    <3>1. pool' = ShortClear(i) \/ pool' = Discarded(i)
      BY <2>2, <2>3 DEF pool_get_cp
    <3>2. QED
      BY <1>1, <2>4, <3>1 DEF Discarded
  <2>6. j = i
    BY <2>2, <2>4 DEF Matches, KeyInv, UniqueKey
  <2>7. pool'[j] = Empty
    BY <2>4, <2>5, <2>6, Cleared1 DEF Inv
  <2>8. pool'[j].key # NoKey
    BY DEF Occupied
  <2>9. QED
    BY <2>7, <2>8, EmptyEntry
<1>5. NextMasterLater'
  BY StepNextMaster DEF KeyInv
<1>6. QED
  BY <1>2, <1>3, <1>4, <1>5 DEF KeyInv

\* With at most as many backends as the memset of pool_get_cp clears slots,
\* no two entries of a pool are for the same user and database, although the
\* master that marks an entry as filled may change at any moment: the entry
\* pool_get_cp and pool_discard_cp act on is the client's.
THEOREM OneEntryPerKey ==
    ASSUME N <= Cleared
    PROVE  Spec => []UniqueKey
<1>1. Init => KeyInv
  BY EmptyEntry DEF Init, KeyInv, NothingFreed, NextMasterLater, UniqueKey, NotFound,
                    Occupied
<1>2. Inv /\ KeyInv /\ [Next]_vars => KeyInv'
  BY StepKey
<1>3. KeyInv => UniqueKey
  BY DEF KeyInv
<1>4. QED
  BY <1>1, <1>2, <1>3, Invariance, PTL DEF Spec
-----------------------------------------------------------------------------
(* connection_life_time.                                                   *)

\* A slot that points to released memory belongs to an entry without a
\* connection, which nobody has used since.
DanglingUnused == \A i \in Entries :
    pool[i].freed # {} => pool[i].slots = {} /\ pool[i].closetime = 0

\* closetime is not in the future.
ClosedBefore == \A i \in Entries : pool[i].closetime <= now

TimeInv == NextMasterLater /\ DanglingUnused /\ ClosedBefore /\ AlarmInTime

\* closetime is set at the end of a session, and nowhere else.
LEMMA Closetimes ==
    ASSUME Inv, [Next]_vars, NEW i \in Entries
    PROVE  \/ pool'[i] = pool[i]
           \/ pool'[i].closetime = 0
           \/ session_ends /\ i = cur
<1> DEFINE Goal == \/ pool'[i] = pool[i] \/ pool'[i].closetime = 0
                   \/ session_ends /\ i = cur
<1> SUFFICES Goal
  OBVIOUS
<1>1. Empty.closetime = 0 /\ pool \in [Entries -> PoolEntries]
  BY EmptyEntry DEF Empty, Inv, TypeOK
<1>2. CASE pool' = pool \/ ChildExits
  BY <1>1, <1>2 DEF ChildExits
<1>3. ASSUME NEW S, pool' = [j \in Entries |-> IF j \in S THEN Empty ELSE pool[j]]
      PROVE  Goal
  BY <1>1, <1>3
<1>4. CASE pool_backend_timer \/ close_idle_signal \/ check_restart
  BY <1>2, <1>3, <1>4 DEF pool_backend_timer, close_idle_signal, check_restart,
                          close_idle_connection
<1>5. ASSUME NEW c, pool' = Clear(c) PROVE Goal
  BY <1>1, <1>5 DEF Clear
<1>6. CASE pool_do_auth \/ session_discarded
  BY <1>2, <1>5, <1>6 DEF pool_do_auth, session_discarded, Close
<1>7. CASE pool_get_cp
  <2> DEFINE c == FirstEntry(Matches(client.key))
  <2>1. CASE Matches(client.key) # {}
    <3>1. c \in Entries
      BY <2>1, FoundEntry DEF Inv, TypeOK
    <3>2. \/ pool' = ShortClear(c) \/ pool' = Clear(c)
          \/ pool' = [pool EXCEPT ![c].closetime = 0]
      BY <1>7, <2>1 DEF pool_get_cp, Discarded
    <3> HIDE DEF c
    <3>3. CASE pool' = ShortClear(c)
      <4> DEFINE d == {n \in (pool[c].slots \cap valid) \cup pool[c].freed : n >= Cleared}
                 e == IF d = {} THEN Empty ELSE [Empty EXCEPT !.freed = d, !.key = pool[c].key]
      <4>1. pool' = [pool EXCEPT ![c] = e]
        BY <3>3 DEF ShortClear
      <4>2. e.closetime = 0
        BY DEF Empty
      <4> HIDE DEF e
      <4>3. QED
        BY <1>1, <3>1, <4>1, <4>2
    <3>4. CASE pool' = [pool EXCEPT ![c].closetime = 0]
      <4>1. pool[i] \in PoolEntries
        BY <1>1
      <4>2. QED
        BY <1>1, <3>1, <3>4, <4>1 DEF PoolEntries
    <3>5. QED
      BY <1>5, <3>2, <3>3, <3>4
  <2>2. QED
    BY <1>2, <1>7, <2>1 DEF pool_get_cp
<1>8. CASE pool_create_cp
  <2> DEFINE e == [Empty EXCEPT !.key = client.key, !.packet = client.packet,
                                !.slots = valid \cup Kept.slots,
                                !.freed = Kept.freed \ valid]
  <2>1. pool' = [pool EXCEPT ![Chosen] = e]
    BY <1>8 DEF pool_create_cp
  <2>2. e.closetime = 0
    BY DEF Empty
  <2> HIDE DEF e
  <2>3. QED
    BY <1>1, <2>1, <2>2
<1>9. CASE session_ends
  BY <1>1, <1>9 DEF session_ends
<1>10. QED
  BY <1>2, <1>4, <1>6, <1>7, <1>8, <1>9 DEF Next, vars, tick, child_restarts,
     read_startup_packet, use_after_free, eviction_crashes, new_connection_fails,
     connect_using_existing_connection, session_crashes, session_exits, accept,
     backend_closes, failback, set_new_master, request_restart, fork_a_child

\* The entry in use has a connection to every valid node, and so points to
\* no released memory.
LEMMA InUseNotDangling ==
    ASSUME Inv, DanglingUnused, pc = "session"
    PROVE  cur \in Entries /\ pool[cur].freed = {}
<1>1. cur \in Entries /\ valid \subseteq pool[cur].slots
  BY DEF Inv, EntryInUse
<1>2. pool[cur].freed \subseteq valid
  BY <1>1 DEF Inv, ConnectionsValid
<1>3. QED
  BY <1>1, <1>2 DEF DanglingUnused

LEMMA StepDangling ==
    ASSUME Inv, DanglingUnused, [Next]_vars
    PROVE  DanglingUnused'
<1> SUFFICES ASSUME NEW i \in Entries, pool'[i].freed # {}
             PROVE  pool'[i].slots = {} /\ pool'[i].closetime = 0
  BY DEF DanglingUnused
<1>1. CASE pool'[i] = pool[i]
  BY <1>1 DEF DanglingUnused
<1>2. CASE pc = "lookup" /\ pool' = ShortClear(i)
  <2> DEFINE d == {n \in (pool[i].slots \cap valid) \cup pool[i].freed : n >= Cleared}
             e == IF d = {} THEN Empty ELSE [Empty EXCEPT !.freed = d, !.key = pool[i].key]
  <2>1. pool' = [pool EXCEPT ![i] = e]
    BY <1>2 DEF ShortClear
  <2>2. e.slots = {} /\ e.closetime = 0
    BY DEF Empty
  <2> HIDE DEF e
  <2>3. pool'[i] = e
    BY <2>1 DEF Inv, TypeOK
  <2>4. QED
    BY <2>2, <2>3
<1>3. CASE pool_create_cp /\ i = Chosen
  <2>1. Kept.freed \subseteq valid
    BY <1>3, NewEntry DEF pool_create_cp
  <2> DEFINE e == [Empty EXCEPT !.key = client.key, !.packet = client.packet,
                                !.slots = valid \cup Kept.slots,
                                !.freed = Kept.freed \ valid]
  <2>2. pool' = [pool EXCEPT ![i] = e]
    BY <1>3 DEF pool_create_cp
  <2>3. e.freed = {}
    BY <2>1 DEF Empty
  <2> HIDE DEF e
  <2>4. pool'[i] = e
    BY <2>2 DEF Inv, TypeOK
  <2>5. QED
    BY <2>3, <2>4
<1>4. CASE /\ pool'[i].slots = pool[i].slots /\ pool'[i].freed = pool[i].freed
  <2>1. pool[i].freed # {} /\ pool'[i].slots = {}
    BY <1>4 DEF DanglingUnused
  <2>2. ~(session_ends /\ i = cur)
    BY <2>1, InUseNotDangling DEF session_ends
  <2>3. QED
    BY <1>1, <2>1, <2>2, Closetimes
<1>5. QED
  BY <1>1, <1>2, <1>3, <1>4, Effects, EmptyEntry DEF EntryEffect

\* Time does not go back.
LEMMA Clock ==
    ASSUME Inv, [Next]_vars
    PROVE  now \in Nat /\ now' \in Nat /\ now <= now'
<1>1. now \in Nat
  BY PoolAssumption DEF Inv, TypeOK
<1>2. now' = now \/ now' = now + 1
  BY DEF Next, vars, shared, tick, child_restarts, pool_backend_timer,
     read_startup_packet, close_idle_signal, check_restart, pool_get_cp, use_after_free,
     pool_create_cp, eviction_crashes, new_connection_fails, pool_do_auth,
     connect_using_existing_connection, session_crashes, session_ends, session_discarded,
     session_exits, accept, backend_closes, failback, set_new_master, request_restart,
     fork_a_child
<1>3. QED
  BY <1>1, <1>2

\* The end of a session sets closetime to the present.
LEMMA SessionClosetime ==
    ASSUME Inv, session_ends
    PROVE  /\ cur \in Entries /\ pool'[cur].closetime = now
           /\ \A i \in Entries : i # cur => pool'[i] = pool[i]
<1>1. cur \in Entries /\ pool \in [Entries -> PoolEntries] /\ pool[cur] \in PoolEntries
  BY DEF Inv, EntryInUse, TypeOK, session_ends
<1>2. pool' = [pool EXCEPT ![cur].closetime = now]
  BY DEF session_ends, ClosedAt
<1>3. QED
  BY <1>1, <1>2 DEF PoolEntries

LEMMA StepClosed ==
    ASSUME Inv, ClosedBefore, [Next]_vars
    PROVE  ClosedBefore'
<1> SUFFICES ASSUME NEW i \in Entries PROVE pool'[i].closetime <= now'
  BY DEF ClosedBefore
<1>1. now \in Nat /\ now' \in Nat /\ now <= now'
  BY Clock
<1>2. CASE pool'[i] = pool[i]
  <2>1. pool[i].closetime \in Nat /\ pool[i].closetime <= now
    BY PoolAssumption DEF Inv, TypeOK, PoolEntries, ClosedBefore
  <2>2. QED
    BY <1>1, <1>2, <2>1
<1>3. CASE pool'[i].closetime = 0
  BY <1>1, <1>3
<1>4. CASE session_ends /\ i = cur
  BY <1>1, <1>4, SessionClosetime
<1>5. QED
  BY <1>2, <1>3, <1>4, Closetimes

\* An entry that is idle after a step was idle before, for as long, unless
\* its session has just ended: a new master makes no entry occupied.
LEMMA IdleBefore ==
    ASSUME Inv, TimeInv, [Next]_vars, NEW i \in Idle', ~(session_ends /\ i = cur)
    PROVE  i \in Idle /\ pool'[i] = pool[i]
<1>1. i \in Entries /\ Occupied(i)' /\ pool'[i].closetime > 0
  BY DEF Idle
<1>2. pool'[i] = pool[i]
  BY <1>1, Closetimes
<1>3. pool[i].freed = {}
  BY <1>1, <1>2 DEF TimeInv, DanglingUnused
<1>4. master' \in pool[i].slots
  BY <1>1, <1>2, <1>3 DEF Occupied, HasMaster
<1>5. master \in pool[i].slots
  BY <1>1, <1>4, MasterUnknown DEF TimeInv
<1>6. QED
  BY <1>1, <1>2, <1>5 DEF Idle, Occupied, HasMaster

\* The alarm of session_ends: left to the first idle entry, or set.
LEMMA EndInTime ==
    ASSUME Inv, TimeInv, session_ends
    PROVE  AlarmInTime'
<1> SUFFICES ASSUME alarm'.handler = "pool", NEW i \in Idle'
             PROVE  alarm'.at <= pool'[i].closetime + LifeTime
  BY DEF AlarmInTime
<1>1. [Next]_vars /\ cur \in Entries /\ pool'[cur].closetime = now
  BY SessionClosetime DEF Next
<1>2. now \in Nat /\ LifeTime \in Nat
  BY PoolAssumption DEF Inv, TypeOK
<1>3. CASE OtherIdle(cur)
  <2>1. alarm' = alarm
    BY <1>3 DEF session_ends
  <2>2. CASE i = cur
    <3>1. PICK j \in Entries : j \in Idle
      BY <1>3 DEF OtherIdle, Idle
    <3>2. alarm.at <= pool[j].closetime + LifeTime /\ pool[j].closetime <= now
      BY <2>1, <3>1 DEF TimeInv, AlarmInTime, ClosedBefore
    <3>3. pool[j].closetime \in Nat /\ alarm.at \in Nat
      BY PoolAssumption DEF Inv, TypeOK, PoolEntries
    <3>4. QED
      BY <1>1, <1>2, <2>1, <2>2, <3>2, <3>3
  <2>3. CASE i # cur
    BY <1>1, <2>1, <2>3, IdleBefore DEF TimeInv, AlarmInTime
  <2>4. QED
    BY <2>2, <2>3
<1>4. CASE ~OtherIdle(cur)
  <2>1. alarm'.at = now + LifeTime
    BY <1>4 DEF session_ends
  <2>2. i = cur
    <3>1. SUFFICES ASSUME i # cur PROVE FALSE
      OBVIOUS
    <3>2. i \in Idle
      BY <1>1, <3>1, IdleBefore
    <3>3. QED
      BY <1>4, <3>1, <3>2 DEF OtherIdle, Idle
  <2>3. QED
    BY <1>1, <1>2, <2>1, <2>2
<1>5. QED
  BY <1>3, <1>4

\* The alarm of pool_backend_timer: set for the first of the entries that are
\* left, as long as there is one.
LEMMA TimerInTime ==
    ASSUME Inv, TimeInv, pool_backend_timer
    PROVE  AlarmInTime'
<1> SUFFICES ASSUME alarm'.handler = "pool", NEW i \in Idle'
             PROVE  alarm'.at <= pool'[i].closetime + LifeTime
  BY DEF AlarmInTime
<1>1. i \in Idle /\ pool'[i] = pool[i]
  <2>1. [Next]_vars /\ ~session_ends
    BY DEF Next, pool_backend_timer, session_ends
  <2>2. QED
    BY <2>1, IdleBefore
<1>2. i \in Pending
  <2>1. i \notin Due
    <3>1. i \in Due => pool'[i].closetime = 0
      BY EmptyEntry DEF pool_backend_timer, Due
    <3>2. i \in Entries /\ pool'[i].closetime > 0
      BY <1>1 DEF Idle
    <3>3. QED
      BY <3>1, <3>2
  <2>2. QED
    BY <1>1, <2>1 DEF Pending, Idle
<1> DEFINE left == {LifeTime - (now - pool[j].closetime) : j \in Pending}
           least == CHOOSE t \in left : \A u \in left : t <= u
<1>3. now \in Nat /\ LifeTime \in Nat
  BY PoolAssumption DEF Inv, TypeOK
<1>4. ASSUME NEW j \in Pending
      PROVE  /\ pool[j].closetime \in Nat
             /\ LifeTime - (now - pool[j].closetime) \in Nat \ {0}
  <2>1. j \in Entries /\ ~ (now >= pool[j].closetime + LifeTime)
    BY DEF Pending, Due
  <2>2. pool[j].closetime \in Nat
    BY <2>1, PoolAssumption DEF Inv, TypeOK, PoolEntries
  <2>3. QED
    BY <1>3, <2>1, <2>2
<1>5. left \subseteq Nat \ {0} /\ LifeTime - (now - pool[i].closetime) \in left
  BY <1>2, <1>4
<1>6. alarm' = [at |-> now + (IF least <= 0 THEN 1 ELSE least), handler |-> "pool"]
  BY <1>2 DEF pool_backend_timer
<1>7. least \in Nat \ {0} /\ least <= LifeTime - (now - pool[i].closetime)
  <2> HIDE DEF left
  <2>1. QED
    BY <1>5, ChosenLeast
<1> HIDE DEF least, left
<1>8. alarm'.at = now + least
  BY <1>6, <1>7
<1>9. QED
  BY <1>1, <1>2, <1>3, <1>4, <1>7, <1>8

LEMMA StepTime == Inv /\ TimeInv /\ [Next]_vars => TimeInv'
<1> SUFFICES ASSUME Inv, TimeInv, [Next]_vars PROVE TimeInv'
  OBVIOUS
<1>1. NextMasterLater' /\ DanglingUnused' /\ ClosedBefore'
  BY StepNextMaster, StepDangling, StepClosed DEF TimeInv
<1>2. AlarmInTime'
  <2>1. CASE session_ends
    BY <2>1, EndInTime
  <2>2. CASE pool_backend_timer
    BY <2>2, TimerInTime
  <2>3. CASE alarm'.handler # "pool"
    BY <2>3 DEF AlarmInTime
  <2>4. CASE alarm' = alarm /\ ~session_ends
    BY <2>4, IdleBefore DEF TimeInv, AlarmInTime
  <2>5. CASE ChildExits
    BY <2>3, <2>5, EmptyEntry DEF ChildExits
  <2>6. CASE read_startup_packet \/ \E k \in Keys, p \in Packets : accept(k, p)
    <3>1. alarm' = alarm \/ alarm'.handler # "pool"
      BY <2>6, EmptyEntry DEF read_startup_packet, AlarmAfterStartup, accept
    <3>2. ~session_ends
      BY <2>6 DEF read_startup_packet, accept, session_ends
    <3>3. QED
      BY <2>3, <2>4, <3>1, <3>2
  <2>7. CASE tick
    <3>1. alarm' = alarm \/ alarm'.handler # "pool"
      BY <2>7, EmptyEntry DEF tick, ChildExits, timer
    <3>2. QED
      BY <2>1, <2>3, <2>4, <3>1
  <2>8. QED
    BY <2>1, <2>2, <2>4, <2>5, <2>6, <2>7 DEF Next, vars, timer, child_restarts,
       close_idle_signal, check_restart, pool_get_cp, use_after_free,
       pool_create_cp, eviction_crashes, new_connection_fails, pool_do_auth,
       connect_using_existing_connection, session_crashes, session_discarded,
       session_exits, backend_closes, failback, set_new_master, request_restart,
       fork_a_child
<1>3. QED
  BY <1>1, <1>2 DEF TimeInv

\* One alarm serves connection_life_time for all entries of a pool: while it
\* is pending it is never later than the expiry of ANY idle connection, for
\* pools of every size and whatever sessions end, entries are evicted, masters
\* change and other alarms replace it in between.  (That it IS pending is more
\* than the code has; see "Known deviations" in the README.)
THEOREM AlarmNotLate == Spec => []AlarmInTime
<1>1. Init => TimeInv
  BY EmptyEntry, PoolAssumption DEF Init, TimeInv, NextMasterLater, DanglingUnused,
     ClosedBefore, AlarmInTime
<1>2. Inv /\ TimeInv /\ [Next]_vars => TimeInv'
  BY StepTime
<1>3. TimeInv => AlarmInTime
  BY DEF TimeInv
<1>4. QED
  BY <1>1, <1>2, <1>3, Invariance, PTL DEF Spec
=============================================================================
