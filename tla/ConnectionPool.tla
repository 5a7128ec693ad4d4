--------------------------- MODULE ConnectionPool ---------------------------
(***************************************************************************)
(* The connection pool of one child: max_pool entries, each a set of       *)
(* connections (one per valid backend) for one user/database pair, reused  *)
(* by later clients, evicted when the pool is full and closed by an alarm  *)
(* after connection_life_time seconds.  The same alarm(2) also serves      *)
(* authentication_timeout.  An entry is recognised by the slot of the      *)
(* MASTER node, and the id of the master lives in shared memory, where a   *)
(* failback changes it under the child's feet (streaming replication does  *)
(* not restart the children then).                                         *)
(***************************************************************************)
EXTENDS Integers, FiniteSets

CONSTANTS
    N,              \* number of backends
    Cleared,        \* slots zeroed by the short memset of pool_get_cp
    MaxPool,        \* max_pool
    Keys, NoKey,    \* user/database/protocol triples
    Packets,        \* startup packets that differ in their options
    LifeTime,       \* connection_life_time, > 0
    AuthTimeout,    \* authentication_timeout
    InitialDown,    \* nodes that are down when the child starts
    Ops,            \* what may go wrong in this instance
    MaxTime, MaxEvents  \* bounds: seconds, clients and failures

Nodes == 0 .. (N - 1)
Entries == 1 .. MaxPool
AllOps == {"broken", "bad_startup", "auth_failure", "reuse_failure", "exit",
           "failback", "close_idle"}

ASSUME PoolAssumption ==
    /\ N \in Nat \ {0} /\ Cleared \in Nat /\ MaxPool \in Nat \ {0}
    /\ NoKey \notin Keys /\ Packets # {}
    /\ LifeTime \in Nat \ {0} /\ AuthTimeout \in Nat
    /\ InitialDown \subseteq Nodes /\ InitialDown # Nodes
    /\ Ops \subseteq AllOps
    /\ MaxTime \in Nat \ {0} /\ MaxEvents \in Nat

VARIABLES
    pool,       \* pool_connection_pool[]
    broken,     \* external: connections <<entry, node>> whose socket has input
    cur,        \* the entry in use by the client
    client,     \* its key and startup packet
    pc,         \* where the child is
    valid,      \* private_backend_status: nodes VALID_BACKEND holds of
    up,         \* shared status: nodes that are not down
    master,     \* Req_info->master_node_id
    needRestart,\* process_info[].need_to_restart
    parent,     \* how far failover() has come with a failback
    alarm,      \* the pending alarm(2) and its handler
    expired,    \* backend_timer_expired
    leaked,     \* history: a connection was dropped without being closed
    now, events

shared == <<up, master, needRestart, parent>>
timer == <<alarm, expired>>
vars == <<pool, broken, cur, client, pc, valid, shared, timer, leaked, now, events>>

-----------------------------------------------------------------------------
(* slots: nodes with an open connection; freed: nodes whose slot still     *)
(* points to memory that was released.                                     *)
Empty == [key |-> NoKey, packet |-> CHOOSE p \in Packets : TRUE,
          slots |-> {}, freed |-> {}, closetime |-> 0]

NoAlarm == [at |-> 0, handler |-> "none"]
NoClient == [key |-> NoKey, packet |-> CHOOSE p \in Packets : TRUE]

FirstNode(s) == CHOOSE n \in s : \A m \in s : n <= m
FirstEntry(s) == CHOOSE i \in s : \A j \in s : i <= j

\* MASTER_CONNECTION(p): its slot is not NULL.
HasMaster(i) == master \in pool[i].slots \cup pool[i].freed
Occupied(i) == HasMaster(i) /\ pool[i].key # NoKey
Matches(k) == {i \in Entries : Occupied(i) /\ pool[i].key = k}

\* The scan for an entry reads through the slot of the master of every entry
\* up to the one it finds.
ReadsFreed(last) == \E i \in 1 .. last : master \in pool[i].freed
ScanEnd(k) == IF Matches(k) = {} THEN MaxPool ELSE FirstEntry(Matches(k))

Init ==
    /\ pool = [i \in Entries |-> Empty]
    /\ broken = {}
    /\ cur = 0 /\ client = NoClient
    /\ pc = "loop"
    /\ up = Nodes \ InitialDown
    /\ valid = up
    /\ master = FirstNode(up)
    /\ needRestart = FALSE
    /\ parent = "idle"
    /\ alarm = NoAlarm /\ expired = FALSE
    /\ leaked = FALSE
    /\ now = 1 /\ events = 0

Event == events < MaxEvents /\ events' = events + 1
BrokenAt(i) == {b \in broken : b[1] = i}
Clear(i) == [pool EXCEPT ![i] = Empty]

\* Closing entry i closes the connections of the valid nodes and forgets all.
Close(i) ==
    /\ pool' = Clear(i)
    /\ broken' = broken \ BrokenAt(i)
    /\ leaked' = (leaked \/ ~(pool[i].slots \subseteq valid))

\* child_exit() closes every connection with the process.
ChildExits ==
    /\ pool' = [i \in Entries |-> Empty]
    /\ broken' = {} /\ cur' = 0 /\ client' = NoClient
    /\ pc' = "gone"
    /\ alarm' = NoAlarm /\ expired' = FALSE
    /\ leaked' = FALSE
    /\ UNCHANGED valid

\* The reaper forks a child in its place, with an empty pool and a fresh copy
\* of the status, but not in the middle of a failback.
fork_a_child ==
    /\ pc = "gone" /\ parent = "idle"
    /\ pc' = "loop"
    /\ valid' = up
    /\ UNCHANGED <<pool, broken, cur, client, shared, timer, leaked, now, events>>

-----------------------------------------------------------------------------
(* Time, backends and the parent.                                          *)

\* One second passes; the alarm may go off.  Its handler is either the
\* connection_life_time timer or authentication_timeout (exit).
tick ==
    /\ now < MaxTime /\ now' = now + 1
    /\ pc # "undefined"
    /\ \/ /\ alarm.handler # "none" /\ alarm.at <= now'
          /\ \/ alarm.handler = "auth" /\ ChildExits
             \/ /\ alarm.handler = "pool"
                /\ alarm' = NoAlarm /\ expired' = TRUE
                /\ UNCHANGED <<pool, broken, cur, client, pc, valid, leaked>>
       \/ /\ alarm.handler = "none" \/ alarm.at > now'
          /\ UNCHANGED <<pool, broken, cur, client, pc, valid, timer, leaked>>
    /\ UNCHANGED <<shared, events>>

\* External: a backend closes a pooled connection.
backend_closes(i, n) ==
    /\ "broken" \in Ops /\ Event
    /\ n \in pool[i].slots /\ <<i, n>> \notin broken
    /\ broken' = broken \cup {<<i, n>>}
    /\ UNCHANGED <<pool, cur, client, pc, valid, shared, timer, leaked, now>>

\* failover() for a failback in streaming replication, which does not kill the
\* children: the node's status is written first, ...
failback(n) ==
    /\ "failback" \in Ops /\ Event
    /\ parent = "idle"
    /\ n \in Nodes \ up
    /\ up' = up \cup {n}
    /\ parent' = "status"
    /\ UNCHANGED <<pool, broken, cur, client, pc, valid, master, needRestart, timer,
                   leaked, now>>

\* ... the master chosen from the new statuses is set after failback_command
\* and the search for the primary, ...
set_new_master ==
    /\ parent = "status"
    /\ master' = FirstNode(up)
    /\ parent' = "master"
    /\ UNCHANGED <<pool, broken, cur, client, pc, valid, up, needRestart, timer,
                   leaked, now, events>>

\* ... and last the children are asked to restart.
request_restart ==
    /\ parent = "master"
    /\ needRestart' = TRUE
    /\ parent' = "idle"
    /\ UNCHANGED <<pool, broken, cur, client, pc, valid, up, master, timer, leaked,
                   now, events>>

-----------------------------------------------------------------------------
(* Between clients.                                                        *)

\* Top of the loop: restart after a failback; also child_life_time.
child_restarts ==
    /\ pc = "loop"
    /\ needRestart \/ "exit" \in Ops
    /\ needRestart' = FALSE
    /\ ChildExits
    /\ UNCHANGED <<up, master, parent, now, events>>

Due == {i \in Entries : Occupied(i) /\ pool[i].closetime > 0
                        /\ now >= pool[i].closetime + LifeTime}
Pending == {i \in Entries : Occupied(i) /\ pool[i].closetime > 0} \ Due

\* pool_backend_timer: close what is due, set the alarm for what is not.
pool_backend_timer ==
    /\ pc = "loop" /\ expired
    /\ expired' = FALSE
    /\ pool' = [i \in Entries |-> IF i \in Due THEN Empty ELSE pool[i]]
    /\ broken' = {b \in broken : b[1] \notin Due}
    /\ leaked' = (leaked \/ \E i \in Due : ~(pool[i].slots \subseteq valid))
    /\ alarm' = IF Pending = {} THEN alarm
                ELSE LET left == {LifeTime - (now - pool[i].closetime) : i \in Pending}
                         least == CHOOSE t \in left : \A u \in left : t <= u
                     IN  [at |-> now + (IF least <= 0 THEN 1 ELSE least),
                          handler |-> "pool"]
    /\ UNCHANGED <<cur, client, pc, valid, shared, now, events>>

\* A client is accepted; read_startup_packet starts its own alarm.
accept(k, p) ==
    /\ pc = "loop" /\ ~expired /\ Event
    /\ client' = [key |-> k, packet |-> p]
    /\ alarm' = IF AuthTimeout = 0 THEN alarm
                ELSE [at |-> now + AuthTimeout, handler |-> "auth"]
    /\ pc' = "startup"
    /\ UNCHANGED <<pool, broken, cur, valid, shared, expired, leaked, now>>

\* read_startup_packet: the packet is there and the alarm is switched off; or
\* it is bad, or a cancel request; or the client went away before the length
\* could be read, in which case the alarm stays on.
MutAlarmLeftOn == alarm
AlarmAfterStartup == NoAlarm

read_startup_packet ==
    /\ pc = "startup"
    /\ \/ alarm' = AlarmAfterStartup /\ pc' = "check" /\ UNCHANGED client
       \/ /\ "bad_startup" \in Ops
          /\ alarm' \in {alarm, NoAlarm} /\ pc' = "loop" /\ client' = NoClient
    /\ UNCHANGED <<pool, broken, cur, valid, shared, expired, leaked, now, events>>

-----------------------------------------------------------------------------
(* Finding or making a connection.                                         *)

\* close_idle_connection: the connections of the idle entries are closed.
Idle == {i \in Entries : Occupied(i) /\ pool[i].closetime > 0}

close_idle_connection ==
    /\ pool' = [i \in Entries |-> IF i \in Idle THEN Empty ELSE pool[i]]
    /\ broken' = {b \in broken : b[1] \notin Idle}
    /\ leaked' = (leaked \/ \E i \in Idle : ~(pool[i].slots \subseteq valid))

\* ... as the handler of SIGUSR1, which the parent sends after DROP DATABASE,
\* wherever the child happens to be.
close_idle_signal ==
    /\ "close_idle" \in Ops /\ Event
    /\ pc \notin {"undefined", "gone"}
    /\ close_idle_connection
    /\ UNCHANGED <<cur, client, pc, valid, shared, timer, now>>

\* need_to_restart is looked at once more: idle connections are closed and
\* the status copied.
check_restart ==
    /\ pc = "check"
    /\ pc' = "lookup"
    /\ \/ /\ needRestart
          /\ close_idle_connection
          /\ valid' = up
          /\ needRestart' = FALSE
       \/ /\ ~needRestart
          /\ UNCHANGED <<pool, broken, leaked, valid, needRestart>>
    /\ UNCHANGED <<cur, client, up, master, parent, timer, now, events>>

\* Is a valid node's socket unusable, or its slot missing?
MutMissingSlotIgnored(i) == \E n \in valid : <<i, n>> \in broken
SocketBroken(i) == \E n \in valid : <<i, n>> \in broken \/ n \notin pool[i].slots

\* pool_get_cp with a broken socket: all valid nodes' connections are closed
\* and freed, but only the first slots of the entry are zeroed.
ShortClear(i) ==
    LET dangling == {n \in (pool[i].slots \cap valid) \cup pool[i].freed : n >= Cleared}
    IN  [pool EXCEPT ![i] = IF dangling = {} THEN Empty
                            ELSE [Empty EXCEPT !.freed = dangling, !.key = pool[i].key]]

\* do_child: an entry whose startup packet differs, in length or contents, is
\* discarded (pool_discard_cp).
MutPacketIgnored(i) == TRUE
SamePacket(i) == pool[i].packet = client.packet
MutKeptOnMismatch(i) == pool
Discarded(i) == Clear(i)

pool_get_cp ==
    /\ pc = "lookup"
    /\ ~ReadsFreed(ScanEnd(client.key))
    /\ IF Matches(client.key) = {}
       THEN /\ pc' = "create"
            /\ UNCHANGED <<pool, broken, cur, leaked>>
       ELSE LET i == FirstEntry(Matches(client.key)) IN
            \/ /\ SocketBroken(i)
               /\ pool' = ShortClear(i) /\ broken' = broken \ BrokenAt(i)
               /\ leaked' = (leaked \/ ~(pool[i].slots \subseteq valid))
               /\ pc' = "create" /\ UNCHANGED cur
            \/ /\ ~SocketBroken(i) /\ ~SamePacket(i)
               /\ pool' = Discarded(i) /\ broken' = broken \ BrokenAt(i)
               /\ leaked' = (leaked \/ ~(pool[i].slots \subseteq valid))
               /\ pc' = "create" /\ UNCHANGED cur
            \/ /\ ~SocketBroken(i) /\ SamePacket(i)
               /\ pool' = [pool EXCEPT ![i].closetime = 0]
               /\ cur' = i
               /\ pc' = "reuse" /\ UNCHANGED <<broken, leaked>>
    /\ UNCHANGED <<client, valid, shared, timer, now, events>>

\* The scans of pool_get_cp and pool_create_cp run into freed memory.
use_after_free ==
    /\ \/ pc = "lookup" /\ ReadsFreed(ScanEnd(client.key))
       \/ pc = "create" /\ (\A i \in Entries : HasMaster(i)) /\ ReadsFreed(MaxPool)
    /\ pc' = "undefined"
    /\ UNCHANGED <<pool, broken, cur, client, valid, shared, timer, leaked, now, events>>

\* The entry to fill: the first empty one, else the one idle for longest.
Oldest == {i \in Entries : \A j \in Entries : pool[i].closetime <= pool[j].closetime}
Vacant == {i \in Entries : ~HasMaster(i)}
Chosen == FirstEntry(IF Vacant # {} THEN Vacant ELSE Oldest)

\* Connections of that entry that nobody closes: new_connection overwrites
\* the slots of the valid nodes; eviction closes those and zeroes the rest.
MutEvictedNotClosed == pool[Chosen].slots
LeftBehind == IF Vacant # {} THEN pool[Chosen].slots \cap valid
                             ELSE pool[Chosen].slots \ valid
Kept == IF Vacant # {} THEN pool[Chosen] ELSE Empty

\* Eviction follows the slot of every valid node without a test; an entry left
\* in use by a failed re-authentication may lack that of a node attached since.
SlotMissing == Vacant = {} /\ ~(valid \subseteq pool[Chosen].slots)

pool_create_cp ==
    /\ pc = "create" /\ ~SlotMissing
    /\ Vacant # {} \/ ~ReadsFreed(MaxPool)
    /\ leaked' = (leaked \/ LeftBehind # {})
    /\ pool' = [pool EXCEPT ![Chosen] = [Empty EXCEPT !.key = client.key,
                                                      !.packet = client.packet,
                                                      !.slots = valid \cup Kept.slots,
                                                      !.freed = Kept.freed \ valid]]
    /\ broken' = broken \ BrokenAt(Chosen)
    /\ cur' = Chosen
    /\ pc' = "auth"
    /\ UNCHANGED <<client, valid, shared, timer, now, events>>

eviction_crashes ==
    /\ pc = "create" /\ SlotMissing /\ ~ReadsFreed(MaxPool)
    /\ ChildExits
    /\ UNCHANGED <<shared, now, events>>

\* A backend refuses the connection: its failure is reported and the child
\* exits.
new_connection_fails ==
    /\ pc = "create" /\ ~SlotMissing /\ "exit" \in Ops
    /\ ChildExits
    /\ UNCHANGED <<shared, now, events>>

\* pool_do_auth: the client is in, or the new entry is discarded again.
pool_do_auth ==
    /\ pc = "auth"
    /\ \/ pc' = "session" /\ UNCHANGED <<pool, broken, cur, client, leaked>>
       \/ /\ "auth_failure" \in Ops /\ HasMaster(cur)
          /\ Close(FirstEntry(Matches(client.key)))
          /\ cur' = 0 /\ client' = NoClient /\ pc' = "loop"
    /\ UNCHANGED <<valid, shared, timer, now, events>>

\* connect_using_existing_connection: a failed re-authentication leaves the
\* entry as it is, marked as in use.
connect_using_existing_connection ==
    /\ pc = "reuse"
    /\ \/ pc' = "session" /\ UNCHANGED <<cur, client>>
       \/ /\ "reuse_failure" \in Ops /\ HasMaster(cur)
          /\ pc' = "loop" /\ cur' = 0 /\ client' = NoClient
    /\ UNCHANGED <<pool, broken, valid, shared, timer, leaked, now, events>>

-----------------------------------------------------------------------------
(* The session and its end.                                                *)

\* pool_connection_pool_timer leaves the alarm to an entry that is idle
\* already.
MutOwnTimer(i) == FALSE
OtherIdle(i) == \E j \in Entries \ {i} : Occupied(j) /\ pool[j].closetime > 0

\* The session reads through MASTER_CONNECTION between its queries: a
\* segmentation fault if the master has no slot.
session_crashes ==
    /\ pc = "session" /\ ~HasMaster(cur)
    /\ ChildExits
    /\ UNCHANGED <<shared, now, events>>

\* closetime of a connection whose client leaves.
MutClosedAtExpiry == now + LifeTime
ClosedAt == now

\* The client leaves and the connection is kept.
session_ends ==
    /\ pc = "session" /\ HasMaster(cur)
    /\ pool' = [pool EXCEPT ![cur].closetime = ClosedAt]
    /\ alarm' = IF OtherIdle(cur) THEN alarm
                ELSE [at |-> now + LifeTime, handler |-> "pool"]
    /\ cur' = 0 /\ client' = NoClient /\ pc' = "loop"
    /\ UNCHANGED <<broken, valid, shared, expired, leaked, now, events>>

\* ... or not: connection_cache off, a system database, or a failed reset.
session_discarded ==
    /\ pc = "session" /\ HasMaster(cur)
    /\ Close(FirstEntry(Matches(client.key)))
    /\ cur' = 0 /\ client' = NoClient /\ pc' = "loop"
    /\ UNCHANGED <<valid, shared, timer, now, events>>

\* POOL_ERROR, POOL_FATAL, child_max_connections or SIGQUIT.
session_exits ==
    /\ pc = "session" /\ "exit" \in Ops
    /\ ChildExits
    /\ UNCHANGED <<shared, now, events>>

Next ==
    \/ tick \/ fork_a_child \/ child_restarts \/ pool_backend_timer \/ read_startup_packet
    \/ close_idle_signal \/ check_restart \/ pool_get_cp \/ use_after_free
    \/ pool_create_cp \/ eviction_crashes \/ new_connection_fails \/ pool_do_auth
    \/ connect_using_existing_connection
    \/ session_crashes \/ session_ends \/ session_discarded \/ session_exits
    \/ \E k \in Keys, p \in Packets : accept(k, p)
    \/ \E i \in Entries, n \in Nodes : backend_closes(i, n)
    \/ \E n \in Nodes : failback(n)
    \/ set_new_master \/ request_restart

Spec == Init /\ [][Next]_vars

-----------------------------------------------------------------------------
(* Properties.                                                             *)

PoolEntries == [key : Keys \cup {NoKey}, packet : Packets, slots : SUBSET Nodes,
                freed : SUBSET Nodes, closetime : 0 .. MaxTime]

\* Types of all variables.
TypeOK ==
    /\ pool \in [Entries -> PoolEntries]
    /\ broken \subseteq Entries \X Nodes
    /\ cur \in 0 .. MaxPool
    /\ client \in [key : Keys \cup {NoKey}, packet : Packets]
    /\ pc \in {"loop", "startup", "check", "lookup", "create", "auth", "reuse",
              "session", "gone", "undefined"}
    /\ parent \in {"idle", "status", "master"}
    /\ valid \subseteq Nodes /\ up \subseteq Nodes /\ master \in Nodes
    /\ needRestart \in BOOLEAN /\ expired \in BOOLEAN /\ leaked \in BOOLEAN
    /\ alarm \in [at : Nat, handler : {"none", "pool", "auth"}]
    /\ now \in 1 .. MaxTime /\ events \in 0 .. MaxEvents

\* pool_get_cp and pool_discard_cp act on the FIRST entry with the client's
\* user and database: there are never two.
UniqueKey ==
    \A i, j \in Entries : Occupied(i) /\ Occupied(j) /\ pool[i].key = pool[j].key
                             => i = j

\* A session has a connection to every node the child regards as valid: all
\* query processing follows CONNECTION(backend, i) without a test, and the
\* set of valid nodes may have grown since the entry was filled.
SessionHasEveryNode ==
    pc = "session" => valid \subseteq pool[cur].slots

\* The client of a session is the one its entry was made for.
SessionIsMine ==
    pc = "session" => /\ pool[cur].key = client.key
                      /\ pool[cur].packet = client.packet

\* Every connection to a backend is closed or still in the pool: a backend
\* never sees more than max_pool connections from one child.
NoLeak == ~leaked

\* The alarm of authentication_timeout never reaches a client that has sent
\* its startup packet.  It may go on after a client that went away inside its
\* packet, while the child waits for the next one, whose own packet then
\* restarts it and switches it off; connection_life_time shares the alarm.
AuthAlarmHitsNoSession == alarm.handler = "auth" => pc \in {"loop", "startup"}

\* An alarm of connection_life_time that is pending is never too late for any
\* idle connection, although there is one for all of them: neither the end of
\* another session nor the closing of what was due moves it past the first.
AlarmInTime ==
    alarm.handler = "pool" => \A i \in Idle : alarm.at <= pool[i].closetime + LifeTime

-----------------------------------------------------------------------------
(* Stated for the record: the code does not have the following properties; *)
(* see "Known deviations" in the README.                                   *)

\* While the child waits for clients, some alarm will reach every idle
\* connection in time.
TimerCoversIdle ==
    pc = "loop" =>
        \A i \in Idle : expired \/ (alarm.handler = "pool"
                                     /\ alarm.at <= pool[i].closetime + LifeTime)

\* While the child waits for clients, nothing in its pool is marked in use.
NothingInUseBetweenClients ==
    pc = "loop" => \A i \in Entries : Occupied(i) => pool[i].closetime > 0

\* The connection to the master is there for as long as a session lasts.
SessionMaster == pc = "session" => HasMaster(cur)

\* No scan of the pool reads memory that pool_get_cp has freed.
NoUseAfterFree == pc # "undefined"
=============================================================================
