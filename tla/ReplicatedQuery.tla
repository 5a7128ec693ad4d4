--------------------------- MODULE ReplicatedQuery ---------------------------
(***************************************************************************)
(* Native replication: how the child processes run simple queries on       *)
(* several PostgreSQL nodes at once and keep the nodes alike without a     *)
(* commit protocol (SimpleQuery, start_internal_transaction, insert_lock,  *)
(* pool_send_and_wait, read_kind_from_backend, CommandComplete,            *)
(* ReadyForQuery, end_internal_transaction).                               *)
(*                                                                         *)
(* PostgreSQL is external and abstracted to what the code relies on: one   *)
(* updatable row and one table with a serial column per node, locks held   *)
(* to the end of a transaction, a sequence that no rollback takes back,    *)
(* transaction states I, T and E, and a backend process that finishes the  *)
(* statement it has received before it notices that its client is gone.    *)
(* The parent is abstracted to Failover, which sets the requested nodes    *)
(* down and kills the children (module Failover has the details).          *)
(***************************************************************************)
EXTENDS Integers, Sequences, FiniteSets

CONSTANTS
    N,                \* number of configured nodes (NUM_BACKENDS)
    Sessions,         \* child processes, each with one client
    Statements,       \* Statements[s]: the statements the client of s issues
    Faults,           \* the kinds of fault that may happen
    LockKind,         \* what need_insert_lock returns for an INSERT: 0, 1 or 3
    OneChild,         \* num_init_children = 1
    StopOnMismatch,   \* replication_stop_on_mismatch
    FailoverOnTuples, \* failover_if_affected_tuples_mismatch
    MaxStmts,         \* bound: MaxStmts[s] statements of session s
    MaxFaults         \* bound: faults

AllStatements == {"begin", "commit", "rollback", "update", "insert",
                  "select", "badselect"}
AllFaults == {"crash", "local", "drift", "deadlock", "frontend", "kill", "stall"}

ASSUME ReplicationAssumption ==
    /\ N \in Nat \ {0}
    /\ IsFiniteSet(Sessions)
    /\ Statements \in [Sessions -> SUBSET AllStatements]
    /\ Faults \subseteq AllFaults
    /\ LockKind \in {0, 1, 3}
    /\ {OneChild, StopOnMismatch, FailoverOnTuples} \subseteq BOOLEAN
    /\ OneChild => \A s, o \in Sessions : s = o
    /\ MaxStmts \in [Sessions -> Nat]
    /\ MaxFaults \in Nat

VARIABLES
    alive,     \* nodes whose PostgreSQL runs
    log,       \* log[n]: the writes committed on node n, in commit order
    seq,       \* seq[n]: the last value of the sequence behind the serial column
    tx,        \* tx[s][n]: the transaction of session s on node n
    chan,      \* chan[s][n]: what travels between child s and its backend on n
    down,      \* nodes with backend_status CON_DOWN
    req,       \* nodes named in failover requests the parent has not served
    child,     \* child[s]: the state of child process s
    acked,     \* writes whose commit was reported to the client
    faulty,    \* nodes that answered some statement in their own way
    suspected, \* nodes found to disagree with the others
    cut,       \* an INSERT has ended on some nodes only
    faults     \* number of faults so far

vars == <<alive, log, seq, tx, chan, down, req, child, acked, faulty,
          suspected, cut, faults>>
pgVars == <<alive, log, seq, tx>>
ghosts == <<acked, faulty, suspected, cut, faults>>

Nodes == 0 .. N - 1
Up == Nodes \ down
Least(S) == CHOOSE n \in S : \A m \in S : n <= m
REAL_MASTER_NODE_ID == Least(Up)

is_commit_query(st) == st \in {"commit", "rollback"}
is_select_query(st) == st \in {"select", "badselect"}

-----------------------------------------------------------------------------
(* One PostgreSQL backend process per session and node.                     *)

NoTx == [st |-> "I", w |-> <<>>, locks |-> {}]
Aborted(t) == IF t.st = "I" THEN NoTx ELSE [NoTx EXCEPT !.st = "E"]

Empty == [is |-> "empty"]
Eof == [is |-> "eof"]
Request(q) == [is |-> "request", q |-> q]
Ready(z) == [is |-> "ready", z |-> z]

(* The whole reply to a statement: its first packet, the affected rows, the *)
(* transaction state in ReadyForQuery, and whether the error is a deadlock. *)
Reply(kind, rows, z, dead) ==
    [is |-> "reply", kind |-> kind, rows |-> rows, z |-> z, dead |-> dead]

Asked(s, n, qs) ==
    /\ n \in alive
    /\ chan[s][n].is = "request"
    /\ chan[s][n].q \in qs

Free(l, s, n) == \A o \in Sessions \ {s} : l \notin tx[o][n].locks

Answer(s, n, kind, rows, t) ==
    /\ tx' = [tx EXCEPT ![s][n] = t]
    /\ chan' = [chan EXCEPT ![s][n] = Reply(kind, rows, t.st, FALSE)]
    /\ UNCHANGED <<alive, down, req, child, acked, suspected, cut>>

pg_begin(s, n) ==
    /\ Asked(s, n, {"begin"})
    /\ tx[s][n].st # "E"
    /\ Answer(s, n, "C", 0, [tx[s][n] EXCEPT !.st = "T"])
    /\ UNCHANGED <<log, seq, faulty, faults>>

pg_end(s, n) ==
    /\ Asked(s, n, {"commit", "rollback"})
    /\ log' = IF chan[s][n].q = "commit"
              THEN [log EXCEPT ![n] = @ \o tx[s][n].w] ELSE log
    /\ Answer(s, n, "C", 0, NoTx)
    /\ UNCHANGED <<seq, faulty, faults>>

(* A statement that fails wherever it runs: the query sent to abort a       *)
(* transaction, a wrong SELECT, and anything in an aborted transaction.     *)
pg_error(s, n) ==
    /\ \/ Asked(s, n, {"error", "badselect"})
       \/ /\ Asked(s, n, {"begin", "update", "insert", "select", "lock", "rowlock"})
          /\ tx[s][n].st = "E"
    /\ Answer(s, n, "E", 0, Aborted(tx[s][n]))
    /\ UNCHANGED <<log, seq, faulty, faults>>

pg_select(s, n) ==
    /\ Asked(s, n, {"select"})
    /\ tx[s][n].st # "E"
    /\ Answer(s, n, "C", 0, tx[s][n])
    /\ UNCHANGED <<log, seq, faulty, faults>>

(* Outside a transaction block a write commits at once.                     *)
Write(s, n, e, l) ==
    LET t == tx[s][n]
    IN  /\ log' = IF t.st = "I" THEN [log EXCEPT ![n] = Append(@, e)] ELSE log
        /\ Answer(s, n, "C", 1,
                  IF t.st = "I" THEN NoTx
                  ELSE [t EXCEPT !.w = Append(@, e), !.locks = @ \cup l])

pg_update(s, n) ==
    /\ Asked(s, n, {"update"})
    /\ tx[s][n].st # "E"
    /\ Free("row", s, n)
    /\ Write(s, n, [id |-> <<s, child[s].count>>, val |-> 0], {"row"})
    /\ UNCHANGED <<seq, faulty, faults>>

pg_insert(s, n) ==
    /\ Asked(s, n, {"insert"})
    /\ tx[s][n].st # "E"
    /\ Free("lock", s, n)
    /\ seq' = [seq EXCEPT ![n] = @ + 1]
    /\ Write(s, n, [id |-> <<s, child[s].count>>, val |-> seq[n] + 1], {})
    /\ UNCHANGED <<faulty, faults>>

pg_lock(s, n) ==
    /\ Asked(s, n, {"lock", "rowlock"})
    /\ tx[s][n].st # "E"
    /\ Free(chan[s][n].q, s, n)
    /\ Answer(s, n, "C", 0, [tx[s][n] EXCEPT !.locks = @ \cup {chan[s][n].q}])
    /\ UNCHANGED <<log, seq, faulty, faults>>

Fault(f) ==
    /\ f \in Faults
    /\ faults < MaxFaults
    /\ faults' = faults + 1

(* A write fails on this node only.                                         *)
pg_local_error(s, n) ==
    /\ Fault("local")
    /\ Asked(s, n, {"update", "insert"})
    /\ tx[s][n].st # "E"
    /\ tx' = [tx EXCEPT ![s][n] = Aborted(@)]
    /\ chan' = [chan EXCEPT ![s][n] = Reply("E", 0, Aborted(tx[s][n]).st, FALSE)]
    /\ faulty' = faulty \cup {n}
    /\ cut' = (cut \/ chan[s][n].q = "insert")
    /\ UNCHANGED <<alive, log, seq, down, req, child, acked, suspected>>

(* The data of this node has drifted: the UPDATE finds no row.              *)
pg_drift(s, n) ==
    /\ Fault("drift")
    /\ Asked(s, n, {"update"})
    /\ tx[s][n].st # "E"
    /\ Answer(s, n, "C", 0, tx[s][n])
    /\ faulty' = faulty \cup {n}
    /\ UNCHANGED <<log, seq>>

(* The backend is chosen as the victim of a deadlock while it waits.        *)
pg_deadlock(s, n) ==
    /\ Fault("deadlock")
    /\ Asked(s, n, {"lock", "rowlock"})
    /\ tx[s][n].st # "E"
    /\ tx' = [tx EXCEPT ![s][n] = Aborted(@)]
    /\ chan' = [chan EXCEPT ![s][n] = Reply("E", 0, Aborted(tx[s][n]).st, TRUE)]
    /\ UNCHANGED <<alive, log, seq, down, req, child, acked, faulty, suspected, cut>>

(* PostgreSQL on node n dies for good; replies already sent can be read.    *)
Crash(n) ==
    /\ Fault("crash")
    /\ n \in alive
    /\ alive' = alive \ {n}
    /\ tx' = [s \in Sessions |-> [tx[s] EXCEPT ![n] = NoTx]]
    /\ chan' = [s \in Sessions |->
                  IF chan[s][n].is = "request"
                  THEN [chan[s] EXCEPT ![n] = Eof] ELSE chan[s]]
    /\ UNCHANGED <<log, seq, down, req, child, acked, faulty, suspected, cut>>

(* The child is gone: the backend process rolls back once it has finished   *)
(* the statement in hand.                                                   *)
pg_disconnect(s, n) ==
    /\ child[s].pc = "exit"
    /\ chan[s][n].is # "request"
    /\ <<tx[s][n], chan[s][n]>> # <<NoTx, Empty>>
    /\ tx' = [tx EXCEPT ![s][n] = NoTx]
    /\ chan' = [chan EXCEPT ![s][n] = Empty]
    /\ UNCHANGED <<alive, log, seq, down, req, child, ghosts>>

-----------------------------------------------------------------------------
(* A child process.  pc: idle; begin, lock, sync, abort, commit: commands   *)
(* of pgpool's own, one node of todo at a time; send, wait: the client's    *)
(* statement; reply, ready: reading what came back; exit: the session is    *)
(* over and its backends are being dropped.                                 *)

NewChild(count) ==
    [pc |-> "idle", stmt |-> "none", where |-> {}, todo |-> {},
     tstate |-> [n \in Nodes |-> "I"], internal |-> {}, kind |-> LockKind,
     dead |-> FALSE, ntuples |-> [n \in Nodes |-> -1], mismatch |-> FALSE,
     doomed |-> FALSE, ids |-> {}, count |-> count]

Init ==
    /\ alive = Nodes
    /\ log = [n \in Nodes |-> <<>>]
    /\ seq = [n \in Nodes |-> 0]
    /\ tx = [s \in Sessions |-> [n \in Nodes |-> NoTx]]
    /\ chan = [s \in Sessions |-> [n \in Nodes |-> Empty]]
    /\ down = {}
    /\ req = {}
    /\ child = [s \in Sessions |-> NewChild(0)]
    /\ acked = {}
    /\ faulty = {}
    /\ suspected = {}
    /\ cut = FALSE
    /\ faults = 0

MASTER_NODE_ID(c) == Least(c.where)

(* The session of c ends; what runs half way is an INSERT without its twin. *)
Exited(c) == [c EXCEPT !.pc = "exit", !.doomed = FALSE]
HalfInsert(c) == c.stmt = "insert" /\ c.pc \in {"send", "wait", "reply"}
End(s) ==
    /\ child' = [child EXCEPT ![s] = Exited(@)]
    /\ cut' = (cut \/ HalfInsert(child[s]))

(* Mutant: a write outside a transaction is balanced like a SELECT.         *)
MutBalanceWrites(c, st, b) ==
    IF is_select_query(st) \/ st \in {"update", "insert"}
    THEN IF c.tstate[REAL_MASTER_NODE_ID] = "I" THEN {b} ELSE {REAL_MASTER_NODE_ID}
    ELSE Up

(* Where a statement goes; b is the node the session balances its load to.  *)
pool_where_to_send(c, st, b) ==
    IF is_select_query(st)
    THEN IF c.tstate[REAL_MASTER_NODE_ID] = "I" THEN {b} ELSE {REAL_MASTER_NODE_ID}
    ELSE Up

AfterLock(c) == [c EXCEPT !.pc = "send", !.todo = {}]

(* Mutant: no INSERT is taken to need the lock.                             *)
MutNoInsertLock(c) == FALSE

need_insert_lock(c) == c.stmt = "insert" /\ LockKind # 0

AfterBegin(c) ==
    IF need_insert_lock(c) /\ Cardinality(c.where) > 1
    THEN [c EXCEPT !.pc = "lock", !.todo = {MASTER_NODE_ID(c)}]
    ELSE AfterLock(c)

(* Nodes on which an internal transaction is to be started.                 *)
ToBegin(c) ==
    IF Cardinality(c.where) > 1 /\ c.stmt \in {"update", "insert", "select", "badselect"}
    THEN {n \in c.where \ c.internal : c.tstate[n] = "I"} ELSE {}

(* A client sends a statement.  INSERT is used outside transaction blocks   *)
(* only, so that no transaction takes two locks.                            *)
SimpleQuery(s, st, b) ==
    LET c == [child[s] EXCEPT !.stmt = st, !.count = @ + 1, !.kind = LockKind,
                  !.dead = FALSE, !.where = pool_where_to_send(child[s], st, b),
                  !.ids = IF st = "rollback" THEN {} ELSE @]
    IN  /\ child[s].pc = "idle"
        /\ child[s].count < MaxStmts[s]
        /\ b \in Up
        /\ st \in {"begin", "insert"} => child[s].tstate[REAL_MASTER_NODE_ID] = "I"
        /\ is_commit_query(st) => child[s].tstate[REAL_MASTER_NODE_ID] # "I"
        /\ child' = [child EXCEPT ![s] =
                IF ToBegin(c) # {} THEN [c EXCEPT !.pc = "begin", !.todo = ToBegin(c)]
                ELSE AfterBegin(c)]
        /\ UNCHANGED <<pgVars, chan, down, req, ghosts>>

(* Sending to a dead node is noticed when its reply is read.                *)
Sent(s, S, q) ==
    chan' = [chan EXCEPT ![s] = [n \in Nodes |->
        IF n \notin S THEN @[n] ELSE IF n \in alive THEN Request(q) ELSE Eof]]

-----------------------------------------------------------------------------
(* Commands of pgpool's own: do_command, do_error_command, do_query.        *)

(* Mutant: a deadlock on the master is not passed on to the other nodes.    *)
MutDeadlockNotPassed(c) ==
    CASE c.pc = "begin" -> "begin"
      [] c.pc = "lock" -> IF c.kind = 1 THEN "lock" ELSE "rowlock"
      [] c.pc \in {"sync", "abort"} -> "error"
      [] c.pc = "commit" -> "commit"

Command(c) ==
    CASE c.pc = "begin" -> "begin"
      [] c.pc = "lock" -> IF c.dead THEN "error" ELSE IF c.kind = 1 THEN "lock" ELSE "rowlock"
      [] c.pc \in {"sync", "abort"} -> "error"
      [] c.pc = "commit" -> "commit"

(* The node whose turn it is: in node order, but a COMMIT reaches the       *)
(* master last.                                                             *)
Turn(c) ==
    IF c.pc = "commit" /\ c.todo # {MASTER_NODE_ID(c)}
    THEN Least(c.todo \ {MASTER_NODE_ID(c)}) ELSE Least(c.todo)

do_command(s) ==
    /\ child[s].todo # {}
    /\ child[s].pc \in {"begin", "lock", "sync", "abort", "commit"}
    /\ chan[s][Turn(child[s])].is = "empty"
    /\ Sent(s, {Turn(child[s])}, Command(child[s]))
    /\ UNCHANGED <<pgVars, down, req, child, ghosts>>

(* The reply r of node n to the command in hand.                            *)
Got(s, pc, n, r) ==
    /\ child[s].pc = pc
    /\ child[s].todo # {}
    /\ n = Turn(child[s])
    /\ chan[s][n].is = "reply"
    /\ r = chan[s][n]

start_internal_transaction(s, n, r) ==
    LET c == [child[s] EXCEPT !.tstate[n] = r.z, !.todo = @ \ {n},
                  !.internal = @ \cup {n}]
    IN  /\ Got(s, "begin", n, r)
        /\ child' = [child EXCEPT ![s] = IF c.todo = {} THEN AfterBegin(c) ELSE c]
        /\ chan' = [chan EXCEPT ![s][n] = Empty]
        /\ UNCHANGED <<pgVars, down, req, ghosts>>

(* The lock on the master.  A row lock needs no lock on the other nodes; an *)
(* error while taking it goes unseen until the result turns out empty, and  *)
(* then a table lock is tried.  A deadlock on a table lock is passed on to  *)
(* the other nodes as an error.                                             *)
insert_lock_master(s, n, r) ==
    LET c == child[s]
        others == c.where \ {n}
    IN  /\ Got(s, "lock", n, r)
        /\ n = MASTER_NODE_ID(c)
        /\ chan' = [chan EXCEPT ![s][n] = Empty]
        /\ child' = [child EXCEPT ![s] =
              CASE c.kind = 3 /\ r.kind = "C" -> AfterLock(c)
                [] c.kind = 3 /\ r.kind = "E" -> [c EXCEPT !.kind = 1]
                [] c.kind = 1 -> [c EXCEPT !.dead = r.dead, !.tstate[n] = r.z,
                                           !.todo = others]]
        /\ UNCHANGED <<pgVars, down, req, ghosts>>

insert_lock_other(s, n, r) ==
    LET c == [child[s] EXCEPT !.tstate[n] = r.z, !.todo = @ \ {n}]
    IN  /\ Got(s, "lock", n, r)
        /\ n # MASTER_NODE_ID(c)
        /\ chan' = [chan EXCEPT ![s][n] = Empty]
        /\ IF r.dead THEN End(s)
           ELSE /\ child' = [child EXCEPT ![s] = IF c.todo = {} THEN AfterLock(c) ELSE c]
                /\ UNCHANGED cut
        /\ UNCHANGED <<pgVars, down, req, acked, faulty, suspected, faults>>

(* do_error_command reads as far as the error; ReadyForQuery stays unread.  *)
do_error_command(s, n, r) ==
    LET c == [child[s] EXCEPT !.todo = @ \ {n}]
    IN  /\ Got(s, "sync", n, r) \/ Got(s, "abort", n, r)
        /\ chan' = [chan EXCEPT ![s][n] = Ready(r.z)]
        /\ child' = [child EXCEPT ![s] =
              IF c.todo = {} THEN [c EXCEPT !.pc = "ready", !.mismatch = FALSE] ELSE c]
        /\ UNCHANGED <<pgVars, down, req, ghosts>>

(* Mutant: signals are not blocked during the COMMITs.                      *)
MutSignalsOpen(c) == FALSE

(* Signals are blocked from the first COMMIT to the last reply; one that    *)
(* came meanwhile is delivered when they are unblocked.                     *)
SignalsBlocked(c) == c.pc = "commit"

end_internal_transaction(s, n, r) ==
    LET c == [child[s] EXCEPT !.todo = @ \ {n}, !.internal = @ \ {n}]
    IN  /\ Got(s, "commit", n, r)
        /\ chan' = [chan EXCEPT ![s][n] = Ready(r.z)]
        /\ child' = [child EXCEPT ![s] =
              CASE c.todo # {} -> c
                [] c.todo = {} /\ c.doomed -> Exited(c)
                [] c.todo = {} /\ ~c.doomed -> [c EXCEPT !.pc = "ready"]]
        /\ UNCHANGED <<pgVars, down, req, ghosts>>

-----------------------------------------------------------------------------
(* The client's statement.                                                  *)

Unsent(s) == {n \in child[s].where : chan[s][n].is = "empty"}

(* Mutant: the optimisation for a single child is used with several.        *)
MutAllAtOnce(c, unsent) ==
    LET m == MASTER_NODE_ID(c)
    IN  IF is_commit_query(c.stmt) THEN (IF unsent = {m} THEN {m} ELSE unsent \ {m})
        ELSE unsent

(* Master first and alone, so that it decides who gets a lock; COMMIT and   *)
(* ROLLBACK reach it last.                                                  *)
NextGroup(c, unsent) ==
    LET m == MASTER_NODE_ID(c)
    IN  IF is_commit_query(c.stmt) THEN (IF unsent = {m} THEN {m} ELSE unsent \ {m})
        ELSE IF OneChild THEN unsent
        ELSE IF m \in unsent THEN {m} ELSE unsent

pool_send_and_wait_send(s) ==
    /\ child[s].pc = "send"
    /\ Sent(s, NextGroup(child[s], Unsent(s)), child[s].stmt)
    /\ child' = [child EXCEPT ![s].pc = "wait"]
    /\ UNCHANGED <<pgVars, down, req, ghosts>>

pool_send_and_wait_wait(s) ==
    /\ child[s].pc = "wait"
    /\ \A n \in child[s].where : chan[s][n].is # "request"
    /\ child' = [child EXCEPT ![s].pc = IF Unsent(s) = {} THEN "reply" ELSE "send"]
    /\ UNCHANGED <<pgVars, chan, down, req, ghosts>>

(* The client is found gone while a backend keeps pgpool waiting.           *)
wait_for_query_response_fails(s) ==
    /\ Fault("frontend")
    /\ child[s].pc \in {"wait", "begin", "lock", "commit"}
    /\ \E n \in Nodes : chan[s][n].is = "request" /\ chan[s][n].q # "rowlock"
    /\ "stall" \in Faults \/ ~ (child[s].pc = "commit" \/ is_commit_query(child[s].stmt))
    /\ End(s)
    /\ UNCHANGED <<pgVars, chan, down, req, acked, faulty, suspected>>

(* The connection to node n is broken.  An error of the socket is reported  *)
(* to the parent, an end of file is not; while pgpool only waits for data   *)
(* an end of file passes for data.                                          *)
backend_lost(s, n) ==
    /\ child[s].pc \notin {"idle", "exit", "send"}
    /\ chan[s][n].is = "eof"
    /\ \/ req' = req \cup {n}
       \/ req' = req /\ child[s].pc # "wait"
    /\ End(s)
    /\ UNCHANGED <<pgVars, chan, down, acked, faulty, suspected, faults>>

-----------------------------------------------------------------------------
(* Comparing the replies.                                                   *)

MaxOf(S) == CHOOSE k \in S : \A j \in S : j <= k
Votes(f, S, n) == Cardinality({m \in S : f[m] = f[n]})

(* Mutant: the master is believed whatever the others say.                  *)
MutTrustMaster(kinds, S, m) == kinds[m]

(* read_kind_from_backend: the kind of a majority of all configured nodes,  *)
(* or else the master's.                                                    *)
trust_kind(kinds, S, m) ==
    LET max_count == MaxOf({Votes(kinds, S, n) : n \in S})
    IN  IF 2 * max_count <= N THEN kinds[m]
        ELSE kinds[CHOOSE n \in S : Votes(kinds, S, n) = max_count]

KindVictims(kinds, S, m) == {n \in S : kinds[n] # trust_kind(kinds, S, m)}

(* find_victim_nodes: votes are counted among the nodes that answered, and  *)
(* a node's own vote alone does not make a maximum.                         *)
find_victim_nodes(ntuples, m) ==
    LET S == {n \in Nodes : ntuples[n] >= 0}
        shared == {n \in S : Votes(ntuples, S, n) > 1}
        maxvotes == IF shared = {} THEN 0 ELSE MaxOf({Votes(ntuples, S, n) : n \in shared})
        top == {n \in S : Votes(ntuples, S, n) = maxvotes}
        majority_ntuples == IF 2 * Cardinality(top) <= Cardinality(S)
                            THEN ntuples[m] ELSE ntuples[Least(top)]
    IN  {n \in S : ntuples[n] # majority_ntuples}

(* Every reply has come: the kinds are compared node by node.               *)
AllReplied(s) ==
    /\ child[s].pc = "reply"
    /\ \A n \in child[s].where : chan[s][n].is = "reply"
KindsOf(s) == [n \in child[s].where |-> chan[s][n].kind]
Agree(s) == Cardinality({chan[s][n].kind : n \in child[s].where}) = 1

ReadKinds(s) ==
    chan' = [chan EXCEPT ![s] = [n \in Nodes |->
        IF n \in child[s].where THEN Ready(chan[s][n].z) ELSE @[n]]]

CommandComplete(s) ==
    LET c == child[s]
        rows == [n \in Nodes |-> IF n \in c.where THEN chan[s][n].rows ELSE -1]
    IN  /\ AllReplied(s)
        /\ Agree(s)
        /\ chan[s][MASTER_NODE_ID(c)].kind = "C"
        /\ ReadKinds(s)
        /\ child' = [child EXCEPT ![s] = [c EXCEPT !.pc = "ready", !.ntuples = rows,
              !.mismatch = @ \/ \E n \in c.where : rows[n] # rows[MASTER_NODE_ID(c)],
              !.ids = IF c.stmt \in {"update", "insert"} THEN @ \cup {<<s, c.count>>} ELSE @]]
        /\ UNCHANGED <<pgVars, down, req, ghosts>>

(* Mutants: the other nodes are left alone, or are not added to the nodes   *)
(* whose replies are read.                                                  *)
MutOthersLeftAlone(c) == [c EXCEPT !.pc = "ready"]
MutOthersNotRead(c) ==
    IF is_select_query(c.stmt) /\ c.tstate[REAL_MASTER_NODE_ID] = "T"
    THEN [c EXCEPT !.pc = "sync", !.todo = Up \ {REAL_MASTER_NODE_ID}]
    ELSE [c EXCEPT !.pc = "ready"]

(* A failed SELECT ran on the master only: the other nodes are made to fail *)
(* too, so that the transaction is aborted everywhere.                      *)
raise_intentional_error_if_need(c) ==
    IF /\ is_select_query(c.stmt)
       /\ c.tstate[REAL_MASTER_NODE_ID] = "T"
       /\ Up # {REAL_MASTER_NODE_ID}
    THEN [c EXCEPT !.pc = "sync", !.where = Up, !.todo = Up \ {REAL_MASTER_NODE_ID}]
    ELSE [c EXCEPT !.pc = "ready"]

ErrorResponse3(s) ==
    /\ AllReplied(s)
    /\ Agree(s)
    /\ chan[s][MASTER_NODE_ID(child[s])].kind = "E"
    /\ ReadKinds(s)
    /\ child' = [child EXCEPT ![s] = [raise_intentional_error_if_need(@) EXCEPT !.ids = {}]]
    /\ UNCHANGED <<pgVars, down, req, ghosts>>

(* The kinds differ: the session ends, and if so configured the nodes that  *)
(* are not trusted are detached.                                            *)
read_kind_mismatch(s) ==
    LET c == child[s]
        victims == KindVictims(KindsOf(s), c.where, MASTER_NODE_ID(c))
    IN  /\ AllReplied(s)
        /\ ~Agree(s)
        /\ suspected' = suspected \cup victims
        /\ req' = IF StopOnMismatch THEN req \cup victims ELSE req
        /\ End(s)
        /\ UNCHANGED <<pgVars, chan, down, acked, faulty, faults>>

(* Mutant: the transaction is aborted on the nodes other than the master.   *)
MutMasterNotAborted(s) ==
    LET c == child[s]
        others == c.where \ {MASTER_NODE_ID(c)}
    IN  /\ c.pc = "ready"
        /\ c.mismatch
        /\ chan' = [chan EXCEPT ![s] = [n \in Nodes |-> IF n \in others THEN Empty ELSE @[n]]]
        /\ child' = [child EXCEPT ![s].pc = "abort", ![s].todo = others, ![s].ids = {}]
        /\ UNCHANGED <<pgVars, down, req, ghosts>>

(* ReadyForQuery with different numbers of rows: detach the losers, or      *)
(* abort the transaction on every node.                                     *)
tuples_mismatch(s) ==
    LET c == child[s]
        victims == find_victim_nodes(c.ntuples, MASTER_NODE_ID(c))
    IN  /\ c.pc = "ready"
        /\ c.mismatch
        /\ suspected' = suspected \cup victims
        /\ IF FailoverOnTuples
           THEN /\ req' = req \cup victims
                /\ End(s)
                /\ UNCHANGED chan
           ELSE /\ chan' = [chan EXCEPT ![s] = [n \in Nodes |->
                               IF n \in c.where THEN Empty ELSE @[n]]]
                /\ child' = [child EXCEPT ![s].pc = "abort", ![s].todo = c.where,
                                          ![s].ids = {}]
                /\ UNCHANGED <<req, cut>>
        /\ UNCHANGED <<pgVars, down, acked, faulty, faults>>

ToCommit(c) == {n \in c.where \cap c.internal : c.tstate[n] # "I"}

(* The rest of ReadyForQuery: close the internal transaction if there is    *)
(* one, then take over the transaction states and tell the client.          *)
ReadyForQuery(s) ==
    LET c == child[s]
        z == [n \in Nodes |-> IF n \in c.where THEN chan[s][n].z ELSE c.tstate[n]]
        closed == z[MASTER_NODE_ID(c)] = "I"
    IN  /\ c.pc = "ready"
        /\ ~c.mismatch
        /\ IF ToCommit(c) # {}
           THEN /\ child' = [child EXCEPT ![s].pc = "commit", ![s].todo = ToCommit(c)]
                /\ chan' = [chan EXCEPT ![s] = [n \in Nodes |->
                               IF n \in ToCommit(c) THEN Empty ELSE @[n]]]
                /\ UNCHANGED acked
           ELSE /\ child' = [child EXCEPT ![s] =
                       [NewChild(c.count) EXCEPT !.tstate = z, !.internal = c.internal,
                            !.ids = IF closed THEN {} ELSE c.ids]]
                /\ chan' = [chan EXCEPT ![s] = [n \in Nodes |-> Empty]]
                /\ acked' = IF closed THEN acked \cup c.ids ELSE acked
        /\ UNCHANGED <<pgVars, down, req, faulty, suspected, cut, faults>>

-----------------------------------------------------------------------------
(* The parent, and signals.                                                 *)

health_check(n) ==
    /\ n \in Up \ (alive \cup req)
    /\ req' = req \cup {n}
    /\ UNCHANGED <<pgVars, chan, down, child, ghosts>>

Killed(c) == IF SignalsBlocked(c) THEN [c EXCEPT !.doomed = TRUE] ELSE Exited(c)

(* The nodes asked for are set down and every child is killed.              *)
Failover ==
    /\ req # {}
    /\ down' = down \cup req
    /\ req' = {}
    /\ child' = [s \in Sessions |-> Killed(child[s])]
    /\ cut' = (cut \/ \E s \in Sessions : HalfInsert(child[s]))
    /\ UNCHANGED <<pgVars, chan, acked, faulty, suspected, faults>>

(* A fast shutdown, or any other SIGINT or SIGQUIT.                         *)
Kill(s) ==
    /\ Fault("kill")
    /\ child[s].pc # "exit"
    /\ child' = [child EXCEPT ![s] = Killed(@)]
    /\ cut' = (cut \/ HalfInsert(child[s]))
    /\ UNCHANGED <<pgVars, chan, down, req, acked, faulty, suspected>>

(* A new child and a new client; connecting to a dead node fails.           *)
Reconnect(s) ==
    /\ child[s].pc = "exit"
    /\ \A n \in Nodes : <<tx[s][n], chan[s][n]>> = <<NoTx, Empty>>
    /\ Up # {} /\ Up \subseteq alive
    /\ child' = [child EXCEPT ![s] = NewChild(@.count)]
    /\ UNCHANGED <<pgVars, chan, down, req, ghosts>>

-----------------------------------------------------------------------------
Backend(s, n) ==
    \/ pg_begin(s, n) \/ pg_end(s, n) \/ pg_error(s, n) \/ pg_select(s, n)
    \/ pg_update(s, n) \/ pg_insert(s, n) \/ pg_lock(s, n)
    \/ pg_local_error(s, n) \/ pg_drift(s, n) \/ pg_deadlock(s, n)
    \/ pg_disconnect(s, n)

Replied(s, n, r) ==
    \/ start_internal_transaction(s, n, r)
    \/ insert_lock_master(s, n, r) \/ insert_lock_other(s, n, r)
    \/ do_error_command(s, n, r) \/ end_internal_transaction(s, n, r)

Child(s) ==
    \/ \E st \in Statements[s], b \in Nodes : SimpleQuery(s, st, b)
    \/ do_command(s)
    \/ \E n \in Nodes : Replied(s, n, chan[s][n]) \/ backend_lost(s, n)
    \/ pool_send_and_wait_send(s) \/ pool_send_and_wait_wait(s)
    \/ wait_for_query_response_fails(s)
    \/ CommandComplete(s) \/ ErrorResponse3(s) \/ read_kind_mismatch(s)
    \/ tuples_mismatch(s) \/ ReadyForQuery(s)
    \/ Kill(s) \/ Reconnect(s)

Next ==
    \/ \E s \in Sessions, n \in Nodes : Backend(s, n)
    \/ \E s \in Sessions : Child(s)
    \/ \E n \in Nodes : Crash(n) \/ health_check(n)
    \/ Failover

Spec == Init /\ [][Next]_vars

-----------------------------------------------------------------------------
(* Properties.                                                              *)

Ids == UNION {{s} \X (1 .. MaxStmts[s]) : s \in Sessions}
WriteRecs == [id : Ids, val : 0 .. Cardinality(Ids)]
TxStates == {"I", "T", "E"}

(* Every variable has its type; in particular a transaction holds at most   *)
(* one lock, and a child never has two messages under way to one backend.   *)
TypeOK ==
    /\ alive \subseteq Nodes /\ down \subseteq Nodes /\ req \subseteq Nodes
    /\ faulty \subseteq Nodes /\ suspected \subseteq Nodes
    /\ seq \in [Nodes -> 0 .. Cardinality(Ids)]
    /\ \A n \in Nodes : log[n] \in Seq(WriteRecs)
    /\ \A s \in Sessions, n \in Nodes :
          /\ tx[s][n].st \in TxStates
          /\ tx[s][n].w \in Seq(WriteRecs)
          /\ Cardinality(tx[s][n].locks) <= 1
          /\ chan[s][n].is \in {"empty", "eof", "request", "reply", "ready"}
    /\ \A s \in Sessions :
          /\ child[s].pc \in {"idle", "begin", "lock", "send", "wait", "reply", "sync",
                              "abort", "ready", "commit", "exit"}
          /\ child[s].todo \subseteq child[s].where
          /\ child[s].where \subseteq Nodes
          /\ child[s].tstate \in [Nodes -> TxStates]
          /\ child[s].pc # "exit" =>
                \A n \in Nodes : chan[s][n].is # "empty" => n \in child[s].where
    /\ acked \subseteq Ids
    /\ cut \in BOOLEAN
    /\ faults \in 0 .. MaxFaults

Updates(n) == SelectSeq(log[n], LAMBDA e : e.val = 0)
IdsIn(n) == {log[n][i].id : i \in DOMAIN log[n]}
Serving == Up \cap alive

(* No session is inside a statement or a transaction, and no failover is    *)
(* under way.                                                               *)
Quiet ==
    /\ req = {}
    /\ \A s \in Sessions :
          /\ child[s].pc \in {"idle", "exit"}
          /\ \A n \in Nodes : <<tx[s][n], chan[s][n]>> = <<NoTx, Empty>>

(* Once everything has come to rest, the nodes still in service hold the    *)
(* same writes, and the updates of one row were committed in the same       *)
(* order: what SimpleQuery's order of sending and the order of the COMMITs  *)
(* are for (pool_proto_modules.c 395-445, end_internal_transaction).        *)
SurvivorsAgree ==
    Quiet => \A n, m \in Serving : IdsIn(n) = IdsIn(m) /\ Updates(n) = Updates(m)

(* A write reported to the client as committed is on every node in service. *)
AckedEverywhere == \A n \in Serving : acked \subseteq IdsIn(n)

(* Between statements a client's transaction is in the same state on every  *)
(* node, and TSTATE, from which the next statement is routed, is that       *)
(* state (do_error_command, raise_intentional_error_if_need).               *)
StatesAgree ==
    \A s \in Sessions : child[s].pc = "idle" =>
        \A n, m \in Serving : /\ child[s].tstate[n] = tx[s][n].st
                              /\ tx[s][n].st = tx[s][m].st

Needs(s, n) ==
    IF chan[s][n].is # "request" THEN {}
    ELSE CASE chan[s][n].q = "update" -> {"row"}
           [] chan[s][n].q = "insert" -> {"lock"}
           [] chan[s][n].q \in {"lock", "rowlock"} -> {chan[s][n].q}
           [] OTHER -> {}
WaitsFor(s, o, n) == s # o /\ Needs(s, n) \cap tx[o][n].locks # {}

(* Two sessions never wait for each other on two different nodes, which no  *)
(* PostgreSQL could notice: the master alone decides who comes first.  That *)
(* holds as long as the master takes its lock: a statement it rejects alone *)
(* is sent to the others all the same (SimpleQuery 424-442).                *)
NoDistributedDeadlock ==
    faulty = {} =>
        \A s, o \in Sessions, n, m \in Nodes :
            ~ (/\ WaitsFor(s, o, n) /\ child[s].pc # "exit"
               /\ WaitsFor(o, s, m) /\ child[o].pc # "exit")

(* The replies of the nodes differ only when some node really answered in   *)
(* its own way: an error one node alone was bound to report (a failed       *)
(* SELECT, a deadlock) never makes the nodes look inconsistent later.       *)
NoFalseMismatch == suspected # {} => faulty # {}

(* A row gets the same serial number on every node, unless an INSERT was    *)
(* cut off half way and left the sequences apart (insert_lock).             *)
SerialsAgree ==
    ~cut => \A n, m \in Serving : \A i \in DOMAIN log[n], j \in DOMAIN log[m] :
               log[n][i].id = log[m][j].id => log[n][i].val = log[m][j].val

(* When one node out of three or more differs from the others, it is that   *)
(* node that is found to disagree, also when it is the master               *)
(* (read_kind_from_backend, find_victim_nodes).                             *)
MinorityLoses ==
    (N >= 3 /\ Cardinality(faulty) = 1 /\ down = {}) => suspected \subseteq faulty
=============================================================================
