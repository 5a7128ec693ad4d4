------------------------- MODULE ReplicatedInvariants -------------------------
(***************************************************************************)
(* Native replication: what is always true, and what a step can do.        *)
(*                                                                         *)
(* The invariants of module ReplicatedQuery that its properties follow     *)
(* from, each a conjunction of named parts, and the steps of a child and   *)
(* of a backend written field by field: what the proofs in module          *)
(* ReplicatedQuery_proofs rest on.                                         *)
(*                                                                         *)
(*   Inv      one session: what its child waits for, what its backends     *)
(*            have been asked and what they may have answered              *)
(*   Written  which writes are on which node                               *)
(*   Held     who holds which lock, and what for                           *)
(*   Bounded  how far the counters can go                                  *)
(*   Serial   the serial numbers of the rows inserted                      *)
(***************************************************************************)
EXTENDS ReplicatedQuery

-----------------------------------------------------------------------------
(* Types.                                                                  *)

Writes == {"update", "insert"}
LockQueries == {"lock", "rowlock"}
Queries == AllStatements \cup LockQueries \cup {"error"}
Entries == [id : Sessions \X Nat, val : Nat]
TxRecs == [st : TxStates, w : Seq(Entries), locks : SUBSET {"row", "lock", "rowlock"}]
Requests == [is : {"request"}, q : Queries]
Replies == [is : {"reply"}, kind : {"C", "E"}, rows : {0, 1}, z : TxStates, dead : BOOLEAN]
Readies == [is : {"ready"}, z : TxStates]
Channels == {Empty, Eof} \cup Requests \cup Replies \cup Readies
Places == {"idle", "begin", "lock", "send", "wait", "reply", "sync", "abort", "ready",
           "commit", "exit"}
Children ==
    [pc : Places, stmt : AllStatements \cup {"none"}, where : SUBSET Nodes,
     todo : SUBSET Nodes, tstate : [Nodes -> TxStates], internal : SUBSET Nodes,
     kind : {0, 1, 3}, dead : BOOLEAN, ntuples : [Nodes -> {-1, 0, 1}],
     mismatch : BOOLEAN, doomed : BOOLEAN, ids : SUBSET (Sessions \X Nat), count : Nat]

Shapes ==
    /\ alive \subseteq Nodes /\ faulty \subseteq Nodes
    /\ seq \in [Nodes -> Nat]
    /\ tx \in [Sessions -> [Nodes -> TxRecs]]
    /\ chan \in [Sessions -> [Nodes -> Channels]]
    /\ child \in [Sessions -> Children]

-----------------------------------------------------------------------------
(* What a node may answer.                                                 *)

After(q, st) == IF q = "begin" THEN "T" ELSE IF is_commit_query(q) THEN "I" ELSE st
Failed(st) == IF st = "I" THEN "I" ELSE "E"

\* The answer of a node on which nothing goes wrong.
Fails(q, st) == q \in {"error", "badselect"} \/ (st = "E" /\ ~is_commit_query(q))
Kind(q, st) == IF Fails(q, st) THEN "E" ELSE "C"
Rows(q, st) == IF q \in Writes /\ ~Fails(q, st) THEN 1 ELSE 0

\* The reply r of node n to q in state st: its kind says which state the
\* transaction is in now; only the nodes in fl, and only in answer to a write,
\* and victims of a deadlock answer in a way of their own.
Fair(n, q, st, r, fl) ==
    /\ r.kind = "C" => r.z = After(q, st) /\ (st = "E" => is_commit_query(q))
    /\ r.kind = "E" => r.z = Failed(st) /\ ~is_commit_query(q)
    /\ r.dead => q \in LockQueries /\ r.kind = "E" /\ "deadlock" \in Faults
    /\ ~r.dead /\ (n \notin fl \/ q \notin Writes) => r.kind = Kind(q, st) /\ r.rows = Rows(q, st)

\* x is the transaction of the session on node n, y the connection, al the
\* nodes alive.
In(n, st, x, al) == n \in al => x.st = st

\* Node n is to be asked q in state st, is being asked, or has answered.
Ask(n, q, st, x, y, al, fl) ==
    /\ y.is \in {"empty", "request"} => In(n, st, x, al)
    /\ y.is = "request" => y.q = q
    /\ y.is = "reply" => Fair(n, q, st, y, fl) /\ In(n, y.z, x, al)
    /\ y.is # "ready"

\* Nothing is under way, or only ReadyForQuery is left to be read.
Rest(n, st, x, y, al) == y = Empty /\ In(n, st, x, al)
Readied(n, x, y, al) == y.is = "ready" /\ In(n, y.z, x, al)

-----------------------------------------------------------------------------
(* A session: c is its child process, t and ch its transactions and        *)
(* connections, up the nodes in service.                                   *)

\* What replies to an INSERT's lock can bring apart: insert_lock overlooks a
\* deadlock on the row of its lock table.
LockSafe == "deadlock" \notin Faults \/ LockKind # 3

Uniform(c, up) == \A n, m \in up : c.tstate[n] = c.tstate[m]

Idle(c, t, ch, al, up) ==
    /\ c.internal = {} /\ c.todo = {} /\ ~c.mismatch /\ Uniform(c, up)
    /\ \A n \in up : Rest(n, c.tstate[n], t[n], ch[n], al)

Begins(c, t, ch, al, fl, up) ==
    /\ c.where = up /\ c.todo # {} /\ c.todo \cap c.internal = {} /\ c.todo \cup c.internal = up
    /\ ~c.mismatch /\ c.stmt \in Writes /\ ~c.dead /\ c.kind = LockKind
    /\ \A n \in c.todo : c.tstate[n] = "I" /\ Ask(n, "begin", "I", t[n], ch[n], al, fl)
    /\ \A n \in c.internal : c.tstate[n] = "T" /\ Rest(n, "T", t[n], ch[n], al)

\* The lock on the master, then on the other nodes.
LocksMaster(c, t, ch, al, fl, up) ==
    /\ c.todo = {Least(up)} /\ ~c.dead /\ c.kind # 0
    /\ \A n \in up : c.tstate[n] = "T"
    /\ \A n \in up \ c.todo : Rest(n, "T", t[n], ch[n], al)
    /\ c.kind = LockKind => \A n \in c.todo :
          Ask(n, IF c.kind = 1 THEN "lock" ELSE "rowlock", "T", t[n], ch[n], al, fl)
    /\ c.kind # LockKind => /\ ~LockSafe /\ c.kind = 1
                            /\ \A n \in c.todo : Ask(n, "lock", "E", t[n], ch[n], al, fl)

LocksOthers(c, t, ch, al, fl, up) ==
    /\ c.todo # {} /\ c.todo \subseteq up \ {Least(up)} /\ c.kind = 1
    /\ \A n \in c.todo :
          /\ c.tstate[n] = "T"
          /\ Ask(n, IF c.dead THEN "error" ELSE "lock", "T", t[n], ch[n], al, fl)
    /\ \A n \in up \ c.todo : /\ c.tstate[n] \in {"T", "E"}
                              /\ LockSafe => c.tstate[n] = IF c.dead THEN "E" ELSE "T"
                              /\ Rest(n, c.tstate[n], t[n], ch[n], al)

Locks(c, t, ch, al, fl, up) ==
    /\ c.where = up /\ c.internal = up /\ c.stmt = "insert" /\ ~c.mismatch /\ up # {Least(up)}
    /\ LocksMaster(c, t, ch, al, fl, up) \/ LocksOthers(c, t, ch, al, fl, up)

\* A statement by itself, or inside an internal transaction.
Single(c, up) ==
    /\ c.internal = {} /\ Uniform(c, up) /\ c.stmt \in AllStatements
    /\ is_select_query(c.stmt) => /\ \E b \in up : c.where = {b}
                                  /\ c.tstate[Least(up)] # "I" => c.where = {Least(up)}
    /\ ~is_select_query(c.stmt) => c.where = up
    /\ c.stmt = "begin" => c.tstate[Least(up)] = "I"
    /\ c.stmt \in Writes /\ c.tstate[Least(up)] = "I" => up = {Least(up)}

Internal(c, up) ==
    /\ c.internal = up /\ c.where = up /\ c.stmt \in Writes
    /\ \A n \in up : c.tstate[n] \in {"T", "E"}

Runs(c, t, ch, al, fl, up) ==
    /\ c.todo = {} /\ ~c.mismatch
    /\ Single(c, up) \/ (Internal(c, up) /\ (LockSafe => Uniform(c, up)))
    /\ \A n \in c.where : Ask(n, c.stmt, c.tstate[n], t[n], ch[n], al, fl)
    /\ \A n \in up \ c.where : Rest(n, c.tstate[n], t[n], ch[n], al)

\* The state that node n will be known to be in.
Z(c, ch, n) == IF n \in c.where THEN ch[n].z ELSE c.tstate[n]

Completes(c, t, ch, al, fl, up) ==
    /\ c.todo = {} /\ c.where \subseteq up /\ c.where # {}
    /\ \A n \in c.where : Readied(n, t[n], ch[n], al)
    /\ \A n \in up \ c.where : Rest(n, c.tstate[n], t[n], ch[n], al)
    /\ \/ c.internal = {} /\ \A n, m \in up : Z(c, ch, n) = Z(c, ch, m)
       \/ Internal(c, up)
    /\ c.mismatch =>
          /\ c.where = up
          /\ \A n \in up : ch[n].z = "T" /\ c.ntuples[n] \in {0, 1}
          /\ \A n \in up \ fl : c.ntuples[n] = 1
          /\ \E n \in up : c.ntuples[n] # 1

\* The nodes of todo are made to fail.
Errs(c, t, ch, al, fl, up) ==
    /\ c.where = up /\ c.todo # {} /\ c.todo \subseteq up
    /\ c.internal = {} \/ Internal(c, up)
    /\ \A n \in c.todo : Ask(n, "error", "T", t[n], ch[n], al, fl)
    /\ \A n \in up \ c.todo : Readied(n, t[n], ch[n], al) /\ ch[n].z = "E"

Commits(c, t, ch, al, fl, up) ==
    /\ c.where = up /\ c.todo # {} /\ c.todo = c.internal /\ c.todo \subseteq up /\ ~c.mismatch
    /\ \A n \in c.todo : \E st \in TxStates : Ask(n, "commit", st, t[n], ch[n], al, fl)
    /\ \A n \in up \ c.todo : Readied(n, t[n], ch[n], al) /\ ch[n].z = "I"

Live(c, t, ch, al, fl, up) ==
    /\ up # {}
    /\ \A n \in Nodes \ up : ch[n] = Empty
    /\ c.pc = "idle" => Idle(c, t, ch, al, up)
    /\ c.pc = "begin" => Begins(c, t, ch, al, fl, up)
    /\ c.pc = "lock" => Locks(c, t, ch, al, fl, up)
    /\ c.pc \in {"send", "wait", "reply"} => Runs(c, t, ch, al, fl, up)
    /\ c.pc = "ready" => Completes(c, t, ch, al, fl, up)
    /\ c.pc \in {"sync", "abort"} => Errs(c, t, ch, al, fl, up)
    /\ c.pc = "commit" => Commits(c, t, ch, al, fl, up)

\* A session that a signal has reached is over, at the latest with its COMMITs.
Sound(c, t, ch, al, fl, up) ==
    /\ c.doomed => c.pc = "commit"
    /\ c.pc # "exit" /\ ~c.doomed => Live(c, t, ch, al, fl, up)

Inv == Shapes /\ \A s \in Sessions : Sound(child[s], tx[s], chan[s], alive, faulty, Up)

-----------------------------------------------------------------------------
(* What has been written.                                                  *)

IdsOf(w) == {w[i].id : i \in DOMAIN w}

\* The writes that a node has or is ready to commit: x is the transaction, l the
\* log.
Has(x, l) == IdsOf(x.w) \cup IdsOf(l)

\* An UPDATE that finds its row on no node looks like one that was done on all.
AllDrifted == "drift" \in Faults /\ Up \subseteq faulty

\* Node n after the reply in y, of the connection of session s with child c:
\* unless there is an error or a mismatch to report, it has the writes that
\* count as done, and the one it has just been asked for.
Recorded(s, c, x, y, l) ==
    /\ ~(y.is = "reply" /\ y.kind = "E") /\ ~c.mismatch => c.ids \subseteq Has(x, l)
    /\ y.is = "reply" /\ y.kind = "C" /\ c.stmt \in Writes /\ c.pc \in {"send", "wait", "reply"} =>
          IF y.rows = 1 THEN <<s, c.count>> \in Has(x, l) ELSE "drift" \in Faults

\* t and ch are the session's transactions and connections, lg the logs, S the
\* nodes in service and alive, m the master.
Records(s, c, t, ch, lg, S, m) ==
    c.pc # "exit" /\ ~c.doomed =>
        /\ c.pc \in {"begin", "lock", "sync", "abort"} \/ c.stmt = "rollback" => c.ids = {}
        /\ c.pc = "idle" /\ c.tstate[m] = "I" => c.ids = {}
        /\ \A n \in S : Recorded(s, c, t[n], ch[n], lg[n])

\* No open transaction, nothing to commit.
NothingOpen(t) == \A n \in Nodes : t[n].st # "T" => t[n].w = <<>>

Written ==
    /\ log \in [Nodes -> Seq(Entries)]
    /\ \A s \in Sessions :
          /\ NothingOpen(tx[s])
          /\ AllDrifted \/ Records(s, child[s], tx[s], chan[s], log, Serving, Least(Up))
    /\ AllDrifted \/ AckedEverywhere

-----------------------------------------------------------------------------
(* The steps of a child, field by field: c and ch are the child and its    *)
(* connections before the step, d and ch2 after it.                        *)

\* A step of node n that leaves what is known of it as good as before.
Kept(n, x, y, al, fl, x2, y2, al2, fl2) ==
    /\ \A q \in Queries, st \in TxStates :
          Ask(n, q, st, x, y, al, fl) => Ask(n, q, st, x2, y2, al2, fl2)
    /\ \A st \in TxStates : Rest(n, st, x, y, al) => Rest(n, st, x2, y2, al2)
    /\ Readied(n, x, y, al) => Readied(n, x2, y2, al2) /\ y2 = y
    /\ y = Empty => y2 = Empty

\* A step of child s, which leaves c2 as its state and ch2 on its connections.
Moved(s, c2, ch2) ==
    /\ child' = [child EXCEPT ![s] = c2] /\ chan' = [chan EXCEPT ![s] = ch2]
    /\ UNCHANGED <<alive, log, tx, faulty, down>>

Running == {"send", "wait", "reply"}
Ending == {"ready", "sync", "abort", "commit"}
Commands == {"begin", "lock", "sync", "abort", "commit"}
Done(y) == y.is = "reply" /\ y.kind = "C"

SameWork(c, d) == d.stmt = c.stmt /\ d.count = c.count /\ d.where = c.where /\ d.ids = c.ids
SameLock(c, d) == d.kind = c.kind /\ d.dead = c.dead
SameTx(c, d) == d.tstate = c.tstate /\ d.internal = c.internal

SentTo(S, q, ch, ch2) ==
    \A n \in Nodes : ch2[n] = IF n \notin S THEN ch[n] ELSE IF n \in alive THEN Request(q) ELSE Eof
ReadOff(n, y, ch, ch2) ==
    ch[n].is = "reply" /\ ch2[n] = y /\ \A m \in Nodes \ {n} : ch2[m] = ch[m]

MQuery(s, c, d, ch, ch2) ==
    /\ c.pc = "idle" /\ ~c.doomed /\ ~d.doomed /\ ch2 = ch
    /\ c.count < MaxStmts[s] /\ d.count = c.count + 1 /\ d.stmt \in AllStatements
    /\ d.ids \subseteq c.ids /\ d.kind = LockKind /\ ~d.dead /\ SameTx(c, d)
    /\ d.pc \in {"begin", "send"}
    /\ d.pc = "begin" => Up # {Least(Up)}
    /\ d.pc = "send" /\ d.stmt = "insert" => Up = {Least(Up)}
    /\ d.stmt \in {"begin", "insert"} => c.tstate[Least(Up)] = "I"

MCommand(c, d, ch, ch2) ==
    /\ d = c /\ c.pc \in Commands /\ Turn(c) \in c.todo /\ ch[Turn(c)] = Empty
    /\ SentTo({Turn(c)}, Command(c), ch, ch2)

MBegun(c, d, ch, ch2) ==
    /\ c.pc = "begin" /\ SameWork(c, d) /\ SameLock(c, d) /\ d.doomed = c.doomed
    /\ \E n \in c.todo :
          /\ ReadOff(n, Empty, ch, ch2)
          /\ d.internal = c.internal \cup {n}
          /\ d.tstate[n] = ch[n].z /\ \A m \in Nodes \ {n} : d.tstate[m] = c.tstate[m]
          /\ IF c.todo # {n} THEN d.pc = "begin"
             ELSE \/ d.pc = "lock" /\ d.todo = {Least(Up)}
                  \/ d.pc = "send" /\ (c.stmt = "insert" => LockKind = 0 \/ Up = {Least(Up)})

MLockMaster(c, d, ch, ch2) ==
    LET n == Least(Up) IN
    /\ c.pc = "lock" /\ SameWork(c, d) /\ d.internal = c.internal /\ d.doomed = c.doomed
    /\ c.todo = {n} /\ ReadOff(n, Empty, ch, ch2)
    /\ \/ /\ c.kind = 3 /\ ch[n].kind = "C" /\ d.pc = "send"
          /\ SameLock(c, d) /\ d.tstate = c.tstate
       \/ /\ c.kind = 3 /\ ch[n].kind = "E" /\ d.pc = "lock" /\ d.todo = c.todo
          /\ d.kind = 1 /\ d.dead = c.dead /\ d.tstate = c.tstate
       \/ /\ c.kind = 1 /\ d.pc = "lock" /\ d.todo = Up \ {n} /\ d.kind = 1
          /\ d.dead = ch[n].dead /\ d.tstate[n] = ch[n].z
          /\ \A m \in Nodes \ {n} : d.tstate[m] = c.tstate[m]

MLockOther(c, d, ch, ch2) ==
    LET n == Least(c.todo) IN
    /\ c.pc = "lock" /\ SameWork(c, d) /\ SameLock(c, d) /\ d.internal = c.internal
    /\ d.doomed = c.doomed /\ n \in c.todo /\ Least(Up) \notin c.todo
    /\ ReadOff(n, Empty, ch, ch2) /\ ~ch[n].dead
    /\ d.tstate[n] = ch[n].z /\ \A m \in Nodes \ {n} : d.tstate[m] = c.tstate[m]
    /\ d.todo = c.todo \ {n} /\ d.pc = IF d.todo = {} THEN "send" ELSE "lock"

MSend(c, d, ch, ch2) ==
    /\ c.pc = "send" /\ d.pc = "wait" /\ SameWork(c, d) /\ SameLock(c, d) /\ SameTx(c, d)
    /\ d.doomed = c.doomed
    /\ SentTo(NextGroup(c, {n \in c.where : ch[n].is = "empty"}), c.stmt, ch, ch2)

MWait(c, d, ch, ch2) ==
    /\ c.pc = "wait" /\ SameWork(c, d) /\ SameLock(c, d) /\ SameTx(c, d) /\ d.doomed = c.doomed
    /\ ch2 = ch /\ \A n \in c.where : ch[n].is # "request"
    /\ \/ d.pc = "send"
       \/ d.pc = "reply" /\ \A n \in c.where : ch[n].is # "empty"

MHeard(s, c, d, ch, ch2) ==
    /\ c.pc = "reply" /\ d.stmt = c.stmt /\ d.count = c.count /\ SameLock(c, d) /\ SameTx(c, d)
    /\ d.doomed = c.doomed /\ c.where # {} /\ c.where \subseteq Nodes
    /\ \A n \in c.where : ch[n].is = "reply" /\ ch2[n].is = "ready"
    /\ \A n \in Nodes \ c.where : ch2[n] = ch[n]
    /\ \/ /\ d.pc = "ready" /\ \A n \in c.where : ch[n].kind = "C"
          /\ d.ids \subseteq IF c.stmt \in Writes THEN c.ids \cup {<<s, c.count>>} ELSE c.ids
       \/ d.pc \in {"ready", "sync"} /\ d.ids = {} /\ \A n \in c.where : ch[n].kind = "E"

MClose(c, d, ch, ch2) ==
    /\ c.pc \in {"ready", "sync", "abort"} /\ d.pc \in Ending \cup {"idle"}
    /\ ~d.doomed /\ d.count = c.count /\ d.ids \subseteq c.ids /\ d.internal = c.internal
    /\ d.kind = c.kind \/ d.kind = LockKind
    /\ d.stmt = c.stmt \/ (d.pc = "idle" /\ d.stmt = "none")
    /\ \A n \in Nodes : ch2[n] = ch[n] \/ ch2[n].is \in {"empty", "ready"}

MCommitted(c, d, ch, ch2) ==
    LET n == Turn(c) IN
    /\ c.pc = "commit" /\ SameWork(c, d) /\ SameLock(c, d) /\ d.tstate = c.tstate
    /\ d.doomed = c.doomed /\ n \in c.todo /\ ReadOff(n, Ready(ch[n].z), ch, ch2)
    /\ d.todo = c.todo \ {n} /\ d.internal = c.internal \ {n}
    /\ \/ d.pc = "commit" /\ d.todo # {}
       \/ d.pc = "ready" /\ d.todo = {} /\ ~d.doomed

MEnd(c, d, ch, ch2) ==
    /\ c.pc # "exit" /\ d.pc = "exit" /\ ~d.doomed /\ SameWork(c, d) /\ d.todo \subseteq c.todo
    /\ \A n \in Nodes : ch2[n] = ch[n] \/ ch2[n].is \in {"empty", "ready"}

MDoom(c, d, ch, ch2) ==
    /\ c.pc = "commit" /\ d.pc = "commit" /\ d.doomed /\ SameWork(c, d) /\ d.todo = c.todo
    /\ ch2 = ch

MNew(c, d, t, ch, ch2) ==
    /\ c.pc = "exit" /\ d.pc = "idle" /\ ~d.doomed /\ d.stmt = "none" /\ d.count = c.count /\ d.ids = {}
    /\ d.kind = LockKind /\ d.internal = {} /\ d.todo = {} /\ ch2 = ch
    /\ \A n \in Nodes : ch[n] = Empty /\ t[n] = NoTx

Moves(s, c, d, t, ch, ch2) ==
    \/ MQuery(s, c, d, ch, ch2) \/ MCommand(c, d, ch, ch2) \/ MBegun(c, d, ch, ch2)
    \/ MLockMaster(c, d, ch, ch2) \/ MLockOther(c, d, ch, ch2) \/ MSend(c, d, ch, ch2)
    \/ MWait(c, d, ch, ch2) \/ MHeard(s, c, d, ch, ch2) \/ MClose(c, d, ch, ch2)
    \/ MCommitted(c, d, ch, ch2) \/ MEnd(c, d, ch, ch2) \/ MDoom(c, d, ch, ch2)
    \/ MNew(c, d, t, ch, ch2)

\* Everything about a step of child s that later proofs ask for.
ChildMove(s, d, ch2) ==
    /\ d \in Children /\ ch2 \in [Nodes -> Channels] /\ Moved(s, d, ch2) /\ seq' = seq
    /\ cut' <=> (cut \/ (d.pc = "exit" /\ HalfInsert(child[s])))
    /\ Moves(s, child[s], d, tx[s], chan[s], ch2)

-----------------------------------------------------------------------------
(* The steps of a backend, field by field: x and y are the transaction of  *)
(* session s on node n and its connection before the step, x2 and y2 after *)
(* it.                                                                     *)

Quietly == UNCHANGED <<log, seq>> /\ cut' = cut
Answers(n, y, y2) == n \in alive /\ y.is = "request" /\ y2.is = "reply"

BBegin(n, x, y, x2, y2) ==
    /\ Answers(n, y, y2) /\ Done(y2) /\ Quietly /\ y.q = "begin"
    /\ x.st # "E" /\ x2.st = "T" /\ x2.w = x.w /\ x2.locks = x.locks

BEnd(n, x, y, x2, y2) ==
    /\ Answers(n, y, y2) /\ Done(y2) /\ y.q \in {"commit", "rollback"} /\ x2 = NoTx
    /\ log' = IF y.q = "commit" THEN [log EXCEPT ![n] = @ \o x.w] ELSE log
    /\ seq' = seq /\ cut' = cut

BFail(n, x, y, x2, y2) ==
    /\ Answers(n, y, y2) /\ y2.kind = "E" /\ y.q \notin {"commit", "rollback"} /\ x2 = Aborted(x)
    /\ UNCHANGED <<log, seq>>
    /\ cut => cut'
    /\ y.q = "insert" /\ x.st # "E" => cut'

BSame(n, x, y, x2, y2) ==
    /\ Answers(n, y, y2) /\ Done(y2) /\ Quietly /\ x2 = x
    /\ y.q = "select" \/ (y.q = "update" /\ n \in faulty')

BWrite(s, n, x, y, x2, y2, e) ==
    /\ Answers(n, y, y2) /\ Done(y2) /\ y.q \in Writes /\ x.st # "E" /\ cut' = cut
    /\ e = [id |-> <<s, child[s].count>>, val |-> IF y.q = "update" THEN 0 ELSE seq[n] + 1]
    /\ seq' = IF y.q = "update" THEN seq ELSE [seq EXCEPT ![n] = @ + 1]
    /\ y.q = "update" => Free("row", s, n)
    /\ IF x.st = "I" THEN x2 = NoTx /\ log' = [log EXCEPT ![n] = Append(@, e)]
       ELSE /\ x2.st = x.st /\ x2.w = Append(x.w, e) /\ log' = log
            /\ x2.locks = IF y.q = "update" THEN x.locks \cup {"row"} ELSE x.locks

BLock(s, n, x, y, x2, y2) ==
    /\ Answers(n, y, y2) /\ Done(y2) /\ Quietly /\ y.q \in LockQueries /\ Free(y.q, s, n)
    /\ x.st # "E" /\ x2.st = x.st /\ x2.w = x.w /\ x2.locks = x.locks \cup {y.q}

BGone(s, x2, y, y2) ==
    child[s].pc = "exit" /\ y.is # "request" /\ x2 = NoTx /\ y2 = Empty /\ Quietly

Serves(s, n, x, y, x2, y2) ==
    \/ BBegin(n, x, y, x2, y2) \/ BEnd(n, x, y, x2, y2) \/ BFail(n, x, y, x2, y2)
    \/ BSame(n, x, y, x2, y2) \/ BLock(s, n, x, y, x2, y2) \/ BGone(s, x2, y, y2)
    \/ \E e \in Entries : BWrite(s, n, x, y, x2, y2, e)

\* Everything about a step of a backend that later proofs ask for.
Served(s, n, x2, y2) ==
    /\ x2 \in TxRecs /\ y2 \in Channels
    /\ tx' = [tx EXCEPT ![s][n] = x2] /\ chan' = [chan EXCEPT ![s][n] = y2]
    /\ UNCHANGED <<alive, down, child, acked>> /\ faulty \subseteq faulty'
    /\ Serves(s, n, tx[s][n], chan[s][n], x2, y2)

\* A step of the backend of session s on node n, which leaves x2 as its
\* transaction, y2 on its connection and l2 as the log of the node.
Stepped(s, n, x2, y2, l2) ==
    /\ tx' = [tx EXCEPT ![s][n] = x2] /\ chan' = [chan EXCEPT ![s][n] = y2]
    /\ log' \in [Nodes -> Seq(Entries)] /\ log'[n] = l2
    /\ \A m \in Nodes \ {n} : log'[m] = log[m]
    /\ UNCHANGED <<alive, down, child, acked>> /\ faulty \subseteq faulty'

-----------------------------------------------------------------------------
(* Locks.  x is the transaction of a session on node n, y the connection;  *)
(* c, t, ch, al, fl and up as above.                                       *)

LockSets == {{}, {"row"}, {"lock"}, {"rowlock"}}

\* A lock is held in an open transaction, and no transaction holds two.
TxOK(n, x, al) ==
    /\ x.locks \in LockSets
    /\ x.st # "T" => x.locks = {}
    /\ n \notin al => x = NoTx

\* What was asked for is harmless, whatever has become of the child.
RequestOK(n, c, x, y, al) ==
    /\ y.is = "request" =>
          /\ n \in al
          /\ y.q \in Writes => y.q = c.stmt
          /\ y.q \in LockQueries => x.st # "I" /\ x.locks = {}
          /\ y.q = "update" => x.locks \subseteq {"row"}
    /\ y.is = "eof" => n \notin al

\* A child that a signal has reached has nothing but its COMMITs to finish.
Finishing(c, ch) ==
    c.pc = "commit" => \A n \in Nodes : /\ ch[n].is # "empty" => n \in c.where
                                        /\ ch[n].is = "request" => ch[n].q = "commit"

\* The lock that insert_lock takes on the master, and the nodes on which it
\* locks the table: where the row lock failed unseen, all but the master.
LockName(c) == IF c.kind = 1 THEN "lock" ELSE "rowlock"
Granted(c, n, up) == c.kind = 1 /\ ~c.dead /\ (n # Least(up) \/ LockKind = 1)

HeldMaster(c, t, ch, al, up) ==
    \A n \in up : t[n].locks = IF n = Least(up) /\ n \in al /\ Done(ch[n]) THEN {LockName(c)} ELSE {}

\* The other nodes are locked in their order.
HeldOthers(c, t, ch, al, up) ==
    /\ \A n \in up : Granted(c, n, up) => c.tstate[n] = "T"
    /\ \A n \in up : t[n].locks = IF n \in al /\ Granted(c, n, up) /\ (n \in c.todo => Done(ch[n]))
                                  THEN {"lock"} ELSE {}
    /\ \A n, m \in up : m \in c.todo /\ m < n => n \in c.todo /\ ch[n] = Empty

HeldInsert(c, t, up) ==
    /\ \A n \in up : Granted(c, n, up) => c.tstate[n] = "T"
    /\ \A n \in up : t[n].locks = IF t[n].st # "T" THEN {}
                                  ELSE IF Granted(c, n, up) THEN {"lock"}
                                  ELSE IF c.kind = 3 /\ n = Least(up) THEN {"rowlock"} ELSE {}
    /\ LockSafe => \A n \in up : c.tstate[n] = IF c.dead THEN "E" ELSE "T"

\* Who holds the row on some node holds it on the master.
RowFirst(t, al, fl, up) ==
    fl = {} /\ Least(up) \in al /\ t[Least(up)].st = "T" =>
        \A n \in up : "row" \in t[n].locks => "row" \in t[Least(up)].locks

\* A write is sent to the other nodes when the master has answered.
MasterFirst(c, ch, up) ==
    /\ c.stmt \in Writes /\ ~OneChild =>
         \A n \in up \ {Least(up)} : ch[n].is # "empty" => ch[Least(up)].is \in {"reply", "eof"}
    /\ c.pc = "send" => \A n \in up : ch[n].is # "request"

RowTaken(c, t, ch, fl, up) ==
    /\ c.internal # {} => \A n \in up : c.tstate[n] = "T"
    /\ \A n \in up \ fl : Done(ch[n]) /\ t[n].st = "T" => "row" \in t[n].locks

HeldKind(c) == c.kind = LockKind \/ (LockKind = 3 /\ c.kind = 1 /\ ~LockSafe)
HeldRows(c, t, al, fl, up) ==
    c.stmt # "insert" => /\ OneChild \/ RowFirst(t, al, fl, up)
                         /\ \A n \in up : t[n].locks \subseteq {"row"}
HeldNone(c, t, up) ==
    /\ c.stmt = "begin" \/ c.pc = "begin" => \A n \in up : t[n].locks = {}
    /\ c.stmt = "insert" => \A n \in up \ c.internal : t[n].locks = {}
    /\ c.pc = "begin" => up # {Least(up)}
HeldLocks(c, t, ch, al, up) ==
    c.pc = "lock" => IF Least(up) \in c.todo THEN HeldMaster(c, t, ch, al, up)
                                             ELSE HeldOthers(c, t, ch, al, up)
HeldRunning(c, t, ch, fl, up) ==
    c.pc \in Running =>
        /\ MasterFirst(c, ch, up)
        /\ c.stmt = "insert" => IF c.internal = {} THEN up = {Least(up)} ELSE HeldInsert(c, t, up)
        /\ c.stmt = "update" => RowTaken(c, t, ch, fl, up)

Holds(c, t, ch, al, fl, up) ==
    /\ HeldKind(c)
    /\ HeldRows(c, t, al, fl, up)
    /\ HeldNone(c, t, up)
    /\ HeldLocks(c, t, ch, al, up)
    /\ HeldRunning(c, t, ch, fl, up)

HeldBy(c, t, ch, al, fl, up) ==
    /\ c.todo \subseteq c.where
    /\ \A n \in Nodes : TxOK(n, t[n], al) /\ RequestOK(n, c, t[n], ch[n], al)
    /\ Finishing(c, ch)
    /\ c.pc # "exit" /\ ~c.doomed => Holds(c, t, ch, al, fl, up)

Exclusive == \A n \in Nodes, s, o \in Sessions : s # o => tx[s][n].locks \cap tx[o][n].locks = {}

Held == Exclusive /\ \A s \in Sessions : HeldBy(child[s], tx[s], chan[s], alive, faulty, Up)

\* A backend of a session that goes on takes a step; t and ch are the session's
\* transactions and connections before it, t2 and ch2 after it.
ServedAt(s, n, t, ch, t2, ch2) ==
    /\ child[s] \in Children /\ child[s].pc # "exit" /\ ~child[s].doomed
    /\ t \in [Nodes -> TxRecs] /\ t2 \in [Nodes -> TxRecs]
    /\ ch \in [Nodes -> Channels] /\ ch2 \in [Nodes -> Channels]
    /\ Live(child[s], t, ch, alive, faulty, Up) /\ HeldBy(child[s], t, ch, alive, faulty, Up)
    /\ n \in Up /\ ch[n].is = "request" /\ n \in alive /\ ch2[n].is = "reply"
    /\ Serves(s, n, t[n], ch[n], t2[n], ch2[n])
    /\ \A m \in Nodes \ {n} : t2[m] = t[m] /\ ch2[m] = ch[m]
    /\ faulty \subseteq faulty' /\ Up \subseteq Nodes

\* The session before and after: both keep the discipline, and nothing happens
\* to its transactions.
Stays(c, d, t, ch, ch2) ==
    /\ c \in Children /\ d \in Children /\ t \in [Nodes -> TxRecs]
    /\ ch \in [Nodes -> Channels] /\ ch2 \in [Nodes -> Channels] /\ Up \subseteq Nodes
    /\ Sound(c, t, ch, alive, faulty, Up) /\ Sound(d, t, ch2, alive, faulty, Up)
    /\ HeldBy(c, t, ch, alive, faulty, Up)

\* What the death of node k does to a session.
Bereft(k, t, ch, t2, ch2) ==
    /\ t2[k] = NoTx /\ ch2[k] = IF ch[k].is = "request" THEN Eof ELSE ch[k]
    /\ \A n \in Nodes \ {k} : t2[n] = t[n] /\ ch2[n] = ch[n]

-----------------------------------------------------------------------------
(* Types.  The numbers that the sequence of a node has given out are       *)
(* counted by the statements that have taken one: statement i of session s *)
(* is spent on node n when it can no longer take a number there.           *)

Pending(c, y) ==
    \/ y.is = "request" /\ y.q = "insert"
    \/ c.stmt = "insert" /\ c.pc \in {"begin", "lock"}
    \/ c.stmt = "insert" /\ c.pc \in {"send", "wait"} /\ y.is = "empty"
Passed(k, c, y) == k < c.count \/ (k = c.count /\ ~Pending(c, y))
Spent(n) == {i \in Ids : Passed(i[2], child[i[1]], chan[i[1]][n])}

Numbered == \A n \in Nodes : seq[n] <= Cardinality(Spent(n))
Counted ==
    \A s \in Sessions : /\ child[s].count <= MaxStmts[s]
                        /\ child[s].stmt # "none" => child[s].count >= 1
                        /\ child[s].ids \subseteq Ids
Logged ==
    /\ log \in [Nodes -> Seq(WriteRecs)]
    /\ \A s \in Sessions, n \in Nodes : tx[s][n].w \in Seq(WriteRecs)
Noted ==
    /\ down \subseteq Nodes /\ req \subseteq Nodes /\ suspected \subseteq Nodes
    /\ acked \subseteq Ids /\ cut \in BOOLEAN /\ faults \in 0 .. MaxFaults

Bounded == Numbered /\ Counted /\ Logged /\ Noted

-----------------------------------------------------------------------------
(* Serial numbers.  c and ch are a child and its connections, y one of     *)
(* them, d, ch2 and y2 the same after a step; up are the nodes in service. *)

\* The session that may insert: the master has granted it the lock.
Crit(c, ch, up) ==
    /\ c.pc \in {"lock"} \cup Running /\ c.stmt = "insert" /\ ~c.dead /\ up # {Least(up)}
    /\ c.pc = "lock" /\ Least(up) \in c.todo => Done(ch[Least(up)])

\* The node has taken a number for the statement in hand.
Inserted(c, y) == HalfInsert(c) /\ Done(y)
Ahead(n) == IF \E s \in Sessions : Inserted(child[s], chan[s][n]) THEN 1 ELSE 0

Orderly(c, ch) ==
    \A n \in Nodes : /\ ch[n].is = "request" /\ ch[n].q = "insert" => c.pc \in Running
                     /\ HalfInsert(c) /\ ch[n].is = "reply" /\ ch[n].kind = "E" => c.tstate[n] = "E"

\* What is known of an entry e of a node, whose sequence is at v, while its
\* statement is the one in hand.
Current(c, y, e, v, up) ==
    /\ c.stmt = "update" => e.val = 0
    /\ y.is = "request" => y.q \notin Writes
    /\ c.pc \notin {"begin", "lock"}
    /\ c.pc \in Running => Done(y) /\ (c.stmt = "insert" /\ up # {Least(up)} => e.val = v)

RecsIn(w) == {w[i] : i \in DOMAIN w}
Recs(n) == {e \in Entries : e \in RecsIn(log[n]) \/ \E s \in Sessions : e \in RecsIn(tx[s][n].w)}

InOrder == \A s \in Sessions : Orderly(child[s], chan[s])
OneInserts == \A s, o \in Sessions : Crit(child[s], chan[s], Up) /\ Crit(child[o], chan[o], Up) => s = o
SameNumber == \A n, m \in Serving : seq[n] - Ahead(n) = seq[m] - Ahead(m)
KnownOf(n, e) ==
    LET c == child[e.id[1]] IN
    /\ e.id[2] <= c.count
    /\ e.id[2] = c.count => Current(c, chan[e.id[1]][n], e, seq[n], Up)
AllKnown == \A n \in Serving : \A e \in Recs(n) : KnownOf(n, e)
Numbers == \A n, m \in Serving : \A e \in Recs(n), f \in Recs(m) : e.id = f.id => e.val = f.val

Serial == InOrder /\ OneInserts /\ SameNumber /\ AllKnown /\ Numbers

\* The locks that an INSERT relies on are taken and their failure is seen.
InsertLocked == LockSafe /\ LockKind # 0

-----------------------------------------------------------------------------
(* The same steps, as far as the numbers go.                               *)

\* Session s has not gone back.
Onward(s, n) ==
    \/ child'[s].count = child[s].count + 1
    \/ /\ child'[s].count = child[s].count
       /\ Pending(child'[s], chan'[s][n]) => Pending(child[s], chan[s][n])

\* The steps of a child, as far as numbers go.
NoWrite(ch, ch2) ==
    \A n \in Nodes : ch2[n] = ch[n] \/ (ch2[n].is = "request" => ch2[n].q \notin Writes)
SStart(c, d, ch, ch2) ==
    /\ c.pc = "idle" /\ d.count = c.count + 1 /\ ch2 = ch /\ d.pc \in {"begin", "send"}
    /\ d.pc = "send" => \A n \in Nodes : ch[n] = Empty
    /\ d.pc = "send" /\ d.stmt = "insert" => Up = {Least(Up)}
SLock(c, d, ch, ch2) ==
    /\ c.pc \in {"begin", "lock"} /\ d.pc \in {"begin", "lock", "send"} /\ SameWork(c, d)
    /\ NoWrite(ch, ch2)
    /\ d.pc = "send" => \A n \in Nodes : ch2[n] = Empty
    /\ Crit(d, ch2, Up) => Crit(c, ch, Up)
SRun(c, d, ch, ch2) ==
    /\ c.pc \in Running /\ d.pc \in Running /\ SameWork(c, d) /\ SameLock(c, d) /\ SameTx(c, d)
    /\ \A n \in Nodes : ch2[n] = ch[n] \/ (ch[n] = Empty /\ ch2[n] \in {Request(c.stmt), Eof})
SHeard(c, d, ch, ch2) ==
    /\ c.pc = "reply" /\ d.pc \in {"ready", "sync"} /\ d.stmt = c.stmt /\ d.count = c.count
    /\ \A n \in c.where : ch2[n].is = "ready"
    /\ \A n \in Nodes \ c.where : ch2[n] = ch[n]
    /\ (\A n \in c.where : Done(ch[n])) \/ (\A n \in c.where : ~Done(ch[n]))
SClose(c, d, ch, ch2) ==
    /\ d.pc \notin Running \cup {"begin", "lock"} /\ d.count = c.count /\ d.stmt \in {c.stmt, "none"}
    /\ c.pc \in Running \cup {"begin", "lock"} => d.pc = "exit"
    /\ NoWrite(ch, ch2)
Shape(c, d, ch, ch2) ==
    \/ SStart(c, d, ch, ch2) \/ SLock(c, d, ch, ch2) \/ SRun(c, d, ch, ch2)
    \/ SHeard(c, d, ch, ch2) \/ SClose(c, d, ch, ch2)

\* A step that does not end the session in the middle of an INSERT.
Uncut(c, d) == ~(d.pc = "exit" /\ HalfInsert(c))
Keeps(c, d, y, y2, up, up2) ==
    \/ d.count = c.count + 1
    \/ d.count = c.count /\ \A e \in Entries, v \in Nat : Current(c, y, e, v, up) => Current(d, y2, e, v, up2)

=============================================================================
