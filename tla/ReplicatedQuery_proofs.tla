------------------------ MODULE ReplicatedQuery_proofs ------------------------
(***************************************************************************)
(* Proofs about native replication, for any number of nodes and sessions,  *)
(* any statements and any faults.                                          *)
(*                                                                         *)
(* Most of it follows from Inv, which is about a single session: what its  *)
(* child waits for, what its backends have been asked and in which state   *)
(* of the transaction, and what they may have answered.  Sessions meet in  *)
(* the set of nodes in service, and that changes under no session:         *)
(* Failover kills the children, and one that is inside its COMMITs only    *)
(* lives to finish them; and they meet in the locks (Held) and in the      *)
(* numbers the nodes give out (Serial).                                    *)
(***************************************************************************)
EXTENDS ReplicatedInvariants, NumberFacts, FiniteSetTheorems, SequenceTheorems, TLAPS

-----------------------------------------------------------------------------
(* Steps of the nodes.                                                     *)

\* The connection's values are told apart by their kind.
LEMMA ChannelFacts ==
    ASSUME NEW y \in Channels
    PROVE  /\ y.is \in {"empty", "eof", "request", "reply", "ready"}
           /\ y.is = "empty" <=> y = Empty
           /\ y.is = "request" => y \in Requests
           /\ y.is = "reply" => y \in Replies
           /\ y.is = "ready" => y \in Readies
<1>1. CASE y \in {Empty, Eof}
  BY <1>1 DEF Empty, Eof
<1>2. CASE y \in Requests
  BY <1>2 DEF Requests, Empty
<1>3. CASE y \in Replies
  BY <1>3 DEF Replies, Empty
<1>4. CASE y \in Readies
  BY <1>4 DEF Readies, Empty
<1>5. QED
  BY <1>1, <1>2, <1>3, <1>4 DEF Channels

LEMMA LiveKept ==
    ASSUME NEW c \in Children, NEW t, NEW ch, NEW al, NEW fl, NEW up \in SUBSET Nodes,
           NEW t2, NEW ch2, NEW al2, NEW fl2, fl \subseteq fl2,
           \A n \in Nodes : Kept(n, t[n], ch[n], al, fl, t2[n], ch2[n], al2, fl2),
           Live(c, t, ch, al, fl, up)
    PROVE  Live(c, t2, ch2, al2, fl2, up)
<1>1. /\ c.where \subseteq Nodes /\ c.todo \subseteq Nodes /\ c.internal \subseteq Nodes
      /\ c.tstate \in [Nodes -> TxStates] /\ c.stmt \in AllStatements \cup {"none"}
      /\ c.dead \in BOOLEAN
  BY DEF Children
<1>2. \A n \in Nodes, q \in Queries, st \in TxStates :
        Ask(n, q, st, t[n], ch[n], al, fl) => Ask(n, q, st, t2[n], ch2[n], al2, fl2)
  BY DEF Kept
<1>3. \A n \in Nodes, st \in TxStates : Rest(n, st, t[n], ch[n], al) => Rest(n, st, t2[n], ch2[n], al2)
  BY DEF Kept
<1>4. \A n \in Nodes : Readied(n, t[n], ch[n], al) => Readied(n, t2[n], ch2[n], al2) /\ ch2[n] = ch[n]
  BY DEF Kept
<1>5. \A n \in Nodes : ch[n] = Empty => ch2[n] = Empty
  BY DEF Kept
<1>6. /\ {"begin", "lock", "rowlock", "error", "commit"} \subseteq Queries
      /\ {"I", "T", "E"} \subseteq TxStates /\ AllStatements \subseteq Queries
      /\ \A n \in Nodes : c.tstate[n] \in TxStates
  BY <1>1 DEF Queries, LockQueries, AllStatements, TxStates
<1>7. up # {} /\ \A n \in Nodes \ up : ch2[n] = Empty
  BY <1>5 DEF Live
<1>8. CASE c.pc = "idle"
  <2>1. Idle(c, t, ch, al, up)
    BY <1>8 DEF Live
  <2>2. Idle(c, t2, ch2, al2, up)
    BY <2>1, <1>3, <1>6 DEF Idle
  <2>3. QED
    BY <1>7, <1>8, <2>2 DEF Live
<1>9. CASE c.pc = "begin"
  <2>1. Begins(c, t, ch, al, fl, up)
    BY <1>9 DEF Live
  <2>2. Begins(c, t2, ch2, al2, fl2, up)
    BY <2>1, <1>1, <1>2, <1>3, <1>6 DEF Begins
  <2>3. QED
    BY <1>7, <1>9, <2>2 DEF Live
<1>10. CASE c.pc = "lock"
  <2>1. Locks(c, t, ch, al, fl, up)
    BY <1>10 DEF Live
  <2>2. LocksMaster(c, t, ch, al, fl, up) => LocksMaster(c, t2, ch2, al2, fl2, up)
    BY <1>1, <1>2, <1>3, <1>6 DEF LocksMaster
  <2>3. LocksOthers(c, t, ch, al, fl, up) => LocksOthers(c, t2, ch2, al2, fl2, up)
    BY <1>1, <1>2, <1>3, <1>6 DEF LocksOthers
  <2>4. Locks(c, t2, ch2, al2, fl2, up)
    BY <2>1, <2>2, <2>3 DEF Locks
  <2>5. QED
    BY <1>7, <1>10, <2>4 DEF Live
<1>11. CASE c.pc \in {"send", "wait", "reply"}
  <2>1. Runs(c, t, ch, al, fl, up)
    BY <1>11 DEF Live
  <2>2. c.stmt \in AllStatements
    BY <2>1, <1>1 DEF Runs, Single, Internal, Writes, AllStatements
  <2>3. Runs(c, t2, ch2, al2, fl2, up)
    BY <2>1, <2>2, <1>1, <1>2, <1>3, <1>6 DEF Runs
  <2>4. QED
    BY <1>7, <1>11, <2>3 DEF Live
<1>12. CASE c.pc = "ready"
  <2>1. Completes(c, t, ch, al, fl, up)
    BY <1>12 DEF Live
  <2>2. \A n \in c.where : Readied(n, t2[n], ch2[n], al2) /\ ch2[n] = ch[n]
    BY <2>1, <1>1, <1>4 DEF Completes
  <2>3. \A n \in up : Z(c, ch2, n) = Z(c, ch, n)
    BY <2>2 DEF Z
  <2>4. \A n \in up \ c.where : Rest(n, c.tstate[n], t2[n], ch2[n], al2)
    BY <2>1, <1>3, <1>6 DEF Completes
  <2>5. Completes(c, t2, ch2, al2, fl2, up)
    BY <2>1, <2>2, <2>3, <2>4 DEF Completes
  <2>6. QED
    BY <1>7, <1>12, <2>5 DEF Live
<1>13. CASE c.pc \in {"sync", "abort"}
  <2>1. Errs(c, t, ch, al, fl, up)
    BY <1>13 DEF Live
  <2>2. Errs(c, t2, ch2, al2, fl2, up)
    BY <2>1, <1>1, <1>2, <1>4, <1>6 DEF Errs
  <2>3. QED
    BY <1>7, <1>13, <2>2 DEF Live
<1>14. CASE c.pc = "commit"
  <2>1. Commits(c, t, ch, al, fl, up)
    BY <1>14 DEF Live
  <2>2. \A n \in c.todo : \E st \in TxStates : Ask(n, "commit", st, t2[n], ch2[n], al2, fl2)
    BY <2>1, <1>1, <1>2, <1>6 DEF Commits
  <2>3. Commits(c, t2, ch2, al2, fl2, up)
    BY <2>1, <2>2, <1>4 DEF Commits
  <2>4. QED
    BY <1>7, <1>14, <2>3 DEF Live
<1>15. CASE c.pc = "exit"
  BY <1>7, <1>15 DEF Live
<1>16. QED
  BY <1>8, <1>9, <1>10, <1>11, <1>12, <1>13, <1>14, <1>15 DEF Children, Places

\* The states of other sessions, and one step of this one.
LEMMA OthersKept ==
    ASSUME NEW n, NEW x, NEW y, NEW al, NEW fl, NEW fl2, fl \subseteq fl2
    PROVE  Kept(n, x, y, al, fl, x, y, al, fl2)
BY DEF Kept, Ask, Fair

\* A node answers a request.
LEMMA AnswerKept ==
    ASSUME NEW n, NEW x, NEW y \in Channels, NEW al, NEW fl, NEW x2, NEW r \in Replies, NEW fl2,
           n \in al, y.is = "request", fl \subseteq fl2,
           Fair(n, y.q, x.st, r, fl2), x2.st = r.z
    PROVE  Kept(n, x, y, al, fl, x2, r, al, fl2)
<1>1. y # Empty /\ y.is # "ready" /\ y.is # "reply" /\ r.is = "reply"
  BY DEF Empty, Replies
<1>2. ASSUME NEW q \in Queries, NEW st \in TxStates, Ask(n, q, st, x, y, al, fl)
      PROVE  Ask(n, q, st, x2, r, al, fl2)
  <2>1. y.q = q /\ x.st = st
    BY <1>2 DEF Ask, In
  <2>2. QED
    BY <1>1, <2>1 DEF Ask, In
<1>3. QED
  BY <1>1, <1>2 DEF Kept, Rest, Readied

\* A node dies.
LEMMA CrashKept ==
    ASSUME NEW n, NEW x, NEW y \in Channels, NEW al, NEW fl, NEW m, NEW x2, NEW y2,
           n # m => x2 = x /\ y2 = y,
           n = m => y2 = IF y.is = "request" THEN Eof ELSE y
    PROVE  Kept(n, x, y, al, fl, x2, y2, al \ {m}, fl)
<1>1. CASE n # m
  BY <1>1 DEF Kept, Ask, Rest, Readied, In
<1>2. CASE n = m /\ y.is = "request"
  <2>1. y2.is = "eof" /\ y # Empty
    BY <1>2 DEF Eof, Empty
  <2>2. QED
    BY <1>2, <2>1 DEF Kept, Ask, Rest, Readied
<1>3. CASE n = m /\ y.is # "request"
  BY <1>3 DEF Kept, Ask, Rest, Readied, In
<1>4. QED
  BY <1>1, <1>2, <1>3

\* A step of the backend of session s on node n.
LEMMA AnswerStep ==
    ASSUME Inv, NEW s \in Sessions, NEW n \in Nodes, NEW x2 \in TxRecs, NEW r \in Replies,
           n \in alive, chan[s][n].is = "request",
           tx' = [tx EXCEPT ![s][n] = x2], chan' = [chan EXCEPT ![s][n] = r],
           UNCHANGED <<alive, child, down>>, seq' \in [Nodes -> Nat],
           faulty \subseteq faulty', faulty' \subseteq Nodes,
           Fair(n, chan[s][n].q, tx[s][n].st, r, faulty'), x2.st = r.z
    PROVE  Inv'
<1>1. /\ tx \in [Sessions -> [Nodes -> TxRecs]] /\ chan \in [Sessions -> [Nodes -> Channels]]
      /\ child \in [Sessions -> Children]
  BY DEF Inv, Shapes
<1>2. r \in Channels
  BY DEF Channels
<1>3. Shapes'
  BY <1>1, <1>2 DEF Inv, Shapes
<1>4. Up' = Up /\ Up \in SUBSET Nodes
  BY DEF Up
<1>5. ASSUME NEW o \in Sessions
      PROVE  Sound(child'[o], tx'[o], chan'[o], alive', faulty', Up')
  <2>1. \A m \in Nodes : Kept(m, tx[o][m], chan[o][m], alive, faulty,
                              tx'[o][m], chan'[o][m], alive, faulty')
    <3>1. SUFFICES ASSUME NEW m \in Nodes
                   PROVE  Kept(m, tx[o][m], chan[o][m], alive, faulty,
                               tx'[o][m], chan'[o][m], alive, faulty')
      OBVIOUS
    <3>2. CASE o = s /\ m = n
      <4>1. tx'[o][m] = x2 /\ chan'[o][m] = r /\ chan[o][m] \in Channels
        BY <1>1, <3>2
      <4>2. QED
        BY <3>2, <4>1, AnswerKept
    <3>3. CASE ~(o = s /\ m = n)
      <4>1. tx'[o][m] = tx[o][m] /\ chan'[o][m] = chan[o][m]
        BY <1>1, <3>3
      <4>2. QED
        BY <4>1, OthersKept
    <3>4. QED
      BY <3>2, <3>3
  <2>2. Sound(child[o], tx[o], chan[o], alive, faulty, Up) /\ child[o] \in Children
    BY <1>1 DEF Inv
  <2>3. Live(child[o], tx[o], chan[o], alive, faulty, Up)
          => Live(child[o], tx'[o], chan'[o], alive, faulty', Up)
    BY <1>4, <2>1, <2>2, LiveKept
  <2>4. Sound(child[o], tx'[o], chan'[o], alive, faulty', Up)
    BY <2>2, <2>3 DEF Sound
  <2>5. QED
    BY <1>4, <2>4
<1>6. QED
  BY <1>3, <1>5 DEF Inv

\* A step of child s that leaves the nodes alone.
LEMMA ChildStep ==
    ASSUME Inv, NEW s \in Sessions, NEW c2 \in Children, NEW ch2 \in [Nodes -> Channels],
           child' = [child EXCEPT ![s] = c2], chan' = [chan EXCEPT ![s] = ch2],
           UNCHANGED <<alive, tx, seq, faulty, down>>,
           Sound(c2, tx[s], ch2, alive, faulty, Up)
    PROVE  Inv'
<1>1. /\ tx \in [Sessions -> [Nodes -> TxRecs]] /\ chan \in [Sessions -> [Nodes -> Channels]]
      /\ child \in [Sessions -> Children]
  BY DEF Inv, Shapes
<1>2. Shapes'
  BY <1>1 DEF Inv, Shapes
<1>3. Up' = Up
  BY DEF Up
<1>4. ASSUME NEW o \in Sessions
      PROVE  Sound(child'[o], tx'[o], chan'[o], alive', faulty', Up')
  <2>1. CASE o = s
    <3>1. child'[o] = c2 /\ chan'[o] = ch2 /\ tx'[o] = tx[s]
      BY <1>1, <2>1
    <3>2. QED
      BY <1>3, <3>1
  <2>2. CASE o # s
    <3>1. child'[o] = child[o] /\ chan'[o] = chan[o] /\ tx'[o] = tx[o]
      BY <1>1, <2>2
    <3>2. Sound(child[o], tx[o], chan[o], alive, faulty, Up)
      BY DEF Inv
    <3>3. QED
      BY <1>3, <3>1, <3>2
  <2>3. QED
    BY <2>1, <2>2
<1>5. QED
  BY <1>2, <1>4 DEF Inv

-----------------------------------------------------------------------------
(* PostgreSQL.                                                             *)

\* What a request is.
LEMMA AskedFacts ==
    ASSUME Inv, NEW s \in Sessions, NEW n \in Nodes, NEW qs, Asked(s, n, qs)
    PROVE  /\ n \in alive /\ chan[s][n].is = "request" /\ chan[s][n].q \in qs
           /\ chan[s][n].q \in Queries /\ tx[s][n] \in TxRecs /\ tx[s][n].st \in TxStates
           /\ child[s].count \in Nat /\ seq[n] \in Nat
<1>1. chan[s][n] \in Channels /\ tx[s][n] \in TxRecs /\ child[s] \in Children /\ seq[n] \in Nat
  BY DEF Inv, Shapes
<1>2. chan[s][n] \in Requests
  BY <1>1, ChannelFacts DEF Asked
<1>3. QED
  BY <1>1, <1>2 DEF Asked, Requests, TxRecs, Children

LEMMA TxFacts ==
    /\ NoTx \in TxRecs /\ NoTx.st = "I"
    /\ \A t \in TxRecs : Aborted(t) \in TxRecs /\ Aborted(t).st = Failed(t.st)
<1>1. <<>> \in Seq(Entries)
  BY EmptySeq
<1>2. NoTx \in TxRecs /\ NoTx.st = "I"
  BY <1>1 DEF NoTx, TxRecs, TxStates
<1>3. [NoTx EXCEPT !.st = "E"] \in TxRecs /\ [NoTx EXCEPT !.st = "E"].st = "E"
  BY <1>1 DEF NoTx, TxRecs, TxStates
<1>4. QED
  BY <1>2, <1>3 DEF Aborted, Failed

\* An answer, given in the way of a node that does what it is asked.
LEMMA PlainAnswer ==
    ASSUME Inv, NEW s \in Sessions, NEW n \in Nodes, NEW kind \in {"C", "E"}, NEW rows \in {0, 1},
           NEW x2 \in TxRecs, n \in alive, chan[s][n].is = "request",
           Answer(s, n, kind, rows, x2), seq' \in [Nodes -> Nat],
           faulty \subseteq faulty', faulty' \subseteq Nodes,
           Fair(n, chan[s][n].q, tx[s][n].st, Reply(kind, rows, x2.st, FALSE), faulty')
    PROVE  Inv'
<1> DEFINE r == Reply(kind, rows, x2.st, FALSE)
<1>1. r \in Replies /\ r.z = x2.st
  BY DEF Reply, Replies, TxRecs
<1>2. /\ tx' = [tx EXCEPT ![s][n] = x2] /\ chan' = [chan EXCEPT ![s][n] = r]
      /\ UNCHANGED <<alive, child, down>>
  BY DEF Answer
<1>3. Fair(n, chan[s][n].q, tx[s][n].st, r, faulty')
  OBVIOUS
<1> HIDE DEF r
<1>4. QED
  BY <1>1, <1>2, <1>3, AnswerStep

\* The answers that are fair.
LEMMA FairAnswers ==
    ASSUME NEW n, NEW q \in Queries, NEW st \in TxStates, NEW fl
    PROVE  /\ ~Fails(q, st) =>
                Fair(n, q, st, Reply("C", IF q \in Writes THEN 1 ELSE 0, After(q, st), FALSE), fl)
           /\ Fails(q, st) => Fair(n, q, st, Reply("E", 0, Failed(st), FALSE), fl)
           /\ n \in fl /\ q \in Writes /\ st # "E" =>
                /\ Fair(n, q, st, Reply("E", 0, Failed(st), FALSE), fl)
                /\ Fair(n, q, st, Reply("C", 0, st, FALSE), fl)
           /\ q \in LockQueries /\ "deadlock" \in Faults => Fair(n, q, st, Reply("E", 0, Failed(st), TRUE), fl)
<1> USE DEF Reply, Fair, Kind, Rows, Fails, After, Failed, is_commit_query
<1>1. ~Fails(q, st) =>
         Fair(n, q, st, Reply("C", IF q \in Writes THEN 1 ELSE 0, After(q, st), FALSE), fl)
  BY DEF Queries, AllStatements, LockQueries, Writes
<1>2. Fails(q, st) => Fair(n, q, st, Reply("E", 0, Failed(st), FALSE), fl)
  BY DEF Queries, AllStatements, LockQueries, Writes
<1>3. n \in fl /\ q \in Writes /\ st # "E" => Fair(n, q, st, Reply("E", 0, Failed(st), FALSE), fl)
  BY DEF Writes
<1>4. n \in fl /\ q \in Writes /\ st # "E" => Fair(n, q, st, Reply("C", 0, st, FALSE), fl)
  BY DEF Writes
<1>5. q \in LockQueries /\ "deadlock" \in Faults => Fair(n, q, st, Reply("E", 0, Failed(st), TRUE), fl)
  BY DEF LockQueries
<1>6. QED
  BY <1>1, <1>2, <1>3, <1>4, <1>5, Zenon

LEMMA BeginAnswer ==
    ASSUME Inv, NEW s \in Sessions, NEW n \in Nodes, pg_begin(s, n)
    PROVE  Inv'
<1> DEFINE x2 == [tx[s][n] EXCEPT !.st = "T"]
<1>1. /\ Asked(s, n, {"begin"}) /\ tx[s][n].st # "E" /\ Answer(s, n, "C", 0, x2)
      /\ seq' = seq /\ faulty' = faulty
  BY DEF pg_begin
<1>2. /\ n \in alive /\ chan[s][n].is = "request" /\ chan[s][n].q = "begin"
      /\ "begin" \in Queries /\ tx[s][n] \in TxRecs /\ tx[s][n].st \in TxStates
  BY <1>1, AskedFacts
<1>3. x2 \in TxRecs /\ x2.st = "T"
  BY <1>2 DEF TxRecs, TxStates
<1>4. Fair(n, "begin", tx[s][n].st, Reply("C", 0, "T", FALSE), faulty)
  <2>1. ~Fails("begin", tx[s][n].st) /\ "begin" \notin Writes /\ After("begin", tx[s][n].st) = "T"
    BY <1>1 DEF Fails, Writes, After
  <2>2. QED
    BY <1>2, <2>1, FairAnswers
<1> HIDE DEF x2
<1>5. QED
  BY <1>1, <1>2, <1>3, <1>4, PlainAnswer DEF Inv, Shapes

LEMMA EndAnswer ==
    ASSUME Inv, NEW s \in Sessions, NEW n \in Nodes, pg_end(s, n)
    PROVE  Inv'
<1>1. /\ Asked(s, n, {"commit", "rollback"}) /\ Answer(s, n, "C", 0, NoTx)
      /\ seq' = seq /\ faulty' = faulty
  BY DEF pg_end
<1> DEFINE q == chan[s][n].q
<1>2. /\ n \in alive /\ chan[s][n].is = "request" /\ q \in {"commit", "rollback"}
      /\ q \in Queries /\ tx[s][n].st \in TxStates
  BY <1>1, AskedFacts
<1> HIDE DEF q
<1>3. Fair(n, q, tx[s][n].st, Reply("C", 0, "I", FALSE), faulty)
  <2>1. ~Fails(q, tx[s][n].st) /\ q \notin Writes /\ After(q, tx[s][n].st) = "I"
    BY <1>2 DEF Fails, Writes, After, is_commit_query
  <2>2. QED
    BY <1>2, <2>1, FairAnswers
<1>4. QED
  BY <1>1, <1>2, <1>3, TxFacts, PlainAnswer DEF Inv, Shapes, q

LEMMA ErrorAnswer ==
    ASSUME Inv, NEW s \in Sessions, NEW n \in Nodes, pg_error(s, n)
    PROVE  Inv'
<1> DEFINE q == chan[s][n].q
           qs == {"error", "badselect", "begin", "update", "insert", "select", "lock", "rowlock"}
<1>1. /\ Asked(s, n, qs) /\ Answer(s, n, "E", 0, Aborted(tx[s][n]))
      /\ q \in {"error", "badselect"} \/ tx[s][n].st = "E"
      /\ seq' = seq /\ faulty' = faulty
  BY DEF pg_error, Asked
<1>2. /\ n \in alive /\ chan[s][n].is = "request" /\ q \in qs
      /\ q \in Queries /\ tx[s][n] \in TxRecs /\ tx[s][n].st \in TxStates
  BY <1>1, AskedFacts
<1>3. Aborted(tx[s][n]) \in TxRecs /\ Aborted(tx[s][n]).st = Failed(tx[s][n].st)
  BY <1>2, TxFacts
<1>4. Fails(q, tx[s][n].st)
  BY <1>1, <1>2 DEF Fails, is_commit_query
<1> HIDE DEF q
<1>5. Fair(n, q, tx[s][n].st, Reply("E", 0, Failed(tx[s][n].st), FALSE), faulty)
  BY <1>2, <1>4, FairAnswers
<1>6. QED
  BY <1>1, <1>2, <1>3, <1>5, PlainAnswer DEF Inv, Shapes, q

\* SELECT and the locks leave the state as it is.
LEMMA SameAnswer ==
    ASSUME Inv, NEW s \in Sessions, NEW n \in Nodes,
           Asked(s, n, {"select", "lock", "rowlock"}), tx[s][n].st # "E",
           NEW x2 \in TxRecs, x2.st = tx[s][n].st, Answer(s, n, "C", 0, x2),
           seq' = seq, faulty' = faulty
    PROVE  Inv'
<1> DEFINE q == chan[s][n].q
<1>1. /\ n \in alive /\ chan[s][n].is = "request" /\ q \in {"select", "lock", "rowlock"}
      /\ q \in Queries /\ tx[s][n].st \in TxStates
  BY AskedFacts
<1> HIDE DEF q
<1>2. Fair(n, q, tx[s][n].st, Reply("C", 0, x2.st, FALSE), faulty)
  <2>1. ~Fails(q, tx[s][n].st) /\ q \notin Writes /\ After(q, tx[s][n].st) = x2.st
    BY <1>1 DEF Fails, Writes, After, is_commit_query
  <2>2. QED
    BY <1>1, <2>1, FairAnswers
<1>3. QED
  BY <1>1, <1>2, PlainAnswer DEF Inv, Shapes, q

LEMMA SelectAnswer ==
    ASSUME Inv, NEW s \in Sessions, NEW n \in Nodes, pg_select(s, n)
    PROVE  Inv'
<1>1. /\ Asked(s, n, {"select"}) /\ tx[s][n].st # "E" /\ Answer(s, n, "C", 0, tx[s][n])
      /\ seq' = seq /\ faulty' = faulty
  BY DEF pg_select
<1>2. Asked(s, n, {"select", "lock", "rowlock"})
  BY <1>1 DEF Asked
<1>3. tx[s][n] \in TxRecs
  BY <1>2, AskedFacts
<1>4. QED
  BY <1>1, <1>2, <1>3, SameAnswer

LEMMA LockAnswer ==
    ASSUME Inv, NEW s \in Sessions, NEW n \in Nodes, pg_lock(s, n)
    PROVE  Inv'
<1> DEFINE x2 == [tx[s][n] EXCEPT !.locks = @ \cup {chan[s][n].q}]
<1>1. /\ Asked(s, n, {"lock", "rowlock"}) /\ tx[s][n].st # "E" /\ Answer(s, n, "C", 0, x2)
      /\ seq' = seq /\ faulty' = faulty
  BY DEF pg_lock
<1>2. Asked(s, n, {"select", "lock", "rowlock"}) /\ chan[s][n].q \in {"lock", "rowlock"}
  BY <1>1 DEF Asked
<1>3. tx[s][n] \in TxRecs
  BY <1>2, AskedFacts
<1>4. x2 \in TxRecs /\ x2.st = tx[s][n].st
  BY <1>2, <1>3 DEF TxRecs
<1> HIDE DEF x2
<1>5. QED
  BY <1>1, <1>2, <1>4, SameAnswer

LEMMA WriteAnswer ==
    ASSUME Inv, NEW s \in Sessions, NEW n \in Nodes, pg_update(s, n) \/ pg_insert(s, n)
    PROVE  Inv'
<1> DEFINE t == tx[s][n]
           q == chan[s][n].q
<1>1. PICK v \in Nat, l \in SUBSET {"row", "lock", "rowlock"} :
        /\ Write(s, n, [id |-> <<s, child[s].count>>, val |-> v], l)
        /\ Asked(s, n, Writes) /\ t.st # "E" /\ seq' \in [Nodes -> Nat] /\ faulty' = faulty
  <2>1. seq \in [Nodes -> Nat]
    BY DEF Inv, Shapes
  <2>2. CASE pg_update(s, n)
    <3>1. /\ Write(s, n, [id |-> <<s, child[s].count>>, val |-> 0], {"row"})
          /\ Asked(s, n, Writes) /\ t.st # "E" /\ seq' = seq /\ faulty' = faulty
      BY <2>2 DEF pg_update, Asked, Writes
    <3>2. QED
      BY <2>1, <3>1
  <2>3. CASE pg_insert(s, n)
    <3>1. /\ Write(s, n, [id |-> <<s, child[s].count>>, val |-> seq[n] + 1], {})
          /\ Asked(s, n, Writes) /\ t.st # "E" /\ faulty' = faulty
          /\ seq' = [seq EXCEPT ![n] = @ + 1]
      BY <2>3 DEF pg_insert, Asked, Writes
    <3>2. seq' \in [Nodes -> Nat] /\ seq[n] + 1 \in Nat
      BY <2>1, <3>1
    <3>3. QED
      BY <3>1, <3>2
  <2>4. QED
    BY <2>2, <2>3
<1>2. /\ n \in alive /\ chan[s][n].is = "request" /\ q \in Writes
      /\ q \in Queries /\ t \in TxRecs /\ t.st \in TxStates /\ child[s].count \in Nat
  BY <1>1, AskedFacts
<1> DEFINE e == [id |-> <<s, child[s].count>>, val |-> v]
           x2 == IF t.st = "I" THEN NoTx ELSE [t EXCEPT !.w = Append(@, e), !.locks = @ \cup l]
<1>3. Answer(s, n, "C", 1, x2)
  BY <1>1 DEF Write
<1>4. x2 \in TxRecs /\ x2.st = t.st
  <2>1. e \in Entries
    BY <1>2 DEF Entries
  <2> HIDE DEF e
  <2>2. t.w \in Seq(Entries) /\ t.locks \cup l \in SUBSET {"row", "lock", "rowlock"}
    BY <1>2 DEF TxRecs
  <2>3. Append(t.w, e) \in Seq(Entries)
    BY <2>1, <2>2, AppendProperties
  <2>4. QED
    BY <1>2, <2>2, <2>3, TxFacts DEF TxRecs
<1> HIDE DEF x2, q, t
<1>5. Fair(n, q, t.st, Reply("C", 1, t.st, FALSE), faulty)
  <2>1. ~Fails(q, t.st) /\ After(q, t.st) = t.st
    BY <1>1, <1>2 DEF Fails, Writes, After, is_commit_query
  <2>2. QED
    BY <1>2, <2>1, FairAnswers
<1>6. QED
  BY <1>1, <1>2, <1>3, <1>4, <1>5, PlainAnswer DEF Inv, Shapes, q, t

LEMMA LocalErrorAnswer ==
    ASSUME Inv, NEW s \in Sessions, NEW n \in Nodes,
           pg_local_error(s, n) \/ pg_deadlock(s, n)
    PROVE  Inv'
<1> DEFINE t == tx[s][n]
           q == chan[s][n].q
           dead == IF pg_deadlock(s, n) THEN TRUE ELSE FALSE
           r == Reply("E", 0, Aborted(t).st, dead)
<1>1. /\ Asked(s, n, Writes \cup LockQueries) /\ t.st # "E" /\ UNCHANGED <<alive, child, down, seq>>
      /\ tx' = [tx EXCEPT ![s][n] = Aborted(tx[s][n])] /\ chan' = [chan EXCEPT ![s][n] = r]
      /\ faulty \subseteq faulty' /\ faulty' \subseteq faulty \cup {n}
      /\ (q \in LockQueries /\ dead /\ "deadlock" \in Faults) \/ (q \in Writes /\ n \in faulty' /\ ~dead)
  <2>1. CASE pg_deadlock(s, n)
    <3>1. dead = TRUE
      BY <2>1
    <3> HIDE DEF dead
    <3>2. chan' = [chan EXCEPT ![s][n] = r]
      BY <2>1, <3>1, Zenon DEF pg_deadlock, t
    <3> HIDE DEF r
    <3>3. QED
      BY <2>1, <3>1, <3>2 DEF pg_deadlock, Asked, LockQueries, Fault
  <2>2. CASE ~pg_deadlock(s, n) /\ pg_local_error(s, n)
    BY <2>2 DEF pg_local_error, Asked, Writes
  <2>3. QED
    BY <2>1, <2>2
<1>2. /\ n \in alive /\ chan[s][n].is = "request" /\ q \in Queries
      /\ t \in TxRecs /\ t.st \in TxStates
  BY <1>1, AskedFacts
<1>3. Aborted(t) \in TxRecs /\ Aborted(t).st = Failed(t.st) /\ Failed(t.st) \in TxStates
  BY <1>2, TxFacts DEF Failed, TxStates
<1>4. dead \in BOOLEAN
  OBVIOUS
<1> HIDE DEF t, q, dead
<1>5. r \in Replies /\ r.z = Aborted(t).st
  BY <1>3, <1>4 DEF Reply, Replies
<1>6. Fair(n, q, t.st, r, faulty')
  <2>1. CASE q \in LockQueries /\ dead /\ "deadlock" \in Faults
    <3>1. r = Reply("E", 0, Failed(t.st), TRUE)
      BY <1>3, <1>4, <2>1
    <3>2. QED
      BY <1>2, <2>1, <3>1, FairAnswers
  <2>2. CASE q \in Writes /\ n \in faulty' /\ ~dead
    <3>1. r = Reply("E", 0, Failed(t.st), FALSE)
      BY <1>3, <1>4, <2>2
    <3>2. QED
      BY <1>1, <1>2, <2>2, <3>1, FairAnswers
  <2>3. QED
    BY <1>1, <2>1, <2>2
<1> HIDE DEF r
<1>7. QED
  BY <1>1, <1>2, <1>3, <1>5, <1>6, AnswerStep DEF Inv, Shapes, t, q

LEMMA DriftAnswer ==
    ASSUME Inv, NEW s \in Sessions, NEW n \in Nodes, pg_drift(s, n)
    PROVE  Inv'
<1>1. /\ Asked(s, n, {"update"}) /\ tx[s][n].st # "E" /\ Answer(s, n, "C", 0, tx[s][n])
      /\ seq' = seq /\ faulty' = faulty \cup {n}
  BY DEF pg_drift
<1>2. /\ n \in alive /\ chan[s][n].is = "request" /\ chan[s][n].q = "update" /\ "update" \in Queries
      /\ tx[s][n] \in TxRecs /\ tx[s][n].st \in TxStates
  BY <1>1, AskedFacts
<1>3. Fair(n, "update", tx[s][n].st, Reply("C", 0, tx[s][n].st, FALSE), faulty')
  <2>1. "update" \in Writes /\ n \in faulty'
    BY <1>1 DEF Writes
  <2>2. QED
    BY <1>1, <1>2, <2>1, FairAnswers
<1>4. QED
  BY <1>1, <1>2, <1>3, PlainAnswer DEF Inv, Shapes

\* The node goes: requests are lost, replies already sent are not.
LEMMA CrashStep ==
    ASSUME Inv, NEW n \in Nodes, Crash(n)
    PROVE  Inv'
<1>1. /\ tx \in [Sessions -> [Nodes -> TxRecs]] /\ chan \in [Sessions -> [Nodes -> Channels]]
      /\ child \in [Sessions -> Children]
  BY DEF Inv, Shapes
<1>2. /\ alive' = alive \ {n} /\ UNCHANGED <<seq, child, down, faulty>>
      /\ tx' = [s \in Sessions |-> [tx[s] EXCEPT ![n] = NoTx]]
      /\ chan' = [s \in Sessions |->
                    IF chan[s][n].is = "request" THEN [chan[s] EXCEPT ![n] = Eof] ELSE chan[s]]
  BY DEF Crash
<1>3. Eof \in Channels /\ NoTx \in TxRecs
  BY TxFacts DEF Channels
<1>4. Shapes'
  <2>1. tx' \in [Sessions -> [Nodes -> TxRecs]]
    BY <1>1, <1>2, <1>3
  <2>2. chan' \in [Sessions -> [Nodes -> Channels]]
    BY <1>1, <1>2, <1>3
  <2>3. QED
    BY <1>2, <2>1, <2>2 DEF Inv, Shapes
<1>5. Up' = Up /\ Up \in SUBSET Nodes
  BY <1>2 DEF Up
<1>6. ASSUME NEW o \in Sessions
      PROVE  Sound(child'[o], tx'[o], chan'[o], alive', faulty', Up')
  <2>1. ASSUME NEW m \in Nodes
        PROVE  Kept(m, tx[o][m], chan[o][m], alive, faulty, tx'[o][m], chan'[o][m], alive', faulty)
    <3>1. /\ m # n => tx'[o][m] = tx[o][m] /\ chan'[o][m] = chan[o][m]
          /\ m = n => chan'[o][m] = IF chan[o][m].is = "request" THEN Eof ELSE chan[o][m]
          /\ chan[o][m] \in Channels
      BY <1>1, <1>2
    <3>2. Kept(m, tx[o][m], chan[o][m], alive, faulty, tx'[o][m], chan'[o][m], alive \ {n}, faulty)
      BY <3>1, CrashKept, Zenon
    <3>3. QED
      BY <1>2, <3>2
  <2>2. Sound(child[o], tx[o], chan[o], alive, faulty, Up) /\ child[o] \in Children
    BY <1>1 DEF Inv
  <2>3. Live(child[o], tx[o], chan[o], alive, faulty, Up)
          => Live(child[o], tx'[o], chan'[o], alive', faulty, Up)
    BY <1>5, <2>1, <2>2, LiveKept
  <2>4. Sound(child[o], tx'[o], chan'[o], alive', faulty, Up)
    BY <2>2, <2>3 DEF Sound
  <2>5. QED
    BY <1>2, <1>5, <2>4
<1>7. QED
  BY <1>4, <1>6 DEF Inv

\* A session that is over says nothing about its backends.
LEMMA DisconnectStep ==
    ASSUME Inv, NEW s \in Sessions, NEW n \in Nodes, pg_disconnect(s, n)
    PROVE  Inv'
<1>1. /\ tx \in [Sessions -> [Nodes -> TxRecs]] /\ chan \in [Sessions -> [Nodes -> Channels]]
      /\ child \in [Sessions -> Children]
  BY DEF Inv, Shapes
<1>2. /\ child[s].pc = "exit" /\ UNCHANGED <<alive, seq, child, down, faulty>>
      /\ tx' = [tx EXCEPT ![s][n] = NoTx] /\ chan' = [chan EXCEPT ![s][n] = Empty]
  BY DEF pg_disconnect, ghosts
<1>3. Shapes'
  <2>1. Empty \in Channels /\ NoTx \in TxRecs
    BY TxFacts DEF Channels
  <2>2. QED
    BY <1>1, <1>2, <2>1 DEF Inv, Shapes
<1>4. Up' = Up
  BY <1>2 DEF Up
<1>5. ASSUME NEW o \in Sessions
      PROVE  Sound(child'[o], tx'[o], chan'[o], alive', faulty', Up')
  <2>1. Sound(child[o], tx[o], chan[o], alive, faulty, Up)
    BY DEF Inv
  <2>2. CASE o = s
    BY <1>2, <2>1, <2>2 DEF Sound
  <2>3. CASE o # s
    <3>1. tx'[o] = tx[o] /\ chan'[o] = chan[o]
      BY <1>1, <1>2, <2>3
    <3>2. QED
      BY <1>2, <1>4, <2>1, <3>1
  <2>4. QED
    BY <2>2, <2>3
<1>6. QED
  BY <1>3, <1>5 DEF Inv

LEMMA BackendStep ==
    ASSUME Inv, NEW s \in Sessions, NEW n \in Nodes, Backend(s, n)
    PROVE  Inv'
BY BeginAnswer, EndAnswer, ErrorAnswer, SelectAnswer, WriteAnswer, LockAnswer, LocalErrorAnswer,
   DriftAnswer, DisconnectStep DEF Backend

-----------------------------------------------------------------------------
(* The end of a session.                                                   *)

LEMMA ExitedFacts ==
    ASSUME NEW c \in Children
    PROVE  /\ Exited(c) \in Children /\ Exited(c).pc = "exit" /\ Exited(c).doomed = FALSE
           /\ [c EXCEPT !.doomed = TRUE] \in Children
           /\ [c EXCEPT !.doomed = TRUE].pc = c.pc /\ [c EXCEPT !.doomed = TRUE].doomed = TRUE
BY DEF Exited, Children, Places

LEMMA ExitStep ==
    ASSUME Inv, NEW s \in Sessions, NEW c \in Children, NEW ch2 \in [Nodes -> Channels],
           child' = [child EXCEPT ![s] = Exited(c)], chan' = [chan EXCEPT ![s] = ch2],
           UNCHANGED <<alive, tx, seq, faulty, down>>
    PROVE  Inv'
<1>1. Exited(c) \in Children /\ Exited(c).pc = "exit" /\ ~Exited(c).doomed
  BY ExitedFacts
<1>2. Sound(Exited(c), tx[s], ch2, alive, faulty, Up)
  BY <1>1 DEF Sound
<1>3. QED
  BY <1>1, <1>2, ChildStep

LEMMA SessionTypes ==
    ASSUME Inv, NEW s \in Sessions
    PROVE  /\ child[s] \in Children /\ chan[s] \in [Nodes -> Channels] /\ tx[s] \in [Nodes -> TxRecs]
           /\ Sound(child[s], tx[s], chan[s], alive, faulty, Up)
           /\ Up \subseteq Nodes /\ Nodes \subseteq Nat
           /\ chan = [chan EXCEPT ![s] = chan[s]]
<1>1. N \in Nat
  BY ReplicationAssumption
<1>2. Nodes \subseteq Nat
  BY <1>1 DEF Nodes
<1>3. QED
  BY <1>2 DEF Inv, Shapes, Up

LEMMA EndStep ==
    ASSUME Inv, NEW s \in Sessions, End(s), chan' = chan, UNCHANGED <<alive, tx, seq, faulty, down>>
    PROVE  Inv'
<1>1. child' = [child EXCEPT ![s] = Exited(child[s])]
  BY DEF End
<1>2. child[s] \in Children /\ chan[s] \in [Nodes -> Channels] /\ chan' = [chan EXCEPT ![s] = chan[s]]
  BY SessionTypes
<1>3. QED
  BY <1>1, <1>2, ExitStep

\* Killed by a signal.
LEMMA KilledSound ==
    ASSUME NEW c \in Children, NEW t, NEW ch, NEW al, NEW fl, NEW up
    PROVE  Killed(c) \in Children /\ Sound(Killed(c), t, ch, al, fl, up)
<1>1. CASE SignalsBlocked(c)
  <2>1. /\ Killed(c) \in Children /\ Killed(c).pc = "commit" /\ Killed(c).doomed = TRUE
    BY <1>1, ExitedFacts DEF Killed, SignalsBlocked
  <2>2. QED
    BY <2>1 DEF Sound
<1>2. CASE ~SignalsBlocked(c)
  <2>1. /\ Killed(c) \in Children /\ Killed(c).pc = "exit" /\ Killed(c).doomed = FALSE
    BY <1>2, ExitedFacts DEF Killed
  <2>2. QED
    BY <2>1 DEF Sound
<1>3. QED
  BY <1>1, <1>2

LEMMA KillStep ==
    ASSUME Inv, NEW s \in Sessions, Kill(s)
    PROVE  Inv'
<1>1. /\ child' = [child EXCEPT ![s] = Killed(child[s])] /\ chan' = chan
      /\ UNCHANGED <<alive, tx, seq, faulty, down>>
  BY DEF Kill, pgVars
<1>2. child[s] \in Children /\ chan[s] \in [Nodes -> Channels] /\ chan' = [chan EXCEPT ![s] = chan[s]]
  BY <1>1, SessionTypes
<1>3. Killed(child[s]) \in Children /\ Sound(Killed(child[s]), tx[s], chan[s], alive, faulty, Up)
  BY <1>2, KilledSound
<1>4. QED
  BY <1>1, <1>2, <1>3, ChildStep

\* The parent changes the nodes in service under no session.
LEMMA FailoverStep ==
    ASSUME Inv, Failover
    PROVE  Inv'
<1>1. /\ child' = [s \in Sessions |-> Killed(child[s])] /\ down' = down \cup req
      /\ UNCHANGED <<alive, tx, seq, faulty, chan>>
  BY DEF Failover, pgVars
<1>2. \A s \in Sessions : child[s] \in Children
  BY SessionTypes
<1>3. \A s \in Sessions :
        /\ Killed(child[s]) \in Children
        /\ Sound(Killed(child[s]), tx'[s], chan'[s], alive', faulty', Up')
  BY <1>2, KilledSound
<1>4. Shapes'
  BY <1>1, <1>3 DEF Inv, Shapes
<1>5. QED
  BY <1>1, <1>3, <1>4 DEF Inv

-----------------------------------------------------------------------------
(* A new statement.                                                        *)

LEMMA LeastFacts ==
    ASSUME NEW S, S \subseteq Nodes, S # {}
    PROVE  Least(S) \in S /\ \A m \in S : Least(S) <= m
<1>1. N \in Nat
  BY ReplicationAssumption
<1>2. S \subseteq Nat
  BY <1>1 DEF Nodes
<1> DEFINE l == Least(S)
<1>3. l = CHOOSE n \in S : \A m \in S : n <= m
  BY DEF Least
<1> HIDE DEF l
<1>4. l \in S /\ \A m \in S : l <= m
  BY <1>2, <1>3, ChosenLeast
<1>5. QED
  BY <1>4 DEF l

\* A set of nodes with no two nodes in it.
LEMMA SmallSets ==
    ASSUME NEW S, S \subseteq Nodes, S # {}
    PROVE  /\ IsFiniteSet(S) /\ Cardinality(S) \in Nat
           /\ ~(Cardinality(S) > 1) <=> \E m \in S : S = {m}
<1>1. N \in Nat
  BY ReplicationAssumption
<1>2. IsFiniteSet(Nodes)
  BY <1>1, FS_Interval DEF Nodes
<1>3. IsFiniteSet(S) /\ Cardinality(S) \in Nat
  BY <1>2, FS_Subset, FS_CardinalityType
<1>4. Cardinality(S) # 0
  BY <1>3, FS_EmptySet
<1>5. ~(Cardinality(S) > 1) <=> Cardinality(S) = 1
  BY <1>3, <1>4
<1>6. Cardinality(S) = 1 <=> \E m : S = {m}
  BY <1>3, FS_Singleton
<1>7. QED
  BY <1>3, <1>5, <1>6

\* A node at rest can be asked anything.
LEMMA RestAsk ==
    ASSUME NEW n, NEW q, NEW st, NEW x, NEW y, NEW al, NEW fl, Rest(n, st, x, y, al)
    PROVE  Ask(n, q, st, x, y, al, fl)
BY DEF Rest, Ask, Empty

\* Nothing is under way, and the statement may go out.
LEMMA SendSound ==
    ASSUME NEW c \in Children, NEW t, NEW ch, NEW al, NEW fl, NEW up, up \subseteq Nodes, up # {},
           ~c.doomed, ~c.mismatch, c.where \subseteq up,
           \A n \in Nodes \ up : ch[n] = Empty,
           \A n \in up : Rest(n, c.tstate[n], t[n], ch[n], al),
           Single(c, up) \/ (Internal(c, up) /\ (LockSafe => Uniform(c, up)))
    PROVE  AfterLock(c) \in Children /\ Sound(AfterLock(c), t, ch, al, fl, up)
<1> DEFINE d == AfterLock(c)
<1>1. /\ d \in Children /\ d.pc = "send" /\ d.todo = {} /\ ~d.mismatch /\ ~d.doomed
      /\ d.where = c.where /\ d.stmt = c.stmt /\ d.tstate = c.tstate /\ d.internal = c.internal
  BY DEF AfterLock, Children, Places
<1> HIDE DEF d
<1>2. /\ Single(c, up) => Single(d, up)
      /\ Internal(c, up) => Internal(d, up)
      /\ Uniform(c, up) => Uniform(d, up)
  BY <1>1 DEF Single, Internal, Uniform
<1>3. \A n \in up : Ask(n, d.stmt, d.tstate[n], t[n], ch[n], al, fl)
  BY <1>1, RestAsk
<1>4. Runs(d, t, ch, al, fl, up)
  BY <1>1, <1>2, <1>3 DEF Runs
<1>5. QED
  BY <1>1, <1>4 DEF d, Sound, Live

\* The internal transaction is open on every node.
LEMMA BegunSound ==
    ASSUME NEW c \in Children, NEW t, NEW ch, NEW al, NEW fl, NEW up, up \subseteq Nodes, up # {},
           ~c.doomed, ~c.mismatch, ~c.dead, c.kind = LockKind, c.where = up, c.internal = up,
           c.stmt \in Writes,
           \A n \in Nodes \ up : ch[n] = Empty,
           \A n \in up : c.tstate[n] = "T" /\ Rest(n, "T", t[n], ch[n], al)
    PROVE  AfterBegin(c) \in Children /\ Sound(AfterBegin(c), t, ch, al, fl, up)
<1>1. CASE need_insert_lock(c) /\ Cardinality(c.where) > 1
  <2> DEFINE d == AfterBegin(c)
  <2>1. d = [c EXCEPT !.pc = "lock", !.todo = {Least(up)}]
    BY <1>1 DEF AfterBegin, MASTER_NODE_ID
  <2>2. Least(up) \in up
    BY LeastFacts
  <2>3. /\ d \in Children /\ d.pc = "lock" /\ d.todo = {Least(up)} /\ ~d.mismatch /\ ~d.doomed
        /\ d.where = up /\ d.stmt = c.stmt /\ d.tstate = c.tstate /\ d.internal = up
        /\ ~d.dead /\ d.kind = LockKind
    <3> HIDE DEF d
    <3>1. QED
      BY <2>1, <2>2, ZenonT(60) DEF Children, Places
  <2> HIDE DEF d
  <2>4. d.stmt = "insert" /\ LockKind # 0
    BY <1>1, <2>3 DEF need_insert_lock
  <2>5. LocksMaster(d, t, ch, al, fl, up)
    BY <2>2, <2>3, <2>4, RestAsk DEF LocksMaster
  <2>6. Locks(d, t, ch, al, fl, up)
    <3>1. up # {Least(up)}
      BY <1>1, <2>2, SmallSets
    <3>2. QED
      BY <2>3, <2>4, <2>5, <3>1 DEF Locks
  <2>7. QED
    BY <2>3, <2>6 DEF d, Sound, Live
<1>2. CASE ~(need_insert_lock(c) /\ Cardinality(c.where) > 1)
  <2>1. AfterBegin(c) = AfterLock(c)
    BY <1>2 DEF AfterBegin
  <2>2. Internal(c, up) /\ Uniform(c, up)
    BY DEF Internal, Uniform
  <2>3. QED
    BY <2>1, <2>2, SendSound
<1>3. QED
  BY <1>1, <1>2

LEMMA SimpleQueryStep ==
    ASSUME Inv, NEW s \in Sessions, NEW st \in Statements[s], NEW b \in Nodes, SimpleQuery(s, st, b)
    PROVE  Inv'
<1> DEFINE c0 == child[s]
           c == [c0 EXCEPT !.stmt = st, !.count = @ + 1, !.kind = LockKind,
                    !.dead = FALSE, !.where = pool_where_to_send(c0, st, b),
                    !.ids = IF st = "rollback" THEN {} ELSE @]
           c2 == IF ToBegin(c) # {} THEN [c EXCEPT !.pc = "begin", !.todo = ToBegin(c)]
                 ELSE AfterBegin(c)
           M == Least(Up)
<1>1. /\ c0.pc = "idle" /\ b \in Up
      /\ st \in {"begin", "insert"} => c0.tstate[M] = "I"
      /\ child' = [child EXCEPT ![s] = c2]
      /\ chan' = chan /\ UNCHANGED <<alive, tx, seq, faulty, down>>
  BY DEF SimpleQuery, pgVars, ghosts, REAL_MASTER_NODE_ID
<1>2. /\ c0 \in Children /\ chan[s] \in [Nodes -> Channels] /\ Up \subseteq Nodes
      /\ chan' = [chan EXCEPT ![s] = chan[s]]
      /\ Sound(c0, tx[s], chan[s], alive, faulty, Up)
  BY <1>1, SessionTypes
<1>3. /\ ~c0.doomed /\ Idle(c0, tx[s], chan[s], alive, Up)
      /\ \A n \in Nodes \ Up : chan[s][n] = Empty
  BY <1>1, <1>2 DEF Sound, Live
<1>4. st \in AllStatements /\ LockKind \in {0, 1, 3}
  BY ReplicationAssumption
<1> DEFINE W == pool_where_to_send(c0, st, b)
<1>5. M \in Up
  BY <1>1, <1>2, LeastFacts
<1>6. /\ W \subseteq Up /\ W # {}
      /\ is_select_query(st) => /\ \E n \in Up : W = {n}
                                /\ c0.tstate[M] # "I" => W = {M}
      /\ ~is_select_query(st) => W = Up
  BY <1>1, <1>5 DEF pool_where_to_send, REAL_MASTER_NODE_ID
<1> HIDE DEF W
<1>7. /\ c \in Children /\ c.pc = "idle" /\ c.stmt = st /\ c.kind = LockKind /\ c.dead = FALSE
      /\ c.where = W /\ c.tstate = c0.tstate /\ c.internal = c0.internal /\ c.todo = c0.todo
      /\ c.mismatch = c0.mismatch /\ c.doomed = c0.doomed
  <2>1. c = [c0 EXCEPT !.stmt = st, !.count = @ + 1, !.kind = LockKind, !.dead = FALSE,
                       !.where = W, !.ids = IF st = "rollback" THEN {} ELSE @]
    BY DEF W
  <2>2. W \in SUBSET Nodes /\ c0.count + 1 \in Nat
    BY <1>2, <1>6 DEF Children
  <2> HIDE DEF c, c0
  <2>3. QED
    BY <1>1, <1>2, <1>4, <2>1, <2>2, ZenonT(40) DEF Children, Places, c0
<1> HIDE DEF c
<1>8. /\ ~c.mismatch /\ ~c.doomed /\ c.internal = {} /\ c.todo = {} /\ Uniform(c, Up)
      /\ \A n \in Up : Rest(n, c.tstate[n], tx[s][n], chan[s][n], alive)
  BY <1>3, <1>7 DEF Idle, Uniform
<1>9. \A n \in Up : c.tstate[n] = c.tstate[M]
  BY <1>5, <1>8 DEF Uniform
<1> HIDE DEF c0
<1>10. CASE ToBegin(c) # {}
  <2>1. /\ Cardinality(c.where) > 1 /\ c.stmt \in {"update", "insert", "select", "badselect"}
        /\ ToBegin(c) = {n \in c.where \ c.internal : c.tstate[n] = "I"}
    BY <1>10 DEF ToBegin
  <2>2. ~ \E m \in W : W = {m}
    BY <1>2, <1>6, <1>7, <2>1, SmallSets
  <2>3. W = Up /\ c.stmt \in Writes
    BY <1>6, <1>7, <2>1, <2>2 DEF is_select_query, Writes
  <2>4. ToBegin(c) = Up /\ \A n \in Up : c.tstate[n] = "I"
    BY <1>7, <1>8, <1>9, <1>10, <2>1, <2>3
  <2>5. c2 = [c EXCEPT !.pc = "begin", !.todo = Up]
    BY <1>10, <2>4
  <2> HIDE DEF c2
  <2>6. /\ c2 \in Children /\ c2.pc = "begin" /\ c2.todo = Up /\ c2.where = Up /\ c2.internal = {}
        /\ c2.tstate = c.tstate /\ c2.stmt = c.stmt /\ ~c2.mismatch /\ ~c2.doomed /\ ~c2.dead
        /\ c2.kind = LockKind
    BY <1>2, <1>7, <1>8, <2>3, <2>5 DEF Children, Places
  <2>7. \A n \in Up : Ask(n, "begin", "I", tx[s][n], chan[s][n], alive, faulty)
    BY <1>8, <2>4, RestAsk
  <2>8. Begins(c2, tx[s], chan[s], alive, faulty, Up)
    BY <1>5, <2>3, <2>4, <2>6, <2>7 DEF Begins
  <2>9. Sound(c2, tx[s], chan[s], alive, faulty, Up)
    BY <1>3, <1>5, <2>6, <2>8 DEF Sound, Live
  <2>10. QED
    BY <1>1, <1>2, <2>6, <2>9, ChildStep
<1>11. CASE ToBegin(c) = {}
  <2>1. W = Up /\ st \in Writes /\ Cardinality(W) > 1 => c.tstate[M] # "I"
    BY <1>5, <1>7, <1>8, <1>11 DEF ToBegin, Writes
  <2>2. st = "insert" => W = Up /\ ~(Cardinality(W) > 1)
    BY <1>1, <1>6, <1>7, <2>1 DEF is_select_query, Writes, c0
  <2>3. c2 = AfterLock(c)
    BY <1>7, <1>11, <2>2 DEF AfterBegin, need_insert_lock
  <2> HIDE DEF c2
  <2>4. c.stmt \in Writes /\ c.tstate[M] = "I" => Up = {M}
    <3>1. SUFFICES ASSUME st \in Writes, c.tstate[M] = "I" PROVE Up = {M}
      BY <1>7
    <3>2. W = Up
      BY <1>6, <3>1 DEF is_select_query, Writes
    <3>3. ~(Cardinality(Up) > 1)
      BY <2>1, <3>1, <3>2
    <3>4. QED
      BY <1>2, <1>5, <3>3, SmallSets
  <2>5. Single(c, Up)
    BY <1>1, <1>4, <1>6, <1>7, <1>8, <2>4 DEF Single, c0
  <2>6. c2 \in Children /\ Sound(c2, tx[s], chan[s], alive, faulty, Up)
    BY <1>2, <1>3, <1>5, <1>6, <1>7, <1>8, <2>3, <2>5, SendSound
  <2>7. QED
    BY <1>1, <1>2, <2>6, ChildStep
<1>12. QED
  BY <1>10, <1>11

-----------------------------------------------------------------------------
(* Commands of pgpool's own.                                               *)

\* What has been sent to a node at rest is what it is asked.
LEMMA SentFacts ==
    ASSUME Inv, NEW s \in Sessions, NEW S, NEW q \in Queries, Sent(s, S, q),
           \A n \in S : chan[s][n].is = "empty"
    PROVE  \E ch2 \in [Nodes -> Channels] :
             /\ chan' = [chan EXCEPT ![s] = ch2]
             /\ \A n \in Nodes \ S : ch2[n] = chan[s][n]
             /\ \A n \in Nodes, st \in TxStates :
                  Ask(n, q, st, tx[s][n], chan[s][n], alive, faulty)
                    => Ask(n, q, st, tx[s][n], ch2[n], alive, faulty)
<1> DEFINE ch2 == [n \in Nodes |-> IF n \notin S THEN chan[s][n]
                                   ELSE IF n \in alive THEN Request(q) ELSE Eof]
<1>1. chan[s] \in [Nodes -> Channels] /\ chan \in [Sessions -> [Nodes -> Channels]]
  BY DEF Inv, Shapes
<1>2. Request(q) \in Channels /\ Eof \in Channels /\ Request(q).is = "request" /\ Request(q).q = q
      /\ Eof.is = "eof"
  BY DEF Request, Requests, Channels, Eof
<1>3. ch2 \in [Nodes -> Channels]
  BY <1>1, <1>2
<1>4. chan' = [chan EXCEPT ![s] = ch2]
  BY <1>1 DEF Sent
<1>5. ASSUME NEW n \in Nodes, NEW st \in TxStates, Ask(n, q, st, tx[s][n], chan[s][n], alive, faulty)
      PROVE  Ask(n, q, st, tx[s][n], ch2[n], alive, faulty)
  <2>1. CASE n \notin S
    BY <1>5, <2>1
  <2>2. CASE n \in S /\ n \in alive
    <3>1. ch2[n] = Request(q) /\ chan[s][n].is = "empty"
      BY <2>2
    <3> HIDE DEF ch2
    <3>2. QED
      BY <1>2, <1>5, <3>1 DEF Ask
  <2>3. CASE n \in S /\ n \notin alive
    <3>1. ch2[n] = Eof
      BY <2>3
    <3> HIDE DEF ch2
    <3>2. QED
      BY <1>2, <3>1 DEF Ask
  <2>4. QED
    BY <2>1, <2>2, <2>3
<1>6. \A n \in Nodes \ S : ch2[n] = chan[s][n]
  OBVIOUS
<1> HIDE DEF ch2
<1>7. QED
  BY <1>3, <1>4, <1>5, <1>6

LEMMA TurnFacts ==
    ASSUME NEW c \in Children, c.todo # {}
    PROVE  Turn(c) \in c.todo
<1>1. c.todo \subseteq Nodes
  BY DEF Children
<1>2. CASE c.pc = "commit" /\ c.todo # {MASTER_NODE_ID(c)}
  <2>1. c.todo \ {MASTER_NODE_ID(c)} # {}
    BY <1>2
  <2>2. Least(c.todo \ {MASTER_NODE_ID(c)}) \in c.todo
    BY <1>1, <2>1, LeastFacts
  <2>3. QED
    BY <1>2, <2>2 DEF Turn
<1>3. CASE ~(c.pc = "commit" /\ c.todo # {MASTER_NODE_ID(c)})
  <2>1. Least(c.todo) \in c.todo
    BY <1>1, LeastFacts
  <2>2. QED
    BY <1>3, <2>1 DEF Turn
<1>4. QED
  BY <1>2, <1>3

LEMMA do_commandStep ==
    ASSUME Inv, NEW s \in Sessions, do_command(s)
    PROVE  Inv'
<1> DEFINE c == child[s]
           t == tx[s]
           ch == chan[s]
           k == Turn(c)
           q == Command(c)
<1>1. /\ c.todo # {} /\ c.pc \in {"begin", "lock", "sync", "abort", "commit"}
      /\ ch[k].is = "empty" /\ Sent(s, {k}, q)
      /\ child' = child /\ UNCHANGED <<alive, tx, seq, faulty, down>>
  BY DEF do_command, pgVars, ghosts
<1>2. /\ c \in Children /\ Sound(c, t, ch, alive, faulty, Up) /\ Up \subseteq Nodes
      /\ child' = [child EXCEPT ![s] = c]
  BY <1>1, SessionTypes DEF Inv, Shapes
<1>3. k \in c.todo
  BY <1>1, <1>2, TurnFacts
<1>4. /\ c.pc = "begin" => q = "begin"
      /\ c.pc = "lock" => q = IF c.dead THEN "error" ELSE IF c.kind = 1 THEN "lock" ELSE "rowlock"
      /\ c.pc \in {"sync", "abort"} => q = "error"
      /\ c.pc = "commit" => q = "commit"
  BY DEF Command
<1>5. q \in Queries
  BY <1>1, <1>4 DEF Queries, AllStatements, LockQueries
<1> HIDE DEF q
<1>6. PICK ch2 \in [Nodes -> Channels] :
             /\ chan' = [chan EXCEPT ![s] = ch2]
             /\ \A n \in Nodes \ {k} : ch2[n] = ch[n]
             /\ \A n \in Nodes, st \in TxStates :
                  Ask(n, q, st, t[n], ch[n], alive, faulty) => Ask(n, q, st, t[n], ch2[n], alive, faulty)
  BY <1>1, <1>5, SentFacts
<1> HIDE DEF c, t, ch, k
<1>7. {"I", "T", "E"} \subseteq TxStates /\ c.todo \subseteq Nodes
  BY <1>2 DEF TxStates, Children
<1>8. Sound(c, t, ch2, alive, faulty, Up)
  <2>1. SUFFICES ASSUME Live(c, t, ch, alive, faulty, Up) PROVE Live(c, t, ch2, alive, faulty, Up)
    BY <1>2 DEF Sound
  <2>2. ASSUME c.todo \subseteq Up
        PROVE  Up # {} /\ \A n \in Nodes \ Up : ch2[n] = Empty
    BY <1>3, <1>6, <2>1, <2>2 DEF Live
  <2>3. CASE c.pc = "begin"
    <3>1. Begins(c, t, ch, alive, faulty, Up)
      BY <2>1, <2>3 DEF Live
    <3>2. Begins(c, t, ch2, alive, faulty, Up)
      BY <1>2, <1>3, <1>4, <1>6, <1>7, <2>3, <3>1 DEF Begins
    <3>3. QED
      BY <2>2, <2>3, <3>1, <3>2 DEF Live, Begins
  <2>4. CASE c.pc = "lock"
    <3>1. Locks(c, t, ch, alive, faulty, Up)
      BY <2>1, <2>4 DEF Live
    <3>2. CASE LocksMaster(c, t, ch, alive, faulty, Up)
      <4>1. ~c.dead /\ q = IF c.kind = 1 THEN "lock" ELSE "rowlock"
        BY <1>4, <2>4, <3>2 DEF LocksMaster
      <4>2. \A n \in Up \ c.todo : Rest(n, "T", t[n], ch2[n], alive)
        BY <1>2, <1>3, <1>6, <3>2 DEF LocksMaster
      <4>3. LocksMaster(c, t, ch2, alive, faulty, Up)
        BY <1>6, <1>7, <4>1, <4>2, <3>2 DEF LocksMaster
      <4>4. Least(Up) \in Up
        BY <1>2, <2>1, LeastFacts DEF Live
      <4>5. c.todo \subseteq Up
        BY <3>2, <4>4 DEF LocksMaster
      <4>6. QED
        BY <2>2, <2>4, <3>1, <4>3, <4>5 DEF Locks, Live
    <3>3. CASE LocksOthers(c, t, ch, alive, faulty, Up)
      <4>1. q = IF c.dead THEN "error" ELSE "lock"
        BY <1>4, <2>4, <3>3 DEF LocksOthers
      <4>2. \A n \in Up \ c.todo : ch2[n] = ch[n]
        BY <1>2, <1>3, <1>6
      <4>3. LocksOthers(c, t, ch2, alive, faulty, Up)
        BY <1>6, <1>7, <4>1, <4>2, <3>3 DEF LocksOthers
      <4>4. c.todo \subseteq Up
        BY <3>3 DEF LocksOthers
      <4>5. QED
        BY <2>2, <2>4, <3>1, <4>3, <4>4 DEF Locks, Live
    <3>4. QED
      BY <3>1, <3>2, <3>3 DEF Locks
  <2>5. CASE c.pc \in {"sync", "abort"}
    <3>1. Errs(c, t, ch, alive, faulty, Up)
      BY <2>1, <2>5 DEF Live
    <3>2. Errs(c, t, ch2, alive, faulty, Up)
      BY <1>2, <1>3, <1>4, <1>6, <1>7, <2>5, <3>1 DEF Errs
    <3>3. QED
      BY <2>2, <2>5, <3>1, <3>2 DEF Live, Errs
  <2>6. CASE c.pc = "commit"
    <3>1. Commits(c, t, ch, alive, faulty, Up)
      BY <2>1, <2>6 DEF Live
    <3>2. Commits(c, t, ch2, alive, faulty, Up)
      BY <1>2, <1>3, <1>4, <1>6, <1>7, <2>6, <3>1 DEF Commits
    <3>3. QED
      BY <2>2, <2>6, <3>1, <3>2 DEF Live, Commits
  <2>7. QED
    BY <1>1, <2>3, <2>4, <2>5, <2>6 DEF c
<1>9. QED
  BY <1>1, <1>2, <1>6, <1>8, ChildStep DEF c, t

\* The reply in hand.
LEMMA GotFacts ==
    ASSUME Inv, NEW s \in Sessions, NEW n \in Nodes, NEW pc, NEW r, r = chan[s][n], Got(s, pc, n, r)
    PROVE  /\ child[s].pc = pc /\ n \in child[s].todo /\ r \in Replies /\ r.is = "reply"
           /\ r.kind \in {"C", "E"} /\ r.z \in TxStates
<1>1. child[s] \in Children /\ chan[s] \in [Nodes -> Channels]
  BY SessionTypes
<1>2. n \in child[s].todo /\ child[s].pc = pc
  BY <1>1, TurnFacts DEF Got
<1>3. r.is = "reply" /\ r \in Channels
  BY <1>1 DEF Got
<1>4. r \in Replies
  BY <1>3, ChannelFacts
<1>5. QED
  BY <1>1, <1>2, <1>3, <1>4 DEF Replies

\* ... and the connections after it was read.
Left(s, n, y) == chan' = [chan EXCEPT ![s][n] = y]
Connections(s, n, y, ch2) ==
    /\ ch2 \in [Nodes -> Channels] /\ ch2[n] = y /\ (\A m \in Nodes \ {n} : ch2[m] = chan[s][m])
    /\ chan' = [chan EXCEPT ![s] = ch2]

LEMMA ReadFacts ==
    ASSUME Inv, NEW s \in Sessions, NEW n \in Nodes, NEW y \in Channels, Left(s, n, y)
    PROVE  \E ch2 : Connections(s, n, y, ch2)
<1> DEFINE ch2 == [chan[s] EXCEPT ![n] = y]
<1>1. /\ ch2 \in [Nodes -> Channels] /\ ch2[n] = y /\ chan' = [chan EXCEPT ![s] = ch2]
      /\ \A m \in Nodes \ {n} : ch2[m] = chan[s][m]
  BY DEF Inv, Shapes, Left
<1> HIDE DEF ch2
<1>2. QED
  BY <1>1 DEF Connections

LEMMA BeginReply ==
    ASSUME Inv, NEW s \in Sessions, NEW n \in Nodes, NEW r, r = chan[s][n],
           start_internal_transaction(s, n, r)
    PROVE  Inv'
<1> DEFINE c0 == child[s]
           t == tx[s]
           ch == chan[s]
           c == [c0 EXCEPT !.tstate[n] = r.z, !.todo = @ \ {n}, !.internal = @ \cup {n}]
           c2 == IF c.todo = {} THEN AfterBegin(c) ELSE c
<1>1. /\ Got(s, "begin", n, r) /\ child' = [child EXCEPT ![s] = c2]
      /\ chan' = [chan EXCEPT ![s][n] = Empty] /\ UNCHANGED <<alive, tx, seq, faulty, down>>
  BY DEF start_internal_transaction, pgVars, ghosts
<1>2. /\ c0.pc = "begin" /\ n \in c0.todo /\ r \in Replies /\ r.is = "reply" /\ r.z \in TxStates
      /\ r.kind \in {"C", "E"}
  <2> HIDE DEF c2, c
  <2>1. Got(s, "begin", n, r)
    BY <1>1
  <2>2. QED
    BY <2>1, GotFacts
<1>3. PICK ch2 : Connections(s, n, Empty, ch2)
  <2>1. Empty \in Channels /\ Left(s, n, Empty)
    BY <1>1 DEF Channels, Left
  <2> HIDE DEF c2, c
  <2>2. QED
    BY <2>1, ReadFacts
<1>4. /\ ch2 \in [Nodes -> Channels] /\ ch2[n] = Empty /\ (\A m \in Nodes \ {n} : ch2[m] = ch[m])
       /\ chan' = [chan EXCEPT ![s] = ch2]
  BY <1>3 DEF Connections
<1>5. /\ c0 \in Children /\ Sound(c0, t, ch, alive, faulty, Up) /\ Up \subseteq Nodes
  BY SessionTypes
<1> HIDE DEF c0, t
<1>6. /\ ~c0.doomed /\ Begins(c0, t, ch, alive, faulty, Up) /\ Up # {}
      /\ \A m \in Nodes \ Up : ch[m] = Empty
  BY <1>2, <1>4, <1>5 DEF Sound, Live
<1>7. r.z = "T" /\ In(n, "T", t[n], alive)
  <2>1. Ask(n, "begin", "I", t[n], r, alive, faulty)
    BY <1>2, <1>4, <1>6 DEF Begins
  <2>2. Fair(n, "begin", "I", r, faulty) /\ In(n, r.z, t[n], alive)
    BY <1>2, <1>4, <2>1 DEF Ask
  <2>3. r.kind = "C"
    BY <2>2 DEF Fair, Kind, Fails, Writes, LockQueries
  <2>4. QED
    BY <2>2, <2>3 DEF Fair, After
<1>8. /\ c \in Children /\ c.pc = "begin" /\ c.todo = c0.todo \ {n} /\ c.internal = c0.internal \cup {n}
      /\ c.tstate[n] = "T" /\ (\A m \in Nodes \ {n} : c.tstate[m] = c0.tstate[m])
      /\ c.where = Up /\ ~c.mismatch /\ c.stmt = c0.stmt /\ ~c.dead /\ c.kind = LockKind
      /\ ~c.doomed /\ c.stmt \in Writes
  BY <1>2, <1>4, <1>5, <1>6, <1>7, ZenonT(40) DEF Begins, Children
<1>9. \A m \in c.internal : c.tstate[m] = "T" /\ Rest(m, "T", t[m], ch2[m], alive)
  <2>1. SUFFICES ASSUME NEW m \in c.internal
                 PROVE  c.tstate[m] = "T" /\ Rest(m, "T", t[m], ch2[m], alive)
    OBVIOUS
  <2>2. CASE m = n
    BY <1>2, <1>4, <1>7, <1>8, <2>2 DEF Rest
  <2>3. CASE m # n
    <3>1. m \in c0.internal /\ m \in Nodes
      BY <1>5, <1>8, <2>3 DEF Children
    <3>2. QED
      BY <1>2, <1>4, <1>6, <1>8, <2>3, <3>1 DEF Begins
  <2>4. QED
    BY <2>2, <2>3
<1>10. \A m \in Nodes \ Up : ch2[m] = Empty
  BY <1>2, <1>4, <1>6
<1> HIDE DEF c
<1>11. CASE c.todo = {}
  <2>1. c2 = AfterBegin(c) /\ c.internal = Up
    BY <1>2, <1>4, <1>6, <1>8, <1>11 DEF Begins
  <2> HIDE DEF c2
  <2>2. c2 \in Children /\ Sound(c2, t, ch2, alive, faulty, Up)
    BY <1>5, <1>6, <1>8, <1>9, <1>10, <2>1, BegunSound
  <2>3. QED
    BY <1>1, <1>2, <1>4, <2>2, ChildStep DEF t
<1>12. CASE c.todo # {}
  <2>1. c2 = c
    BY <1>12
  <2> HIDE DEF c2
  <2>2. \A m \in c.todo : c.tstate[m] = "I" /\ Ask(m, "begin", "I", t[m], ch2[m], alive, faulty)
    <3>1. SUFFICES ASSUME NEW m \in c.todo
                   PROVE  c.tstate[m] = "I" /\ Ask(m, "begin", "I", t[m], ch2[m], alive, faulty)
      OBVIOUS
    <3>2. m \in c0.todo /\ m # n /\ m \in Nodes
      BY <1>5, <1>8 DEF Children
    <3>3. ch2[m] = ch[m] /\ c.tstate[m] = c0.tstate[m]
      BY <1>2, <1>4, <1>8, <3>2
    <3>4. c0.tstate[m] = "I" /\ Ask(m, "begin", "I", t[m], ch[m], alive, faulty)
      BY <1>6, <3>2 DEF Begins
    <3>5. QED
      BY <3>3, <3>4
  <2>3. Begins(c, t, ch2, alive, faulty, Up)
    BY <1>2, <1>4, <1>6, <1>8, <1>9, <1>12, <2>2 DEF Begins
  <2>4. Sound(c, t, ch2, alive, faulty, Up)
    BY <1>6, <1>8, <1>10, <2>3 DEF Sound, Live
  <2>5. QED
    BY <1>1, <1>2, <1>4, <1>8, <2>1, <2>4, ChildStep DEF t
<1>13. QED
  BY <1>11, <1>12

\* What a lock, or the error in place of it, can be answered with.
LEMMA LockReplies ==
    ASSUME NEW n, NEW r \in Replies, NEW x, NEW al, NEW fl, NEW q, NEW st,
           r.is = "reply", Ask(n, q, st, x, r, al, fl)
    PROVE  /\ In(n, r.z, x, al)
           /\ q \in LockQueries /\ st = "T" => /\ r.kind = "C" => r.z = "T" /\ ~r.dead
                                               /\ r.kind = "E" => r.z = "E" /\ r.dead
                                               /\ r.dead => "deadlock" \in Faults
           /\ q \in LockQueries /\ st = "E" => r.z = "E"
           /\ q = "error" /\ st = "T" => r.z = "E" /\ ~r.dead
<1>1. Fair(n, q, st, r, fl) /\ In(n, r.z, x, al) /\ r.kind \in {"C", "E"} /\ r.dead \in BOOLEAN
  BY DEF Ask, Replies
<1>2. ASSUME q \in LockQueries, st = "T"
      PROVE  /\ r.kind = "C" => r.z = "T" /\ ~r.dead
             /\ r.kind = "E" => r.z = "E" /\ r.dead
             /\ r.dead => "deadlock" \in Faults
  <2>1. After(q, st) = "T" /\ Failed(st) = "E" /\ Kind(q, st) = "C" /\ q \notin Writes
    BY <1>2 DEF After, Failed, Kind, Fails, Writes, LockQueries, is_commit_query
  <2>2. QED
    BY <1>1, <2>1 DEF Fair
<1>3. ASSUME q \in LockQueries, st = "E" PROVE r.z = "E"
  <2>1. ~is_commit_query(q) /\ Failed(st) = "E"
    BY <1>3 DEF LockQueries, is_commit_query, Failed
  <2>2. QED
    BY <1>1, <1>3, <2>1 DEF Fair
<1>4. ASSUME q = "error", st = "T" PROVE r.z = "E" /\ ~r.dead
  <2>1. q \notin LockQueries /\ q \notin Writes /\ Kind(q, st) = "E" /\ Failed(st) = "E"
    BY <1>4 DEF LockQueries, Writes, Kind, Fails, Failed
  <2>2. QED
    BY <1>1, <2>1 DEF Fair
<1>5. QED
  BY <1>1, <1>2, <1>3, <1>4

\* The reply to the lock on the master.
LEMMA LockMasterReply ==
    ASSUME Inv, NEW s \in Sessions, NEW n \in Nodes, NEW r, r = chan[s][n],
           insert_lock_master(s, n, r)
    PROVE  Inv'
<1> DEFINE c == child[s]
           t == tx[s]
           ch == chan[s]
           d == CASE c.kind = 3 /\ r.kind = "C" -> AfterLock(c)
                  [] c.kind = 3 /\ r.kind = "E" -> [c EXCEPT !.kind = 1]
                  [] c.kind = 1 -> [c EXCEPT !.dead = r.dead, !.tstate[n] = r.z,
                                             !.todo = c.where \ {n}]
<1>1. /\ Got(s, "lock", n, r) /\ n = Least(c.where) /\ child' = [child EXCEPT ![s] = d]
      /\ Left(s, n, Empty) /\ UNCHANGED <<alive, tx, seq, faulty, down>>
  BY DEF insert_lock_master, pgVars, ghosts, MASTER_NODE_ID, Left
<1> HIDE DEF d
<1>2. /\ c.pc = "lock" /\ n \in c.todo /\ r \in Replies /\ r.is = "reply" /\ r.z \in TxStates
      /\ r.kind \in {"C", "E"}
  BY <1>1, GotFacts
<1>3. Empty \in Channels
  BY DEF Channels
<1>4. PICK ch2 : Connections(s, n, Empty, ch2)
  BY <1>1, <1>3, ReadFacts
<1>5. /\ ch2 \in [Nodes -> Channels] /\ ch2[n] = Empty /\ (\A m \in Nodes \ {n} : ch2[m] = ch[m])
      /\ chan' = [chan EXCEPT ![s] = ch2]
  BY <1>4 DEF Connections
<1>6. c \in Children /\ Sound(c, t, ch, alive, faulty, Up) /\ Up \subseteq Nodes
  BY SessionTypes
<1>7. /\ ~c.doomed /\ Locks(c, t, ch, alive, faulty, Up) /\ Up # {}
      /\ \A m \in Nodes \ Up : ch[m] = Empty
  BY <1>2, <1>6 DEF Sound, Live
<1>8. c.where = Up /\ c.internal = Up /\ c.stmt = "insert" /\ ~c.mismatch /\ Up # {n} /\ n \in Up
  BY <1>1, <1>6, <1>7, LeastFacts DEF Locks
<1>9. LocksMaster(c, t, ch, alive, faulty, Up) /\ c.todo = {n}
  BY <1>1, <1>2, <1>7, <1>8 DEF Locks, LocksMaster, LocksOthers
<1>10. /\ \A m \in Up : c.tstate[m] = "T"
       /\ \A m \in Up \ {n} : Rest(m, "T", t[m], ch2[m], alive)
       /\ \A m \in Nodes \ Up : ch2[m] = Empty
  BY <1>5, <1>6, <1>7, <1>8, <1>9 DEF LocksMaster
<1>11. /\ c.kind = LockKind => /\ r.kind = "C" => r.z = "T" /\ ~r.dead
                               /\ r.kind = "E" => r.z = "E" /\ r.dead /\ "deadlock" \in Faults
       /\ c.kind # LockKind => r.z = "E" /\ ~LockSafe /\ c.kind = 1
       /\ In(n, r.z, t[n], alive)
  <2>1. CASE c.kind = LockKind
    <3> DEFINE q == IF c.kind = 1 THEN "lock" ELSE "rowlock"
    <3>1. Ask(n, q, "T", t[n], r, alive, faulty) /\ q \in LockQueries
      BY <1>9, <2>1 DEF LocksMaster, LockQueries
    <3> HIDE DEF q
    <3>2. QED
      BY <1>2, <2>1, <3>1, LockReplies
  <2>2. CASE c.kind # LockKind
    <3>1. Ask(n, "lock", "E", t[n], r, alive, faulty) /\ "lock" \in LockQueries /\ ~LockSafe /\ c.kind = 1
      BY <1>9, <2>2 DEF LocksMaster, LockQueries
    <3>2. QED
      BY <1>2, <2>2, <3>1, LockReplies
  <2>3. QED
    BY <2>1, <2>2
<1>12. Rest(n, r.z, t[n], ch2[n], alive)
  BY <1>5, <1>11 DEF Rest
<1>13. c.kind \in {1, 3}
  BY <1>6, <1>9 DEF LocksMaster, Children
<1> HIDE DEF c, t
<1>14. d \in Children /\ Sound(d, t, ch2, alive, faulty, Up)
  <2>1. CASE c.kind = 3 /\ r.kind = "C"
    <3>1. d = AfterLock(c) /\ r.z = "T"
      BY <1>11, <2>1 DEF d
    <3>2. \A m \in Up : Rest(m, c.tstate[m], t[m], ch2[m], alive)
      BY <1>10, <1>12, <3>1
    <3>3. Internal(c, Up) /\ Uniform(c, Up)
      BY <1>8, <1>10 DEF Internal, Uniform, Writes
    <3>4. QED
      BY <1>6, <1>7, <1>8, <1>10, <3>1, <3>2, <3>3, SendSound
  <2>2. CASE c.kind = 3 /\ r.kind = "E"
    <3>1. d = [c EXCEPT !.kind = 1] /\ r.z = "E" /\ LockKind = 3 /\ ~LockSafe
      BY <1>11, <2>2 DEF d, LockSafe
    <3>2. /\ d \in Children /\ d.pc = "lock" /\ ~d.doomed /\ d.where = Up /\ d.internal = Up
          /\ d.stmt = "insert" /\ ~d.mismatch /\ d.todo = {n} /\ d.dead = c.dead /\ d.kind = 1
          /\ d.tstate = c.tstate
      BY <1>2, <1>6, <1>7, <1>8, <1>9, <3>1 DEF Children, c
    <3>3. Ask(n, "lock", "E", t[n], ch2[n], alive, faulty)
      BY <1>12, <3>1, RestAsk
    <3>4. LocksMaster(d, t, ch2, alive, faulty, Up)
      BY <1>1, <1>8, <1>9, <1>10, <3>1, <3>2, <3>3 DEF LocksMaster, c
    <3>5. Locks(d, t, ch2, alive, faulty, Up)
      BY <1>1, <1>8, <3>2, <3>4 DEF Locks, c
    <3>6. QED
      BY <1>7, <1>10, <3>2, <3>5 DEF Sound, Live
  <2>3. CASE c.kind = 1
    <3>1. d = [c EXCEPT !.dead = r.dead, !.tstate[n] = r.z, !.todo = c.where \ {n}]
      BY <2>3 DEF d
    <3>2. /\ d \in Children /\ d.pc = "lock" /\ ~d.doomed /\ d.where = Up /\ d.internal = Up
          /\ d.stmt = "insert" /\ ~d.mismatch /\ d.todo = Up \ {n} /\ d.dead = r.dead /\ d.kind = 1
          /\ d.tstate[n] = r.z /\ \A m \in Nodes \ {n} : d.tstate[m] = c.tstate[m]
      BY <1>2, <1>6, <1>7, <1>8, <2>3, <3>1 DEF Children, Replies, c
    <3>3. d.todo # {} /\ d.todo \subseteq Up \ {Least(Up)}
      BY <1>1, <1>8, <3>2 DEF c
    <3>4. \A m \in d.todo : /\ d.tstate[m] = "T"
                            /\ Ask(m, IF d.dead THEN "error" ELSE "lock", "T", t[m], ch2[m], alive, faulty)
      BY <1>6, <1>10, <3>2, RestAsk
    <3>5. Up \ d.todo = {n}
      BY <1>8, <3>2
    <3>6. r.z \in {"T", "E"} /\ (LockSafe => r.z = IF r.dead THEN "E" ELSE "T")
      BY <1>2, <1>11
    <3>7. LocksOthers(d, t, ch2, alive, faulty, Up)
      BY <1>12, <3>2, <3>3, <3>4, <3>5, <3>6 DEF LocksOthers
    <3>8. Locks(d, t, ch2, alive, faulty, Up)
      BY <1>1, <1>8, <3>2, <3>7 DEF Locks, c
    <3>9. QED
      BY <1>7, <1>10, <3>2, <3>8 DEF Sound, Live
  <2>4. QED
    BY <1>2, <1>13, <2>1, <2>2, <2>3
<1>15. QED
  BY <1>1, <1>5, <1>14, ChildStep DEF t

\* ... and on the other nodes.
LEMMA LockOtherReply ==
    ASSUME Inv, NEW s \in Sessions, NEW n \in Nodes, NEW r, r = chan[s][n],
           insert_lock_other(s, n, r)
    PROVE  Inv'
<1> DEFINE c0 == child[s]
           t == tx[s]
           ch == chan[s]
           c == [c0 EXCEPT !.tstate[n] = r.z, !.todo = @ \ {n}]
           d == IF c.todo = {} THEN AfterLock(c) ELSE c
<1>1. /\ Got(s, "lock", n, r) /\ n # Least(c.where) /\ Left(s, n, Empty)
      /\ r.dead => child' = [child EXCEPT ![s] = Exited(c0)]
      /\ ~r.dead => child' = [child EXCEPT ![s] = d]
      /\ UNCHANGED <<alive, tx, seq, faulty, down>>
  BY DEF insert_lock_other, pgVars, ghosts, MASTER_NODE_ID, Left, End
<1> HIDE DEF d, c
<1>2. /\ c0.pc = "lock" /\ n \in c0.todo /\ r \in Replies /\ r.is = "reply" /\ r.z \in TxStates
      /\ r.kind \in {"C", "E"}
  BY <1>1, GotFacts, SMTT(30)
<1>3. Empty \in Channels
  BY DEF Channels
<1>4. PICK ch2 : Connections(s, n, Empty, ch2)
  BY <1>1, <1>3, ReadFacts
<1>5. /\ ch2 \in [Nodes -> Channels] /\ ch2[n] = Empty /\ (\A m \in Nodes \ {n} : ch2[m] = ch[m])
      /\ chan' = [chan EXCEPT ![s] = ch2]
  BY <1>4 DEF Connections
<1>6. c0 \in Children /\ Sound(c0, t, ch, alive, faulty, Up) /\ Up \subseteq Nodes
  BY SessionTypes
<1>7. CASE r.dead
  BY <1>1, <1>5, <1>6, <1>7, ExitStep
<1>8. CASE ~r.dead
  <2>1. /\ ~c0.doomed /\ Locks(c0, t, ch, alive, faulty, Up) /\ Up # {}
        /\ \A m \in Nodes \ Up : ch2[m] = Empty
    <3>1. /\ ~c0.doomed /\ Locks(c0, t, ch, alive, faulty, Up) /\ Up # {}
          /\ \A m \in Nodes \ Up : ch[m] = Empty
      BY <1>2, <1>6 DEF Sound, Live
    <3>2. QED
      BY <1>5, <3>1
  <2> HIDE DEF c0
  <2>2. /\ c \in Children /\ c.pc = "lock" /\ ~c.doomed /\ c.where = c0.where /\ c.internal = c0.internal
        /\ c.stmt = c0.stmt /\ c.mismatch = c0.mismatch /\ c.todo = c0.todo \ {n} /\ c.dead = c0.dead
        /\ c.kind = c0.kind /\ c.tstate[n] = r.z /\ \A m \in Nodes \ {n} : c.tstate[m] = c0.tstate[m]
    BY <1>2, <1>6, <2>1 DEF Children, c
  <2>3. /\ c.where = Up /\ c.internal = Up /\ c.stmt = "insert" /\ ~c.mismatch /\ Up # {Least(Up)}
        /\ c.stmt \in Writes
    BY <2>1, <2>2 DEF Locks, Writes
  <2>4. LocksOthers(c0, t, ch, alive, faulty, Up)
    BY <1>1, <1>2, <2>1, <2>2, <2>3 DEF Locks, LocksMaster
  <2>5. r.z = (IF c0.dead THEN "E" ELSE "T") /\ In(n, r.z, t[n], alive) /\ r.z \in {"T", "E"}
    <3> DEFINE q == IF c0.dead THEN "error" ELSE "lock"
    <3>1. Ask(n, q, "T", t[n], r, alive, faulty) /\ (c0.dead => q = "error")
          /\ (~c0.dead => q \in LockQueries)
      BY <1>2, <2>4 DEF LocksOthers, LockQueries
    <3> HIDE DEF q
    <3>2. QED
      BY <1>2, <1>8, <3>1, LockReplies
  <2>6. Rest(n, r.z, t[n], ch2[n], alive)
    BY <1>5, <2>5 DEF Rest
  <2>7. \A m \in Up \ c.todo : /\ c.tstate[m] \in {"T", "E"}
                               /\ LockSafe => c.tstate[m] = IF c.dead THEN "E" ELSE "T"
                               /\ Rest(m, c.tstate[m], t[m], ch2[m], alive)
    <3>1. SUFFICES ASSUME NEW m \in Up \ c.todo
                   PROVE  /\ c.tstate[m] \in {"T", "E"}
                          /\ LockSafe => c.tstate[m] = IF c.dead THEN "E" ELSE "T"
                          /\ Rest(m, c.tstate[m], t[m], ch2[m], alive)
      OBVIOUS
    <3>2. CASE m = n
      BY <2>2, <2>5, <2>6, <3>2
    <3>3. CASE m # n
      <4>1. m \in Up \ c0.todo /\ m \in Nodes
        BY <1>6, <2>2, <3>3
      <4>2. QED
        BY <1>5, <2>2, <2>4, <3>3, <4>1 DEF LocksOthers
    <3>4. QED
      BY <3>2, <3>3
  <2>8. CASE c.todo = {}
    <3>1. d = AfterLock(c)
      BY <2>8 DEF d
    <3>2. \A m \in Up : /\ c.tstate[m] \in {"T", "E"} /\ Rest(m, c.tstate[m], t[m], ch2[m], alive)
                        /\ LockSafe => c.tstate[m] = IF c.dead THEN "E" ELSE "T"
      BY <2>7, <2>8
    <3>3. Internal(c, Up) /\ (LockSafe => Uniform(c, Up))
      BY <2>3, <3>2 DEF Internal, Uniform
    <3>4. d \in Children /\ Sound(d, t, ch2, alive, faulty, Up)
      BY <1>6, <2>1, <2>2, <2>3, <3>1, <3>2, <3>3, SendSound
    <3>5. QED
      BY <1>1, <1>5, <1>8, <3>4, ChildStep
  <2>9. CASE c.todo # {}
    <3>1. d = c
      BY <2>9 DEF d
    <3>2. \A m \in c.todo : /\ c.tstate[m] = "T"
                            /\ Ask(m, IF c.dead THEN "error" ELSE "lock", "T", t[m], ch2[m], alive, faulty)
      <4>1. \A m \in c.todo : m \in c0.todo /\ m \in Nodes \ {n} /\ ch2[m] = ch[m] /\ c.tstate[m] = c0.tstate[m]
        BY <1>5, <1>6, <2>2, <2>4 DEF LocksOthers
      <4>2. QED
        BY <2>2, <2>4, <4>1 DEF LocksOthers
    <3>3. c.kind = 1 /\ c.todo \subseteq Up \ {Least(Up)}
      BY <2>2, <2>4 DEF LocksOthers
    <3>4. LocksOthers(c, t, ch2, alive, faulty, Up)
      BY <2>7, <2>9, <3>2, <3>3 DEF LocksOthers
    <3>5. Sound(c, t, ch2, alive, faulty, Up)
      BY <2>1, <2>2, <2>3, <3>4 DEF Sound, Live, Locks
    <3>6. QED
      BY <1>1, <1>5, <1>8, <2>2, <3>1, <3>5, ChildStep
  <2>10. QED
    BY <2>8, <2>9
<1>9. QED
  BY <1>7, <1>8

\* Only ReadyForQuery is left on the connection.
LEMMA ReadyFacts ==
    ASSUME NEW z \in TxStates
    PROVE  Ready(z) \in Channels /\ Ready(z).is = "ready" /\ Ready(z).z = z
BY DEF Ready, Readies, Channels

LEMMA ErrorReply ==
    ASSUME Inv, NEW s \in Sessions, NEW n \in Nodes, NEW r, r = chan[s][n],
           do_error_command(s, n, r)
    PROVE  Inv'
<1> DEFINE c0 == child[s]
           t == tx[s]
           ch == chan[s]
           c == [c0 EXCEPT !.todo = @ \ {n}]
           d == IF c.todo = {} THEN [c EXCEPT !.pc = "ready", !.mismatch = FALSE] ELSE c
<1>1. /\ Got(s, "sync", n, r) \/ Got(s, "abort", n, r)
      /\ Left(s, n, Ready(r.z)) /\ child' = [child EXCEPT ![s] = d]
      /\ UNCHANGED <<alive, tx, seq, faulty, down>>
  BY DEF do_error_command, pgVars, ghosts, Left
<1> HIDE DEF d, c
<1>2. /\ c0.pc \in {"sync", "abort"} /\ n \in c0.todo /\ r \in Replies /\ r.is = "reply" /\ r.z \in TxStates
  BY <1>1, GotFacts
<1>3. Ready(r.z) \in Channels /\ Ready(r.z).is = "ready" /\ Ready(r.z).z = r.z
  BY <1>2, ReadyFacts
<1>4. PICK ch2 : Connections(s, n, Ready(r.z), ch2)
  BY <1>1, <1>3, ReadFacts
<1>5. /\ ch2 \in [Nodes -> Channels] /\ ch2[n] = Ready(r.z) /\ (\A m \in Nodes \ {n} : ch2[m] = ch[m])
      /\ chan' = [chan EXCEPT ![s] = ch2]
  BY <1>4 DEF Connections
<1>6. c0 \in Children /\ Sound(c0, t, ch, alive, faulty, Up) /\ Up \subseteq Nodes
  BY SessionTypes
<1>7. /\ ~c0.doomed /\ Errs(c0, t, ch, alive, faulty, Up) /\ Up # {}
      /\ \A m \in Nodes \ Up : ch[m] = Empty
  BY <1>2, <1>6 DEF Sound, Live
<1> HIDE DEF c0
<1>8. /\ c \in Children /\ c.pc = c0.pc /\ ~c.doomed /\ c.where = Up /\ c.internal = c0.internal
      /\ c.stmt = c0.stmt /\ c.todo = c0.todo \ {n} /\ c.tstate = c0.tstate /\ c.todo \subseteq Up
      /\ n \in Up
  BY <1>2, <1>6, <1>7 DEF Children, c, Errs
<1>9. \A m \in Nodes \ Up : ch2[m] = Empty
  BY <1>5, <1>7, <1>8
<1>10. r.z = "E" /\ In(n, r.z, t[n], alive)
  <2>1. Ask(n, "error", "T", t[n], r, alive, faulty)
    BY <1>2, <1>7 DEF Errs
  <2>2. QED
    BY <1>2, <2>1, LockReplies
<1>11. \A m \in Up \ c.todo : Readied(m, t[m], ch2[m], alive) /\ ch2[m].z = "E"
  <2>1. SUFFICES ASSUME NEW m \in Up \ c.todo
                 PROVE  Readied(m, t[m], ch2[m], alive) /\ ch2[m].z = "E"
    OBVIOUS
  <2>2. CASE m = n
    BY <1>3, <1>5, <1>10, <2>2 DEF Readied
  <2>3. CASE m # n
    <3>1. m \in Up \ c0.todo /\ ch2[m] = ch[m]
      BY <1>5, <1>6, <1>8, <2>3
    <3>2. QED
      BY <1>7, <3>1 DEF Errs
  <2>4. QED
    BY <2>2, <2>3
<1>12. c.internal = {} \/ Internal(c, Up)
  BY <1>7, <1>8 DEF Errs, Internal
<1>13. d \in Children /\ Sound(d, t, ch2, alive, faulty, Up)
  <2>1. CASE c.todo = {}
    <3>1. d = [c EXCEPT !.pc = "ready", !.mismatch = FALSE]
      BY <2>1 DEF d
    <3>2. /\ d \in Children /\ d.pc = "ready" /\ ~d.doomed /\ d.where = Up /\ d.internal = c.internal
          /\ d.stmt = c.stmt /\ d.todo = {} /\ d.tstate = c.tstate /\ ~d.mismatch
      BY <1>8, <2>1, <3>1 DEF Children, Places
    <3>3. d.internal = {} \/ Internal(d, Up)
      BY <1>8, <1>12, <3>2 DEF Internal
    <3>4. \A m \in Up : Readied(m, t[m], ch2[m], alive) /\ ch2[m].z = "E" /\ Z(d, ch2, m) = "E"
      BY <1>11, <2>1, <3>2 DEF Z
    <3>5. Completes(d, t, ch2, alive, faulty, Up)
      BY <1>7, <3>2, <3>3, <3>4 DEF Completes
    <3>6. QED
      BY <1>7, <1>9, <3>2, <3>5 DEF Sound, Live
  <2>2. CASE c.todo # {}
    <3>1. d = c
      BY <2>2 DEF d
    <3>2. \A m \in c.todo : Ask(m, "error", "T", t[m], ch2[m], alive, faulty)
      <4>1. \A m \in c.todo : m \in c0.todo /\ ch2[m] = ch[m]
        BY <1>5, <1>6, <1>8
      <4>2. QED
        BY <1>7, <4>1 DEF Errs
    <3>3. Errs(c, t, ch2, alive, faulty, Up)
      BY <1>8, <1>11, <1>12, <2>2, <3>2 DEF Errs
    <3>4. QED
      BY <1>2, <1>7, <1>8, <1>9, <3>1, <3>3 DEF Sound, Live, c0
  <2>3. QED
    BY <2>1, <2>2
<1>14. QED
  BY <1>1, <1>5, <1>13, ChildStep

\* A COMMIT ends the transaction whatever state it was in.
LEMMA CommitReply ==
    ASSUME Inv, NEW s \in Sessions, NEW n \in Nodes, NEW r, r = chan[s][n],
           end_internal_transaction(s, n, r)
    PROVE  Inv'
<1> DEFINE c0 == child[s]
           t == tx[s]
           ch == chan[s]
           c == [c0 EXCEPT !.todo = @ \ {n}, !.internal = @ \ {n}]
           d == CASE c.todo # {} -> c
                  [] c.todo = {} /\ c.doomed -> Exited(c)
                  [] c.todo = {} /\ ~c.doomed -> [c EXCEPT !.pc = "ready"]
<1>1. /\ Got(s, "commit", n, r)
      /\ Left(s, n, Ready(r.z)) /\ child' = [child EXCEPT ![s] = d]
      /\ UNCHANGED <<alive, tx, seq, faulty, down>>
  BY DEF end_internal_transaction, pgVars, ghosts, Left
<1> HIDE DEF d, c
<1>2. c0.pc = "commit" /\ n \in c0.todo /\ r \in Replies /\ r.is = "reply" /\ r.z \in TxStates
      /\ r.kind \in {"C", "E"}
  BY <1>1, GotFacts
<1>3. Ready(r.z) \in Channels /\ Ready(r.z).is = "ready" /\ Ready(r.z).z = r.z
  BY <1>2, ReadyFacts
<1>4. PICK ch2 : Connections(s, n, Ready(r.z), ch2)
  BY <1>1, <1>3, ReadFacts
<1>5. /\ ch2 \in [Nodes -> Channels] /\ ch2[n] = Ready(r.z) /\ (\A m \in Nodes \ {n} : ch2[m] = ch[m])
      /\ chan' = [chan EXCEPT ![s] = ch2]
  BY <1>4 DEF Connections
<1>6. c0 \in Children /\ Sound(c0, t, ch, alive, faulty, Up) /\ Up \subseteq Nodes
  BY SessionTypes
<1>7. /\ c \in Children /\ c.pc = "commit" /\ c.doomed = c0.doomed /\ c.where = c0.where
      /\ c.internal = c0.internal \ {n} /\ c.todo = c0.todo \ {n} /\ c.mismatch = c0.mismatch
      /\ c.tstate = c0.tstate
  <2> HIDE DEF c0
  <2>1. QED
    BY <1>2, <1>6 DEF Children, c, c0
<1>8. CASE c.doomed
  <2>1. CASE c.todo # {}
    <3>1. d = c
      BY <2>1 DEF d
    <3>2. Sound(c, t, ch2, alive, faulty, Up)
      BY <1>7, <1>8 DEF Sound
    <3>3. QED
      BY <1>1, <1>5, <1>7, <3>1, <3>2, ChildStep
  <2>2. CASE c.todo = {}
    <3>1. d = Exited(c)
      BY <1>8, <2>2 DEF d
    <3>2. QED
      BY <1>1, <1>5, <1>7, <3>1, ExitStep
  <2>3. QED
    BY <2>1, <2>2
<1>9. CASE ~c.doomed
  <2>1. /\ Commits(c0, t, ch, alive, faulty, Up) /\ Up # {} /\ \A m \in Nodes \ Up : ch[m] = Empty
    BY <1>2, <1>6, <1>7, <1>9 DEF Sound, Live
  <2> HIDE DEF c0
  <2>2. /\ c.where = Up /\ c.todo = c.internal /\ c.todo \subseteq Up /\ ~c.mismatch /\ n \in Up
    BY <1>2, <1>7, <2>1 DEF Commits, c0
  <2>3. r.z = "I" /\ In(n, r.z, t[n], alive)
    <3>1. PICK st \in TxStates : Ask(n, "commit", st, t[n], r, alive, faulty)
      BY <1>2, <2>1 DEF Commits
    <3>2. Fair(n, "commit", st, r, faulty) /\ In(n, r.z, t[n], alive)
      BY <1>2, <3>1 DEF Ask
    <3>3. r.kind = "C"
      BY <1>2, <3>2 DEF Fair, is_commit_query
    <3>4. QED
      BY <3>2, <3>3 DEF Fair, After, is_commit_query
  <2>4. \A m \in Up \ c.todo : Readied(m, t[m], ch2[m], alive) /\ ch2[m].z = "I"
    <3>1. SUFFICES ASSUME NEW m \in Up \ c.todo
                   PROVE  Readied(m, t[m], ch2[m], alive) /\ ch2[m].z = "I"
      OBVIOUS
    <3>2. CASE m = n
      BY <1>3, <1>5, <2>3, <3>2 DEF Readied
    <3>3. CASE m # n
      <4>1. m \in Up \ c0.todo /\ ch2[m] = ch[m]
        BY <1>5, <1>6, <1>7, <3>3
      <4>2. QED
        BY <2>1, <4>1 DEF Commits
    <3>4. QED
      BY <3>2, <3>3
  <2>5. \A m \in Nodes \ Up : ch2[m] = Empty
    BY <1>5, <2>1, <2>2
  <2>6. CASE c.todo = {}
    <3>1. d = [c EXCEPT !.pc = "ready"]
      BY <1>9, <2>6 DEF d
    <3>2. /\ d \in Children /\ d.pc = "ready" /\ ~d.doomed /\ d.where = Up /\ d.internal = {}
          /\ d.todo = {} /\ ~d.mismatch
      BY <1>7, <1>9, <2>2, <2>6, <3>1 DEF Children, Places
    <3>3. \A m \in Up : Readied(m, t[m], ch2[m], alive) /\ Z(d, ch2, m) = "I"
      BY <2>4, <2>6, <3>2 DEF Z
    <3>4. Completes(d, t, ch2, alive, faulty, Up)
      BY <2>1, <3>2, <3>3 DEF Completes
    <3>5. Sound(d, t, ch2, alive, faulty, Up)
      BY <2>1, <2>5, <3>2, <3>4 DEF Sound, Live
    <3>6. QED
      BY <1>1, <1>5, <3>2, <3>5, ChildStep
  <2>7. CASE c.todo # {}
    <3>1. d = c
      BY <2>7 DEF d
    <3>2. \A m \in c.todo : \E st \in TxStates : Ask(m, "commit", st, t[m], ch2[m], alive, faulty)
      <4>1. \A m \in c.todo : m \in c0.todo /\ ch2[m] = ch[m]
        BY <1>5, <1>6, <1>7, <2>2
      <4>2. QED
        BY <2>1, <4>1 DEF Commits
    <3>3. Commits(c, t, ch2, alive, faulty, Up)
      BY <2>2, <2>4, <2>7, <3>2 DEF Commits
    <3>4. Sound(c, t, ch2, alive, faulty, Up)
      BY <1>7, <2>1, <2>5, <3>3 DEF Sound, Live
    <3>5. QED
      BY <1>1, <1>5, <1>7, <3>1, <3>4, ChildStep
  <2>8. QED
    BY <2>6, <2>7
<1>10. QED
  BY <1>8, <1>9

LEMMA RepliedStep ==
    ASSUME Inv, NEW s \in Sessions, NEW n \in Nodes, Replied(s, n, chan[s][n])
    PROVE  Inv'
<1> DEFINE r == chan[s][n]
<1>1. r = chan[s][n]
  OBVIOUS
<1> HIDE DEF r
<1>2. Replied(s, n, r)
  BY <1>1
<1>3. QED
  BY <1>1, <1>2, BeginReply, LockMasterReply, LockOtherReply, ErrorReply, CommitReply DEF Replied

-----------------------------------------------------------------------------
(* The client's statement.                                                 *)

\* From one place in the loop of sending and waiting to the next.
LEMMA LoopSound ==
    ASSUME NEW c \in Children, NEW t, NEW ch, NEW al, NEW fl, NEW up, up # {},
           NEW p \in {"send", "wait", "reply"}, ~c.doomed, Runs(c, t, ch, al, fl, up),
           \A m \in Nodes \ up : ch[m] = Empty
    PROVE  /\ [c EXCEPT !.pc = p] \in Children
           /\ Sound([c EXCEPT !.pc = p], t, ch, al, fl, up)
<1> DEFINE d == [c EXCEPT !.pc = p]
<1>1. /\ d \in Children /\ d.pc = p /\ ~d.doomed /\ d.where = c.where /\ d.internal = c.internal
      /\ d.todo = c.todo /\ d.mismatch = c.mismatch /\ d.tstate = c.tstate /\ d.stmt = c.stmt
  BY DEF Children, Places
<1> HIDE DEF d
<1>2. /\ Single(c, up) => Single(d, up)
      /\ Internal(c, up) => Internal(d, up)
      /\ Uniform(c, up) => Uniform(d, up)
  BY <1>1 DEF Single, Internal, Uniform
<1>3. Runs(d, t, ch, al, fl, up)
  BY <1>1, <1>2 DEF Runs
<1>4. QED
  BY <1>1, <1>3 DEF Sound, Live, d

LEMMA GroupFacts ==
    ASSUME NEW c, NEW u
    PROVE  NextGroup(c, u) \subseteq u
BY DEF NextGroup

LEMMA SendStep ==
    ASSUME Inv, NEW s \in Sessions, pool_send_and_wait_send(s)
    PROVE  Inv'
<1> DEFINE c == child[s]
           t == tx[s]
           ch == chan[s]
           S == NextGroup(c, Unsent(s))
           d == [c EXCEPT !.pc = "wait"]
<1>1. c \in Children /\ Sound(c, t, ch, alive, faulty, Up) /\ Up \subseteq Nodes
  BY SessionTypes
<1>2. /\ c.pc = "send" /\ Sent(s, S, c.stmt) /\ child' = [child EXCEPT ![s] = d]
      /\ UNCHANGED <<alive, tx, seq, faulty, down>>
  BY DEF pool_send_and_wait_send, pgVars, ghosts
<1> HIDE DEF d
<1>3. S \subseteq c.where /\ \A n \in S : ch[n].is = "empty"
  <2>1. S \subseteq Unsent(s)
    BY GroupFacts
  <2>2. QED
    BY <2>1 DEF Unsent
<1> HIDE DEF S
<1>4. /\ ~c.doomed /\ Runs(c, t, ch, alive, faulty, Up) /\ Up # {}
      /\ \A m \in Nodes \ Up : ch[m] = Empty
  BY <1>1, <1>2 DEF Sound, Live
<1>5. c.stmt \in Queries /\ c.where \subseteq Up /\ \A n \in Nodes : c.tstate[n] \in TxStates
  <2>1. c.stmt \in AllStatements /\ c.where \subseteq Up
    BY <1>1, <1>4, LeastFacts DEF Runs, Single, Internal, Writes, AllStatements, is_select_query
  <2>2. QED
    BY <1>1, <2>1 DEF Queries, Children
<1>6. PICK ch2 \in [Nodes -> Channels] :
             /\ chan' = [chan EXCEPT ![s] = ch2]
             /\ \A n \in Nodes \ S : ch2[n] = ch[n]
             /\ \A n \in Nodes, st \in TxStates :
                  Ask(n, c.stmt, st, t[n], ch[n], alive, faulty)
                    => Ask(n, c.stmt, st, t[n], ch2[n], alive, faulty)
  BY <1>2, <1>3, <1>5, SentFacts
<1> HIDE DEF c, t
<1>7. \A n \in c.where : Ask(n, c.stmt, c.tstate[n], t[n], ch2[n], alive, faulty)
  BY <1>1, <1>4, <1>5, <1>6 DEF Runs
<1>8. \A n \in Up \ c.where : Rest(n, c.tstate[n], t[n], ch2[n], alive)
  BY <1>1, <1>3, <1>4, <1>6 DEF Runs
<1>9. Runs(c, t, ch2, alive, faulty, Up)
  BY <1>4, <1>7, <1>8 DEF Runs
<1>10. \A m \in Nodes \ Up : ch2[m] = Empty
  BY <1>3, <1>4, <1>5, <1>6
<1>11. d \in Children /\ Sound(d, t, ch2, alive, faulty, Up)
  BY <1>1, <1>4, <1>9, <1>10, LoopSound DEF d
<1>12. QED
  BY <1>2, <1>6, <1>11, ChildStep DEF t

LEMMA WaitStep ==
    ASSUME Inv, NEW s \in Sessions, pool_send_and_wait_wait(s)
    PROVE  Inv'
<1> DEFINE c == child[s]
           p == IF Unsent(s) = {} THEN "reply" ELSE "send"
           d == [c EXCEPT !.pc = p]
<1>1. c \in Children /\ Sound(c, tx[s], chan[s], alive, faulty, Up) /\ chan[s] \in [Nodes -> Channels]
      /\ chan = [chan EXCEPT ![s] = chan[s]]
  BY SessionTypes
<1>2. /\ c.pc = "wait" /\ child' = [child EXCEPT ![s] = d] /\ chan' = [chan EXCEPT ![s] = chan[s]]
      /\ UNCHANGED <<alive, tx, seq, faulty, down>>
  BY <1>1 DEF pool_send_and_wait_wait, pgVars, ghosts
<1>3. p \in {"send", "wait", "reply"}
  OBVIOUS
<1>4. /\ ~c.doomed /\ Runs(c, tx[s], chan[s], alive, faulty, Up) /\ Up # {}
      /\ \A m \in Nodes \ Up : chan[s][m] = Empty
  BY <1>1, <1>2 DEF Sound, Live
<1> HIDE DEF c, p
<1>5. d \in Children /\ Sound(d, tx[s], chan[s], alive, faulty, Up)
  BY <1>1, <1>3, <1>4, LoopSound
<1> HIDE DEF d
<1>6. QED
  BY <1>1, <1>2, <1>5, ChildStep

\* The session ends and the nodes are left as they are.
LEMMA LostStep ==
    ASSUME Inv, NEW s \in Sessions,
           \/ wait_for_query_response_fails(s)
           \/ \E n \in Nodes : backend_lost(s, n)
           \/ read_kind_mismatch(s)
    PROVE  Inv'
<1>1. End(s) /\ chan' = chan /\ UNCHANGED <<alive, tx, seq, faulty, down>>
  BY DEF wait_for_query_response_fails, backend_lost, read_kind_mismatch, pgVars
<1>2. QED
  BY <1>1, EndStep

-----------------------------------------------------------------------------
(* The replies are read.                                                   *)

\* Every node the statement went to has answered ...
Answered(s, c, ch) ==
    /\ c = child[s] /\ ch = chan[s] /\ c \in Children /\ ~c.doomed /\ c.pc = "reply"
    /\ Runs(c, tx[s], ch, alive, faulty, Up) /\ Up # {} /\ Up \subseteq Nodes
    /\ c.where \subseteq Up /\ Least(c.where) \in c.where /\ Least(Up) \in Up
    /\ (\A m \in Nodes \ Up : ch[m] = Empty)
    /\ \A n \in c.where : /\ ch[n] \in Replies /\ ch[n].is = "reply" /\ ~ch[n].dead
                          /\ Fair(n, c.stmt, c.tstate[n], ch[n], faulty)
                          /\ In(n, ch[n].z, tx[s][n], alive)
                          /\ ch[n].kind \in {"C", "E"}

\* ... and with the same kind.
Heard(s, c, ch) ==
    /\ Answered(s, c, ch)
    /\ \A n \in c.where : ch[n].kind = ch[Least(c.where)].kind

LEMMA AnsweredFacts ==
    ASSUME Inv, NEW s \in Sessions, AllReplied(s)
    PROVE  Answered(s, child[s], chan[s])
<1> DEFINE c == child[s]
           ch == chan[s]
<1>1. c \in Children /\ Sound(c, tx[s], ch, alive, faulty, Up) /\ Up \subseteq Nodes
      /\ ch \in [Nodes -> Channels]
  BY SessionTypes
<1>2. c.pc = "reply" /\ \A n \in c.where : ch[n].is = "reply"
  BY DEF AllReplied
<1>3. /\ ~c.doomed /\ Runs(c, tx[s], ch, alive, faulty, Up) /\ Up # {}
      /\ \A m \in Nodes \ Up : ch[m] = Empty
  BY <1>1, <1>2 DEF Sound, Live
<1>4. c.stmt \in AllStatements /\ c.where \subseteq Up /\ c.where # {}
  BY <1>3 DEF Runs, Single, Internal, Writes, AllStatements, is_select_query
<1>5. Least(c.where) \in c.where /\ Least(Up) \in Up
  BY <1>1, <1>3, <1>4, LeastFacts
<1>6. ASSUME NEW n \in c.where
      PROVE  /\ ch[n] \in Replies /\ ~ch[n].dead /\ Fair(n, c.stmt, c.tstate[n], ch[n], faulty)
             /\ In(n, ch[n].z, tx[s][n], alive) /\ ch[n].kind \in {"C", "E"}
  <2>1. ch[n] \in Channels /\ ch[n].is = "reply"
    BY <1>1, <1>2, <1>4
  <2>2. ch[n] \in Replies
    BY <2>1, ChannelFacts
  <2>3. Ask(n, c.stmt, c.tstate[n], tx[s][n], ch[n], alive, faulty)
    BY <1>3 DEF Runs
  <2>4. Fair(n, c.stmt, c.tstate[n], ch[n], faulty) /\ In(n, ch[n].z, tx[s][n], alive)
    BY <2>1, <2>3 DEF Ask
  <2>5. ~ch[n].dead
    BY <1>4, <2>4 DEF Fair, AllStatements, LockQueries
  <2>6. QED
    BY <2>2, <2>4, <2>5 DEF Replies
<1>7. QED
  BY <1>1, <1>2, <1>3, <1>4, <1>5, <1>6 DEF Answered

LEMMA HeardFacts ==
    ASSUME Inv, NEW s \in Sessions, AllReplied(s), Agree(s)
    PROVE  Heard(s, child[s], chan[s])
<1> DEFINE c == child[s]
           ch == chan[s]
<1>1. Answered(s, c, ch) /\ Least(c.where) \in c.where
  BY AnsweredFacts DEF Answered
<1>2. \A n \in c.where : ch[n].kind \in {"C", "E"}
  BY <1>1 DEF Answered
<1> DEFINE K == {ch[n].kind : n \in c.where}
<1>3. IsFiniteSet({"C", "E"}) /\ K \subseteq {"C", "E"}
  <2>1. IsFiniteSet({"C"})
    BY FS_Singleton
  <2>2. IsFiniteSet({"C"} \cup {"E"})
    BY <2>1, FS_AddElement
  <2>3. {"C"} \cup {"E"} = {"C", "E"}
    OBVIOUS
  <2>4. K \subseteq {"C", "E"}
    BY <1>2
  <2>5. QED
    BY <2>2, <2>3, <2>4
<1>4. Cardinality(K) = 1
  BY DEF Agree
<1>5. \A n \in c.where : ch[n].kind \in K
  OBVIOUS
<1> HIDE DEF K
<1>6. IsFiniteSet(K)
  BY <1>3, FS_Subset
<1>7. PICK k : K = {k}
  BY <1>4, <1>6, FS_Singleton
<1>8. \A n \in c.where : ch[n].kind = ch[Least(c.where)].kind
  BY <1>1, <1>5, <1>7
<1>9. QED
  BY <1>1, <1>8 DEF Heard

\* Every node's reply is read as far as ReadyForQuery.
LEMMA ReadKindsFacts ==
    ASSUME Inv, NEW s \in Sessions, NEW c, NEW ch, Heard(s, c, ch), ReadKinds(s)
    PROVE  \E ch2 \in [Nodes -> Channels] :
             /\ chan' = [chan EXCEPT ![s] = ch2]
             /\ \A n \in Nodes \ c.where : ch2[n] = ch[n]
             /\ \A n \in c.where : Readied(n, tx[s][n], ch2[n], alive) /\ ch2[n].z = ch[n].z
<1> DEFINE ch2 == [n \in Nodes |-> IF n \in child[s].where THEN Ready(chan[s][n].z) ELSE chan[s][n]]
<1>1. c = child[s] /\ ch = chan[s] /\ c.where \subseteq Nodes
  BY DEF Heard, Answered
<1>2. chan \in [Sessions -> [Nodes -> Channels]] /\ ch \in [Nodes -> Channels]
  BY <1>1 DEF Inv, Shapes
<1>3. ASSUME NEW n \in c.where
      PROVE  Ready(ch[n].z) \in Channels /\ Ready(ch[n].z).is = "ready" /\ Ready(ch[n].z).z = ch[n].z
  <2>1. ch[n].z \in TxStates
    BY DEF Heard, Answered, Replies
  <2>2. QED
    BY <2>1, ReadyFacts
<1>4. ch2 \in [Nodes -> Channels]
  BY <1>1, <1>2, <1>3
<1>5. chan' = [chan EXCEPT ![s] = ch2]
  BY <1>2 DEF ReadKinds
<1>6. /\ \A n \in Nodes \ c.where : ch2[n] = ch[n]
      /\ \A n \in c.where : ch2[n] = Ready(ch[n].z)
  BY <1>1
<1> HIDE DEF ch2
<1>7. \A n \in c.where : Readied(n, tx[s][n], ch2[n], alive) /\ ch2[n].z = ch[n].z
  BY <1>3, <1>6 DEF Heard, Answered, Readied
<1>8. QED
  BY <1>4, <1>5, <1>6, <1>7

LEMMA CommandCompleteStep ==
    ASSUME Inv, NEW s \in Sessions, CommandComplete(s)
    PROVE  Inv'
<1> DEFINE c == child[s]
           t == tx[s]
           ch == chan[s]
           m0 == Least(c.where)
           rows == [n \in Nodes |-> IF n \in c.where THEN ch[n].rows ELSE -1]
           d == [c EXCEPT !.pc = "ready", !.ntuples = rows,
                          !.mismatch = @ \/ \E n \in c.where : rows[n] # rows[m0],
                          !.ids = IF c.stmt \in {"update", "insert"} THEN @ \cup {<<s, c.count>>} ELSE @]
<1>1. /\ AllReplied(s) /\ Agree(s) /\ ReadKinds(s) /\ ch[m0].kind = "C"
      /\ child' = [child EXCEPT ![s] = d] /\ UNCHANGED <<alive, tx, seq, faulty, down>>
  BY DEF CommandComplete, pgVars, ghosts, MASTER_NODE_ID
<1> HIDE DEF d
<1>2. Heard(s, c, ch)
  BY <1>1, HeardFacts
<1>3. PICK ch2 \in [Nodes -> Channels] :
             /\ chan' = [chan EXCEPT ![s] = ch2]
             /\ \A n \in Nodes \ c.where : ch2[n] = ch[n]
             /\ \A n \in c.where : Readied(n, t[n], ch2[n], alive) /\ ch2[n].z = ch[n].z
  BY <1>1, <1>2, ReadKindsFacts
<1>4. /\ c \in Children /\ ~c.doomed /\ c.pc = "reply" /\ Runs(c, t, ch, alive, faulty, Up)
      /\ Up # {} /\ Up \subseteq Nodes /\ c.where \subseteq Up /\ m0 \in c.where /\ Least(Up) \in Up
      /\ \A m \in Nodes \ Up : ch[m] = Empty
  BY <1>2 DEF Heard, Answered
<1>5. \A n \in c.where : /\ ch[n].rows \in {0, 1} /\ ch[n].kind = "C" /\ ~ch[n].dead
                         /\ Fair(n, c.stmt, c.tstate[n], ch[n], faulty)
  BY <1>1, <1>2 DEF Heard, Answered, Replies
<1>6. /\ c.todo = {} /\ ~c.mismatch
      /\ Single(c, Up) \/ Internal(c, Up)
      /\ \A n \in Up \ c.where : Rest(n, c.tstate[n], t[n], ch[n], alive)
  BY <1>4 DEF Runs
<1>7. rows \in [Nodes -> {-1, 0, 1}] /\ \A n \in c.where : rows[n] = ch[n].rows
  BY <1>4, <1>5
<1> HIDE DEF rows
<1>8. /\ d \in Children /\ d.pc = "ready" /\ ~d.doomed /\ d.where = c.where /\ d.todo = {}
      /\ d.internal = c.internal /\ d.stmt = c.stmt /\ d.tstate = c.tstate /\ d.ntuples = rows
      /\ d.mismatch <=> \E n \in c.where : rows[n] # rows[m0]
  <2>1. c.ids \cup {<<s, c.count>>} \in SUBSET (Sessions \X Nat)
    BY <1>4 DEF Children
  <2> DEFINE mm == c.mismatch \/ \E n \in c.where : rows[n] # rows[m0]
             is == IF c.stmt \in {"update", "insert"} THEN c.ids \cup {<<s, c.count>>} ELSE c.ids
  <2>2. d = [c EXCEPT !.pc = "ready", !.ntuples = rows, !.mismatch = mm, !.ids = is]
    BY <1>4 DEF d, Children
  <2>3. is \in SUBSET (Sessions \X Nat) /\ mm \in BOOLEAN
    BY <1>4, <2>1 DEF Children
  <2>4. mm <=> \E n \in c.where : rows[n] # rows[m0]
    BY <1>6
  <2> HIDE DEF c, mm, is
  <2>5. /\ d \in Children /\ d.pc = "ready" /\ ~d.doomed /\ d.where = c.where /\ d.todo = {}
        /\ d.internal = c.internal /\ d.stmt = c.stmt /\ d.tstate = c.tstate /\ d.ntuples = rows
        /\ d.mismatch = mm
    BY <1>4, <1>6, <1>7, <2>2, <2>3 DEF Children, Places
  <2>6. QED
    BY <2>4, <2>5
<1> HIDE DEF c, t, m0
<1>9. \A n \in c.where : /\ ch2[n].z = After(c.stmt, c.tstate[n])
                         /\ c.tstate[n] = "E" => is_commit_query(c.stmt)
  BY <1>3, <1>5 DEF Fair
<1>10. \/ d.internal = {} /\ \A n, m \in Up : Z(d, ch2, n) = Z(d, ch2, m)
       \/ Internal(d, Up)
  <2>1. CASE Internal(c, Up)
    BY <1>8, <2>1 DEF Internal
  <2>2. CASE Single(c, Up)
    <3>1. c.internal = {} /\ \A n, m \in Up : c.tstate[n] = c.tstate[m]
      BY <2>2 DEF Single, Uniform
    <3>2. CASE is_select_query(c.stmt)
      <4>1. \A n \in c.where : ch2[n].z = c.tstate[n]
        BY <1>9, <3>2 DEF is_select_query, is_commit_query, After
      <4>2. \A n \in Up : Z(d, ch2, n) = c.tstate[n]
        BY <1>8, <4>1 DEF Z
      <4>3. QED
        BY <1>8, <3>1, <4>2
    <3>3. CASE ~is_select_query(c.stmt)
      <4>1. c.where = Up
        BY <2>2, <3>3 DEF Single
      <4>2. \A n \in Up : Z(d, ch2, n) = After(c.stmt, c.tstate[n])
        BY <1>8, <1>9, <4>1 DEF Z
      <4>3. QED
        BY <1>8, <3>1, <4>2
    <3>4. QED
      BY <3>2, <3>3
  <2>3. QED
    BY <1>6, <2>1, <2>2
<1>11. ASSUME d.mismatch
       PROVE  /\ d.where = Up
              /\ \A n \in Up : ch2[n].z = "T" /\ d.ntuples[n] \in {0, 1}
              /\ \A n \in Up \ faulty : d.ntuples[n] = 1
              /\ \E n \in Up : d.ntuples[n] # 1
  <2>1. PICK k \in c.where : rows[k] # rows[m0]
    BY <1>8, <1>11
  <2>2. c.stmt \in Writes
    <3>1. SUFFICES ASSUME c.stmt \notin Writes PROVE FALSE
      OBVIOUS
    <3>2. \A n \in c.where : rows[n] = 0
      BY <1>5, <1>7, <3>1 DEF Fair, Rows
    <3>3. QED
      BY <1>4, <2>1, <3>2
  <2>3. ~is_select_query(c.stmt) /\ ~is_commit_query(c.stmt) /\ c.stmt # "begin"
    BY <2>2 DEF Writes, is_select_query, is_commit_query
  <2>4. c.where = Up
    BY <1>6, <2>3 DEF Single, Internal
  <2>5. \A n \in Up : c.tstate[n] = "T"
    <3>1. \A n \in Up : c.tstate[n] # "E" /\ c.tstate[n] \in {"I", "T", "E"}
      BY <1>4, <1>9, <2>3, <2>4 DEF Children, TxStates
    <3>2. CASE Internal(c, Up)
      BY <3>1, <3>2 DEF Internal
    <3>3. CASE Single(c, Up)
      <4>1. c.tstate[Least(Up)] # "I"
        <5>1. Up # {Least(Up)}
          BY <1>4, <2>1, <2>4
        <5>2. QED
          BY <2>2, <3>3, <5>1 DEF Single
      <4>2. QED
        BY <1>4, <3>1, <3>3, <4>1 DEF Single, Uniform
    <3>4. QED
      BY <1>6, <3>2, <3>3
  <2>6. \A n \in Up : ch2[n].z = "T" /\ rows[n] \in {0, 1}
    BY <1>5, <1>7, <1>9, <2>3, <2>4, <2>5 DEF After
  <2>7. \A n \in Up \ faulty : rows[n] = 1
    <3>1. Kind(c.stmt, "T") = "C" => Rows(c.stmt, "T") = 1
      BY <2>2 DEF Kind, Rows
    <3>2. QED
      BY <1>5, <1>7, <2>4, <2>5, <3>1 DEF Fair
  <2>8. \E n \in Up : rows[n] # 1
    BY <1>4, <2>1, <2>4, <2>6
  <2>9. QED
    BY <1>8, <2>4, <2>6, <2>7, <2>8
<1>12. \A n \in Up \ c.where : Rest(n, c.tstate[n], t[n], ch2[n], alive)
  BY <1>3, <1>4, <1>6
<1>13. Completes(d, t, ch2, alive, faulty, Up)
  BY <1>3, <1>4, <1>8, <1>10, <1>11, <1>12 DEF Completes
<1>14. Sound(d, t, ch2, alive, faulty, Up)
  BY <1>3, <1>4, <1>8, <1>13 DEF Sound, Live
<1>15. QED
  BY <1>1, <1>3, <1>8, <1>14, ChildStep DEF t

LEMMA ErrorResponseStep ==
    ASSUME Inv, NEW s \in Sessions, ErrorResponse3(s)
    PROVE  Inv'
<1> DEFINE c == child[s]
           t == tx[s]
           ch == chan[s]
           M == Least(Up)
           e == raise_intentional_error_if_need(c)
           d == [e EXCEPT !.ids = {}]
<1>1. /\ AllReplied(s) /\ Agree(s) /\ ReadKinds(s) /\ ch[Least(c.where)].kind = "E"
      /\ child' = [child EXCEPT ![s] = d] /\ UNCHANGED <<alive, tx, seq, faulty, down>>
  BY DEF ErrorResponse3, pgVars, ghosts, MASTER_NODE_ID
<1> HIDE DEF d, e
<1>2. Heard(s, c, ch)
  BY <1>1, HeardFacts
<1>3. PICK ch2 \in [Nodes -> Channels] :
             /\ chan' = [chan EXCEPT ![s] = ch2]
             /\ \A n \in Nodes \ c.where : ch2[n] = ch[n]
             /\ \A n \in c.where : Readied(n, t[n], ch2[n], alive) /\ ch2[n].z = ch[n].z
  BY <1>1, <1>2, ReadKindsFacts
<1>4. /\ c \in Children /\ ~c.doomed /\ c.pc = "reply" /\ Runs(c, t, ch, alive, faulty, Up)
      /\ Up # {} /\ Up \subseteq Nodes /\ c.where \subseteq Up /\ Least(c.where) \in c.where /\ M \in Up
      /\ \A m \in Nodes \ Up : ch[m] = Empty
  BY <1>2 DEF Heard, Answered
<1>5. \A n \in c.where : ch2[n].z = Failed(c.tstate[n])
  BY <1>1, <1>2, <1>3 DEF Heard, Answered, Fair
<1>6. /\ c.todo = {} /\ ~c.mismatch
      /\ Single(c, Up) \/ Internal(c, Up)
      /\ \A n \in Up \ c.where : Rest(n, c.tstate[n], t[n], ch2[n], alive)
  BY <1>3, <1>4 DEF Runs
<1>7. \A m \in Nodes \ Up : ch2[m] = Empty
  BY <1>3, <1>4
<1> DEFINE P == is_select_query(c.stmt) /\ c.tstate[M] = "T" /\ Up # {M}
<1>8. e = IF P THEN [c EXCEPT !.pc = "sync", !.where = Up, !.todo = Up \ {M}]
               ELSE [c EXCEPT !.pc = "ready"]
  BY DEF e, raise_intentional_error_if_need, REAL_MASTER_NODE_ID
<1> HIDE DEF c, t, M
<1>9. CASE P
  <2>1. e = [c EXCEPT !.pc = "sync", !.where = Up, !.todo = Up \ {M}]
    BY <1>8, <1>9
  <2>2. /\ d \in Children /\ d.pc = "sync" /\ ~d.doomed /\ d.where = Up /\ d.todo = Up \ {M}
        /\ d.internal = c.internal
    BY <1>4, <2>1 DEF Children, Places, d
  <2>3. Single(c, Up)
    BY <1>6, <1>9 DEF Internal, Writes, is_select_query
  <2>4. c.internal = {} /\ c.where = {M} /\ \A n \in Up : c.tstate[n] = "T"
    BY <1>4, <1>9, <2>3 DEF Single, Uniform, M
  <2>5. \A n \in d.todo : Ask(n, "error", "T", t[n], ch2[n], alive, faulty)
    BY <1>6, <2>2, <2>4, RestAsk
  <2>6. \A n \in Up \ d.todo : Readied(n, t[n], ch2[n], alive) /\ ch2[n].z = "E"
    BY <1>3, <1>4, <1>5, <2>2, <2>4 DEF Failed
  <2>7. d.todo # {} /\ d.todo \subseteq Up
    BY <1>4, <1>9, <2>2
  <2>8. Errs(d, t, ch2, alive, faulty, Up)
    BY <2>2, <2>4, <2>5, <2>6, <2>7 DEF Errs
  <2>9. Sound(d, t, ch2, alive, faulty, Up)
    BY <1>4, <1>7, <2>2, <2>8 DEF Sound, Live
  <2>10. QED
    BY <1>1, <1>3, <2>2, <2>9, ChildStep DEF t
<1>10. CASE ~P
  <2>1. e = [c EXCEPT !.pc = "ready"]
    BY <1>8, <1>10
  <2>2. /\ d \in Children /\ d.pc = "ready" /\ ~d.doomed /\ d.where = c.where /\ d.todo = {}
        /\ d.internal = c.internal /\ d.stmt = c.stmt /\ d.tstate = c.tstate /\ ~d.mismatch
    BY <1>4, <1>6, <2>1 DEF Children, Places, d
  <2>3. \/ d.internal = {} /\ \A n, m \in Up : Z(d, ch2, n) = Z(d, ch2, m)
        \/ Internal(d, Up)
    <3>1. CASE Internal(c, Up)
      BY <2>2, <3>1 DEF Internal
    <3>2. CASE Single(c, Up)
      <4>1. c.internal = {} /\ \A n, m \in Up : c.tstate[n] = c.tstate[m]
        BY <3>2 DEF Single, Uniform
      <4>2. CASE is_select_query(c.stmt)
        <5>1. CASE Up = {M}
          BY <2>2, <4>1, <5>1
        <5>2. CASE Up # {M}
          <6>1. \A n \in Up : c.tstate[n] \in {"I", "E"}
            BY <1>4, <1>10, <4>1, <4>2, <5>2 DEF Children, TxStates
          <6>2. \A n \in c.where : ch2[n].z = c.tstate[n]
            BY <1>4, <1>5, <6>1 DEF Failed
          <6>3. \A n \in Up : Z(d, ch2, n) = c.tstate[n]
            BY <2>2, <6>2 DEF Z
          <6>4. QED
            BY <2>2, <4>1, <6>3
        <5>3. QED
          BY <5>1, <5>2
      <4>3. CASE ~is_select_query(c.stmt)
        <5>1. c.where = Up
          BY <3>2, <4>3 DEF Single
        <5>2. \A n \in Up : Z(d, ch2, n) = Failed(c.tstate[n])
          BY <1>5, <2>2, <5>1 DEF Z
        <5>3. QED
          BY <2>2, <4>1, <5>2
      <4>4. QED
        BY <4>2, <4>3
    <3>3. QED
      BY <1>6, <3>1, <3>2
  <2>4. Completes(d, t, ch2, alive, faulty, Up)
    BY <1>3, <1>4, <1>6, <2>2, <2>3 DEF Completes
  <2>5. Sound(d, t, ch2, alive, faulty, Up)
    BY <1>4, <1>7, <2>2, <2>4 DEF Sound, Live
  <2>6. QED
    BY <1>1, <1>3, <2>2, <2>5, ChildStep DEF t
<1>11. QED
  BY <1>9, <1>10

-----------------------------------------------------------------------------
(* The end of a statement.                                                 *)

\* The numbers of rows differ: the session ends, or the transaction is
\* aborted on every node.
LEMMA TuplesMismatchStep ==
    ASSUME Inv, NEW s \in Sessions, tuples_mismatch(s)
    PROVE  Inv'
<1> DEFINE c == child[s]
           t == tx[s]
           ch == chan[s]
           d == [c EXCEPT !.pc = "abort", !.todo = c.where, !.ids = {}]
           ch2 == [n \in Nodes |-> IF n \in c.where THEN Empty ELSE ch[n]]
<1>1. c \in Children /\ Sound(c, t, ch, alive, faulty, Up) /\ Up \subseteq Nodes
      /\ ch \in [Nodes -> Channels]
  BY SessionTypes
<1>2. /\ c.pc = "ready" /\ c.mismatch /\ UNCHANGED <<alive, tx, seq, faulty, down>>
      /\ \/ End(s) /\ chan' = chan
         \/ child' = [child EXCEPT ![s] = d] /\ chan' = [chan EXCEPT ![s] = ch2]
  <2>1. /\ c.pc = "ready" /\ c.mismatch /\ UNCHANGED <<alive, tx, seq, faulty, down>>
    BY DEF tuples_mismatch, pgVars
  <2>2. \/ End(s) /\ chan' = chan
        \/ /\ chan' = [chan EXCEPT ![s] = [n \in Nodes |-> IF n \in c.where THEN Empty ELSE @[n]]]
           /\ child' = [child EXCEPT ![s].pc = "abort", ![s].todo = c.where, ![s].ids = {}]
    BY DEF tuples_mismatch
  <2>3. child \in [Sessions -> Children] /\ chan \in [Sessions -> [Nodes -> Channels]]
    BY DEF Inv, Shapes
  <2>4. chan' = [chan EXCEPT ![s] = [n \in Nodes |-> IF n \in c.where THEN Empty ELSE @[n]]]
          => chan' = [chan EXCEPT ![s] = ch2]
    BY <2>3
  <2>5. child' = [child EXCEPT ![s].pc = "abort", ![s].todo = c.where, ![s].ids = {}]
          => child' = [child EXCEPT ![s] = d]
    BY <2>3
  <2>6. QED
    BY <2>1, <2>2, <2>4, <2>5
<1>3. CASE End(s) /\ chan' = chan
  BY <1>2, <1>3, EndStep
<1>4. CASE child' = [child EXCEPT ![s] = d] /\ chan' = [chan EXCEPT ![s] = ch2]
  <2>1. /\ ~c.doomed /\ Completes(c, t, ch, alive, faulty, Up) /\ Up # {}
        /\ \A m \in Nodes \ Up : ch[m] = Empty
    BY <1>1, <1>2 DEF Sound, Live
  <2>2. Empty \in Channels
    BY DEF Channels
  <2>3. /\ ch2 \in [Nodes -> Channels] /\ \A n \in Nodes \ c.where : ch2[n] = ch[n]
        /\ \A n \in c.where : ch2[n] = Empty
    BY <1>1, <2>2 DEF Children
  <2> HIDE DEF c, ch2, t
  <2>4. /\ d \in Children /\ d.pc = "abort" /\ ~d.doomed /\ d.where = c.where /\ d.todo = c.where
        /\ d.internal = c.internal /\ d.stmt = c.stmt /\ d.tstate = c.tstate
    BY <1>1, <2>1 DEF Children, Places
  <2> HIDE DEF d
  <2>5. c.where = Up /\ \A n \in Up : Readied(n, t[n], ch[n], alive) /\ ch[n].z = "T"
    BY <1>2, <2>1 DEF Completes
  <2>6. \A n \in Up : Ask(n, "error", "T", t[n], ch2[n], alive, faulty)
    <3>1. \A n \in Up : Rest(n, "T", t[n], ch2[n], alive)
      BY <2>3, <2>5 DEF Readied, Rest
    <3>2. QED
      BY <3>1, RestAsk
  <2>7. d.internal = {} \/ Internal(d, Up)
    BY <2>1, <2>4 DEF Completes, Internal
  <2>8. Errs(d, t, ch2, alive, faulty, Up)
    BY <2>1, <2>4, <2>5, <2>6, <2>7 DEF Errs
  <2>9. Sound(d, t, ch2, alive, faulty, Up)
    BY <2>1, <2>3, <2>4, <2>5, <2>8 DEF Sound, Live
  <2>10. QED
    BY <1>2, <1>4, <2>3, <2>4, <2>9, ChildStep DEF t
<1>5. QED
  BY <1>2, <1>3, <1>4

\* A child at the start of its life.
LEMMA NewChildFacts ==
    ASSUME NEW k \in Nat
    PROVE  /\ NewChild(k) \in Children /\ NewChild(k).pc = "idle" /\ NewChild(k).internal = {}
           /\ NewChild(k).todo = {} /\ ~NewChild(k).mismatch /\ ~NewChild(k).doomed
           /\ \A n \in Nodes : NewChild(k).tstate[n] = "I"
<1>1. LockKind \in {0, 1, 3}
  BY ReplicationAssumption
<1>2. /\ [n \in Nodes |-> "I"] \in [Nodes -> TxStates]
      /\ [n \in Nodes |-> -1] \in [Nodes -> {-1, 0, 1}]
      /\ \A n \in Nodes : [m \in Nodes |-> "I"][n] = "I"
  BY DEF TxStates
<1>3. QED
  BY <1>1, <1>2 DEF NewChild, Children, Places

LEMMA ReadyForQueryStep ==
    ASSUME Inv, NEW s \in Sessions, ReadyForQuery(s)
    PROVE  Inv'
<1> DEFINE c == child[s]
           t == tx[s]
           ch == chan[s]
           T == ToCommit(c)
           z == [n \in Nodes |-> IF n \in c.where THEN ch[n].z ELSE c.tstate[n]]
           is == IF z[Least(c.where)] = "I" THEN {} ELSE c.ids
           d1 == [c EXCEPT !.pc = "commit", !.todo = T]
           d2 == [NewChild(c.count) EXCEPT !.tstate = z, !.internal = c.internal, !.ids = is]
           ch1 == [n \in Nodes |-> IF n \in T THEN Empty ELSE ch[n]]
           ch2 == [n \in Nodes |-> Empty]
<1>1. c \in Children /\ Sound(c, t, ch, alive, faulty, Up) /\ Up \subseteq Nodes
      /\ ch \in [Nodes -> Channels]
  BY SessionTypes
<1>2. /\ c.pc = "ready" /\ ~c.mismatch /\ UNCHANGED <<alive, tx, seq, faulty, down>>
      /\ T # {} => child' = [child EXCEPT ![s] = d1] /\ chan' = [chan EXCEPT ![s] = ch1]
      /\ T = {} => child' = [child EXCEPT ![s] = d2] /\ chan' = [chan EXCEPT ![s] = ch2]
  <2>1. child \in [Sessions -> Children] /\ chan \in [Sessions -> [Nodes -> Channels]]
    BY DEF Inv, Shapes
  <2>2. /\ c.pc = "ready" /\ ~c.mismatch /\ UNCHANGED <<alive, tx, seq, faulty, down>>
    BY DEF ReadyForQuery, pgVars
  <2>3. T # {} => /\ child' = [child EXCEPT ![s].pc = "commit", ![s].todo = T]
                  /\ chan' = [chan EXCEPT ![s] = [n \in Nodes |-> IF n \in T THEN Empty ELSE @[n]]]
    BY DEF ReadyForQuery
  <2>4. T = {} => child' = [child EXCEPT ![s] = d2] /\ chan' = [chan EXCEPT ![s] = ch2]
    BY DEF ReadyForQuery, MASTER_NODE_ID
  <2> HIDE DEF T, d2
  <2>5. child' = [child EXCEPT ![s].pc = "commit", ![s].todo = T] => child' = [child EXCEPT ![s] = d1]
    BY <2>1
  <2>6. chan' = [chan EXCEPT ![s] = [n \in Nodes |-> IF n \in T THEN Empty ELSE @[n]]]
          => chan' = [chan EXCEPT ![s] = ch1]
    BY <2>1
  <2>7. QED
    BY <2>2, <2>3, <2>4, <2>5, <2>6
<1>3. Empty \in Channels
  BY DEF Channels
<1>4. /\ ~c.doomed /\ Completes(c, t, ch, alive, faulty, Up) /\ Up # {}
      /\ \A m \in Nodes \ Up : ch[m] = Empty
  BY <1>1, <1>2 DEF Sound, Live
<1>5. /\ T \subseteq Nodes /\ T = {n \in c.where \cap c.internal : c.tstate[n] # "I"}
      /\ \A n \in Nodes : z[n] = Z(c, ch, n)
      /\ c.where \subseteq Up
  BY <1>1, <1>4 DEF ToCommit, Children, Z, Completes
<1>6. \A n \in c.where : ch[n].z \in TxStates /\ ch[n].is = "ready" /\ In(n, ch[n].z, t[n], alive)
  <2>1. SUFFICES ASSUME NEW n \in c.where
                 PROVE  ch[n].z \in TxStates /\ ch[n].is = "ready" /\ In(n, ch[n].z, t[n], alive)
    OBVIOUS
  <2>2. Readied(n, t[n], ch[n], alive) /\ ch[n] \in Channels
    BY <1>1, <1>4, <1>5 DEF Completes
  <2>3. ch[n] \in Readies
    BY <2>2, ChannelFacts DEF Readied
  <2>4. QED
    BY <2>2, <2>3 DEF Readied, Readies
<1>7. z \in [Nodes -> TxStates]
  BY <1>1, <1>6 DEF Children
<1>8. is \in SUBSET (Sessions \X Nat) /\ c.count \in Nat /\ c.internal \subseteq Nodes
  BY <1>1 DEF Children
<1>9. /\ ch1 \in [Nodes -> Channels] /\ (\A n \in T : ch1[n] = Empty)
      /\ (\A n \in Nodes \ T : ch1[n] = ch[n])
      /\ ch2 \in [Nodes -> Channels] /\ (\A n \in Nodes : ch2[n] = Empty)
  BY <1>1, <1>3, <1>5
<1> HIDE DEF c, t, T, z, is, ch1, ch2
<1>10. CASE T # {}
  <2>1. Internal(c, Up)
    BY <1>4, <1>5, <1>10 DEF Completes
  <2>2. T = Up /\ c.where = Up /\ c.internal = Up
    BY <1>5, <2>1 DEF Internal
  <2>3. /\ d1 \in Children /\ d1.pc = "commit" /\ ~d1.doomed /\ d1.where = Up /\ d1.internal = Up
        /\ d1.todo = Up /\ ~d1.mismatch
    BY <1>1, <1>2, <1>4, <1>5, <2>2, ZenonT(40) DEF Children, Places, c
  <2> HIDE DEF d1, d2
  <2>4. \A n \in Up : \E st \in TxStates : Ask(n, "commit", st, t[n], ch1[n], alive, faulty)
    <3>1. \A n \in Up : ch[n].z \in TxStates /\ Rest(n, ch[n].z, t[n], ch1[n], alive)
      BY <1>6, <1>9, <2>2 DEF Rest
    <3>2. \A n \in Up : ch[n].z \in TxStates /\ Ask(n, "commit", ch[n].z, t[n], ch1[n], alive, faulty)
      BY <3>1, RestAsk
    <3>3. QED
      BY <3>2
  <2>5. Commits(d1, t, ch1, alive, faulty, Up)
    BY <1>4, <2>3, <2>4 DEF Commits
  <2>6. Sound(d1, t, ch1, alive, faulty, Up)
    BY <1>4, <1>9, <2>2, <2>3, <2>5 DEF Sound, Live
  <2>7. QED
    BY <1>2, <1>9, <1>10, <2>3, <2>6, ChildStep DEF t
<1>11. CASE T = {}
  <2>1. c.internal = {} /\ \A n, m \in Up : Z(c, ch, n) = Z(c, ch, m)
    BY <1>4, <1>5, <1>11 DEF Completes, Internal
  <2> DEFINE e == NewChild(c.count)
  <2>2. e \in Children /\ e.pc = "idle" /\ e.todo = {} /\ ~e.mismatch /\ ~e.doomed
    BY <1>8, NewChildFacts
  <2>3. d2 = [e EXCEPT !.tstate = z, !.internal = c.internal, !.ids = is]
    OBVIOUS
  <2> HIDE DEF e, d1, d2
  <2>4. /\ d2 \in Children /\ d2.pc = "idle" /\ d2.todo = {} /\ ~d2.mismatch /\ ~d2.doomed
        /\ d2.internal = {} /\ d2.tstate = z
    BY <1>7, <1>8, <2>1, <2>2, <2>3 DEF Children, Places
  <2>5. \A n \in Up : Rest(n, z[n], t[n], ch2[n], alive)
    <3>1. SUFFICES ASSUME NEW n \in Up PROVE In(n, z[n], t[n], alive)
      BY <1>1, <1>9 DEF Rest
    <3>2. CASE n \in c.where
      BY <1>1, <1>5, <1>6, <3>2 DEF Z
    <3>3. CASE n \notin c.where
      BY <1>1, <1>4, <1>5, <3>3 DEF Z, Completes, Rest
    <3>4. QED
      BY <3>2, <3>3
  <2>6. Uniform(d2, Up)
    BY <1>1, <1>5, <2>1, <2>4 DEF Uniform
  <2>7. Idle(d2, t, ch2, alive, Up)
    BY <2>4, <2>5, <2>6 DEF Idle
  <2>8. Sound(d2, t, ch2, alive, faulty, Up)
    BY <1>4, <1>9, <2>4, <2>7 DEF Sound, Live
  <2>9. QED
    BY <1>2, <1>9, <1>11, <2>4, <2>8, ChildStep DEF t
<1>12. QED
  BY <1>10, <1>11

\* A new session finds the nodes in service with no transaction.
LEMMA NewSession ==
    ASSUME NEW k \in Nat, NEW t, NEW ch, NEW al, NEW fl, NEW up, up \subseteq Nodes, up # {},
           \A n \in Nodes : t[n] = NoTx /\ ch[n] = Empty
    PROVE  NewChild(k) \in Children /\ Sound(NewChild(k), t, ch, al, fl, up)
<1> DEFINE d == NewChild(k)
<1>1. /\ d \in Children /\ d.pc = "idle" /\ d.internal = {}
      /\ d.todo = {} /\ ~d.mismatch /\ ~d.doomed /\ \A n \in Nodes : d.tstate[n] = "I"
  BY NewChildFacts
<1> HIDE DEF d
<1>2. \A n \in up : Rest(n, d.tstate[n], t[n], ch[n], al)
  BY <1>1 DEF Rest, In, NoTx
<1>3. Idle(d, t, ch, al, up)
  BY <1>1, <1>2 DEF Idle, Uniform
<1>4. QED
  BY <1>1, <1>3 DEF d, Sound, Live

LEMMA ReconnectStep ==
    ASSUME Inv, NEW s \in Sessions, Reconnect(s)
    PROVE  Inv'
<1> DEFINE d == NewChild(child[s].count)
<1>1. child[s] \in Children /\ Up \subseteq Nodes /\ chan[s] \in [Nodes -> Channels]
      /\ chan = [chan EXCEPT ![s] = chan[s]]
  BY SessionTypes
<1>2. child[s].count \in Nat
  BY <1>1 DEF Children
<1>3. /\ child' = [child EXCEPT ![s] = d] /\ chan' = [chan EXCEPT ![s] = chan[s]]
      /\ UNCHANGED <<alive, tx, seq, faulty, down>> /\ Up # {}
      /\ \A n \in Nodes : tx[s][n] = NoTx /\ chan[s][n] = Empty
  BY <1>1 DEF Reconnect, pgVars, ghosts
<1>4. d \in Children /\ Sound(d, tx[s], chan[s], alive, faulty, Up)
  BY <1>1, <1>2, <1>3, NewSession
<1> HIDE DEF d
<1>5. QED
  BY <1>1, <1>3, <1>4, ChildStep

-----------------------------------------------------------------------------
(* The invariant holds.                                                    *)

LEMMA Unchanged ==
    ASSUME Inv, UNCHANGED <<alive, tx, seq, faulty, down, child, chan>>
    PROVE  Inv'
BY DEF Inv, Shapes, Up

LEMMA InitInv == Init => Inv
<1>1. SUFFICES ASSUME Init PROVE Inv
  OBVIOUS
<1>2. 0 \in Nodes /\ Up = Nodes /\ 0 \in Nat
  BY <1>1, ReplicationAssumption DEF Init, Up, Nodes
<1>3. NoTx \in TxRecs /\ Empty \in Channels
  BY TxFacts DEF Channels
<1>4. NewChild(0) \in Children
  BY <1>2, NewChildFacts
<1>5. Shapes
  BY <1>1, <1>2, <1>3, <1>4 DEF Init, Shapes
<1>6. ASSUME NEW s \in Sessions
      PROVE  Sound(child[s], tx[s], chan[s], alive, faulty, Up)
  <2>1. child[s] = NewChild(0) /\ \A n \in Nodes : tx[s][n] = NoTx /\ chan[s][n] = Empty
    BY <1>1 DEF Init
  <2>2. QED
    BY <1>2, <2>1, NewSession
<1>7. QED
  BY <1>5, <1>6 DEF Inv

LEMMA ChildActions ==
    ASSUME Inv, NEW s \in Sessions, Child(s)
    PROVE  Inv'
BY SimpleQueryStep, do_commandStep, RepliedStep, SendStep, WaitStep, LostStep, CommandCompleteStep,
   ErrorResponseStep, TuplesMismatchStep, ReadyForQueryStep, KillStep, ReconnectStep DEF Child

LEMMA NextInv == Inv /\ [Next]_vars => Inv'
<1>1. SUFFICES ASSUME Inv, [Next]_vars PROVE Inv'
  OBVIOUS
<1>2. CASE Next
  <2>1. ASSUME NEW n \in Nodes, health_check(n) PROVE Inv'
    <3>1. UNCHANGED <<alive, tx, seq, faulty, down, child, chan>>
      BY <2>1 DEF health_check, pgVars, ghosts
    <3>2. QED
      BY <1>1, <3>1, Unchanged
  <2>2. QED
    BY <1>1, <1>2, <2>1, BackendStep, ChildActions, CrashStep, FailoverStep DEF Next
<1>3. CASE UNCHANGED vars
  <2>1. UNCHANGED <<alive, tx, seq, faulty, down, child, chan>>
    BY <1>3 DEF vars
  <2>2. QED
    BY <1>1, <2>1, Unchanged
<1>4. QED
  BY <1>1, <1>2, <1>3

\* What every session knows of its backends, and they of it.
THEOREM Discipline == Spec => []Inv
BY InitInv, NextInv, PTL DEF Spec

\* Between statements every node in service is in the state that TSTATE says,
\* and so all are in the same one, whatever faults have happened: the failed
\* SELECT that only the master saw and the rows that only some nodes found
\* included (raise_intentional_error_if_need, do_error_command).
THEOREM StatesAgreeSafe == Spec => []StatesAgree
<1>1. Inv => StatesAgree
  <2>1. SUFFICES ASSUME Inv, NEW s \in Sessions, child[s].pc = "idle", NEW n \in Serving, NEW m \in Serving
                 PROVE  child[s].tstate[n] = tx[s][n].st /\ tx[s][n].st = tx[s][m].st
    BY DEF StatesAgree
  <2>2. Sound(child[s], tx[s], chan[s], alive, faulty, Up) /\ n \in Up /\ m \in Up /\ n \in alive /\ m \in alive
    BY <2>1, SessionTypes DEF Serving
  <2>3. Idle(child[s], tx[s], chan[s], alive, Up)
    BY <2>1, <2>2 DEF Sound, Live
  <2>4. QED
    BY <2>2, <2>3 DEF Idle, Uniform, Rest, In
<1>2. QED
  BY <1>1, Discipline, PTL

-----------------------------------------------------------------------------
(* Who is suspected.                                                       *)

\* Only two steps suspect anyone.
LEMMA SuspectedSteps ==
    ASSUME Inv, [Next]_vars
    PROVE  \/ suspected' = suspected /\ faulty \subseteq faulty' /\ down \subseteq down'
           \/ \E s \in Sessions : read_kind_mismatch(s) \/ tuples_mismatch(s)
<1> DEFINE Same == suspected' = suspected /\ faulty \subseteq faulty' /\ down \subseteq down'
<1>1. ASSUME NEW s \in Sessions, NEW n \in Nodes, Backend(s, n) PROVE Same
  BY <1>1 DEF Backend, pg_begin, pg_end, pg_error, pg_select, pg_update, pg_insert, pg_lock, Write,
              pg_local_error, pg_drift, pg_deadlock, pg_disconnect, Answer, ghosts
<1>2. ASSUME NEW s \in Sessions, Child(s)
      PROVE  Same \/ read_kind_mismatch(s) \/ tuples_mismatch(s)
  <2>1. ASSUME NEW n \in Nodes, Replied(s, n, chan[s][n]) PROVE Same
    BY <2>1 DEF Replied, start_internal_transaction, insert_lock_master, insert_lock_other,
                do_error_command, end_internal_transaction, ghosts
  <2>2. ASSUME \/ \E st \in Statements[s], b \in Nodes : SimpleQuery(s, st, b)
               \/ do_command(s)
               \/ \E n \in Nodes : backend_lost(s, n)
               \/ pool_send_and_wait_send(s) \/ pool_send_and_wait_wait(s)
               \/ wait_for_query_response_fails(s)
        PROVE  Same
    BY <2>2, ZenonT(40) DEF SimpleQuery, do_command, backend_lost, pool_send_and_wait_send,
                pool_send_and_wait_wait, wait_for_query_response_fails, ghosts
  <2>3. ASSUME CommandComplete(s) \/ ErrorResponse3(s) \/ ReadyForQuery(s) \/ Kill(s) \/ Reconnect(s)
        PROVE  Same
    BY <2>3 DEF CommandComplete, ErrorResponse3, ReadyForQuery, Kill, Reconnect, ghosts
  <2>4. QED
    BY <1>2, <2>1, <2>2, <2>3 DEF Child
<1>3. ASSUME Failover \/ (\E n \in Nodes : Crash(n) \/ health_check(n)) \/ UNCHANGED vars
      PROVE  Same
  BY <1>3, SMTT(30) DEF Failover, Crash, health_check, ghosts, vars
<1>4. QED
  BY <1>1, <1>2, <1>3 DEF Next

\* Replies of different kinds: some node answered in its own way.
LEMMA KindsDiffer ==
    ASSUME Inv, LockSafe, NEW s \in Sessions, AllReplied(s), ~Agree(s)
    PROVE  /\ child[s].where = Up /\ Up \subseteq Nodes
           /\ Least(Up) \in Up
           /\ \E k : /\ \A n \in Up \ faulty : chan[s][n].kind = k
                     /\ \E n \in Up : chan[s][n].kind # k
<1> DEFINE c == child[s]
           ch == chan[s]
<1>1. Answered(s, c, ch)
  BY AnsweredFacts
<1>2. /\ c \in Children /\ Runs(c, tx[s], ch, alive, faulty, Up) /\ Up \subseteq Nodes
      /\ Least(c.where) \in c.where /\ Least(Up) \in Up /\ c.where \subseteq Up
      /\ \A n \in c.where : Fair(n, c.stmt, c.tstate[n], ch[n], faulty) /\ ~ch[n].dead
  BY <1>1 DEF Answered
<1>3. ~ \E k : \A n \in c.where : ch[n].kind = k
  <2>1. SUFFICES ASSUME NEW k, \A n \in c.where : ch[n].kind = k PROVE FALSE
    OBVIOUS
  <2>2. {ch[n].kind : n \in c.where} = {k}
    BY <1>2, <2>1
  <2>3. Cardinality({ch[n].kind : n \in c.where}) = 1
    BY <2>2, FS_Singleton
  <2>4. QED
    BY <2>3 DEF Agree
<1>4. c.where = Up
  <2>1. ~ \E b \in Up : c.where = {b}
    BY <1>3
  <2>2. QED
    BY <1>2, <2>1 DEF Runs, Single, Internal
<1>5. Uniform(c, Up)
  BY <1>2 DEF Runs, Single
<1> DEFINE k == Kind(c.stmt, c.tstate[Least(Up)])
<1>6. \A n \in Up \ faulty : ch[n].kind = k
  <2>1. SUFFICES ASSUME NEW n \in Up \ faulty PROVE ch[n].kind = k
    OBVIOUS
  <2>2. ch[n].kind = Kind(c.stmt, c.tstate[n]) /\ c.tstate[n] = c.tstate[Least(Up)]
    BY <1>2, <1>4, <1>5 DEF Fair, Uniform
  <2>3. QED
    BY <2>2
<1>7. \E n \in Up : ch[n].kind # k
  BY <1>3, <1>4
<1> HIDE DEF k
<1>8. QED
  BY <1>2, <1>4, <1>6, <1>7

\* Different numbers of rows: likewise.
LEMMA TuplesDiffer ==
    ASSUME Inv, NEW s \in Sessions, tuples_mismatch(s)
    PROVE  /\ child[s].where = Up /\ Up \subseteq Nodes /\ child[s].ntuples \in [Nodes -> {-1, 0, 1}]
           /\ Least(Up) \in Up
           /\ \A n \in Up : child[s].ntuples[n] \in {0, 1}
           /\ \A n \in Up \ faulty : child[s].ntuples[n] = 1
           /\ \E n \in Up : child[s].ntuples[n] # 1
<1>1. child[s].pc = "ready" /\ child[s].mismatch
  BY DEF tuples_mismatch
<1>2. child[s] \in Children /\ Sound(child[s], tx[s], chan[s], alive, faulty, Up) /\ Up \subseteq Nodes
  BY SessionTypes
<1>3. Completes(child[s], tx[s], chan[s], alive, faulty, Up) /\ Up # {}
  BY <1>1, <1>2 DEF Sound, Live
<1>4. Least(Up) \in Up
  BY <1>2, <1>3, LeastFacts
<1>5. QED
  BY <1>1, <1>2, <1>3, <1>4 DEF Completes, Children

LEMMA NoFalseMismatchStep ==
    ASSUME Inv, LockSafe, NoFalseMismatch, [Next]_vars
    PROVE  NoFalseMismatch'
<1>1. CASE suspected' = suspected /\ faulty \subseteq faulty'
  BY <1>1 DEF NoFalseMismatch
<1>2. ASSUME NEW s \in Sessions, read_kind_mismatch(s) PROVE NoFalseMismatch'
  <2>1. faulty' = faulty /\ AllReplied(s) /\ ~Agree(s)
    BY <1>2 DEF read_kind_mismatch
  <2>2. faulty # {}
    BY <2>1, KindsDiffer
  <2>3. QED
    BY <2>1, <2>2 DEF NoFalseMismatch
<1>3. ASSUME NEW s \in Sessions, tuples_mismatch(s) PROVE NoFalseMismatch'
  <2>1. faulty' = faulty
    BY <1>3 DEF tuples_mismatch
  <2>2. faulty # {}
    BY <1>3, TuplesDiffer
  <2>3. QED
    BY <2>1, <2>2 DEF NoFalseMismatch
<1>4. QED
  BY <1>1, <1>2, <1>3, SuspectedSteps

\* Nodes are found to disagree only after some node has answered a statement in
\* its own way: an error that one node alone was bound to report does not come
\* back as a mismatch of the others.  insert_lock's lock on a row overlooks a
\* deadlock, hence the hypothesis.
THEOREM NoFalseMismatchSafe ==
    ASSUME LockSafe
    PROVE  Spec => []NoFalseMismatch
<1>1. Init => NoFalseMismatch
  BY DEF Init, NoFalseMismatch
<1>2. Inv /\ NoFalseMismatch /\ [Next]_vars => NoFalseMismatch'
  BY NoFalseMismatchStep
<1>3. QED
  BY <1>1, <1>2, Discipline, PTL DEF Spec

-----------------------------------------------------------------------------
(* The votes.                                                              *)

LEMMA NodesFacts ==
    ASSUME NEW f \in Nodes
    PROVE  /\ IsFiniteSet(Nodes) /\ Cardinality(Nodes) = N /\ N \in Nat
           /\ IsFiniteSet(Nodes \ {f}) /\ Cardinality(Nodes \ {f}) = N - 1
<1>1. N \in Nat /\ N > 0
  BY ReplicationAssumption
<1>2. IsFiniteSet(0 .. N - 1) /\ Cardinality(0 .. N - 1) = IF 0 > N - 1 THEN 0 ELSE N - 1 - 0 + 1
  BY <1>1, FS_Interval
<1>3. IsFiniteSet(Nodes) /\ Cardinality(Nodes) = N
  BY <1>1, <1>2 DEF Nodes
<1>4. IsFiniteSet(Nodes \ {f}) /\ Cardinality(Nodes \ {f}) = Cardinality(Nodes) - 1
  BY <1>3, FS_RemoveElement
<1>5. QED
  BY <1>1, <1>3, <1>4

\* One node against all the others.
LEMMA VoteFacts ==
    ASSUME NEW f \in Nodes, NEW g, NEW k, g[f] # k, \A n \in Nodes \ {f} : g[n] = k
    PROVE  Votes(g, Nodes, f) = 1 /\ \A n \in Nodes \ {f} : Votes(g, Nodes, n) = N - 1
<1>1. {m \in Nodes : g[m] = g[f]} = {f}
  OBVIOUS
<1>2. \A n \in Nodes \ {f} : {m \in Nodes : g[m] = g[n]} = Nodes \ {f}
  OBVIOUS
<1>3. Votes(g, Nodes, f) = 1
  BY <1>1, FS_Singleton DEF Votes
<1>4. \A n \in Nodes \ {f} : Votes(g, Nodes, n) = N - 1
  BY <1>2, NodesFacts DEF Votes
<1>5. QED
  BY <1>3, <1>4

LEMMA MaxFacts ==
    ASSUME NEW S, NEW k \in S, S \subseteq Int, \A j \in S : j <= k
    PROVE  MaxOf(S) = k
<1>1. \A i \in S : (\A j \in S : j <= i) => i = k
  OBVIOUS
<1>2. QED
  BY <1>1 DEF MaxOf

\* read_kind_from_backend finds the one that differs.
LEMMA KindMinority ==
    ASSUME N >= 3, NEW f \in Nodes, NEW g, NEW k, NEW m \in Nodes,
           g[f] # k, \A n \in Nodes \ {f} : g[n] = k
    PROVE  KindVictims(g, Nodes, m) \subseteq {f}
<1>1. N \in Nat
  BY NodesFacts
<1>2. Votes(g, Nodes, f) = 1 /\ \A n \in Nodes \ {f} : Votes(g, Nodes, n) = N - 1
  BY VoteFacts
<1> DEFINE V == {Votes(g, Nodes, n) : n \in Nodes}
           mx == MaxOf(V)
           w == CHOOSE n \in Nodes : Votes(g, Nodes, n) = mx
<1>3. PICK a \in Nodes : a # f
  <2>1. 0 \in Nodes /\ 1 \in Nodes
    BY <1>1 DEF Nodes
  <2>2. QED
    BY <2>1
<1>4. mx = N - 1
  <2>1. N - 1 \in V
    BY <1>2, <1>3
  <2>2. V \subseteq Int /\ \A j \in V : j <= N - 1
    BY <1>1, <1>2
  <2> HIDE DEF V
  <2>3. QED
    BY <2>1, <2>2, MaxFacts
<1> HIDE DEF mx
<1>5. \E n \in Nodes : Votes(g, Nodes, n) = mx
  BY <1>2, <1>3, <1>4
<1>6. w \in Nodes /\ Votes(g, Nodes, w) = mx
  BY <1>5
<1>7. g[w] = k
  BY <1>1, <1>2, <1>4, <1>6
<1>8. ~(2 * mx <= N)
  BY <1>1, <1>4
<1>9. trust_kind(g, Nodes, m) = k
  BY <1>7, <1>8 DEF trust_kind, mx
<1>10. QED
  BY <1>9 DEF KindVictims

\* find_victim_nodes does, too.
LEMMA TuplesMinority ==
    ASSUME N >= 3, NEW f \in Nodes, NEW g, NEW m \in Nodes,
           g[f] = 0, \A n \in Nodes \ {f} : g[n] = 1
    PROVE  find_victim_nodes(g, m) \subseteq {f}
<1>1. N \in Nat /\ IsFiniteSet(Nodes) /\ Cardinality(Nodes \ {f}) = N - 1
  BY NodesFacts
<1>2. Votes(g, Nodes, f) = 1 /\ \A n \in Nodes \ {f} : Votes(g, Nodes, n) = N - 1
  BY VoteFacts
<1> DEFINE S == {n \in Nodes : g[n] >= 0}
           shared == {n \in S : Votes(g, S, n) > 1}
           V == {Votes(g, S, n) : n \in shared}
           maxvotes == IF shared = {} THEN 0 ELSE MaxOf(V)
           top == {n \in S : Votes(g, S, n) = maxvotes}
           majority == IF 2 * Cardinality(top) <= Cardinality(S) THEN g[m] ELSE g[Least(top)]
<1>3. find_victim_nodes(g, m) = {n \in S : g[n] # majority}
  BY DEF find_victim_nodes
<1>4. S = Nodes
  OBVIOUS
<1>5. PICK a \in Nodes : a # f
  <2>1. 0 \in Nodes /\ 1 \in Nodes
    BY <1>1 DEF Nodes
  <2>2. QED
    BY <2>1
<1> HIDE DEF S
<1>6. shared = Nodes \ {f}
  BY <1>1, <1>2, <1>4
<1>7. maxvotes = N - 1
  <2>1. N - 1 \in V
    BY <1>2, <1>4, <1>5, <1>6
  <2>2. V \subseteq Int /\ \A j \in V : j <= N - 1
    BY <1>1, <1>2, <1>4, <1>6
  <2>3. maxvotes = MaxOf(V)
    BY <1>5, <1>6
  <2> HIDE DEF V, maxvotes
  <2>4. QED
    BY <2>1, <2>2, <2>3, MaxFacts
<1> HIDE DEF maxvotes
<1>8. top = Nodes \ {f}
  BY <1>1, <1>2, <1>4, <1>7
<1> HIDE DEF top
<1>9. Cardinality(top) = N - 1 /\ Cardinality(S) = N
  BY <1>1, <1>4, <1>8, NodesFacts
<1>10. Least(top) \in top
  BY <1>5, <1>8, LeastFacts
<1>11. majority = 1
  BY <1>1, <1>8, <1>9, <1>10
<1> HIDE DEF majority
<1>12. QED
  BY <1>3, <1>4, <1>11

LEMMA MinorityStep ==
    ASSUME Inv, Inv', LockSafe, NoFalseMismatch, MinorityLoses, [Next]_vars
    PROVE  MinorityLoses'
<1>1. SUFFICES ASSUME N >= 3, Cardinality(faulty') = 1, down' = {} PROVE suspected' \subseteq faulty'
  BY DEF MinorityLoses
<1>2. faulty \subseteq Nodes /\ faulty' \subseteq Nodes /\ IsFiniteSet(faulty')
  <2>1. faulty \subseteq Nodes /\ faulty' \subseteq Nodes
    BY DEF Inv, Shapes
  <2>2. IsFiniteSet(Nodes)
    BY ReplicationAssumption, FS_Interval DEF Nodes
  <2>3. QED
    BY <2>1, <2>2, FS_Subset
<1>3. PICK f : faulty' = {f}
  BY <1>1, <1>2, FS_Singleton
<1>4. CASE suspected' = suspected /\ faulty \subseteq faulty' /\ down \subseteq down'
  <2>1. CASE faulty = {}
    BY <1>4, <2>1 DEF NoFalseMismatch
  <2>2. CASE faulty # {}
    <3>1. faulty = faulty' /\ down = {}
      BY <1>1, <1>3, <1>4, <2>2
    <3>2. QED
      BY <1>1, <1>4, <3>1 DEF MinorityLoses
  <2>3. QED
    BY <2>1, <2>2
<1>5. ASSUME NEW s \in Sessions, read_kind_mismatch(s) PROVE suspected' \subseteq faulty'
  <2> DEFINE W == child[s].where
             V == KindVictims(KindsOf(s), W, Least(W))
  <2>1. /\ faulty' = faulty /\ AllReplied(s) /\ ~Agree(s) /\ down' = down
        /\ suspected' = suspected \cup V
    BY <1>5 DEF read_kind_mismatch, MASTER_NODE_ID
  <2>2. down = {} /\ Up = Nodes /\ faulty = {f} /\ f \in Nodes
    BY <1>1, <1>2, <1>3, <2>1 DEF Up
  <2>3. W = Nodes /\ Least(W) \in Nodes
    BY <2>1, <2>2, KindsDiffer
  <2>4. PICK k : (\A n \in Nodes \ {f} : chan[s][n].kind = k) /\ \E n \in Nodes : chan[s][n].kind # k
    BY <2>1, <2>2, KindsDiffer
  <2> DEFINE g == KindsOf(s)
  <2>5. \A n \in Nodes : g[n] = chan[s][n].kind
    BY <2>3 DEF KindsOf
  <2>6. g[f] # k /\ \A n \in Nodes \ {f} : g[n] = k
    BY <2>2, <2>4, <2>5
  <2> HIDE DEF g, W
  <2>7. KindVictims(g, Nodes, Least(W)) \subseteq {f}
    BY <1>1, <2>2, <2>3, <2>6, KindMinority
  <2>8. V \subseteq {f}
    BY <2>3, <2>7 DEF g, W
  <2>9. suspected \subseteq faulty
    BY <1>1, <2>1, <2>2 DEF MinorityLoses
  <2>10. QED
    BY <1>3, <2>1, <2>8, <2>9
<1>6. ASSUME NEW s \in Sessions, tuples_mismatch(s) PROVE suspected' \subseteq faulty'
  <2> DEFINE W == child[s].where
             g == child[s].ntuples
             V == find_victim_nodes(g, Least(W))
  <2>1. faulty' = faulty /\ down' = down /\ suspected' = suspected \cup V
    BY <1>6 DEF tuples_mismatch, MASTER_NODE_ID
  <2>2. down = {} /\ Up = Nodes /\ faulty = {f} /\ f \in Nodes
    BY <1>1, <1>2, <1>3, <2>1 DEF Up
  <2>3. /\ W = Nodes /\ Least(W) \in Nodes
        /\ \A n \in Nodes : g[n] \in {0, 1}
        /\ \A n \in Nodes \ {f} : g[n] = 1
        /\ \E n \in Nodes : g[n] # 1
    BY <1>6, <2>2, TuplesDiffer
  <2> HIDE DEF g, W
  <2>4. g[f] = 0
    BY <2>2, <2>3
  <2>5. V \subseteq {f}
    BY <1>1, <2>2, <2>3, <2>4, TuplesMinority
  <2>6. suspected \subseteq faulty
    BY <1>1, <2>1, <2>2 DEF MinorityLoses
  <2>7. QED
    BY <1>3, <2>1, <2>5, <2>6
<1>7. QED
  BY <1>4, <1>5, <1>6, SuspectedSteps

\* When one node out of three or more has answered in its own way, only that node
\* is found to disagree, even if it is the master: the votes of
\* read_kind_from_backend and of find_victim_nodes come out against it.
THEOREM MinorityLosesSafe ==
    ASSUME LockSafe
    PROVE  Spec => []MinorityLoses
<1>1. Init => MinorityLoses
  BY DEF Init, MinorityLoses
<1>2. Inv /\ Inv' /\ NoFalseMismatch /\ MinorityLoses /\ [Next]_vars => MinorityLoses'
  BY MinorityStep
<1>3. Spec => []NoFalseMismatch
  BY NoFalseMismatchSafe
<1>4. QED
  BY <1>1, <1>2, <1>3, Discipline, PTL DEF Spec

-----------------------------------------------------------------------------
(* What has been written.                                                  *)

LEMMA IdsFacts ==
    /\ IdsOf(<<>>) = {}
    /\ \A w \in Seq(Entries), e \in Entries :
          Append(w, e) \in Seq(Entries) /\ IdsOf(Append(w, e)) = IdsOf(w) \cup {e.id}
    /\ \A w, v \in Seq(Entries) : w \o v \in Seq(Entries) /\ IdsOf(w \o v) = IdsOf(w) \cup IdsOf(v)
<1>1. IdsOf(<<>>) = {}
  BY DEF IdsOf
<1>2. ASSUME NEW w \in Seq(Entries), NEW e \in Entries
      PROVE  Append(w, e) \in Seq(Entries) /\ IdsOf(Append(w, e)) = IdsOf(w) \cup {e.id}
  <2> DEFINE a == Append(w, e)
  <2>1. /\ a \in Seq(Entries) /\ Len(a) = Len(w) + 1 /\ a[Len(w) + 1] = e
        /\ \A i \in 1 .. Len(w) : a[i] = w[i]
    OBVIOUS
  <2> HIDE DEF a
  <2>2. DOMAIN a = 1 .. Len(a) /\ DOMAIN w = 1 .. Len(w) /\ Len(w) \in Nat
    BY <2>1
  <2>3. IdsOf(a) \subseteq IdsOf(w) \cup {e.id}
    <3>1. SUFFICES ASSUME NEW i \in 1 .. Len(a) PROVE a[i].id \in IdsOf(w) \cup {e.id}
      BY <2>2 DEF IdsOf
    <3>2. CASE i = Len(w) + 1
      BY <2>1, <3>2
    <3>3. CASE i # Len(w) + 1
      <4>1. i \in 1 .. Len(w)
        BY <2>1, <2>2, <3>3
      <4>2. QED
        BY <2>1, <2>2, <4>1 DEF IdsOf
    <3>4. QED
      BY <3>2, <3>3
  <2>4. IdsOf(w) \cup {e.id} \subseteq IdsOf(a)
    <3>1. \A i \in 1 .. Len(w) : w[i].id \in IdsOf(a)
      BY <2>1, <2>2 DEF IdsOf
    <3>2. e.id \in IdsOf(a)
      BY <2>1, <2>2 DEF IdsOf
    <3>3. QED
      BY <2>2, <3>1, <3>2 DEF IdsOf
  <2>5. QED
    BY <2>1, <2>3, <2>4 DEF a
<1>3. ASSUME NEW w \in Seq(Entries), NEW v \in Seq(Entries)
      PROVE  w \o v \in Seq(Entries) /\ IdsOf(w \o v) = IdsOf(w) \cup IdsOf(v)
  <2> DEFINE a == w \o v
  <2>1. /\ a \in Seq(Entries) /\ Len(a) = Len(w) + Len(v)
        /\ \A i \in 1 .. Len(w) : a[i] = w[i]
        /\ \A i \in 1 .. Len(v) : a[Len(w) + i] = v[i]
    OBVIOUS
  <2> HIDE DEF a
  <2>2. DOMAIN a = 1 .. Len(a) /\ DOMAIN w = 1 .. Len(w) /\ DOMAIN v = 1 .. Len(v)
        /\ Len(w) \in Nat /\ Len(v) \in Nat
    BY <2>1
  <2>3. IdsOf(a) \subseteq IdsOf(w) \cup IdsOf(v)
    <3>1. SUFFICES ASSUME NEW i \in 1 .. Len(a) PROVE a[i].id \in IdsOf(w) \cup IdsOf(v)
      BY <2>2 DEF IdsOf
    <3>2. CASE i \in 1 .. Len(w)
      BY <2>1, <2>2, <3>2 DEF IdsOf
    <3>3. CASE i \notin 1 .. Len(w)
      <4>1. i - Len(w) \in 1 .. Len(v) /\ Len(w) + (i - Len(w)) = i
        BY <2>1, <2>2, <3>3
      <4>2. a[i] = v[i - Len(w)]
        BY <2>1, <4>1
      <4>3. QED
        BY <2>2, <4>1, <4>2 DEF IdsOf
    <3>4. QED
      BY <3>2, <3>3
  <2>4. IdsOf(w) \cup IdsOf(v) \subseteq IdsOf(a)
    <3>1. \A i \in 1 .. Len(w) : w[i].id \in IdsOf(a)
      <4>1. \A i \in 1 .. Len(w) : i \in 1 .. Len(a)
        BY <2>1, <2>2
      <4>2. QED
        BY <2>1, <2>2, <4>1 DEF IdsOf
    <3>2. \A i \in 1 .. Len(v) : v[i].id \in IdsOf(a)
      <4>1. \A i \in 1 .. Len(v) : Len(w) + i \in 1 .. Len(a)
        BY <2>1, <2>2
      <4>2. QED
        BY <2>1, <2>2, <4>1 DEF IdsOf
    <3>3. QED
      BY <2>2, <3>1, <3>2 DEF IdsOf
  <2>5. QED
    BY <2>1, <2>3, <2>4 DEF a
<1>4. QED
  BY <1>1, <1>2, <1>3

\* What is under way in a session that is not over.
LEMMA LiveAsked ==
    ASSUME Inv, NEW s \in Sessions, NEW n \in Nodes, chan[s][n].is = "request",
           child[s].pc # "exit", ~child[s].doomed
    PROVE  /\ child[s].pc \in {"send", "wait", "reply"} => chan[s][n].q = child[s].stmt
           /\ chan[s][n].q = "rollback" => child[s].stmt = "rollback"
<1> DEFINE c == child[s]
           t == tx[s]
           ch == chan[s]
<1>1. c \in Children /\ Live(c, t, ch, alive, faulty, Up) /\ Up \subseteq Nodes
  BY SessionTypes DEF Sound
<1>2. n \in Up /\ ch[n] # Empty
  BY <1>1 DEF Live, Empty
<1>3. CASE c.pc = "idle"
  BY <1>1, <1>2, <1>3 DEF Live, Idle, Rest
<1>4. CASE c.pc = "begin"
  <2>1. Begins(c, t, ch, alive, faulty, Up)
    BY <1>1, <1>4 DEF Live
  <2>2. n \in c.todo
    BY <1>2, <2>1 DEF Begins, Rest
  <2>3. Ask(n, "begin", "I", t[n], ch[n], alive, faulty)
    BY <2>1, <2>2 DEF Begins
  <2>4. QED
    BY <1>4, <2>3 DEF Ask
<1>5. CASE c.pc = "lock"
  <2>1. Locks(c, t, ch, alive, faulty, Up)
    BY <1>1, <1>5 DEF Live
  <2>2. CASE LocksMaster(c, t, ch, alive, faulty, Up)
    <3>1. n \in c.todo
      BY <1>2, <2>2 DEF LocksMaster, Rest
    <3>2. ch[n].q \in LockQueries
      BY <2>2, <3>1 DEF LocksMaster, Ask, LockQueries
    <3>3. QED
      BY <1>5, <3>2 DEF LockQueries
  <2>3. CASE LocksOthers(c, t, ch, alive, faulty, Up)
    <3>1. n \in c.todo
      BY <1>2, <2>3 DEF LocksOthers, Rest
    <3>2. ch[n].q \in {"error", "lock"}
      BY <2>3, <3>1 DEF LocksOthers, Ask
    <3>3. QED
      BY <1>5, <3>2
  <2>4. QED
    BY <2>1, <2>2, <2>3 DEF Locks
<1>6. CASE c.pc \in {"send", "wait", "reply"}
  <2>1. Runs(c, t, ch, alive, faulty, Up)
    BY <1>1, <1>6 DEF Live
  <2>2. n \in c.where
    BY <1>2, <2>1 DEF Runs, Rest
  <2>3. Ask(n, c.stmt, c.tstate[n], t[n], ch[n], alive, faulty)
    BY <2>1, <2>2 DEF Runs
  <2>4. QED
    BY <1>6, <2>3 DEF Ask
<1>7. CASE c.pc = "ready"
  <2>1. Completes(c, t, ch, alive, faulty, Up)
    BY <1>1, <1>7 DEF Live
  <2>2. QED
    BY <1>2, <2>1 DEF Completes, Rest, Readied
<1>8. CASE c.pc \in {"sync", "abort"}
  <2>1. Errs(c, t, ch, alive, faulty, Up)
    BY <1>1, <1>8 DEF Live
  <2>2. n \in c.todo
    BY <1>2, <2>1 DEF Errs, Readied
  <2>3. Ask(n, "error", "T", t[n], ch[n], alive, faulty)
    BY <2>1, <2>2 DEF Errs
  <2>4. QED
    BY <1>8, <2>3 DEF Ask
<1>9. CASE c.pc = "commit"
  <2>1. Commits(c, t, ch, alive, faulty, Up)
    BY <1>1, <1>9 DEF Live
  <2>2. n \in c.todo
    BY <1>2, <2>1 DEF Commits, Readied
  <2>3. PICK st \in TxStates : Ask(n, "commit", st, t[n], ch[n], alive, faulty)
    BY <2>1, <2>2 DEF Commits
  <2>4. QED
    BY <1>9, <2>3 DEF Ask
<1>10. QED
  BY <1>1, <1>3, <1>4, <1>5, <1>6, <1>7, <1>8, <1>9 DEF Children, Places

\* Nothing that is on a node leaves it.
LEMMA RecordedGrows ==
    ASSUME NEW s, NEW c, NEW x, NEW y, NEW l, NEW l2, IdsOf(l) \subseteq IdsOf(l2),
           Recorded(s, c, x, y, l)
    PROVE  Recorded(s, c, x, y, l2)
<1>1. Has(x, l) \subseteq Has(x, l2)
  BY DEF Has
<1>2. QED
  BY <1>1 DEF Recorded

LEMMA BackendRecords ==
    ASSUME Inv, Written, NEW s \in Sessions, NEW n \in Nodes, NEW x2 \in TxRecs, NEW y2, NEW l2,
           Stepped(s, n, x2, y2, l2), IdsOf(log[n]) \subseteq IdsOf(l2),
           x2.st # "T" => x2.w = <<>>,
           ~AllDrifted /\ child[s].pc # "exit" /\ ~child[s].doomed
                /\ Recorded(s, child[s], tx[s][n], chan[s][n], log[n])
              => Recorded(s, child[s], x2, y2, l2)
    PROVE  Written'
<1>1. /\ tx \in [Sessions -> [Nodes -> TxRecs]] /\ chan \in [Sessions -> [Nodes -> Channels]]
  BY DEF Inv, Shapes
<1>2. /\ tx' = [tx EXCEPT ![s][n] = x2] /\ chan' = [chan EXCEPT ![s][n] = y2]
      /\ log' \in [Nodes -> Seq(Entries)] /\ log'[n] = l2
      /\ \A m \in Nodes \ {n} : log'[m] = log[m]
      /\ UNCHANGED <<alive, down, child, acked>> /\ faulty \subseteq faulty'
  BY DEF Stepped
<1>3. Up' = Up /\ Serving' = Serving /\ Serving \subseteq Nodes /\ (AllDrifted => AllDrifted')
  BY <1>2 DEF Up, Serving, AllDrifted
<1>4. \A m \in Nodes : IdsOf(log[m]) \subseteq IdsOf(log'[m])
  BY <1>2
<1>5. ASSUME NEW o \in Sessions, NEW m \in Nodes, ~(o = s /\ m = n)
      PROVE  tx'[o][m] = tx[o][m] /\ chan'[o][m] = chan[o][m]
  BY <1>1, <1>2, <1>5
<1>6. tx'[s][n] = x2 /\ chan'[s][n] = y2
  BY <1>1, <1>2
<1>7. ASSUME NEW o \in Sessions
      PROVE  NothingOpen(tx'[o])
  <2>1. NothingOpen(tx[o])
    BY DEF Written
  <2>2. \A m \in Nodes : tx'[o][m].st # "T" => tx'[o][m].w = <<>>
    BY <1>5, <1>6, <2>1 DEF NothingOpen
  <2>3. QED
    BY <2>2 DEF NothingOpen
<1>8. ASSUME NEW o \in Sessions, ~AllDrifted
      PROVE  Records(o, child[o], tx'[o], chan'[o], log', Serving, Least(Up))
  <2>1. SUFFICES ASSUME child[o].pc # "exit", ~child[o].doomed
                 PROVE  Records(o, child[o], tx'[o], chan'[o], log', Serving, Least(Up))
    BY DEF Records
  <2>2. Records(o, child[o], tx[o], chan[o], log, Serving, Least(Up))
    BY <1>8 DEF Written
  <2>3. ASSUME NEW m \in Serving
        PROVE  Recorded(o, child[o], tx'[o][m], chan'[o][m], log'[m])
    <3>1. m \in Nodes /\ Recorded(o, child[o], tx[o][m], chan[o][m], log[m])
      BY <1>3, <2>1, <2>2 DEF Records
    <3>2. CASE o = s /\ m = n
      <4>1. Recorded(s, child[s], x2, y2, l2)
        BY <1>8, <2>1, <3>1, <3>2
      <4>2. QED
        BY <1>2, <1>6, <3>2, <4>1
    <3>3. CASE ~(o = s /\ m = n)
      <4>1. tx'[o][m] = tx[o][m] /\ chan'[o][m] = chan[o][m]
        BY <1>5, <3>1, <3>3
      <4>2. QED
        BY <1>4, <3>1, <4>1, RecordedGrows
    <3>4. QED
      BY <3>2, <3>3
  <2>4. QED
    BY <2>2, <2>3 DEF Records
<1>9. ~AllDrifted => AckedEverywhere'
  <2>1. SUFFICES ASSUME ~AllDrifted, NEW m \in Serving PROVE acked \subseteq IdsIn(m)'
    BY <1>2, <1>3 DEF AckedEverywhere
  <2>2. acked \subseteq IdsIn(m)
    BY <2>1 DEF Written, AckedEverywhere
  <2>3. IdsIn(m) = IdsOf(log[m]) /\ IdsIn(m)' = IdsOf(log'[m])
    BY DEF IdsIn, IdsOf
  <2>4. QED
    BY <1>3, <1>4, <2>2, <2>3
<1>10. \A o \in Sessions :
         NothingOpen(tx'[o]) /\ (AllDrifted' \/ Records(o, child'[o], tx'[o], chan'[o], log', Serving', Least(Up')))
  BY <1>2, <1>3, <1>7, <1>8
<1>11. QED
  BY <1>2, <1>3, <1>9, <1>10 DEF Written

\* An error says by itself that nothing may be left of the transaction.
LEMMA ErrorRecords ==
    ASSUME Inv, Written, NEW s \in Sessions, NEW n \in Nodes, NEW x2 \in TxRecs, NEW y2,
           Stepped(s, n, x2, y2, log[n]), x2.w = <<>>, y2.is = "reply", y2.kind = "E"
    PROVE  Written'
<1>1. Recorded(s, child[s], x2, y2, log[n])
  BY DEF Recorded
<1>2. QED
  BY <1>1, BackendRecords

\* An answer to something other than a write.
LEMMA NothingRecords ==
    ASSUME Inv, Written, NEW s \in Sessions, NEW n \in Nodes, NEW x2 \in TxRecs, NEW y2,
           NEW l2, Stepped(s, n, x2, y2, l2), IdsOf(log[n]) \subseteq IdsOf(l2),
           x2.st # "T" => x2.w = <<>>,
           chan[s][n].is = "request", chan[s][n].q \notin Writes,
           \/ Has(tx[s][n], log[n]) \subseteq Has(x2, l2)
           \/ chan[s][n].q = "rollback"
    PROVE  Written'
<1>1. ASSUME ~AllDrifted, child[s].pc # "exit", ~child[s].doomed,
             Recorded(s, child[s], tx[s][n], chan[s][n], log[n])
      PROVE  Recorded(s, child[s], x2, y2, l2)
  <2>1. /\ child[s].pc \in {"send", "wait", "reply"} => chan[s][n].q = child[s].stmt
        /\ chan[s][n].q = "rollback" => child[s].stmt = "rollback"
    BY <1>1, LiveAsked
  <2>2. Records(s, child[s], tx[s], chan[s], log, Serving, Least(Up))
    BY <1>1 DEF Written
  <2>3. child[s].stmt = "rollback" => child[s].ids = {}
    BY <1>1, <2>2 DEF Records
  <2>4. ~child[s].mismatch => child[s].ids \subseteq Has(x2, l2)
    BY <1>1, <2>1, <2>3 DEF Recorded
  <2>5. QED
    BY <2>1, <2>4 DEF Recorded
<1>2. QED
  BY <1>1, BackendRecords

LEMMA TxWrites ==
    /\ NoTx.w = <<>>
    /\ \A t \in TxRecs : Aborted(t).w = <<>>
BY DEF NoTx, Aborted, TxRecs

LEMMA AnswerStepped ==
    ASSUME Inv, Written, NEW s \in Sessions, NEW n \in Nodes, NEW kind, NEW rows, NEW x2,
           Answer(s, n, kind, rows, x2), log' = log, faulty \subseteq faulty'
    PROVE  Stepped(s, n, x2, Reply(kind, rows, x2.st, FALSE), log[n])
BY DEF Stepped, Answer, Written

LEMMA OpenTx ==
    ASSUME Written, NEW s \in Sessions, NEW n \in Nodes
    PROVE  tx[s][n].st # "T" => tx[s][n].w = <<>>
BY DEF Written, NothingOpen

LEMMA BeginRecords ==
    ASSUME Inv, Written, NEW s \in Sessions, NEW n \in Nodes, pg_begin(s, n)
    PROVE  Written'
<1> DEFINE x2 == [tx[s][n] EXCEPT !.st = "T"]
           y2 == Reply("C", 0, x2.st, FALSE)
<1>1. Asked(s, n, {"begin"}) /\ Answer(s, n, "C", 0, x2) /\ log' = log /\ faulty' = faulty
  BY DEF pg_begin
<1>2. chan[s][n].is = "request" /\ chan[s][n].q = "begin" /\ tx[s][n] \in TxRecs
  BY <1>1, AskedFacts
<1>3. x2 \in TxRecs /\ x2.st = "T" /\ x2.w = tx[s][n].w
  BY <1>2 DEF TxRecs, TxStates
<1>4. Stepped(s, n, x2, y2, log[n])
  BY <1>1, AnswerStepped
<1>5. Has(tx[s][n], log[n]) \subseteq Has(x2, log[n]) /\ "begin" \notin Writes
  BY <1>3 DEF Has, Writes
<1> HIDE DEF x2, y2
<1>6. QED
  BY <1>2, <1>3, <1>4, <1>5, NothingRecords

LEMMA EndRecords ==
    ASSUME Inv, Written, NEW s \in Sessions, NEW n \in Nodes, pg_end(s, n)
    PROVE  Written'
<1> DEFINE y2 == Reply("C", 0, NoTx.st, FALSE)
           w == tx[s][n].w
           l2 == IF chan[s][n].q = "commit" THEN log[n] \o w ELSE log[n]
<1>1. /\ Asked(s, n, {"commit", "rollback"}) /\ Answer(s, n, "C", 0, NoTx) /\ faulty' = faulty
      /\ log' = IF chan[s][n].q = "commit" THEN [log EXCEPT ![n] = @ \o tx[s][n].w] ELSE log
  BY DEF pg_end
<1>2. /\ chan[s][n].is = "request" /\ chan[s][n].q \in {"commit", "rollback"}
      /\ tx[s][n] \in TxRecs
  BY <1>1, AskedFacts
<1>3. log \in [Nodes -> Seq(Entries)] /\ w \in Seq(Entries) /\ log[n] \in Seq(Entries)
  BY <1>2 DEF Written, TxRecs
<1>4. log[n] \o w \in Seq(Entries) /\ IdsOf(log[n] \o w) = IdsOf(log[n]) \cup IdsOf(w)
  BY <1>3, IdsFacts
<1>5. IdsOf(NoTx.w) = {} /\ NoTx \in TxRecs /\ NoTx.w = <<>>
  BY TxWrites, TxFacts, IdsFacts
<1>6. log' \in [Nodes -> Seq(Entries)] /\ log'[n] = l2 /\ \A m \in Nodes \ {n} : log'[m] = log[m]
  BY <1>1, <1>3, <1>4
<1>7. Stepped(s, n, NoTx, y2, l2)
  BY <1>1, <1>6 DEF Stepped, Answer
<1>8. IdsOf(log[n]) \subseteq IdsOf(l2)
  BY <1>4
<1>9. Has(tx[s][n], log[n]) \subseteq Has(NoTx, l2) \/ chan[s][n].q = "rollback"
  BY <1>2, <1>4, <1>5 DEF Has
<1>10. chan[s][n].q \notin Writes
  BY <1>2 DEF Writes
<1> HIDE DEF y2, l2, w
<1>11. QED
  BY <1>2, <1>5, <1>7, <1>8, <1>9, <1>10, NothingRecords

LEMMA FailRecords ==
    ASSUME Inv, Written, NEW s \in Sessions, NEW n \in Nodes,
           pg_error(s, n) \/ pg_local_error(s, n) \/ pg_deadlock(s, n)
    PROVE  Written'
<1> DEFINE x2 == Aborted(tx[s][n])
<1>1. tx[s][n] \in TxRecs
  BY DEF Inv, Shapes
<1>2. x2 \in TxRecs /\ x2.w = <<>>
  BY <1>1, TxFacts, TxWrites
<1>3. PICK dead \in BOOLEAN : Stepped(s, n, x2, Reply("E", 0, x2.st, dead), log[n])
  <2>1. CASE pg_error(s, n)
    <3>1. Answer(s, n, "E", 0, x2) /\ log' = log /\ faulty' = faulty
      BY <2>1 DEF pg_error
    <3>2. QED
      BY <3>1, AnswerStepped
  <2>2. CASE pg_local_error(s, n)
    <3>1. Stepped(s, n, x2, Reply("E", 0, x2.st, FALSE), log[n])
      BY <2>2 DEF pg_local_error, Stepped, Written
    <3>2. QED
      BY <3>1
  <2>3. CASE pg_deadlock(s, n)
    <3>1. Stepped(s, n, x2, Reply("E", 0, x2.st, TRUE), log[n])
      BY <2>3 DEF pg_deadlock, Stepped, Written
    <3>2. QED
      BY <3>1
  <2>4. QED
    BY <2>1, <2>2, <2>3
<1> DEFINE y2 == Reply("E", 0, x2.st, dead)
<1>4. y2.is = "reply" /\ y2.kind = "E"
  BY DEF Reply
<1> HIDE DEF x2, y2
<1>5. QED
  BY <1>2, <1>3, <1>4, ErrorRecords DEF y2

LEMMA SelectRecords ==
    ASSUME Inv, Written, NEW s \in Sessions, NEW n \in Nodes, pg_select(s, n) \/ pg_lock(s, n)
    PROVE  Written'
<1> DEFINE q == chan[s][n].q
           x2 == IF q = "select" THEN tx[s][n] ELSE [tx[s][n] EXCEPT !.locks = @ \cup {q}]
           y2 == Reply("C", 0, x2.st, FALSE)
<1>1. /\ Asked(s, n, {"select", "lock", "rowlock"}) /\ Answer(s, n, "C", 0, x2)
      /\ log' = log /\ faulty' = faulty
  BY DEF pg_select, pg_lock, Asked
<1>2. /\ chan[s][n].is = "request" /\ q \in {"select", "lock", "rowlock"}
      /\ tx[s][n] \in TxRecs
  BY <1>1, AskedFacts
<1>3. x2 \in TxRecs /\ x2.st = tx[s][n].st /\ x2.w = tx[s][n].w
  BY <1>2 DEF TxRecs
<1>4. Stepped(s, n, x2, y2, log[n])
  BY <1>1, AnswerStepped
<1>5. Has(tx[s][n], log[n]) \subseteq Has(x2, log[n]) /\ q \notin Writes
  BY <1>2, <1>3 DEF Has, Writes
<1> HIDE DEF x2, y2
<1>6. QED
  BY <1>2, <1>3, <1>4, <1>5, NothingRecords, OpenTx

\* A write is where its transaction is: in the log, or waiting for the COMMIT.
LEMMA WriteRecords ==
    ASSUME Inv, Written, NEW s \in Sessions, NEW n \in Nodes, pg_update(s, n) \/ pg_insert(s, n)
    PROVE  Written'
<1> DEFINE t == tx[s][n]
           c == child[s]
<1>1. PICK v \in Nat, l \in SUBSET {"row", "lock", "rowlock"} :
        /\ Write(s, n, [id |-> <<s, child[s].count>>, val |-> v], l)
        /\ Asked(s, n, Writes) /\ faulty' = faulty
  <2>1. seq[n] + 1 \in Nat
    BY DEF Inv, Shapes
  <2>2. CASE pg_update(s, n)
    <3>1. /\ Write(s, n, [id |-> <<s, child[s].count>>, val |-> 0], {"row"})
          /\ Asked(s, n, Writes) /\ faulty' = faulty
      BY <2>2 DEF pg_update, Asked, Writes
    <3>2. QED
      BY <3>1
  <2>3. CASE pg_insert(s, n)
    <3>1. /\ Write(s, n, [id |-> <<s, child[s].count>>, val |-> seq[n] + 1], {})
          /\ Asked(s, n, Writes) /\ faulty' = faulty
      BY <2>3 DEF pg_insert, Asked, Writes
    <3>2. {} \in SUBSET {"row", "lock", "rowlock"}
      OBVIOUS
    <3>3. QED
      BY <2>1, <3>1, <3>2, Zenon
  <2>4. QED
    BY <2>2, <2>3
<1>2. chan[s][n].is = "request" /\ t \in TxRecs /\ c.count \in Nat
  BY <1>1, AskedFacts
<1> DEFINE e == [id |-> <<s, c.count>>, val |-> v]
           x2 == IF t.st = "I" THEN NoTx ELSE [t EXCEPT !.w = Append(@, e), !.locks = @ \cup l]
           y2 == Reply("C", 1, x2.st, FALSE)
           l2 == IF t.st = "I" THEN Append(log[n], e) ELSE log[n]
<1>3. /\ Answer(s, n, "C", 1, x2)
      /\ log' = IF t.st = "I" THEN [log EXCEPT ![n] = Append(@, e)] ELSE log
  BY <1>1 DEF Write
<1>4. e \in Entries /\ e.id = <<s, c.count>>
  BY <1>2 DEF Entries
<1> HIDE DEF e
<1>5. /\ log \in [Nodes -> Seq(Entries)] /\ log[n] \in Seq(Entries) /\ t.w \in Seq(Entries)
      /\ t.locks \cup l \in SUBSET {"row", "lock", "rowlock"}
  BY <1>2 DEF Written, TxRecs
<1>6. /\ Append(t.w, e) \in Seq(Entries) /\ Append(log[n], e) \in Seq(Entries)
      /\ IdsOf(Append(t.w, e)) = IdsOf(t.w) \cup {<<s, c.count>>}
      /\ IdsOf(Append(log[n], e)) = IdsOf(log[n]) \cup {<<s, c.count>>}
  <2>1. \A w \in Seq(Entries) :
          Append(w, e) \in Seq(Entries) /\ IdsOf(Append(w, e)) = IdsOf(w) \cup {e.id}
    BY <1>4, IdsFacts, Zenon
  <2>2. QED
    BY <1>4, <1>5, <2>1
<1>7. t.st # "T" => t.w = <<>>
  BY OpenTx
<1>8. x2 \in TxRecs /\ (t.st = "I" => x2 = NoTx) /\ (t.st # "I" => x2.st = t.st /\ x2.w = Append(t.w, e))
  BY <1>2, <1>5, <1>6, TxFacts DEF TxRecs
<1>9. log' \in [Nodes -> Seq(Entries)] /\ log'[n] = l2 /\ \A m \in Nodes \ {n} : log'[m] = log[m]
  BY <1>3, <1>5, <1>6
<1>10. Stepped(s, n, x2, y2, l2)
  BY <1>1, <1>3, <1>9 DEF Stepped, Answer
<1>11. IdsOf(log[n]) \subseteq IdsOf(l2)
  BY <1>6
<1>12. y2.kind = "C" /\ y2.rows = 1
  BY DEF Reply
<1>13. Has(t, log[n]) \cup {<<s, c.count>>} \subseteq Has(x2, l2)
  BY <1>6, <1>7, <1>8, IdsFacts DEF Has
<1>14. t.st # "E"
  BY DEF pg_update, pg_insert
<1>15. x2.st # "T" => x2.w = <<>>
  <2>1. t.st \in {"I", "T"}
    BY <1>2, <1>14 DEF TxRecs, TxStates
  <2> HIDE DEF x2
  <2>2. QED
    BY <1>8, <2>1, TxWrites
<1>16. Recorded(s, c, t, chan[s][n], log[n]) => Recorded(s, c, x2, y2, l2)
  <2> HIDE DEF x2, y2, l2, t, c
  <2>1. QED
    BY <1>2, <1>12, <1>13 DEF Recorded
<1> HIDE DEF x2, y2, l2
<1>17. QED
  BY <1>8, <1>10, <1>11, <1>15, <1>16, BackendRecords

LEMMA DriftRecords ==
    ASSUME Inv, Written, NEW s \in Sessions, NEW n \in Nodes, pg_drift(s, n)
    PROVE  Written'
<1> DEFINE t == tx[s][n]
           y2 == Reply("C", 0, t.st, FALSE)
<1>1. /\ Asked(s, n, {"update"}) /\ Answer(s, n, "C", 0, t) /\ log' = log
      /\ faulty' = faulty \cup {n} /\ "drift" \in Faults
  BY DEF pg_drift, Fault
<1>2. chan[s][n].is = "request" /\ t \in TxRecs
  BY <1>1, AskedFacts
<1>3. Stepped(s, n, t, y2, log[n])
  BY <1>1, AnswerStepped
<1>4. y2.kind = "C" /\ y2.rows = 0
  BY DEF Reply
<1>5. t.st # "T" => t.w = <<>>
  BY OpenTx
<1>6. Recorded(s, child[s], t, chan[s][n], log[n]) => Recorded(s, child[s], t, y2, log[n])
  <2> HIDE DEF t, y2
  <2>1. QED
    BY <1>1, <1>2, <1>4 DEF Recorded
<1> HIDE DEF y2
<1>7. QED
  BY <1>2, <1>3, <1>5, <1>6, BackendRecords

LEMMA DisconnectRecords ==
    ASSUME Inv, Written, NEW s \in Sessions, NEW n \in Nodes, pg_disconnect(s, n)
    PROVE  Written'
<1>1. Stepped(s, n, NoTx, Empty, log[n]) /\ child[s].pc = "exit"
  BY DEF pg_disconnect, Stepped, ghosts, Written
<1>2. QED
  BY <1>1, TxFacts, TxWrites, BackendRecords

LEMMA PostgresRecords ==
    ASSUME Inv, Written, NEW s \in Sessions, NEW n \in Nodes, Backend(s, n)
    PROVE  Written'
BY BeginRecords, EndRecords, FailRecords, SelectRecords, WriteRecords, DriftRecords,
   DisconnectRecords DEF Backend

LEMMA ChildRecords ==
    ASSUME Inv, Written, NEW s \in Sessions, NEW c2, NEW ch2, Moved(s, c2, ch2),
           AllDrifted \/ Records(s, c2, tx[s], ch2, log, Serving, Least(Up)),
           acked' = acked \/ AllDrifted \/ \A n \in Serving : acked' \subseteq IdsOf(log[n])
    PROVE  Written'
<1>1. child \in [Sessions -> Children] /\ chan \in [Sessions -> [Nodes -> Channels]]
  BY DEF Inv, Shapes
<1>2. /\ child' = [child EXCEPT ![s] = c2] /\ chan' = [chan EXCEPT ![s] = ch2]
      /\ UNCHANGED <<alive, log, tx, faulty, down>>
  BY DEF Moved
<1>3. Up' = Up /\ Serving' = Serving /\ (AllDrifted' <=> AllDrifted)
  BY <1>2 DEF Up, Serving, AllDrifted
<1>4. \A n : IdsIn(n) = IdsOf(log[n]) /\ IdsIn(n)' = IdsOf(log[n])
  BY <1>2 DEF IdsIn, IdsOf
<1>5. AllDrifted \/ AckedEverywhere'
  <2>1. AllDrifted \/ \A n \in Serving : acked \subseteq IdsOf(log[n])
    BY <1>4 DEF Written, AckedEverywhere
  <2>2. AllDrifted \/ \A n \in Serving : acked' \subseteq IdsOf(log[n])
    BY <2>1
  <2>3. QED
    BY <1>3, <1>4, <2>2 DEF AckedEverywhere
<1>6. ASSUME NEW o \in Sessions
      PROVE  AllDrifted \/ Records(o, child'[o], tx[o], chan'[o], log, Serving, Least(Up))
  <2>1. CASE o = s
    BY <1>1, <1>2, <2>1
  <2>2. CASE o # s
    <3>1. child'[o] = child[o] /\ chan'[o] = chan[o]
      BY <1>1, <1>2, <2>2
    <3>2. QED
      BY <3>1 DEF Written
  <2>3. QED
    BY <2>1, <2>2
<1>7. log \in [Nodes -> Seq(Entries)] /\ \A o \in Sessions : NothingOpen(tx[o])
  BY DEF Written
<1>8. QED
  BY <1>2, <1>3, <1>5, <1>6, <1>7 DEF Written

\* The session is over, or about to be.
LEMMA VoidRecords ==
    ASSUME Inv, Written, NEW s \in Sessions, NEW c2, NEW ch2, Moved(s, c2, ch2),
           c2.pc = "exit" \/ c2.doomed, acked' = acked
    PROVE  Written'
<1>1. Records(s, c2, tx[s], ch2, log, Serving, Least(Up))
  BY DEF Records
<1>2. QED
  BY <1>1, ChildRecords

\* Nothing counts as done, and no reply to a statement is there.
LEMMA EmptyRecords ==
    ASSUME Inv, Written, NEW s \in Sessions, NEW c2, NEW ch2, Moved(s, c2, ch2), acked' = acked,
           AllDrifted \/ c2.ids = {},
           \/ c2.pc \notin {"send", "wait", "reply"}
           \/ \A n \in Up : ch2[n].is # "reply"
    PROVE  Written'
<1>1. c2.ids = {} => \A n \in Serving : Recorded(s, c2, tx[s][n], ch2[n], log[n])
  BY DEF Recorded, Serving
<1>2. AllDrifted \/ Records(s, c2, tx[s], ch2, log, Serving, Least(Up))
  BY <1>1 DEF Records
<1>3. QED
  BY <1>2, ChildRecords

\* As much counts as done as before, and no error has been overlooked.
LEMMA KeepRecords ==
    ASSUME Inv, Written, NEW s \in Sessions, NEW c2, NEW ch2, Moved(s, c2, ch2), acked' = acked,
           child[s].pc # "exit", ~child[s].doomed, c2.pc # "idle",
           c2.ids = child[s].ids, c2.mismatch = child[s].mismatch,
           c2.stmt = child[s].stmt, c2.count = child[s].count,
           c2.pc \in {"begin", "lock", "sync", "abort"} =>
               child[s].pc \in {"begin", "lock", "sync", "abort"},
           c2.pc \in {"send", "wait", "reply"} => child[s].pc \in {"send", "wait", "reply"},
           \A n \in Up : \/ ch2[n] = chan[s][n]
                         \/ /\ ch2[n].is # "reply"
                            /\ chan[s][n].is = "reply" => chan[s][n].kind # "E"
    PROVE  Written'
<1>1. ASSUME ~AllDrifted
      PROVE  Records(s, c2, tx[s], ch2, log, Serving, Least(Up))
  <2>1. Records(s, child[s], tx[s], chan[s], log, Serving, Least(Up))
    BY <1>1 DEF Written
  <2>2. /\ child[s].pc \in {"begin", "lock", "sync", "abort"} \/ child[s].stmt = "rollback" => child[s].ids = {}
        /\ \A n \in Serving : Recorded(s, child[s], tx[s][n], chan[s][n], log[n])
    BY <2>1 DEF Records
  <2>3. ASSUME NEW n \in Serving
        PROVE  Recorded(s, c2, tx[s][n], ch2[n], log[n])
    <3>1. n \in Up /\ Recorded(s, child[s], tx[s][n], chan[s][n], log[n])
      BY <2>2 DEF Serving
    <3>2. CASE ch2[n] = chan[s][n]
      BY <3>1, <3>2 DEF Recorded
    <3>3. CASE ch2[n].is # "reply" /\ (chan[s][n].is = "reply" => chan[s][n].kind # "E")
      BY <3>1, <3>3 DEF Recorded
    <3>4. QED
      BY <3>1, <3>2, <3>3
  <2>4. QED
    BY <2>2, <2>3 DEF Records
<1>2. QED
  BY <1>1, ChildRecords

-----------------------------------------------------------------------------
(* Sessions that end.                                                      *)

LEMMA OverRecords ==
    ASSUME Inv, Written, NEW s \in Sessions, End(s), chan' = chan, acked' = acked,
           UNCHANGED <<alive, log, tx, faulty, down>>
    PROVE  Written'
<1>1. child[s] \in Children /\ chan = [chan EXCEPT ![s] = chan[s]]
  BY SessionTypes
<1>2. Exited(child[s]).pc = "exit"
  BY <1>1, ExitedFacts
<1>3. Moved(s, Exited(child[s]), chan[s])
  BY <1>1 DEF Moved, End
<1>4. QED
  BY <1>2, <1>3, VoidRecords

LEMMA LostRecords ==
    ASSUME Inv, Written, NEW s \in Sessions,
           \/ wait_for_query_response_fails(s)
           \/ \E n \in Nodes : backend_lost(s, n)
           \/ read_kind_mismatch(s)
    PROVE  Written'
<1>1. End(s) /\ chan' = chan /\ acked' = acked /\ UNCHANGED <<alive, log, tx, faulty, down>>
  BY DEF wait_for_query_response_fails, backend_lost, read_kind_mismatch, pgVars
<1>2. QED
  BY <1>1, OverRecords

LEMMA KillRecords ==
    ASSUME Inv, Written, NEW s \in Sessions, Kill(s)
    PROVE  Written'
<1>1. child[s] \in Children /\ chan = [chan EXCEPT ![s] = chan[s]]
  BY SessionTypes
<1>2. Killed(child[s]).pc = "exit" \/ Killed(child[s]).doomed
  BY <1>1, ExitedFacts DEF Killed
<1>3. Moved(s, Killed(child[s]), chan[s]) /\ acked' = acked
  BY <1>1 DEF Moved, Kill, pgVars
<1>4. QED
  BY <1>2, <1>3, VoidRecords

LEMMA ReconnectRecords ==
    ASSUME Inv, Written, NEW s \in Sessions, Reconnect(s)
    PROVE  Written'
<1> DEFINE c2 == NewChild(child[s].count)
<1>1. chan = [chan EXCEPT ![s] = chan[s]]
  BY SessionTypes
<1>2. Moved(s, c2, chan[s]) /\ acked' = acked
  BY <1>1 DEF Moved, Reconnect, pgVars, ghosts
<1>3. c2.ids = {} /\ c2.pc = "idle"
  BY DEF NewChild
<1> HIDE DEF c2
<1>4. QED
  BY <1>2, <1>3, EmptyRecords

\* Nodes that go take their writes with them.
LEMMA FewerRecords ==
    ASSUME NEW s, NEW c, NEW t, NEW ch, NEW lg, NEW S, NEW m, NEW t2, NEW ch2, NEW S2,
           S2 \subseteq S, \A n \in S2 : t2[n] = t[n] /\ ch2[n] = ch[n],
           Records(s, c, t, ch, lg, S, m)
    PROVE  Records(s, c, t2, ch2, lg, S2, m)
BY DEF Records

LEMMA CrashRecords ==
    ASSUME Inv, Written, NEW n \in Nodes, Crash(n)
    PROVE  Written'
<1>1. /\ tx \in [Sessions -> [Nodes -> TxRecs]] /\ chan \in [Sessions -> [Nodes -> Channels]]
  BY DEF Inv, Shapes
<1>2. /\ alive' = alive \ {n} /\ UNCHANGED <<log, child, down, faulty, acked>>
      /\ tx' = [s \in Sessions |-> [tx[s] EXCEPT ![n] = NoTx]]
      /\ chan' = [s \in Sessions |->
                    IF chan[s][n].is = "request" THEN [chan[s] EXCEPT ![n] = Eof] ELSE chan[s]]
  BY DEF Crash
<1>3. /\ Up' = Up /\ Serving' \subseteq Serving /\ n \notin Serving' /\ Serving \subseteq Nodes
      /\ AllDrifted' <=> AllDrifted
  BY <1>2 DEF Up, Serving, AllDrifted
<1>4. ASSUME NEW s \in Sessions, NEW m \in Nodes \ {n}
      PROVE  tx'[s][m] = tx[s][m] /\ chan'[s][m] = chan[s][m]
  BY <1>1, <1>2
<1>5. ASSUME NEW s \in Sessions
      PROVE  NothingOpen(tx'[s])
  <2>1. tx'[s][n] = NoTx
    BY <1>1, <1>2
  <2>2. \A m \in Nodes : tx'[s][m].st # "T" => tx'[s][m].w = <<>>
    BY <1>4, <2>1, TxWrites DEF Written, NothingOpen
  <2>3. QED
    BY <2>2 DEF NothingOpen
<1>6. ASSUME NEW s \in Sessions, ~AllDrifted
      PROVE  Records(s, child[s], tx'[s], chan'[s], log, Serving', Least(Up))
  <2>1. Records(s, child[s], tx[s], chan[s], log, Serving, Least(Up))
    BY <1>6 DEF Written
  <2>2. \A m \in Serving' : tx'[s][m] = tx[s][m] /\ chan'[s][m] = chan[s][m]
    BY <1>3, <1>4
  <2>3. QED
    BY <1>3, <2>1, <2>2, FewerRecords
<1>7. AllDrifted \/ AckedEverywhere'
  <2>1. \A m : IdsIn(m)' = IdsIn(m)
    BY <1>2 DEF IdsIn
  <2>2. QED
    BY <1>2, <1>3, <2>1 DEF Written, AckedEverywhere
<1>8. QED
  BY <1>2, <1>3, <1>5, <1>6, <1>7 DEF Written

LEMMA FailoverRecords ==
    ASSUME Inv, Written, Failover
    PROVE  Written'
<1>1. /\ child' = [s \in Sessions |-> Killed(child[s])] /\ down' = down \cup req
      /\ UNCHANGED <<alive, log, tx, faulty, chan, acked>>
  BY DEF Failover, pgVars
<1>2. \A s \in Sessions : child'[s].pc = "exit" \/ child'[s].doomed
  BY <1>1, SessionTypes, ExitedFacts DEF Killed
<1>3. Up' \subseteq Up /\ Serving' \subseteq Serving /\ (AllDrifted => AllDrifted')
  BY <1>1 DEF Up, Serving, AllDrifted
<1>4. \A s \in Sessions : Records(s, child'[s], tx'[s], chan'[s], log', Serving', Least(Up'))
  BY <1>2 DEF Records
<1>5. AllDrifted' \/ AckedEverywhere'
  <2>1. \A m : IdsIn(m)' = IdsIn(m)
    BY <1>1 DEF IdsIn
  <2>2. QED
    BY <1>1, <1>3, <2>1 DEF Written, AckedEverywhere
<1>6. QED
  BY <1>1, <1>4, <1>5 DEF Written

-----------------------------------------------------------------------------
(* Commands of pgpool's own, and what the client asks for.                 *)

\* While a transaction is being opened, or closed after an error, nothing
\* counts as done.
LEMMA NothingDone ==
    ASSUME Inv, Written, NEW s \in Sessions, child[s].pc \in {"begin", "lock", "sync", "abort"}
    PROVE  AllDrifted \/ child[s].ids = {}
<1>1. ~child[s].doomed
  BY SessionTypes DEF Sound
<1>2. AllDrifted \/ Records(s, child[s], tx[s], chan[s], log, Serving, Least(Up))
  BY DEF Written
<1>3. QED
  BY <1>1, <1>2 DEF Records

\* Only the nodes of todo may have been asked.
LEMMA CommandRests ==
    ASSUME Inv, NEW s \in Sessions, child[s].pc \in {"begin", "lock"}
    PROVE  \A m \in Nodes \ child[s].todo : chan[s][m] = Empty
<1> DEFINE c == child[s]
           t == tx[s]
           ch == chan[s]
<1>1. c \in Children /\ Sound(c, t, ch, alive, faulty, Up) /\ Up \subseteq Nodes
  BY SessionTypes
<1>2. Live(c, t, ch, alive, faulty, Up)
  BY <1>1 DEF Sound
<1>3. \A m \in Nodes \ Up : ch[m] = Empty
  BY <1>2 DEF Live
<1>4. CASE c.pc = "begin"
  <2>1. Begins(c, t, ch, alive, faulty, Up)
    BY <1>2, <1>4 DEF Live
  <2>2. QED
    BY <1>3, <2>1 DEF Begins, Rest
<1>5. CASE c.pc = "lock"
  <2>1. Locks(c, t, ch, alive, faulty, Up)
    BY <1>2, <1>5 DEF Live
  <2>2. \A m \in Up \ c.todo : ch[m] = Empty
    BY <2>1 DEF Locks, LocksMaster, LocksOthers, Rest
  <2>3. QED
    BY <1>3, <2>2
<1>6. QED
  BY <1>4, <1>5

\* The locks come before the statement and the BEGINs before the locks.
LEMMA AfterFacts ==
    ASSUME NEW c \in Children
    PROVE  /\ AfterLock(c).pc = "send" /\ AfterLock(c).ids = c.ids
           /\ AfterLock(c).mismatch = c.mismatch /\ AfterLock(c).doomed = c.doomed
           /\ AfterBegin(c).ids = c.ids /\ AfterBegin(c).mismatch = c.mismatch
           /\ AfterBegin(c).stmt = c.stmt
           /\ AfterBegin(c).pc \in {"lock", "send"}
           /\ AfterBegin(c).pc = "lock" => c.stmt = "insert"
<1>1. /\ AfterLock(c).pc = "send" /\ AfterLock(c).ids = c.ids /\ AfterLock(c).stmt = c.stmt
      /\ AfterLock(c).mismatch = c.mismatch /\ AfterLock(c).doomed = c.doomed
  BY DEF AfterLock, Children
<1> DEFINE d == [c EXCEPT !.pc = "lock", !.todo = {MASTER_NODE_ID(c)}]
<1>2. d.pc = "lock" /\ d.ids = c.ids /\ d.mismatch = c.mismatch /\ d.stmt = c.stmt
  BY DEF Children
<1> HIDE DEF d
<1>3. AfterBegin(c) = IF need_insert_lock(c) /\ Cardinality(c.where) > 1 THEN d ELSE AfterLock(c)
  BY DEF AfterBegin, d
<1>4. QED
  BY <1>1, <1>2, <1>3 DEF need_insert_lock

LEMMA BegunRecords ==
    ASSUME Inv, Written, NEW s \in Sessions, NEW n \in Nodes, NEW r, r = chan[s][n],
           start_internal_transaction(s, n, r)
    PROVE  Written'
<1> DEFINE c0 == child[s]
           c == [c0 EXCEPT !.tstate[n] = r.z, !.todo = @ \ {n}, !.internal = @ \cup {n}]
           c2 == IF c.todo = {} THEN AfterBegin(c) ELSE c
<1>1. /\ Got(s, "begin", n, r) /\ child' = [child EXCEPT ![s] = c2] /\ Left(s, n, Empty)
      /\ acked' = acked /\ UNCHANGED <<alive, log, tx, faulty, down>>
  BY DEF start_internal_transaction, pgVars, ghosts, Left
<1> HIDE DEF c, c2
<1>2. c0.pc = "begin" /\ n \in c0.todo /\ r.z \in TxStates
  BY <1>1, GotFacts
<1>3. PICK ch2 : Connections(s, n, Empty, ch2)
  BY <1>1, ReadFacts DEF Channels
<1>4. Moved(s, c2, ch2)
  BY <1>1, <1>3 DEF Moved, Connections
<1>5. c0 \in Children
  BY SessionTypes
<1>6. c \in Children /\ c.pc = "begin" /\ c.ids = c0.ids /\ c.todo = c0.todo \ {n}
  BY <1>2, <1>5 DEF c, Children
<1>7. c2.ids = c0.ids /\ (c.todo # {} => c2.pc = "begin")
  BY <1>6, AfterFacts DEF c2
<1>8. c.todo = {} => \A m \in Up : ch2[m].is # "reply"
  <2>1. \A m \in Nodes \ c0.todo : chan[s][m] = Empty
    BY <1>2, CommandRests
  <2>2. Empty.is # "reply" /\ Up \subseteq Nodes
    BY DEF Empty, Up
  <2>3. QED
    BY <1>3, <1>6, <2>1, <2>2 DEF Connections
<1>9. AllDrifted \/ c2.ids = {}
  BY <1>2, <1>7, NothingDone
<1>10. QED
  BY <1>1, <1>4, <1>7, <1>8, <1>9, EmptyRecords

LEMMA LockMasterRecords ==
    ASSUME Inv, Written, NEW s \in Sessions, NEW n \in Nodes, NEW r, r = chan[s][n],
           insert_lock_master(s, n, r)
    PROVE  Written'
<1> DEFINE c == child[s]
           d == CASE c.kind = 3 /\ r.kind = "C" -> AfterLock(c)
                  [] c.kind = 3 /\ r.kind = "E" -> [c EXCEPT !.kind = 1]
                  [] c.kind = 1 -> [c EXCEPT !.dead = r.dead, !.tstate[n] = r.z,
                                             !.todo = c.where \ {n}]
<1>1. /\ Got(s, "lock", n, r) /\ n = Least(c.where) /\ child' = [child EXCEPT ![s] = d]
      /\ Left(s, n, Empty) /\ acked' = acked /\ UNCHANGED <<alive, log, tx, faulty, down>>
  BY DEF insert_lock_master, pgVars, ghosts, MASTER_NODE_ID, Left
<1> HIDE DEF d
<1>2. c.pc = "lock" /\ n \in c.todo /\ r.kind \in {"C", "E"} /\ r \in Replies
  BY <1>1, GotFacts
<1>3. PICK ch2 : Connections(s, n, Empty, ch2)
  BY <1>1, ReadFacts DEF Channels
<1>4. Moved(s, d, ch2)
  BY <1>1, <1>3 DEF Moved, Connections
<1>5. c \in Children /\ Sound(c, tx[s], chan[s], alive, faulty, Up)
  BY SessionTypes
<1>6. Locks(c, tx[s], chan[s], alive, faulty, Up)
  BY <1>2, <1>5 DEF Sound, Live
<1>7. c.todo = {n} /\ c.kind \in {1, 3}
  BY <1>1, <1>2, <1>5, <1>6 DEF Locks, LocksMaster, LocksOthers, Children
<1>8. \A m \in Up : ch2[m].is # "reply"
  <2>1. \A m \in Nodes \ c.todo : chan[s][m] = Empty
    BY <1>2, CommandRests
  <2>2. Empty.is # "reply" /\ Up \subseteq Nodes
    BY DEF Empty, Up
  <2>3. QED
    BY <1>3, <1>7, <2>1, <2>2 DEF Connections
<1>9. d.ids = c.ids
  <2> HIDE DEF c
  <2>1. CASE c.kind = 3 /\ r.kind = "C"
    BY <1>5, <2>1, AfterFacts DEF d
  <2>2. CASE c.kind = 3 /\ r.kind = "E"
    <3>1. d = [c EXCEPT !.kind = 1]
      BY <2>2 DEF d
    <3>2. QED
      BY <1>5, <3>1 DEF Children
  <2>3. CASE c.kind = 1
    <3>1. d = [c EXCEPT !.dead = r.dead, !.tstate[n] = r.z, !.todo = c.where \ {n}]
      BY <2>3 DEF d
    <3>2. QED
      BY <1>5, <3>1 DEF Children
  <2>4. QED
    BY <1>2, <1>7, <2>1, <2>2, <2>3
<1>10. AllDrifted \/ d.ids = {}
  BY <1>2, <1>9, NothingDone
<1>11. QED
  BY <1>1, <1>4, <1>8, <1>10, EmptyRecords

LEMMA LockOtherRecords ==
    ASSUME Inv, Written, NEW s \in Sessions, NEW n \in Nodes, NEW r, r = chan[s][n],
           insert_lock_other(s, n, r)
    PROVE  Written'
<1> DEFINE c0 == child[s]
           c == [c0 EXCEPT !.tstate[n] = r.z, !.todo = @ \ {n}]
           d == IF c.todo = {} THEN AfterLock(c) ELSE c
<1>1. /\ Got(s, "lock", n, r) /\ Left(s, n, Empty)
      /\ r.dead => child' = [child EXCEPT ![s] = Exited(c0)]
      /\ ~r.dead => child' = [child EXCEPT ![s] = d]
      /\ acked' = acked /\ UNCHANGED <<alive, log, tx, faulty, down>>
  BY DEF insert_lock_other, pgVars, ghosts, Left, End
<1> HIDE DEF d, c
<1>2. c0.pc = "lock" /\ n \in c0.todo /\ r \in Replies
  BY <1>1, GotFacts
<1>3. PICK ch2 : Connections(s, n, Empty, ch2)
  BY <1>1, ReadFacts DEF Channels
<1>4. c0 \in Children
  BY SessionTypes
<1>5. CASE r.dead
  <2>1. Moved(s, Exited(c0), ch2)
    BY <1>1, <1>3, <1>5 DEF Moved, Connections
  <2>2. Exited(c0).pc = "exit"
    BY <1>4, ExitedFacts
  <2>3. QED
    BY <1>1, <2>1, <2>2, VoidRecords
<1>6. CASE ~r.dead
  <2>1. Moved(s, d, ch2)
    BY <1>1, <1>3, <1>6 DEF Moved, Connections
  <2>2. c \in Children /\ c.pc = "lock" /\ c.ids = c0.ids /\ c.todo = c0.todo \ {n}
    BY <1>2, <1>4 DEF c, Children, Replies
  <2>3. d.ids = c0.ids /\ (c.todo # {} => d.pc = "lock")
    BY <2>2, AfterFacts DEF d
  <2>4. c.todo = {} => \A m \in Up : ch2[m].is # "reply"
    <3>1. \A m \in Nodes \ c0.todo : chan[s][m] = Empty
      BY <1>2, CommandRests
    <3>2. Empty.is # "reply" /\ Up \subseteq Nodes
      BY DEF Empty, Up
    <3>3. QED
      BY <1>3, <2>2, <3>1, <3>2 DEF Connections
  <2>5. AllDrifted \/ d.ids = {}
    BY <1>2, <2>3, NothingDone
  <2>6. QED
    BY <1>1, <2>1, <2>3, <2>4, <2>5, EmptyRecords
<1>7. QED
  BY <1>5, <1>6

LEMMA ErrorReplyRecords ==
    ASSUME Inv, Written, NEW s \in Sessions, NEW n \in Nodes, NEW r, r = chan[s][n],
           do_error_command(s, n, r)
    PROVE  Written'
<1> DEFINE c0 == child[s]
           c == [c0 EXCEPT !.todo = @ \ {n}]
           d == IF c.todo = {} THEN [c EXCEPT !.pc = "ready", !.mismatch = FALSE] ELSE c
<1>1. /\ Got(s, "sync", n, r) \/ Got(s, "abort", n, r)
      /\ Left(s, n, Ready(r.z)) /\ child' = [child EXCEPT ![s] = d]
      /\ acked' = acked /\ UNCHANGED <<alive, log, tx, faulty, down>>
  BY DEF do_error_command, pgVars, ghosts, Left
<1> HIDE DEF d, c
<1>2. c0.pc \in {"sync", "abort"} /\ r.z \in TxStates
  BY <1>1, GotFacts
<1>3. Ready(r.z) \in Channels
  BY <1>2, ReadyFacts
<1>4. PICK ch2 : Connections(s, n, Ready(r.z), ch2)
  BY <1>1, <1>3, ReadFacts
<1>5. Moved(s, d, ch2)
  BY <1>1, <1>4 DEF Moved, Connections
<1>6. c0 \in Children
  BY SessionTypes
<1>7. c \in Children /\ c.pc = c0.pc /\ c.ids = c0.ids
  BY <1>6 DEF c, Children
<1>8. d.ids = c0.ids /\ d.pc \notin {"send", "wait", "reply"}
  BY <1>2, <1>7 DEF d, Children
<1>9. AllDrifted \/ d.ids = {}
  BY <1>2, <1>8, NothingDone
<1>10. QED
  BY <1>1, <1>5, <1>8, <1>9, EmptyRecords

\* A COMMIT cannot fail.
LEMMA CommitRecords ==
    ASSUME Inv, Written, NEW s \in Sessions, NEW n \in Nodes, NEW r, r = chan[s][n],
           end_internal_transaction(s, n, r)
    PROVE  Written'
<1> DEFINE c0 == child[s]
           c == [c0 EXCEPT !.todo = @ \ {n}, !.internal = @ \ {n}]
           d == CASE c.todo # {} -> c
                  [] c.todo = {} /\ c.doomed -> Exited(c)
                  [] c.todo = {} /\ ~c.doomed -> [c EXCEPT !.pc = "ready"]
<1>1. /\ Got(s, "commit", n, r) /\ Left(s, n, Ready(r.z)) /\ child' = [child EXCEPT ![s] = d]
      /\ acked' = acked /\ UNCHANGED <<alive, log, tx, faulty, down>>
  BY DEF end_internal_transaction, pgVars, ghosts, Left
<1> HIDE DEF d, c
<1>2. c0.pc = "commit" /\ n \in c0.todo /\ r.is = "reply" /\ r.z \in TxStates
  BY <1>1, GotFacts
<1>3. Ready(r.z) \in Channels /\ Ready(r.z).is = "ready"
  BY <1>2, ReadyFacts
<1>4. PICK ch2 : Connections(s, n, Ready(r.z), ch2)
  BY <1>1, <1>3, ReadFacts
<1>5. Moved(s, d, ch2)
  BY <1>1, <1>4 DEF Moved, Connections
<1>6. c0 \in Children /\ Sound(c0, tx[s], chan[s], alive, faulty, Up) /\ Up \subseteq Nodes
  BY SessionTypes
<1>7. /\ c \in Children /\ c.pc = "commit" /\ c.ids = c0.ids /\ c.mismatch = c0.mismatch
      /\ c.stmt = c0.stmt /\ c.count = c0.count /\ c.doomed = c0.doomed
  BY <1>2, <1>6 DEF c, Children
<1> HIDE DEF c0
<1>8. CASE c0.doomed
  <2>1. d.pc = "exit" \/ d.doomed
    BY <1>7, <1>8, ExitedFacts DEF d
  <2>2. QED
    BY <1>1, <1>5, <2>1, VoidRecords
<1>9. CASE ~c0.doomed
  <2>1. /\ d.pc \in {"commit", "ready"} /\ d.ids = c0.ids /\ d.mismatch = c0.mismatch
        /\ d.stmt = c0.stmt /\ d.count = c0.count
    <3>1. CASE c.todo # {}
      <4>1. d = c
        BY <3>1 DEF d
      <4>2. QED
        BY <1>7, <4>1
    <3>2. CASE c.todo = {}
      <4>1. d = [c EXCEPT !.pc = "ready"]
        BY <1>7, <1>9, <3>2 DEF d
      <4>2. QED
        BY <1>7, <4>1 DEF Children
    <3>3. QED
      BY <3>1, <3>2
  <2>2. Commits(c0, tx[s], chan[s], alive, faulty, Up)
    BY <1>2, <1>6, <1>9 DEF Sound, Live
  <2>3. PICK st \in TxStates : Ask(n, "commit", st, tx[s][n], r, alive, faulty)
    BY <1>2, <2>2 DEF Commits
  <2>4. r.kind # "E"
    BY <1>2, <2>3 DEF Ask, Fair, is_commit_query
  <2>5. \A m \in Up : \/ ch2[m] = chan[s][m]
                      \/ ch2[m].is # "reply" /\ (chan[s][m].is = "reply" => chan[s][m].kind # "E")
    BY <1>3, <1>4, <1>6, <2>4 DEF Connections
  <2>6. QED
    BY <1>1, <1>2, <1>5, <1>9, <2>1, <2>5, KeepRecords DEF c0
<1>10. QED
  BY <1>8, <1>9

LEMMA RepliedRecords ==
    ASSUME Inv, Written, NEW s \in Sessions, NEW n \in Nodes, Replied(s, n, chan[s][n])
    PROVE  Written'
<1> DEFINE r == chan[s][n]
<1>1. r = chan[s][n]
  OBVIOUS
<1> HIDE DEF r
<1>2. Replied(s, n, r)
  BY <1>1
<1>3. QED
  BY <1>1, <1>2, BegunRecords, LockMasterRecords, LockOtherRecords, ErrorReplyRecords,
     CommitRecords DEF Replied

\* What a child sends changes connections on which nothing is under way.
LEMMA SentOnly ==
    ASSUME Inv, NEW s \in Sessions, NEW S, NEW q, Sent(s, S, q),
           \A n \in S : chan[s][n].is = "empty"
    PROVE  \E ch2 : /\ chan' = [chan EXCEPT ![s] = ch2]
                    /\ \A n \in Nodes : \/ ch2[n] = chan[s][n]
                                        \/ /\ ch2[n].is # "reply"
                                           /\ chan[s][n].is = "reply" => chan[s][n].kind # "E"
<1> DEFINE ch2 == [n \in Nodes |-> IF n \notin S THEN chan[s][n]
                                   ELSE IF n \in alive THEN Request(q) ELSE Eof]
<1>1. chan \in [Sessions -> [Nodes -> Channels]]
  BY DEF Inv, Shapes
<1>2. chan' = [chan EXCEPT ![s] = ch2]
  BY <1>1 DEF Sent
<1>3. Request(q).is = "request" /\ Eof.is = "eof"
  BY DEF Request, Eof
<1>4. \A n \in Nodes : ch2[n] = chan[s][n] \/ (n \in S /\ ch2[n].is # "reply")
  BY <1>3
<1> HIDE DEF ch2
<1>5. QED
  BY <1>2, <1>4

LEMMA do_commandRecords ==
    ASSUME Inv, Written, NEW s \in Sessions, do_command(s)
    PROVE  Written'
<1> DEFINE c == child[s]
           q == Command(c)
           k == Turn(c)
<1>1. /\ c.pc \in {"begin", "lock", "sync", "abort", "commit"} /\ chan[s][k].is = "empty"
      /\ Sent(s, {k}, q) /\ child' = child /\ acked' = acked
      /\ UNCHANGED <<alive, log, tx, faulty, down>>
  BY DEF do_command, pgVars, ghosts
<1> HIDE DEF q, k
<1>2. PICK ch2 : /\ chan' = [chan EXCEPT ![s] = ch2]
                 /\ \A n \in Nodes : \/ ch2[n] = chan[s][n]
                                     \/ /\ ch2[n].is # "reply"
                                        /\ chan[s][n].is = "reply" => chan[s][n].kind # "E"
  BY <1>1, SentOnly
<1>3. child = [child EXCEPT ![s] = c] /\ Up \subseteq Nodes
  BY SessionTypes DEF Inv, Shapes
<1>4. Moved(s, c, ch2)
  BY <1>1, <1>2, <1>3 DEF Moved
<1>5. CASE c.doomed
  BY <1>1, <1>4, <1>5, VoidRecords
<1>6. CASE ~c.doomed
  BY <1>1, <1>2, <1>3, <1>4, <1>6, KeepRecords
<1>7. QED
  BY <1>5, <1>6

LEMMA SendRecords ==
    ASSUME Inv, Written, NEW s \in Sessions, pool_send_and_wait_send(s)
    PROVE  Written'
<1> DEFINE c == child[s]
           S == NextGroup(c, Unsent(s))
           d == [c EXCEPT !.pc = "wait"]
<1>1. c \in Children /\ Sound(c, tx[s], chan[s], alive, faulty, Up) /\ Up \subseteq Nodes
  BY SessionTypes
<1>2. /\ c.pc = "send" /\ Sent(s, S, c.stmt) /\ child' = [child EXCEPT ![s] = d] /\ acked' = acked
      /\ UNCHANGED <<alive, log, tx, faulty, down>>
  BY DEF pool_send_and_wait_send, pgVars, ghosts
<1>3. \A n \in S : chan[s][n].is = "empty"
  <2>1. S \subseteq Unsent(s)
    BY GroupFacts
  <2>2. QED
    BY <2>1 DEF Unsent
<1> HIDE DEF S, d
<1>4. PICK ch2 : /\ chan' = [chan EXCEPT ![s] = ch2]
                 /\ \A n \in Nodes : \/ ch2[n] = chan[s][n]
                                     \/ /\ ch2[n].is # "reply"
                                        /\ chan[s][n].is = "reply" => chan[s][n].kind # "E"
  BY <1>2, <1>3, SentOnly
<1>5. Moved(s, d, ch2)
  BY <1>2, <1>4 DEF Moved
<1>6. /\ d.pc = "wait" /\ d.ids = c.ids /\ d.mismatch = c.mismatch /\ d.stmt = c.stmt
      /\ d.count = c.count
  BY <1>1 DEF d, Children
<1>7. ~c.doomed
  BY <1>1, <1>2 DEF Sound
<1>8. QED
  BY <1>1, <1>2, <1>4, <1>5, <1>6, <1>7, KeepRecords

LEMMA WaitRecords ==
    ASSUME Inv, Written, NEW s \in Sessions, pool_send_and_wait_wait(s)
    PROVE  Written'
<1> DEFINE c == child[s]
           p == IF Unsent(s) = {} THEN "reply" ELSE "send"
           d == [c EXCEPT !.pc = p]
<1>1. c \in Children /\ Sound(c, tx[s], chan[s], alive, faulty, Up)
      /\ chan = [chan EXCEPT ![s] = chan[s]] /\ child \in [Sessions -> Children]
  BY SessionTypes DEF Inv, Shapes
<1>2. c.pc = "wait" /\ p \in {"send", "reply"} /\ acked' = acked
  BY DEF pool_send_and_wait_wait, ghosts
<1>3. Moved(s, d, chan[s])
  BY <1>1 DEF pool_send_and_wait_wait, pgVars, ghosts, Moved
<1> HIDE DEF p
<1>4. /\ d.pc = p /\ d.ids = c.ids /\ d.mismatch = c.mismatch /\ d.stmt = c.stmt
      /\ d.count = c.count
  BY <1>1 DEF Children
<1>5. ~c.doomed
  BY <1>1, <1>2 DEF Sound
<1> HIDE DEF d
<1>6. QED
  BY <1>2, <1>3, <1>4, <1>5, KeepRecords

\* A statement of the client.  A transaction is opened, and a lock taken, only
\* where none was open.
LEMMA SimpleQueryRecords ==
    ASSUME Inv, Written, NEW s \in Sessions, NEW st \in Statements[s], NEW b \in Nodes, SimpleQuery(s, st, b)
    PROVE  Written'
<1> DEFINE c0 == child[s]
           W == pool_where_to_send(c0, st, b)
           ids == IF st = "rollback" THEN {} ELSE c0.ids
           c == [c0 EXCEPT !.stmt = st, !.count = @ + 1, !.kind = LockKind,
                    !.dead = FALSE, !.where = W, !.ids = IF st = "rollback" THEN {} ELSE @]
           c2 == IF ToBegin(c) # {} THEN [c EXCEPT !.pc = "begin", !.todo = ToBegin(c)]
                 ELSE AfterBegin(c)
           M == Least(Up)
<1>1. /\ c0.pc = "idle" /\ b \in Up /\ (st = "insert" => c0.tstate[M] = "I")
      /\ child' = [child EXCEPT ![s] = c2]
      /\ chan' = chan /\ acked' = acked /\ UNCHANGED <<alive, log, tx, faulty, down>>
  BY DEF SimpleQuery, pgVars, ghosts, REAL_MASTER_NODE_ID
<1>2. /\ c0 \in Children /\ Up \subseteq Nodes /\ chan = [chan EXCEPT ![s] = chan[s]]
      /\ Sound(c0, tx[s], chan[s], alive, faulty, Up)
  BY SessionTypes
<1>3. /\ ~c0.doomed /\ Idle(c0, tx[s], chan[s], alive, Up)
  BY <1>1, <1>2 DEF Sound, Live
<1>4. st \in AllStatements /\ LockKind \in {0, 1, 3}
  BY ReplicationAssumption
<1>5. M \in Up
  BY <1>1, <1>2, LeastFacts
<1>6. W \subseteq Up
  BY <1>1, <1>5 DEF pool_where_to_send, REAL_MASTER_NODE_ID
<1> HIDE DEF W
<1>7. /\ c \in Children /\ c.stmt = st /\ c.ids = ids /\ c.where = W /\ c.internal = c0.internal
      /\ c.tstate = c0.tstate /\ c.mismatch = c0.mismatch
  <2>1. c = [c0 EXCEPT !.stmt = st, !.count = c0.count + 1, !.kind = LockKind, !.dead = FALSE,
                       !.where = W, !.ids = ids]
    BY <1>2 DEF Children
  <2>2. W \in SUBSET Nodes /\ c0.count + 1 \in Nat /\ ids \in SUBSET (Sessions \X Nat)
    BY <1>2, <1>6 DEF Children
  <2> HIDE DEF c, c0, ids
  <2>3. QED
    BY <1>2, <1>4, <2>1, <2>2, ZenonT(40) DEF Children, c0
<1> HIDE DEF c
<1>8. /\ c2.ids = ids /\ c2.stmt = st /\ c2.mismatch = c0.mismatch
      /\ c2.pc \in {"begin", "lock", "send"}
      /\ c2.pc = "begin" => ToBegin(c) # {}
      /\ c2.pc = "lock" => st = "insert"
  <2>1. CASE ToBegin(c) # {}
    <3>1. c2 = [c EXCEPT !.pc = "begin", !.todo = ToBegin(c)]
      BY <2>1
    <3> HIDE DEF c2
    <3>2. QED
      BY <1>7, <2>1, <3>1 DEF Children
  <2>2. CASE ToBegin(c) = {}
    <3>1. c2 = AfterBegin(c)
      BY <2>2
    <3> HIDE DEF c2
    <3>2. QED
      BY <1>7, <3>1, AfterFacts
  <2>3. QED
    BY <2>1, <2>2
<1> HIDE DEF c2
<1>9. c2.pc \in {"begin", "lock"} => c0.tstate[M] = "I"
  <2>1. ASSUME c2.pc = "begin" PROVE c0.tstate[M] = "I"
    <3>1. PICK n \in W : c0.tstate[n] = "I"
      BY <1>7, <1>8, <2>1 DEF ToBegin
    <3>2. QED
      BY <1>3, <1>5, <1>6, <3>1 DEF Idle, Uniform
  <2>2. QED
    BY <1>1, <1>8, <2>1
<1>10. Moved(s, c2, chan[s])
  BY <1>1, <1>2 DEF Moved
<1>11. ASSUME ~AllDrifted
       PROVE  Records(s, c2, tx[s], chan[s], log, Serving, M)
  <2>1. Records(s, c0, tx[s], chan[s], log, Serving, M)
    BY <1>11 DEF Written
  <2>2. /\ c0.tstate[M] = "I" => c0.ids = {}
        /\ \A n \in Serving : Recorded(s, c0, tx[s][n], chan[s][n], log[n])
    BY <1>1, <1>3, <2>1 DEF Records
  <2>3. ids \subseteq c0.ids /\ (st = "rollback" => ids = {})
    OBVIOUS
  <2> HIDE DEF ids, M
  <2>4. ASSUME NEW n \in Serving PROVE Recorded(s, c2, tx[s][n], chan[s][n], log[n])
    <3>1. chan[s][n] = Empty
      BY <1>3 DEF Serving, Idle, Rest
    <3>2. c0.ids \subseteq Has(tx[s][n], log[n])
      BY <1>3, <2>2, <3>1 DEF Recorded, Idle, Empty
    <3>3. QED
      BY <1>8, <2>3, <3>1, <3>2 DEF Recorded, Empty
  <2>5. c2.pc \in {"begin", "lock", "sync", "abort"} \/ c2.stmt = "rollback" => c2.ids = {}
    BY <1>8, <1>9, <2>2, <2>3
  <2>6. QED
    BY <1>8, <2>4, <2>5 DEF Records
<1>12. QED
  BY <1>1, <1>10, <1>11, ChildRecords

-----------------------------------------------------------------------------
(* The replies.                                                            *)

\* A write counts as done when every node has done it: if no node found the
\* row, all of them have drifted.
LEMMA CommandCompleteRecords ==
    ASSUME Inv, Written, NEW s \in Sessions, CommandComplete(s)
    PROVE  Written'
<1> DEFINE c == child[s]
           t == tx[s]
           ch == chan[s]
           m0 == Least(c.where)
           rows == [n \in Nodes |-> IF n \in c.where THEN ch[n].rows ELSE -1]
           mm == c.mismatch \/ \E n \in c.where : rows[n] # rows[m0]
           is == IF c.stmt \in {"update", "insert"} THEN c.ids \cup {<<s, c.count>>} ELSE c.ids
           d == [c EXCEPT !.pc = "ready", !.ntuples = rows,
                          !.mismatch = @ \/ \E n \in c.where : rows[n] # rows[m0],
                          !.ids = IF c.stmt \in {"update", "insert"} THEN @ \cup {<<s, c.count>>} ELSE @]
<1>1. /\ AllReplied(s) /\ Agree(s) /\ ReadKinds(s) /\ ch[m0].kind = "C"
      /\ child' = [child EXCEPT ![s] = d] /\ acked' = acked
      /\ UNCHANGED <<alive, log, tx, faulty, down>>
  BY DEF CommandComplete, pgVars, ghosts, MASTER_NODE_ID
<1> HIDE DEF d
<1>2. Heard(s, c, ch)
  BY <1>1, HeardFacts
<1>3. PICK ch2 \in [Nodes -> Channels] :
             /\ chan' = [chan EXCEPT ![s] = ch2]
             /\ \A n \in Nodes \ c.where : ch2[n] = ch[n]
             /\ \A n \in c.where : Readied(n, t[n], ch2[n], alive) /\ ch2[n].z = ch[n].z
  BY <1>1, <1>2, ReadKindsFacts
<1>4. /\ c \in Children /\ ~c.doomed /\ c.pc = "reply" /\ Runs(c, t, ch, alive, faulty, Up)
      /\ Up \subseteq Nodes /\ c.where \subseteq Up /\ m0 \in c.where
  BY <1>2 DEF Heard, Answered
<1>5. \A n \in c.where : /\ ch[n].rows \in {0, 1} /\ ch[n].kind = "C" /\ ~ch[n].dead
                         /\ ch[n].is = "reply"
                         /\ Fair(n, c.stmt, c.tstate[n], ch[n], faulty)
  BY <1>1, <1>2 DEF Heard, Answered, Replies
<1>6. ~c.mismatch /\ (c.stmt \in Writes => c.where = Up)
  BY <1>4 DEF Runs, Single, Internal, Writes, is_select_query
<1>7. \A n \in c.where : rows[n] = ch[n].rows
  BY <1>4
<1> HIDE DEF rows
<1>8. d.pc = "ready" /\ d.stmt = c.stmt /\ d.count = c.count /\ d.mismatch = mm /\ d.ids = is
  <2>1. d = [c EXCEPT !.pc = "ready", !.ntuples = rows, !.mismatch = mm, !.ids = is]
    BY <1>4 DEF d, Children
  <2> HIDE DEF mm, is, d, c
  <2>2. QED
    BY <1>4, <2>1 DEF Children
<1>9. ~mm => \A n \in c.where : ch[n].rows = ch[m0].rows
  BY <1>4, <1>7
<1>10. Moved(s, d, ch2)
  BY <1>1, <1>3 DEF Moved
<1>11. \A n \in Up : ch2[n] = ch[n] \/ (ch2[n].is = "ready" /\ n \in c.where)
  BY <1>3, <1>4 DEF Readied
<1> HIDE DEF m0, mm, t
<1>12. ASSUME ~AllDrifted
       PROVE  Records(s, d, tx[s], ch2, log, Serving, Least(Up))
  <2>1. Records(s, c, tx[s], ch, log, Serving, Least(Up))
    BY <1>12 DEF Written
  <2>2. /\ c.stmt = "rollback" => c.ids = {}
        /\ \A n \in Serving : Recorded(s, c, tx[s][n], ch[n], log[n])
    BY <1>4, <2>1 DEF Records
  <2>3. d.stmt = "rollback" => d.ids = {}
    BY <1>8, <2>2
  <2>4. ASSUME NEW n \in Serving, ~mm PROVE c.ids \subseteq Has(tx[s][n], log[n])
    <3>1. Recorded(s, c, tx[s][n], ch[n], log[n]) /\ n \in Up
      BY <2>2 DEF Serving
    <3>2. ~(ch[n].is = "reply" /\ ch[n].kind = "E")
      <4>1. CASE n \in c.where
        BY <1>5, <4>1
      <4>2. CASE n \notin c.where
        BY <1>4, <3>1, <4>2 DEF Runs, Rest, Empty
      <4>3. QED
        BY <4>1, <4>2
    <3>3. QED
      BY <1>6, <3>1, <3>2 DEF Recorded
  <2>5. ASSUME NEW n \in Serving, ~mm, c.stmt \in Writes PROVE <<s, c.count>> \in Has(tx[s][n], log[n])
    <3>1. Recorded(s, c, tx[s][n], ch[n], log[n]) /\ n \in Up /\ n \in c.where
      BY <1>6, <2>2, <2>5 DEF Serving
    <3>2. IF ch[n].rows = 1 THEN <<s, c.count>> \in Has(tx[s][n], log[n]) ELSE "drift" \in Faults
      BY <1>4, <1>5, <2>5, <3>1 DEF Recorded
    <3>3. CASE ch[n].rows # 1
      <4>1. \A m \in Up : ch[m].rows = 0
        BY <1>5, <1>6, <1>9, <2>5, <3>1, <3>3
      <4>2. \A m \in Up : m \in faulty
        <5>1. SUFFICES ASSUME NEW m \in Up, m \notin faulty PROVE FALSE
          OBVIOUS
        <5>2. /\ ch[m].kind = Kind(c.stmt, c.tstate[m]) /\ ch[m].rows = Rows(c.stmt, c.tstate[m])
              /\ ch[m].kind = "C"
          BY <1>5, <1>6, <2>5, <5>1 DEF Fair
        <5>3. QED
          BY <2>5, <4>1, <5>1, <5>2 DEF Kind, Rows
      <4>3. QED
        BY <1>12, <3>2, <3>3, <4>2 DEF AllDrifted
    <3>4. QED
      BY <3>2, <3>3
  <2>6. ASSUME NEW n \in Serving PROVE Recorded(s, d, tx[s][n], ch2[n], log[n])
    <3>1. ~d.mismatch => d.ids \subseteq Has(tx[s][n], log[n])
      BY <1>8, <2>4, <2>5 DEF Writes
    <3>2. QED
      BY <1>8, <3>1 DEF Recorded
  <2>7. QED
    BY <1>8, <2>3, <2>6 DEF Records
<1>13. QED
  BY <1>1, <1>10, <1>12, ChildRecords

LEMMA ErrorResponseRecords ==
    ASSUME Inv, Written, NEW s \in Sessions, ErrorResponse3(s)
    PROVE  Written'
<1> DEFINE c == child[s]
           e == raise_intentional_error_if_need(c)
           d == [e EXCEPT !.ids = {}]
<1>1. /\ AllReplied(s) /\ Agree(s) /\ ReadKinds(s) /\ child' = [child EXCEPT ![s] = d]
      /\ acked' = acked /\ UNCHANGED <<alive, log, tx, faulty, down>>
  BY DEF ErrorResponse3, pgVars, ghosts
<1> HIDE DEF d, e
<1>2. Heard(s, c, chan[s])
  BY <1>1, HeardFacts
<1>3. PICK ch2 \in [Nodes -> Channels] : chan' = [chan EXCEPT ![s] = ch2]
  BY <1>1, <1>2, ReadKindsFacts
<1>4. c \in Children
  BY SessionTypes
<1> HIDE DEF c
<1>5. d.ids = {} /\ d.pc \in {"sync", "ready"}
  <2>1. \/ e = [c EXCEPT !.pc = "sync", !.where = Up, !.todo = Up \ {REAL_MASTER_NODE_ID}]
        \/ e = [c EXCEPT !.pc = "ready"]
    BY DEF e, raise_intentional_error_if_need
  <2>2. e.pc \in {"sync", "ready"} /\ d.pc = e.pc /\ d.ids = {}
    BY <1>4, <2>1 DEF Children, d
  <2>3. QED
    BY <2>2
<1>6. Moved(s, d, ch2)
  BY <1>1, <1>3 DEF Moved
<1>7. QED
  BY <1>1, <1>5, <1>6, EmptyRecords

LEMMA TuplesMismatchRecords ==
    ASSUME Inv, Written, NEW s \in Sessions, tuples_mismatch(s)
    PROVE  Written'
<1> DEFINE c == child[s]
           d == [c EXCEPT !.pc = "abort", !.todo = c.where, !.ids = {}]
           ch2 == [n \in Nodes |-> IF n \in c.where THEN Empty ELSE chan[s][n]]
<1>1. child \in [Sessions -> Children] /\ chan \in [Sessions -> [Nodes -> Channels]]
  BY DEF Inv, Shapes
<1>2. acked' = acked /\ UNCHANGED <<alive, log, tx, faulty, down>>
  BY DEF tuples_mismatch, pgVars
<1>3. \/ End(s) /\ chan' = chan
      \/ Moved(s, d, ch2)
  <2>1. \/ End(s) /\ chan' = chan
        \/ /\ chan' = [chan EXCEPT ![s] = [n \in Nodes |-> IF n \in c.where THEN Empty ELSE @[n]]]
           /\ child' = [child EXCEPT ![s].pc = "abort", ![s].todo = c.where, ![s].ids = {}]
    BY DEF tuples_mismatch
  <2>2. chan' = [chan EXCEPT ![s] = [n \in Nodes |-> IF n \in c.where THEN Empty ELSE @[n]]]
          => chan' = [chan EXCEPT ![s] = ch2]
    BY <1>1
  <2>3. child' = [child EXCEPT ![s].pc = "abort", ![s].todo = c.where, ![s].ids = {}]
          => child' = [child EXCEPT ![s] = d]
    BY <1>1
  <2>4. QED
    BY <1>2, <2>1, <2>2, <2>3 DEF Moved
<1>4. d.ids = {} /\ d.pc = "abort"
  BY <1>1 DEF Children
<1> HIDE DEF d, ch2
<1>5. QED
  BY <1>2, <1>3, <1>4, OverRecords, EmptyRecords

\* The client is told that its writes are there when the transaction is closed
\* on every node, and so there is nothing left that is not in the log.
LEMMA ReadyForQueryRecords ==
    ASSUME Inv, Written, NEW s \in Sessions, ReadyForQuery(s)
    PROVE  Written'
<1> DEFINE c == child[s]
           t == tx[s]
           ch == chan[s]
           T == ToCommit(c)
           z == [n \in Nodes |-> IF n \in c.where THEN ch[n].z ELSE c.tstate[n]]
           closed == z[Least(c.where)] = "I"
           is == IF closed THEN {} ELSE c.ids
           d1 == [c EXCEPT !.pc = "commit", !.todo = T]
           d2 == [NewChild(c.count) EXCEPT !.tstate = z, !.internal = c.internal, !.ids = is]
           ch1 == [n \in Nodes |-> IF n \in T THEN Empty ELSE ch[n]]
           ch2 == [n \in Nodes |-> Empty]
<1>1. c \in Children /\ Sound(c, t, ch, alive, faulty, Up) /\ Up \subseteq Nodes
  BY SessionTypes
<1>2. /\ c.pc = "ready" /\ ~c.mismatch
      /\ T # {} => Moved(s, d1, ch1) /\ acked' = acked
      /\ T = {} => Moved(s, d2, ch2) /\ acked' = IF closed THEN acked \cup c.ids ELSE acked
  <2>1. child \in [Sessions -> Children] /\ chan \in [Sessions -> [Nodes -> Channels]]
    BY DEF Inv, Shapes
  <2>2. /\ c.pc = "ready" /\ ~c.mismatch /\ UNCHANGED <<alive, log, tx, faulty, down>>
    BY DEF ReadyForQuery, pgVars
  <2>3. T # {} => /\ child' = [child EXCEPT ![s].pc = "commit", ![s].todo = T]
                  /\ chan' = [chan EXCEPT ![s] = [n \in Nodes |-> IF n \in T THEN Empty ELSE @[n]]]
                  /\ acked' = acked
    BY DEF ReadyForQuery
  <2>4. T = {} => /\ child' = [child EXCEPT ![s] = d2] /\ chan' = [chan EXCEPT ![s] = ch2]
                  /\ acked' = IF closed THEN acked \cup c.ids ELSE acked
    BY DEF ReadyForQuery, MASTER_NODE_ID
  <2> HIDE DEF T, d2
  <2>5. child' = [child EXCEPT ![s].pc = "commit", ![s].todo = T] => child' = [child EXCEPT ![s] = d1]
    BY <2>1
  <2>6. chan' = [chan EXCEPT ![s] = [n \in Nodes |-> IF n \in T THEN Empty ELSE @[n]]]
          => chan' = [chan EXCEPT ![s] = ch1]
    BY <2>1
  <2> HIDE DEF d1, ch1, ch2, closed
  <2>7. QED
    BY <2>2, <2>3, <2>4, <2>5, <2>6 DEF Moved
<1>3. ~c.doomed /\ Completes(c, t, ch, alive, faulty, Up) /\ Up # {}
  BY <1>1, <1>2 DEF Sound, Live
<1>4. /\ T = {n \in c.where \cap c.internal : c.tstate[n] # "I"}
      /\ (\A n \in Nodes : z[n] = Z(c, ch, n))
      /\ c.where \subseteq Up /\ c.where # {}
  BY <1>1, <1>3 DEF ToCommit, Z, Completes
<1>5. \A n \in Up : ch[n].is # "reply"
  BY <1>3 DEF Completes, Readied, Rest, Empty
<1>6. \A n \in Nodes : ch1[n] = ch[n] \/ ch1[n] = Empty
  OBVIOUS
<1>7. \A n \in Nodes : ch2[n] = Empty
  OBVIOUS
<1>8. Empty.is # "reply"
  BY DEF Empty
<1> HIDE DEF T, z, ch1, ch2
<1>9. CASE T # {}
  <2>1. /\ d1.pc = "commit" /\ d1.ids = c.ids /\ d1.mismatch = c.mismatch /\ d1.stmt = c.stmt
        /\ d1.count = c.count
    BY <1>1 DEF Children
  <2> HIDE DEF d1
  <2>2. \A n \in Up : \/ ch1[n] = chan[s][n]
                      \/ ch1[n].is # "reply" /\ (chan[s][n].is = "reply" => chan[s][n].kind # "E")
    BY <1>1, <1>5, <1>6, <1>8
  <2>3. QED
    BY <1>2, <1>3, <1>9, <2>1, <2>2, KeepRecords
<1>10. CASE T = {}
  <2>1. \A n, m \in Up : z[n] = z[m]
    BY <1>1, <1>3, <1>4, <1>10 DEF Completes, Internal
  <2>2. Least(c.where) \in Up /\ Least(Up) \in Up
    BY <1>1, <1>3, <1>4, LeastFacts
  <2>3. closed <=> z[Least(Up)] = "I"
    BY <2>1, <2>2
  <2>4. d2.pc = "idle" /\ d2.tstate = z /\ d2.ids = is /\ d2.stmt = "none"
    BY DEF NewChild
  <2>5. is \subseteq c.ids /\ (closed => is = {})
    OBVIOUS
  <2>6. closed => \A n \in Up : z[n] = "I"
    BY <2>1, <2>2
  <2> HIDE DEF d2, is, closed, d1
  <2>7. ASSUME ~AllDrifted, NEW n \in Serving PROVE c.ids \subseteq Has(t[n], log[n])
    <3>1. Records(s, c, t, ch, log, Serving, Least(Up))
      BY <2>7 DEF Written
    <3>2. Recorded(s, c, t[n], ch[n], log[n]) /\ n \in Up
      BY <1>2, <1>3, <2>7, <3>1 DEF Records, Serving
    <3>3. QED
      BY <1>2, <1>5, <3>2 DEF Recorded
  <2>8. ASSUME ~AllDrifted, closed, NEW n \in Serving PROVE c.ids \subseteq IdsOf(log[n])
    <3>1. n \in Up /\ n \in alive /\ n \in Nodes
      BY <1>1 DEF Serving
    <3>2. t[n].st = "I"
      <4>1. z[n] = "I" /\ z[n] = Z(c, ch, n)
        BY <1>4, <2>6, <2>8, <3>1
      <4>2. CASE n \in c.where
        BY <1>3, <3>1, <4>1, <4>2 DEF Completes, Readied, In, Z
      <4>3. CASE n \notin c.where
        BY <1>3, <3>1, <4>1, <4>3 DEF Completes, Rest, In, Z
      <4>4. QED
        BY <4>2, <4>3
    <3>3. t[n].w = <<>>
      BY <3>1, <3>2, OpenTx
    <3>4. IdsOf(t[n].w) = {}
      BY <3>3, IdsFacts
    <3>5. QED
      BY <2>7, <2>8, <3>4 DEF Has
  <2>9. AllDrifted \/ \A n \in Serving : acked' \subseteq IdsOf(log[n])
    <3>1. AllDrifted \/ \A n \in Serving : acked \subseteq IdsOf(log[n])
      BY DEF Written, AckedEverywhere, IdsIn, IdsOf
    <3>2. QED
      BY <1>2, <1>10, <2>8, <3>1
  <2>10. AllDrifted \/ Records(s, d2, tx[s], ch2, log, Serving, Least(Up))
    <3>1. SUFFICES ASSUME ~AllDrifted PROVE Records(s, d2, tx[s], ch2, log, Serving, Least(Up))
      OBVIOUS
    <3>2. ASSUME NEW n \in Serving PROVE Recorded(s, d2, tx[s][n], ch2[n], log[n])
      <4>1. d2.ids \subseteq Has(tx[s][n], log[n])
        BY <2>4, <2>5, <2>7, <3>1
      <4>2. QED
        BY <2>4, <4>1 DEF Recorded
    <3>3. QED
      BY <2>3, <2>4, <2>5, <3>2 DEF Records
  <2>11. QED
    BY <1>2, <1>10, <2>9, <2>10, ChildRecords
<1>11. QED
  BY <1>9, <1>10

LEMMA ChildWrites ==
    ASSUME Inv, Written, NEW s \in Sessions, Child(s)
    PROVE  Written'
BY SimpleQueryRecords, do_commandRecords, RepliedRecords, SendRecords, WaitRecords, LostRecords,
   CommandCompleteRecords, ErrorResponseRecords, TuplesMismatchRecords, ReadyForQueryRecords,
   KillRecords, ReconnectRecords DEF Child

LEMMA SameWritten ==
    ASSUME Written, UNCHANGED <<alive, log, tx, faulty, down, child, chan, acked>>
    PROVE  Written'
<1>1. Up' = Up /\ Serving' = Serving /\ (AllDrifted' <=> AllDrifted)
  BY DEF Up, Serving, AllDrifted
<1>2. AckedEverywhere' <=> AckedEverywhere
  BY <1>1 DEF AckedEverywhere, IdsIn
<1>3. QED
  BY <1>1, <1>2 DEF Written

LEMMA InitWritten == Init => Written
<1>1. SUFFICES ASSUME Init PROVE Written
  OBVIOUS
<1>2. <<>> \in Seq(Entries) /\ \A n \in Nodes : log[n] = <<>>
  BY <1>1, EmptySeq DEF Init
<1>3. log \in [Nodes -> Seq(Entries)]
  BY <1>1, <1>2 DEF Init
<1>4. ASSUME NEW s \in Sessions
      PROVE  /\ NothingOpen(tx[s])
             /\ Records(s, child[s], tx[s], chan[s], log, Serving, Least(Up))
  <2>1. child[s] = NewChild(0) /\ \A n \in Nodes : tx[s][n] = NoTx /\ chan[s][n] = Empty
    BY <1>1 DEF Init
  <2>2. child[s].ids = {} /\ child[s].pc = "idle"
    BY <2>1 DEF NewChild
  <2>3. \A n \in Serving : Recorded(s, child[s], tx[s][n], chan[s][n], log[n])
    BY <2>2 DEF Recorded
  <2>4. QED
    BY <2>1, <2>2, <2>3, TxWrites DEF NothingOpen, Records
<1>5. AckedEverywhere
  BY <1>1 DEF Init, AckedEverywhere
<1>6. QED
  BY <1>3, <1>4, <1>5 DEF Written

LEMMA NextWritten == Inv /\ Written /\ [Next]_vars => Written'
<1>1. SUFFICES ASSUME Inv, Written, [Next]_vars PROVE Written'
  OBVIOUS
<1>2. CASE Next
  <2>1. ASSUME NEW n \in Nodes, health_check(n) PROVE Written'
    <3>1. UNCHANGED <<alive, log, tx, faulty, down, child, chan, acked>>
      BY <2>1 DEF health_check, pgVars, ghosts
    <3>2. QED
      BY <1>1, <3>1, SameWritten
  <2>2. QED
    BY <1>1, <1>2, <2>1, PostgresRecords, ChildWrites, CrashRecords, FailoverRecords DEF Next
<1>3. CASE UNCHANGED vars
  <2>1. UNCHANGED <<alive, log, tx, faulty, down, child, chan, acked>>
    BY <1>3 DEF vars
  <2>2. QED
    BY <1>1, <2>1, SameWritten
<1>4. QED
  BY <1>1, <1>2, <1>3

\* A write whose commit was reported to the client is on every node in service,
\* as long as some node in service still finds its rows: crashes, failovers,
\* killed children, deadlocks and errors of single nodes do not lose it
\* (CommandComplete, ReadyForQuery, end_internal_transaction).
THEOREM AckedUnlessDrifted == Spec => [](AllDrifted \/ AckedEverywhere)
<1>1. Written => (AllDrifted \/ AckedEverywhere)
  BY DEF Written
<1>2. QED
  BY <1>1, InitInv, NextInv, InitWritten, NextWritten, PTL DEF Spec

\* In particular, if the data of the nodes does not drift apart by itself.
THEOREM AckedEverywhereSafe ==
    ASSUME "drift" \notin Faults
    PROVE  Spec => []AckedEverywhere
<1>1. AllDrifted \/ AckedEverywhere => AckedEverywhere
  BY DEF AllDrifted
<1>2. QED
  BY <1>1, AckedUnlessDrifted, PTL
-----------------------------------------------------------------------------
(* The steps of a child, field by field: c and ch are the child and its    *)
(* connections before the step, d and ch2 after it.                        *)

\* What a step says in one stroke.
LEMMA MoveBy ==
    ASSUME NEW s, NEW d \in Children, NEW ch2 \in [Nodes -> Channels], Moved(s, d, ch2), seq' = seq,
           cut' <=> (cut \/ (d.pc = "exit" /\ HalfInsert(child[s]))),
           Moves(s, child[s], d, tx[s], chan[s], ch2)
    PROVE  \E e, ch3 : ChildMove(s, e, ch3)
<1>1. ChildMove(s, d, ch2)
  BY DEF ChildMove
<1>2. QED
  BY <1>1

\* The session ends.
LEMMA EndMove ==
    ASSUME Inv, NEW s \in Sessions, NEW c \in Children, NEW ch2 \in [Nodes -> Channels],
           child[s].pc # "exit", SameWork(child[s], c), c.todo \subseteq child[s].todo,
           \A n \in Nodes : ch2[n] = chan[s][n] \/ ch2[n].is \in {"empty", "ready"},
           child' = [child EXCEPT ![s] = Exited(c)], chan' = [chan EXCEPT ![s] = ch2],
           UNCHANGED <<alive, log, tx, faulty, down, seq>>,
           cut' <=> (cut \/ HalfInsert(child[s]))
    PROVE  \E d, ch3 : ChildMove(s, d, ch3)
<1> DEFINE d == Exited(c)
<1>1. /\ d \in Children /\ d.pc = "exit" /\ ~d.doomed
      /\ d.stmt = c.stmt /\ d.count = c.count /\ d.where = c.where /\ d.ids = c.ids /\ d.todo = c.todo
  BY ExitedFacts DEF Exited, Children
<1>2. Moved(s, d, ch2)
  BY DEF Moved
<1> HIDE DEF d
<1>3. MEnd(child[s], d, chan[s], ch2)
  BY <1>1 DEF MEnd, SameWork
<1>4. QED
  BY <1>1, <1>2, <1>3, MoveBy DEF Moves

LEMMA LostMoves ==
    ASSUME Inv, NEW s \in Sessions,
           \/ wait_for_query_response_fails(s)
           \/ \E n \in Nodes : backend_lost(s, n)
           \/ read_kind_mismatch(s)
    PROVE  \E d, ch2 : ChildMove(s, d, ch2)
<1>1. End(s) /\ chan' = chan /\ UNCHANGED <<alive, log, tx, faulty, down, seq>> /\ child[s].pc # "exit"
  BY DEF wait_for_query_response_fails, backend_lost, read_kind_mismatch, pgVars, AllReplied
<1>2. child[s] \in Children /\ chan[s] \in [Nodes -> Channels] /\ chan' = [chan EXCEPT ![s] = chan[s]]
  BY <1>1, SessionTypes
<1>3. child' = [child EXCEPT ![s] = Exited(child[s])] /\ (cut' <=> (cut \/ HalfInsert(child[s])))
  BY <1>1 DEF End
<1>4. QED
  BY <1>1, <1>2, <1>3, EndMove DEF SameWork

LEMMA KillMove ==
    ASSUME Inv, NEW s \in Sessions, Kill(s)
    PROVE  \E d, ch2 : ChildMove(s, d, ch2)
<1> DEFINE c == child[s]
<1>1. /\ child' = [child EXCEPT ![s] = Killed(c)] /\ chan' = chan /\ c.pc # "exit"
      /\ UNCHANGED <<alive, log, tx, faulty, down, seq>> /\ (cut' <=> (cut \/ HalfInsert(c)))
  BY DEF Kill, pgVars
<1>2. c \in Children /\ chan[s] \in [Nodes -> Channels] /\ chan' = [chan EXCEPT ![s] = chan[s]]
  BY <1>1, SessionTypes
<1>3. CASE c.pc = "commit"
  <2> DEFINE d == [c EXCEPT !.doomed = TRUE]
  <2>1. Killed(c) = d
    BY <1>3 DEF Killed, SignalsBlocked
  <2>2. /\ d \in Children /\ d.pc = "commit" /\ d.doomed /\ d.stmt = c.stmt /\ d.count = c.count
        /\ d.where = c.where /\ d.ids = c.ids /\ d.todo = c.todo
    BY <1>2, <1>3 DEF Children
  <2> HIDE DEF d
  <2>3. Moved(s, d, chan[s]) /\ MDoom(c, d, chan[s], chan[s])
    BY <1>1, <1>2, <1>3, <2>1, <2>2 DEF Moved, MDoom, SameWork
  <2>4. ~HalfInsert(c)
    BY <1>3 DEF HalfInsert
  <2>5. QED
    BY <1>1, <1>2, <2>2, <2>3, <2>4, MoveBy DEF Moves
<1>4. CASE c.pc # "commit"
  <2>1. Killed(c) = Exited(c)
    BY <1>4 DEF Killed, SignalsBlocked
  <2>2. QED
    BY <1>1, <1>2, <2>1, EndMove DEF SameWork
<1>5. QED
  BY <1>3, <1>4

LEMMA ReconnectMove ==
    ASSUME Inv, NEW s \in Sessions, Reconnect(s)
    PROVE  \E d, ch2 : ChildMove(s, d, ch2)
<1> DEFINE d == NewChild(child[s].count)
<1>1. /\ chan = [chan EXCEPT ![s] = chan[s]] /\ chan[s] \in [Nodes -> Channels] /\ child[s] \in Children
  BY SessionTypes
<1>2. /\ Moved(s, d, chan[s]) /\ seq' = seq /\ (cut' <=> cut) /\ child[s].pc = "exit"
      /\ \A n \in Nodes : chan[s][n] = Empty /\ tx[s][n] = NoTx
  BY <1>1 DEF Moved, Reconnect, pgVars, ghosts
<1>3. child[s].count \in Nat
  BY <1>1 DEF Children
<1>4. d \in Children /\ d.pc = "idle" /\ d.internal = {} /\ d.todo = {} /\ ~d.doomed
  BY <1>3, NewChildFacts
<1>5. d.stmt = "none" /\ d.count = child[s].count /\ d.ids = {} /\ d.kind = LockKind
  BY DEF NewChild
<1> HIDE DEF d
<1>6. MNew(child[s], d, tx[s], chan[s], chan[s])
  BY <1>2, <1>4, <1>5 DEF MNew
<1>7. QED
  BY <1>1, <1>2, <1>4, <1>6, MoveBy DEF Moves

LEMMA SentMoves ==
    ASSUME Inv, NEW s \in Sessions, NEW S, NEW q \in Queries, Sent(s, S, q)
    PROVE  \E ch2 \in [Nodes -> Channels] :
             chan' = [chan EXCEPT ![s] = ch2] /\ SentTo(S, q, chan[s], ch2)
<1> DEFINE ch2 == [n \in Nodes |-> IF n \notin S THEN chan[s][n]
                                   ELSE IF n \in alive THEN Request(q) ELSE Eof]
<1>1. chan[s] \in [Nodes -> Channels] /\ chan \in [Sessions -> [Nodes -> Channels]]
  BY DEF Inv, Shapes
<1>2. Request(q) \in Channels /\ Eof \in Channels
  BY DEF Request, Requests, Channels
<1>3. ch2 \in [Nodes -> Channels] /\ SentTo(S, q, chan[s], ch2)
  BY <1>1, <1>2 DEF SentTo
<1>4. chan' = [chan EXCEPT ![s] = ch2]
  BY <1>1 DEF Sent
<1> HIDE DEF ch2
<1>5. QED
  BY <1>3, <1>4

LEMMA CommandFacts ==
    ASSUME NEW c, c.pc \in Commands
    PROVE  /\ c.pc = "begin" => Command(c) = "begin"
           /\ c.pc = "lock" => Command(c) = IF c.dead THEN "error" ELSE IF c.kind = 1 THEN "lock" ELSE "rowlock"
           /\ c.pc \in {"sync", "abort"} => Command(c) = "error"
           /\ c.pc = "commit" => Command(c) = "commit"
           /\ Command(c) \in Queries
<1>1. /\ c.pc = "begin" => Command(c) = "begin"
      /\ c.pc = "lock" => Command(c) = IF c.dead THEN "error" ELSE IF c.kind = 1 THEN "lock" ELSE "rowlock"
      /\ c.pc \in {"sync", "abort"} => Command(c) = "error"
      /\ c.pc = "commit" => Command(c) = "commit"
  BY DEF Command
<1>2. QED
  BY <1>1 DEF Commands, Queries, AllStatements, LockQueries

LEMMA CommandMove ==
    ASSUME Inv, NEW s \in Sessions, do_command(s)
    PROVE  \E d, ch2 : ChildMove(s, d, ch2)
<1> DEFINE c == child[s]
           q == Command(c)
           k == Turn(c)
<1>1. /\ c.todo # {} /\ c.pc \in Commands /\ chan[s][k].is = "empty" /\ Sent(s, {k}, q)
      /\ child' = child /\ UNCHANGED <<alive, log, tx, faulty, down, seq, cut>>
  BY DEF do_command, pgVars, ghosts, Commands
<1>2. /\ c \in Children /\ chan[s] \in [Nodes -> Channels] /\ child = [child EXCEPT ![s] = c]
  BY SessionTypes DEF Inv, Shapes
<1>3. k \in c.todo /\ k \in Nodes
  BY <1>1, <1>2, TurnFacts DEF Children
<1>4. chan[s][k] = Empty
  BY <1>1, <1>2, <1>3, ChannelFacts
<1>5. q \in Queries
  BY <1>1, CommandFacts
<1>6. PICK ch2 \in [Nodes -> Channels] :
        chan' = [chan EXCEPT ![s] = ch2] /\ SentTo({k}, q, chan[s], ch2)
  BY <1>1, <1>5, SentMoves
<1>7. Moved(s, c, ch2)
  BY <1>1, <1>2, <1>6 DEF Moved
<1>8. MCommand(c, c, chan[s], ch2)
  BY <1>1, <1>3, <1>4, <1>6 DEF MCommand
<1>9. c.pc # "exit"
  BY <1>1 DEF Commands
<1>10. QED
  BY <1>1, <1>2, <1>6, <1>7, <1>8, <1>9, MoveBy DEF Moves

LEMMA SendMove ==
    ASSUME Inv, NEW s \in Sessions, pool_send_and_wait_send(s)
    PROVE  \E d, ch2 : ChildMove(s, d, ch2)
<1> DEFINE c == child[s]
           S == NextGroup(c, Unsent(s))
           d == [c EXCEPT !.pc = "wait"]
<1>1. c \in Children /\ Sound(c, tx[s], chan[s], alive, faulty, Up) /\ chan[s] \in [Nodes -> Channels]
  BY SessionTypes
<1>2. /\ c.pc = "send" /\ Sent(s, S, c.stmt) /\ child' = [child EXCEPT ![s] = d]
      /\ UNCHANGED <<alive, log, tx, faulty, down, seq, cut>>
  BY DEF pool_send_and_wait_send, pgVars, ghosts
<1>3. S = NextGroup(c, {n \in c.where : chan[s][n].is = "empty"})
  BY DEF Unsent
<1> HIDE DEF S, d
<1>4. c.stmt \in Queries
  <2>1. Runs(c, tx[s], chan[s], alive, faulty, Up)
    BY <1>1, <1>2 DEF Sound, Live
  <2>2. QED
    BY <2>1 DEF Runs, Single, Internal, Writes, AllStatements, Queries
<1>5. PICK ch2 \in [Nodes -> Channels] :
        chan' = [chan EXCEPT ![s] = ch2] /\ SentTo(S, c.stmt, chan[s], ch2)
  BY <1>2, <1>4, SentMoves
<1>6. /\ d \in Children /\ d.pc = "wait" /\ d.ids = c.ids /\ d.stmt = c.stmt /\ d.where = c.where
      /\ d.count = c.count /\ d.kind = c.kind /\ d.dead = c.dead /\ d.tstate = c.tstate
      /\ d.internal = c.internal /\ d.doomed = c.doomed
  BY <1>1 DEF d, Children, Places
<1>7. Moved(s, d, ch2)
  BY <1>2, <1>5 DEF Moved
<1>8. MSend(c, d, chan[s], ch2)
  BY <1>2, <1>3, <1>5, <1>6 DEF MSend, SameWork, SameLock, SameTx
<1>9. QED
  BY <1>2, <1>6, <1>7, <1>8, MoveBy DEF Moves

LEMMA WaitMove ==
    ASSUME Inv, NEW s \in Sessions, pool_send_and_wait_wait(s)
    PROVE  \E d, ch2 : ChildMove(s, d, ch2)
<1> DEFINE c == child[s]
           p == IF Unsent(s) = {} THEN "reply" ELSE "send"
           d == [c EXCEPT !.pc = p]
<1>1. c \in Children /\ chan[s] \in [Nodes -> Channels] /\ chan = [chan EXCEPT ![s] = chan[s]]
      /\ child \in [Sessions -> Children]
  BY SessionTypes DEF Inv, Shapes
<1>2. /\ c.pc = "wait" /\ p \in {"send", "reply"} /\ (\A n \in c.where : chan[s][n].is # "request")
      /\ seq' = seq /\ cut' = cut
  BY DEF pool_send_and_wait_wait, ghosts, pgVars
<1>3. Moved(s, d, chan[s])
  BY <1>1 DEF pool_send_and_wait_wait, pgVars, ghosts, Moved
<1>4. p = "reply" => \A n \in c.where : chan[s][n].is # "empty"
  BY DEF Unsent
<1> HIDE DEF p
<1>5. /\ d \in Children /\ d.pc = p /\ d.ids = c.ids /\ d.stmt = c.stmt /\ d.where = c.where
      /\ d.count = c.count /\ d.kind = c.kind /\ d.dead = c.dead /\ d.tstate = c.tstate
      /\ d.internal = c.internal /\ d.doomed = c.doomed
  BY <1>1, <1>2 DEF Children, Places
<1> HIDE DEF d
<1>6. MWait(c, d, chan[s], chan[s])
  BY <1>2, <1>4, <1>5 DEF MWait, SameWork, SameLock, SameTx
<1>7. QED
  BY <1>1, <1>2, <1>3, <1>5, <1>6, MoveBy DEF Moves

LEMMA BegunMove ==
    ASSUME Inv, NEW s \in Sessions, NEW n \in Nodes, NEW r, r = chan[s][n],
           start_internal_transaction(s, n, r)
    PROVE  \E d, ch2 : ChildMove(s, d, ch2)
<1> DEFINE c0 == child[s]
           c == [c0 EXCEPT !.tstate[n] = r.z, !.todo = @ \ {n}, !.internal = @ \cup {n}]
           d == IF c.todo = {} THEN AfterBegin(c) ELSE c
<1>1. /\ Got(s, "begin", n, r) /\ child' = [child EXCEPT ![s] = d] /\ Left(s, n, Empty)
      /\ UNCHANGED <<alive, log, tx, faulty, down, seq, cut>>
  BY DEF start_internal_transaction, pgVars, ghosts, Left
<1> HIDE DEF c, d
<1>2. c0.pc = "begin" /\ n \in c0.todo /\ r.z \in TxStates /\ r.is = "reply"
  BY <1>1, GotFacts
<1>3. PICK ch2 : Connections(s, n, Empty, ch2)
  BY <1>1, ReadFacts DEF Channels
<1>4. Moved(s, d, ch2) /\ ch2 \in [Nodes -> Channels] /\ ReadOff(n, Empty, chan[s], ch2)
  BY <1>1, <1>2, <1>3 DEF Moved, Connections, ReadOff
<1>5. c0 \in Children /\ Sound(c0, tx[s], chan[s], alive, faulty, Up) /\ Up \subseteq Nodes
  BY SessionTypes
<1>6. Begins(c0, tx[s], chan[s], alive, faulty, Up) /\ Up # {}
  BY <1>2, <1>5 DEF Sound, Live
<1>7. /\ c \in Children /\ c.pc = "begin" /\ c.ids = c0.ids /\ c.todo = c0.todo \ {n}
      /\ c.internal = c0.internal \cup {n} /\ c.stmt = c0.stmt /\ c.where = c0.where
      /\ c.count = c0.count /\ c.kind = c0.kind /\ c.dead = c0.dead /\ c.doomed = c0.doomed
  BY <1>2, <1>5, ZenonT(40) DEF c, Children
<1>8. c.tstate[n] = r.z /\ \A m \in Nodes \ {n} : c.tstate[m] = c0.tstate[m]
  BY <1>5 DEF c, Children
<1>9. r = chan[s][n]
  OBVIOUS
<1> HIDE DEF c0
<1>10. CASE c.todo # {}
  <2>1. d = c
    BY <1>10 DEF d
  <2>2. MBegun(c0, d, chan[s], ch2)
    BY <1>2, <1>4, <1>7, <1>10, <1>8, <1>9, <2>1 DEF MBegun, SameWork, SameLock
  <2>3. QED
    BY <1>1, <1>4, <1>7, <2>1, <2>2, MoveBy DEF Moves, c0
<1>11. CASE c.todo = {}
  <2>1. d = AfterBegin(c) /\ c.where = Up
    BY <1>6, <1>7, <1>11 DEF d, Begins
  <2>2. Least(Up) \in Up
    BY <1>5, <1>6, LeastFacts
  <2>3. CASE need_insert_lock(c) /\ Cardinality(c.where) > 1
    <3>1. d = [c EXCEPT !.pc = "lock", !.todo = {Least(Up)}]
      BY <2>1, <2>3 DEF AfterBegin, MASTER_NODE_ID
    <3>2. /\ d \in Children /\ d.pc = "lock" /\ d.ids = c0.ids /\ d.todo = {Least(Up)}
          /\ d.internal = c0.internal \cup {n} /\ d.stmt = c0.stmt /\ d.where = c0.where
          /\ d.count = c0.count /\ d.kind = c0.kind /\ d.dead = c0.dead /\ d.doomed = c0.doomed
          /\ d.tstate = c.tstate
      BY <1>5, <1>7, <2>2, <3>1 DEF Children, Places
    <3>3. MBegun(c0, d, chan[s], ch2)
      BY <1>2, <1>4, <1>7, <1>11, <1>8, <1>9, <3>2 DEF MBegun, SameWork, SameLock
    <3>4. QED
      BY <1>1, <1>4, <3>2, <3>3, MoveBy DEF Moves, c0
  <2>4. CASE ~(need_insert_lock(c) /\ Cardinality(c.where) > 1)
    <3>1. d = [c EXCEPT !.pc = "send", !.todo = {}]
      BY <2>1, <2>4 DEF AfterBegin, AfterLock
    <3>2. /\ d \in Children /\ d.pc = "send" /\ d.ids = c0.ids
          /\ d.internal = c0.internal \cup {n} /\ d.stmt = c0.stmt /\ d.where = c0.where
          /\ d.count = c0.count /\ d.kind = c0.kind /\ d.dead = c0.dead /\ d.doomed = c0.doomed
          /\ d.tstate = c.tstate
      BY <1>7, <3>1 DEF Children, Places
    <3>3. ~(Cardinality(Up) > 1) => Up = {Least(Up)}
      BY <1>5, <1>6, <2>2, SmallSets
    <3>4. c0.stmt = "insert" => LockKind = 0 \/ Up = {Least(Up)}
      BY <1>7, <2>1, <2>4, <3>3 DEF need_insert_lock
    <3>5. MBegun(c0, d, chan[s], ch2)
      BY <1>2, <1>4, <1>7, <1>11, <1>8, <1>9, <3>2, <3>4 DEF MBegun, SameWork, SameLock
    <3>6. QED
      BY <1>1, <1>4, <3>2, <3>5, MoveBy DEF Moves, c0
  <2>5. QED
    BY <2>3, <2>4
<1>12. QED
  BY <1>10, <1>11

LEMMA LockMasterMove ==
    ASSUME Inv, NEW s \in Sessions, NEW n \in Nodes, NEW r, r = chan[s][n],
           insert_lock_master(s, n, r)
    PROVE  \E d, ch2 : ChildMove(s, d, ch2)
<1> DEFINE c == child[s]
           d == CASE c.kind = 3 /\ r.kind = "C" -> AfterLock(c)
                  [] c.kind = 3 /\ r.kind = "E" -> [c EXCEPT !.kind = 1]
                  [] c.kind = 1 -> [c EXCEPT !.dead = r.dead, !.tstate[n] = r.z,
                                             !.todo = c.where \ {n}]
<1>1. /\ Got(s, "lock", n, r) /\ n = Least(c.where) /\ child' = [child EXCEPT ![s] = d]
      /\ Left(s, n, Empty) /\ UNCHANGED <<alive, log, tx, faulty, down, seq, cut>>
  BY DEF insert_lock_master, pgVars, ghosts, MASTER_NODE_ID, Left
<1> HIDE DEF d
<1>2. c.pc = "lock" /\ n \in c.todo /\ r.kind \in {"C", "E"} /\ r \in Replies /\ r.is = "reply"
  BY <1>1, GotFacts
<1>3. PICK ch2 : Connections(s, n, Empty, ch2)
  BY <1>1, ReadFacts DEF Channels
<1>4. Moved(s, d, ch2) /\ ch2 \in [Nodes -> Channels] /\ ReadOff(n, Empty, chan[s], ch2)
  BY <1>1, <1>2, <1>3 DEF Moved, Connections, ReadOff
<1>5. c \in Children /\ Sound(c, tx[s], chan[s], alive, faulty, Up) /\ Up \subseteq Nodes
  BY SessionTypes
<1>6. Locks(c, tx[s], chan[s], alive, faulty, Up)
  BY <1>2, <1>5 DEF Sound, Live
<1>7. c.where = Up /\ n = Least(Up) /\ c.todo = {n} /\ c.kind \in {1, 3}
  BY <1>1, <1>2, <1>5, <1>6 DEF Locks, LocksMaster, LocksOthers, Children
<1>8. r.dead \in BOOLEAN /\ r.z \in TxStates
  BY <1>2 DEF Replies
<1>9. r = chan[s][Least(Up)]
  BY <1>7
<1> HIDE DEF c
<1>10. CASE c.kind = 3 /\ r.kind = "C"
  <2>1. d = [c EXCEPT !.pc = "send", !.todo = {}]
    BY <1>10 DEF d, AfterLock
  <2>2. /\ d \in Children /\ d.pc = "send" /\ d.ids = c.ids /\ d.internal = c.internal
        /\ d.stmt = c.stmt /\ d.where = c.where /\ d.count = c.count /\ d.kind = c.kind
        /\ d.dead = c.dead /\ d.doomed = c.doomed /\ d.tstate = c.tstate
    BY <1>5, <2>1 DEF Children, Places
  <2>3. MLockMaster(c, d, chan[s], ch2)
    BY <1>2, <1>4, <1>7, <1>9, <1>10, <2>2 DEF MLockMaster, SameWork, SameLock
  <2>4. QED
    BY <1>1, <1>4, <2>2, <2>3, MoveBy DEF Moves, c
<1>11. CASE c.kind = 3 /\ r.kind = "E"
  <2>1. d = [c EXCEPT !.kind = 1]
    BY <1>11 DEF d
  <2>2. /\ d \in Children /\ d.pc = "lock" /\ d.ids = c.ids /\ d.internal = c.internal
        /\ d.stmt = c.stmt /\ d.where = c.where /\ d.count = c.count /\ d.kind = 1
        /\ d.dead = c.dead /\ d.doomed = c.doomed /\ d.tstate = c.tstate /\ d.todo = c.todo
    BY <1>2, <1>5, <2>1 DEF Children, Places
  <2>3. MLockMaster(c, d, chan[s], ch2)
    BY <1>2, <1>4, <1>7, <1>9, <1>11, <2>2 DEF MLockMaster, SameWork, SameLock
  <2>4. QED
    BY <1>1, <1>4, <2>2, <2>3, MoveBy DEF Moves, c
<1>12. CASE c.kind = 1
  <2>1. d = [c EXCEPT !.dead = r.dead, !.tstate[n] = r.z, !.todo = c.where \ {n}]
    BY <1>12 DEF d
  <2>2. /\ d \in Children /\ d.pc = "lock" /\ d.ids = c.ids /\ d.internal = c.internal
        /\ d.stmt = c.stmt /\ d.where = c.where /\ d.count = c.count /\ d.kind = c.kind
        /\ d.dead = r.dead /\ d.doomed = c.doomed /\ d.todo = c.where \ {n}
        /\ d.tstate[n] = r.z /\ \A m \in Nodes \ {n} : d.tstate[m] = c.tstate[m]
    BY <1>2, <1>5, <1>8, <2>1, ZenonT(40) DEF Children, Places
  <2>3. MLockMaster(c, d, chan[s], ch2)
    BY <1>2, <1>4, <1>7, <1>9, <1>12, <2>2, Zenon DEF MLockMaster, SameWork, SameLock
  <2>4. QED
    BY <1>1, <1>4, <2>2, <2>3, MoveBy DEF Moves, c
<1>13. QED
  BY <1>2, <1>7, <1>10, <1>11, <1>12

LEMMA LockOtherMove ==
    ASSUME Inv, NEW s \in Sessions, NEW n \in Nodes, NEW r, r = chan[s][n],
           insert_lock_other(s, n, r)
    PROVE  \E d, ch2 : ChildMove(s, d, ch2)
<1> DEFINE c0 == child[s]
           c == [c0 EXCEPT !.tstate[n] = r.z, !.todo = @ \ {n}]
           d == IF c.todo = {} THEN AfterLock(c) ELSE c
<1>1. /\ Got(s, "lock", n, r) /\ Left(s, n, Empty) /\ n # MASTER_NODE_ID(c)
      /\ r.dead => child' = [child EXCEPT ![s] = Exited(c0)] /\ cut' = (cut \/ HalfInsert(c0))
      /\ ~r.dead => child' = [child EXCEPT ![s] = d] /\ cut' = cut
      /\ UNCHANGED <<alive, log, tx, faulty, down, seq>>
  BY DEF insert_lock_other, pgVars, ghosts, Left, End
<1> HIDE DEF d, c
<1>2. c0.pc = "lock" /\ n \in c0.todo /\ r \in Replies /\ r.is = "reply"
  BY <1>1, GotFacts
<1>3. PICK ch2 : Connections(s, n, Empty, ch2)
  BY <1>1, ReadFacts DEF Channels
<1>4. /\ ch2 \in [Nodes -> Channels] /\ chan' = [chan EXCEPT ![s] = ch2]
      /\ ReadOff(n, Empty, chan[s], ch2)
  BY <1>2, <1>3 DEF Connections, ReadOff
<1>5. c0 \in Children /\ Sound(c0, tx[s], chan[s], alive, faulty, Up) /\ Up \subseteq Nodes
  BY SessionTypes
<1>6. CASE r.dead
  <2>1. \A m \in Nodes : ch2[m] = chan[s][m] \/ ch2[m].is \in {"empty", "ready"}
    BY <1>4 DEF ReadOff, Empty
  <2>2. QED
    BY <1>1, <1>2, <1>4, <1>5, <1>6, <2>1, EndMove DEF SameWork
<1>7. CASE ~r.dead
  <2>1. /\ c \in Children /\ c.pc = "lock" /\ c.ids = c0.ids /\ c.todo = c0.todo \ {n}
        /\ c.internal = c0.internal /\ c.stmt = c0.stmt /\ c.where = c0.where
        /\ c.count = c0.count /\ c.kind = c0.kind /\ c.dead = c0.dead /\ c.doomed = c0.doomed
        /\ c.tstate[n] = r.z /\ \A m \in Nodes \ {n} : c.tstate[m] = c0.tstate[m]
    BY <1>2, <1>5, ZenonT(40) DEF c, Children, Replies
  <2>2. Locks(c0, tx[s], chan[s], alive, faulty, Up)
    BY <1>2, <1>5 DEF Sound, Live
  <2>3. n # Least(Up) /\ Least(Up) \notin c0.todo
    BY <1>1, <1>2, <2>1, <2>2 DEF MASTER_NODE_ID, Locks, LocksMaster, LocksOthers
  <2>4. n = Least(c0.todo)
    BY <1>1, <1>2 DEF Got, Turn
  <2> HIDE DEF c0
  <2>5. /\ d \in Children /\ d.pc = (IF d.todo = {} THEN "send" ELSE "lock") /\ d.ids = c0.ids
        /\ d.todo = c0.todo \ {n} /\ d.internal = c0.internal /\ d.stmt = c0.stmt /\ d.where = c0.where
        /\ d.count = c0.count /\ d.kind = c0.kind /\ d.dead = c0.dead /\ d.doomed = c0.doomed
        /\ d.tstate = c.tstate
    <3>1. CASE c.todo = {}
      <4>1. d = [c EXCEPT !.pc = "send", !.todo = {}]
        BY <3>1 DEF d, AfterLock
      <4>2. QED
        BY <2>1, <3>1, <4>1 DEF Children, Places
    <3>2. CASE c.todo # {}
      <4>1. d = c
        BY <3>2 DEF d
      <4>2. QED
        BY <2>1, <3>2, <4>1
    <3>3. QED
      BY <3>1, <3>2
  <2>6. MLockOther(c0, d, chan[s], ch2)
    BY <1>2, <1>4, <1>7, <2>1, <2>3, <2>4, <2>5, Zenon DEF MLockOther, SameWork, SameLock
  <2>7. Moved(s, d, ch2) /\ d.pc # "exit"
    BY <1>1, <1>4, <1>7, <2>5 DEF Moved
  <2>8. QED
    BY <1>1, <1>4, <1>7, <2>5, <2>6, <2>7, MoveBy DEF Moves, c0
<1>8. QED
  BY <1>6, <1>7

LEMMA ErrorReplyMove ==
    ASSUME Inv, NEW s \in Sessions, NEW n \in Nodes, NEW r, r = chan[s][n],
           do_error_command(s, n, r)
    PROVE  \E d, ch2 : ChildMove(s, d, ch2)
<1> DEFINE c0 == child[s]
           c == [c0 EXCEPT !.todo = @ \ {n}]
           d == IF c.todo = {} THEN [c EXCEPT !.pc = "ready", !.mismatch = FALSE] ELSE c
<1>1. /\ Got(s, "sync", n, r) \/ Got(s, "abort", n, r)
      /\ Left(s, n, Ready(r.z)) /\ child' = [child EXCEPT ![s] = d]
      /\ UNCHANGED <<alive, log, tx, faulty, down, seq, cut>>
  BY DEF do_error_command, pgVars, ghosts, Left
<1> HIDE DEF d, c
<1>2. c0.pc \in {"sync", "abort"} /\ r.z \in TxStates
  BY <1>1, GotFacts
<1>3. Ready(r.z) \in Channels /\ Ready(r.z).is = "ready"
  BY <1>2, ReadyFacts
<1>4. PICK ch2 : Connections(s, n, Ready(r.z), ch2)
  BY <1>1, <1>3, ReadFacts
<1>5. /\ Moved(s, d, ch2) /\ ch2 \in [Nodes -> Channels]
      /\ \A m \in Nodes : ch2[m] = chan[s][m] \/ ch2[m].is \in {"empty", "ready"}
  BY <1>1, <1>3, <1>4 DEF Moved, Connections
<1>6. c0 \in Children /\ ~c0.doomed
  BY <1>2, SessionTypes DEF Sound
<1>7. /\ c \in Children /\ c.pc = c0.pc /\ c.ids = c0.ids /\ c.internal = c0.internal
      /\ c.stmt = c0.stmt /\ c.count = c0.count /\ c.kind = c0.kind /\ c.doomed = c0.doomed
  BY <1>6 DEF c, Children
<1>8. /\ d \in Children /\ d.pc \in {c0.pc, "ready"} /\ d.ids = c0.ids /\ d.internal = c0.internal
      /\ d.stmt = c0.stmt /\ d.count = c0.count /\ d.kind = c0.kind /\ d.doomed = c0.doomed
  <2>1. d = c \/ d = [c EXCEPT !.pc = "ready", !.mismatch = FALSE]
    BY DEF d
  <2>2. QED
    BY <1>7, <2>1 DEF Children, Places
<1>9. MClose(c0, d, chan[s], ch2)
  BY <1>2, <1>5, <1>6, <1>8 DEF MClose, Ending
<1>10. QED
  BY <1>1, <1>2, <1>5, <1>8, <1>9, MoveBy DEF Moves

LEMMA CommitMove ==
    ASSUME Inv, NEW s \in Sessions, NEW n \in Nodes, NEW r, r = chan[s][n],
           end_internal_transaction(s, n, r)
    PROVE  \E d, ch2 : ChildMove(s, d, ch2)
<1> DEFINE c0 == child[s]
           c == [c0 EXCEPT !.todo = @ \ {n}, !.internal = @ \ {n}]
           d == CASE c.todo # {} -> c
                  [] c.todo = {} /\ c.doomed -> Exited(c)
                  [] c.todo = {} /\ ~c.doomed -> [c EXCEPT !.pc = "ready"]
<1>1. /\ Got(s, "commit", n, r) /\ Left(s, n, Ready(r.z)) /\ child' = [child EXCEPT ![s] = d]
      /\ UNCHANGED <<alive, log, tx, faulty, down, seq, cut>>
  BY DEF end_internal_transaction, pgVars, ghosts, Left
<1> HIDE DEF d, c
<1>2. c0.pc = "commit" /\ n \in c0.todo /\ r.is = "reply" /\ r.z \in TxStates /\ n = Turn(c0)
  BY <1>1, GotFacts DEF Got
<1>3. Ready(r.z) \in Channels /\ Ready(r.z).is = "ready"
  BY <1>2, ReadyFacts
<1>4. PICK ch2 : Connections(s, n, Ready(r.z), ch2)
  BY <1>1, <1>3, ReadFacts
<1>5. /\ Moved(s, d, ch2) /\ ch2 \in [Nodes -> Channels] /\ chan' = [chan EXCEPT ![s] = ch2]
      /\ ReadOff(n, Ready(r.z), chan[s], ch2)
      /\ \A m \in Nodes : ch2[m] = chan[s][m] \/ ch2[m].is \in {"empty", "ready"}
  BY <1>1, <1>2, <1>3, <1>4 DEF Moved, Connections, ReadOff
<1>6. c0 \in Children
  BY SessionTypes
<1>7. /\ c \in Children /\ c.pc = "commit" /\ c.ids = c0.ids /\ c.todo = c0.todo \ {n}
      /\ c.internal = c0.internal \ {n} /\ c.stmt = c0.stmt /\ c.where = c0.where
      /\ c.count = c0.count /\ c.kind = c0.kind /\ c.dead = c0.dead /\ c.doomed = c0.doomed
      /\ c.tstate = c0.tstate
  BY <1>2, <1>6 DEF c, Children
<1>8. ~HalfInsert(c0)
  BY <1>2 DEF HalfInsert
<1> HIDE DEF c0
<1>9. CASE c.todo = {} /\ c.doomed
  <2>1. d = Exited(c)
    BY <1>9 DEF d
  <2>2. QED
    BY <1>1, <1>2, <1>5, <1>7, <1>8, <2>1, EndMove DEF SameWork, c0
<1>10. CASE c.todo # {}
  <2>1. d = c
    BY <1>10 DEF d
  <2>2. MCommitted(c0, d, chan[s], ch2)
    BY <1>2, <1>5, <1>7, <1>10, <2>1 DEF MCommitted, SameWork, SameLock
  <2>3. QED
    BY <1>1, <1>5, <1>7, <2>1, <2>2, MoveBy DEF Moves, c0
<1>11. CASE c.todo = {} /\ ~c.doomed
  <2>1. d = [c EXCEPT !.pc = "ready"]
    BY <1>11 DEF d
  <2>2. /\ d \in Children /\ d.pc = "ready" /\ d.ids = c0.ids /\ d.todo = c0.todo \ {n}
        /\ d.internal = c0.internal \ {n} /\ d.stmt = c0.stmt /\ d.where = c0.where
        /\ d.count = c0.count /\ d.kind = c0.kind /\ d.dead = c0.dead /\ d.doomed = c0.doomed
        /\ d.tstate = c0.tstate /\ d.todo = c.todo
    BY <1>7, <2>1 DEF Children, Places
  <2>3. MCommitted(c0, d, chan[s], ch2)
    BY <1>2, <1>5, <1>7, <1>11, <2>2 DEF MCommitted, SameWork, SameLock
  <2>4. QED
    BY <1>1, <1>5, <2>2, <2>3, MoveBy DEF Moves, c0
<1>12. QED
  BY <1>9, <1>10, <1>11

\* The replies have been compared.
LEMMA HeardMove ==
    ASSUME Inv, NEW s \in Sessions, NEW d \in Children, Heard(s, child[s], chan[s]), ReadKinds(s),
           child' = [child EXCEPT ![s] = d], UNCHANGED <<alive, log, tx, faulty, down, seq, cut>>,
           d.stmt = child[s].stmt, d.count = child[s].count, SameLock(child[s], d), SameTx(child[s], d),
           d.doomed = child[s].doomed,
           \/ /\ d.pc = "ready" /\ chan[s][Least(child[s].where)].kind = "C"
              /\ d.ids \subseteq IF child[s].stmt \in Writes
                                 THEN child[s].ids \cup {<<s, child[s].count>>} ELSE child[s].ids
           \/ d.pc \in {"ready", "sync"} /\ d.ids = {} /\ chan[s][Least(child[s].where)].kind = "E"
    PROVE  \E e, ch2 : ChildMove(s, e, ch2)
<1> DEFINE c == child[s]
           ch == chan[s]
<1>1. PICK ch2 \in [Nodes -> Channels] :
             /\ chan' = [chan EXCEPT ![s] = ch2]
             /\ \A n \in Nodes \ c.where : ch2[n] = ch[n]
             /\ \A n \in c.where : Readied(n, tx[s][n], ch2[n], alive) /\ ch2[n].z = ch[n].z
  BY ReadKindsFacts
<1>2. /\ c.pc = "reply" /\ c.where \subseteq Nodes /\ c.where # {}
      /\ \A n \in c.where : ch[n].is = "reply" /\ ch[n].kind = ch[Least(c.where)].kind
  BY DEF Heard, Answered
<1>3. \A n \in c.where : ch2[n].is = "ready"
  BY <1>1 DEF Readied
<1>4. MHeard(s, c, d, ch, ch2)
  <2> HIDE DEF c, ch
  <2>1. QED
    BY <1>1, <1>2, <1>3 DEF MHeard, c, ch
<1>5. Moved(s, d, ch2) /\ d.pc # "exit"
  BY <1>1 DEF Moved
<1>6. QED
  BY <1>1, <1>4, <1>5, MoveBy DEF Moves

LEMMA CompleteMove ==
    ASSUME Inv, NEW s \in Sessions, CommandComplete(s)
    PROVE  \E e, ch2 : ChildMove(s, e, ch2)
<1> DEFINE c == child[s]
           ch == chan[s]
           m0 == Least(c.where)
           rows == [n \in Nodes |-> IF n \in c.where THEN ch[n].rows ELSE -1]
           mm == c.mismatch \/ \E n \in c.where : rows[n] # rows[m0]
           is == IF c.stmt \in {"update", "insert"} THEN c.ids \cup {<<s, c.count>>} ELSE c.ids
           d == [c EXCEPT !.pc = "ready", !.ntuples = rows,
                          !.mismatch = @ \/ \E n \in c.where : rows[n] # rows[m0],
                          !.ids = IF c.stmt \in {"update", "insert"} THEN @ \cup {<<s, c.count>>} ELSE @]
<1>1. /\ AllReplied(s) /\ Agree(s) /\ ReadKinds(s) /\ ch[m0].kind = "C"
      /\ child' = [child EXCEPT ![s] = d] /\ UNCHANGED <<alive, log, tx, faulty, down, seq, cut>>
  BY DEF CommandComplete, pgVars, ghosts, MASTER_NODE_ID
<1> HIDE DEF d
<1>2. Heard(s, c, ch)
  BY <1>1, HeardFacts
<1>3. c \in Children /\ \A n \in c.where : ch[n].rows \in {0, 1}
  BY <1>2 DEF Heard, Answered, Replies
<1>4. rows \in [Nodes -> {-1, 0, 1}] /\ is \in SUBSET (Sessions \X Nat) /\ mm \in BOOLEAN
  BY <1>3 DEF Children
<1> HIDE DEF rows
<1>5. d = [c EXCEPT !.pc = "ready", !.ntuples = rows, !.mismatch = mm, !.ids = is]
  BY <1>3 DEF d, Children
<1>6. is \subseteq IF c.stmt \in Writes THEN c.ids \cup {<<s, c.count>>} ELSE c.ids
  BY DEF Writes
<1> HIDE DEF mm, is, c, ch, m0
<1>7. /\ d \in Children /\ d.pc = "ready" /\ d.ids = is /\ d.stmt = c.stmt /\ d.count = c.count
      /\ d.kind = c.kind /\ d.dead = c.dead /\ d.tstate = c.tstate /\ d.internal = c.internal
      /\ d.doomed = c.doomed
  BY <1>3, <1>4, <1>5, ZenonT(40) DEF Children, Places
<1>8. QED
  BY <1>1, <1>2, <1>6, <1>7, HeardMove DEF SameLock, SameTx, c, ch, m0

LEMMA ErrorResponseMove ==
    ASSUME Inv, NEW s \in Sessions, ErrorResponse3(s)
    PROVE  \E e, ch2 : ChildMove(s, e, ch2)
<1> DEFINE c == child[s]
           e == raise_intentional_error_if_need(c)
           d == [e EXCEPT !.ids = {}]
<1>1. /\ AllReplied(s) /\ Agree(s) /\ ReadKinds(s) /\ chan[s][Least(c.where)].kind = "E"
      /\ child' = [child EXCEPT ![s] = d] /\ UNCHANGED <<alive, log, tx, faulty, down, seq, cut>>
  BY DEF ErrorResponse3, pgVars, ghosts, MASTER_NODE_ID
<1> HIDE DEF d, e
<1>2. Heard(s, c, chan[s])
  BY <1>1, HeardFacts
<1>3. c \in Children /\ Up \subseteq Nodes
  BY SessionTypes
<1> HIDE DEF c
<1>4. /\ d \in Children /\ d.pc \in {"ready", "sync"} /\ d.ids = {} /\ d.stmt = c.stmt
      /\ d.count = c.count /\ d.kind = c.kind /\ d.dead = c.dead /\ d.tstate = c.tstate
      /\ d.internal = c.internal /\ d.doomed = c.doomed
  <2>1. CASE e = [c EXCEPT !.pc = "sync", !.where = Up, !.todo = Up \ {REAL_MASTER_NODE_ID}]
    <3>1. Up \ {REAL_MASTER_NODE_ID} \subseteq Nodes
      BY <1>3
    <3>2. d = [c EXCEPT !.pc = "sync", !.where = Up, !.todo = Up \ {REAL_MASTER_NODE_ID}, !.ids = {}]
      BY <1>3, <2>1 DEF d, Children
    <3>3. QED
      BY <1>3, <3>1, <3>2 DEF Children, Places
  <2>2. CASE e = [c EXCEPT !.pc = "ready"]
    <3>1. d = [c EXCEPT !.pc = "ready", !.ids = {}]
      BY <1>3, <2>2 DEF d, Children
    <3>2. QED
      BY <1>3, <3>1 DEF Children, Places
  <2>3. QED
    BY <2>1, <2>2 DEF e, raise_intentional_error_if_need
<1>5. QED
  BY <1>1, <1>2, <1>4, HeardMove DEF SameLock, SameTx, c

LEMMA TuplesMismatchMove ==
    ASSUME Inv, NEW s \in Sessions, tuples_mismatch(s)
    PROVE  \E e, ch2 : ChildMove(s, e, ch2)
<1> DEFINE c == child[s]
           d == [c EXCEPT !.pc = "abort", !.todo = c.where, !.ids = {}]
           ch2 == [n \in Nodes |-> IF n \in c.where THEN Empty ELSE chan[s][n]]
<1>1. child \in [Sessions -> Children] /\ chan \in [Sessions -> [Nodes -> Channels]]
  BY DEF Inv, Shapes
<1>2. c.pc = "ready" /\ UNCHANGED <<alive, log, tx, faulty, down, seq>>
  BY DEF tuples_mismatch, pgVars
<1>3. c \in Children /\ chan[s] \in [Nodes -> Channels] /\ ~c.doomed
      /\ chan = [chan EXCEPT ![s] = chan[s]]
  BY <1>2, SessionTypes DEF Sound
<1>4. \/ End(s) /\ chan' = chan
      \/ Moved(s, d, ch2) /\ cut' = cut
  <2>1. \/ End(s) /\ chan' = chan
        \/ /\ chan' = [chan EXCEPT ![s] = [n \in Nodes |-> IF n \in c.where THEN Empty ELSE @[n]]]
           /\ child' = [child EXCEPT ![s].pc = "abort", ![s].todo = c.where, ![s].ids = {}]
           /\ cut' = cut
    BY DEF tuples_mismatch
  <2>2. chan' = [chan EXCEPT ![s] = [n \in Nodes |-> IF n \in c.where THEN Empty ELSE @[n]]]
          => chan' = [chan EXCEPT ![s] = ch2]
    BY <1>1
  <2>3. child' = [child EXCEPT ![s].pc = "abort", ![s].todo = c.where, ![s].ids = {}]
          => child' = [child EXCEPT ![s] = d]
    BY <1>1
  <2>4. QED
    BY <1>2, <2>1, <2>2, <2>3 DEF Moved
<1>5. CASE End(s) /\ chan' = chan
  <2>1. child' = [child EXCEPT ![s] = Exited(c)] /\ (cut' <=> (cut \/ HalfInsert(c)))
    BY <1>5 DEF End
  <2>2. chan' = [chan EXCEPT ![s] = chan[s]]
    BY <1>3, <1>5
  <2>3. QED
    BY <1>2, <1>3, <2>1, <2>2, EndMove DEF SameWork
<1>6. CASE Moved(s, d, ch2) /\ cut' = cut
  <2>1. Empty \in Channels /\ Empty.is = "empty"
    BY DEF Channels, Empty
  <2>2. /\ ch2 \in [Nodes -> Channels]
        /\ \A n \in Nodes : ch2[n] = chan[s][n] \/ ch2[n].is \in {"empty", "ready"}
    BY <1>3, <2>1
  <2>3. /\ d \in Children /\ d.pc = "abort" /\ d.ids = {} /\ d.stmt = c.stmt /\ d.count = c.count
        /\ d.kind = c.kind /\ d.internal = c.internal /\ d.doomed = c.doomed
    BY <1>3 DEF Children, Places
  <2> HIDE DEF d, ch2
  <2>4. MClose(c, d, chan[s], ch2)
    BY <1>2, <1>3, <2>2, <2>3 DEF MClose, Ending
  <2>5. QED
    BY <1>2, <1>6, <2>2, <2>3, <2>4, MoveBy DEF Moves
<1>7. QED
  BY <1>4, <1>5, <1>6

LEMMA ReadyForQueryMove ==
    ASSUME Inv, NEW s \in Sessions, ReadyForQuery(s)
    PROVE  \E e, ch2 : ChildMove(s, e, ch2)
<1> DEFINE c == child[s]
           ch == chan[s]
           T == ToCommit(c)
           z == [n \in Nodes |-> IF n \in c.where THEN ch[n].z ELSE c.tstate[n]]
           closed == z[Least(c.where)] = "I"
           is == IF closed THEN {} ELSE c.ids
           d1 == [c EXCEPT !.pc = "commit", !.todo = T]
           d2 == [NewChild(c.count) EXCEPT !.tstate = z, !.internal = c.internal, !.ids = is]
           ch1 == [n \in Nodes |-> IF n \in T THEN Empty ELSE ch[n]]
           ch2 == [n \in Nodes |-> Empty]
<1>1. child \in [Sessions -> Children] /\ chan \in [Sessions -> [Nodes -> Channels]]
  BY DEF Inv, Shapes
<1>2. c \in Children /\ Sound(c, tx[s], ch, alive, faulty, Up) /\ ch \in [Nodes -> Channels]
  BY SessionTypes
<1>3. /\ c.pc = "ready" /\ seq' = seq /\ cut' = cut
      /\ T # {} => Moved(s, d1, ch1)
      /\ T = {} => Moved(s, d2, ch2)
  <2>1. c.pc = "ready" /\ UNCHANGED <<alive, log, tx, faulty, down, seq, cut>>
    BY DEF ReadyForQuery, pgVars
  <2>2. T # {} => /\ child' = [child EXCEPT ![s].pc = "commit", ![s].todo = T]
                  /\ chan' = [chan EXCEPT ![s] = [n \in Nodes |-> IF n \in T THEN Empty ELSE @[n]]]
    BY DEF ReadyForQuery
  <2>3. T = {} => /\ child' = [child EXCEPT ![s] = d2] /\ chan' = [chan EXCEPT ![s] = ch2]
    BY DEF ReadyForQuery, MASTER_NODE_ID
  <2> HIDE DEF T, d2
  <2>4. child' = [child EXCEPT ![s].pc = "commit", ![s].todo = T] => child' = [child EXCEPT ![s] = d1]
    BY <1>1
  <2>5. chan' = [chan EXCEPT ![s] = [n \in Nodes |-> IF n \in T THEN Empty ELSE @[n]]]
          => chan' = [chan EXCEPT ![s] = ch1]
    BY <1>1
  <2> HIDE DEF d1, ch1, ch2
  <2>6. QED
    BY <2>1, <2>2, <2>3, <2>4, <2>5 DEF Moved
<1>4. ~c.doomed
  BY <1>2, <1>3 DEF Sound
<1>5. Empty \in Channels /\ Empty.is = "empty"
  BY DEF Channels, Empty
<1>6. CASE T # {}
  <2>1. T \subseteq Nodes
    BY <1>2 DEF ToCommit, Children
  <2>2. /\ ch1 \in [Nodes -> Channels]
        /\ \A n \in Nodes : ch1[n] = ch[n] \/ ch1[n].is \in {"empty", "ready"}
    BY <1>2, <1>5
  <2> HIDE DEF T, ch1
  <2>3. /\ d1 \in Children /\ d1.pc = "commit" /\ d1.ids = c.ids /\ d1.stmt = c.stmt
        /\ d1.count = c.count /\ d1.kind = c.kind /\ d1.internal = c.internal /\ d1.doomed = c.doomed
    BY <1>2, <2>1 DEF Children, Places
  <2> HIDE DEF d1
  <2>4. MClose(c, d1, ch, ch1)
    BY <1>3, <1>4, <2>2, <2>3 DEF MClose, Ending
  <2>5. QED
    BY <1>3, <1>6, <2>2, <2>3, <2>4, MoveBy DEF Moves
<1>7. CASE T = {}
  <2>1. Completes(c, tx[s], ch, alive, faulty, Up) /\ Up \subseteq Nodes
    BY <1>2, <1>3, <1>4, SessionTypes DEF Sound, Live
  <2>2. z \in [Nodes -> TxStates]
    <3>1. ASSUME NEW n \in c.where, n \in Nodes PROVE ch[n].z \in TxStates
      <4>1. ch[n].is = "ready" /\ ch[n] \in Channels
        BY <1>2, <2>1, <3>1 DEF Completes, Readied
      <4>2. QED
        BY <4>1, ChannelFacts DEF Readies
    <3>2. \A n \in Nodes : c.tstate[n] \in TxStates
      BY <1>2 DEF Children
    <3>3. QED
      BY <3>1, <3>2
  <2>3. is \subseteq c.ids
    OBVIOUS
  <2>4. /\ ch2 \in [Nodes -> Channels]
        /\ \A n \in Nodes : ch2[n] = ch[n] \/ ch2[n].is \in {"empty", "ready"}
    BY <1>5
  <2>5. is \in SUBSET (Sessions \X Nat) /\ c.internal \in SUBSET Nodes /\ c.count \in Nat
    BY <1>2 DEF Children
  <2> DEFINE k == NewChild(c.count)
  <2>6. k \in Children /\ k.pc = "idle" /\ ~k.doomed /\ k.stmt = "none" /\ k.kind = LockKind
        /\ k.count = c.count
    BY <2>5, NewChildFacts DEF NewChild
  <2>7. d2 = [k EXCEPT !.tstate = z, !.internal = c.internal, !.ids = is]
    OBVIOUS
  <2> HIDE DEF z, is, k, d2, ch2, closed
  <2>8. /\ d2 \in Children /\ d2.pc = "idle" /\ d2.ids = is /\ d2.stmt = "none"
        /\ d2.count = c.count /\ d2.kind = LockKind /\ d2.internal = c.internal /\ ~d2.doomed
    BY <2>2, <2>5, <2>6, <2>7 DEF Children, Places
  <2>9. MClose(c, d2, ch, ch2)
    BY <1>3, <2>3, <2>4, <2>8 DEF MClose, Ending
  <2>10. QED
    BY <1>3, <1>7, <2>4, <2>8, <2>9, MoveBy DEF Moves
<1>8. QED
  BY <1>6, <1>7

LEMMA SimpleQueryMove ==
    ASSUME Inv, NEW s \in Sessions, NEW st \in Statements[s], NEW b \in Nodes, SimpleQuery(s, st, b)
    PROVE  \E e, ch2 : ChildMove(s, e, ch2)
<1> DEFINE c0 == child[s]
           W == pool_where_to_send(c0, st, b)
           ids == IF st = "rollback" THEN {} ELSE c0.ids
           c == [c0 EXCEPT !.stmt = st, !.count = @ + 1, !.kind = LockKind,
                    !.dead = FALSE, !.where = W, !.ids = IF st = "rollback" THEN {} ELSE @]
           d == IF ToBegin(c) # {} THEN [c EXCEPT !.pc = "begin", !.todo = ToBegin(c)]
                ELSE AfterBegin(c)
           M == Least(Up)
<1>1. /\ c0.pc = "idle" /\ b \in Up /\ c0.count < MaxStmts[s]
      /\ st \in {"begin", "insert"} => c0.tstate[M] = "I"
      /\ child' = [child EXCEPT ![s] = d]
      /\ chan' = chan /\ UNCHANGED <<alive, log, tx, faulty, down, seq, cut>>
  BY DEF SimpleQuery, pgVars, ghosts, REAL_MASTER_NODE_ID
<1>2. /\ c0 \in Children /\ Up \subseteq Nodes /\ chan = [chan EXCEPT ![s] = chan[s]]
      /\ Sound(c0, tx[s], chan[s], alive, faulty, Up) /\ chan[s] \in [Nodes -> Channels]
  BY SessionTypes
<1>3. ~c0.doomed /\ Idle(c0, tx[s], chan[s], alive, Up)
  BY <1>1, <1>2 DEF Sound, Live
<1>4. st \in AllStatements /\ LockKind \in {0, 1, 3}
  BY ReplicationAssumption
<1>5. M \in Up
  BY <1>1, <1>2, LeastFacts
<1>6. W \subseteq Up /\ W # {} /\ (st = "insert" => W = Up)
  BY <1>1, <1>5 DEF pool_where_to_send, REAL_MASTER_NODE_ID, is_select_query
<1> HIDE DEF W
<1>7. /\ c \in Children /\ c.stmt = st /\ c.ids = ids /\ c.where = W /\ c.internal = c0.internal
      /\ c.tstate = c0.tstate /\ c.count = c0.count + 1 /\ c.kind = LockKind /\ ~c.dead
      /\ c.doomed = c0.doomed
  <2>1. c = [c0 EXCEPT !.stmt = st, !.count = c0.count + 1, !.kind = LockKind, !.dead = FALSE,
                       !.where = W, !.ids = ids]
    BY <1>2 DEF Children
  <2>2. W \in SUBSET Nodes /\ c0.count + 1 \in Nat /\ ids \in SUBSET (Sessions \X Nat)
    BY <1>2, <1>6 DEF Children
  <2> HIDE DEF c, c0, ids
  <2>3. QED
    BY <1>2, <1>4, <2>1, <2>2, ZenonT(40) DEF Children, c0
<1> HIDE DEF c
<1>8. \A n \in Up : c.tstate[n] = c0.tstate[M]
  BY <1>3, <1>5, <1>7 DEF Idle, Uniform
<1>9. /\ Cardinality(W) > 1 => Up # {M}
      /\ st = "insert" /\ ~(Cardinality(W) > 1) => Up = {M}
  <2>1. ~(Cardinality(W) > 1) <=> \E m \in W : W = {m}
    BY <1>2, <1>6, SmallSets
  <2>2. QED
    BY <1>5, <1>6, <2>1
<1>10. ids \subseteq c0.ids
  OBVIOUS
<1> HIDE DEF c0, ids
<1>11. /\ d \in Children /\ d.pc \in {"begin", "send"} /\ d.stmt = st /\ d.ids = ids
       /\ d.internal = c0.internal /\ d.tstate = c0.tstate /\ d.count = c0.count + 1
       /\ d.kind = LockKind /\ ~d.dead /\ d.doomed = c0.doomed
       /\ d.pc = "begin" => Up # {M}
       /\ d.pc = "send" /\ st = "insert" => Up = {M}
  <2>1. CASE ToBegin(c) # {}
    <3>1. d = [c EXCEPT !.pc = "begin", !.todo = ToBegin(c)]
      BY <2>1
    <3>2. ToBegin(c) \subseteq Nodes /\ Cardinality(W) > 1
      BY <1>2, <1>6, <1>7, <2>1 DEF ToBegin
    <3> HIDE DEF d
    <3>3. QED
      BY <1>7, <1>9, <3>1, <3>2 DEF Children, Places
  <2>2. CASE ToBegin(c) = {}
    <3>1. st = "insert" => ~(Cardinality(W) > 1)
      <4>1. SUFFICES ASSUME st = "insert", Cardinality(W) > 1 PROVE FALSE
        OBVIOUS
      <4>2. M \in ToBegin(c)
        BY <1>1, <1>3, <1>5, <1>6, <1>7, <1>8, <4>1 DEF ToBegin, Idle, c0
      <4>3. QED
        BY <2>2, <4>2
    <3>2. d = [c EXCEPT !.pc = "send", !.todo = {}]
      BY <1>7, <2>2, <3>1 DEF AfterBegin, AfterLock, need_insert_lock
    <3> HIDE DEF d
    <3>3. QED
      BY <1>7, <1>9, <3>1, <3>2 DEF Children, Places
  <2>3. QED
    BY <2>1, <2>2
<1> HIDE DEF d
<1>12. MQuery(s, c0, d, chan[s], chan[s])
  BY <1>1, <1>3, <1>4, <1>10, <1>11 DEF MQuery, SameTx, c0
<1>13. Moved(s, d, chan[s]) /\ d.pc # "exit"
  BY <1>1, <1>2, <1>11 DEF Moved
<1>14. QED
  BY <1>1, <1>2, <1>11, <1>12, <1>13, MoveBy DEF Moves, c0

LEMMA ChildMoves ==
    ASSUME Inv, NEW s \in Sessions, Child(s)
    PROVE  \E d, ch2 : ChildMove(s, d, ch2)
<1>1. ASSUME NEW n \in Nodes, Replied(s, n, chan[s][n])
      PROVE  \E d, ch2 : ChildMove(s, d, ch2)
  <2> DEFINE r == chan[s][n]
  <2>1. r = chan[s][n]
    OBVIOUS
  <2> HIDE DEF r
  <2>2. Replied(s, n, r)
    BY <1>1, <2>1
  <2>3. QED
    BY <2>1, <2>2, BegunMove, LockMasterMove, LockOtherMove, ErrorReplyMove, CommitMove DEF Replied
<1>2. QED
  BY <1>1, SimpleQueryMove, CommandMove, SendMove, WaitMove, LostMoves, CompleteMove,
     ErrorResponseMove, TuplesMismatchMove, ReadyForQueryMove, KillMove, ReconnectMove DEF Child

-----------------------------------------------------------------------------
(* The steps of a backend, field by field: x and y are the transaction of  *)
(* session s on node n and its connection before the step, x2 and y2 after *)
(* it.                                                                     *)

LEMMA ReplyFacts ==
    ASSUME NEW kind \in {"C", "E"}, NEW rows \in {0, 1}, NEW z \in TxStates, NEW dead \in BOOLEAN
    PROVE  /\ Reply(kind, rows, z, dead) \in Channels /\ Reply(kind, rows, z, dead).is = "reply"
           /\ Reply(kind, rows, z, dead).kind = kind
           /\ kind = "C" => Done(Reply(kind, rows, z, dead))
BY DEF Reply, Channels, Replies, Done

\* A plain answer.
LEMMA AnswerServed ==
    ASSUME Inv, NEW s \in Sessions, NEW n \in Nodes, NEW kind \in {"C", "E"}, NEW rows \in {0, 1},
           NEW x2 \in TxRecs, Answer(s, n, kind, rows, x2), Asked(s, n, Queries),
           faulty \subseteq faulty',
           ASSUME NEW y2 \in Channels, Answers(n, chan[s][n], y2), y2.kind = kind,
                  kind = "C" => Done(y2)
           PROVE  Serves(s, n, tx[s][n], chan[s][n], x2, y2)
    PROVE  \E x, y : Served(s, n, x, y)
<1> DEFINE y2 == Reply(kind, rows, x2.st, FALSE)
<1>1. x2.st \in TxStates
  BY DEF TxRecs
<1>2. y2 \in Channels /\ y2.is = "reply" /\ y2.kind = kind /\ (kind = "C" => Done(y2))
  BY <1>1, ReplyFacts
<1>3. /\ tx' = [tx EXCEPT ![s][n] = x2] /\ chan' = [chan EXCEPT ![s][n] = y2]
      /\ UNCHANGED <<alive, down, child, acked>>
  BY DEF Answer
<1> HIDE DEF y2
<1>4. Answers(n, chan[s][n], y2)
  BY <1>2 DEF Answers, Asked
<1>5. Served(s, n, x2, y2)
  BY <1>2, <1>3, <1>4 DEF Served
<1>6. QED
  BY <1>5

LEMMA BeginServed ==
    ASSUME Inv, NEW s \in Sessions, NEW n \in Nodes, pg_begin(s, n)
    PROVE  \E x, y : Served(s, n, x, y)
<1> DEFINE x2 == [tx[s][n] EXCEPT !.st = "T"]
<1>1. /\ Asked(s, n, {"begin"}) /\ Answer(s, n, "C", 0, x2) /\ UNCHANGED <<log, seq>>
      /\ faulty' = faulty /\ tx[s][n].st # "E" /\ cut' = cut
  BY DEF pg_begin, Answer
<1>2. chan[s][n].q = "begin" /\ tx[s][n] \in TxRecs /\ Asked(s, n, Queries)
  BY <1>1, AskedFacts DEF Asked
<1>3. x2 \in TxRecs /\ x2.st = "T" /\ x2.w = tx[s][n].w /\ x2.locks = tx[s][n].locks
  BY <1>2 DEF TxRecs, TxStates
<1> HIDE DEF x2
<1>4. ASSUME NEW y2, Answers(n, chan[s][n], y2), Done(y2)
      PROVE  Serves(s, n, tx[s][n], chan[s][n], x2, y2)
  BY <1>1, <1>2, <1>3, <1>4 DEF Serves, BBegin, Quietly
<1>5. QED
  BY <1>1, <1>2, <1>3, <1>4, AnswerServed

LEMMA EndServed ==
    ASSUME Inv, NEW s \in Sessions, NEW n \in Nodes, pg_end(s, n)
    PROVE  \E x, y : Served(s, n, x, y)
<1>1. /\ Asked(s, n, {"commit", "rollback"}) /\ Answer(s, n, "C", 0, NoTx)
      /\ log' = IF chan[s][n].q = "commit" THEN [log EXCEPT ![n] = @ \o tx[s][n].w] ELSE log
      /\ faulty' = faulty /\ seq' = seq /\ cut' = cut
  BY DEF pg_end, Answer
<1>2. chan[s][n].q \in {"commit", "rollback"} /\ Asked(s, n, Queries)
  BY <1>1, AskedFacts DEF Asked
<1>3. ASSUME NEW y2, Answers(n, chan[s][n], y2), Done(y2)
      PROVE  Serves(s, n, tx[s][n], chan[s][n], NoTx, y2)
  BY <1>1, <1>2, <1>3 DEF Serves, BEnd
<1>4. QED
  BY <1>1, <1>2, <1>3, AnswerServed, TxFacts

LEMMA FailServed ==
    ASSUME Inv, NEW s \in Sessions, NEW n \in Nodes,
           pg_error(s, n) \/ pg_local_error(s, n) \/ pg_deadlock(s, n)
    PROVE  \E x, y : Served(s, n, x, y)
<1> DEFINE x2 == Aborted(tx[s][n])
           y == chan[s][n]
<1>1. tx[s][n] \in TxRecs
  BY DEF Inv, Shapes
<1>2. x2 \in TxRecs /\ x2.st \in TxStates
  BY <1>1, TxFacts DEF TxRecs
<1>3. PICK dead \in BOOLEAN :
        /\ tx' = [tx EXCEPT ![s][n] = x2] /\ chan' = [chan EXCEPT ![s][n] = Reply("E", 0, x2.st, dead)]
        /\ UNCHANGED <<alive, down, child, acked, log, seq>> /\ faulty \subseteq faulty'
        /\ cut => cut'
        /\ y.q = "insert" /\ tx[s][n].st # "E" => cut'
        /\ n \in alive /\ y.is = "request" /\ y.q \notin {"commit", "rollback"}
  <2>1. CASE pg_error(s, n)
    <3>1. /\ tx' = [tx EXCEPT ![s][n] = x2] /\ chan' = [chan EXCEPT ![s][n] = Reply("E", 0, x2.st, FALSE)]
          /\ UNCHANGED <<alive, down, child, acked, log, seq>> /\ faulty' = faulty /\ cut' = cut
      BY <2>1 DEF pg_error, Answer
    <3>2. n \in alive /\ y.is = "request" /\ y.q \notin {"commit", "rollback"}
          /\ (y.q = "insert" /\ tx[s][n].st # "E" => FALSE)
      BY <2>1 DEF pg_error, Asked
    <3>3. QED
      BY <3>1, <3>2
  <2>2. CASE pg_local_error(s, n)
    <3>1. /\ tx' = [tx EXCEPT ![s][n] = x2] /\ chan' = [chan EXCEPT ![s][n] = Reply("E", 0, x2.st, FALSE)]
          /\ UNCHANGED <<alive, down, child, acked, log, seq>> /\ faulty \subseteq faulty'
          /\ cut' = (cut \/ y.q = "insert")
      BY <2>2 DEF pg_local_error
    <3>2. n \in alive /\ y.is = "request" /\ y.q \notin {"commit", "rollback"}
      BY <2>2 DEF pg_local_error, Asked
    <3>3. (cut => cut') /\ (y.q = "insert" => cut')
      BY <3>1
    <3>4. QED
      BY <3>1, <3>2, <3>3
  <2>3. CASE pg_deadlock(s, n)
    <3>1. /\ tx' = [tx EXCEPT ![s][n] = x2] /\ chan' = [chan EXCEPT ![s][n] = Reply("E", 0, x2.st, TRUE)]
          /\ UNCHANGED <<alive, down, child, acked, log, seq>> /\ faulty' = faulty /\ cut' = cut
      BY <2>3 DEF pg_deadlock
    <3>2. n \in alive /\ y.is = "request" /\ y.q \in {"lock", "rowlock"}
      BY <2>3 DEF pg_deadlock, Asked
    <3>3. QED
      BY <3>1, <3>2
  <2>4. QED
    BY <2>1, <2>2, <2>3
<1> DEFINE y2 == Reply("E", 0, x2.st, dead)
<1>4. y2 \in Channels /\ y2.is = "reply" /\ y2.kind = "E"
  BY <1>2, ReplyFacts
<1>5. /\ tx' = [tx EXCEPT ![s][n] = x2] /\ chan' = [chan EXCEPT ![s][n] = y2] /\ x2 = Aborted(tx[s][n])
  BY <1>3
<1> HIDE DEF x2, y2
<1>6. BFail(n, tx[s][n], y, x2, y2)
  BY <1>3, <1>4, <1>5 DEF BFail, Answers
<1>7. Served(s, n, x2, y2)
  BY <1>2, <1>3, <1>4, <1>5, <1>6 DEF Served, Serves
<1>8. QED
  BY <1>7

LEMMA SelectServed ==
    ASSUME Inv, NEW s \in Sessions, NEW n \in Nodes, pg_select(s, n) \/ pg_drift(s, n)
    PROVE  \E x, y : Served(s, n, x, y)
<1>1. /\ Asked(s, n, {"select", "update"}) /\ Answer(s, n, "C", 0, tx[s][n]) /\ UNCHANGED <<log, seq>>
      /\ faulty \subseteq faulty' /\ cut' = cut
      /\ chan[s][n].q = "select" \/ (chan[s][n].q = "update" /\ n \in faulty')
  BY DEF pg_select, pg_drift, Answer, Asked
<1>2. tx[s][n] \in TxRecs /\ Asked(s, n, Queries)
  BY <1>1, AskedFacts DEF Asked
<1>3. ASSUME NEW y2, Answers(n, chan[s][n], y2), Done(y2)
      PROVE  Serves(s, n, tx[s][n], chan[s][n], tx[s][n], y2)
  BY <1>1, <1>2, <1>3 DEF Serves, BSame, Quietly
<1>4. QED
  BY <1>1, <1>2, <1>3, AnswerServed

LEMMA LockServed ==
    ASSUME Inv, NEW s \in Sessions, NEW n \in Nodes, pg_lock(s, n)
    PROVE  \E x, y : Served(s, n, x, y)
<1> DEFINE q == chan[s][n].q
           x2 == [tx[s][n] EXCEPT !.locks = @ \cup {q}]
<1>1. /\ Asked(s, n, {"lock", "rowlock"}) /\ Answer(s, n, "C", 0, x2) /\ UNCHANGED <<log, seq>>
      /\ faulty' = faulty /\ cut' = cut /\ tx[s][n].st # "E" /\ Free(q, s, n)
  BY DEF pg_lock, Answer
<1>2. q \in LockQueries /\ tx[s][n] \in TxRecs /\ Asked(s, n, Queries)
  BY <1>1, AskedFacts DEF Asked, LockQueries
<1>3. x2 \in TxRecs /\ x2.st = tx[s][n].st /\ x2.w = tx[s][n].w /\ x2.locks = tx[s][n].locks \cup {q}
  BY <1>2 DEF TxRecs, LockQueries
<1> HIDE DEF x2
<1>4. ASSUME NEW y2, Answers(n, chan[s][n], y2), Done(y2)
      PROVE  Serves(s, n, tx[s][n], chan[s][n], x2, y2)
  BY <1>1, <1>2, <1>3, <1>4 DEF Serves, BLock, Quietly
<1>5. QED
  BY <1>1, <1>2, <1>3, <1>4, AnswerServed

LEMMA WriteServed ==
    ASSUME Inv, NEW s \in Sessions, NEW n \in Nodes, pg_update(s, n) \/ pg_insert(s, n)
    PROVE  \E x, y : Served(s, n, x, y)
<1> DEFINE t == tx[s][n]
           q == chan[s][n].q
           e == [id |-> <<s, child[s].count>>, val |-> IF q = "update" THEN 0 ELSE seq[n] + 1]
           l == IF q = "update" THEN {"row"} ELSE {}
           x2 == IF t.st = "I" THEN NoTx ELSE [t EXCEPT !.w = Append(@, e), !.locks = @ \cup l]
<1>1. /\ Asked(s, n, Writes) /\ Write(s, n, e, l) /\ t.st # "E" /\ faulty' = faulty
      /\ seq' = IF q = "update" THEN seq ELSE [seq EXCEPT ![n] = @ + 1]
      /\ q = "update" => Free("row", s, n)
  <2>1. CASE pg_update(s, n)
    BY <2>1 DEF pg_update, Asked, Writes
  <2>2. CASE pg_insert(s, n)
    BY <2>2 DEF pg_insert, Asked, Writes
  <2>3. QED
    BY <2>1, <2>2
<1>2. /\ Answer(s, n, "C", 1, x2) /\ cut' = cut
      /\ log' = IF t.st = "I" THEN [log EXCEPT ![n] = Append(@, e)] ELSE log
  BY <1>1 DEF Write, Answer
<1>3. q \in Writes /\ t \in TxRecs /\ Asked(s, n, Queries) /\ child[s].count \in Nat /\ seq[n] \in Nat
  BY <1>1, AskedFacts DEF Asked
<1>4. e \in Entries
  BY <1>3 DEF Entries
<1>5. e = [id |-> <<s, child[s].count>>, val |-> IF q = "update" THEN 0 ELSE seq[n] + 1]
  OBVIOUS
<1> HIDE DEF e
<1>6. Append(t.w, e) \in Seq(Entries) /\ t.locks \cup l \in SUBSET {"row", "lock", "rowlock"}
      /\ (q # "update" => t.locks \cup l = t.locks) /\ (q = "update" => t.locks \cup l = t.locks \cup {"row"})
  <2>1. t.w \in Seq(Entries) /\ t.locks \subseteq {"row", "lock", "rowlock"}
    BY <1>3 DEF TxRecs
  <2>2. Append(t.w, e) \in Seq(Entries)
    BY <1>4, <2>1, AppendProperties
  <2>3. QED
    BY <2>1, <2>2
<1> HIDE DEF l
<1>7. /\ x2 \in TxRecs /\ (t.st = "I" => x2 = NoTx)
      /\ t.st # "I" => x2.st = t.st /\ x2.w = Append(t.w, e) /\ x2.locks = t.locks \cup l
  BY <1>3, <1>6, TxFacts DEF TxRecs
<1> HIDE DEF x2
<1>8. ASSUME NEW y2, Answers(n, chan[s][n], y2), Done(y2)
      PROVE  Serves(s, n, tx[s][n], chan[s][n], x2, y2)
  <2>1. BWrite(s, n, t, chan[s][n], x2, y2, e)
    BY <1>1, <1>2, <1>3, <1>5, <1>6, <1>7, <1>8 DEF BWrite
  <2>2. QED
    BY <1>4, <2>1 DEF Serves
<1>9. QED
  BY <1>1, <1>2, <1>3, <1>7, <1>8, AnswerServed

LEMMA DisconnectServed ==
    ASSUME Inv, NEW s \in Sessions, NEW n \in Nodes, pg_disconnect(s, n)
    PROVE  \E x, y : Served(s, n, x, y)
<1>1. NoTx \in TxRecs /\ Empty \in Channels
  BY TxFacts DEF Channels
<1>2. BGone(s, NoTx, chan[s][n], Empty)
  BY DEF pg_disconnect, BGone, Quietly, ghosts
<1>3. Served(s, n, NoTx, Empty)
  BY <1>1, <1>2 DEF pg_disconnect, Served, Serves, ghosts
<1>4. QED
  BY <1>3

LEMMA BackendServes ==
    ASSUME Inv, NEW s \in Sessions, NEW n \in Nodes, Backend(s, n)
    PROVE  \E x, y : Served(s, n, x, y)
BY BeginServed, EndServed, FailServed, SelectServed, WriteServed, LockServed, DisconnectServed
   DEF Backend

-----------------------------------------------------------------------------
(* Locks and the steps of the nodes.                                       *)

\* What a request in hand says about its child.
LEMMA LiveRequest ==
    ASSUME NEW c \in Children, NEW t, NEW ch, NEW al, NEW fl, NEW up \in SUBSET Nodes,
           NEW n \in Nodes, ch[n].is = "request", Live(c, t, ch, al, fl, up), c.pc # "exit"
    PROVE  /\ n \in up /\ c.pc \notin {"idle", "ready"}
           /\ c.pc = "begin" => n \in c.todo /\ ch[n].q = "begin"
           /\ c.pc = "lock" => n \in c.todo /\ ch[n].q \in LockQueries \cup {"error"}
           /\ c.pc \in Running => ch[n].q = c.stmt /\ n \in c.where
           /\ c.pc \in {"sync", "abort"} => ch[n].q = "error"
           /\ c.pc = "commit" => ch[n].q = "commit" /\ n \in c.todo
<1>1. n \in up /\ ch[n] # Empty
  BY DEF Live, Empty
<1>2. c.pc = "idle" => FALSE
  BY <1>1 DEF Live, Idle, Rest
<1>3. c.pc = "begin" => n \in c.todo /\ ch[n].q = "begin"
  <2>1. SUFFICES ASSUME c.pc = "begin" PROVE n \in c.todo /\ ch[n].q = "begin"
    OBVIOUS
  <2>2. Begins(c, t, ch, al, fl, up)
    BY <2>1 DEF Live
  <2>3. n \in c.todo
    BY <1>1, <2>2 DEF Begins, Rest
  <2>4. Ask(n, "begin", "I", t[n], ch[n], al, fl)
    BY <2>2, <2>3 DEF Begins
  <2>5. QED
    BY <2>3, <2>4 DEF Ask
<1>4. c.pc = "lock" => n \in c.todo /\ ch[n].q \in LockQueries \cup {"error"}
  <2>1. SUFFICES ASSUME c.pc = "lock" PROVE n \in c.todo /\ ch[n].q \in LockQueries \cup {"error"}
    OBVIOUS
  <2>2. Locks(c, t, ch, al, fl, up)
    BY <2>1 DEF Live
  <2>3. CASE LocksMaster(c, t, ch, al, fl, up)
    <3>1. n \in c.todo
      BY <1>1, <2>3 DEF LocksMaster, Rest
    <3>2. ch[n].q \in LockQueries
      BY <2>3, <3>1 DEF LocksMaster, Ask, LockQueries
    <3>3. QED
      BY <3>1, <3>2
  <2>4. CASE LocksOthers(c, t, ch, al, fl, up)
    <3>1. n \in c.todo
      BY <1>1, <2>4 DEF LocksOthers, Rest
    <3>2. ch[n].q \in {"error", "lock"}
      BY <2>4, <3>1 DEF LocksOthers, Ask
    <3>3. QED
      BY <3>1, <3>2 DEF LockQueries
  <2>5. QED
    BY <2>2, <2>3, <2>4 DEF Locks
<1>5. c.pc \in Running => ch[n].q = c.stmt /\ n \in c.where
  <2>1. SUFFICES ASSUME c.pc \in Running PROVE ch[n].q = c.stmt /\ n \in c.where
    OBVIOUS
  <2>2. Runs(c, t, ch, al, fl, up)
    BY <2>1 DEF Live, Running
  <2>3. n \in c.where
    BY <1>1, <2>2 DEF Runs, Rest
  <2>4. Ask(n, c.stmt, c.tstate[n], t[n], ch[n], al, fl)
    BY <2>2, <2>3 DEF Runs
  <2>5. QED
    BY <2>3, <2>4 DEF Ask
<1>6. c.pc = "ready" => FALSE
  BY <1>1 DEF Live, Completes, Rest, Readied
<1>7. c.pc \in {"sync", "abort"} => ch[n].q = "error"
  <2>1. SUFFICES ASSUME c.pc \in {"sync", "abort"} PROVE ch[n].q = "error"
    OBVIOUS
  <2>2. Errs(c, t, ch, al, fl, up)
    BY <2>1 DEF Live
  <2>3. n \in c.todo
    BY <1>1, <2>2 DEF Errs, Readied
  <2>4. Ask(n, "error", "T", t[n], ch[n], al, fl)
    BY <2>2, <2>3 DEF Errs
  <2>5. QED
    BY <2>4 DEF Ask
<1>8. c.pc = "commit" => ch[n].q = "commit" /\ n \in c.todo
  <2>1. SUFFICES ASSUME c.pc = "commit" PROVE ch[n].q = "commit" /\ n \in c.todo
    OBVIOUS
  <2>2. Commits(c, t, ch, al, fl, up)
    BY <2>1 DEF Live
  <2>3. n \in c.todo
    BY <1>1, <2>2 DEF Commits, Readied
  <2>4. PICK st \in TxStates : Ask(n, "commit", st, t[n], ch[n], al, fl)
    BY <2>2, <2>3 DEF Commits
  <2>5. QED
    BY <2>3, <2>4 DEF Ask
<1>9. QED
  BY <1>1, <1>2, <1>3, <1>4, <1>5, <1>6, <1>7, <1>8

\* What a statement of the client may be while it runs.
LEMMA RunsFacts ==
    ASSUME NEW c \in Children, NEW t, NEW ch, NEW al, NEW fl, NEW up \in SUBSET Nodes,
           Live(c, t, ch, al, fl, up), c.pc \in Running
    PROVE  /\ Runs(c, t, ch, al, fl, up) /\ c.stmt \in AllStatements
           /\ c.stmt \in Writes => c.where = up
           /\ Least(up) \in up
<1>1. Runs(c, t, ch, al, fl, up) /\ up # {}
  BY DEF Live, Running
<1>2. c.stmt \in AllStatements /\ (c.stmt \in Writes => c.where = up)
  BY <1>1 DEF Runs, Single, Internal, Writes, AllStatements, is_select_query
<1>3. QED
  BY <1>1, <1>2, LeastFacts

\* A session whose backends are left alone, while faults are found elsewhere.
LEMMA HeldKept ==
    ASSUME NEW c, NEW t, NEW ch, NEW al, NEW fl, NEW fl2, NEW up, fl \subseteq fl2,
           HeldBy(c, t, ch, al, fl, up)
    PROVE  HeldBy(c, t, ch, al, fl2, up)
<1>1. HeldRows(c, t, al, fl, up) => HeldRows(c, t, al, fl2, up)
  BY DEF HeldRows, RowFirst
<1>2. RowTaken(c, t, ch, fl, up) => RowTaken(c, t, ch, fl2, up)
  BY DEF RowTaken
<1>3. HeldRunning(c, t, ch, fl, up) => HeldRunning(c, t, ch, fl2, up)
  BY <1>2 DEF HeldRunning
<1>4. QED
  BY <1>1, <1>3 DEF HeldBy, Holds

LEMMA LockSetFacts ==
    /\ NoTx.locks = {} /\ NoTx.st = "I"
    /\ \A t \in TxRecs : Aborted(t).locks = {} /\ Aborted(t).st # "T"
BY DEF NoTx, Aborted, TxRecs

LEMMA ServedReply ==
    ASSUME NEW s, NEW n, NEW x, NEW y, NEW x2, NEW y2, Serves(s, n, x, y, x2, y2)
    PROVE  /\ y2.is = "reply" \/ y2.is = "empty"
           /\ y.is = "request" \/ child[s].pc = "exit"
           /\ y.is = "request" => n \in alive /\ y2.is = "reply"
<1>1. Answers(n, y, y2) \/ BGone(s, x2, y, y2)
  BY DEF Serves, BBegin, BEnd, BFail, BSame, BLock, BWrite
<1>2. QED
  BY <1>1 DEF Answers, BGone, Empty

\* What a step of a backend does to its locks.
LEMMA ServedLocks ==
    ASSUME NEW s, NEW n, NEW x \in TxRecs, NEW y, NEW x2 \in TxRecs, NEW y2,
           Serves(s, n, x, y, x2, y2), NEW c, TxOK(n, x, alive), RequestOK(n, c, x, y, alive)
    PROVE  /\ TxOK(n, x2, alive) /\ RequestOK(n, c, x2, y2, alive)
           /\ x2.locks \subseteq x.locks \cup {"row", "lock", "rowlock"}
           /\ \A l : l \in x2.locks /\ l \notin x.locks => Free(l, s, n)
<1>1. x.locks \in LockSets /\ (x.st # "T" => x.locks = {}) /\ x.st \in TxStates
  BY DEF TxOK, TxRecs
<1>2. CASE BBegin(n, x, y, x2, y2)
  BY <1>1, <1>2 DEF BBegin, Answers, TxOK, RequestOK, TxStates
<1>3. CASE x2 = NoTx \/ x2 = Aborted(x)
  <2>1. x2.locks = {} /\ x2.st # "T"
    BY <1>3, LockSetFacts
  <2>2. RequestOK(n, c, x2, y2, alive)
    <3>1. y2.is = "reply" \/ y2.is = "empty"
      BY ServedReply
    <3>2. QED
      BY <3>1 DEF RequestOK
  <2>3. n \notin alive => x2 = NoTx
    <3>1. CASE x2 = NoTx
      BY <3>1
    <3>2. CASE x2 = Aborted(x) /\ n \notin alive
      BY <3>2 DEF TxOK, Aborted, NoTx
    <3>3. QED
      BY <1>3, <3>1, <3>2
  <2>4. QED
    BY <2>1, <2>2, <2>3 DEF TxOK, LockSets
<1>4. CASE BSame(n, x, y, x2, y2)
  BY <1>1, <1>4 DEF BSame, Answers, TxOK, RequestOK
<1>5. CASE BLock(s, n, x, y, x2, y2)
  <2>1. n \in alive /\ y.is = "request" /\ y2.is = "reply" /\ y.q \in LockQueries /\ Free(y.q, s, n)
        /\ x.st # "E" /\ x2.st = x.st /\ x2.locks = x.locks \cup {y.q}
    BY <1>5 DEF BLock, Answers
  <2>2. x.st = "T" /\ x.locks = {}
    BY <1>1, <2>1 DEF RequestOK, TxStates
  <2>3. QED
    BY <2>1, <2>2 DEF TxOK, RequestOK, LockSets, LockQueries
<1>6. ASSUME NEW e \in Entries, BWrite(s, n, x, y, x2, y2, e), x.st # "I"
      PROVE  /\ TxOK(n, x2, alive) /\ RequestOK(n, c, x2, y2, alive)
             /\ x2.locks \subseteq x.locks \cup {"row", "lock", "rowlock"}
             /\ \A l : l \in x2.locks /\ l \notin x.locks => Free(l, s, n)
  <2>1. n \in alive /\ y.is = "request" /\ y2.is = "reply" /\ y.q \in Writes
        /\ x.st # "E" /\ x2.st = x.st /\ (y.q = "update" => Free("row", s, n))
        /\ x2.locks = IF y.q = "update" THEN x.locks \cup {"row"} ELSE x.locks
    BY <1>6 DEF BWrite, Answers
  <2>2. x.st = "T" /\ (y.q = "update" => x.locks \subseteq {"row"})
    BY <1>1, <1>6, <2>1 DEF RequestOK, TxStates
  <2>3. x2.locks \in LockSets
    <3>1. CASE y.q = "update"
      <4>1. x2.locks = {"row"}
        BY <2>1, <2>2, <3>1
      <4>2. QED
        BY <4>1 DEF LockSets
    <3>2. QED
      BY <1>1, <2>1, <3>1
  <2>4. QED
    BY <2>1, <2>2, <2>3 DEF TxOK, RequestOK
<1>7. QED
  BY <1>2, <1>3, <1>4, <1>5, <1>6 DEF Serves, BEnd, BFail, BGone, BWrite

LEMMA ServedFacts ==
    ASSUME NEW s, NEW n, NEW t, NEW ch, NEW t2, NEW ch2, ServedAt(s, n, t, ch, t2, ch2)
    PROVE  /\ Holds(child[s], t, ch, alive, faulty, Up)
           /\ Least(Up) \in Up /\ Up # {} /\ n \in Nodes /\ Up \subseteq Nodes
           /\ \A m \in Nodes : /\ TxOK(m, t[m], alive) /\ RequestOK(m, child[s], t[m], ch[m], alive)
                               /\ t[m] \in TxRecs /\ ch[m] \in Channels
           /\ child[s].pc \notin {"idle", "ready"}
           /\ child[s].pc = "begin" => n \in child[s].todo /\ ch[n].q = "begin"
           /\ child[s].pc = "lock" => /\ n \in child[s].todo /\ child[s].stmt = "insert"
                                      /\ ch[n].q \in LockQueries \cup {"error"}
                                      /\ child[s].internal = Up
           /\ child[s].pc \in Running => ch[n].q = child[s].stmt /\ n \in child[s].where
           /\ child[s].pc \in {"sync", "abort"} => ch[n].q = "error"
           /\ child[s].pc = "commit" => ch[n].q = "commit"
           /\ child[s].pc \in {"begin", "lock", "sync", "abort", "commit"} \cup Running
<1>1. /\ child[s] \in Children /\ child[s].pc # "exit" /\ ~child[s].doomed
      /\ Live(child[s], t, ch, alive, faulty, Up) /\ HeldBy(child[s], t, ch, alive, faulty, Up)
      /\ n \in Up /\ ch[n].is = "request" /\ Up \subseteq Nodes
      /\ t \in [Nodes -> TxRecs] /\ ch \in [Nodes -> Channels]
  BY DEF ServedAt
<1>2. Up # {} /\ Least(Up) \in Up
  BY <1>1, LeastFacts
<1>3. child[s].pc = "lock" => child[s].stmt = "insert" /\ child[s].internal = Up
  BY <1>1 DEF Live, Locks
<1>4. /\ child[s].pc \notin {"idle", "ready"}
      /\ child[s].pc = "begin" => n \in child[s].todo /\ ch[n].q = "begin"
      /\ child[s].pc = "lock" => n \in child[s].todo /\ ch[n].q \in LockQueries \cup {"error"}
      /\ child[s].pc \in Running => ch[n].q = child[s].stmt /\ n \in child[s].where
      /\ child[s].pc \in {"sync", "abort"} => ch[n].q = "error"
      /\ child[s].pc = "commit" => ch[n].q = "commit"
  BY <1>1, LiveRequest
<1>5. child[s].pc \in {"begin", "lock", "sync", "abort", "commit"} \cup Running
  BY <1>1, <1>4 DEF Children, Places, Running
<1>6. QED
  BY <1>1, <1>2, <1>3, <1>4, <1>5 DEF HeldBy

\* Where a lock can come from.
LEMMA ServedGrant ==
    ASSUME NEW s, NEW n, NEW t, NEW ch, NEW t2, NEW ch2, ServedAt(s, n, t, ch, t2, ch2)
    PROVE  /\ \A l : l \in t2[n].locks /\ l \notin t[n].locks =>
                 \/ l = "row" /\ ch[n].q = "update" /\ child[s].pc \in Running /\ child[s].stmt = "update"
                 \/ l = ch[n].q /\ l \in LockQueries /\ child[s].pc = "lock" /\ Done(ch2[n])
           /\ t2[n].st = "T" /\ t[n].st # "T" =>
                 child[s].pc = "begin" \/ (child[s].stmt = "begin" /\ child[s].pc \in Running)
           /\ t2[n].st = "T" => t[n].locks \subseteq t2[n].locks
<1>1. Serves(s, n, t[n], ch[n], t2[n], ch2[n]) /\ t[n] \in TxRecs /\ child[s].pc # "exit"
  BY ServedFacts DEF ServedAt
<1>2. /\ child[s].pc = "begin" => ch[n].q = "begin"
      /\ child[s].pc = "lock" => ch[n].q \in LockQueries \cup {"error"}
      /\ child[s].pc \in Running => ch[n].q = child[s].stmt
      /\ child[s].pc \in {"sync", "abort"} => ch[n].q = "error"
      /\ child[s].pc = "commit" => ch[n].q = "commit"
      /\ child[s].pc \in {"begin", "lock", "sync", "abort", "commit"} \cup Running
      /\ child[s].stmt \in AllStatements \cup {"none"}
  <2>1. child[s].stmt \in AllStatements \cup {"none"}
    BY DEF ServedAt, Children
  <2>2. QED
    BY <2>1, ServedFacts
<1>3. ch[n].q \in Writes => child[s].pc \in Running /\ child[s].stmt = ch[n].q
  BY <1>2 DEF Writes, LockQueries
<1>4. ch[n].q \in LockQueries => child[s].pc = "lock"
  BY <1>2 DEF LockQueries, AllStatements
<1>5. CASE BBegin(n, t[n], ch[n], t2[n], ch2[n])
  BY <1>2, <1>5 DEF BBegin, LockQueries
<1>6. CASE t2[n] = NoTx \/ t2[n] = Aborted(t[n])
  <2>1. t2[n].locks = {} /\ t2[n].st # "T"
    BY <1>1, <1>6, LockSetFacts
  <2>2. QED
    BY <2>1
<1>7. CASE BSame(n, t[n], ch[n], t2[n], ch2[n])
  BY <1>7 DEF BSame
<1>8. CASE BLock(s, n, t[n], ch[n], t2[n], ch2[n])
  BY <1>4, <1>8 DEF BLock
<1>9. ASSUME NEW e \in Entries, BWrite(s, n, t[n], ch[n], t2[n], ch2[n], e), t[n].st # "I"
      PROVE  /\ t2[n].st = t[n].st /\ ch[n].q \in Writes
             /\ t2[n].locks = IF ch[n].q = "update" THEN t[n].locks \cup {"row"} ELSE t[n].locks
  BY <1>9 DEF BWrite
<1>10. QED
  BY <1>1, <1>3, <1>5, <1>6, <1>7, <1>8, <1>9 DEF Serves, BEnd, BFail, BGone, BWrite

LEMMA ServedRows ==
    ASSUME NEW s, NEW n, NEW t, NEW ch, NEW t2, NEW ch2, ServedAt(s, n, t, ch, t2, ch2)
    PROVE  HeldRows(child[s], t2, alive, faulty', Up)
<1> DEFINE c == child[s]
           m == Least(Up)
<1>1. SUFFICES ASSUME c.stmt # "insert"
               PROVE  /\ OneChild \/ RowFirst(t2, alive, faulty', Up)
                      /\ \A k \in Up : t2[k].locks \subseteq {"row"}
  BY DEF HeldRows
<1>2. /\ Holds(c, t, ch, alive, faulty, Up) /\ m \in Up /\ n \in Nodes /\ Up \subseteq Nodes
      /\ c.pc = "lock" => c.stmt = "insert"
  BY ServedFacts
<1>3. \A k \in Nodes \ {n} : t2[k] = t[k] /\ ch2[k] = ch[k]
  BY DEF ServedAt
<1>4. /\ OneChild \/ RowFirst(t, alive, faulty, Up)
      /\ \A k \in Up : t[k].locks \subseteq {"row"}
  BY <1>1, <1>2 DEF Holds, HeldRows
<1>5. \A l : l \in t2[n].locks /\ l \notin t[n].locks =>
         l = "row" /\ ch[n].q = "update" /\ c.pc \in Running /\ c.stmt = "update"
  BY <1>1, <1>2, ServedGrant
<1>6. \A k \in Up : t2[k].locks \subseteq {"row"}
  BY <1>2, <1>3, <1>4, <1>5
<1>7. ASSUME ~OneChild PROVE RowFirst(t2, alive, faulty', Up)
  <2>1. SUFFICES ASSUME faulty' = {}, m \in alive, t2[m].st = "T", NEW k \in Up, "row" \in t2[k].locks
                 PROVE  "row" \in t2[m].locks
    BY DEF RowFirst
  <2>2. faulty = {}
    BY <2>1 DEF ServedAt
  <2>3. CASE t[m].st # "T"
    <3>1. n = m /\ (c.pc = "begin" \/ (c.stmt = "begin" /\ c.pc \in Running))
      BY <1>2, <1>3, <2>1, <2>3, ServedGrant
    <3>2. t[k].locks = {}
      BY <1>2, <3>1 DEF Holds, HeldNone
    <3>3. t2[k].locks = {}
      <4>1. c.stmt # "update" \/ c.pc \notin Running
        BY <3>1 DEF Running
      <4>2. QED
        BY <1>2, <1>3, <1>5, <1>6, <3>2, <4>1
    <3>4. QED
      BY <2>1, <3>3
  <2>4. CASE t[m].st = "T"
    <3>1. t[m].locks \subseteq t2[m].locks
      BY <1>2, <1>3, <2>1, ServedGrant
    <3>2. "row" \in t[k].locks => "row" \in t[m].locks
      BY <1>4, <1>7, <2>1, <2>2, <2>4 DEF RowFirst
    <3>3. CASE "row" \in t[k].locks
      BY <3>1, <3>2, <3>3
    <3>4. CASE "row" \notin t[k].locks
      <4>1. k = n /\ c.pc \in Running /\ c.stmt = "update"
        BY <1>2, <1>3, <1>5, <2>1, <3>4
      <4>2. CASE k = m
        BY <2>1, <4>2
      <4>3. CASE k # m
        <5>1. ch[m].is \in {"reply", "eof"}
          <6>1. MasterFirst(c, ch, Up)
            BY <1>2, <4>1 DEF Holds, HeldRunning
          <6>2. ch[n].is # "empty" /\ n \in Up \ {m}
            BY <4>1, <4>3 DEF ServedAt
          <6>3. QED
            BY <1>7, <4>1, <6>1, <6>2 DEF MasterFirst, Writes
        <5>2. ch[m].is = "reply" /\ ch[m] \in Replies
          <6>1. RequestOK(m, c, t[m], ch[m], alive) /\ ch[m] \in Channels
            BY <1>2, ServedFacts
          <6>2. QED
            BY <2>1, <5>1, <6>1, ChannelFacts DEF RequestOK
        <5>3. Ask(m, "update", c.tstate[m], t[m], ch[m], alive, faulty)
          <6>1. Runs(c, t, ch, alive, faulty, Up) /\ c.where = Up
            BY <1>2, <4>1, RunsFacts DEF ServedAt, Writes
          <6>2. QED
            BY <1>2, <4>1, <6>1 DEF Runs
        <5>4. Done(ch[m])
          <6>1. ch[m].z = "T" /\ (ch[m].kind = "E" => ch[m].z = Failed(c.tstate[m]))
            BY <2>1, <2>4, <5>2, <5>3 DEF Ask, Fair, In
          <6>2. ch[m].kind \in {"C", "E"}
            BY <5>2 DEF Replies
          <6>3. QED
            BY <5>2, <6>1, <6>2 DEF Done, Failed
        <5>5. RowTaken(c, t, ch, faulty, Up)
          BY <1>2, <4>1 DEF Holds, HeldRunning
        <5>6. "row" \in t[m].locks
          BY <1>2, <2>2, <2>4, <5>4, <5>5 DEF RowTaken
        <5>7. QED
          BY <3>1, <5>6
      <4>4. QED
        BY <4>2, <4>3
    <3>5. QED
      BY <3>3, <3>4
  <2>5. QED
    BY <2>3, <2>4
<1>8. QED
  BY <1>6, <1>7

LEMMA ServedNone ==
    ASSUME NEW s, NEW n, NEW t, NEW ch, NEW t2, NEW ch2, ServedAt(s, n, t, ch, t2, ch2)
    PROVE  HeldNone(child[s], t2, Up)
<1> DEFINE c == child[s]
<1>1. HeldNone(c, t, Up) /\ n \in Nodes /\ Up \subseteq Nodes /\ n \in Up
  BY ServedFacts DEF Holds, ServedAt
<1>2. \A k \in Nodes \ {n} : t2[k] = t[k]
  BY DEF ServedAt
<1>3. \A l : l \in t2[n].locks /\ l \notin t[n].locks =>
        (c.stmt = "update" /\ c.pc \in Running) \/ (c.pc = "lock" /\ c.internal = Up /\ c.stmt = "insert")
  BY ServedGrant, ServedFacts
<1>4. c.stmt = "begin" \/ c.pc = "begin" => \A k \in Up : t2[k].locks = {}
  BY <1>1, <1>2, <1>3 DEF HeldNone, Running
<1>5. c.stmt = "insert" => \A k \in Up \ c.internal : t2[k].locks = {}
  BY <1>1, <1>2, <1>3 DEF HeldNone
<1>6. QED
  BY <1>1, <1>4, <1>5 DEF HeldNone

LEMMA ServedLocking ==
    ASSUME NEW s, NEW n, NEW t, NEW ch, NEW t2, NEW ch2, ServedAt(s, n, t, ch, t2, ch2)
    PROVE  HeldLocks(child[s], t2, ch2, alive, Up)
<1> DEFINE c == child[s]
           m == Least(Up)
<1>1. SUFFICES ASSUME c.pc = "lock"
               PROVE  IF m \in c.todo THEN HeldMaster(c, t2, ch2, alive, Up)
                                      ELSE HeldOthers(c, t2, ch2, alive, Up)
  BY DEF HeldLocks
<1>2. /\ Holds(c, t, ch, alive, faulty, Up) /\ m \in Up /\ n \in Nodes /\ Up \subseteq Nodes
      /\ n \in c.todo /\ ch[n].q \in LockQueries \cup {"error"} /\ t[n] \in TxRecs
  BY <1>1, ServedFacts
<1>3. /\ \A k \in Nodes \ {n} : t2[k] = t[k] /\ ch2[k] = ch[k]
      /\ n \in alive /\ n \in Up /\ ch[n].is = "request" /\ ch2[n].is = "reply"
      /\ Locks(c, t, ch, alive, faulty, Up) /\ Serves(s, n, t[n], ch[n], t2[n], ch2[n])
  BY <1>1 DEF ServedAt, Live
<1>4. ~Done(ch[n]) /\ ch[n] # Empty
  BY <1>3 DEF Done, Empty
<1>5. t[n].locks = {}
  BY <1>1, <1>2, <1>3, <1>4 DEF Holds, HeldLocks, HeldMaster, HeldOthers
<1>6. t2[n].locks = IF Done(ch2[n]) THEN {ch[n].q} ELSE {}
  <2>1. \/ t2[n] = Aborted(t[n]) /\ ch2[n].kind = "E"
        \/ BLock(s, n, t[n], ch[n], t2[n], ch2[n])
    BY <1>1, <1>2, <1>3 DEF Serves, BBegin, BEnd, BFail, BSame, BWrite, BGone, LockQueries, Writes
  <2>2. CASE t2[n] = Aborted(t[n]) /\ ch2[n].kind = "E"
    BY <1>2, <2>2, LockSetFacts DEF Done
  <2>3. CASE BLock(s, n, t[n], ch[n], t2[n], ch2[n])
    BY <1>5, <2>3 DEF BLock
  <2>4. QED
    BY <2>1, <2>2, <2>3
<1>7. Done(ch2[n]) => ch[n].q # "error"
  <2>1. BFail(n, t[n], ch[n], t2[n], ch2[n]) \/ ch[n].q # "error"
    BY <1>1, <1>3 DEF Serves, BBegin, BEnd, BSame, BWrite, BGone, BLock, LockQueries, Writes
  <2>2. QED
    BY <2>1 DEF BFail, Done
<1>8. CASE m \in c.todo
  <2>1. LocksMaster(c, t, ch, alive, faulty, Up) /\ HeldMaster(c, t, ch, alive, Up)
    BY <1>1, <1>2, <1>3, <1>8 DEF Locks, LocksOthers, Holds, HeldLocks
  <2>2. n = m
    BY <1>2, <2>1 DEF LocksMaster
  <2>3. ch[n].q = LockName(c)
    BY <1>2, <1>3, <2>1, <2>2 DEF LocksMaster, Ask, LockName
  <2>4. HeldMaster(c, t2, ch2, alive, Up)
    BY <1>2, <1>3, <1>6, <2>1, <2>2, <2>3 DEF HeldMaster
  <2>5. QED
    BY <1>8, <2>4
<1>9. CASE m \notin c.todo
  <2>1. LocksOthers(c, t, ch, alive, faulty, Up) /\ HeldOthers(c, t, ch, alive, Up)
    BY <1>1, <1>2, <1>3, <1>9 DEF Locks, LocksMaster, Holds, HeldLocks
  <2>2. n # m /\ c.kind = 1 /\ ch[n].q = IF c.dead THEN "error" ELSE "lock"
    BY <1>2, <1>3, <2>1 DEF LocksOthers, Ask
  <2>3. t2[n].locks = IF Granted(c, n, Up) /\ Done(ch2[n]) THEN {"lock"} ELSE {}
    BY <1>6, <1>7, <2>2 DEF Granted
  <2>4. \A k \in Up : t2[k].locks = IF k \in alive /\ Granted(c, k, Up) /\ (k \in c.todo => Done(ch2[k]))
                                    THEN {"lock"} ELSE {}
    BY <1>2, <1>3, <2>1, <2>3 DEF HeldOthers
  <2>5. \A k, l \in Up : l \in c.todo /\ l < k => k \in c.todo /\ ch2[k] = Empty
    BY <1>2, <1>3, <1>4, <2>1 DEF HeldOthers
  <2>6. HeldOthers(c, t2, ch2, alive, Up)
    BY <2>1, <2>4, <2>5 DEF HeldOthers
  <2>7. QED
    BY <1>9, <2>6
<1>10. QED
  BY <1>8, <1>9

LEMMA ServedRunning ==
    ASSUME NEW s, NEW n, NEW t, NEW ch, NEW t2, NEW ch2, ServedAt(s, n, t, ch, t2, ch2)
    PROVE  HeldRunning(child[s], t2, ch2, faulty', Up)
<1> DEFINE c == child[s]
           m == Least(Up)
<1>1. SUFFICES ASSUME c.pc \in Running
               PROVE  /\ MasterFirst(c, ch2, Up)
                      /\ c.stmt = "insert" => IF c.internal = {} THEN Up = {m} ELSE HeldInsert(c, t2, Up)
                      /\ c.stmt = "update" => RowTaken(c, t2, ch2, faulty', Up)
  BY DEF HeldRunning
<1>2. /\ HeldRunning(c, t, ch, faulty, Up) /\ m \in Up /\ n \in Nodes /\ Up \subseteq Nodes
      /\ ch[n].q = c.stmt /\ t[n] \in TxRecs
  BY <1>1, ServedFacts DEF Holds
<1>3. /\ \A k \in Nodes \ {n} : t2[k] = t[k] /\ ch2[k] = ch[k]
      /\ n \in Up /\ ch[n].is = "request" /\ ch2[n].is = "reply" /\ faulty \subseteq faulty'
      /\ Serves(s, n, t[n], ch[n], t2[n], ch2[n])
  BY DEF ServedAt
<1>4. MasterFirst(c, ch2, Up)
  BY <1>1, <1>2, <1>3 DEF HeldRunning, MasterFirst
<1>5. ASSUME c.stmt = "insert", c.internal # {} PROVE HeldInsert(c, t2, Up)
  <2>1. HeldInsert(c, t, Up)
    BY <1>1, <1>2, <1>5 DEF HeldRunning
  <2>2. (t2[n].st = t[n].st /\ t2[n].locks = t[n].locks) \/ (t2[n].st # "T" /\ t2[n].locks = {})
    <3>1. CASE t2[n] = NoTx \/ t2[n] = Aborted(t[n])
      BY <1>2, <3>1, LockSetFacts
    <3>2. CASE \E e \in Entries : BWrite(s, n, t[n], ch[n], t2[n], ch2[n], e) /\ t[n].st # "I"
      BY <1>2, <1>5, <3>2 DEF BWrite
    <3>3. QED
      BY <1>2, <1>3, <1>5, <3>1, <3>2
         DEF Serves, BBegin, BEnd, BFail, BSame, BWrite, BGone, BLock, LockQueries
  <2>3. \A k \in Up : t2[k].locks = IF t2[k].st # "T" THEN {}
                                    ELSE IF Granted(c, k, Up) THEN {"lock"}
                                    ELSE IF c.kind = 3 /\ k = Least(Up) THEN {"rowlock"} ELSE {}
    <3>1. TAKE k \in Up
    <3>2. t[k].locks = IF t[k].st # "T" THEN {} ELSE IF Granted(c, k, Up) THEN {"lock"}
                       ELSE IF c.kind = 3 /\ k = Least(Up) THEN {"rowlock"} ELSE {}
      BY <2>1 DEF HeldInsert
    <3> HIDE DEF c
    <3>3. CASE k = n
      BY <2>2, <3>2, <3>3
    <3>4. CASE k # n
      BY <1>2, <1>3, <3>2, <3>4
    <3>5. QED
      BY <3>3, <3>4
  <2>4. QED
    BY <2>1, <2>3 DEF HeldInsert
<1>6. ASSUME c.stmt = "update" PROVE RowTaken(c, t2, ch2, faulty', Up)
  <2>1. RowTaken(c, t, ch, faulty, Up)
    BY <1>1, <1>2, <1>6 DEF HeldRunning
  <2>2. n \notin faulty' /\ Done(ch2[n]) /\ t2[n].st = "T" => "row" \in t2[n].locks
    <3>1. CASE BFail(n, t[n], ch[n], t2[n], ch2[n])
      BY <3>1 DEF BFail, Done
    <3>2. CASE BSame(n, t[n], ch[n], t2[n], ch2[n])
      BY <1>2, <1>6, <3>2 DEF BSame
    <3>3. CASE \E e \in Entries : BWrite(s, n, t[n], ch[n], t2[n], ch2[n], e)
      BY <1>2, <1>6, <3>3, LockSetFacts DEF BWrite
    <3>4. QED
      BY <1>1, <1>2, <1>3, <1>6, <3>1, <3>2, <3>3
         DEF Serves, BBegin, BEnd, BGone, BLock, LockQueries, Running
  <2>3. QED
    BY <1>2, <1>3, <2>1, <2>2 DEF RowTaken
<1>7. QED
  BY <1>1, <1>2, <1>4, <1>5, <1>6 DEF HeldRunning

\* One step of a backend, seen from its session.
LEMMA ServedBy ==
    ASSUME Inv, Held, NEW s \in Sessions, NEW n \in Nodes, NEW x2, NEW y2, Served(s, n, x2, y2)
    PROVE  HeldBy(child[s], tx'[s], chan'[s], alive, faulty', Up)
<1> DEFINE c == child[s]
           t == tx[s]
           ch == chan[s]
           t2 == tx'[s]
           ch2 == chan'[s]
<1>1. /\ tx \in [Sessions -> [Nodes -> TxRecs]] /\ chan \in [Sessions -> [Nodes -> Channels]]
  BY DEF Inv, Shapes
<1>2. /\ c \in Children /\ t \in [Nodes -> TxRecs] /\ ch \in [Nodes -> Channels]
      /\ Sound(c, t, ch, alive, faulty, Up) /\ Up \subseteq Nodes
  BY SessionTypes
<1>3. HeldBy(c, t, ch, alive, faulty, Up)
  BY DEF Held
<1>4. /\ x2 \in TxRecs /\ y2 \in Channels /\ faulty \subseteq faulty'
      /\ tx' = [tx EXCEPT ![s][n] = x2] /\ chan' = [chan EXCEPT ![s][n] = y2]
      /\ Serves(s, n, t[n], ch[n], x2, y2)
  BY DEF Served
<1>5. /\ t2 \in [Nodes -> TxRecs] /\ ch2 \in [Nodes -> Channels] /\ t2[n] = x2 /\ ch2[n] = y2
      /\ \A m \in Nodes \ {n} : t2[m] = t[m] /\ ch2[m] = ch[m]
  BY <1>1, <1>4
<1> HIDE DEF c, t, ch, t2, ch2
<1>6. \A m \in Nodes : TxOK(m, t2[m], alive) /\ RequestOK(m, c, t2[m], ch2[m], alive)
  <2>1. TxOK(n, t[n], alive) /\ RequestOK(n, c, t[n], ch[n], alive) /\ t[n] \in TxRecs
    BY <1>2, <1>3 DEF HeldBy
  <2>2. TxOK(n, x2, alive) /\ RequestOK(n, c, x2, y2, alive)
    BY <1>4, <2>1, ServedLocks
  <2>3. QED
    BY <1>3, <1>5, <2>2 DEF HeldBy
<1>7. Finishing(c, ch2)
  <2>1. SUFFICES ASSUME c.pc = "commit" PROVE Finishing(c, ch2)
    BY DEF Finishing
  <2>2. ch[n].is = "request" /\ ch2[n].is = "reply"
    BY <1>4, <1>5, <2>1, ServedReply DEF c
  <2>3. QED
    BY <1>3, <1>5, <2>1, <2>2 DEF HeldBy, Finishing
<1>8. ASSUME c.pc # "exit", ~c.doomed PROVE Holds(c, t2, ch2, alive, faulty', Up)
  <2>1. Live(c, t, ch, alive, faulty, Up)
    BY <1>2, <1>8 DEF Sound
  <2>2. ch[n].is = "request" /\ n \in alive /\ ch2[n].is = "reply"
    BY <1>4, <1>5, <1>8, ServedReply DEF c
  <2>3. n \in Up
    BY <1>2, <1>8, <2>1, <2>2, LiveRequest
  <2>4. ServedAt(s, n, t, ch, t2, ch2)
    BY <1>2, <1>3, <1>4, <1>5, <1>8, <2>1, <2>2, <2>3 DEF ServedAt, c
  <2>5. HeldKind(c)
    BY <1>3, <1>8 DEF HeldBy, Holds
  <2>6. QED
    BY <2>4, <2>5, ServedRows, ServedNone, ServedLocking, ServedRunning DEF Holds, c
<1>9. HeldBy(c, t2, ch2, alive, faulty', Up)
  BY <1>3, <1>6, <1>7, <1>8 DEF HeldBy
<1>10. QED
  BY <1>9 DEF c, t2, ch2

LEMMA ServedHeld ==
    ASSUME Inv, Held, NEW s \in Sessions, NEW n \in Nodes, NEW x2, NEW y2, Served(s, n, x2, y2)
    PROVE  Held'
<1>1. /\ tx \in [Sessions -> [Nodes -> TxRecs]] /\ chan \in [Sessions -> [Nodes -> Channels]]
  BY DEF Inv, Shapes
<1>2. /\ tx' = [tx EXCEPT ![s][n] = x2] /\ chan' = [chan EXCEPT ![s][n] = y2] /\ x2 \in TxRecs
      /\ UNCHANGED <<alive, down, child>> /\ faulty \subseteq faulty'
      /\ Serves(s, n, tx[s][n], chan[s][n], x2, y2)
  BY DEF Served
<1>3. Up' = Up
  BY <1>2 DEF Up
<1>4. ASSUME NEW o \in Sessions
      PROVE  HeldBy(child'[o], tx'[o], chan'[o], alive', faulty', Up')
  <2>1. CASE o = s
    BY <1>2, <1>3, <2>1, ServedBy
  <2>2. CASE o # s
    <3>1. tx'[o] = tx[o] /\ chan'[o] = chan[o]
      BY <1>1, <1>2, <2>2
    <3>2. HeldBy(child[o], tx[o], chan[o], alive, faulty', Up)
      BY <1>2, HeldKept DEF Held
    <3>3. QED
      BY <1>2, <1>3, <3>1, <3>2
  <2>3. QED
    BY <2>1, <2>2
<1>5. Exclusive'
  <2>1. SUFFICES ASSUME NEW m \in Nodes, NEW a \in Sessions, NEW b \in Sessions, a # b,
                        NEW l, l \in tx'[a][m].locks, l \in tx'[b][m].locks
                 PROVE  FALSE
    BY DEF Exclusive
  <2>2. \A l2 : l2 \in x2.locks /\ l2 \notin tx[s][n].locks => Free(l2, s, n)
    <3>1. /\ TxOK(n, tx[s][n], alive) /\ RequestOK(n, child[s], tx[s][n], chan[s][n], alive)
          /\ tx[s][n] \in TxRecs
      BY <1>1 DEF Held, HeldBy
    <3>2. QED
      BY <1>2, <3>1, ServedLocks
  <2>3. tx[a][m].locks \cap tx[b][m].locks = {}
    BY <2>1 DEF Held, Exclusive
  <2>4. tx'[s][n] = x2 /\ \A o \in Sessions, k \in Nodes : ~(o = s /\ k = n) => tx'[o][k] = tx[o][k]
    BY <1>1, <1>2
  <2>5. QED
    BY <2>1, <2>2, <2>3, <2>4 DEF Free
<1>6. QED
  BY <1>4, <1>5 DEF Held

-----------------------------------------------------------------------------
(* Locks and the steps of the children.                                    *)

LEMMA NodesNat == \A n \in Nodes : n \in Nat
BY ReplicationAssumption DEF Nodes

\* What a live session has.
LEMMA StaysFacts ==
    ASSUME NEW c, NEW d, NEW t, NEW ch, NEW ch2, Stays(c, d, t, ch, ch2)
    PROVE  /\ c \in Children /\ d \in Children /\ Up \subseteq Nodes
           /\ t \in [Nodes -> TxRecs] /\ ch \in [Nodes -> Channels] /\ ch2 \in [Nodes -> Channels]
           /\ \A n \in Nodes : TxOK(n, t[n], alive) /\ RequestOK(n, c, t[n], ch[n], alive)
           /\ c.todo \subseteq c.where /\ Finishing(c, ch)
           /\ c.pc # "exit" /\ ~c.doomed => /\ Live(c, t, ch, alive, faulty, Up)
                                            /\ Holds(c, t, ch, alive, faulty, Up)
                                            /\ Least(Up) \in Up /\ \A m \in Up : Least(Up) <= m
           /\ d.pc # "exit" /\ ~d.doomed => /\ Live(d, t, ch2, alive, faulty, Up)
                                            /\ Least(Up) \in Up /\ \A m \in Up : Least(Up) <= m
           /\ c.doomed => c.pc = "commit"
           /\ d.doomed => d.pc = "commit"
           /\ Empty.is = "empty" /\ ~Done(Empty)
<1>1. Up \subseteq Nodes /\ (Up # {} => Least(Up) \in Up /\ \A m \in Up : Least(Up) <= m)
  BY LeastFacts DEF Stays
<1>2. Empty.is = "empty" /\ ~Done(Empty)
  BY DEF Empty, Done
<1>3. QED
  BY <1>1, <1>2 DEF Stays, Sound, HeldBy, Live

\* What Inv says of the state after the step.
LEMMA StaysOn ==
    ASSUME NEW c, NEW d, NEW t, NEW ch, NEW ch2, Stays(c, d, t, ch, ch2), d.pc # "exit", ~d.doomed
    PROVE  d.todo \subseteq d.where /\ Finishing(d, ch2)
<1>1. Live(d, t, ch2, alive, faulty, Up) /\ d \in Children /\ Up \subseteq Nodes
  BY StaysFacts
<1>2. d.todo \subseteq d.where
  <2>1. d.pc \in {"idle", "ready"} \cup Running => d.todo = {}
    BY <1>1 DEF Live, Idle, Runs, Completes, Running
  <2>2. d.pc \in {"begin", "sync", "abort", "commit"} => d.todo \subseteq d.where
    <3>1. d.pc = "begin" => d.todo \subseteq d.where
      BY <1>1 DEF Live, Begins
    <3>2. d.pc \in {"sync", "abort"} => d.todo \subseteq d.where
      BY <1>1 DEF Live, Errs
    <3>3. d.pc = "commit" => d.todo \subseteq d.where
      BY <1>1 DEF Live, Commits
    <3>4. QED
      BY <3>1, <3>2, <3>3
  <2>3. d.pc = "lock" => d.todo \subseteq d.where
    <3>1. SUFFICES ASSUME d.pc = "lock" PROVE d.todo \subseteq d.where
      OBVIOUS
    <3>2. Locks(d, t, ch2, alive, faulty, Up) /\ Least(Up) \in Up
      BY <1>1, <3>1, StaysFacts DEF Live
    <3>3. QED
      BY <3>2 DEF Locks, LocksMaster, LocksOthers
  <2>4. QED
    BY <1>1, <2>1, <2>2, <2>3 DEF Children, Places, Running
<1>3. ASSUME d.pc = "commit", NEW n \in Nodes
      PROVE  /\ ch2[n].is # "empty" => n \in d.where
             /\ ch2[n].is = "request" => ch2[n].q = "commit"
  <2>1. d.where = Up
    BY <1>1, <1>3 DEF Live, Commits
  <2>2. n \notin Up => ch2[n].is = "empty"
    BY <1>1 DEF Live, Empty
  <2>3. QED
    BY <1>1, <1>3, <2>1, <2>2, LiveRequest
<1>4. QED
  BY <1>2, <1>3 DEF Finishing

\* Nothing is held outside a transaction.
LEMMA NothingHeld ==
    ASSUME NEW n, NEW x, TxOK(n, x, alive), NEW st, In(n, st, x, alive), st # "T"
    PROVE  x.locks = {}
BY LockSetFacts DEF TxOK, In

LEMMA QueryHeld ==
    ASSUME NEW s, NEW c, NEW d, NEW t, NEW ch, NEW ch2, Stays(c, d, t, ch, ch2), MQuery(s, c, d, ch, ch2)
    PROVE  HeldBy(d, t, ch2, alive, faulty, Up)
<1> DEFINE m == Least(Up)
<1>1. /\ c.pc = "idle" /\ ~c.doomed /\ ~d.doomed /\ ch2 = ch /\ d.kind = LockKind /\ ~d.dead
      /\ d.tstate = c.tstate /\ d.internal = c.internal /\ d.pc \in {"begin", "send"}
      /\ d.pc = "begin" => Up # {m}
      /\ d.pc = "send" /\ d.stmt = "insert" => Up = {m}
      /\ d.stmt \in {"begin", "insert"} => c.tstate[m] = "I"
  BY DEF MQuery, SameTx
<1>2. /\ Up \subseteq Nodes /\ Live(c, t, ch, alive, faulty, Up) /\ Holds(c, t, ch, alive, faulty, Up)
      /\ m \in Up /\ Live(d, t, ch2, alive, faulty, Up)
      /\ \A n \in Nodes : TxOK(n, t[n], alive)
      /\ Empty.is = "empty" /\ ~Done(Empty)
  BY <1>1, StaysFacts
<1>3. Idle(c, t, ch, alive, Up)
  BY <1>1, <1>2 DEF Live
<1>4. \A n \in Nodes : ch[n] = Empty
  BY <1>2, <1>3 DEF Live, Idle, Rest
<1>5. \A n \in Nodes : RequestOK(n, d, t[n], ch2[n], alive)
  BY <1>1, <1>2, <1>4 DEF RequestOK
<1>6. c.tstate[m] = "I" => \A n \in Up : t[n].locks = {}
  <2>1. SUFFICES ASSUME c.tstate[m] = "I", NEW n \in Up PROVE t[n].locks = {}
    OBVIOUS
  <2>2. c.tstate[n] = "I" /\ In(n, "I", t[n], alive)
    BY <1>2, <1>3, <2>1 DEF Idle, Uniform, Rest
  <2>3. QED
    BY <1>2, <2>2, NothingHeld
<1>7. c.internal = {}
  BY <1>3 DEF Idle
<1>8. HeldRows(d, t, alive, faulty, Up)
  <2>1. CASE c.stmt = "insert"
    <3>1. \A n \in Up : t[n].locks = {}
      BY <1>2, <1>7, <2>1 DEF Holds, HeldNone
    <3>2. QED
      BY <3>1 DEF HeldRows, RowFirst
  <2>2. CASE c.stmt # "insert"
    BY <1>2, <2>2 DEF Holds, HeldRows
  <2>3. QED
    BY <2>1, <2>2
<1>9. HeldNone(d, t, Up)
  <2>1. d.pc = "begin" => c.tstate[m] = "I"
    <3>1. SUFFICES ASSUME d.pc = "begin" PROVE c.tstate[m] = "I"
      OBVIOUS
    <3>2. Begins(d, t, ch2, alive, faulty, Up)
      BY <1>2, <3>1 DEF Live
    <3>3. QED
      BY <1>1, <1>2, <1>7, <3>2 DEF Begins
  <2>2. QED
    BY <1>1, <1>6, <2>1 DEF HeldNone
<1>10. HeldRunning(d, t, ch2, faulty, Up)
  <2>1. SUFFICES ASSUME d.pc = "send" PROVE HeldRunning(d, t, ch2, faulty, Up)
    BY <1>1 DEF HeldRunning, Running
  <2>2. MasterFirst(d, ch2, Up)
    BY <1>1, <1>2, <1>4 DEF MasterFirst
  <2>3. RowTaken(d, t, ch2, faulty, Up)
    BY <1>1, <1>2, <1>4, <1>7 DEF RowTaken
  <2>4. QED
    BY <1>1, <1>7, <2>1, <2>2, <2>3 DEF HeldRunning
<1>11. HeldKind(d) /\ HeldLocks(d, t, ch2, alive, Up)
  BY <1>1 DEF HeldKind, HeldLocks
<1>12. d.todo \subseteq d.where /\ Finishing(d, ch2)
  BY <1>1, StaysOn
<1>13. QED
  BY <1>2, <1>5, <1>8, <1>9, <1>10, <1>11, <1>12 DEF HeldBy, Holds

LEMMA CommandHeld ==
    ASSUME NEW c, NEW d, NEW t, NEW ch, NEW ch2, Stays(c, d, t, ch, ch2), MCommand(c, d, ch, ch2)
    PROVE  HeldBy(d, t, ch2, alive, faulty, Up)
<1> DEFINE m == Least(Up)
           n0 == Turn(c)
           q == Command(c)
<1>1. /\ d = c /\ c.pc \in Commands /\ n0 \in c.todo /\ ch[n0] = Empty
      /\ \A n \in Nodes : ch2[n] = IF n # n0 THEN ch[n] ELSE IF n \in alive THEN Request(q) ELSE Eof
  BY DEF MCommand, SentTo
<1>2. /\ Up \subseteq Nodes /\ c \in Children
      /\ \A n \in Nodes : TxOK(n, t[n], alive) /\ RequestOK(n, c, t[n], ch[n], alive)
      /\ c.todo \subseteq c.where /\ Finishing(c, ch)
      /\ Empty.is = "empty" /\ ~Done(Empty)
      /\ c.doomed => c.pc = "commit"
  BY StaysFacts
<1>3. c.pc # "exit" /\ n0 \in Nodes
  BY <1>1, <1>2 DEF Commands, Children
<1>4. ~c.doomed => Live(c, t, ch, alive, faulty, Up) /\ Holds(c, t, ch, alive, faulty, Up) /\ m \in Up
  BY <1>3, StaysFacts
<1>5. /\ Request(q).is = "request" /\ Request(q).q = q /\ Eof.is = "eof"
      /\ ~Done(Request(q)) /\ ~Done(Eof)
  BY DEF Request, Eof, Done
<1>6. q = CASE c.pc = "begin" -> "begin"
            [] c.pc = "lock" -> IF c.dead THEN "error" ELSE IF c.kind = 1 THEN "lock" ELSE "rowlock"
            [] c.pc \in {"sync", "abort"} -> "error"
            [] c.pc = "commit" -> "commit"
  BY DEF Command
<1> HIDE DEF q
<1>7. /\ q \notin Writes /\ (q \in LockQueries => c.pc = "lock") /\ (c.pc = "commit" => q = "commit")
  BY <1>1, <1>6 DEF Commands, Writes, LockQueries
<1>8. c.pc = "lock" => t[n0].st # "I" \/ n0 \notin alive
  <2>1. SUFFICES ASSUME c.pc = "lock", n0 \in alive PROVE t[n0].st # "I"
    OBVIOUS
  <2>2. Locks(c, t, ch, alive, faulty, Up)
    BY <1>2, <1>4, <2>1 DEF Live
  <2>3. \E st \in {"T", "E"}, p \in Queries : Ask(n0, p, st, t[n0], ch[n0], alive, faulty)
    BY <1>1, <2>2 DEF Locks, LocksMaster, LocksOthers, Queries, LockQueries
  <2>4. QED
    BY <1>1, <1>2, <2>1, <2>3 DEF Ask, In
<1>9. c.pc = "lock" => t[n0].locks = {}
  <2>1. SUFFICES ASSUME c.pc = "lock" PROVE t[n0].locks = {}
    OBVIOUS
  <2>2. Locks(c, t, ch, alive, faulty, Up) /\ Holds(c, t, ch, alive, faulty, Up) /\ m \in Up
    BY <1>2, <1>4, <2>1 DEF Live
  <2>3. n0 \in Up
    BY <1>1, <2>2 DEF Locks, LocksMaster, LocksOthers
  <2>4. QED
    BY <1>1, <1>2, <2>1, <2>2, <2>3 DEF Holds, HeldLocks, HeldMaster, HeldOthers
<1>10. \A n \in Nodes : RequestOK(n, d, t[n], ch2[n], alive)
  <2>1. RequestOK(n0, d, t[n0], ch2[n0], alive)
    BY <1>1, <1>3, <1>5, <1>7, <1>8, <1>9 DEF RequestOK, Writes
  <2>2. QED
    BY <1>1, <1>2, <2>1
<1>11. Finishing(d, ch2)
  BY <1>1, <1>2, <1>3, <1>5, <1>7 DEF Finishing
<1>12. ASSUME ~c.doomed PROVE Holds(c, t, ch2, alive, faulty, Up)
  <2>1. Holds(c, t, ch, alive, faulty, Up) /\ m \in Up
    BY <1>4, <1>12
  <2>2. \A n \in Nodes : Done(ch2[n]) <=> Done(ch[n])
    BY <1>1, <1>2, <1>3, <1>5
  <2>3. c.pc \notin Running
    BY <1>1 DEF Commands, Running
  <2>4. HeldLocks(c, t, ch2, alive, Up)
    <3>1. SUFFICES ASSUME c.pc = "lock" PROVE HeldLocks(c, t, ch2, alive, Up)
      BY DEF HeldLocks
    <3>2. HeldMaster(c, t, ch, alive, Up) => HeldMaster(c, t, ch2, alive, Up)
      BY <1>2, <2>2 DEF HeldMaster
    <3>3. HeldOthers(c, t, ch, alive, Up) => HeldOthers(c, t, ch2, alive, Up)
      <4>1. SUFFICES ASSUME HeldOthers(c, t, ch, alive, Up) PROVE HeldOthers(c, t, ch2, alive, Up)
        OBVIOUS
      <4>2. n0 = Least(c.todo) /\ c.todo \subseteq Nodes
        BY <1>2, <3>1 DEF Turn, Children
      <4>3. \A k \in c.todo : n0 <= k
        BY <1>1, <4>2, LeastFacts
      <4>4. \A n, k \in Up : k \in c.todo /\ k < n => n \in c.todo /\ ch2[n] = Empty
        <5>1. SUFFICES ASSUME NEW n \in Up, NEW k \in Up, k \in c.todo, k < n
                       PROVE  n \in c.todo /\ ch2[n] = Empty
          OBVIOUS
        <5>2. n # n0
          <6>1. n0 \in Nat /\ k \in Nat /\ n0 <= k
            BY <1>2, <1>3, <4>3, <5>1, NodesNat
          <6>2. QED
            BY <5>1, <6>1
        <5>3. n \in c.todo /\ ch[n] = Empty
          BY <4>1, <5>1 DEF HeldOthers
        <5>4. QED
          BY <1>1, <1>2, <5>2, <5>3
      <4>5. QED
        BY <1>2, <2>2, <4>1, <4>4 DEF HeldOthers
    <3>4. QED
      BY <2>1, <3>1, <3>2, <3>3 DEF Holds, HeldLocks
  <2>5. QED
    BY <2>1, <2>3, <2>4 DEF Holds, HeldRunning
<1>13. QED
  BY <1>1, <1>2, <1>10, <1>11, <1>12 DEF HeldBy

LEMMA BegunHeld ==
    ASSUME NEW c, NEW d, NEW t, NEW ch, NEW ch2, Stays(c, d, t, ch, ch2), MBegun(c, d, ch, ch2)
    PROVE  HeldBy(d, t, ch2, alive, faulty, Up)
<1> DEFINE m == Least(Up)
<1>1. c.pc = "begin" /\ SameWork(c, d) /\ SameLock(c, d) /\ d.doomed = c.doomed
  BY DEF MBegun
<1>2. PICK n \in c.todo :
          /\ ReadOff(n, Empty, ch, ch2)
          /\ d.internal = c.internal \cup {n}
          /\ d.tstate[n] = ch[n].z /\ \A k \in Nodes \ {n} : d.tstate[k] = c.tstate[k]
          /\ IF c.todo # {n} THEN d.pc = "begin"
             ELSE \/ d.pc = "lock" /\ d.todo = {Least(Up)}
                  \/ d.pc = "send" /\ (c.stmt = "insert" => LockKind = 0 \/ Up = {Least(Up)})
  BY DEF MBegun
<1>3. d.stmt = c.stmt /\ d.kind = c.kind /\ d.dead = c.dead /\ d.pc \in {"begin", "lock", "send"}
  BY <1>1, <1>2 DEF SameWork, SameLock
<1>4. /\ Up \subseteq Nodes /\ Live(c, t, ch, alive, faulty, Up) /\ Holds(c, t, ch, alive, faulty, Up)
      /\ m \in Up /\ c \in Children /\ ~d.doomed /\ d.pc # "exit"
      /\ \A k \in Nodes : TxOK(k, t[k], alive) /\ RequestOK(k, c, t[k], ch[k], alive)
      /\ Empty.is = "empty" /\ ~Done(Empty) /\ ch \in [Nodes -> Channels]
  BY <1>1, <1>3, StaysFacts
<1>5. Begins(c, t, ch, alive, faulty, Up)
  BY <1>1, <1>4 DEF Live
<1>6. n \in Up /\ ch[n].is = "reply" /\ ch2[n] = Empty /\ \A k \in Nodes \ {n} : ch2[k] = ch[k]
  BY <1>2, <1>5 DEF ReadOff, Begins
<1>7. \A k \in Nodes : RequestOK(k, d, t[k], ch2[k], alive)
  BY <1>3, <1>4, <1>6 DEF RequestOK
<1>8. ch[n].z = "T"
  <2>1. Fair(n, "begin", "I", ch[n], faulty)
    BY <1>2, <1>5, <1>6 DEF Begins, Ask
  <2>2. ch[n].kind = "C"
    BY <2>1 DEF Fair, Kind, Fails, Writes, LockQueries
  <2>3. QED
    BY <2>1, <2>2 DEF Fair, After
<1>9. \A k \in Up : t[k].locks = {}
  BY <1>1, <1>4 DEF Holds, HeldNone
<1>10. HeldKind(d) /\ HeldRows(d, t, alive, faulty, Up) /\ HeldNone(d, t, Up)
  BY <1>1, <1>3, <1>4, <1>9 DEF Holds, HeldKind, HeldRows, HeldNone
<1>11. d.pc # "begin" => \A k \in Up : ch2[k] = Empty /\ d.tstate[k] = "T"
  <2>1. SUFFICES ASSUME c.todo = {n}, NEW k \in Up PROVE ch2[k] = Empty /\ d.tstate[k] = "T"
    BY <1>2
  <2>2. CASE k = n
    BY <1>2, <1>6, <1>8, <2>2
  <2>3. CASE k # n
    <3>1. k \in c.internal
      BY <1>5, <2>1, <2>3 DEF Begins
    <3>2. QED
      BY <1>2, <1>4, <1>5, <1>6, <2>3, <3>1 DEF Begins, Rest
  <2>4. QED
    BY <2>2, <2>3
<1>12. HeldLocks(d, t, ch2, alive, Up)
  <2>1. SUFFICES ASSUME d.pc = "lock" PROVE HeldLocks(d, t, ch2, alive, Up)
    BY DEF HeldLocks
  <2>2. m \in d.todo
    BY <1>2, <2>1
  <2>3. HeldMaster(d, t, ch2, alive, Up)
    BY <1>4, <1>9, <1>11, <2>1 DEF HeldMaster
  <2>4. QED
    BY <2>2, <2>3 DEF HeldLocks
<1>13. HeldRunning(d, t, ch2, faulty, Up)
  <2>1. SUFFICES ASSUME d.pc = "send" PROVE HeldRunning(d, t, ch2, faulty, Up)
    BY <1>3 DEF HeldRunning, Running
  <2>2. MasterFirst(d, ch2, Up)
    BY <1>4, <1>11, <2>1 DEF MasterFirst
  <2>3. RowTaken(d, t, ch2, faulty, Up)
    BY <1>4, <1>11, <2>1 DEF RowTaken
  <2>4. d.stmt = "insert" => HeldInsert(d, t, Up)
    <3>1. SUFFICES ASSUME d.stmt = "insert" PROVE HeldInsert(d, t, Up)
      OBVIOUS
    <3>2. Up # {m}
      BY <1>1, <1>4 DEF Holds, HeldNone
    <3>3. LockKind = 0
      BY <1>2, <1>3, <2>1, <3>1, <3>2
    <3>4. d.kind = 0
      BY <1>10, <3>3 DEF HeldKind
    <3>5. ~d.dead
      BY <1>3, <1>5 DEF Begins
    <3>6. QED
      BY <1>9, <1>11, <2>1, <3>4, <3>5 DEF HeldInsert, Granted
  <2>5. d.internal # {}
    BY <1>2
  <2>6. QED
    BY <2>2, <2>3, <2>4, <2>5 DEF HeldRunning
<1>14. d.todo \subseteq d.where /\ Finishing(d, ch2)
  BY <1>4, StaysOn
<1>15. QED
  BY <1>4, <1>7, <1>10, <1>12, <1>13, <1>14 DEF HeldBy, Holds

\* The answer to the lock on the master.
LEMMA MasterAnswer ==
    ASSUME NEW c, NEW t, NEW ch, LocksMaster(c, t, ch, alive, faulty, Up), ch[Least(Up)] \in Channels,
           ch[Least(Up)].is = "reply", HeldKind(c), Least(Up) \in c.todo
    PROVE  /\ LockKind = 1 /\ ~ch[Least(Up)].dead => Done(ch[Least(Up)]) /\ ch[Least(Up)].z = "T"
           /\ ch[Least(Up)].dead \/ (LockKind # 1 /\ c.kind = 1) => ~Done(ch[Least(Up)])
<1> DEFINE m == Least(Up)
<1>1. ch[m].kind \in {"C", "E"}
  BY ChannelFacts DEF Replies
<1>2. CASE c.kind = LockKind
  <2>1. Fair(m, IF c.kind = 1 THEN "lock" ELSE "rowlock", "T", ch[m], faulty)
    BY <1>2 DEF LocksMaster, Ask
  <2>2. ch[m].dead => ch[m].kind = "E"
    BY <2>1 DEF Fair
  <2>3. ~ch[m].dead => ch[m].kind = "C"
    BY <2>1 DEF Fair, Kind, Fails, Writes
  <2>4. ch[m].kind = "C" => ch[m].z = "T"
    BY <2>1 DEF Fair, After, is_commit_query
  <2>5. QED
    BY <1>2, <2>2, <2>3, <2>4 DEF Done
<1>3. CASE c.kind # LockKind
  <2>1. Fair(m, "lock", "E", ch[m], faulty) /\ c.kind = 1
    BY <1>3 DEF LocksMaster, Ask
  <2>2. ch[m].kind = "E"
    BY <1>1, <2>1 DEF Fair, is_commit_query
  <2>3. QED
    BY <1>3, <2>1, <2>2 DEF Done
<1>4. QED
  BY <1>2, <1>3

LEMMA LockMasterHeld ==
    ASSUME NEW c, NEW d, NEW t, NEW ch, NEW ch2, Stays(c, d, t, ch, ch2), MLockMaster(c, d, ch, ch2)
    PROVE  HeldBy(d, t, ch2, alive, faulty, Up)
<1> DEFINE m == Least(Up)
<1>1. /\ c.pc = "lock" /\ SameWork(c, d) /\ d.internal = c.internal /\ d.doomed = c.doomed
      /\ c.todo = {m} /\ ReadOff(m, Empty, ch, ch2) /\ d.pc \in {"send", "lock"}
  BY DEF MLockMaster
<1>2. /\ Up \subseteq Nodes /\ Live(c, t, ch, alive, faulty, Up) /\ Holds(c, t, ch, alive, faulty, Up)
      /\ m \in Up /\ c \in Children /\ ~d.doomed /\ d.pc # "exit" /\ Live(d, t, ch2, alive, faulty, Up)
      /\ \A k \in Up : m <= k
      /\ \A k \in Nodes : TxOK(k, t[k], alive) /\ RequestOK(k, c, t[k], ch[k], alive)
      /\ Empty.is = "empty" /\ ~Done(Empty) /\ ch \in [Nodes -> Channels]
  BY <1>1, StaysFacts
<1>3. /\ d.stmt = c.stmt /\ c.stmt = "insert" /\ c.internal = Up
      /\ LocksMaster(c, t, ch, alive, faulty, Up) /\ HeldMaster(c, t, ch, alive, Up)
  BY <1>1, <1>2 DEF SameWork, Live, Locks, LocksOthers, Holds, HeldLocks
<1>4. ch[m].is = "reply" /\ ch2[m] = Empty /\ \A k \in Nodes \ {m} : ch2[k] = ch[k]
  BY <1>1 DEF ReadOff
<1>5. \A k \in Up : ch2[k] = Empty
  BY <1>1, <1>2, <1>3, <1>4 DEF LocksMaster, Rest
<1>6. \A k \in Nodes : RequestOK(k, d, t[k], ch2[k], alive)
  BY <1>2, <1>3, <1>4 DEF RequestOK
<1>7. HeldRows(d, t, alive, faulty, Up) /\ HeldNone(d, t, Up)
  BY <1>1, <1>3 DEF HeldRows, HeldNone
<1>8. d.todo \subseteq d.where /\ Finishing(d, ch2)
  BY <1>2, StaysOn
<1>9. HeldKind(c) /\ ch[m] \in Channels
  BY <1>2 DEF Holds
<1>10. /\ LockKind = 1 /\ ~ch[m].dead => Done(ch[m]) /\ ch[m].z = "T"
       /\ ch[m].dead \/ (LockKind # 1 /\ c.kind = 1) => ~Done(ch[m])
  BY <1>1, <1>3, <1>4, <1>9, MasterAnswer
<1>11. \A k \in Up : t[k].locks = IF k = m /\ k \in alive /\ Done(ch[k]) THEN {LockName(c)} ELSE {}
  BY <1>3 DEF HeldMaster
<1>12. /\ ~c.dead /\ \A k \in Up : c.tstate[k] = "T"
  BY <1>3 DEF LocksMaster
<1>13. CASE /\ c.kind = 3 /\ ch[m].kind = "C" /\ d.pc = "send"
            /\ SameLock(c, d) /\ d.tstate = c.tstate
  <2>1. d.kind = 3 /\ ~d.dead /\ Done(ch[m]) /\ LockName(c) = "rowlock"
    BY <1>4, <1>12, <1>13 DEF SameLock, Done, LockName
  <2>2. HeldKind(d)
    BY <1>9, <1>13, <2>1 DEF HeldKind
  <2>3. MasterFirst(d, ch2, Up)
    BY <1>2, <1>5 DEF MasterFirst
  <2>4. \A k \in Up : t[k].locks = IF t[k].st # "T" THEN {}
                                   ELSE IF k = m THEN {"rowlock"} ELSE {}
    BY <1>2, <1>11, <2>1, LockSetFacts DEF TxOK
  <2>5. HeldInsert(d, t, Up)
    BY <1>12, <1>13, <2>1, <2>4 DEF HeldInsert, Granted
  <2>6. HeldRunning(d, t, ch2, faulty, Up)
    BY <1>1, <1>2, <1>3, <2>3, <2>5 DEF HeldRunning
  <2>7. HeldLocks(d, t, ch2, alive, Up)
    BY <1>13 DEF HeldLocks
  <2>8. QED
    BY <1>2, <1>6, <1>7, <1>8, <2>2, <2>6, <2>7 DEF HeldBy, Holds
<1>14. CASE /\ c.kind = 3 /\ ch[m].kind = "E" /\ d.pc = "lock" /\ d.todo = c.todo
            /\ d.kind = 1 /\ d.dead = c.dead /\ d.tstate = c.tstate
  <2>1. LockKind = 3
    BY <1>9, <1>14 DEF HeldKind
  <2>2. ~LockSafe
    BY <1>1, <1>2, <1>14, <2>1 DEF Live, Locks, LocksMaster, LocksOthers
  <2>3. HeldKind(d)
    BY <1>14, <2>1, <2>2 DEF HeldKind
  <2>4. HeldMaster(d, t, ch2, alive, Up)
    BY <1>2, <1>5, <1>11, <1>14 DEF HeldMaster, Done
  <2>5. HeldLocks(d, t, ch2, alive, Up) /\ HeldRunning(d, t, ch2, faulty, Up)
    BY <1>1, <1>14, <2>4 DEF HeldLocks, HeldRunning, Running
  <2>6. QED
    BY <1>2, <1>6, <1>7, <1>8, <2>3, <2>5 DEF HeldBy, Holds
<1>15. CASE /\ c.kind = 1 /\ d.pc = "lock" /\ d.todo = Up \ {m} /\ d.kind = 1
            /\ d.dead = ch[m].dead /\ d.tstate[m] = ch[m].z
            /\ \A k \in Nodes \ {m} : d.tstate[k] = c.tstate[k]
  <2>1. HeldKind(d) /\ LockName(c) = "lock"
    BY <1>9, <1>15 DEF HeldKind, LockName
  <2>2. \A k \in Up : Granted(d, k, Up) => d.tstate[k] = "T"
    BY <1>2, <1>10, <1>12, <1>15 DEF Granted
  <2>3. \A k \in Up : t[k].locks = IF k \in alive /\ Granted(d, k, Up) /\ (k \in d.todo => Done(ch2[k]))
                                   THEN {"lock"} ELSE {}
    <3>1. TAKE k \in Up
    <3>2. CASE k = m
      <4>1. Granted(d, m, Up) <=> ~ch[m].dead /\ LockKind = 1
        BY <1>15 DEF Granted
      <4>2. m \notin d.todo
        BY <1>15
      <4>3. Done(ch[m]) <=> ~ch[m].dead /\ LockKind = 1
        BY <1>10, <1>15
      <4>4. QED
        BY <1>11, <2>1, <3>2, <4>1, <4>2, <4>3
    <3>3. CASE k # m
      BY <1>2, <1>5, <1>11, <1>15, <3>3
    <3>4. QED
      BY <3>2, <3>3
  <2>4. \A n, k \in Up : k \in d.todo /\ k < n => n \in d.todo /\ ch2[n] = Empty
    <3>1. SUFFICES ASSUME NEW n \in Up, NEW k \in Up, k < n PROVE n # m
      BY <1>5, <1>15
    <3>2. m <= k /\ m \in Nat /\ k \in Nat /\ n \in Nat
      BY <1>2, NodesNat
    <3>3. QED
      BY <3>1, <3>2
  <2>5. HeldOthers(d, t, ch2, alive, Up)
    BY <2>2, <2>3, <2>4 DEF HeldOthers
  <2>6. HeldLocks(d, t, ch2, alive, Up) /\ HeldRunning(d, t, ch2, faulty, Up)
    BY <1>15, <2>5 DEF HeldLocks, HeldRunning, Running
  <2>7. QED
    BY <1>2, <1>6, <1>7, <1>8, <2>1, <2>6 DEF HeldBy, Holds
<1>16. QED
  BY <1>13, <1>14, <1>15 DEF MLockMaster

LEMMA LockOtherHeld ==
    ASSUME NEW c, NEW d, NEW t, NEW ch, NEW ch2, Stays(c, d, t, ch, ch2), MLockOther(c, d, ch, ch2)
    PROVE  HeldBy(d, t, ch2, alive, faulty, Up)
<1> DEFINE m == Least(Up)
           n == Least(c.todo)
<1>1. /\ c.pc = "lock" /\ SameWork(c, d) /\ SameLock(c, d) /\ d.internal = c.internal
      /\ d.doomed = c.doomed /\ n \in c.todo /\ m \notin c.todo
      /\ ReadOff(n, Empty, ch, ch2) /\ ~ch[n].dead
      /\ d.tstate[n] = ch[n].z /\ \A k \in Nodes \ {n} : d.tstate[k] = c.tstate[k]
      /\ d.todo = c.todo \ {n} /\ d.pc = IF d.todo = {} THEN "send" ELSE "lock"
  BY DEF MLockOther
<1>2. /\ Up \subseteq Nodes /\ Live(c, t, ch, alive, faulty, Up) /\ Holds(c, t, ch, alive, faulty, Up)
      /\ m \in Up /\ c \in Children /\ ~d.doomed /\ d.pc # "exit"
      /\ \A k \in Nodes : TxOK(k, t[k], alive) /\ RequestOK(k, c, t[k], ch[k], alive)
      /\ Empty.is = "empty" /\ ~Done(Empty) /\ ch \in [Nodes -> Channels]
  BY <1>1, StaysFacts
<1>3. /\ d.stmt = c.stmt /\ c.stmt = "insert" /\ c.internal = Up /\ d.kind = c.kind /\ d.dead = c.dead
      /\ LocksOthers(c, t, ch, alive, faulty, Up) /\ HeldOthers(c, t, ch, alive, Up)
  BY <1>1, <1>2 DEF SameWork, SameLock, Live, Locks, LocksMaster, Holds, HeldLocks
<1>4. /\ ch[n].is = "reply" /\ ch2[n] = Empty /\ n \in Up /\ c.kind = 1
      /\ \A k \in Nodes \ {n} : ch2[k] = ch[k]
  BY <1>1, <1>3 DEF ReadOff, LocksOthers
<1>5. \A k \in c.todo : n <= k
  <2>1. c.todo \subseteq Nodes /\ c.todo # {}
    BY <1>1, <1>2 DEF Children
  <2>2. QED
    BY <2>1, LeastFacts
<1> HIDE DEF n
<1>6. \A k \in Nodes : RequestOK(k, d, t[k], ch2[k], alive)
  BY <1>2, <1>3, <1>4 DEF RequestOK
<1>7. HeldKind(d) /\ HeldRows(d, t, alive, faulty, Up) /\ HeldNone(d, t, Up)
  BY <1>1, <1>2, <1>3 DEF Holds, HeldKind, HeldRows, HeldNone
<1>8. d.todo \subseteq d.where /\ Finishing(d, ch2)
  BY <1>2, StaysOn
<1>9. /\ c.dead => ch[n].z = "E"
      /\ ~c.dead => Done(ch[n]) /\ ch[n].z = "T"
  <2>1. Fair(n, IF c.dead THEN "error" ELSE "lock", "T", ch[n], faulty)
    BY <1>1, <1>3, <1>4 DEF LocksOthers, Ask
  <2>2. c.dead => ch[n].kind = "E"
    BY <1>1, <2>1 DEF Fair, Kind, Fails, Writes
  <2>3. ~c.dead => ch[n].kind = "C"
    BY <1>1, <2>1 DEF Fair, Kind, Fails, Writes
  <2>4. QED
    BY <1>4, <2>1, <2>2, <2>3 DEF Fair, After, Failed, is_commit_query, Done
<1>10. \A k \in Up : Granted(d, k, Up) <=> Granted(c, k, Up)
  BY <1>3 DEF Granted
<1>11. \A k \in Up : Granted(d, k, Up) => d.tstate[k] = "T"
  <2>1. TAKE k \in Up
  <2>2. CASE k = n
    BY <1>1, <1>3, <1>9, <2>2 DEF Granted
  <2>3. CASE k # n
    BY <1>1, <1>2, <1>3, <1>10, <2>3 DEF HeldOthers
  <2>4. QED
    BY <2>2, <2>3
<1>12. \A k \in Up : t[k].locks = IF k \in alive /\ Granted(d, k, Up) /\ (k \in d.todo => Done(ch2[k]))
                                  THEN {"lock"} ELSE {}
  <2>1. TAKE k \in Up
  <2>2. t[k].locks = IF k \in alive /\ Granted(c, k, Up) /\ (k \in c.todo => Done(ch[k]))
                     THEN {"lock"} ELSE {}
    BY <1>3 DEF HeldOthers
  <2>3. CASE k = n
    <3>1. Granted(c, n, Up) => Done(ch[n])
      BY <1>9 DEF Granted
    <3>2. n \notin d.todo
      BY <1>1
    <3>3. QED
      BY <1>10, <2>2, <2>3, <3>1, <3>2
  <2>4. CASE k # n
    BY <1>1, <1>2, <1>4, <1>10, <2>2, <2>4
  <2>5. QED
    BY <2>3, <2>4
<1>13. CASE d.todo # {}
  <2>1. \A j, k \in Up : k \in d.todo /\ k < j => j \in d.todo /\ ch2[j] = Empty
    <3>1. SUFFICES ASSUME NEW j \in Up, NEW k \in Up, k \in d.todo, k < j
                   PROVE  j \in d.todo /\ ch2[j] = Empty
      OBVIOUS
    <3>2. j \in c.todo /\ ch[j] = Empty
      BY <1>1, <1>3, <3>1 DEF HeldOthers
    <3>3. n <= k /\ n \in Nat /\ k \in Nat /\ j \in Nat
      BY <1>1, <1>2, <1>4, <1>5, <3>1, NodesNat
    <3>4. QED
      BY <1>1, <1>2, <1>4, <3>1, <3>2, <3>3
  <2>2. HeldOthers(d, t, ch2, alive, Up)
    BY <1>11, <1>12, <2>1 DEF HeldOthers
  <2>3. HeldLocks(d, t, ch2, alive, Up) /\ HeldRunning(d, t, ch2, faulty, Up)
    BY <1>1, <1>13, <2>2 DEF HeldLocks, HeldRunning, Running
  <2>4. QED
    BY <1>2, <1>6, <1>7, <1>8, <2>3 DEF HeldBy, Holds
<1>14. CASE d.todo = {}
  <2>1. \A k \in Up : ch2[k] = Empty
    BY <1>1, <1>2, <1>3, <1>4, <1>14 DEF LocksOthers, Rest
  <2>2. MasterFirst(d, ch2, Up)
    BY <1>2, <2>1 DEF MasterFirst
  <2>3. \A k \in Up : t[k].locks = IF t[k].st # "T" THEN {}
                                   ELSE IF Granted(d, k, Up) THEN {"lock"}
                                   ELSE IF d.kind = 3 /\ k = m THEN {"rowlock"} ELSE {}
    BY <1>2, <1>3, <1>4, <1>12, <1>14, LockSetFacts DEF TxOK
  <2>4. LockSafe => \A k \in Up : d.tstate[k] = IF d.dead THEN "E" ELSE "T"
    <3>1. SUFFICES ASSUME LockSafe, NEW k \in Up PROVE d.tstate[k] = IF d.dead THEN "E" ELSE "T"
      OBVIOUS
    <3>2. CASE k = n
      BY <1>1, <1>3, <1>9, <3>2
    <3>3. CASE k # n
      BY <1>1, <1>2, <1>3, <1>14, <3>1, <3>3 DEF LocksOthers
    <3>4. QED
      BY <3>2, <3>3
  <2>5. HeldInsert(d, t, Up)
    BY <1>11, <2>3, <2>4 DEF HeldInsert
  <2>6. HeldLocks(d, t, ch2, alive, Up) /\ HeldRunning(d, t, ch2, faulty, Up)
    BY <1>1, <1>2, <1>3, <1>14, <2>2, <2>5 DEF HeldLocks, HeldRunning
  <2>7. QED
    BY <1>2, <1>6, <1>7, <1>8, <2>6 DEF HeldBy, Holds
<1>15. QED
  BY <1>13, <1>14

LEMMA SendHeld ==
    ASSUME NEW c, NEW d, NEW t, NEW ch, NEW ch2, Stays(c, d, t, ch, ch2), MSend(c, d, ch, ch2)
    PROVE  HeldBy(d, t, ch2, alive, faulty, Up)
<1> DEFINE m == Least(Up)
           unsent == {n \in c.where : ch[n].is = "empty"}
           S == NextGroup(c, unsent)
<1>1. /\ c.pc = "send" /\ d.pc = "wait" /\ SameWork(c, d) /\ SameLock(c, d) /\ SameTx(c, d)
      /\ d.doomed = c.doomed
      /\ \A n \in Nodes : ch2[n] = IF n \notin S THEN ch[n]
                                   ELSE IF n \in alive THEN Request(c.stmt) ELSE Eof
  BY DEF MSend, SentTo
<1>2. /\ Up \subseteq Nodes /\ Live(c, t, ch, alive, faulty, Up) /\ Holds(c, t, ch, alive, faulty, Up)
      /\ m \in Up /\ c \in Children /\ ~d.doomed /\ d.pc # "exit"
      /\ \A k \in Nodes : TxOK(k, t[k], alive) /\ RequestOK(k, c, t[k], ch[k], alive)
      /\ ch \in [Nodes -> Channels]
  BY <1>1, StaysFacts
<1>3. /\ d.stmt = c.stmt /\ d.kind = c.kind /\ d.dead = c.dead /\ d.tstate = c.tstate
      /\ d.internal = c.internal
  BY <1>1 DEF SameWork, SameLock, SameTx
<1>4. /\ Runs(c, t, ch, alive, faulty, Up) /\ c.stmt \in AllStatements
      /\ c.stmt \in Writes => c.where = Up
  BY <1>1, <1>2, RunsFacts DEF Running
<1>5. S \subseteq unsent
  BY GroupFacts
<1>6. /\ Request(c.stmt).is = "request" /\ Request(c.stmt).q = c.stmt /\ Eof.is = "eof"
      /\ ~Done(Request(c.stmt)) /\ ~Done(Eof)
  BY DEF Request, Eof, Done
<1>7. c.stmt \in Writes /\ ~OneChild => S = IF m \in unsent THEN {m} ELSE unsent
  BY <1>4 DEF NextGroup, is_commit_query, Writes, MASTER_NODE_ID
<1>8. m \in unsent => ch[m].is = "empty"
  OBVIOUS
<1>9. c.stmt \in Writes => \A n \in Up : n \in unsent <=> ch[n].is = "empty"
  BY <1>4
<1> HIDE DEF S
<1>10. \A n \in Nodes : RequestOK(n, d, t[n], ch2[n], alive)
  <2>1. TAKE n \in Nodes
  <2>2. CASE n \notin S
    BY <1>1, <1>2, <1>3, <2>2 DEF RequestOK
  <2>3. CASE n \in S
    <3>1. c.stmt = "update" => t[n].locks \subseteq {"row"}
      BY <1>2, <1>4, <1>5, <2>3 DEF Holds, HeldRows, Writes
    <3>2. c.stmt \notin LockQueries
      BY <1>4 DEF AllStatements, LockQueries
    <3>3. QED
      BY <1>1, <1>3, <1>6, <2>3, <3>1, <3>2 DEF RequestOK
  <2>4. QED
    BY <2>2, <2>3
<1>11. HeldKind(d) /\ HeldRows(d, t, alive, faulty, Up) /\ HeldNone(d, t, Up)
  BY <1>1, <1>2, <1>3 DEF Holds, HeldKind, HeldRows, HeldNone
<1>12. HeldRunning(c, t, ch, faulty, Up) /\ c.pc \in Running
  BY <1>1, <1>2 DEF Holds, Running
<1>13. MasterFirst(d, ch2, Up)
  <2>1. SUFFICES ASSUME c.stmt \in Writes, ~OneChild, NEW n \in Up \ {m}, ch2[n].is # "empty"
                 PROVE  ch2[m].is \in {"reply", "eof"}
    BY <1>1, <1>3 DEF MasterFirst
  <2>2. /\ \A k \in Up \ {m} : ch[k].is # "empty" => ch[m].is \in {"reply", "eof"}
        /\ ch[m].is # "request"
    BY <1>1, <1>2, <1>12, <2>1 DEF HeldRunning, MasterFirst
  <2>3. CASE m \in unsent
    BY <1>1, <1>2, <1>7, <1>8, <2>1, <2>2, <2>3
  <2>4. CASE m \notin unsent
    <3>1. ch[m].is # "empty" /\ ch2[m] = ch[m]
      BY <1>1, <1>2, <1>7, <1>9, <2>1, <2>4
    <3>2. ch[m].is # "ready"
      BY <1>2, <1>4, <2>1 DEF Runs, Ask
    <3>3. ch[m] \in Channels
      BY <1>2
    <3>4. QED
      BY <2>2, <3>1, <3>2, <3>3, ChannelFacts
  <2>5. QED
    BY <2>3, <2>4
<1>14. d.stmt = "insert" => IF d.internal = {} THEN Up = {m} ELSE HeldInsert(d, t, Up)
  BY <1>3, <1>12 DEF HeldRunning, HeldInsert, Granted
<1>15. d.stmt = "update" => RowTaken(d, t, ch2, faulty, Up)
  <2>1. \A n \in Nodes : Done(ch2[n]) => Done(ch[n])
    BY <1>1, <1>6
  <2>2. QED
    BY <1>2, <1>3, <1>12, <2>1 DEF HeldRunning, RowTaken
<1>16. HeldRunning(d, t, ch2, faulty, Up) /\ HeldLocks(d, t, ch2, alive, Up)
  BY <1>1, <1>13, <1>14, <1>15 DEF HeldRunning, HeldLocks
<1>17. d.todo \subseteq d.where /\ Finishing(d, ch2)
  BY <1>2, StaysOn
<1>18. QED
  BY <1>2, <1>10, <1>11, <1>16, <1>17 DEF HeldBy, Holds

LEMMA WaitHeld ==
    ASSUME NEW c, NEW d, NEW t, NEW ch, NEW ch2, Stays(c, d, t, ch, ch2), MWait(c, d, ch, ch2)
    PROVE  HeldBy(d, t, ch2, alive, faulty, Up)
<1> DEFINE m == Least(Up)
<1>1. /\ c.pc = "wait" /\ d.pc \in {"send", "reply"} /\ SameWork(c, d) /\ SameLock(c, d) /\ SameTx(c, d)
      /\ d.doomed = c.doomed /\ ch2 = ch /\ \A n \in c.where : ch[n].is # "request"
  BY DEF MWait
<1>2. /\ Up \subseteq Nodes /\ Live(c, t, ch, alive, faulty, Up) /\ Holds(c, t, ch, alive, faulty, Up)
      /\ m \in Up /\ c \in Children /\ ~d.doomed /\ d.pc # "exit"
      /\ \A k \in Nodes : TxOK(k, t[k], alive) /\ RequestOK(k, c, t[k], ch[k], alive)
  BY <1>1, StaysFacts
<1>3. /\ d.stmt = c.stmt /\ d.kind = c.kind /\ d.dead = c.dead /\ d.tstate = c.tstate
      /\ d.internal = c.internal
  BY <1>1 DEF SameWork, SameLock, SameTx
<1>4. \A n \in Nodes : RequestOK(n, d, t[n], ch2[n], alive)
  BY <1>1, <1>2, <1>3 DEF RequestOK
<1>5. HeldKind(d) /\ HeldRows(d, t, alive, faulty, Up) /\ HeldNone(d, t, Up)
  BY <1>1, <1>2, <1>3 DEF Holds, HeldKind, HeldRows, HeldNone
<1>6. HeldRunning(c, t, ch, faulty, Up) /\ c.pc \in Running
  BY <1>1, <1>2 DEF Holds, Running
<1>7. \A n \in Up : ch[n].is # "request"
  <2>1. TAKE n \in Up
  <2>2. ch[n].is = "request" => n \in c.where
    BY <1>1, <1>2, <1>6, LiveRequest
  <2>3. QED
    BY <1>1, <2>2
<1>8. MasterFirst(d, ch2, Up)
  BY <1>1, <1>3, <1>6, <1>7 DEF HeldRunning, MasterFirst
<1>9. d.stmt = "insert" => IF d.internal = {} THEN Up = {m} ELSE HeldInsert(d, t, Up)
  BY <1>3, <1>6 DEF HeldRunning, HeldInsert, Granted
<1>10. d.stmt = "update" => RowTaken(d, t, ch2, faulty, Up)
  BY <1>1, <1>3, <1>6 DEF HeldRunning, RowTaken
<1>11. HeldRunning(d, t, ch2, faulty, Up) /\ HeldLocks(d, t, ch2, alive, Up)
  BY <1>1, <1>8, <1>9, <1>10 DEF HeldRunning, HeldLocks
<1>12. d.todo \subseteq d.where /\ Finishing(d, ch2)
  BY <1>2, StaysOn
<1>13. QED
  BY <1>2, <1>4, <1>5, <1>11, <1>12 DEF HeldBy, Holds

\* The statement is over: nothing is locked any more.
LEMMA OverHeld ==
    ASSUME NEW c, NEW d, NEW t, NEW ch, NEW ch2, Stays(c, d, t, ch, ch2),
           c.pc # "exit", ~c.doomed, ~d.doomed, d.pc \in Ending \cup {"idle"},
           d.stmt = c.stmt \/ (d.pc = "idle" /\ d.stmt = "none"),
           d.kind = c.kind \/ d.kind = LockKind,
           \A n \in Up : n \in c.internal /\ n \notin d.internal => t[n].locks = {},
           \A n \in Nodes : ch2[n] = ch[n] \/ ch2[n].is \in {"empty", "ready"}
    PROVE  HeldBy(d, t, ch2, alive, faulty, Up)
<1>1. /\ Up \subseteq Nodes /\ Holds(c, t, ch, alive, faulty, Up) /\ d.pc # "exit"
      /\ Live(d, t, ch2, alive, faulty, Up)
      /\ \A k \in Nodes : TxOK(k, t[k], alive) /\ RequestOK(k, c, t[k], ch[k], alive)
      /\ Empty.is = "empty"
  BY StaysFacts DEF Ending
<1>2. d.pc = "idle" => d.internal = {} /\ \A n \in Nodes : ch2[n] = Empty
  BY <1>1 DEF Live, Idle, Rest
<1>3. \A n \in Nodes : RequestOK(n, d, t[n], ch2[n], alive)
  <2>1. CASE d.stmt = c.stmt
    BY <1>1, <2>1 DEF RequestOK
  <2>2. CASE d.pc = "idle"
    BY <1>1, <1>2, <2>2 DEF RequestOK
  <2>3. QED
    BY <2>1, <2>2
<1>4. c.stmt = "insert" => \A n \in Up : n \notin d.internal => t[n].locks = {}
  BY <1>1 DEF Holds, HeldNone
<1>5. HeldKind(d)
  BY <1>1 DEF Holds, HeldKind
<1>6. HeldRows(d, t, alive, faulty, Up)
  <2>1. CASE c.stmt # "insert"
    BY <1>1, <2>1 DEF Holds, HeldRows
  <2>2. CASE c.stmt = "insert"
    <3>1. d.stmt # "insert" => \A n \in Up : t[n].locks = {}
      BY <1>2, <1>4, <2>2
    <3>2. QED
      BY <3>1 DEF HeldRows, RowFirst
  <2>3. QED
    BY <2>1, <2>2
<1>7. HeldNone(d, t, Up)
  <2>1. d.pc # "begin"
    BY DEF Ending
  <2>2. d.stmt = "begin" => \A n \in Up : t[n].locks = {}
    BY <1>1 DEF Holds, HeldNone
  <2>3. d.stmt = "insert" => \A n \in Up \ d.internal : t[n].locks = {}
    BY <1>4
  <2>4. QED
    BY <2>1, <2>2, <2>3 DEF HeldNone
<1>8. HeldRunning(d, t, ch2, faulty, Up) /\ HeldLocks(d, t, ch2, alive, Up)
  BY DEF HeldRunning, HeldLocks, Running, Ending
<1>9. d.todo \subseteq d.where /\ Finishing(d, ch2)
  BY <1>1, StaysOn
<1>10. QED
  BY <1>1, <1>3, <1>5, <1>6, <1>7, <1>8, <1>9 DEF HeldBy, Holds

LEMMA HeardHeld ==
    ASSUME NEW s, NEW c, NEW d, NEW t, NEW ch, NEW ch2, Stays(c, d, t, ch, ch2), MHeard(s, c, d, ch, ch2)
    PROVE  HeldBy(d, t, ch2, alive, faulty, Up)
<1>1. c.pc = "reply" /\ ~c.doomed /\ ~d.doomed
  BY StaysFacts DEF MHeard
<1>2. d.internal = c.internal /\ d.kind = c.kind /\ d.stmt = c.stmt /\ d.pc \in Ending
  BY DEF MHeard, SameTx, SameLock, Ending
<1>3. \A n \in Nodes : ch2[n] = ch[n] \/ ch2[n].is \in {"empty", "ready"}
  BY DEF MHeard
<1>4. QED
  BY <1>1, <1>2, <1>3, OverHeld

LEMMA CloseHeld ==
    ASSUME NEW c, NEW d, NEW t, NEW ch, NEW ch2, Stays(c, d, t, ch, ch2), MClose(c, d, ch, ch2)
    PROVE  HeldBy(d, t, ch2, alive, faulty, Up)
<1>1. c.pc # "exit" /\ ~c.doomed /\ ~d.doomed
  BY StaysFacts DEF MClose
<1>2. QED
  BY <1>1, OverHeld DEF MClose

LEMMA CommittedHeld ==
    ASSUME NEW c, NEW d, NEW t, NEW ch, NEW ch2, Stays(c, d, t, ch, ch2), MCommitted(c, d, ch, ch2)
    PROVE  HeldBy(d, t, ch2, alive, faulty, Up)
<1> DEFINE n == Turn(c)
<1>1. /\ c.pc = "commit" /\ SameWork(c, d) /\ SameLock(c, d) /\ d.doomed = c.doomed /\ n \in c.todo
      /\ ReadOff(n, Ready(ch[n].z), ch, ch2) /\ d.todo = c.todo \ {n} /\ d.internal = c.internal \ {n}
      /\ d.pc \in {"commit", "ready"} /\ (d.pc = "ready" => ~d.doomed)
  BY DEF MCommitted
<1> HIDE DEF n
<1>2. Ready(ch[n].z).is = "ready"
  BY DEF Ready
<1>3. /\ ch[n].is = "reply" /\ ch2[n].is = "ready" /\ \A k \in Nodes \ {n} : ch2[k] = ch[k]
      /\ d.stmt = c.stmt /\ d.where = c.where /\ d.kind = c.kind
  BY <1>1, <1>2 DEF ReadOff, SameWork, SameLock
<1>4. /\ \A k \in Nodes : TxOK(k, t[k], alive) /\ RequestOK(k, c, t[k], ch[k], alive)
      /\ c.todo \subseteq c.where /\ Finishing(c, ch) /\ c \in Children /\ Up \subseteq Nodes
  BY StaysFacts
<1>5. n \in Nodes
  BY <1>1, <1>4 DEF Children
<1>6. CASE c.doomed
  <2>1. \A k \in Nodes : RequestOK(k, d, t[k], ch2[k], alive)
    BY <1>3, <1>4, <1>5 DEF RequestOK
  <2>2. Finishing(d, ch2)
    BY <1>1, <1>3, <1>4, <1>5 DEF Finishing
  <2>3. QED
    BY <1>1, <1>3, <1>4, <1>6, <2>1, <2>2 DEF HeldBy
<1>7. CASE ~c.doomed
  <2>1. Commits(c, t, ch, alive, faulty, Up)
    BY <1>1, <1>7, StaysFacts DEF Live
  <2>2. PICK st \in TxStates : Ask(n, "commit", st, t[n], ch[n], alive, faulty)
    BY <1>1, <2>1 DEF Commits
  <2>3. ch[n].kind \in {"C", "E"}
    BY <1>3, <1>5, ChannelFacts, StaysFacts DEF Replies
  <2>4. ch[n].z = "I" /\ In(n, ch[n].z, t[n], alive)
    BY <1>3, <2>2, <2>3 DEF Ask, Fair, After, is_commit_query
  <2>5. t[n].locks = {}
    BY <1>4, <1>5, <2>4, NothingHeld
  <2>6. \A k \in Up : k \in c.internal /\ k \notin d.internal => t[k].locks = {}
    BY <1>1, <2>5
  <2>7. \A k \in Nodes : ch2[k] = ch[k] \/ ch2[k].is \in {"empty", "ready"}
    BY <1>3
  <2>8. QED
    BY <1>1, <1>3, <1>7, <2>6, <2>7, OverHeld DEF Ending
<1>8. QED
  BY <1>6, <1>7

LEMMA EndHeld ==
    ASSUME NEW c, NEW d, NEW t, NEW ch, NEW ch2, Stays(c, d, t, ch, ch2),
           MEnd(c, d, ch, ch2) \/ MDoom(c, d, ch, ch2) \/ MNew(c, d, t, ch, ch2)
    PROVE  HeldBy(d, t, ch2, alive, faulty, Up)
<1>1. /\ \A k \in Nodes : TxOK(k, t[k], alive) /\ RequestOK(k, c, t[k], ch[k], alive)
      /\ c.todo \subseteq c.where /\ Finishing(c, ch) /\ Empty.is = "empty" /\ Up \subseteq Nodes
  BY StaysFacts
<1>2. CASE MEnd(c, d, ch, ch2)
  <2>1. \A k \in Nodes : RequestOK(k, d, t[k], ch2[k], alive)
    BY <1>1, <1>2 DEF RequestOK, MEnd, SameWork
  <2>2. d.pc = "exit" /\ d.todo \subseteq d.where
    BY <1>1, <1>2 DEF MEnd, SameWork
  <2>3. QED
    BY <1>1, <2>1, <2>2 DEF HeldBy, Finishing
<1>3. CASE MDoom(c, d, ch, ch2)
  BY <1>1, <1>3 DEF HeldBy, Finishing, RequestOK, MDoom, SameWork
<1>4. CASE MNew(c, d, t, ch, ch2)
  <2>1. /\ d.pc = "idle" /\ d.stmt = "none" /\ d.kind = LockKind /\ d.todo = {}
        /\ \A n \in Nodes : ch2[n] = Empty /\ t[n] = NoTx
    BY <1>4 DEF MNew
  <2>2. \A k \in Nodes : RequestOK(k, d, t[k], ch2[k], alive)
    BY <1>1, <2>1 DEF RequestOK
  <2>3. \A k \in Up : t[k].locks = {}
    BY <1>1, <2>1, LockSetFacts
  <2>4. Holds(d, t, ch2, alive, faulty, Up)
    BY <2>1, <2>3 DEF Holds, HeldKind, HeldRows, RowFirst, HeldNone, HeldLocks, HeldRunning, Running
  <2>5. QED
    BY <1>1, <2>1, <2>2, <2>4 DEF HeldBy, Finishing
<1>5. QED
  BY <1>2, <1>3, <1>4

LEMMA MovesHeld ==
    ASSUME NEW s, NEW c, NEW d, NEW t, NEW ch, NEW ch2, Stays(c, d, t, ch, ch2),
           Moves(s, c, d, t, ch, ch2)
    PROVE  HeldBy(d, t, ch2, alive, faulty, Up)
BY QueryHeld, CommandHeld, BegunHeld, LockMasterHeld, LockOtherHeld, SendHeld, WaitHeld, HeardHeld,
   CloseHeld, CommittedHeld, EndHeld DEF Moves

LEMMA ChildHeld ==
    ASSUME Inv, Held, Inv', NEW s \in Sessions, NEW d, NEW ch2, ChildMove(s, d, ch2)
    PROVE  Held'
<1>1. /\ child \in [Sessions -> Children] /\ chan \in [Sessions -> [Nodes -> Channels]]
  BY DEF Inv, Shapes
<1>2. /\ child' = [child EXCEPT ![s] = d] /\ chan' = [chan EXCEPT ![s] = ch2]
      /\ UNCHANGED <<alive, tx, faulty, down>> /\ d \in Children /\ ch2 \in [Nodes -> Channels]
      /\ Moves(s, child[s], d, tx[s], chan[s], ch2)
  BY DEF ChildMove, Moved
<1>3. Up' = Up
  BY <1>2 DEF Up
<1>4. ASSUME NEW o \in Sessions
      PROVE  HeldBy(child'[o], tx'[o], chan'[o], alive', faulty', Up')
  <2>1. CASE o = s
    <3>1. child'[s] = d /\ chan'[s] = ch2
      BY <1>1, <1>2
    <3>2. Sound(d, tx[s], ch2, alive, faulty, Up)
      <4>1. Sound(child'[s], tx'[s], chan'[s], alive', faulty', Up')
        BY DEF Inv
      <4>2. QED
        BY <1>2, <1>3, <3>1, <4>1
    <3>3. Stays(child[s], d, tx[s], chan[s], ch2)
      BY <1>2, <3>2, SessionTypes DEF Stays, Held
    <3>4. HeldBy(d, tx[s], ch2, alive, faulty, Up)
      BY <1>2, <3>3, MovesHeld
    <3>5. QED
      BY <1>2, <1>3, <2>1, <3>1, <3>4
  <2>2. CASE o # s
    <3>1. child'[o] = child[o] /\ chan'[o] = chan[o]
      BY <1>1, <1>2, <2>2
    <3>2. QED
      BY <1>2, <1>3, <3>1 DEF Held
  <2>3. QED
    BY <2>1, <2>2
<1>5. Exclusive'
  BY <1>2 DEF Held, Exclusive
<1>6. QED
  BY <1>4, <1>5 DEF Held

LEMMA CrashHeldBy ==
    ASSUME NEW c, NEW t, NEW ch, NEW t2, NEW ch2, NEW k \in Nodes, NEW al, NEW fl, NEW up \in SUBSET Nodes,
           HeldBy(c, t, ch, al, fl, up), Bereft(k, t, ch, t2, ch2)
    PROVE  HeldBy(c, t2, ch2, al \ {k}, fl, up)
<1> DEFINE al2 == al \ {k}
<1> USE DEF Bereft
<1>1. /\ Eof.is = "eof" /\ ~Done(Eof) /\ Eof # Empty /\ Empty.is = "empty"
      /\ NoTx.locks = {} /\ NoTx.st = "I"
  BY LockSetFacts DEF Eof, Done, Empty
<1>2. \A n \in Nodes : TxOK(n, t2[n], al2) /\ RequestOK(n, c, t2[n], ch2[n], al2)
  <2>1. TAKE n \in Nodes
  <2>2. TxOK(n, t[n], al) /\ RequestOK(n, c, t[n], ch[n], al)
    BY DEF HeldBy
  <2>3. CASE n = k
    BY <1>1, <2>2, <2>3 DEF TxOK, RequestOK, LockSets
  <2>4. CASE n # k
    BY <2>2, <2>4 DEF TxOK, RequestOK
  <2>5. QED
    BY <2>3, <2>4
<1>3. Finishing(c, ch2)
  BY <1>1 DEF HeldBy, Finishing
<1>4. \A n \in Nodes : /\ t2[n].locks \subseteq t[n].locks
                       /\ Done(ch2[n]) => Done(ch[n])
                       /\ ch2[n].is # "empty" => ch[n].is # "empty"
                       /\ ch[n] = Empty => ch2[n] = Empty
                       /\ ch2[n].is # "request" \/ ch2[n] = ch[n]
                       /\ ch[n].is \in {"reply", "eof"} => ch2[n].is \in {"reply", "eof"}
  BY <1>1
<1>5. ASSUME Holds(c, t, ch, al, fl, up) PROVE Holds(c, t2, ch2, al2, fl, up)
  <2>1. HeldRows(c, t2, al2, fl, up)
    <3>1. up # {} => Least(up) \in up
      BY LeastFacts
    <3>2. RowFirst(t, al, fl, up) => RowFirst(t2, al2, fl, up)
      <4>1. SUFFICES ASSUME RowFirst(t, al, fl, up), fl = {}, Least(up) \in al2,
                            t2[Least(up)].st = "T", NEW n \in up, "row" \in t2[n].locks
                     PROVE  "row" \in t2[Least(up)].locks
        BY DEF RowFirst
      <4>2. Least(up) \in Nodes /\ Least(up) # k
        BY <3>1, <4>1
      <4>3. QED
        BY <1>4, <4>1, <4>2 DEF RowFirst
    <3>3. QED
      BY <1>4, <1>5, <3>2 DEF Holds, HeldRows
  <2>2. HeldNone(c, t2, up)
    BY <1>4, <1>5 DEF Holds, HeldNone
  <2>3. HeldMaster(c, t, ch, al, up) => HeldMaster(c, t2, ch2, al2, up)
    BY <1>1 DEF HeldMaster
  <2>4. HeldOthers(c, t, ch, al, up) => HeldOthers(c, t2, ch2, al2, up)
    <3>1. SUFFICES ASSUME HeldOthers(c, t, ch, al, up) PROVE HeldOthers(c, t2, ch2, al2, up)
      OBVIOUS
    <3>2. \A n \in up : t2[n].locks = IF n \in al2 /\ Granted(c, n, up) /\ (n \in c.todo => Done(ch2[n]))
                                      THEN {"lock"} ELSE {}
      BY <1>1, <3>1 DEF HeldOthers
    <3>3. QED
      BY <1>4, <3>1, <3>2 DEF HeldOthers
  <2>5. HeldLocks(c, t2, ch2, al2, up)
    BY <1>5, <2>3, <2>4 DEF Holds, HeldLocks
  <2>6. HeldRunning(c, t2, ch2, fl, up)
    <3>1. SUFFICES ASSUME c.pc \in Running PROVE HeldRunning(c, t2, ch2, fl, up)
      BY DEF HeldRunning
    <3>2. HeldRunning(c, t, ch, fl, up)
      BY <1>5 DEF Holds
    <3>3. MasterFirst(c, ch2, up)
      <4>1. MasterFirst(c, ch, up)
        BY <3>1, <3>2 DEF HeldRunning
      <4>2. \A n \in up : Least(up) \in Nodes
        BY LeastFacts
      <4>3. QED
        BY <1>4, <4>1, <4>2 DEF MasterFirst
    <3>4. HeldInsert(c, t, up) => HeldInsert(c, t2, up)
      <4>1. SUFFICES ASSUME HeldInsert(c, t, up) PROVE HeldInsert(c, t2, up)
        OBVIOUS
      <4>2. ASSUME NEW n \in up
            PROVE  t2[n].locks = IF t2[n].st # "T" THEN {} ELSE IF Granted(c, n, up) THEN {"lock"}
                                 ELSE IF c.kind = 3 /\ n = Least(up) THEN {"rowlock"} ELSE {}
        <5>1. CASE n = k
          BY <1>1, <5>1
        <5>2. CASE n # k
          BY <4>1, <5>2 DEF HeldInsert
        <5>3. QED
          BY <5>1, <5>2
      <4>3. QED
        BY <4>1, <4>2 DEF HeldInsert
    <3>5. RowTaken(c, t, ch, fl, up) => RowTaken(c, t2, ch2, fl, up)
      BY <1>1 DEF RowTaken
    <3>6. QED
      BY <3>1, <3>2, <3>3, <3>4, <3>5 DEF HeldRunning
  <2>7. QED
    BY <1>5, <2>1, <2>2, <2>5, <2>6 DEF Holds
<1>6. QED
  BY <1>2, <1>3, <1>5 DEF HeldBy

LEMMA CrashHeld ==
    ASSUME Inv, Held, NEW n \in Nodes, Crash(n)
    PROVE  Held'
<1>1. /\ tx \in [Sessions -> [Nodes -> TxRecs]] /\ chan \in [Sessions -> [Nodes -> Channels]]
      /\ Up \in SUBSET Nodes
  BY DEF Inv, Shapes, Up
<1>2. /\ alive' = alive \ {n} /\ UNCHANGED <<child, down, faulty>>
      /\ tx' = [s \in Sessions |-> [tx[s] EXCEPT ![n] = NoTx]]
      /\ chan' = [s \in Sessions |->
                    IF chan[s][n].is = "request" THEN [chan[s] EXCEPT ![n] = Eof] ELSE chan[s]]
  BY DEF Crash
<1>3. Up' = Up
  BY <1>2 DEF Up
<1>4. ASSUME NEW o \in Sessions
      PROVE  /\ tx'[o][n] = NoTx /\ chan'[o][n] = IF chan[o][n].is = "request" THEN Eof ELSE chan[o][n]
             /\ \A m \in Nodes \ {n} : tx'[o][m] = tx[o][m] /\ chan'[o][m] = chan[o][m]
  BY <1>1, <1>2
<1>5. ASSUME NEW o \in Sessions
      PROVE  HeldBy(child'[o], tx'[o], chan'[o], alive', faulty', Up')
  <2>1. HeldBy(child[o], tx'[o], chan'[o], alive \ {n}, faulty, Up)
    <3>1. HeldBy(child[o], tx[o], chan[o], alive, faulty, Up)
      BY DEF Held
    <3> DEFINE t2 == tx'[o]
               ch2 == chan'[o]
    <3>2. Bereft(n, tx[o], chan[o], t2, ch2)
      BY <1>4 DEF Bereft
    <3> HIDE DEF t2, ch2
    <3>3. HeldBy(child[o], t2, ch2, alive \ {n}, faulty, Up)
      BY <1>1, <3>1, <3>2, CrashHeldBy
    <3>4. QED
      BY <3>3 DEF t2, ch2
  <2>2. QED
    BY <1>2, <1>3, <2>1
<1>6. Exclusive'
  BY <1>4, LockSetFacts DEF Held, Exclusive
<1>7. QED
  BY <1>5, <1>6 DEF Held

\* What a signal leaves of a child.
LEMMA KilledFacts ==
    ASSUME NEW c \in Children
    PROVE  /\ Killed(c).stmt = c.stmt /\ Killed(c).todo = c.todo /\ Killed(c).where = c.where
           /\ Killed(c).count = c.count /\ Killed(c).ids = c.ids
           /\ Killed(c).pc = IF c.pc = "commit" THEN "commit" ELSE "exit"
           /\ Killed(c).pc # "exit" => Killed(c).doomed
BY DEF Killed, Exited, SignalsBlocked, Children

LEMMA FailoverHeld ==
    ASSUME Inv, Held, Failover
    PROVE  Held'
<1>1. /\ child' = [s \in Sessions |-> Killed(child[s])] /\ UNCHANGED <<alive, tx, faulty, chan>>
  BY DEF Failover, pgVars
<1>2. ASSUME NEW o \in Sessions
      PROVE  HeldBy(child'[o], tx'[o], chan'[o], alive', faulty', Up')
  <2> DEFINE c == child[o]
             d == Killed(c)
  <2>1. c \in Children /\ child'[o] = d
    BY <1>1, SessionTypes
  <2>2. /\ d.stmt = c.stmt /\ d.todo = c.todo /\ d.where = c.where
        /\ d.pc = IF c.pc = "commit" THEN "commit" ELSE "exit"
        /\ d.pc # "exit" => d.doomed
    BY <2>1, KilledFacts
  <2>3. HeldBy(c, tx[o], chan[o], alive, faulty, Up)
    BY DEF Held
  <2> HIDE DEF c, d
  <2>4. \A n \in Nodes : TxOK(n, tx[o][n], alive) /\ RequestOK(n, d, tx[o][n], chan[o][n], alive)
    BY <2>2, <2>3 DEF HeldBy, RequestOK
  <2>5. Finishing(d, chan[o]) /\ d.todo \subseteq d.where
    BY <2>2, <2>3 DEF HeldBy, Finishing
  <2>6. HeldBy(d, tx[o], chan[o], alive, faulty, Up')
    BY <2>2, <2>4, <2>5 DEF HeldBy
  <2>7. QED
    BY <1>1, <2>1, <2>6
<1>3. Exclusive'
  BY <1>1 DEF Held, Exclusive
<1>4. QED
  BY <1>2, <1>3 DEF Held

LEMMA SameHeld ==
    ASSUME Held, UNCHANGED <<child, tx, chan, alive, faulty, down>>
    PROVE  Held'
BY DEF Held, Exclusive, Up

LEMMA InitHeld == Init => Held
<1>1. SUFFICES ASSUME Init PROVE Held
  OBVIOUS
<1>2. ASSUME NEW s \in Sessions
      PROVE  HeldBy(child[s], tx[s], chan[s], alive, faulty, Up)
  <2> DEFINE c == child[s]
  <2>1. c = NewChild(0) /\ \A n \in Nodes : tx[s][n] = NoTx /\ chan[s][n] = Empty /\ n \in alive
    BY <1>1 DEF Init
  <2>2. c.pc = "idle" /\ c.todo = {} /\ c.stmt = "none" /\ c.kind = LockKind
    BY <2>1 DEF NewChild
  <2> HIDE DEF c
  <2>3. Empty.is = "empty" /\ Up \subseteq Nodes
    BY DEF Empty, Up
  <2>4. \A n \in Nodes : TxOK(n, tx[s][n], alive) /\ RequestOK(n, c, tx[s][n], chan[s][n], alive)
    BY <2>1, <2>3, LockSetFacts DEF TxOK, RequestOK, LockSets
  <2>5. \A n \in Up : tx[s][n].locks = {}
    BY <2>1, <2>3, LockSetFacts
  <2>6. Holds(c, tx[s], chan[s], alive, faulty, Up)
    BY <2>2, <2>5 DEF Holds, HeldKind, HeldRows, RowFirst, HeldNone, HeldLocks, HeldRunning, Running
  <2>7. HeldBy(c, tx[s], chan[s], alive, faulty, Up)
    BY <2>2, <2>4, <2>6 DEF HeldBy, Finishing
  <2>8. QED
    BY <2>7 DEF c
<1>3. Exclusive
  BY <1>1, LockSetFacts DEF Exclusive, Init
<1>4. QED
  BY <1>2, <1>3 DEF Held

LEMMA NextHeld == Inv /\ Held /\ [Next]_vars => Held'
<1>1. SUFFICES ASSUME Inv, Held, [Next]_vars PROVE Held'
  OBVIOUS
<1>2. Inv'
  BY <1>1, NextInv
<1>3. ASSUME NEW s \in Sessions, NEW n \in Nodes, Backend(s, n)
      PROVE  Held'
  BY <1>1, <1>3, BackendServes, ServedHeld
<1>4. ASSUME NEW s \in Sessions, Child(s)
      PROVE  Held'
  BY <1>1, <1>2, <1>4, ChildMoves, ChildHeld
<1>5. ASSUME NEW n \in Nodes, Crash(n)
      PROVE  Held'
  BY <1>1, <1>5, CrashHeld
<1>6. ASSUME NEW n \in Nodes, health_check(n)
      PROVE  Held'
  BY <1>1, <1>6, SameHeld DEF health_check, pgVars, ghosts
<1>7. CASE Failover
  BY <1>1, <1>7, FailoverHeld
<1>8. CASE UNCHANGED vars
  BY <1>1, <1>8, SameHeld DEF vars
<1>9. QED
  BY <1>1, <1>3, <1>4, <1>5, <1>6, <1>7, <1>8 DEF Next

\* Locks are taken in the order that the code intends, whatever fails: a table
\* or row lock on the master before the others, the other nodes in their order,
\* and no lock is in two hands (SimpleQuery 395-445, insert_lock).
THEOREM LockDiscipline == Spec => []Held
<1>1. Init => Inv /\ Held
  BY InitInv, InitHeld
<1>2. Inv /\ Held /\ [Next]_vars => (Inv /\ Held)'
  BY NextInv, NextHeld
<1>3. QED
  BY <1>1, <1>2, PTL DEF Spec

-----------------------------------------------------------------------------
(* No session waits for one that waits for it.                             *)

\* Who waits for a lock is in the middle of a write, or of taking the lock.
LEMMA WaiterFacts ==
    ASSUME Inv, Held, NEW s \in Sessions, NEW n \in Nodes, NEW l, l \in Needs(s, n), child[s].pc # "exit"
    PROVE  /\ chan[s][n].is = "request" /\ n \in Up /\ n \in alive /\ ~child[s].doomed
           /\ Live(child[s], tx[s], chan[s], alive, faulty, Up)
           /\ Holds(child[s], tx[s], chan[s], alive, faulty, Up)
           /\ child[s] \in Children /\ Least(Up) \in Up /\ Up \subseteq Nodes
           /\ \/ child[s].pc \in Running /\ child[s].stmt = "update" /\ l = "row"
              \/ child[s].pc \in Running /\ child[s].stmt = "insert" /\ l = "lock"
              \/ child[s].pc = "lock" /\ child[s].stmt = "insert" /\ l = chan[s][n].q /\ l \in LockQueries
<1> DEFINE c == child[s]
           y == chan[s][n]
<1>1. /\ c \in Children /\ Sound(c, tx[s], chan[s], alive, faulty, Up) /\ Up \subseteq Nodes
  BY SessionTypes
<1>2. HeldBy(c, tx[s], chan[s], alive, faulty, Up)
  BY DEF Held
<1>3. /\ y.is = "request"
      /\ \/ y.q = "update" /\ l = "row"
         \/ y.q = "insert" /\ l = "lock"
         \/ y.q \in LockQueries /\ l = y.q
  BY DEF Needs, LockQueries
<1>4. ~c.doomed
  <2>1. c.doomed => c.pc = "commit" /\ y.q = "commit"
    BY <1>1, <1>2, <1>3 DEF Sound, HeldBy, Finishing
  <2>2. QED
    BY <1>3, <2>1 DEF LockQueries
<1>5. /\ Live(c, tx[s], chan[s], alive, faulty, Up) /\ Holds(c, tx[s], chan[s], alive, faulty, Up)
      /\ RequestOK(n, c, tx[s][n], y, alive)
  BY <1>1, <1>2, <1>4 DEF Sound, HeldBy
<1>6. /\ n \in Up /\ c.pc \notin {"idle", "ready"}
      /\ c.pc = "begin" => y.q = "begin"
      /\ c.pc = "lock" => y.q \in LockQueries \cup {"error"}
      /\ c.pc \in Running => y.q = c.stmt
      /\ c.pc \in {"sync", "abort"} => y.q = "error"
      /\ c.pc = "commit" => y.q = "commit"
  BY <1>1, <1>3, <1>5, LiveRequest
<1>7. c.pc \in {"begin", "lock", "sync", "abort", "commit"} \cup Running /\ c.stmt \in AllStatements \cup {"none"}
  BY <1>1, <1>6 DEF Children, Places, Running
<1>8. c.pc = "lock" => c.stmt = "insert"
  BY <1>5 DEF Live, Locks
<1>9. Least(Up) \in Up
  BY <1>1, <1>6, LeastFacts
<1>10. \/ c.pc \in Running /\ c.stmt = "update" /\ l = "row"
       \/ c.pc \in Running /\ c.stmt = "insert" /\ l = "lock"
       \/ c.pc = "lock" /\ c.stmt = "insert" /\ l = y.q /\ l \in LockQueries
  BY <1>3, <1>6, <1>7, <1>8 DEF LockQueries, AllStatements
<1>11. n \in alive
  BY <1>3, <1>5 DEF RequestOK
<1>12. QED
  BY <1>1, <1>3, <1>4, <1>5, <1>6, <1>9, <1>10, <1>11

\* Who holds the row on some node holds it on the master, if that is alive.
LEMMA RowAtMaster ==
    ASSUME NEW c \in Children, NEW t, NEW ch, NEW up \in SUBSET Nodes, NEW m \in up,
           ch \in [Nodes -> Channels],
           Live(c, t, ch, alive, {}, up), Holds(c, t, ch, alive, {}, up), ~OneChild,
           c.pc \in Running, c.stmt = "update", Least(up) \in alive, m \in alive, "row" \in t[m].locks,
           \A n \in Nodes : TxOK(n, t[n], alive) /\ RequestOK(n, c, t[n], ch[n], alive)
    PROVE  "row" \in t[Least(up)].locks
<1> DEFINE k == Least(up)
<1>1. Runs(c, t, ch, alive, {}, up) /\ c.where = up /\ k \in up
  BY RunsFacts DEF Writes
<1>2. \A n \in up : Ask(n, "update", c.tstate[n], t[n], ch[n], alive, {})
  BY <1>1 DEF Runs
<1>3. \A n \in up : n \in alive => ch[n].is \in {"empty", "request", "reply"}
  <2>1. SUFFICES ASSUME NEW n \in up, n \in alive PROVE ch[n].is \in {"empty", "request", "reply"}
    OBVIOUS
  <2>2. ch[n].is # "ready" /\ ch[n].is # "eof" /\ ch[n] \in Channels
    BY <1>2, <2>1 DEF Ask, RequestOK
  <2>3. QED
    BY <2>2, ChannelFacts
<1>4. c.tstate[m] = "T"
  <2>1. t[m].st = "T"
    BY DEF TxOK
  <2>2. CASE ch[m].is \in {"empty", "request"}
    BY <1>2, <2>1, <2>2 DEF Ask, In
  <2>3. CASE ch[m].is = "reply"
    <3>1. Fair(m, "update", c.tstate[m], ch[m], {}) /\ ch[m].z = "T" /\ ch[m].kind \in {"C", "E"}
      BY <1>2, <2>1, <2>3, ChannelFacts DEF Ask, In, Replies
    <3>2. QED
      BY <3>1 DEF Fair, After, Failed, is_commit_query
  <2>4. QED
    BY <1>3, <2>2, <2>3
<1>5. c.tstate[k] = "T"
  <2>1. CASE c.internal # {}
    <3>1. RowTaken(c, t, ch, {}, up)
      BY DEF Holds, HeldRunning
    <3>2. QED
      BY <1>1, <2>1, <3>1 DEF RowTaken
  <2>2. CASE c.internal = {}
    <3>1. Uniform(c, up)
      BY <1>1, <2>2 DEF Runs, Single, Internal
    <3>2. QED
      BY <1>1, <1>4, <3>1 DEF Uniform
  <2>3. QED
    BY <2>1, <2>2
<1>6. t[k].st = "T"
  <2>1. CASE ch[k].is \in {"empty", "request"}
    BY <1>1, <1>2, <1>5, <2>1 DEF Ask, In
  <2>2. CASE ch[k].is = "reply"
    <3>1. Fair(k, "update", "T", ch[k], {}) /\ In(k, ch[k].z, t[k], alive)
      BY <1>1, <1>2, <1>5, <2>2 DEF Ask
    <3>2. ch[k].kind = "C"
      BY <3>1 DEF Fair, Kind, Fails, LockQueries
    <3>3. QED
      BY <3>1, <3>2 DEF Fair, After, is_commit_query, In
  <2>3. QED
    BY <1>1, <1>3, <2>1, <2>2
<1>7. RowFirst(t, alive, {}, up)
  BY DEF Holds, HeldRows
<1>8. QED
  BY <1>6, <1>7 DEF RowFirst

\* Who is inside an INSERT holds no row, only the lock that insert_lock takes.
LEMMA InsertLocks ==
    ASSUME NEW c \in Children, NEW t, NEW ch, NEW fl, NEW up \in SUBSET Nodes, NEW n \in up, NEW l,
           Live(c, t, ch, alive, fl, up), Holds(c, t, ch, alive, fl, up),
           c.stmt = "insert", c.pc \in Running \cup {"lock"}, l \in t[n].locks
    PROVE  /\ l \in LockQueries
           /\ l = "lock" /\ ~(c.pc = "lock" /\ Least(up) \in c.todo) => Granted(c, n, up)
           /\ c.pc \in Running => HeldInsert(c, t, up)
<1>1. CASE c.pc = "lock"
  BY <1>1 DEF Holds, HeldLocks, HeldMaster, HeldOthers, LockName, LockQueries, Running
<1>2. CASE c.pc \in Running
  <2>1. Least(up) \in up /\ Runs(c, t, ch, alive, fl, up)
    BY <1>2, RunsFacts
  <2>2. c.internal # {}
    <3>1. n \in c.internal
      BY DEF Holds, HeldNone
    <3>2. QED
      BY <3>1
  <2>3. HeldInsert(c, t, up)
    BY <1>2, <2>2 DEF Holds, HeldRunning
  <2>4. t[n].locks = IF t[n].st # "T" THEN {} ELSE IF Granted(c, n, up) THEN {"lock"}
                     ELSE IF c.kind = 3 /\ n = Least(up) THEN {"rowlock"} ELSE {}
    BY <2>3 DEF HeldInsert
  <2>5. QED
    BY <2>3, <2>4 DEF LockQueries
<1>3. QED
  BY <1>1, <1>2

\* An INSERT that waits for the lock of a table has not got it, and has got the
\* locks of the nodes before, if any.
LEMMA InsertWaits ==
    ASSUME NEW c \in Children, NEW t, NEW ch, NEW fl, NEW up \in SUBSET Nodes, NEW n \in up, NEW m \in up, NEW k,
           ch \in [Nodes -> Channels], n \in alive,
           Live(c, t, ch, alive, fl, up), Holds(c, t, ch, alive, fl, up), c.stmt = "insert",
           ch[n].is = "request", k \in t[m].locks,
           c.pc \in Running \/ (c.pc = "lock" /\ ch[n].q \in LockQueries)
    PROVE  /\ c.pc = "lock" => ch[n].q = "lock" /\ ~(n < m) /\ Least(up) \notin c.todo
           /\ c.pc \in Running /\ k = "lock" /\ (n # Least(up) \/ LockKind = 1) => "lock" \in t[n].locks
<1>1. ASSUME c.pc = "lock" PROVE ch[n].q = "lock" /\ ~(n < m) /\ Least(up) \notin c.todo
  <2>1. Locks(c, t, ch, alive, fl, up) /\ n \in c.todo
    BY <1>1, LiveRequest DEF Live
  <2>2. Least(up) \notin c.todo
    <3>1. SUFFICES ASSUME Least(up) \in c.todo PROVE FALSE
      OBVIOUS
    <3>2. HeldMaster(c, t, ch, alive, up) /\ n = Least(up)
      BY <1>1, <2>1, <3>1 DEF Holds, HeldLocks, Locks, LocksMaster, LocksOthers
    <3>3. ~Done(ch[n])
      BY DEF Done
    <3>4. QED
      BY <3>2, <3>3 DEF HeldMaster
  <2>3. HeldOthers(c, t, ch, alive, up) /\ LocksOthers(c, t, ch, alive, fl, up)
    <3>1. Least(up) \in up
      BY LeastFacts
    <3>2. QED
      BY <1>1, <2>1, <2>2, <3>1 DEF Holds, HeldLocks, Locks, LocksMaster
  <2>4. ch[n].q \in {"lock", "error"}
    BY <2>1, <2>3 DEF LocksOthers, Ask
  <2>5. ch[n].q = "lock"
    BY <1>1, <2>4 DEF LockQueries, Running
  <2>6. ~(n < m)
    <3>1. SUFFICES ASSUME n < m PROVE FALSE
      OBVIOUS
    <3>2. m \in c.todo /\ ch[m] = Empty
      BY <2>1, <2>3, <3>1 DEF HeldOthers
    <3>3. ~Done(ch[m])
      BY <3>2 DEF Done, Empty
    <3>4. QED
      BY <2>3, <3>2, <3>3 DEF HeldOthers
  <2>7. QED
    BY <2>2, <2>5, <2>6
<1>2. ASSUME c.pc \in Running, k = "lock", n # Least(up) \/ LockKind = 1
      PROVE  "lock" \in t[n].locks
  <2>1. HeldInsert(c, t, up) /\ Granted(c, m, up)
    BY <1>2, InsertLocks DEF Running
  <2>2. Granted(c, n, up)
    BY <1>2, <2>1 DEF Granted
  <2>3. c.tstate[n] = "T"
    BY <2>1, <2>2 DEF HeldInsert
  <2>4. t[n].st = "T"
    <3>1. Runs(c, t, ch, alive, fl, up) /\ c.where = up
      BY <1>2, RunsFacts DEF Writes
    <3>2. Ask(n, c.stmt, "T", t[n], ch[n], alive, fl)
      BY <2>3, <3>1 DEF Runs
    <3>3. QED
      BY <3>2 DEF Ask, In
  <2>5. QED
    BY <2>1, <2>2, <2>4 DEF HeldInsert
<1>3. QED
  BY <1>1, <1>2

LEMMA NoDeadlock ==
    ASSUME Inv, Held, alive = Nodes \/ N <= 2
    PROVE  NoDistributedDeadlock
<1>1. SUFFICES ASSUME faulty = {}, NEW s \in Sessions, NEW o \in Sessions, NEW n \in Nodes, NEW m \in Nodes,
                      WaitsFor(s, o, n), child[s].pc # "exit", WaitsFor(o, s, m), child[o].pc # "exit"
               PROVE  FALSE
  BY DEF NoDistributedDeadlock
<1>2. s # o
  BY <1>1 DEF WaitsFor
<1>3. PICK l : l \in Needs(s, n) /\ l \in tx[o][n].locks
  BY <1>1 DEF WaitsFor
<1>4. PICK k : k \in Needs(o, m) /\ k \in tx[s][m].locks
  BY <1>1 DEF WaitsFor
<1>5. ~OneChild
  BY <1>2, ReplicationAssumption
<1> DEFINE c == child[s]
           d == child[o]
           w == Least(Up)
<1>6. /\ chan[s][n].is = "request" /\ n \in Up /\ n \in alive
      /\ Live(c, tx[s], chan[s], alive, faulty, Up) /\ Holds(c, tx[s], chan[s], alive, faulty, Up)
      /\ c \in Children /\ w \in Up /\ Up \subseteq Nodes
      /\ \/ c.pc \in Running /\ c.stmt = "update" /\ l = "row"
         \/ c.pc \in Running /\ c.stmt = "insert" /\ l = "lock"
         \/ c.pc = "lock" /\ c.stmt = "insert" /\ l = chan[s][n].q /\ l \in LockQueries
  BY <1>1, <1>3, WaiterFacts
<1>7. /\ chan[o][m].is = "request" /\ m \in Up /\ m \in alive
      /\ Live(d, tx[o], chan[o], alive, faulty, Up) /\ Holds(d, tx[o], chan[o], alive, faulty, Up)
      /\ d \in Children
      /\ \/ d.pc \in Running /\ d.stmt = "update" /\ k = "row"
         \/ d.pc \in Running /\ d.stmt = "insert" /\ k = "lock"
         \/ d.pc = "lock" /\ d.stmt = "insert" /\ k = chan[o][m].q /\ k \in LockQueries
  BY <1>1, <1>4, WaiterFacts
<1>8. /\ chan[s] \in [Nodes -> Channels] /\ chan[o] \in [Nodes -> Channels] /\ Up \in SUBSET Nodes
      /\ \A j \in Nodes : /\ TxOK(j, tx[s][j], alive) /\ RequestOK(j, c, tx[s][j], chan[s][j], alive)
                          /\ TxOK(j, tx[o][j], alive) /\ RequestOK(j, d, tx[o][j], chan[o][j], alive)
      /\ \A j \in Nodes : tx[s][j].locks \cap tx[o][j].locks = {}
  BY <1>2, SessionTypes DEF Held, HeldBy, Exclusive
<1> HIDE DEF c, d, w
<1>9. c.stmt = "insert" => k \in LockQueries
  BY <1>4, <1>6, <1>7, <1>8, InsertLocks
<1>10. d.stmt = "insert" => l \in LockQueries
  BY <1>3, <1>6, <1>7, <1>8, InsertLocks
<1>11. CASE c.stmt = "update"
  <2>1. c.pc \in Running /\ l = "row"
    BY <1>6, <1>11
  <2>2. d.stmt = "update" /\ d.pc \in Running /\ k = "row"
    BY <1>7, <1>10, <2>1 DEF LockQueries
  <2>3. CASE w \in alive
    <3>1. "row" \in tx[s][w].locks
      BY <1>1, <1>4, <1>5, <1>6, <1>7, <1>8, <1>11, <2>1, <2>2, <2>3, RowAtMaster DEF w
    <3>2. "row" \in tx[o][w].locks
      BY <1>1, <1>3, <1>5, <1>6, <1>7, <1>8, <2>1, <2>2, <2>3, RowAtMaster DEF w
    <3>3. QED
      BY <1>6, <1>8, <3>1, <3>2
  <2>4. CASE w \notin alive
    <3>1. N <= 2 /\ n # w /\ m # w
      BY <1>6, <1>7, <2>4
    <3>2. n = m
      <4>1. N \in Nat /\ n \in 0 .. N - 1 /\ m \in 0 .. N - 1 /\ w \in 0 .. N - 1
        BY <1>6, <1>7, ReplicationAssumption DEF Nodes
      <4>2. QED
        BY <3>1, <4>1
    <3>3. QED
      BY <1>3, <1>4, <1>8, <2>1, <2>2, <3>2
  <2>5. QED
    BY <2>3, <2>4
<1>12. CASE c.stmt = "insert"
  <2>1. d.stmt = "insert"
    BY <1>7, <1>9, <1>12 DEF LockQueries
  <2>2. /\ c.pc = "lock" => chan[s][n].q = "lock" /\ ~(n < m) /\ w \notin c.todo
        /\ c.pc \in Running /\ k = "lock" /\ (n # w \/ LockKind = 1) => "lock" \in tx[s][n].locks
    BY <1>4, <1>6, <1>7, <1>8, <1>12, InsertWaits DEF w
  <2>3. /\ d.pc = "lock" => chan[o][m].q = "lock" /\ ~(m < n) /\ w \notin d.todo
        /\ d.pc \in Running /\ l = "lock" /\ (m # w \/ LockKind = 1) => "lock" \in tx[o][m].locks
    BY <1>3, <1>6, <1>7, <1>8, <2>1, InsertWaits DEF w
  <2>4. l = "lock" /\ k = "lock"
    BY <1>6, <1>7, <1>12, <2>1, <2>2, <2>3
  <2>5. Granted(c, m, Up) /\ Granted(d, n, Up)
    BY <1>3, <1>4, <1>6, <1>7, <1>8, <1>12, <2>1, <2>2, <2>3, <2>4, InsertLocks DEF w
  <2>6. (n # w \/ LockKind = 1) /\ (m # w \/ LockKind = 1)
    BY <2>5 DEF Granted, w
  <2>7. c.pc = "lock" /\ d.pc = "lock"
    BY <1>3, <1>4, <1>6, <1>7, <1>8, <1>12, <2>1, <2>2, <2>3, <2>4, <2>6
  <2>8. n = m
    BY <1>6, <1>7, <2>2, <2>3, <2>7, NodesNat
  <2>9. QED
    BY <1>3, <1>4, <1>6, <1>8, <2>4, <2>8
<1>13. QED
  BY <1>6, <1>11, <1>12

\* A node dies only of the fault that stands for it.
LEMMA AliveStep ==
    ASSUME Inv, [Next]_vars, "crash" \notin Faults
    PROVE  alive' = alive
<1>1. ASSUME NEW s \in Sessions, NEW n \in Nodes, Backend(s, n)
      PROVE  alive' = alive
  BY <1>1, BackendServes DEF Served
<1>2. ASSUME NEW s \in Sessions, Child(s)
      PROVE  alive' = alive
  BY <1>2, ChildMoves DEF ChildMove, Moved
<1>3. ASSUME NEW n \in Nodes, Crash(n) \/ health_check(n)
      PROVE  alive' = alive
  BY <1>3 DEF Crash, Fault, health_check, pgVars
<1>4. CASE Failover
  BY <1>4 DEF Failover, pgVars
<1>5. CASE UNCHANGED vars
  BY <1>5 DEF vars
<1>6. QED
  BY <1>1, <1>2, <1>3, <1>4, <1>5 DEF Next

\* Two sessions never wait for each other on two different nodes: the row is
\* taken on the master first, tables are locked in the order of the nodes.
\* Only when the master has died may the others decide differently, and then
\* there must be two of them.
THEOREM NoDistributedDeadlockSafe ==
    ASSUME "crash" \notin Faults \/ N <= 2
    PROVE  Spec => []NoDistributedDeadlock
<1> DEFINE Whole == Inv /\ Held /\ (alive = Nodes \/ N <= 2)
<1>1. Init => Whole
  BY InitInv, InitHeld DEF Init
<1>2. Whole /\ [Next]_vars => Whole'
  <2>1. SUFFICES ASSUME Whole, [Next]_vars PROVE Whole'
    OBVIOUS
  <2>2. Inv' /\ Held'
    BY <2>1, NextInv, NextHeld
  <2>3. alive' = Nodes \/ N <= 2
    BY <2>1, AliveStep
  <2>4. QED
    BY <2>2, <2>3
<1>3. Whole => NoDistributedDeadlock
  BY NoDeadlock
<1> HIDE DEF Whole
<1>4. QED
  BY <1>1, <1>2, <1>3, PTL DEF Spec

-----------------------------------------------------------------------------
(* Types.                                                                  *)

\* The bounds on the statements bound everything that statements leave behind.
LEMMA IdsFinite == IsFiniteSet(Ids) /\ Cardinality(Ids) \in Nat
<1> DEFINE Row(s) == {s} \X (1 .. MaxStmts[s])
           R == {Row(s) : s \in Sessions}
           f == [s \in Sessions |-> Row(s)]
<1>1. IsFiniteSet(Sessions) /\ MaxStmts \in [Sessions -> Nat]
  BY ReplicationAssumption
<1>2. \A s \in Sessions : IsFiniteSet(Row(s))
  <2>1. TAKE s \in Sessions
  <2>2. IsFiniteSet(1 .. MaxStmts[s])
    BY <1>1, FS_Interval
  <2>3. IsFiniteSet({s})
    BY FS_Singleton
  <2>4. QED
    BY <2>2, <2>3, FS_Product
<1>3. IsFiniteSet(R)
  <2>1. f \in Surjection(Sessions, R)
    BY DEF Surjection
  <2>2. QED
    BY <1>1, <2>1, FS_Surjection
<1>4. Ids = UNION R
  BY DEF Ids
<1>5. \A T \in R : IsFiniteSet(T)
  BY <1>2
<1> HIDE DEF R
<1>6. IsFiniteSet(UNION R)
  BY <1>3, <1>5, FS_UNION
<1>7. QED
  BY <1>4, <1>6, FS_CardinalityType

LEMMA IdsAre ==
    ASSUME NEW s \in Sessions, NEW k \in Nat
    PROVE  <<s, k>> \in Ids <=> k >= 1 /\ k <= MaxStmts[s]
<1>1. MaxStmts[s] \in Nat
  BY ReplicationAssumption
<1>2. QED
  BY <1>1 DEF Ids

LEMMA IdOf ==
    ASSUME NEW i \in Ids
    PROVE  i[1] \in Sessions /\ i[2] \in Nat /\ i = <<i[1], i[2]>>
<1>1. PICK s \in Sessions : i \in {s} \X (1 .. MaxStmts[s])
  BY DEF Ids
<1>2. MaxStmts[s] \in Nat
  BY ReplicationAssumption
<1>3. QED
  BY <1>1, <1>2

\* What is spent stays spent.
LEMMA MovePasses ==
    ASSUME NEW s \in Sessions, NEW c \in Children, NEW d \in Children, NEW t, NEW ch, NEW ch2, NEW n \in Nodes,
           ch \in [Nodes -> Channels], Moves(s, c, d, t, ch, ch2)
    PROVE  d.count = c.count + 1 \/ (d.count = c.count /\ (Pending(d, ch2[n]) => Pending(c, ch[n])))
<1> DEFINE y == ch[n]
           y2 == ch2[n]
<1>1. CASE MQuery(s, c, d, ch, ch2)
  BY <1>1 DEF MQuery
<1>2. CASE MCommand(c, d, ch, ch2)
  <2>1. Command(c) # "insert"
    BY <1>2 DEF MCommand, Command, Commands
  <2>2. y2 = y \/ y2 = Request(Command(c)) \/ y2 = Eof
    BY <1>2 DEF MCommand, SentTo
  <2>3. QED
    BY <1>2, <2>1, <2>2 DEF MCommand, Commands, Pending, Request, Eof
<1>3. CASE MBegun(c, d, ch, ch2) \/ MLockMaster(c, d, ch, ch2) \/ MLockOther(c, d, ch, ch2)
  <2>1. c.pc \in {"begin", "lock"} /\ SameWork(c, d) /\ (y2 = y \/ y2 = Empty)
    BY <1>3 DEF MBegun, MLockMaster, MLockOther, ReadOff
  <2>2. QED
    BY <2>1 DEF SameWork, Pending, Empty
<1>4. CASE MSend(c, d, ch, ch2)
  <2>1. y2 = y \/ (y.is = "empty" /\ (y2 = Request(c.stmt) \/ y2 = Eof))
    BY <1>4, GroupFacts DEF MSend, SentTo
  <2>2. QED
    BY <1>4, <2>1 DEF MSend, SameWork, Pending, Request, Eof
<1>5. CASE MWait(c, d, ch, ch2)
  BY <1>5 DEF MWait, SameWork, Pending
<1>6. CASE MHeard(s, c, d, ch, ch2)
  BY <1>6 DEF MHeard, Pending
<1>7. CASE MClose(c, d, ch, ch2)
  BY <1>7 DEF MClose, Pending, Ending
<1>8. CASE MCommitted(c, d, ch, ch2)
  BY <1>8 DEF MCommitted, SameWork, ReadOff, Pending, Ready
<1>9. CASE MEnd(c, d, ch, ch2)
  BY <1>9 DEF MEnd, SameWork, Pending
<1>10. CASE MDoom(c, d, ch, ch2)
  BY <1>10 DEF MDoom, SameWork, Pending
<1>11. CASE MNew(c, d, t, ch, ch2)
  BY <1>11 DEF MNew, Pending, Empty
<1>12. QED
  BY <1>1, <1>2, <1>3, <1>4, <1>5, <1>6, <1>7, <1>8, <1>9, <1>10, <1>11 DEF Moves

LEMMA SpentGrows ==
    ASSUME Inv, NEW n \in Nodes, \A s \in Sessions : Onward(s, n)
    PROVE  Spent(n) \subseteq Spent(n)'
<1>1. SUFFICES ASSUME NEW i \in Ids, Passed(i[2], child[i[1]], chan[i[1]][n])
               PROVE  Passed(i[2], child'[i[1]], chan'[i[1]][n])
  BY DEF Spent
<1>2. i[1] \in Sessions /\ i[2] \in Nat
  BY IdOf
<1>3. child[i[1]].count \in Nat
  BY <1>2, SessionTypes DEF Children
<1>4. QED
  BY <1>1, <1>2, <1>3 DEF Passed, Onward

LEMMA StillNumbered ==
    ASSUME Inv, Numbered, seq' = seq, \A s \in Sessions, n \in Nodes : Onward(s, n)
    PROVE  Numbered'
<1>1. SUFFICES ASSUME NEW n \in Nodes PROVE seq[n] <= Cardinality(Spent(n)')
  BY DEF Numbered, Nodes
<1>2. Spent(n) \subseteq Spent(n)' /\ Spent(n)' \subseteq Ids /\ seq[n] \in Nat
  BY SpentGrows DEF Spent, Inv, Shapes
<1>3. IsFiniteSet(Spent(n)') /\ Cardinality(Spent(n)) <= Cardinality(Spent(n)')
  BY <1>2, IdsFinite, FS_Subset
<1>4. Cardinality(Spent(n)) \in Nat /\ Cardinality(Spent(n)') \in Nat
  BY <1>2, <1>3, FS_Subset, FS_CardinalityType
<1>5. QED
  BY <1>2, <1>3, <1>4 DEF Numbered

LEMMA ServedOnward ==
    ASSUME Inv, NEW s \in Sessions, NEW n \in Nodes, NEW x2, NEW y2, Served(s, n, x2, y2)
    PROVE  \A o \in Sessions, m \in Nodes : Onward(o, m)
<1>1. SUFFICES ASSUME NEW o \in Sessions, NEW m \in Nodes PROVE Onward(o, m)
  OBVIOUS
<1>2. child' = child /\ chan' = [chan EXCEPT ![s][n] = y2] /\ chan \in [Sessions -> [Nodes -> Channels]]
  BY DEF Served, Inv, Shapes
<1>3. CASE o = s /\ m = n
  <2>1. chan'[o][m] = y2
    BY <1>2, <1>3
  <2>2. y2.is = "reply" \/ (child[s].pc = "exit" /\ y2 = Empty)
    BY DEF Served, Serves, BBegin, BEnd, BFail, BSame, BLock, BGone, BWrite, Answers
  <2>3. Pending(child[s], y2) => Pending(child[s], chan[s][n])
    BY <2>2 DEF Pending, Empty
  <2>4. QED
    BY <1>2, <1>3, <2>1, <2>3 DEF Onward
<1>4. CASE ~(o = s /\ m = n)
  BY <1>2, <1>4 DEF Onward
<1>5. QED
  BY <1>3, <1>4

\* An INSERT takes one number, and is then spent.
LEMMA InsertNumbered ==
    ASSUME Inv, Held, Numbered, Counted, NEW s \in Sessions, NEW n \in Nodes, NEW x2, NEW y2, NEW e,
           Served(s, n, x2, y2), BWrite(s, n, tx[s][n], chan[s][n], x2, y2, e)
    PROVE  Numbered' /\ e \in WriteRecs
<1> DEFINE c == child[s]
           y == chan[s][n]
           i == <<s, c.count>>
<1>1. \A o \in Sessions, m \in Nodes : Onward(o, m)
  BY ServedOnward
<1>2. /\ y.is = "request" /\ y.q \in Writes /\ y2.is = "reply" /\ c \in Children /\ c.count \in Nat
      /\ e = [id |-> i, val |-> IF y.q = "update" THEN 0 ELSE seq[n] + 1]
      /\ seq' = IF y.q = "update" THEN seq ELSE [seq EXCEPT ![n] = @ + 1]
      /\ seq \in [Nodes -> Nat]
  BY SessionTypes DEF BWrite, Answers, Inv, Shapes, Children
<1>3. y.q = c.stmt
  BY <1>2 DEF Held, HeldBy, RequestOK
<1>4. i \in Ids
  BY <1>2, <1>3, IdsAre DEF Counted, Writes
<1>5. chan' = [chan EXCEPT ![s][n] = y2] /\ child' = child /\ chan \in [Sessions -> [Nodes -> Channels]]
  BY DEF Served, Inv, Shapes
<1>6. IsFiniteSet(Ids) /\ Cardinality(Ids) \in Nat
  BY IdsFinite
<1>7. ASSUME NEW m \in Nodes
      PROVE  /\ Spent(m) \subseteq Spent(m)' /\ Spent(m)' \subseteq Ids /\ IsFiniteSet(Spent(m)) /\ IsFiniteSet(Spent(m)')
             /\ Cardinality(Spent(m)) \in Nat /\ Cardinality(Spent(m)') \in Nat
             /\ Cardinality(Spent(m)) <= Cardinality(Spent(m)') /\ Cardinality(Spent(m)') <= Cardinality(Ids)
  <2>1. Spent(m) \subseteq Spent(m)' /\ Spent(m) \subseteq Ids /\ Spent(m)' \subseteq Ids
    BY <1>1, SpentGrows DEF Spent
  <2>2. IsFiniteSet(Spent(m)) /\ IsFiniteSet(Spent(m)')
    BY <1>6, <2>1, FS_Subset
  <2>3. QED
    BY <1>6, <2>1, <2>2, FS_Subset, FS_CardinalityType
<1>8. CASE y.q = "update"
  <2>1. Numbered'
    BY <1>1, <1>2, <1>8, StillNumbered
  <2>2. QED
    BY <1>2, <1>4, <1>6, <1>8, <2>1 DEF WriteRecs
<1>9. CASE y.q = "insert"
  <2>1. i \notin Spent(n)
    BY <1>2, <1>9 DEF Spent, Passed, Pending
  <2>2. ~(c.pc \in {"begin", "lock"})
    <3>1. SUFFICES ASSUME c.pc \in {"begin", "lock"} PROVE FALSE
      OBVIOUS
    <3>2. Live(c, tx[s], chan[s], alive, faulty, Up) /\ Up \in SUBSET Nodes
      BY <3>1, SessionTypes DEF Sound
    <3>3. QED
      BY <1>2, <1>9, <3>1, <3>2, LiveRequest DEF LockQueries
  <2>3. ~Pending(c, y2)
    BY <1>2, <2>2 DEF Pending
  <2>4. i \in Spent(n)'
    BY <1>4, <1>5, <2>3 DEF Spent, Passed
  <2>5. Cardinality(Spent(n)) + 1 <= Cardinality(Spent(n)')
    <3>1. Cardinality(Spent(n) \cup {i}) = Cardinality(Spent(n)) + 1
      BY <1>7, <2>1, FS_AddElement
    <3>2. Spent(n) \cup {i} \subseteq Spent(n)'
      BY <1>7, <2>4
    <3>3. QED
      BY <1>7, <3>1, <3>2, FS_Subset
  <2>6. \A m \in Nodes : seq'[m] = IF m = n THEN seq[n] + 1 ELSE seq[m]
    BY <1>2, <1>9
  <2>7. \A m \in Nodes : seq'[m] <= Cardinality(Spent(m)')
    <3>1. TAKE m \in Nodes
    <3>2. seq[m] <= Cardinality(Spent(m)) /\ seq[m] \in Nat
      BY <1>2 DEF Numbered
    <3>3. CASE m = n
      <4> HIDE DEF i
      <4>1. QED
        BY <1>7, <2>5, <2>6, <3>2, <3>3
    <3>4. CASE m # n
      BY <1>7, <2>6, <3>2, <3>4
    <3>5. QED
      BY <3>3, <3>4
  <2>8. Numbered'
    BY <2>7 DEF Numbered, Nodes
  <2>9. seq[n] + 1 \in 0 .. Cardinality(Ids)
    <3>1. seq[n] \in Nat /\ seq'[n] = seq[n] + 1 /\ seq'[n] <= Cardinality(Spent(n)')
      BY <1>2, <2>6, <2>7
    <3>2. QED
      BY <1>6, <1>7, <3>1
  <2>10. QED
    BY <1>2, <1>4, <1>9, <2>8, <2>9 DEF WriteRecs
<1>10. QED
  BY <1>2, <1>8, <1>9 DEF Writes

LEMMA ServedLogged ==
    ASSUME Inv, Logged, NEW s \in Sessions, NEW n \in Nodes, NEW x2, NEW y2, Served(s, n, x2, y2),
           \A e : BWrite(s, n, tx[s][n], chan[s][n], x2, y2, e) => e \in WriteRecs
    PROVE  Logged'
<1> DEFINE x == tx[s][n]
           S == Seq(WriteRecs)
<1>1. /\ tx \in [Sessions -> [Nodes -> TxRecs]] /\ tx' = [tx EXCEPT ![s][n] = x2]
      /\ log \in [Nodes -> S] /\ x.w \in S /\ log[n] \in S
  BY DEF Served, Inv, Shapes, Logged
<1>2. NoTx.w \in S /\ (x2 = Aborted(x) => x2.w \in S)
  <2>1. <<>> \in S
    BY EmptySeq
  <2>2. NoTx.w = <<>> /\ Aborted(x).w = <<>>
    BY DEF NoTx, Aborted
  <2>3. QED
    BY <2>1, <2>2
<1>3. x2.w \in S /\ log' \in [Nodes -> S]
  <2>1. ASSUME NEW e, BWrite(s, n, x, chan[s][n], x2, y2, e)
        PROVE  x2.w \in S /\ log' \in [Nodes -> S]
    <3>1. e \in WriteRecs
      BY <2>1
    <3>2. Append(x.w, e) \in S /\ Append(log[n], e) \in S
      BY <1>1, <3>1, AppendProperties
    <3> HIDE DEF S
    <3>3. QED
      BY <1>1, <1>2, <2>1, <3>2 DEF BWrite
  <2>2. CASE BEnd(n, x, chan[s][n], x2, y2)
    <3>1. log[n] \o x.w \in S
      BY <1>1, ConcatProperties
    <3> HIDE DEF S
    <3>2. QED
      BY <1>1, <1>2, <2>2, <3>1 DEF BEnd
  <2>3. CASE \/ BBegin(n, x, chan[s][n], x2, y2) \/ BFail(n, x, chan[s][n], x2, y2)
             \/ BSame(n, x, chan[s][n], x2, y2) \/ BLock(s, n, x, chan[s][n], x2, y2)
             \/ BGone(s, x2, chan[s][n], y2)
    <3>1. log' = log
      BY <2>3 DEF BBegin, BFail, BSame, BLock, BGone, Quietly
    <3>2. x2.w = x.w \/ x2 = NoTx \/ x2 = Aborted(x)
      BY <2>3 DEF BBegin, BFail, BSame, BLock, BGone
    <3> HIDE DEF S, x
    <3>3. QED
      BY <1>1, <1>2, <3>1, <3>2
  <2>4. QED
    BY <2>1, <2>2, <2>3 DEF Served, Serves
<1> HIDE DEF S
<1>4. \A o \in Sessions, m \in Nodes : tx'[o][m].w \in S
  <2>1. TAKE o \in Sessions, m \in Nodes
  <2>2. CASE o = s /\ m = n
    BY <1>1, <1>3, <2>2
  <2>3. CASE ~(o = s /\ m = n)
    <3>1. tx'[o][m] = tx[o][m]
      BY <1>1, <2>3
    <3>2. QED
      BY <3>1 DEF Logged, S
  <2>4. QED
    BY <2>2, <2>3
<1>5. QED
  BY <1>3, <1>4 DEF Logged, S

LEMMA KilledOnward ==
    ASSUME Inv, Failover
    PROVE  \A s \in Sessions, n \in Nodes : Onward(s, n)
<1>1. child' = [s \in Sessions |-> Killed(child[s])] /\ chan' = chan
  BY DEF Failover, pgVars
<1>2. SUFFICES ASSUME NEW s \in Sessions, NEW n \in Nodes PROVE Onward(s, n)
  OBVIOUS
<1>3. /\ child'[s].count = child[s].count /\ child'[s].pc \in {"commit", "exit"} /\ chan'[s][n] = chan[s][n]
  BY <1>1, SessionTypes, KilledFacts
<1>4. QED
  BY <1>3 DEF Onward, Pending

LEMMA CrashOnward ==
    ASSUME Inv, NEW k \in Nodes, Crash(k)
    PROVE  \A s \in Sessions, n \in Nodes : Onward(s, n)
<1>1. /\ child' = child
      /\ chan' = [s \in Sessions |-> IF chan[s][k].is = "request" THEN [chan[s] EXCEPT ![k] = Eof] ELSE chan[s]]
  BY DEF Crash
<1>2. SUFFICES ASSUME NEW s \in Sessions, NEW n \in Nodes PROVE Onward(s, n)
  OBVIOUS
<1>3. chan[s] \in [Nodes -> Channels]
  BY SessionTypes
<1>4. chan'[s][n] = chan[s][n] \/ chan'[s][n] = Eof
  BY <1>1, <1>3
<1>5. QED
  BY <1>1, <1>4 DEF Onward, Pending, Eof

LEMMA ChildOnward ==
    ASSUME Inv, NEW s \in Sessions, NEW d, NEW ch2, ChildMove(s, d, ch2)
    PROVE  \A o \in Sessions, n \in Nodes : Onward(o, n)
<1>1. SUFFICES ASSUME NEW o \in Sessions, NEW n \in Nodes PROVE Onward(o, n)
  OBVIOUS
<1>2. /\ child' = [child EXCEPT ![s] = d] /\ chan' = [chan EXCEPT ![s] = ch2] /\ d \in Children
      /\ child \in [Sessions -> Children] /\ chan \in [Sessions -> [Nodes -> Channels]]
      /\ Moves(s, child[s], d, tx[s], chan[s], ch2)
  BY DEF ChildMove, Moved, Inv, Shapes
<1>3. CASE o = s
  <2>1. child'[s] = d /\ chan'[s] = ch2
    BY <1>2
  <2>2. QED
    BY <1>2, <1>3, <2>1, MovePasses DEF Onward
<1>4. CASE o # s
  BY <1>2, <1>4 DEF Onward
<1>5. QED
  BY <1>3, <1>4

LEMMA MoveCounted ==
    ASSUME NEW s \in Sessions, NEW c \in Children, NEW d \in Children, NEW t, NEW ch, NEW ch2,
           Moves(s, c, d, t, ch, ch2), c.count <= MaxStmts[s], c.stmt # "none" => c.count >= 1, c.ids \subseteq Ids
    PROVE  /\ d.count <= MaxStmts[s] /\ (d.stmt # "none" => d.count >= 1) /\ d.ids \subseteq Ids
<1>1. c.count \in Nat /\ d.count \in Nat /\ MaxStmts[s] \in Nat
  BY ReplicationAssumption DEF Children
<1>2. CASE MQuery(s, c, d, ch, ch2)
  BY <1>1, <1>2 DEF MQuery
<1>3. CASE MHeard(s, c, d, ch, ch2)
  <2>1. c.stmt \in Writes => <<s, c.count>> \in Ids
    BY <1>1, IdsAre DEF Writes
  <2>2. QED
    BY <1>3, <2>1 DEF MHeard
<1>4. CASE MClose(c, d, ch, ch2)
  BY <1>4 DEF MClose
<1>5. CASE MNew(c, d, t, ch, ch2)
  BY <1>5 DEF MNew
<1>6. ASSUME SameWork(c, d) \/ d = c
      PROVE  d.count <= MaxStmts[s] /\ (d.stmt # "none" => d.count >= 1) /\ d.ids \subseteq Ids
  BY <1>6 DEF SameWork
<1>7. QED
  BY <1>2, <1>3, <1>4, <1>5, <1>6
     DEF Moves, MCommand, MBegun, MLockMaster, MLockOther, MSend, MWait, MCommitted, MEnd, MDoom

LEMMA ChildCounted ==
    ASSUME Inv, Counted, NEW s \in Sessions, NEW d, NEW ch2, ChildMove(s, d, ch2)
    PROVE  Counted'
<1>1. /\ child' = [child EXCEPT ![s] = d] /\ d \in Children /\ child \in [Sessions -> Children]
      /\ Moves(s, child[s], d, tx[s], chan[s], ch2)
  BY DEF ChildMove, Moved, Inv, Shapes
<1>2. d.count <= MaxStmts[s] /\ (d.stmt # "none" => d.count >= 1) /\ d.ids \subseteq Ids
  BY <1>1, MoveCounted DEF Counted
<1>3. \A o \in Sessions : child'[o] = IF o = s THEN d ELSE child[o]
  BY <1>1
<1>4. QED
  BY <1>2, <1>3 DEF Counted

\* The fault counter and the verdicts on the nodes.
LEMMA FaultCounted ==
    ASSUME NEW f, Fault(f), faults \in 0 .. MaxFaults
    PROVE  faults' \in 0 .. MaxFaults
<1>1. MaxFaults \in Nat
  BY ReplicationAssumption
<1>2. QED
  BY <1>1 DEF Fault

LEMMA BackendNoted ==
    ASSUME Noted, NEW s \in Sessions, NEW n \in Nodes, Backend(s, n)
    PROVE  Noted'
<1> USE DEF Noted, Answer, Write, ghosts
<1>1. CASE pg_begin(s, n) \/ pg_end(s, n) \/ pg_error(s, n) \/ pg_select(s, n) \/ pg_lock(s, n)
  BY <1>1 DEF pg_begin, pg_end, pg_error, pg_select, pg_lock
<1>2. CASE pg_update(s, n) \/ pg_insert(s, n)
  BY <1>2 DEF pg_update, pg_insert
<1>3. CASE pg_local_error(s, n)
  <2>1. UNCHANGED <<down, req, suspected, acked>> /\ cut' \in BOOLEAN /\ Fault("local")
    BY <1>3 DEF pg_local_error
  <2>2. QED
    BY <2>1, FaultCounted
<1>4. CASE pg_drift(s, n)
  <2>1. UNCHANGED <<down, req, suspected, acked, cut>> /\ Fault("drift")
    BY <1>4 DEF pg_drift
  <2>2. QED
    BY <2>1, FaultCounted
<1>5. CASE pg_deadlock(s, n)
  <2>1. UNCHANGED <<down, req, suspected, acked, cut>> /\ Fault("deadlock")
    BY <1>5 DEF pg_deadlock
  <2>2. QED
    BY <2>1, FaultCounted
<1>6. CASE pg_disconnect(s, n)
  BY <1>6 DEF pg_disconnect
<1>7. QED
  BY <1>1, <1>2, <1>3, <1>4, <1>5, <1>6 DEF Backend

LEMMA ChildNoted ==
    ASSUME Inv, Noted, Counted, NEW s \in Sessions, Child(s)
    PROVE  Noted'
<1>1. child[s].where \subseteq Nodes /\ child[s].ids \subseteq Ids
  BY SessionTypes DEF Children, Counted
<1> USE DEF Noted, ghosts, End
<1>2. ASSUME NEW st, NEW b, SimpleQuery(s, st, b) PROVE Noted'
  BY <1>2 DEF SimpleQuery
<1>3. CASE do_command(s)
  BY <1>3 DEF do_command
<1>4. ASSUME NEW n \in Nodes, NEW r, Replied(s, n, r) PROVE Noted'
  <2>1. UNCHANGED <<down, req, suspected, acked, faults>> /\ cut' \in BOOLEAN
    BY <1>4 DEF Replied, start_internal_transaction, insert_lock_master, insert_lock_other,
                do_error_command, end_internal_transaction
  <2>2. QED
    BY <2>1
<1>5. ASSUME NEW n \in Nodes, backend_lost(s, n) PROVE Noted'
  <2>1. UNCHANGED <<down, suspected, acked, faults>> /\ cut' \in BOOLEAN /\ req' \subseteq Nodes
    BY <1>5 DEF backend_lost
  <2>2. QED
    BY <2>1
<1>6. CASE pool_send_and_wait_send(s) \/ pool_send_and_wait_wait(s)
  BY <1>6 DEF pool_send_and_wait_send, pool_send_and_wait_wait
<1>7. CASE wait_for_query_response_fails(s)
  <2>1. UNCHANGED <<down, req, suspected, acked>> /\ cut' \in BOOLEAN /\ Fault("frontend")
    BY <1>7 DEF wait_for_query_response_fails
  <2>2. QED
    BY <2>1, FaultCounted
<1>8. CASE CommandComplete(s) \/ ErrorResponse3(s)
  BY <1>8 DEF CommandComplete, ErrorResponse3
<1>9. CASE read_kind_mismatch(s)
  <2> DEFINE victims == KindVictims(KindsOf(s), child[s].where, MASTER_NODE_ID(child[s]))
  <2>1. victims \subseteq Nodes
    BY <1>1 DEF KindVictims
  <2> HIDE DEF victims
  <2>2. /\ UNCHANGED <<down, acked, faults>> /\ cut' \in BOOLEAN
        /\ suspected' = suspected \cup victims /\ req' = IF StopOnMismatch THEN req \cup victims ELSE req
    BY <1>9 DEF read_kind_mismatch, victims
  <2>3. QED
    BY <2>1, <2>2
<1>10. CASE tuples_mismatch(s)
  <2> DEFINE victims == find_victim_nodes(child[s].ntuples, MASTER_NODE_ID(child[s]))
  <2>1. victims \subseteq Nodes
    BY DEF find_victim_nodes
  <2> HIDE DEF victims
  <2>2. /\ UNCHANGED <<down, acked, faults>> /\ cut' \in BOOLEAN
        /\ suspected' = suspected \cup victims /\ (req' = req \cup victims \/ req' = req)
    BY <1>10 DEF tuples_mismatch, victims
  <2>3. QED
    BY <2>1, <2>2
<1>11. CASE ReadyForQuery(s)
  <2>1. /\ UNCHANGED <<down, req, suspected, cut, faults>>
        /\ acked' = acked \/ acked' = acked \cup child[s].ids
    BY <1>11 DEF ReadyForQuery
  <2>2. QED
    BY <1>1, <2>1
<1>12. CASE Kill(s)
  <2>1. UNCHANGED <<down, req, suspected, acked>> /\ cut' \in BOOLEAN /\ Fault("kill")
    BY <1>12 DEF Kill
  <2>2. QED
    BY <2>1, FaultCounted
<1>13. CASE Reconnect(s)
  BY <1>13 DEF Reconnect
<1>14. QED
  BY <1>2, <1>3, <1>4, <1>5, <1>6, <1>7, <1>8, <1>9, <1>10, <1>11, <1>12, <1>13 DEF Child

LEMMA InitBounded == Init => Bounded
<1>1. SUFFICES ASSUME Init PROVE Bounded
  OBVIOUS
<1>2. MaxFaults \in Nat /\ MaxStmts \in [Sessions -> Nat] /\ NewChild(0).count = 0
      /\ NewChild(0).stmt = "none" /\ NewChild(0).ids = {} /\ NoTx.w = <<>>
  BY ReplicationAssumption DEF NewChild, NoTx
<1>3. Counted /\ Noted
  <2>1. \A s \in Sessions : child[s] = NewChild(0) /\ MaxStmts[s] \in Nat
    BY <1>1, <1>2 DEF Init
  <2>2. Counted
    BY <1>2, <2>1 DEF Counted
  <2>3. faults \in 0 .. MaxFaults
    BY <1>1, <1>2 DEF Init
  <2>4. Noted
    BY <1>1, <2>3, Zenon DEF Init, Noted
  <2>5. QED
    BY <2>2, <2>4
<1>4. Logged
  <2>1. <<>> \in Seq(WriteRecs)
    BY EmptySeq
  <2>2. QED
    BY <1>1, <1>2, <2>1 DEF Init, Logged
<1>5. Numbered
  <2>1. SUFFICES ASSUME NEW n \in Nodes PROVE seq[n] <= Cardinality(Spent(n))
    BY DEF Numbered
  <2>2. Spent(n) \subseteq Ids
    BY DEF Spent
  <2>3. Cardinality(Spent(n)) \in Nat
    BY <2>2, IdsFinite, FS_Subset, FS_CardinalityType
  <2>4. QED
    BY <1>1, <2>3 DEF Init
<1>6. QED
  BY <1>3, <1>4, <1>5 DEF Bounded

LEMMA NextBounded == Inv /\ Held /\ Bounded /\ [Next]_vars => Bounded'
<1>1. SUFFICES ASSUME Inv, Held, Bounded, [Next]_vars PROVE Bounded'
  OBVIOUS
<1>2. Numbered /\ Counted /\ Logged /\ Noted
  BY <1>1 DEF Bounded
<1>3. ASSUME NEW s \in Sessions, NEW n \in Nodes, Backend(s, n)
      PROVE  Bounded'
  <2>1. PICK x2, y2 : Served(s, n, x2, y2)
    BY <1>1, <1>3, BackendServes
  <2>2. \A e : BWrite(s, n, tx[s][n], chan[s][n], x2, y2, e) => Numbered' /\ e \in WriteRecs
    BY <1>1, <1>2, <2>1, InsertNumbered
  <2>3. Logged'
    BY <1>1, <1>2, <2>1, <2>2, ServedLogged
  <2>4. Numbered'
    <3>1. CASE \E e \in Entries : BWrite(s, n, tx[s][n], chan[s][n], x2, y2, e)
      BY <2>2, <3>1
    <3>2. CASE ~\E e \in Entries : BWrite(s, n, tx[s][n], chan[s][n], x2, y2, e)
      <4>1. seq' = seq
        BY <2>1, <3>2 DEF Served, Serves, BBegin, BEnd, BFail, BSame, BLock, BGone, Quietly
      <4>2. QED
        BY <1>1, <1>2, <2>1, <4>1, ServedOnward, StillNumbered
    <3>3. QED
      BY <3>1, <3>2
  <2>5. Counted'
    BY <1>2, <2>1 DEF Served, Counted
  <2>6. QED
    BY <1>2, <1>3, <2>3, <2>4, <2>5, BackendNoted DEF Bounded
<1>4. ASSUME NEW s \in Sessions, Child(s)
      PROVE  Bounded'
  <2>1. PICK d, ch2 : ChildMove(s, d, ch2)
    BY <1>1, <1>4, ChildMoves
  <2>2. seq' = seq /\ log' = log /\ tx' = tx
    BY <2>1 DEF ChildMove, Moved
  <2>3. Numbered' /\ Counted'
    BY <1>1, <1>2, <2>1, <2>2, ChildOnward, StillNumbered, ChildCounted
  <2>4. Logged'
    BY <1>2, <2>2 DEF Logged
  <2>5. QED
    BY <1>1, <1>2, <1>4, <2>3, <2>4, ChildNoted DEF Bounded
<1>5. ASSUME NEW k \in Nodes, Crash(k)
      PROVE  Bounded'
  <2>1. /\ UNCHANGED <<log, seq, down, req, child, acked, suspected, cut>> /\ Fault("crash")
        /\ tx' = [s \in Sessions |-> [tx[s] EXCEPT ![k] = NoTx]]
        /\ tx \in [Sessions -> [Nodes -> TxRecs]]
    BY <1>1, <1>5 DEF Crash, Inv, Shapes
  <2>2. Numbered'
    BY <1>1, <1>2, <1>5, <2>1, CrashOnward, StillNumbered
  <2>3. \A s \in Sessions, n \in Nodes : tx'[s][n] = tx[s][n] \/ tx'[s][n] = NoTx
    BY <2>1
  <2>4. NoTx.w \in Seq(WriteRecs)
    <3>1. NoTx.w = <<>> /\ <<>> \in Seq(WriteRecs)
      BY EmptySeq DEF NoTx
    <3>2. QED
      BY <3>1
  <2>5. Logged'
    BY <1>2, <2>1, <2>3, <2>4 DEF Logged
  <2>6. Counted' /\ Noted'
    BY <1>2, <2>1, FaultCounted DEF Counted, Noted
  <2>7. QED
    BY <2>2, <2>5, <2>6 DEF Bounded
<1>6. CASE Failover
  <2>1. /\ UNCHANGED <<log, seq, tx, acked, suspected, faults>> /\ cut' \in BOOLEAN
        /\ down' = down \cup req /\ req' = {} /\ child' = [s \in Sessions |-> Killed(child[s])]
    BY <1>6 DEF Failover, pgVars
  <2>2. Numbered'
    BY <1>1, <1>2, <1>6, <2>1, KilledOnward, StillNumbered
  <2>3. \A s \in Sessions : /\ child'[s].count = child[s].count /\ child'[s].stmt = child[s].stmt
                            /\ child'[s].ids = child[s].ids
    BY <1>1, <2>1, SessionTypes, KilledFacts
  <2>4. Counted'
    BY <1>2, <2>3 DEF Counted
  <2>5. Logged' /\ Noted'
    BY <1>2, <2>1 DEF Logged, Noted
  <2>6. QED
    BY <2>2, <2>4, <2>5 DEF Bounded
<1>7. ASSUME UNCHANGED <<log, seq, tx, child, chan, down, ghosts>>, req' \subseteq Nodes
      PROVE  Bounded'
  <2>1. Numbered'
    BY <1>2, <1>7 DEF Numbered, Spent
  <2>2. QED
    BY <1>2, <1>7, <2>1 DEF Bounded, Counted, Logged, Noted, ghosts
<1>8. ASSUME NEW k \in Nodes, health_check(k)
      PROVE  Bounded'
  <2>1. UNCHANGED <<log, seq, tx, child, chan, down, ghosts>> /\ req' \subseteq Nodes
    BY <1>2, <1>8 DEF health_check, pgVars, Noted
  <2>2. QED
    BY <1>7, <2>1
<1>9. CASE UNCHANGED vars
  <2>1. UNCHANGED <<log, seq, tx, child, chan, down, ghosts>> /\ req' \subseteq Nodes
    BY <1>2, <1>9 DEF vars, Noted, ghosts
  <2>2. QED
    BY <1>7, <2>1
<1>10. QED
  BY <1>1, <1>3, <1>4, <1>5, <1>6, <1>8, <1>9 DEF Next

\* Only the nodes a statement goes to have anything under way.
LEMMA Whereabouts ==
    ASSUME NEW c \in Children, NEW t, NEW ch, NEW al, NEW fl, NEW up \in SUBSET Nodes, NEW n \in Nodes,
           Live(c, t, ch, al, fl, up), c.pc # "exit", ch[n].is # "empty"
    PROVE  n \in c.where
<1>1. ch[n] # Empty /\ n \in up
  BY DEF Live, Empty
<1>2. CASE c.pc = "idle"
  BY <1>1, <1>2 DEF Live, Idle, Rest
<1>3. CASE c.pc = "begin"
  BY <1>1, <1>3 DEF Live, Begins
<1>4. CASE c.pc = "lock"
  BY <1>1, <1>4 DEF Live, Locks
<1>5. CASE c.pc \in {"send", "wait", "reply"}
  BY <1>1, <1>5 DEF Live, Runs, Rest
<1>6. CASE c.pc = "ready"
  BY <1>1, <1>6 DEF Live, Completes, Rest
<1>7. CASE c.pc \in {"sync", "abort"}
  BY <1>1, <1>7 DEF Live, Errs
<1>8. CASE c.pc = "commit"
  BY <1>1, <1>8 DEF Live, Commits
<1>9. QED
  BY <1>2, <1>3, <1>4, <1>5, <1>6, <1>7, <1>8 DEF Children, Places

LEMMA BoundedTypes ==
    ASSUME Inv, Held, Bounded
    PROVE  TypeOK
<1>1. /\ alive \subseteq Nodes /\ faulty \subseteq Nodes /\ Numbered /\ Counted /\ Logged /\ Noted
      /\ seq \in [Nodes -> Nat]
  BY DEF Inv, Shapes, Bounded
<1>2. seq \in [Nodes -> 0 .. Cardinality(Ids)]
  <2>1. ASSUME NEW n \in Nodes PROVE seq[n] \in 0 .. Cardinality(Ids)
    <3>1. Spent(n) \subseteq Ids /\ seq[n] \in Nat /\ seq[n] <= Cardinality(Spent(n))
      BY <1>1 DEF Spent, Numbered
    <3>2. Cardinality(Spent(n)) \in Nat /\ Cardinality(Spent(n)) <= Cardinality(Ids) /\ Cardinality(Ids) \in Nat
      BY <3>1, IdsFinite, FS_Subset, FS_CardinalityType
    <3>3. QED
      BY <3>1, <3>2
  <2>2. QED
    BY <1>1, <2>1
<1>3. ASSUME NEW s \in Sessions, NEW n \in Nodes
      PROVE  /\ tx[s][n].st \in TxStates /\ tx[s][n].w \in Seq(WriteRecs)
             /\ Cardinality(tx[s][n].locks) <= 1
             /\ chan[s][n].is \in {"empty", "eof", "request", "reply", "ready"}
  <2>1. tx[s][n] \in TxRecs /\ chan[s][n] \in Channels
    BY SessionTypes
  <2>2. tx[s][n].locks \in LockSets
    BY DEF Held, HeldBy, TxOK
  <2>3. Cardinality(tx[s][n].locks) \in {0, 1}
    BY <2>2, FS_EmptySet, FS_Singleton DEF LockSets
  <2>4. QED
    BY <1>1, <2>1, <2>3, ChannelFacts DEF TxRecs, Logged
<1>4. ASSUME NEW s \in Sessions
      PROVE  /\ child[s].pc \in Places /\ child[s].todo \subseteq child[s].where
             /\ child[s].where \subseteq Nodes /\ child[s].tstate \in [Nodes -> TxStates]
             /\ child[s].pc # "exit" => \A n \in Nodes : chan[s][n].is # "empty" => n \in child[s].where
  <2> DEFINE c == child[s]
  <2>1. /\ c \in Children /\ Up \in SUBSET Nodes /\ Sound(c, tx[s], chan[s], alive, faulty, Up)
        /\ HeldBy(c, tx[s], chan[s], alive, faulty, Up)
    BY SessionTypes DEF Held
  <2>2. ASSUME c.pc # "exit", NEW n \in Nodes, chan[s][n].is # "empty"
        PROVE  n \in c.where
    <3>1. CASE c.doomed
      BY <2>1, <2>2, <3>1 DEF Sound, HeldBy, Finishing
    <3>2. CASE ~c.doomed
      BY <2>1, <2>2, <3>2, Whereabouts DEF Sound
    <3>3. QED
      BY <3>1, <3>2
  <2>3. c.todo \subseteq c.where
    BY <2>1 DEF HeldBy
  <2> HIDE DEF c
  <2>4. QED
    BY <2>1, <2>2, <2>3 DEF Children, c
<1>5. QED
  BY <1>1, <1>2, <1>3, <1>4 DEF TypeOK, Places, Logged, Noted

\* Every variable keeps its type.  A child never has two messages under way
\* to one backend, nor any to a node its statement does not go to
\* (pool_send_and_wait), no transaction ever holds two locks, and the
\* sequence of a node never gives out more numbers than there were
\* statements, whatever faults happen.
THEOREM TypeCorrect == Spec => []TypeOK
<1> DEFINE All == Inv /\ Held /\ Bounded
<1>1. Init => All
  BY InitInv, InitHeld, InitBounded
<1>2. All /\ [Next]_vars => All'
  BY NextInv, NextHeld, NextBounded
<1>3. All => TypeOK
  BY BoundedTypes
<1>4. QED
  BY <1>1, <1>2, <1>3, PTL DEF Spec

-----------------------------------------------------------------------------
(* Serial numbers.                                                         *)

LEMMA CritHolds ==
    ASSUME NEW c \in Children, NEW t, NEW ch, NEW al, NEW fl, NEW up \in SUBSET Nodes, InsertLocked,
           Live(c, t, ch, al, fl, up), Holds(c, t, ch, al, fl, up), Crit(c, ch, up), Least(up) \in al,
           ch \in [Nodes -> Channels], \A n \in Nodes : RequestOK(n, c, t[n], ch[n], al), Orderly(c, ch)
    PROVE  (IF LockKind = 1 THEN "lock" ELSE "rowlock") \in t[Least(up)].locks
<1> DEFINE k == Least(up)
<1>1. c.kind = LockKind /\ LockKind \in {1, 3} /\ k \in up /\ k \in Nodes
  BY ReplicationAssumption, LeastFacts DEF Live, Holds, HeldKind, InsertLocked
<1>2. CASE c.pc = "lock"
  <2>1. Locks(c, t, ch, al, fl, up) /\ HeldLocks(c, t, ch, al, up)
    BY <1>2 DEF Live, Holds
  <2>2. CASE k \in c.todo
    BY <1>1, <1>2, <2>1, <2>2 DEF HeldLocks, HeldMaster, LockName, Crit
  <2>3. CASE k \notin c.todo
    BY <1>1, <1>2, <2>1, <2>3 DEF HeldLocks, HeldOthers, Granted, Locks, LocksMaster, LocksOthers, Crit
  <2>4. QED
    BY <2>2, <2>3
<1>3. CASE c.pc \in Running
  <2>1. Runs(c, t, ch, al, fl, up) /\ c.stmt = "insert" /\ c.where = up /\ HeldInsert(c, t, up)
    BY <1>3, RunsFacts DEF Holds, HeldRunning, Crit, Writes
  <2>2. c.tstate[k] = "T" /\ Ask(k, "insert", "T", t[k], ch[k], al, fl) /\ ~c.dead
    BY <1>1, <2>1 DEF HeldInsert, Runs, InsertLocked, Crit
  <2>3. ch[k].is = "reply" => ch[k].kind # "E"
    BY <1>1, <1>3, <2>1, <2>2 DEF Orderly, HalfInsert, Running
  <2>4. t[k].st = "T"
    <3>1. ch[k] \in Channels /\ (ch[k].is = "eof" => k \notin al)
      BY <1>1 DEF RequestOK
    <3>2. CASE ch[k].is = "reply"
      <4>1. ch[k].kind = "C"
        BY <2>3, <3>1, <3>2, ChannelFacts DEF Replies
      <4>2. QED
        BY <2>2, <3>2, <4>1 DEF Ask, Fair, In, After, is_commit_query
    <3>3. QED
      BY <2>2, <3>1, <3>2, ChannelFacts DEF Ask, In
  <2>5. QED
    BY <1>1, <2>1, <2>2, <2>4 DEF HeldInsert, Granted
<1>4. QED
  BY <1>2, <1>3 DEF Crit

\* An INSERT that runs on several nodes, and that not all of them refuse.
LEMMA InserterIsCrit ==
    ASSUME NEW c \in Children, NEW t, NEW ch, NEW al, NEW fl, NEW up \in SUBSET Nodes, NEW n \in up, InsertLocked,
           Live(c, t, ch, al, fl, up), Holds(c, t, ch, al, fl, up), HalfInsert(c), up # {Least(up)},
           Done(ch[n]) \/ c.tstate[n] # "E"
    PROVE  Crit(c, ch, up)
<1>1. c.pc \in Running /\ c.stmt = "insert"
  BY DEF HalfInsert, Running
<1>2. Runs(c, t, ch, al, fl, up) /\ c.where = up /\ HeldInsert(c, t, up)
  BY <1>1, RunsFacts DEF Holds, HeldRunning, Writes
<1>3. c.tstate[n] # "E"
  BY <1>1, <1>2 DEF Runs, Ask, Fair, Done, is_commit_query
<1>4. QED
  BY <1>1, <1>2, <1>3 DEF HeldInsert, InsertLocked, Crit, Running

LEMMA NoWriteRead ==
    ASSUME NEW n, NEW ch, NEW ch2, ReadOff(n, Empty, ch, ch2)
    PROVE  NoWrite(ch, ch2)
BY DEF ReadOff, NoWrite, Empty

LEMMA MoveShape ==
    ASSUME InsertLocked, NEW s \in Sessions, NEW c \in Children, NEW d \in Children, NEW t, NEW ch, NEW ch2,
           ch \in [Nodes -> Channels], ch2 \in [Nodes -> Channels], Up \in SUBSET Nodes,
           Sound(c, t, ch, alive, faulty, Up), Moves(s, c, d, t, ch, ch2)
    PROVE  Shape(c, d, ch, ch2)
<1> DEFINE k == Least(Up)
<1>1. c.pc \notin {"exit", "commit"} => Live(c, t, ch, alive, faulty, Up) /\ k \in Up
  BY LeastFacts DEF Sound, Live
<1>2. CASE MQuery(s, c, d, ch, ch2)
  <2>1. \A n \in Nodes : ch[n] = Empty
    BY <1>1, <1>2 DEF MQuery, Live, Idle, Rest
  <2>2. QED
    BY <1>2, <2>1 DEF MQuery, Shape, SStart
<1>3. CASE MCommand(c, d, ch, ch2)
  <2>1. Command(c) \in Queries \ Writes
    BY <1>3 DEF MCommand, Command, Commands, Queries, Writes, AllStatements, LockQueries
  <2>2. NoWrite(ch, ch2)
    BY <1>3, <2>1 DEF MCommand, SentTo, Request, Eof, NoWrite
  <2>3. CASE c.pc \in {"begin", "lock"}
    <3>1. Crit(d, ch2, Up) => Crit(c, ch, Up)
      <4>1. \A n \in Nodes : Done(ch2[n]) => ch2[n] = ch[n]
        BY <1>3 DEF MCommand, SentTo, Request, Eof, Done
      <4>2. QED
        BY <1>1, <1>3, <2>3, <4>1 DEF MCommand, Crit
    <3>2. SLock(c, d, ch, ch2)
      BY <1>3, <2>2, <2>3, <3>1 DEF MCommand, SLock, SameWork
    <3>3. QED
      BY <3>2 DEF Shape
  <2>4. CASE c.pc \notin {"begin", "lock"}
    <3>1. SClose(c, d, ch, ch2)
      BY <1>3, <2>2, <2>4 DEF MCommand, Commands, SClose, Running
    <3>2. QED
      BY <3>1 DEF Shape
  <2>5. QED
    BY <2>3, <2>4
<1>4. CASE MBegun(c, d, ch, ch2)
  <2>1. Begins(c, t, ch, alive, faulty, Up) /\ \A n \in Nodes \ Up : ch[n] = Empty
    BY <1>1, <1>4 DEF MBegun, Live
  <2>2. PICK n \in c.todo : /\ ReadOff(n, Empty, ch, ch2)
                            /\ IF c.todo # {n} THEN d.pc = "begin"
                               ELSE \/ d.pc = "lock" /\ d.todo = {k}
                                    \/ d.pc = "send" /\ (c.stmt = "insert" => LockKind = 0 \/ Up = {k})
    BY <1>4 DEF MBegun
  <2>3. c.todo = {n} => \A m \in Nodes : ch2[m] = Empty
    BY <2>1, <2>2 DEF Begins, ReadOff, Rest
  <2>4. ~Done(Empty)
    BY DEF Done, Empty
  <2>5. ~Crit(d, ch2, Up)
    BY <1>1, <1>4, <2>2, <2>3, <2>4 DEF MBegun, SameWork, Crit, Running, InsertLocked
  <2>6. SLock(c, d, ch, ch2)
    <3>1. NoWrite(ch, ch2)
      BY <2>2, NoWriteRead
    <3>2. QED
      BY <1>4, <2>2, <2>3, <2>5, <3>1 DEF MBegun, SLock
  <2>7. QED
    BY <2>6 DEF Shape
<1>5. CASE MLockMaster(c, d, ch, ch2)
  <2>1. /\ Locks(c, t, ch, alive, faulty, Up) /\ \A n \in Nodes \ Up : ch[n] = Empty
        /\ c.todo = {k} /\ ReadOff(k, Empty, ch, ch2) /\ c.pc = "lock" /\ SameWork(c, d)
    BY <1>1, <1>5 DEF MLockMaster, Live
  <2>2. LocksMaster(c, t, ch, alive, faulty, Up)
    BY <2>1 DEF Locks, LocksOthers
  <2>3. \A m \in Nodes : ch2[m] = Empty
    BY <2>1, <2>2 DEF LocksMaster, ReadOff, Rest
  <2>4. /\ c.kind = LockKind /\ ~c.dead /\ c.kind \in {1, 3} /\ ch[k] \in Replies
        /\ Fair(k, IF c.kind = 1 THEN "lock" ELSE "rowlock", "T", ch[k], faulty)
    BY <1>1, <2>1, <2>2, ChannelFacts DEF LocksMaster, InsertLocked, Ask, ReadOff, Children
  <2>5. ch[k].kind = "E" => c.kind = 1 /\ ch[k].dead
    BY <2>4 DEF Fair, Kind, Fails, LockQueries, Writes, is_commit_query, InsertLocked, LockSafe, Replies
  <2>6. Done(ch[k]) \/ (c.kind = 1 /\ ch[k].dead)
    BY <2>1, <2>4, <2>5 DEF Done, Replies
  <2>7. d.pc \in {"lock", "send"} /\ d.stmt = c.stmt /\ (d.dead \/ Done(ch[k]))
    BY <1>5, <2>1, <2>5, <2>6 DEF MLockMaster, SameWork, SameLock
  <2>8. Crit(d, ch2, Up) => Crit(c, ch, Up)
    BY <2>1, <2>4, <2>7 DEF Crit
  <2>9. SLock(c, d, ch, ch2)
    BY <2>1, <2>3, <2>7, <2>8, NoWriteRead DEF SLock
  <2>10. QED
    BY <2>9 DEF Shape
<1>6. CASE MLockOther(c, d, ch, ch2)
  <2>1. /\ Locks(c, t, ch, alive, faulty, Up) /\ \A n \in Nodes \ Up : ch[n] = Empty
        /\ k \notin c.todo /\ c.pc = "lock" /\ SameWork(c, d) /\ SameLock(c, d)
        /\ ReadOff(Least(c.todo), Empty, ch, ch2) /\ d.todo = c.todo \ {Least(c.todo)}
        /\ d.pc = IF d.todo = {} THEN "send" ELSE "lock"
    BY <1>1, <1>6 DEF MLockOther, Live
  <2>2. LocksOthers(c, t, ch, alive, faulty, Up)
    BY <2>1 DEF Locks, LocksMaster
  <2>3. d.pc = "send" => \A m \in Nodes : ch2[m] = Empty
    BY <2>1, <2>2 DEF LocksOthers, ReadOff, Rest
  <2>4. Crit(d, ch2, Up) => Crit(c, ch, Up)
    BY <2>1 DEF Crit, SameWork, SameLock
  <2>5. SLock(c, d, ch, ch2)
    <3>1. NoWrite(ch, ch2)
      BY <2>1, NoWriteRead
    <3>2. QED
      BY <2>1, <2>3, <2>4, <3>1 DEF SLock
  <2>6. QED
    BY <2>5 DEF Shape
<1>7. CASE MSend(c, d, ch, ch2) \/ MWait(c, d, ch, ch2)
  <2>1. \A n \in Nodes : ch2[n] = ch[n] \/ (ch[n] = Empty /\ ch2[n] \in {Request(c.stmt), Eof})
    BY <1>7, GroupFacts, ChannelFacts DEF MSend, MWait, SentTo
  <2>2. SRun(c, d, ch, ch2)
    BY <1>7, <2>1 DEF MSend, MWait, SRun, Running
  <2>3. QED
    BY <2>2 DEF Shape
<1>8. CASE MHeard(s, c, d, ch, ch2)
  BY <1>8 DEF MHeard, Shape, SHeard, Done
<1>9. CASE MClose(c, d, ch, ch2) \/ MEnd(c, d, ch, ch2) \/ MDoom(c, d, ch, ch2) \/ MNew(c, d, t, ch, ch2)
  <2>1. NoWrite(ch, ch2)
    BY <1>9 DEF MClose, MEnd, MDoom, MNew, NoWrite
  <2>2. SClose(c, d, ch, ch2)
    BY <1>9, <2>1 DEF MClose, MEnd, MDoom, MNew, SameWork, SClose, Running, Ending
  <2>3. QED
    BY <2>2 DEF Shape
<1>10. CASE MCommitted(c, d, ch, ch2)
  <2>1. NoWrite(ch, ch2)
    BY <1>10 DEF MCommitted, ReadOff, Ready, NoWrite
  <2>2. SClose(c, d, ch, ch2)
    BY <1>10, <2>1 DEF MCommitted, SameWork, SClose, Running
  <2>3. QED
    BY <2>2 DEF Shape
<1>11. QED
  BY <1>2, <1>3, <1>4, <1>5, <1>6, <1>7, <1>8, <1>9, <1>10 DEF Moves

LEMMA MoveNumbers ==
    ASSUME InsertLocked, NEW s \in Sessions, NEW c \in Children, NEW d \in Children, NEW t, NEW ch, NEW ch2,
           ch \in [Nodes -> Channels], ch2 \in [Nodes -> Channels], Up \in SUBSET Nodes,
           Sound(c, t, ch, alive, faulty, Up), Moves(s, c, d, t, ch, ch2), Uncut(c, d), Orderly(c, ch),
           \A n \in Nodes : RequestOK(n, c, t[n], ch[n], alive)
    PROVE  /\ Orderly(d, ch2)
           /\ Crit(d, ch2, Up) => Crit(c, ch, Up)
           /\ \A n \in Nodes : Keeps(c, d, ch[n], ch2[n], Up, Up)
           /\ \/ \A n \in Up : Inserted(d, ch2[n]) <=> Inserted(c, ch[n])
              \/ \A n \in Up : Inserted(c, ch[n]) /\ ~Inserted(d, ch2[n])
<1>1. Shape(c, d, ch, ch2)
  BY MoveShape
<1>2. ~Done(Empty) /\ ~Done(Eof) /\ ~Done(Request(c.stmt)) /\ Empty.is = "empty" /\ Eof.is = "eof"
      /\ Request(c.stmt).is = "request" /\ Request(c.stmt).q = c.stmt
  BY DEF Done, Empty, Eof, Request
<1>3. HalfInsert(c) <=> c.pc \in Running /\ c.stmt = "insert"
  BY DEF HalfInsert, Running
<1>4. HalfInsert(d) <=> d.pc \in Running /\ d.stmt = "insert"
  BY DEF HalfInsert, Running
<1>5. \A n \in Nodes : ch[n].is = "request" /\ ch[n].q = "insert" => HalfInsert(c)
  BY <1>3 DEF Orderly, RequestOK, Writes
<1>6. CASE SStart(c, d, ch, ch2)
  BY <1>2, <1>3, <1>4, <1>6 DEF SStart, Orderly, Crit, Keeps, Inserted, Running
<1>7. CASE SLock(c, d, ch, ch2)
  <2>1. c.pc \notin Running /\ c.pc \in {"begin", "lock"} /\ d.count = c.count /\ NoWrite(ch, ch2)
        /\ (d.pc \in Running => \A n \in Nodes : ch2[n] = Empty)
        /\ (Crit(d, ch2, Up) => Crit(c, ch, Up))
    BY <1>7 DEF SLock, Running, SameWork
  <2>2. Orderly(d, ch2)
    BY <1>2, <1>4, <2>1 DEF Orderly, NoWrite, Writes
  <2>3. \A n \in Nodes : Keeps(c, d, ch[n], ch2[n], Up, Up)
    BY <2>1 DEF Keeps, Current
  <2>4. \A n \in Up : Inserted(d, ch2[n]) <=> Inserted(c, ch[n])
    BY <1>2, <1>3, <1>4, <2>1 DEF Inserted
  <2>5. QED
    BY <2>1, <2>2, <2>3, <2>4
<1>8. CASE SRun(c, d, ch, ch2)
  <2>1. /\ c.pc \in Running /\ d.pc \in Running /\ d.stmt = c.stmt /\ d.count = c.count /\ d.dead = c.dead
        /\ d.tstate = c.tstate
        /\ \A n \in Nodes : ch2[n] = ch[n] \/ (ch[n] = Empty /\ ch2[n] \in {Request(c.stmt), Eof})
    BY <1>8 DEF SRun, SameWork, SameLock, SameTx
  <2>2. Orderly(d, ch2)
    BY <1>2, <1>3, <1>4, <2>1 DEF Orderly
  <2>3. Crit(d, ch2, Up) => Crit(c, ch, Up)
    BY <2>1 DEF Crit, Running
  <2>4. \A n \in Nodes : Keeps(c, d, ch[n], ch2[n], Up, Up)
    BY <1>2, <2>1 DEF Keeps, Current, Running
  <2>5. \A n \in Up : Inserted(d, ch2[n]) <=> Inserted(c, ch[n])
    BY <1>2, <1>3, <1>4, <2>1 DEF Inserted
  <2>6. QED
    BY <2>2, <2>3, <2>4, <2>5
<1>9. CASE SHeard(c, d, ch, ch2)
  <2>1. /\ c.pc = "reply" /\ d.pc \notin Running /\ d.pc \notin {"begin", "lock", "exit"} /\ d.stmt = c.stmt /\ d.count = c.count
        /\ \A n \in c.where : ch2[n].is = "ready"
        /\ \A n \in Nodes \ c.where : ch2[n] = ch[n]
        /\ (\A n \in c.where : Done(ch[n])) \/ (\A n \in c.where : ~Done(ch[n]))
    BY <1>9 DEF SHeard, Running
  <2>2. Live(c, t, ch, alive, faulty, Up)
    BY <2>1 DEF Sound
  <2>3. \A n \in Nodes : ch2[n].is = "request" /\ ch2[n].q = "insert" => FALSE
    <3>1. SUFFICES ASSUME NEW n \in Nodes, ch2[n].is = "request", ch2[n].q = "insert" PROVE FALSE
      OBVIOUS
    <3>2. ch2[n] = ch[n] /\ n \notin c.where
      BY <2>1, <3>1
    <3>3. QED
      BY <2>1, <2>2, <3>1, <3>2, LiveRequest DEF Running
  <2>4. Orderly(d, ch2) /\ ~Crit(d, ch2, Up)
    BY <1>4, <2>1, <2>3 DEF Orderly, Crit
  <2>5. \A n \in Nodes : Keeps(c, d, ch[n], ch2[n], Up, Up)
    BY <2>1 DEF Keeps, Current
  <2>6. c.stmt = "insert" => c.where = Up
    BY <2>1, <2>2, RunsFacts DEF Running, Writes
  <2>7. QED
    BY <1>3, <1>4, <2>1, <2>4, <2>5, <2>6 DEF Inserted
<1>10. CASE SClose(c, d, ch, ch2)
  <2>1. ~HalfInsert(d) /\ ~Crit(d, ch2, Up) /\ d.pc \notin {"begin", "lock"} /\ d.pc \notin Running
        /\ d.count = c.count /\ d.stmt \in {c.stmt, "none"} /\ NoWrite(ch, ch2) /\ ~HalfInsert(c)
    BY <1>3, <1>4, <1>10 DEF SClose, Crit, Uncut
  <2>2. Orderly(d, ch2)
    BY <1>5, <2>1 DEF Orderly, NoWrite, Writes
  <2>3. \A n \in Nodes : Keeps(c, d, ch[n], ch2[n], Up, Up)
    BY <2>1 DEF Keeps, Current, NoWrite
  <2>4. QED
    BY <2>1, <2>2, <2>3 DEF Inserted
<1>11. QED
  BY <1>1, <1>6, <1>7, <1>8, <1>9, <1>10 DEF Shape

\* While the master lives, its lock lets one session insert.
LEMMA OneHolds == Inv /\ Held /\ InOrder /\ InsertLocked /\ Least(Up) \in alive => OneInserts
<1>1. SUFFICES ASSUME Inv, Held, InOrder, InsertLocked, Least(Up) \in alive, NEW s \in Sessions, NEW o \in Sessions,
                      Crit(child[s], chan[s], Up), Crit(child[o], chan[o], Up)
               PROVE  s = o
  BY DEF OneInserts
<1>2. ASSUME NEW a \in Sessions, Crit(child[a], chan[a], Up)
      PROVE  (IF LockKind = 1 THEN "lock" ELSE "rowlock") \in tx[a][Least(Up)].locks /\ Least(Up) \in Nodes
  <2>1. /\ child[a] \in Children /\ Up \in SUBSET Nodes /\ chan[a] \in [Nodes -> Channels]
        /\ Sound(child[a], tx[a], chan[a], alive, faulty, Up)
        /\ HeldBy(child[a], tx[a], chan[a], alive, faulty, Up) /\ Orderly(child[a], chan[a])
    BY <1>1, SessionTypes DEF Held, InOrder
  <2>2. child[a].pc \notin {"exit", "commit"}
    BY <1>2 DEF Crit, Running
  <2>3. /\ Live(child[a], tx[a], chan[a], alive, faulty, Up) /\ Holds(child[a], tx[a], chan[a], alive, faulty, Up)
        /\ \A n \in Nodes : RequestOK(n, child[a], tx[a][n], chan[a][n], alive)
    BY <2>1, <2>2 DEF Sound, HeldBy
  <2>4. Least(Up) \in Up
    BY <2>1, <2>3, LeastFacts DEF Live
  <2>5. QED
    BY <1>1, <1>2, <2>1, <2>3, <2>4, CritHolds
<1>3. QED
  BY <1>1, <1>2 DEF Held, Exclusive

LEMMA InsertedCrit ==
    ASSUME Inv, Held, InsertLocked, NEW s \in Sessions, NEW n \in Up, Up # {Least(Up)}, HalfInsert(child[s]),
           Done(chan[s][n]) \/ child[s].tstate[n] # "E"
    PROVE  Crit(child[s], chan[s], Up)
<1>1. /\ child[s] \in Children /\ Up \in SUBSET Nodes
      /\ Sound(child[s], tx[s], chan[s], alive, faulty, Up) /\ HeldBy(child[s], tx[s], chan[s], alive, faulty, Up)
  BY SessionTypes DEF Held
<1>2. Live(child[s], tx[s], chan[s], alive, faulty, Up) /\ Holds(child[s], tx[s], chan[s], alive, faulty, Up)
  BY <1>1 DEF Sound, HeldBy, HalfInsert
<1>3. QED
  BY <1>1, <1>2, InserterIsCrit

\* A step that writes nothing.
LEMMA QuietSerial ==
    ASSUME Inv, Serial, seq' = seq, Serving' \subseteq Serving, InOrder', OneInserts',
           \A n \in Serving' : Recs(n)' \subseteq Recs(n),
           \A o \in Sessions, n \in Serving' : Keeps(child[o], child'[o], chan[o][n], chan'[o][n], Up, Up'),
           \/ \A n \in Serving' : Ahead(n)' = Ahead(n)
           \/ \A n \in Serving' : Ahead(n) = 1 /\ Ahead(n)' = 0
           \/ \A n, m \in Serving' : n = m
    PROVE  Serial'
<1>1. seq \in [Nodes -> Nat] /\ Serving \subseteq Nodes
  BY DEF Inv, Shapes, Serving, Up
<1>2. SameNumber'
  <2>1. SUFFICES ASSUME NEW n \in Serving', NEW m \in Serving'
                 PROVE  seq[n] - Ahead(n)' = seq[m] - Ahead(m)'
    BY DEF SameNumber
  <2>2. seq[n] - Ahead(n) = seq[m] - Ahead(m) /\ seq[n] \in Nat /\ seq[m] \in Nat
    BY <1>1 DEF Serial, SameNumber
  <2>3. Ahead(n) \in {0, 1} /\ Ahead(m) \in {0, 1}
    BY DEF Ahead
  <2>4. QED
    BY <2>2, <2>3
<1>3. AllKnown'
  <2>1. SUFFICES ASSUME NEW n \in Serving', NEW e \in Recs(n)' PROVE KnownOf(n, e)'
    BY DEF AllKnown
  <2>2. e \in Entries /\ KnownOf(n, e) /\ seq[n] \in Nat /\ e.id[1] \in Sessions /\ e.id[2] \in Nat
    BY <1>1 DEF Serial, AllKnown, Recs, Entries
  <2>3. child[e.id[1]].count \in Nat
    BY <2>2, SessionTypes DEF Children
  <2>4. Keeps(child[e.id[1]], child'[e.id[1]], chan[e.id[1]][n], chan'[e.id[1]][n], Up, Up')
    BY <2>2
  <2>5. QED
    BY <2>2, <2>3, <2>4 DEF KnownOf, Keeps
<1>4. Numbers'
  BY DEF Serial, Numbers
<1>5. QED
  BY <1>2, <1>3, <1>4 DEF Serial

LEMMA ChildSerial ==
    ASSUME InsertLocked, Inv, Held, Inv', Held', Serial, NEW s \in Sessions, NEW d, NEW ch2,
           ChildMove(s, d, ch2), ~cut'
    PROVE  Serial'
<1> DEFINE c == child[s]
           ch == chan[s]
<1>1. /\ child' = [child EXCEPT ![s] = d] /\ chan' = [chan EXCEPT ![s] = ch2]
      /\ UNCHANGED <<alive, log, tx, down, seq>> /\ Moves(s, c, d, tx[s], ch, ch2)
      /\ d \in Children /\ ch2 \in [Nodes -> Channels]
      /\ child \in [Sessions -> Children] /\ chan \in [Sessions -> [Nodes -> Channels]]
  BY DEF ChildMove, Moved, Inv, Shapes
<1>2. Uncut(c, d)
  BY DEF ChildMove, Uncut
<1>3. Up' = Up /\ Serving' = Serving /\ \A n \in Nodes : Recs(n)' = Recs(n)
  BY <1>1 DEF Up, Serving, Recs
<1>4. \A o \in Sessions : IF o = s THEN child'[o] = d /\ chan'[o] = ch2
                                   ELSE child'[o] = child[o] /\ chan'[o] = chan[o]
  BY <1>1
<1>5. /\ Orderly(d, ch2)
      /\ Crit(d, ch2, Up) => Crit(c, ch, Up)
      /\ \A n \in Nodes : Keeps(c, d, ch[n], ch2[n], Up, Up)
      /\ \/ \A n \in Up : Inserted(d, ch2[n]) <=> Inserted(c, ch[n])
         \/ \A n \in Up : Inserted(c, ch[n]) /\ ~Inserted(d, ch2[n])
  <2>1. /\ c \in Children /\ ch \in [Nodes -> Channels] /\ Sound(c, tx[s], ch, alive, faulty, Up) /\ Up \in SUBSET Nodes
        /\ \A n \in Nodes : RequestOK(n, c, tx[s][n], ch[n], alive)
        /\ Orderly(c, ch)
    BY SessionTypes DEF Held, HeldBy, Serial, InOrder
  <2>2. QED
    BY <1>1, <1>2, <2>1, MoveNumbers
<1>6. InOrder' /\ OneInserts'
  BY <1>3, <1>4, <1>5 DEF Serial, InOrder, OneInserts
<1>7. Serving' \subseteq Nodes /\ Serving' \subseteq Up
  BY <1>3 DEF Serving, Up
<1>8. \A o \in Sessions, n \in Serving' : Keeps(child[o], child'[o], chan[o][n], chan'[o][n], Up, Up')
  BY <1>3, <1>4, <1>5, <1>7 DEF Keeps
<1>9. \/ \A n \in Serving' : Ahead(n)' = Ahead(n)
      \/ \A n \in Serving' : Ahead(n) = 1 /\ Ahead(n)' = 0
      \/ Up = {Least(Up)}
  <2>1. CASE \A n \in Up : Inserted(d, ch2[n]) <=> Inserted(c, ch[n])
    <3>1. \A n \in Up, o \in Sessions : Inserted(child'[o], chan'[o][n]) <=> Inserted(child[o], chan[o][n])
      BY <1>4, <2>1
    <3>2. QED
      BY <1>7, <3>1 DEF Ahead
  <2>2. CASE (\A n \in Up : Inserted(c, ch[n]) /\ ~Inserted(d, ch2[n])) /\ Up # {Least(Up)}
    <3>1. ASSUME NEW n \in Up, NEW o \in Sessions, Inserted(child'[o], chan'[o][n]) PROVE FALSE
      <4>1. o # s /\ Inserted(child[o], chan[o][n]) /\ Inserted(c, ch[n])
        BY <1>4, <2>2, <3>1
      <4>2. Crit(child[o], chan[o], Up) /\ Crit(c, ch, Up)
        BY <2>2, <4>1, InsertedCrit DEF Inserted
      <4>3. QED
        BY <4>1, <4>2 DEF Serial, OneInserts
    <3>2. QED
      BY <1>7, <2>2, <3>1 DEF Ahead
  <2>3. QED
    BY <1>5, <2>1, <2>2
<1>10. Up = {Least(Up)} => \A n, m \in Serving' : n = m
  BY <1>7
<1>11. seq' = seq /\ Serving' \subseteq Serving /\ \A n \in Serving' : Recs(n)' \subseteq Recs(n)
  BY <1>1, <1>3, <1>7
<1>12. QED
  BY <1>6, <1>8, <1>9, <1>10, <1>11, QuietSerial

LEMMA CrashSerial ==
    ASSUME Inv, Serial, NEW k \in Nodes, Crash(k)
    PROVE  Serial'
<1>1. /\ UNCHANGED <<log, seq, down, child>> /\ alive' = alive \ {k}
      /\ tx' = [s \in Sessions |-> [tx[s] EXCEPT ![k] = NoTx]]
      /\ chan' = [s \in Sessions |-> IF chan[s][k].is = "request" THEN [chan[s] EXCEPT ![k] = Eof] ELSE chan[s]]
      /\ tx \in [Sessions -> [Nodes -> TxRecs]] /\ chan \in [Sessions -> [Nodes -> Channels]]
  BY DEF Crash, Inv, Shapes
<1>2. Up' = Up /\ Serving' \subseteq Serving /\ Serving' \subseteq Nodes
  BY <1>1 DEF Up, Serving
<1>3. \A s \in Sessions, n \in Nodes :
        /\ tx'[s][n] = tx[s][n] \/ tx'[s][n] = NoTx
        /\ chan'[s][n] = chan[s][n] \/ (chan[s][n].is = "request" /\ chan'[s][n] = Eof)
  BY <1>1
<1>4. RecsIn(NoTx.w) = {}
  BY DEF RecsIn, NoTx
<1>5. \A n \in Serving' : Recs(n)' \subseteq Recs(n)
  <2>1. SUFFICES ASSUME NEW n \in Serving', NEW e \in Recs(n)' PROVE e \in Recs(n)
    OBVIOUS
  <2>2. e \in Entries /\ (e \in RecsIn(log[n]) \/ \E s \in Sessions : e \in RecsIn(tx'[s][n].w))
    BY <1>1 DEF Recs
  <2>3. QED
    BY <1>2, <1>3, <1>4, <2>2 DEF Recs
<1>6. Eof.is = "eof" /\ ~Done(Eof) /\ \A y : y.is = "request" => ~Done(y)
  BY DEF Eof, Done
<1>7. \A s \in Sessions, n \in Nodes : Done(chan'[s][n]) <=> Done(chan[s][n])
  BY <1>3, <1>6
<1>8. InOrder'
  BY <1>1, <1>3, <1>6 DEF Serial, InOrder, Orderly
<1>9. OneInserts'
  <2>1. SUFFICES ASSUME NEW s \in Sessions, NEW o \in Sessions,
                        Crit(child[s], chan'[s], Up), Crit(child[o], chan'[o], Up)
                 PROVE  s = o
    BY <1>1, <1>2 DEF OneInserts
  <2>2. \A a \in Sessions : Least(Up) \in child[a].todo => Least(Up) \in Nodes
    BY SessionTypes DEF Children
  <2>3. Crit(child[s], chan[s], Up) /\ Crit(child[o], chan[o], Up)
    BY <1>7, <2>1, <2>2 DEF Crit
  <2>4. QED
    BY <2>3 DEF Serial, OneInserts
<1>10. \A o \in Sessions, n \in Serving' : Keeps(child[o], child'[o], chan[o][n], chan'[o][n], Up, Up')
  <2>1. TAKE o \in Sessions, n \in Serving'
  <2>2. n \in Nodes
    BY <1>2
  <2>3. QED
    BY <1>1, <1>2, <1>3, <1>6, <1>7, <2>2 DEF Keeps, Current
<1>11. \A n \in Serving' : Ahead(n)' = Ahead(n)
  BY <1>1, <1>2, <1>7 DEF Ahead, Inserted
<1>12. QED
  BY <1>1, <1>2, <1>5, <1>8, <1>9, <1>10, <1>11, QuietSerial

LEMMA FailoverSerial ==
    ASSUME Inv, Held, Serial, Failover, ~cut'
    PROVE  Serial'
<1>1. /\ UNCHANGED <<log, seq, tx, chan, alive>> /\ down' = down \cup req
      /\ child' = [s \in Sessions |-> Killed(child[s])] /\ \A s \in Sessions : ~HalfInsert(child[s])
  BY DEF Failover, pgVars
<1>2. Serving' \subseteq Serving /\ Serving' \subseteq Nodes /\ \A n \in Serving' : Recs(n)' = Recs(n)
  BY <1>1 DEF Serving, Up, Recs
<1>3. \A s \in Sessions : /\ child'[s].count = child[s].count /\ child'[s].stmt = child[s].stmt
                          /\ child'[s].pc \in {"commit", "exit"}
  BY <1>1, SessionTypes, KilledFacts
<1>4. \A s \in Sessions : ~HalfInsert(child'[s]) /\ ~(child'[s].pc \in Running)
  BY <1>3 DEF HalfInsert, Running
<1>5. InOrder'
  <2>1. \A s \in Sessions, n \in Nodes : ~(chan[s][n].is = "request" /\ chan[s][n].q = "insert")
    BY <1>1 DEF Serial, InOrder, Orderly, Held, HeldBy, RequestOK, Writes, HalfInsert, Running
  <2>2. QED
    BY <1>1, <1>4, <2>1 DEF InOrder, Orderly
<1>6. OneInserts'
  BY <1>3 DEF OneInserts, Crit, Running
<1>7. \A o \in Sessions, n \in Serving' : Keeps(child[o], child'[o], chan[o][n], chan'[o][n], Up, Up')
  BY <1>1, <1>3, <1>4 DEF Keeps, Current
<1>8. \A n \in Serving' : Ahead(n)' = Ahead(n)
  BY <1>1, <1>4 DEF Ahead, Inserted
<1>9. QED
  BY <1>1, <1>2, <1>5, <1>6, <1>7, <1>8, QuietSerial

LEMMA RecsOfSeq ==
    /\ RecsIn(<<>>) = {}
    /\ \A w, v \in Seq(Entries) : RecsIn(w \o v) \subseteq RecsIn(w) \cup RecsIn(v)
    /\ \A w \in Seq(Entries), e \in Entries : RecsIn(Append(w, e)) \subseteq RecsIn(w) \cup {e}
<1>1. RecsIn(<<>>) = {}
  BY DEF RecsIn
<1>2. ASSUME NEW w \in Seq(Entries), NEW v \in Seq(Entries), NEW i \in DOMAIN (w \o v)
      PROVE  (w \o v)[i] \in RecsIn(w) \cup RecsIn(v)
  <2>1. /\ Len(w) \in Nat /\ Len(v) \in Nat /\ i \in 1 .. Len(w) + Len(v)
        /\ DOMAIN w = 1 .. Len(w) /\ DOMAIN v = 1 .. Len(v)
    OBVIOUS
  <2>2. CASE i <= Len(w)
    BY <2>1, <2>2 DEF RecsIn
  <2>3. CASE i > Len(w)
    <3>1. (w \o v)[i] = v[i - Len(w)] /\ i - Len(w) \in 1 .. Len(v)
      BY <2>1, <2>3
    <3>2. QED
      BY <2>1, <3>1 DEF RecsIn
  <2>4. QED
    BY <2>1, <2>2, <2>3
<1>3. ASSUME NEW w \in Seq(Entries), NEW e \in Entries, NEW i \in DOMAIN Append(w, e)
      PROVE  Append(w, e)[i] \in RecsIn(w) \cup {e}
  <2>1. Len(w) \in Nat /\ i \in 1 .. Len(w) + 1 /\ DOMAIN w = 1 .. Len(w)
    OBVIOUS
  <2>2. CASE i = Len(w) + 1
    BY <2>2
  <2>3. CASE i \in 1 .. Len(w)
    BY <2>1, <2>3 DEF RecsIn
  <2>4. QED
    BY <2>1, <2>2, <2>3
<1>4. QED
  BY <1>1, <1>2, <1>3 DEF RecsIn

\* Only a write leaves a new entry, and only on its node.
LEMMA ServedRecs ==
    ASSUME Inv, Written, NEW s \in Sessions, NEW n \in Nodes, NEW x2, NEW y2, Served(s, n, x2, y2), NEW E,
           \A e \in Entries : BWrite(s, n, tx[s][n], chan[s][n], x2, y2, e) => e \in E
    PROVE  \A m \in Nodes : Recs(m)' \subseteq Recs(m) \cup IF m = n THEN E ELSE {}
<1> DEFINE x == tx[s][n]
<1>1. /\ tx \in [Sessions -> [Nodes -> TxRecs]] /\ tx' = [tx EXCEPT ![s][n] = x2] /\ x \in TxRecs
      /\ x.w \in Seq(Entries) /\ log \in [Nodes -> Seq(Entries)] /\ log[n] \in Seq(Entries)
  BY DEF Served, Inv, Shapes, Written, TxRecs
<1>2. RecsIn(NoTx.w) = {} /\ RecsIn(Aborted(x).w) = {}
  <2>1. NoTx.w = <<>> /\ Aborted(x).w = <<>>
    BY DEF NoTx, Aborted
  <2>2. QED
    BY <2>1, RecsOfSeq
<1>3. /\ \A e \in RecsIn(x2.w) : e \in RecsIn(x.w) \/ e \in E
      /\ \A e \in RecsIn(log'[n]) : e \in RecsIn(log[n]) \/ e \in RecsIn(x.w) \/ e \in E
      /\ \A m \in Nodes \ {n} : log'[m] = log[m]
  <2>1. ASSUME NEW e \in Entries, BWrite(s, n, x, chan[s][n], x2, y2, e)
        PROVE  <1>3!:
    <3>1. e \in E /\ RecsIn(Append(x.w, e)) \subseteq RecsIn(x.w) \cup {e}
          /\ RecsIn(Append(log[n], e)) \subseteq RecsIn(log[n]) \cup {e}
      BY <1>1, <2>1, RecsOfSeq
    <3> HIDE DEF x
    <3>2. QED
      BY <1>1, <1>2, <2>1, <3>1 DEF BWrite
  <2>2. CASE BEnd(n, x, chan[s][n], x2, y2)
    <3>1. RecsIn(log[n] \o x.w) \subseteq RecsIn(log[n]) \cup RecsIn(x.w)
      BY <1>1, RecsOfSeq
    <3> HIDE DEF x
    <3>2. QED
      BY <1>1, <1>2, <2>2, <3>1 DEF BEnd
  <2>3. CASE \/ BBegin(n, x, chan[s][n], x2, y2) \/ BFail(n, x, chan[s][n], x2, y2)
             \/ BSame(n, x, chan[s][n], x2, y2) \/ BLock(s, n, x, chan[s][n], x2, y2)
             \/ BGone(s, x2, chan[s][n], y2)
    <3>1. log' = log
      BY <2>3 DEF BBegin, BFail, BSame, BLock, BGone, Quietly
    <3>2. x2.w = x.w \/ x2 = NoTx \/ x2 = Aborted(x)
      BY <2>3 DEF BBegin, BFail, BSame, BLock, BGone
    <3> HIDE DEF x
    <3>3. QED
      BY <1>1, <1>2, <3>1, <3>2
  <2>4. QED
    BY <2>1, <2>2, <2>3 DEF Served, Serves
<1>4. \A o \in Sessions, m \in Nodes : tx'[o][m] = IF o = s /\ m = n THEN x2 ELSE tx[o][m]
  BY <1>1
<1>5. SUFFICES ASSUME NEW m \in Nodes, NEW e \in Recs(m)'
               PROVE  e \in Recs(m) \/ (m = n /\ e \in E)
  BY Zenon
<1>6. e \in Entries /\ (e \in RecsIn(log'[m]) \/ \E o \in Sessions : e \in RecsIn(tx'[o][m].w))
  BY DEF Recs
<1>7. QED
  BY <1>3, <1>4, <1>6 DEF Recs

\* What a backend answers while s is its session.
LEMMA ServedOrder ==
    ASSUME InsertLocked, Inv, Held, Inv', Held', Serial, NEW s \in Sessions, NEW n \in Nodes, NEW x2, NEW y2,
           Served(s, n, x2, y2), ~cut'
    PROVE  /\ InOrder' /\ OneInserts'
           /\ \A o \in Sessions, m \in Nodes : chan'[o][m] = IF o = s /\ m = n THEN y2 ELSE chan[o][m]
           /\ y2.is \in {"reply", "empty"}
           /\ child[s].pc # "exit" => chan[s][n].is = "request"
           /\ HalfInsert(child[s]) => /\ chan[s][n].q = "insert" /\ n \in Up
                                      /\ child[s].tstate[n] = tx[s][n].st
<1> DEFINE c == child[s]
           y == chan[s][n]
<1>1. /\ UNCHANGED <<child, alive, down>> /\ chan' = [chan EXCEPT ![s][n] = y2] /\ y2 \in Channels
      /\ chan \in [Sessions -> [Nodes -> Channels]] /\ c \in Children /\ Up \in SUBSET Nodes /\ Up' = Up
  BY SessionTypes DEF Served, Inv, Shapes, Up
<1>2. \A o \in Sessions, m \in Nodes : chan'[o][m] = IF o = s /\ m = n THEN y2 ELSE chan[o][m]
  BY <1>1
<1>3. \/ Answers(n, y, y2)
      \/ c.pc = "exit" /\ y2 = Empty
  BY DEF Served, Serves, BBegin, BEnd, BFail, BSame, BLock, BGone, BWrite
<1>4. y2.is \in {"reply", "empty"} /\ (c.pc # "exit" => y.is = "request" /\ n \in alive)
  BY <1>3 DEF Answers, Empty
<1>5. ASSUME HalfInsert(c)
      PROVE  y.q = "insert" /\ n \in Up /\ c.tstate[n] = tx[s][n].st
  <2>1. c.pc \in Running /\ c.stmt = "insert" /\ c.pc # "exit" /\ c.pc # "commit"
    BY <1>5 DEF HalfInsert, Running
  <2>2. Live(c, tx[s], chan[s], alive, faulty, Up)
    BY <2>1, SessionTypes DEF Sound
  <2>3. Runs(c, tx[s], chan[s], alive, faulty, Up) /\ y.q = "insert" /\ n \in c.where /\ n \in Up
    BY <1>1, <1>4, <2>1, <2>2, LiveRequest, RunsFacts
  <2>4. QED
    BY <1>4, <2>1, <2>3 DEF Runs, Ask, In
<1>6. InOrder'
  <2>1. SUFFICES ASSUME NEW o \in Sessions, NEW m \in Nodes
                 PROVE  /\ chan'[o][m].is = "request" /\ chan'[o][m].q = "insert" => child[o].pc \in Running
                        /\ HalfInsert(child[o]) /\ chan'[o][m].is = "reply" /\ chan'[o][m].kind = "E"
                              => child[o].tstate[m] = "E"
    BY <1>1 DEF InOrder, Orderly
  <2>2. CASE ~(o = s /\ m = n)
    BY <1>2, <2>2 DEF Serial, InOrder, Orderly
  <2>3. CASE o = s /\ m = n
    <3>1. y2.is # "request"
      BY <1>4
    <3>2. ASSUME HalfInsert(c), y2.is = "reply", y2.kind = "E" PROVE tx[s][n].st = "E"
      <4>1. c.pc # "exit" /\ ~Done(y2)
        BY <3>2 DEF HalfInsert, Done
      <4>2. BFail(n, tx[s][n], y, x2, y2)
        BY <4>1 DEF Served, Serves, BBegin, BEnd, BSame, BLock, BGone, BWrite
      <4>3. QED
        BY <1>5, <3>2, <4>2 DEF BFail
    <3>3. QED
      BY <1>2, <1>5, <2>3, <3>1, <3>2
  <2>4. QED
    BY <2>2, <2>3
<1>7. OneInserts'
  <2>1. CASE Least(Up) \in alive
    <3>1. InsertLocked' /\ (Least(Up) \in alive)'
      BY <1>1, <2>1 DEF InsertLocked, LockSafe
    <3>2. (Inv /\ Held /\ InOrder /\ InsertLocked /\ Least(Up) \in alive => OneInserts)'
      BY OneHolds, PTL
    <3>3. QED
      BY <1>6, <3>1, <3>2
  <2>2. CASE Least(Up) \notin alive
    <3>1. SUFFICES ASSUME NEW o \in Sessions, Crit(child[o], chan'[o], Up) PROVE Crit(child[o], chan[o], Up)
      BY <1>1 DEF Serial, OneInserts
    <3>2. child[o].pc # "exit" /\ (Least(Up) \in child[o].todo => Least(Up) \in Nodes)
      BY <3>1, SessionTypes DEF Crit, Running, Children
    <3>3. Least(Up) \in Nodes => chan'[o][Least(Up)] = chan[o][Least(Up)]
      BY <1>2, <1>4, <2>2, <3>2
    <3>4. QED
      BY <3>1, <3>2, <3>3 DEF Crit
  <2>3. QED
    BY <2>1, <2>2
<1>8. QED
  BY <1>2, <1>4, <1>5, <1>6, <1>7

LEMMA AnswerSerial ==
    ASSUME InsertLocked, Inv, Held, Inv', Held', Serial, Written, NEW s \in Sessions, NEW n \in Nodes,
           NEW x2, NEW y2, Served(s, n, x2, y2), ~cut',
           \A e \in Entries : ~BWrite(s, n, tx[s][n], chan[s][n], x2, y2, e)
    PROVE  Serial'
<1> DEFINE c == child[s]
           y == chan[s][n]
<1>1. /\ InOrder' /\ OneInserts'
      /\ \A o \in Sessions, m \in Nodes : chan'[o][m] = IF o = s /\ m = n THEN y2 ELSE chan[o][m]
      /\ y2.is \in {"reply", "empty"} /\ (c.pc # "exit" => y.is = "request")
      /\ HalfInsert(c) => y.q = "insert"
  BY ServedOrder
<1>2. UNCHANGED <<child, alive, down>> /\ Serving' = Serving /\ Up' = Up /\ Serving \subseteq Nodes
  BY DEF Served, Serving, Up
<1>3. seq' = seq
  BY DEF Served, Serves, BBegin, BEnd, BFail, BSame, BLock, BGone, Quietly
<1>4. \A m \in Serving' : Recs(m)' \subseteq Recs(m)
  <2>1. \A m \in Nodes : Recs(m)' \subseteq Recs(m) \cup IF m = n THEN {} ELSE {}
    BY ServedRecs
  <2>2. QED
    BY <1>2, <2>1
<1>5. \A o \in Sessions, m \in Serving' : Keeps(child[o], child'[o], chan[o][m], chan'[o][m], Up, Up')
  BY <1>1, <1>2 DEF Keeps, Current, Done, Running
<1>6. Inserted(c, y2) <=> Inserted(c, y)
  <2>1. SUFFICES ASSUME HalfInsert(c) PROVE ~Done(y) /\ ~Done(y2)
    BY DEF Inserted
  <2>2. y.is = "request" /\ y.q = "insert" /\ c.pc # "exit"
    BY <1>1, <2>1 DEF HalfInsert
  <2>3. BFail(n, tx[s][n], y, x2, y2)
    BY <2>2 DEF Served, Serves, BBegin, BEnd, BSame, BLock, BGone, LockQueries
  <2>4. QED
    BY <2>2, <2>3 DEF BFail, Done
<1>7. \A m \in Serving' : Ahead(m)' = Ahead(m)
  <2>1. \A m \in Serving', o \in Sessions : Inserted(child'[o], chan'[o][m]) <=> Inserted(child[o], chan[o][m])
    BY <1>1, <1>2, <1>6
  <2>2. QED
    BY <2>1 DEF Ahead
<1>8. QED
  BY <1>1, <1>2, <1>3, <1>4, <1>5, <1>7, QuietSerial

\* An INSERT or UPDATE takes effect on node n.
LEMMA WriteKnown ==
    ASSUME InsertLocked, Inv, Held, Inv', Held', Serial, Written, NEW s \in Sessions, NEW n \in Nodes,
           NEW x2, NEW y2, Served(s, n, x2, y2), ~cut', NEW e \in Entries,
           BWrite(s, n, tx[s][n], chan[s][n], x2, y2, e)
    PROVE  /\ InOrder' /\ OneInserts'
           /\ \A o \in Sessions, m \in Nodes : chan'[o][m] = IF o = s /\ m = n THEN y2 ELSE chan[o][m]
           /\ UNCHANGED child /\ Serving' = Serving /\ Up' = Up /\ Serving \subseteq Up /\ Up \subseteq Nodes
           /\ seq \in [Nodes -> Nat] /\ seq' \in [Nodes -> Nat]
           /\ \A m \in Nodes : Recs(m)' \subseteq Recs(m) \cup IF m = n THEN {e} ELSE {}
           /\ chan[s][n].is = "request" /\ chan[s][n].q = child[s].stmt /\ Done(y2)
           /\ child[s].pc \notin {"begin", "lock"} /\ child[s].stmt \in Writes
           /\ e.id[1] = s /\ e.id[2] = child[s].count
           /\ child[s].stmt = "update" => seq' = seq /\ e.val = 0
           /\ child[s].stmt = "insert" =>
                 /\ e.val = seq[n] + 1 /\ \A m \in Nodes : seq'[m] = IF m = n THEN seq[n] + 1 ELSE seq[m]
                 /\ HalfInsert(child[s])
                 /\ Up # {Least(Up)} => Crit(child[s], chan[s], Up)
<1> DEFINE c == child[s]
           x == tx[s][n]
           y == chan[s][n]
<1>1. /\ InOrder' /\ OneInserts'
      /\ \A o \in Sessions, m \in Nodes : chan'[o][m] = IF o = s /\ m = n THEN y2 ELSE chan[o][m]
      /\ HalfInsert(c) => n \in Up /\ c.tstate[n] = x.st
  BY ServedOrder
<1>2. /\ UNCHANGED child /\ Serving' = Serving /\ Up' = Up /\ Serving \subseteq Up /\ Up \subseteq Nodes
      /\ seq \in [Nodes -> Nat] /\ seq' \in [Nodes -> Nat]
  BY DEF Served, Serving, Up, Inv, Shapes
<1>3. /\ y.is = "request" /\ y.q \in Writes /\ Done(y2) /\ x.st # "E"
      /\ e = [id |-> <<s, c.count>>, val |-> IF y.q = "update" THEN 0 ELSE seq[n] + 1]
      /\ seq' = IF y.q = "update" THEN seq ELSE [seq EXCEPT ![n] = @ + 1]
  BY DEF BWrite, Answers
<1>4. y.q = c.stmt
  BY <1>3 DEF Held, HeldBy, RequestOK
<1>5. \A m \in Nodes : Recs(m)' \subseteq Recs(m) \cup IF m = n THEN {e} ELSE {}
  <2>1. \A f \in Entries : BWrite(s, n, x, y, x2, y2, f) => f \in {e}
    BY <1>3 DEF BWrite
  <2>2. QED
    BY <2>1, ServedRecs
<1>6. c.pc \notin {"begin", "lock"}
  <2>1. SUFFICES ASSUME c.pc \in {"begin", "lock"} PROVE FALSE
    OBVIOUS
  <2>2. Live(c, tx[s], chan[s], alive, faulty, Up) /\ Up \in SUBSET Nodes /\ c \in Children
    BY <2>1, SessionTypes DEF Sound
  <2>3. QED
    BY <1>3, <2>1, <2>2, LiveRequest DEF LockQueries, Writes
<1>7. e.id[1] = s /\ e.id[2] = c.count
  BY <1>3
<1>8. c.stmt = "insert" => HalfInsert(c) /\ (Up # {Least(Up)} => Crit(c, chan[s], Up))
  <2>1. SUFFICES ASSUME c.stmt = "insert" PROVE HalfInsert(c) /\ (Up # {Least(Up)} => Crit(c, chan[s], Up))
    OBVIOUS
  <2>2. HalfInsert(c)
    BY <1>3, <1>4, <2>1 DEF Serial, InOrder, Orderly, HalfInsert, Running
  <2>3. QED
    BY <1>1, <1>3, <2>2, InsertedCrit
<1>9. c.stmt = "update" => seq' = seq /\ e.val = 0
  BY <1>3, <1>4
<1>10. c.stmt = "insert" => /\ e.val = seq[n] + 1
                            /\ \A m \in Nodes : seq'[m] = IF m = n THEN seq[n] + 1 ELSE seq[m]
  BY <1>2, <1>3, <1>4
<1>11. QED
  BY <1>1, <1>2, <1>3, <1>4, <1>5, <1>6, <1>7, <1>8, <1>9, <1>10

LEMMA WriteSerial ==
    ASSUME InsertLocked, Inv, Held, Inv', Held', Serial, Written, NEW s \in Sessions, NEW n \in Nodes,
           NEW x2, NEW y2, Served(s, n, x2, y2), ~cut', NEW e \in Entries,
           BWrite(s, n, tx[s][n], chan[s][n], x2, y2, e)
    PROVE  Serial'
<1> DEFINE c == child[s]
           y == chan[s][n]
<1>1. /\ InOrder' /\ OneInserts'
      /\ \A o \in Sessions, m \in Nodes : chan'[o][m] = IF o = s /\ m = n THEN y2 ELSE chan[o][m]
      /\ UNCHANGED child /\ Serving' = Serving /\ Up' = Up /\ Serving \subseteq Up /\ Up \subseteq Nodes
      /\ seq \in [Nodes -> Nat] /\ seq' \in [Nodes -> Nat]
      /\ \A m \in Nodes : Recs(m)' \subseteq Recs(m) \cup IF m = n THEN {e} ELSE {}
      /\ y.is = "request" /\ y.q = c.stmt /\ Done(y2) /\ c.pc \notin {"begin", "lock"} /\ c.stmt \in Writes
      /\ e.id[1] = s /\ e.id[2] = c.count
      /\ c.stmt = "update" => seq' = seq /\ e.val = 0
      /\ c.stmt = "insert" =>
            /\ e.val = seq[n] + 1 /\ \A m \in Nodes : seq'[m] = IF m = n THEN seq[n] + 1 ELSE seq[m]
            /\ HalfInsert(c)
            /\ Up # {Least(Up)} => Crit(c, chan[s], Up)
  BY WriteKnown
<1>2. ~Done(y) /\ c.stmt \in {"update", "insert"} /\ (c.stmt = "update" => ~HalfInsert(c))
  BY <1>1 DEF Done, Writes, HalfInsert
<1> HIDE DEF c, y
\* Nobody else has taken a number while s inserts.
<1>3. ASSUME c.stmt = "insert", Up # {Least(Up)}, NEW o \in Sessions, NEW m \in Up, Inserted(child[o], chan[o][m])
      PROVE  o = s
  BY <1>1, <1>3, InsertedCrit DEF c, Inserted, Serial, OneInserts
<1>4. ASSUME c.stmt = "insert", Up # {Least(Up)}, NEW m \in Serving
      PROVE  /\ Ahead(m) = IF Inserted(c, chan[s][m]) THEN 1 ELSE 0
             /\ Ahead(m)' = IF Inserted(c, chan'[s][m]) THEN 1 ELSE 0
  <2>1. m \in Up /\ m \in Nodes /\ child'[s] = c /\ child[s] = c
    BY <1>1 DEF c
  <2>2. \A o \in Sessions : Inserted(child[o], chan[o][m]) => o = s
    BY <1>3, <1>4, <2>1
  <2>3. \A o \in Sessions : Inserted(child'[o], chan'[o][m]) => o = s
    BY <1>1, <2>1, <2>2
  <2>4. QED
    BY <2>1, <2>2, <2>3 DEF Ahead
<1>5. ASSUME c.stmt = "insert", Up # {Least(Up)}
      PROVE  /\ n \in Serving => Ahead(n) = 0 /\ Ahead(n)' = 1
             /\ \A m \in Serving \ {n} : Ahead(m)' = Ahead(m)
  BY <1>1, <1>2, <1>4, <1>5 DEF y, Inserted
<1>6. \A m \in Serving : Ahead(m) \in {0, 1} /\ Ahead(m)' \in {0, 1} /\ seq[m] \in Nat /\ seq'[m] \in Nat
  BY <1>1 DEF Ahead
<1>7. SameNumber'
  <2>1. SUFFICES ASSUME NEW k \in Serving, NEW m \in Serving, k # m
                 PROVE  seq'[k] - Ahead(k)' = seq'[m] - Ahead(m)'
    BY <1>1, <1>6 DEF SameNumber
  <2>2. Up # {Least(Up)} /\ k \in Nodes /\ m \in Nodes
    BY <1>1, <2>1
  <2>3. seq[k] - Ahead(k) = seq[m] - Ahead(m)
    BY DEF Serial, SameNumber
  <2>4. ASSUME NEW i \in Serving PROVE seq'[i] - Ahead(i)' = seq[i] - Ahead(i)
    <3>1. CASE c.stmt = "update"
      <4>1. \A o \in Sessions : Inserted(child'[o], chan'[o][i]) <=> Inserted(child[o], chan[o][i])
        BY <1>1, <1>2, <3>1 DEF c, Inserted
      <4>2. Ahead(i)' = Ahead(i)
        BY <4>1 DEF Ahead
      <4>3. QED
        BY <1>1, <3>1, <4>2
    <3>2. CASE c.stmt = "insert" /\ i = n
      BY <1>1, <1>5, <1>6, <2>2, <3>2
    <3>3. CASE c.stmt = "insert" /\ i # n
      BY <1>1, <1>5, <2>2, <3>3
    <3>4. QED
      BY <1>2, <3>1, <3>2, <3>3
  <2>5. QED
    BY <2>3, <2>4
<1>8. ASSUME NEW k \in Serving, NEW g \in Recs(k), g.id[2] = child[g.id[1]].count
      PROVE  Current(child[g.id[1]], chan[g.id[1]][k], g, seq[k], Up) /\ g.id[1] \in Sessions /\ g \in Entries
  BY <1>8 DEF Serial, AllKnown, KnownOf, Recs, Entries
<1>9. AllKnown'
  <2>1. SUFFICES ASSUME NEW m \in Serving, NEW g \in Recs(m)'
                 PROVE  /\ g.id[2] <= child[g.id[1]].count
                        /\ g.id[2] = child[g.id[1]].count =>
                              Current(child[g.id[1]], chan'[g.id[1]][m], g, seq'[m], Up)
    BY <1>1 DEF AllKnown, KnownOf
  <2>2. m \in Nodes /\ m \in Up
    BY <1>1
  <2>3. CASE g = e /\ m = n
    <3>1. g.id[1] = s /\ g.id[2] = c.count /\ c.count \in Nat /\ child[s] = c /\ chan'[s][m] = y2
      BY <1>1, <2>2, <2>3, SessionTypes DEF c, Children
    <3>2. y2.is # "request"
      BY <1>1 DEF Done
    <3>3. Current(c, y2, e, seq'[n], Up)
      BY <1>1, <1>2, <2>2, <2>3, <3>2 DEF Current
    <3>4. QED
      BY <2>3, <3>1, <3>3
  <2>4. CASE g \in Recs(m)
    <3> DEFINE o == g.id[1]
    <3>1. g.id[2] <= child[o].count /\ o \in Sessions
      BY <2>4 DEF Serial, AllKnown, KnownOf, Recs, Entries
    <3>2. SUFFICES ASSUME g.id[2] = child[o].count PROVE Current(child[o], chan'[o][m], g, seq'[m], Up)
      BY <3>1
    <3>3. Current(child[o], chan[o][m], g, seq[m], Up)
      BY <1>8, <2>4, <3>2
    <3> HIDE DEF o
    <3>4. ~(o = s /\ m = n)
      BY <1>1, <3>3 DEF Current, y
    <3>5. chan'[o][m] = chan[o][m]
      BY <1>1, <2>2, <3>1, <3>4
    <3>6. CASE c.stmt = "update" \/ m # n
      <4>1. seq'[m] = seq[m]
        BY <1>1, <1>2, <2>2, <3>6
      <4>2. QED
        BY <3>3, <3>5, <4>1
    <3>7. CASE c.stmt = "insert" /\ m = n
      <4>1. ~(child[o].pc \in Running /\ child[o].stmt = "insert" /\ Up # {Least(Up)})
        <5>1. SUFFICES ASSUME child[o].pc \in Running, child[o].stmt = "insert", Up # {Least(Up)} PROVE FALSE
          OBVIOUS
        <5>2. Inserted(child[o], chan[o][m])
          BY <3>3, <5>1 DEF Current, Inserted, HalfInsert, Running
        <5>3. QED
          BY <1>3, <2>2, <3>1, <3>4, <3>7, <5>1, <5>2
      <4>2. QED
        BY <3>3, <3>5, <4>1 DEF Current
    <3>8. QED
      BY <1>2, <3>6, <3>7
  <2>5. QED
    BY <1>1, <2>2, <2>3, <2>4
<1>10. ASSUME n \in Serving, NEW k \in Serving, NEW h \in Recs(k), h.id = e.id
       PROVE  h.val = e.val
  <2>1. Current(c, chan[s][k], h, seq[k], Up) /\ k \in Up /\ k \in Nodes /\ n \in Up
    BY <1>1, <1>8, <1>10 DEF c
  <2>2. k # n
    BY <1>1, <2>1 DEF Current, y
  <2>3. CASE c.stmt = "update"
    BY <1>1, <2>1, <2>3 DEF Current
  <2>4. CASE c.stmt = "insert"
    <3>1. Up # {Least(Up)}
      BY <2>1, <2>2
    <3>2. HalfInsert(c) /\ c.pc \in Running
      BY <1>1, <2>4 DEF HalfInsert, Running
    <3>3. Done(chan[s][k]) /\ h.val = seq[k]
      BY <2>1, <2>4, <3>1, <3>2 DEF Current
    <3>4. Ahead(k) = 1 /\ Ahead(n) = 0
      BY <1>4, <1>5, <1>10, <2>4, <3>1, <3>2, <3>3 DEF Inserted
    <3>5. seq[k] - Ahead(k) = seq[n] - Ahead(n)
      BY <1>10 DEF Serial, SameNumber
    <3>6. QED
      BY <1>1, <1>6, <1>10, <2>4, <3>3, <3>4, <3>5
  <2>5. QED
    BY <1>2, <2>3, <2>4
<1>11. Numbers'
  <2>1. SUFFICES ASSUME NEW k \in Serving, NEW m \in Serving, NEW g \in Recs(k)', NEW h \in Recs(m)', g.id = h.id
                 PROVE  g.val = h.val
    BY <1>1 DEF Numbers
  <2>2. k \in Nodes /\ m \in Nodes
    BY <1>1
  <2>3. (g \in Recs(k) \/ (g = e /\ k = n)) /\ (h \in Recs(m) \/ (h = e /\ m = n))
    BY <1>1, <2>2
  <2>4. CASE g \in Recs(k) /\ h \in Recs(m)
    BY <2>1, <2>4 DEF Serial, Numbers
  <2>5. CASE g = e /\ k = n /\ h \in Recs(m)
    BY <1>10, <2>1, <2>5
  <2>6. CASE g \in Recs(k) /\ h = e /\ m = n
    BY <1>10, <2>1, <2>6
  <2>7. QED
    BY <2>3, <2>4, <2>5, <2>6
<1>12. QED
  BY <1>1, <1>7, <1>9, <1>11 DEF Serial

-----------------------------------------------------------------------------
(* All steps together.  Once an INSERT has been cut off nothing is claimed  *)
(* any more, and no step undoes that.                                      *)

LEMMA InitSerial == Init => Serial
<1>1. SUFFICES ASSUME Init PROVE Serial
  OBVIOUS
<1>2. /\ \A n \in Nodes : log[n] = <<>> /\ seq[n] = 0
      /\ \A s \in Sessions : /\ child[s] = NewChild(0)
                              /\ \A n \in Nodes : chan[s][n] = Empty /\ tx[s][n] = NoTx
  BY <1>1 DEF Init
<1>3. /\ Empty.is = "empty" /\ ~Done(Empty) /\ RecsIn(<<>>) = {} /\ RecsIn(NoTx.w) = {}
      /\ NewChild(0).pc = "idle" /\ ~HalfInsert(NewChild(0))
  BY RecsOfSeq DEF Empty, Done, NoTx, NewChild, HalfInsert
<1>4. ASSUME NEW n \in Nodes PROVE Recs(n) = {} /\ Ahead(n) = 0
  <2>1. RecsIn(log[n]) = {} /\ \A s \in Sessions : RecsIn(tx[s][n].w) = {}
    BY <1>2, <1>3
  <2>2. \A s \in Sessions : ~Done(chan[s][n])
    BY <1>2, <1>3
  <2>3. QED
    BY <2>1, <2>2 DEF Recs, Ahead, Inserted
<1>5. Serving \subseteq Nodes
  BY DEF Serving, Up
<1>6. InOrder /\ OneInserts
  <2>1. \A s \in Sessions : child[s].pc = "idle" /\ ~HalfInsert(child[s])
    BY <1>2, <1>3
  <2>2. \A s \in Sessions, n \in Nodes : chan[s][n].is = "empty"
    BY <1>2, <1>3
  <2>3. QED
    BY <2>1, <2>2 DEF InOrder, Orderly, OneInserts, Crit, Running
<1>7. SameNumber /\ AllKnown /\ Numbers
  <2>1. \A n \in Serving : Recs(n) = {} /\ Ahead(n) = 0 /\ seq[n] = 0
    BY <1>2, <1>4, <1>5
  <2>2. QED
    BY <2>1 DEF SameNumber, AllKnown, Numbers
<1>8. QED
  BY <1>6, <1>7 DEF Serial

LEMMA SameSerial ==
    ASSUME Serial, UNCHANGED <<alive, log, seq, tx, chan, down, child>>
    PROVE  Serial'
<1>1. Up' = Up /\ Serving' = Serving
  BY DEF Up, Serving
<1>2. \A n : Recs(n)' = Recs(n) /\ Ahead(n)' = Ahead(n)
  BY DEF Recs, Ahead
<1>3. InOrder' /\ OneInserts'
  BY <1>1 DEF Serial, InOrder, OneInserts
<1>4. SameNumber' /\ Numbers'
  BY <1>1, <1>2 DEF Serial, SameNumber, Numbers
<1>5. AllKnown'
  BY <1>1, <1>2 DEF Serial, AllKnown, KnownOf
<1>6. QED
  BY <1>3, <1>4, <1>5 DEF Serial

LEMMA NextSerial ==
    ASSUME InsertLocked, Inv, Held, Written, cut \/ Serial, [Next]_vars
    PROVE  (cut \/ Serial)'
<1>1. Inv' /\ Held'
  BY NextInv, NextHeld
<1>2. ASSUME NEW s \in Sessions, NEW n \in Nodes, Backend(s, n)
      PROVE  (cut \/ Serial)'
  <2>1. PICK x2, y2 : Served(s, n, x2, y2)
    BY <1>2, BackendServes
  <2>2. cut => cut'
    BY <2>1 DEF Served, Serves, BBegin, BEnd, BFail, BSame, BLock, BGone, BWrite, Quietly
  <2>3. CASE \E e \in Entries : BWrite(s, n, tx[s][n], chan[s][n], x2, y2, e)
    BY <1>1, <2>1, <2>2, <2>3, WriteSerial
  <2>4. CASE \A e \in Entries : ~BWrite(s, n, tx[s][n], chan[s][n], x2, y2, e)
    BY <1>1, <2>1, <2>2, <2>4, AnswerSerial
  <2>5. QED
    BY <2>3, <2>4
<1>3. ASSUME NEW s \in Sessions, Child(s)
      PROVE  (cut \/ Serial)'
  <2>1. PICK d, ch2 : ChildMove(s, d, ch2)
    BY <1>3, ChildMoves
  <2>2. cut => cut'
    BY <2>1 DEF ChildMove
  <2>3. QED
    BY <1>1, <2>1, <2>2, ChildSerial
<1>4. ASSUME NEW k \in Nodes, Crash(k)
      PROVE  (cut \/ Serial)'
  <2>1. cut' = cut
    BY <1>4 DEF Crash
  <2>2. QED
    BY <1>4, <2>1, CrashSerial
<1>5. CASE Failover
  <2>1. cut => cut'
    BY <1>5 DEF Failover
  <2>2. QED
    BY <1>5, <2>1, FailoverSerial
<1>6. ASSUME UNCHANGED <<alive, log, seq, tx, chan, down, child, cut>>
      PROVE  (cut \/ Serial)'
  BY <1>6, SameSerial
<1>7. ASSUME NEW k \in Nodes, health_check(k)
      PROVE  (cut \/ Serial)'
  BY <1>6, <1>7 DEF health_check, pgVars, ghosts
<1>8. CASE UNCHANGED vars
  BY <1>6, <1>8 DEF vars
<1>9. QED
  BY <1>2, <1>3, <1>4, <1>5, <1>7, <1>8 DEF Next

\* A row gets the same serial number on every node in service, when INSERTs
\* take the lock of insert_lock and no deadlock over a lock row goes unseen.
THEOREM SerialsAgreeSafe ==
    ASSUME LockKind # 0, "deadlock" \notin Faults \/ LockKind # 3
    PROVE  Spec => []SerialsAgree
<1>1. InsertLocked
  BY DEF InsertLocked, LockSafe
<1> DEFINE Together == Inv /\ Held /\ Written /\ (cut \/ Serial)
<1>2. Init => Together
  BY InitInv, InitHeld, InitWritten, InitSerial
<1>3. Together /\ [Next]_vars => Together'
  BY <1>1, NextInv, NextHeld, NextWritten, NextSerial
<1>4. Together => SerialsAgree
  <2>1. SUFFICES ASSUME Together, ~cut, NEW n \in Serving, NEW m \in Serving,
                        NEW i \in DOMAIN log[n], NEW j \in DOMAIN log[m], log[n][i].id = log[m][j].id
                 PROVE  log[n][i].val = log[m][j].val
    BY DEF SerialsAgree
  <2>2. n \in Nodes /\ m \in Nodes /\ log \in [Nodes -> Seq(Entries)]
    BY <2>1 DEF Serving, Up, Written
  <2>3. log[n][i] \in Recs(n) /\ log[m][j] \in Recs(m)
    <3>1. log[n][i] \in Entries /\ log[m][j] \in Entries
      BY <2>2
    <3>2. QED
      BY <3>1 DEF Recs, RecsIn
  <2>4. QED
    BY <2>1, <2>3 DEF Serial, Numbers
<1> HIDE DEF Together
<1>5. QED
  BY <1>2, <1>3, <1>4, PTL DEF Spec

=============================================================================
