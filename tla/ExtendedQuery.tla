---------------------------- MODULE ExtendedQuery ----------------------------
(***************************************************************************)
(* One session of a pgpool child in master/slave mode with streaming       *)
(* replication and load_balance_mode (pool_proto_modules.c,                *)
(* pool_session_context.c, pool_query_context.c): the extended query       *)
(* protocol, the list of prepared statements and portals, the query        *)
(* contexts they share, and the nodes each message goes to.                *)
(*                                                                         *)
(* pgpool keeps in one session_context                                     *)
(*   - list, the messages that prepared something: Parse ("P"), a simple   *)
(*     PREPARE ("Q") and Bind ("B"), each pointing to a query context;     *)
(*   - uncompleted, the one whose answer is still to come;                 *)
(*   - current, the query context of the message being processed.          *)
(* A query context is freed when the last listed message that uses it is   *)
(* removed, and VALID_BACKEND, hence the set of nodes that is written to   *)
(* and read from, is taken from current while a query is in progress.  A   *)
(* context that is freed too early is a wild pointer, and a set of nodes   *)
(* that changes between the writing and the reading leaves the child       *)
(* waiting for a node that has nothing to say, or an answer unread.        *)
(*                                                                         *)
(* The child handles one message at a time and waits for the answers, so   *)
(* the only interleavings are those of the client's messages; what may     *)
(* happen in any order is which statement fails on which node.             *)
(*                                                                         *)
(* Abstractions: a context's memory is forgotten once nothing refers to    *)
(* it, so that the identifiers stay few; query_state is kept as the set of *)
(* nodes that have answered ParseComplete or BindComplete; rows and row    *)
(* descriptions are left out; SERIALIZABLE transactions, two-phase commit, *)
(* COPY and the messages that are only passed on (Flush) are left out, and *)
(* so is skip_reading_from_backends, which only delays a read by one turn  *)
(* of the loop.                                                            *)
(***************************************************************************)
EXTENDS Integers, Sequences, FiniteSets

CONSTANTS
    N,              \* number of nodes; node 0 is the primary
    LoadBalanceNode,\* session_context->load_balance_node_id
    Stmts,          \* statements the client parses, of AllStmts
    Queries,        \* statements the client sends as a simple query
    Portals,        \* portal names; "" is the unnamed one
    ResetQueries,   \* reset_query_list, a sequence of statements
    MaxMessages     \* bound on the messages of one session, Sync and
                    \* Terminate not counted

Nodes == 0 .. N - 1
Primary == 0
Names == {"", "s"}      \* statement names: the unnamed one and another

\* SQL statements by how pgpool treats them.  PREPARE, EXECUTE and
\* DEALLOCATE are all of the statement "s"; "function" is a FunctionCall
\* message and "show" one of the SHOW pool_* reports.
AllStmts == {"select", "insert", "begin", "commit", "set", "discard",
             "deallocate", "deallocate_all", "prepare", "execute",
             "function", "show"}

ASSUME ExtendedQueryAssumption ==
    /\ N \in Nat \ {0}
    /\ LoadBalanceNode \in Nodes
    /\ Stmts \subseteq AllStmts \ {"show", "function"}
    /\ Queries \subseteq AllStmts
    /\ "" \in Portals /\ IsFiniteSet(Portals)
    /\ ResetQueries \in Seq({"commit", "set", "discard"})
    /\ MaxMessages \in Nat

VARIABLES
    session,    \* the session context
    TSTATE,     \* transaction state of each node, as pgpool knows it
    phase,      \* where the child is
    qcnt,       \* reset queries done
    sent,       \* messages of the client so far, for the bound
    node        \* PostgreSQL: the server process of each connection

vars == <<session, TSTATE, phase, qcnt, sent, node>>

None == [kind |-> "none", name |-> "", qc |-> 0]
NoContext == -1
Freed == [stmt |-> "freed", where |-> {}, parsed |-> {}]
Contexts == 0 .. 2 * Cardinality(Names) + Cardinality(Portals) + 2

NewSession ==
    [list |-> {}, uncompleted |-> None, current |-> NoContext,
     context |-> [c \in Contexts |-> Freed],
     in_progress |-> FALSE, doing_extended |-> FALSE, ignore_till_sync |-> FALSE,
     command_success |-> FALSE, writing |-> FALSE, failed |-> FALSE,
     internal |-> {}]       \* nodes with an internal transaction

Init ==
    /\ session = NewSession
    /\ TSTATE = [n \in Nodes |-> "I"]
    /\ phase = "session"
    /\ qcnt = 0
    /\ sent = 0
    /\ node = [n \in Nodes |-> [tx |-> "I", skip |-> FALSE, owed |-> <<>>]]

-----------------------------------------------------------------------------
\* The list of sent messages and the query contexts.

Find(ss, kind, name) ==
    LET found == {m \in ss.list : m.kind = kind /\ m.name = name}
    IN IF found = {} THEN None ELSE CHOOSE m \in found : TRUE

\* pool_get_sent_message('Q', name), and 'P' if there is none.
Statement(ss, name) ==
    IF Find(ss, "Q", name) # None THEN Find(ss, "Q", name) ELSE Find(ss, "P", name)

\* The contexts something still points to.
Referenced(ss) ==
    {m.qc : m \in ss.list} \cup {ss.current}
        \cup (IF ss.uncompleted = None THEN {} ELSE {ss.uncompleted.qc})

Tidy(ss) ==
    [ss EXCEPT !.context = [c \in Contexts |-> IF c \in Referenced(ss) THEN @[c] ELSE Freed]]

\* A context of its own for a new query.
Fresh(ss) == CHOOSE c \in Contexts \ Referenced(ss) :
                \A d \in Contexts \ Referenced(ss) : c <= d

pool_query_context_destroy(ss, c) ==
    IF c = NoContext THEN ss
    ELSE [ss EXCEPT !.context[c] = Freed, !.current = NoContext, !.in_progress = FALSE]

MutDestroyAnyway(ss, c, R) == TRUE

\* Whether nothing on the list but the messages R uses the context c.
can_query_context_destroy(ss, c, R) == {m \in ss.list : m.qc = c} \subseteq R

\* Remove the messages R, one or several: their contexts go with them unless
\* another message uses them; in_progress and the current context survive,
\* unless the current context is itself destroyed.
pool_remove_sent_messages(ss, R) ==
    LET gone == {c \in {m.qc : m \in R} : can_query_context_destroy(ss, c, R)}
    IN [ss EXCEPT !.list = @ \ R,
                  !.context = [c \in Contexts |-> IF c \in gone THEN Freed ELSE @[c]],
                  !.current = IF @ \in gone THEN NoContext ELSE @]

pool_remove_sent_message(ss, kind, name) ==
    pool_remove_sent_messages(ss, {m \in ss.list : m.kind = kind /\ m.name = name})

\* The unnamed statement or portal is replaced; a named one that exists
\* stays, and the new message is forgotten.
pool_add_sent_message(ss, m) ==
    LET ss1 == IF m.name = "" THEN pool_remove_sent_message(ss, m.kind, "") ELSE ss
    IN IF Find(ss1, m.kind, m.name) # None THEN ss
       ELSE [ss1 EXCEPT !.list = @ \cup {m}]

\* VALID_BACKEND, with every node up.
Valid(ss) ==
    IF ss.in_progress /\ ss.current # NoContext THEN ss.context[ss.current].where
    ELSE Nodes

-----------------------------------------------------------------------------
\* Routing.

\* A SELECT may be balanced outside a transaction, or in one that has
\* neither written nor failed.
MayBalance(ss) == TSTATE[Primary] = "I" \/ (~ss.writing /\ ~ss.failed)

MutNoFallback(ss, s, late) ==
    IF s \in {"set", "discard", "deallocate_all"} THEN Nodes
    ELSE IF s = "select" THEN IF late THEN {} ELSE {LoadBalanceNode}
    ELSE {Primary}

\* late: the standby's delay exceeds delay_threshold.
pool_where_to_send(ss, s, late) ==
    LET msg == Statement(ss, "s")
    IN CASE s \in {"set", "discard", "deallocate_all"} -> Nodes
         [] s = "select" /\ MayBalance(ss) /\ ~late -> {LoadBalanceNode}
         [] s \in {"execute", "deallocate"} /\ msg # None -> ss.context[msg.qc].where
         [] OTHER -> {Primary}

-----------------------------------------------------------------------------
\* PostgreSQL, as far as the protocol goes.  After an error in the extended
\* protocol everything up to the next Sync is skipped; in a failed
\* transaction everything but its end, Close and Sync is an error.

Done(kind, s) ==
    CASE kind = "P" -> "1" [] kind = "B" -> "2" [] kind = "C" -> "3"
      [] kind = "D" -> "n" [] kind = "Q" /\ s = "function" -> "V" [] OTHER -> "C"

AfterSuccess(tx, kind, s) ==
    CASE kind \in {"E", "Q"} /\ s = "begin" /\ tx = "I" -> "T"
      [] kind \in {"E", "Q"} /\ s = "commit" -> "I"
      [] OTHER -> tx

\* The answer of a node to a message, fault: if it finds fault with it.
Answer(old, kind, s, fault) ==
    LET failedTx == IF old.tx = "T" THEN "E" ELSE old.tx
        fails == kind # "C" /\ (fault \/ (old.tx = "E" /\ s # "commit"))
        Z == IF kind = "Q" THEN <<"Z">> ELSE <<>>
    IN IF kind = "S" THEN [old EXCEPT !.skip = FALSE, !.owed = Append(@, "Z")]
       ELSE IF old.skip THEN old
       ELSE IF fails
       THEN [old EXCEPT !.tx = failedTx, !.skip = (kind # "Q"), !.owed = @ \o <<"E">> \o Z]
       ELSE [old EXCEPT !.tx = AfterSuccess(old.tx, kind, s),
                        !.owed = @ \o <<Done(kind, s)>> \o Z]

Send(V, kind, s) ==
    \E F \in SUBSET V :
        node' = [n \in Nodes |-> IF n \in V THEN Answer(node[n], kind, s, n \in F) ELSE node[n]]

-----------------------------------------------------------------------------
\* ProcessFrontendResponse: the child reads the client only when no query is
\* in progress, and drops everything but Sync after an error.

Accepts ==
    /\ phase = "session"
    /\ ~session.in_progress
    /\ ~session.ignore_till_sync
    /\ sent < MaxMessages
    /\ sent' = sent + 1

Begin(ss, extended) == [ss EXCEPT !.in_progress = TRUE, !.doing_extended = extended]

\* The child exits, with its connections, and the session with it.
End == phase' = "gone" /\ UNCHANGED <<session, TSTATE, qcnt, node>>

Parse(name, s, late) ==
    /\ Accepts
    /\ LET c == Fresh(session)
           w == pool_where_to_send(session, s, late)
       IN /\ session' = Tidy([Begin(session, TRUE) EXCEPT
                 !.context[c] = [stmt |-> s, where |-> w, parsed |-> {}],
                 !.current = c,
                 !.uncompleted = [kind |-> "P", name |-> name, qc |-> c]])
          /\ Send(w, "P", s)
    /\ UNCHANGED <<TSTATE, phase, qcnt>>

\* The message's context becomes the current one and is routed anew.
Route(msg, late) ==
    LET s == session.context[msg.qc].stmt
    IN [Begin(session, TRUE) EXCEPT !.current = msg.qc,
            !.context[msg.qc].where = pool_where_to_send(session, s, late)]

\* parse_before_bind: nodes the Bind goes to that have not parsed the
\* statement get it first, if the transaction has written.
Unparsed(ss) == ss.context[ss.current].where \ ss.context[ss.current].parsed

Bind(portal, name, late) ==
    /\ Accepts
    /\ LET msg == Statement(session, name)
           s == session.context[msg.qc].stmt
           ss == [Route(msg, late) EXCEPT
                    !.uncompleted = [kind |-> "B", name |-> portal, qc |-> msg.qc]]
           again == session.writing /\ Unparsed(ss) # {}
       IN \/ msg = None /\ End
          \/ /\ msg # None
             /\ session' = Tidy(ss)
             /\ phase' = IF again THEN "reparse" ELSE phase
             /\ IF again THEN Send(Unparsed(ss), "P", s)
                ELSE Send(Valid(ss), "B", s)
             /\ UNCHANGED <<TSTATE, qcnt>>

\* The rest of parse_before_bind and of Bind.  The child reads on until a
\* ParseComplete, so that after an error it waits for good.
Reparsed ==
    /\ phase = "reparse"
    /\ \A n \in Unparsed(session) : node[n].owed # <<>> /\ Head(node[n].owed) = "1"
    /\ LET s == session.context[session.current].stmt
       IN \E F \in SUBSET Valid(session) :
            node' = [n \in Nodes |->
              LET a == Answer(node[n], "B", s, n \in F)
              IN IF n \notin Valid(session) THEN node[n]
                 ELSE IF n \in Unparsed(session) THEN [a EXCEPT !.owed = Tail(@)] ELSE a]
    /\ phase' = "session"
    /\ UNCHANGED <<session, TSTATE, qcnt, sent>>

\* Describe (of a statement or a portal) and Execute: both look the message
\* up, route its statement again and send.
DescribeExecute(kind, msg, late) ==
    /\ Accepts
    /\ \/ msg = None /\ End
       \/ /\ msg # None
          /\ session' = Tidy(Route(msg, late))
          /\ Send(Valid(Route(msg, late)), kind, session.context[msg.qc].stmt)
          /\ UNCHANGED <<TSTATE, phase, qcnt>>

\* Close goes where the statement went last.
Close(msg) ==
    /\ Accepts
    /\ \/ msg = None /\ End
       \/ /\ msg # None
          /\ LET ss == [Begin(session, FALSE) EXCEPT !.current = msg.qc, !.uncompleted = msg]
             IN /\ session' = Tidy(ss)
                /\ Send(Valid(ss), "C", session.context[msg.qc].stmt)
          /\ UNCHANGED <<TSTATE, phase, qcnt>>

Sync ==
    /\ phase = "session"
    /\ ~session.in_progress
    /\ LET ss == [Begin(session, TRUE) EXCEPT !.ignore_till_sync = FALSE]
       IN session' = ss /\ Send(Valid(ss), "S", "sync")
    /\ UNCHANGED <<TSTATE, phase, qcnt, sent>>

\* start_internal_transaction: a statement for several nodes is put into a
\* transaction on those that have none.
InternalNodes(w, s) ==
    IF Cardinality(w) > 1 /\ s \in {"set", "execute", "deallocate", "deallocate_all"}
    THEN {n \in w : TSTATE[n] = "I"} ELSE {}

\* SimpleQuery and FunctionCall, from the client or while resetting.
SimpleQuery(ss, s, late) ==
    LET c == Fresh(ss)
        w == pool_where_to_send(ss, s, late)
        new == [Begin(ss, FALSE) EXCEPT
                  !.context[c] = [stmt |-> s, where |-> w, parsed |-> {}],
                  !.current = c,
                  !.internal = InternalNodes(w, s),
                  !.writing = @ /\ InternalNodes(w, s) = {},
                  !.uncompleted = IF s = "prepare" THEN [kind |-> "Q", name |-> "s", qc |-> c]
                                  ELSE @]
    IN IF s = "show" THEN pool_query_context_destroy(new, c) ELSE new

\* The BEGINs of the internal transaction, and the query.
SendQuery(ss, s) ==
    /\ TSTATE' = [n \in Nodes |-> IF n \in ss.internal THEN "T" ELSE TSTATE[n]]
    /\ \E F \in SUBSET Valid(ss) :
        node' = [n \in Nodes |->
            LET begun == IF n \in ss.internal THEN [node[n] EXCEPT !.tx = "T"] ELSE node[n]
            IN IF n \in Valid(ss) THEN Answer(begun, "Q", s, n \in F) ELSE node[n]]

Query(s, late) ==
    /\ Accepts
    /\ LET ss == SimpleQuery(session, s, late)
       IN /\ session' = Tidy(ss)
          /\ IF s = "show" THEN UNCHANGED <<TSTATE, node>> ELSE SendQuery(ss, s)
    /\ UNCHANGED <<phase, qcnt>>

\* Terminate, which is dropped after an error, or the client is gone.
Terminate ==
    /\ phase = "session"
    /\ ~session.in_progress
    /\ phase' = "reset"
    /\ qcnt' = 0
    /\ UNCHANGED <<session, TSTATE, sent, node>>

-----------------------------------------------------------------------------
\* ProcessBackendResponse: one answer, of the same kind from every valid node.

\* The session after an answer, and the nodes its body was read from.
Complete(ss) ==
    LET m == ss.uncompleted
        added == pool_add_sent_message(ss, m)
    IN IF m = None THEN ss
       ELSE [added EXCEPT !.uncompleted = None,
                !.context[m.qc].parsed = @ \cup added.context[m.qc].where]

ParseComplete(ss) == [ss |-> Complete(ss), read |-> Valid(Complete(ss))]

\* The answer is passed on before the message is removed.
CloseComplete(ss) ==
    LET m == ss.uncompleted
    IN [ss |-> [pool_remove_sent_message(ss, m.kind, m.name) EXCEPT !.uncompleted = None],
        read |-> Valid(ss)]

\* CommandComplete: what the statement did to the list, before the body of
\* the answer is read.
CommandComplete(ss) ==
    LET s == ss.context[ss.current].stmt
        done == CASE s = "prepare" /\ ss.uncompleted # None ->
                       [pool_add_sent_message(ss, ss.uncompleted) EXCEPT !.uncompleted = None]
                  [] s = "deallocate" ->
                       pool_remove_sent_messages(ss,
                           {m \in ss.list : m.kind \in {"Q", "P"} /\ m.name = "s"})
                  [] s = "deallocate_all" ->
                       pool_remove_sent_messages(ss, {m \in ss.list : m.kind \in {"Q", "P"}})
                  [] s = "discard" -> pool_remove_sent_messages(ss, ss.list)
                  [] s = "begin" -> [ss EXCEPT !.writing = FALSE, !.failed = FALSE]
                  [] OTHER -> ss
    IN [ss |-> done, read |-> Valid(done)]

\* raise_intentional_error_if_need: a SELECT has failed on a standby in a
\* transaction, which goes on on the primary.
RaisesError(ss) ==
    /\ TSTATE[Primary] = "T"
    /\ ss.current # NoContext
    /\ ss.context[ss.current].stmt = "select"
    /\ Primary \notin ss.context[ss.current].where

\* The primary is sent an Execute of a portal that does not exist, or a
\* query with an error, and its ErrorResponse is read and dropped.  From now
\* on it is one of the query's nodes.
IntentionalError(ss, old) ==
    LET kind == IF ss.doing_extended THEN "E" ELSE "Q"
    IN [Answer(old, kind, "select", TRUE) EXCEPT !.owed = Tail(@)]

MutNotToBeSent(ss) == ss
pool_set_node_to_be_sent(ss) == [ss EXCEPT !.context[ss.current].where = @ \cup {Primary}]

\* The message that failed is put on the list and taken off again, and with
\* it whatever had its kind and name.
ErrorResponse3(ss) ==
    LET m == ss.uncompleted
        raised == IF RaisesError(ss) THEN pool_set_node_to_be_sent(ss) ELSE ss
        cleared == IF m = None THEN raised
                   ELSE [pool_remove_sent_message(pool_add_sent_message(raised, m), m.kind, m.name)
                            EXCEPT !.uncompleted = None]
    IN [ss |-> [cleared EXCEPT !.failed = @ \/ TSTATE[Primary] # "I",
                               !.ignore_till_sync = ss.doing_extended],
        read |-> Valid(ss)]

\* The internal transaction is committed first.  After a transaction has
\* begun it has written nothing; any statement but a SELECT counts as a
\* write.  The context of a simple query is destroyed, except that of
\* PREPARE.
ReadyForQuery(ss) ==
    LET ended == ss.in_progress /\ ss.command_success
        s == IF ended /\ ss.current # NoContext THEN ss.context[ss.current].stmt ELSE "none"
        kept == [ss EXCEPT !.internal = {},
                           !.writing = (s # "begin" /\ (@ \/ s \notin {"select", "none"})),
                           !.failed = (s # "begin" /\ @),
                           !.in_progress = @ /\ ~ended]
    IN [ss |-> IF ss.doing_extended \/ s = "prepare" THEN kept
               ELSE pool_query_context_destroy(kept, kept.current),
        read |-> Valid(ss)]

\* command_success and in_progress after an answer that is not ReadyForQuery.
Settle(kind, ss) ==
    [ss EXCEPT !.command_success = @ \/ kind \in {"1", "2", "3", "E", "C"},
               !.in_progress = @ /\ ~(ss.doing_extended \/ kind \in {"1", "2", "3"})]

Outcome(kind) ==
    CASE kind \in {"1", "2"} -> ParseComplete(session)
      [] kind = "3" -> CloseComplete(session)
      [] kind = "C" -> CommandComplete(session)
      [] kind = "E" -> ErrorResponse3(session)
      [] kind = "Z" -> ReadyForQuery(session)
      [] OTHER -> [ss |-> session, read |-> Valid(session)]

\* pgpool's idea of the nodes' transactions.
Known(kind) ==
    [n \in Nodes |->
        IF n \notin Valid(session) THEN TSTATE[n]
        ELSE IF kind = "Z" THEN (IF n \in session.internal THEN "I" ELSE node[n].tx)
        ELSE IF kind = "C" /\ session.context[session.current].stmt = "begin" THEN "T"
        ELSE TSTATE[n]]

Reading == phase \in {"session", "reset"} /\ session.in_progress /\ ~session.ignore_till_sync

\* The nodes an intentional error goes to; it is waited for, so that a node
\* that skips messages keeps the child for good.
Raised(kind) == IF kind = "E" /\ RaisesError(session) THEN {Primary} ELSE {}

ProcessBackendResponse ==
    /\ Reading
    /\ \A n \in Valid(session) : node[n].owed # <<>>
    /\ UNCHANGED sent
    /\ LET kinds == {Head(node[n].owed) : n \in Valid(session)}
           kind == CHOOSE k \in kinds : TRUE
           out == Outcome(kind)
       IN \/ Cardinality(kinds) > 1 /\ End      \* kind mismatch: POOL_ERROR
          \/ /\ Cardinality(kinds) = 1
             /\ \A n \in Raised(kind) : ~node[n].skip
             /\ session' = Tidy(IF kind = "Z" THEN out.ss ELSE Settle(kind, out.ss))
             /\ TSTATE' = Known(kind)
             /\ phase' = IF out.read = Valid(session) THEN phase ELSE "out of step"
             /\ node' = [n \in Nodes |->
                    IF n \in Raised(kind) THEN IntentionalError(session, node[n])
                    ELSE IF n \notin Valid(session) THEN node[n]
                    ELSE [node[n] EXCEPT !.owed = Tail(@),
                            !.tx = IF kind = "Z" THEN TSTATE'[n] ELSE @]]
             /\ UNCHANGED qcnt

-----------------------------------------------------------------------------
\* reset_backend: the connection is made fit for the pool.

\* One query of reset_query_list.  ABORT ("commit" here, they are treated
\* alike) is not sent when no transaction is open.
ResetQuery ==
    /\ phase = "reset"
    /\ ~session.in_progress
    /\ qcnt < Len(ResetQueries)
    /\ qcnt' = qcnt + 1
    /\ LET s == ResetQueries[qcnt + 1]
           ss == SimpleQuery(session, s, FALSE)
       IN IF s = "commit" /\ \A n \in Nodes : TSTATE[n] = "I"
          THEN UNCHANGED <<session, TSTATE, node>>
          ELSE session' = Tidy(ss) /\ SendQuery(ss, s)
    /\ UNCHANGED <<phase, sent>>

\* Then what is left on the list, with a DEALLOCATE for a named statement.
ResetMessage ==
    /\ phase = "reset"
    /\ ~session.in_progress
    /\ qcnt = Len(ResetQueries)
    /\ \E m \in session.list :
         LET named == m.kind \in {"P", "Q"} /\ m.name # ""
             ss == IF named THEN SimpleQuery(session, "deallocate", FALSE) ELSE session
         IN /\ session' = Tidy(pool_remove_sent_messages(ss, {m}))
            /\ IF named THEN SendQuery(ss, "deallocate") ELSE UNCHANGED <<TSTATE, node>>
    /\ UNCHANGED <<phase, qcnt, sent>>

\* The session is over; the connection serves the next one.
ResetDone ==
    /\ phase = "reset"
    /\ ~session.in_progress
    /\ qcnt = Len(ResetQueries)
    /\ session.list = {}
    /\ session' = NewSession
    /\ TSTATE' = [n \in Nodes |-> "I"]
    /\ phase' = "session"
    /\ qcnt' = 0
    /\ sent' = 0
    /\ UNCHANGED node

-----------------------------------------------------------------------------
Client ==
    \/ \E name \in Names, s \in Stmts, late \in BOOLEAN : Parse(name, s, late)
    \/ \E portal \in Portals, name \in Names, late \in BOOLEAN : Bind(portal, name, late)
    \/ \E portal \in Portals, late \in BOOLEAN, kind \in {"D", "E"} :
           DescribeExecute(kind, Find(session, "B", portal), late)
    \/ \E name \in Names, late \in BOOLEAN :
           DescribeExecute("D", Statement(session, name), late)
    \/ \E name \in Names : Close(Statement(session, name))
    \/ \E portal \in Portals : Close(Find(session, "B", portal))
    \/ \E s \in Queries, late \in BOOLEAN : Query(s, late)
    \/ Sync
    \/ Terminate

Next ==
    \/ Client
    \/ Reparsed
    \/ ProcessBackendResponse
    \/ ResetQuery \/ ResetMessage \/ ResetDone

Spec == Init /\ [][Next]_vars

-----------------------------------------------------------------------------
Messages == [kind : {"P", "Q", "B"}, name : Names \cup Portals, qc : Contexts]
LiveContexts == [stmt : AllStmts, where : (SUBSET Nodes) \ {{}}, parsed : SUBSET Nodes]
Sessions ==
    [list : SUBSET Messages, uncompleted : Messages \cup {None},
     current : Contexts \cup {NoContext}, context : [Contexts -> LiveContexts \cup {Freed}],
     in_progress : BOOLEAN, doing_extended : BOOLEAN, ignore_till_sync : BOOLEAN,
     command_success : BOOLEAN, writing : BOOLEAN, failed : BOOLEAN,
     internal : SUBSET Nodes]
TxStates == {"I", "T", "E"}
Answers == {"1", "2", "3", "n", "V", "C", "E", "Z"}

\* The session, its messages and the nodes keep their types; a live context
\* always has somewhere to go, and no node owes more than two answers.
TypeOK ==
    /\ session \in Sessions
    /\ TSTATE \in [Nodes -> TxStates]
    /\ phase \in {"session", "reparse", "reset", "gone", "out of step"}
    /\ qcnt \in 0 .. Len(ResetQueries)
    /\ sent \in 0 .. MaxMessages
    /\ node \in [Nodes -> [tx : TxStates, skip : BOOLEAN, owed : Seq(Answers)]]
    /\ \A n \in Nodes : Len(node[n].owed) <= 2

\* No pointer to a freed query context: neither a prepared statement or
\* portal on the list, nor the message being completed, nor the session
\* itself keeps one whose memory pool_query_context_destroy has returned,
\* whatever the client prepares, binds, replaces, closes, deallocates or
\* discards, and whichever of it fails.
NoDanglingContext ==
    \A c \in Referenced(session) \ {NoContext} : session.context[c] # Freed

\* Four ways in which the code is known to wait for an answer that does not
\* come (see the README): Sync as the first message of a session, a simple
\* PREPARE that fails, whose context is destroyed before ReadyForQuery is
\* read, a client that leaves after an error without a Sync, and an error in
\* answer to the Parse of parse_before_bind.
KnownStall ==
    \/ ~session.command_success
    \/ session.in_progress /\ ~session.doing_extended /\ session.current = NoContext
    \/ phase = "reset" /\ session.ignore_till_sync
    \/ phase = "reparse" /\ \E n \in Unparsed(session) : node[n].skip

\* The child and the nodes stay in step.  When the child reads an answer,
\* every node it reads from has one for it, and its body is read from the
\* nodes whose kind was read; a primary that has to be brought into the failed
\* transaction of a standby answers; and when the child turns to the client,
\* no answer is left unread that would be taken for the one of a later message.
InStep ==
    /\ phase # "out of step"
    /\ ~KnownStall =>
        /\ Reading => \A n \in Valid(session) : node[n].owed # <<>>
        /\ Reading /\ RaisesError(session) => ~node[Primary].skip
        /\ phase = "reparse" => \A n \in Unparsed(session) : node[n].owed # <<>>
        /\ phase \in {"session", "reset"} /\ ~session.in_progress =>
               \A n \in Nodes : node[n].owed = <<>>
=============================================================================
