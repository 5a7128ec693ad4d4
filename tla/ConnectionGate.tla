--------------------------- MODULE ConnectionGate ---------------------------
(***************************************************************************)
(* How clients are kept out during the second stage of online recovery and *)
(* during a graceful detach.  The PCP process raises the shared flag       *)
(* InRecovery and waits for the shared connection counter to reach zero;   *)
(* the children look at the flag before accept(2) and count themselves in  *)
(* and out under CONN_COUNTER_SEM.  The parent passes the end of the       *)
(* recovery on as SIGUSR2.  Node states are the subject of Failover; here  *)
(* a request to the parent only kills the children and answers.            *)
(***************************************************************************)
EXTENDS Integers, FiniteSets

CONSTANTS
    Children, NoOne,
    Ops,            \* what else happens in this instance
    WaitRetryCount, \* recovery_timeout / 3
    MaxClients,     \* bound: clients that arrive in a behaviour
    MaxEvents       \* bound: PCP commands, kills and restarts

AllOps == {"recovery", "graceful", "early_failure", "lost_count", "error",
           "failover", "restart"}

ASSUME GateAssumption == /\ NoOne \notin Children
                         /\ Ops \subseteq AllOps
                         /\ IsFiniteSet(Children)
                         /\ WaitRetryCount \in Nat
                         /\ MaxClients \in Nat
                         /\ MaxEvents \in Nat

VARIABLES
    inRecovery,     \* *InRecovery
    conn_counter,   \* Req_info->conn_counter
    counterSem,     \* holder of CONN_COUNTER_SEM
    pc, after,      \* where each child is, and where connection_count_down returns to
    tmp,            \* the value of conn_counter it read inside the critical section
    accepted,       \* the child's accepted flag
    needRestart,    \* process_info[].need_to_restart
    old,            \* history: children whose client was counted when InRecovery was raised
    slipped,        \* history: children that had passed the test of InRecovery by then,
                    \* and are on their way to accept and count a client
    pcp, retry, op, \* the PCP process: place, wait_connection_closed's i, command
    requested,      \* SIGUSR1 on its way to the parent
    wakeup,         \* pcp_wakeup_request
    usr2,           \* SIGUSR2 on its way to the parent
    backlog,        \* clients waiting in the listen queue
    arrived, events \* bounds

childVars == <<pc, after, tmp, accepted, needRestart>>
counterVars == <<conn_counter, counterSem>>
pcpVars == <<pcp, retry, op, wakeup, inRecovery>>
clientVars == <<backlog, arrived>>
histVars == <<old, slipped>>
vars == <<childVars, counterVars, pcpVars, clientVars, histVars, requested, usr2, events>>

ChildStates == {"top", "select", "gate", "pausing", "paused", "accept", "up_lock",
                "up", "served", "down_lock", "down", "gone", "stuck"}

Init ==
    /\ inRecovery = FALSE
    /\ conn_counter = 0
    /\ counterSem = NoOne
    /\ pc = [c \in Children |-> "top"]
    /\ after = [c \in Children |-> "top"]
    /\ tmp = [c \in Children |-> 0]
    /\ accepted = [c \in Children |-> FALSE]
    /\ needRestart = [c \in Children |-> FALSE]
    /\ old = {} /\ slipped = {}
    /\ pcp = "idle" /\ retry = 0 /\ op = "recovery"
    /\ requested = FALSE /\ wakeup = FALSE /\ usr2 = FALSE
    /\ backlog = 0 /\ arrived = 0 /\ events = 0

\* The child's client is gone, or it found none to accept.
Forget(c) == old' = old \ {c} /\ slipped' = slipped \ {c}

Goes(c, l) == pc' = [pc EXCEPT ![c] = l]
Event == events < MaxEvents /\ events' = events + 1
Rest == UNCHANGED <<pcpVars, requested, usr2, events>>

\* External: a client connects to the listening socket.
client_arrives ==
    /\ arrived < MaxClients
    /\ arrived' = arrived + 1 /\ backlog' = backlog + 1
    /\ UNCHANGED <<childVars, counterVars, histVars>> /\ Rest

-----------------------------------------------------------------------------
(* A child's loop.                                                         *)

\* connection_count_down() from place l of the code.
CountDown(c, l) ==
    /\ Goes(c, "down_lock")
    /\ after' = [after EXCEPT ![c] = l]

\* child_exit(): counts down if a client had been accepted.
child_exit(c) ==
    \/ accepted[c] /\ CountDown(c, "gone")
    \/ ~accepted[c] /\ Goes(c, "gone") /\ UNCHANGED after

\* Top of the accept loop: need_to_restart is looked at before accepted is
\* reset.
loop_top(c) ==
    /\ pc[c] = "top"
    /\ \/ /\ needRestart[c]
          /\ needRestart' = [needRestart EXCEPT ![c] = FALSE]
          /\ child_exit(c)
          /\ UNCHANGED accepted
       \/ /\ ~needRestart[c]
          /\ accepted' = [accepted EXCEPT ![c] = FALSE]
          /\ Goes(c, "select")
          /\ UNCHANGED <<after, needRestart>>
    /\ UNCHANGED <<tmp, counterVars, clientVars, histVars>> /\ Rest

\* do_accept: select(2) reports a connection (to every child that waits).
do_select(c) ==
    /\ pc[c] = "select" /\ backlog > 0
    /\ Goes(c, "gate")
    /\ UNCHANGED <<after, tmp, accepted, needRestart, counterVars,
                   clientVars, histVars>> /\ Rest

\* while (*InRecovery == 1) pause();  the test and the pause are two steps.
gate(c) ==
    /\ pc[c] = "gate"
    /\ Goes(c, IF inRecovery THEN "pausing" ELSE "accept")
    /\ UNCHANGED <<after, tmp, accepted, needRestart, counterVars,
                   clientVars, histVars>> /\ Rest

pause(c) ==
    /\ pc[c] = "pausing"
    /\ Goes(c, "paused")
    /\ UNCHANGED <<after, tmp, accepted, needRestart, counterVars,
                   clientVars, histVars>> /\ Rest

\* accept(2) on a non-blocking socket: another child may have been faster.
do_accept(c) ==
    /\ pc[c] = "accept"
    /\ \/ /\ backlog > 0 /\ backlog' = backlog - 1
          /\ Goes(c, "up_lock") /\ UNCHANGED histVars
       \/ backlog = 0 /\ Goes(c, "top") /\ Forget(c) /\ UNCHANGED backlog
    /\ UNCHANGED <<after, tmp, accepted, needRestart, counterVars, arrived>> /\ Rest

\* pool_semaphore_lock(CONN_COUNTER_SEM), then conn_counter is read.
MutCounterUnlocked(c) == TRUE
CounterFree(c) == counterSem = NoOne

count_lock(c) ==
    /\ pc[c] \in {"up_lock", "down_lock"}
    /\ CounterFree(c)
    /\ counterSem' = c
    /\ tmp' = [tmp EXCEPT ![c] = conn_counter]
    /\ Goes(c, IF pc[c] = "up_lock" THEN "up" ELSE "down")
    /\ UNCHANGED <<after, accepted, needRestart, conn_counter,
                   clientVars, histVars>> /\ Rest

\* conn_counter++, unlock; do_accept then sets accepted.
connection_count_up(c) ==
    /\ pc[c] = "up"
    /\ conn_counter' = tmp[c] + 1
    /\ counterSem' = NoOne
    /\ accepted' = [accepted EXCEPT ![c] = TRUE]
    /\ Goes(c, "served")
    /\ UNCHANGED <<after, tmp, needRestart, clientVars, histVars>> /\ Rest

\* conn_counter-- unless it is zero, unlock.
MutDecrementedBelowZero(n) == n - 1
Decremented(n) == IF n > 0 THEN n - 1 ELSE 0

connection_count_down(c) ==
    /\ pc[c] = "down"
    /\ conn_counter' = Decremented(tmp[c])
    /\ counterSem' = NoOne
    /\ Goes(c, after[c])
    /\ UNCHANGED <<after, tmp, accepted, needRestart, clientVars, histVars>> /\ Rest

\* The client leaves: accepted is cleared BEFORE the count down.
session_ends(c) ==
    /\ pc[c] = "served"
    /\ Forget(c)
    /\ accepted' = [accepted EXCEPT ![c] = FALSE]
    /\ CountDown(c, "top")
    /\ UNCHANGED <<tmp, needRestart, counterVars, clientVars>> /\ Rest

\* No startup packet, a cancel request, no backend connection: the child
\* counts down and goes back to the loop with accepted still set.
early_failure(c) ==
    /\ "early_failure" \in Ops
    /\ pc[c] = "served"
    /\ Forget(c)
    /\ CountDown(c, "top")
    /\ UNCHANGED <<tmp, accepted, needRestart, counterVars, clientVars>> /\ Rest

\* connect_using_existing_connection fails in SET application_name, or
\* do_accept after accept(2): back to the loop, nothing counted down.
lost_count(c) ==
    /\ "lost_count" \in Ops
    /\ pc[c] = "served"
    /\ Forget(c)
    /\ Goes(c, "top")
    /\ UNCHANGED <<after, tmp, accepted, needRestart, counterVars,
                   clientVars>> /\ Rest

\* POOL_ERROR: child_exit(1).
session_error(c) ==
    /\ "error" \in Ops
    /\ pc[c] = "served"
    /\ Forget(c)
    /\ child_exit(c)
    /\ UNCHANGED <<tmp, accepted, needRestart, counterVars, clientVars>> /\ Rest

\* The parent forks a new child in the place of one that is gone.
fork_a_child(c) ==
    /\ pc[c] = "gone"
    /\ Goes(c, "top")
    /\ accepted' = [accepted EXCEPT ![c] = FALSE]
    /\ UNCHANGED <<after, tmp, needRestart, counterVars, clientVars, histVars>>
    /\ Rest

-----------------------------------------------------------------------------
(* The parent.                                                             *)

\* SIGQUIT runs die() -> child_exit() wherever the child is: inside the
\* critical section it exits with the semaphore, or blocks on it for ever.
Killed(c) ==
    CASE pc[c] = "up" -> "gone"
      [] pc[c] = "down" -> IF accepted[c] THEN "stuck" ELSE "gone"
      [] pc[c] \in {"gone", "stuck"} -> pc[c]
      [] OTHER -> IF accepted[c] THEN "down_lock" ELSE "gone"

kill_children ==
    /\ pc' = [c \in Children |-> Killed(c)]
    /\ after' = [c \in Children |-> "gone"]
    /\ old' = {} /\ slipped' = {}
    /\ UNCHANGED <<tmp, accepted, needRestart>>

\* failover() for the PCP request: restart the children, SIGUSR2 to PCP.
failover ==
    /\ requested
    /\ requested' = FALSE
    /\ wakeup' = TRUE
    /\ kill_children
    /\ UNCHANGED <<counterVars, clientVars, pcp, retry, op, inRecovery,
                   usr2, events>>

\* failover() for someone else's request; it wakes PCP up just the same.
other_failover ==
    /\ "failover" \in Ops /\ Event
    /\ wakeup' = TRUE
    /\ kill_children
    /\ UNCHANGED <<counterVars, clientVars, pcp, retry, op, inRecovery,
                   requested, usr2>>

\* A failback in streaming replication: children restart when they are idle.
request_restart ==
    /\ "restart" \in Ops /\ Event
    /\ needRestart' = [c \in Children |-> TRUE]
    /\ wakeup' = TRUE
    /\ UNCHANGED <<pc, after, tmp, accepted, counterVars, clientVars,
                   histVars, pcp, retry, op, inRecovery, requested, usr2>>

\* wakeup_children: SIGUSR2 interrupts the children that are in pause().
wakeup_children ==
    /\ usr2
    /\ usr2' = FALSE
    /\ pc' = [c \in Children |-> IF pc[c] = "paused" THEN "gate" ELSE pc[c]]
    /\ UNCHANGED <<after, tmp, accepted, needRestart, counterVars,
                   clientVars, histVars, pcpVars, requested, events>>

-----------------------------------------------------------------------------
(* The PCP process.                                                        *)

PcpRest == UNCHANGED <<childVars, counterVars, clientVars>>

\* Raise InRecovery: the second stage of start_recovery, or pool_detach_node
\* and pool_promote_node with -g.
close_gate(o) ==
    /\ o \in Ops /\ o \in {"recovery", "graceful"} /\ Event
    /\ pcp = "idle"
    /\ inRecovery' = TRUE
    /\ op' = o
    /\ retry' = 0
    /\ old' = {c \in Children : pc[c] = "served"}
    /\ slipped' = {c \in Children : pc[c] \in {"accept", "up_lock", "up"}}
    /\ pcp' = "waiting"
    /\ UNCHANGED <<wakeup, requested, usr2>> /\ PcpRest

MutNobodyServed == conn_counter <= 1
NobodyConnected == conn_counter = 0

\* wait_connection_closed: poll the counter WAIT_RETRY_COUNT + 1 times.
wait_connection_closed ==
    /\ pcp = "waiting"
    /\ \/ NobodyConnected /\ pcp' = (IF op = "recovery" THEN "stage2" ELSE "request")
          /\ UNCHANGED retry
       \/ ~NobodyConnected /\ retry < WaitRetryCount
          /\ retry' = retry + 1 /\ UNCHANGED pcp
       \/ ~NobodyConnected /\ retry = WaitRetryCount
          /\ pcp' = "finish" /\ UNCHANGED retry
    /\ UNCHANGED <<op, wakeup, inRecovery, histVars, requested, usr2, events>> /\ PcpRest

\* The second stage runs on the backends: it fails, or PCP goes on to ask for
\* the failback, after it has reset pcp_wakeup_request.
second_stage ==
    /\ pcp = "stage2"
    /\ \/ pcp' = "request" /\ wakeup' = FALSE
       \/ pcp' = "finish" /\ UNCHANGED wakeup
    /\ UNCHANGED <<retry, op, inRecovery, histVars, requested, usr2, events>> /\ PcpRest

\* Recovery goes on to wait; the graceful commands still have to reset the flag.
MutResetLate == "reset"
AfterRequest == IF op = "recovery" THEN "await" ELSE "reset"

\* Signal the parent.  degenerate_backend_set and promote_backend send
\* nothing for a node that is not valid or may not fail over.
send_request ==
    /\ pcp = "request"
    /\ \/ requested' = TRUE
       \/ op = "graceful" /\ UNCHANGED requested
    /\ pcp' = AfterRequest
    /\ UNCHANGED <<retry, op, wakeup, inRecovery, histVars, usr2, events>> /\ PcpRest

\* The graceful commands reset pcp_wakeup_request only now.
reset_after_request ==
    /\ pcp = "reset"
    /\ wakeup' = FALSE
    /\ pcp' = "await"
    /\ UNCHANGED <<retry, op, inRecovery, histVars, requested, usr2, events>> /\ PcpRest

await_failover ==
    /\ pcp = "await" /\ wakeup
    /\ wakeup' = FALSE
    /\ pcp' = "finish"
    /\ UNCHANGED <<retry, op, inRecovery, histVars, requested, usr2, events>> /\ PcpRest

finish_recovery ==
    /\ pcp = "finish"
    /\ inRecovery' = FALSE
    /\ usr2' = TRUE
    /\ pcp' = "idle"
    /\ UNCHANGED <<retry, op, wakeup, histVars, requested, events>> /\ PcpRest

-----------------------------------------------------------------------------
ChildStep(c) == \/ loop_top(c) \/ do_select(c) \/ gate(c) \/ pause(c)
                \/ do_accept(c) \/ count_lock(c) \/ connection_count_up(c)
                \/ connection_count_down(c) \/ fork_a_child(c)

SessionEnds(c) == \/ session_ends(c) \/ early_failure(c) \/ lost_count(c)
                  \/ session_error(c)

PcpStep == \/ wait_connection_closed \/ second_stage \/ send_request
           \/ reset_after_request \/ await_failover \/ finish_recovery

ParentStep == failover \/ wakeup_children

Idle == (\A c \in Children : pc[c] \in {"select", "paused"}) /\ UNCHANGED vars

Next == \/ client_arrives
        \/ \E c \in Children : ChildStep(c) \/ SessionEnds(c)
        \/ PcpStep \/ ParentStep \/ other_failover \/ request_restart
        \/ \E o \in {"recovery", "graceful"} : close_gate(o)
        \/ Idle

Spec == Init /\ [][Next]_vars

\* Processes run; clients may stay connected for ever, and nobody has to
\* issue a command.
Fairness == /\ \A c \in Children : WF_vars(ChildStep(c))
            /\ WF_vars(PcpStep) /\ WF_vars(failover) /\ WF_vars(wakeup_children)
FairSpec == Spec /\ Fairness

-----------------------------------------------------------------------------
(* Properties.                                                             *)

\* Types of all variables.
TypeOK ==
    /\ inRecovery \in BOOLEAN
    /\ conn_counter \in Nat
    /\ counterSem \in Children \cup {NoOne}
    /\ pc \in [Children -> ChildStates]
    /\ after \in [Children -> {"top", "gone"}]
    /\ tmp \in [Children -> Nat]
    /\ accepted \in [Children -> BOOLEAN]
    /\ needRestart \in [Children -> BOOLEAN]
    /\ old \subseteq Children /\ slipped \subseteq Children
    /\ pcp \in {"idle", "waiting", "stage2", "request", "reset", "await", "finish"}
    /\ retry \in 0 .. WaitRetryCount
    /\ op \in {"recovery", "graceful"}
    /\ requested \in BOOLEAN /\ wakeup \in BOOLEAN /\ usr2 \in BOOLEAN
    /\ backlog \in 0 .. MaxClients
    /\ arrived \in 0 .. MaxClients
    /\ events \in 0 .. MaxEvents

\* The children that conn_counter should be counting.
Counting == {c \in Children : pc[c] \in {"served", "down_lock", "down"}}

\* The counter is never smaller than the number of clients being served.
NeverCountedTooFew ==
    conn_counter >= Cardinality({c \in Children : pc[c] = "served"})

\* The clients that are connected when the second stage runs came in through
\* one window: their child had passed the test of InRecovery before the flag
\* was raised, and had not counted them yet (it may even have accepted them
\* after that).  Every client that was counted then has left, and no child
\* admits another one, neither the children that were idle nor those whose
\* session ends meanwhile.
OnlyWindowClients ==
    pcp = "stage2" =>
        \A c \in Children : pc[c] \in {"up_lock", "up", "served"} => c \in slipped

\* pgpool never stays closed: InRecovery, once raised, is lowered again,
\* even if clients never leave.
GateReopens == inRecovery ~> ~inRecovery

-----------------------------------------------------------------------------
(* Stated for the record: the code does not have the following properties; *)
(* see "Known deviations" in the README.                                   *)

\* While the second stage runs no child serves a client.
NoClientInSecondStage ==
    pcp = "stage2" => \A c \in Children : pc[c] # "served"

\* The counter never counts a client that is not there.
NeverCountedTooMany == conn_counter <= Cardinality(Counting)

\* A child that pauses is woken up once the recovery is over.
ChildrenNotified ==
    \A c \in Children : pc[c] = "paused" /\ ~inRecovery ~> pc[c] # "paused"

\* A child that got SIGQUIT, or exits by itself, is eventually gone.
QuitIsImmediate ==
    \A c \in Children :
        pc[c] \in {"down_lock", "down", "stuck"} /\ after[c] = "gone"
            ~> pc[c] = "gone"
=============================================================================
