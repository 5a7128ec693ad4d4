------------------------------ MODULE Failover ------------------------------
(***************************************************************************)
(* How pgpool-II takes backend nodes in and out of service.  The parent    *)
(* process (main.c) owns the decision; children, the PCP process and the   *)
(* parent's own health check ask for it through ONE shared mailbox,        *)
(* Req_info (a request kind and an array of node ids), and SIGUSR1.        *)
(*                                                                         *)
(* What the code serialises with REQUEST_INFO_SEM is one step here, cut    *)
(* where an unlocked writer can come in between: send_failback_request,    *)
(* start_recovery, DROP DATABASE and the health check all write Req_info   *)
(* without taking the semaphore.                                           *)
(***************************************************************************)
EXTENDS Integers, Sequences, FiniteSets

CONSTANTS
    N,              \* number of configured backends
    Mode,           \* "raw", "replication" or "stream"
    Disallow,       \* nodes flagged DISALLOW_TO_FAILOVER
    FollowMaster,   \* is follow_master_command configured?
    HealthCheck,    \* is health_check_period > 0?
    RecoveryTimeout,\* tries of find_primary_node_repeatedly
    Children,       \* slots of process_info
    Pcp, Main, NoOne,
    Ops,            \* the requests this instance issues
    MaxRequests     \* bound: requests and backend failures per behaviour

Nodes == 0 .. (N - 1)
NoNode == -1
NodeOrNone == Nodes \cup {NoNode}
Slots == 1 .. N                     \* slot i is Req_info->node_id[i - 1]
Requesters == Children \cup {Pcp}
Stream == Mode = "stream"
AllOps == {"detach", "attach", "promote", "recovery", "close_idle", "connect"}

ASSUME NAssumption == N \in Nat \ {0}
ASSUME ModeAssumption == Mode \in {"raw", "replication", "stream"}
ASSUME FlagAssumption == /\ Disallow \subseteq Nodes
                         /\ FollowMaster \in BOOLEAN
                         /\ HealthCheck \in BOOLEAN
ASSUME BoundAssumption == /\ RecoveryTimeout \in Nat
                          /\ MaxRequests \in Nat
ASSUME ProcessAssumption == /\ Main \notin Requesters
                            /\ NoOne \notin Requesters
                            /\ Main # NoOne
                            /\ Pcp \notin Children
ASSUME OpsAssumption == Ops \subseteq AllOps

VARIABLES
    alive,      \* external: does the backend's postmaster answer?
    status,     \* BACKEND_INFO(n).backend_status, shared memory
    kind,       \* Req_info->kind
    nodeId,     \* Req_info->node_id[]
    master,     \* Req_info->master_node_id
    primary,    \* Req_info->primary_node_id
    sem,        \* holder of REQUEST_INFO_SEM
    sig,        \* SIGUSR1 pending at the parent, or failover_request set
    switching,  \* the parent's switching flag
    pcM,        \* where the parent is
    fo,         \* the locals of failover()
    pc,         \* where each requester is
    req,        \* the node set it is reporting
    private,    \* private_backend_status of each child
    restart,    \* process_info[c].need_to_restart
    wakeup,     \* pcp_wakeup_request: the parent's SIGUSR2 reached PCP
    asked,      \* history: nodes with an accepted request to go down
    followed,   \* history: nodes degenerated because the primary changed
    reqs        \* requests and failures so far (bounded by MaxRequests)

shared == <<status, kind, nodeId, master, primary, sem, sig>>
parent == <<switching, pcM, fo>>
procs == <<pc, req, private, restart, wakeup>>
history == <<asked, followed>>
vars == <<alive, shared, parent, procs, history, reqs>>

-----------------------------------------------------------------------------
(* Node states.                                                            *)

Statuses == {"CON_UP", "CON_CONNECT_WAIT", "CON_DOWN"}
LiveStatus == {"CON_UP", "CON_CONNECT_WAIT"}
Kinds == {"UP", "DOWN", "RECOVERY", "CLOSE_IDLE", "PROMOTE"}

\* VALID_BACKEND as process view v sees it: in raw mode only the master is
\* valid, whatever its status; otherwise the status copy decides.
ValidIn(v, n) == IF Mode = "raw" THEN n = master ELSE v[n] \in LiveStatus

\* A child consults its private copy, PCP and the parent the shared one.
View(r) == IF r = Pcp THEN status ELSE private[r]
Valid(n) == ValidIn(status, n)
Usable(n) == n # NoNode /\ Valid(n)

\* get_next_master_node: the first usable node, or -1.
Candidates(st) == {n \in Nodes : IF Mode = "raw" THEN st[n] = "CON_CONNECT_WAIT"
                                                 ELSE st[n] \in LiveStatus}
get_next_master_node(st) ==
    LET first == {n \in Candidates(st) : \A m \in Candidates(st) : n <= m}
    IN  IF first = {} THEN NoNode ELSE CHOOSE n \in first : TRUE

\* PRIMARY_NODE_ID
PrimaryNodeId == IF primary = NoNode THEN master ELSE primary

\* find_primary_node probes the valid nodes in order and gives up (-1) at the
\* first one that does not answer; which node is not a standby is external.
PrimaryFound(r) ==
    \/ r = NoNode
    \/ /\ r \in Nodes /\ Valid(r)
       /\ \A n \in Nodes : n <= r /\ Valid(n) => alive[n]

NoLocals == [node |-> NoNode, down |-> {}, newMaster |-> NoNode,
             newPrimary |-> NoNode, killed |-> FALSE, sec |-> 0]

Init ==
    /\ alive = [n \in Nodes |-> TRUE]
    /\ status \in [Nodes -> {"CON_CONNECT_WAIT", "CON_DOWN"}]
    /\ \E n \in Nodes : status[n] = "CON_CONNECT_WAIT"
    /\ kind = "UP"
    /\ nodeId = [i \in Slots |-> NoNode]
    /\ master = get_next_master_node(status)
    /\ primary \in IF Stream THEN {r \in NodeOrNone : PrimaryFound(r)} ELSE {NoNode}
    /\ sem = NoOne
    /\ sig = FALSE
    /\ switching = FALSE
    /\ pcM = "loop"
    /\ fo = NoLocals
    /\ pc = [r \in Requesters |-> "run"]
    /\ req = [r \in Requesters |-> << >>]
    /\ private = [c \in Children |-> status]
    /\ restart = [c \in Children |-> FALSE]
    /\ wakeup = FALSE
    /\ asked = {n \in Nodes : status[n] = "CON_DOWN"}
    /\ followed = {}
    /\ reqs = 0

\* pool_semaphore_lock(REQUEST_INFO_SEM) returns.
MutLockIgnored == TRUE
LockFree == sem = NoOne

Goes(r, l) == pc' = [pc EXCEPT ![r] = l]
Spend == reqs < MaxRequests /\ reqs' = reqs + 1

-----------------------------------------------------------------------------
(* Environment: backends stop and start.                                   *)

BackendChanges(n) ==
    /\ Spend
    /\ alive' = [alive EXCEPT ![n] = ~@]
    /\ UNCHANGED <<shared, parent, procs, history>>

-----------------------------------------------------------------------------
(* Requests.                                                               *)

\* What one call of degenerate_backend_set reports: notice_backend_error gives
\* one node; a disagreement among the replies of the nodes, or about the number
\* of rows they affected, gives the nodes of the minority in ascending order.
Reports == {s \in UNION {[1 .. k -> Nodes] : k \in 1 .. N} :
               \A i, j \in DOMAIN s : i < j => s[i] < s[j]}

\* degenerate_backend_set: take the semaphore and overwrite the kind, before
\* any of the reported nodes is looked at.
degenerate_lock(r, s) ==
    /\ "detach" \in Ops /\ Spend
    /\ pc[r] = "run" /\ (r = Pcp => Len(s) = 1)
    /\ LockFree
    /\ sem' = r
    /\ kind' = "DOWN"
    /\ req' = [req EXCEPT ![r] = s]
    /\ Goes(r, "report")
    /\ UNCHANGED <<alive, status, nodeId, master, primary, sig, parent,
                   private, restart, wakeup, history>>

\* The nodes of the report that pass the checks, by slot.
MutDisallowUnchecked(r) == {i \in DOMAIN req[r] \cap Slots :
                               ValidIn(View(r), req[r][i])}
AcceptedSlots(r) == {i \in DOMAIN req[r] \cap Slots :
                        ValidIn(View(r), req[r][i]) /\ req[r][i] \notin Disallow}

\* ... then record the valid, allowed ones in their slots, signal the parent
\* if there was one, and release.  A child mostly exits afterwards, but goes
\* on after an administrative shutdown of the backend.
degenerate_set(r) ==
    /\ pc[r] = "report"
    /\ nodeId' = [i \in Slots |-> IF i \in AcceptedSlots(r) THEN req[r][i] ELSE nodeId[i]]
    /\ asked' = asked \cup {req[r][i] : i \in AcceptedSlots(r)}
    /\ sig' = (sig \/ AcceptedSlots(r) # {})
    /\ sem' = NoOne
    /\ req' = [req EXCEPT ![r] = << >>]
    /\ \E l \in {"run", "exited"} : (r = Pcp => l = "run") /\ Goes(r, l)
    /\ UNCHANGED <<alive, status, kind, master, primary, parent, private,
                   restart, wakeup, followed, reqs>>

\* send_failback_request writes kind and node_id[0] with no semaphore, and
\* only then checks; in raw mode a live master is refused, unsignalled.
failback_kind(n) ==
    /\ "attach" \in Ops /\ Spend
    /\ pc[Pcp] = "run"
    /\ kind' = "UP"
    /\ req' = [req EXCEPT ![Pcp] = <<n>>]
    /\ Goes(Pcp, "failback")
    /\ UNCHANGED <<alive, status, nodeId, master, primary, sem, sig, parent,
                   private, restart, wakeup, history>>

failback_node ==
    /\ pc[Pcp] \in {"failback", "failback_recovered"}
    /\ nodeId' = [nodeId EXCEPT ![1] = req[Pcp][1]]
    /\ LET alreadyUp == /\ Mode = "raw"
                        /\ status[req[Pcp][1]] # "CON_DOWN"
                        /\ Valid(req[Pcp][1])
       IN  sig' = (sig \/ ~alreadyUp)
    /\ req' = [req EXCEPT ![Pcp] = << >>]
    /\ Goes(Pcp, IF pc[Pcp] = "failback" THEN "run" ELSE "await")
    /\ UNCHANGED <<alive, status, kind, master, primary, sem, parent,
                   private, restart, wakeup, history, reqs>>

\* start_recovery marks the mailbox for the length of the recovery, unlocked;
\* it ends in send_failback_request for the node and a wait for the parent's
\* SIGUSR2 (or the recovery fails).
recovery_begin(n) ==
    /\ "recovery" \in Ops /\ Spend
    /\ Mode = "replication" \/ (Stream /\ n # PrimaryNodeId)
    /\ pc[Pcp] = "run"
    /\ ~Valid(n)
    /\ kind' = "RECOVERY"
    /\ req' = [req EXCEPT ![Pcp] = <<n>>]
    /\ Goes(Pcp, "recovery")
    /\ UNCHANGED <<alive, status, nodeId, master, primary, sem, sig, parent,
                   private, restart, wakeup, history>>

recovery_end ==
    /\ pc[Pcp] = "recovery"
    /\ \/ /\ wakeup' = FALSE /\ kind' = "UP"
          /\ Goes(Pcp, "failback_recovered") /\ UNCHANGED req
       \/ /\ req' = [req EXCEPT ![Pcp] = << >>]
          /\ Goes(Pcp, "run") /\ UNCHANGED <<wakeup, kind>>
    /\ UNCHANGED <<alive, status, nodeId, master, primary, sem, sig, parent,
                   private, restart, history, reqs>>

recovery_awaits ==
    /\ pc[Pcp] = "await" /\ wakeup
    /\ wakeup' = FALSE
    /\ Goes(Pcp, "run")
    /\ UNCHANGED <<alive, shared, parent, req, private, restart, history, reqs>>

\* promote_backend: stream mode only; the node is checked before the lock.
promote_check(n) ==
    /\ "promote" \in Ops /\ Spend
    /\ Stream /\ n # PrimaryNodeId
    /\ pc[Pcp] = "run"
    /\ Valid(n)
    /\ req' = [req EXCEPT ![Pcp] = <<n>>]
    /\ Goes(Pcp, "promote")
    /\ UNCHANGED <<alive, shared, parent, private, restart, wakeup, history>>

promote_set ==
    /\ pc[Pcp] = "promote"
    /\ LockFree
    /\ kind' = "PROMOTE"
    /\ nodeId' = [nodeId EXCEPT ![1] = req[Pcp][1]]
    /\ sig' = TRUE
    /\ req' = [req EXCEPT ![Pcp] = << >>]
    /\ Goes(Pcp, "run")
    /\ UNCHANGED <<alive, status, master, primary, sem, parent, private,
                   restart, wakeup, history, reqs>>

\* DROP DATABASE asks the parent to have idle connections closed.
close_idle_request(c) ==
    /\ "close_idle" \in Ops /\ Spend
    /\ pc[c] = "run"
    /\ kind' = "CLOSE_IDLE"
    /\ sig' = TRUE
    /\ UNCHANGED <<alive, status, nodeId, master, primary, sem, parent, procs,
                   history>>

-----------------------------------------------------------------------------
(* Children otherwise.                                                     *)

\* new_connection: a node that is valid in the child's own copy and accepts
\* the connection has its shared status set to CON_UP.
new_connection(c, n) ==
    /\ "connect" \in Ops
    /\ pc[c] = "run"
    /\ ValidIn(private[c], n) /\ alive[n]
    /\ status[n] # "CON_UP"
    /\ status' = [status EXCEPT ![n] = "CON_UP"]
    /\ UNCHANGED <<alive, kind, nodeId, master, primary, sem, sig, parent,
                   procs, history, reqs>>

\* need_to_restart: an idle child exits, one with a new session reloads its
\* private status instead.
honour_restart(c) ==
    /\ pc[c] = "run" /\ restart[c]
    /\ restart' = [restart EXCEPT ![c] = FALSE]
    /\ \/ Goes(c, "exited") /\ UNCHANGED private
       \/ private' = [private EXCEPT ![c] = status] /\ UNCHANGED pc
    /\ UNCHANGED <<alive, shared, parent, req, wakeup, history, reqs>>

\* reaper() re-forks a child that exited with an error.  CHECK_REQUEST runs it
\* in the main loop and also in the middle of a failover, from the pool_sleep
\* of find_primary_node_repeatedly; there it returns because of switching.
MutReaperUnguarded == TRUE
ReaperForks == ~switching

reap(c) ==
    /\ pcM \in {"loop", "sleep"} /\ ReaperForks
    /\ pc[c] = "exited"
    /\ Goes(c, "run")
    /\ private' = [private EXCEPT ![c] = status]
    /\ UNCHANGED <<alive, shared, parent, req, restart, wakeup, history, reqs>>

-----------------------------------------------------------------------------
(* The parent.                                                             *)

\* CHECK_REQUEST with failover_request set.
check_request ==
    /\ pcM = "loop" /\ sig
    /\ sig' = FALSE
    /\ pcM' = "lock"
    /\ UNCHANGED <<alive, status, kind, nodeId, master, primary, sem,
                   switching, fo, procs, history, reqs>>

\* health_check returns the first node that is not down and does not answer.
MutUntriedNodesSkipped == {n \in Nodes : status[n] = "CON_UP" /\ ~alive[n]}
Failing == {n \in Nodes : status[n] # "CON_DOWN" /\ ~alive[n]}

\* The main loop after a failed health check: nothing for a node that may not
\* fail over, else the mailbox is overwritten and failover() called.
health_check_failed ==
    /\ HealthCheck
    /\ pcM = "loop"
    /\ \E n \in Failing :
        /\ \A m \in Failing : n <= m
        /\ n \notin Disallow
        /\ kind' = "DOWN"
        /\ nodeId' = [nodeId EXCEPT ![1] = n]
        /\ asked' = asked \cup {n}
    /\ pcM' = "lock"
    /\ UNCHANGED <<alive, status, master, primary, sem, sig, switching, fo,
                   procs, followed, reqs>>

\* pool_pause or pool_sleep timed out with nothing to do.
wait_timed_out ==
    /\ pcM = "loop" /\ ~sig
    /\ UNCHANGED vars

\* failover() up to its early returns: every one of them releases the
\* semaphore, wakes PCP up and leaves node_id[] as it is.
GiveUp ==
    /\ pcM' = "loop" /\ wakeup' = TRUE
    /\ UNCHANGED <<status, sem, switching, fo, asked, followed>>

Proceed(st, node, down) ==
    /\ status' = st
    /\ sem' = Main
    /\ switching' = TRUE
    /\ fo' = [NoLocals EXCEPT !.node = node, !.down = down]
    /\ pcM' = "restart"
    /\ UNCHANGED wakeup

\* NODE_UP_REQUEST.  node_id is only checked against the upper limit: for -1
\* the code reads and writes before the arrays, so the outcome is anything
\* from a crash of the parent to a failback of no node at all.
failover_up ==
    LET n == nodeId[1] IN
    \/ /\ n = NoNode
       /\ \/ pcM' = "crashed" /\ UNCHANGED <<status, sem, switching, fo, wakeup>>
          \/ GiveUp
          \/ Proceed(status, NoNode, {})
       /\ UNCHANGED <<asked, followed>>
    \/ /\ n # NoNode
       /\ Valid(n) /\ ~(Mode = "raw" /\ status[n] = "CON_DOWN")
       /\ GiveUp
    \/ /\ n # NoNode
       /\ ~Valid(n) \/ (Mode = "raw" /\ status[n] = "CON_DOWN")
       /\ Proceed([status EXCEPT ![n] = "CON_CONNECT_WAIT"], n, {})
       /\ asked' = asked \ {n} /\ followed' = followed \ {n}

failover_promote ==
    LET n == nodeId[1] IN
    \/ Usable(n) /\ Proceed(status, n, {}) /\ UNCHANGED history
    \/ ~Usable(n) /\ GiveUp

\* Any other kind degenerates every valid node found in a slot; a node that
\* two slots name is marked once, so the order of the slots is immaterial.
MutSlotNumberAsNode == {n \in Nodes : Valid(n) /\ nodeId[n + 1] # NoNode}
Victims == {n \in Nodes : Valid(n) /\ \E i \in Slots : nodeId[i] = n}

failover_down ==
    \/ /\ Victims # {}
       /\ Proceed([n \in Nodes |-> IF n \in Victims THEN "CON_DOWN" ELSE status[n]],
                  nodeId[1], Victims)
       /\ UNCHANGED history
    \/ Victims = {} /\ GiveUp

failover_begin ==
    /\ pcM = "lock"
    /\ LockFree
    /\ \/ kind = "CLOSE_IDLE" /\ GiveUp
       \/ kind = "UP" /\ failover_up
       \/ kind = "PROMOTE" /\ failover_promote
       \/ kind \in {"DOWN", "RECOVERY"} /\ failover_down
    /\ UNCHANGED <<alive, kind, nodeId, master, primary, sig, pc, req, private,
                   restart, reqs>>

\* Existing sessions survive a failback in streaming replication only.
MutSameMasterNoRestart == get_next_master_node(status) # master
RestartChildren == ~(Stream /\ kind = "UP")

\* After failback_command: choose the next master; unless this is (now) a
\* failback in streaming replication, kill every child with SIGQUIT.
failover_restart ==
    /\ pcM = "restart"
    /\ fo' = [fo EXCEPT !.newMaster = get_next_master_node(status),
                        !.killed = RestartChildren]
    /\ pc' = [r \in Requesters |->
                 IF RestartChildren /\ r \in Children THEN "exited" ELSE pc[r]]
    /\ pcM' = "primary"
    /\ UNCHANGED <<alive, shared, switching, req, private, restart, wakeup, history, reqs>>

\* A promotion names the new primary itself, if the node is (still) valid.
Promoted == kind = "PROMOTE" /\ Usable(fo.node) /\ fo.sec = 0

\* After failover_command: the promoted node, or the one that is found to be
\* the primary, or -1 once recovery_timeout tries have failed.
failover_primary ==
    /\ pcM = "primary"
    /\ \/ /\ Promoted
          /\ fo' = [fo EXCEPT !.newPrimary = fo.node] /\ pcM' = "follow"
       \/ /\ ~Promoted
          /\ ~Stream \/ fo.sec >= RecoveryTimeout
          /\ fo' = [fo EXCEPT !.newPrimary = NoNode] /\ pcM' = "follow"
       \/ /\ ~Promoted
          /\ Stream /\ fo.sec < RecoveryTimeout
          /\ \E r \in NodeOrNone :
               /\ PrimaryFound(r)
               /\ fo' = [fo EXCEPT !.newPrimary = r, !.sec = @ + 1]
               /\ pcM' = IF r = NoNode THEN "sleep" ELSE "follow"
    /\ UNCHANGED <<alive, shared, switching, procs, history, reqs>>

\* pool_sleep(1) between two tries lets signals in: a SIGUSR1 that arrives
\* now runs failover(), which returns because of switching, and
\* failover_request is cleared.
failover_sleep ==
    /\ pcM = "sleep"
    /\ pcM' = IF fo.sec >= RecoveryTimeout THEN "follow" ELSE "primary"
    /\ sig' = FALSE
    /\ wakeup' = (wakeup \/ sig)
    /\ UNCHANGED <<alive, status, kind, nodeId, master, primary, sem, switching,
                   fo, pc, req, private, restart, history, reqs>>

\* Is the old primary gone, or a new one promoted?  nodes[-1] is read when
\* no primary is known (garbage).
PrimaryChanges(garbage) ==
    \/ kind = "DOWN" /\ FollowMaster
       /\ IF primary = NoNode THEN garbage ELSE primary \in fo.down
    \/ kind = "PROMOTE" /\ Usable(fo.node)

MutPrimaryFollows == IF fo.newPrimary = NoNode THEN {} ELSE Nodes
Followers == IF fo.newPrimary = NoNode THEN {} ELSE Nodes \ {fo.newPrimary}

\* Degenerate the other standbys if the primary changed, empty the mailbox
\* and release the semaphore.
failover_follow ==
    /\ pcM = "follow"
    /\ \E garbage \in BOOLEAN :
        LET gone == IF Stream /\ PrimaryChanges(garbage) THEN Followers ELSE {}
            st == [n \in Nodes |-> IF n \in gone THEN "CON_DOWN" ELSE status[n]]
        IN  /\ status' = st
            /\ followed' = followed \cup gone
            /\ fo' = IF gone = {} THEN fo
                     ELSE [fo EXCEPT !.newMaster = get_next_master_node(st)]
    /\ nodeId' = [i \in Slots |-> NoNode]
    /\ sem' = NoOne
    /\ pcM' = "commit"
    /\ UNCHANGED <<alive, kind, master, primary, sig, switching, procs, asked, reqs>>

\* master_node_id keeps its value when no node is left.
MutMasterUnchecked == fo.newMaster
MutMasterForgotten == master
PublishedMaster == IF fo.newMaster = NoNode THEN master ELSE fo.newMaster

\* Publish the new primary and master, fork the children again or ask them
\* to restart, and wake PCP up.
failover_commit ==
    /\ pcM = "commit"
    /\ primary' = fo.newPrimary
    /\ master' = PublishedMaster
    /\ IF fo.killed
       THEN /\ pc' = [r \in Requesters |-> IF r \in Children THEN "run" ELSE pc[r]]
            /\ private' = [c \in Children |-> status]
            /\ UNCHANGED restart
       ELSE /\ restart' = [c \in Children |-> TRUE]
            /\ UNCHANGED <<pc, private>>
    /\ switching' = FALSE
    /\ wakeup' = TRUE
    /\ fo' = NoLocals
    /\ pcM' = "loop"
    /\ UNCHANGED <<alive, status, kind, nodeId, sem, sig, req, history, reqs>>

-----------------------------------------------------------------------------
MainStep == \/ check_request \/ health_check_failed
            \/ failover_begin \/ failover_restart \/ failover_primary
            \/ failover_sleep \/ failover_follow \/ failover_commit

PcpStep == \/ failback_node \/ recovery_end \/ recovery_awaits \/ promote_set
           \/ degenerate_set(Pcp)

ChildStep(c) == degenerate_set(c) \/ honour_restart(c)

Request == \/ \E r \in Requesters, s \in Reports : degenerate_lock(r, s)
           \/ \E n \in Nodes : failback_kind(n) \/ recovery_begin(n) \/ promote_check(n)
           \/ \E c \in Children : close_idle_request(c)

Next == \/ MainStep \/ PcpStep \/ Request \/ wait_timed_out
        \/ \E c \in Children : ChildStep(c) \/ reap(c)
        \/ \E c \in Children, n \in Nodes : new_connection(c, n)
        \/ \E n \in Nodes : BackendChanges(n)

Spec == Init /\ [][Next]_vars

\* Every process that is in the middle of a request finishes it; the parent
\* runs its loop for ever.  Nobody is obliged to make a request.
Fairness == /\ WF_vars(MainStep) /\ WF_vars(PcpStep)
            /\ \A c \in Children : WF_vars(ChildStep(c) \/ reap(c))
FairSpec == Spec /\ Fairness

-----------------------------------------------------------------------------
(* Properties.                                                             *)

Locals == [node : NodeOrNone, down : SUBSET Nodes, newMaster : NodeOrNone,
           newPrimary : NodeOrNone, killed : BOOLEAN, sec : Nat]
RequesterStates == {"run", "report", "exited", "failback", "failback_recovered",
                    "recovery", "await", "promote"}
MainStates == {"loop", "lock", "restart", "primary", "sleep", "follow",
               "commit", "crashed"}

\* Every variable keeps its type: in particular node_id[] and the master and
\* primary never name a node that is not configured.
TypeOK ==
    /\ alive \in [Nodes -> BOOLEAN]
    /\ status \in [Nodes -> Statuses]
    /\ kind \in Kinds
    /\ nodeId \in [Slots -> NodeOrNone]
    /\ master \in Nodes
    /\ primary \in NodeOrNone
    /\ sem \in Requesters \cup {Main, NoOne}
    /\ sig \in BOOLEAN
    /\ switching \in BOOLEAN
    /\ pcM \in MainStates
    /\ fo \in Locals
    /\ pc \in [Requesters -> RequesterStates]
    /\ req \in [Requesters -> Seq(Nodes)]
    /\ private \in [Children -> [Nodes -> Statuses]]
    /\ restart \in [Children -> BOOLEAN]
    /\ wakeup \in BOOLEAN
    /\ asked \in SUBSET Nodes
    /\ followed \in SUBSET Nodes
    /\ reqs \in 0 .. MaxRequests

Critical == {"restart", "primary", "sleep", "follow"}

\* REQUEST_INFO_SEM is a System V semaphore without undo: if its holder died,
\* pgpool could never fail over again.  Whoever holds it is a live process
\* inside its critical section (failover() sends SIGQUIT to the children only
\* while it holds the semaphore itself), and nobody is inside without it.
SemaphoreNeverLost ==
    /\ sem = Main <=> pcM \in Critical
    /\ \A r \in Requesters : sem = r <=> pc[r] = "report"

\* failover() forks a child into EVERY slot at its end.  If one of the slots
\* had been filled again since the children were killed, the pid of that child
\* would be overwritten and the process would run on unknown to the parent,
\* deaf to every later failover.
SlotsEmptyWhileSwitching == fo.killed => \A c \in Children : pc[c] = "exited"

\* A node is out of service only if a detach, an error report or the health
\* check named THAT node and was accepted since the node last came up, or
\* because the primary changed.  (Instances in which PCP also attaches,
\* promotes or recovers nodes are the subject of AttachNeverDetaches.)
DownOnlyByRequest ==
    Ops \cap {"attach", "promote", "recovery"} = {} =>
        \A n \in Nodes : status[n] = "CON_DOWN" => n \in asked \cup followed

\* Between failovers no child keeps using a node that is out of service:
\* whoever took the node down killed every child that could still hold a
\* connection to it.
NoStaleChild ==
    pcM = "loop" =>
        \A c \in Children, n \in Nodes :
            pc[c] = "run" /\ private[c][n] \in LiveStatus
                => status[n] # "CON_DOWN"

\* Between failovers the master is a live node whenever there is one.
MasterAlive ==
    pcM = "loop" /\ (\E n \in Nodes : status[n] # "CON_DOWN")
        => status[master] # "CON_DOWN"

\* Between failovers the primary of streaming replication is in service or
\* unknown, however requests, promotions and failures interleave.
PrimaryAlive ==
    pcM = "loop" /\ primary # NoNode => status[primary] # "CON_DOWN"

\* A request to attach a node never takes a node out of service.
AttachNeverDetaches ==
    \A n \in Nodes : status[n] = "CON_DOWN" => n \in asked \cup followed

\* A node flagged DISALLOW_TO_FAILOVER that is in service stays in service.
DisallowRespected ==
    [][\A n \in Disallow : status[n] # "CON_DOWN" => status'[n] # "CON_DOWN"]_vars

\* With the health check on, a backend that stays dead and may fail over is
\* eventually out of service for good, whoever else is making requests.
DeadIsDetected ==
    \A n \in Nodes \ Disallow :
        <>[](~alive[n]) => <>[](status[n] = "CON_DOWN")

-----------------------------------------------------------------------------
(* Stated for the record: the code does not have the following properties; *)
(* see "Known deviations" in the README.                                   *)

\* Only a failback puts a node back into service.
DownUntilFailback ==
    [][\A n \in Nodes : status[n] = "CON_DOWN" /\ status'[n] # "CON_DOWN"
            => kind = "UP" /\ pcM = "lock"]_vars

\* failover() never runs with a node id outside the arrays.
NoOutOfRangeNode == pcM # "crashed"

\* An accepted detach takes effect.
DetachHonoured == \A n \in Nodes : n \in asked ~> status[n] = "CON_DOWN"
=============================================================================
