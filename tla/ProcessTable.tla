---------------------------- MODULE ProcessTable ----------------------------
(***************************************************************************)
(* The processes of pgpool-II: the parent forks num_init_children          *)
(* children, the PCP process and the worker, reaps them when they exit,    *)
(* kills and re-forks the children in a failover and stops everything on a *)
(* shutdown signal.  A process that was just forked still has the PARENT's *)
(* signal handlers, with signals unblocked, until it installs its own.     *)
(* A child that is told to exit may run on for a while: its handler counts *)
(* the client out under CONN_COUNTER_SEM, and inside a COMMIT of several   *)
(* nodes signals are blocked.  Which node fails over, and why, is the      *)
(* subject of Failover, the value of the counter that of ConnectionGate.   *)
(***************************************************************************)
EXTENDS Integers, FiniteSets

CONSTANTS
    Slots,      \* entries of process_info
    Specials,   \* the PCP process and the worker, or one of them
    Pids, NoPid,\* bound: process ids in use at the same time
    LifeTime,   \* is child_life_time > 0?
    StopSigs,   \* "SIGTERM" (smart), "SIGINT" (fast)
    Ops         \* what happens in this instance

Roles == Slots \cup Specials
AllOps == {"session", "failover", "special_exits", "shutdown"}

ASSUME TableAssumption ==
    /\ IsFiniteSet(Pids) /\ IsFiniteSet(Slots)
    /\ Slots # {}       \* pool_config.l: num_init_children > 0
    /\ Cardinality(Pids) >= Cardinality(Roles)
    /\ NoPid \notin Pids
    /\ Specials \subseteq {"pcp", "worker"} /\ Slots \cap Specials = {}
    /\ LifeTime \in BOOLEAN /\ StopSigs \subseteq {"SIGTERM", "SIGINT"}
    /\ Ops \subseteq AllOps

VARIABLES
    proc,       \* every process: its state and, while it runs, what it knows
    table,      \* process_info[].pid, pcp_pid and worker_pid
    sigchld,    \* sigchld_request, or SIGCHLD pending
    switching, exiting,
    pcM,        \* where the parent is
    sems,       \* does the semaphore set exist?
    counterSem  \* CONN_COUNTER_SEM: "lost" if its holder ended with it, or
                \* waits for it a second time

vars == <<proc, table, sigchld, switching, exiting, pcM, sems, counterSem>>

Running == {"starting", "top", "ready", "select", "up_lock", "up", "busy", "commit",
            "down_lock", "down"}
Dead == {"exit0", "exit1"}          \* zombies, by exit status
Live(p) == proc[p].st \in Running
Free == {p \in Pids : proc[p].st = "free"}
Zombies == {p \in Pids : proc[p].st \in Dead}
IsChild(p) == proc[p].role \in Slots

\* A process just forked for role r: exit_request (SIGTERM) is clear, its
\* select(2) has a timeout if child_life_time is set, no client was accepted
\* or served.  then: where it goes after connection_count_down; pending: a
\* SIGQUIT or SIGINT waits for the signals to be unblocked.
New(r) == [st |-> "starting", role |-> r, exitReq |-> FALSE,
           timed |-> LifeTime, connected |-> FALSE, accepted |-> FALSE,
           then |-> "top", pending |-> FALSE]

\* One that runs no more.
Ended(s) == [New(CHOOSE r \in Roles : TRUE) EXCEPT !.st = s]

\* fork(): an injective assignment of free pids to the roles in R.
Forks(R, free) == {f \in [R -> free] : \A a, b \in R : f[a] = f[b] => a = b}
SomeFork(R, free) == CHOOSE f \in Forks(R, free) : TRUE
Forked(f) == {f[r] : r \in DOMAIN f}
RoleOf(f, p) == CHOOSE r \in DOMAIN f : f[r] = p

Init ==
    LET f == SomeFork(Roles, Pids) IN
    /\ table = f
    /\ proc = [p \in Pids |-> IF p \in Forked(f)
                               THEN [New(RoleOf(f, p)) EXCEPT !.st = "top"]
                               ELSE Ended("free")]
    /\ sigchld = FALSE /\ switching = FALSE /\ exiting = FALSE
    /\ pcM = "loop"
    /\ sems = TRUE /\ counterSem = "free"

-----------------------------------------------------------------------------
(* Children.                                                               *)

At(p, s) == proc[p].st = s
Becomes(p, q) == proc' = [proc EXCEPT ![p] = q] /\ UNCHANGED sigchld
Goes(p, s) == Becomes(p, [proc[p] EXCEPT !.st = s])
Exits(p, s) == proc' = [proc EXCEPT ![p] = Ended(s)] /\ sigchld' = TRUE
Quiet == UNCHANGED <<table, switching, exiting, pcM, sems>>
Rest == Quiet /\ UNCHANGED counterSem

\* child_exit(): counts down if a client had been accepted.
CountsDown(p, s) == [proc[p] EXCEPT !.st = "down_lock", !.then = s]
child_exit(p, s) == IF proc[p].accepted THEN Becomes(p, CountsDown(p, s)) ELSE Exits(p, s)

\* do_child, pcp_do_child, do_worker_child: install the signal handlers.
starts(p) == At(p, "starting") /\ Goes(p, "top") /\ Rest

\* check_stop_request at the top of the accept loop; accepted is cleared only
\* after it.
check_stop_request(p) ==
    /\ At(p, "top") /\ IsChild(p)
    /\ \/ proc[p].exitReq /\ child_exit(p, "exit0")
       \/ /\ ~proc[p].exitReq
          /\ Becomes(p, [proc[p] EXCEPT !.st = "ready", !.accepted = FALSE])
    /\ Rest

\* do_accept: go to sleep in select(2).
do_accept(p) == At(p, "ready") /\ Goes(p, "select") /\ Rest

\* select(2) times out: a child that has served clients exits (child_life_time);
\* any other goes on, from now on without a timeout.
select_timeout(p) ==
    /\ At(p, "select") /\ proc[p].timed
    /\ \/ proc[p].connected /\ Exits(p, "exit1")
       \/ /\ ~proc[p].connected
          /\ Becomes(p, [proc[p] EXCEPT !.st = "top", !.timed = FALSE])
    /\ Rest

\* A client is accepted and has to be counted.
session_begins(p) ==
    /\ "session" \in Ops
    /\ At(p, "select") /\ Goes(p, "up_lock") /\ Rest

\* pool_semaphore_lock(CONN_COUNTER_SEM), which just fails once the semaphores
\* are gone.
count_lock(p) ==
    /\ proc[p].st \in {"up_lock", "down_lock"}
    /\ counterSem = "free" \/ ~sems
    /\ counterSem' = "held"
    /\ Goes(p, IF At(p, "up_lock") THEN "up" ELSE "down")
    /\ Quiet

\* The end of connection_count_up; do_accept then sets accepted.
connection_count_up(p) ==
    /\ At(p, "up")
    /\ counterSem' = "free"
    /\ Becomes(p, [proc[p] EXCEPT !.st = "busy", !.accepted = TRUE])
    /\ Quiet

\* The end of connection_count_down.
connection_count_down(p) ==
    /\ At(p, "down")
    /\ counterSem' = "free"
    /\ IF proc[p].then = "top" THEN Goes(p, "top") ELSE Exits(p, proc[p].then)
    /\ Quiet

\* The client leaves: accepted is cleared before the count down, after which
\* the child may have had its child_max_connections.  Or there was no session
\* (a bad startup packet): accepted stays set, and a session that fails to
\* start on a pooled connection is not counted down.  Or POOL_ERROR.
session_ends(p) ==
    /\ At(p, "busy")
    /\ \/ \E s \in {"top", "exit1"} :
             Becomes(p, [CountsDown(p, s) EXCEPT !.accepted = FALSE, !.connected = TRUE,
                                                 !.timed = LifeTime])
       \/ Becomes(p, CountsDown(p, "top"))
       \/ Goes(p, "top")
       \/ child_exit(p, "exit1")
    /\ Rest

\* end_internal_transaction sends its COMMITs with all signals blocked; a
\* signal that came meanwhile is handled when they are unblocked.
commit_begins(p) == At(p, "busy") /\ Goes(p, "commit") /\ Rest

commit_ends(p) ==
    /\ At(p, "commit")
    /\ \/ proc[p].pending /\ child_exit(p, "exit0")
       \/ ~proc[p].pending /\ Goes(p, "busy")
    /\ Rest

\* The PCP process or the worker dies.
special_exits(p) ==
    /\ "special_exits" \in Ops
    /\ At(p, "top") /\ ~IsChild(p) /\ Exits(p, "exit1") /\ Rest

-----------------------------------------------------------------------------
(* Signals.                                                                *)

\* A signal that arrives before the handlers are installed runs the parent's
\* exit_handler in the child, which calls pool_shmem_exit.
NoneStarting(S) == \A p \in S : ~At(p, "starting")

\* SIGQUIT or SIGINT: die() calls child_exit(0), wherever the process is; it
\* may be inside the very section of CONN_COUNTER_SEM that child_exit needs.
Killed(p) ==
    CASE At(p, "commit") -> [proc[p] EXCEPT !.pending = TRUE]
      [] ~At(p, "commit") /\ proc[p].accepted -> CountsDown(p, "exit0")
      [] ~At(p, "commit") /\ ~proc[p].accepted -> Ended("exit0")

KilledBy(S) ==
    /\ proc' = [p \in Pids |-> IF p \in S /\ Live(p) THEN Killed(p) ELSE proc[p]]
    /\ counterSem' = IF \E p \in S : proc[p].st \in {"up", "down"} THEN "lost"
                                                                 ELSE counterSem

\* SIGTERM: children only take note; one that is in select(2) is interrupted
\* and goes round its loop.
TermedBy(S) == [p \in Pids |->
    IF p \notin S \/ ~Live(p) THEN proc[p]
    ELSE IF At(p, "starting") \/ ~IsChild(p) THEN Ended("exit0")
    ELSE [proc[p] EXCEPT !.exitReq = TRUE, !.st = IF @ = "select" THEN "top" ELSE @]]

-----------------------------------------------------------------------------
(* The parent.                                                             *)

\* failover: SIGQUIT to all children, and fork a new one for every slot once
\* the failover command and the search for the primary are done.
failover_kill ==
    LET S == {table[s] : s \in Slots} IN
    /\ "failover" \in Ops
    /\ pcM = "loop"
    /\ Cardinality(Free) >= Cardinality(Slots)
    /\ switching' = TRUE
    /\ KilledBy(S)
    /\ sems' = (sems /\ NoneStarting(S))
    /\ sigchld' = (sigchld \/ \E p \in S : Live(p) /\ Killed(p).st = "exit0")
    /\ pcM' = "failover"
    /\ UNCHANGED <<table, exiting>>

failover_fork ==
    LET f == SomeFork(Slots, Free) IN
    /\ pcM = "failover"
    /\ table' = [r \in Roles |-> IF r \in Slots THEN f[r] ELSE table[r]]
    /\ proc' = [p \in Pids |-> IF p \in Forked(f) THEN New(RoleOf(f, p)) ELSE proc[p]]
    /\ switching' = FALSE
    /\ pcM' = "loop"
    /\ UNCHANGED <<sigchld, exiting, sems, counterSem>>

\* reaper: waitpid until nobody is left, or the PCP process or the worker
\* turned up, where the loop breaks.
MutReapsOne == {{p} : p \in Zombies}
Reapable ==
    LET S == {table[r] : r \in Specials} IN
    IF Zombies \cap S = {} THEN {Zombies}
    ELSE {R \in SUBSET Zombies : Cardinality(R \cap S) = 1}

\* A process is replaced if it is the one the table names; children and the
\* worker only if their exit status is not zero.
Replaced(R) == {r \in Roles : table[r] \in R /\ (At(table[r], "exit1") \/ r = "pcp")}

\* The table entries of the processes that were reaped.
MutClearedOnly(R, f) == [r \in Roles |-> IF table[r] \in R THEN NoPid ELSE table[r]]
TableAfter(R, f) == [r \in Roles |-> IF r \in DOMAIN f THEN f[r] ELSE table[r]]

MutReaperUnguarded == TRUE
ReaperForks == ~switching

reaper ==
    /\ pcM \in {"loop", "failover"} /\ sigchld /\ ReaperForks
    /\ sigchld' = FALSE
    /\ \E R \in Reapable :
         LET f == SomeFork(Replaced(R), Free \cup R) IN
         /\ table' = TableAfter(R, f)
         /\ proc' = [p \in Pids |-> IF p \in Forked(f) THEN New(RoleOf(f, p))
                                    ELSE IF p \in R THEN Ended("free") ELSE proc[p]]
    /\ UNCHANGED <<switching, exiting, pcM, sems, counterSem>>

Signalled == {table[r] : r \in Roles}

exit_handler ==
    /\ "shutdown" \in Ops
    /\ pcM = "loop"
    /\ exiting' = TRUE
    /\ \/ "SIGTERM" \in StopSigs /\ proc' = TermedBy(Signalled) /\ UNCHANGED counterSem
       \/ "SIGINT" \in StopSigs /\ KilledBy(Signalled)
    /\ sems' = (sems /\ NoneStarting(Signalled))
    /\ sigchld' = TRUE
    /\ pcM' = "waiting"
    /\ UNCHANGED <<table, switching>>

\* while (wait(NULL) > 0): the end of the last process ends pgpool.
wait_all ==
    /\ pcM = "waiting"
    /\ \A p \in Pids : ~Live(p)
    /\ pcM' = "gone"
    /\ proc' = [p \in Pids |-> Ended("free")]
    /\ sems' = FALSE
    /\ UNCHANGED <<table, sigchld, switching, exiting, counterSem>>

ChildStep(p) == \/ starts(p) \/ check_stop_request(p) \/ do_accept(p)
                \/ select_timeout(p) \/ count_lock(p) \/ connection_count_up(p)
                \/ connection_count_down(p) \/ commit_ends(p)

Next == \/ \E p \in Pids : \/ ChildStep(p) \/ session_begins(p) \/ session_ends(p)
                           \/ commit_begins(p) \/ special_exits(p)
        \/ failover_kill \/ failover_fork \/ reaper \/ exit_handler \/ wait_all

Spec == Init /\ [][Next]_vars

\* Processes run, clients leave in the end however often they commit, and the
\* parent acts on its signals; nothing else has to happen.
Fairness == /\ \A p \in Pids : WF_vars(ChildStep(p)) /\ SF_vars(session_ends(p))
            /\ WF_vars(failover_fork) /\ WF_vars(reaper) /\ WF_vars(wait_all)
FairSpec == Spec /\ Fairness

-----------------------------------------------------------------------------
(* Properties.                                                             *)

\* Types of all variables.
TypeOK ==
    /\ proc \in [Pids -> [st : Running \cup Dead \cup {"free"}, role : Roles,
                         exitReq : BOOLEAN, timed : BOOLEAN, connected : BOOLEAN,
                         accepted : BOOLEAN, then : {"top", "exit0", "exit1"},
                         pending : BOOLEAN]]
    /\ table \in [Roles -> Pids]
    /\ sigchld \in BOOLEAN /\ switching \in BOOLEAN /\ exiting \in BOOLEAN
    /\ pcM \in {"loop", "failover", "waiting", "gone"}
    /\ sems \in BOOLEAN /\ counterSem \in {"free", "held", "lost"}

\* A process that was told to exit, and will when it has counted its client
\* out or its signals are unblocked.
Told(p) == proc[p].then = "exit0" \/ proc[p].pending

\* The parent's table names every running process under its role, but for
\* those that were told to exit: otherwise no failover and no shutdown would
\* ever reach it.
NoRunaway == \A p \in Pids : Live(p) => table[proc[p].role] = p \/ Told(p)

\* A child that exited with an error is replaced, unless pgpool shuts down.
SlotsRefilled ==
    \A s \in Slots : At(table[s], "exit1") ~> Live(table[s]) \/ exiting

\* Nobody will ever release CONN_COUNTER_SEM.
CounterLost == sems /\ counterSem = "lost"

\* SIGTERM came between check_stop_request and select(2) of an idle child.
Overslept == \E p \in Pids : At(p, "select") /\ proc[p].exitReq


-----------------------------------------------------------------------------
(* Stated for the record: the code does not have the following properties; *)
(* see "Known deviations" in the README.                                   *)

\* A shutdown ends pgpool, once the clients have left.
ShutdownAlwaysCompletes == exiting ~> pcM = "gone"

\* The parent's table names every running process: after a failover it names
\* the new children, and an old one may still be on its way out.
TableComplete == \A p \in Pids : Live(p) => table[proc[p].role] = p

\* The semaphores exist for as long as pgpool runs.
SemaphoresSurvive == sems \/ exiting
=============================================================================
