--------------------------- MODULE Failover_proofs ---------------------------
(***************************************************************************)
(* Theorems about Failover, for every number of nodes and children, every  *)
(* mode and every set of requests.  The inductive invariant of the         *)
(* semaphore is Inv: SemaphoreNeverLost alone is not inductive, because    *)
(* the end of failover() sets every child running again, which would lose  *)
(* the semaphore if one of them held it; SlotsEmptyWhileSwitching excludes *)
(* that.                                                                   *)
(***************************************************************************)
EXTENDS Failover, NumberFacts, TLAPS

\* A PCP command in progress names exactly one node.
CommandNamesNode ==
    pc[Pcp] \in {"failback", "failback_recovered", "recovery", "promote"}
        => \E n \in Nodes : req[Pcp] = <<n>>

\* The switching flag is up throughout failover() and, in particular, for as
\* long as the killed children are missing.
SwitchingMarked == fo.killed \/ pcM \in Critical => switching

Inv == /\ TypeOK /\ CommandNamesNode /\ SwitchingMarked
       /\ SemaphoreNeverLost /\ SlotsEmptyWhileSwitching

\* The sequences of nodes that requests are made of.
LEMMA ReportTypes ==
    /\ << >> \in Seq(Nodes)
    /\ \A n \in Nodes : <<n>> \in Seq(Nodes)
    /\ Reports \subseteq Seq(Nodes)
<1>1. \A k \in Nat : \A s \in [1 .. k -> Nodes] : s \in Seq(Nodes)
  OBVIOUS
<1>2. \A n \in Nodes : <<n>> \in Seq(Nodes)
  OBVIOUS
<1>3. << >> \in Seq(Nodes)
  OBVIOUS
<1>4. ASSUME NEW s \in Reports PROVE s \in Seq(Nodes)
  <2>1. PICK k \in 1 .. N : s \in [1 .. k -> Nodes]
    BY DEF Reports
  <2>2. QED
    BY <1>1, <2>1, NAssumption
<1>5. QED
  BY <1>2, <1>3, <1>4

\* get_next_master_node returns -1 exactly when no node qualifies, and a
\* qualifying node otherwise.
LEMMA NextMaster ==
    ASSUME NEW st
    PROVE  /\ get_next_master_node(st) \in NodeOrNone
           /\ Candidates(st) # {} => get_next_master_node(st) \in Candidates(st)
<1> DEFINE C == Candidates(st)
           first == {n \in C : \A m \in C : n <= m}
<1>1. C \subseteq Nodes /\ C \subseteq Nat
  BY NAssumption DEF Candidates, Nodes
<1>2. C # {} => first # {}
  <2>1. SUFFICES ASSUME C # {} PROVE first # {}
    OBVIOUS
  <2>2. \E n \in C : \A m \in C : n <= m
    <3> HIDE DEF C
    <3>1. QED
      BY <1>1, <2>1, LeastNatural
  <2>3. QED
    BY <2>2
<1>3. first \subseteq C
  OBVIOUS
<1>4. get_next_master_node(st) = IF first = {} THEN NoNode ELSE CHOOSE n \in first : TRUE
  BY DEF get_next_master_node
<1> HIDE DEF C, first
<1>5. first # {} => get_next_master_node(st) \in first
  BY <1>4
<1>6. get_next_master_node(st) \in NodeOrNone
  BY <1>1, <1>3, <1>4, <1>5 DEF NodeOrNone
<1>7. C # {} => get_next_master_node(st) \in C
  BY <1>2, <1>3, <1>5
<1>8. QED
  BY <1>6, <1>7 DEF C

\* Inv holds before the first request.
LEMMA InitInv == Init => Inv
<1>1. SUFFICES ASSUME Init PROVE Inv
  OBVIOUS
<1>2. master \in Nodes
  <2>1. Candidates(status) # {} /\ Candidates(status) \subseteq Nodes
    BY <1>1, ModeAssumption DEF Init, Candidates, LiveStatus
  <2>2. QED
    BY <1>1, <2>1, NextMaster DEF Init
<1>3. NoLocals \in Locals
  BY DEF NoLocals, Locals, NodeOrNone
<1>4. TypeOK
  <2>1. primary \in NodeOrNone
    BY <1>1 DEF Init, NodeOrNone
  <2>2. req \in [Requesters -> Seq(Nodes)]
    BY <1>1, ReportTypes DEF Init
  <2>3. /\ nodeId \in [Slots -> NodeOrNone]
        /\ fo \in Locals
        /\ reqs \in 0 .. MaxRequests
    BY <1>1, <1>3, BoundAssumption DEF Init, NodeOrNone
  <2>4. /\ status \in [Nodes -> Statuses]
        /\ private \in [Children -> [Nodes -> Statuses]]
    BY <1>1 DEF Init, Statuses
  <2>5. QED
    BY <1>1, <1>2, <2>1, <2>2, <2>3, <2>4
    DEF Init, TypeOK, Kinds, MainStates, RequesterStates
<1>5. SemaphoreNeverLost
  BY <1>1, ProcessAssumption DEF Init, SemaphoreNeverLost, Critical
<1>6. SlotsEmptyWhileSwitching
  BY <1>1 DEF Init, SlotsEmptyWhileSwitching, NoLocals
<1>7. CommandNamesNode
  BY <1>1 DEF Init, CommandNamesNode, Requesters
<1>8. SwitchingMarked
  BY <1>1 DEF Init, SwitchingMarked, Critical, NoLocals
<1>9. QED
  BY <1>4, <1>5, <1>6, <1>7, <1>8 DEF Inv

\* Every step keeps the types.
LEMMA NextTypeOK == TypeOK /\ CommandNamesNode /\ [Next]_vars => TypeOK'
<1>1. SUFFICES ASSUME TypeOK, CommandNamesNode, [Next]_vars PROVE TypeOK'
  OBVIOUS
<1> USE <1>1
<1> USE DEF TypeOK
<1>2. ASSUME NEW n \in Nodes, BackendChanges(n) PROVE TypeOK'
  BY <1>2, BoundAssumption DEF BackendChanges, Spend, shared, parent, procs, history
<1>3. ASSUME NEW r \in Requesters, NEW s \in Reports, degenerate_lock(r, s) PROVE TypeOK'
  <2>1. s \in Seq(Nodes)
    BY ReportTypes
  <2>2. QED
    BY <1>3, <2>1, BoundAssumption
    DEF degenerate_lock, Spend, Goes, parent, history, Kinds, RequesterStates
<1>4. ASSUME NEW r \in Requesters, degenerate_set(r) PROVE TypeOK'
  <2>1. \A i \in AcceptedSlots(r) : i \in Slots /\ req[r][i] \in Nodes
    BY DEF AcceptedSlots
  <2>2. QED
    BY <1>4, <2>1 DEF degenerate_set, Goes, parent, NodeOrNone, RequesterStates
<1>5. ASSUME NEW n \in Nodes, failback_kind(n) PROVE TypeOK'
  BY <1>5, BoundAssumption
  DEF failback_kind, Spend, Goes, parent, history, Kinds, RequesterStates, Requesters
<1>6. ASSUME failback_node PROVE TypeOK'
  <2>1. req[Pcp][1] \in Nodes
    BY <1>6 DEF failback_node, CommandNamesNode
  <2>2. QED
    BY <1>6, <2>1, ReportTypes
    DEF failback_node, Goes, parent, history, NodeOrNone, RequesterStates, Requesters
<1>7. ASSUME NEW n \in Nodes, recovery_begin(n) PROVE TypeOK'
  BY <1>7, BoundAssumption
  DEF recovery_begin, Spend, Goes, parent, history, Kinds, RequesterStates, Requesters
<1>8. ASSUME recovery_end PROVE TypeOK'
  BY <1>8, ReportTypes DEF recovery_end, Goes, parent, history, Kinds, RequesterStates, Requesters
<1>9. ASSUME recovery_awaits PROVE TypeOK'
  BY <1>9 DEF recovery_awaits, Goes, shared, parent, history, RequesterStates, Requesters
<1>10. ASSUME NEW n \in Nodes, promote_check(n) PROVE TypeOK'
  BY <1>10, BoundAssumption
  DEF promote_check, Spend, Goes, shared, parent, history, RequesterStates, Requesters
<1>11. ASSUME promote_set PROVE TypeOK'
  <2>1. req[Pcp][1] \in Nodes
    BY <1>11 DEF promote_set, CommandNamesNode
  <2>2. QED
    BY <1>11, <2>1, ReportTypes
    DEF promote_set, Goes, parent, history, Kinds, NodeOrNone, RequesterStates, Requesters
<1>12. ASSUME NEW c \in Children, close_idle_request(c) PROVE TypeOK'
  BY <1>12, BoundAssumption DEF close_idle_request, Spend, parent, procs, history, Kinds
<1>13. ASSUME NEW c \in Children, NEW n \in Nodes, new_connection(c, n) PROVE TypeOK'
  BY <1>13 DEF new_connection, parent, procs, history, Statuses
<1>14. ASSUME NEW c \in Children, honour_restart(c) PROVE TypeOK'
  BY <1>14 DEF honour_restart, Goes, shared, parent, history, RequesterStates, Requesters
<1>15. ASSUME NEW c \in Children, reap(c) PROVE TypeOK'
  BY <1>15 DEF reap, Goes, shared, parent, history, RequesterStates, Requesters
<1>16. ASSUME check_request PROVE TypeOK'
  BY <1>16 DEF check_request, procs, history, MainStates
<1>17. ASSUME health_check_failed PROVE TypeOK'
  BY <1>17 DEF health_check_failed, procs, Kinds, NodeOrNone, MainStates, Failing
<1>18. ASSUME failover_begin PROVE TypeOK'
  <2>1. ASSUME NEW st \in [Nodes -> Statuses], NEW n \in NodeOrNone,
               NEW down \in SUBSET Nodes, Proceed(st, n, down)
        PROVE  /\ status' \in [Nodes -> Statuses] /\ sem' \in Requesters \cup {Main, NoOne}
               /\ switching' \in BOOLEAN /\ pcM' \in MainStates /\ fo' \in Locals
               /\ wakeup' \in BOOLEAN
    BY <2>1 DEF Proceed, NoLocals, Locals, MainStates, NodeOrNone
  <2>2. ASSUME GiveUp
        PROVE  /\ status' \in [Nodes -> Statuses] /\ sem' \in Requesters \cup {Main, NoOne}
               /\ switching' \in BOOLEAN /\ pcM' \in MainStates /\ fo' \in Locals
               /\ wakeup' \in BOOLEAN /\ asked' \in SUBSET Nodes /\ followed' \in SUBSET Nodes
    BY <2>2 DEF GiveUp, MainStates
  <2> DEFINE Typed == /\ status' \in [Nodes -> Statuses]
                      /\ sem' \in Requesters \cup {Main, NoOne}
                      /\ switching' \in BOOLEAN /\ pcM' \in MainStates
                      /\ fo' \in Locals /\ wakeup' \in BOOLEAN
                      /\ asked' \in SUBSET Nodes /\ followed' \in SUBSET Nodes
  <2>3. nodeId[1] \in NodeOrNone
    BY NAssumption DEF Slots
  <2>4. ASSUME failover_up PROVE Typed
    <3>1. CASE nodeId[1] = NoNode
      BY <2>1, <2>2, <2>3, <2>4, <3>1 DEF failover_up, MainStates
    <3>2. CASE nodeId[1] # NoNode
      <4>1. nodeId[1] \in Nodes
        BY <2>3, <3>2 DEF NodeOrNone
      <4> DEFINE st == [status EXCEPT ![nodeId[1]] = "CON_CONNECT_WAIT"]
      <4>2. st \in [Nodes -> Statuses] /\ {} \in SUBSET Nodes
        BY <4>1 DEF Statuses
      <4>3. CASE GiveUp
        BY <2>2, <4>3
      <4>4. CASE /\ Proceed(st, nodeId[1], {})
                 /\ asked' = asked \ {nodeId[1]} /\ followed' = followed \ {nodeId[1]}
        <5> HIDE DEF st
        <5>1. QED
          BY <2>1, <2>3, <4>2, <4>4
      <4>5. QED
        BY <2>4, <3>2, <4>3, <4>4 DEF failover_up
    <3>3. QED
      BY <3>1, <3>2
  <2>5. ASSUME failover_promote PROVE Typed
    BY <2>1, <2>2, <2>3, <2>5 DEF failover_promote, history
  <2>6. ASSUME failover_down PROVE Typed
    <3> DEFINE st == [n \in Nodes |-> IF n \in Victims THEN "CON_DOWN" ELSE status[n]]
    <3>1. CASE Proceed(st, nodeId[1], Victims) /\ UNCHANGED history
      <4>1. st \in [Nodes -> Statuses]
        BY DEF Statuses
      <4>2. Victims \in SUBSET Nodes
        BY DEF Victims
      <4> HIDE DEF st
      <4>3. QED
        BY <2>1, <2>3, <3>1, <4>1, <4>2 DEF history
    <3>2. QED
      BY <2>2, <2>6, <3>1 DEF failover_down
  <2>7. QED
    BY <1>18, <2>2, <2>4, <2>5, <2>6 DEF failover_begin
<1>19. ASSUME failover_restart PROVE TypeOK'
  <2>1. get_next_master_node(status) \in NodeOrNone /\ RestartChildren \in BOOLEAN
    BY NextMaster DEF RestartChildren
  <2>2. fo' \in Locals
    BY <1>19, <2>1 DEF failover_restart, Locals
  <2>3. QED
    BY <1>19, <2>2 DEF failover_restart, shared, history, MainStates, RequesterStates
<1>20. ASSUME failover_primary PROVE TypeOK'
  <2>1. fo' \in Locals /\ pcM' \in MainStates
    <3>1. ASSUME NEW r \in NodeOrNone
          PROVE  /\ [fo EXCEPT !.newPrimary = r] \in Locals
                 /\ [fo EXCEPT !.newPrimary = r, !.sec = @ + 1] \in Locals
      <4>1. [fo EXCEPT !.newPrimary = r] \in Locals
        BY DEF Locals
      <4>2. fo.sec + 1 \in Nat
        BY DEF Locals
      <4>3. [fo EXCEPT !.newPrimary = r, !.sec = @ + 1]
              = [[fo EXCEPT !.newPrimary = r] EXCEPT !.sec = fo.sec + 1]
        BY DEF Locals
      <4>4. QED
        BY <4>1, <4>2, <4>3 DEF Locals
    <3>2. NoNode \in NodeOrNone /\ fo.node \in NodeOrNone
      BY DEF NodeOrNone, Locals
    <3>3. QED
      BY <1>20, <3>1, <3>2 DEF failover_primary, MainStates
  <2>2. QED
    BY <1>20, <2>1 DEF failover_primary, shared, procs, history
<1>21. ASSUME failover_sleep PROVE TypeOK'
  BY <1>21 DEF failover_sleep, history, MainStates
<1>22. ASSUME failover_follow PROVE TypeOK'
  <2>1. PICK garbage \in BOOLEAN :
          LET gone == IF Stream /\ PrimaryChanges(garbage) THEN Followers ELSE {}
              st == [n \in Nodes |-> IF n \in gone THEN "CON_DOWN" ELSE status[n]]
          IN  /\ status' = st
              /\ followed' = followed \cup gone
              /\ fo' = IF gone = {} THEN fo
                       ELSE [fo EXCEPT !.newMaster = get_next_master_node(st)]
    BY <1>22 DEF failover_follow
  <2> DEFINE gone == IF Stream /\ PrimaryChanges(garbage) THEN Followers ELSE {}
  <2>2. gone \in SUBSET Nodes
    BY DEF Followers
  <2> HIDE DEF gone
  <2>3. status' \in [Nodes -> Statuses] /\ followed' \in SUBSET Nodes
    BY <2>1, <2>2 DEF Statuses, gone
  <2>4. fo' \in Locals
    BY <2>1, NextMaster DEF Locals
  <2>5. QED
    BY <1>22, <2>3, <2>4 DEF failover_follow, procs, NodeOrNone, MainStates
<1>23. ASSUME failover_commit PROVE TypeOK'
  <2>1. fo.newPrimary \in NodeOrNone /\ PublishedMaster \in Nodes
    BY DEF PublishedMaster, Locals, NodeOrNone
  <2>2. fo' \in Locals
    BY <1>23 DEF failover_commit, NoLocals, Locals, NodeOrNone
  <2>3. /\ pc' \in [Requesters -> RequesterStates]
        /\ private' \in [Children -> [Nodes -> Statuses]]
        /\ restart' \in [Children -> BOOLEAN]
    BY <1>23 DEF failover_commit, RequesterStates
  <2>4. QED
    BY <1>23, <2>1, <2>2, <2>3 DEF failover_commit, history, MainStates
<1>24. ASSUME UNCHANGED vars PROVE TypeOK'
  BY <1>24 DEF vars, shared, parent, procs, history
<1>25. QED
  BY <1>2, <1>3, <1>4, <1>5, <1>6, <1>7, <1>8, <1>9, <1>10, <1>11, <1>12, <1>13,
     <1>14, <1>15, <1>16, <1>17, <1>18, <1>19, <1>20, <1>21, <1>22, <1>23, <1>24
  DEF Next, MainStep, PcpStep, ChildStep, Request, wait_timed_out, Requesters
\* Every step keeps what Inv says beyond the types.
LEMMA NextInv == Inv /\ [Next]_vars => Inv'
<1> DEFINE Rest == /\ CommandNamesNode /\ SwitchingMarked
                   /\ SemaphoreNeverLost /\ SlotsEmptyWhileSwitching
<1>1. SUFFICES ASSUME Inv, [Next]_vars PROVE Rest'
  BY NextTypeOK DEF Inv
<1> USE <1>1, ProcessAssumption
<1> USE DEF Inv, TypeOK, CommandNamesNode, SwitchingMarked, SemaphoreNeverLost,
            SlotsEmptyWhileSwitching, Critical
<1>2. ASSUME NEW n \in Nodes, BackendChanges(n) PROVE Rest'
  BY <1>2 DEF BackendChanges, shared, parent, procs
<1>3. ASSUME NEW r \in Requesters, NEW s \in Reports, degenerate_lock(r, s) PROVE Rest'
  BY <1>3 DEF degenerate_lock, LockFree, Goes, parent, Requesters
<1>4. ASSUME NEW r \in Requesters, degenerate_set(r) PROVE Rest'
  BY <1>4 DEF degenerate_set, Goes, parent, Requesters
<1>5. ASSUME NEW n \in Nodes, failback_kind(n) PROVE Rest'
  BY <1>5 DEF failback_kind, Goes, parent, Requesters
<1>6. ASSUME failback_node PROVE Rest'
  BY <1>6 DEF failback_node, Goes, parent, Requesters
<1>7. ASSUME NEW n \in Nodes, recovery_begin(n) PROVE Rest'
  BY <1>7 DEF recovery_begin, Goes, parent, Requesters
<1>8. ASSUME recovery_end PROVE Rest'
  BY <1>8 DEF recovery_end, Goes, parent, Requesters
<1>9. ASSUME recovery_awaits PROVE Rest'
  BY <1>9 DEF recovery_awaits, Goes, shared, parent, Requesters
<1>10. ASSUME NEW n \in Nodes, promote_check(n) PROVE Rest'
  BY <1>10 DEF promote_check, Goes, shared, parent, Requesters
<1>11. ASSUME promote_set PROVE Rest'
  BY <1>11 DEF promote_set, LockFree, Goes, parent, Requesters
<1>12. ASSUME NEW c \in Children, close_idle_request(c) PROVE Rest'
  BY <1>12 DEF close_idle_request, parent, procs
<1>13. ASSUME NEW c \in Children, NEW n \in Nodes, new_connection(c, n) PROVE Rest'
  BY <1>13 DEF new_connection, parent, procs
<1>14. ASSUME NEW c \in Children, honour_restart(c) PROVE Rest'
  BY <1>14 DEF honour_restart, Goes, shared, parent, Requesters
<1>15. ASSUME NEW c \in Children, reap(c) PROVE Rest'
  BY <1>15 DEF reap, ReaperForks, Goes, shared, parent, Requesters
<1>16. ASSUME check_request PROVE Rest'
  BY <1>16 DEF check_request, procs
<1>17. ASSUME health_check_failed PROVE Rest'
  BY <1>17 DEF health_check_failed, procs
<1>18. ASSUME failover_begin PROVE Rest'
  <2>1. ASSUME GiveUp PROVE Rest'
    BY <1>18, <2>1 DEF failover_begin, GiveUp, LockFree
  <2>2. ASSUME NEW st, NEW n, NEW down, Proceed(st, n, down) PROVE Rest'
    BY <1>18, <2>2 DEF failover_begin, Proceed, NoLocals, LockFree
  <2>3. ASSUME pcM' = "crashed", UNCHANGED <<sem, switching, fo>> PROVE Rest'
    BY <1>18, <2>3 DEF failover_begin, LockFree
  <2>4. QED
    BY <1>18, <2>1, <2>2, <2>3
    DEF failover_begin, failover_up, failover_promote, failover_down
<1>19. ASSUME failover_restart PROVE Rest'
  <2>1. fo'.killed = RestartChildren
    BY <1>19 DEF failover_restart, Locals
  <2>2. QED
    BY <1>19, <2>1 DEF failover_restart, shared, Requesters
<1>20. ASSUME failover_primary PROVE Rest'
  <2>1. fo'.killed = fo.killed /\ pcM' \in {"follow", "sleep"}
    BY <1>20 DEF failover_primary, Locals
  <2>2. QED
    BY <1>20, <2>1 DEF failover_primary, shared, procs
<1>21. ASSUME failover_sleep PROVE Rest'
  BY <1>21 DEF failover_sleep
<1>22. ASSUME failover_follow PROVE Rest'
  BY <1>22 DEF failover_follow, procs
<1>23. ASSUME failover_commit PROVE Rest'
  BY <1>23 DEF failover_commit, NoLocals, Requesters
<1>24. ASSUME UNCHANGED vars PROVE Rest'
  BY <1>24 DEF vars, shared, parent, procs
<1>25. QED
  BY <1>2, <1>3, <1>4, <1>5, <1>6, <1>7, <1>8, <1>9, <1>10, <1>11, <1>12, <1>13,
     <1>14, <1>15, <1>16, <1>17, <1>18, <1>19, <1>20, <1>21, <1>22, <1>23, <1>24
  DEF Next, MainStep, PcpStep, ChildStep, Request, wait_timed_out, Requesters

\* node_id[], the master and the primary never leave the configured nodes, and
\* all other shared state keeps its type, whatever the requests.
THEOREM TypeCorrect == Spec => []TypeOK
<1>1. Init => Inv
  BY InitInv
<1>2. Inv /\ [Next]_vars => Inv'
  BY NextInv
<1>3. Inv => TypeOK
  BY DEF Inv
<1>4. QED
  BY <1>1, <1>2, <1>3, PTL DEF Spec

\* REQUEST_INFO_SEM is never lost with a process that failover() kills, and
\* never held by a process outside its critical section.
THEOREM SemaphoreSafe == Spec => []SemaphoreNeverLost
<1>1. Init => Inv
  BY InitInv
<1>2. Inv /\ [Next]_vars => Inv'
  BY NextInv
<1>3. Inv => SemaphoreNeverLost
  BY DEF Inv
<1>4. QED
  BY <1>1, <1>2, <1>3, PTL DEF Spec

\* No child is forked between the kill and the re-fork of a failover.
THEOREM SlotsSafe == Spec => []SlotsEmptyWhileSwitching
<1>1. Init => Inv
  BY InitInv
<1>2. Inv /\ [Next]_vars => Inv'
  BY NextInv
<1>3. Inv => SlotsEmptyWhileSwitching
  BY DEF Inv
<1>4. QED
  BY <1>1, <1>2, <1>3, PTL DEF Spec

-----------------------------------------------------------------------------
(* Outside streaming replication every failover restarts every child, so   *)
(* the children's private copies of the node states never go stale.        *)

Between == {"loop", "lock"}
Late == {"primary", "sleep", "follow", "commit"}

\* Inductive form of NoStaleChild: a failover past its restart decision has
\* killed the children; and a child that is reporting an error counts too.
ViewsFresh ==
    /\ pcM \in Late => fo.killed
    /\ pcM \in Between =>
          \A c \in Children, n \in Nodes :
              pc[c] # "exited" /\ private[c][n] \in LiveStatus
                  => status[n] # "CON_DOWN"

\* Children start with a copy of the shared status.
LEMMA InitViewsFresh == Init => ViewsFresh
  BY DEF Init, ViewsFresh, Late, LiveStatus

\* Without streaming replication every step of failover(), and every other one,
\* keeps the children's copies fresh.
LEMMA NextViewsFresh ==
    ASSUME ~Stream
    PROVE  Inv /\ ViewsFresh /\ [Next]_vars => ViewsFresh'
<1>1. SUFFICES ASSUME Inv, ViewsFresh, [Next]_vars PROVE ViewsFresh'
  OBVIOUS
<1> USE <1>1
<1> USE DEF Inv, TypeOK, ViewsFresh, Between, Late
<1>2. ASSUME NEW n \in Nodes, BackendChanges(n) PROVE ViewsFresh'
  BY <1>2 DEF BackendChanges, shared, parent, procs
<1>3. ASSUME NEW r \in Requesters, NEW s \in Reports, degenerate_lock(r, s) PROVE ViewsFresh'
  BY <1>3 DEF degenerate_lock, Goes, parent, Requesters
<1>4. ASSUME NEW r \in Requesters, degenerate_set(r) PROVE ViewsFresh'
  BY <1>4 DEF degenerate_set, Goes, parent, Requesters
<1>5. ASSUME NEW n \in Nodes, failback_kind(n) PROVE ViewsFresh'
  BY <1>5 DEF failback_kind, Goes, parent, Requesters
<1>6. ASSUME failback_node PROVE ViewsFresh'
  BY <1>6 DEF failback_node, Goes, parent, Requesters
<1>7. ASSUME NEW n \in Nodes, recovery_begin(n) PROVE ViewsFresh'
  BY <1>7 DEF recovery_begin, Goes, parent, Requesters
<1>8. ASSUME recovery_end PROVE ViewsFresh'
  BY <1>8 DEF recovery_end, Goes, parent, Requesters
<1>9. ASSUME recovery_awaits PROVE ViewsFresh'
  BY <1>9 DEF recovery_awaits, Goes, shared, parent, Requesters
<1>10. ASSUME NEW n \in Nodes, promote_check(n) PROVE ViewsFresh'
  BY <1>10 DEF promote_check, Goes, shared, parent, Requesters
<1>11. ASSUME promote_set PROVE ViewsFresh'
  BY <1>11 DEF promote_set, Goes, parent, Requesters
<1>12. ASSUME NEW c \in Children, close_idle_request(c) PROVE ViewsFresh'
  BY <1>12 DEF close_idle_request, parent, procs
<1>13. ASSUME NEW c \in Children, NEW n \in Nodes, new_connection(c, n) PROVE ViewsFresh'
  BY <1>13 DEF new_connection, parent, procs, LiveStatus
<1>14. ASSUME NEW c \in Children, honour_restart(c) PROVE ViewsFresh'
  BY <1>14 DEF honour_restart, Goes, shared, parent, Requesters, LiveStatus
<1>15. ASSUME NEW c \in Children, reap(c) PROVE ViewsFresh'
  BY <1>15 DEF reap, Goes, shared, parent, Requesters, LiveStatus
<1>16. ASSUME check_request PROVE ViewsFresh'
  BY <1>16 DEF check_request, procs
<1>17. ASSUME health_check_failed PROVE ViewsFresh'
  BY <1>17 DEF health_check_failed, procs
<1>18. ASSUME failover_begin PROVE ViewsFresh'
  <2>1. ASSUME GiveUp PROVE ViewsFresh'
    BY <1>18, <2>1 DEF failover_begin, GiveUp
  <2>2. ASSUME NEW st, NEW n, NEW down, Proceed(st, n, down) PROVE ViewsFresh'
    BY <1>18, <2>2 DEF failover_begin, Proceed
  <2>3. ASSUME pcM' = "crashed" PROVE ViewsFresh'
    BY <2>3
  <2>4. QED
    BY <1>18, <2>1, <2>2, <2>3
    DEF failover_begin, failover_up, failover_promote, failover_down
<1>19. ASSUME failover_restart PROVE ViewsFresh'
  <2>1. fo'.killed = TRUE
    BY <1>19, ~Stream DEF failover_restart, RestartChildren, Locals
  <2>2. QED
    BY <1>19, <2>1 DEF failover_restart
<1>20. ASSUME failover_primary PROVE ViewsFresh'
  <2>1. fo'.killed = fo.killed /\ pcM' \in {"follow", "sleep"}
    BY <1>20 DEF failover_primary, Locals
  <2>2. QED
    BY <1>20, <2>1 DEF failover_primary
<1>21. ASSUME failover_sleep PROVE ViewsFresh'
  BY <1>21 DEF failover_sleep
<1>22. ASSUME failover_follow PROVE ViewsFresh'
  <2>1. fo' = fo
    BY <1>22, ~Stream DEF failover_follow
  <2>2. QED
    BY <1>22, <2>1 DEF failover_follow
<1>23. ASSUME failover_commit PROVE ViewsFresh'
  <2>1. fo.killed /\ pcM' = "loop"
    BY <1>23 DEF failover_commit
  <2>2. QED
    BY <1>23, <2>1 DEF failover_commit, LiveStatus
<1>24. ASSUME UNCHANGED vars PROVE ViewsFresh'
  BY <1>24 DEF vars, shared, parent, procs
<1>25. QED
  BY <1>2, <1>3, <1>4, <1>5, <1>6, <1>7, <1>8, <1>9, <1>10, <1>11, <1>12, <1>13,
     <1>14, <1>15, <1>16, <1>17, <1>18, <1>19, <1>20, <1>21, <1>22, <1>23, <1>24
  DEF Next, MainStep, PcpStep, ChildStep, Request, wait_timed_out, Requesters

\* Outside streaming replication no child goes on using a node that has been
\* taken out of service, for every number of nodes and children.
THEOREM NoStaleChildSafe ==
    ASSUME ~Stream
    PROVE  Spec => []NoStaleChild
<1>1. Init => Inv /\ ViewsFresh
  BY InitInv, InitViewsFresh
<1>2. Inv /\ ViewsFresh /\ [Next]_vars => (Inv /\ ViewsFresh)'
  BY NextInv, NextViewsFresh
<1>3. ViewsFresh => NoStaleChild
  BY DEF ViewsFresh, NoStaleChild, Between
<1>4. QED
  BY <1>1, <1>2, <1>3, PTL DEF Spec

-----------------------------------------------------------------------------
(* In replication mode the master is a live node.                          *)

LiveNodes(st) == {n \in Nodes : st[n] # "CON_DOWN"}

\* Inductive form of MasterAlive: a failover past its restart decision has
\* chosen the first live node and nobody changes the node states any more.
MasterChosen ==
    /\ pcM \in Late => fo.newMaster = get_next_master_node(status)
    /\ pcM \in Between /\ LiveNodes(status) # {} => master \in LiveNodes(status)

\* In replication mode the candidates are the nodes that are not down.
LEMMA CandidatesAreLive ==
    ASSUME Mode = "replication", NEW st \in [Nodes -> Statuses]
    PROVE  Candidates(st) = LiveNodes(st)
  BY DEF Candidates, LiveNodes, LiveStatus, Statuses

\* main() chooses the first master with get_next_master_node.
LEMMA InitMasterChosen ==
    ASSUME Mode = "replication"
    PROVE  Init => MasterChosen
<1>1. SUFFICES ASSUME Init PROVE MasterChosen
  OBVIOUS
<1>2. status \in [Nodes -> Statuses]
  BY <1>1 DEF Init, Statuses
<1>3. LiveNodes(status) # {} => master \in LiveNodes(status)
  BY <1>1, <1>2, Mode = "replication", CandidatesAreLive, NextMaster DEF Init
<1>4. QED
  BY <1>1, <1>3 DEF Init, MasterChosen, Late

\* In replication mode every step keeps the master, or the one failover() is
\* about to publish, among the live nodes.
LEMMA NextMasterChosen ==
    ASSUME Mode = "replication"
    PROVE  Inv /\ ViewsFresh /\ MasterChosen /\ [Next]_vars => MasterChosen'
<1>1. SUFFICES ASSUME Inv, ViewsFresh, MasterChosen, [Next]_vars PROVE MasterChosen'
  OBVIOUS
<1> USE <1>1
<1> USE DEF Inv, TypeOK, MasterChosen, Between, Late
<1>0. ~Stream
  BY Mode = "replication" DEF Stream
<1>2. ASSUME NEW n \in Nodes, BackendChanges(n) PROVE MasterChosen'
  BY <1>2 DEF BackendChanges, shared, parent, procs
<1>3. ASSUME NEW r \in Requesters, NEW s \in Reports, degenerate_lock(r, s) PROVE MasterChosen'
  BY <1>3 DEF degenerate_lock, Goes, parent, Requesters
<1>4. ASSUME NEW r \in Requesters, degenerate_set(r) PROVE MasterChosen'
  BY <1>4 DEF degenerate_set, Goes, parent, Requesters
<1>5. ASSUME NEW n \in Nodes, failback_kind(n) PROVE MasterChosen'
  BY <1>5 DEF failback_kind, Goes, parent, Requesters
<1>6. ASSUME failback_node PROVE MasterChosen'
  BY <1>6 DEF failback_node, Goes, parent, Requesters
<1>7. ASSUME NEW n \in Nodes, recovery_begin(n) PROVE MasterChosen'
  BY <1>7 DEF recovery_begin, Goes, parent, Requesters
<1>8. ASSUME recovery_end PROVE MasterChosen'
  BY <1>8 DEF recovery_end, Goes, parent, Requesters
<1>9. ASSUME recovery_awaits PROVE MasterChosen'
  BY <1>9 DEF recovery_awaits, Goes, shared, parent, Requesters
<1>10. ASSUME NEW n \in Nodes, promote_check(n) PROVE MasterChosen'
  BY <1>10 DEF promote_check, Goes, shared, parent, Requesters
<1>11. ASSUME promote_set PROVE MasterChosen'
  BY <1>11 DEF promote_set, Goes, parent, Requesters
<1>12. ASSUME NEW c \in Children, close_idle_request(c) PROVE MasterChosen'
  BY <1>12 DEF close_idle_request, parent, procs
<1>13. ASSUME NEW c \in Children, NEW n \in Nodes, new_connection(c, n) PROVE MasterChosen'
  <2>1. pcM \notin Late
    BY <1>13 DEF new_connection, ViewsFresh, SlotsEmptyWhileSwitching, Requesters
  <2>2. pcM \in Between => n \in LiveNodes(status)
    BY <1>13, Mode = "replication"
    DEF new_connection, ValidIn, ViewsFresh, LiveNodes
  <2>3. master \in LiveNodes(status) => master \in LiveNodes(status')
    BY <1>13 DEF new_connection, LiveNodes
  <2>4. pcM' = pcM /\ master' = master
    BY <1>13 DEF new_connection, parent
  <2>5. QED
    BY <2>1, <2>2, <2>3, <2>4
<1>14. ASSUME NEW c \in Children, honour_restart(c) PROVE MasterChosen'
  BY <1>14 DEF honour_restart, Goes, shared, parent, Requesters
<1>15. ASSUME NEW c \in Children, reap(c) PROVE MasterChosen'
  BY <1>15 DEF reap, ReaperForks, Goes, shared, parent, Requesters
<1>16. ASSUME check_request PROVE MasterChosen'
  BY <1>16 DEF check_request, procs
<1>17. ASSUME health_check_failed PROVE MasterChosen'
  BY <1>17 DEF health_check_failed, procs
<1>18. ASSUME failover_begin PROVE MasterChosen'
  <2>1. ASSUME GiveUp PROVE MasterChosen'
    BY <1>18, <2>1 DEF failover_begin, GiveUp
  <2>2. ASSUME NEW st, NEW n, NEW down, Proceed(st, n, down) PROVE MasterChosen'
    BY <1>18, <2>2 DEF failover_begin, Proceed
  <2>3. ASSUME pcM' = "crashed" PROVE MasterChosen'
    BY <2>3
  <2>4. QED
    BY <1>18, <2>1, <2>2, <2>3
    DEF failover_begin, failover_up, failover_promote, failover_down
<1>19. ASSUME failover_restart PROVE MasterChosen'
  <2>1. fo'.newMaster = get_next_master_node(status) /\ status' = status
    BY <1>19 DEF failover_restart, Locals, shared
  <2>2. pcM' = "primary"
    BY <1>19 DEF failover_restart
  <2>3. QED
    BY <2>1, <2>2
<1>20. ASSUME failover_primary PROVE MasterChosen'
  <2>1. fo'.newMaster = fo.newMaster /\ pcM' \in {"follow", "sleep"}
    BY <1>20 DEF failover_primary, Locals
  <2>2. status' = status /\ pcM \in Late
    BY <1>20 DEF failover_primary, shared
  <2>3. QED
    BY <2>1, <2>2
<1>21. ASSUME failover_sleep PROVE MasterChosen'
  BY <1>21 DEF failover_sleep
<1>22. ASSUME failover_follow PROVE MasterChosen'
  <2>1. fo' = fo /\ status' = status
    BY <1>22, <1>0 DEF failover_follow
  <2>2. QED
    BY <1>22, <2>1 DEF failover_follow
<1>23. ASSUME failover_commit PROVE MasterChosen'
  <2>1. /\ fo.newMaster = get_next_master_node(status)
        /\ pcM' = "loop" /\ status' = status /\ master' = PublishedMaster
    BY <1>23 DEF failover_commit
  <2>2. LiveNodes(status) # {} => fo.newMaster \in LiveNodes(status)
    BY <2>1, Mode = "replication", CandidatesAreLive, NextMaster
  <2>3. LiveNodes(status) # {} => PublishedMaster \in LiveNodes(status)
    BY <2>2, NAssumption DEF PublishedMaster, LiveNodes, Nodes, NoNode
  <2>4. QED
    BY <2>1, <2>3
<1>24. ASSUME UNCHANGED vars PROVE MasterChosen'
  BY <1>24 DEF vars, shared, parent, procs
<1>25. QED
  BY <1>2, <1>3, <1>4, <1>5, <1>6, <1>7, <1>8, <1>9, <1>10, <1>11, <1>12, <1>13,
     <1>14, <1>15, <1>16, <1>17, <1>18, <1>19, <1>20, <1>21, <1>22, <1>23, <1>24
  DEF Next, MainStep, PcpStep, ChildStep, Request, wait_timed_out, Requesters

\* In replication mode the master is a live node between two failovers
\* whenever there is one, for every number of nodes and children.
THEOREM MasterAliveSafe ==
    ASSUME Mode = "replication"
    PROVE  Spec => []MasterAlive
<1> DEFINE I == Inv /\ ViewsFresh /\ MasterChosen
<1>1. Init => I
  BY Mode = "replication", InitInv, InitViewsFresh, InitMasterChosen
<1>2. ~Stream
  BY Mode = "replication" DEF Stream
<1>3. I /\ [Next]_vars => I'
  BY <1>2, Mode = "replication", NextInv, NextViewsFresh, NextMasterChosen
<1>4. I => MasterAlive
  BY DEF MasterChosen, MasterAlive, Between, LiveNodes
<1>5. QED
  BY <1>1, <1>3, <1>4, PTL DEF Spec

-----------------------------------------------------------------------------
(* Without failbacks, promotions and recoveries nothing but an accepted    *)
(* request, or a change of primary, takes a node out of service.           *)

DetachOnly == Ops \cap {"attach", "promote", "recovery"} = {}

\* Inductive form of DownOnlyByRequest: the mailbox only ever names nodes
\* whose request was accepted, and the stale kind "up" it starts with is
\* never seen by failover() together with a node.
MailboxAsked ==
    /\ \A n \in Nodes : status[n] = "CON_DOWN" => n \in asked \cup followed
    /\ \A i \in Slots : nodeId[i] # NoNode => nodeId[i] \in asked
    /\ kind \in {"UP", "DOWN", "CLOSE_IDLE"}
    /\ kind = "UP" => /\ \A i \in Slots : nodeId[i] = NoNode
                      /\ \A r \in Requesters : pc[r] # "report"
    /\ pc[Pcp] \in {"run", "report"}

\* The mailbox is empty at the start.
LEMMA InitMailboxAsked == Init => MailboxAsked
  BY DEF Init, MailboxAsked, Requesters

\* Without attach, promote and recovery every step keeps in the mailbox only
\* nodes that were reported and accepted.
LEMMA NextMailboxAsked ==
    ASSUME DetachOnly
    PROVE  Inv /\ MailboxAsked /\ [Next]_vars => MailboxAsked'
<1>1. SUFFICES ASSUME Inv, MailboxAsked, [Next]_vars PROVE MailboxAsked'
  OBVIOUS
<1> USE <1>1
<1> USE DEF Inv, TypeOK, MailboxAsked
<1>2. ASSUME NEW n \in Nodes, BackendChanges(n) PROVE MailboxAsked'
  BY <1>2 DEF BackendChanges, shared, parent, procs, history
<1>3. ASSUME NEW r \in Requesters, NEW s \in Reports, degenerate_lock(r, s) PROVE MailboxAsked'
  BY <1>3 DEF degenerate_lock, Goes, history, Requesters
<1>4. ASSUME NEW r \in Requesters, degenerate_set(r) PROVE MailboxAsked'
  <2>1. kind # "UP" /\ kind' = kind
    BY <1>4 DEF degenerate_set
  <2>2. asked \subseteq asked'
    BY <1>4 DEF degenerate_set
  <2>3. \A i \in Slots : nodeId'[i] # NoNode => nodeId'[i] \in asked'
    BY <1>4 DEF degenerate_set
  <2>4. pc'[Pcp] \in {"run", "report"}
    BY <1>4 DEF degenerate_set, Goes, Requesters
  <2>5. status' = status /\ followed' = followed
    BY <1>4 DEF degenerate_set
  <2>6. QED
    BY <2>1, <2>2, <2>3, <2>4, <2>5
<1>5. ASSUME NEW n \in Nodes, failback_kind(n) PROVE MailboxAsked'
  BY <1>5, DetachOnly DEF failback_kind, DetachOnly
<1>6. ASSUME failback_node PROVE MailboxAsked'
  BY <1>6 DEF failback_node
<1>7. ASSUME NEW n \in Nodes, recovery_begin(n) PROVE MailboxAsked'
  BY <1>7, DetachOnly DEF recovery_begin, DetachOnly
<1>8. ASSUME recovery_end PROVE MailboxAsked'
  BY <1>8 DEF recovery_end
<1>9. ASSUME recovery_awaits PROVE MailboxAsked'
  BY <1>9 DEF recovery_awaits
<1>10. ASSUME NEW n \in Nodes, promote_check(n) PROVE MailboxAsked'
  BY <1>10, DetachOnly DEF promote_check, DetachOnly
<1>11. ASSUME promote_set PROVE MailboxAsked'
  BY <1>11 DEF promote_set
<1>12. ASSUME NEW c \in Children, close_idle_request(c) PROVE MailboxAsked'
  BY <1>12 DEF close_idle_request, procs, history
<1>13. ASSUME NEW c \in Children, NEW n \in Nodes, new_connection(c, n) PROVE MailboxAsked'
  BY <1>13 DEF new_connection, procs, history
<1>14. ASSUME NEW c \in Children, honour_restart(c) PROVE MailboxAsked'
  BY <1>14, ProcessAssumption DEF honour_restart, Goes, shared, history, Requesters
<1>15. ASSUME NEW c \in Children, reap(c) PROVE MailboxAsked'
  BY <1>15, ProcessAssumption DEF reap, Goes, shared, history, Requesters
<1>16. ASSUME check_request PROVE MailboxAsked'
  BY <1>16 DEF check_request, procs, history
<1>17. ASSUME health_check_failed PROVE MailboxAsked'
  BY <1>17 DEF health_check_failed, procs
<1>18. ASSUME failover_begin PROVE MailboxAsked'
  <2>1. /\ kind' = kind /\ nodeId' = nodeId /\ pc' = pc
    BY <1>18 DEF failover_begin
  <2>2. nodeId[1] \in NodeOrNone
    BY NAssumption DEF Slots
  <2>3. CASE kind = "UP"
    <3>1. nodeId[1] = NoNode
      BY <2>3, NAssumption DEF Slots
    <3>2. status' = status /\ asked' = asked /\ followed' = followed
      BY <1>18, <2>3, <3>1 DEF failover_begin, failover_up, GiveUp, Proceed
    <3>3. QED
      BY <2>1, <3>2
  <2>4. CASE kind = "CLOSE_IDLE"
    BY <1>18, <2>1, <2>4 DEF failover_begin, GiveUp
  <2>5. CASE kind = "DOWN"
    <3>1. asked' = asked /\ followed' = followed
      BY <1>18, <2>5 DEF failover_begin, failover_down, GiveUp, history
    <3>2. ASSUME NEW n \in Nodes, status'[n] = "CON_DOWN" PROVE n \in asked \cup followed
      <4>1. n \in Victims \/ status[n] = "CON_DOWN"
        BY <1>18, <2>5, <3>2 DEF failover_begin, failover_down, GiveUp, Proceed
      <4>2. Victims \subseteq asked
        BY DEF Victims, NoNode, Nodes
      <4>3. QED
        BY <4>1, <4>2
    <3>3. QED
      BY <2>1, <3>1, <3>2
  <2>6. QED
    BY <2>3, <2>4, <2>5
<1>19. ASSUME failover_restart PROVE MailboxAsked'
  BY <1>19, ProcessAssumption DEF failover_restart, shared, history, Requesters
<1>20. ASSUME failover_primary PROVE MailboxAsked'
  BY <1>20 DEF failover_primary, shared, procs, history
<1>21. ASSUME failover_sleep PROVE MailboxAsked'
  BY <1>21 DEF failover_sleep, history
<1>22. ASSUME failover_follow PROVE MailboxAsked'
  <2>1. PICK gone : /\ status' = [n \in Nodes |-> IF n \in gone THEN "CON_DOWN" ELSE status[n]]
                    /\ followed' = followed \cup gone
    BY <1>22 DEF failover_follow
  <2>2. \A n \in Nodes : status'[n] = "CON_DOWN" => n \in asked' \cup followed'
    BY <1>22, <2>1 DEF failover_follow
  <2>3. \A i \in Slots : nodeId'[i] = NoNode
    BY <1>22 DEF failover_follow
  <2>4. kind' = kind /\ pc' = pc
    BY <1>22 DEF failover_follow, procs
  <2>5. QED
    BY <2>2, <2>3, <2>4
<1>23. ASSUME failover_commit PROVE MailboxAsked'
  BY <1>23, ProcessAssumption DEF failover_commit, history, Requesters
<1>24. ASSUME UNCHANGED vars PROVE MailboxAsked'
  BY <1>24 DEF vars, shared, procs, history
<1>25. QED
  BY <1>2, <1>3, <1>4, <1>5, <1>6, <1>7, <1>8, <1>9, <1>10, <1>11, <1>12, <1>13,
     <1>14, <1>15, <1>16, <1>17, <1>18, <1>19, <1>20, <1>21, <1>22, <1>23, <1>24
  DEF Next, MainStep, PcpStep, ChildStep, Request, wait_timed_out, Requesters

\* A node goes out of service only because of a request that names it, or
\* because the primary changed, for every number of nodes and children.
THEOREM DownByRequest == Spec => []DownOnlyByRequest
<1>1. CASE DetachOnly
  <2>1. Init => Inv /\ MailboxAsked
    BY InitInv, InitMailboxAsked
  <2>2. Inv /\ MailboxAsked /\ [Next]_vars => (Inv /\ MailboxAsked)'
    BY <1>1, NextInv, NextMailboxAsked
  <2>3. MailboxAsked => DownOnlyByRequest
    BY DEF MailboxAsked, DownOnlyByRequest
  <2>4. QED
    BY <2>1, <2>2, <2>3, PTL DEF Spec
<1>2. CASE ~DetachOnly
  <2>1. DownOnlyByRequest
    BY <1>2 DEF DetachOnly, DownOnlyByRequest
  <2>2. QED
    BY <2>1, PTL
<1>3. QED
  BY <1>1, <1>2

-----------------------------------------------------------------------------
(* The primary between two failovers.                                      *)

\* A node that may be called the primary: it is in service.  Only streaming
\* replication has one.
InService(n) == n = NoNode \/ (Stream /\ status[n] # "CON_DOWN")

\* Inductive form of PrimaryAlive: the primary failover() is about to publish
\* is in service from the moment it is found, also while the other standbys
\* are degenerated; the one it replaces may be dead by then.
PrimaryKnown ==
    /\ ~Stream => kind # "PROMOTE" /\ pc[Pcp] # "promote"
    /\ pcM \in {"loop", "lock", "crashed"} => InService(primary)
    /\ pcM \in {"follow", "commit"} => InService(fo.newPrimary)
    /\ pcM = "sleep" => fo.newPrimary = NoNode

\* find_primary_node only finds nodes that are in service.
LEMMA InitPrimaryKnown == Init => PrimaryKnown
<1> SUFFICES ASSUME Init PROVE PrimaryKnown
  OBVIOUS
<1>1. InService(primary)
  <2>1. CASE Stream
    <3>1. PrimaryFound(primary)
      BY <2>1 DEF Init
    <3>2. QED
      BY <2>1, <3>1, ModeAssumption
      DEF PrimaryFound, InService, Valid, ValidIn, LiveStatus, Stream
  <2>2. CASE ~Stream
    BY <2>2 DEF Init, InService
  <2>3. QED
    BY <2>1, <2>2
<1>2. QED
  BY <1>1 DEF Init, PrimaryKnown, Requesters

\* Every step of failover(), and every other one, keeps what it knows of the
\* primary right.
LEMMA NextPrimaryKnown == Inv /\ PrimaryKnown /\ [Next]_vars => PrimaryKnown'
<1>1. SUFFICES ASSUME Inv, PrimaryKnown, [Next]_vars PROVE PrimaryKnown'
  OBVIOUS
<1> USE <1>1
<1> USE DEF Inv, TypeOK, PrimaryKnown
<1>2. ASSUME NEW n \in Nodes, BackendChanges(n) PROVE PrimaryKnown'
  BY <1>2 DEF BackendChanges, shared, parent, procs, InService
<1>3. ASSUME NEW r \in Requesters, NEW s \in Reports, degenerate_lock(r, s) PROVE PrimaryKnown'
  BY <1>3 DEF degenerate_lock, Goes, Requesters, parent, InService
<1>4. ASSUME NEW r \in Requesters, degenerate_set(r) PROVE PrimaryKnown'
  BY <1>4 DEF degenerate_set, Goes, Requesters, parent, InService
<1>5. ASSUME NEW n \in Nodes, failback_kind(n) PROVE PrimaryKnown'
  BY <1>5 DEF failback_kind, Goes, Requesters, parent, InService
<1>6. ASSUME failback_node PROVE PrimaryKnown'
  BY <1>6 DEF failback_node, Goes, Requesters, parent, InService
<1>7. ASSUME NEW n \in Nodes, recovery_begin(n) PROVE PrimaryKnown'
  BY <1>7 DEF recovery_begin, Goes, Requesters, parent, InService
<1>8. ASSUME recovery_end PROVE PrimaryKnown'
  BY <1>8 DEF recovery_end, Goes, Requesters, parent, InService
<1>9. ASSUME recovery_awaits PROVE PrimaryKnown'
  BY <1>9 DEF recovery_awaits, Goes, Requesters, shared, parent, InService
<1>10. ASSUME NEW n \in Nodes, promote_check(n) PROVE PrimaryKnown'
  BY <1>10 DEF promote_check, Goes, Requesters, shared, parent, InService
<1>11. ASSUME promote_set PROVE PrimaryKnown'
  BY <1>11 DEF promote_set, Goes, Requesters, parent, InService
<1>12. ASSUME NEW c \in Children, close_idle_request(c) PROVE PrimaryKnown'
  BY <1>12 DEF close_idle_request, procs, parent, InService
<1>13. ASSUME NEW c \in Children, NEW n \in Nodes, new_connection(c, n) PROVE PrimaryKnown'
  <2>1. \A m \in Nodes : status[m] # "CON_DOWN" => status'[m] # "CON_DOWN"
    BY <1>13 DEF new_connection
  <2>2. UNCHANGED <<kind, pc, pcM, primary, fo>>
    BY <1>13 DEF new_connection, procs, parent
  <2>3. \A m \in NodeOrNone : InService(m) => InService(m)'
    BY <2>1 DEF InService, NodeOrNone
  <2>4. primary \in NodeOrNone /\ fo.newPrimary \in NodeOrNone
    BY DEF Locals
  <2>5. QED
    BY <2>2, <2>3, <2>4
<1>14. ASSUME NEW c \in Children, honour_restart(c) PROVE PrimaryKnown'
  BY <1>14, ProcessAssumption DEF honour_restart, Goes, shared, parent, Requesters, InService
<1>15. ASSUME NEW c \in Children, reap(c) PROVE PrimaryKnown'
  BY <1>15, ProcessAssumption DEF reap, Goes, shared, parent, Requesters, InService
<1>16. ASSUME check_request PROVE PrimaryKnown'
  BY <1>16 DEF check_request, procs, InService
<1>17. ASSUME health_check_failed PROVE PrimaryKnown'
  BY <1>17 DEF health_check_failed, procs, InService
<1>18. ASSUME failover_begin PROVE PrimaryKnown'
  <2>1. pcM = "lock" /\ UNCHANGED <<kind, pc, primary>>
    BY <1>18 DEF failover_begin
  <2>2. \/ pcM' = "restart"
        \/ pcM' \in {"loop", "crashed"} /\ status' = status
    BY <1>18 DEF failover_begin, failover_up, failover_promote, failover_down, GiveUp, Proceed
  <2>3. QED
    BY <2>1, <2>2 DEF InService
<1>19. ASSUME failover_restart PROVE PrimaryKnown'
  BY <1>19, ProcessAssumption DEF failover_restart, shared, Requesters
<1>20. ASSUME failover_primary PROVE PrimaryKnown'
  <2>1. UNCHANGED <<status, kind, pc, primary, master>>
    BY <1>20 DEF failover_primary, shared, procs
  <2>2. \A n \in Nodes : Stream /\ Valid(n) => InService(n)
    BY ModeAssumption DEF InService, Valid, ValidIn, LiveStatus, Stream
  <2>3. CASE Promoted /\ fo' = [fo EXCEPT !.newPrimary = fo.node] /\ pcM' = "follow"
    <3>1. Stream /\ Usable(fo.node)
      BY <2>3 DEF Promoted
    <3>2. fo.node \in Nodes /\ Valid(fo.node)
      BY <3>1 DEF Usable, Locals, NodeOrNone
    <3>3. InService(fo.node) /\ fo'.newPrimary = fo.node
      BY <2>2, <2>3, <3>1, <3>2 DEF Locals
    <3>4. QED
      BY <2>1, <2>3, <3>3 DEF InService
  <2>4. CASE fo' = [fo EXCEPT !.newPrimary = NoNode] /\ pcM' = "follow"
    <3>1. fo'.newPrimary = NoNode
      BY <2>4 DEF Locals
    <3>2. QED
      BY <2>1, <2>4, <3>1 DEF InService
  <2>5. ASSUME Stream, NEW r \in NodeOrNone, PrimaryFound(r),
               fo' = [fo EXCEPT !.newPrimary = r, !.sec = @ + 1],
               pcM' = IF r = NoNode THEN "sleep" ELSE "follow"
        PROVE  PrimaryKnown'
    <3>1. fo'.newPrimary = r
      BY <2>5 DEF Locals
    <3>2. r # NoNode => InService(r)
      BY <2>2, <2>5 DEF PrimaryFound
    <3>3. QED
      BY <2>1, <2>5, <3>1, <3>2 DEF InService
  <2>6. QED
    BY <1>20, <2>3, <2>4, <2>5 DEF failover_primary
<1>21. ASSUME failover_sleep PROVE PrimaryKnown'
  BY <1>21 DEF failover_sleep, InService
<1>22. ASSUME failover_follow PROVE PrimaryKnown'
  <2>1. pcM = "follow" /\ pcM' = "commit" /\ UNCHANGED <<kind, pc, primary>>
    BY <1>22 DEF failover_follow, procs
  <2>2. PICK gone \in {Followers, {}} :
          /\ status' = [n \in Nodes |-> IF n \in gone THEN "CON_DOWN" ELSE status[n]]
          /\ fo' \in {fo, [fo EXCEPT !.newMaster = get_next_master_node(status')]}
    BY <1>22 DEF failover_follow
  <2>3. fo'.newPrimary = fo.newPrimary /\ fo.newPrimary \in NodeOrNone
    BY <2>2 DEF Locals
  <2>4. fo.newPrimary \notin gone
    BY <2>2 DEF Followers
  <2>5. InService(fo.newPrimary)'
    BY <2>1, <2>2, <2>3, <2>4 DEF InService, NodeOrNone
  <2>6. QED
    BY <2>1, <2>3, <2>5 DEF InService
<1>23. ASSUME failover_commit PROVE PrimaryKnown'
  <2>1. pcM = "commit" /\ pcM' = "loop" /\ primary' = fo.newPrimary
        /\ UNCHANGED <<status, kind>> /\ pc'[Pcp] = pc[Pcp]
    BY <1>23, ProcessAssumption DEF failover_commit, Requesters
  <2>2. QED
    BY <2>1 DEF InService
<1>24. ASSUME UNCHANGED vars PROVE PrimaryKnown'
  BY <1>24 DEF vars, shared, procs, parent, InService
<1>25. QED
  BY <1>2, <1>3, <1>4, <1>5, <1>6, <1>7, <1>8, <1>9, <1>10, <1>11, <1>12, <1>13,
     <1>14, <1>15, <1>16, <1>17, <1>18, <1>19, <1>20, <1>21, <1>22, <1>23, <1>24
  DEF Next, MainStep, PcpStep, ChildStep, Request, wait_timed_out, Requesters

\* Between failovers PRIMARY_NODE_ID is in service or unknown, in every mode
\* and however requests, promotions, recoveries and failures interleave.
THEOREM PrimaryAliveSafe == Spec => []PrimaryAlive
<1>1. Init => Inv /\ PrimaryKnown
  BY InitInv, InitPrimaryKnown
<1>2. Inv /\ PrimaryKnown /\ [Next]_vars => (Inv /\ PrimaryKnown)'
  BY NextInv, NextPrimaryKnown
<1>3. PrimaryKnown => PrimaryAlive
  BY DEF PrimaryKnown, PrimaryAlive, InService
<1>4. QED
  BY <1>1, <1>2, <1>3, PTL DEF Spec

-----------------------------------------------------------------------------
(* Nodes that may not fail over.                                           *)

\* The mailbox never names a node flagged DISALLOW_TO_FAILOVER.
MailboxAllowed == \A i \in Slots : nodeId[i] \notin Disallow

\* What a step may do to such a node.
DisallowKept == \A n \in Disallow : status[n] # "CON_DOWN" => status'[n] # "CON_DOWN"

\* Every step keeps the flagged nodes out of the mailbox, and in service.
LEMMA NextMailboxAllowed ==
    ASSUME DetachOnly, ~(Stream /\ FollowMaster)
    PROVE  Inv /\ MailboxAsked /\ MailboxAllowed /\ [Next]_vars
             => MailboxAllowed' /\ DisallowKept
<1>1. SUFFICES ASSUME Inv, MailboxAsked, MailboxAllowed, [Next]_vars
               PROVE  MailboxAllowed' /\ DisallowKept
  OBVIOUS
<1> DEFINE Good == MailboxAllowed' /\ DisallowKept
<1> USE <1>1
<1> USE DEF MailboxAllowed, DisallowKept
<1>2. CASE UNCHANGED <<status, nodeId>>
  BY <1>2
<1>3. ASSUME NEW r \in Requesters, degenerate_set(r) PROVE Good
  <2>1. status' = status
    BY <1>3 DEF degenerate_set
  <2>2. \A i \in AcceptedSlots(r) : req[r][i] \notin Disallow
    BY DEF AcceptedSlots
  <2>3. nodeId' = [i \in Slots |-> IF i \in AcceptedSlots(r) THEN req[r][i] ELSE nodeId[i]]
    BY <1>3 DEF degenerate_set
  <2>4. QED
    BY <2>1, <2>2, <2>3
<1>4. ASSUME failback_node \/ promote_set PROVE Good
  BY <1>4 DEF failback_node, promote_set, MailboxAsked
<1>5. ASSUME NEW c \in Children, NEW n \in Nodes, new_connection(c, n) PROVE Good
  BY <1>5 DEF new_connection, Inv, TypeOK
<1>6. ASSUME health_check_failed PROVE Good
  BY <1>6 DEF health_check_failed, Inv, TypeOK
<1>7. ASSUME failover_begin PROVE Good
  <2>1. nodeId' = nodeId /\ kind \in {"UP", "DOWN", "CLOSE_IDLE"}
    BY <1>7 DEF failover_begin, MailboxAsked
  <2>2. CASE kind = "UP"
    <3>1. nodeId[1] = NoNode
      BY <2>2, NAssumption DEF Slots, MailboxAsked
    <3>2. status' = status
      BY <1>7, <2>2, <3>1 DEF failover_begin, failover_up, GiveUp, Proceed
    <3>3. QED
      BY <2>1, <3>2
  <2>3. CASE kind = "CLOSE_IDLE"
    BY <1>7, <2>1, <2>3 DEF failover_begin, GiveUp
  <2>4. CASE kind = "DOWN"
    <3>1. \A n \in Disallow : n \notin Victims
      BY DEF Victims
    <3>2. \/ status' = status
          \/ status' = [n \in Nodes |-> IF n \in Victims THEN "CON_DOWN" ELSE status[n]]
      BY <1>7, <2>4 DEF failover_begin, failover_down, GiveUp, Proceed
    <3>3. QED
      BY <2>1, <3>1, <3>2, FlagAssumption
  <2>5. QED
    BY <2>1, <2>2, <2>3, <2>4
<1>8. ASSUME failover_follow PROVE Good
  <2>1. \A garbage \in BOOLEAN : ~(Stream /\ PrimaryChanges(garbage))
    BY ~(Stream /\ FollowMaster) DEF PrimaryChanges, MailboxAsked
  <2>2. status' = [n \in Nodes |-> IF n \in {} THEN "CON_DOWN" ELSE status[n]]
    BY <1>8, <2>1 DEF failover_follow
  <2>3. \A n \in Nodes : status'[n] = status[n]
    BY <2>2
  <2>4. NoNode \notin Disallow
    BY FlagAssumption DEF NoNode, Nodes
  <2>5. \A i \in Slots : nodeId'[i] = NoNode
    BY <1>8 DEF failover_follow
  <2>6. QED
    BY <2>3, <2>4, <2>5, FlagAssumption
<1>9. QED
  BY <1>2, <1>3, <1>4, <1>5, <1>6, <1>7, <1>8
  DEF Next, MainStep, PcpStep, ChildStep, Request, wait_timed_out, Requesters, vars, shared,
      BackendChanges, degenerate_lock, failback_kind, recovery_begin, recovery_end,
      recovery_awaits, promote_check, close_idle_request, honour_restart, reap,
      check_request, failover_restart, failover_primary, failover_sleep, failover_commit

\* A node flagged DISALLOW_TO_FAILOVER that is in service stays in service:
\* neither a child's report, nor pcp_detach_node, nor the health check takes
\* it out, for every number of nodes and children, as long as the mailbox is
\* not also used by PCP to attach, promote or recover nodes and no
\* follow_master_command degenerates the standbys of an old primary.
THEOREM DisallowSafe ==
    ASSUME DetachOnly, ~(Stream /\ FollowMaster)
    PROVE  Spec => DisallowRespected
<1> DEFINE I == Inv /\ MailboxAsked /\ MailboxAllowed
<1>1. Init => I
  <2>1. Init => MailboxAllowed
    BY FlagAssumption DEF Init, MailboxAllowed, NoNode, Nodes
  <2>2. QED
    BY <2>1, InitInv, InitMailboxAsked
<1>2. I /\ [Next]_vars => I'
  BY DetachOnly, NextInv, NextMailboxAsked, NextMailboxAllowed
<1>3. I /\ [Next]_vars => [\A n \in Disallow : status[n] # "CON_DOWN" => status'[n] # "CON_DOWN"]_vars
  BY DetachOnly, NextMailboxAllowed DEF DisallowKept
<1>4. QED
  BY <1>1, <1>2, <1>3, PTL DEF Spec, DisallowRespected
=============================================================================
