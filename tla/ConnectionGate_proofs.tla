------------------------ MODULE ConnectionGate_proofs ------------------------
(***************************************************************************)
(* Theorems about ConnectionGate, for every set of children, every retry   *)
(* count and every number of clients and events.                           *)
(*                                                                         *)
(* NeverCountedTooFew is not inductive: whether a decrement is due depends *)
(* on who still owes one.  Owing is the set of children that were counted  *)
(* and have a count down ahead of them; the counter covers all of Owing,   *)
(* not only the children that serve a client.  The children that fail      *)
(* early in a session count down twice, so these theorems, unlike          *)
(* TypeCorrect, are about instances without "early_failure".               *)
(***************************************************************************)
EXTENDS ConnectionGate, FiniteSetTheorems, TLAPS

\* The places of the loop at which a child has not accepted anybody.
Before == {"select", "gate", "pausing", "paused", "accept", "up_lock", "up"}

\* The listen queue holds clients that have arrived.
QueueArrived == backlog <= arrived

\* A child inside the critical section has the semaphore, and the value it
\* read there is the value of the counter.
InsideHoldsSem ==
    \A c \in Children : pc[c] \in {"up", "down"}
        => counterSem = c /\ tmp[c] = conn_counter

\* accepted is clear from the top of the loop until connection_count_up ...
AcceptedIsFresh == \A c \in Children : pc[c] \in Before => ~accepted[c]

\* ... and when the count down returns to the loop.
ReturnsUnaccepted ==
    \A c \in Children : pc[c] \in {"down_lock", "down"} /\ after[c] = "top"
        => ~accepted[c]

\* The children that were counted and still have a count down ahead.
Owing == {c \in Children : \/ pc[c] \in {"served", "down_lock", "down"}
                           \/ pc[c] = "top" /\ accepted[c]}

CounterCovers == conn_counter >= Cardinality(Owing)

\* The clients that were counted when the flag was raised are still served,
\* and none of them is left when the second stage begins.
OldAreServed == \A c \in old : pc[c] = "served"
OldAreGone == pcp = "stage2" => inRecovery /\ old = {}

\* The places between the test of InRecovery and the end of the session.
PastTheGate == {"accept", "up_lock", "up", "served"}

\* While the flag is up, a child is past the gate only if it was when the
\* flag was raised.
NobodyAdmitted ==
    inRecovery => \A c \in Children : pc[c] \in PastTheGate => c \in old \cup slipped

\* The flag is up from the moment the PCP process waits until it has finished.
GateClosed == pcp # "idle" => inRecovery

TypeInv == TypeOK /\ QueueArrived

LockInv == /\ TypeInv /\ InsideHoldsSem

CountInv == /\ LockInv /\ AcceptedIsFresh /\ ReturnsUnaccepted /\ CounterCovers

WindowInv == OldAreServed /\ OldAreGone /\ NobodyAdmitted /\ GateClosed

\* pgpool starts with the types and with an empty queue.
LEMMA InitTypeInv == Init => TypeInv
<1>1. SUFFICES ASSUME Init PROVE TypeInv
  OBVIOUS
<1>2. pc \in [Children -> ChildStates]
  BY <1>1 DEF Init, ChildStates
<1>3. retry \in 0 .. WaitRetryCount /\ events \in 0 .. MaxEvents
  BY <1>1, GateAssumption DEF Init
<1>4. backlog \in 0 .. MaxClients /\ arrived \in 0 .. MaxClients /\ backlog <= arrived
  BY <1>1, GateAssumption DEF Init
<1>5. QED
  BY <1>1, <1>2, <1>3, <1>4 DEF Init, TypeInv, TypeOK, QueueArrived

\* Every step keeps the types and the queue's bound.
LEMMA NextTypeInv == TypeInv /\ [Next]_vars => TypeInv'
<1>1. SUFFICES ASSUME TypeInv, [Next]_vars PROVE TypeInv'
  OBVIOUS
<1> USE <1>1, GateAssumption
<1> USE DEF TypeInv, TypeOK, QueueArrived, ChildStates, childVars, counterVars,
            pcpVars, clientVars, histVars, Rest, PcpRest, Goes, Forget
<1>2. CASE client_arrives
  BY <1>2 DEF client_arrives
<1>3. ASSUME NEW c \in Children, ChildStep(c) PROVE TypeInv'
  <2>1. CASE loop_top(c)
    BY <2>1 DEF loop_top, child_exit, CountDown
  <2>2. CASE do_select(c)
    BY <2>2 DEF do_select
  <2>3. CASE gate(c)
    BY <2>3 DEF gate
  <2>4. CASE pause(c)
    BY <2>4 DEF pause
  <2>5. CASE do_accept(c)
    BY <2>5 DEF do_accept
  <2>6. CASE count_lock(c)
    BY <2>6 DEF count_lock
  <2>7. CASE connection_count_up(c)
    BY <2>7 DEF connection_count_up
  <2>8. CASE connection_count_down(c)
    BY <2>8 DEF connection_count_down, Decremented
  <2>9. CASE fork_a_child(c)
    BY <2>9 DEF fork_a_child
  <2>10. QED
    BY <1>3, <2>1, <2>2, <2>3, <2>4, <2>5, <2>6, <2>7, <2>8, <2>9 DEF ChildStep
<1>4. ASSUME NEW c \in Children, SessionEnds(c) PROVE TypeInv'
  <2>1. CASE session_ends(c)
    BY <2>1 DEF session_ends, CountDown
  <2>2. CASE early_failure(c)
    BY <2>2 DEF early_failure, CountDown
  <2>3. CASE lost_count(c)
    BY <2>3 DEF lost_count
  <2>4. CASE session_error(c)
    BY <2>4 DEF session_error, child_exit, CountDown
  <2>5. QED
    BY <1>4, <2>1, <2>2, <2>3, <2>4 DEF SessionEnds
<1>5. CASE PcpStep
  <2>1. CASE wait_connection_closed
    BY <2>1 DEF wait_connection_closed
  <2>2. CASE second_stage
    BY <2>2 DEF second_stage
  <2>3. CASE send_request
    BY <2>3 DEF send_request, AfterRequest
  <2>4. CASE reset_after_request
    BY <2>4 DEF reset_after_request
  <2>5. CASE await_failover
    BY <2>5 DEF await_failover
  <2>6. CASE finish_recovery
    BY <2>6 DEF finish_recovery
  <2>7. QED
    BY <1>5, <2>1, <2>2, <2>3, <2>4, <2>5, <2>6 DEF PcpStep
<1>6. ASSUME kill_children
      PROVE  /\ pc' \in [Children -> ChildStates] /\ after' \in [Children -> {"top", "gone"}]
             /\ old' \subseteq Children /\ slipped' \subseteq Children
  BY <1>6 DEF kill_children, Killed
<1>7. CASE failover
  BY <1>6, <1>7 DEF failover, kill_children
<1>8. CASE other_failover
  BY <1>6, <1>8 DEF other_failover, kill_children, Event
<1>9. CASE wakeup_children
  BY <1>9 DEF wakeup_children
<1>10. CASE request_restart
  BY <1>10 DEF request_restart, Event
<1>11. ASSUME NEW o \in {"recovery", "graceful"}, close_gate(o) PROVE TypeInv'
  BY <1>11 DEF close_gate, Event
<1>12. CASE UNCHANGED vars
  BY <1>12 DEF vars
<1>13. QED
  BY <1>2, <1>3, <1>4, <1>5, <1>7, <1>8, <1>9, <1>10, <1>11, <1>12
  DEF Next, ParentStep, Idle

\* Every variable of the gate keeps its type: in particular the counter never
\* goes negative (connection_count_down's floor) and the listen queue never
\* holds more clients than arrived.
THEOREM TypeCorrect == Spec => []TypeOK
<1>1. TypeInv => TypeOK
  BY DEF TypeInv
<1>2. QED
  BY <1>1, InitTypeInv, NextTypeInv, PTL DEF Spec

-----------------------------------------------------------------------------
(* The critical section of CONN_COUNTER_SEM.                               *)

\* A step that takes nobody into the critical section and leaves the counter
\* and the semaphore alone.
LEMMA OutsideSteps ==
    ASSUME InsideHoldsSem, UNCHANGED <<conn_counter, counterSem, tmp>>,
           \A c \in Children : pc'[c] \in {"up", "down"} => pc'[c] = pc[c]
    PROVE  InsideHoldsSem'
  BY DEF InsideHoldsSem

\* Nobody enters the critical section but by taking the semaphore, also when
\* children are killed inside it.
LEMMA NextInside == LockInv /\ [Next]_vars => InsideHoldsSem'
<1>1. SUFFICES ASSUME LockInv, [Next]_vars PROVE InsideHoldsSem'
  OBVIOUS
<1> USE <1>1
<1> DEFINE Inside == {"up", "down"}
           Nobody == \A d \in Children : pc'[d] \in Inside => pc'[d] = pc[d]
           Same == UNCHANGED <<conn_counter, counterSem, tmp>>
<1>2. InsideHoldsSem /\ TypeOK
  BY DEF LockInv, TypeInv
<1>3. ASSUME Same, Nobody PROVE InsideHoldsSem'
  BY <1>2, <1>3, OutsideSteps
<1> USE DEF TypeOK, childVars, counterVars, Rest, PcpRest, Goes
<1>4. CASE client_arrives
  BY <1>2, <1>3, <1>4 DEF client_arrives
<1>5. ASSUME NEW c \in Children, ChildStep(c) PROVE InsideHoldsSem'
  <2>1. CASE loop_top(c) \/ do_select(c) \/ gate(c) \/ pause(c) \/ do_accept(c)
            \/ fork_a_child(c)
    <3>1. Same /\ Nobody
      BY <1>2, <2>1 DEF loop_top, child_exit, CountDown, do_select, gate, pause,
                        do_accept, fork_a_child
    <3>2. QED
      BY <1>3, <3>1
  <2>2. CASE count_lock(c)
    <3>1. ASSUME NEW d \in Children, pc[d] \in Inside PROVE FALSE
      BY <1>2, <2>2, <3>1, GateAssumption DEF count_lock, CounterFree, InsideHoldsSem
    <3>2. QED
      BY <1>2, <2>2, <3>1 DEF count_lock, InsideHoldsSem
  <2>3. CASE connection_count_up(c) \/ connection_count_down(c)
    <3>1. \A d \in Children \ {c} : pc[d] \notin Inside
      BY <1>2, <2>3, GateAssumption
      DEF connection_count_up, connection_count_down, InsideHoldsSem
    <3>2. pc'[c] \notin Inside /\ \A d \in Children \ {c} : pc'[d] = pc[d]
      BY <1>2, <2>3 DEF connection_count_up, connection_count_down
    <3>3. QED
      BY <3>1, <3>2 DEF InsideHoldsSem
  <2>4. QED
    BY <1>5, <2>1, <2>2, <2>3 DEF ChildStep
<1>6. ASSUME NEW c \in Children, SessionEnds(c) PROVE InsideHoldsSem'
  <2>1. Same /\ Nobody
    BY <1>2, <1>6 DEF SessionEnds, session_ends, early_failure, lost_count,
                      session_error, child_exit, CountDown
  <2>2. QED
    BY <1>3, <2>1
<1>7. CASE PcpStep
  BY <1>2, <1>3, <1>7
  DEF PcpStep, wait_connection_closed, second_stage, send_request,
      reset_after_request, await_failover, finish_recovery
<1>8. CASE failover \/ other_failover
  <2>1. Same /\ Nobody
    BY <1>2, <1>8 DEF failover, other_failover, kill_children, Killed
  <2>2. QED
    BY <1>3, <2>1
<1>9. CASE wakeup_children
  BY <1>2, <1>3, <1>9 DEF wakeup_children
<1>10. CASE request_restart
  BY <1>2, <1>3, <1>10 DEF request_restart
<1>11. ASSUME NEW o \in {"recovery", "graceful"}, close_gate(o) PROVE InsideHoldsSem'
  BY <1>2, <1>3, <1>11 DEF close_gate
<1>12. CASE UNCHANGED vars
  BY <1>2, <1>3, <1>12 DEF vars
<1>13. QED
  BY <1>4, <1>5, <1>6, <1>7, <1>8, <1>9, <1>10, <1>11, <1>12
  DEF Next, ParentStep, Idle

\* The steps of the whole gate, with or without early failures, keep LockInv.
LEMMA LockAlways == Spec => []LockInv
<1>1. Init => LockInv
  BY InitTypeInv DEF LockInv, Init, InsideHoldsSem
<1>2. LockInv /\ [Next]_vars => LockInv'
  BY NextTypeInv, NextInside DEF LockInv
<1>3. QED
  BY <1>1, <1>2, PTL DEF Spec

\* At most one child is between the read and the write of the counter.
CounterExclusive ==
    \A c, d \in Children : pc[c] \in {"up", "down"} /\ pc[d] \in {"up", "down"} => c = d

\* connection_count_up and connection_count_down exclude each other, whatever
\* the signals do: a child that is killed inside the critical section keeps
\* the semaphore, and nobody else gets in.
THEOREM CriticalSection == Spec => []CounterExclusive
<1>1. LockInv => CounterExclusive
  BY DEF LockInv, InsideHoldsSem, CounterExclusive
<1>2. QED
  BY <1>1, LockAlways, PTL

-----------------------------------------------------------------------------
(* The counter against the children that still have to count down.         *)

Flags == AcceptedIsFresh /\ ReturnsUnaccepted

\* Owing is a finite set.
LEMMA OwingFinite == IsFiniteSet(Owing) /\ Cardinality(Owing) \in Nat
<1>1. Owing \in SUBSET Children
  BY DEF Owing
<1>2. QED
  BY <1>1, GateAssumption, FS_Subset, FS_CardinalityType

\* A step that takes nobody into Owing and leaves the counter alone.
LEMMA CounterKept ==
    ASSUME TypeOK, CounterCovers, Owing' \subseteq Owing, UNCHANGED conn_counter
    PROVE  CounterCovers'
<1>1. Owing' \in SUBSET Owing
  OBVIOUS
<1>2. Cardinality(Owing') <= Cardinality(Owing) /\ IsFiniteSet(Owing')
  BY <1>1, OwingFinite, FS_Subset
<1>3. Cardinality(Owing') \in Nat
  BY <1>2, FS_CardinalityType
<1>4. QED
  BY <1>2, <1>3, OwingFinite DEF CounterCovers, TypeOK

\* connection_count_up: one more child owes a count down, and the counter,
\* read inside the critical section, is one more.
LEMMA CountUp ==
    ASSUME CountInv, NEW c \in Children, connection_count_up(c)
    PROVE  Flags' /\ CounterCovers'
<1> USE DEF CountInv, LockInv, TypeInv
<1>1. /\ pc[c] = "up" /\ pc' = [pc EXCEPT ![c] = "served"]
      /\ accepted' = [accepted EXCEPT ![c] = TRUE]
      /\ UNCHANGED after
      /\ conn_counter' = conn_counter + 1
  BY DEF connection_count_up, Goes, InsideHoldsSem
<1>2. Flags'
  BY <1>1 DEF Flags, AcceptedIsFresh, ReturnsUnaccepted, Before, TypeOK
<1>3. c \notin Owing /\ Owing' = Owing \cup {c}
  BY <1>1 DEF Owing, TypeOK
<1>4. Cardinality(Owing') = Cardinality(Owing) + 1
  BY <1>3, OwingFinite, FS_AddElement
<1>5. QED
  BY <1>1, <1>2, <1>4, OwingFinite DEF CounterCovers, TypeOK

\* connection_count_down: the child was counted, so the counter is not zero
\* and the floor at zero loses nothing.
LEMMA CountDownStep ==
    ASSUME CountInv, NEW c \in Children, connection_count_down(c)
    PROVE  Flags' /\ CounterCovers'
<1> USE DEF CountInv, LockInv, TypeInv
<1>1. /\ pc[c] = "down" /\ pc' = [pc EXCEPT ![c] = after[c]]
      /\ UNCHANGED <<after, accepted>>
      /\ conn_counter' = Decremented(conn_counter)
  BY DEF connection_count_down, Goes, InsideHoldsSem
<1>2. Flags'
  BY <1>1 DEF Flags, AcceptedIsFresh, ReturnsUnaccepted, Before, TypeOK
<1>3. c \in Owing /\ Owing' = Owing \ {c}
  BY <1>1 DEF Owing, TypeOK, ReturnsUnaccepted
<1>4. Cardinality(Owing') = Cardinality(Owing) - 1 /\ Cardinality(Owing) # 0
  BY <1>3, OwingFinite, FS_RemoveElement, FS_EmptySet
<1>5. QED
  BY <1>1, <1>2, <1>4, OwingFinite DEF CounterCovers, Decremented, TypeOK

\* Every step keeps the flags and keeps the counter at or above the number of
\* children that owe a count down.
LEMMA NextCount ==
    ASSUME "early_failure" \notin Ops, CountInv, [Next]_vars
    PROVE  Flags' /\ CounterCovers'
<1> DEFINE Quiet == Flags' /\ Owing' \subseteq Owing /\ UNCHANGED conn_counter
<1>1. TypeOK /\ AcceptedIsFresh /\ ReturnsUnaccepted /\ CounterCovers
  BY DEF CountInv, LockInv, TypeInv
<1>2. ASSUME Quiet PROVE Flags' /\ CounterCovers'
  BY <1>1, <1>2, CounterKept
<1>3. ASSUME UNCHANGED <<pc, after, accepted, conn_counter>> PROVE Quiet
  BY <1>1, <1>3 DEF Flags, AcceptedIsFresh, ReturnsUnaccepted, Owing
<1> USE DEF childVars, counterVars, Rest, PcpRest, Goes
<1>4. CASE client_arrives \/ request_restart \/ PcpStep \/ UNCHANGED vars
           \/ \E o \in {"recovery", "graceful"} : close_gate(o)
  <2>1. UNCHANGED <<pc, after, accepted, conn_counter>>
    BY <1>4 DEF client_arrives, request_restart, close_gate, vars, PcpStep,
                wait_connection_closed, second_stage, send_request,
                reset_after_request, await_failover, finish_recovery
  <2>2. QED
    BY <1>2, <1>3, <2>1
<1> USE DEF TypeOK, Flags, AcceptedIsFresh, ReturnsUnaccepted, Owing, Before
<1>5. ASSUME NEW c \in Children, ChildStep(c) PROVE Flags' /\ CounterCovers'
  <2>1. CASE loop_top(c)
    <3>1. Quiet
      BY <1>1, <2>1 DEF loop_top, child_exit, CountDown
    <3>2. QED
      BY <1>2, <3>1
  <2>2. CASE do_select(c) \/ gate(c) \/ pause(c)
    <3>1. Quiet
      BY <1>1, <2>2 DEF do_select, gate, pause
    <3>2. QED
      BY <1>2, <3>1
  <2>3. CASE do_accept(c) \/ fork_a_child(c)
    <3>1. Quiet
      BY <1>1, <2>3 DEF do_accept, fork_a_child
    <3>2. QED
      BY <1>2, <3>1
  <2>4. CASE count_lock(c)
    <3>1. Quiet
      BY <1>1, <2>4 DEF count_lock
    <3>2. QED
      BY <1>2, <3>1
  <2>5. CASE connection_count_up(c)
    BY <2>5, CountUp
  <2>6. CASE connection_count_down(c)
    BY <2>6, CountDownStep
  <2>7. QED
    BY <1>5, <2>1, <2>2, <2>3, <2>4, <2>5, <2>6 DEF ChildStep
<1>6. ASSUME NEW c \in Children, SessionEnds(c) PROVE Flags' /\ CounterCovers'
  <2>1. CASE session_ends(c)
    <3>1. Quiet
      BY <1>1, <2>1 DEF session_ends, CountDown
    <3>2. QED
      BY <1>2, <3>1
  <2>2. CASE lost_count(c)
    <3>1. Quiet
      BY <1>1, <2>2 DEF lost_count
    <3>2. QED
      BY <1>2, <3>1
  <2>3. CASE session_error(c)
    <3>1. Quiet
      BY <1>1, <2>3 DEF session_error, child_exit, CountDown
    <3>2. QED
      BY <1>2, <3>1
  <2>4. QED
    BY <1>6, <2>1, <2>2, <2>3 DEF SessionEnds, early_failure
<1>7. CASE failover \/ other_failover
  <2>1. /\ pc' = [c \in Children |-> Killed(c)]
        /\ after' = [c \in Children |-> "gone"]
        /\ UNCHANGED <<accepted, conn_counter>>
    BY <1>7 DEF failover, other_failover, kill_children
  <2>2. \A c \in Children : /\ Killed(c) \in {"gone", "stuck", "down_lock"}
                            /\ Killed(c) = "down_lock" => c \in Owing
    BY <1>1 DEF Killed, ChildStates
  <2>3. Quiet
    BY <1>1, <2>1, <2>2
  <2>4. QED
    BY <1>2, <2>3
<1>8. CASE wakeup_children
  <2>1. Quiet
    BY <1>1, <1>8 DEF wakeup_children
  <2>2. QED
    BY <1>2, <2>1
<1>9. QED
  BY <1>4, <1>5, <1>6, <1>7, <1>8 DEF Next, ParentStep, Idle

\* The counter covers every child that owes a count down, at all times.
LEMMA CountAlways ==
    ASSUME "early_failure" \notin Ops
    PROVE  Spec => []CountInv
<1>1. Init => CountInv
  <2>1. SUFFICES ASSUME Init PROVE CountInv
    OBVIOUS
  <2>2. LockInv
    BY <2>1, InitTypeInv DEF LockInv, Init, InsideHoldsSem
  <2>3. Owing = {}
    BY <2>1 DEF Init, Owing
  <2>4. CounterCovers
    BY <2>1, <2>3, FS_EmptySet DEF CounterCovers, Init
  <2>5. QED
    BY <2>1, <2>2, <2>4
    DEF CountInv, AcceptedIsFresh, ReturnsUnaccepted, Before, Init
<1>2. CountInv /\ [Next]_vars => CountInv'
  BY NextTypeInv, NextInside, NextCount DEF CountInv, LockInv, Flags
<1>3. QED
  BY <1>1, <1>2, PTL DEF Spec

\* The children that serve a client are among those that owe a count down.
LEMMA ServedAreCounted ==
    ASSUME CountInv
    PROVE  /\ NeverCountedTooFew
           /\ conn_counter = 0 => \A c \in Children : pc[c] # "served"
<1> DEFINE Served == {c \in Children : pc[c] = "served"}
<1>1. Served \in SUBSET Owing
  BY DEF Owing
<1>2. Cardinality(Served) <= Cardinality(Owing) /\ IsFiniteSet(Served)
  BY <1>1, OwingFinite, FS_Subset
<1>3. Cardinality(Served) \in Nat
  BY <1>2, FS_CardinalityType
<1>4. conn_counter >= Cardinality(Served)
  BY <1>2, <1>3, OwingFinite DEF CountInv, LockInv, TypeInv, TypeOK, CounterCovers
<1>5. conn_counter = 0 => Served = {}
  BY <1>2, <1>3, <1>4, FS_EmptySet
<1>6. QED
  BY <1>4, <1>5 DEF NeverCountedTooFew

\* conn_counter is never smaller than the number of clients being served,
\* although children are killed, leave without counting down, restart and
\* count under the semaphore in every order.  Early failures are excluded:
\* they count down twice.
THEOREM CounterSafe ==
    ASSUME "early_failure" \notin Ops
    PROVE  Spec => []NeverCountedTooFew
<1>1. CountInv => NeverCountedTooFew
  BY ServedAreCounted
<1>2. QED
  BY <1>1, CountAlways, PTL

-----------------------------------------------------------------------------
(* The second stage of online recovery.                                    *)

\* No child gets past the gate while the flag is up; the sessions of the
\* children in old end; the second stage begins with a counter of zero.
LEMMA NextWindow == CountInv /\ WindowInv /\ [Next]_vars => WindowInv'
<1>1. SUFFICES ASSUME CountInv, WindowInv, [Next]_vars PROVE WindowInv'
  OBVIOUS
<1>2. TypeOK /\ WindowInv
  BY <1>1 DEF CountInv, LockInv, TypeInv
<1> USE DEF TypeOK, WindowInv, OldAreServed, OldAreGone, NobodyAdmitted, GateClosed,
            PastTheGate, childVars, counterVars, pcpVars, histVars, Rest, PcpRest,
            Goes, Forget
<1>3. CASE client_arrives \/ request_restart \/ UNCHANGED vars
  BY <1>2, <1>3 DEF client_arrives, request_restart, vars
<1>4. ASSUME NEW c \in Children, ChildStep(c) PROVE WindowInv'
  <2>1. CASE do_accept(c)
    BY <1>2, <2>1 DEF do_accept
  <2>2. CASE count_lock(c) \/ connection_count_up(c)
    BY <1>2, <2>2 DEF count_lock, connection_count_up
  <2>3. CASE loop_top(c) \/ do_select(c) \/ pause(c) \/ fork_a_child(c)
    BY <1>2, <2>3 DEF loop_top, child_exit, CountDown, do_select, pause, fork_a_child
  <2>4. CASE gate(c)
    BY <1>2, <2>4 DEF gate
  <2>5. CASE connection_count_down(c)
    BY <1>2, <2>5 DEF connection_count_down
  <2>6. QED
    BY <1>4, <2>1, <2>2, <2>3, <2>4, <2>5 DEF ChildStep
<1>5. ASSUME NEW c \in Children, SessionEnds(c) PROVE WindowInv'
  <2>1. /\ UNCHANGED <<pcp, inRecovery>>
        /\ pc'[c] \notin PastTheGate
        /\ old' = old \ {c} /\ slipped' = slipped \ {c}
        /\ \A d \in Children \ {c} : pc'[d] = pc[d]
    BY <1>2, <1>5 DEF SessionEnds, session_ends, early_failure, lost_count,
                      session_error, child_exit, CountDown
  <2>2. QED
    BY <1>2, <2>1
<1>6. CASE wait_connection_closed
  <2>1. conn_counter = 0 => old = {}
    BY <1>1, <1>2, ServedAreCounted
  <2>2. QED
    BY <1>2, <1>6, <2>1 DEF wait_connection_closed, NobodyConnected
<1>7. CASE second_stage \/ send_request \/ reset_after_request \/ await_failover
           \/ finish_recovery
  BY <1>2, <1>7 DEF second_stage, send_request, AfterRequest, reset_after_request,
                    await_failover, finish_recovery
<1>8. CASE failover \/ other_failover
  <2>1. /\ pc' = [c \in Children |-> Killed(c)] /\ old' = {}
        /\ UNCHANGED <<pcp, inRecovery>>
    BY <1>8 DEF failover, other_failover, kill_children
  <2>2. \A c \in Children : Killed(c) \notin PastTheGate
    BY <1>2 DEF Killed, ChildStates
  <2>3. QED
    BY <1>2, <2>1, <2>2
<1>9. CASE wakeup_children
  BY <1>2, <1>9 DEF wakeup_children
<1>10. ASSUME NEW o \in {"recovery", "graceful"}, close_gate(o) PROVE WindowInv'
  BY <1>2, <1>10 DEF close_gate
<1>11. QED
  BY <1>1, <1>3, <1>4, <1>5, <1>6, <1>7, <1>8, <1>9, <1>10
  DEF Next, PcpStep, ParentStep, Idle

\* The gate does its job but for its window: the clients connected while the
\* second stage of online recovery runs are those of children that had passed
\* the test of InRecovery, and not counted their client, when the flag was
\* raised.  Every client that was counted has left, although the counter may
\* count clients that are long gone, and nobody else is let in, whatever is
\* killed, restarted or lost.
THEOREM SecondStageSafe ==
    ASSUME "early_failure" \notin Ops
    PROVE  Spec => []OnlyWindowClients
<1>1. Init => WindowInv
  BY DEF Init, WindowInv, OldAreServed, OldAreGone, NobodyAdmitted, GateClosed,
         PastTheGate
<1>2. WindowInv => OnlyWindowClients
  BY DEF WindowInv, OldAreGone, NobodyAdmitted, PastTheGate, OnlyWindowClients
<1>3. QED
  BY <1>1, <1>2, NextWindow, CountAlways, PTL DEF Spec
=============================================================================
