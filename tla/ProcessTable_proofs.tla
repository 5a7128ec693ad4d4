------------------------- MODULE ProcessTable_proofs -------------------------
(***************************************************************************)
(* Theorems about ProcessTable, for every number of slots and process ids. *)
(*                                                                         *)
(* NoRunaway is not inductive: reaper and failover overwrite table entries *)
(* and reuse process ids, so it rests on what the entries name.  Until a   *)
(* shutdown no two entries name the same process, an entry never names a   *)
(* free id, a process that was told to exit, or that the reaper would not  *)
(* replace (exit status 0), is named only while the failover that killed   *)
(* it goes on, during that failover enough ids stay free for the new       *)
(* children, and whoever was told to exit counts down or is in a COMMIT    *)
(* with the signal pending: it never goes back to its clients.             *)
(***************************************************************************)
EXTENDS ProcessTable, FiniteSetTheorems, FunctionTheorems, TLAPS

\* The parent works: no shutdown yet.
Up == pcM \in {"loop", "failover"}

\* The switching flag is up exactly during failover().
SwitchingMarked == switching <=> pcM = "failover"

\* No two entries of the table name the same process.
TableInjective == Up => \A a, b \in Roles : table[a] = table[b] => a = b

\* Every entry names a process that exists.
TableNamesProcesses == Up => \A r \in Roles : ~At(table[r], "free")

\* Before a shutdown nobody has seen SIGTERM.
NobodyTermed == Up => \A p \in Pids : ~proc[p].exitReq

\* An entry names a process that was killed only during the failover, and then
\* it is a child's.
KilledAreForgotten ==
    Up => \A r \in Roles : At(table[r], "exit0") \/ Told(table[r])
                           => pcM = "failover" /\ r \in Slots

\* In a failover all children are dead or told to exit, and there is room for
\* the new ones.
ChildrenKilled ==
    pcM = "failover" => /\ \A s \in Slots : Live(table[s]) => Told(table[s])
                        /\ Cardinality(Free) >= Cardinality(Slots)

\* What a process record says of Told, and where such a process can be.
ToldRec(q) == q.then = "exit0" \/ q.pending
OnItsWay(q) == ToldRec(q) => \/ q.st = "commit" /\ q.pending
                             \/ q.st \in {"down_lock", "down"} /\ q.then = "exit0"
ToldLeave == \A p \in Pids : OnItsWay(proc[p])

Inv == /\ TypeOK /\ SwitchingMarked /\ TableInjective /\ TableNamesProcesses
       /\ NobodyTermed /\ KilledAreForgotten /\ ChildrenKilled /\ ToldLeave
       /\ NoRunaway

-----------------------------------------------------------------------------
(* fork().                                                                 *)

\* There are finitely many roles, and at least one.
LEMMA RolesFinite == IsFiniteSet(Roles) /\ Roles # {}
<1>1. IsFiniteSet({"pcp", "worker"})
  <2>1. IsFiniteSet({"pcp"})
    BY FS_Singleton
  <2>2. IsFiniteSet({"pcp"} \cup {"worker"})
    BY <2>1, FS_AddElement
  <2>3. {"pcp", "worker"} = {"pcp"} \cup {"worker"}
    OBVIOUS
  <2>4. QED
    BY <2>2, <2>3
<1>2. IsFiniteSet(Specials)
  BY <1>1, TableAssumption, FS_Subset
<1>3. QED
  BY <1>2, TableAssumption, FS_Union DEF Roles

\* With at least as many free ids as roles there is a way to fork.
LEMMA ForksExist ==
    ASSUME NEW R, NEW free, IsFiniteSet(R), IsFiniteSet(free),
           Cardinality(free) >= Cardinality(R)
    PROVE  Forks(R, free) # {}
<1> DEFINE n == Cardinality(R)
           m == Cardinality(free)
<1>1. n \in Nat /\ m \in Nat /\ ExistsBijection(1 .. n, R) /\ ExistsBijection(1 .. m, free)
  BY FS_CardinalityType
<1> HIDE DEF n, m
<1>2. ExistsInjection(R, 1 .. n) /\ ExistsInjection(1 .. m, free)
  BY <1>1, Fun_ExistsBijEquiv
<1>3. n <= m
  BY <1>1 DEF n, m
<1>4. ExistsInjection(1 .. n, 1 .. m)
  BY <1>1, <1>3, Fun_NatInjLeq
<1>5. ExistsInjection(R, free)
  <2>1. ExistsInjection(R, 1 .. m)
    BY <1>2, <1>4, Fun_ExistsInjTransitive
  <2>2. QED
    BY <1>2, <2>1, Fun_ExistsInjTransitive
<1>6. PICK f : f \in Injection(R, free)
  BY <1>5, Fun_ExistsInj
<1>7. f \in [R -> free] /\ \A a, b \in R : f[a] = f[b] => a = b
  BY <1>6, Fun_InjectionProperties
<1>8. QED
  BY <1>7 DEF Forks

\* What fork() returns if there is a way to fork: an id for every role, none
\* of them twice, and RoleOf tells whose it is.
LEMMA ForkProperties ==
    ASSUME NEW R, NEW free, Forks(R, free) # {}, NEW f, f = SomeFork(R, free)
    PROVE  /\ f \in [R -> free]
           /\ \A a, b \in R : f[a] = f[b] => a = b
           /\ \A r \in R : f[r] \in Forked(f)
           /\ \A p \in Forked(f) : RoleOf(f, p) \in R /\ f[RoleOf(f, p)] = p /\ p \in free
<1>1. f \in Forks(R, free)
  BY DEF SomeFork
<1>2. f \in [R -> free] /\ \A a, b \in R : f[a] = f[b] => a = b
  BY <1>1 DEF Forks
<1>3. \A r \in R : f[r] \in Forked(f)
  BY <1>2 DEF Forked
<1>4. ASSUME NEW p \in Forked(f)
      PROVE  RoleOf(f, p) \in R /\ f[RoleOf(f, p)] = p /\ p \in free
  <2>1. \E r \in DOMAIN f : f[r] = p
    BY DEF Forked
  <2>2. RoleOf(f, p) \in DOMAIN f /\ f[RoleOf(f, p)] = p
    BY <2>1 DEF RoleOf
  <2>3. QED
    BY <1>2, <2>2
<1>5. QED
  BY <1>2, <1>3, <1>4

-----------------------------------------------------------------------------
(* One process.                                                            *)

\* The records that describe a process.
Procs == [st : Running \cup Dead \cup {"free"}, role : Roles,
          exitReq : BOOLEAN, timed : BOOLEAN, connected : BOOLEAN,
          accepted : BOOLEAN, then : {"top", "exit0", "exit1"}, pending : BOOLEAN]

\* Processes that were just forked, and such as have ended.
LEMMA RecordTypes ==
    /\ \A r \in Roles : /\ New(r) \in Procs /\ New(r).st = "starting"
                        /\ New(r).role = r /\ ~New(r).exitReq /\ ~ToldRec(New(r))
    /\ \A s \in Dead \cup {"free"} : /\ Ended(s) \in Procs /\ Ended(s).st = s
                                     /\ ~Ended(s).exitReq /\ ~ToldRec(Ended(s))
<1>1. \A r \in Roles : /\ New(r) \in Procs /\ New(r).st = "starting"
                       /\ New(r).role = r /\ ~New(r).exitReq /\ ~ToldRec(New(r))
  BY TableAssumption DEF New, Procs, Running, ToldRec
<1>2. PICK r \in Roles : r = CHOOSE q \in Roles : TRUE
  BY RolesFinite
<1>3. \A s : Ended(s) = [New(r) EXCEPT !.st = s]
  BY <1>2 DEF Ended
<1>4. QED
  BY <1>1, <1>2, <1>3 DEF Procs, New, ToldRec

\* The count down of a process that ends a session or was told to exit.
LEMMA CountsDownType ==
    ASSUME NEW p \in Pids, proc[p] \in Procs, NEW s \in {"top", "exit0", "exit1"}
    PROVE  /\ CountsDown(p, s) \in Procs
           /\ CountsDown(p, s) = [proc[p] EXCEPT !.st = "down_lock", !.then = s]
  BY DEF CountsDown, Procs, Running

\* What a step may make of the record o of a running process: it keeps its
\* role while it runs, what it was told stands, and before a shutdown it is
\* told nothing new, so that it ends with status 0 only if it was told to.
Follows(o, q) ==
    /\ q.st # "free"
    /\ q.st \in Running => q.role = o.role /\ (ToldRec(o) => ToldRec(q))
    /\ OnItsWay(q)
    /\ Up => ~q.exitReq /\ (q.st = "exit0" \/ ToldRec(q) => ToldRec(o))

\* A step of one running process p, which becomes q.
LEMMA ProcessStep ==
    ASSUME Inv, NEW p \in Pids, NEW q \in Procs,
           Live(p), proc' = [proc EXCEPT ![p] = q],
           UNCHANGED <<table, switching, exiting, pcM, sems>>, sigchld' \in BOOLEAN,
           counterSem' \in {"free", "held", "lost"}, Follows(proc[p], q)
    PROVE  Inv'
<1>1. TypeOK /\ Procs = [st : Running \cup Dead \cup {"free"}, role : Roles,
                         exitReq : BOOLEAN, timed : BOOLEAN, connected : BOOLEAN,
                         accepted : BOOLEAN, then : {"top", "exit0", "exit1"},
                         pending : BOOLEAN]
  BY DEF Inv, Procs
<1>2. TypeOK'
  BY <1>1 DEF TypeOK
<1>3. \A r \in Roles : table'[r] = table[r] /\ table[r] \in Pids
  BY <1>1 DEF TypeOK
<1>4. /\ proc'[p] = q /\ \A o \in Pids \ {p} : proc'[o] = proc[o]
      /\ \A o \in Pids : proc[o] \in Procs
  BY <1>1 DEF TypeOK
<1>5. proc[p].st \in Running /\ proc[p].st # "free"
  BY DEF Live, Running
<1>6. Free' = Free
  BY <1>4, <1>5 DEF Free, Follows
<1>7. /\ \A o \in Pids : Told(o) <=> ToldRec(proc[o])
      /\ \A o \in Pids : Told(o)' <=> ToldRec(proc'[o])
  BY DEF Told, ToldRec
<1>8. SwitchingMarked' /\ TableInjective'
  BY <1>3 DEF Inv, SwitchingMarked, TableInjective, Up
<1>9. TableNamesProcesses'
  BY <1>3, <1>4 DEF Inv, TableNamesProcesses, Up, At, Follows
<1>10. NobodyTermed'
  BY <1>4 DEF Inv, NobodyTermed, Up, Follows
<1>11. KilledAreForgotten'
  <2>1. SUFFICES ASSUME Up, NEW r \in Roles, At(table[r], "exit0")' \/ Told(table[r])'
                 PROVE  pcM = "failover" /\ r \in Slots
    BY DEF KilledAreForgotten, Up
  <2>2. At(table[r], "exit0") \/ Told(table[r])
    BY <1>3, <1>4, <1>7, <2>1 DEF At, Follows
  <2>3. QED
    BY <2>1, <2>2 DEF Inv, KilledAreForgotten
<1>12. ChildrenKilled'
  <2>1. SUFFICES ASSUME pcM = "failover", NEW s \in Slots, Live(table[s])'
                 PROVE  Told(table[s])'
    BY <1>6 DEF Inv, ChildrenKilled
  <2>2. Live(table[s]) /\ table'[s] = table[s] /\ table[s] \in Pids
    BY <1>3, <1>4, <2>1 DEF Live, Roles
  <2>3. Told(table[s])
    BY <2>1, <2>2 DEF Inv, ChildrenKilled
  <2>4. QED
    BY <1>4, <1>7, <2>1, <2>2, <2>3 DEF Live, Follows
<1>13. ToldLeave'
  BY <1>4 DEF Inv, ToldLeave, Follows
<1>14. NoRunaway'
  <2>1. ASSUME NEW o \in Pids, Live(o)' PROVE table'[proc'[o].role] = o \/ Told(o)'
    <3>1. proc'[o].role = proc[o].role /\ Live(o) /\ (Told(o) => Told(o)')
      BY <1>4, <1>7, <2>1 DEF Live, Follows
    <3>2. table[proc[o].role] = o \/ Told(o)
      BY <3>1 DEF Inv, NoRunaway
    <3>3. QED
      BY <1>3, <1>4, <3>1, <3>2 DEF Procs
  <2>2. QED
    BY <2>1 DEF NoRunaway
<1>15. QED
  BY <1>2, <1>8, <1>9, <1>10, <1>11, <1>12, <1>13, <1>14 DEF Inv

\* The steps of the children, the PCP process and the worker.
LEMMA ProcessSteps ==
    ASSUME Inv, NEW p \in Pids,
           \/ ChildStep(p) \/ session_begins(p) \/ session_ends(p)
           \/ commit_begins(p) \/ special_exits(p)
    PROVE  Inv'
<1> DEFINE o == proc[p]
<1>1. TypeOK /\ o \in Procs /\ OnItsWay(o) /\ (Up => ~o.exitReq)
  BY DEF Inv, TypeOK, Procs, ToldLeave, NobodyTermed
<1>2. /\ UNCHANGED <<table, switching, exiting, pcM, sems>> /\ Live(p)
      /\ counterSem' \in {"free", "held", "lost"}
  BY <1>1 DEF ChildStep, starts, check_stop_request, do_accept, select_timeout,
         session_begins, session_ends, special_exits, count_lock, connection_count_up,
         connection_count_down, commit_begins, commit_ends, Rest, Quiet, At, Live,
         Running, TypeOK
<1>3. ASSUME NEW s \in Dead, Exits(p, s), Up => s # "exit0" \/ ToldRec(o) PROVE Inv'
  <2>1. proc' = [proc EXCEPT ![p] = Ended(s)] /\ sigchld' \in BOOLEAN
    BY <1>3 DEF Exits
  <2>2. /\ Ended(s) \in Procs /\ Ended(s).st = s /\ ~Ended(s).exitReq
        /\ ~ToldRec(Ended(s))
    BY RecordTypes
  <2>3. s # "free" /\ s \notin Running
    BY DEF Dead, Running
  <2>4. Follows(o, Ended(s))
    BY <1>3, <2>2, <2>3 DEF Follows, OnItsWay
  <2>5. QED
    BY <1>2, <2>1, <2>2, <2>4, ProcessStep
<1>4. ASSUME NEW q \in Procs, Becomes(p, q), Follows(o, q) PROVE Inv'
  <2>1. proc' = [proc EXCEPT ![p] = q] /\ sigchld' \in BOOLEAN
    BY <1>1, <1>4 DEF Becomes, TypeOK
  <2>2. QED
    BY <1>2, <1>4, <2>1, ProcessStep
<1>5. ASSUME NEW s \in {"top", "exit0", "exit1"}, Becomes(p, CountsDown(p, s)),
             Up /\ s = "exit0" => ToldRec(o), ToldRec(o) => s = "exit0"
      PROVE  Inv'
  <2>1. /\ CountsDown(p, s) \in Procs
        /\ CountsDown(p, s) = [o EXCEPT !.st = "down_lock", !.then = s]
    BY <1>1, CountsDownType
  <2>2. Follows(o, CountsDown(p, s))
    BY <1>1, <1>5, <2>1 DEF Follows, OnItsWay, ToldRec, Procs
  <2>3. QED
    BY <1>4, <1>5, <2>1, <2>2
<1>6. ASSUME NEW s \in Dead, child_exit(p, s), Up /\ s = "exit0" => ToldRec(o),
             ToldRec(o) => s = "exit0"
      PROVE  Inv'
  <2>1. CASE proc[p].accepted
    BY <1>5, <1>6, <2>1 DEF child_exit, Dead
  <2>2. CASE ~proc[p].accepted
    BY <1>3, <1>6, <2>2 DEF child_exit
  <2>3. QED
    BY <2>1, <2>2
<1>7. ASSUME NEW s \in Running, Goes(p, s), OnItsWay([o EXCEPT !.st = s]) PROVE Inv'
  <2> DEFINE q == [o EXCEPT !.st = s]
  <2>1. q \in Procs /\ Becomes(p, q)
    BY <1>1, <1>7 DEF Procs, Goes, Becomes
  <2>2. Follows(o, q)
    BY <1>1, <1>7 DEF Follows, ToldRec, Procs, Running
  <2> HIDE DEF q
  <2>3. QED
    BY <1>4, <2>1, <2>2
<1>8. ASSUME NEW s \in Running, Goes(p, s), ~ToldRec(o) PROVE Inv'
  <2>1. OnItsWay([o EXCEPT !.st = s])
    BY <1>1, <1>8 DEF OnItsWay, ToldRec, Procs
  <2>2. QED
    BY <1>7, <1>8, <2>1
<1>9. CASE starts(p) \/ do_accept(p) \/ session_begins(p) \/ commit_begins(p)
  <2>1. ~ToldRec(o)
    BY <1>1, <1>9 DEF starts, do_accept, session_begins, commit_begins, At, OnItsWay
  <2>2. QED
    BY <1>8, <1>9, <2>1 DEF starts, do_accept, session_begins, commit_begins, Running
<1>10. CASE check_stop_request(p)
  <2>1. ~ToldRec(o)
    BY <1>1, <1>10 DEF check_stop_request, At, OnItsWay
  <2>2. CASE proc[p].exitReq /\ child_exit(p, "exit0")
    BY <1>1, <1>6, <2>1, <2>2 DEF Dead
  <2>3. CASE Becomes(p, [proc[p] EXCEPT !.st = "ready", !.accepted = FALSE])
    <3> DEFINE q == [o EXCEPT !.st = "ready", !.accepted = FALSE]
    <3>1. q \in Procs /\ Follows(o, q)
      BY <1>1, <2>1 DEF Procs, Running, Follows, OnItsWay, ToldRec
    <3> HIDE DEF q
    <3>2. QED
      BY <1>4, <2>3, <3>1 DEF q
  <2>4. QED
    BY <1>10, <2>2, <2>3 DEF check_stop_request
<1>11. CASE select_timeout(p)
  <2>1. ~ToldRec(o)
    BY <1>1, <1>11 DEF select_timeout, At, OnItsWay
  <2>2. CASE Exits(p, "exit1")
    BY <1>3, <2>2 DEF Dead
  <2>3. CASE Becomes(p, [proc[p] EXCEPT !.st = "top", !.timed = FALSE])
    <3> DEFINE q == [o EXCEPT !.st = "top", !.timed = FALSE]
    <3>1. q \in Procs /\ Follows(o, q)
      BY <1>1, <2>1 DEF Procs, Running, Follows, OnItsWay, ToldRec
    <3> HIDE DEF q
    <3>2. QED
      BY <1>4, <2>3, <3>1 DEF q
  <2>4. QED
    BY <1>11, <2>2, <2>3 DEF select_timeout
<1>12. CASE count_lock(p)
  <2>1. PICK s \in {"up", "down"} : Goes(p, s) /\ (At(p, "down_lock") => s = "down")
    BY <1>12 DEF count_lock, At
  <2>2. At(p, "up_lock") \/ At(p, "down_lock")
    BY <1>12 DEF count_lock, At
  <2>3. OnItsWay([o EXCEPT !.st = s])
    BY <1>1, <2>1, <2>2 DEF OnItsWay, ToldRec, At, Procs
  <2>4. QED
    BY <1>7, <2>1, <2>3 DEF Running
<1>13. CASE connection_count_up(p)
  <2> DEFINE q == [o EXCEPT !.st = "busy", !.accepted = TRUE]
  <2>1. ~ToldRec(o) /\ Becomes(p, q)
    BY <1>1, <1>13 DEF connection_count_up, At, OnItsWay
  <2>2. q \in Procs /\ Follows(o, q)
    BY <1>1, <2>1 DEF Procs, Running, Follows, OnItsWay, ToldRec
  <2> HIDE DEF q
  <2>3. QED
    BY <1>4, <2>1, <2>2
<1>14. CASE connection_count_down(p)
  <2>1. At(p, "down") /\ (ToldRec(o) => o.then = "exit0")
    BY <1>1, <1>14 DEF connection_count_down, At, OnItsWay
  <2>2. CASE proc[p].then = "top" /\ Goes(p, "top")
    BY <1>8, <2>1, <2>2 DEF Running
  <2>3. CASE proc[p].then # "top" /\ Exits(p, proc[p].then)
    <3>1. o.then \in Dead
      BY <1>1, <2>3 DEF Procs, Dead
    <3>2. QED
      BY <1>3, <2>3, <3>1 DEF ToldRec
  <2>4. QED
    BY <1>14, <2>2, <2>3 DEF connection_count_down
<1>15. CASE session_ends(p)
  <2>1. ~ToldRec(o)
    BY <1>1, <1>15 DEF session_ends, At, OnItsWay
  <2>2. ASSUME NEW s \in {"top", "exit1"},
               Becomes(p, [CountsDown(p, s) EXCEPT !.accepted = FALSE, !.connected = TRUE,
                                                   !.timed = LifeTime])
        PROVE  Inv'
    <3> DEFINE q == [CountsDown(p, s) EXCEPT !.accepted = FALSE, !.connected = TRUE,
                                             !.timed = LifeTime]
    <3>1. /\ CountsDown(p, s) \in Procs
          /\ CountsDown(p, s) = [o EXCEPT !.st = "down_lock", !.then = s]
      BY <1>1, CountsDownType
    <3>2. q = [o EXCEPT !.st = "down_lock", !.then = s, !.accepted = FALSE,
                        !.connected = TRUE, !.timed = LifeTime]
      BY <1>1, <3>1 DEF Procs
    <3>3. q \in Procs
      BY <1>1, <3>1, TableAssumption DEF Procs
    <3>4. /\ q.st = "down_lock" /\ q.role = o.role /\ q.then = s
          /\ q.pending = o.pending /\ q.exitReq = o.exitReq
      BY <1>1, <3>2 DEF Procs
    <3> HIDE DEF q
    <3>5. ~ToldRec(q)
      BY <2>1, <3>4 DEF ToldRec
    <3>6. Follows(o, q)
      BY <1>1, <2>1, <3>4, <3>5 DEF Follows, OnItsWay
    <3>7. QED
      BY <1>4, <2>2, <3>3, <3>6 DEF q
  <2>3. CASE Becomes(p, CountsDown(p, "top"))
    BY <1>5, <2>1, <2>3
  <2>4. CASE Goes(p, "top")
    BY <1>8, <2>1, <2>4 DEF Running
  <2>5. CASE child_exit(p, "exit1")
    BY <1>6, <2>1, <2>5 DEF Dead
  <2>6. QED
    BY <1>15, <2>2, <2>3, <2>4, <2>5 DEF session_ends
<1>16. CASE commit_ends(p)
  <2>1. At(p, "commit") /\ (ToldRec(o) => o.pending)
    BY <1>1, <1>16 DEF commit_ends, At, OnItsWay
  <2>2. CASE proc[p].pending /\ child_exit(p, "exit0")
    BY <1>6, <2>2 DEF Dead, ToldRec
  <2>3. CASE ~proc[p].pending /\ Goes(p, "busy")
    BY <1>8, <2>1, <2>3 DEF Running
  <2>4. QED
    BY <1>16, <2>2, <2>3 DEF commit_ends
<1>17. CASE special_exits(p)
  BY <1>3, <1>17 DEF special_exits, Dead
<1>18. QED
  BY <1>9, <1>10, <1>11, <1>12, <1>13, <1>14, <1>15, <1>16, <1>17 DEF ChildStep

-----------------------------------------------------------------------------
(* The parent.                                                             *)

\* The types, taken apart.
LEMMA Types ==
    ASSUME TypeOK
    PROVE  /\ \A p \in Pids : proc[p] \in Procs
           /\ \A r \in Roles : table[r] \in Pids
           /\ Slots \subseteq Roles
  BY DEF TypeOK, Procs, Roles

\* SIGQUIT or SIGINT: whoever it ends has status 0, and whoever lives on was
\* told to exit and keeps its role.
LEMMA KillProperties ==
    ASSUME TypeOK, ToldLeave, NEW S, KilledBy(S)
    PROVE  /\ proc' \in [Pids -> Procs] /\ counterSem' \in {"free", "held", "lost"}
           /\ \A p \in Pids :
                 IF p \in S /\ Live(p)
                 THEN /\ OnItsWay(proc'[p]) /\ proc'[p].st # "free"
                      /\ proc'[p].exitReq => proc[p].exitReq
                      /\ Live(p)' => /\ proc'[p].role = proc[p].role
                                     /\ ToldRec(proc'[p])
                 ELSE proc'[p] = proc[p]
<1>1. Ended("exit0") \in Procs /\ Ended("exit0").st = "exit0" /\ ~Ended("exit0").exitReq
      /\ ~ToldRec(Ended("exit0"))
  BY RecordTypes DEF Dead
<1>2. ASSUME NEW p \in Pids, Live(p)
      PROVE  /\ Killed(p) \in Procs /\ OnItsWay(Killed(p)) /\ Killed(p).st # "free"
             /\ Killed(p).exitReq => proc[p].exitReq
             /\ Killed(p).st \in Running => /\ Killed(p).role = proc[p].role
                                            /\ ToldRec(Killed(p))
  <2>1. proc[p] \in Procs
    BY Types
  <2>2. CASE At(p, "commit")
    <3>1. Killed(p) = [proc[p] EXCEPT !.pending = TRUE]
      BY <2>2 DEF Killed
    <3>2. QED
      BY <2>1, <2>2, <3>1 DEF Procs, At, OnItsWay, ToldRec
  <2>3. CASE ~At(p, "commit") /\ proc[p].accepted
    <3>1. Killed(p) = [proc[p] EXCEPT !.st = "down_lock", !.then = "exit0"]
      BY <2>3 DEF Killed, CountsDown
    <3>2. QED
      BY <2>1, <3>1 DEF Procs, Running, OnItsWay, ToldRec
  <2>4. CASE ~At(p, "commit") /\ ~proc[p].accepted
    <3>1. Killed(p) = Ended("exit0")
      BY <2>4 DEF Killed
    <3>2. QED
      BY <1>1, <3>1 DEF OnItsWay, Running
  <2>5. QED
    BY <2>1, <2>2, <2>3, <2>4 DEF Procs
<1>3. /\ proc' = [p \in Pids |-> IF p \in S /\ Live(p) THEN Killed(p) ELSE proc[p]]
      /\ counterSem' \in {"free", "held", "lost"}
  BY DEF KilledBy, TypeOK
<1>4. proc' \in [Pids -> Procs]
  BY <1>2, <1>3, Types
<1>5. \A p \in Pids : Live(p)' <=> proc'[p].st \in Running
  BY DEF Live
<1>6. QED
  BY <1>2, <1>3, <1>4, <1>5

\* SIGQUIT to the children: whoever runs on is no child or was told to exit,
\* and the entries of the PCP process and the worker name nobody that was
\* killed.
LEMMA FailoverKill == ASSUME Inv, failover_kill PROVE Inv'
<1> DEFINE S == {table[s] : s \in Slots}
<1>1. /\ pcM = "loop" /\ pcM' = "failover" /\ switching' = TRUE
      /\ Cardinality(Free) >= Cardinality(Slots)
      /\ KilledBy(S) /\ UNCHANGED <<table, exiting>>
      /\ sems' = (sems /\ NoneStarting(S))
      /\ sigchld' = (sigchld \/ \E p \in S : Live(p) /\ Killed(p).st = "exit0")
  BY DEF failover_kill
<1>2. TypeOK /\ ToldLeave
  BY DEF Inv
<1>3. /\ proc' \in [Pids -> Procs] /\ counterSem' \in {"free", "held", "lost"}
      /\ \A p \in Pids :
            IF p \in S /\ Live(p)
            THEN /\ OnItsWay(proc'[p]) /\ proc'[p].st # "free"
                 /\ proc'[p].exitReq => proc[p].exitReq
                 /\ Live(p)' => proc'[p].role = proc[p].role /\ ToldRec(proc'[p])
            ELSE proc'[p] = proc[p]
  BY <1>1, <1>2, KillProperties
<1>4. /\ \A p \in Pids : Told(p) <=> ToldRec(proc[p])
      /\ \A p \in Pids : Told(p)' <=> ToldRec(proc'[p])
  BY DEF Told, ToldRec
<1>5. TypeOK'
  <2>1. sems' \in BOOLEAN
    BY <1>1, <1>2 DEF TypeOK, NoneStarting
  <2>2. sigchld' \in BOOLEAN
    BY <1>1, <1>2 DEF TypeOK, Live
  <2>3. QED
    BY <1>1, <1>2, <1>3, <2>1, <2>2 DEF TypeOK, Procs
<1>6. /\ \A r \in Roles : table'[r] = table[r] /\ table[r] \in Pids
      /\ \A r \in Specials : table[r] \notin S
      /\ Up /\ Slots \subseteq Roles /\ Specials \subseteq Roles
  <2>1. Up /\ \A r \in Roles : table'[r] = table[r] /\ table[r] \in Pids
    BY <1>1, <1>2 DEF Up, TypeOK
  <2>2. Slots \subseteq Roles /\ Specials \subseteq Roles /\ Slots \cap Specials = {}
    BY TableAssumption DEF Roles
  <2>3. \A r \in Specials : table[r] \notin S
    BY <2>1, <2>2 DEF Inv, TableInjective
  <2>4. QED
    BY <2>1, <2>2, <2>3
<1>7. \A p \in Pids : Live(p) => ~At(p, "free")
  BY DEF Live, At, Running
<1>8. Free' = Free
  BY <1>3, <1>7 DEF Free, At
<1>9. SwitchingMarked' /\ TableInjective'
  BY <1>1, <1>6 DEF Inv, SwitchingMarked, TableInjective, Up
<1>10. TableNamesProcesses' /\ NobodyTermed'
  BY <1>1, <1>3, <1>6 DEF Inv, TableNamesProcesses, NobodyTermed, Up, At
<1>11. ToldLeave'
  BY <1>2, <1>3 DEF ToldLeave
<1>12. KilledAreForgotten'
  <2>1. ASSUME NEW r \in Roles, At(table[r], "exit0")' \/ Told(table[r])'
        PROVE  r \in Slots
    <3>1. CASE r \in Specials
      <4>1. proc'[table[r]] = proc[table[r]] /\ table'[r] = table[r] /\ table[r] \in Pids
        BY <1>3, <1>6, <3>1
      <4>2. At(table[r], "exit0") \/ Told(table[r])
        BY <1>4, <2>1, <4>1 DEF At
      <4>3. QED
        BY <1>1, <1>6, <4>2 DEF Inv, KilledAreForgotten
    <3>2. QED
      BY <3>1 DEF Roles
  <2>2. QED
    BY <1>1, <2>1 DEF KilledAreForgotten
<1>13. ChildrenKilled'
  <2>1. ASSUME NEW s \in Slots, Live(table[s])' PROVE Told(table[s])'
    <3>1. table[s] \in S /\ table'[s] = table[s] /\ table[s] \in Pids
      BY <1>6
    <3>2. Live(table[s])
      BY <1>3, <2>1, <3>1 DEF Live
    <3>3. QED
      BY <1>3, <1>4, <2>1, <3>1, <3>2
  <2>2. QED
    BY <1>1, <1>8, <2>1 DEF ChildrenKilled
<1>14. NoRunaway'
  <2>1. ASSUME NEW p \in Pids, Live(p)' PROVE table'[proc'[p].role] = p \/ Told(p)'
    <3>1. CASE p \in S /\ Live(p)
      BY <1>3, <1>4, <2>1, <3>1
    <3>2. CASE ~(p \in S /\ Live(p))
      <4>1. proc'[p] = proc[p] /\ Live(p) /\ proc[p].role \in Roles
        BY <1>2, <1>3, <2>1, <3>2, Types DEF Live, Procs
      <4>2. table[proc[p].role] = p \/ Told(p)
        BY <4>1 DEF Inv, NoRunaway
      <4>3. QED
        BY <1>4, <1>6, <4>1, <4>2
    <3>3. QED
      BY <3>1, <3>2
  <2>2. QED
    BY <2>1 DEF NoRunaway
<1>15. QED
  BY <1>5, <1>9, <1>10, <1>11, <1>12, <1>13, <1>14 DEF Inv

\* A fork for every slot.  The ids are free, so no running process and no
\* other entry is touched; the old children, which the table forgets, are dead.
LEMMA FailoverFork == ASSUME Inv, failover_fork PROVE Inv'
<1> DEFINE f == SomeFork(Slots, Free)
<1>1. /\ pcM = "failover" /\ pcM' = "loop" /\ switching' = FALSE
      /\ table' = [r \in Roles |-> IF r \in Slots THEN f[r] ELSE table[r]]
      /\ proc' = [p \in Pids |-> IF p \in Forked(f) THEN New(RoleOf(f, p)) ELSE proc[p]]
      /\ UNCHANGED <<sigchld, exiting, sems, counterSem>>
  BY DEF failover_fork
<1>2. TypeOK /\ Up
  BY <1>1 DEF Inv, Up
<1>3. /\ f \in [Slots -> Free]
      /\ \A a, b \in Slots : f[a] = f[b] => a = b
      /\ \A s \in Slots : f[s] \in Forked(f)
      /\ \A p \in Forked(f) : RoleOf(f, p) \in Slots /\ f[RoleOf(f, p)] = p /\ p \in Free
  <2>1. Free \in SUBSET Pids
    BY DEF Free
  <2>2. IsFiniteSet(Free) /\ IsFiniteSet(Slots)
    BY <2>1, TableAssumption, FS_Subset
  <2>3. Cardinality(Free) >= Cardinality(Slots)
    BY <1>1 DEF Inv, ChildrenKilled
  <2>4. Forks(Slots, Free) # {}
    BY <2>2, <2>3, ForksExist
  <2>5. QED
    BY <2>4, ForkProperties
<1> HIDE DEF f
<1>4. /\ \A p \in Pids : p \in Free <=> At(p, "free")
      /\ \A p \in Free : p \in Pids /\ ~Live(p)
  BY DEF Free, At, Live, Running
<1>5. /\ \A r \in Roles : table[r] \in Pids /\ table[r] \notin Free
      /\ Slots \subseteq Roles
      /\ \A s \in Slots : table'[s] = f[s] /\ f[s] \in Free
      /\ \A r \in Roles \ Slots : table'[r] = table[r]
  BY <1>1, <1>2, <1>3, <1>4, Types DEF Inv, TableNamesProcesses
<1>6. /\ \A p \in Pids \ Forked(f) : proc'[p] = proc[p]
      /\ \A p \in Forked(f) : /\ proc'[p] = New(RoleOf(f, p)) /\ proc'[p] \in Procs
                              /\ proc'[p].st = "starting" /\ ~proc'[p].exitReq
                              /\ proc'[p].role = RoleOf(f, p) /\ ~ToldRec(proc'[p])
      /\ \A p \in Pids : Told(p) <=> ToldRec(proc[p])
      /\ \A p \in Pids : Told(p)' <=> ToldRec(proc'[p])
  <2>1. /\ \A p \in Pids : Told(p) <=> ToldRec(proc[p])
        /\ \A p \in Pids : Told(p)' <=> ToldRec(proc'[p])
    BY DEF Told, ToldRec
  <2>2. QED
    BY <1>1, <1>3, <1>4, <1>5, <2>1, RecordTypes
<1>7. TypeOK'
  <2>1. proc' \in [Pids -> Procs]
    BY <1>1, <1>2, <1>6, Types
  <2>2. table' \in [Roles -> Pids]
    BY <1>1, <1>4, <1>5
  <2>3. QED
    BY <1>1, <1>2, <2>1, <2>2 DEF TypeOK, Procs
<1>8. SwitchingMarked' /\ ChildrenKilled'
  BY <1>1 DEF SwitchingMarked, ChildrenKilled
<1>9. TableInjective'
  BY <1>2, <1>3, <1>5 DEF Inv, TableInjective
<1>10. \A r \in Roles \ Slots : table[r] \notin Forked(f) /\ proc'[table[r]] = proc[table[r]]
  BY <1>3, <1>5, <1>6
<1>11. TableNamesProcesses'
  BY <1>2, <1>3, <1>5, <1>6, <1>10 DEF Inv, TableNamesProcesses, At
<1>12. NobodyTermed'
  BY <1>2, <1>6 DEF Inv, NobodyTermed
<1>13. KilledAreForgotten'
  <2>1. SUFFICES ASSUME NEW r \in Roles PROVE ~At(table[r], "exit0")' /\ ~Told(table[r])'
    BY DEF KilledAreForgotten
  <2>2. CASE r \in Slots
    <3>1. table'[r] \in Forked(f) /\ table'[r] \in Pids
      BY <1>3, <1>4, <1>5, <2>2
    <3>2. QED
      BY <1>6, <3>1 DEF At
  <2>3. CASE r \notin Slots
    <3>1. /\ table'[r] = table[r] /\ table[r] \in Pids
          /\ proc'[table[r]] = proc[table[r]]
      BY <1>5, <1>10, <2>3
    <3>2. ~At(table[r], "exit0") /\ ~Told(table[r])
      BY <1>2, <2>3 DEF Inv, KilledAreForgotten
    <3>3. QED
      BY <1>6, <3>1, <3>2 DEF At
  <2>4. QED
    BY <2>2, <2>3
<1>14. NoRunaway'
  <2>1. ASSUME NEW p \in Pids, Live(p)' PROVE table'[proc'[p].role] = p \/ Told(p)'
    <3>1. CASE p \in Forked(f)
      BY <1>3, <1>5, <1>6, <3>1
    <3>2. CASE p \notin Forked(f)
      <4>1. proc'[p] = proc[p] /\ Live(p) /\ proc[p].role \in Roles
        BY <1>2, <1>6, <2>1, <3>2, Types DEF Live, Procs
      <4>2. CASE Told(p)
        BY <1>6, <4>1, <4>2
      <4>3. CASE ~Told(p)
        <5>1. table[proc[p].role] = p
          BY <4>1, <4>3 DEF Inv, NoRunaway
        <5>2. proc[p].role \notin Slots
          BY <1>1, <4>1, <4>3, <5>1 DEF Inv, ChildrenKilled
        <5>3. QED
          BY <1>5, <4>1, <5>1, <5>2
      <4>4. QED
        BY <4>2, <4>3
    <3>3. QED
      BY <3>1, <3>2
  <2>2. QED
    BY <2>1 DEF NoRunaway
<1>15. ToldLeave'
  BY <1>3, <1>4, <1>6 DEF Inv, ToldLeave, OnItsWay
<1>16. QED
  BY <1>7, <1>8, <1>9, <1>11, <1>12, <1>13, <1>14, <1>15 DEF Inv

\* reaper(): the table itself shows that there is a way to fork the
\* replacements.  Whoever is reaped and in the table is replaced, so no entry
\* is left behind that names an id which may be used again.
LEMMA Reaps == ASSUME Inv, reaper PROVE Inv'
<1>1. /\ pcM \in {"loop", "failover"} /\ ~switching
      /\ UNCHANGED <<switching, exiting, pcM, sems, counterSem>> /\ sigchld' = FALSE
  BY DEF reaper, ReaperForks
<1>2. TypeOK /\ Up /\ pcM = "loop"
  BY <1>1 DEF Inv, Up, SwitchingMarked
<1>3. PICK R \in Reapable :
        LET g == SomeFork(Replaced(R), Free \cup R) IN
        /\ table' = TableAfter(R, g)
        /\ proc' = [p \in Pids |-> IF p \in Forked(g) THEN New(RoleOf(g, p))
                                   ELSE IF p \in R THEN Ended("free") ELSE proc[p]]
  BY DEF reaper
<1> DEFINE f == SomeFork(Replaced(R), Free \cup R)
           D == Replaced(R)
<1>4. R \subseteq Zombies
  BY DEF Reapable
<1>5. /\ \A p \in R : p \in Pids /\ ~Live(p)
      /\ \A p \in Pids : p \in Free <=> At(p, "free")
      /\ \A p \in Free : p \in Pids /\ ~Live(p)
  BY <1>4 DEF Zombies, Live, Running, Dead, Free, At
<1>6. D \subseteq Roles /\ \A r \in Roles : table[r] \in R <=> r \in D
  <2>1. D \subseteq Roles /\ \A r \in D : table[r] \in R
    BY DEF Replaced
  <2>2. ASSUME NEW r \in Roles, table[r] \in R PROVE r \in D
    <3>1. proc[table[r]].st \in Dead
      BY <1>4, <2>2 DEF Zombies
    <3>2. ~At(table[r], "exit0")
      BY <1>2 DEF Inv, KilledAreForgotten
    <3>3. At(table[r], "exit1")
      BY <3>1, <3>2 DEF Dead, At
    <3>4. QED
      BY <2>2, <3>3 DEF Replaced
  <2>3. QED
    BY <2>1, <2>2
<1>7. /\ f \in [D -> Free \cup R]
      /\ \A a, b \in D : f[a] = f[b] => a = b
      /\ \A r \in D : f[r] \in Forked(f)
      /\ \A p \in Forked(f) : RoleOf(f, p) \in D /\ f[RoleOf(f, p)] = p /\ p \in Free \cup R
  <2> DEFINE ids == Free \cup R
  <2>1. [r \in D |-> table[r]] \in Forks(D, ids)
    <3> HIDE DEF D
    <3>1. QED
      BY <1>2, <1>6 DEF Inv, TableInjective, Forks
  <2>2. Forks(D, ids) # {}
    BY <2>1
  <2>3. f = SomeFork(D, ids)
    OBVIOUS
  <2> HIDE DEF f, D, ids
  <2>4. /\ f \in [D -> ids]
        /\ \A a, b \in D : f[a] = f[b] => a = b
        /\ \A r \in D : f[r] \in Forked(f)
        /\ \A p \in Forked(f) : RoleOf(f, p) \in D /\ f[RoleOf(f, p)] = p /\ p \in ids
    BY <2>2, <2>3, ForkProperties
  <2>5. QED
    BY <2>4 DEF ids
<1>8. /\ table' = TableAfter(R, f)
      /\ proc' = [p \in Pids |-> IF p \in Forked(f) THEN New(RoleOf(f, p))
                                 ELSE IF p \in R THEN Ended("free") ELSE proc[p]]
  BY <1>3
<1> HIDE DEF f, D
<1>9. /\ \A r \in Roles : table[r] \in Pids /\ table[r] \notin Free
      /\ \A r \in D : table'[r] = f[r] /\ f[r] \in Free \cup R
      /\ \A r \in Roles \ D : table'[r] = table[r] /\ table[r] \notin R
  BY <1>2, <1>5, <1>6, <1>7, <1>8, Types DEF Inv, TableNamesProcesses, TableAfter
<1>10. /\ Ended("free") \in Procs /\ Ended("free").st = "free"
       /\ ~Ended("free").exitReq /\ ~ToldRec(Ended("free"))
  BY RecordTypes
<1>11. /\ \A p \in Pids : p \notin Forked(f) /\ p \notin R => proc'[p] = proc[p]
       /\ \A p \in R \ Forked(f) : proc'[p] = Ended("free")
       /\ \A p \in Forked(f) : /\ proc'[p] = New(RoleOf(f, p)) /\ proc'[p] \in Procs
                               /\ proc'[p].st = "starting" /\ ~proc'[p].exitReq
                               /\ proc'[p].role = RoleOf(f, p) /\ ~ToldRec(proc'[p])
       /\ \A p \in Pids : Told(p) <=> ToldRec(proc[p])
       /\ \A p \in Pids : Told(p)' <=> ToldRec(proc'[p])
  <2>1. /\ \A p \in Pids : Told(p) <=> ToldRec(proc[p])
        /\ \A p \in Pids : Told(p)' <=> ToldRec(proc'[p])
    BY DEF Told, ToldRec
  <2>2. QED
    BY <1>5, <1>6, <1>7, <1>8, <2>1, RecordTypes
<1>12. TypeOK'
  <2>1. proc' \in [Pids -> Procs]
    BY <1>2, <1>8, <1>10, <1>11, Types
  <2>2. table' \in [Roles -> Pids]
    BY <1>5, <1>6, <1>8, <1>9 DEF TableAfter
  <2>3. QED
    BY <1>1, <1>2, <2>1, <2>2 DEF TypeOK, Procs
<1>13. SwitchingMarked' /\ ChildrenKilled'
  BY <1>1, <1>2 DEF Inv, SwitchingMarked, ChildrenKilled
<1>14. TableInjective'
  BY <1>2, <1>6, <1>7, <1>9 DEF Inv, TableInjective
<1>15. \A r \in Roles \ D : table[r] \notin Forked(f) /\ proc'[table[r]] = proc[table[r]]
  BY <1>7, <1>9, <1>11
<1>16. TableNamesProcesses'
  BY <1>2, <1>6, <1>7, <1>9, <1>11, <1>15 DEF Inv, TableNamesProcesses, At
<1>17. NobodyTermed'
  BY <1>2, <1>10, <1>11 DEF Inv, NobodyTermed
<1>18. KilledAreForgotten'
  <2>1. SUFFICES ASSUME NEW r \in Roles PROVE ~At(table[r], "exit0")' /\ ~Told(table[r])'
    BY DEF KilledAreForgotten
  <2>2. CASE r \in D
    <3>1. table'[r] \in Forked(f) /\ table'[r] \in Pids
      BY <1>5, <1>7, <1>9, <2>2
    <3>2. QED
      BY <1>11, <3>1 DEF At
  <2>3. CASE r \notin D
    <3>1. /\ table'[r] = table[r] /\ table[r] \in Pids
          /\ proc'[table[r]] = proc[table[r]]
      BY <1>9, <1>15, <2>3
    <3>2. ~At(table[r], "exit0") /\ ~Told(table[r])
      BY <1>2 DEF Inv, KilledAreForgotten
    <3>3. QED
      BY <1>11, <3>1, <3>2 DEF At
  <2>4. QED
    BY <2>2, <2>3
<1>19. NoRunaway'
  <2>1. ASSUME NEW p \in Pids, Live(p)' PROVE table'[proc'[p].role] = p \/ Told(p)'
    <3>1. CASE p \in Forked(f)
      BY <1>7, <1>9, <1>11, <3>1
    <3>2. CASE p \notin Forked(f)
      <4>1. p \notin R
        BY <1>10, <1>11, <2>1, <3>2 DEF Live, Running
      <4>2. proc'[p] = proc[p] /\ Live(p) /\ proc[p].role \in Roles
        BY <1>2, <1>11, <2>1, <3>2, <4>1, Types DEF Live, Procs
      <4>3. table[proc[p].role] = p \/ Told(p)
        BY <4>2 DEF Inv, NoRunaway
      <4>4. QED
        BY <1>6, <1>9, <1>11, <4>1, <4>2, <4>3
    <3>3. QED
      BY <3>1, <3>2
  <2>2. QED
    BY <2>1 DEF NoRunaway
<1>20. ToldLeave'
  BY <1>10, <1>11 DEF Inv, ToldLeave, OnItsWay
<1>21. QED
  BY <1>12, <1>13, <1>14, <1>16, <1>17, <1>18, <1>19, <1>20 DEF Inv

\* A shutdown starts: processes may end, take note or be told to exit, and
\* keep their roles.
LEMMA ExitHandler == ASSUME Inv, exit_handler PROVE Inv'
<1>1. /\ pcM = "loop" /\ pcM' = "waiting" /\ exiting' = TRUE
      /\ \/ proc' = TermedBy(Signalled) /\ UNCHANGED counterSem
         \/ KilledBy(Signalled)
      /\ sems' = (sems /\ NoneStarting(Signalled)) /\ sigchld' = TRUE
      /\ UNCHANGED <<table, switching>>
  BY DEF exit_handler
<1>2. TypeOK /\ ToldLeave /\ ~switching
  BY <1>1 DEF Inv, SwitchingMarked
<1>3. /\ Ended("exit0") \in Procs /\ Ended("exit0").st = "exit0"
      /\ ~ToldRec(Ended("exit0"))
  BY RecordTypes DEF Dead
<1>4. /\ proc' \in [Pids -> Procs] /\ counterSem' \in {"free", "held", "lost"}
      /\ \A p \in Pids : /\ OnItsWay(proc'[p])
                         /\ Live(p)' => /\ Live(p) /\ proc'[p].role = proc[p].role
                                        /\ ToldRec(proc[p]) => ToldRec(proc'[p])
  <2>1. CASE proc' = TermedBy(Signalled) /\ UNCHANGED counterSem
    <3> DEFINE q(p) == [proc[p] EXCEPT !.exitReq = TRUE, !.st = IF @ = "select" THEN "top" ELSE @]
    <3>1. ASSUME NEW p \in Pids
          PROVE  /\ q(p) \in Procs /\ q(p).role = proc[p].role
                 /\ ToldRec(q(p)) <=> ToldRec(proc[p])
      <4>1. proc[p] \in Procs
        BY <1>2, Types
      <4>2. q(p) \in Procs
        BY <4>1 DEF Procs, Running
      <4>3. /\ q(p).role = proc[p].role /\ q(p).then = proc[p].then
            /\ q(p).pending = proc[p].pending
        BY <4>1 DEF Procs
      <4> HIDE DEF q
      <4>4. QED
        BY <4>2, <4>3 DEF ToldRec
    <3>2. \A p \in Pids : OnItsWay(q(p))
      BY <1>2, Types DEF Procs, ToldRec, ToldLeave, OnItsWay
    <3>3. \A p \in Pids : proc'[p] = proc[p] \/ (proc'[p] = Ended("exit0"))
                          \/ (Live(p) /\ proc'[p] = q(p))
      BY <2>1 DEF TermedBy
    <3>4. proc' = [p \in Pids |-> proc'[p]]
      BY <2>1 DEF TermedBy
    <3> HIDE DEF q
    <3>5. \A p \in Pids : proc'[p] \in Procs
      BY <1>2, <1>3, <3>1, <3>3, Types
    <3>6. \A p \in Pids : Live(p)' => /\ Live(p) /\ proc'[p].role = proc[p].role
                                      /\ ToldRec(proc[p]) => ToldRec(proc'[p])
      BY <1>3, <3>1, <3>3 DEF Live, Running
    <3>7. \A p \in Pids : OnItsWay(proc'[p])
      BY <1>2, <1>3, <3>2, <3>3 DEF ToldLeave, OnItsWay
    <3>8. counterSem' \in {"free", "held", "lost"}
      BY <1>2, <2>1 DEF TypeOK
    <3>9. QED
      BY <3>4, <3>5, <3>6, <3>7, <3>8
  <2>2. CASE KilledBy(Signalled)
    <3>1. /\ proc' \in [Pids -> Procs] /\ counterSem' \in {"free", "held", "lost"}
          /\ \A p \in Pids :
                IF p \in Signalled /\ Live(p)
                THEN /\ OnItsWay(proc'[p])
                     /\ Live(p)' => proc'[p].role = proc[p].role /\ ToldRec(proc'[p])
                ELSE proc'[p] = proc[p]
      BY <1>2, <2>2, KillProperties
    <3>2. QED
      BY <1>2, <3>1 DEF ToldLeave, Live
  <2>3. QED
    BY <1>1, <2>1, <2>2
<1>5. TypeOK'
  <2>1. sems' \in BOOLEAN
    BY <1>1, <1>2 DEF TypeOK, NoneStarting
  <2>2. QED
    BY <1>1, <1>2, <1>4, <2>1 DEF TypeOK, Procs
<1>6. NoRunaway'
  <2>1. \A p \in Pids : (Told(p) <=> ToldRec(proc[p])) /\ (Told(p)' <=> ToldRec(proc'[p]))
    BY DEF Told, ToldRec
  <2>2. QED
    BY <1>1, <1>4, <2>1 DEF Inv, NoRunaway
<1>7. ~Up' /\ pcM' # "failover" /\ switching' = FALSE
  BY <1>1, <1>2 DEF Up, TypeOK
<1>8. ToldLeave'
  BY <1>4 DEF ToldLeave
<1>9. QED
  BY <1>5, <1>6, <1>7, <1>8 DEF Inv, SwitchingMarked, TableInjective, TableNamesProcesses,
     NobodyTermed, KilledAreForgotten, ChildrenKilled

\* Every step of pgpool keeps the invariant.
LEMMA NextInv == Inv /\ [Next]_vars => Inv'
<1>1. SUFFICES ASSUME Inv, [Next]_vars PROVE Inv'
  OBVIOUS
<1>2. CASE wait_all
  <2>1. Ended("free") \in Procs /\ Ended("free").st = "free" /\ ~ToldRec(Ended("free"))
    BY RecordTypes
  <2>2. TypeOK'
    BY <1>1, <1>2, <2>1 DEF Inv, TypeOK, wait_all, Procs
  <2>3. \A p \in Pids : ~Live(p)'
    BY <1>2, <2>1 DEF wait_all, Live, Running
  <2>4. pcM' = "gone" /\ ~switching'
    BY <1>1, <1>2 DEF wait_all, Inv, SwitchingMarked
  <2>5. ToldLeave'
    BY <1>2, <2>1 DEF wait_all, ToldLeave, OnItsWay
  <2>6. QED
    BY <2>2, <2>3, <2>4, <2>5 DEF Inv, SwitchingMarked, TableInjective, TableNamesProcesses,
       NobodyTermed, KilledAreForgotten, ChildrenKilled, NoRunaway, Up
<1>3. CASE UNCHANGED vars
  BY <1>1, <1>3 DEF vars, Inv, TypeOK, SwitchingMarked, TableInjective,
     TableNamesProcesses, NobodyTermed, KilledAreForgotten, ChildrenKilled, ToldLeave,
     OnItsWay, ToldRec, NoRunaway, Told, Up, At, Live, Free
<1>4. QED
  BY <1>1, <1>2, <1>3, ProcessSteps, FailoverKill, FailoverFork, Reaps, ExitHandler
  DEF Next

\* main() has forked everybody.
LEMMA InitInv == Init => Inv
<1>1. SUFFICES ASSUME Init PROVE Inv
  OBVIOUS
<1> DEFINE f == SomeFork(Roles, Pids)
           top(r) == [New(r) EXCEPT !.st = "top"]
<1>2. /\ table = f
      /\ proc = [p \in Pids |-> IF p \in Forked(f) THEN top(RoleOf(f, p)) ELSE Ended("free")]
      /\ ~sigchld /\ ~switching /\ ~exiting /\ pcM = "loop" /\ sems /\ counterSem = "free"
      /\ sigchld \in BOOLEAN /\ switching \in BOOLEAN /\ exiting \in BOOLEAN /\ sems \in BOOLEAN
  BY <1>1 DEF Init
<1>3. /\ f \in [Roles -> Pids]
      /\ \A a, b \in Roles : f[a] = f[b] => a = b
      /\ \A r \in Roles : f[r] \in Forked(f)
      /\ \A p \in Forked(f) : RoleOf(f, p) \in Roles /\ f[RoleOf(f, p)] = p /\ p \in Pids
  <2>1. Forks(Roles, Pids) # {}
    BY RolesFinite, TableAssumption, ForksExist
  <2>2. QED
    BY <2>1, ForkProperties
<1>4. \A r \in Roles : /\ top(r) \in Procs /\ top(r).st = "top"
                       /\ top(r).role = r /\ ~top(r).exitReq /\ ~ToldRec(top(r))
  BY TableAssumption DEF New, Procs, Running, ToldRec
<1>5. /\ Ended("free") \in Procs /\ Ended("free").st = "free"
      /\ ~Ended("free").exitReq /\ ~ToldRec(Ended("free"))
  BY RecordTypes
<1> HIDE DEF f, top
<1>6. /\ \A p \in Forked(f) : /\ proc[p] \in Procs /\ proc[p].st = "top"
                              /\ proc[p].role = RoleOf(f, p) /\ ~proc[p].exitReq
                              /\ ~ToldRec(proc[p])
      /\ \A p \in Pids \ Forked(f) : proc[p] = Ended("free")
      /\ \A p \in Pids : ~Told(p) /\ ~ToldRec(proc[p])
  <2>1. /\ \A p \in Forked(f) : /\ proc[p] \in Procs /\ proc[p].st = "top"
                                /\ proc[p].role = RoleOf(f, p) /\ ~proc[p].exitReq
                                /\ ~ToldRec(proc[p])
        /\ \A p \in Pids \ Forked(f) : proc[p] = Ended("free")
    BY <1>2, <1>3, <1>4
  <2>2. \A p \in Pids : ~ToldRec(proc[p])
    BY <1>5, <2>1
  <2>3. \A p \in Pids : Told(p) <=> ToldRec(proc[p])
    BY DEF Told, ToldRec
  <2>4. QED
    BY <2>1, <2>2, <2>3
<1>7. TypeOK
  <2>1. proc \in [Pids -> Procs]
    BY <1>2, <1>5, <1>6
  <2>2. QED
    BY <1>2, <1>3, <2>1 DEF TypeOK, Procs
<1>8. SwitchingMarked /\ TableInjective /\ ChildrenKilled
  BY <1>2, <1>3 DEF SwitchingMarked, TableInjective, ChildrenKilled
<1>9. TableNamesProcesses /\ NobodyTermed /\ KilledAreForgotten
  BY <1>2, <1>3, <1>5, <1>6 DEF TableNamesProcesses, NobodyTermed, KilledAreForgotten, At
<1>10. NoRunaway
  BY <1>2, <1>3, <1>5, <1>6 DEF NoRunaway, Live, Running
<1>11. ToldLeave
  BY <1>6 DEF ToldLeave, OnItsWay
<1>12. QED
  BY <1>7, <1>8, <1>9, <1>10, <1>11 DEF Inv

\* Every variable keeps its type: in particular every entry of process_info,
\* pcp_pid and worker_pid always is a process id that fork() could return.
THEOREM TypeCorrect == Spec => []TypeOK
<1>1. Inv => TypeOK
  BY DEF Inv
<1>2. QED
  BY <1>1, InitInv, NextInv, PTL DEF Spec

\* No process is ever lost: whatever the order of failovers, exits, reaping
\* and a shutdown, every process that runs is in the parent's table under its
\* role, so the next SIGQUIT or SIGTERM reaches it, or has been sent SIGQUIT or
\* SIGINT and serves no client any more.  Such a child may count its client
\* out or send its last COMMITs while its successor already runs.
THEOREM NobodyRunsAway == Spec => []NoRunaway
<1>1. Inv => NoRunaway
  BY DEF Inv
<1>2. QED
  BY <1>1, InitInv, NextInv, PTL DEF Spec
=============================================================================
