------------------------ MODULE ExtendedQuery_proofs ------------------------
(***************************************************************************)
(* Proofs about a session in the extended protocol, for any number of      *)
(* nodes and portals, any statements and any length of the session.        *)
(***************************************************************************)
EXTENDS ExtendedQuery, NumberFacts, FiniteSetTheorems, SequenceTheorems, TLAPS

-----------------------------------------------------------------------------
(* The session context by itself.                                          *)

\* The contexts the listed messages use.
Users(ss) == {m.qc : m \in ss.list}

\* A statement has a statement name, a portal a portal name.
Named(m) == \/ m.kind \in {"P", "Q"} /\ m.name \in Names
            \/ m.kind = "B" /\ m.name \in Portals

\* pool_get_sent_message finds one message: there are never two of a kind
\* with the same name.
Unique(ss) == \A m1, m2 \in ss.list : m1.kind = m2.kind /\ m1.name = m2.name => m1 = m2

\* Statements that change the session go to every node.
ForAll == {"set", "discard", "deallocate_all"}
RoutedEverywhere(ss) ==
    \A c \in Contexts : ss.context[c].stmt \in ForAll => ss.context[c].where = Nodes

\* All that is known of a session apart from its uncompleted message.
Core(ss) ==
    /\ ss \in Sessions
    /\ \A m \in ss.list : Named(m) /\ ss.context[m.qc] # Freed
    /\ Unique(ss)
    /\ RoutedEverywhere(ss)
    /\ ss.current # NoContext => ss.context[ss.current] # Freed

\* ... and the message that waits for its answer.
Uncompleted(ss) ==
    ss.uncompleted # None =>
        /\ ss.uncompleted \in Messages /\ Named(ss.uncompleted)
        /\ ss.context[ss.uncompleted.qc] # Freed

\* Two different elements are two.
LEMMA PairCardinality ==
    ASSUME NEW a, NEW b, a # b
    PROVE  IsFiniteSet({a, b}) /\ Cardinality({a, b}) = 2
<1> DEFINE A == {a}
<1>1. IsFiniteSet(A) /\ Cardinality(A) = 1 /\ b \notin A /\ {a, b} = A \cup {b}
  BY FS_Singleton
<1> HIDE DEF A
<1>2. IsFiniteSet(A \cup {b}) /\ Cardinality(A \cup {b}) = Cardinality(A) + 1
  BY <1>1, FS_AddElement, Zenon
<1>3. QED
  BY <1>1, <1>2

\* The contexts are numbered from 0; NoContext is not one of them.
LEMMA ContextFacts ==
    /\ Cardinality(Names) = 2
    /\ Cardinality(Portals) \in Nat
    /\ Contexts = 0 .. (Cardinality(Portals) + 6)
    /\ Contexts \subseteq Nat /\ NoContext \notin Contexts
    /\ None \notin Messages
<1>1. Cardinality(Names) = 2
  BY PairCardinality DEF Names
<1>2. Cardinality(Portals) \in Nat
  BY ExtendedQueryAssumption, FS_CardinalityType
<1>3. Contexts = 0 .. (Cardinality(Portals) + 6)
  BY <1>1, <1>2 DEF Contexts
<1>4. None \notin Messages
  BY DEF None, Messages
<1>5. QED
  BY <1>1, <1>2, <1>3, <1>4 DEF NoContext

\* There is always a context that nothing refers to: the list has at most one
\* message of each kind and name.
LEMMA FreshContext ==
    ASSUME NEW ss, Core(ss), ss.uncompleted = None
    PROVE  Fresh(ss) \in Contexts /\ Fresh(ss) \notin Users(ss) /\ Fresh(ss) # ss.current
<1> DEFINE K == ({"P", "Q"} \X Names) \cup ({"B"} \X Portals)
           S == Contexts \ {ss.current}
           Free == Contexts \ Referenced(ss)
<1>1. Referenced(ss) = Users(ss) \cup {ss.current}
  BY DEF Referenced, Users
<1>2. IsFiniteSet(K) /\ Cardinality(K) <= 4 + Cardinality(Portals)
  <2>1. /\ IsFiniteSet({"P", "Q"}) /\ Cardinality({"P", "Q"}) = 2
        /\ IsFiniteSet({"B"}) /\ Cardinality({"B"}) = 1
        /\ IsFiniteSet(Names) /\ Cardinality(Names) = 2
    <3>1. IsFiniteSet({"B"}) /\ Cardinality({"B"}) = 1
      BY FS_Singleton
    <3>2. QED
      BY <3>1, PairCardinality DEF Names
  <2>2. IsFiniteSet({"P", "Q"} \X Names) /\ Cardinality({"P", "Q"} \X Names) = 4
    BY <2>1, FS_Product
  <2>3. IsFiniteSet({"B"} \X Portals)
        /\ Cardinality({"B"} \X Portals) = 1 * Cardinality(Portals)
    BY <2>1, ExtendedQueryAssumption, FS_Product
  <2>4. Cardinality({"B"} \X Portals) = Cardinality(Portals)
    BY <2>3, ContextFacts
  <2> DEFINE A == {"P", "Q"} \X Names
             B == {"B"} \X Portals
  <2>5. IsFiniteSet(A \cup B)
        /\ Cardinality(A \cup B) = Cardinality(A) + Cardinality(B) - Cardinality(A \cap B)
    <3> HIDE DEF A, B
    <3>1. QED
      BY <2>2, <2>3, FS_Union DEF A, B
  <2>6. Cardinality(A \cap B) \in Nat
    <3>1. IsFiniteSet(A)
      BY <2>2
    <3> HIDE DEF A, B
    <3>2. QED
      BY <3>1, FS_Intersection, FS_CardinalityType
  <2>7. Cardinality(A) = 4 /\ Cardinality(B) = Cardinality(Portals)
    BY <2>2, <2>4
  <2> HIDE DEF A, B
  <2>8. Cardinality(A \cup B) <= 4 + Cardinality(Portals)
    BY <2>5, <2>6, <2>7, ContextFacts
  <2>9. QED
    BY <2>5, <2>8 DEF A, B
<1>3. IsFiniteSet(S) /\ Cardinality(S) >= 6 + Cardinality(Portals)
  <2>1. IsFiniteSet(Contexts) /\ Cardinality(Contexts) = Cardinality(Portals) + 7
    BY ContextFacts, FS_Interval
  <2> DEFINE C == Contexts
  <2> HIDE DEF C
  <2>2. Cardinality(S) \in {Cardinality(C), Cardinality(C) - 1} /\ IsFiniteSet(S)
    BY <2>1, FS_RemoveElement DEF C
  <2>3. Cardinality(C) = Cardinality(Portals) + 7
    BY <2>1 DEF C
  <2> HIDE DEF S
  <2>4. QED
    BY <2>2, <2>3, ContextFacts
<1>4. Free # {}
  <2>1. SUFFICES ASSUME Free = {} PROVE FALSE
    OBVIOUS
  <2>2. \A c \in S : \E m \in ss.list : m.qc = c
    BY <1>1, <2>1 DEF Users
  <2> DEFINE g == [c \in S |-> CHOOSE m \in ss.list : m.qc = c]
             f == [c \in S |-> <<g[c].kind, g[c].name>>]
  <2>3. \A c \in S : g[c] \in ss.list /\ g[c].qc = c
    BY <2>2
  <2>4. \A c \in S : f[c] = <<g[c].kind, g[c].name>>
    OBVIOUS
  <2>5. \A m \in ss.list : <<m.kind, m.name>> \in K
    BY DEF Core, Named
  <2>6. f \in [S -> K]
    <3> HIDE DEF g, K, S
    <3>1. QED
      BY <2>3, <2>5
  <2>7. \A a, b \in S : f[a] = f[b] => a = b
    <3> HIDE DEF g, f, S
    <3>1. SUFFICES ASSUME NEW a \in S, NEW b \in S, f[a] = f[b] PROVE a = b
      OBVIOUS
    <3>2. g[a].kind = g[b].kind /\ g[a].name = g[b].name
      BY <2>4, <3>1
    <3>3. g[a] = g[b]
      BY <2>3, <3>2 DEF Core, Unique
    <3>4. QED
      BY <2>3, <3>3
  <2>8. f \in Injection(S, K)
    <3> HIDE DEF f, S, K
    <3>1. QED
      BY <2>6, <2>7 DEF Injection, IsInjective
  <2>9. Cardinality(S) <= Cardinality(K)
    <3> HIDE DEF f, S, K
    <3>1. QED
      BY <1>2, <2>8, FS_Injection
  <2>10. Cardinality(S) \in Nat /\ Cardinality(K) \in Nat
    BY <1>2, <1>3, FS_CardinalityType
  <2> HIDE DEF S, K
  <2>11. QED
    BY <1>2, <1>3, <2>9, <2>10, ContextFacts
<1>5. Free \subseteq Nat
  BY ContextFacts
<1>6. Fresh(ss) = CHOOSE c \in Free : \A d \in Free : c <= d
  BY DEF Fresh
<1>7. Fresh(ss) \in Free
  <2> HIDE DEF Free
  <2>1. QED
    BY <1>4, <1>5, <1>6, ChosenLeast
<1>8. QED
  BY <1>1, <1>7

-----------------------------------------------------------------------------
(* The operators on a session.                                             *)

\* Everything but the list, the contexts, the current and the uncompleted.
SameFlags(s, t) ==
    /\ t.in_progress = s.in_progress /\ t.doing_extended = s.doing_extended
    /\ t.ignore_till_sync = s.ignore_till_sync /\ t.command_success = s.command_success
    /\ t.writing = s.writing /\ t.failed = s.failed /\ t.internal = s.internal

LEMMA FreedFacts ==
    /\ Freed \notin LiveContexts /\ Freed.stmt \notin ForAll
    /\ Freed.stmt = "freed" /\ Freed.where = {} /\ Freed.parsed = {}
BY DEF Freed, LiveContexts, AllStmts, ForAll

LEMMA NodeFacts == Primary \in Nodes /\ LoadBalanceNode \in Nodes /\ Nodes # {}
<1>1. N \in Nat \ {0} /\ LoadBalanceNode \in Nodes
  BY ExtendedQueryAssumption
<1>2. QED
  BY <1>1 DEF Nodes, Primary

\* pool_get_sent_message.
LEMMA FindFacts ==
    ASSUME NEW ss, Core(ss), NEW k, NEW nm
    PROVE  LET m == Find(ss, k, nm) IN
           /\ m # None => m \in ss.list /\ m.kind = k /\ m.name = nm
           /\ m = None => \A o \in ss.list : ~(o.kind = k /\ o.name = nm)
<1> DEFINE found == {m \in ss.list : m.kind = k /\ m.name = nm}
<1>1. Find(ss, k, nm) = IF found = {} THEN None ELSE CHOOSE m \in found : TRUE
  BY DEF Find
<1>2. found \subseteq ss.list /\ ss.list \subseteq Messages
  BY DEF Core, Sessions
<1>3. found # {} => Find(ss, k, nm) \in found
  <2> HIDE DEF found
  <2>1. QED
    BY <1>1
<1>4. found # {} => Find(ss, k, nm) # None
  BY <1>2, <1>3, ContextFacts
<1>5. QED
  BY <1>1, <1>3, <1>4

LEMMA StatementFacts ==
    ASSUME NEW ss, Core(ss), NEW nm
    PROVE  LET m == Statement(ss, nm) IN
           m # None => m \in ss.list /\ m.kind \in {"P", "Q"} /\ m.name = nm
BY FindFacts DEF Statement

\* Routing: somewhere, and everywhere for what changes the session.
LEMMA WhereFacts ==
    ASSUME NEW ss, Core(ss), NEW s \in AllStmts, NEW late
    PROVE  /\ pool_where_to_send(ss, s, late) \in (SUBSET Nodes) \ {{}}
           /\ s \in ForAll => pool_where_to_send(ss, s, late) = Nodes
<1> DEFINE msg == Statement(ss, "s")
<1>1. Primary \in Nodes /\ LoadBalanceNode \in Nodes
  BY NodeFacts
<1>2. msg # None => ss.context[msg.qc].where \in (SUBSET Nodes) \ {{}}
  <2>1. SUFFICES ASSUME msg # None PROVE ss.context[msg.qc].where \in (SUBSET Nodes) \ {{}}
    OBVIOUS
  <2>2. msg \in ss.list
    BY <2>1, StatementFacts
  <2>3. ss.context[msg.qc] # Freed /\ msg.qc \in Contexts
    BY <2>2 DEF Core, Sessions, Messages
  <2> HIDE DEF msg
  <2>4. ss.context[msg.qc] \in LiveContexts
    BY <2>3 DEF Core, Sessions
  <2>5. QED
    BY <2>4 DEF LiveContexts
<1> HIDE DEF msg
<1>3. /\ pool_where_to_send(ss, s, late) \in
            {Nodes, {LoadBalanceNode}, {Primary}} \cup
            (IF msg # None THEN {ss.context[msg.qc].where} ELSE {})
      /\ s \in ForAll => pool_where_to_send(ss, s, late) = Nodes
  BY DEF pool_where_to_send, ForAll, msg
<1>4. QED
  BY <1>1, <1>2, <1>3

\* A context is made or routed again.
LEMMA ContextSet ==
    ASSUME NEW ss, Core(ss), NEW t \in Sessions, t.list = ss.list,
           NEW c \in Contexts, NEW e \in LiveContexts, e.stmt \in ForAll => e.where = Nodes,
           t.context = [ss.context EXCEPT ![c] = e], t.current = c
    PROVE  Core(t)
<1>1. ss.context \in [Contexts -> LiveContexts \cup {Freed}]
  BY DEF Core, Sessions
<1>2. \A d \in Contexts : t.context[d] = IF d = c THEN e ELSE ss.context[d]
  BY <1>1
<1>3. \A m \in ss.list : m.qc \in Contexts
  BY DEF Core, Sessions, Messages
<1>4. \A m \in t.list : Named(m) /\ t.context[m.qc] # Freed
  BY <1>2, <1>3, FreedFacts DEF Core
<1>5. Unique(t)
  BY DEF Core, Unique
<1>6. RoutedEverywhere(t)
  BY <1>2 DEF Core, RoutedEverywhere
<1>7. QED
  BY <1>2, <1>4, <1>5, <1>6, FreedFacts DEF Core

\* Only flags change.
LEMMA FlagsSet ==
    ASSUME NEW ss, Core(ss), NEW t \in Sessions, t.list = ss.list, t.context = ss.context,
           t.current \in {ss.current, NoContext} \cup Users(ss)
    PROVE  Core(t)
BY DEF Core, Unique, RoutedEverywhere, Users

\* pool_remove_sent_message and its relatives: no context that is still used,
\* or current, is lost.
Removed(ss, R, t) ==
    /\ Core(t) /\ t.list = ss.list \ R /\ t.uncompleted = ss.uncompleted
    /\ SameFlags(ss, t)
    /\ t.current \in {ss.current, NoContext}
    /\ \A c \in Contexts : (c \notin {m.qc : m \in R} \/ \E m \in ss.list \ R : m.qc = c)
          => t.context[c] = ss.context[c] /\ (ss.current = c => t.current = c)
    /\ t.current # NoContext => t.context[t.current] = ss.context[t.current]

LEMMA RemoveFacts ==
    ASSUME NEW ss, Core(ss), NEW R \in SUBSET ss.list
    PROVE  Removed(ss, R, pool_remove_sent_messages(ss, R))
<1> DEFINE gone == {c \in {m.qc : m \in R} : can_query_context_destroy(ss, c, R)}
           t == pool_remove_sent_messages(ss, R)
           ctx == [c \in Contexts |-> IF c \in gone THEN Freed ELSE ss.context[c]]
           cur == IF ss.current \in gone THEN NoContext ELSE ss.current
<1>1. t = [ss EXCEPT !.list = ss.list \ R, !.context = ctx, !.current = cur]
  BY DEF pool_remove_sent_messages
<1>2. ss \in Sessions
  BY DEF Core
<1>3. /\ ctx \in [Contexts -> LiveContexts \cup {Freed}]
      /\ cur \in Contexts \cup {NoContext}
      /\ ss.list \ R \in SUBSET Messages
  BY <1>2 DEF Sessions
<1>4. /\ \A c \in Contexts : ctx[c] = IF c \in gone THEN Freed ELSE ss.context[c]
      /\ cur = IF ss.current \in gone THEN NoContext ELSE ss.current
  OBVIOUS
<1>5. \A c \in gone : \A m \in ss.list : m.qc = c => m \in R
  BY DEF can_query_context_destroy
<1>6. gone \subseteq {m.qc : m \in R}
  OBVIOUS
<1> HIDE DEF gone, ctx, cur, t
<1>7. /\ t.list = ss.list \ R /\ t.context = ctx /\ t.current = cur
      /\ t.uncompleted = ss.uncompleted /\ SameFlags(ss, t)
      /\ t \in Sessions
  BY <1>1, <1>2, <1>3 DEF Sessions, SameFlags
<1>8. \A m \in ss.list \ R : m.qc \in Contexts /\ m.qc \notin gone
  <2>1. \A m \in ss.list : m.qc \in Contexts
    BY <1>2 DEF Sessions, Messages
  <2>2. QED
    BY <1>5, <2>1
<1>9. Core(t)
  <2>1. \A m \in t.list : Named(m) /\ t.context[m.qc] # Freed
    BY <1>4, <1>7, <1>8 DEF Core
  <2>2. Unique(t)
    BY <1>7 DEF Core, Unique
  <2>3. RoutedEverywhere(t)
    BY <1>4, <1>7, FreedFacts DEF Core, RoutedEverywhere
  <2>4. t.current # NoContext => t.context[t.current] # Freed
    <3>1. ss.current # NoContext => ss.current \in Contexts
      BY <1>2 DEF Sessions
    <3>2. QED
      BY <1>4, <1>7, <3>1 DEF Core
  <2>5. QED
    BY <1>7, <2>1, <2>2, <2>3, <2>4 DEF Core
<1>10. ASSUME NEW c \in Contexts, c \notin {m.qc : m \in R} \/ \E m \in ss.list \ R : m.qc = c
       PROVE  t.context[c] = ss.context[c] /\ (ss.current = c => t.current = c)
  <2>1. c \notin gone
    BY <1>6, <1>8, <1>10
  <2>2. QED
    BY <1>4, <1>7, <2>1
<1>11. t.current \in {ss.current, NoContext}
  BY <1>4, <1>7
<1>12. t.current # NoContext => t.context[t.current] = ss.context[t.current]
  <2>1. ss.current # NoContext => ss.current \in Contexts
    BY <1>2 DEF Sessions
  <2>2. QED
    BY <1>4, <1>7, <2>1
<1>13. QED
  BY <1>7, <1>9, <1>10, <1>11, <1>12 DEF Removed, t

\* pool_add_sent_message: the message is on the list, or one of its kind and
\* name was there already.
Added(ss, m, t) ==
    /\ Core(t) /\ t.uncompleted = ss.uncompleted /\ SameFlags(ss, t)
    /\ t.current \in {ss.current, NoContext}
    /\ ss.current = m.qc => t.current = m.qc
    /\ t.context[m.qc] = ss.context[m.qc]
    /\ t.current # NoContext => t.context[t.current] = ss.context[t.current]
    /\ \/ t = ss /\ \E o \in ss.list : o.kind = m.kind /\ o.name = m.name
       \/ m \in t.list /\ t.list \subseteq ss.list \cup {m}

LEMMA AddFacts ==
    ASSUME NEW ss, Core(ss), NEW m \in Messages, Named(m), ss.context[m.qc] # Freed,
           m.qc \notin Users(ss) \/ \E o \in ss.list : o.kind # m.kind /\ o.qc = m.qc
    PROVE  Added(ss, m, pool_add_sent_message(ss, m))
<1> DEFINE R == {o \in ss.list : o.kind = m.kind /\ o.name = ""}
           s1 == IF m.name = "" THEN pool_remove_sent_messages(ss, R) ELSE ss
           t == pool_add_sent_message(ss, m)
<1>1. t = IF Find(s1, m.kind, m.name) # None THEN ss ELSE [s1 EXCEPT !.list = s1.list \cup {m}]
  BY DEF pool_add_sent_message, pool_remove_sent_message
<1>2. m.qc \in Contexts /\ ss \in Sessions
  BY DEF Messages, Core
<1>3. m.qc \notin {o.qc : o \in R} \/ \E o \in ss.list \ R : o.qc = m.qc
  BY DEF Users
<1>4. /\ Core(s1) /\ s1.uncompleted = ss.uncompleted /\ SameFlags(ss, s1)
      /\ s1.current \in {ss.current, NoContext}
      /\ ss.current = m.qc => s1.current = m.qc
      /\ s1.context[m.qc] = ss.context[m.qc]
      /\ s1.current # NoContext => s1.context[s1.current] = ss.context[s1.current]
      /\ s1.list \subseteq ss.list
      /\ m.name = "" => \A o \in s1.list : ~(o.kind = m.kind /\ o.name = "")
      /\ m.name # "" => s1 = ss
  <2>1. CASE m.name = ""
    <3>1. Removed(ss, R, s1)
      BY <2>1, RemoveFacts
    <3>2. s1.list = ss.list \ R
      BY <3>1 DEF Removed
    <3>3. \A o \in s1.list : ~(o.kind = m.kind /\ o.name = "")
      BY <3>2
    <3> HIDE DEF s1, R
    <3>4. QED
      BY <1>2, <1>3, <2>1, <3>1, <3>2, <3>3 DEF Removed
  <2>2. CASE m.name # ""
    BY <2>2 DEF SameFlags
  <2>3. QED
    BY <2>1, <2>2
<1> HIDE DEF s1, t
<1>5. CASE Find(s1, m.kind, m.name) # None
  <2>1. t = ss
    BY <1>1, <1>5
  <2>2. \E o \in ss.list : o.kind = m.kind /\ o.name = m.name
    <3>1. Core(s1) /\ s1.list \subseteq ss.list
      BY <1>4
    <3> DEFINE k == m.kind
               nm == m.name
    <3> HIDE DEF k, nm
    <3>2. Find(s1, k, nm) \in s1.list /\ Find(s1, k, nm).kind = k /\ Find(s1, k, nm).name = nm
      BY <1>5, <3>1, FindFacts DEF k, nm
    <3>3. QED
      BY <3>1, <3>2 DEF k, nm
  <2>3. QED
    BY <2>1, <2>2 DEF Added, SameFlags, t
<1>6. CASE Find(s1, m.kind, m.name) = None
  <2>1. t = [s1 EXCEPT !.list = s1.list \cup {m}]
    BY <1>1, <1>6
  <2>2. s1 \in Sessions
    BY <1>4 DEF Core
  <2>3. /\ t \in Sessions /\ t.list = s1.list \cup {m} /\ t.context = s1.context
        /\ t.current = s1.current /\ t.uncompleted = s1.uncompleted /\ SameFlags(s1, t)
    BY <2>1, <2>2 DEF Sessions, SameFlags
  <2>4. \A o \in s1.list : ~(o.kind = m.kind /\ o.name = m.name)
    <3>1. Core(s1)
      BY <1>4
    <3> DEFINE k == m.kind
               nm == m.name
    <3> HIDE DEF k, nm
    <3>2. \A o \in s1.list : ~(o.kind = k /\ o.name = nm)
      BY <1>6, <3>1, FindFacts DEF k, nm
    <3>3. QED
      BY <3>2 DEF k, nm
  <2>5. Unique(t)
    BY <1>4, <2>3, <2>4, ZenonT(40) DEF Core, Unique
  <2>6. \A o \in t.list : Named(o) /\ t.context[o.qc] # Freed
    BY <1>4, <2>3 DEF Core
  <2>7. Core(t)
    BY <1>4, <2>3, <2>5, <2>6 DEF Core, RoutedEverywhere
  <2>8. SameFlags(ss, t)
    BY <1>4, <2>3 DEF SameFlags
  <2>9. QED
    BY <1>4, <2>3, <2>7, <2>8 DEF Added, t
<1>7. QED
  BY <1>5, <1>6

\* Forgetting unreferenced contexts changes nothing that is looked at.
Tidied(ss, t) ==
    /\ Core(t) /\ t.list = ss.list /\ t.uncompleted = ss.uncompleted
    /\ t.current = ss.current /\ SameFlags(ss, t)
    /\ \A c \in Users(ss) \cup {ss.current} : c \in Contexts => t.context[c] = ss.context[c]
    /\ ss.uncompleted # None => t.context[ss.uncompleted.qc] = ss.context[ss.uncompleted.qc]

LEMMA TidyFacts ==
    ASSUME NEW ss, Core(ss)
    PROVE  Tidied(ss, Tidy(ss))
<1> DEFINE ctx == [c \in Contexts |-> IF c \in Referenced(ss) THEN ss.context[c] ELSE Freed]
           t == Tidy(ss)
<1>1. t = [ss EXCEPT !.context = ctx]
  BY DEF Tidy
<1>2. ss \in Sessions
  BY DEF Core
<1>3. ctx \in [Contexts -> LiveContexts \cup {Freed}]
  BY <1>2 DEF Sessions
<1>4. \A c \in Contexts : ctx[c] = IF c \in Referenced(ss) THEN ss.context[c] ELSE Freed
  OBVIOUS
<1> HIDE DEF ctx, t
<1>5. /\ t \in Sessions /\ t.list = ss.list /\ t.context = ctx /\ t.current = ss.current
      /\ t.uncompleted = ss.uncompleted /\ SameFlags(ss, t)
  BY <1>1, <1>2, <1>3 DEF Sessions, SameFlags
<1>6. /\ Users(ss) \cup {ss.current} \subseteq Referenced(ss)
      /\ ss.uncompleted # None => ss.uncompleted.qc \in Referenced(ss)
  BY DEF Referenced, Users
<1>7. /\ \A m \in ss.list : m.qc \in Contexts
      /\ ss.uncompleted # None => ss.uncompleted.qc \in Contexts
      /\ ss.current # NoContext => ss.current \in Contexts
  BY <1>2 DEF Sessions, Messages
<1>8. \A m \in t.list : Named(m) /\ t.context[m.qc] # Freed
  <2>1. \A m \in ss.list : m.qc \in Referenced(ss)
    BY <1>6 DEF Users
  <2>2. QED
    BY <1>4, <1>5, <1>7, <2>1 DEF Core
<1>9. Unique(t)
  BY <1>5 DEF Core, Unique
<1>10. RoutedEverywhere(t)
  BY <1>4, <1>5, FreedFacts DEF Core, RoutedEverywhere
<1>11. t.current # NoContext => t.context[t.current] # Freed
  BY <1>4, <1>5, <1>6, <1>7 DEF Core
<1>12. Core(t)
  BY <1>5, <1>8, <1>9, <1>10, <1>11 DEF Core
<1>13. QED
  BY <1>4, <1>5, <1>6, <1>7, <1>12 DEF Tidied, t

-----------------------------------------------------------------------------
(* The nodes.                                                              *)

NodeStates == [tx : TxStates, skip : BOOLEAN, owed : Seq(Answers)]

\* Every node is in its place and owes at most two answers.
NodesOK(nd) ==
    /\ nd \in [Nodes -> NodeStates]
    /\ \A n \in Nodes : Len(nd[n].owed) <= 2

\* Every node owes nothing, or one of the sequences S.
Owes(nd, S) == \A n \in Nodes : nd[n].owed \in S \cup {<<>>}
Silent(nd, V) == \A n \in V : nd[n].owed = <<>>

\* The answers a node that owes nothing may owe after a message.
Owed(kind, s) ==
    IF kind = "S" THEN {<<"Z">>}
    ELSE IF kind = "C" THEN {<<>>, <<"3">>}
    ELSE IF kind = "Q" THEN {<<>>, <<"E", "Z">>, <<Done("Q", s), "Z">>}
    ELSE {<<>>, <<"E">>, <<Done(kind, s)>>}

Kinds == {"P", "B", "D", "E", "C", "S", "Q"}

LEMMA SequenceFacts ==
    ASSUME NEW a \in Answers, NEW b \in Answers
    PROVE  /\ <<a>> \in Seq(Answers) /\ <<a, b>> \in Seq(Answers) /\ <<>> \in Seq(Answers)
           /\ Append(<<>>, a) = <<a>> /\ <<>> \o <<a>> = <<a>> /\ <<a>> \o <<b>> = <<a, b>>
           /\ <<a>> \o <<>> = <<a>>
           /\ Head(<<a>>) = a /\ Head(<<a, b>>) = a
           /\ Tail(<<a>>) = <<>> /\ Tail(<<a, b>>) = <<b>>
           /\ <<a>> # <<>> /\ <<a, b>> # <<>> /\ Len(<<a>>) = 1 /\ Len(<<a, b>>) = 2
<1>1. <<a>> \in Seq(Answers) /\ <<a, b>> \in Seq(Answers) /\ <<>> \in Seq(Answers)
  OBVIOUS
<1>2. Append(<<>>, a) = <<a>>
  OBVIOUS
<1>3. <<>> \o <<a>> = <<a>> /\ <<a>> \o <<>> = <<a>>
  BY <1>1, EmptySeq, ConcatEmptySeq
<1>4. <<a>> \o <<b>> = <<a, b>>
  <2>1. <<a>> \o <<b>> = Append(<<a>>, b)
    BY <1>1, AppendIsConcat
  <2> DEFINE q == <<a>>
  <2>2. q \in Seq(Answers) /\ Len(q) = 1 /\ q[1] = a
    OBVIOUS
  <2>3. Append(q, b) \in Seq(Answers) /\ Len(Append(q, b)) = 2
        /\ Append(q, b)[1] = a /\ Append(q, b)[2] = b
    <3> HIDE DEF q
    <3> DEFINE r == Append(q, b)
    <3>1. /\ r \in Seq(Answers) /\ Len(r) = Len(q) + 1
          /\ \A i \in 1 .. Len(q) : r[i] = q[i]
          /\ r[Len(q) + 1] = b
      <4>1. q \in Seq(Answers) /\ b \in Answers
        BY <2>2
      <4>2. QED
        BY <4>1, AppendProperties
    <3> HIDE DEF r
    <3>2. 1 \in 1 .. Len(q) /\ Len(q) + 1 = 2
      BY <2>2
    <3>3. r[1] = a /\ r[2] = b /\ Len(r) = 2
      BY <2>2, <3>1, <3>2
    <3>4. QED
      BY <3>1, <3>3 DEF r
  <2>4. Append(q, b) = <<a, b>>
    <3> DEFINE r == Append(q, b)
               w == <<a, b>>
    <3>1. w \in Seq(Answers) /\ Len(w) = 2 /\ w[1] = a /\ w[2] = b
      OBVIOUS
    <3>2. r \in Seq(Answers) /\ Len(r) = 2 /\ r[1] = a /\ r[2] = b
      BY <2>3
    <3> HIDE DEF r, w
    <3>3. r = w
      BY <3>1, <3>2, SeqEqual
    <3>4. QED
      BY <3>3 DEF r, w
  <2>5. QED
    BY <2>1, <2>4
<1>5. Head(<<a>>) = a /\ Head(<<a, b>>) = a
  OBVIOUS
<1>6. Tail(<<a>>) = <<>>
  OBVIOUS
<1>7. Tail(<<a, b>>) = <<b>>
  OBVIOUS
<1>8. <<a>> # <<>> /\ <<a, b>> # <<>> /\ Len(<<a>>) = 1 /\ Len(<<a, b>>) = 2
  OBVIOUS
<1>9. QED
  BY <1>1, <1>2, <1>3, <1>4, <1>5, <1>6, <1>7, <1>8

LEMMA DoneFacts ==
    ASSUME NEW kind \in Kinds, NEW s
    PROVE  /\ Done(kind, s) \in Answers
           /\ kind = "P" => Done(kind, s) = "1"
           /\ kind = "B" => Done(kind, s) = "2"
           /\ kind = "C" => Done(kind, s) = "3"
           /\ kind = "D" => Done(kind, s) = "n"
           /\ kind = "E" => Done(kind, s) = "C"
           /\ kind = "Q" => Done(kind, s) \in {"C", "V"}
           /\ kind = "Q" /\ s # "function" => Done(kind, s) = "C"
BY DEF Done, Answers, Kinds

\* What a node owes and whether it skips after a message.
LEMMA AnswerFacts ==
    ASSUME NEW old \in NodeStates, old.owed = <<>>, NEW kind \in Kinds, NEW s,
           NEW fault \in BOOLEAN
    PROVE  LET a == Answer(old, kind, s, fault) IN
           /\ a \in NodeStates /\ Len(a.owed) <= 2
           /\ a.owed \in Owed(kind, s)
           /\ ~old.skip => a.owed # <<>> /\ (a.skip => a.owed = <<"E">> /\ kind # "Q")
           /\ kind = "S" => ~a.skip
           /\ ~old.skip /\ fault /\ kind \notin {"S", "C"} =>
                /\ a.owed = IF kind = "Q" THEN <<"E", "Z">> ELSE <<"E">>
                /\ a.skip = (kind # "Q")
<1> DEFINE a == Answer(old, kind, s, fault)
           d == Done(kind, s)
           Z == IF kind = "Q" THEN <<"Z">> ELSE <<>>
           failedTx == IF old.tx = "T" THEN "E" ELSE old.tx
           fails == kind # "C" /\ (fault \/ (old.tx = "E" /\ s # "commit"))
           tx1 == AfterSuccess(old.tx, kind, s)
<1>1. /\ kind = "S" => a = [old EXCEPT !.skip = FALSE, !.owed = Append(<<>>, "Z")]
      /\ kind # "S" /\ old.skip => a = old
      /\ kind # "S" /\ ~old.skip /\ fails =>
           a = [old EXCEPT !.tx = failedTx, !.skip = (kind # "Q"), !.owed = <<>> \o <<"E">> \o Z]
      /\ kind # "S" /\ ~old.skip /\ ~fails =>
           a = [old EXCEPT !.tx = tx1, !.owed = <<>> \o <<d>> \o Z]
  <2> DEFINE x1 == [old EXCEPT !.skip = FALSE, !.owed = Append(old.owed, "Z")]
             x3 == [old EXCEPT !.tx = failedTx, !.skip = (kind # "Q"),
                               !.owed = old.owed \o <<"E">> \o Z]
             x4 == [old EXCEPT !.tx = tx1, !.owed = old.owed \o <<d>> \o Z]
  <2>1. a = IF kind = "S" THEN x1 ELSE IF old.skip THEN old ELSE IF fails THEN x3 ELSE x4
    BY Zenon DEF Answer
  <2> HIDE DEF x1, x3, x4, a, fails
  <2>2. /\ kind = "S" => a = x1
        /\ kind # "S" /\ old.skip => a = old
        /\ kind # "S" /\ ~old.skip /\ fails => a = x3
        /\ kind # "S" /\ ~old.skip /\ ~fails => a = x4
    <3>1. CASE kind = "S"
      <4>1. a = x1
        BY <2>1, <3>1, Zenon
      <4>2. QED
        BY <3>1, <4>1
    <3>2. CASE kind # "S" /\ old.skip
      <4>1. a = old
        BY <2>1, <3>2, Zenon
      <4>2. QED
        BY <3>2, <4>1
    <3>3. CASE kind # "S" /\ ~old.skip /\ fails
      <4>1. a = x3
        BY <2>1, <3>3, Zenon
      <4>2. QED
        BY <3>3, <4>1
    <3>4. CASE kind # "S" /\ ~old.skip /\ ~fails
      <4>1. a = x4
        BY <2>1, <3>4, Zenon
      <4>2. QED
        BY <3>4, <4>1
    <3>5. QED
      BY <3>1, <3>2, <3>3, <3>4
  <2> HIDE DEF Z, d, tx1, failedTx
  <2>3. /\ x1 = [old EXCEPT !.skip = FALSE, !.owed = Append(<<>>, "Z")]
        /\ x3 = [old EXCEPT !.tx = failedTx, !.skip = (kind # "Q"),
                            !.owed = <<>> \o <<"E">> \o Z]
        /\ x4 = [old EXCEPT !.tx = tx1, !.owed = <<>> \o <<d>> \o Z]
    BY Zenon DEF x1, x3, x4
  <2>4. kind = "S" => a = [old EXCEPT !.skip = FALSE, !.owed = Append(<<>>, "Z")]
    BY <2>2, <2>3, Zenon
  <2>5. kind # "S" /\ ~old.skip /\ fails =>
           a = [old EXCEPT !.tx = failedTx, !.skip = (kind # "Q"), !.owed = <<>> \o <<"E">> \o Z]
    BY <2>2, <2>3, Zenon
  <2>6. kind # "S" /\ ~old.skip /\ ~fails =>
           a = [old EXCEPT !.tx = tx1, !.owed = <<>> \o <<d>> \o Z]
    BY <2>2, <2>3, Zenon
  <2>7. QED
    BY <2>2, <2>4, <2>5, <2>6, Zenon
<1>2. d \in Answers /\ "E" \in Answers /\ "Z" \in Answers
  BY DoneFacts DEF Answers
<1>3. <<>> \o <<"E">> \o Z = IF kind = "Q" THEN <<"E", "Z">> ELSE <<"E">>
  BY <1>2, SequenceFacts, ZenonT(40)
<1>4. <<>> \o <<d>> \o Z = IF kind = "Q" THEN <<d, "Z">> ELSE <<d>>
  <2> HIDE DEF d
  <2>1. QED
    BY <1>2, SequenceFacts, ZenonT(40)
<1>5. Append(<<>>, "Z") = <<"Z">>
  BY <1>2, SequenceFacts
<1>6. failedTx \in TxStates /\ tx1 \in TxStates
  BY DEF NodeStates, TxStates, AfterSuccess
<1>7. /\ kind = "C" => d = "3" /\ ~fails
      /\ kind = "Q" => d = Done("Q", s)
      /\ fault /\ kind # "C" => fails
  BY DoneFacts
<1>8. /\ <<d, "Z">> \in Seq(Answers) /\ <<d>> \in Seq(Answers) /\ <<"E", "Z">> \in Seq(Answers)
      /\ <<"E">> \in Seq(Answers) /\ <<"Z">> \in Seq(Answers) /\ <<>> \in Seq(Answers)
      /\ Len(<<d, "Z">>) = 2 /\ Len(<<d>>) = 1 /\ Len(<<"E", "Z">>) = 2 /\ Len(<<"E">>) = 1
      /\ Len(<<"Z">>) = 1 /\ Len(<<>>) = 0
      /\ <<d, "Z">> # <<>> /\ <<d>> # <<>> /\ <<"E", "Z">> # <<>> /\ <<"E">> # <<>> /\ <<"Z">> # <<>>
  <2> HIDE DEF d
  <2>1. QED
    BY <1>2
<1> HIDE DEF a, d, failedTx, fails, tx1, Z
<1> DEFINE Goal == /\ a \in NodeStates /\ Len(a.owed) <= 2
                   /\ a.owed \in Owed(kind, s)
                   /\ ~old.skip => a.owed # <<>> /\ (a.skip => a.owed = <<"E">> /\ kind # "Q")
                   /\ kind = "S" => ~a.skip
                   /\ ~old.skip /\ fault /\ kind \notin {"S", "C"} =>
                        /\ a.owed = IF kind = "Q" THEN <<"E", "Z">> ELSE <<"E">>
                        /\ a.skip = (kind # "Q")
<1>9. CASE kind = "S"
  <2>1. a = [old EXCEPT !.skip = FALSE, !.owed = <<"Z">>]
    BY <1>1, <1>5, <1>9
  <2>2. a \in NodeStates /\ a.owed = <<"Z">> /\ a.skip = FALSE
    BY <2>1, <1>8 DEF NodeStates
  <2>3. QED
    BY <2>2, <1>8, <1>9 DEF Owed, a
<1>10. CASE kind # "S" /\ old.skip
  <2>1. a = old
    BY <1>1, <1>10
  <2>2. QED
    BY <2>1, <1>8, <1>10 DEF Owed, a
<1>11. CASE kind # "S" /\ ~old.skip /\ fails
  <2> DEFINE e == IF kind = "Q" THEN <<"E", "Z">> ELSE <<"E">>
  <2>1. a = [old EXCEPT !.tx = failedTx, !.skip = (kind # "Q"), !.owed = e]
    BY <1>1, <1>3, <1>11
  <2>2. e \in Seq(Answers) /\ (kind # "Q") \in BOOLEAN
    BY <1>8
  <2>3. a \in NodeStates /\ a.owed = e /\ a.skip = (kind # "Q")
    <3> HIDE DEF e
    <3>1. QED
      BY <2>1, <2>2, <1>6 DEF NodeStates
  <2>4. e \in Owed(kind, s)
    <3>1. kind # "C"
      BY <1>7, <1>11
    <3>2. QED
      BY <3>1, <1>11 DEF Owed
  <2>5. /\ e # <<>> /\ Len(e) <= 2 /\ (kind # "Q" => e = <<"E">>)
        /\ e = IF kind = "Q" THEN <<"E", "Z">> ELSE <<"E">>
    BY <1>8
  <2> HIDE DEF e
  <2>6. QED
    BY <2>3, <2>4, <2>5, <1>11 DEF a
<1>12. CASE kind # "S" /\ ~old.skip /\ ~fails
  <2> DEFINE e == IF kind = "Q" THEN <<d, "Z">> ELSE <<d>>
  <2>1. a = [old EXCEPT !.tx = tx1, !.owed = e]
    BY <1>1, <1>4, <1>12
  <2>2. e \in Seq(Answers)
    BY <1>8
  <2>3. a \in NodeStates /\ a.owed = e /\ a.skip = old.skip
    <3> HIDE DEF e
    <3>1. QED
      BY <2>1, <2>2, <1>6 DEF NodeStates
  <2>4. e \in Owed(kind, s)
    BY <1>7, <1>12 DEF Owed, d
  <2>5. ~(fault /\ kind # "C")
    BY <1>7, <1>12
  <2>6. QED
    BY <2>3, <2>4, <2>5, <1>8, <1>12 DEF a
<1>13. QED
  BY <1>9, <1>10, <1>11, <1>12

\* An intentional error leaves nothing to read, or the ReadyForQuery of the
\* erroneous query.
LEMMA IntentionalFacts ==
    ASSUME NEW old \in NodeStates, old.owed = <<>>, ~old.skip, NEW ss
    PROVE  LET a == IntentionalError(ss, old) IN
           /\ a \in NodeStates /\ Len(a.owed) <= 2
           /\ ss.doing_extended => a.owed = <<>>
           /\ ~ss.doing_extended => a.owed = <<"Z">> /\ ~a.skip
<1> DEFINE kind == IF ss.doing_extended THEN "E" ELSE "Q"
           b == Answer(old, kind, "select", TRUE)
           q == IF kind = "Q" THEN <<"Z">> ELSE <<>>
           a == IntentionalError(ss, old)
<1>1. kind \in Kinds /\ kind \notin {"S", "C"} /\ (kind = "Q" <=> ~ss.doing_extended)
  BY DEF Kinds
<1> HIDE DEF kind
<1>2. /\ b \in NodeStates
      /\ b.owed = IF kind = "Q" THEN <<"E", "Z">> ELSE <<"E">>
      /\ b.skip = (kind # "Q")
  BY <1>1, AnswerFacts
<1>3. a = [b EXCEPT !.owed = Tail(b.owed)]
  BY Zenon DEF IntentionalError, kind
<1> HIDE DEF a, b
<1>4. /\ Tail(<<"E", "Z">>) = <<"Z">> /\ Tail(<<"E">>) = <<>>
      /\ <<"Z">> \in Seq(Answers) /\ <<>> \in Seq(Answers)
      /\ Len(<<"Z">>) = 1 /\ Len(<<>>) = 0
  <2>1. "E" \in Answers /\ "Z" \in Answers
    BY DEF Answers
  <2>2. QED
    BY <2>1, SequenceFacts
<1>5. Tail(b.owed) = q /\ q \in Seq(Answers) /\ Len(q) <= 2
  BY <1>2, <1>4
<1>6. a = [b EXCEPT !.owed = q]
  BY <1>3, <1>5
<1> HIDE DEF q
<1>7. a \in NodeStates /\ a.owed = q /\ a.skip = b.skip
  BY <1>2, <1>5, <1>6 DEF NodeStates
<1>8. QED
  BY <1>1, <1>2, <1>5, <1>7 DEF a, q

\* Sending to nodes that owe nothing.
LEMMA SendFacts ==
    ASSUME NodesOK(node), Silent(node, Nodes), NEW V \in SUBSET Nodes, NEW kind \in Kinds,
           NEW s, Send(V, kind, s)
    PROVE  /\ NodesOK(node') /\ Silent(node', Nodes \ V)
           /\ \A n \in V : node'[n].owed \in Owed(kind, s)
           /\ \A n \in V : ~node[n].skip =>
                 node'[n].owed # <<>> /\ (node'[n].skip => node'[n].owed = <<"E">>)
           /\ \A n \in V : kind = "S" => ~node'[n].skip
           /\ \A n \in Nodes \ V : node'[n] = node[n]
<1>1. PICK F \in SUBSET V :
        node' = [n \in Nodes |-> IF n \in V THEN Answer(node[n], kind, s, n \in F) ELSE node[n]]
  BY DEF Send
<1>2. \A n \in V : node'[n] = Answer(node[n], kind, s, n \in F)
  BY <1>1
<1>3. \A n \in Nodes \ V : node'[n] = node[n]
  BY <1>1
<1>4. DOMAIN node' = Nodes /\ node' = [n \in Nodes |-> node'[n]]
  BY <1>1
<1>5. \A n \in Nodes : node[n] \in NodeStates /\ Len(node[n].owed) <= 2 /\ node[n].owed = <<>>
  BY DEF NodesOK, Silent
<1>6. ASSUME NEW n \in V
      PROVE  /\ node'[n] \in NodeStates /\ Len(node'[n].owed) <= 2
             /\ node'[n].owed \in Owed(kind, s)
             /\ ~node[n].skip =>
                   node'[n].owed # <<>> /\ (node'[n].skip => node'[n].owed = <<"E">>)
             /\ kind = "S" => ~node'[n].skip
  <2> DEFINE old == node[n]
             f == n \in F
             a == Answer(old, kind, s, f)
  <2>1. old \in NodeStates /\ old.owed = <<>> /\ f \in BOOLEAN
    BY <1>5
  <2>2. node'[n] = a
    BY <1>2
  <2> HIDE DEF old, f
  <2>3. /\ a \in NodeStates /\ Len(a.owed) <= 2 /\ a.owed \in Owed(kind, s)
        /\ ~old.skip => a.owed # <<>> /\ (a.skip => a.owed = <<"E">>)
        /\ kind = "S" => ~a.skip
    BY <2>1, AnswerFacts
  <2> HIDE DEF a
  <2>4. QED
    BY <2>2, <2>3 DEF old
<1>7. \A n \in Nodes : node'[n] \in NodeStates /\ Len(node'[n].owed) <= 2
  BY <1>3, <1>5, <1>6
<1>8. NodesOK(node')
  BY <1>4, <1>7 DEF NodesOK
<1>9. Silent(node', Nodes \ V)
  BY <1>3, <1>5 DEF Silent
<1>10. QED
  BY <1>3, <1>6, <1>8, <1>9

-----------------------------------------------------------------------------
(* What the child waits for.                                               *)

UsedBy(ss, K, c) == \E m \in ss.list : m.kind \in K /\ m.qc = c

AwaitsParse(ss, nd) ==
    /\ ss.doing_extended /\ ss.uncompleted.kind = "P" /\ ss.uncompleted.qc = ss.current
    /\ ss.current \notin Users(ss)
    /\ Owes(nd, {<<"1">>, <<"E">>})

AwaitsBind(ss, nd) ==
    /\ ss.doing_extended /\ ss.uncompleted.kind = "B" /\ ss.uncompleted.qc = ss.current
    /\ UsedBy(ss, {"P", "Q"}, ss.current)
    /\ Owes(nd, {<<"2">>, <<"E">>})

\* Describe or Execute; a portal that was executed is still there.
AwaitsRun(ss, nd) ==
    /\ ss.doing_extended /\ ss.uncompleted = None /\ ss.current \in Users(ss)
    /\ Owes(nd, {<<"n">>, <<"C">>, <<"E">>})
    /\ (\E n \in Nodes : nd[n].owed = <<"C">>) => UsedBy(ss, {"B"}, ss.current)

AwaitsSync(ss, nd) ==
    ss.doing_extended /\ ss.uncompleted = None /\ Owes(nd, {<<"Z">>})

AwaitsClose(ss, nd) ==
    /\ ~ss.doing_extended /\ ss.uncompleted \in ss.list /\ ss.uncompleted.qc = ss.current
    /\ Owes(nd, {<<"3">>})

\* The context of a simple query is its own.
AwaitsQuery(ss, nd) ==
    /\ ~ss.doing_extended /\ ss.current # NoContext /\ ss.current \notin Users(ss)
    /\ Owes(nd, {<<"C", "Z">>, <<"E", "Z">>, <<"V", "Z">>})
    /\ ss.uncompleted # None =>
         /\ ss.uncompleted.kind = "Q" /\ ss.uncompleted.qc = ss.current
         /\ ss.context[ss.current].stmt = "prepare"
         /\ Owes(nd, {<<"C", "Z">>, <<"E", "Z">>})

\* After the answer of a simple query.
AwaitsReady(ss, nd) ==
    /\ ~ss.doing_extended /\ ss.uncompleted = None /\ Owes(nd, {<<"Z">>})
    /\ \/ ss.current = NoContext
       \/ ss.current \notin Users(ss)
       \/ ss.context[ss.current].stmt = "prepare" /\ ss.command_success

Awaits(ss, nd) ==
    \/ AwaitsParse(ss, nd) \/ AwaitsBind(ss, nd) \/ AwaitsRun(ss, nd) \/ AwaitsSync(ss, nd)
    \/ AwaitsClose(ss, nd) \/ AwaitsQuery(ss, nd) \/ AwaitsReady(ss, nd)

\* The session and the nodes fit: what is owed is what is waited for, by the
\* nodes it is read from; when nothing is waited for, nothing is owed.
Fits(ss, nd) ==
    /\ ss.in_progress => Awaits(ss, nd) /\ Silent(nd, Nodes \ Valid(ss))
    /\ ~ss.in_progress => ss.uncompleted = None /\ Silent(nd, Nodes)

\* The same between the two halves of parse_before_bind.
FitsReparse(ss, nd) ==
    /\ ss.in_progress /\ ss.doing_extended
    /\ ss.uncompleted.kind = "B" /\ ss.uncompleted.qc = ss.current
    /\ UsedBy(ss, {"P", "Q"}, ss.current)
    /\ Owes(nd, {<<"1">>, <<"E">>}) /\ Silent(nd, Nodes \ Unparsed(ss))

\* A node that skips messages is one the next Sync goes to, and the child
\* has seen its error or is about to.
Target(ss) == IF ss.current # NoContext THEN ss.context[ss.current].where ELSE Nodes

Steady(ss, nd) ==
    /\ ~ss.in_progress =>
         \A n \in Nodes : nd[n].skip => ss.ignore_till_sync /\ n \in Target(ss)
    /\ ss.in_progress /\ ~ss.ignore_till_sync =>
         /\ \A n \in Nodes : nd[n].skip => nd[n].owed = <<"E">> /\ ss.doing_extended
         /\ (ss.command_success /\ (ss.doing_extended \/ ss.current # NoContext)) =>
              \A n \in Valid(ss) : nd[n].owed # <<>>

SteadyReparse(ss, nd) ==
    /\ ~ss.ignore_till_sync
    /\ \A n \in Nodes : nd[n].skip => nd[n].owed = <<"E">>
    /\ \A n \in Unparsed(ss) : nd[n].owed # <<>>

\* The inductive invariant.
Inv ==
    /\ TSTATE \in [Nodes -> TxStates]
    /\ phase \in {"session", "reparse", "reset", "gone"}
    /\ qcnt \in 0 .. Len(ResetQueries)
    /\ sent \in 0 .. MaxMessages
    /\ Core(session) /\ Uncompleted(session) /\ NodesOK(node)
    /\ phase \in {"session", "reset"} => Fits(session, node)
    /\ phase = "reparse" => FitsReparse(session, node)

\* ... and what keeps the nodes in step, if the reset queries clear an
\* aborted extended query.
Stuck ==
    phase = "reset" =>
        /\ session.in_progress => ~session.doing_extended
        /\ session.ignore_till_sync /\ ~session.in_progress =>
             \A j \in 1 .. qcnt : ResetQueries[j] = "commit"

StepInv ==
    /\ phase \in {"session", "reset"} => Steady(session, node)
    /\ phase = "reparse" => SteadyReparse(session, node)
    /\ Stuck

\* Forgetting contexts does not disturb any of this.
LEMMA TidyKeeps ==
    ASSUME NEW ss, NEW nd, Core(ss), Uncompleted(ss)
    PROVE  /\ Core(Tidy(ss)) /\ Uncompleted(Tidy(ss))
           /\ Valid(Tidy(ss)) = Valid(ss) /\ Target(Tidy(ss)) = Target(ss)
           /\ Fits(ss, nd) => Fits(Tidy(ss), nd)
           /\ Steady(ss, nd) => Steady(Tidy(ss), nd)
           /\ ss.current # NoContext =>
                /\ FitsReparse(ss, nd) => FitsReparse(Tidy(ss), nd)
                /\ SteadyReparse(ss, nd) => SteadyReparse(Tidy(ss), nd)
<1> DEFINE t == Tidy(ss)
<1>1. Tidied(ss, t)
  BY TidyFacts
<1> HIDE DEF t
<1>2. /\ Core(t) /\ t.list = ss.list /\ t.uncompleted = ss.uncompleted
      /\ t.current = ss.current
      /\ t.in_progress = ss.in_progress /\ t.doing_extended = ss.doing_extended
      /\ t.ignore_till_sync = ss.ignore_till_sync /\ t.command_success = ss.command_success
  BY <1>1 DEF Tidied, SameFlags
<1>3. ss.current # NoContext => t.context[ss.current] = ss.context[ss.current]
  <2>1. ss.current \in Contexts \cup {NoContext}
    BY DEF Core, Sessions
  <2>2. QED
    BY <1>1, <2>1 DEF Tidied
<1>4. Uncompleted(t)
  <2>1. ss.uncompleted # None => t.context[ss.uncompleted.qc] = ss.context[ss.uncompleted.qc]
    BY <1>1 DEF Tidied
  <2>2. QED
    BY <1>2, <2>1 DEF Uncompleted
<1>5. Valid(t) = Valid(ss) /\ Target(t) = Target(ss)
  BY <1>2, <1>3 DEF Valid, Target
<1>6. Users(t) = Users(ss) /\ \A K, c : UsedBy(t, K, c) <=> UsedBy(ss, K, c)
  BY <1>2 DEF Users, UsedBy
<1>7. Awaits(ss, nd) => Awaits(t, nd)
  <2>1. AwaitsParse(ss, nd) => AwaitsParse(t, nd)
    BY <1>2, <1>6 DEF AwaitsParse
  <2>2. AwaitsBind(ss, nd) => AwaitsBind(t, nd)
    BY <1>2, <1>6 DEF AwaitsBind
  <2>3. AwaitsRun(ss, nd) => AwaitsRun(t, nd)
    BY <1>2, <1>6 DEF AwaitsRun
  <2>4. AwaitsSync(ss, nd) => AwaitsSync(t, nd)
    BY <1>2 DEF AwaitsSync
  <2>5. AwaitsClose(ss, nd) => AwaitsClose(t, nd)
    BY <1>2 DEF AwaitsClose
  <2>6. AwaitsQuery(ss, nd) => AwaitsQuery(t, nd)
    BY <1>2, <1>3, <1>6 DEF AwaitsQuery
  <2>7. AwaitsReady(ss, nd) => AwaitsReady(t, nd)
    BY <1>2, <1>3, <1>6 DEF AwaitsReady
  <2>8. QED
    BY <2>1, <2>2, <2>3, <2>4, <2>5, <2>6, <2>7 DEF Awaits
<1>8. Fits(ss, nd) => Fits(t, nd)
  BY <1>2, <1>5, <1>7 DEF Fits
<1>9. Steady(ss, nd) => Steady(t, nd)
  BY <1>2, <1>5 DEF Steady
<1>10. ss.current # NoContext =>
          /\ FitsReparse(ss, nd) => FitsReparse(t, nd)
          /\ SteadyReparse(ss, nd) => SteadyReparse(t, nd)
  BY <1>2, <1>3, <1>6 DEF FitsReparse, SteadyReparse, Unparsed
<1>11. QED
  BY <1>2, <1>4, <1>5, <1>8, <1>9, <1>10 DEF t

-----------------------------------------------------------------------------
(* The steps.                                                              *)

\* What a client's message finds.
LEMMA AcceptsFacts ==
    ASSUME Inv, Accepts
    PROVE  /\ phase = "session" /\ ~session.in_progress /\ ~session.ignore_till_sync
           /\ sent' \in 0 .. MaxMessages
           /\ session \in Sessions /\ session.uncompleted = None
           /\ NodesOK(node) /\ Silent(node, Nodes)
           /\ StepInv => \A n \in Nodes : ~node[n].skip
<1>1. phase = "session" /\ ~session.in_progress /\ ~session.ignore_till_sync
      /\ sent < MaxMessages /\ sent' = sent + 1
  BY DEF Accepts
<1>2. sent' \in 0 .. MaxMessages
  <2>1. MaxMessages \in Nat /\ sent \in 0 .. MaxMessages
    BY ExtendedQueryAssumption DEF Inv
  <2>2. QED
    BY <1>1, <2>1
<1>3. session \in Sessions /\ NodesOK(node)
  BY DEF Inv, Core
<1>4. session.uncompleted = None /\ Silent(node, Nodes)
  BY <1>1 DEF Inv, Fits
<1>5. StepInv => \A n \in Nodes : ~node[n].skip
  BY <1>1 DEF StepInv, Steady
<1>6. QED
  BY <1>1, <1>2, <1>3, <1>4, <1>5

\* A step that leaves the child where it is.
LEMMA Continues ==
    ASSUME Inv, NEW X, session' = Tidy(X) \/ session' = X, Core(X), Uncompleted(X),
           NodesOK(node'), Fits(X, node'), phase' = phase, phase \in {"session", "reset"},
           TSTATE' \in [Nodes -> TxStates], qcnt' \in 0 .. Len(ResetQueries),
           sent' \in 0 .. MaxMessages
    PROVE  /\ Inv'
           /\ Steady(X, node') /\ phase = "session" => StepInv'
           /\ Steady(X, node') => Steady(session', node')
<1>1. /\ Core(session') /\ Uncompleted(session') /\ Fits(session', node')
      /\ Steady(X, node') => Steady(session', node')
  BY TidyKeeps
<1>2. Inv'
  BY <1>1 DEF Inv
<1>3. Steady(X, node') /\ phase = "session" => StepInv'
  BY <1>1 DEF StepInv, Stuck
<1>4. QED
  BY <1>1, <1>2, <1>3

\* The child gives up.
LEMMA Ends ==
    ASSUME Inv, End, sent' \in 0 .. MaxMessages
    PROVE  Inv' /\ StepInv'
BY DEF Inv, End, StepInv, Stuck

LEMMA ParseStep ==
    ASSUME Inv, NEW name \in Names, NEW s \in Stmts, NEW late \in BOOLEAN, Parse(name, s, late)
    PROVE  Inv' /\ (StepInv => StepInv')
<1> DEFINE c == Fresh(session)
           w == pool_where_to_send(session, s, late)
           e == [stmt |-> s, where |-> w, parsed |-> {}]
           m == [kind |-> "P", name |-> name, qc |-> c]
           X == [Begin(session, TRUE) EXCEPT !.context[c] = e, !.current = c, !.uncompleted = m]
<1>1. /\ Accepts /\ session' = Tidy(X) /\ Send(w, "P", s)
      /\ TSTATE' = TSTATE /\ phase' = phase /\ qcnt' = qcnt
  BY DEF Parse
<1>2. /\ phase = "session" /\ ~session.in_progress /\ ~session.ignore_till_sync
      /\ sent' \in 0 .. MaxMessages
      /\ session \in Sessions /\ session.uncompleted = None
      /\ NodesOK(node) /\ Silent(node, Nodes)
      /\ StepInv => \A n \in Nodes : ~node[n].skip
  BY <1>1, AcceptsFacts
<1>3. Core(session)
  BY DEF Inv
<1>4. c \in Contexts /\ c \notin Users(session) /\ c # session.current
  BY <1>2, <1>3, FreshContext
<1>5. s \in AllStmts
  BY ExtendedQueryAssumption
<1>6. w \in (SUBSET Nodes) \ {{}} /\ (s \in ForAll => w = Nodes)
  BY <1>3, <1>5, WhereFacts
<1>7. e \in LiveContexts /\ e.stmt = s /\ e.where = w
  <2> HIDE DEF w
  <2>1. QED
    BY <1>5, <1>6 DEF LiveContexts
<1>8. m \in Messages /\ Named(m) /\ m # None /\ m.kind = "P" /\ m.qc = c
  <2> HIDE DEF c
  <2>1. QED
    BY <1>4 DEF Messages, Named, None
<1> HIDE DEF c, w, e, m
<1>9. /\ X \in Sessions /\ X.list = session.list
      /\ X.context = [session.context EXCEPT ![c] = e] /\ X.current = c /\ X.uncompleted = m
      /\ X.in_progress /\ X.doing_extended /\ ~X.ignore_till_sync
  <2>1. [session.context EXCEPT ![c] = e] \in [Contexts -> LiveContexts \cup {Freed}]
    BY <1>2, <1>4, <1>7 DEF Sessions
  <2>2. QED
    BY <1>2, <1>4, <1>8, <2>1 DEF Sessions, Begin
<1> HIDE DEF X
<1>10. X.context[c] = e
  BY <1>2, <1>4, <1>9 DEF Sessions
<1>11. Core(X)
  BY <1>3, <1>4, <1>6, <1>7, <1>9, ContextSet
<1>12. Uncompleted(X)
  BY <1>7, <1>8, <1>9, <1>10, FreedFacts DEF Uncompleted
<1>13. Valid(X) = w
  BY <1>4, <1>7, <1>9, <1>10, ContextFacts DEF Valid
<1>14. /\ NodesOK(node') /\ Silent(node', Nodes \ w)
       /\ \A n \in w : node'[n].owed \in Owed("P", s)
       /\ \A n \in w : ~node[n].skip =>
             node'[n].owed # <<>> /\ (node'[n].skip => node'[n].owed = <<"E">>)
       /\ \A n \in Nodes \ w : node'[n] = node[n]
  BY <1>1, <1>2, <1>6, SendFacts DEF Kinds
<1>15. Owes(node', {<<"1">>, <<"E">>})
  <2>1. Owed("P", s) = {<<>>, <<"E">>, <<"1">>}
    BY DoneFacts DEF Owed, Kinds
  <2>2. QED
    BY <1>14, <2>1 DEF Owes, Silent
<1>16. c \notin Users(X)
  BY <1>4, <1>9 DEF Users
<1>17. Fits(X, node')
  BY <1>8, <1>9, <1>13, <1>14, <1>15, <1>16 DEF Fits, Awaits, AwaitsParse
<1>18. StepInv => Steady(X, node')
  BY <1>2, <1>6, <1>9, <1>13, <1>14 DEF Steady
<1>19. TSTATE' \in [Nodes -> TxStates] /\ qcnt' \in 0 .. Len(ResetQueries)
  BY <1>1 DEF Inv
<1>20. QED
  BY <1>1, <1>2, <1>11, <1>12, <1>14, <1>17, <1>18, <1>19, Continues

\* A message that is looked up, routed anew and made current.
Routed(msg, late, t) ==
    /\ Core(t) /\ t.list = session.list /\ t.uncompleted = session.uncompleted
    /\ t.current = msg.qc /\ msg.qc # NoContext /\ t.context[msg.qc] # Freed
    /\ t.context[msg.qc].stmt = session.context[msg.qc].stmt
    /\ t.in_progress /\ t.doing_extended
    /\ t.ignore_till_sync = session.ignore_till_sync
    /\ t.command_success = session.command_success
    /\ Valid(t) = t.context[msg.qc].where /\ Valid(t) \in (SUBSET Nodes) \ {{}}

LEMMA RouteFacts ==
    ASSUME Inv, NEW msg \in session.list, NEW late
    PROVE  Routed(msg, late, Route(msg, late))
<1> DEFINE q == msg.qc
           old == session.context[q]
           w == pool_where_to_send(session, old.stmt, late)
           e == [old EXCEPT !.where = w]
           X == Route(msg, late)
<1>1. Core(session) /\ session \in Sessions
  BY DEF Inv, Core
<1>2. q \in Contexts /\ old # Freed
  BY <1>1 DEF Core, Sessions, Messages
<1> HIDE DEF q
<1>3. old \in LiveContexts
  BY <1>1, <1>2 DEF Sessions
<1> HIDE DEF old
<1>4. old.stmt \in AllStmts
  BY <1>3 DEF LiveContexts
<1>5. w \in (SUBSET Nodes) \ {{}} /\ (old.stmt \in ForAll => w = Nodes)
  BY <1>1, <1>4, WhereFacts
<1>6. e \in LiveContexts /\ e.stmt = old.stmt /\ e.where = w
  <2> HIDE DEF w
  <2>1. QED
    BY <1>3, <1>5 DEF LiveContexts
<1>7. X = [Begin(session, TRUE) EXCEPT !.current = q, !.context[q].where = w]
  BY Zenon DEF Route, q, old
<1>8. Begin(session, TRUE) \in Sessions /\ Begin(session, TRUE).context = session.context
  BY <1>1 DEF Sessions, Begin
<1> HIDE DEF w
<1>9. [session.context EXCEPT ![q].where = w] = [session.context EXCEPT ![q] = e]
  BY Zenon DEF old
<1> HIDE DEF e
<1>10. X = [Begin(session, TRUE) EXCEPT !.current = q, !.context = [session.context EXCEPT ![q] = e]]
  BY <1>1, <1>7, <1>8, <1>9 DEF Sessions
<1>11. [session.context EXCEPT ![q] = e] \in [Contexts -> LiveContexts \cup {Freed}]
  BY <1>1, <1>2, <1>6 DEF Sessions
<1> HIDE DEF X
<1>12. /\ X \in Sessions /\ X.list = session.list
       /\ X.context = [session.context EXCEPT ![q] = e] /\ X.current = q
       /\ X.uncompleted = session.uncompleted
       /\ X.in_progress /\ X.doing_extended /\ X.ignore_till_sync = session.ignore_till_sync
       /\ X.command_success = session.command_success
  BY <1>1, <1>2, <1>10, <1>11 DEF Sessions, Begin
<1>13. X.context[q] = e
  BY <1>1, <1>2, <1>12 DEF Sessions
<1>14. Core(X)
  BY <1>1, <1>2, <1>5, <1>6, <1>12, ContextSet
<1>15. q # NoContext
  BY <1>2, ContextFacts
<1>16. Valid(X) = w
  BY <1>6, <1>12, <1>13, <1>15 DEF Valid
<1>17. X.context[q] # Freed
  BY <1>6, <1>13, FreedFacts
<1>18. QED
  BY <1>5, <1>6, <1>12, <1>13, <1>14, <1>15, <1>16, <1>17 DEF Routed, X, q, old

LEMMA BindStep ==
    ASSUME Inv, NEW portal \in Portals, NEW name \in Names, NEW late \in BOOLEAN,
           Bind(portal, name, late)
    PROVE  Inv' /\ (StepInv => StepInv')
<1> DEFINE msg == Statement(session, name)
           s == session.context[msg.qc].stmt
           m == [kind |-> "B", name |-> portal, qc |-> msg.qc]
           X == [Route(msg, late) EXCEPT !.uncompleted = m]
           again == session.writing /\ Unparsed(X) # {}
<1>1. /\ Accepts
      /\ \/ msg = None /\ End
         \/ /\ msg # None /\ session' = Tidy(X)
            /\ phase' = IF again THEN "reparse" ELSE phase
            /\ IF again THEN Send(Unparsed(X), "P", s) ELSE Send(Valid(X), "B", s)
            /\ TSTATE' = TSTATE /\ qcnt' = qcnt
  BY DEF Bind
<1>2. /\ phase = "session" /\ ~session.in_progress /\ ~session.ignore_till_sync
      /\ sent' \in 0 .. MaxMessages
      /\ session \in Sessions /\ session.uncompleted = None
      /\ NodesOK(node) /\ Silent(node, Nodes)
      /\ StepInv => \A n \in Nodes : ~node[n].skip
  BY <1>1, AcceptsFacts
<1>3. CASE msg = None /\ End
  BY <1>2, <1>3, Ends
<1>4. CASE msg # None /\ ~(msg = None /\ End)
  <2>1. Core(session)
    BY DEF Inv
  <2>2. msg \in session.list /\ msg.kind \in {"P", "Q"}
    BY <1>4, <2>1, StatementFacts
  <2>3. /\ session' = Tidy(X)
        /\ phase' = IF again THEN "reparse" ELSE phase
        /\ IF again THEN Send(Unparsed(X), "P", s) ELSE Send(Valid(X), "B", s)
        /\ TSTATE' = TSTATE /\ qcnt' = qcnt
    BY <1>1, <1>4
  <2> HIDE DEF msg
  <2>4. Routed(msg, late, Route(msg, late))
    BY <2>2, RouteFacts
  <2> DEFINE Y == Route(msg, late)
  <2>5. msg.qc \in Contexts
    BY <1>2, <2>2 DEF Sessions, Messages
  <2>6. m \in Messages /\ Named(m) /\ m # None /\ m.kind = "B" /\ m.qc = msg.qc
    <3> DEFINE q == msg.qc
    <3> HIDE DEF q
    <3>1. QED
      BY <2>5 DEF Messages, Named, None, q
  <2> HIDE DEF Y, s, m, again
  <2>7. Core(Y) /\ Y \in Sessions
    BY <2>4 DEF Routed, Y, Core
  <2>8. X = [Y EXCEPT !.uncompleted = m]
    BY DEF Y
  <2> HIDE DEF X
  <2>9. /\ X \in Sessions /\ X.list = session.list /\ X.context = Y.context
        /\ X.current = msg.qc /\ X.uncompleted = m /\ X.in_progress /\ X.doing_extended
        /\ ~X.ignore_till_sync
    <3>1. /\ X \in Sessions /\ X.list = Y.list /\ X.context = Y.context
          /\ X.current = Y.current /\ X.uncompleted = m /\ X.in_progress = Y.in_progress
          /\ X.doing_extended = Y.doing_extended /\ X.ignore_till_sync = Y.ignore_till_sync
      BY <2>6, <2>7, <2>8 DEF Sessions
    <3>2. QED
      BY <1>2, <2>4, <3>1 DEF Routed, Y
  <2>10. Core(X)
    BY <2>4, <2>7, <2>9, FlagsSet DEF Routed, Y
  <2>11. /\ X.context[X.current] # Freed /\ X.current # NoContext
         /\ Valid(X) = X.context[X.current].where /\ Valid(X) \in (SUBSET Nodes) \ {{}}
    BY <2>4, <2>9 DEF Routed, Y, Valid
  <2>12. Uncompleted(X)
    BY <2>6, <2>9, <2>11 DEF Uncompleted
  <2>13. UsedBy(X, {"P", "Q"}, X.current)
    BY <2>2, <2>9 DEF UsedBy
  <2>14. Unparsed(X) \subseteq Nodes
    BY <2>11 DEF Unparsed
  <2>15. TSTATE' \in [Nodes -> TxStates] /\ qcnt' \in 0 .. Len(ResetQueries)
    BY <2>3 DEF Inv
  <2>16. CASE again
    <3>1. phase' = "reparse" /\ Send(Unparsed(X), "P", s)
      BY <2>3, <2>16
    <3>2. /\ NodesOK(node') /\ Silent(node', Nodes \ Unparsed(X))
          /\ \A n \in Unparsed(X) : node'[n].owed \in Owed("P", s)
          /\ \A n \in Unparsed(X) : ~node[n].skip =>
                node'[n].owed # <<>> /\ (node'[n].skip => node'[n].owed = <<"E">>)
          /\ \A n \in Nodes \ Unparsed(X) : node'[n] = node[n]
      BY <1>2, <2>14, <3>1, SendFacts DEF Kinds
    <3>3. Owes(node', {<<"1">>, <<"E">>})
      <4>1. Owed("P", s) = {<<>>, <<"E">>, <<"1">>}
        BY DoneFacts DEF Owed, Kinds
      <4>2. QED
        BY <3>2, <4>1 DEF Owes, Silent
    <3>4. FitsReparse(X, node')
      BY <2>6, <2>9, <2>13, <3>2, <3>3 DEF FitsReparse
    <3>5. StepInv => SteadyReparse(X, node')
      BY <1>2, <2>9, <2>14, <3>2 DEF SteadyReparse
    <3>6. /\ Core(session') /\ Uncompleted(session') /\ FitsReparse(session', node')
          /\ StepInv => SteadyReparse(session', node')
      BY <2>3, <2>10, <2>11, <2>12, <3>4, <3>5, TidyKeeps
    <3>7. Inv'
      BY <1>2, <2>15, <3>1, <3>2, <3>6 DEF Inv
    <3>8. StepInv => StepInv'
      BY <3>1, <3>6 DEF StepInv, Stuck
    <3>9. QED
      BY <3>7, <3>8
  <2>17. CASE ~again
    <3>1. phase' = phase /\ Send(Valid(X), "B", s)
      BY <2>3, <2>17
    <3>2. /\ NodesOK(node') /\ Silent(node', Nodes \ Valid(X))
          /\ \A n \in Valid(X) : node'[n].owed \in Owed("B", s)
          /\ \A n \in Valid(X) : ~node[n].skip =>
                node'[n].owed # <<>> /\ (node'[n].skip => node'[n].owed = <<"E">>)
          /\ \A n \in Nodes \ Valid(X) : node'[n] = node[n]
      BY <1>2, <2>11, <3>1, SendFacts DEF Kinds
    <3>3. Owes(node', {<<"2">>, <<"E">>})
      <4>1. Owed("B", s) = {<<>>, <<"E">>, <<"2">>}
        BY DoneFacts DEF Owed, Kinds
      <4>2. QED
        BY <3>2, <4>1 DEF Owes, Silent
    <3>4. Fits(X, node')
      BY <2>6, <2>9, <2>13, <3>2, <3>3 DEF Fits, Awaits, AwaitsBind
    <3>5. StepInv => Steady(X, node')
      BY <1>2, <2>9, <2>11, <3>2 DEF Steady
    <3>6. QED
      BY <1>2, <2>3, <2>10, <2>12, <2>15, <3>1, <3>2, <3>4, <3>5, Continues
  <2>18. QED
    BY <2>16, <2>17
<1>5. QED
  BY <1>1, <1>3, <1>4

LEMMA DescribeExecuteStep ==
    ASSUME Inv, NEW kind \in {"D", "E"}, NEW msg, NEW late \in BOOLEAN,
           msg # None => msg \in session.list /\ (kind = "E" => msg.kind = "B"),
           DescribeExecute(kind, msg, late)
    PROVE  Inv' /\ (StepInv => StepInv')
<1> DEFINE s == session.context[msg.qc].stmt
           X == Route(msg, late)
<1>1. /\ Accepts
      /\ \/ msg = None /\ End
         \/ /\ msg # None /\ session' = Tidy(X) /\ Send(Valid(X), kind, s)
            /\ TSTATE' = TSTATE /\ phase' = phase /\ qcnt' = qcnt
  BY DEF DescribeExecute
<1>2. /\ phase = "session" /\ ~session.in_progress /\ ~session.ignore_till_sync
      /\ sent' \in 0 .. MaxMessages
      /\ session \in Sessions /\ session.uncompleted = None
      /\ NodesOK(node) /\ Silent(node, Nodes)
      /\ StepInv => \A n \in Nodes : ~node[n].skip
  BY <1>1, AcceptsFacts
<1>3. CASE msg = None /\ End
  BY <1>2, <1>3, Ends
<1>4. CASE /\ msg # None /\ session' = Tidy(X) /\ Send(Valid(X), kind, s)
           /\ TSTATE' = TSTATE /\ phase' = phase /\ qcnt' = qcnt
  <2>1. msg \in session.list /\ (kind = "E" => msg.kind = "B")
    BY <1>4
  <2>2. Routed(msg, late, X)
    BY <2>1, RouteFacts
  <2> HIDE DEF X, s
  <2>3. Core(X) /\ X.uncompleted = None
    BY <1>2, <2>2 DEF Routed
  <2>4. Uncompleted(X)
    BY <2>3 DEF Uncompleted
  <2>5. /\ X.list = session.list /\ X.current = msg.qc /\ X.in_progress /\ X.doing_extended
        /\ ~X.ignore_till_sync /\ Valid(X) \in (SUBSET Nodes) \ {{}}
    BY <1>2, <2>2 DEF Routed
  <2>6. /\ NodesOK(node') /\ Silent(node', Nodes \ Valid(X))
        /\ \A n \in Valid(X) : node'[n].owed \in Owed(kind, s)
        /\ \A n \in Valid(X) : ~node[n].skip =>
              node'[n].owed # <<>> /\ (node'[n].skip => node'[n].owed = <<"E">>)
        /\ \A n \in Nodes \ Valid(X) : node'[n] = node[n]
    <3>1. kind \in Kinds
      BY DEF Kinds
    <3>2. QED
      BY <1>2, <1>4, <2>5, <3>1, SendFacts
  <2>7. /\ Owes(node', {<<"n">>, <<"C">>, <<"E">>})
        /\ kind = "D" => Owes(node', {<<"n">>, <<"E">>})
    <3>1. Owed(kind, s) = {<<>>, <<"E">>, IF kind = "D" THEN <<"n">> ELSE <<"C">>}
      BY DoneFacts DEF Owed, Kinds
    <3>2. QED
      BY <2>6, <3>1 DEF Owes, Silent
  <2>8. (\E n \in Nodes : node'[n].owed = <<"C">>) => UsedBy(X, {"B"}, X.current)
    <3>1. kind = "E" => UsedBy(X, {"B"}, X.current)
      BY <2>1, <2>5 DEF UsedBy
    <3>2. kind = "D" => ~ \E n \in Nodes : node'[n].owed = <<"C">>
      BY <2>7 DEF Owes
    <3>3. QED
      BY <3>1, <3>2
  <2>9. X.current \in Users(X)
    BY <2>1, <2>5 DEF Users
  <2>10. Fits(X, node')
    BY <2>3, <2>5, <2>6, <2>7, <2>8, <2>9 DEF Fits, Awaits, AwaitsRun
  <2>11. StepInv => Steady(X, node')
    BY <1>2, <2>5, <2>6 DEF Steady
  <2>12. TSTATE' \in [Nodes -> TxStates] /\ qcnt' \in 0 .. Len(ResetQueries)
    BY <1>4 DEF Inv
  <2>13. QED
    BY <1>2, <1>4, <2>3, <2>4, <2>6, <2>10, <2>11, <2>12, Continues
<1>5. QED
  BY <1>1, <1>3, <1>4

\* The answer to Bind of a node whose ParseComplete has been read.
LEMMA SecondAnswer ==
    ASSUME NEW old \in NodeStates, old.owed = <<"1">>, NEW s, NEW fault \in BOOLEAN,
           NEW b, b = [Answer(old, "B", s, fault) EXCEPT !.owed = Tail(@)]
    PROVE  /\ b \in NodeStates /\ Len(b.owed) <= 2
           /\ b.owed \in {<<>>, <<"E">>, <<"2">>}
           /\ ~old.skip => b.owed # <<>> /\ (b.skip => b.owed = <<"E">>)
<1> DEFINE a == Answer(old, "B", s, fault)
           failedTx == IF old.tx = "T" THEN "E" ELSE old.tx
           fails == fault \/ (old.tx = "E" /\ s # "commit")
           tx1 == AfterSuccess(old.tx, "B", s)
           qE == <<"1">> \o <<"E">> \o <<>>
           q2 == <<"1">> \o <<Done("B", s)>> \o <<>>
<1>1. a = IF old.skip THEN old
          ELSE IF fails THEN [old EXCEPT !.tx = failedTx, !.skip = TRUE, !.owed = qE]
          ELSE [old EXCEPT !.tx = tx1, !.owed = q2]
  BY DEF Answer
<1>2. Done("B", s) = "2" /\ {"1", "2", "E"} \subseteq Answers
  BY DoneFacts DEF Kinds, Answers
<1>3. qE = <<"1", "E">> /\ q2 = <<"1", "2">>
  <2>1. <<"1">> \o <<"E">> = <<"1", "E">> /\ <<"1">> \o <<"2">> = <<"1", "2">>
    BY <1>2, SequenceFacts
  <2>2. <<"1", "E">> \in Seq(Answers) /\ <<"1", "2">> \in Seq(Answers)
    BY <1>2
  <2>3. <<"1", "E">> \o <<>> = <<"1", "E">> /\ <<"1", "2">> \o <<>> = <<"1", "2">>
    BY <2>2, ConcatEmptySeq
  <2>4. QED
    BY <1>2, <2>1, <2>3
<1>4. /\ qE \in Seq(Answers) /\ q2 \in Seq(Answers)
      /\ Tail(qE) = <<"E">> /\ Tail(q2) = <<"2">> /\ Tail(<<"1">>) = <<>>
  BY <1>2, <1>3, SequenceFacts, ZenonT(60)
<1>5. failedTx \in TxStates /\ tx1 \in TxStates
  BY DEF NodeStates, TxStates, AfterSuccess
<1> HIDE DEF a, failedTx, fails, tx1, qE, q2
<1>6. /\ a \in NodeStates
      /\ IF old.skip THEN a = old
         ELSE \/ a.owed = qE
              \/ a.owed = q2 /\ ~a.skip
  <2>1. CASE old.skip
    BY <1>1, <2>1
  <2>2. CASE ~old.skip /\ fails
    <3>1. a = [old EXCEPT !.tx = failedTx, !.skip = TRUE, !.owed = qE]
      BY <1>1, <2>2
    <3>2. a \in NodeStates /\ a.owed = qE
      BY <1>4, <1>5, <3>1 DEF NodeStates
    <3>3. QED
      BY <2>2, <3>2
  <2>3. CASE ~old.skip /\ ~fails
    <3>1. a = [old EXCEPT !.tx = tx1, !.owed = q2]
      BY <1>1, <2>3
    <3>2. a \in NodeStates /\ a.owed = q2 /\ a.skip = old.skip
      BY <1>4, <1>5, <3>1 DEF NodeStates
    <3>3. QED
      BY <2>3, <3>2
  <2>4. QED
    BY <2>1, <2>2, <2>3
<1>7. Tail(a.owed) \in {<<>>, <<"E">>, <<"2">>}
  BY <1>4, <1>6
<1>8. /\ <<>> \in Seq(Answers) /\ <<"E">> \in Seq(Answers) /\ <<"2">> \in Seq(Answers)
      /\ Len(<<>>) = 0 /\ Len(<<"E">>) = 1 /\ Len(<<"2">>) = 1
      /\ <<"E">> # <<>> /\ <<"2">> # <<>>
  BY <1>2
<1>9. b = [a EXCEPT !.owed = Tail(a.owed)]
  BY DEF a
<1>10. b \in NodeStates /\ b.owed = Tail(a.owed) /\ b.skip = a.skip
  <2> DEFINE tl == Tail(a.owed)
  <2>1. tl \in Seq(Answers)
    BY <1>7, <1>8
  <2> HIDE DEF tl
  <2>2. b \in NodeStates /\ b.owed = tl /\ b.skip = a.skip
    BY <1>6, <1>9, <2>1 DEF NodeStates, tl
  <2>3. QED
    BY <2>2 DEF tl
<1>11. ~old.skip => b.owed # <<>> /\ (b.skip => b.owed = <<"E">>)
  BY <1>4, <1>6, <1>8, <1>10
<1>12. Len(b.owed) <= 2
  <2>1. \A q \in {<<>>, <<"E">>, <<"2">>} : Len(q) <= 2
    BY <1>8
  <2>2. b.owed \in {<<>>, <<"E">>, <<"2">>}
    BY <1>7, <1>10
  <2>3. QED
    BY <2>1, <2>2, Zenon
<1>13. QED
  BY <1>7, <1>10, <1>11, <1>12

LEMMA ReparsedStep ==
    ASSUME Inv, Reparsed
    PROVE  Inv' /\ (StepInv => StepInv')
<1> DEFINE U == Unparsed(session)
           V == Valid(session)
           s == session.context[session.current].stmt
<1>1. /\ phase = "reparse" /\ phase' = "session"
      /\ session' = session /\ TSTATE' = TSTATE /\ qcnt' = qcnt /\ sent' = sent
      /\ \A n \in U : node[n].owed # <<>> /\ Head(node[n].owed) = "1"
  BY DEF Reparsed
<1>2. PICK F \in SUBSET V : node' = [n \in Nodes |->
              LET a == Answer(node[n], "B", s, n \in F)
              IN IF n \notin V THEN node[n]
                 ELSE IF n \in U THEN [a EXCEPT !.owed = Tail(@)] ELSE a]
  BY DEF Reparsed
<1>3. /\ session.in_progress /\ session.doing_extended
      /\ session.uncompleted.kind = "B" /\ session.uncompleted.qc = session.current
      /\ UsedBy(session, {"P", "Q"}, session.current)
      /\ Owes(node, {<<"1">>, <<"E">>}) /\ Silent(node, Nodes \ U)
  BY <1>1 DEF Inv, FitsReparse
<1>4. NodesOK(node) /\ Core(session)
  BY DEF Inv
<1>5. session.current \in Contexts
  <2>1. PICK m \in session.list : m.qc = session.current
    BY <1>3 DEF UsedBy
  <2>2. QED
    BY <1>4, <2>1 DEF Core, Sessions, Messages
<1>6. V = session.context[session.current].where /\ V \subseteq Nodes /\ U \subseteq V
  <2>1. V = session.context[session.current].where
    BY <1>3, <1>5, ContextFacts DEF Valid
  <2>2. session.context[session.current].where \subseteq Nodes
    <3>1. session.context[session.current] \in LiveContexts \cup {Freed}
      BY <1>4, <1>5 DEF Core, Sessions
    <3>2. QED
      BY <3>1, FreedFacts DEF LiveContexts
  <2>3. QED
    BY <2>1, <2>2 DEF Unparsed
<1> HIDE DEF U, V, s
<1>7. \A n \in U : node[n].owed = <<"1">>
  <2>1. ASSUME NEW n \in U PROVE node[n].owed = <<"1">>
    <3>1. node[n].owed \in {<<"1">>, <<"E">>}
      BY <1>1, <1>3, <1>6 DEF Owes
    <3>2. Head(<<"E">>) = "E"
      OBVIOUS
    <3>3. QED
      BY <1>1, <3>1, <3>2
  <2>2. QED
    BY <2>1
<1>8. \A n \in Nodes \ U : node[n].owed = <<>>
  BY <1>3 DEF Silent
<1>9. \A n \in Nodes : node[n] \in NodeStates
  BY <1>4 DEF NodesOK
<1>10. ASSUME NEW n \in V
       PROVE  /\ node'[n] \in NodeStates /\ Len(node'[n].owed) <= 2
              /\ node'[n].owed \in {<<>>, <<"E">>, <<"2">>}
              /\ ~node[n].skip =>
                    node'[n].owed # <<>> /\ (node'[n].skip => node'[n].owed = <<"E">>)
  <2> DEFINE old == node[n]
             f == n \in F
             a == Answer(old, "B", s, f)
  <2>1. old \in NodeStates /\ f \in BOOLEAN /\ n \in Nodes
    BY <1>6, <1>9
  <2>2. node'[n] = IF n \in U THEN [a EXCEPT !.owed = Tail(@)] ELSE a
    BY <1>2, <2>1, Zenon
  <2>3. CASE n \in U
    <3>1. old.owed = <<"1">>
      BY <1>7, <2>3
    <3>2. node'[n] = [a EXCEPT !.owed = Tail(@)]
      BY <2>2, <2>3
    <3> DEFINE b == node'[n]
    <3> HIDE DEF old, f, b
    <3>3. b = [Answer(old, "B", s, f) EXCEPT !.owed = Tail(@)]
      BY <3>2, Zenon DEF b
    <3>4. /\ b \in NodeStates /\ Len(b.owed) <= 2
          /\ b.owed \in {<<>>, <<"E">>, <<"2">>}
          /\ ~old.skip => b.owed # <<>> /\ (b.skip => b.owed = <<"E">>)
      BY <2>1, <3>1, <3>3, SecondAnswer
    <3>5. QED
      BY <3>4 DEF b, old
  <2>4. CASE n \notin U
    <3>1. old.owed = <<>>
      BY <1>8, <2>1, <2>4
    <3>2. node'[n] = a
      BY <2>2, <2>4
    <3>3. "B" \in Kinds /\ Owed("B", s) = {<<>>, <<"E">>, <<"2">>}
      BY DoneFacts DEF Owed, Kinds
    <3> HIDE DEF old, f
    <3>4. /\ a \in NodeStates /\ Len(a.owed) <= 2
          /\ a.owed \in Owed("B", s)
          /\ ~old.skip => a.owed # <<>> /\ (a.skip => a.owed = <<"E">>)
      BY <2>1, <3>1, <3>3, AnswerFacts
    <3> HIDE DEF a
    <3>5. QED
      BY <3>2, <3>3, <3>4 DEF old
  <2>5. QED
    BY <2>3, <2>4
<1>11. \A n \in Nodes \ V : node'[n] = node[n] /\ node'[n].owed = <<>>
  BY <1>2, <1>6, <1>8
<1>12. NodesOK(node')
  <2>1. node' = [n \in Nodes |-> node'[n]]
    BY <1>2
  <2>2. \A n \in Nodes : node'[n] \in NodeStates /\ Len(node'[n].owed) <= 2
    BY <1>4, <1>9, <1>10, <1>11 DEF NodesOK
  <2>3. QED
    BY <2>1, <2>2 DEF NodesOK
<1>13. Silent(node', Nodes \ V) /\ Owes(node', {<<"2">>, <<"E">>})
  BY <1>10, <1>11 DEF Silent, Owes
<1>14. Fits(session, node')
  BY <1>3, <1>13 DEF Fits, Awaits, AwaitsBind, V
<1>15. Inv'
  BY <1>1, <1>12, <1>14 DEF Inv
<1>16. ASSUME StepInv PROVE StepInv'
  <2>1. /\ ~session.ignore_till_sync
        /\ \A n \in Nodes : node[n].skip => node[n].owed = <<"E">>
    BY <1>1, <1>16 DEF StepInv, SteadyReparse
  <2>2. \A n \in Nodes : ~node[n].skip
    <3>1. <<"1">> # <<"E">> /\ <<>> # <<"E">>
      OBVIOUS
    <3>2. QED
      BY <1>7, <1>8, <2>1, <3>1
  <2>3. Steady(session, node')
    BY <1>3, <1>6, <1>10, <1>11, <2>1, <2>2 DEF Steady, V
  <2>4. QED
    BY <1>1, <2>3 DEF StepInv, Stuck
<1>17. QED
  BY <1>15, <1>16

LEMMA CloseStep ==
    ASSUME Inv, NEW msg, msg # None => msg \in session.list, Close(msg)
    PROVE  Inv' /\ (StepInv => StepInv')
<1> DEFINE s == session.context[msg.qc].stmt
           X == [Begin(session, FALSE) EXCEPT !.current = msg.qc, !.uncompleted = msg]
<1>1. /\ Accepts
      /\ \/ msg = None /\ End
         \/ /\ msg # None /\ session' = Tidy(X) /\ Send(Valid(X), "C", s)
            /\ TSTATE' = TSTATE /\ phase' = phase /\ qcnt' = qcnt
  BY DEF Close
<1>2. /\ phase = "session" /\ ~session.in_progress /\ ~session.ignore_till_sync
      /\ sent' \in 0 .. MaxMessages
      /\ session \in Sessions /\ session.uncompleted = None
      /\ NodesOK(node) /\ Silent(node, Nodes)
      /\ StepInv => \A n \in Nodes : ~node[n].skip
  BY <1>1, AcceptsFacts
<1>3. CASE msg = None /\ End
  BY <1>2, <1>3, Ends
<1>4. CASE /\ msg # None /\ session' = Tidy(X) /\ Send(Valid(X), "C", s)
           /\ TSTATE' = TSTATE /\ phase' = phase /\ qcnt' = qcnt
  <2>1. msg \in session.list /\ msg \in Messages /\ msg.qc \in Contexts
    BY <1>2, <1>4 DEF Sessions, Messages
  <2>2. Core(session)
    BY DEF Inv
  <2>3. /\ X \in Sessions /\ X.list = session.list /\ X.context = session.context
        /\ X.current = msg.qc /\ X.uncompleted = msg /\ X.in_progress /\ ~X.doing_extended
        /\ ~X.ignore_till_sync
    BY <1>2, <2>1 DEF Sessions, Begin
  <2> HIDE DEF X, s
  <2>4. Core(X)
    BY <2>1, <2>2, <2>3, FlagsSet DEF Users
  <2>5. X.context[msg.qc] # Freed /\ Named(msg)
    BY <2>1, <2>2, <2>3 DEF Core
  <2>6. Uncompleted(X)
    BY <2>1, <2>3, <2>5 DEF Uncompleted
  <2>7. Valid(X) = X.context[msg.qc].where /\ Valid(X) \subseteq Nodes
    <3>1. X.context[msg.qc] \in LiveContexts
      BY <2>1, <2>3, <2>5 DEF Sessions
    <3>2. QED
      BY <2>1, <2>3, <3>1, ContextFacts DEF Valid, LiveContexts
  <2>8. /\ NodesOK(node') /\ Silent(node', Nodes \ Valid(X))
        /\ \A n \in Valid(X) : node'[n].owed \in Owed("C", s)
        /\ \A n \in Valid(X) : ~node[n].skip =>
              node'[n].owed # <<>> /\ (node'[n].skip => node'[n].owed = <<"E">>)
        /\ \A n \in Nodes \ Valid(X) : node'[n] = node[n]
    BY <1>2, <1>4, <2>7, SendFacts DEF Kinds
  <2>9. Owes(node', {<<"3">>})
    <3>1. Owed("C", s) = {<<>>, <<"3">>}
      BY DEF Owed
    <3>2. QED
      BY <2>8, <3>1 DEF Owes, Silent
  <2>10. Fits(X, node')
    BY <2>1, <2>3, <2>8, <2>9 DEF Fits, Awaits, AwaitsClose
  <2>11. ASSUME StepInv PROVE Steady(X, node')
    <3>1. \A n \in Nodes : ~node'[n].skip
      <4>1. <<"3">> # <<"E">> /\ <<>> # <<"E">>
        OBVIOUS
      <4>2. QED
        BY <1>2, <2>8, <2>9, <2>11, <4>1 DEF Owes
    <3>2. QED
      BY <1>2, <2>3, <2>7, <2>8, <2>11, <3>1 DEF Steady
  <2>12. TSTATE' \in [Nodes -> TxStates] /\ qcnt' \in 0 .. Len(ResetQueries)
    BY <1>4 DEF Inv
  <2>13. QED
    BY <1>2, <1>4, <2>4, <2>6, <2>8, <2>10, <2>11, <2>12, Continues
<1>5. QED
  BY <1>1, <1>3, <1>4

\* Sync goes to every node that skips.
LEMMA SyncStep ==
    ASSUME Inv, Sync
    PROVE  Inv' /\ (StepInv => StepInv')
<1> DEFINE X == [Begin(session, TRUE) EXCEPT !.ignore_till_sync = FALSE]
<1>1. /\ phase = "session" /\ ~session.in_progress
      /\ session' = X /\ Send(Valid(X), "S", "sync")
      /\ TSTATE' = TSTATE /\ phase' = phase /\ qcnt' = qcnt /\ sent' = sent
  BY DEF Sync
<1>2. /\ Core(session) /\ session \in Sessions /\ NodesOK(node)
      /\ session.uncompleted = None /\ Silent(node, Nodes)
  BY <1>1 DEF Inv, Fits, Core
<1>3. /\ X \in Sessions /\ X.list = session.list /\ X.context = session.context
      /\ X.current = session.current /\ X.uncompleted = None /\ X.in_progress
      /\ X.doing_extended /\ ~X.ignore_till_sync
  BY <1>2 DEF Sessions, Begin
<1> HIDE DEF X
<1>4. Core(X)
  BY <1>2, <1>3, FlagsSet
<1>5. Uncompleted(X)
  BY <1>3 DEF Uncompleted
<1>6. Valid(X) = Target(session) /\ Valid(X) \subseteq Nodes
  <2>1. Valid(X) = Target(session)
    BY <1>3 DEF Valid, Target
  <2>2. session.current # NoContext => session.context[session.current] \in LiveContexts
    BY <1>2 DEF Core, Sessions
  <2>3. QED
    BY <2>1, <2>2 DEF Target, LiveContexts
<1>7. /\ NodesOK(node') /\ Silent(node', Nodes \ Valid(X))
      /\ \A n \in Valid(X) : node'[n].owed \in Owed("S", "sync")
      /\ \A n \in Valid(X) : ~node'[n].skip
      /\ \A n \in Nodes \ Valid(X) : node'[n] = node[n]
  BY <1>1, <1>2, <1>6, SendFacts DEF Kinds
<1>8. \A n \in Valid(X) : node'[n].owed = <<"Z">>
  BY <1>7 DEF Owed
<1>9. Fits(X, node')
  BY <1>3, <1>7, <1>8 DEF Fits, Awaits, AwaitsSync, Owes, Silent
<1>10. ASSUME StepInv PROVE Steady(X, node')
  <2>1. \A n \in Nodes : node[n].skip => n \in Target(session)
    BY <1>1, <1>10 DEF StepInv, Steady
  <2>2. \A n \in Nodes : ~node'[n].skip
    BY <1>6, <1>7, <2>1
  <2>3. <<"Z">> # <<>>
    OBVIOUS
  <2>4. QED
    BY <1>3, <1>8, <2>2, <2>3 DEF Steady
<1>11. /\ TSTATE' \in [Nodes -> TxStates] /\ qcnt' \in 0 .. Len(ResetQueries)
       /\ sent' \in 0 .. MaxMessages
  BY <1>1 DEF Inv
<1>12. QED
  BY <1>1, <1>4, <1>5, <1>7, <1>9, <1>10, <1>11, Continues

LEMMA TerminateStep ==
    ASSUME Inv, Terminate
    PROVE  Inv' /\ (StepInv => StepInv')
<1>1. /\ phase = "session" /\ ~session.in_progress /\ phase' = "reset" /\ qcnt' = 0
      /\ session' = session /\ TSTATE' = TSTATE /\ sent' = sent /\ node' = node
  BY DEF Terminate
<1>2. 0 \in 0 .. Len(ResetQueries)
  <2>1. ResetQueries \in Seq({"commit", "set", "discard"})
    BY ExtendedQueryAssumption
  <2>2. Len(ResetQueries) \in Nat
    BY <2>1, LenProperties
  <2>3. QED
    BY <2>2
<1>3. Inv'
  BY <1>1, <1>2 DEF Inv
<1>4. StepInv => StepInv'
  BY <1>1 DEF StepInv, Stuck
<1>5. QED
  BY <1>3, <1>4

\* A simple query gets a context of its own.
Asked(s, t) ==
    /\ Core(t) /\ Uncompleted(t) /\ t.list = session.list
    /\ t.current \in Contexts /\ t.current \notin Users(t)
    /\ t.context[t.current].stmt = s
    /\ t.in_progress /\ ~t.doing_extended
    /\ t.ignore_till_sync = session.ignore_till_sync
    /\ t.command_success = session.command_success
    /\ t.internal \subseteq Nodes
    /\ Valid(t) = t.context[t.current].where /\ Valid(t) \in (SUBSET Nodes) \ {{}}
    /\ t.uncompleted # None =>
         t.uncompleted.kind = "Q" /\ t.uncompleted.qc = t.current /\ s = "prepare"

LEMMA SimpleQueryFacts ==
    ASSUME Inv, session.uncompleted = None, NEW s \in AllStmts, NEW late
    PROVE  /\ s # "show" => Asked(s, SimpleQuery(session, s, late))
           /\ s = "show" =>
                LET t == SimpleQuery(session, s, late) IN
                /\ Core(t) /\ t.list = session.list /\ t.uncompleted = None
                /\ ~t.in_progress /\ t.ignore_till_sync = session.ignore_till_sync
<1> DEFINE c == Fresh(session)
           w == pool_where_to_send(session, s, late)
           e == [stmt |-> s, where |-> w, parsed |-> {}]
           int == InternalNodes(w, s)
           wr == session.writing /\ int = {}
           m == [kind |-> "Q", name |-> "s", qc |-> c]
           u == IF s = "prepare" THEN m ELSE session.uncompleted
           X == [Begin(session, FALSE) EXCEPT !.context[c] = e, !.current = c, !.internal = int,
                     !.writing = wr, !.uncompleted = u]
<1>1. SimpleQuery(session, s, late) = IF s = "show" THEN pool_query_context_destroy(X, c) ELSE X
  <2>1. Begin(session, FALSE).writing = session.writing
        /\ Begin(session, FALSE).uncompleted = session.uncompleted
    BY DEF Inv, Core, Sessions, Begin
  <2>2. QED
    BY <2>1, Zenon DEF SimpleQuery
<1>2. Core(session) /\ session \in Sessions
  BY DEF Inv, Core
<1>3. c \in Contexts /\ c \notin Users(session) /\ c # session.current
  BY <1>2, FreshContext
<1>4. w \in (SUBSET Nodes) \ {{}} /\ (s \in ForAll => w = Nodes)
  BY <1>2, WhereFacts
<1>5. e \in LiveContexts /\ e.stmt = s /\ e.where = w
  <2> HIDE DEF w
  <2>1. QED
    BY <1>4 DEF LiveContexts
<1>6. int \subseteq w /\ int \in SUBSET Nodes
  <2> HIDE DEF w
  <2>1. QED
    BY <1>4 DEF InternalNodes
<1>7. wr \in BOOLEAN
  BY <1>2 DEF Sessions
<1>8. m \in Messages /\ Named(m) /\ m # None /\ m.kind = "Q" /\ m.qc = c
  <2> HIDE DEF c
  <2>1. QED
    BY <1>3 DEF Messages, Named, None, Names
<1>9. u \in Messages \cup {None} /\ (u # None => u = m /\ s = "prepare")
  BY <1>8
<1> HIDE DEF c, w, e, int, wr, m, u
<1>10. [session.context EXCEPT ![c] = e] \in [Contexts -> LiveContexts \cup {Freed}]
  BY <1>2, <1>3, <1>5 DEF Sessions
<1>11. /\ X \in Sessions /\ X.list = session.list
       /\ X.context = [session.context EXCEPT ![c] = e] /\ X.current = c /\ X.uncompleted = u
       /\ X.in_progress /\ ~X.doing_extended /\ X.ignore_till_sync = session.ignore_till_sync
       /\ X.command_success = session.command_success /\ X.internal = int
  BY <1>2, <1>3, <1>6, <1>7, <1>9, <1>10 DEF Sessions, Begin
<1> HIDE DEF X
<1>12. X.context[c] = e
  BY <1>2, <1>3, <1>11 DEF Sessions
<1>13. Core(X)
  BY <1>2, <1>3, <1>4, <1>5, <1>11, ContextSet
<1>14. Uncompleted(X)
  BY <1>5, <1>8, <1>9, <1>11, <1>12, FreedFacts DEF Uncompleted
<1>15. Valid(X) = w
  BY <1>3, <1>5, <1>11, <1>12, ContextFacts DEF Valid
<1>16. c \notin Users(X)
  BY <1>3, <1>11 DEF Users
<1>17. Asked(s, X)
  BY <1>3, <1>4, <1>5, <1>6, <1>8, <1>9, <1>11, <1>12, <1>13, <1>14, <1>15, <1>16 DEF Asked
<1>18. CASE s = "show"
  <2> DEFINE Y == pool_query_context_destroy(X, c)
  <2>1. Y = [X EXCEPT !.context[c] = Freed, !.current = NoContext, !.in_progress = FALSE]
    BY <1>3, ContextFacts DEF pool_query_context_destroy
  <2>2. [X.context EXCEPT ![c] = Freed] \in [Contexts -> LiveContexts \cup {Freed}]
    BY <1>3, <1>11 DEF Sessions
  <2> HIDE DEF Y
  <2>3. /\ Y \in Sessions /\ Y.list = X.list /\ Y.context = [X.context EXCEPT ![c] = Freed]
        /\ Y.current = NoContext /\ ~Y.in_progress /\ Y.uncompleted = X.uncompleted
        /\ Y.ignore_till_sync = X.ignore_till_sync
    BY <1>11, <2>1, <2>2 DEF Sessions
  <2>4. \A d \in Contexts : Y.context[d] = IF d = c THEN Freed ELSE X.context[d]
    BY <1>3, <1>11, <2>3 DEF Sessions
  <2>5. \A o \in Y.list : Named(o) /\ Y.context[o.qc] # Freed
    <3>1. \A o \in X.list : o.qc \in Contexts /\ o.qc # c
      BY <1>11, <1>16 DEF Sessions, Messages, Users
    <3>2. QED
      BY <1>13, <2>3, <2>4, <3>1 DEF Core
  <2>6. Unique(Y)
    BY <1>13, <2>3 DEF Core, Unique
  <2>7. RoutedEverywhere(Y)
    BY <1>13, <2>4, FreedFacts DEF Core, RoutedEverywhere
  <2>8. Core(Y)
    BY <2>3, <2>5, <2>6, <2>7 DEF Core
  <2>9. u = None
    BY <1>9, <1>18
  <2>10. QED
    BY <1>1, <1>11, <1>18, <2>3, <2>8, <2>9 DEF Y
<1>19. QED
  BY <1>1, <1>17, <1>18

\* Sending a simple query, after the BEGINs of an internal transaction.
LEMMA SendQueryFacts ==
    ASSUME Inv, Silent(node, Nodes), NEW X, Valid(X) \subseteq Nodes, NEW s, SendQuery(X, s)
    PROVE  /\ TSTATE' \in [Nodes -> TxStates]
           /\ NodesOK(node') /\ Silent(node', Nodes \ Valid(X))
           /\ \A n \in Valid(X) : node'[n].owed \in Owed("Q", s)
           /\ \A n \in Valid(X) : ~node[n].skip => node'[n].owed # <<>> /\ ~node'[n].skip
           /\ \A n \in Nodes \ Valid(X) : node'[n] = node[n]
<1> DEFINE V == Valid(X)
           begun(n) == IF n \in X.internal THEN [node[n] EXCEPT !.tx = "T"] ELSE node[n]
<1>1. /\ TSTATE' = [n \in Nodes |-> IF n \in X.internal THEN "T" ELSE TSTATE[n]]
      /\ \E F \in SUBSET V :
           node' = [n \in Nodes |-> IF n \in V THEN Answer(begun(n), "Q", s, n \in F) ELSE node[n]]
  BY DEF SendQuery
<1>2. PICK F \in SUBSET V :
        node' = [n \in Nodes |-> IF n \in V THEN Answer(begun(n), "Q", s, n \in F) ELSE node[n]]
  BY <1>1
<1>3. TSTATE' \in [Nodes -> TxStates]
  BY <1>1 DEF Inv, TxStates
<1>4. \A n \in Nodes : node[n] \in NodeStates /\ Len(node[n].owed) <= 2 /\ node[n].owed = <<>>
  BY DEF Inv, NodesOK, Silent
<1>5. \A n \in Nodes : begun(n) \in NodeStates /\ begun(n).owed = <<>> /\ begun(n).skip = node[n].skip
  <2>1. ASSUME NEW n \in Nodes
        PROVE  begun(n) \in NodeStates /\ begun(n).owed = <<>> /\ begun(n).skip = node[n].skip
    <3> DEFINE old == node[n]
    <3>1. old \in NodeStates /\ old.owed = <<>>
      BY <1>4
    <3> HIDE DEF old
    <3> DEFINE new == [old EXCEPT !.tx = "T"]
    <3>2. new \in NodeStates /\ new.owed = old.owed /\ new.skip = old.skip
      BY <3>1 DEF NodeStates, TxStates
    <3>3. begun(n) = IF n \in X.internal THEN new ELSE old
      BY Zenon DEF old
    <3> HIDE DEF new, begun
    <3>4. QED
      BY <3>1, <3>2, <3>3 DEF old
  <2> HIDE DEF begun
  <2>2. QED
    BY <2>1
<1> HIDE DEF begun, V
<1>6. ASSUME NEW n \in V
      PROVE  /\ node'[n] \in NodeStates /\ Len(node'[n].owed) <= 2
             /\ node'[n].owed \in Owed("Q", s)
             /\ ~node[n].skip => node'[n].owed # <<>> /\ ~node'[n].skip
  <2> DEFINE old == begun(n)
             f == n \in F
             a == Answer(old, "Q", s, f)
  <2>1. old \in NodeStates /\ old.owed = <<>> /\ f \in BOOLEAN /\ old.skip = node[n].skip
        /\ n \in Nodes
    BY <1>5 DEF V
  <2>2. node'[n] = a
    BY <1>2, <2>1
  <2>3. "Q" \in Kinds
    BY DEF Kinds
  <2> HIDE DEF old, f
  <2>4. /\ a \in NodeStates /\ Len(a.owed) <= 2 /\ a.owed \in Owed("Q", s)
        /\ ~old.skip => a.owed # <<>> /\ ~a.skip
    BY <2>1, <2>3, AnswerFacts
  <2> HIDE DEF a
  <2>5. QED
    BY <2>1, <2>2, <2>4
<1>7. \A n \in Nodes \ V : node'[n] = node[n]
  BY <1>2
<1>8. NodesOK(node')
  <2>1. node' = [n \in Nodes |-> node'[n]]
    BY <1>2
  <2>2. \A n \in Nodes : node'[n] \in NodeStates /\ Len(node'[n].owed) <= 2
    BY <1>4, <1>6, <1>7
  <2>3. QED
    BY <2>1, <2>2 DEF NodesOK
<1>9. Silent(node', Nodes \ V)
  BY <1>4, <1>7 DEF Silent
<1>10. QED
  BY <1>3, <1>6, <1>7, <1>8, <1>9 DEF V

\* A query that has been sent is waited for.
LEMMA QuerySent ==
    ASSUME Inv, phase \in {"session", "reset"}, ~session.in_progress,
           NEW s \in AllStmts, NEW X, Asked(s, X), SendQuery(X, s)
    PROVE  /\ TSTATE' \in [Nodes -> TxStates] /\ NodesOK(node')
           /\ AwaitsQuery(X, node') /\ Silent(node', Nodes \ Valid(X))
           /\ Fits(X, node')
           /\ StepInv => Steady(X, node')
<1>1. /\ Core(X) /\ X.current \in Contexts /\ X.current \notin Users(X)
      /\ X.in_progress /\ ~X.doing_extended
      /\ X.ignore_till_sync = session.ignore_till_sync
      /\ Valid(X) \in (SUBSET Nodes) \ {{}}
      /\ X.context[X.current].stmt = s
      /\ X.uncompleted # None =>
           X.uncompleted.kind = "Q" /\ X.uncompleted.qc = X.current /\ s = "prepare"
  BY DEF Asked
<1>2. NodesOK(node) /\ Silent(node, Nodes)
  BY DEF Inv, Fits
<1>3. /\ TSTATE' \in [Nodes -> TxStates]
      /\ NodesOK(node') /\ Silent(node', Nodes \ Valid(X))
      /\ \A n \in Valid(X) : node'[n].owed \in Owed("Q", s)
      /\ \A n \in Valid(X) : ~node[n].skip => node'[n].owed # <<>> /\ ~node'[n].skip
      /\ \A n \in Nodes \ Valid(X) : node'[n] = node[n]
  BY <1>1, <1>2, SendQueryFacts
<1>4. /\ Owes(node', {<<"C", "Z">>, <<"E", "Z">>, <<"V", "Z">>})
      /\ s = "prepare" => Owes(node', {<<"C", "Z">>, <<"E", "Z">>})
  <2>1. /\ Owed("Q", s) = {<<>>, <<"E", "Z">>, <<Done("Q", s), "Z">>}
        /\ Done("Q", s) \in {"C", "V"} /\ (s = "prepare" => Done("Q", s) = "C")
    BY DoneFacts DEF Owed, Kinds
  <2>2. \A n \in Nodes : node'[n].owed \in {<<>>, <<"E", "Z">>, <<Done("Q", s), "Z">>}
    BY <1>3, <2>1 DEF Silent
  <2>3. QED
    BY <2>1, <2>2 DEF Owes
<1>5. AwaitsQuery(X, node')
  BY <1>1, <1>4, ContextFacts DEF AwaitsQuery
<1>6. Fits(X, node')
  BY <1>1, <1>3, <1>5 DEF Fits, Awaits
<1>7. ASSUME StepInv PROVE Steady(X, node')
  <2>1. CASE session.ignore_till_sync
    BY <1>1, <2>1 DEF Steady
  <2>2. CASE ~session.ignore_till_sync
    <3>1. \A n \in Nodes : ~node[n].skip
      BY <1>7, <2>2 DEF StepInv, Steady
    <3>2. QED
      BY <1>1, <1>3, <3>1 DEF Steady
  <2>3. QED
    BY <2>1, <2>2
<1>8. QED
  BY <1>3, <1>5, <1>6, <1>7

LEMMA QueryStep ==
    ASSUME Inv, NEW s \in Queries, NEW late \in BOOLEAN, Query(s, late)
    PROVE  Inv' /\ (StepInv => StepInv')
<1> DEFINE X == SimpleQuery(session, s, late)
<1>1. /\ Accepts /\ session' = Tidy(X)
      /\ IF s = "show" THEN TSTATE' = TSTATE /\ node' = node ELSE SendQuery(X, s)
      /\ phase' = phase /\ qcnt' = qcnt
  BY DEF Query
<1>2. /\ phase = "session" /\ ~session.in_progress /\ ~session.ignore_till_sync
      /\ sent' \in 0 .. MaxMessages
      /\ session \in Sessions /\ session.uncompleted = None
      /\ NodesOK(node) /\ Silent(node, Nodes)
      /\ StepInv => \A n \in Nodes : ~node[n].skip
  BY <1>1, AcceptsFacts
<1>3. s \in AllStmts
  BY ExtendedQueryAssumption
<1>4. qcnt' \in 0 .. Len(ResetQueries)
  BY <1>1 DEF Inv
<1>5. CASE s = "show"
  <2>1. /\ Core(X) /\ X.list = session.list /\ X.uncompleted = None
        /\ ~X.in_progress /\ X.ignore_till_sync = session.ignore_till_sync
    BY <1>2, <1>3, <1>5, SimpleQueryFacts
  <2> HIDE DEF X
  <2>2. TSTATE' \in [Nodes -> TxStates] /\ node' = node
    BY <1>1, <1>5 DEF Inv
  <2>3. Uncompleted(X) /\ Fits(X, node') /\ (StepInv => Steady(X, node'))
    BY <1>2, <2>1, <2>2 DEF Uncompleted, Fits, Steady
  <2>4. QED
    BY <1>1, <1>2, <1>4, <2>1, <2>2, <2>3, Continues
<1>6. CASE s # "show"
  <2>1. Asked(s, X) /\ SendQuery(X, s)
    BY <1>1, <1>2, <1>3, <1>6, SimpleQueryFacts
  <2> HIDE DEF X
  <2>2. /\ TSTATE' \in [Nodes -> TxStates] /\ NodesOK(node')
        /\ Fits(X, node') /\ (StepInv => Steady(X, node'))
    BY <1>2, <1>3, <2>1, QuerySent
  <2>3. Core(X) /\ Uncompleted(X)
    BY <2>1 DEF Asked
  <2>4. QED
    BY <1>1, <1>2, <1>4, <2>2, <2>3, Continues
<1>7. QED
  BY <1>5, <1>6

LEMMA ResetQueryStep ==
    ASSUME Inv, ResetQuery
    PROVE  Inv' /\ (StepInv => StepInv')
<1> DEFINE s == ResetQueries[qcnt + 1]
           X == SimpleQuery(session, s, FALSE)
           idle == s = "commit" /\ \A n \in Nodes : TSTATE[n] = "I"
<1>1. /\ phase = "reset" /\ ~session.in_progress /\ qcnt < Len(ResetQueries)
      /\ qcnt' = qcnt + 1 /\ phase' = phase /\ sent' = sent
      /\ IF idle THEN session' = session /\ TSTATE' = TSTATE /\ node' = node
         ELSE session' = Tidy(X) /\ SendQuery(X, s)
  BY DEF ResetQuery
<1>2. Len(ResetQueries) \in Nat /\ qcnt \in 0 .. Len(ResetQueries)
  BY ExtendedQueryAssumption, LenProperties DEF Inv
<1>3. qcnt' \in 0 .. Len(ResetQueries) /\ qcnt + 1 \in 1 .. Len(ResetQueries)
  BY <1>1, <1>2
<1>4. s \in AllStmts /\ s # "show"
  <2>1. s \in {"commit", "set", "discard"}
    BY <1>3, ExtendedQueryAssumption, ElementOfSeq
  <2>2. QED
    BY <2>1 DEF AllStmts
<1> HIDE DEF s, X
<1>5. /\ session.uncompleted = None /\ sent' \in 0 .. MaxMessages
  BY <1>1 DEF Inv, Fits
<1>6. CASE idle
  <2>1. session' = session /\ TSTATE' = TSTATE /\ node' = node
    BY <1>1, <1>6
  <2>2. Inv'
    BY <1>1, <1>3, <1>5, <2>1 DEF Inv
  <2>3. ASSUME Stuck PROVE Stuck'
    <3>1. \A j \in 1 .. qcnt + 1 : j = qcnt + 1 \/ j \in 1 .. qcnt
      BY <1>2
    <3>2. ResetQueries[qcnt + 1] = "commit"
      BY <1>6 DEF s
    <3>3. QED
      BY <1>1, <2>1, <2>3, <3>1, <3>2 DEF Stuck
  <2>4. StepInv => StepInv'
    BY <1>1, <2>1, <2>3 DEF StepInv
  <2>5. QED
    BY <2>2, <2>4
<1>7. CASE ~idle
  <2>1. session' = Tidy(X) /\ SendQuery(X, s)
    BY <1>1, <1>7
  <2>2. Asked(s, X)
    BY <1>4, <1>5, SimpleQueryFacts DEF X
  <2>3. /\ TSTATE' \in [Nodes -> TxStates] /\ NodesOK(node')
        /\ Fits(X, node') /\ (StepInv => Steady(X, node'))
    BY <1>1, <1>4, <2>1, <2>2, QuerySent
  <2>4. Core(X) /\ Uncompleted(X) /\ X.in_progress /\ ~X.doing_extended
    BY <2>2 DEF Asked
  <2>5. Inv' /\ (StepInv => Steady(session', node'))
    BY <1>1, <1>3, <1>5, <2>1, <2>3, <2>4, Continues
  <2>6. session'.in_progress /\ ~session'.doing_extended
    <3>1. Tidied(X, session')
      BY <2>1, <2>4, TidyFacts
    <3>2. QED
      BY <2>4, <3>1 DEF Tidied, SameFlags
  <2>7. StepInv => StepInv'
    BY <1>1, <2>5, <2>6 DEF StepInv, Stuck
  <2>8. QED
    BY <2>5, <2>7
<1>8. QED
  BY <1>6, <1>7

\* Removing a message does not touch the context of the query under way.
LEMMA ResetMessageStep ==
    ASSUME Inv, ResetMessage
    PROVE  Inv' /\ (StepInv => StepInv')
<1>1. /\ phase = "reset" /\ ~session.in_progress /\ qcnt = Len(ResetQueries)
      /\ phase' = phase /\ qcnt' = qcnt /\ sent' = sent
  BY DEF ResetMessage
<1>2. PICK m \in session.list :
         LET named == m.kind \in {"P", "Q"} /\ m.name # ""
             ss == IF named THEN SimpleQuery(session, "deallocate", FALSE) ELSE session
         IN /\ session' = Tidy(pool_remove_sent_messages(ss, {m}))
            /\ IF named THEN SendQuery(ss, "deallocate") ELSE TSTATE' = TSTATE /\ node' = node
  BY DEF ResetMessage
<1>3. /\ session.uncompleted = None /\ Silent(node, Nodes) /\ Core(session) /\ NodesOK(node)
      /\ qcnt' \in 0 .. Len(ResetQueries) /\ sent' \in 0 .. MaxMessages
  BY <1>1 DEF Inv, Fits
<1> DEFINE named == m.kind \in {"P", "Q"} /\ m.name # ""
<1>4. CASE ~named
  <2> DEFINE Y == pool_remove_sent_messages(session, {m})
  <2>1. session' = Tidy(Y) /\ TSTATE' = TSTATE /\ node' = node
    BY <1>2, <1>4
  <2>2. Removed(session, {m}, Y)
    BY <1>3, RemoveFacts
  <2> HIDE DEF Y
  <2>3. /\ Core(Y) /\ Y.uncompleted = None /\ ~Y.in_progress
        /\ Y.ignore_till_sync = session.ignore_till_sync
        /\ Y.current \in {session.current, NoContext}
    BY <1>1, <1>3, <2>2 DEF Removed, SameFlags
  <2>4. Uncompleted(Y) /\ Fits(Y, node')
    BY <1>3, <2>1, <2>3 DEF Uncompleted, Fits
  <2>5. Y.current = NoContext \/ Y.context[Y.current] = session.context[Y.current]
    BY <2>2 DEF Removed
  <2>6. ASSUME StepInv PROVE Steady(Y, node')
    <3>1. \A n \in Nodes : node[n].skip => session.ignore_till_sync /\ n \in Target(session)
      BY <1>1, <2>6 DEF StepInv, Steady
    <3>2. Target(Y) = Target(session) \/ Target(Y) = Nodes
      BY <2>3, <2>5 DEF Target
    <3>3. QED
      BY <2>1, <2>3, <3>1, <3>2 DEF Steady
  <2>7. Inv' /\ (StepInv => Steady(session', node'))
    <3>1. NodesOK(node') /\ TSTATE' \in [Nodes -> TxStates]
      BY <1>3, <2>1 DEF Inv
    <3>2. QED
      BY <1>1, <1>3, <2>1, <2>3, <2>4, <2>6, <3>1, Continues
  <2>8. session'.ignore_till_sync = session.ignore_till_sync /\ ~session'.in_progress
    <3>1. Tidied(Y, session')
      BY <2>1, <2>3, TidyFacts
    <3>2. QED
      BY <2>3, <3>1 DEF Tidied, SameFlags
  <2>9. StepInv => StepInv'
    BY <1>1, <2>7, <2>8 DEF StepInv, Stuck
  <2>10. QED
    BY <2>7, <2>9
<1>5. CASE named
  <2> DEFINE X == SimpleQuery(session, "deallocate", FALSE)
             Y == pool_remove_sent_messages(X, {m})
  <2>1. session' = Tidy(Y) /\ SendQuery(X, "deallocate")
    BY <1>2, <1>5
  <2>2. Asked("deallocate", X)
    <3>1. "deallocate" \in AllStmts /\ "deallocate" # "show"
      BY DEF AllStmts
    <3>2. QED
      BY <1>3, <3>1, SimpleQueryFacts
  <2> HIDE DEF X
  <2>3. /\ TSTATE' \in [Nodes -> TxStates] /\ NodesOK(node')
        /\ AwaitsQuery(X, node') /\ Silent(node', Nodes \ Valid(X))
        /\ StepInv => Steady(X, node')
    <3>1. "deallocate" \in AllStmts
      BY DEF AllStmts
    <3>2. QED
      BY <1>1, <2>1, <2>2, <3>1, QuerySent
  <2>4. /\ Core(X) /\ X.list = session.list /\ X.current \in Contexts
        /\ X.current \notin Users(X) /\ X.uncompleted = None /\ X.in_progress
        /\ ~X.doing_extended
    BY <2>2 DEF Asked
  <2>5. Removed(X, {m}, Y)
    BY <2>4, RemoveFacts
  <2> HIDE DEF Y
  <2>6. X.current \notin {o.qc : o \in {m}}
    BY <2>4 DEF Users
  <2>7. /\ Core(Y) /\ Y.list = X.list \ {m} /\ Y.uncompleted = None /\ SameFlags(X, Y)
        /\ Y.current = X.current /\ Y.context[X.current] = X.context[X.current]
    BY <2>4, <2>5, <2>6 DEF Removed
  <2>8. X.current \notin Users(Y)
    BY <2>4, <2>7 DEF Users
  <2>9. Valid(Y) = Valid(X)
    BY <2>7 DEF Valid, SameFlags
  <2>10. AwaitsQuery(Y, node')
    BY <2>3, <2>7, <2>8 DEF AwaitsQuery, SameFlags
  <2>11. Fits(Y, node') /\ Uncompleted(Y) /\ Y.in_progress
    BY <2>3, <2>4, <2>7, <2>9, <2>10 DEF Fits, Awaits, Uncompleted, SameFlags
  <2>12. StepInv => Steady(Y, node')
    BY <2>3, <2>4, <2>7, <2>9, <2>11 DEF Steady, SameFlags
  <2>13. Inv' /\ (StepInv => Steady(session', node'))
    BY <1>1, <1>3, <2>1, <2>3, <2>7, <2>11, <2>12, Continues
  <2>14. session'.in_progress /\ ~session'.doing_extended
    <3>1. Tidied(Y, session')
      BY <2>1, <2>7, TidyFacts
    <3>2. QED
      BY <2>4, <2>7, <2>11, <3>1 DEF Tidied, SameFlags
  <2>15. StepInv => StepInv'
    BY <1>1, <2>13, <2>14 DEF StepInv, Stuck
  <2>16. QED
    BY <2>13, <2>15
<1>6. QED
  BY <1>4, <1>5

LEMMA NewSessionFacts ==
    /\ Core(NewSession) /\ Uncompleted(NewSession) /\ ~NewSession.in_progress
    /\ NewSession.uncompleted = None /\ ~NewSession.ignore_till_sync
<1>1. NewSession.context = [c \in Contexts |-> Freed] /\ NewSession.list = {}
      /\ NewSession.uncompleted = None /\ NewSession.current = NoContext
      /\ NewSession.in_progress = FALSE /\ NewSession.ignore_till_sync = FALSE
  BY DEF NewSession
<1>2. NewSession \in Sessions
  BY DEF NewSession, Sessions
<1>3. RoutedEverywhere(NewSession) /\ Unique(NewSession)
  BY <1>1, FreedFacts DEF RoutedEverywhere, Unique
<1>4. QED
  BY <1>1, <1>2, <1>3 DEF Core, Uncompleted

\* Some reset query must be answered before the connection is used again.
LEMMA ResetDoneStep ==
    ASSUME Inv, ResetDone
    PROVE  /\ Inv'
           /\ StepInv /\ (\E i \in 1 .. Len(ResetQueries) : ResetQueries[i] # "commit") => StepInv'
<1>1. /\ phase = "reset" /\ ~session.in_progress /\ qcnt = Len(ResetQueries)
      /\ session' = NewSession /\ TSTATE' = [n \in Nodes |-> "I"] /\ phase' = "session"
      /\ qcnt' = 0 /\ sent' = 0 /\ node' = node
  BY DEF ResetDone
<1>2. 0 \in 0 .. Len(ResetQueries) /\ 0 \in 0 .. MaxMessages
  <2>1. Len(ResetQueries) \in Nat /\ MaxMessages \in Nat
    BY ExtendedQueryAssumption, LenProperties
  <2>2. QED
    BY <2>1
<1>3. TSTATE' \in [Nodes -> TxStates]
  BY <1>1 DEF TxStates
<1>4. Fits(session', node')
  BY <1>1, NewSessionFacts DEF Inv, Fits
<1>5. Inv'
  BY <1>1, <1>2, <1>3, <1>4, NewSessionFacts DEF Inv
<1>6. ASSUME StepInv, \E i \in 1 .. Len(ResetQueries) : ResetQueries[i] # "commit"
      PROVE  StepInv'
  <2>1. ~session.ignore_till_sync
    BY <1>1, <1>6 DEF StepInv, Stuck
  <2>2. \A n \in Nodes : ~node'[n].skip
    BY <1>1, <1>6, <2>1 DEF StepInv, Steady
  <2>3. Steady(session', node')
    BY <1>1, <2>2, NewSessionFacts DEF Steady
  <2>4. QED
    BY <1>1, <2>3 DEF StepInv, Stuck
<1>7. QED
  BY <1>5, <1>6

-----------------------------------------------------------------------------
(* The answers.                                                            *)

\* What every answer but ReadyForQuery leaves of a session.
Kept(ss, t) ==
    /\ Core(t) /\ t.uncompleted = None
    /\ t.in_progress = ss.in_progress /\ t.doing_extended = ss.doing_extended
    /\ t.command_success = ss.command_success
    /\ t.current \in {ss.current, NoContext}
    /\ t.current # NoContext =>
         /\ t.context[t.current].where = ss.context[t.current].where
         /\ t.context[t.current].stmt = ss.context[t.current].stmt

\* The message can be put on the list without freeing its own context.
Addable(ss, m) ==
    /\ m \in Messages /\ Named(m) /\ ss.context[m.qc] # Freed /\ m.qc = ss.current
    /\ m.qc \notin Users(ss) \/ \E o \in ss.list : o.kind # m.kind /\ o.qc = m.qc

\* The session once an intentional error has been raised, or not.
Marked(ss) == IF RaisesError(ss) THEN pool_set_node_to_be_sent(ss) ELSE ss

LEMMA MarkedFacts ==
    ASSUME NEW ss, Core(ss)
    PROVE  LET b == Marked(ss) IN
           /\ Core(b) /\ b.list = ss.list /\ b.uncompleted = ss.uncompleted
           /\ b.current = ss.current /\ SameFlags(ss, b)
           /\ \A q \in Contexts : b.context[q] = Freed <=> ss.context[q] = Freed
           /\ ss.current # NoContext =>
                b.context[ss.current].stmt = ss.context[ss.current].stmt
           /\ ss.current # NoContext =>
                b.context[ss.current].where =
                    IF RaisesError(ss) THEN ss.context[ss.current].where \cup {Primary}
                                       ELSE ss.context[ss.current].where
<1>1. CASE ~RaisesError(ss)
  BY <1>1 DEF Marked, SameFlags
<1>2. CASE RaisesError(ss)
  <2> DEFINE c == ss.current
             old == ss.context[c]
             w == old.where \cup {Primary}
             e == [old EXCEPT !.where = w]
             b == Marked(ss)
  <2>1. /\ ss \in Sessions /\ c \in Contexts /\ old \in LiveContexts /\ c # NoContext
        /\ old.stmt = "select"
    BY <1>2 DEF RaisesError, Core, Sessions
  <2>2. b = [ss EXCEPT !.context[c].where = w]
    BY <1>2, Zenon DEF Marked, pool_set_node_to_be_sent
  <2>3. [ss.context EXCEPT ![c].where = w] = [ss.context EXCEPT ![c] = e]
    BY Zenon
  <2> HIDE DEF c, b, e
  <2>4. b = [ss EXCEPT !.context = [ss.context EXCEPT ![c] = e]]
    BY <2>1, <2>2, <2>3 DEF Sessions
  <2>5. e \in LiveContexts /\ e.stmt = "select" /\ e.where = w
    <3> DEFINE o == old
    <3>1. o \in LiveContexts /\ o.stmt = "select" /\ e = [o EXCEPT !.where = w]
      BY <2>1 DEF e
    <3>2. w \in (SUBSET Nodes) \ {{}}
      BY <2>1, NodeFacts DEF LiveContexts
    <3> HIDE DEF o, w
    <3>3. QED
      BY <3>1, <3>2 DEF LiveContexts
  <2> HIDE DEF old, w
  <2>6. [ss.context EXCEPT ![c] = e] \in [Contexts -> LiveContexts \cup {Freed}]
    BY <2>1, <2>5 DEF Sessions
  <2>7. /\ b \in Sessions /\ b.list = ss.list /\ b.uncompleted = ss.uncompleted
        /\ b.current = ss.current /\ SameFlags(ss, b)
        /\ b.context = [ss.context EXCEPT ![c] = e]
    BY <2>1, <2>4, <2>6 DEF Sessions, SameFlags
  <2>8. e.stmt \in ForAll => e.where = Nodes
    BY <2>5 DEF ForAll
  <2>9. Core(b)
    BY <2>1, <2>5, <2>7, <2>8, ContextSet DEF c
  <2>10. \A d \in Contexts : b.context[d] = IF d = c THEN e ELSE ss.context[d]
    BY <2>1, <2>7 DEF Sessions
  <2>11. e # Freed /\ old # Freed /\ e.stmt = old.stmt
    BY <2>1, <2>5, FreedFacts
  <2>12. /\ b.context[c].stmt = ss.context[c].stmt
         /\ \A d \in Contexts : b.context[d] = Freed <=> ss.context[d] = Freed
    BY <2>1, <2>10, <2>11 DEF old
  <2>13. b.context[c].where = ss.context[c].where \cup {Primary}
    BY <2>1, <2>5, <2>10 DEF old, w
  <2>14. QED
    BY <1>2, <2>7, <2>9, <2>12, <2>13 DEF b, c
<1>3. QED
  BY <1>1, <1>2

\* ParseComplete and BindComplete.
LEMMA CompleteFacts ==
    ASSUME NEW ss, Core(ss), ss.uncompleted # None, Addable(ss, ss.uncompleted)
    PROVE  LET t == Complete(ss) IN
           /\ Kept(ss, t) /\ t.current = ss.current /\ Valid(t) = Valid(ss)
           /\ t.ignore_till_sync = ss.ignore_till_sync
<1> DEFINE m == ss.uncompleted
           a == pool_add_sent_message(ss, m)
           q == m.qc
           p == a.context[q].parsed \cup a.context[q].where
           e == [a.context[q] EXCEPT !.parsed = p]
           t == Complete(ss)
<1>1. Added(ss, m, a)
  BY AddFacts DEF Addable
<1>2. t = [a EXCEPT !.uncompleted = None, !.context[q].parsed = p]
  BY Zenon DEF Complete
<1>3. q = ss.current /\ q \in Contexts /\ ss.context[q] # Freed
  BY DEF Addable, Messages
<1> HIDE DEF a, t, q
<1>4. /\ Core(a) /\ a \in Sessions /\ SameFlags(ss, a) /\ a.current = ss.current
      /\ a.context[q] = ss.context[q]
  BY <1>1, <1>3 DEF Added, Core, q
<1>5. a.context[q] \in LiveContexts
  BY <1>3, <1>4 DEF Sessions
<1>6. e \in LiveContexts /\ e.stmt = a.context[q].stmt /\ e.where = a.context[q].where
  <2> DEFINE old == a.context[q]
  <2> HIDE DEF old
  <2>1. old \in LiveContexts
    BY <1>5 DEF old
  <2>2. p \in SUBSET Nodes
    BY <2>1 DEF LiveContexts, old
  <2> HIDE DEF p
  <2>3. [old EXCEPT !.parsed = p] \in LiveContexts
    BY <2>1, <2>2 DEF LiveContexts
  <2>4. [old EXCEPT !.parsed = p].stmt = old.stmt /\ [old EXCEPT !.parsed = p].where = old.where
    BY <2>1 DEF LiveContexts
  <2>5. QED
    BY <2>3, <2>4 DEF old
<1> HIDE DEF p
<1>7. [a.context EXCEPT ![q].parsed = p] = [a.context EXCEPT ![q] = e]
  BY Zenon
<1> HIDE DEF e
<1>8. t = [a EXCEPT !.uncompleted = None, !.context = [a.context EXCEPT ![q] = e]]
  BY <1>2, <1>4, <1>7 DEF Sessions
<1>9. [a.context EXCEPT ![q] = e] \in [Contexts -> LiveContexts \cup {Freed}]
  BY <1>3, <1>4, <1>6 DEF Sessions
<1>10. /\ t \in Sessions /\ t.list = a.list /\ t.context = [a.context EXCEPT ![q] = e]
       /\ t.current = a.current /\ t.uncompleted = None /\ SameFlags(a, t)
  BY <1>4, <1>8, <1>9 DEF Sessions, SameFlags
<1>11. e.stmt \in ForAll => e.where = Nodes
  BY <1>3, <1>4, <1>6 DEF Core, RoutedEverywhere
<1>12. Core(t)
  BY <1>3, <1>4, <1>6, <1>10, <1>11, ContextSet
<1>13. t.context[q] = e
  BY <1>3, <1>4, <1>10 DEF Sessions
<1>14. /\ t.context[t.current].where = ss.context[t.current].where
       /\ t.context[t.current].stmt = ss.context[t.current].stmt
  BY <1>3, <1>4, <1>6, <1>10, <1>13
<1>15. Kept(ss, t)
  BY <1>4, <1>10, <1>12, <1>14 DEF Kept, SameFlags
<1>16. Valid(t) = Valid(ss)
  BY <1>4, <1>10, <1>14 DEF Valid, SameFlags
<1>17. QED
  BY <1>4, <1>10, <1>15, <1>16 DEF t, SameFlags

\* The uncompleted message is done with.
LEMMA Finished ==
    ASSUME NEW a, Core(a), NEW t, t = [a EXCEPT !.uncompleted = None]
    PROVE  /\ Core(t) /\ t.list = a.list /\ t.current = a.current /\ t.context = a.context
           /\ t.uncompleted = None /\ SameFlags(a, t)
<1>1. a \in Sessions
  BY DEF Core
<1>2. /\ t \in Sessions /\ t.list = a.list /\ t.current = a.current /\ t.context = a.context
      /\ t.uncompleted = None /\ SameFlags(a, t)
  BY <1>1 DEF Sessions, SameFlags
<1>3. QED
  BY <1>2, FlagsSet

LEMMA CloseCompleteFacts ==
    ASSUME NEW ss, Core(ss), ss.uncompleted \in ss.list
    PROVE  LET t == CloseComplete(ss).ss IN
           /\ Kept(ss, t) /\ t.ignore_till_sync = ss.ignore_till_sync
           /\ CloseComplete(ss).read = Valid(ss)
<1> DEFINE m == ss.uncompleted
           R == {o \in ss.list : o.kind = m.kind /\ o.name = m.name}
           a == pool_remove_sent_messages(ss, R)
           t == [a EXCEPT !.uncompleted = None]
<1>1. CloseComplete(ss) = [ss |-> t, read |-> Valid(ss)]
  BY Zenon DEF CloseComplete, pool_remove_sent_message
<1>2. Removed(ss, R, a)
  BY RemoveFacts
<1> HIDE DEF a
<1>3. Core(a)
  BY <1>2 DEF Removed
<1>4. /\ Core(t) /\ t.current = a.current /\ t.context = a.context
      /\ t.uncompleted = None /\ SameFlags(a, t)
  BY <1>3, Finished
<1> HIDE DEF t, R
<1>5. Kept(ss, t) /\ t.ignore_till_sync = ss.ignore_till_sync
  BY <1>2, <1>4 DEF Removed, Kept, SameFlags
<1>6. QED
  BY <1>1, <1>5

LEMMA ErrorFacts ==
    ASSUME NEW ss, Core(ss), ss.uncompleted # None => Addable(ss, ss.uncompleted)
    PROVE  LET t == ErrorResponse3(ss).ss IN
           /\ Kept(Marked(ss), t) /\ t.ignore_till_sync = ss.doing_extended
           /\ t.list \subseteq ss.list
           /\ ErrorResponse3(ss).read = Valid(ss)
<1> DEFINE m == ss.uncompleted
           r == Marked(ss)
           a == pool_add_sent_message(r, m)
           R == {o \in a.list : o.kind = m.kind /\ o.name = m.name}
           b == pool_remove_sent_messages(a, R)
           d == [b EXCEPT !.uncompleted = None]
           c == IF m = None THEN r ELSE d
           f == c.failed \/ TSTATE[Primary] # "I"
           t == [c EXCEPT !.failed = f, !.ignore_till_sync = ss.doing_extended]
<1>1. ErrorResponse3(ss) = [ss |-> t, read |-> Valid(ss)]
  BY Zenon DEF ErrorResponse3, pool_remove_sent_message, Marked
<1>2. /\ Core(r) /\ r.list = ss.list /\ r.uncompleted = m /\ r.current = ss.current
      /\ r.doing_extended = ss.doing_extended
      /\ \A q \in Contexts : r.context[q] = Freed <=> ss.context[q] = Freed
  <2>1. Core(r)
    BY MarkedFacts
  <2>2. r.list = ss.list /\ r.uncompleted = m /\ r.current = ss.current
    BY MarkedFacts
  <2>3. r.doing_extended = ss.doing_extended
    BY MarkedFacts DEF SameFlags
  <2>4. \A q \in Contexts : r.context[q] = Freed <=> ss.context[q] = Freed
    BY MarkedFacts
  <2>5. QED
    BY <2>1, <2>2, <2>3, <2>4
<1>3. m # None => Addable(r, m)
  BY <1>2 DEF Addable, Users, Messages
<1> HIDE DEF r
<1>4. /\ Kept(r, c) /\ c.list \subseteq ss.list
  <2>1. CASE m = None
    BY <1>2, <2>1 DEF Kept
  <2>2. CASE m # None
    <3>1. Addable(r, m)
      BY <1>3, <2>2
    <3>2. Added(r, m, a)
      BY <1>2, <3>1, AddFacts DEF Addable
    <3> HIDE DEF a
    <3>3. Core(a) /\ a.list \subseteq r.list \cup {m}
      BY <3>2 DEF Added
    <3>4. Removed(a, R, b)
      BY <3>3, RemoveFacts
    <3>5. b.list \subseteq ss.list
      <4>1. b.list = a.list \ R
        BY <3>4 DEF Removed
      <4>2. QED
        BY <1>2, <3>3, <4>1
    <3> HIDE DEF b
    <3>6. Core(b)
      BY <3>4 DEF Removed
    <3>7. /\ Core(d) /\ d.list = b.list /\ d.current = b.current /\ d.context = b.context
          /\ d.uncompleted = None /\ SameFlags(b, d)
      BY <3>6, Finished
    <3> HIDE DEF d, R
    <3>8. d.current # NoContext => d.context[d.current] = r.context[d.current]
      BY <3>2, <3>4, <3>7 DEF Added, Removed
    <3>9. Kept(r, d)
      BY <3>2, <3>4, <3>7, <3>8 DEF Kept, Added, Removed, SameFlags
    <3>10. QED
      BY <2>2, <3>5, <3>7, <3>9
  <2>3. QED
    BY <2>1, <2>2
<1> HIDE DEF c
<1>5. c \in Sessions /\ r \in Sessions
  BY <1>2, <1>4 DEF Kept, Core
<1>6. f \in BOOLEAN /\ ss.doing_extended \in BOOLEAN
  BY <1>2, <1>5 DEF Sessions
<1> HIDE DEF f
<1>7. /\ t \in Sessions /\ t.list = c.list /\ t.context = c.context /\ t.current = c.current
      /\ t.uncompleted = c.uncompleted /\ t.in_progress = c.in_progress
      /\ t.doing_extended = c.doing_extended /\ t.command_success = c.command_success
      /\ t.ignore_till_sync = ss.doing_extended
  BY <1>5, <1>6 DEF Sessions
<1> HIDE DEF t
<1>8. Core(t)
  BY <1>4, <1>7, FlagsSet DEF Kept
<1>9. Kept(r, t)
  BY <1>4, <1>7, <1>8 DEF Kept
<1>10. QED
  BY <1>1, <1>4, <1>7, <1>9 DEF r

\* What CommandComplete promises.
Commanded(ss, t) ==
    /\ Kept(ss, t) /\ Valid(t) = Valid(ss) /\ t.ignore_till_sync = ss.ignore_till_sync
    /\ ss.current \notin Users(ss) =>
         /\ t.current = ss.current
         /\ t.current \notin Users(t) \/ ss.context[ss.current].stmt = "prepare"

\* A statement takes messages off the list.
LEMMA RemoveCommanded ==
    ASSUME NEW ss, Core(ss), ss.uncompleted = None, ss.current \in Contexts,
           NEW R \in SUBSET ss.list,
           \/ ss.current \notin Users(ss)
           \/ \E m \in ss.list \ R : m.qc = ss.current
           \/ ss.in_progress /\ ss.context[ss.current].where = Nodes
    PROVE  Commanded(ss, pool_remove_sent_messages(ss, R))
<1> DEFINE t == pool_remove_sent_messages(ss, R)
<1>1. Removed(ss, R, t)
  BY RemoveFacts
<1> HIDE DEF t
<1>2. /\ Core(t) /\ t.list = ss.list \ R /\ t.uncompleted = None /\ SameFlags(ss, t)
      /\ t.current \in {ss.current, NoContext}
      /\ t.current # NoContext => t.context[t.current] = ss.context[t.current]
  BY <1>1 DEF Removed
<1>3. Kept(ss, t) /\ t.ignore_till_sync = ss.ignore_till_sync
  BY <1>2 DEF Kept, SameFlags
<1>4. ss.current # NoContext
  BY ContextFacts
<1>5. CASE ss.current \notin Users(ss)
  <2>1. ss.current \notin {m.qc : m \in R}
    BY <1>5 DEF Users
  <2>2. t.current = ss.current
    BY <1>1, <2>1 DEF Removed
  <2>3. t.current \notin Users(t)
    BY <1>2, <1>5, <2>2 DEF Users
  <2>4. Valid(t) = Valid(ss)
    BY <1>2, <2>2 DEF Valid, SameFlags
  <2>5. QED
    BY <1>3, <2>2, <2>3, <2>4 DEF Commanded, t
<1>6. CASE ss.current \in Users(ss) /\ \E m \in ss.list \ R : m.qc = ss.current
  <2>1. t.current = ss.current
    BY <1>1, <1>6 DEF Removed
  <2>2. Valid(t) = Valid(ss)
    BY <1>2, <2>1 DEF Valid, SameFlags
  <2>3. QED
    BY <1>3, <1>6, <2>2 DEF Commanded, t
<1>7. CASE ss.current \in Users(ss) /\ ss.in_progress /\ ss.context[ss.current].where = Nodes
  <2>1. Valid(t) = Valid(ss)
    BY <1>2, <1>4, <1>7 DEF Valid, SameFlags
  <2>2. QED
    BY <1>3, <1>7, <2>1 DEF Commanded, t
<1>8. QED
  BY <1>5, <1>6, <1>7

LEMMA CommandFacts ==
    ASSUME NEW ss, Core(ss), ss.current \in Contexts, ss.in_progress,
           ss.current \notin Users(ss) \/ UsedBy(ss, {"B"}, ss.current),
           ss.uncompleted # None => /\ Addable(ss, ss.uncompleted)
                                    /\ ss.context[ss.current].stmt = "prepare"
                                    /\ ss.current \notin Users(ss)
    PROVE  LET t == CommandComplete(ss).ss IN
           Commanded(ss, t) /\ CommandComplete(ss).read = Valid(ss)
<1> DEFINE s == ss.context[ss.current].stmt
           m == ss.uncompleted
           a == pool_add_sent_message(ss, m)
           p == [a EXCEPT !.uncompleted = None]
           R1 == {o \in ss.list : o.kind \in {"Q", "P"} /\ o.name = "s"}
           R2 == {o \in ss.list : o.kind \in {"Q", "P"}}
           b == [ss EXCEPT !.writing = FALSE, !.failed = FALSE]
           t == CASE s = "prepare" /\ ss.uncompleted # None -> p
                  [] s = "deallocate" -> pool_remove_sent_messages(ss, R1)
                  [] s = "deallocate_all" -> pool_remove_sent_messages(ss, R2)
                  [] s = "discard" -> pool_remove_sent_messages(ss, ss.list)
                  [] s = "begin" -> b
                  [] OTHER -> ss
<1>1. CommandComplete(ss) = [ss |-> t, read |-> Valid(t)]
  BY Zenon DEF CommandComplete
<1>2. ss \in Sessions
  BY DEF Core
<1>3. ss.uncompleted = None => Commanded(ss, ss)
  BY DEF Commanded, Kept
<1>4. Commanded(ss, t)
  <2>1. CASE s = "prepare" /\ ss.uncompleted # None
    <3>1. t = p
      BY <2>1
    <3>2. Addable(ss, m) /\ ss.current \notin Users(ss)
      BY <2>1
    <3>3. Added(ss, m, a) /\ ss.current = m.qc
      BY <3>2, AddFacts DEF Addable
    <3> HIDE DEF a, t
    <3>4. Core(a)
      BY <3>3 DEF Added
    <3>5. /\ Core(p) /\ p.current = a.current /\ p.context = a.context
          /\ p.uncompleted = None /\ SameFlags(a, p)
      BY <3>4, Finished
    <3> HIDE DEF p
    <3>6. p.current = ss.current /\ p.context[p.current] = ss.context[ss.current]
      BY <3>3, <3>5 DEF Added
    <3>7. Kept(ss, p) /\ p.ignore_till_sync = ss.ignore_till_sync
      BY <3>3, <3>5, <3>6 DEF Kept, Added, SameFlags
    <3>8. Valid(p) = Valid(ss)
      BY <3>3, <3>5, <3>6 DEF Valid, Added, SameFlags
    <3>9. QED
      BY <2>1, <3>1, <3>6, <3>7, <3>8 DEF Commanded
  <2>2. CASE s = "deallocate"
    <3>1. t = pool_remove_sent_messages(ss, R1) /\ ss.uncompleted = None
      BY <2>2
    <3>2. ss.current \notin Users(ss) \/ \E o \in ss.list \ R1 : o.qc = ss.current
      BY DEF UsedBy
    <3> HIDE DEF t
    <3>3. R1 \in SUBSET ss.list
      OBVIOUS
    <3> HIDE DEF R1
    <3>4. QED
      BY <3>1, <3>2, <3>3, RemoveCommanded
  <2>3. CASE s = "deallocate_all"
    <3>1. t = pool_remove_sent_messages(ss, R2) /\ ss.uncompleted = None
      BY <2>3
    <3>2. ss.current \notin Users(ss) \/ \E o \in ss.list \ R2 : o.qc = ss.current
      BY DEF UsedBy
    <3> HIDE DEF t
    <3>3. R2 \in SUBSET ss.list
      OBVIOUS
    <3> HIDE DEF R2
    <3>4. QED
      BY <3>1, <3>2, <3>3, RemoveCommanded
  <2>4. CASE s = "discard"
    <3>1. t = pool_remove_sent_messages(ss, ss.list) /\ ss.uncompleted = None
      BY <2>4
    <3>2. ss.context[ss.current].where = Nodes
      BY <2>4 DEF Core, RoutedEverywhere, ForAll
    <3> HIDE DEF t
    <3>3. QED
      BY <3>1, <3>2, RemoveCommanded
  <2>5. CASE s = "begin"
    <3>1. t = b /\ ss.uncompleted = None
      BY <2>5
    <3>2. /\ b \in Sessions /\ b.list = ss.list /\ b.context = ss.context
          /\ b.current = ss.current /\ b.uncompleted = ss.uncompleted
          /\ b.in_progress = ss.in_progress /\ b.doing_extended = ss.doing_extended
          /\ b.command_success = ss.command_success /\ b.ignore_till_sync = ss.ignore_till_sync
      BY <1>2 DEF Sessions
    <3> HIDE DEF b, t
    <3>3. Core(b)
      BY <3>2, FlagsSet
    <3>4. Kept(ss, b) /\ Valid(b) = Valid(ss) /\ Users(b) = Users(ss)
      BY <3>1, <3>2, <3>3 DEF Kept, Valid, Users
    <3>5. QED
      BY <3>1, <3>2, <3>4 DEF Commanded
  <2>6. CASE ~(s = "prepare" /\ ss.uncompleted # None)
           /\ s \notin {"deallocate", "deallocate_all", "discard", "begin"}
    <3>1. t = ss /\ ss.uncompleted = None
      BY <2>6
    <3>2. QED
      BY <1>3, <3>1
  <2>7. QED
    BY <2>1, <2>2, <2>3, <2>4, <2>5, <2>6
<1> HIDE DEF t
<1>5. QED
  BY <1>1, <1>4 DEF Commanded

\* ReadyForQuery: the child turns to the client again, unless no command
\* has succeeded.
Readied(ss, t) ==
    /\ Core(t) /\ t.uncompleted = None
    /\ t.ignore_till_sync = ss.ignore_till_sync /\ t.command_success = ss.command_success
    /\ t.doing_extended = ss.doing_extended
    /\ t.in_progress => /\ ss.in_progress /\ ~ss.command_success
                        /\ ~ss.doing_extended => t.current = NoContext

LEMMA ReadyFacts ==
    ASSUME NEW ss, Core(ss), ss.uncompleted = None, ss.in_progress,
           \/ ss.doing_extended
           \/ ss.current = NoContext
           \/ ss.current \notin Users(ss)
           \/ ss.context[ss.current].stmt = "prepare" /\ ss.command_success
    PROVE  Readied(ss, ReadyForQuery(ss).ss) /\ ReadyForQuery(ss).read = Valid(ss)
<1> DEFINE ended == ss.in_progress /\ ss.command_success
           s == IF ended /\ ss.current # NoContext THEN ss.context[ss.current].stmt ELSE "none"
           w == s # "begin" /\ (ss.writing \/ s \notin {"select", "none"})
           f == s # "begin" /\ ss.failed
           ip == ss.in_progress /\ ~ended
           k == [ss EXCEPT !.internal = {}, !.writing = w, !.failed = f, !.in_progress = ip]
           d == pool_query_context_destroy(k, k.current)
           t == IF ss.doing_extended \/ s = "prepare" THEN k ELSE d
<1>1. ReadyForQuery(ss) = [ss |-> t, read |-> Valid(ss)]
  BY Zenon DEF ReadyForQuery
<1>2. ss \in Sessions
  BY DEF Core
<1>3. w \in BOOLEAN /\ f \in BOOLEAN /\ ip \in BOOLEAN /\ ip = ~ss.command_success
  BY <1>2 DEF Sessions
<1>4. ss.command_success /\ ss.current # NoContext => s = ss.context[ss.current].stmt
  OBVIOUS
<1> HIDE DEF w, f, ip, s
<1>5. /\ k \in Sessions /\ k.list = ss.list /\ k.context = ss.context /\ k.current = ss.current
      /\ k.uncompleted = None /\ k.in_progress = ip /\ k.doing_extended = ss.doing_extended
      /\ k.ignore_till_sync = ss.ignore_till_sync /\ k.command_success = ss.command_success
  BY <1>2, <1>3, ZenonT(40) DEF Sessions
<1> HIDE DEF k
<1>6. Core(k)
  BY <1>5, FlagsSet
<1>7. k.in_progress => ~ss.command_success
  BY <1>3, <1>5
<1>8. t = k /\ Readied(ss, k) => Readied(ss, ReadyForQuery(ss).ss) /\ ReadyForQuery(ss).read = Valid(ss)
  <2> HIDE DEF t
  <2>1. QED
    BY <1>1
<1>9. CASE ss.doing_extended
  <2>1. t = k
    BY <1>9
  <2>2. Readied(ss, k)
    BY <1>5, <1>6, <1>9, <1>7 DEF Readied
  <2>3. QED
    BY <1>8, <2>1, <2>2
<1>10. CASE ~ss.doing_extended /\ ss.current = NoContext
  <2>1. t = k
    BY <1>5, <1>10 DEF pool_query_context_destroy
  <2>2. Readied(ss, k)
    BY <1>5, <1>6, <1>10, <1>7 DEF Readied
  <2>3. QED
    BY <1>8, <2>1, <2>2
<1>11. CASE ~ss.doing_extended /\ ss.current # NoContext /\ s = "prepare"
  <2>1. t = k
    BY <1>11
  <2>2. ss.command_success
    BY <1>11 DEF s
  <2>3. ~k.in_progress
    BY <1>7, <2>2
  <2>4. Readied(ss, k)
    BY <1>5, <1>6, <2>3 DEF Readied
  <2>5. QED
    BY <1>8, <2>1, <2>4
<1>12. CASE ~ss.doing_extended /\ ss.current # NoContext /\ s # "prepare"
  <2> DEFINE c == k.current
  <2>1. t = [k EXCEPT !.context[c] = Freed, !.current = NoContext, !.in_progress = FALSE]
    BY <1>5, <1>12 DEF pool_query_context_destroy
  <2>2. c \in Contexts /\ c \notin Users(k)
    BY <1>2, <1>4, <1>5, <1>12 DEF Sessions, Users
  <2> HIDE DEF c, t
  <2>3. [k.context EXCEPT ![c] = Freed] \in [Contexts -> LiveContexts \cup {Freed}]
    BY <1>5, <2>2 DEF Sessions
  <2>4. /\ t \in Sessions /\ t.list = k.list /\ t.context = [k.context EXCEPT ![c] = Freed]
        /\ t.current = NoContext /\ t.uncompleted = None /\ ~t.in_progress
        /\ t.doing_extended = k.doing_extended
        /\ t.ignore_till_sync = k.ignore_till_sync /\ t.command_success = k.command_success
    BY <1>5, <2>1, <2>3 DEF Sessions
  <2>5. \A e \in Contexts : t.context[e] = IF e = c THEN Freed ELSE k.context[e]
    BY <1>5, <2>2, <2>4 DEF Sessions
  <2>6. \A o \in t.list : Named(o) /\ t.context[o.qc] # Freed
    <3>1. \A o \in k.list : o.qc \in Contexts /\ o.qc # c
      BY <1>5, <2>2 DEF Sessions, Messages, Users
    <3>2. QED
      BY <1>6, <2>4, <2>5, <3>1 DEF Core
  <2>7. Unique(t)
    BY <1>6, <2>4 DEF Core, Unique
  <2>8. RoutedEverywhere(t)
    BY <1>6, <2>5, FreedFacts DEF Core, RoutedEverywhere
  <2>9. Core(t)
    BY <2>4, <2>6, <2>7, <2>8 DEF Core
  <2>10. QED
    BY <1>1, <1>5, <2>4, <2>9 DEF Readied
<1>13. QED
  BY <1>9, <1>10, <1>11, <1>12

LEMMA AnswersFinite == IsFiniteSet(Answers)
<1>1. /\ IsFiniteSet({"1", "2"}) /\ IsFiniteSet({"3", "n"})
      /\ IsFiniteSet({"V", "C"}) /\ IsFiniteSet({"E", "Z"})
  BY PairCardinality
<1>2. \A A, B : IsFiniteSet(A) /\ IsFiniteSet(B) => IsFiniteSet(A \cup B)
  BY FS_Union, Zenon
<1>3. Answers = ({"1", "2"} \cup {"3", "n"}) \cup ({"V", "C"} \cup {"E", "Z"})
  BY DEF Answers
<1>4. QED
  BY <1>1, <1>2, <1>3

\* A set of one kind.
LEMMA OneKind ==
    ASSUME NEW K \in SUBSET Answers, Cardinality(K) = 1
    PROVE  \E k \in Answers : K = {k} /\ (CHOOSE x \in K : TRUE) = k
<1>1. IsFiniteSet(K)
  BY AnswersFinite, FS_Subset
<1>2. PICK k : K = {k}
  BY <1>1, FS_Singleton, Zenon
<1>3. (CHOOSE x \in K : TRUE) \in K
  BY <1>2
<1>4. QED
  BY <1>2, <1>3

\* The nodes that are read from.
LEMMA ValidFacts ==
    ASSUME NEW ss, Core(ss)
    PROVE  Valid(ss) \subseteq Nodes /\ Valid(ss) # {}
<1>1. ss.current # NoContext => ss.context[ss.current] \in LiveContexts
  BY DEF Core, Sessions
<1>2. QED
  BY <1>1, NodeFacts DEF Valid, LiveContexts

\* One answer of every valid node has been read, and of those that were sent
\* an intentional error.
Read(k) ==
    /\ \A n \in Valid(session) :
          /\ node[n].owed # <<>> /\ Head(node[n].owed) = k
          /\ node'[n].owed = Tail(node[n].owed) /\ node'[n].skip = node[n].skip
    /\ \A n \in Nodes \ Valid(session) : n \notin Raised(k) => node'[n] = node[n]
    /\ \A n \in Raised(k) :
          /\ session.doing_extended => node'[n].owed = <<>>
          /\ ~session.doing_extended => node'[n].owed = <<"Z">> /\ ~node'[n].skip

Popped(k) ==
    /\ TSTATE' = Known(k)
    /\ \A n \in Valid(session) : node[n].owed # <<>> /\ Head(node[n].owed) = k
    /\ \A n \in Raised(k) : ~node[n].skip
    /\ node' = [n \in Nodes |->
                    IF n \in Raised(k) THEN IntentionalError(session, node[n])
                    ELSE IF n \notin Valid(session) THEN node[n]
                    ELSE [node[n] EXCEPT !.owed = Tail(@),
                            !.tx = IF k = "Z" THEN TSTATE'[n] ELSE @]]

\* The session as the answer leaves it on its way to the handler.
Basis(k) == IF k = "E" THEN Marked(session) ELSE session

\* Whoever gets an intentional error is none of the nodes that are read from,
\* and becomes one.
LEMMA RaisedFacts ==
    ASSUME Inv, Reading, NEW k
    PROVE  /\ Raised(k) \subseteq Nodes /\ Raised(k) \cap Valid(session) = {}
           /\ k # "E" => Raised(k) = {} /\ Basis(k) = session
           /\ Core(Basis(k)) /\ Basis(k).list = session.list
           /\ Basis(k).current = session.current /\ SameFlags(session, Basis(k))
           /\ session.current # NoContext =>
                /\ Basis(k).context[session.current].stmt = session.context[session.current].stmt
                /\ Valid(session) = session.context[session.current].where
                /\ Basis(k).context[session.current].where = Valid(session) \cup Raised(k)
<1>1. Core(session) /\ session.in_progress
  BY DEF Inv, Reading
<1>2. session.current # NoContext =>
          /\ Valid(session) = session.context[session.current].where
          /\ session.current \in Contexts
  BY <1>1 DEF Valid, Core, Sessions
<1>3. Raised(k) \subseteq Nodes /\ Raised(k) \cap Valid(session) = {}
  BY <1>2, NodeFacts DEF Raised, RaisesError
<1>4. k # "E" => Raised(k) = {} /\ Basis(k) = session
  BY DEF Raised, Basis
<1>5. CASE k = "E"
  <2>1. Basis(k) = Marked(session)
    BY <1>5 DEF Basis
  <2>2. /\ Core(Basis(k)) /\ Basis(k).list = session.list
        /\ Basis(k).current = session.current /\ SameFlags(session, Basis(k))
        /\ session.current # NoContext =>
             /\ Basis(k).context[session.current].stmt = session.context[session.current].stmt
             /\ Basis(k).context[session.current].where =
                  IF RaisesError(session) THEN session.context[session.current].where \cup {Primary}
                                          ELSE session.context[session.current].where
    <3>1. /\ Core(Basis(k)) /\ Basis(k).list = session.list
          /\ Basis(k).current = session.current /\ SameFlags(session, Basis(k))
      BY <1>1, <2>1, MarkedFacts
    <3>2. session.current # NoContext =>
            Basis(k).context[session.current].stmt = session.context[session.current].stmt
      BY <1>1, <2>1, MarkedFacts
    <3>3. session.current # NoContext =>
            Basis(k).context[session.current].where =
              IF RaisesError(session) THEN session.context[session.current].where \cup {Primary}
                                      ELSE session.context[session.current].where
      BY <1>1, <2>1, MarkedFacts
    <3>4. QED
      BY <1>2, <3>1, <3>2, <3>3
  <2>3. Raised(k) = IF RaisesError(session) THEN {Primary} ELSE {}
    BY <1>5 DEF Raised
  <2>4. QED
    BY <1>2, <1>3, <1>4, <2>2, <2>3
<1>6. CASE k # "E"
  BY <1>1, <1>2, <1>3, <1>4, <1>6 DEF SameFlags
<1>7. QED
  BY <1>5, <1>6

LEMMA ReadFacts ==
    ASSUME Inv, Reading, NEW k, Popped(k)
    PROVE  TSTATE' \in [Nodes -> TxStates] /\ NodesOK(node') /\ Read(k)
<1> DEFINE V == Valid(session)
<1>1. V \subseteq Nodes
  BY ValidFacts DEF Inv
<1>2. \A n \in Nodes : node[n] \in NodeStates /\ Len(node[n].owed) <= 2
  BY DEF Inv, NodesOK
<1>3. TSTATE' \in [Nodes -> TxStates]
  <2>1. \A n \in Nodes : node[n].tx \in TxStates /\ TSTATE[n] \in TxStates
    BY <1>2 DEF Inv, NodeStates
  <2>2. "I" \in TxStates /\ "T" \in TxStates
    BY DEF TxStates
  <2>3. TSTATE' = Known(k)
    BY DEF Popped
  <2>4. QED
    BY <2>1, <2>2, <2>3 DEF Known
<1>4. /\ \A n \in Nodes \ V : n \notin Raised(k) => node'[n] = node[n]
      /\ Raised(k) \subseteq Nodes /\ Raised(k) \cap V = {}
  <2>1. \A n \in Nodes \ V : n \notin Raised(k) => node'[n] = node[n]
    BY Zenon DEF Popped
  <2>2. QED
    BY <2>1, RaisedFacts
<1>5a. ASSUME NEW n \in Raised(k)
       PROVE  /\ node'[n] \in NodeStates /\ Len(node'[n].owed) <= 2
              /\ session.doing_extended => node'[n].owed = <<>>
              /\ ~session.doing_extended => node'[n].owed = <<"Z">> /\ ~node'[n].skip
  <2>1. n \in Nodes /\ n \notin V
    BY <1>4
  <2>2. node'[n] = IntentionalError(session, node[n]) /\ ~node[n].skip
    BY <2>1, Zenon DEF Popped
  <2>3. node[n] \in NodeStates /\ node[n].owed = <<>>
    BY <1>2, <2>1 DEF Inv, Fits, Reading, Silent
  <2>4. QED
    BY <2>2, <2>3, IntentionalFacts
<1>5. ASSUME NEW n \in V
      PROVE  /\ node'[n] \in NodeStates /\ Len(node'[n].owed) <= 2
             /\ node'[n].owed = Tail(node[n].owed) /\ node'[n].skip = node[n].skip
  <2> DEFINE old == node[n]
             q == Tail(old.owed)
             x == IF k = "Z" THEN TSTATE'[n] ELSE old.tx
  <2>1. old \in NodeStates /\ Len(old.owed) <= 2 /\ old.owed # <<>> /\ n \in Nodes
    BY <1>1, <1>2 DEF Popped
  <2>2. node'[n] = [old EXCEPT !.owed = q, !.tx = x]
    <3>1. n \notin Raised(k)
      BY <1>4
    <3>2. QED
      BY <2>1, <3>1, Zenon DEF Popped
  <2>3. x \in TxStates
    BY <1>3, <2>1 DEF NodeStates
  <2> HIDE DEF old, x
  <2>4. q \in Seq(Answers) /\ Len(q) <= 2
    <3> DEFINE o == old.owed
    <3>1. o \in Seq(Answers) /\ o # <<>> /\ Len(o) <= 2
      BY <2>1 DEF NodeStates
    <3> HIDE DEF o
    <3>2. Tail(o) \in Seq(Answers) /\ Len(Tail(o)) = Len(o) - 1 /\ Len(o) \in Nat
      BY <3>1, HeadTailProperties, LenProperties
    <3>3. Len(Tail(o)) <= 2
      BY <3>1, <3>2
    <3>4. QED
      BY <3>2, <3>3 DEF o
  <2> HIDE DEF q
  <2>5. node'[n] \in NodeStates /\ node'[n].owed = q /\ node'[n].skip = old.skip
    BY <2>1, <2>2, <2>3, <2>4 DEF NodeStates
  <2>6. QED
    BY <2>4, <2>5 DEF q, old
<1> HIDE DEF V
<1>6. NodesOK(node')
  <2>1. node' = [n \in Nodes |-> node'[n]]
    BY Zenon DEF Popped
  <2>2. \A n \in Nodes : node'[n] \in NodeStates /\ Len(node'[n].owed) <= 2
    BY <1>2, <1>4, <1>5, <1>5a
  <2>3. QED
    BY <2>1, <2>2 DEF NodesOK
<1>7. Read(k)
  BY <1>4, <1>5, <1>5a DEF Read, Popped, V
<1>8. QED
  BY <1>3, <1>6, <1>7

Single == {<<"1">>, <<"2">>, <<"3">>, <<"n">>, <<"C">>, <<"E">>, <<"Z">>}
Double == {<<"C", "Z">>, <<"E", "Z">>, <<"V", "Z">>}

LEMMA HeadFacts ==
    ASSUME NEW q, NEW k, q # <<>>, Head(q) = k
    PROVE  /\ q \in Single \cup {<<>>} => q = <<k>> /\ Tail(q) = <<>>
           /\ q \in Double \cup {<<>>} => q = <<k, "Z">> /\ Tail(q) = <<"Z">>
<1>1. \A a \in {"1", "2", "3", "n", "C", "E", "Z", "V"} :
         Head(<<a>>) = a /\ Tail(<<a>>) = <<>> /\ Head(<<a, "Z">>) = a /\ Tail(<<a, "Z">>) = <<"Z">>
  <2>1. TAKE a \in {"1", "2", "3", "n", "C", "E", "Z", "V"}
  <2>2. a \in Answers /\ "Z" \in Answers
    BY DEF Answers
  <2>3. QED
    BY <2>2, SequenceFacts
<1>2. q \in Single => \E a \in {"1", "2", "3", "n", "C", "E", "Z", "V"} : q = <<a>>
  BY DEF Single
<1>3. q \in Double => \E a \in {"1", "2", "3", "n", "C", "E", "Z", "V"} : q = <<a, "Z">>
  BY DEF Double
<1>4. ASSUME q \in Single PROVE q = <<k>> /\ Tail(q) = <<>>
  <2>1. PICK a \in {"1", "2", "3", "n", "C", "E", "Z", "V"} : q = <<a>>
    BY <1>2, <1>4
  <2>2. Head(<<a>>) = a /\ Tail(<<a>>) = <<>>
    BY <1>1
  <2>3. QED
    BY <2>1, <2>2, Zenon
<1>5. ASSUME q \in Double PROVE q = <<k, "Z">> /\ Tail(q) = <<"Z">>
  <2>1. PICK a \in {"1", "2", "3", "n", "C", "E", "Z", "V"} : q = <<a, "Z">>
    BY <1>3, <1>5
  <2>2. Head(<<a, "Z">>) = a /\ Tail(<<a, "Z">>) = <<"Z">>
    BY <1>1
  <2>3. QED
    BY <2>1, <2>2, Zenon
<1>6. QED
  BY <1>4, <1>5

\* The flags after an answer.
LEMMA SettleFacts ==
    ASSUME NEW ss, NEW t, Kept(ss, t), NEW k
    PROVE  LET y == Settle(k, t) IN
           /\ Core(y) /\ y.uncompleted = None /\ y.list = t.list /\ y.context = t.context
           /\ y.current = t.current /\ y.doing_extended = ss.doing_extended
           /\ y.ignore_till_sync = t.ignore_till_sync
           /\ ss.doing_extended \/ k \in {"1", "2", "3"} => ~y.in_progress
           /\ ~(ss.doing_extended \/ k \in {"1", "2", "3"}) => y.in_progress = ss.in_progress
           /\ k \in {"C", "E"} => y.command_success
<1> DEFINE cs == t.command_success \/ k \in {"1", "2", "3", "E", "C"}
           ip == t.in_progress /\ ~(t.doing_extended \/ k \in {"1", "2", "3"})
           y == Settle(k, t)
<1>1. y = [t EXCEPT !.command_success = cs, !.in_progress = ip]
  BY Zenon DEF Settle
<1>2. Core(t) /\ t \in Sessions
  BY DEF Kept, Core
<1>3. cs \in BOOLEAN /\ ip \in BOOLEAN
  BY <1>2 DEF Sessions
<1>4. /\ k \in {"C", "E"} => cs
      /\ ss.doing_extended \/ k \in {"1", "2", "3"} => ~ip
      /\ ~(ss.doing_extended \/ k \in {"1", "2", "3"}) => ip = ss.in_progress
  <2>1. t.doing_extended = ss.doing_extended /\ t.in_progress = ss.in_progress
    BY DEF Kept
  <2>2. ss.in_progress \in BOOLEAN
    BY <1>2, <2>1 DEF Sessions
  <2>3. QED
    BY <2>1, <2>2
<1> HIDE DEF cs, ip, y
<1>5. /\ y \in Sessions /\ y.list = t.list /\ y.context = t.context /\ y.current = t.current
      /\ y.uncompleted = t.uncompleted /\ y.doing_extended = t.doing_extended
      /\ y.ignore_till_sync = t.ignore_till_sync /\ y.command_success = cs
      /\ y.in_progress = ip
  BY <1>1, <1>2, <1>3 DEF Sessions
<1>6. Core(y)
  BY <1>2, <1>5, FlagsSet
<1>7. y.uncompleted = None /\ y.doing_extended = ss.doing_extended
  BY <1>5 DEF Kept
<1>8. QED
  BY <1>4, <1>5, <1>6, <1>7 DEF y

\* A node that skips owes its error.
LEMMA SkipFacts ==
    ASSUME Inv, StepInv, Reading, NEW n \in Nodes, node[n].skip
    PROVE  node[n].owed = <<"E">> /\ session.doing_extended /\ n \in Valid(session)
<1>1. node[n].owed = <<"E">> /\ session.doing_extended
  BY DEF StepInv, Steady, Reading
<1>2. Silent(node, Nodes \ Valid(session))
  BY DEF Inv, Fits, Reading
<1>3. <<"E">> # <<>>
  OBVIOUS
<1>4. QED
  BY <1>1, <1>2, <1>3 DEF Silent

\* The last answer of a message: the child turns to the client.
LEMMA SettledIdle ==
    ASSUME Inv, Reading, NEW k, Read(k), Owes(node, Single),
           session.doing_extended \/ k \in {"1", "2", "3"},
           NEW t, Kept(Basis(k), t),
           k = "E" /\ session.doing_extended => t.ignore_till_sync
    PROVE  LET y == Settle(k, t) IN
           /\ Core(y) /\ Uncompleted(y) /\ Fits(y, node')
           /\ StepInv => Steady(y, node')
<1> DEFINE y == Settle(k, t)
           V == Valid(session)
           b == Basis(k)
<1>1. /\ Raised(k) \subseteq Nodes /\ Raised(k) \cap V = {} /\ (k # "E" => Raised(k) = {})
      /\ b.current = session.current /\ b.doing_extended = session.doing_extended
      /\ session.current # NoContext =>
           b.context[session.current].where = V \cup Raised(k)
  BY RaisedFacts DEF SameFlags
<1>2. Kept(b, t)
  OBVIOUS
<1> HIDE DEF b
<1>3. /\ Core(y) /\ y.uncompleted = None /\ y.context = t.context
      /\ y.current = t.current /\ ~y.in_progress
      /\ y.ignore_till_sync = t.ignore_till_sync
  BY <1>1, <1>2, SettleFacts
<1> HIDE DEF y
<1>4. V \subseteq Nodes
  BY ValidFacts DEF Inv
<1>5. \A n \in V : node[n].owed = <<k>> /\ node'[n].owed = <<>>
  <2>1. TAKE n \in V
  <2> DEFINE q == node[n].owed
  <2>2. q \in Single \cup {<<>>} /\ q # <<>> /\ Head(q) = k /\ node'[n].owed = Tail(q)
    BY <1>4 DEF Read, Owes
  <2> HIDE DEF q
  <2>3. q = <<k>> /\ Tail(q) = <<>>
    BY <2>2, HeadFacts
  <2>4. QED
    BY <2>2, <2>3 DEF q
<1>6. Silent(node, Nodes \ V)
  BY DEF Inv, Fits, Reading
<1>7. \A n \in Raised(k) : session.doing_extended /\ node'[n].owed = <<>>
  BY <1>1 DEF Read
<1>8. Silent(node', Nodes)
  BY <1>5, <1>6, <1>7 DEF Silent, Read
<1>9. Uncompleted(y) /\ Fits(y, node')
  BY <1>3, <1>8 DEF Uncompleted, Fits
<1>10. Target(y) = Nodes \/ Target(y) = V \cup Raised(k)
  BY <1>1, <1>2, <1>3 DEF Target, Kept
<1>11. ASSUME StepInv PROVE Steady(y, node')
  <2>1. ASSUME NEW n \in Nodes, node'[n].skip
        PROVE  y.ignore_till_sync /\ n \in Target(y)
    <3>1. CASE n \in Raised(k)
      <4>1. k = "E" /\ session.doing_extended
        BY <1>1, <1>7, <3>1
      <4>2. QED
        BY <1>3, <1>10, <3>1, <4>1
    <3>2. CASE n \notin Raised(k)
      <4>1. node[n].skip
        BY <2>1, <3>2 DEF Read
      <4>2. node[n].owed = <<"E">> /\ session.doing_extended /\ n \in V
        BY <1>11, <4>1, SkipFacts
      <4>3. <<k>> = <<"E">>
        BY <1>5, <4>2
      <4>4. k = "E"
        BY <4>3
      <4>5. y.ignore_till_sync
        BY <1>3, <4>2, <4>4
      <4>6. QED
        BY <1>10, <4>2, <4>5
    <3>3. QED
      BY <3>1, <3>2
  <2>2. QED
    BY <1>3, <2>1 DEF Steady
<1>12. QED
  BY <1>3, <1>9, <1>11 DEF y

\* The answer to a simple query: ReadyForQuery is still to come.
LEMMA SettledReady ==
    ASSUME Inv, Reading, NEW k \in {"C", "E", "V"}, Read(k), Owes(node, Double),
           ~session.doing_extended, NEW t, Kept(Basis(k), t), ~t.ignore_till_sync,
           \/ t.current = NoContext
           \/ t.current \notin Users(t)
           \/ k = "C" /\ session.context[session.current].stmt = "prepare"
    PROVE  LET y == Settle(k, t) IN
           /\ Core(y) /\ Uncompleted(y) /\ Fits(y, node')
           /\ StepInv => Steady(y, node')
<1> DEFINE y == Settle(k, t)
           V == Valid(session)
           b == Basis(k)
           W == V \cup Raised(k)
<1>1. /\ Raised(k) \subseteq Nodes
      /\ b.current = session.current /\ b.doing_extended = session.doing_extended
      /\ b.in_progress = session.in_progress
      /\ session.current # NoContext =>
           /\ b.context[session.current].where = W
           /\ b.context[session.current].stmt = session.context[session.current].stmt
  BY RaisedFacts DEF SameFlags
<1>2. Kept(b, t)
  OBVIOUS
<1> HIDE DEF b
<1>3. /\ Core(y) /\ y.uncompleted = None /\ y.context = t.context /\ y.list = t.list
      /\ y.current = t.current /\ y.in_progress /\ ~y.ignore_till_sync
      /\ ~y.doing_extended /\ (k = "C" => y.command_success)
  BY <1>1, <1>2, SettleFacts DEF Reading
<1> HIDE DEF y
<1>4. V \subseteq Nodes
  BY ValidFacts DEF Inv
<1>5. \A n \in V : node'[n].owed = <<"Z">>
  <2>1. TAKE n \in V
  <2> DEFINE q == node[n].owed
  <2>2. q \in Double \cup {<<>>} /\ q # <<>> /\ Head(q) = k /\ node'[n].owed = Tail(q)
    BY <1>4 DEF Read, Owes
  <2> HIDE DEF q
  <2>3. Tail(q) = <<"Z">>
    BY <2>2, HeadFacts
  <2>4. QED
    BY <2>2, <2>3 DEF q
<1>6. \A n \in W : node'[n].owed = <<"Z">>
  BY <1>5 DEF Read
<1>7. Silent(node', Nodes \ W)
  BY DEF Inv, Fits, Reading, Read, Silent
<1>8. Owes(node', {<<"Z">>})
  BY <1>6, <1>7 DEF Owes, Silent
<1>9. IF y.current = NoContext THEN Valid(y) = Nodes ELSE Valid(y) = W
  BY <1>1, <1>2, <1>3 DEF Valid, Kept
<1> HIDE DEF W
<1>10. Silent(node', Nodes \ Valid(y))
  BY <1>7, <1>9 DEF Silent
<1>11. AwaitsReady(y, node')
  <2>1. y.current # NoContext =>
           y.context[y.current].stmt = session.context[session.current].stmt
    BY <1>1, <1>2, <1>3 DEF Kept
  <2>2. Users(y) = Users(t)
    BY <1>3 DEF Users
  <2>3. QED
    BY <1>3, <1>8, <2>1, <2>2 DEF AwaitsReady
<1>12. Uncompleted(y) /\ Fits(y, node')
  BY <1>3, <1>10, <1>11 DEF Uncompleted, Fits, Awaits
<1>13. ASSUME StepInv PROVE Steady(y, node')
  <2>1. \A n \in Nodes : ~node[n].skip
    BY <1>13, SkipFacts
  <2>2. \A n \in Nodes : ~node'[n].skip
    BY <2>1 DEF Read
  <2>3. <<"Z">> # <<>>
    OBVIOUS
  <2>4. QED
    BY <1>3, <1>6, <1>9, <2>2, <2>3 DEF Steady
<1>14. QED
  BY <1>3, <1>12, <1>13 DEF y

\* ReadyForQuery.
LEMMA ReadyStep ==
    ASSUME Inv, Reading, Read("Z"), AwaitsSync(session, node) \/ AwaitsReady(session, node)
    PROVE  LET y == ReadyForQuery(session).ss IN
           /\ Core(y) /\ Uncompleted(y) /\ Fits(y, node') /\ ReadyForQuery(session).read = Valid(session)
           /\ StepInv => Steady(y, node')
           /\ y.doing_extended = session.doing_extended
           /\ y.ignore_till_sync = session.ignore_till_sync
<1> DEFINE y == ReadyForQuery(session).ss
           V == Valid(session)
<1>1. Core(session) /\ session.in_progress /\ ~session.ignore_till_sync
  BY DEF Inv, Reading
<1>2. Readied(session, y) /\ ReadyForQuery(session).read = Valid(session)
  BY <1>1, ReadyFacts DEF AwaitsSync, AwaitsReady
<1> HIDE DEF y
<1>3. /\ Core(y) /\ y.uncompleted = None /\ ~y.ignore_till_sync
      /\ y.doing_extended = session.doing_extended
      /\ y.ignore_till_sync = session.ignore_till_sync
      /\ y.in_progress => /\ ~y.command_success
                          /\ ~y.doing_extended => y.current = NoContext
  BY <1>1, <1>2 DEF Readied
<1>4. V \subseteq Nodes
  BY <1>1, ValidFacts
<1>5. Owes(node, {<<"Z">>})
  BY DEF AwaitsSync, AwaitsReady
<1>6. \A n \in V : node'[n].owed = <<>>
  <2>1. TAKE n \in V
  <2> DEFINE q == node[n].owed
  <2>2. q \in Single \cup {<<>>} /\ q # <<>> /\ Head(q) = "Z" /\ node'[n].owed = Tail(q)
    BY <1>4, <1>5 DEF Read, Owes, Single
  <2> HIDE DEF q
  <2>3. Tail(q) = <<>>
    BY <2>2, HeadFacts
  <2>4. QED
    BY <2>2, <2>3 DEF q
<1>6a. Raised("Z") = {}
  BY DEF Raised
<1>7. Silent(node', Nodes)
  BY <1>6, <1>6a DEF Inv, Fits, Reading, Read, Silent
<1>8. Uncompleted(y) /\ Silent(node', Nodes \ Valid(y)) /\ Owes(node', {<<"Z">>})
  BY <1>3, <1>7 DEF Uncompleted, Silent, Owes
<1>9. y.in_progress => AwaitsSync(y, node') \/ AwaitsReady(y, node')
  BY <1>3, <1>8 DEF AwaitsSync, AwaitsReady
<1>10. Fits(y, node')
  BY <1>3, <1>7, <1>8, <1>9 DEF Fits, Awaits
<1>11. ASSUME StepInv PROVE Steady(y, node')
  <2>1. \A n \in Nodes : node[n].owed \in {<<"Z">>, <<>>}
    BY <1>5 DEF Owes
  <2>2. <<"E">> # <<"Z">> /\ <<"E">> # <<>>
    OBVIOUS
  <2>3. \A n \in Nodes : ~node[n].skip
    BY <1>11, <2>1, <2>2, SkipFacts
  <2>4. \A n \in Nodes : ~node'[n].skip
    BY <1>6a, <2>3 DEF Read
  <2>5. QED
    BY <1>3, <2>4 DEF Steady
<1>12. QED
  BY <1>1, <1>2, <1>3, <1>8, <1>10, <1>11 DEF y

\* An answer leaves the session and the nodes fitting.
Good(y) ==
    /\ Core(y) /\ Uncompleted(y) /\ Fits(y, node')
    /\ StepInv => Steady(y, node')
    /\ y.doing_extended = session.doing_extended
    /\ ~session.doing_extended => ~y.ignore_till_sync

LEMMA IdleOutcome ==
    ASSUME Inv, Reading, NEW k, k # "Z", Read(k), Owes(node, Single),
           session.doing_extended \/ k \in {"1", "2", "3"},
           NEW t, Kept(Basis(k), t),
           IF k = "E" THEN t.ignore_till_sync = session.doing_extended ELSE ~t.ignore_till_sync
    PROVE  Good(Settle(k, t))
<1> DEFINE y == Settle(k, t)
<1>1. (k = "E" /\ session.doing_extended => t.ignore_till_sync)
      /\ (~session.doing_extended => ~t.ignore_till_sync)
  OBVIOUS
<1>2. y.doing_extended = session.doing_extended /\ (t.ignore_till_sync <=> y.ignore_till_sync)
  BY RaisedFacts, SettleFacts DEF SameFlags
<1>3. /\ Core(y) /\ Uncompleted(y) /\ Fits(y, node')
      /\ StepInv => Steady(y, node')
  BY <1>1, SettledIdle
<1> HIDE DEF y
<1>4. QED
  BY <1>1, <1>2, <1>3 DEF Good, y

LEMMA ReadyOutcome ==
    ASSUME Inv, Reading, NEW k \in {"C", "E", "V"}, Read(k), Owes(node, Double),
           ~session.doing_extended, NEW t, Kept(Basis(k), t), ~t.ignore_till_sync,
           \/ t.current = NoContext
           \/ t.current \notin Users(t)
           \/ k = "C" /\ session.context[session.current].stmt = "prepare"
    PROVE  Good(Settle(k, t))
<1> DEFINE y == Settle(k, t)
<1>1. y.doing_extended = session.doing_extended /\ (t.ignore_till_sync <=> y.ignore_till_sync)
  BY RaisedFacts, SettleFacts DEF SameFlags
<1>2. /\ Core(y) /\ Uncompleted(y) /\ Fits(y, node')
      /\ StepInv => Steady(y, node')
  BY SettledReady
<1> HIDE DEF y
<1>3. QED
  BY <1>1, <1>2 DEF Good, y

\* The kind that is read is one of those that are owed.
LEMMA KindOwed ==
    ASSUME Inv, NEW k, Read(k), NEW S, Owes(node, S)
    PROVE  /\ S \subseteq Single => <<k>> \in S
           /\ S \subseteq Double => <<k, "Z">> \in S
<1>1. PICK n \in Valid(session) : n \in Nodes
  BY ValidFacts DEF Inv
<1> DEFINE q == node[n].owed
<1>2. q \in S \cup {<<>>} /\ q # <<>> /\ Head(q) = k
  BY <1>1 DEF Owes, Read
<1> HIDE DEF q
<1>3. S \subseteq Single => q = <<k>>
  BY <1>2, HeadFacts
<1>4. S \subseteq Double => q = <<k, "Z">>
  BY <1>2, HeadFacts
<1>5. QED
  BY <1>2, <1>3, <1>4

Result(k) == IF k = "Z" THEN Outcome(k).ss ELSE Settle(k, Outcome(k).ss)

\* What Outcome is for each kind.
LEMMA OutcomeFacts ==
    /\ Outcome("1") = ParseComplete(session) /\ Outcome("2") = ParseComplete(session)
    /\ Outcome("3") = CloseComplete(session) /\ Outcome("C") = CommandComplete(session)
    /\ Outcome("E") = ErrorResponse3(session) /\ Outcome("Z") = ReadyForQuery(session)
    /\ Outcome("n") = [ss |-> session, read |-> Valid(session)]
    /\ Outcome("V") = [ss |-> session, read |-> Valid(session)]
BY DEF Outcome

\* ParseComplete or BindComplete, or an error instead.
LEMMA PreparedOutcome ==
    ASSUME Inv, Reading, NEW k, Read(k), session.doing_extended,
           session.uncompleted # None, Addable(session, session.uncompleted),
           Owes(node, {<<"1">>, <<"E">>}) \/ Owes(node, {<<"2">>, <<"E">>})
    PROVE  Good(Result(k)) /\ Outcome(k).read = Valid(session)
<1>1. Owes(node, Single)
  BY DEF Owes, Single
<1>2. k \in {"1", "2", "E"}
  <2>1. {<<"1">>, <<"E">>} \subseteq Single /\ {<<"2">>, <<"E">>} \subseteq Single
    BY DEF Single
  <2>2. <<k>> \in {<<"1">>, <<"2">>, <<"E">>}
    BY <2>1, KindOwed
  <2>3. QED
    BY <2>2
<1>3. Core(session) /\ ~session.ignore_till_sync
  BY DEF Inv, Reading
<1>4. CASE k \in {"1", "2"}
  <2> DEFINE t == Complete(session)
  <2>1. /\ Kept(session, t) /\ Valid(t) = Valid(session)
        /\ t.ignore_till_sync = session.ignore_till_sync
    BY <1>3, CompleteFacts
  <2> HIDE DEF t
  <2>2. Outcome(k) = [ss |-> t, read |-> Valid(t)]
    BY <1>4, OutcomeFacts DEF ParseComplete, t
  <2>3. Result(k) = Settle(k, t)
    BY <1>4, <2>2 DEF Result
  <2>4. ~t.ignore_till_sync
    BY <1>3, <2>1
  <2>5. k # "Z" /\ k # "E"
    BY <1>4
  <2>6. Good(Settle(k, t))
    BY <1>1, <2>1, <2>4, <2>5, RaisedFacts, IdleOutcome
  <2>7. QED
    BY <2>1, <2>2, <2>3, <2>6
<1>5. CASE k = "E"
  <2> DEFINE t == ErrorResponse3(session).ss
  <2>1. /\ Kept(Basis("E"), t) /\ t.ignore_till_sync = session.doing_extended
        /\ ErrorResponse3(session).read = Valid(session)
    BY <1>3, ErrorFacts DEF Basis
  <2> HIDE DEF t
  <2>2. Result("E") = Settle("E", t) /\ Outcome("E").read = Valid(session)
    BY <2>1, OutcomeFacts DEF Result, t
  <2>3. Good(Settle("E", t))
    <3>1. Read("E")
      BY <1>5
    <3>2. QED
      BY <1>1, <2>1, <3>1, IdleOutcome
  <2>4. QED
    BY <1>5, <2>2, <2>3
<1>6. QED
  BY <1>2, <1>4, <1>5

\* Describe and Execute.
LEMMA RunOutcome ==
    ASSUME Inv, Reading, NEW k, Read(k), AwaitsRun(session, node)
    PROVE  Good(Result(k)) /\ Outcome(k).read = Valid(session)
<1>1. /\ session.doing_extended /\ session.uncompleted = None /\ session.current \in Users(session)
      /\ Owes(node, {<<"n">>, <<"C">>, <<"E">>})
  BY DEF AwaitsRun
<1>2. Owes(node, Single)
  BY <1>1 DEF Owes, Single
<1>3. k \in {"n", "C", "E"}
  <2>1. {<<"n">>, <<"C">>, <<"E">>} \subseteq Single
    BY DEF Single
  <2>2. <<k>> \in {<<"n">>, <<"C">>, <<"E">>}
    BY <1>1, <2>1, KindOwed
  <2>3. QED
    BY <2>2
<1>4. Core(session) /\ ~session.ignore_till_sync /\ session.in_progress
  BY DEF Inv, Reading
<1>5. CASE k = "n"
  <2>1. Kept(session, session)
    BY <1>1, <1>4 DEF Kept
  <2>2. Result("n") = Settle("n", session) /\ Outcome("n").read = Valid(session)
    BY OutcomeFacts DEF Result
  <2>3. Read("n")
    BY <1>5
  <2>4. Good(Settle("n", session))
    BY <1>1, <1>2, <1>4, <2>1, <2>3, RaisedFacts, IdleOutcome
  <2>5. QED
    BY <1>5, <2>2, <2>4
<1>6. CASE k = "C"
  <2> DEFINE t == CommandComplete(session).ss
  <2>1. UsedBy(session, {"B"}, session.current)
    <3>1. PICK n \in Valid(session) : n \in Nodes
      BY <1>4, ValidFacts
    <3> DEFINE q == node[n].owed
    <3>2. q \in Single \cup {<<>>} /\ q # <<>> /\ Head(q) = "C"
      BY <1>2, <1>6, <3>1 DEF Owes, Read
    <3> HIDE DEF q
    <3>3. q = <<"C">>
      BY <3>2, HeadFacts
    <3>4. QED
      BY <3>1, <3>3 DEF AwaitsRun, q
  <2>2. session.current \in Contexts
    BY <1>1, <1>4 DEF Core, Sessions, Messages, Users
  <2>3. Commanded(session, t) /\ CommandComplete(session).read = Valid(session)
    BY <1>1, <1>4, <2>1, <2>2, CommandFacts
  <2> HIDE DEF t
  <2>4. Kept(session, t) /\ ~t.ignore_till_sync
    BY <1>4, <2>3 DEF Commanded
  <2>5. Result("C") = Settle("C", t) /\ Outcome("C").read = Valid(session)
    BY <2>3, OutcomeFacts DEF Result, t
  <2>6. Read("C")
    BY <1>6
  <2>7. Good(Settle("C", t))
    BY <1>1, <1>2, <2>4, <2>6, RaisedFacts, IdleOutcome
  <2>8. QED
    BY <1>6, <2>5, <2>7
<1>7. CASE k = "E"
  <2> DEFINE t == ErrorResponse3(session).ss
  <2>1. /\ Kept(Basis("E"), t) /\ t.ignore_till_sync = session.doing_extended
        /\ ErrorResponse3(session).read = Valid(session)
    BY <1>1, <1>4, ErrorFacts DEF Basis
  <2> HIDE DEF t
  <2>2. Result("E") = Settle("E", t) /\ Outcome("E").read = Valid(session)
    BY <2>1, OutcomeFacts DEF Result, t
  <2>3. Good(Settle("E", t))
    <3>1. Read("E")
      BY <1>7
    <3>2. QED
      BY <1>1, <1>2, <2>1, <3>1, IdleOutcome
  <2>4. QED
    BY <1>7, <2>2, <2>3
<1>8. QED
  BY <1>3, <1>5, <1>6, <1>7

LEMMA CloseOutcome ==
    ASSUME Inv, Reading, NEW k, Read(k), AwaitsClose(session, node)
    PROVE  Good(Result(k)) /\ Outcome(k).read = Valid(session)
<1>1. ~session.doing_extended /\ session.uncompleted \in session.list /\ Owes(node, {<<"3">>})
  BY DEF AwaitsClose
<1>2. Owes(node, Single)
  BY <1>1 DEF Owes, Single
<1>3. k = "3"
  <2>1. {<<"3">>} \subseteq Single
    BY DEF Single
  <2>2. <<k>> \in {<<"3">>}
    BY <1>1, <2>1, KindOwed
  <2>3. QED
    BY <2>2
<1> DEFINE t == CloseComplete(session).ss
<1>4. Core(session) /\ ~session.ignore_till_sync
  BY DEF Inv, Reading
<1>5. /\ Kept(session, t) /\ t.ignore_till_sync = session.ignore_till_sync
      /\ CloseComplete(session).read = Valid(session)
  BY <1>1, <1>4, CloseCompleteFacts
<1> HIDE DEF t
<1>6. Result("3") = Settle("3", t) /\ Outcome("3").read = Valid(session)
  BY <1>5, OutcomeFacts DEF Result, t
<1>7. Read("3") /\ ~t.ignore_till_sync
  BY <1>3, <1>4, <1>5
<1>8. Good(Settle("3", t))
  BY <1>2, <1>5, <1>7, RaisedFacts, IdleOutcome
<1>9. QED
  BY <1>3, <1>6, <1>8

\* A simple query.
LEMMA QueryOutcome ==
    ASSUME Inv, Reading, NEW k, Read(k), AwaitsQuery(session, node)
    PROVE  Good(Result(k)) /\ Outcome(k).read = Valid(session)
<1>1. /\ ~session.doing_extended /\ session.current # NoContext
      /\ session.current \notin Users(session)
      /\ Owes(node, {<<"C", "Z">>, <<"E", "Z">>, <<"V", "Z">>})
      /\ session.uncompleted # None =>
           /\ session.uncompleted.qc = session.current
           /\ session.context[session.current].stmt = "prepare"
           /\ Owes(node, {<<"C", "Z">>, <<"E", "Z">>})
  BY DEF AwaitsQuery
<1>2. Owes(node, Double)
  BY <1>1 DEF Double
<1>3. k \in {"C", "E", "V"} /\ (session.uncompleted # None => k # "V")
  <2>1. {<<"C", "Z">>, <<"E", "Z">>} \subseteq Double
    BY DEF Double
  <2>2. <<k, "Z">> \in {<<"C", "Z">>, <<"E", "Z">>, <<"V", "Z">>}
    BY <1>2, KindOwed DEF Double
  <2>3. session.uncompleted # None => <<k, "Z">> \in {<<"C", "Z">>, <<"E", "Z">>}
    BY <1>1, <2>1, KindOwed
  <2>4. QED
    BY <2>2, <2>3
<1>4. Core(session) /\ ~session.ignore_till_sync /\ session.in_progress /\ Uncompleted(session)
  BY DEF Inv, Reading
<1>5. session.current \in Contexts
  BY <1>1, <1>4 DEF Core, Sessions
<1>6. session.uncompleted # None => Addable(session, session.uncompleted)
  BY <1>1, <1>4 DEF Addable, Uncompleted
<1>7. CASE k = "V"
  <2>1. Kept(session, session)
    BY <1>3, <1>4, <1>7 DEF Kept
  <2>2. Result("V") = Settle("V", session) /\ Outcome("V").read = Valid(session)
    BY OutcomeFacts DEF Result
  <2>3. Read("V") /\ "V" \in {"C", "E", "V"}
    BY <1>7
  <2>4. Good(Settle("V", session))
    BY <1>1, <1>2, <1>4, <2>1, <2>3, RaisedFacts, ReadyOutcome
  <2>5. QED
    BY <1>7, <2>2, <2>4
<1>8. CASE k = "C"
  <2> DEFINE t == CommandComplete(session).ss
  <2>1. Commanded(session, t) /\ CommandComplete(session).read = Valid(session)
    BY <1>1, <1>4, <1>5, <1>6, CommandFacts
  <2> HIDE DEF t
  <2>2. /\ Kept(session, t) /\ ~t.ignore_till_sync
        /\ t.current \notin Users(t) \/ session.context[session.current].stmt = "prepare"
    BY <1>1, <1>4, <2>1 DEF Commanded
  <2>3. Result("C") = Settle("C", t) /\ Outcome("C").read = Valid(session)
    BY <2>1, OutcomeFacts DEF Result, t
  <2>4. Read("C") /\ "C" \in {"C", "E", "V"}
    BY <1>8
  <2>5. Good(Settle("C", t))
    BY <1>1, <1>2, <2>2, <2>4, RaisedFacts, ReadyOutcome
  <2>6. QED
    BY <1>8, <2>3, <2>5
<1>9. CASE k = "E"
  <2> DEFINE t == ErrorResponse3(session).ss
  <2>1. /\ Kept(Basis("E"), t) /\ t.ignore_till_sync = session.doing_extended
        /\ t.list \subseteq session.list
        /\ ErrorResponse3(session).read = Valid(session)
    BY <1>4, <1>6, ErrorFacts DEF Basis
  <2> HIDE DEF t
  <2>2. Result("E") = Settle("E", t) /\ Outcome("E").read = Valid(session)
    BY <2>1, OutcomeFacts DEF Result, t
  <2>3. Read("E") /\ "E" \in {"C", "E", "V"} /\ ~t.ignore_till_sync
    BY <1>1, <1>9, <2>1
  <2>4. t.current = NoContext \/ t.current \notin Users(t)
    BY <1>1, <2>1, RaisedFacts DEF Kept, Users
  <2>5. Good(Settle("E", t))
    BY <1>1, <1>2, <2>1, <2>3, <2>4, ReadyOutcome
  <2>6. QED
    BY <1>9, <2>2, <2>5
<1>10. QED
  BY <1>3, <1>7, <1>8, <1>9

LEMMA ReadyForQueryOutcome ==
    ASSUME Inv, Reading, NEW k, Read(k), AwaitsSync(session, node) \/ AwaitsReady(session, node)
    PROVE  Good(Result(k)) /\ Outcome(k).read = Valid(session)
<1>1. k = "Z"
  <2>1. Owes(node, {<<"Z">>}) /\ {<<"Z">>} \subseteq Single
    BY DEF AwaitsSync, AwaitsReady, Single
  <2>2. <<k>> \in {<<"Z">>}
    BY <2>1, KindOwed
  <2>3. QED
    BY <2>2
<1> DEFINE y == ReadyForQuery(session).ss
<1>2. Read("Z")
  BY <1>1
<1>3. /\ Core(y) /\ Uncompleted(y) /\ Fits(y, node') /\ ReadyForQuery(session).read = Valid(session)
      /\ StepInv => Steady(y, node')
      /\ y.doing_extended = session.doing_extended
      /\ y.ignore_till_sync = session.ignore_till_sync
  BY <1>2, ReadyStep
<1> HIDE DEF y
<1>4. Good(y)
  BY <1>3 DEF Good, Reading
<1>5. Result("Z") = y /\ Outcome("Z").read = Valid(session)
  BY <1>3, OutcomeFacts DEF Result, y
<1>6. QED
  BY <1>1, <1>4, <1>5

LEMMA ResponseStep ==
    ASSUME Inv, ProcessBackendResponse
    PROVE  Inv' /\ (StepInv => StepInv')
<1> DEFINE V == Valid(session)
           kinds == {Head(node[n].owed) : n \in V}
           kind == CHOOSE k \in kinds : TRUE
<1>1. /\ Reading /\ sent' = sent
      /\ \A n \in V : node[n].owed # <<>>
      /\ \/ Cardinality(kinds) > 1 /\ End
         \/ /\ Cardinality(kinds) = 1
            /\ session' = Tidy(Result(kind)) /\ TSTATE' = Known(kind)
            /\ phase' = IF Outcome(kind).read = V THEN phase ELSE "out of step"
            /\ \A n \in Raised(kind) : ~node[n].skip
            /\ node' = [n \in Nodes |->
                    IF n \in Raised(kind) THEN IntentionalError(session, node[n])
                    ELSE IF n \notin V THEN node[n]
                    ELSE [node[n] EXCEPT !.owed = Tail(@),
                            !.tx = IF kind = "Z" THEN TSTATE'[n] ELSE @]]
            /\ qcnt' = qcnt
  BY Zenon DEF ProcessBackendResponse, Result
<1>2. sent' \in 0 .. MaxMessages /\ phase \in {"session", "reset"}
  BY <1>1 DEF Inv, Reading
<1>3. CASE Cardinality(kinds) > 1 /\ End
  BY <1>2, <1>3, Ends
<1>4. CASE /\ Cardinality(kinds) = 1
           /\ session' = Tidy(Result(kind)) /\ TSTATE' = Known(kind)
           /\ phase' = IF Outcome(kind).read = V THEN phase ELSE "out of step"
           /\ \A n \in Raised(kind) : ~node[n].skip
           /\ node' = [n \in Nodes |->
                    IF n \in Raised(kind) THEN IntentionalError(session, node[n])
                    ELSE IF n \notin V THEN node[n]
                    ELSE [node[n] EXCEPT !.owed = Tail(@),
                            !.tx = IF kind = "Z" THEN TSTATE'[n] ELSE @]]
           /\ qcnt' = qcnt
  <2>1. Core(session) /\ V \subseteq Nodes
    BY ValidFacts DEF Inv
  <2>2. kinds \in SUBSET Answers
    <3>1. ASSUME NEW n \in V PROVE Head(node[n].owed) \in Answers
      <4> DEFINE q == node[n].owed
      <4>1. q \in Seq(Answers) /\ q # <<>>
        BY <1>1, <2>1 DEF Inv, NodesOK, NodeStates
      <4> HIDE DEF q
      <4>2. Head(q) \in Answers
        BY <4>1, HeadTailProperties
      <4>3. QED
        BY <4>2 DEF q
    <3>2. QED
      BY <3>1
  <2>3. PICK k \in Answers : kinds = {k} /\ kind = k
    <3> DEFINE K == kinds
    <3>1. K \in SUBSET Answers /\ Cardinality(K) = 1
      BY <1>4, <2>2
    <3> HIDE DEF K
    <3>2. \E k \in Answers : K = {k} /\ (CHOOSE x \in K : TRUE) = k
      BY <3>1, OneKind
    <3>3. QED
      BY <3>2, SMTT(20) DEF K
  <2>4. \A n \in V : Head(node[n].owed) = k
    BY <2>3
  <2> HIDE DEF kinds, kind
  <2>5. Popped(k)
    <3>1. TSTATE' = Known(k)
      BY <1>4, <2>3
    <3>2. \A n \in Valid(session) : node[n].owed # <<>> /\ Head(node[n].owed) = k
      BY <1>1, <2>4
    <3>3. /\ \A n \in Raised(k) : ~node[n].skip
          /\ node' = [n \in Nodes |->
                    IF n \in Raised(k) THEN IntentionalError(session, node[n])
                    ELSE IF n \notin Valid(session) THEN node[n]
                    ELSE [node[n] EXCEPT !.owed = Tail(@),
                            !.tx = IF k = "Z" THEN TSTATE'[n] ELSE @]]
      BY <1>4, <2>3, Zenon
    <3>4. QED
      BY <3>1, <3>2, <3>3 DEF Popped
  <2>6. TSTATE' \in [Nodes -> TxStates] /\ NodesOK(node') /\ Read(k)
    BY <1>1, <2>5, ReadFacts
  <2>7. Awaits(session, node) /\ Uncompleted(session)
    BY <1>1 DEF Inv, Fits, Reading
  <2>8. Good(Result(k)) /\ Outcome(k).read = V
    <3>1. CASE AwaitsParse(session, node)
      <4>1. /\ session.doing_extended /\ session.uncompleted # None
            /\ Owes(node, {<<"1">>, <<"E">>})
        <5>1. /\ session.doing_extended /\ session.uncompleted.kind = "P"
              /\ Owes(node, {<<"1">>, <<"E">>})
          BY <3>1 DEF AwaitsParse
        <5>2. None.kind = "none"
          BY DEF None
        <5>3. QED
          BY <5>1, <5>2
      <4>2. Addable(session, session.uncompleted)
        BY <2>7, <3>1, <4>1 DEF AwaitsParse, Addable, Uncompleted
      <4>3. QED
        BY <1>1, <2>6, <4>1, <4>2, PreparedOutcome
    <3>2. CASE AwaitsBind(session, node)
      <4>1. /\ session.doing_extended /\ session.uncompleted # None
            /\ Owes(node, {<<"2">>, <<"E">>})
        <5>1. /\ session.doing_extended /\ session.uncompleted.kind = "B"
              /\ Owes(node, {<<"2">>, <<"E">>})
          BY <3>2 DEF AwaitsBind
        <5>2. None.kind = "none"
          BY DEF None
        <5>3. QED
          BY <5>1, <5>2
      <4>2. Addable(session, session.uncompleted)
        BY <2>7, <3>2, <4>1 DEF AwaitsBind, Addable, Uncompleted, UsedBy
      <4>3. QED
        BY <1>1, <2>6, <4>1, <4>2, PreparedOutcome
    <3>3. CASE AwaitsRun(session, node)
      BY <1>1, <2>6, <3>3, RunOutcome
    <3>4. CASE AwaitsSync(session, node) \/ AwaitsReady(session, node)
      BY <1>1, <2>6, <3>4, ReadyForQueryOutcome
    <3>5. CASE AwaitsClose(session, node)
      BY <1>1, <2>6, <3>5, CloseOutcome
    <3>6. CASE AwaitsQuery(session, node)
      BY <1>1, <2>6, <3>6, QueryOutcome
    <3>7. QED
      BY <2>7, <3>1, <3>2, <3>3, <3>4, <3>5, <3>6 DEF Awaits
  <2> DEFINE y == Result(k)
  <2>9. session' = Tidy(y) /\ phase' = phase /\ qcnt' = qcnt
    BY <1>4, <2>3, <2>8
  <2>10. Good(y)
    BY <2>8
  <2> HIDE DEF y
  <2>11. /\ Core(y) /\ Uncompleted(y) /\ Fits(y, node')
         /\ StepInv => Steady(y, node')
    BY <2>10 DEF Good
  <2>12. qcnt' \in 0 .. Len(ResetQueries)
    BY <2>9 DEF Inv
  <2>13. Inv' /\ (StepInv => Steady(session', node'))
    BY <1>2, <2>6, <2>9, <2>11, <2>12, Continues
  <2>14. ASSUME StepInv PROVE Stuck'
    <3>1. Tidied(y, session')
      BY <2>9, <2>11, TidyFacts
    <3>2. session'.doing_extended = y.doing_extended /\ session'.ignore_till_sync = y.ignore_till_sync
      BY <3>1 DEF Tidied, SameFlags
    <3>3. /\ y.doing_extended = session.doing_extended
          /\ ~session.doing_extended => ~y.ignore_till_sync
      BY <2>10 DEF Good
    <3>4. phase = "reset" => ~session.doing_extended
      BY <1>1, <2>14 DEF StepInv, Stuck, Reading
    <3>5. QED
      BY <2>9, <3>2, <3>3, <3>4 DEF Stuck
  <2>15. StepInv => StepInv'
    BY <1>2, <2>9, <2>13, <2>14 DEF StepInv
  <2>16. QED
    BY <2>13, <2>15
<1>5. QED
  BY <1>1, <1>3, <1>4

-----------------------------------------------------------------------------
(* The theorems.                                                           *)

\* Some query of reset_query_list, as in the default list, is sent whatever
\* the state of the transactions.
Resets == \E i \in 1 .. Len(ResetQueries) : ResetQueries[i] # "commit"

LEMMA InitInv == Init => Inv /\ StepInv
<1> SUFFICES ASSUME Init PROVE Inv /\ StepInv
  OBVIOUS
<1>1. /\ session = NewSession /\ TSTATE = [n \in Nodes |-> "I"] /\ phase = "session"
      /\ qcnt = 0 /\ sent = 0
      /\ node = [n \in Nodes |-> [tx |-> "I", skip |-> FALSE, owed |-> <<>>]]
  BY DEF Init
<1>2. 0 \in 0 .. Len(ResetQueries) /\ 0 \in 0 .. MaxMessages
  <2>1. Len(ResetQueries) \in Nat /\ MaxMessages \in Nat
    BY ExtendedQueryAssumption, LenProperties
  <2>2. QED
    BY <2>1
<1>3. \A n \in Nodes : node[n] \in NodeStates /\ node[n].owed = <<>> /\ ~node[n].skip
  BY <1>1 DEF NodeStates, TxStates
<1>4. NodesOK(node)
  <2>1. node \in [Nodes -> NodeStates]
    BY <1>1, <1>3
  <2>2. Len(<<>>) <= 2
    OBVIOUS
  <2>3. QED
    BY <1>3, <2>1, <2>2 DEF NodesOK
<1>5. Fits(session, node) /\ Steady(session, node)
  BY <1>1, <1>3, NewSessionFacts DEF Fits, Steady, Silent
<1>6. TSTATE \in [Nodes -> TxStates]
  BY <1>1 DEF TxStates
<1>7. QED
  BY <1>1, <1>2, <1>4, <1>5, <1>6, NewSessionFacts DEF Inv, StepInv, Stuck

LEMMA NextInv ==
    ASSUME Inv, [Next]_vars
    PROVE  Inv' /\ (StepInv /\ Resets => StepInv')
<1>1. CASE UNCHANGED vars
  BY <1>1 DEF vars, Inv, StepInv, Stuck
<1>2. CASE Client
  <2>1. CASE \E name \in Names, s \in Stmts, late \in BOOLEAN : Parse(name, s, late)
    BY <2>1, ParseStep
  <2>2. CASE \E portal \in Portals, name \in Names, late \in BOOLEAN : Bind(portal, name, late)
    BY <2>2, BindStep
  <2>3. CASE \E portal \in Portals, late \in BOOLEAN, kind \in {"D", "E"} :
               DescribeExecute(kind, Find(session, "B", portal), late)
    <3>1. PICK portal \in Portals, late \in BOOLEAN, kind \in {"D", "E"} :
               DescribeExecute(kind, Find(session, "B", portal), late)
      BY <2>3
    <3> DEFINE msg == Find(session, "B", portal)
    <3>2. msg # None => msg \in session.list /\ msg.kind = "B"
      BY FindFacts DEF Inv
    <3> HIDE DEF msg
    <3>3. DescribeExecute(kind, msg, late)
      BY <3>1 DEF msg
    <3>4. QED
      BY <3>2, <3>3, DescribeExecuteStep
  <2>4. CASE \E name \in Names, late \in BOOLEAN :
               DescribeExecute("D", Statement(session, name), late)
    <3>1. PICK name \in Names, late \in BOOLEAN :
               DescribeExecute("D", Statement(session, name), late)
      BY <2>4
    <3> DEFINE msg == Statement(session, name)
    <3>2. msg # None => msg \in session.list
      BY StatementFacts DEF Inv
    <3> HIDE DEF msg
    <3>3. DescribeExecute("D", msg, late)
      BY <3>1 DEF msg
    <3>4. QED
      BY <3>2, <3>3, DescribeExecuteStep
  <2>5. CASE \E name \in Names : Close(Statement(session, name))
    <3>1. PICK name \in Names : Close(Statement(session, name))
      BY <2>5
    <3> DEFINE msg == Statement(session, name)
    <3>2. msg # None => msg \in session.list
      BY StatementFacts DEF Inv
    <3> HIDE DEF msg
    <3>3. Close(msg)
      BY <3>1 DEF msg
    <3>4. QED
      BY <3>2, <3>3, CloseStep
  <2>6. CASE \E portal \in Portals : Close(Find(session, "B", portal))
    <3>1. PICK portal \in Portals : Close(Find(session, "B", portal))
      BY <2>6
    <3> DEFINE msg == Find(session, "B", portal)
    <3>2. msg # None => msg \in session.list
      BY FindFacts DEF Inv
    <3> HIDE DEF msg
    <3>3. Close(msg)
      BY <3>1 DEF msg
    <3>4. QED
      BY <3>2, <3>3, CloseStep
  <2>7. CASE \E s \in Queries, late \in BOOLEAN : Query(s, late)
    BY <2>7, QueryStep
  <2>8. CASE Sync
    BY <2>8, SyncStep
  <2>9. CASE Terminate
    BY <2>9, TerminateStep
  <2>10. QED
    BY <1>2, <2>1, <2>2, <2>3, <2>4, <2>5, <2>6, <2>7, <2>8, <2>9 DEF Client
<1>3. CASE Reparsed
  BY <1>3, ReparsedStep
<1>4. CASE ProcessBackendResponse
  BY <1>4, ResponseStep
<1>5. CASE ResetQuery
  BY <1>5, ResetQueryStep
<1>6. CASE ResetMessage
  BY <1>6, ResetMessageStep
<1>7. CASE ResetDone
  BY <1>7, ResetDoneStep DEF Resets
<1>8. QED
  BY <1>1, <1>2, <1>3, <1>4, <1>5, <1>6, <1>7 DEF Next

LEMMA InvTypes == Inv => TypeOK
BY DEF Inv, TypeOK, Core, NodesOK, NodeStates

LEMMA InvContexts == Inv => NoDanglingContext
<1> SUFFICES ASSUME Inv, NEW c \in Referenced(session) \ {NoContext}
             PROVE  session.context[c] # Freed
  BY DEF NoDanglingContext
<1>1. CASE \E m \in session.list : m.qc = c
  BY <1>1 DEF Inv, Core
<1>2. CASE c = session.current
  BY <1>2 DEF Inv, Core
<1>3. CASE session.uncompleted # None /\ c = session.uncompleted.qc
  BY <1>3 DEF Inv, Uncompleted
<1>4. QED
  BY <1>1, <1>2, <1>3 DEF Referenced

LEMMA InvStep == Inv /\ StepInv => InStep
<1> SUFFICES ASSUME Inv, StepInv PROVE InStep
  OBVIOUS
<1>1. phase # "out of step"
  BY DEF Inv
<1>2. ASSUME ~KnownStall, Reading PROVE \A n \in Valid(session) : node[n].owed # <<>>
  <2>1. /\ phase \in {"session", "reset"} /\ session.in_progress /\ ~session.ignore_till_sync
        /\ session.command_success /\ (session.doing_extended \/ session.current # NoContext)
    BY <1>2 DEF Reading, KnownStall
  <2>2. QED
    BY <2>1 DEF StepInv, Steady
<1>3. phase = "reparse" => \A n \in Unparsed(session) : node[n].owed # <<>>
  BY DEF StepInv, SteadyReparse
<1>4. phase \in {"session", "reset"} /\ ~session.in_progress => \A n \in Nodes : node[n].owed = <<>>
  BY DEF Inv, Fits, Silent
<1>5. ASSUME Reading, RaisesError(session) PROVE ~node[Primary].skip
  <2>1. Primary \in Raised("E") /\ Primary \in Nodes
    BY <1>5, NodeFacts DEF Raised
  <2>2. Primary \notin Valid(session)
    BY <1>5, <2>1, RaisedFacts
  <2>3. QED
    BY <1>5, <2>1, <2>2, SkipFacts
<1>6. QED
  BY <1>1, <1>2, <1>3, <1>4, <1>5 DEF InStep

\* The session, the message list, the contexts and the connections keep their
\* types, and no node ever owes more than the two answers of a simple query,
\* whatever the client sends (ProcessFrontendResponse, ProcessBackendResponse).
THEOREM TypeCorrect == Spec => []TypeOK
<1>1. Inv /\ [Next]_vars => Inv'
  BY NextInv
<1>2. QED
  BY InitInv, InvTypes, <1>1, PTL DEF Spec

\* No prepared statement, portal, uncompleted message or session ever points
\* to a query context that pool_query_context_destroy has freed, for any
\* number of nodes, portals and messages.
THEOREM ContextsAlive == Spec => []NoDanglingContext
<1>1. Inv /\ [Next]_vars => Inv'
  BY NextInv
<1>2. QED
  BY InitInv, InvContexts, <1>1, PTL DEF Spec

\* The child and the nodes stay in step, apart from the known stalls: every
\* node that is read from has an answer, its body is read from the nodes its
\* kind was read from, a primary that is sent an intentional error answers it,
\* and no answer is left over when the child turns to the client.  Some reset query has to be sent in every state of the
\* transactions: with a reset_query_list of ABORT alone, a node that still
\* skips messages would be handed to the next session.
THEOREM StayInStep ==
    ASSUME Resets
    PROVE  Spec => []InStep
<1>1. Inv /\ StepInv /\ [Next]_vars => Inv' /\ StepInv'
  BY NextInv
<1>2. QED
  BY InitInv, InvStep, <1>1, PTL DEF Spec
=============================================================================
