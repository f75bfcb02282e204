---------------------- MODULE SubgraphRetrievalProofs ----------------------
(***************************************************************************)
(* Proofs about ContextPolicy and SubgraphRetrieval, for every graph,      *)
(* every set of seeds and every question: the budgets, what is admitted    *)
(* within them, and that the loops go forward and are never stuck.         *)
(***************************************************************************)
EXTENDS SubgraphRetrieval, FiniteSetTheorems, WellFoundedInduction, TLAPS

\* A policy gives every relationship 0, 1 or 2 hops.
LEMMA PolicyType ==
    ASSUME NEW c, NEW r \in RelationshipTypes
    PROVE  PolicyOf(c)[r] \in 0 .. 2
  <1>1. ASSUME NEW two, NEW one PROVE Budget(two, one)[r] \in 0 .. 2
    BY DEF Budget
  <1> QED
    BY <1>1 DEF PolicyOf, DEFAULT_EXPANSION_POLICY, Routing, Execution, Analysis,
       GraphTraversal, Parsing, Loading, Generation, Retrieval, Authentication,
       Validation, Configuration, Statistics, Aggregation, Transformation, Saving,
       Overview

\* A set of budgets has a largest one.
LEMMA MostExists ==
    ASSUME NEW B \in SUBSET (0 .. 2), B # {}
    PROVE  LET most == CHOOSE most \in B : \A b \in B : b <= most
           IN  most \in B /\ \A b \in B : b <= most
  <1>1. \E most \in B : \A b \in B : b <= most
    <2>1. CASE 2 \in B
      BY <2>1
    <2>2. CASE 2 \notin B /\ 1 \in B
      BY <2>2
    <2>3. CASE 2 \notin B /\ 1 \notin B
      <3>1. \A b \in B : b = 0
        BY <2>3
      <3>2. PICK most : most \in B
        OBVIOUS
      <3>3. \A b \in B : b <= most
        BY <3>1, <3>2
      <3> QED
        BY <3>2, <3>3
    <2> QED
      BY <2>1, <2>2, <2>3
  <1> QED
    BY <1>1

LEMMA PolicyForIntentMost ==
    ASSUME NEW categories, categories # {}, NEW r \in RelationshipTypes
    PROVE  /\ PolicyForIntent(categories)[r] \in 0 .. 2
           /\ \A c \in categories : PolicyOf(c)[r] <= PolicyForIntent(categories)[r]
  <1> DEFINE B == {PolicyOf(c)[r] : c \in categories}
  <1>1. B \in SUBSET (0 .. 2) /\ B # {}
    BY PolicyType
  <1>2. PolicyForIntent(categories)[r] = CHOOSE most \in B : \A b \in B : b <= most
    BY DEF PolicyForIntent
  <1>3. PolicyForIntent(categories)[r] \in B /\ \A b \in B : b <= PolicyForIntent(categories)[r]
    <2> HIDE DEF B
    <2> QED
      BY <1>1, <1>2, MostExists
  <1> QED
    BY <1>1, <1>3

\* How many hops a question follows a relationship: max_hops when it is expanded
\* uniformly, else the scaled budget.
HopsAlong(categories, hops) ==
    [r \in RelationshipTypes |-> IF IsUniform(categories) THEN hops
                                 ELSE ScaledLimits(categories, hops)[r]]

\* Of the policies of some intents, the largest budget is that of one of them.
LEMMA PolicyForIntentIsOne ==
    ASSUME NEW categories, categories # {}, NEW r \in RelationshipTypes
    PROVE  PolicyForIntent(categories)[r] \in {PolicyOf(c)[r] : c \in categories}
  <1> DEFINE B == {PolicyOf(c)[r] : c \in categories}
             p == PolicyForIntent(categories)[r]
  <1>1. B \in SUBSET (0 .. 2) /\ B # {}
    BY PolicyType
  <1>2. p = CHOOSE most \in B : \A b \in B : b <= most
    BY DEF PolicyForIntent
  <1> HIDE DEF B, p
  <1>3. p \in B
    BY <1>1, <1>2, MostExists
  <1> QED
    BY <1>3 DEF B, p

\* "the most expansive policy wins, ensuring that complex multi-intent
\* questions still surface relevant context across all detected dimensions"
\* (context_builder.py:430-432): with further intents no relationship is followed for
\* fewer hops, but for containment when the first intent alone was an unspecific one,
\* whose question is expanded uniformly.
THEOREM MoreIntentsReachFurther ==
    ASSUME NEW categories, NEW fewer \in SUBSET categories, fewer # {},
           NEW hops \in 0 .. 3, NEW r \in RelationshipTypes,
           IsUniform(fewer) => r # "contains"
    PROVE  HopsAlong(fewer, hops)[r] <= HopsAlong(categories, hops)[r]
  <1> DEFINE few == PolicyForIntent(fewer)[r]
             all == PolicyForIntent(categories)[r]
  <1>1. few \in {0, 1, 2} /\ all \in {0, 1, 2}
    BY PolicyForIntentMost
  <1>2. few <= all
    BY PolicyForIntentIsOne, PolicyForIntentMost
  <1>3. /\ ScaledLimits(fewer, hops)[r] = IF hops # 1 /\ few * hops > 3 THEN 3 ELSE few * hops
        /\ ScaledLimits(categories, hops)[r] = IF hops # 1 /\ all * hops > 3 THEN 3 ELSE all * hops
    BY DEF ScaledLimits
  <1>4. hops \in {0, 1, 2, 3}
    OBVIOUS
  <1>5. IsUniform(fewer) => all >= 1
    <2> SUFFICES ASSUME IsUniform(fewer) PROVE all >= 1
      OBVIOUS
    <2>1. PICK c \in Unspecific : fewer = {c}
      BY DEF IsUniform
    <2>2. c \in categories /\ PolicyOf(c) = DEFAULT_EXPANSION_POLICY
      BY <2>1 DEF Unspecific, PolicyOf
    <2>3. PolicyOf(c)[r] = 1
      BY <2>2 DEF DEFAULT_EXPANSION_POLICY, Budget
    <2> QED
      BY <2>2, <2>3, PolicyForIntentMost
  <1>6. IsUniform(categories) => IsUniform(fewer)
    <2> SUFFICES ASSUME IsUniform(categories) PROVE IsUniform(fewer)
      OBVIOUS
    <2>1. PICK c \in Unspecific : categories = {c}
      BY DEF IsUniform
    <2>2. fewer = {c}
      BY <2>1
    <2> QED
      BY <2>2 DEF IsUniform
  <1>7. /\ HopsAlong(fewer, hops)[r] = IF IsUniform(fewer) THEN hops ELSE ScaledLimits(fewer, hops)[r]
        /\ HopsAlong(categories, hops)[r] = IF IsUniform(categories) THEN hops
                                           ELSE ScaledLimits(categories, hops)[r]
    BY DEF HopsAlong
  <1> HIDE DEF few, all
  <1>8. CASE IsUniform(categories)
    BY <1>4, <1>6, <1>7, <1>8
  <1>9. CASE ~IsUniform(categories) /\ IsUniform(fewer)
    BY <1>1, <1>3, <1>4, <1>5, <1>7, <1>9
  <1>10. CASE ~IsUniform(categories) /\ ~IsUniform(fewer)
    BY <1>1, <1>2, <1>3, <1>4, <1>7, <1>10
  <1> QED
    BY <1>6, <1>8, <1>9, <1>10

\* A larger max_hops follows no relationship less far, whatever the intents.
THEOREM MoreHopsReachFurther ==
    ASSUME NEW categories, NEW hops \in Nat, NEW more \in Nat, hops <= more,
           NEW r \in RelationshipTypes
    PROVE  HopsAlong(categories, hops)[r] <= HopsAlong(categories, more)[r]
  <1> DEFINE p == PolicyForIntent(categories)[r]
  <1>1. CASE IsUniform(categories)
    BY <1>1 DEF HopsAlong
  <1>2. CASE ~IsUniform(categories)
    <2>1. categories # {}
      BY <1>2 DEF IsUniform
    <2>2. p \in {0, 1, 2}
      BY <2>1, PolicyForIntentMost
    <2>3. /\ HopsAlong(categories, hops)[r] = IF hops # 1 /\ p * hops > 3 THEN 3 ELSE p * hops
          /\ HopsAlong(categories, more)[r] = IF more # 1 /\ p * more > 3 THEN 3 ELSE p * more
      BY <1>2 DEF HopsAlong, ScaledLimits
    <2> HIDE DEF p
    <2>4. CASE p = 0
      BY <2>3, <2>4
    <2>5. CASE p = 1
      BY <2>3, <2>5
    <2>6. CASE p = 2
      BY <2>3, <2>6
    <2> QED
      BY <2>2, <2>4, <2>5, <2>6
  <1> QED
    BY <1>1, <1>2

-----------------------------------------------------------------------------
\* The edges still to try belong to the node at the head of the queue.
PendingAtHead == queue # << >> => pending \subseteq Views(Head(queue).node)

\* A relationship without budget brings no node in: every admitted node is a
\* seed or is joined to an admitted one by an edge that may be followed.
ExcludedAddsNothing ==
    \A n \in all_ids \ seeds : \E m \in all_ids, e \in graph.edges :
        /\ m # n /\ Joins(e, m, n)
        /\ request.uniform \/ request.limits[e.rel] > 0

Inv == TypeOK /\ PendingAtHead /\ ExcludedAddsNothing

LEMMA LimitsType ==
    ASSUME NEW categories, NEW hops \in Nat
    PROVE  ScaledLimits(categories, hops) \in [RelationshipTypes -> Nat]
  <1>1. ASSUME NEW r \in RelationshipTypes
        PROVE  PolicyForIntent(categories)[r] \in 0 .. 2
    <2>1. CASE categories = {}
      BY <2>1 DEF PolicyForIntent, DEFAULT_EXPANSION_POLICY, Budget
    <2>2. CASE categories # {}
      BY <2>2, PolicyForIntentMost
    <2> QED
      BY <2>1, <2>2
  <1>2. ASSUME NEW p \in 0 .. 2
        PROVE  (IF hops # 1 /\ p * hops > 3 THEN 3 ELSE p * hops) \in Nat
    <2>1. p * hops \in Nat
      OBVIOUS
    <2> QED
      BY <2>1
  <1> QED
    BY <1>1, <1>2 DEF ScaledLimits

\* An edge seen from a node joins that node and the other end.
LEMMA ViewsType ==
    ASSUME graph.edges \subseteq Edge, NEW n, NEW v \in Views(n)
    PROVE  /\ v \in View /\ v.edge \in graph.edges /\ v.edge \in Edge
           /\ Joins(v.edge, n, Other(v))
  <1>1. CASE \E e \in graph.edges : e.source = n /\ v = [out |-> TRUE, edge |-> e]
    BY <1>1 DEF View, Other, Joins
  <1>2. CASE \E e \in graph.edges : e.target = n /\ v = [out |-> FALSE, edge |-> e]
    BY <1>2 DEF View, Other, Joins
  <1> QED
    BY <1>1, <1>2 DEF Views

LEMMA InitInv == Init => Inv
  <1> SUFFICES ASSUME Init PROVE Inv
    OBVIOUS
  <1>1. PICK edges \in EdgeSets :
          graph = [nodes |-> Connected(edges) \ External, edges |-> edges]
    BY DEF Init
  <1>2. graph \in [nodes : SUBSET Ids, edges : SUBSET Edge]
    <2>1. edges \subseteq Edge
      BY RetrievalAssumption
    <2>2. Connected(edges) \subseteq Ids
      BY <2>1 DEF Connected, Edge
    <2> QED
      BY <1>1, <2>1, <2>2
  <1>3. PICK q \in Questions :
          request = [uniform  |-> IsUniform(q.intents), max_hops |-> q.max_hops,
                     limits   |-> ScaledLimits(q.intents, q.max_hops)]
    BY DEF Init
  <1>4. request \in Request
    <2>1. q.max_hops \in Nat
      BY RetrievalAssumption
    <2>2. ScaledLimits(q.intents, q.max_hops) \in [RelationshipTypes -> Nat]
      BY <2>1, LimitsType
    <2>3. IsUniform(q.intents) \in BOOLEAN
      BY DEF IsUniform
    <2> QED
      BY <1>3, <2>1, <2>2, <2>3 DEF Request
  <1>5. seeds \subseteq graph.nodes /\ all_ids = seeds /\ hop = 0 /\ expanded = {}
        /\ frontier \subseteq all_ids /\ hop \in 0 .. request.max_hops
    BY <1>4 DEF Init, Request
  <1>6. /\ queue \in Seq(Entry)
        /\ \A i \in 1 .. Len(queue) :
             queue[i].node \in all_ids /\
             \A r \in RelationshipTypes : queue[i].hops[r] <= request.limits[r]
    <2>1. CASE queue = << >>
      BY <2>1
    <2>2. CASE queue # << >>
      <3>1. PICK nodes \in SetToSeqs(all_ids) :
              queue = [i \in 1 .. Len(nodes) |-> [node |-> nodes[i], hops |-> NoHops]]
        BY <2>2 DEF Init
      <3>2. PICK k \in Nat : nodes \in [1 .. k -> all_ids]
        <4>1. Cardinality(all_ids) \in Nat
          <5>1. IsFiniteSet(all_ids)
            BY <1>2, <1>5, RetrievalAssumption, FS_Subset
          <5> QED
            BY <5>1, FS_CardinalityType
        <4> QED
          BY <3>1, <4>1 DEF SetToSeqs
      <3>3. nodes \in Seq(all_ids) /\ Len(nodes) = k
        BY <3>2
      <3>4. NoHops \in HopsTaken /\ \A r \in RelationshipTypes : NoHops[r] = 0
        BY DEF NoHops, HopsTaken
      <3>5. \A i \in 1 .. k : [node |-> nodes[i], hops |-> NoHops] \in Entry
        BY <1>2, <1>5, <3>2, <3>4 DEF Entry
      <3>6. queue \in Seq(Entry) /\ Len(queue) = k
        BY <3>1, <3>3, <3>5
      <3>7. \A r \in RelationshipTypes : 0 <= request.limits[r]
        BY <1>4 DEF Request
      <3> QED
        BY <3>1, <3>2, <3>3, <3>4, <3>6, <3>7
    <2> QED
      BY <2>1, <2>2
  <1>7. pending \subseteq View /\ (pending # {} => queue # << >>) /\ PendingAtHead
    <2>1. pending = IF queue = << >> THEN {} ELSE Views(Head(queue).node)
      BY DEF Init
    <2>2. \A n : Views(n) \subseteq View
      BY <1>2, ViewsType
    <2> QED
      BY <2>1, <2>2 DEF PendingAtHead
  <1>8. TypeOK
    BY <1>2, <1>4, <1>5, <1>6, <1>7 DEF TypeOK
  <1> QED
    BY <1>5, <1>7, <1>8 DEF Inv, ExcludedAddsNothing

LEMMA HopInv == Inv /\ Hop => Inv'
  <1> SUFFICES ASSUME Inv, Hop PROVE Inv'
    OBVIOUS
  <1>1. /\ TypeOK /\ request \in Request /\ request.uniform /\ hop \in Nat
        /\ UNCHANGED <<graph, seeds, request, queue, pending, expanded>>
    BY DEF Inv, TypeOK, Hop, asked, Request
  <1>2. hop' \in 0 .. request.max_hops
    BY <1>1 DEF Hop, HopTaken, Request
  <1>3. /\ all_ids' = all_ids \cup frontier' /\ frontier' \subseteq graph.nodes
        /\ all_ids \subseteq graph.nodes /\ seeds \subseteq all_ids
    BY <1>1 DEF Hop, TypeOK
  <1>4. TypeOK'
    BY <1>1, <1>2, <1>3 DEF TypeOK
  <1>5. ASSUME NEW n \in frontier', n \notin all_ids
        PROVE  \E m \in all_ids, e \in graph.edges : m # n /\ Joins(e, m, n)
    <2>1. PICK m \in frontier : n \in Neighbours(m)
      BY <1>5 DEF Hop
    <2>2. PICK v \in Views(m) : n = Other(v)
      BY <2>1 DEF Neighbours
    <2>3. graph.edges \subseteq Edge /\ m \in all_ids
      BY <1>1 DEF TypeOK
    <2>4. v.edge \in graph.edges /\ Joins(v.edge, m, n)
      BY <2>2, <2>3, ViewsType
    <2> QED
      BY <1>5, <2>3, <2>4
  <1>6. ExcludedAddsNothing'
    <2> SUFFICES ASSUME NEW n \in all_ids' \ seeds
                 PROVE  \E m \in all_ids', e \in graph.edges :
                          /\ m # n /\ Joins(e, m, n)
                          /\ request.uniform \/ request.limits[e.rel] > 0
      BY <1>1 DEF ExcludedAddsNothing, Joins
    <2>1. CASE n \in all_ids
      BY <1>3, <2>1 DEF Inv, ExcludedAddsNothing
    <2>2. CASE n \notin all_ids
      BY <1>1, <1>3, <1>5, <2>2
    <2> QED
      BY <2>1, <2>2
  <1> QED
    BY <1>1, <1>4, <1>6 DEF Inv, PendingAtHead, Views

LEMMA ExpandInv ==
    ASSUME Inv, NEW v \in pending, Expand(v)
    PROVE  Inv'
  <1>1. /\ TypeOK /\ request \in Request /\ queue # << >> /\ queue \in Seq(Entry)
        /\ graph.edges \subseteq Edge
        /\ pending' = pending \ {v}
        /\ UNCHANGED <<graph, seeds, request, frontier, hop>>
    BY DEF Inv, TypeOK, Expand, asked
  <1> DEFINE head == Head(queue)
             n == Other(v)
             entry == [node |-> n, hops |-> Taken(head.hops, v.edge.rel)]
  <1>2. /\ head = queue[1] /\ 1 \in 1 .. Len(queue) /\ head \in Entry
    BY <1>1
  <1>3. head.node \in all_ids /\ head.hops \in HopsTaken
    BY <1>1, <1>2 DEF TypeOK, Entry
  <1>4. /\ v \in Views(head.node) /\ v.edge \in graph.edges /\ v.edge \in Edge
        /\ Joins(v.edge, head.node, n)
    BY <1>1, ViewsType DEF Inv, PendingAtHead
  <1>5. CASE UNCHANGED <<expanded, all_ids, queue>>
    <2>1. TypeOK'
      BY <1>1, <1>5 DEF TypeOK
    <2> QED
      BY <1>1, <1>5, <2>1 DEF Inv, PendingAtHead, ExcludedAddsNothing, Joins, Views
  <1>6. CASE /\ HasBudget(v) /\ expanded' = expanded \cup {Key(v)}
             /\ UNCHANGED <<all_ids, queue>>
    <2>1. Key(v) \in Ids \X RelationshipTypes \X Nat
      BY <1>3, <1>2, <1>4 DEF Key, Entry, Edge, HopsTaken
    <2>2. TypeOK'
      BY <1>1, <1>6, <2>1 DEF TypeOK
    <2> QED
      BY <1>1, <1>6, <2>2 DEF Inv, PendingAtHead, ExcludedAddsNothing, Joins, Views
  <1>7. CASE /\ HasBudget(v) /\ expanded' = expanded \cup {Key(v)}
             /\ n \in graph.nodes /\ all_ids' = all_ids \cup {n}
             /\ queue' = Append(queue, entry)
    <2>1. Key(v) \in Ids \X RelationshipTypes \X Nat
      BY <1>3, <1>2, <1>4 DEF Key, Entry, Edge, HopsTaken
    <2>2. v.edge.rel \in RelationshipTypes /\ head.hops[v.edge.rel] < request.limits[v.edge.rel]
          /\ head.hops[v.edge.rel] \in Nat /\ request.limits \in [RelationshipTypes -> Nat]
      BY <1>1, <1>3, <1>4, <1>7 DEF Edge, HasBudget, HopsTaken, Request
    <2>3. /\ entry \in Entry
          /\ \A r \in RelationshipTypes : entry.hops[r] <= request.limits[r]
      <3> DEFINE t == Taken(head.hops, v.edge.rel)
      <3>1. t = [head.hops EXCEPT ![v.edge.rel] = head.hops[v.edge.rel] + 1]
        BY <1>3, <2>2 DEF Taken, HopsTaken
      <3>2. t \in HopsTaken
        BY <1>3, <2>2, <3>1 DEF HopsTaken
      <3>3. \A r \in RelationshipTypes : t[r] <= request.limits[r]
        <4>1. \A r \in RelationshipTypes : head.hops[r] <= request.limits[r]
          BY <1>1, <1>2 DEF TypeOK
        <4> HIDE DEF head, t
        <4> SUFFICES ASSUME NEW r \in RelationshipTypes PROVE t[r] <= request.limits[r]
          OBVIOUS
        <4>2. CASE r = v.edge.rel
          BY <1>3, <2>2, <3>1, <4>2 DEF HopsTaken
        <4>3. CASE r # v.edge.rel
          BY <1>3, <3>1, <4>1, <4>3 DEF HopsTaken
        <4> QED
          BY <4>2, <4>3
      <3>4. n \in Ids
        BY <1>1, <1>7 DEF TypeOK
      <3>5. entry = [node |-> n, hops |-> t]
        OBVIOUS
      <3> HIDE DEF t, n, entry
      <3> QED
        BY <3>2, <3>3, <3>4, <3>5 DEF Entry
    <2> HIDE DEF entry
    <2>4. /\ queue' \in Seq(Entry) /\ Len(queue') = Len(queue) + 1
          /\ \A i \in 1 .. Len(queue) : queue'[i] = queue[i]
          /\ queue'[Len(queue) + 1] = entry
      BY <1>1, <1>7, <2>3
    <2>5. \A i \in 1 .. Len(queue') :
            queue'[i].node \in all_ids' /\
            \A r \in RelationshipTypes : queue'[i].hops[r] <= request.limits[r]
      <3> SUFFICES ASSUME NEW i \in 1 .. Len(queue')
                   PROVE  queue'[i].node \in all_ids' /\
                          \A r \in RelationshipTypes : queue'[i].hops[r] <= request.limits[r]
        OBVIOUS
      <3>1. CASE i \in 1 .. Len(queue)
        BY <1>1, <1>7, <2>4, <3>1 DEF TypeOK
      <3>2. CASE i = Len(queue) + 1
        BY <1>7, <2>3, <2>4, <3>2 DEF entry
      <3> QED
        BY <1>1, <2>4, <3>1, <3>2
    <2>6. TypeOK'
      BY <1>1, <1>7, <2>1, <2>4, <2>5 DEF TypeOK
    <2>7. PendingAtHead'
      <3>1. Head(queue') = head
        BY <1>1, <2>4
      <3> QED
        BY <1>1, <3>1 DEF Inv, PendingAtHead, Views
    <2>8. ExcludedAddsNothing'
      <3> SUFFICES ASSUME NEW m \in all_ids' \ seeds
                   PROVE  \E k \in all_ids', e \in graph.edges :
                            /\ k # m /\ Joins(e, k, m)
                            /\ request.uniform \/ request.limits[e.rel] > 0
        BY <1>1 DEF ExcludedAddsNothing, Joins
      <3>1. CASE m \in all_ids
        BY <1>7, <3>1 DEF Inv, ExcludedAddsNothing
      <3>2. CASE m \notin all_ids
        <4>1. m = n /\ head.node # m
          BY <1>3, <1>7, <3>2
        <4>2. request.limits[v.edge.rel] > 0
          BY <2>2
        <4> QED
          BY <1>3, <1>4, <1>7, <4>1, <4>2
      <3> QED
        BY <3>1, <3>2
    <2> QED
      BY <2>6, <2>7, <2>8 DEF Inv
  <1> QED
    BY <1>5, <1>6, <1>7 DEF Expand

LEMMA NextNodeInv == Inv /\ NextNode => Inv'
  <1> SUFFICES ASSUME Inv, NextNode PROVE Inv'
    OBVIOUS
  <1>1. /\ TypeOK /\ queue # << >> /\ queue \in Seq(Entry) /\ graph.edges \subseteq Edge
        /\ queue' = Tail(queue)
        /\ pending' = IF queue' = << >> THEN {} ELSE Views(Head(queue').node)
        /\ UNCHANGED <<graph, seeds, request, all_ids, frontier, hop, expanded>>
    BY DEF Inv, TypeOK, NextNode, asked
  <1>2. /\ queue' \in Seq(Entry) /\ Len(queue') = Len(queue) - 1
        /\ \A i \in 1 .. Len(queue') : i + 1 \in 1 .. Len(queue) /\ queue'[i] = queue[i + 1]
    BY <1>1
  <1>3. \A i \in 1 .. Len(queue') :
          queue'[i].node \in all_ids /\
          \A r \in RelationshipTypes : queue'[i].hops[r] <= request.limits[r]
    BY <1>1, <1>2 DEF TypeOK
  <1>4. pending' \subseteq View /\ (pending' # {} => queue' # << >>) /\ PendingAtHead'
    <2>1. \A n : Views(n) \subseteq View
      BY <1>1, ViewsType
    <2> QED
      BY <1>1, <2>1 DEF PendingAtHead, Views
  <1>5. TypeOK'
    BY <1>1, <1>2, <1>3, <1>4 DEF TypeOK
  <1> QED
    BY <1>1, <1>4, <1>5 DEF Inv, ExcludedAddsNothing, Joins

\* The expansion of every graph and every question keeps within the budgets,
\* one relationship at a time (code_retriever.py, get_subgraph_for_intent).
THEOREM SubgraphInvariant == Spec => []Inv
  <1>1. Inv /\ [Next]_vars => Inv'
    <2> SUFFICES ASSUME Inv, [Next]_vars PROVE Inv'
      OBVIOUS
    <2>1. ASSUME NEW v \in pending, Expand(v) PROVE Inv'
      BY <2>1, ExpandInv
    <2>2. CASE UNCHANGED vars
      BY <2>2 DEF vars, Inv, TypeOK, PendingAtHead, ExcludedAddsNothing, Joins, Views
    <2> QED
      BY <2>1, <2>2, HopInv, NextNodeInv DEF Next
  <1> QED
    BY <1>1, InitInv, PTL DEF Spec

\* The queue never holds a node whose hops exceed a budget, and what is
\* admitted are nodes of the graph, the seeds among them.
THEOREM SubgraphTypeCorrect == Spec => []TypeOK
  <1>1. Inv => TypeOK
    BY DEF Inv
  <1> QED
    BY <1>1, SubgraphInvariant, PTL

\* "Set a type's limit to 0 to exclude it entirely from expansion"
\* (code_retriever.py:620).
THEOREM ExcludedNeverAdds == Spec => []ExcludedAddsNothing
  <1>1. Inv => ExcludedAddsNothing
    BY DEF Inv
  <1> QED
    BY <1>1, SubgraphInvariant, PTL

-----------------------------------------------------------------------------
\* Induction, for a set.
LEMMA NaturalSet ==
    ASSUME NEW S \in SUBSET Nat, 0 \in S, \A n \in S : n + 1 \in S
    PROVE  S = Nat
  <1> SUFFICES ASSUME Nat \ S # {} PROVE FALSE
    OBVIOUS
  <1>1. PICK m \in Nat \ S : \A k \in Nat \ S : <<k, m>> \notin OpToRel(<, Nat)
    BY NatLessThanWellFounded, WFMin
  <1>2. m \in Nat /\ m \notin S
    OBVIOUS
  <1>3. m # 0
    BY <1>2
  <1>4. m - 1 \in Nat /\ m - 1 < m /\ (m - 1) + 1 = m
    BY <1>2, <1>3
  <1>5. <<m - 1, m>> \in OpToRel(<, Nat)
    BY <1>2, <1>4 DEF OpToRel
  <1>6. m - 1 \in S
    BY <1>1, <1>4, <1>5
  <1>7. (m - 1) + 1 \in S
    BY <1>6
  <1> QED
    BY <1>2, <1>4, <1>7

\* A function may be defined by recursion.
Iterates(g, T, base, F) ==
    g \in [Nat -> T] /\ g[0] = base /\ \A n \in Nat : g[n + 1] = F[g[n]]

LEMMA Recursion ==
    ASSUME NEW T, NEW base \in T, NEW F \in [T -> T]
    PROVE  \E g : Iterates(g, T, base, F)
  <1> DEFINE Upto(n) == {g \in [0 .. n -> T] :
                           g[0] = base /\ \A i \in 0 .. n - 1 : g[i + 1] = F[g[i]]}
             Ns == {n \in Nat : Upto(n) # {}}
  <1>1. 0 \in Ns
    <2>1. [i \in 0 .. 0 |-> base] \in Upto(0)
      OBVIOUS
    <2> QED
      BY <2>1
  <1>2. \A n \in Ns : n + 1 \in Ns
    <2> SUFFICES ASSUME NEW n \in Ns PROVE Upto(n + 1) # {}
      OBVIOUS
    <2>1. PICK g : g \in Upto(n)
      OBVIOUS
    <2> DEFINE h == [i \in 0 .. n + 1 |-> IF i = n + 1 THEN F[g[n]] ELSE g[i]]
    <2>2. h \in Upto(n + 1)
      BY <2>1
    <2> QED
      BY <2>2
  <1>3. Ns = Nat
    <2> HIDE DEF Ns
    <2> QED
      BY <1>1, <1>2, NaturalSet DEF Ns
  <1>4. ASSUME NEW n \in Nat, NEW m \in Nat, n <= m, NEW g \in Upto(n), NEW h \in Upto(m)
        PROVE  g[n] = h[n]
    <2> DEFINE S == {i \in Nat : i <= n => g[i] = h[i]}
    <2>1. 0 \in S
      BY <1>4
    <2>2. \A i \in S : i + 1 \in S
      <3> SUFFICES ASSUME NEW i \in S, i + 1 <= n PROVE g[i + 1] = h[i + 1]
        OBVIOUS
      <3>1. g[i] = h[i] /\ i \in 0 .. n - 1 /\ i \in 0 .. m - 1
        BY <1>4
      <3> QED
        BY <3>1
    <2>3. S = Nat
      <3> HIDE DEF S
      <3> QED
        BY <2>1, <2>2, NaturalSet DEF S
    <2> QED
      BY <2>3
  <1> DEFINE G == [n \in Nat |-> CHOOSE x \in T : \E g \in Upto(n) : x = g[n]]
  <1>5. ASSUME NEW n \in Nat, NEW g \in Upto(n)
        PROVE  G[n] = g[n]
    <2>1. g[n] \in T
      OBVIOUS
    <2>2. \E x \in T : \E h \in Upto(n) : x = h[n]
      <3> HIDE DEF Upto
      <3> QED
        BY <2>1
    <2>3. \A h \in Upto(n) : h[n] = g[n]
      <3> HIDE DEF Upto
      <3> QED
        BY <1>4
    <2> HIDE DEF Upto
    <2> QED
      BY <2>2, <2>3
  <1>6. ASSUME NEW n \in Nat PROVE G[n] \in T /\ G[n + 1] = F[G[n]]
    <2>1. PICK h \in Upto(n + 1) : TRUE
      <3> HIDE DEF Upto
      <3> QED
        BY <1>3 DEF Ns
    <2> DEFINE g == [i \in 0 .. n |-> h[i]]
    <2>2. g \in Upto(n) /\ g[n] = h[n] /\ h[n + 1] = F[h[n]] /\ h[n] \in T
      OBVIOUS
    <2> HIDE DEF Upto, g, G
    <2> QED
      BY <1>5, <2>2
  <1>7. G[0] = base
    <2>1. PICK g \in Upto(0) : TRUE
      <3> HIDE DEF Upto, Ns
      <3> QED
        BY <1>1 DEF Ns
    <2>2. g[0] = base
      OBVIOUS
    <2> HIDE DEF Upto, G
    <2> QED
      BY <1>5, <2>2
  <1>8. G \in [Nat -> T]
    <2> SUFFICES ASSUME NEW n \in Nat PROVE G[n] \in T
      OBVIOUS
    <2> HIDE DEF G
    <2> QED
      BY <1>6
  <1> HIDE DEF G
  <1> QED
    BY <1>6, <1>7, <1>8 DEF Iterates

-----------------------------------------------------------------------------
\* What a hop adds to the nodes that are near.
Spread(near) ==
    near \cup {n \in graph.nodes : \E m \in near, e \in graph.edges : Joins(e, m, n)}

\* The recursion of NodesWithin is sound.
LEMMA NodesWithinStep ==
    ASSUME seeds \subseteq graph.nodes
    PROVE  /\ NodesWithin[0] = seeds
           /\ \A h \in Nat : NodesWithin[h + 1] = Spread(NodesWithin[h])
  <1> DEFINE T == SUBSET graph.nodes
             F == [near \in T |-> Spread(near)]
  <1>1. PICK g : Iterates(g, T, seeds, F)
    <2>1. F \in [T -> T]
      BY DEF Spread
    <2>2. seeds \in T
      OBVIOUS
    <2> HIDE DEF F, T
    <2> QED
      BY <2>1, <2>2, Recursion
  <1>2. g \in [Nat -> T] /\ g[0] = seeds /\ \A h \in Nat : g[h + 1] = Spread(g[h])
    BY <1>1 DEF Iterates
  <1>3. ASSUME NEW h \in Nat
        PROVE  g[h] = IF h = 0 THEN seeds
                      ELSE LET near == g[h - 1]
                           IN  near \cup {n \in graph.nodes :
                                            \E m \in near, e \in graph.edges : Joins(e, m, n)}
    <2>1. CASE h = 0
      BY <1>2, <2>1
    <2>2. CASE h # 0
      <3>1. h - 1 \in Nat /\ (h - 1) + 1 = h
        BY <2>2
      <3> QED
        BY <1>2, <2>2, <3>1 DEF Spread
    <2> QED
      BY <2>1, <2>2
  <1>4. g = [h \in Nat |-> IF h = 0 THEN seeds
                           ELSE LET near == g[h - 1]
                                IN  near \cup {n \in graph.nodes :
                                       \E m \in near, e \in graph.edges : Joins(e, m, n)}]
    BY <1>2, <1>3
  <1>5. NodesWithin = [h \in Nat |-> IF h = 0 THEN seeds
                           ELSE LET near == NodesWithin[h - 1]
                                IN  near \cup {n \in graph.nodes :
                                       \E m \in near, e \in graph.edges : Joins(e, m, n)}]
    BY <1>4 DEF NodesWithin
  <1>6. NodesWithin[0] = seeds
    BY <1>5
  <1>7. ASSUME NEW h \in Nat PROVE NodesWithin[h + 1] = Spread(NodesWithin[h])
    <2>1. h + 1 \in Nat /\ h + 1 # 0 /\ (h + 1) - 1 = h
      OBVIOUS
    <2> QED
      BY <1>5, <2>1 DEF Spread
  <1> QED
    BY <1>6, <1>7

\* The reference depends on the graph and the seeds, which stay.
LEMMA ReferenceStays ==
    ASSUME UNCHANGED asked
    PROVE  NodesWithin' = NodesWithin /\ WalksOf' = WalksOf
  <1>1. NodesWithin' = NodesWithin
    BY DEF NodesWithin, asked, Joins
  <1>2. WalksOf' = WalksOf
    BY DEF WalksOf, Step, asked, Joins, NoHops
  <1> QED
    BY <1>1, <1>2

\* The recursion of WalksOf is sound.
LEMMA WalksOfStep ==
    ASSUME graph.nodes \subseteq Ids, graph.edges \subseteq Edge, seeds \subseteq graph.nodes
    PROVE  /\ WalksOf[0] = {[node |-> n, hops |-> NoHops] : n \in seeds}
           /\ \A k \in Nat : WalksOf[k + 1] = UNION {Step(w) : w \in WalksOf[k]}
  <1> DEFINE T == SUBSET Entry
             Start == {[node |-> n, hops |-> NoHops] : n \in seeds}
             F == [ws \in T |-> UNION {Step(w) : w \in ws}]
  <1>1. ASSUME NEW w \in Entry PROVE Step(w) \subseteq Entry
    <2> SUFFICES ASSUME NEW e \in graph.edges, NEW n \in graph.nodes
                 PROVE  [node |-> n, hops |-> [w.hops EXCEPT ![e.rel] = @ + 1]] \in Entry
      BY DEF Step
    <2>1. n \in Ids /\ e.rel \in RelationshipTypes /\ w.hops \in [RelationshipTypes -> Nat]
      BY DEF Edge, Entry, HopsTaken
    <2> QED
      BY <2>1 DEF Entry, HopsTaken
  <1>2. PICK g : Iterates(g, T, Start, F)
    <2>1. F \in [T -> T]
      BY <1>1
    <2>2. Start \in T
      BY DEF Entry, HopsTaken, NoHops
    <2> HIDE DEF F, T, Start
    <2> QED
      BY <2>1, <2>2, Recursion
  <1>3. \A k \in Nat : g[k + 1] = UNION {Step(w) : w \in g[k]}
    <2> SUFFICES ASSUME NEW k \in Nat PROVE g[k + 1] = UNION {Step(w) : w \in g[k]}
      OBVIOUS
    <2>1. g[k] \in T /\ g[k + 1] = F[g[k]]
      BY <1>2 DEF Iterates
    <2> QED
      BY <2>1
  <1>4. ASSUME NEW k \in Nat
        PROVE  g[k] = IF k = 0 THEN Start ELSE UNION {Step(w) : w \in g[k - 1]}
    <2>1. CASE k = 0
      BY <1>2, <2>1 DEF Iterates
    <2>2. CASE k # 0
      <3>1. k - 1 \in Nat /\ (k - 1) + 1 = k
        BY <2>2
      <3> QED
        BY <1>3, <2>2, <3>1
    <2> QED
      BY <2>1, <2>2
  <1>5. g = [k \in Nat |-> IF k = 0 THEN Start ELSE UNION {Step(w) : w \in g[k - 1]}]
    BY <1>2, <1>4 DEF Iterates
  <1>6. WalksOf = [k \in Nat |-> IF k = 0 THEN Start ELSE UNION {Step(w) : w \in WalksOf[k - 1]}]
    BY <1>5 DEF WalksOf
  <1>7. WalksOf[0] = Start
    BY <1>6
  <1>8. ASSUME NEW k \in Nat PROVE WalksOf[k + 1] = UNION {Step(w) : w \in WalksOf[k]}
    <2>1. k + 1 \in Nat /\ k + 1 # 0 /\ (k + 1) - 1 = k
      OBVIOUS
    <2> QED
      BY <1>6, <2>1
  <1> QED
    BY <1>7, <1>8

-----------------------------------------------------------------------------
\* get_subgraph: what lies behind the frontier has no neighbour that is not admitted.
ExactInv ==
    request.uniform =>
      /\ queue = << >> /\ all_ids = NodesWithin[hop]
      /\ \A m \in all_ids \ frontier : Neighbours(m) \cap graph.nodes \subseteq all_ids

\* A neighbour is the other end of an edge.
LEMMA NeighboursJoin ==
    ASSUME graph \in [nodes : SUBSET Ids, edges : SUBSET Edge], NEW m, NEW n
    PROVE  n \in Neighbours(m) <=> \E e \in graph.edges : Joins(e, m, n)
  <1>1. ASSUME n \in Neighbours(m) PROVE \E e \in graph.edges : Joins(e, m, n)
    <2>1. PICK v \in Views(m) : n = Other(v)
      BY <1>1 DEF Neighbours
    <2> QED
      BY <2>1, ViewsType
  <1>2. ASSUME NEW e \in graph.edges, Joins(e, m, n) PROVE n \in Neighbours(m)
    <2>1. CASE e.source = m /\ e.target = n
      <3>1. [out |-> TRUE, edge |-> e] \in Views(m) /\ Other([out |-> TRUE, edge |-> e]) = n
        BY <1>2, <2>1 DEF Views, Other
      <3> QED
        BY <3>1 DEF Neighbours
    <2>2. CASE e.source = n /\ e.target = m
      <3>1. [out |-> FALSE, edge |-> e] \in Views(m) /\ Other([out |-> FALSE, edge |-> e]) = n
        BY <1>2, <2>2 DEF Views, Other
      <3> QED
        BY <3>1 DEF Neighbours
    <2> QED
      BY <1>2, <2>1, <2>2 DEF Joins
  <1> QED
    BY <1>1, <1>2

LEMMA ExactInit == Init => ExactInv
  <1> SUFFICES ASSUME Init, request.uniform PROVE ExactInv
    BY DEF ExactInv
  <1>1. seeds \subseteq graph.nodes /\ all_ids = seeds /\ hop = 0 /\ frontier = all_ids /\ queue = << >>
    BY InitInv DEF Init, Inv, TypeOK
  <1> QED
    BY <1>1, NodesWithinStep DEF ExactInv

LEMMA ExactStep == Inv /\ ExactInv /\ [Next]_vars => ExactInv'
  <1> SUFFICES ASSUME Inv, ExactInv, [Next]_vars, request.uniform' PROVE ExactInv'
    BY DEF ExactInv
  <1>0. UNCHANGED asked
    BY DEF Next, Hop, Expand, NextNode, vars, asked
  <1>1. /\ UNCHANGED asked /\ request.uniform
        /\ graph \in [nodes : SUBSET Ids, edges : SUBSET Edge] /\ seeds \subseteq graph.nodes
        /\ frontier \subseteq all_ids /\ all_ids \subseteq graph.nodes /\ hop \in Nat
        /\ (pending # {} => queue # << >>)
    BY <1>0 DEF Inv, TypeOK, asked, Request
  <1>2. NodesWithin' = NodesWithin /\ \A m : Neighbours(m)' = Neighbours(m)
    BY <1>1, ReferenceStays DEF Neighbours, Views, Other, asked
  <1>3. pending = {} /\ queue = << >>
    BY <1>1 DEF ExactInv
  <1>4. CASE Hop
    <2>1. /\ hop' = hop + 1 /\ all_ids' = all_ids \cup frontier'
          /\ frontier' = ((UNION {Neighbours(n) : n \in frontier}) \cap graph.nodes) \ all_ids
          /\ queue' = queue
      BY <1>4 DEF Hop, HopTaken
    <2>2. all_ids' = Spread(all_ids)
      <3>1. ASSUME NEW n \in frontier' PROVE n \in Spread(all_ids)
        <4>1. PICK m \in frontier : n \in Neighbours(m)
          BY <2>1
        <4>2. n \in graph.nodes /\ m \in all_ids
          BY <1>1, <2>1
        <4> QED
          BY <1>1, <4>1, <4>2, NeighboursJoin DEF Spread
      <3>2. ASSUME NEW n \in Spread(all_ids) PROVE n \in all_ids'
        <4>1. CASE n \in all_ids
          BY <2>1, <4>1
        <4>2. CASE n \notin all_ids
          <5>1. PICK m \in all_ids : n \in graph.nodes /\ \E e \in graph.edges : Joins(e, m, n)
            BY <4>2 DEF Spread
          <5>2. n \in Neighbours(m)
            BY <1>1, <5>1, NeighboursJoin
          <5>3. m \in frontier
            BY <1>1, <4>2, <5>1, <5>2 DEF ExactInv
          <5> QED
            BY <2>1, <4>2, <5>1, <5>2, <5>3
        <4> QED
          BY <4>1, <4>2
      <3> QED
        BY <2>1, <3>1, <3>2 DEF Spread
    <2>3. all_ids' = NodesWithin'[hop']
      BY <1>1, <1>2, <2>1, <2>2, NodesWithinStep DEF ExactInv
    <2>4. ASSUME NEW m \in all_ids' \ frontier'
          PROVE  Neighbours(m) \cap graph.nodes \subseteq all_ids'
      <3>1. m \in all_ids
        BY <2>1, <2>4
      <3>2. CASE m \in frontier
        BY <2>1, <3>2
      <3>3. CASE m \notin frontier
        BY <1>1, <2>1, <3>1, <3>3 DEF ExactInv
      <3> QED
        BY <3>2, <3>3
    <2> QED
      BY <1>1, <1>2, <1>3, <2>1, <2>3, <2>4 DEF ExactInv, asked
  <1>5. CASE UNCHANGED vars
    BY <1>1, <1>2, <1>5 DEF ExactInv, vars, asked
  <1> QED
    BY <1>3, <1>4, <1>5 DEF Next, NextNode

\* get_subgraph returns the nodes within max_hops of a seed in any graph, whatever its
\* cycles (code_retriever.py:554-571).
THEOREM UniformReachesExactly == Spec => []UniformIsExact
  <1>1. Inv /\ ExactInv => UniformIsExact
    BY DEF ExactInv, UniformIsExact, Done
  <1> QED
    BY <1>1, ExactInit, ExactStep, SubgraphInvariant, PTL DEF Spec

-----------------------------------------------------------------------------
\* The hops of a walk, of whatever relationship.
Length(hops) ==
    hops["calls"] + hops["contains"] + hops["decorates"] + hops["imports"]
    + hops["inherits"] + hops["instantiates"] + hops["overrides"]

\* A walk from a seed that has arrived and is within the budgets.
IsWalk(w) ==
    /\ w \in Entry /\ w \in WalksOf[Length(w.hops)]
    /\ \A r \in RelationshipTypes : w.hops[r] <= request.limits[r]

\* get_subgraph_for_intent: what waits in the queue has been walked to, and so has
\* every node that is admitted.
BudgetInv ==
    /\ \A r \in RelationshipTypes : request.limits[r] <= 3
    /\ ~request.uniform =>
         /\ frontier = {}
         /\ \A i \in 1 .. Len(queue) : IsWalk(queue[i])
         /\ \A n \in all_ids : \E w : IsWalk(w) /\ w.node = n

LEMMA LimitsAtMostThree ==
    ASSUME NEW categories, NEW hops \in 0 .. 3, NEW r \in RelationshipTypes
    PROVE  ScaledLimits(categories, hops)[r] <= 3
  <1>1. PolicyForIntent(categories)[r] \in 0 .. 2
    <2>1. CASE categories = {}
      BY <2>1 DEF PolicyForIntent, DEFAULT_EXPANSION_POLICY, Budget
    <2>2. CASE categories # {}
      BY <2>2, PolicyForIntentMost
    <2> QED
      BY <2>1, <2>2
  <1>2. ASSUME NEW p \in 0 .. 2
        PROVE  (IF hops # 1 /\ p * hops > 3 THEN 3 ELSE p * hops) <= 3
    BY SMT
  <1> QED
    BY <1>1, <1>2 DEF ScaledLimits

LEMMA SevenRelationships ==
    IsFiniteSet(RelationshipTypes) /\ Cardinality(RelationshipTypes) = 7
  <1> DEFINE A == {"calls"}
             B == A \cup {"contains"}
             C == B \cup {"decorates"}
             D == C \cup {"imports"}
             E == D \cup {"inherits"}
             G == E \cup {"instantiates"}
             H == G \cup {"overrides"}
  <1>1. IsFiniteSet(A) /\ Cardinality(A) = 1
    BY FS_Singleton
  <1>2. /\ "contains" \notin A /\ "decorates" \notin B /\ "imports" \notin C
        /\ "inherits" \notin D /\ "instantiates" \notin E /\ "overrides" \notin G
    OBVIOUS
  <1>3. H = RelationshipTypes
    BY DEF RelationshipTypes
  <1> HIDE DEF A
  <1>4. IsFiniteSet(B) /\ Cardinality(B) = 2
    BY <1>1, <1>2, FS_AddElement
  <1> HIDE DEF B
  <1>5. IsFiniteSet(C) /\ Cardinality(C) = 3
    BY <1>2, <1>4, FS_AddElement
  <1> HIDE DEF C
  <1>6. IsFiniteSet(D) /\ Cardinality(D) = 4
    BY <1>2, <1>5, FS_AddElement
  <1> HIDE DEF D
  <1>7. IsFiniteSet(E) /\ Cardinality(E) = 5
    BY <1>2, <1>6, FS_AddElement
  <1> HIDE DEF E
  <1>8. IsFiniteSet(G) /\ Cardinality(G) = 6
    BY <1>2, <1>7, FS_AddElement
  <1> HIDE DEF G
  <1> QED
    BY <1>2, <1>3, <1>8, FS_AddElement

\* One hop more.
LEMMA LengthTaken ==
    ASSUME NEW hops \in HopsTaken, NEW r \in RelationshipTypes
    PROVE  /\ Length(hops) \in Nat
           /\ [hops EXCEPT ![r] = @ + 1] \in HopsTaken
           /\ Length([hops EXCEPT ![r] = @ + 1]) = Length(hops) + 1
  <1> DEFINE t == [hops EXCEPT ![r] = @ + 1]
  <1>1. t \in HopsTaken /\ \A q \in RelationshipTypes :
          hops[q] \in Nat /\ t[q] = IF q = r THEN hops[q] + 1 ELSE hops[q]
    BY DEF HopsTaken
  <1> HIDE DEF t
  <1>2. Length(hops) \in Nat
    BY <1>1 DEF Length, RelationshipTypes
  <1>3. Length(t) = Length(hops) + 1
    BY <1>1 DEF Length, RelationshipTypes
  <1> QED
    BY <1>1, <1>2, <1>3 DEF t

LEMMA BudgetInit == Init => BudgetInv
  <1> SUFFICES ASSUME Init PROVE BudgetInv
    OBVIOUS
  <1>1. PICK q \in Questions :
          request = [uniform  |-> IsUniform(q.intents), max_hops |-> q.max_hops,
                     limits   |-> ScaledLimits(q.intents, q.max_hops)]
    BY DEF Init
  <1>2. \A r \in RelationshipTypes : request.limits[r] <= 3
    <2>1. q.max_hops \in 0 .. 3
      BY RetrievalAssumption
    <2> QED
      BY <1>1, <2>1, LimitsAtMostThree
  <1>3. /\ graph \in [nodes : SUBSET Ids, edges : SUBSET Edge] /\ seeds \subseteq graph.nodes
        /\ request \in Request /\ queue \in Seq(Entry) /\ all_ids = seeds
    BY InitInv DEF Init, Inv, TypeOK
  <1>4. /\ NoHops \in HopsTaken /\ \A r \in RelationshipTypes : NoHops[r] = 0
        /\ Length(NoHops) = 0
    BY DEF NoHops, HopsTaken, Length, RelationshipTypes
  <1>5. WalksOf[0] = {[node |-> n, hops |-> NoHops] : n \in seeds}
    BY <1>3, WalksOfStep
  <1>6. ASSUME NEW n \in seeds PROVE IsWalk([node |-> n, hops |-> NoHops])
    <2> DEFINE w == [node |-> n, hops |-> NoHops]
    <2>1. w \in WalksOf[0] /\ w.hops = NoHops
      BY <1>5
    <2>2. w \in Entry
      BY <1>3, <1>4 DEF Entry
    <2>3. \A r \in RelationshipTypes : 0 <= request.limits[r]
      BY <1>3 DEF Request
    <2> HIDE DEF w
    <2>4. IsWalk(w)
      BY <1>4, <2>1, <2>2, <2>3 DEF IsWalk
    <2> QED
      BY <2>4 DEF w
  <1>7. ASSUME ~request.uniform, NEW i \in 1 .. Len(queue) PROVE IsWalk(queue[i])
    <2>1. PICK nodes \in SetToSeqs(all_ids) :
            queue = [j \in 1 .. Len(nodes) |-> [node |-> nodes[j], hops |-> NoHops]]
      BY <1>7 DEF Init
    <2>2. nodes \in [1 .. Cardinality(all_ids) -> all_ids]
      BY <2>1 DEF SetToSeqs
    <2>3. IsFiniteSet(all_ids)
      BY <1>3, RetrievalAssumption, FS_Subset
    <2>4. Cardinality(all_ids) \in Nat
      BY <2>3, FS_CardinalityType
    <2>5. nodes \in Seq(all_ids) /\ Len(nodes) = Cardinality(all_ids)
      BY <2>2, <2>4
    <2>6. Len(queue) = Len(nodes)
      BY <2>1, <2>5
    <2>7. nodes[i] \in seeds /\ queue[i] = [node |-> nodes[i], hops |-> NoHops]
      BY <1>3, <2>1, <2>2, <2>5, <2>6
    <2> QED
      BY <1>6, <2>7
  <1>8. ASSUME ~request.uniform PROVE frontier = {}
    BY <1>8 DEF Init
  <1>9. ASSUME NEW n \in all_ids PROVE \E w : IsWalk(w) /\ w.node = n
    <2>1. IsWalk([node |-> n, hops |-> NoHops]) /\ [node |-> n, hops |-> NoHops].node = n
      BY <1>3, <1>6
    <2> QED
      BY <2>1
  <1> QED
    BY <1>2, <1>7, <1>8, <1>9 DEF BudgetInv

\* A walk goes on along an edge of which there is budget.
LEMMA WalkOn ==
    ASSUME Inv, NEW w, IsWalk(w), NEW e \in graph.edges, NEW n \in graph.nodes,
           Joins(e, w.node, n), w.hops[e.rel] < request.limits[e.rel]
    PROVE  IsWalk([node |-> n, hops |-> Taken(w.hops, e.rel)])
  <1>1. /\ w \in Entry /\ w.hops \in HopsTaken /\ e.rel \in RelationshipTypes
        /\ graph.nodes \subseteq Ids /\ graph.edges \subseteq Edge /\ seeds \subseteq graph.nodes
        /\ request.limits \in [RelationshipTypes -> Nat]
    BY DEF Inv, TypeOK, IsWalk, Entry, Edge, Request
  <1> DEFINE t == [w.hops EXCEPT ![e.rel] = @ + 1]
             v == [node |-> n, hops |-> t]
  <1>2. Length(w.hops) \in Nat /\ t \in HopsTaken /\ Length(t) = Length(w.hops) + 1
    BY <1>1, LengthTaken
  <1>3. v \in Step(w)
    BY DEF Step
  <1>4. v \in WalksOf[Length(w.hops) + 1]
    <2>1. w \in WalksOf[Length(w.hops)]
      BY DEF IsWalk
    <2>2. WalksOf[Length(w.hops) + 1] = UNION {Step(x) : x \in WalksOf[Length(w.hops)]}
      BY <1>1, <1>2, WalksOfStep
    <2> HIDE DEF v, t
    <2> QED
      BY <1>3, <2>1, <2>2
  <1>5. \A r \in RelationshipTypes : t[r] <= request.limits[r]
    <2> SUFFICES ASSUME NEW r \in RelationshipTypes PROVE t[r] <= request.limits[r]
      OBVIOUS
    <2>1. w.hops[r] <= request.limits[r] /\ w.hops[r] \in Nat /\ request.limits[r] \in Nat
      BY <1>1 DEF IsWalk, HopsTaken
    <2>2. t[r] = IF r = e.rel THEN w.hops[r] + 1 ELSE w.hops[r]
      BY <1>1 DEF HopsTaken
    <2> HIDE DEF t
    <2> QED
      BY <2>1, <2>2
  <1>6. v \in Entry /\ v.hops = t
    BY <1>1, <1>2 DEF Entry
  <1>7. v = [node |-> n, hops |-> Taken(w.hops, e.rel)]
    BY DEF Taken
  <1> HIDE DEF v, t
  <1>8. IsWalk(v)
    BY <1>2, <1>4, <1>5, <1>6 DEF IsWalk
  <1> QED
    BY <1>7, <1>8

LEMMA BudgetStep == Inv /\ BudgetInv /\ [Next]_vars => BudgetInv'
  <1> SUFFICES ASSUME Inv, BudgetInv, [Next]_vars PROVE BudgetInv'
    OBVIOUS
  <1>0. UNCHANGED asked
    BY DEF Next, Hop, Expand, NextNode, vars, asked
  <1>1. /\ UNCHANGED <<graph, seeds, request>> /\ queue \in Seq(Entry)
        /\ graph.edges \subseteq Edge /\ (pending # {} => queue # << >>)
    BY <1>0 DEF Inv, TypeOK, asked
  <1>2. \A w : IsWalk(w)' <=> IsWalk(w)
    BY <1>0, <1>1, ReferenceStays DEF IsWalk
  <1>3. ASSUME request.uniform PROVE BudgetInv'
    BY <1>1, <1>3 DEF BudgetInv
  <1>4. ASSUME ~request.uniform, NEW v \in pending, Expand(v) PROVE BudgetInv'
    <2> DEFINE head  == Head(queue)
               entry == [node |-> Other(v), hops |-> Taken(head.hops, v.edge.rel)]
    <2>1. queue # << >> /\ 1 \in 1 .. Len(queue) /\ head = queue[1]
      BY <1>1, <1>4
    <2>2. v.edge \in graph.edges /\ Joins(v.edge, head.node, Other(v))
      <3>1. v \in Views(head.node)
        BY <1>4, <2>1 DEF Inv, PendingAtHead
      <3> QED
        BY <1>1, <3>1, ViewsType
    <2>3. CASE UNCHANGED <<all_ids, queue>>
      BY <1>1, <1>2, <1>4, <2>3 DEF BudgetInv, Expand
    <2>4. CASE /\ HasBudget(v) /\ Other(v) \in graph.nodes
               /\ all_ids' = all_ids \cup {Other(v)} /\ queue' = Append(queue, entry)
      <3>1. IsWalk(head)
        BY <1>4, <2>1 DEF BudgetInv
      <3>2. IsWalk(entry) /\ entry.node = Other(v)
        BY <2>2, <2>4, <3>1, WalkOn DEF HasBudget
      <3> HIDE DEF entry
      <3>3. entry \in Entry
        BY <3>2 DEF IsWalk
      <3>4. /\ Len(queue') = Len(queue) + 1 /\ queue'[Len(queue) + 1] = entry
            /\ \A i \in 1 .. Len(queue) : queue'[i] = queue[i]
        BY <1>1, <2>4, <3>3
      <3>5. ASSUME NEW i \in 1 .. Len(queue') PROVE IsWalk(queue'[i])
        <4>1. CASE i \in 1 .. Len(queue)
          BY <1>4, <3>4, <4>1 DEF BudgetInv
        <4>2. CASE i = Len(queue) + 1
          BY <3>2, <3>4, <4>2
        <4> QED
          BY <1>1, <3>4, <4>1, <4>2
      <3>6. ASSUME NEW n \in all_ids' PROVE \E w : IsWalk(w) /\ w.node = n
        <4>1. CASE n \in all_ids
          BY <1>4, <4>1 DEF BudgetInv
        <4>2. CASE n = Other(v)
          BY <3>2, <4>2
        <4> QED
          BY <2>4, <4>1, <4>2
      <3>7. frontier' = {}
        BY <1>4 DEF Expand, BudgetInv
      <3> QED
        BY <1>1, <1>2, <3>5, <3>6, <3>7 DEF BudgetInv
    <2> QED
      BY <1>4, <2>3, <2>4 DEF Expand
  <1>5. ASSUME ~request.uniform, NextNode PROVE BudgetInv'
    <2>1. /\ Len(queue') = Len(queue) - 1
          /\ \A i \in 1 .. Len(queue') : i + 1 \in 1 .. Len(queue) /\ queue'[i] = queue[i + 1]
      BY <1>1, <1>5 DEF NextNode
    <2>2. \A i \in 1 .. Len(queue') : IsWalk(queue'[i])
      BY <1>5, <2>1 DEF BudgetInv
    <2>3. all_ids' = all_ids /\ frontier' = {}
      BY <1>5 DEF NextNode, BudgetInv
    <2> QED
      BY <1>1, <1>2, <1>5, <2>2, <2>3 DEF BudgetInv
  <1>6. CASE UNCHANGED vars
    BY <1>1, <1>2, <1>6 DEF BudgetInv, vars
  <1> QED
    BY <1>3, <1>4, <1>5, <1>6 DEF Next, Hop

\* Whatever is admitted by intent is at the end of a walk that takes, of every
\* relationship, no more hops than its budget (code_retriever.py:645-717).
THEOREM IntentStaysInBudget == Spec => []AdmittedInBudget
  <1>1. ASSUME Inv, BudgetInv, ~request.uniform, NEW n \in all_ids PROVE n \in NodesInBudget
    <2>1. PICK w : IsWalk(w) /\ w.node = n
      BY <1>1 DEF BudgetInv
    <2>2. ASSUME NEW r \in RelationshipTypes PROVE w.hops[r] \in 0 .. 3
      <3>1. w.hops[r] \in Nat /\ request.limits[r] \in Nat
        BY <1>1, <2>1 DEF IsWalk, Entry, HopsTaken, Inv, TypeOK, Request
      <3>2. w.hops[r] <= request.limits[r] /\ request.limits[r] <= 3
        BY <1>1, <2>1 DEF IsWalk, BudgetInv
      <3> QED
        BY <3>1, <3>2
    <2>3. Length(w.hops) \in 0 .. 21
      <3>1. /\ w.hops["calls"] \in 0 .. 3 /\ w.hops["contains"] \in 0 .. 3
            /\ w.hops["decorates"] \in 0 .. 3 /\ w.hops["imports"] \in 0 .. 3
            /\ w.hops["inherits"] \in 0 .. 3 /\ w.hops["instantiates"] \in 0 .. 3
            /\ w.hops["overrides"] \in 0 .. 3
        BY <2>2 DEF RelationshipTypes
      <3> QED
        BY <3>1 DEF Length
    <2>4. Longest = 21
      BY SevenRelationships DEF Longest
    <2>5. w \in WalksOf[Length(w.hops)]
      BY <2>1 DEF IsWalk
    <2> QED
      BY <2>1, <2>3, <2>4, <2>5 DEF NodesInBudget
  <1>2. Inv /\ BudgetInv => AdmittedInBudget
    BY <1>1 DEF AdmittedInBudget
  <1> QED
    BY <1>2, BudgetInit, BudgetStep, SubgraphInvariant, PTL DEF Spec

-----------------------------------------------------------------------------
\* The (node, relationship, depth) that may still be expanded.
Left == (Ids \X RelationshipTypes \X (0 .. 2)) \ expanded

\* Every step of an expansion goes forward, in this order of importance: it takes
\* one more of the max_hops; or fewer (node, relationship, depth) are left to
\* expand; or fewer nodes wait; or fewer edges of the first of them.
GoesForward ==
    \/ hop < hop' /\ hop' <= request.max_hops /\ UNCHANGED <<queue, pending, expanded>>
    \/ /\ hop' = hop
       /\ \/ Cardinality(Left') < Cardinality(Left)
          \/ /\ Left' = Left
             /\ \/ Len(queue') < Len(queue)
                \/ queue' = queue /\ Cardinality(pending') < Cardinality(pending)

\* Until it is done, an expansion has a next step: a hop to take, a node without
\* an edge left, or an edge that comes before the others.
NeverStuck ==
    \/ Done
    \/ request.uniform /\ hop < request.max_hops
    \/ queue # << >> /\ pending = {}
    \/ \E v \in pending : \A w \in pending \ {v} : Before(v, w)

\* The edges of the graph have a place in the order of the adjacency lists.
RelsOrdered == \A e \in graph.edges : e.rel \in ToSet(EdgeTypes)

LEMMA FiniteSets ==
    /\ IsFiniteSet(Ids \X RelationshipTypes \X (0 .. 2))
    /\ IsFiniteSet(View)
  <1>1. IsFiniteSet(Ids) /\ IsFiniteSet(RelationshipTypes) /\ IsFiniteSet(0 .. 2)
    <2>1. IsFiniteSet(RelationshipTypes)
      BY SevenRelationships
    <2>2. IsFiniteSet(0 .. 2)
      <3>1. IsFiniteSet({0})
        BY FS_Singleton
      <3>2. IsFiniteSet({0} \cup {1})
        BY <3>1, FS_AddElement
      <3>3. IsFiniteSet(({0} \cup {1}) \cup {2})
        BY <3>2, FS_AddElement
      <3>4. ({0} \cup {1}) \cup {2} = 0 .. 2
        OBVIOUS
      <3> QED
        BY <3>3, <3>4
    <2>3. IsFiniteSet(Ids)
      BY RetrievalAssumption
    <2> QED
      BY <2>1, <2>2, <2>3
  <1>2. IsFiniteSet(Ids \X RelationshipTypes \X (0 .. 2))
    <2> DEFINE P == (Ids \X RelationshipTypes) \X (0 .. 2)
               T == Ids \X RelationshipTypes \X (0 .. 2)
               f == [p \in P |-> <<p[1][1], p[1][2], p[2]>>]
    <2>1. IsFiniteSet(P)
      <3>1. IsFiniteSet(Ids \X RelationshipTypes)
        BY <1>1, FS_Product
      <3> QED
        BY <1>1, <3>1, FS_Product
    <2>2. f \in [P -> T]
      OBVIOUS
    <2>3. ASSUME NEW t \in T PROVE \E p \in P : f[p] = t
      <3>1. <<<<t[1], t[2]>>, t[3]>> \in P /\ f[<<<<t[1], t[2]>>, t[3]>>] = t
        OBVIOUS
      <3> QED
        BY <3>1
    <2>4. f \in Surjection(P, T)
      <3> HIDE DEF f, P, T
      <3> QED
        BY <2>2, <2>3 DEF Surjection
    <2> HIDE DEF f, P
    <2> QED
      BY <2>1, <2>4, FS_Surjection
  <1>3. IsFiniteSet(View)
    <2> DEFINE Q == (BOOLEAN \X Ids) \X (Ids \X RelationshipTypes)
               f == [p \in Q |-> [out  |-> p[1][1],
                                  edge |-> [source |-> p[1][2], target |-> p[2][1],
                                            rel |-> p[2][2]]]]
    <2>1. IsFiniteSet(Q)
      <3>1. IsFiniteSet(BOOLEAN)
        <4>1. BOOLEAN = {TRUE} \cup {FALSE}
          OBVIOUS
        <4>2. IsFiniteSet({TRUE})
          BY FS_Singleton
        <4> QED
          BY <4>1, <4>2, FS_AddElement
      <3>2. IsFiniteSet(BOOLEAN \X Ids) /\ IsFiniteSet(Ids \X RelationshipTypes)
        BY <1>1, <3>1, FS_Product
      <3> QED
        BY <3>2, FS_Product
    <2>2. f \in [Q -> View]
      BY DEF View, Edge
    <2>3. ASSUME NEW v \in View PROVE \E p \in Q : f[p] = v
      <3> DEFINE p == <<<<v.out, v.edge.source>>, <<v.edge.target, v.edge.rel>>>>
      <3>1. p \in Q
        BY DEF View, Edge
      <3>2. f[p] = v
        BY DEF View, Edge
      <3> QED
        BY <3>1, <3>2
    <2>4. f \in Surjection(Q, View)
      <3> HIDE DEF f, Q
      <3> QED
        BY <2>2, <2>3 DEF Surjection
    <2> HIDE DEF f, Q
    <2> QED
      BY <2>1, <2>4, FS_Surjection
  <1> QED
    BY <1>2, <1>3

\* The order of the adjacency lists is one: of two edges of a node, one comes
\* first, and what comes before the first comes before the second.
LEMMA BeforeOrders ==
    ASSUME graph.edges \subseteq Edge, RelsOrdered, NEW n,
           NEW u \in Views(n), NEW v \in Views(n), NEW w \in Views(n)
    PROVE  /\ u # v => Before(u, v) \/ Before(v, u)
           /\ ~(Before(u, v) /\ Before(v, u))
           /\ Before(u, v) /\ Before(v, w) => Before(u, w)
  <1>1. ASSUME NEW x \in Views(n)
        PROVE  /\ x.out \in BOOLEAN /\ x.edge.source \in Int /\ x.edge.target \in Int
               /\ Rank(x.edge.rel) \in Int /\ EdgeTypes[Rank(x.edge.rel)] = x.edge.rel
               /\ x = [out |-> x.out, edge |-> [source |-> x.edge.source,
                          target |-> x.edge.target, rel |-> x.edge.rel]]
    <2>1. x \in View /\ x.edge \in graph.edges /\ x.edge \in Edge
      BY <1>1, ViewsType
    <2>2. /\ x.out \in BOOLEAN /\ x.edge.source \in Int /\ x.edge.target \in Int
          /\ x = [out |-> x.out, edge |-> [source |-> x.edge.source,
                     target |-> x.edge.target, rel |-> x.edge.rel]]
      BY <2>1, RetrievalAssumption DEF View, Edge
    <2>3. \E i \in 1 .. Len(EdgeTypes) : EdgeTypes[i] = x.edge.rel
      BY <2>1, RetrievalAssumption DEF RelsOrdered, ToSet
    <2>4. Rank(x.edge.rel) \in 1 .. Len(EdgeTypes) /\ EdgeTypes[Rank(x.edge.rel)] = x.edge.rel
      BY <2>3 DEF Rank
    <2> QED
      BY <2>2, <2>4
  <1>2. u # v => Before(u, v) \/ Before(v, u)
    <2> SUFFICES ASSUME ~Before(u, v), ~Before(v, u) PROVE u = v
      OBVIOUS
    <2>1. /\ u.out = v.out /\ u.edge.source = v.edge.source /\ u.edge.target = v.edge.target
          /\ Rank(u.edge.rel) = Rank(v.edge.rel)
      BY <1>1 DEF Before
    <2>2. u.edge.rel = v.edge.rel
      BY <1>1, <2>1
    <2> QED
      BY <1>1, <2>1, <2>2
  <1>3. ~(Before(u, v) /\ Before(v, u))
    BY <1>1 DEF Before
  <1>4. Before(u, v) /\ Before(v, w) => Before(u, w)
    BY <1>1 DEF Before
  <1> QED
    BY <1>2, <1>3, <1>4

\* Of any edges of a node, one comes before the others.
LEMMA FirstOfSome ==
    ASSUME graph.edges \subseteq Edge, RelsOrdered, NEW n,
           NEW some \in SUBSET Views(n), some # {}
    PROVE  \E v \in some : \A w \in some \ {v} : Before(v, w)
  <1> DEFINE HasFirst(S) == \E v \in S : \A w \in S \ {v} : Before(v, w)
             Ks == {k \in Nat : \A S \in SUBSET Views(n) :
                                    Cardinality(S) = k /\ S # {} => HasFirst(S)}
  <1>1. \A S \in SUBSET Views(n) : IsFiniteSet(S) /\ Cardinality(S) \in Nat
    <2>1. Views(n) \subseteq View
      BY ViewsType
    <2> QED
      BY <2>1, FiniteSets, FS_Subset, FS_CardinalityType
  <1>2. 0 \in Ks
    BY <1>1, FS_EmptySet
  <1>3. ASSUME NEW k \in Ks PROVE k + 1 \in Ks
    <2> SUFFICES ASSUME NEW S \in SUBSET Views(n), Cardinality(S) = k + 1, S # {}
                 PROVE  HasFirst(S)
      OBVIOUS
    <2>1. PICK x : x \in S
      OBVIOUS
    <2> DEFINE R == S \ {x}
    <2>2. R \in SUBSET Views(n) /\ Cardinality(R) = k
      BY <1>1, <2>1, FS_RemoveElement
    <2>3. CASE R = {}
      BY <2>1, <2>3
    <2>4. CASE R # {}
      <3>1. PICK y \in R : \A w \in R \ {y} : Before(y, w)
        BY <2>2, <2>4
      <3>2. x \in Views(n) /\ y \in Views(n) /\ x # y
        BY <2>1
      <3>3. CASE Before(y, x)
        BY <3>1, <3>3
      <3>4. CASE Before(x, y)
        <4>1. ASSUME NEW w \in S \ {x} PROVE Before(x, w)
          <5>1. CASE w = y
            BY <3>4, <5>1
          <5>2. CASE w # y
            <6>1. Before(y, w) /\ w \in Views(n)
              BY <3>1, <5>2
            <6> QED
              BY <3>2, <3>4, <6>1, BeforeOrders
          <5> QED
            BY <5>1, <5>2
        <4> QED
          BY <2>1, <4>1
      <3> QED
        BY <3>2, <3>3, <3>4, BeforeOrders
    <2> QED
      BY <2>3, <2>4
  <1>4. Ks = Nat
    <2> HIDE DEF Ks
    <2>1. Ks \in SUBSET Nat
      BY DEF Ks
    <2> QED
      BY <1>2, <1>3, <2>1, NaturalSet
  <1>5. HasFirst(some)
    <2>1. Cardinality(some) \in Ks
      BY <1>1, <1>4
    <2> QED
      BY <2>1
  <1> QED
    BY <1>5

LEMMA OrderedInit == Init => RelsOrdered
  BY RetrievalAssumption DEF Init, RelsOrdered

LEMMA OrderedStep == RelsOrdered /\ [Next]_vars => RelsOrdered'
  BY DEF RelsOrdered, Next, Hop, Expand, NextNode, vars, asked

\* Until it is done, an expansion has a step to take: the guards of the loops of
\* get_subgraph and get_subgraph_for_intent leave no way to wait, and of the edges
\* still to try one comes first (code_retriever.py:557-571, 664-717).
THEOREM ExpansionNeverStuck == Spec => []NeverStuck
  <1>1. ASSUME Inv, RelsOrdered PROVE NeverStuck
    <2>1. /\ hop \in 0 .. request.max_hops /\ request.max_hops \in Nat
          /\ graph.edges \subseteq Edge /\ (pending # {} => queue # << >>)
      BY <1>1 DEF Inv, TypeOK, Request
    <2>2. CASE request.uniform
      BY <2>1, <2>2 DEF NeverStuck, Done
    <2>3. CASE ~request.uniform /\ pending = {}
      BY <2>3 DEF NeverStuck, Done
    <2>4. CASE pending # {}
      <3>1. pending \in SUBSET Views(Head(queue).node)
        BY <1>1, <2>1, <2>4 DEF Inv, PendingAtHead
      <3>2. \E v \in pending : \A w \in pending \ {v} : Before(v, w)
        BY <1>1, <2>1, <2>4, <3>1, FirstOfSome
      <3> QED
        BY <3>2 DEF NeverStuck
    <2> QED
      BY <2>2, <2>3, <2>4
  <1> QED
    BY <1>1, OrderedInit, OrderedStep, SubgraphInvariant, PTL DEF Spec

\* What is expanded, and not before, is no longer left.
LEMMA ExpandedLess ==
    ASSUME NEW k \in Ids \X RelationshipTypes \X (0 .. 2), k \notin expanded,
           expanded' = expanded \cup {k}
    PROVE  Cardinality(Left') < Cardinality(Left)
  <1>1. IsFiniteSet(Left) /\ Cardinality(Left) \in Nat
    <2>1. Left \in SUBSET (Ids \X RelationshipTypes \X (0 .. 2))
      BY DEF Left
    <2> QED
      BY <2>1, FiniteSets, FS_Subset, FS_CardinalityType
  <1>2. Left' = Left \ {k} /\ k \in Left
    BY DEF Left
  <1> HIDE DEF Left
  <1>3. Cardinality(Left \ {k}) = Cardinality(Left) - 1
    BY <1>1, <1>2, FS_RemoveElement
  <1> QED
    BY <1>1, <1>2, <1>3

\* However many cycles the graph has, the expansion never returns to where it was:
\* every step of its loops uses up a hop, or something of which there is only so
\* much left. Nothing that is expanded is expanded again at the same depth.
THEOREM ExpansionGoesForward == Spec => [][GoesForward]_vars
  <1>1. ASSUME Inv, BudgetInv, Hop PROVE GoesForward
    BY <1>1 DEF Inv, TypeOK, Request, Hop, HopTaken, GoesForward
  <1>2. ASSUME Inv, BudgetInv, NEW v \in pending, Expand(v) PROVE GoesForward
    <2>1. /\ pending' = pending \ {v} /\ hop' = hop /\ queue # << >> /\ queue \in Seq(Entry)
          /\ graph.edges \subseteq Edge /\ pending \subseteq View
          /\ request.limits \in [RelationshipTypes -> Nat]
      BY <1>2 DEF Inv, TypeOK, Request, Expand
    <2>2. CASE UNCHANGED <<expanded, all_ids, queue>>
      <3>1. IsFiniteSet(pending) /\ Cardinality(pending) \in Nat
        BY <2>1, FiniteSets, FS_Subset, FS_CardinalityType
      <3>2. Cardinality(pending \ {v}) = Cardinality(pending) - 1
        BY <1>2, <3>1, FS_RemoveElement
      <3>3. Left' = Left
        BY <2>2 DEF Left
      <3> QED
        BY <2>1, <2>2, <3>1, <3>2, <3>3 DEF GoesForward
    <2>3. CASE HasBudget(v) /\ Key(v) \notin expanded /\ expanded' = expanded \cup {Key(v)}
      <3> DEFINE head == Head(queue)
      <3>1. head \in Entry /\ head = queue[1]
        BY <2>1
      <3>2. v.edge.rel \in RelationshipTypes
        BY <1>2, <2>1 DEF View, Edge
      <3>3. head.node \in Ids /\ head.hops[v.edge.rel] \in Nat
        BY <3>1, <3>2 DEF Entry, HopsTaken
      <3>4. head.hops[v.edge.rel] < request.limits[v.edge.rel] /\ request.limits[v.edge.rel] <= 3
            /\ request.limits[v.edge.rel] \in Nat
        BY <1>2, <2>1, <2>3, <3>2 DEF HasBudget, BudgetInv
      <3>5. Key(v) = <<head.node, v.edge.rel, head.hops[v.edge.rel]>>
        BY DEF Key
      <3> HIDE DEF head
      <3>6. head.hops[v.edge.rel] \in 0 .. 2
        BY <3>3, <3>4
      <3>7. Key(v) \in Ids \X RelationshipTypes \X (0 .. 2)
        BY <3>2, <3>3, <3>5, <3>6
      <3>8. Cardinality(Left') < Cardinality(Left)
        BY <2>3, <3>7, ExpandedLess
      <3> QED
        BY <2>1, <3>8 DEF GoesForward
    <2> QED
      BY <1>2, <2>2, <2>3 DEF Expand
  <1>3. ASSUME Inv, BudgetInv, NextNode PROVE GoesForward
    <2>1. queue # << >> /\ queue \in Seq(Entry) /\ queue' = Tail(queue)
          /\ hop' = hop /\ expanded' = expanded
      BY <1>3 DEF Inv, TypeOK, NextNode
    <2>2. Len(queue') < Len(queue)
      BY <2>1
    <2>3. Left' = Left
      BY <2>1 DEF Left
    <2> QED
      BY <2>1, <2>2, <2>3 DEF GoesForward
  <1>4. Inv /\ BudgetInv /\ [Next]_vars => [GoesForward]_vars
    BY <1>1, <1>2, <1>3 DEF Next
  <1> QED
    BY <1>4, BudgetInit, BudgetStep, SubgraphInvariant, PTL DEF Spec

-----------------------------------------------------------------------------
\* Of the edges of node n with its relationship, v comes first.
Leads(v, n) ==
    /\ v \in Views(n)
    /\ \A w \in Views(n) \ {v} : w.edge.rel = v.edge.rel => Before(v, w)

\* The first edge of node n with relationship r led on: what it connects n to is
\* admitted, unless it is no node of the repository.
Followed(n, r) ==
    \E v \in Views(n) :
        /\ v.edge.rel = r /\ Leads(v, n)
        /\ Other(v) \in all_ids \/ Other(v) \notin graph.nodes

\* Of a walk with budget left for a relationship of the node it has arrived at,
\* the expansion along that relationship has been tried.
Visited(w) ==
    \A v \in Views(w.node) :
        w.hops[v.edge.rel] < request.limits[v.edge.rel]
        => <<w.node, v.edge.rel, w.hops[v.edge.rel]>> \in expanded

\* A walk by which node n was admitted, which for a seed is the one of no hop.
Admits(w, n) == IsWalk(w) /\ w.node = n /\ (n \in seeds => w.hops = NoHops)

\* What get_subgraph_for_intent does guarantee of the nodes it reaches: for every node
\* admitted, and every relationship of which the walk to it has budget left, the first
\* of its edges with that relationship was followed.
FirstsFollowed ==
    ~request.uniform /\ Done =>
        \A n \in all_ids : \E w :
            /\ Admits(w, n)
            /\ \A v \in Views(n) :
                 w.hops[v.edge.rel] < request.limits[v.edge.rel] => Followed(n, v.edge.rel)

\* What is expanded was followed along the first edge; of the node at the head of
\* the queue, the edges already tried are expanded; and every node admitted was
\* expanded or waits in the queue.
FirstsInv ==
    ~request.uniform =>
        /\ \A n, r, d : <<n, r, d>> \in expanded => Followed(n, r)
        /\ queue # << >> =>
             \A v \in Views(Head(queue).node) \ pending : HasBudget(v) => Key(v) \in expanded
        /\ \A n \in all_ids : \E w :
             Admits(w, n) /\ (Visited(w) \/ \E i \in 1 .. Len(queue) : queue[i] = w)

\* The seeds, in any order, are all in the queue.
LEMMA AllInOrder ==
    ASSUME NEW S, IsFiniteSet(S), NEW order \in SetToSeqs(S), NEW s \in S
    PROVE  \E i \in 1 .. Cardinality(S) : order[i] = s
  <1> DEFINE k == Cardinality(S)
             D == 1 .. k
  <1>1. k \in Nat /\ order \in [D -> S] /\ \A i, j \in D : i # j => order[i] # order[j]
    BY FS_CardinalityType DEF SetToSeqs
  <1> SUFFICES ASSUME \A i \in D : order[i] # s PROVE FALSE
    OBVIOUS
  <1>2. order \in [D -> S \ {s}]
    BY <1>1
  <1>3. IsFiniteSet(S \ {s}) /\ Cardinality(S \ {s}) = k - 1
    BY FS_RemoveElement
  <1>4. IsFiniteSet(D) /\ Cardinality(D) = k
    <2>1. IsFiniteSet(1 .. k) /\ Cardinality(1 .. k) = IF 1 > k THEN 0 ELSE k - 1 + 1
      BY <1>1, FS_Interval
    <2> HIDE DEF k
    <2> QED
      BY <1>1, <2>1
  <1> HIDE DEF D, k
  <1>5. \E i, j \in D : i # j /\ order[i] = order[j]
    BY <1>1, <1>2, <1>3, <1>4, FS_PigeonHole
  <1> QED
    BY <1>1, <1>5

LEMMA FirstsInit == Init => FirstsInv
  <1> SUFFICES ASSUME Init, ~request.uniform PROVE FirstsInv
    BY DEF FirstsInv
  <1>1. /\ Inv /\ BudgetInv /\ all_ids = seeds /\ expanded = {}
        /\ pending = IF queue = << >> THEN {} ELSE Views(Head(queue).node)
    BY InitInv, BudgetInit DEF Init
  <1>2. PICK order \in SetToSeqs(all_ids) :
          queue = [j \in 1 .. Len(order) |-> [node |-> order[j], hops |-> NoHops]]
    BY DEF Init
  <1>3. IsFiniteSet(all_ids)
    BY <1>1, RetrievalAssumption, FS_Subset DEF Inv, TypeOK
  <1>4. Cardinality(all_ids) \in Nat /\ order \in [1 .. Cardinality(all_ids) -> all_ids]
    BY <1>2, <1>3, FS_CardinalityType DEF SetToSeqs
  <1>5. Len(order) = Cardinality(all_ids) /\ Len(queue) = Cardinality(all_ids)
    <2>1. order \in Seq(all_ids) /\ Len(order) = Cardinality(all_ids)
      BY <1>4
    <2> QED
      BY <1>2, <2>1
  <1>6. ASSUME NEW n \in all_ids
        PROVE  \E w : Admits(w, n) /\ \E i \in 1 .. Len(queue) : queue[i] = w
    <2>1. PICK i \in 1 .. Len(queue) : order[i] = n
      BY <1>2, <1>3, <1>5, AllInOrder
    <2>2. queue[i] = [node |-> n, hops |-> NoHops]
      BY <1>2, <1>5, <2>1
    <2>3. IsWalk(queue[i])
      BY <1>1, <2>1 DEF BudgetInv
    <2>4. Admits(queue[i], n)
      BY <2>2, <2>3 DEF Admits
    <2> QED
      BY <2>1, <2>4
  <1> QED
    BY <1>1, <1>6 DEF FirstsInv

\* An edge that is expanded, of the edges of its node and its relationship, comes
\* first: another one before it would have been tried with the same key.
LEMMA ExpandedLeads ==
    ASSUME Inv, RelsOrdered, FirstsInv, ~request.uniform,
           NEW v \in pending, Expand(v), HasBudget(v), Key(v) \notin expanded
    PROVE  v \in Views(Head(queue).node) /\ Leads(v, Head(queue).node)
  <1> DEFINE n == Head(queue).node
  <1>1. queue # << >> /\ v \in Views(n)
    BY DEF Inv, TypeOK, PendingAtHead
  <1>2. ASSUME NEW w \in Views(n) \ {v}, w.edge.rel = v.edge.rel PROVE Before(v, w)
    <2>1. CASE w \in pending
      BY <1>2, <2>1 DEF Expand
    <2>2. CASE w \notin pending
      <3>1. HasBudget(w) /\ Key(w) = Key(v)
        BY <1>2 DEF HasBudget, Key
      <3>2. Key(w) \in expanded
        BY <1>1, <1>2, <2>2, <3>1 DEF FirstsInv
      <3> QED
        BY <3>1, <3>2
    <2> QED
      BY <2>1, <2>2
  <1> QED
    BY <1>1, <1>2 DEF Leads

\* Nothing that was followed, visited or admitted is lost.
LEMMA FirstsKept ==
    ASSUME UNCHANGED asked, all_ids \subseteq all_ids', expanded \subseteq expanded'
    PROVE  /\ \A n, r : Followed(n, r) => Followed(n, r)'
           /\ \A w : Visited(w) => Visited(w)'
           /\ \A w, n : Admits(w, n) => Admits(w, n)'
  <1>1. UNCHANGED <<graph, seeds, request>> /\ \A n : Views(n)' = Views(n)
    BY DEF asked, Views
  <1>2. ASSUME NEW n, NEW r, Followed(n, r) PROVE Followed(n, r)'
    BY <1>1, <1>2 DEF Followed, Leads
  <1>3. ASSUME NEW w, Visited(w) PROVE Visited(w)'
    BY <1>1, <1>3 DEF Visited
  <1>4. ASSUME NEW w, NEW n, Admits(w, n) PROVE Admits(w, n)'
    <2>1. IsWalk(w)'
      BY <1>1, <1>4, ReferenceStays DEF Admits, IsWalk
    <2> QED
      BY <1>1, <1>4, <2>1 DEF Admits
  <1> QED
    BY <1>2, <1>3, <1>4

LEMMA ExpandFirsts ==
    ASSUME Inv, BudgetInv, RelsOrdered, FirstsInv, ~request.uniform,
           NEW v \in pending, Expand(v)
    PROVE  FirstsInv'
  <1> DEFINE head  == Head(queue)
             entry == [node |-> Other(v), hops |-> Taken(head.hops, v.edge.rel)]
  <1>1. /\ queue # << >> /\ queue \in Seq(Entry) /\ pending' = pending \ {v}
        /\ UNCHANGED asked /\ UNCHANGED <<graph, seeds, request>> /\ ~request'.uniform
        /\ seeds \subseteq all_ids
    BY DEF Inv, TypeOK, Expand, asked
  <1>2. all_ids \subseteq all_ids' /\ expanded \subseteq expanded'
    BY DEF Expand
  <1>3. BudgetInv'
    BY BudgetStep DEF Next
  <1>4. /\ Len(queue) \in Nat /\ Len(queue') \in Nat /\ Len(queue) <= Len(queue')
        /\ \A i \in 1 .. Len(queue) : queue'[i] = queue[i]
        /\ queue' # << >> /\ Head(queue') = head
        /\ Other(v) \in all_ids' \ all_ids =>
             Len(queue') = Len(queue) + 1 /\ queue'[Len(queue) + 1].node = Other(v)
    <2>1. CASE UNCHANGED queue
      <3>1. all_ids' = all_ids \/ queue' = Append(queue, entry)
        BY DEF Expand
      <3>2. queue # Append(queue, entry)
        <4>1. Len(Append(queue, entry)) = Len(queue) + 1 /\ Len(queue) \in Nat
          BY <1>1
        <4> HIDE DEF entry
        <4> QED
          BY <4>1
      <3> QED
        BY <1>1, <2>1, <3>1, <3>2
    <2>2. CASE queue' = Append(queue, entry)
      <3>1. entry.node = Other(v)
        OBVIOUS
      <3> HIDE DEF entry
      <3> QED
        BY <1>1, <2>2, <3>1
    <2> QED
      BY <2>1, <2>2 DEF Expand
  <1>5. \A n, r, d : <<n, r, d>> \in expanded' => Followed(n, r)'
    <2> SUFFICES ASSUME NEW n, NEW r, NEW d, <<n, r, d>> \in expanded' PROVE Followed(n, r)'
      OBVIOUS
    <2>1. CASE <<n, r, d>> \in expanded
      BY <1>1, <1>2, <2>1, FirstsKept DEF FirstsInv
    <2>2. CASE <<n, r, d>> \notin expanded
      <3>1. /\ HasBudget(v) /\ Key(v) \notin expanded /\ <<n, r, d>> = Key(v)
            /\ Other(v) \in all_ids' \/ Other(v) \notin graph.nodes
        BY <2>2 DEF Expand
      <3>2. n = head.node /\ r = v.edge.rel
        BY <3>1 DEF Key
      <3>3. v \in Views(n) /\ Leads(v, n)
        BY <3>1, <3>2, ExpandedLeads
      <3>4. Views(n)' = Views(n) /\ Leads(v, n)'
        BY <1>1, <3>3 DEF Views, Leads
      <3> QED
        BY <1>1, <3>1, <3>2, <3>3, <3>4 DEF Followed
    <2> QED
      BY <2>1, <2>2
  <1>6. \A w \in Views(head.node)' \ pending' : HasBudget(w)' => Key(w)' \in expanded'
    <2> SUFFICES ASSUME NEW w \in Views(head.node)' \ pending', HasBudget(w)'
                 PROVE  Key(w)' \in expanded'
      OBVIOUS
    <2>1. /\ w \in Views(head.node) /\ HasBudget(w) /\ Key(w)' = Key(w)
      BY <1>1, <1>4 DEF Views, HasBudget, Key
    <2>2. CASE w \in pending
      <3>1. w = v
        BY <1>1, <2>2
      <3> QED
        BY <2>1, <3>1 DEF Expand
    <2>3. CASE w \notin pending
      BY <1>1, <1>2, <2>1, <2>3 DEF FirstsInv
    <2> QED
      BY <2>2, <2>3
  <1>7. ASSUME NEW n \in all_ids'
        PROVE  \E w : Admits(w, n)' /\ (Visited(w)' \/ \E i \in 1 .. Len(queue') : queue'[i] = w)
    <2>1. CASE n \in all_ids
      <3>1. PICK w : Admits(w, n) /\ (Visited(w) \/ \E i \in 1 .. Len(queue) : queue[i] = w)
        BY <2>1 DEF FirstsInv
      <3>2. Admits(w, n)' /\ (Visited(w) => Visited(w)')
        BY <1>1, <1>2, <3>1, FirstsKept
      <3>3. (\E i \in 1 .. Len(queue) : queue[i] = w) => \E i \in 1 .. Len(queue') : queue'[i] = w
        BY <1>4
      <3> QED
        BY <3>1, <3>2, <3>3
    <2>2. CASE n \notin all_ids
      <3>1. n = Other(v)
        BY <2>2 DEF Expand
      <3>2. PICK i \in 1 .. Len(queue') : queue'[i].node = n
        BY <1>4, <2>2, <3>1
      <3>3. PICK w : w = queue'[i]
        OBVIOUS
      <3>4. IsWalk(w)'
        BY <1>1, <1>3, <3>3 DEF BudgetInv
      <3>5. Admits(w, n)'
        BY <1>1, <2>2, <3>2, <3>3, <3>4 DEF Admits
      <3> QED
        BY <3>3, <3>5
    <2> QED
      BY <2>1, <2>2
  <1>8. queue' # << >> => \A w \in Views(Head(queue).node)' \ pending' :
                            HasBudget(w)' => Key(w)' \in expanded'
    BY <1>6
  <1> HIDE DEF head, entry
  <1> QED
    BY <1>5, <1>7, <1>8 DEF FirstsInv

LEMMA NextNodeFirsts ==
    ASSUME Inv, FirstsInv, ~request.uniform, NextNode
    PROVE  FirstsInv'
  <1>1. /\ queue # << >> /\ queue \in Seq(Entry) /\ queue' = Tail(queue) /\ pending = {}
        /\ pending' = IF queue' = << >> THEN {} ELSE Views(Head(queue').node)
        /\ UNCHANGED asked /\ UNCHANGED <<graph, seeds, request, all_ids, expanded>>
        /\ ~request'.uniform
    BY DEF Inv, TypeOK, NextNode, asked
  <1>2. /\ Len(queue) \in Nat /\ Len(queue') = Len(queue) - 1 /\ queue[1] = Head(queue)
        /\ \A i \in 1 .. Len(queue) : i = 1 \/ (i - 1 \in 1 .. Len(queue') /\ queue'[i - 1] = queue[i])
    BY <1>1
  <1>3. Visited(Head(queue))
    BY <1>1 DEF FirstsInv, Visited, HasBudget, Key
  <1>4. \A n, r, d : <<n, r, d>> \in expanded' => Followed(n, r)'
    BY <1>1, FirstsKept DEF FirstsInv
  <1>5. \A n : Views(n)' = Views(n)
    BY <1>1 DEF Views
  <1>6. ASSUME NEW n \in all_ids'
        PROVE  \E w : Admits(w, n)' /\ (Visited(w)' \/ \E i \in 1 .. Len(queue') : queue'[i] = w)
    <2>1. PICK w : Admits(w, n) /\ (Visited(w) \/ \E i \in 1 .. Len(queue) : queue[i] = w)
      BY <1>1, <1>6 DEF FirstsInv
    <2>2. Admits(w, n)' /\ (Visited(w) => Visited(w)')
      BY <1>1, <2>1, FirstsKept
    <2>3. CASE Visited(w)
      BY <2>2, <2>3
    <2>4. CASE \E i \in 1 .. Len(queue) : queue[i] = w
      <3>1. PICK i \in 1 .. Len(queue) : queue[i] = w
        BY <2>4
      <3>2. CASE i = 1
        <4>1. w = Head(queue)
          BY <1>2, <3>1, <3>2
        <4> QED
          BY <1>3, <2>2, <4>1
      <3>3. CASE i # 1
        BY <1>2, <2>2, <3>1, <3>3
      <3> QED
        BY <3>2, <3>3
    <2> QED
      BY <2>1, <2>3, <2>4
  <1> QED
    BY <1>1, <1>4, <1>5, <1>6 DEF FirstsInv

LEMMA FirstsStep == Inv /\ BudgetInv /\ RelsOrdered /\ FirstsInv /\ [Next]_vars => FirstsInv'
  <1> SUFFICES ASSUME Inv, BudgetInv, RelsOrdered, FirstsInv, [Next]_vars PROVE FirstsInv'
    OBVIOUS
  <1>1. UNCHANGED request
    BY DEF Next, Hop, Expand, NextNode, vars, asked
  <1>2. CASE request.uniform
    BY <1>1, <1>2 DEF FirstsInv
  <1>3. CASE UNCHANGED vars
    <2>1. UNCHANGED asked /\ UNCHANGED <<graph, seeds, request, all_ids, queue, pending, expanded>>
      BY <1>3 DEF vars, asked
    <2>2. \A n : Views(n)' = Views(n)
      BY <2>1 DEF Views
    <2>3. \A v : (HasBudget(v)' <=> HasBudget(v)) /\ Key(v)' = Key(v)
      BY <2>1 DEF HasBudget, Key
    <2>4. /\ \A n, r : Followed(n, r) => Followed(n, r)'
          /\ \A w : Visited(w) => Visited(w)'
          /\ \A w, n : Admits(w, n) => Admits(w, n)'
      BY <2>1, FirstsKept
    <2> QED
      BY <2>1, <2>2, <2>3, <2>4 DEF FirstsInv
  <1> QED
    BY <1>2, <1>3, ExpandFirsts, NextNodeFirsts DEF Next, Hop

\* "Self-contained subgraph with all reachable nodes" (code_retriever.py:628) is more
\* than the code does: it marks a node, a relationship and a depth as expanded on the
\* first edge it tries (code_retriever.py:679-682, 704-707). This is what it does: the
\* first of those edges is always followed, whatever the cycles of the graph.
THEOREM FirstEdgesAreFollowed == Spec => []FirstsFollowed
  <1>1. ASSUME FirstsInv, ~request.uniform, Done, NEW n \in all_ids
        PROVE  \E w : /\ Admits(w, n)
                      /\ \A v \in Views(n) : w.hops[v.edge.rel] < request.limits[v.edge.rel]
                           => Followed(n, v.edge.rel)
    <2>1. Len(queue) = 0
      BY <1>1 DEF Done
    <2>2. PICK w : Admits(w, n) /\ (Visited(w) \/ \E i \in 1 .. Len(queue) : queue[i] = w)
      BY <1>1 DEF FirstsInv
    <2>3. Visited(w) /\ w.node = n
      BY <2>1, <2>2 DEF Admits
    <2>4. ASSUME NEW v \in Views(n), w.hops[v.edge.rel] < request.limits[v.edge.rel]
          PROVE  Followed(n, v.edge.rel)
      BY <1>1, <2>3, <2>4 DEF Visited, FirstsInv
    <2> QED
      BY <2>2, <2>4
  <1>2. FirstsInv => FirstsFollowed
    BY <1>1 DEF FirstsFollowed
  <1> QED
    BY <1>2, BudgetInit, BudgetStep, OrderedInit, OrderedStep, FirstsInit, FirstsStep,
       SubgraphInvariant, PTL DEF Spec

=============================================================================
