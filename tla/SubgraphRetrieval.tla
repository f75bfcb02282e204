------------------------- MODULE SubgraphRetrieval -------------------------
(***************************************************************************)
(* The expansion of the nodes that match a question into the subgraph that *)
(* becomes the context of its answer: get_subgraph and                     *)
(* get_subgraph_for_intent of backend/app/retrievers/code_retriever.py, as *)
(* ContextBuilder.build calls them.                                        *)
(*                                                                         *)
(* The graph is any graph GraphBuilder may produce: its edges may name     *)
(* symbols outside the repository, which are no nodes (decorators of a     *)
(* library, calls of a bare method name), and come sorted by source,       *)
(* target and relationship, the order in which the expansion tries them.   *)
(***************************************************************************)
EXTENDS ContextPolicy, Sequences, SequencesExt

CONSTANTS
    Ids,            \* names, as numbers in their order
    External,       \* the names that are no nodes
    EdgeTypes,      \* the relationships of the edges, in their order
    EdgeSets,       \* the edges a graph may have
    TopK,           \* bound on the nodes that match a question
    Questions       \* what may be asked: sets of intents, each with a max_hops

Edge == [source : Ids, target : Ids, rel : RelationshipTypes]

ASSUME RetrievalAssumption ==
    /\ Ids \subseteq Int /\ IsFiniteSet(Ids) /\ External \subseteq Ids
    /\ EdgeTypes \in Seq(RelationshipTypes)
    /\ EdgeSets \subseteq SUBSET Edge /\ TopK \in Nat
    /\ \A edges \in EdgeSets : \A e \in edges : e.rel \in ToSet(EdgeTypes)
    /\ Questions \subseteq [intents : SUBSET IntentCategory, max_hops : 0 .. 3]

VARIABLES
    graph,     \* the nodes and the edges
    seeds,     \* the nodes that matched the question
    request,   \* the kind of expansion and its budgets
    all_ids,   \* the nodes admitted to the subgraph
    frontier,  \* uniform: the nodes of the next hop
    hop,       \* uniform: the number of hops taken
    queue,     \* by intent: the nodes to expand, with the hops that led there
    pending,   \* by intent: the edges of the first of them still to try
    expanded   \* by intent: the (node, relationship, depth) expanded

vars == <<graph, seeds, request, all_ids, frontier, hop, queue, pending, expanded>>

asked == <<graph, seeds, request>>

\* An edge as seen from one end of it: the edges a node has out come before
\* those it has in.
View == [out : BOOLEAN, edge : Edge]

HopsTaken == [RelationshipTypes -> Nat]

NoHops == [r \in RelationshipTypes |-> 0]

Entry == [node : Ids, hops : HopsTaken]

Request == [uniform : BOOLEAN, max_hops : Nat, limits : [RelationshipTypes -> Nat]]

TypeOK ==
    /\ graph \in [nodes : SUBSET Ids, edges : SUBSET Edge]
    /\ request \in Request
    /\ seeds \subseteq all_ids /\ all_ids \subseteq graph.nodes
    /\ frontier \subseteq all_ids
    /\ hop \in 0 .. request.max_hops
    /\ queue \in Seq(Entry)
    /\ \A i \in 1 .. Len(queue) :
         queue[i].node \in all_ids /\
         \A r \in RelationshipTypes : queue[i].hops[r] <= request.limits[r]
    /\ pending \subseteq View /\ (pending # {} => queue # << >>)
    /\ expanded \subseteq Ids \X RelationshipTypes \X Nat

-----------------------------------------------------------------------------
Rank(rel) == CHOOSE i \in 1 .. Len(EdgeTypes) : EdgeTypes[i] = rel

\* The order of the adjacency lists.
Before(v, w) ==
    LET e == v.edge
        f == w.edge
    IN  \/ v.out /\ ~w.out
        \/ /\ v.out = w.out
           /\ \/ e.source < f.source
              \/ e.source = f.source /\ e.target < f.target
              \/ /\ e.source = f.source /\ e.target = f.target
                 /\ Rank(e.rel) < Rank(f.rel)

\* The ends of an edge a node is connected to.
Views(n) ==
    {[out |-> TRUE, edge |-> e] : e \in {e \in graph.edges : e.source = n}}
    \cup {[out |-> FALSE, edge |-> e] : e \in {e \in graph.edges : e.target = n}}

Other(v) == IF v.out THEN v.edge.target ELSE v.edge.source

OutNeighbours(n) == {e.target : e \in {e \in graph.edges : e.source = n}}

Neighbours(n) == {Other(v) : v \in Views(n)}

-----------------------------------------------------------------------------
\* The nodes that GraphBuilder keeps: those with an edge.
Connected(edges) == {e.source : e \in edges} \cup {e.target : e \in edges}

Init ==
    /\ \E edges \in EdgeSets :
         graph = [nodes |-> Connected(edges) \ External, edges |-> edges]
    /\ seeds \in {s \in SUBSET graph.nodes : Cardinality(s) <= TopK}
    /\ \E q \in Questions :
         request = [uniform  |-> IsUniform(q.intents), max_hops |-> q.max_hops,
                    limits   |-> ScaledLimits(q.intents, q.max_hops)]
    /\ all_ids = seeds
    /\ IF request.uniform
       THEN frontier = all_ids /\ queue = << >>
       ELSE /\ frontier = {}
            /\ \E nodes \in SetToSeqs(all_ids) :
                 queue = [i \in 1 .. Len(nodes) |-> [node |-> nodes[i], hops |-> NoHops]]
    /\ hop = 0
    /\ pending = IF queue = << >> THEN {} ELSE Views(Head(queue).node)
    /\ expanded = {}

-----------------------------------------------------------------------------
\* get_subgraph: one round of the loop over max_hops.
HopStays(h) == h

HopTaken(h) == h + 1

Hop ==
    /\ request.uniform /\ hop < request.max_hops
    /\ hop' = HopTaken(hop)
    /\ frontier' = ((UNION {Neighbours(n) : n \in frontier}) \cap graph.nodes) \ all_ids
    /\ all_ids' = all_ids \cup frontier'
    /\ UNCHANGED <<asked, queue, pending, expanded>>

\* get_subgraph_for_intent: the next edge of the node at the head of the queue.
Key(v) ==
    LET h == Head(queue) IN <<h.node, v.edge.rel, h.hops[v.edge.rel]>>

HasBudgetOffByOne(v) ==
    Head(queue).hops[v.edge.rel] <= request.limits[v.edge.rel]

HasBudget(v) == Head(queue).hops[v.edge.rel] < request.limits[v.edge.rel]

Forgotten(hops, rel) == hops

Taken(hops, rel) == [hops EXCEPT ![rel] = @ + 1]

Expand(v) ==
    /\ v \in pending /\ \A w \in pending \ {v} : Before(v, w)
    /\ pending' = pending \ {v}
    /\ IF HasBudget(v) /\ Key(v) \notin expanded
       THEN /\ expanded' = expanded \cup {Key(v)}
            /\ IF Other(v) \in graph.nodes
               THEN /\ all_ids' = all_ids \cup {Other(v)}
                    /\ queue' = Append(queue, [node |-> Other(v),
                                               hops |-> Taken(Head(queue).hops, v.edge.rel)])
               ELSE UNCHANGED <<all_ids, queue>>
       ELSE UNCHANGED <<expanded, all_ids, queue>>
    /\ UNCHANGED <<asked, frontier, hop>>

\* The node at the head has no edge left: the next one.
NextNode ==
    /\ queue # << >> /\ pending = {}
    /\ queue' = Tail(queue)
    /\ pending' = IF queue' = << >> THEN {} ELSE Views(Head(queue').node)
    /\ UNCHANGED <<asked, all_ids, frontier, hop, expanded>>

Done ==
    IF request.uniform THEN hop = request.max_hops ELSE queue = << >>

Next == Hop \/ (\E v \in pending : Expand(v)) \/ NextNode

Spec == Init /\ [][Next]_vars

\* The expansion is a loop: it goes on.
FairSpec == Spec /\ WF_vars(Next)

-----------------------------------------------------------------------------
Joins(e, m, n) == {e.source, e.target} = {m, n}

\* The nodes within h edges of a seed, in either direction.
NodesWithin[h \in Nat] ==
    IF h = 0 THEN seeds
    ELSE LET near == NodesWithin[h - 1]
         IN  near \cup {n \in graph.nodes : \E m \in near, e \in graph.edges : Joins(e, m, n)}

\* get_subgraph returns the nodes within max_hops of a seed, all of them and
\* no other.
UniformIsExact ==
    request.uniform /\ Done => all_ids = NodesWithin[request.max_hops]

\* The walks from a seed that stay within the budgets: the node reached and
\* the hops along every relationship.
Step(w) ==
    UNION {{[node |-> n, hops |-> [w.hops EXCEPT ![e.rel] = @ + 1]] :
              n \in {n \in graph.nodes : Joins(e, w.node, n)}} :
           e \in {e \in graph.edges : w.hops[e.rel] < request.limits[e.rel]}}

WalksOf[length \in Nat] ==
    IF length = 0 THEN {[node |-> n, hops |-> NoHops] : n \in seeds}
    ELSE UNION {Step(w) : w \in WalksOf[length - 1]}

\* No walk is longer than the budgets of the relationships together, 3 at most.
Longest == 3 * Cardinality(RelationshipTypes)

NodesInBudget == {w.node : w \in UNION {WalksOf[n] : n \in 0 .. Longest}}

\* Every node of a subgraph by intent is connected to a seed by a walk that
\* takes, of every relationship, no more hops than its budget: cycles, edges
\* back, and nodes reached on several ways add nothing.
AdmittedInBudget ==
    ~request.uniform /\ Done => all_ids \subseteq NodesInBudget

\* The documentation of get_subgraph_for_intent: "Self-contained subgraph with
\* all reachable nodes and the edges connecting them" (code_retriever.py:628).
AllReachableNodes ==
    ~request.uniform /\ Done => NodesInBudget \subseteq all_ids

\* The expansion of a graph with cycles ends.
ExpansionEnds == <>Done

=============================================================================
