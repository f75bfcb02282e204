-------------------------- MODULE RepositoryPipeline --------------------------
(***************************************************************************)
(* From the files of a repository to the nodes a question is answered      *)
(* with: the graph is built (GraphBuilder), the question is resolved in it *)
(* (QueryResolver), and ContextBuilder.build completes the matches of a    *)
(* question about the whole.  One request; see AnswerService for the rest. *)
(***************************************************************************)
EXTENDS NodeContext, QueryResolver

CONSTANTS
    Questions,        \* what may be asked
    MaxTopK,          \* bound on top_k of a request
    PathPriority      \* path -> _path_priority of the file

ASSUME PipelineAssumption ==
    /\ Questions \subseteq Seq(Texts) /\ MaxTopK \in Nat
    /\ \A r \in Repositories : \A f \in ToSet(r.sources) : PathPriority[f.path] \in Nat

VARIABLES
    resolver,    \* what the QueryResolver of the graph computed when it was made
    query,       \* the question and what is known of it
    ranked,      \* all the candidates, best first
    top_k,       \* how many nodes are wanted
    matches,     \* the nodes resolved, best first
    step         \* of the request: "none", "ready", "asked", "resolved", "seeded"

askVars == <<resolver, query, ranked, top_k, matches, step>>

vars == <<graphVars, askVars>>

Graph == [nodes |-> nodes, edges |-> edges]

PipelineInit ==
    /\ Init
    /\ resolver = Indexed([nodes |-> {}, edges |-> {}])
    /\ query = Query(<< >>, "unknown") /\ top_k = 0
    /\ ranked = << >> /\ matches = << >> /\ step = "none"

Build == BuildNext /\ UNCHANGED askVars

MakeResolver ==
    /\ pc = "done" /\ step = "none" /\ files.asked
    /\ resolver' = Indexed(Graph)
    /\ step' = "ready"
    /\ UNCHANGED <<graphVars, query, ranked, top_k, matches>>

\* resolve_query up to the ranking: the keywords and the intent of a question.
Queries ==
    UNION {{Query(question, first) : first \in PrimaryChoices(question)} : question \in Questions}

Ask ==
    /\ step = "ready" /\ step' = "asked"
    /\ query' \in Queries
    /\ UNCHANGED <<graphVars, resolver, ranked, top_k, matches>>

\* The ranking, and of it the top_k the request wants.
Resolve ==
    /\ step = "asked" /\ step' = "resolved"
    /\ ranked' = RankCandidates(resolver, query)
    /\ top_k' \in 1 .. MaxTopK
    /\ matches' = TopK(ranked', top_k')
    /\ UNCHANGED <<graphVars, resolver, query>>

-----------------------------------------------------------------------------
\* _augment_with_structural_nodes: files before modules before classes, then by
\* the path, the degree and the id.
Structural(n) == n.type \in {"File", "Module", "Class"} /\ resolver.degree[n] > 0

TypePriority(n) == CASE n.type = "File" -> 0 [] n.type = "Module" -> 1 [] n.type = "Class" -> 2

\* The dotted id of a module matches no pattern of a path.
PathRank(n) == IF n.type = "Module" THEN 5 ELSE PathPriority[n.origin]

StructuralBefore(n, o) ==
    LET key(x) == <<TypePriority(x), PathRank(x), 0 - resolver.degree[x]>>
    IN  \/ \E i \in 1 .. 3 : key(n)[i] < key(o)[i] /\ \A j \in 1 .. i - 1 : key(n)[j] = key(o)[j]
        \/ key(n) = key(o) /\ IdBefore(n.id, o.id)

MayBeSeededAgain == {n \in nodes : Structural(n)}

MayBeSeeded == {n \in nodes : Structural(n)} \ ToSet(matches)

NeedsStructure == query.primary = "overview" /\ Len(matches) < top_k

Seeds == matches \o Sorted(MayBeSeeded, StructuralBefore)

Augment ==
    /\ step = "resolved" /\ step' = "seeded"
    /\ matches' = IF NeedsStructure THEN TopK(Seeds, top_k) ELSE matches
    /\ UNCHANGED <<graphVars, resolver, query, ranked, top_k>>

Next == Build \/ MakeResolver \/ Ask \/ Resolve \/ Augment

Spec == PipelineInit /\ [][Next]_vars

-----------------------------------------------------------------------------
(* Properties of the answer *)

Position(n) == CHOOSE i \in DOMAIN ranked : ranked[i] = n

Outranks(n, o) == Position(n) < Position(o)

\* A callable the question has no reason to push down - a decorator may mark it as
\* one of data (@model_validator) - and a container of data that it does not name.
Implements(n) ==
    Callable(n) /\ n \notin resolver.dtos /\ Label(n) \notin Dunder /\ ~PrivatePenalised(n)

HoldsData(n) == n \in resolver.dtos /\ ~Callable(n) /\ ~EntityMentioned(n, query)

AsksHow ==
    /\ query.categories \cap IMPLEMENTATION_INTENTS # {}
    /\ query.categories \cap CALLABLE_SUPREMACY_INTENTS # {}
    /\ ~DefinitionQuery(query)

\* What is said where the weights are chosen: asked how something is done, a callable
\* comes before a container of data that matches the question no better, however many
\* edges the container has, whatever types the intent prefers and whatever verbs are
\* in its name.  A phrase of the question is more than these weights outweigh.
ImplementationBeatsData ==
    step = "resolved" /\ AsksHow =>
      \A n \in ToSet(ranked), o \in ToSet(ranked) :
        /\ Implements(n) /\ HoldsData(o)
        /\ BaseHits(n, query) = BaseHits(o, query)
        /\ FirstPass(n, query) >= FirstPass(o, query)
        /\ PhrasePoints(n, query) >= PhrasePoints(o, query)
        => Outranks(n, o)

\* Asked for by its name alone, a class or a function comes before whatever else the
\* words in that name find.
NamedIsFound ==
    step = "resolved" /\ Len(query.question) = 1 =>
      \A n \in ToSet(ranked), o \in ToSet(ranked) :
        n.type \in {"Class", "Function"} /\ EntityMentioned(n, query) /\ ~EntityMentioned(o, query)
        => Outranks(n, o)

\* For an overview the nodes the question found stay in front, in their order; what
\* is added is structure, each node once, and none is left out while there is room.
OverviewKeepsMatches ==
    step = "seeded" =>
      /\ IsPrefix(TopK(ranked, top_k), matches)
      /\ Len(matches) <= top_k
      /\ Cardinality(ToSet(matches)) = Len(matches)
      /\ ToSet(matches) \subseteq nodes
      /\ query.primary = "overview" =>
           \/ Len(matches) = top_k
           \/ \A n \in nodes : n.type \in {"File", "Module", "Class"} => n \in ToSet(matches)
=============================================================================
