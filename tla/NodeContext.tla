----------------------------- MODULE NodeContext -----------------------------
(***************************************************************************)
(* What the rest of the service is told of one node of a finished graph:   *)
(* get_node_context, get_class_context and get_callable_context of         *)
(* backend/app/retrievers/code_retriever.py.  ContextBuilder asks for it   *)
(* for every match of a question, SemanticIndex.build for every node.      *)
(* A list of nodes is the set of them; its order is that of the edges,     *)
(* which matters only where the first of a list is taken.                  *)
(***************************************************************************)
EXTENDS GraphBuilder, IdOrder

\* The two adjacency indices.
OutEdges(id) == {e \in edges : e.source = id}

InEdges(id) == {e \in edges : e.target = id}

\* The nodes a relation leads to and comes from; an end that is no node is dropped.
Targets(id, rel) == {n \in nodes : \E e \in OutEdges(id) : e.rel = rel /\ e.target = n.id}

\* Mutant of Sources: the index of the outgoing edges.
SourcesOut(id, rel) == {n \in nodes : \E e \in OutEdges(id) : e.rel = rel /\ e.target = n.id}

Sources(id, rel) == {n \in nodes : \E e \in InEdges(id) : e.rel = rel /\ e.source = n.id}

OfType(ns, type) == {n \in ns : n.type = type}

\* The node the first edge joins: the edges are sorted by their ends.  At most one.
FirstOf(ns) == {n \in ns : \A o \in ns \ {n} : IdBefore(n.id, o.id)}

CollectNeighbours(id) ==
    {n \in nodes : n.id \in {e.target : e \in OutEdges(id)} \cup {e.source : e \in InEdges(id)}}

NodeContext(n) ==
    [outgoing |-> OutEdges(n.id), incoming |-> InEdges(n.id), neighbours |-> CollectNeighbours(n.id)]

ClassContext(n) ==
    [methods         |-> OfType(Targets(n.id, "contains"), "Method"),
     file            |-> FirstOf(OfType(Sources(n.id, "contains"), "File")),
     parent_classes  |-> Targets(n.id, "inherits"),
     child_classes   |-> Sources(n.id, "inherits"),
     instantiates    |-> Targets(n.id, "instantiates"),
     instantiated_by |-> Sources(n.id, "instantiates"),
     decorators      |-> {e.source : e \in {e \in InEdges(n.id) : e.rel = "decorates"}}]

CallableContext(n) ==
    [callers       |-> Sources(n.id, "calls"),
     callees       |-> Targets(n.id, "calls"),
     owning_class  |-> IF n.type = "Method" THEN FirstOf(OfType(Sources(n.id, "contains"), "Class"))
                       ELSE {},
     overrides     |-> FirstOf(Targets(n.id, "overrides")),
     overridden_by |-> Sources(n.id, "overrides")]

-----------------------------------------------------------------------------
(* Properties *)

\* A callable of the repository: its id, and what its body calls.
Callables ==
    {[id |-> FunctionId(f.name), calls |-> f.calls] : f \in OwnFunctions}
    \cup UNION {{[id |-> MethodId(c.name, m.name), calls |-> m.calls] : m \in c.methods}
                  : c \in OwnClasses}

\* The callables whose body names a class or a function.
Naming(name) == {d.id : d \in {d \in Callables : name \in d.calls}}

Definitions(name) == {c \in OwnClasses : c.name = name}

Bases(name) == (UNION {c.inherits_from : c \in Definitions(name)}) \cap ClassNames

\* The definitions of a class that hold a method: each overrides what its own bases define.
Definers(class, method) == {c \in Definitions(class) : \E m \in c.methods : m.name = method}

\* What a class is said to be: all its definitions in the repository together.
ClassIsTheSource(n) ==
    LET name == Head(n.id)
        c    == ClassContext(n)
    IN  /\ Ids(c.methods) = UNION {{MethodId(name, m.name) : m \in d.methods} : d \in Definitions(name)}
        /\ \E f \in c.file : \E g \in ToSet(parsed) : g.file_path = f.id /\ g.classes \cap Definitions(name) # {}
        /\ Ids(c.parent_classes) = {ClassId(b) : b \in Bases(name)}
        /\ Ids(c.child_classes) = {ClassId(d.name) : d \in {d \in OwnClasses : name \in d.inherits_from}}
        /\ c.instantiates = {} /\ Ids(c.instantiated_by) = Naming(name)
        /\ c.decorators = UNION {d.decorators : d \in Definitions(name)}

\* And of a function or a method: nobody is told to call a method.
CallableIsTheSource(n) ==
    LET c == CallableContext(n)
        callees == (UNION {d.calls : d \in {d \in Callables : d.id = n.id}}) \cap FunctionNames
        parents == IF n.type # "Method" THEN {}
                   ELSE {b \in UNION {d.inherits_from : d \in Definers(n.id[1], n.id[2])} :
                           MethodId(b, n.id[2]) \in Own({})}
    IN  /\ Ids(c.callers) = IF n.type = "Function" THEN Naming(n.id[1]) ELSE {}
        /\ Ids(c.callees) = {FunctionId(f) : f \in callees}
        /\ Ids(c.owning_class) = IF n.type = "Method" THEN {ClassId(n.id[1])} ELSE {}
        /\ Cardinality(c.overrides) = IF parents = {} THEN 0 ELSE 1
        /\ Ids(c.overrides) \subseteq {MethodId(b, n.id[2]) : b \in parents}
        /\ Ids(c.overridden_by) =
             {MethodId(d.name, Last(n.id)) : d \in {d \in OwnClasses :
                n.type = "Method" /\ n.id[1] \in d.inherits_from
                /\ \E m \in d.methods : m.name = n.id[2]}}

\* As long as no two things have one id, the context of a class, a function or a method
\* is what the source files say of it, in whichever order they were parsed and whatever
\* was pruned: its members, bases, subclasses, overrides, callers and callees, all of
\* them and nothing else.
ContextTellsTheSource ==
    pc = "done" /\ ~Clash =>
      \A n \in nodes :
        /\ n.type = "Class" => ClassIsTheSource(n)
        /\ n.type \in {"Function", "Method"} => CallableIsTheSource(n)
=============================================================================
