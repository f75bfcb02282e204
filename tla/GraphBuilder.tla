---------------------------- MODULE GraphBuilder ----------------------------
(***************************************************************************)
(* The construction of the knowledge graph of a repository,                *)
(* GraphBuilder.build_graph of backend/app/graph/graph_builder.py, from    *)
(* its source files (Parsers): the registry of the names the repository    *)
(* defines, then file by file the nodes and the edges, then the pruning of *)
(* the nodes without edges; and the views and statistics of the graph.     *)
(*                                                                         *)
(* The id of a node is the sequence of the names its dots (of a path: its  *)
(* slashes) separate, so the class A, a module A and a decorator A have    *)
(* one id, as in the code.                                                 *)
(***************************************************************************)
EXTENDS Parsers

CONSTANTS
    Repositories,   \* the sequences of source files that may be parsed
    Excluded,       \* the names that never become nodes: _EXCLUDED_SYMBOLS
    Stdlib,         \* the top-level names of the standard library
    Internal        \* the packages at the root of the repository

ASSUME GraphBuilderAssumption ==
    /\ Excluded \subseteq Names /\ Stdlib \subseteq Names /\ Internal \subseteq Names
    /\ \A r \in Repositories : r.sources \in Seq(SourceFiles)

\* Of finitely many names the repositories have finitely many files, each of finitely
\* many declarations.
ASSUME FiniteAssumption ==
    /\ IsFiniteSet(Names)
    /\ \A r \in Repositories : \A f \in ToSet(r.sources) :
         /\ IsFiniteSet(f.tree) /\ IsFiniteSet(f.imports)
         /\ \A d \in f.tree : IsFiniteSet(d.decorators)

VARIABLES
    files,      \* the repository: its source files, and whether tree-sitter is there
    pc,         \* the pass: "parse", "register", "emit", "prune", "done"
    parsed,     \* the parsed files
    next,       \* the file whose turn it is: of the sources, then of the parsed
    registry,   \* the names the repository defines
    nodes,      \* the nodes emitted, at most one of an id
    edges       \* the edges emitted

graphVars == <<files, pc, parsed, next, registry, nodes, edges>>

NodeType == {"File", "Module", "Class", "Function", "Method"}

Node(id, type, origin) == [id |-> id, type |-> type, origin |-> origin]

Edge(source, target, rel) == [source |-> source, target |-> target, rel |-> rel]

FileId(path) == path

ModuleId(module) == module

ClassId(name) == <<name>>

FunctionId(name) == <<name>>

MethodId(class, name) == <<class, name>>

ModuleOrigin(module) ==
    IF Head(module) \in Stdlib THEN "stdlib"
    ELSE IF Head(module) \in Internal THEN "internal"
    ELSE "third_party"

-----------------------------------------------------------------------------
(* Pass 1: _SymbolRegistry *)

NoSymbols == [classes |-> {}, functions |-> {}, methods |-> {}]

KnownAll(set) == set

\* _EXCLUDED_SYMBOLS: builtins and the plumbing of frameworks.
MayBeSymbol(name) == name \notin Excluded

Known(set) == {d \in set : MayBeSymbol(d.name)}

RegisteredAnew(reg, file) ==
    [classes   |-> {c.name : c \in Known(file.classes)},
     functions |-> {f.name : f \in Known(file.functions)},
     methods   |-> UNION {{<<c.name, m.name>> : m \in c.methods} : c \in Known(file.classes)}]

Registered(reg, file) ==
    [classes   |-> reg.classes \cup {c.name : c \in Known(file.classes)},
     functions |-> reg.functions \cup {f.name : f \in Known(file.functions)},
     methods   |-> reg.methods
                   \cup UNION {{<<c.name, m.name>> : m \in c.methods} : c \in Known(file.classes)}]

IsRepoMethod(reg, name) == \E cm \in reg.methods : cm[2] = name

ParentDefinesMethod(reg, parent, name) ==
    parent \in reg.classes /\ <<parent, name>> \in reg.methods

-----------------------------------------------------------------------------
(* Pass 2: what one file adds *)

Decorates(d, id) == {Edge(ref, id, "decorates") : ref \in d.decorators}

ImportEdges(file) ==
    {Edge(FileId(file.file_path), ModuleId(module), "imports") : module \in file.imports}

InheritsEdges(reg, c) ==
    {Edge(ClassId(c.name), ClassId(parent), "inherits")
       : parent \in c.inherits_from \cap reg.classes}

OverridesEdges(reg, c, m) ==
    {Edge(MethodId(c.name, m.name), MethodId(parent, m.name), "overrides")
       : parent \in {p \in c.inherits_from : ParentDefinesMethod(reg, p, m.name)}}

\* A name that is a class is instantiated, also when it is a function too.
ResolvedCalls(reg, calls, id) ==
    {Edge(id, ClassId(name), "instantiates") : name \in calls \cap reg.classes}
    \cup {Edge(id, FunctionId(name), "calls")
            : name \in (calls \cap reg.functions) \ reg.classes}

\* A method that calls a bare name that only methods bear gets an edge to that
\* name, which is the id of nothing; a function gets none.
BareCalls(reg, calls, id) ==
    {Edge(id, <<name>>, "calls")
       : name \in {n \in calls : n \notin reg.classes \cup reg.functions /\ IsRepoMethod(reg, n)}}

MethodEdges(reg, c, m) ==
    LET id == MethodId(c.name, m.name)
    IN  {Edge(ClassId(c.name), id, "contains")} \cup OverridesEdges(reg, c, m)
        \cup Decorates(m, id) \cup ResolvedCalls(reg, m.calls, id) \cup BareCalls(reg, m.calls, id)

ClassEdges(reg, file, c) ==
    {Edge(FileId(file.file_path), ClassId(c.name), "contains")}
    \cup InheritsEdges(reg, c) \cup Decorates(c, ClassId(c.name))
    \cup UNION {MethodEdges(reg, c, m) : m \in c.methods}

FunctionEdges(reg, file, f) ==
    {Edge(FileId(file.file_path), FunctionId(f.name), "contains")}
    \cup Decorates(f, FunctionId(f.name)) \cup ResolvedCalls(reg, f.calls, FunctionId(f.name))

\* The guards is_repo_class and is_repo_function.
RepoClasses(reg, file) == {c \in file.classes : c.name \in reg.classes}

RepoFunctions(reg, file) == {f \in file.functions : f.name \in reg.functions}

EmittedEdges(reg, file) ==
    ImportEdges(file)
    \cup (UNION {ClassEdges(reg, file, c) : c \in RepoClasses(reg, file)})
    \cup UNION {FunctionEdges(reg, file, f) : f \in RepoFunctions(reg, file)}

AddNodesAnyway(known, new) == known \cup new

\* add_node: of the nodes of one id the first stays.
AddNodes(known, new) == known \cup {n \in new : \A k \in known : k.id # n.id}

ModuleNodes(file) == {Node(ModuleId(m), "Module", ModuleOrigin(m)) : m \in file.imports}

ClassNodes(reg, file) ==
    UNION {{Node(ClassId(c.name), "Class", file.file_path)}
           \cup {Node(MethodId(c.name, m.name), "Method", file.file_path) : m \in c.methods}
             : c \in RepoClasses(reg, file)}

FunctionNodes(reg, file) ==
    {Node(FunctionId(f.name), "Function", file.file_path) : f \in RepoFunctions(reg, file)}

EmittedNodes(known, reg, file) ==
    LET files_ == AddNodes(known, {Node(FileId(file.file_path), "File", file.file_path)})
        modules == AddNodes(files_, ModuleNodes(file))
        classes == AddNodes(modules, ClassNodes(reg, file))
    IN  AddNodes(classes, FunctionNodes(reg, file))

-----------------------------------------------------------------------------
Init ==
    /\ files \in Repositories
    /\ pc = "parse" /\ parsed = << >> /\ next = 1
    /\ registry = NoSymbols /\ nodes = {} /\ edges = {}

Parse ==
    /\ pc = "parse" /\ next <= Len(files.sources)
    /\ parsed' = parsed \o Visit(files.sources, files.tree_sitter, files.sources[next])
    /\ next' = next + 1
    /\ UNCHANGED <<files, pc, registry, nodes, edges>>

StartRegistration ==
    /\ pc = "parse" /\ next > Len(files.sources)
    /\ pc' = "register" /\ next' = 1
    /\ UNCHANGED <<files, parsed, registry, nodes, edges>>

Register ==
    /\ pc = "register" /\ next <= Len(parsed)
    /\ registry' = Registered(registry, parsed[next])
    /\ next' = next + 1
    /\ UNCHANGED <<files, pc, parsed, nodes, edges>>

StartEmission ==
    /\ pc = "register" /\ next > Len(parsed)
    /\ pc' = "emit" /\ next' = 1
    /\ UNCHANGED <<files, parsed, registry, nodes, edges>>

Emit ==
    /\ pc = "emit" /\ next <= Len(parsed)
    /\ nodes' = EmittedNodes(nodes, registry, parsed[next])
    /\ edges' = edges \cup EmittedEdges(registry, parsed[next])
    /\ next' = next + 1
    /\ UNCHANGED <<files, pc, parsed, registry>>

\* Pass 3: only nodes are pruned, never an edge.
ConnectedIds(es) == {e.source : e \in es} \cup {e.target : e \in es}

Connected(ns, es) == {n \in ns : n.id \in ConnectedIds(es)}

Prune ==
    /\ pc = "emit" /\ next > Len(parsed)
    /\ nodes' = Connected(nodes, edges)
    /\ pc' = "done"
    /\ UNCHANGED <<files, parsed, next, registry, edges>>

BuildNext == Parse \/ StartRegistration \/ Register \/ StartEmission \/ Emit \/ Prune

-----------------------------------------------------------------------------
(* Views and statistics of the finished graph *)

Ids(ns) == {n.id : n \in ns}

FilterEdgesEither(ids, rels) ==
    {e \in edges : e.rel \in rels /\ (e.target \in ids \/ e.source \in ids)}

\* _filter_graph: the source of a decorates edge may be no node.
FilterEdges(ids, rels) ==
    {e \in edges : /\ e.rel \in rels /\ e.target \in ids
                   /\ e.rel = "decorates" \/ e.source \in ids}

FilterGraph(types, rels) ==
    LET ids  == Ids({n \in nodes : n.type \in types})
        kept == FilterEdges(ids, rels)
    IN  [nodes |-> {n \in nodes : n.id \in ids \cap ConnectedIds(kept)}, edges |-> kept]

ArchitectureGraph == FilterGraph({"File", "Module", "Class"}, {"imports", "contains"})

ClassGraph == FilterGraph({"Class"}, {"inherits", "instantiates", "decorates"})

CallGraph == FilterGraph({"Function", "Method"}, {"calls"})

\* generate_statistics: the degree of an id, a self-call counted twice.
Degree(id) ==
    Cardinality({e \in edges : e.source = id}) + Cardinality({e \in edges : e.target = id})

ImportGraph == UNION {ImportEdges(parsed[i]) : i \in DOMAIN parsed}

-----------------------------------------------------------------------------
(* Properties of the finished graph.  The reference is the set of the parsed *)
(* files: neither their order nor the registry appears in it.                *)

OwnClasses == {c \in UNION {f.classes : f \in ToSet(parsed)} : c.name \notin Excluded}

OwnFunctions == {f \in UNION {g.functions : g \in ToSet(parsed)} : f.name \notin Excluded}

ClassNames == {c.name : c \in OwnClasses}

FunctionNames == {f.name : f \in OwnFunctions}

Own(ids) == ids \cup UNION {{MethodId(c.name, m.name) : m \in c.methods} : c \in OwnClasses}

Relation(rel) == {e \in edges : e.rel = rel}

\* The methods that override, each with the one it overrides.
Overriding ==
    {pair \in Own({}) \X Own({}) :
       /\ pair[1][2] = pair[2][2]
       /\ \E c \in OwnClasses : /\ c.name = pair[1][1] /\ pair[2][1] \in c.inherits_from
                                /\ \E m \in c.methods : m.name = pair[1][2]}

\* A type invariant, and with it that an id is the id of one node.
TypeOK ==
    /\ pc \in {"parse", "register", "emit", "done"}
    /\ next \in 1 .. Len(IF pc = "parse" THEN files.sources ELSE parsed) + 1
    /\ registry.classes \cup registry.functions \subseteq Names \ Excluded
    /\ registry.methods \subseteq registry.classes \X Names
    /\ \A n \in nodes : n.type \in NodeType /\ n.id \in Seq(Names)
    /\ \A n \in nodes, o \in nodes : n.id = o.id => n = o
    /\ \A e \in edges : e.source \in Seq(Names) /\ e.target \in Seq(Names)

\* A class inherits from the classes it names that the repository defines, in
\* whichever file and in whichever order they were parsed, and its methods override
\* those of the same name there; of every other base there is no edge.
HierarchyIsTheSource ==
    pc = "done" =>
      /\ Relation("inherits") =
           UNION {{Edge(ClassId(c.name), ClassId(parent), "inherits")
                     : parent \in c.inherits_from \cap ClassNames} : c \in OwnClasses}
      /\ Relation("overrides") =
           {Edge(pair[1], pair[2], "overrides") : pair \in Overriding}

\* Only what the repository defines is a node of the graph: a class, a function or a
\* method stands in the file the node names, and hangs from a file by contains edges.
OwnedSymbolsOnly ==
    pc = "done" =>
      \A n \in nodes :
        /\ n.type \in {"Class", "Function", "Method"} =>
             \E f \in ToSet(parsed) :
               /\ f.file_path = n.origin
               /\ CASE n.type = "Class"    -> \E c \in f.classes \cap OwnClasses : n.id = ClassId(c.name)
                    [] n.type = "Function" -> \E g \in f.functions \cap OwnFunctions : n.id = FunctionId(g.name)
                    [] n.type = "Method"   -> \E c \in f.classes \cap OwnClasses : \E m \in c.methods :
                                                n.id = MethodId(c.name, m.name)
        /\ n.type = "Method" =>
             \E e \in Relation("contains") :
               /\ e.target = n.id
               /\ \E d \in Relation("contains") : d.target = e.source /\ d.source = FileId(n.origin)

\* The names of the methods.
MemberNames == {m.name : m \in UNION {c.methods : c \in OwnClasses}}

\* An id that is the id of two things: the class and the function of a name, or a module
\* or a file of that name, or of the name of a method, which a method may call bare.
Clash ==
    LET symbols == Own({<<x>> : x \in ClassNames \cup FunctionNames \cup MemberNames})
        modules == UNION {f.imports : f \in ToSet(parsed)}
        paths   == {f.file_path : f \in ToSet(parsed)}
    IN  \/ ClassNames \cap FunctionNames # {}
        \/ modules \cap symbols # {} \/ paths \cap (symbols \cup modules) # {}

\* No edge leads out of a view, but the decorator of a class.
Closed(view) ==
    /\ \A n \in view.nodes : n.id \in ConnectedIds(view.edges)
    /\ \A e \in view.edges : /\ e.target \in Ids(view.nodes)
                             /\ e.source \in Ids(view.nodes) \/ e.rel = "decorates"

\* The name of a method, without its class.
BareName(id) == \E x \in MemberNames : id = <<x>>

\* The pruning of the third pass takes no end of an edge away: an edge joins nodes, but
\* for a decorator that is no node and for the bare name a method calls and only methods
\* bear.  Every view is a graph of its own: its nodes have edges, and its edges nodes.
GraphAndViewsAreClosed ==
    pc = "done" =>
      /\ \A e \in edges :
           /\ e.source \in Ids(nodes) \/ e.rel = "decorates"
           /\ \/ e.target \in Ids(nodes)
              \/ e.rel = "calls" /\ Len(e.source) = 2 /\ BareName(e.target)
      /\ Closed(ArchitectureGraph) /\ Closed(ClassGraph) /\ Closed(CallGraph)
=============================================================================
