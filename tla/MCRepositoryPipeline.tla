------------------------ MODULE MCRepositoryPipeline ------------------------
(***************************************************************************)
(* Small instances of RepositoryPipeline: repositories of up to three      *)
(* files over a few declarations, and questions of up to two words.       *)
(***************************************************************************)
EXTENDS RepositoryPipeline, TLC

\* The names of the declarations, the words of the questions, and their parts.
MCTexts ==
    {"GraphBuilder", "ParsedReport", "ParseError", "BaseModel", "parse_report", "load",
     "parse", "build_graph", "_load", "__init__", "json", "app", "main.py", "report.py",
     "dataclass", "get", "how", "is", "the", "what", "report", "reports", "parsed", "loaded",
     "structure", "overview", "file", "call", "graph", "built", "error", "pars", "parser",
     "session", "build", "builder", "overall", "module", "files", "called", "generate",
     "generated", "generat", "main", "init", "graphbuilder", "graphbuild", "parsedreport",
     "parseerror", "basemodel", "base", "model", "dataclas", "par", "fil"}

MCLower ==
    "GraphBuilder" :> "graphbuilder" @@ "ParsedReport" :> "parsedreport" @@
    "ParseError" :> "parseerror" @@ "BaseModel" :> "basemodel"
    @@ [t \in MCTexts |-> t]

MCCamel ==
    "GraphBuilder" :> <<"graph", "builder">> @@ "ParsedReport" :> <<"parsed", "report">> @@
    "ParseError" :> <<"parse", "error">> @@ "BaseModel" :> <<"base", "model">>
    @@ [t \in MCTexts |-> <<t>>]

MCSnake ==
    "parse_report" :> <<"parse", "report">> @@ "build_graph" :> <<"build", "graph">> @@
    "_load" :> <<"load">> @@ "__init__" :> <<"init">>
    @@ [t \in MCTexts |-> << >>]

MCStem ==
    "dataclass" :> "dataclas" @@ "reports" :> "report" @@ "parsed" :> "pars" @@
    "loaded" :> "load" @@ "pars" :> "par" @@ "parser" :> "pars" @@ "builder" :> "build" @@
    "files" :> "fil" @@ "called" :> "call" @@ "generated" :> "generat" @@
    "graphbuilder" :> "graphbuild"
    @@ [t \in MCTexts |-> t]

PartsInText ==
    "GraphBuilder" :> {"build", "builder", "graph", "graphbuild", "graphbuilder"} @@
    "ParsedReport" :> {"par", "pars", "parse", "parsed", "parsedreport", "report"} @@
    "ParseError" :> {"error", "par", "pars", "parse", "parseerror"} @@
    "BaseModel" :> {"base", "basemodel", "model"} @@
    "parse_report" :> {"par", "pars", "parse", "report"} @@ "parse" :> {"par", "pars"} @@
    "build_graph" :> {"build", "graph"} @@ "_load" :> {"load"} @@ "__init__" :> {"init"} @@
    "main.py" :> {"main"} @@ "report.py" :> {"report"} @@ "dataclass" :> {"dataclas"} @@
    "reports" :> {"report"} @@ "parsed" :> {"par", "pars", "parse"} @@ "loaded" :> {"load"} @@
    "file" :> {"fil"} @@ "pars" :> {"par"} @@ "parser" :> {"par", "pars", "parse"} @@
    "builder" :> {"build"} @@ "files" :> {"fil", "file"} @@ "called" :> {"call"} @@
    "generate" :> {"generat"} @@ "generated" :> {"generat", "generate"} @@
    "graphbuilder" :> {"build", "builder", "graph", "graphbuild"} @@
    "graphbuild" :> {"build", "graph"} @@
    "parsedreport" :> {"par", "pars", "parse", "parsed", "report"} @@
    "parseerror" :> {"error", "par", "pars", "parse"} @@ "basemodel" :> {"base", "model"}
    @@ [t \in MCTexts |-> {}]

MCInText == [t \in MCTexts |-> PartsInText[t] \cup {MCLower[t]}]

-----------------------------------------------------------------------------
Called(ref) == Decorator(ref, TRUE)

Plain(ref) == Decorator(ref, FALSE)

Def(key, within, name, decorators, calls) ==
    Declaration(key, within, "def", name, {}, decorators, calls)

Class(key, within, name, bases, decorators) ==
    Declaration(key, within, "class", name, bases, decorators, {})

\* A class that extends another, calls a method, a function, a class, a builtin.
Builder ==
    {Class(1, Root, "GraphBuilder", {<<"ParsedReport">>}, {}),
     Def(2, 1, "build_graph", {}, {"load", "parse_report", "ParsedReport", "len", "GraphBuilder"}),
     Def(3, 1, "load", {Called(<<"app", "get">>)}, {"build_graph"})}

\* The other end of it; a field is a method for TypeScriptParser only.
Report ==
    {Class(1, Root, "ParsedReport", {<<"app", "ParseError">>}, {Plain(<<"dataclass">>)}),
     Def(2, 1, "load", {}, {"parse_report"}),
     Declaration(3, 1, "field", "parse", {}, {}, {"load"})}

\* A function with a nested one, and the bindings only TypeScriptParser looks at.
Functions ==
    {Def(1, Root, "parse_report", {Called(<<"GraphBuilder", "load">>)}, {"GraphBuilder", "load"}),
     Def(2, 1, "load", {Called(<<"parse_report">>)}, {"parse_report"}),
     Declaration(3, Root, "arrow", "build_graph", {}, {}, {"parse_report"}),
     Declaration(4, Root, "exported arrow", "_load", {}, {}, {"ParseError"})}

\* Declarations under an if, nested in a class, and of an excluded name.
Hidden ==
    {Declaration(1, Root, "block", "if", {}, {}, {}),
     Def(2, 1, "load", {}, {}), Class(3, 1, "ParseError", {}, {}),
     Class(4, Root, "BaseModel", {}, {}), Def(5, 4, "parse", {}, {"load"}),
     Class(6, 4, "GraphBuilder", {<<"BaseModel">>}, {})}

\* The same names again: a function of a class's name, a class defined twice.
Clashes ==
    {Def(1, Root, "ParsedReport", {}, {"parse"}), Class(2, Root, "GraphBuilder", {<<"ParseError">>}, {}),
     Def(3, 2, "build_graph", {}, {"parse", "load"})}

\* An exception, a private function, and calls between them.
Errors ==
    {Class(1, Root, "ParseError", {}, {}), Def(2, 1, "__init__", {}, {"_load"}),
     Def(3, 1, "build_graph", {}, {}),
     Def(4, Root, "_load", {Plain(<<"ParsedReport">>)}, {"ParseError", "GraphBuilder", "load"})}

Trees == {Builder, Report, Functions, Hidden, Clashes, Errors}

Import(module, relative) == [module |-> module, relative |-> relative]

ImportSets ==
    {{}, {Import(<<"json">>, FALSE), Import(<<"app", "main">>, TRUE)}, {Import(<<"GraphBuilder">>, FALSE)}}

Source(path, tree, imports, language, place, depth, parses) ==
    [path |-> path, tree |-> tree, imports |-> imports, language |-> language,
     place |-> place, depth |-> depth, parses |-> parses]

Paths == <<<<"app", "main.py">>, <<"report.py">>, <<"app", "report.py">>>>

PathPriorities == (Paths[1] :> 0) @@ [p \in ToSet(Paths) |-> 5]

Plainly(i, tree, imports, language) == Source(Paths[i], tree, imports, language, "code", i - 1, TRUE)

\* Two or three files of one language, in every order and with every import.
Uniform(language) ==
    {[sources |-> <<Plainly(1, t, i, language), Plainly(2, u, j, language)>>,
      tree_sitter |-> TRUE, asked |-> FALSE]
       : t \in Trees, u \in Trees, i \in ImportSets, j \in ImportSets}
    \cup {[sources |-> <<Plainly(1, t, {}, language), Plainly(2, u, {}, language),
                         Plainly(3, v, {}, language)>>,
           tree_sitter |-> TRUE, asked |-> FALSE] : t \in Trees, u \in Trees, v \in Trees}

\* What the walks and the choice of the parser tell apart.
Mixed ==
    {[sources |-> <<Source(Paths[1], Builder, {}, TypeScript, p, 0, TRUE),
                    Source(Paths[2], Report, {}, Python, "code", 0, parses),
                    Source(Paths[3], Functions, {}, language, q, depth, TRUE)>>,
      tree_sitter |-> ts, asked |-> FALSE]
       : p \in Places, q \in Places, parses \in BOOLEAN, depth \in {2, 3}, ts \in BOOLEAN,
         language \in {Python, TypeScript}}

Asked ==
    {[sources |-> <<Plainly(1, pair[1], {Import(<<"json">>, FALSE)}, Python), Plainly(2, pair[2], {}, Python)>>,
      tree_sitter |-> TRUE, asked |-> TRUE]
       : pair \in {<<Builder, Report>>, <<Functions, Report>>, <<Builder, Errors>>,
                   <<Errors, Report>>, <<Clashes, Functions>>, <<Functions, Errors>>}}

MCRepositories == Uniform(Python) \cup Uniform(TypeScript) \cup Mixed \cup Asked

MCNames ==
    {"GraphBuilder", "ParsedReport", "ParseError", "BaseModel", "parse_report", "load", "parse",
     "build_graph", "_load", "__init__", "json", "app", "main.py", "report.py", "dataclass",
     "get", "main", "len", "if"}

-----------------------------------------------------------------------------
Words ==
    {"how", "what", "report", "parsed", "ParsedReport", "parse_report", "loaded", "structure",
     "file", "call", "graph", "built", "error", "json"}

MCQuestions ==
    {<<w>> : w \in Words} \cup {<<v, w>> : v \in Words, w \in Words}

\* ASCII: digits, upper case, underscore, lower case.
NameOrder ==
    <<"BaseModel", "GraphBuilder", "ParseError", "ParsedReport", "__init__", "_load", "app",
      "build_graph", "dataclass", "get", "json", "load", "main.py", "parse", "parse_report",
      "report.py">>

RankOf(name) == CHOOSE i \in DOMAIN NameOrder : NameOrder[i] = name

MCIdBefore(p, q) ==
    \/ \E i \in DOMAIN p \cap DOMAIN q :
         RankOf(p[i]) < RankOf(q[i]) /\ \A j \in 1 .. i - 1 : p[j] = q[j]
    \/ Len(p) < Len(q) /\ SubSeq(q, 1, Len(p)) = p

\* It is an order: on the paths, and on the ids of one or two of some of the names.
SomeNames == {"GraphBuilder", "ParsedReport", "__init__", "_load", "app", "load", "main.py"}

ASSUME OrderedAssumption ==
    Ordered(ToSet(Paths) \cup {<<x>> : x \in SomeNames} \cup {<<x, y>> : x \in SomeNames, y \in SomeNames})
=============================================================================
