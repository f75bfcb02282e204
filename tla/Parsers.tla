------------------------------- MODULE Parsers -------------------------------
(***************************************************************************)
(* From the source files of a repository to its parsed files: the walks    *)
(* and the extraction of backend/app/parsers/code_parser.py (Python) and   *)
(* typescript_parser.py, and the choice between them in                    *)
(* services/graph_services.py.                                             *)
(*                                                                         *)
(* A source file is its syntax tree, flat: a set of declarations, each     *)
(* naming the one it stands in (Root: none).  A reference a.b.c is the     *)
(* sequence of its names.  Order inside a file, line numbers, arguments,   *)
(* docstrings and the text of the bodies are left out; the only thing the  *)
(* graph does with them is carry them along.                               *)
(***************************************************************************)
EXTENDS Integers, Sequences, FiniteSets, SequencesExt

CONSTANTS Names,      \* the names of classes, functions, methods and modules
          Builtins    \* the names CodeParser never records as calls: BUILTINS

ASSUME ParsersAssumption == Builtins \subseteq Names

Root == 0

Python == "python"

TypeScript == "typescript"

\* A class may hold methods and fields; a block is an if or a try around
\* declarations; an arrow is a function bound to a name by const, let or var,
\* and an exported arrow the same behind the word export.
DeclarationKinds == {"class", "def", "field", "block", "arrow", "exported arrow"}

\* A decorator with arguments is a call as well.
Decorator(ref, is_call) == [ref |-> ref, is_call |-> is_call]

Declaration(key, within, kind, name, bases, decorators, calls) ==
    [key |-> key, within |-> within, kind |-> kind, name |-> name,
     bases |-> bases, decorators |-> decorators, calls |-> calls]

References == Seq(Names) \ {<< >>}

Declarations ==
    [key : Nat, within : Nat, kind : DeclarationKinds, name : Names, bases : SUBSET References,
     decorators : SUBSET [ref : References, is_call : BOOLEAN], calls : SUBSET Names]

-----------------------------------------------------------------------------
\* The tree below a declaration: keys grow from the outside in.
Inside(tree, d) == {e \in tree : e.within = d.key}

Descendants(tree, d) ==
    LET below[n \in 0 .. Cardinality(tree)] ==
          IF n = 0 THEN {d}
          ELSE below[n - 1] \cup UNION {Inside(tree, e) : e \in below[n - 1]}
    IN  below[Cardinality(tree)] \ {d}

DecoratorCalls(d) == {Last(dec.ref) : dec \in {dec \in d.decorators : dec.is_call}}

CallsBelow(tree, d) ==
    UNION {e.calls \cup DecoratorCalls(e) : e \in Descendants(tree, d)}

-----------------------------------------------------------------------------
(* CodeParser *)

\* BUILTINS are no calls of the repository.
Recorded(calls) == calls \ Builtins

\* ast.walk visits the whole def: the functions and classes nested in it, and
\* its own decorators with theirs.
ExtractCallsFromBody(tree, d) ==
    Recorded(d.calls \cup DecoratorCalls(d) \cup CallsBelow(tree, d))

ExtractFunction(tree, d) ==
    [name |-> d.name, decorators |-> {dec.ref : dec \in d.decorators},
     calls |-> ExtractCallsFromBody(tree, d)]

\* A base a.b.C counts as C.
ExtractBases(d) == {Last(base) : base \in d.bases}

ExtractClass(tree, d) ==
    [name |-> d.name, inherits_from |-> ExtractBases(d),
     decorators |-> {dec.ref : dec \in d.decorators},
     methods |-> {ExtractFunction(tree, e) : e \in {e \in Inside(tree, d) : e.kind = "def"}}]

\* Imports anywhere in the file, but only absolute ones.
ExtractImports(file) == {i.module : i \in {i \in file.imports : ~i.relative}}

TopLevel(tree, kind) == {d \in tree : d.within = Root /\ d.kind = kind}

\* Only what stands in the module itself, not under an if or a try.
CodeParserParseFile(file) ==
    [file_path |-> file.path, imports |-> ExtractImports(file),
     classes   |-> {ExtractClass(file.tree, d) : d \in TopLevel(file.tree, "class")},
     functions |-> {ExtractFunction(file.tree, d) : d \in TopLevel(file.tree, "def")}]

-----------------------------------------------------------------------------
(* TypeScriptParser *)

\* Only the statement block is searched: not the decorators of the method.
TSExtractCalls(tree, d) == d.calls \cup CallsBelow(tree, d)

\* A field is a method too, of no statement block and so of no calls.
TSExtractMethods(tree, d) ==
    {[name |-> e.name, decorators |-> {dec.ref : dec \in e.decorators},
      calls |-> IF e.kind = "field" THEN {} ELSE TSExtractCalls(tree, e)]
       : e \in {e \in Inside(tree, d) : e.kind \in {"def", "field"}}}

\* Of an extends clause a.b.C the first name.
TSExtractClass(tree, d) ==
    [name |-> d.name, inherits_from |-> {Head(base) : base \in d.bases},
     decorators |-> {dec.ref : dec \in d.decorators},
     methods |-> TSExtractMethods(tree, d)]

InClass(tree, d) == \E c \in tree : c.key = d.within /\ c.kind = "class"

\* _find_all descends: a declared function is found wherever it stands, but a
\* method is no function declaration.  The arrows are those bound in the module
\* itself; export wraps the binding and hides it.
TSFunctions(tree) ==
    {d \in tree : d.kind = "def" /\ ~InClass(tree, d)} \cup TopLevel(tree, "arrow")

TSClasses(tree) == {d \in tree : d.kind = "class"}

TSParseFile(file) ==
    [file_path |-> file.path, imports |-> {i.module : i \in file.imports},
     classes   |-> {TSExtractClass(file.tree, d) : d \in TSClasses(file.tree)},
     functions |-> {[name |-> d.name, decorators |-> {},
                     calls |-> TSExtractCalls(file.tree, d)] : d \in TSFunctions(file.tree)}]

-----------------------------------------------------------------------------
(* The walk over a repository, a sequence of files in the order of os.walk *)

\* Where a file lies: a directory both parsers skip, one only CodeParser skips
\* (tests, docs, examples, ...), or neither; tests are told by their names too.
Places == {"code", "skipped", "skipped by CodeParser", "test"}

SourceFiles ==
    [path : References, tree : SUBSET Declarations,
     imports : SUBSET [module : References, relative : BOOLEAN],
     language : {Python, TypeScript}, place : Places, depth : Nat, parses : BOOLEAN]

\* Language detection counts the files of the first three levels, tests included.
Counted(files, language) ==
    Cardinality({i \in DOMAIN files :
                   files[i].language = language /\ files[i].place # "skipped" /\ files[i].depth < 3})

DetectLanguage(files) ==
    IF Counted(files, TypeScript) > Counted(files, Python) THEN TypeScript ELSE Python

\* A file that does not parse is skipped.  ast.parse refuses a file with a
\* syntax error; tree-sitter recovers from one.
CodeParserReads(f) == f.language = Python /\ f.place = "code" /\ f.parses

TypeScriptParserReads(f) ==
    f.language = TypeScript /\ f.place \in {"code", "skipped by CodeParser"}

CodeParserVisit(f) == IF CodeParserReads(f) THEN <<CodeParserParseFile(f)>> ELSE << >>

TSVisit(f) == IF TypeScriptParserReads(f) THEN <<TSParseFile(f)>> ELSE << >>

\* What a file of the walk adds to the parsed files.  Without tree-sitter _get_parser
\* raises inside parse_file, where parse_repository catches it: every file is skipped,
\* and the ImportError that would bring CodeParser in never reaches generate_graph.
Visit(files, tree_sitter, f) ==
    IF DetectLanguage(files) = Python THEN CodeParserVisit(f)
    ELSE IF tree_sitter THEN TSVisit(f)
    ELSE << >>
=============================================================================
