----------------------------- MODULE QueryTables -----------------------------
(***************************************************************************)
(* The keyword tables of backend/app/retrievers/query_resolver.py,         *)
(* restricted to the Vocabulary: the words of the questions that are asked *)
(* of the model, their stems, their synonyms and the parts of the names.   *)
(* Of a word of the Vocabulary every entry of the code is here.            *)
(***************************************************************************)
EXTENDS Integers, Sequences

Vocabulary ==
    {"report", "reports", "parsed", "parse", "pars", "parser", "load", "loaded", "session",
     "graph", "build", "builder", "built", "structure", "overview", "overall", "module",
     "file", "files", "call", "called", "error", "generate", "generated", "generat",
     "how", "what", "is", "the", "json", "app", "main", "init"}

STOP_WORDS == {"overall", "how", "what", "is", "the", "main"}

DEFINITION_WORDS == {"structure", "what"}

\* The categories in the order of the lexicons, which breaks ties.
IntentOrder ==
    <<"parsing", "generation", "retrieval", "loading", "saving", "visualization",
      "statistics", "analysis", "authentication", "routing", "validation", "execution",
      "configuration", "transformation", "graph_traversal", "aggregation", "overview">>

Intents == {IntentOrder[i] : i \in DOMAIN IntentOrder}

NoWords == [c \in Intents |-> {}]

INTENT_LEXICONS ==
    [NoWords EXCEPT !["parsing"] = {"parsed", "parse", "pars", "parser"},
                    !["generation"] = {"generate", "generat"}, !["loading"] = {"load"},
                    !["visualization"] = {"graph"}, !["statistics"] = {"report"},
                    !["authentication"] = {"session"}, !["execution"] = {"call"},
                    !["configuration"] = {"init"},
                    !["overview"] = {"structure", "overview", "overall", "module"}]

\* verb_lexicon_cleanup takes "session" out of the verbs of authentication.
INTENT_VERB_COMPONENTS ==
    [NoWords EXCEPT !["parsing"] = {"parse", "pars", "load"},
                    !["generation"] = {"generate", "generat"},
                    !["loading"] = {"load"}, !["execution"] = {"call"}]

IMPLEMENTATION_INTENTS ==
    {"parsing", "generation", "retrieval", "loading", "saving", "analysis",
     "authentication", "routing", "execution", "transformation", "graph_traversal"}

CALLABLE_SUPREMACY_INTENTS == IMPLEMENTATION_INTENTS \cup {"statistics", "aggregation"}

PreferredTypes(intent) ==
    CASE intent = "unknown"  -> {}
      [] intent = "overview" -> {"File", "Module", "Class"}
      [] OTHER               -> {"Method", "Function", "Class"}

\* The intents under which files and modules are penalised.
NonFileIntents ==
    {"parsing", "generation", "retrieval", "execution", "authentication", "routing",
     "validation", "transformation", "graph_traversal", "statistics", "aggregation",
     "analysis", "unknown"}

FileKeywords == {"file", "files", "module"}

NoSynonyms == [w \in Vocabulary |-> {}]

QUERY_EXPANSION ==
    [NoSynonyms EXCEPT !["structure"] = {"module"}, !["parse"] = {"load"}, !["pars"] = {"load"},
                       !["load"] = {"parse"}, !["build"] = {"generate"},
                       !["graph"] = {"structure"}, !["file"] = {"module"}, !["module"] = {"file"}]

\* The phrases of the table whose words are all in the Vocabulary.
Phrase(words, intents, forms) == [words |-> words, intents |-> intents, node_forms |-> forms]

PHRASE_TABLE ==
    {Phrase(<<"call", "graph">>, {"graph_traversal", "analysis"}, {"call_graph", "callgraph"}),
     Phrase(<<"graph", "generated">>, {"generation", "graph_traversal"},
            {"build_graph", "generate_graph"}),
     Phrase(<<"graph", "built">>, {"generation", "graph_traversal"},
            {"build_graph", "graph_build", "graph_builder"})}

\* The classes that hold data, by the first or the last word of their names, and
\* by their decorators and bases; and the names never taken for such.
DTO_NAME_PREFIXES == {"parsed", "generated", "loaded"}

DTO_NAME_SUFFIXES == {"report"}

DTO_DECORATOR_FRAGMENTS == {"dataclass", "model", "schema"}

GRAPH_INFRA_LABEL_FRAGMENTS == {"graphbuilder", "graph_builder"}

-----------------------------------------------------------------------------
\* The weights, in hundredths.
W_EXACT_LABEL == 1000
W_PARTIAL_LABEL == 400
W_PARTIAL_ID == 200
W_NODE_TYPE_BASE == 300
W_HOTSPOT_CAP == 5
W_SNAKE == 300
W_INTENT_TYPE == 600
W_CALLABLE_BOOST == 500
W_DTO_PENALTY == -1500
W_DTO_SOFTENED == -495
W_PHRASE_MATCH == 700
W_VERB_LABEL_BOOST == 400
W_MULTI_KW_BONUS == 500
W_LABEL_COVERAGE == 300
W_GENERIC_PENALTY == -400
W_SUBJECT_PRIORITY == 400
W_ENTITY_MENTION == 600
=============================================================================
