--------------------------- MODULE ContextPolicy ---------------------------
(***************************************************************************)
(* How far the context of a question reaches into the graph: the hop       *)
(* budgets of the intents (backend/app/rag/context_builder.py).            *)
(*                                                                         *)
(* A policy gives every relationship the number of hops along which it is  *)
(* followed.  A question with several intents gets, for each relationship, *)
(* the largest of their budgets; max_hops of the request scales them.      *)
(***************************************************************************)
EXTENDS Integers

RelationshipTypes == {"calls", "contains", "decorates", "imports", "inherits",
                      "instantiates", "overrides"}

\* The budgets of 2 hops, of 1 hop, and of none: every policy names every
\* relationship, so default_hops is never consulted.
Budget(two, one) ==
    [r \in RelationshipTypes |-> IF r \in two THEN 2 ELSE IF r \in one THEN 1 ELSE 0]

DEFAULT_EXPANSION_POLICY == Budget({}, RelationshipTypes \ {"contains"})

Routing == Budget({"calls", "decorates"},
                  {"inherits", "imports", "instantiates", "overrides"})

Execution == Budget({"calls", "instantiates"},
                    {"inherits", "imports", "decorates", "overrides"})

Analysis == Budget({"inherits", "overrides"},
                   {"calls", "imports", "instantiates", "decorates"})

GraphTraversal == Budget({"inherits", "overrides"}, {"calls", "imports", "instantiates"})

Parsing == Budget({"calls"},
                  {"imports", "contains", "inherits", "instantiates", "overrides"})

Loading == Budget({"imports"}, {"calls", "inherits", "instantiates"})

Generation == Budget({}, {"calls", "instantiates", "imports", "inherits", "decorates"})

Retrieval == Budget({}, {"calls", "inherits", "imports", "instantiates", "overrides"})

Authentication == Budget({}, {"calls", "instantiates", "imports", "inherits", "decorates"})

Validation == Budget({}, {"calls", "inherits", "decorates", "imports"})

Configuration == Budget({}, {"imports", "contains", "inherits"})

Statistics == Budget({}, {"calls", "imports", "inherits"})

Aggregation == Budget({}, {"calls", "imports", "inherits"})

Transformation == Budget({"calls"}, {"imports", "inherits", "instantiates"})

Saving == Budget({}, {"calls", "instantiates", "imports", "inherits"})

Overview == Budget({"imports"}, {"contains"})

IntentCategory ==
    {"parsing", "generation", "retrieval", "loading", "saving", "visualization",
     "statistics", "analysis", "authentication", "routing", "validation",
     "execution", "configuration", "transformation", "graph_traversal",
     "aggregation", "overview", "unknown"}

\* The intents whose policy is the default one: unknown is registered with
\* it, visualization has none.
Unspecific == {"unknown", "visualization"}

PolicyOf(category) ==
    CASE category = "routing"         -> Routing
      [] category = "execution"       -> Execution
      [] category = "analysis"        -> Analysis
      [] category = "graph_traversal" -> GraphTraversal
      [] category = "parsing"         -> Parsing
      [] category = "loading"         -> Loading
      [] category = "generation"      -> Generation
      [] category = "retrieval"       -> Retrieval
      [] category = "authentication"  -> Authentication
      [] category = "validation"      -> Validation
      [] category = "configuration"   -> Configuration
      [] category = "statistics"      -> Statistics
      [] category = "aggregation"     -> Aggregation
      [] category = "transformation"  -> Transformation
      [] category = "saving"          -> Saving
      [] category = "overview"        -> Overview
      [] OTHER                        -> DEFAULT_EXPANSION_POLICY

\* _policy_for_intent: the default policy for no intent, else for each
\* relationship the largest budget of the intents.
PolicyForIntent(categories) ==
    IF categories = {} THEN DEFAULT_EXPANSION_POLICY
    ELSE [r \in RelationshipTypes |->
            LET budgets == {PolicyOf(c)[r] : c \in categories}
            IN  CHOOSE most \in budgets : \A b \in budgets : b <= most]

\* The question is expanded uniformly, with max_hops along every relationship.
IsUniform(categories) ==
    categories = {} \/ \E c \in Unspecific : categories = {c}

\* The budgets of a request with max_hops = hops, each capped at 3.
ScaledLimits(categories, hops) ==
    [r \in RelationshipTypes |->
       LET limit == PolicyForIntent(categories)[r] * hops
       IN  IF hops # 1 /\ limit > 3 THEN 3 ELSE limit]

=============================================================================
