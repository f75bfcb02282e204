------------------------ MODULE MCSubgraphRetrieval ------------------------
(***************************************************************************)
(* Small instances of SubgraphRetrieval.                                   *)
(***************************************************************************)
EXTENDS SubgraphRetrieval, TLC

\* In the order of their values in RelationshipType.
CallsAndContains == <<"calls", "contains">>

\* What GraphBuilder emits: the source of a call or of a containment is a node,
\* and only a call may lead to a name that is none.
EmittedEdges ==
    {e \in [source : Ids \ External, target : Ids, rel : ToSet(EdgeTypes)] :
       e.target \in External => e.rel = "calls"}

\* The sets of at most n edges.
UpTo[n \in Nat] ==
    IF n = 0 THEN {{}}
    ELSE LET fewer == UpTo[n - 1]
         IN  fewer \cup {s \cup {e} : s \in fewer, e \in EmittedEdges}

AtMostThreeEdges == UpTo[3]

\* Unknown is expanded uniformly; routing follows calls for 2 hops and contains
\* not at all; overview with parsing merges two policies; max_hops scales them.
SomeQuestions ==
    {[intents |-> {"unknown"}, max_hops |-> 2],
     [intents |-> {"routing"}, max_hops |-> 1],
     [intents |-> {"overview", "parsing"}, max_hops |-> 1],
     [intents |-> {"configuration"}, max_hops |-> 3]}
=============================================================================
