-------------------------- MODULE MCAnswerService --------------------------
(***************************************************************************)
(* Small instances of AnswerService: a graph, the same nodes with other    *)
(* texts, and a graph without nodes.                                       *)
(***************************************************************************)
EXTENDS AnswerService

MCGraphs ==
    {[nodes |-> <<"a", "b">>, texts |-> 1], [nodes |-> <<"a", "b">>, texts |-> 2],
     [nodes |-> << >>, texts |-> 1]}
=============================================================================
