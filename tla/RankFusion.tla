----------------------------- MODULE RankFusion -----------------------------
(***************************************************************************)
(* The two pure algorithms between the ranking of the nodes and the prompt *)
(* of the language model:                                                  *)
(*   - HybridQueryResolver of backend/app/retrievers/hybrid_retriever.py,  *)
(*     which fuses the keyword ranking and the semantic ranking;           *)
(*   - trim_to_token_limit of backend/app/core/token_utils.py, which cuts  *)
(*     the context text, with the count of tokens taken when tiktoken is   *)
(*     not there.                                                          *)
(* A ranking is a sequence of distinct nodes, a text is its length.        *)
(***************************************************************************)
EXTENDS Integers, Sequences, FiniteSets, SequencesExt

RRF_K == 60

\* keyword_weight; semantic_weight is 1.
KeywordWeight == 3

\* Mutant of Worst: a node that is left out has the best rank.
Unranked(n_nodes) == 0

\* The rank of a node that a ranking leaves out: one behind all n_nodes.
Worst(n_nodes) == n_nodes + 1

RankIn(ranking, node, worst) ==
    IF \E i \in DOMAIN ranking : ranking[i] = node
    THEN CHOOSE i \in DOMAIN ranking : ranking[i] = node
    ELSE worst

\* rrf, a fraction: 3 / (60 + kr) + 1 / (60 + sr).
RRF(kr, sr) ==
    [over  |-> KeywordWeight * (RRF_K + sr) + (RRF_K + kr),
     under |-> (RRF_K + kr) * (RRF_K + sr)]

Less(f, g) == f.over * g.under < g.over * f.under

ScoreOf(node, kw, sem, n_nodes) ==
    RRF(RankIn(kw, node, Worst(n_nodes)), RankIn(sem, node, Worst(n_nodes)))

-----------------------------------------------------------------------------
\* count_tokens without tiktoken.
CountTokens(length) ==
    IF length = 0 THEN 0 ELSE IF length \div 4 = 0 THEN 1 ELSE length \div 4

MarkerLength == 46

MarkerTokens == CountTokens(MarkerLength)

\* Mutant of BudgetOf: no room for the marker.
BudgetWithoutMarker(max_tokens) == max_tokens

BudgetOf(max_tokens) == IF max_tokens < MarkerTokens THEN 0 ELSE max_tokens - MarkerTokens

Middle(lo, hi) == (lo + hi + 1) \div 2

\* The binary search for the longest prefix of a text within the budget.
LongestPrefix(length, budget) ==
    LET search[span \in (0 .. length) \X (0 .. length)] ==
          LET lo == span[1]
              hi == span[2]
          IN  IF lo >= hi THEN lo
              ELSE IF CountTokens(Middle(lo, hi)) <= budget THEN search[<<Middle(lo, hi), hi>>]
              ELSE search[<<lo, Middle(lo, hi) - 1>>]
    IN  search[<<0, length>>]

\* trim_to_token_limit: how much of a text is kept, and whether the marker follows.
Trimmed(length, max_tokens) ==
    IF CountTokens(length) <= max_tokens THEN [kept |-> length, marker |-> FALSE]
    ELSE [kept |-> LongestPrefix(length, BudgetOf(max_tokens)), marker |-> TRUE]

TrimmedLength(t) == t.kept + (IF t.marker THEN MarkerLength ELSE 0)
=============================================================================
