---------------------------- MODULE QueryResolver ----------------------------
(***************************************************************************)
(* From a question to the ranked nodes of a graph: QueryResolver of        *)
(* backend/app/retrievers/query_resolver.py with the toggles production    *)
(* sets.                                                                   *)
(*                                                                         *)
(* A question is a sequence of the words between its blanks.  What the     *)
(* code asks of a text - its lower case, the words in its camelCase, the   *)
(* parts between its underscores, its stem, the words found inside it - is *)
(* given by constants.  Scores are in hundredths.  The words of the model  *)
(* have three letters or are stop words, and none is about visualisation,  *)
(* whose penalty is left out.                                              *)
(***************************************************************************)
EXTENDS QueryTables, IdOrder, SequencesExt

CONSTANTS
    Lower,       \* text -> the text in lower case, punctuation dropped
    Camel,       \* text -> _split_camel_case: its words, in lower case
    Snake,       \* text -> _snake_parts: << >> without an underscore
    Stem,        \* text -> its stem, or the text itself when no rule applies
    InText,      \* text -> the words and the forms of phrases its lower case contains
    Private,     \* the names with one leading underscore
    Dunder       \* the names between two underscores

Texts == DOMAIN Lower

ASSUME TextsAssumption ==
    /\ Lower \in [Texts -> Texts]
    /\ Camel \in [Texts -> Seq(Texts)] /\ Snake \in [Texts -> Seq(Texts)]

Within(term, text) == term \in InText[text]

Parts(text) == ToSet(Snake[text]) \cup ToSet(Camel[text]) \cup {Lower[text]}

Label(n) == Last(n.id)

\* A word of an id is a word of one of its names.
WithinId(term, n) == \E i \in DOMAIN n.id : Within(term, n.id[i])

-----------------------------------------------------------------------------
\* extract_keywords.
Unstopped(words) == words \ STOP_WORDS

SnakeWords(token) == ToSet(Snake[token])

KeywordsOf(raw) ==
    LET token == Lower[raw]
        camel == IF Len(Camel[raw]) > 1 THEN ToSet(Camel[raw]) ELSE {}
        stem  == IF token \in STOP_WORDS THEN {} ELSE {Stem[token]}
    IN  Unstopped(camel \cup {token} \cup stem
                  \cup SnakeWords(token) \cup {Stem[w] : w \in SnakeWords(token)})

Keywords(question) == UNION {KeywordsOf(question[i]) : i \in DOMAIN question}

\* _detect_phrases: a phrase stands in the question word by word, or as one name.
PhraseAt(entry, question, i) ==
    \/ /\ i + Len(entry.words) - 1 <= Len(question)
       /\ \A j \in DOMAIN entry.words : Lower[question[i + j - 1]] = entry.words[j]
    \/ Snake[question[i]] = entry.words

Phrases(question) ==
    {entry \in PHRASE_TABLE : \E i \in DOMAIN question : PhraseAt(entry, question, i)}

\* detect_intent.
LexiconHits(question, c) ==
    LET kws == Keywords(question)
    IN  Cardinality((kws \cup {Stem[w] : w \in kws}) \cap INTENT_LEXICONS[c])

PhraseBonus(question, c) ==
    MapThenSumSet(LAMBDA entry : IF Len(entry.words) > 2 THEN Len(entry.words) ELSE 2,
                  {entry \in Phrases(question) : c \in entry.intents})

IntentHits(question, c) == LexiconHits(question, c) + PhraseBonus(question, c)

Detected(question) == {c \in Intents : IntentHits(question, c) > 0}

Categories(question) == IF Detected(question) = {} THEN {"unknown"} ELSE Detected(question)

\* The first category has the most hits.  A tie goes to the order of the lexicons;
\* categories that only a phrase brings come in the order of a frozenset: any.
PrimaryChoices(question) ==
    LET most    == {c \in Detected(question) :
                      \A d \in Detected(question) : IntentHits(question, d) <= IntentHits(question, c)}
        lexical == {i \in DOMAIN IntentOrder :
                      IntentOrder[i] \in most /\ LexiconHits(question, IntentOrder[i]) > 0}
    IN  IF most = {} THEN {"unknown"}
        ELSE IF lexical # {} THEN {IntentOrder[CHOOSE i \in lexical : \A j \in lexical : i <= j]}
        ELSE most


\* expand_keywords: one step, never the synonyms of synonyms.
Synonyms(word) == IF word \in Vocabulary THEN QUERY_EXPANSION[word] ELSE {}

Expanded(question) ==
    LET kws == Keywords(question)
    IN  kws \cup Unstopped(UNION {Synonyms(w) \cup Synonyms(Stem[w]) : w \in kws})

Spelled(question) ==
    FoldSeq(LAMBDA raw, words : words \o (IF Snake[raw] = << >> THEN Camel[raw] ELSE Snake[raw]),
            << >>, question)

\* What resolve_query knows of a question when it ranks the candidates.
Query(question, first) ==
    [question |-> question, spelled |-> Spelled(question), keywords |-> Keywords(question),
     expanded |-> Expanded(question), categories |-> Categories(question), primary |-> first,
     phrases  |-> Phrases(question),
     verbs    |-> UNION {INTENT_VERB_COMPONENTS[c] : c \in Detected(question)}]

-----------------------------------------------------------------------------
(* _precompute_dto_status *)

NamedAsDto(n) ==
    LET words == Camel[Label(n)]
    IN  Head(words) \in DTO_NAME_PREFIXES \/ Last(words) \in DTO_NAME_SUFFIXES

Fragment(name) == \E f \in DTO_DECORATOR_FRAGMENTS : Within(f, name)

MarkedAsDto(g, n) ==
    \E e \in g.edges : \/ e.rel = "decorates" /\ e.target = n.id /\ Fragment(Last(e.source))
                       \/ e.rel = "inherits" /\ e.source = n.id /\ Fragment(Last(e.target))

\* Nothing calls it or makes it, and it extends nothing.
InertClass(g, n) ==
    \A e \in g.edges : /\ e.source = n.id => e.rel \notin {"calls", "instantiates", "inherits"}
                       /\ e.target = n.id => e.rel \notin {"calls", "instantiates"}

LooksLikeDto(g, n) ==
    /\ n.type \in {"Class", "Function", "Method"}
    /\ \A f \in GRAPH_INFRA_LABEL_FRAGMENTS : ~Within(f, Label(n))
    /\ \/ n.type = "Class" /\ NamedAsDto(n)
       \/ MarkedAsDto(g, n)
       \/ n.type = "Class" /\ InertClass(g, n)

Parents(g, ids) == {e.target : e \in {e \in g.edges : e.rel = "inherits" /\ e.source \in ids}}

\* Cycles of inheritance are cut by the set of visited classes.
Ancestors(g, id) ==
    LET above[k \in 0 .. Cardinality(g.nodes)] ==
          IF k = 0 THEN Parents(g, {id}) ELSE above[k - 1] \cup Parents(g, above[k - 1])
    IN  above[Cardinality(g.nodes)]

NamedException(name) == Within("exception", name) \/ Within("error", name)

ExceptionClass(g, n) ==
    /\ n.type = "Class"
    /\ \/ NamedException(Label(n))
       \/ \E a \in g.nodes : a.id \in Ancestors(g, n.id) /\ NamedException(Label(a))

IsException(g, n) ==
    \/ ExceptionClass(g, n)
    \/ /\ n.type = "Method"
       /\ \E c \in g.nodes : /\ ExceptionClass(g, c)
                             /\ \E e \in g.edges : /\ e.rel = "contains"
                                                   /\ e.source = c.id /\ e.target = n.id

IsDto(g, n) == LooksLikeDto(g, n) /\ ~IsException(g, n)

DegreeOf(g, n) ==
    Cardinality({e \in g.edges : e.source = n.id}) + Cardinality({e \in g.edges : e.target = n.id})

\* __init__: what is computed once of a graph.
Indexed(g) ==
    [nodes |-> g.nodes, degree |-> [n \in g.nodes |-> DegreeOf(g, n)],
     dtos  |-> {n \in g.nodes : IsDto(g, n)}]

-----------------------------------------------------------------------------
(* _is_entity_mentioned *)

InQuestion(term, q) == \E i \in DOMAIN q.question : Within(term, q.question[i])

\* The blanks of the question do not count.  A name of one word may stand inside a
\* longer word; of a longer name, the questions of the model only hold whole words.
SpelledAt(words, whole, i) ==
    IF Len(words) = 1 THEN Within(words[1], whole[i + 1])
    ELSE \A j \in DOMAIN words : words[j] = whole[i + j]

NameSpelled(name, q) ==
    LET words == IF Snake[name] = << >> THEN Camel[name] ELSE Snake[name]
        whole == q.spelled
    IN  InQuestion(Lower[name], q) \/ \E i \in 0 .. Len(whole) - Len(words) : SpelledAt(words, whole, i)

MethodWords(name) ==
    LET parts == Unstopped(ToSet(Snake[name])) IN IF parts = {} THEN {Lower[name]} ELSE parts

EntityMentionedInPart(n, q) ==
    \/ n.type = "Function" /\ ToSet(Camel[Label(n)]) \cap q.keywords # {}
    \/ n.type = "Class" /\ ToSet(Camel[Label(n)]) \cap q.keywords # {}
    \/ n.type = "Method" /\ ToSet(Camel[n.id[1]]) \cap q.keywords # {}

EntityMentioned(n, q) ==
    LET kws == q.keywords
    IN  \/ /\ n.type \in {"Class", "Function"}
           /\ NameSpelled(Label(n), q) \/ ToSet(Camel[Label(n)]) \subseteq kws
        \/ /\ n.type = "Method"
           /\ ToSet(Camel[n.id[1]]) \subseteq kws \/ InQuestion(Lower[n.id[1]], q)
           /\ MethodWords(n.id[2]) \subseteq kws \/ InQuestion(Lower[n.id[2]], q)

-----------------------------------------------------------------------------
(* rank_candidates *)

Points(condition, weight) == IF condition THEN weight ELSE 0

\* What one keyword adds; 0 is no hit.  An id that equals a keyword is its own
\* label, so the weight of an exact id is never given.
KeywordPoints(n, kw) ==
    IF Lower[Label(n)] = kw THEN W_EXACT_LABEL
    ELSE Points(Within(kw, Label(n)), W_PARTIAL_LABEL) + Points(WithinId(kw, n), W_PARTIAL_ID)
         + Points(kw \in ToSet(Snake[Label(n)]), W_SNAKE)

HitsAmong(n, kws) == {kw \in kws : KeywordPoints(n, kw) > 0}

BaseHits(n, q) == HitsAmong(n, q.keywords)

SubjectHits(n, q) == BaseHits(n, q) \ q.verbs

FirstPass(n, q) ==
    MapThenSumSet(LAMBDA kw : KeywordPoints(n, kw), HitsAmong(n, q.expanded))

CodeNode(n) == n.type \in {"Class", "Function", "Method"}

Callable(n) == n.type \in {"Function", "Method"}

FilePenalised(n, q) ==
    /\ n.type \in {"File", "Module"} /\ q.keywords \cap FileKeywords = {}
    /\ q.categories \cap NonFileIntents # {}

PrivatePenalised(n) ==
    \/ Label(n) \in Private
    \/ n.type # "File" /\ ToSet(Front(n.id)) \cap Private # {}

TypePoints(n, q) ==
    Points(CodeNode(n), W_NODE_TYPE_BASE) - Points(FilePenalised(n, q), 1200)
    - Points(Label(n) \in Dunder, 1500) - Points(PrivatePenalised(n), 400)
    + Points(n.type \in PreferredTypes(q.primary), W_INTENT_TYPE)
    + Points(Callable(n) /\ q.categories \cap CALLABLE_SUPREMACY_INTENTS # {},
             W_CALLABLE_BOOST)

VerbLabelled(n, q) ==
    CodeNode(n) /\ SubjectHits(n, q) # {} /\ Parts(Label(n)) \cap q.verbs # {}

CarriesPhrase(n, entry) == \E form \in entry.node_forms : WithinId(form, n)

PhrasePoints(n, q) ==
    W_PHRASE_MATCH * Cardinality({entry \in q.phrases : CarriesPhrase(n, entry)})

HotspotPoints(r, n) == 100 * (IF r.degree[n] > W_HOTSPOT_CAP THEN W_HOTSPOT_CAP ELSE r.degree[n])

DefinitionQuery(q) == \E i \in DOMAIN q.question : Lower[q.question[i]] \in DEFINITION_WORDS

DtoPointsSubtracted(r, n, q) ==
    IF n \notin r.dtos \/ EntityMentioned(n, q) THEN 0
    ELSE IF DefinitionQuery(q) THEN 0 - W_DTO_SOFTENED
    ELSE 0 - Points(q.categories \cap IMPLEMENTATION_INTENTS # {}, W_DTO_PENALTY)

\* adaptive_dto_penalty: waived, softened, full, or not due.
DtoPoints(r, n, q) ==
    IF n \notin r.dtos \/ EntityMentioned(n, q) THEN 0
    ELSE IF DefinitionQuery(q) THEN W_DTO_SOFTENED
    ELSE Points(q.categories \cap IMPLEMENTATION_INTENTS # {}, W_DTO_PENALTY)

ContentParts(n) == {i \in DOMAIN Snake[Label(n)] : Snake[Label(n)][i] \notin STOP_WORDS}

Covered(n, q) ==
    LET parts   == ContentParts(n)
        matched == {i \in parts : \E kw \in q.keywords :
                      Within(Snake[Label(n)][i], kw) \/ Within(kw, Snake[Label(n)][i])}
    IN  parts # {} /\ 100 * Cardinality(matched) >= 67 * Cardinality(parts)

CoveragePoints(n, q) ==
    Points(Cardinality(BaseHits(n, q)) >= 2, W_MULTI_KW_BONUS)
    + Points(q.primary # "unknown" /\ SubjectHits(n, q) # {}, W_SUBJECT_PRIORITY)
    + Points(Covered(n, q), W_LABEL_COVERAGE)
    + Points(BaseHits(n, q) = {}, W_GENERIC_PENALTY)

Score(r, n, q) ==
    FirstPass(n, q) + TypePoints(n, q)
    + Points(VerbLabelled(n, q), W_VERB_LABEL_BOOST) + PhrasePoints(n, q)
    + HotspotPoints(r, n) + DtoPoints(r, n, q)
    + Points(EntityMentioned(n, q), W_ENTITY_MENTION)
    + CoveragePoints(n, q)

\* Only a keyword makes a node a candidate: no boost does.
Candidates(r, q) == {n \in r.nodes : HitsAmong(n, q.expanded) # {}}

\* By score and then by id.
RankCandidates(r, q) ==
    LET found == Candidates(r, q)
        score == [n \in found |-> Score(r, n, q)]
    IN  Sorted(found, LAMBDA n, o : \/ score[n] > score[o]
                                    \/ score[n] = score[o] /\ IdBefore(n.id, o.id))

TopK(ranked, k) == SubSeq(ranked, 1, IF Len(ranked) < k THEN Len(ranked) ELSE k)
=============================================================================
