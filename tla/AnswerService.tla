---------------------------- MODULE AnswerService ----------------------------
(***************************************************************************)
(* POST /qa and /qa/stream from the request to the page that shows the     *)
(* answer.                                                                 *)
(* Every request runs in a thread of its own: it builds the semantic index *)
(* of its graph, or takes it from the cache on the disk                    *)
(* (SemanticIndex.build of backend/app/retrievers/hybrid_retriever.py and  *)
(* the embedding files of cache/repository_cache.py), retrieves, and sends *)
(* its events (stream_answer of rag/graphrag_engine.py, the endpoint in    *)
(* api/endpoints.py); the page reads them.  The pages of frontend/app.py   *)
(* have a timeout; those of frontend/index.html have none, but their user  *)
(* may abort them by asking again.  The server may crash, and the          *)
(* connections with it; the two files of the index are written one after   *)
(* the other, by whoever encodes.                                          *)
(*                                                                         *)
(* A graph is the sequence of its nodes and the state of their texts; a    *)
(* row of the embedding matrix is a node and the text it was made of.      *)
(***************************************************************************)
EXTENDS RankFusion

CONSTANTS
    Streams,       \* the requests to /qa/stream
    Plain,         \* the requests to /qa
    Timed,         \* the requests of app.py; the others are those of index.html
    Graphs,        \* the graphs a repository may have: [nodes, texts]
    Ranked,        \* the nodes of the rankings that are fused
    MaxLength,     \* bound on the length of a context text
    MaxTokens,     \* bound on the token limit of the context
    MaxChunks,     \* bound on the chunks of an answer
    MaxCrashes     \* bound on the crashes of the server

ASSUME AnswerServiceAssumption ==
    /\ Streams \cap Plain = {} /\ Timed \subseteq Streams /\ IsFiniteSet(Ranked)
    /\ MaxChunks \in Nat /\ MaxCrashes \in Nat

Requests == Streams \cup Plain

VARIABLES
    libraries,     \* what is installed: "sentence-transformers" or "none"
    keys,          \* whether a language model is configured
    matrix,        \* the file of the rows: Absent, Torn, or the rows
    node_ids,      \* the file of the node ids: Absent, Torn, or the ids
    thread,        \* request -> the thread that serves it
    sent,          \* request -> the events sent
    page,          \* request -> what its page has read and shows
    crashes        \* how often the server crashed

disk == <<matrix, node_ids>>

vars == <<libraries, keys, disk, thread, sent, page, crashes>>

Absent == [file |-> "absent"]

Torn == [file |-> "torn"]

File(content) == [file |-> "complete", content |-> content]

NoGraph == [nodes |-> << >>, texts |-> 0]

Rows(graph) == [i \in DOMAIN graph.nodes |-> <<graph.nodes[i], graph.texts>>]

\* encoder "none": _encoder=None of an index taken from the cache.
Index(ids, rows, encoder) == [ids |-> ids, rows |-> rows, encoder |-> encoder]

NoIndex == Index(<< >>, << >>, "none")

\* Before the first step of the request, and after the last.
Thread(pc) ==
    [pc |-> pc, graph |-> NoGraph, ids |-> << >>, index |-> NoIndex, embeddings |-> FALSE,
     found |-> FALSE, chunks |-> << >>]

Page(state) == [state |-> state, read |-> 0, accumulated |-> << >>]

\* A text is a sequence of chunks.
Event(type, text) == [type |-> type, text |-> text]

At(r, pc) == thread[r].pc = pc

Goto(r, pc) == thread' = [thread EXCEPT ![r].pc = pc]

-----------------------------------------------------------------------------
Init ==
    /\ libraries \in {"sentence-transformers", "none"} /\ keys \in BOOLEAN
    /\ matrix = Absent /\ node_ids = Absent
    /\ thread = [r \in Requests |-> Thread("idle")]
    /\ sent = [r \in Requests |-> << >>]
    /\ page = [r \in Requests |-> Page("idle")]
    /\ crashes = 0

\* The page asks; the endpoint has cloned the repository and has its graph.
Arrive(r) ==
    /\ At(r, "idle") /\ page[r].state = "idle"
    /\ \E graph \in Graphs, embeddings \in BOOLEAN :
         thread' = [thread EXCEPT ![r].pc = IF embeddings THEN "probe" ELSE "retrieve",
                                  ![r].graph = graph, ![r].embeddings = embeddings]
    /\ page' = [page EXCEPT ![r].state = "reading"]
    /\ UNCHANGED <<libraries, keys, disk, sent, crashes>>

\* has_embeddings.
Probe(r) ==
    /\ At(r, "probe")
    /\ Goto(r, IF matrix # Absent /\ node_ids # Absent THEN "read ids" ELSE "encode")
    /\ UNCHANGED <<libraries, keys, disk, sent, page, crashes>>

\* load_embeddings, the ids first.  A file that does not load: re-encoding.
ReadIds(r) ==
    /\ At(r, "read ids")
    /\ thread' = [thread EXCEPT
         ![r].pc  = IF node_ids.file = "complete" THEN "read matrix" ELSE "encode",
         ![r].ids = IF node_ids.file = "complete" THEN node_ids.content ELSE << >>]
    /\ UNCHANGED <<libraries, keys, disk, sent, page, crashes>>

\* The cache is taken when it names the nodes of the graph; their texts and the
\* number of rows are not looked at.
TakenFromCache(t) ==
    matrix.file = "complete" /\ ToSet(t.ids) = ToSet(t.graph.nodes)

\* Mutant of FromCache: an encoder is made for the rows as they are.
FromCacheWithModel(t) == Index(t.ids, matrix.content, "model")

FromCache(t) == Index(t.ids, matrix.content, "none")

ReadMatrix(r) ==
    /\ At(r, "read matrix")
    /\ thread' = [thread EXCEPT
         ![r].pc    = IF TakenFromCache(thread[r]) THEN "retrieve" ELSE "encode",
         ![r].ids   = << >>,
         ![r].index = IF TakenFromCache(thread[r]) THEN FromCache(thread[r]) ELSE NoIndex]
    /\ UNCHANGED <<libraries, keys, disk, sent, page, crashes>>

\* No node, no index: the endpoint answers 500, and no stream begins.
NothingToIndex(r) ==
    /\ At(r, "encode") /\ thread[r].graph.nodes = << >>
    /\ thread' = [thread EXCEPT ![r] = Thread("refused")]
    /\ UNCHANGED <<libraries, keys, disk, sent, page, crashes>>

Encoded(r, encoder) == Index(thread[r].graph.nodes, Rows(thread[r].graph), encoder)

Encode(r) ==
    /\ At(r, "encode") /\ thread[r].graph.nodes # << >>
    /\ libraries = "sentence-transformers"
    /\ thread' = [thread EXCEPT ![r].pc = "open matrix", ![r].index = Encoded(r, "model")]
    /\ UNCHANGED <<libraries, keys, disk, sent, page, crashes>>

\* Without the libraries, or when the model cannot be loaded; never cached.
EncodeSparse(r) ==
    /\ At(r, "encode") /\ thread[r].graph.nodes # << >>
    /\ thread' = [thread EXCEPT ![r].pc = "retrieve", ![r].index = Encoded(r, "vectorizer")]
    /\ UNCHANGED <<libraries, keys, disk, sent, page, crashes>>

\* save_embeddings: each file is truncated, then written; a failure is logged.
OpenMatrix(r) ==
    /\ At(r, "open matrix") /\ Goto(r, "write matrix")
    /\ matrix' = Torn
    /\ UNCHANGED <<libraries, keys, node_ids, sent, page, crashes>>

WriteMatrix(r) ==
    /\ At(r, "write matrix") /\ Goto(r, "open ids")
    /\ matrix' = File(thread[r].index.rows)
    /\ UNCHANGED <<libraries, keys, node_ids, sent, page, crashes>>

OpenIds(r) ==
    /\ At(r, "open ids") /\ Goto(r, "write ids")
    /\ node_ids' = Torn
    /\ UNCHANGED <<libraries, keys, matrix, sent, page, crashes>>

WriteIds(r) ==
    /\ At(r, "write ids") /\ Goto(r, "retrieve")
    /\ node_ids' = File(thread[r].index.ids)
    /\ UNCHANGED <<libraries, keys, matrix, sent, page, crashes>>

Saving == {"open matrix", "write matrix", "open ids", "write ids"}

SaveFails(r) ==
    /\ thread[r].pc \in Saving /\ Goto(r, "retrieve")
    /\ UNCHANGED <<libraries, keys, disk, sent, page, crashes>>

-----------------------------------------------------------------------------
\* query: an index without an encoder raises.
CanQuery(r) == thread[r].embeddings => thread[r].index.encoder # "none"

Send(r, event) == sent' = [sent EXCEPT ![r] = Append(@, event)]

\* context_builder.build, inside the generator: its exception becomes an event.
RetrievalFails(r) ==
    /\ At(r, "retrieve") /\ ~CanQuery(r)
    /\ Send(r, Event("error", << >>))
    /\ thread' = [thread EXCEPT ![r] = Thread("ended")]
    /\ UNCHANGED <<libraries, keys, disk, page, crashes>>

\* The keywords may find nothing; an index of any node finds a node.
Retrieve(r) ==
    /\ At(r, "retrieve") /\ CanQuery(r)
    /\ \E found \in BOOLEAN :
         /\ thread[r].graph.nodes = << >> => ~found
         /\ thread[r].embeddings => found
         /\ thread' = [thread EXCEPT ![r].pc = "begin", ![r].found = found]
    /\ UNCHANGED <<libraries, keys, disk, sent, page, crashes>>

\* _run_qa_pipeline: one response.  It retrieves a second time with the same index,
\* and so with the same result; a provider that fails or says nothing is a 500.
Respond(r) ==
    /\ At(r, "begin") /\ r \in Plain
    /\ \E ok \in BOOLEAN :
         /\ ~ok => keys /\ thread[r].found
         /\ Send(r, IF ok THEN Event("done", <<"word">>) ELSE Event("error", << >>))
    /\ thread' = [thread EXCEPT ![r] = Thread("ended")]
    /\ UNCHANGED <<libraries, keys, disk, page, crashes>>

\* The index is not looked at again.
Begin(r) ==
    /\ At(r, "begin") /\ r \in Streams
    /\ Send(r, Event("metadata", << >>))
    /\ thread' = [thread EXCEPT
         ![r] = Thread(IF ~keys THEN "offline" ELSE IF thread[r].found THEN "prompt" ELSE "no context")]
    /\ UNCHANGED <<libraries, keys, disk, page, crashes>>

\* Offline the context is the answer, found or not; without context a fixed text.
FixedText(pc) == IF pc = "offline" THEN "context" ELSE "no context"

\* Mutant of SendFixed: a missing return behind the fixed text.
SendFixedAndGoOn(r) ==
    /\ thread[r].pc \in {"offline", "no context"}
    /\ LET text == FixedText(thread[r].pc)
       IN  IF thread[r].chunks = << >>
           THEN /\ Send(r, Event("token", <<text>>))
                /\ thread' = [thread EXCEPT ![r].chunks = <<text>>]
           ELSE /\ Send(r, Event("done", <<text>>))
                /\ Goto(r, "prompt")
    /\ UNCHANGED <<libraries, keys, disk, page, crashes>>

SendFixed(r) ==
    /\ thread[r].pc \in {"offline", "no context"}
    /\ LET text == FixedText(thread[r].pc)
       IN  IF thread[r].chunks = << >>
           THEN /\ Send(r, Event("token", <<text>>))
                /\ thread' = [thread EXCEPT ![r].chunks = <<text>>]
           ELSE /\ Send(r, Event("done", <<text>>))
                /\ thread' = [thread EXCEPT ![r] = Thread("ended")]
    /\ UNCHANGED <<libraries, keys, disk, page, crashes>>

\* What the provider streams: words, blanks, and empty chunks, which are dropped.
ReceiveChunk(r) ==
    /\ At(r, "prompt") /\ Len(thread[r].chunks) < MaxChunks
    /\ \E chunk \in {"word", "blank"} :
         /\ thread' = [thread EXCEPT ![r].chunks = Append(@, chunk)]
         /\ Send(r, Event("token", <<chunk>>))
    /\ UNCHANGED <<libraries, keys, disk, page, crashes>>

\* strip(): without the blanks before and behind the words.
Strip(chunks) ==
    LET leading  == {i \in DOMAIN chunks : \A j \in 1 .. i : chunks[j] = "blank"}
        trailing == {i \in DOMAIN chunks : \A j \in i .. Len(chunks) : chunks[j] = "blank"}
    IN  SubSeq(chunks, Cardinality(leading) + 1, Len(chunks) - Cardinality(trailing))

\* Mutant of Finish: no look at what was accumulated.
FinishAnyway(r) ==
    /\ At(r, "prompt") /\ thread' = [thread EXCEPT ![r] = Thread("ended")]
    /\ Send(r, Event("done", Strip(thread[r].chunks)))
    /\ UNCHANGED <<libraries, keys, disk, page, crashes>>

\* A stream that ends without a word ends with an error.
Finish(r) ==
    /\ At(r, "prompt") /\ thread' = [thread EXCEPT ![r] = Thread("ended")]
    /\ Send(r, IF Strip(thread[r].chunks) = << >> THEN Event("error", << >>)
               ELSE Event("done", Strip(thread[r].chunks)))
    /\ UNCHANGED <<libraries, keys, disk, page, crashes>>

ProviderFails(r) ==
    /\ At(r, "prompt") /\ thread' = [thread EXCEPT ![r] = Thread("ended")]
    /\ Send(r, Event("error", << >>))
    /\ UNCHANGED <<libraries, keys, disk, page, crashes>>

\* Everything in memory is lost, and every connection; the files stay as they are.
Crash ==
    /\ crashes < MaxCrashes
    /\ crashes' = crashes + 1
    /\ thread' = [r \in Requests |-> IF thread[r].pc \in {"idle", "ended", "refused"} THEN thread[r]
                                     ELSE Thread("lost")]
    /\ UNCHANGED <<libraries, keys, disk, sent, page>>

-----------------------------------------------------------------------------
\* _ask_streaming.
Reading(r) == page[r].state = "reading"

Pending(r) == page[r].read < Len(sent[r])

NextEvent(r) == sent[r][page[r].read + 1]

\* Mutant of ReadEvent: the blank line behind an event counted as one more.
ReadEventAndBlank(r) ==
    /\ Reading(r) /\ Pending(r)
    /\ page' = [page EXCEPT ![r].read = @ + 2,
                            ![r].state = IF NextEvent(r).type = "done" THEN "answered" ELSE @]
    /\ UNCHANGED <<libraries, keys, disk, thread, sent, crashes>>

ReadEvent(r) ==
    /\ Reading(r) /\ Pending(r)
    /\ page' = [page EXCEPT
         ![r].read = @ + 1,
         ![r].accumulated = IF NextEvent(r).type = "token" THEN @ \o NextEvent(r).text ELSE @,
         ![r].state = CASE NextEvent(r).type = "done"  -> "answered"
                        [] NextEvent(r).type = "error" -> "failed"
                        [] OTHER -> @]
    /\ UNCHANGED <<libraries, keys, disk, thread, sent, crashes>>

Over(r) == thread[r].pc \in {"lost", "ended", "refused"}

\* Mutant of GiveUp: without the timeout of the request.
GiveUpWhenBroken(r) ==
    /\ Reading(r) /\ (Pending(r) => At(r, "lost")) /\ Over(r)
    /\ page' = [page EXCEPT ![r].state = "failed"]
    /\ UNCHANGED <<libraries, keys, disk, thread, sent, crashes>>

\* No stream, a broken one, or, for app.py, none that goes on for 300 seconds; what a
\* server that crashed had sent may not arrive.
GiveUp(r) ==
    /\ Reading(r) /\ (Pending(r) => At(r, "lost")) /\ (r \in Timed \/ Over(r))
    /\ page' = [page EXCEPT ![r].state = "failed"]
    /\ UNCHANGED <<libraries, keys, disk, thread, sent, crashes>>

\* index.html: the user asks again while the page waits.
Abort(r) ==
    /\ Reading(r) /\ r \notin Timed
    /\ page' = [page EXCEPT ![r].state = "failed"]
    /\ UNCHANGED <<libraries, keys, disk, thread, sent, crashes>>

Serve(r) ==
    \/ Probe(r) \/ ReadIds(r) \/ ReadMatrix(r) \/ NothingToIndex(r) \/ Encode(r) \/ EncodeSparse(r)
    \/ OpenMatrix(r) \/ WriteMatrix(r) \/ OpenIds(r) \/ WriteIds(r) \/ SaveFails(r)
    \/ RetrievalFails(r) \/ Retrieve(r) \/ Respond(r) \/ Begin(r) \/ SendFixed(r)
    \/ ReceiveChunk(r) \/ Finish(r) \/ ProviderFails(r)

Read(r) == ReadEvent(r) \/ GiveUp(r)

Next == (\E r \in Requests : Arrive(r) \/ Serve(r) \/ Read(r) \/ Abort(r)) \/ Crash

\* A page reads what arrives, sees the end of the connection, and that of app.py has a
\* timeout.  Of the server, and of the users, nothing is assumed.
Fairness == \A r \in Requests : WF_vars(Read(r))

Spec == Init /\ [][Next]_vars /\ Fairness

-----------------------------------------------------------------------------
(* Properties *)

PCs ==
    {"idle", "probe", "read ids", "read matrix", "encode", "retrieve", "begin", "prompt",
     "offline", "no context", "ended", "refused", "lost"} \cup Saving

States == {"idle", "reading", "answered", "failed"}

Chunks == {"word", "blank", "context", "no context"}

Events == [type : {"metadata", "token", "done", "error"}, text : Seq(Chunks)]

GraphSet == Graphs \cup {NoGraph}

IdSet == {g.nodes : g \in GraphSet}

RowSet == {Rows(g) : g \in GraphSet}

Indices == [ids : IdSet, rows : RowSet, encoder : {"model", "vectorizer", "none"}]

Threads ==
    [pc : PCs, graph : GraphSet, ids : IdSet, index : Indices, embeddings : BOOLEAN,
     found : BOOLEAN, chunks : Seq(Chunks)]

Pages == [state : States, read : Nat, accumulated : Seq(Chunks)]

TypeOK ==
    /\ libraries \in {"sentence-transformers", "none"} /\ keys \in BOOLEAN
    /\ matrix \in {Absent, Torn} \cup {File(rows) : rows \in RowSet}
    /\ node_ids \in {Absent, Torn} \cup {File(ids) : ids \in IdSet}
    /\ thread \in [Requests -> Threads]
    /\ sent \in [Requests -> Seq(Events)]
    /\ page \in [Requests -> Pages]
    /\ \A r \in Requests : page[r].read <= Len(sent[r])
    /\ crashes \in 0 .. MaxCrashes

Terminal(event) == event.type \in {"done", "error"}

\* The order of the events the endpoint documents: metadata before the first token,
\* and one terminal event, with nothing behind it, whenever a stream is complete.
StreamInOrder ==
    \A r \in Streams :
      /\ \A i \in DOMAIN sent[r] :
           /\ Terminal(sent[r][i]) => i = Len(sent[r])
           /\ sent[r][i].type = "metadata" <=> i = 1 /\ sent[r][1].type # "error"
      /\ At(r, "ended") => sent[r] # << >> /\ Terminal(Last(sent[r]))

\* A page that shows an answer has the whole of it: every token between the metadata and
\* the done event, whose text is what the page accumulated but for the blanks around it,
\* and not empty.
AnswersAreWhole ==
    \A r \in Streams :
      page[r].state = "answered" =>
        /\ Last(sent[r]).type = "done"
        /\ Last(sent[r]).text = Strip(page[r].accumulated)
        /\ Strip(page[r].accumulated) # << >>
        /\ Len(page[r].accumulated) = Len(sent[r]) - 2

\* A search by meaning is in the rows of the nodes of its graph and of their present
\* texts, whatever older graphs, crashes and other requests left on the disk.
SearchesWhatIsAsked ==
    \A r \in Requests :
      At(r, "begin") /\ thread[r].embeddings =>
        /\ thread[r].index.ids = thread[r].graph.nodes
        /\ thread[r].index.rows = Rows(thread[r].graph)

\* The rankings of some of the nodes, and the state that the two pure algorithms of
\* RankFusion are checked in, over all their bounded inputs.
Rankings == UNION {{q \in [1 .. k -> Ranked] : IsInjective(q)} : k \in 0 .. Cardinality(Ranked)}

AtTheStart ==
    libraries = "none" /\ ~keys /\ crashes = 0 /\ \A r \in Requests : page[r].state = "idle"

\* A node that neither ranking puts behind another, and one puts before it, is before
\* it in the fusion, also when a ranking leaves one or both of them out.
IsBefore(ranking, x, y) ==
    \E i \in DOMAIN ranking :
      ranking[i] = x /\ \A j \in DOMAIN ranking : ranking[j] = y => i < j

FusionRespectsAgreement ==
    AtTheStart =>
      \A kw \in Rankings, sem \in Rankings : \A x, y \in Ranked :
        /\ IsBefore(kw, x, y) \/ IsBefore(sem, x, y)
        /\ ~IsBefore(kw, y, x) /\ ~IsBefore(sem, y, x)
        => Less(ScoreOf(y, kw, sem, Cardinality(Ranked)), ScoreOf(x, kw, sem, Cardinality(Ranked)))

\* A text within the limit is left alone; of a longer one the longest prefix stays that
\* leaves room for the marker.  The whole then has exactly one token more than the limit,
\* which dividing by four loses, or the tokens of the marker if the limit has no more: not
\* the "maximum number of tokens in the returned string (including the truncation marker,
\* if added)" of the docstring, and 101 where a test asserts at most 100.
TrimmingIsTight ==
    AtTheStart =>
      \A length \in 0 .. MaxLength, limit \in 0 .. MaxTokens :
        LET t == Trimmed(length, limit)
        IN  /\ t.marker <=> CountTokens(length) > limit
            /\ ~t.marker => t.kept = length
            /\ t.marker =>
                 /\ t.kept \in 0 .. length - 1
                 /\ CountTokens(t.kept) <= BudgetOf(limit)
                 /\ CountTokens(t.kept + 1) > BudgetOf(limit)
                 /\ CountTokens(TrimmedLength(t)) =
                      IF limit <= MarkerTokens THEN MarkerTokens ELSE limit + 1

\* What SemanticIndex.build says of an index without an encoder: that it is "not
\* needed for cached queries".
CachedIndexAnswers == \A r \in Requests : At(r, "retrieve") => CanQuery(r)

\* No page of app.py waits for ever: it gets its answer or says that there is none,
\* although the server may crash and the provider may hang.  A page of index.html has no
\* timeout, and settles once the server is done with its request, or gone.
EveryPageSettles ==
    /\ \A r \in Timed :
         page[r].state = "reading" ~> page[r].state \in {"answered", "failed"}
    /\ \A r \in Requests \ Timed :
         page[r].state = "reading" /\ Over(r) ~> page[r].state \in {"answered", "failed"}
=============================================================================
