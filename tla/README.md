# RepoGraphAI: verification project

RepoGraphAI answers questions about a GitHub repository. A FastAPI service clones the
repository, parses it into a graph of symbols and relationships, caches the graph, selects
the part of the graph a question needs, and hands it to an LLM as context. It has two
clients: a Streamlit app (`frontend/app.py`) and a page the service itself serves at "/"
(`frontend/index.html`, by `backend/app/main.py:108-112`). This directory holds TLA+ models of
the parts of that program where the order of things matters, TLC configurations that check them
on small instances, and proofs that TLAPS checks for every instance.

Source paths below are relative to `src/`. `PROJECT.json` lists, for every definition, the
lines it stands for, every run with its properties, every hazard with the properties that
cover it, and the theorems.

1. [The system](#1-the-system)
2. [Modules and code](#2-modules-and-code)
3. [Runs](#3-runs)
4. [Fairness](#4-fairness)
5. [Proofs](#5-proofs)
6. [Where the code and its documentation part](#6-where-the-code-and-its-documentation-part)
7. [What is not modelled](#7-what-is-not-modelled)
8. [Plan](#8-plan)

To repeat a run: `tlc -config GraphCache.cfg MCGraphCache.tla`; to repeat the proofs:
`tlapm GraphCacheProofs.tla`.

## 1. The system

One service process serves everything. The endpoints that clone or parse are run in the
thread pool, or push that work to it; what they share are the directories `repos/<name>` and
`.cache/<name>_<hash>`, and three in-memory stores (limiter, sessions, jobs).

    app.py      --HTTP--> endpoints --> clone_repository --git--> repos/<name>
      session_state          |               (lock per name)           |
    index.html  --fetch-->   |                                     read, unlocked
      sessionId              +--> generate_graph <---------------------+
                                |        |  ^
     _session_store             |        v  | unlocked
     _job_store                 |    .cache/<name>_<hash>/{graph, hash, commit, embeddings}
     limiter deques             |
                                |
                                +--> ContextBuilder --> retrievers --> GraphRAGEngine --> LLM

| component | state | operations | what is hard | what makes it correct |
| --- | --- | --- | --- | --- |
| Rate limiter, `core/security.py` | a deque of admission times per client, under a lock | `check` | the clock is read before the lock; strict and truncated comparisons | never more than the limit in a window, no rejection before it, an honest Retry-After |
| Clone service, `services/repository_service.py` | the directories, one lock per name | `clone_repository` (fetch, compare, pull, rmtree, clone, size) | several owners under one name; pushes between two git commands; failed and killed git commands; hung ones | what is returned is what was asked for, current and complete; every request gets an answer if git does |
| Graph cache, `cache/repository_cache.py`, `services/graph_services.py` | graph, fingerprint and commit files | `generate_graph` (fingerprint, validate, compare, load, parse, save) | nothing is locked: the tree moves under the parser, two requests save over each other, the process dies between two files | a cache that validates is the graph of the tree; what is served is never an older graph |
| Sessions, `api/endpoints.py`, `frontend/app.py`, `frontend/index.html` | session store; `session_state` of a browser of the app, `sessionId` of a page | create, question, history, rebuild after a 404, stream, clear | timeouts whose late answer is still appended, restarts, scripts ended between two assignments, fields that change one at a time | answers are about the repository asked about, follow-ups see the conversation, the script ends |
| Jobs, `api/endpoints.py`, `cache/job_store.py` | a dict, or a SQLite file with a connection per thread | submit, background task, poll | restarts, several processes, transactions left open | statuses follow each other, a job ends once, a client never sees it go back, a poll ends |
| Parsers, graph builder, views, `parsers/`, `graph/` | parsed files; registry of names, nodes by id, edges | walks, extraction, three passes, filtered views | files in any order, names of several symbols, ids that clash, pruning that looks at nodes only | the graph says what the source says, edges join nodes, views are graphs of their own |
| Subgraph retrieval, `retrievers/code_retriever.py` | queue, hops per path, admitted nodes | `get_subgraph`, `get_subgraph_for_intent`, context lookups | cycles, several paths to a node, edges that lead out of the graph | what is admitted is within its budget, all that is within it is admitted, the loop ends |
| Context policy, `rag/context_builder.py` | none | budgets of the intents, merge, scaling, seeding, text | the cap at 3 that `max_hops = 1` is exempt from | more intents or more hops never see less; seeding keeps the matches |
| Query resolution, `retrievers/query_resolver.py`, `hybrid_retriever.py` | what is computed of a graph at once; the embedding matrix and its two files | keywords, intents, data containers, scores, ranking; index, save, load, fuse | fifteen weights that lean on each other; files written one after the other; a cache keyed by ids and not by text | implementation before data, what is named comes first, the search is in the rows of the graph at hand |
| Answer generation, `rag/graphrag_engine.py`, `core/token_utils.py`, `api/endpoints.py`, `frontend/app.py`, `frontend/index.html` | the thread of a request, the events sent, the page | retrieve, stream, finish, fail, read, give up; truncation | errors at any point of the stream, crashes, silence, limits reached by the marker itself | one terminal event, an answer shown is whole, every page of the app ends, the others when the server does |
| Launcher, pages, evaluation, scripts | none shared | | | |

**How they interact.** A question about a repository goes limiter → clone → graph → subgraph
→ LLM. The clone service and the graph cache meet in the directory: `clone_repository`
releases its lock when it returns, and `generate_graph` reads the directory after that.
GraphCache therefore sees the clone service as an environment that pulls and re-clones, and
CloneService sees the parser as a step outside the lock. The clients and the endpoints meet in
requests that either side may leave. The app's requests have timeouts, the page's have none.

## 2. Modules and code

Every component has a module, an `MC` module with the model values of its runs, and a
`Proofs` module with its theorems. What several requests share is modelled apart, one module
per shared thing: RateLimiter, CloneService, GraphCache, ChatSession, AnswerService, and QAJobs,
which implements JobLifecycle; CloneService implements Mirror. What one request computes is a
chain of extensions (RepositoryPipeline extends NodeContext and QueryResolver, and both use
IdOrder):

    Parsers <- GraphBuilder <- NodeContext <---- RepositoryPipeline
                               IdOrder <-------- QueryResolver -> QueryTables
    ContextPolicy <- SubgraphRetrieval           RankFusion <- AnswerService

**RateLimiter** (`_SlidingWindowLimiter`). `deque` is `_store`; `admitted` and `rejected` are
history. `check` is `ReadClock` and then, under the lock, `Admit` or `Reject`: between the
two another caller may run. `Expires` is the loop that pops old entries; `Second` is the
number of clock ticks of a second, so that the truncation of `retry_after` to whole seconds
is visible. In the application every call comes from a dependency on the event loop, so there
is one caller.

**GraphCache** (`generate_graph`). One worker per request, one step per file operation:
`Start` takes the fingerprint; `Validate`, `Compare`, `Load` decide about the cache;
`Detect` chooses the language and `ParseFile` reads the files one by one; `OpenGraph`,
`WriteGraph`, `OpenHash`, `WriteHash`, `ReadHead`, `OpenCommit`, `WriteCommit` are the
truncation and the write of the three files. `Pull` and `Reclone` are what the clone service
does to the tree. `SaveFails` is the logged `OSError`, `Crash` the death of the process. A
file's content is the number of the commit that wrote it, its mtime the number of the
checkout: two checkouts never produce the same mtime, as nanosecond stamps do not.

**CloneService** (`clone_repository`). A worker goes `Ask`, `Acquire`, then `Fetch`, `Pull`
when the directory is there, `Clone`, `CloneRefs`, `Checkout`, `Size` when it is not, and
`Remove`, `Removed` on every way from the first to the second; `Return` or `Raise` leave the
lock. A directory is absent, partial (git cannot open it), bare (refs right, files missing)
or ready. `Push` moves a branch, or starts a new line of history (a force push). `Parse` and
`Answer` are the caller, outside the lock. The faults are those of the network, of the disk
and of the process. The steps of `GitSteps` wait for git and may be waited in for ever: the
code has one timeout, `Alarm`, which rings for a fresh clone of a thread of `MainThread` only.

**Mirror** is what the lock of `clone_repository` promises: a directory that is brought up to date
in one instant (`Refresh`), while nobody relies on it, and neither moved nor dropped until the call
returns the commit in it. `CloneService!Mirrored` maps the detailed service to it: a directory git
can open holds its commit, any other holds nothing; a call goes from asking to holding with the
comparison that finds the clone current, the pull, or the refs of the fresh clone, and from there
or from asking to failing with whatever makes it raise. A caller that has parsed relies on the
directory no more: what may happen between the return and the parse is `clone_owner`.

**ChatSession** (the chat part of `frontend/app.py`, the session mode of `frontend/index.html` and
the session endpoints). A browser runs one of the two `Clients`. `After` is the control flow from
the reply of one request to the next: the app creates, asks, rebuilds once after a 404, streams; the
page creates or asks, and streams with its session mode off. `HasSession` is where they differ most:
the app compares the session's `last_repo` with its field, the page takes the session it has.
`Noted` is what a reply leaves with the client. In the app a new session is noted in two steps, its
id and then, in the phase `note` or `renote`, its repository (`_create_session`, `app.py:762-764`):
Streamlit may end the script at every access of the `session_state`. `Interrupt` does so in any
phase; what it leaves between the two is a session marked `torn`, which nobody in the program can
see. `Cleared` is every way a clear may end, half-done ones included. On the server,
`SessionQA` reads the history, `Answer` calls the LLM, `AppendHistory` appends: three steps
between which the browser may give up (`Timeout` of the app, `Interrupt`), leaving a `stray` question
that is still served. `Restart` empties the store. The user edits the repository field by
`TypeRepo`; in the app an edit during a run is `Interrupt` and then `TypeRepo`. `llm` is whether a
provider is configured: without one the history does not grow. A page asks one question at a time,
as its button allows.

**QAJobs** and **JobLifecycle** (`/qa/async`). JobLifecycle is the abstract promise: a job is
queued, runs, ends once, and may be lost. QAJobs is the endpoint (`Submit`), its background
task (`Begin`, `Finish`), the polling client (`Poll`) and the death of a process (`Restart`),
over either store: `durable` chooses at the start. A handler or a task calls its store between
two awaits of the event loop, so a call is one step. `PersistentJobStore` is written to replace
the store of the endpoints and is not wired in yet; it is modelled as it would be used there,
by several worker processes. Its calls never roll back: `WriteFails` is a statement that fails
on a locked database and leaves the connection in the transaction Python began, `AfterRead` is
the read that then fixes a snapshot. Python's `sqlite3` behaves so with a file in WAL mode.

**ContextPolicy** (the policies of `rag/context_builder.py`). The seventeen policies as
functions from relationships to hops, their merge (`PolicyForIntent`) and their scaling
(`ScaledLimits`). `default_hops` does not appear: every policy names all seven relationships,
so the code never consults it.

**SubgraphRetrieval** (`get_subgraph`, `get_subgraph_for_intent`). `Init` chooses a graph, the
seeds and a question; `Hop` is a round of the uniform expansion; `Expand` is one edge of the
node at the head of the queue, in the order of the adjacency list, `NextNode` the next node.
Edges may lead to names that are no nodes, as the builder's do. The seeds enter the queue in
any order, as a Python set gives them.

**Parsers** (`parsers/`, `_detect_language`). A source file is its syntax tree, flat: a set of
declarations, each with the one it stands in. `CodeParserParseFile` and `TSParseFile` are what
the two parsers make of it: the first looks at what stands at the top of a file and of a class,
the second at everything, however deep; they differ in what they call a call, a base, an import.
`Visit` is the walk over the directories, `DetectLanguage` the vote on the language.

**GraphBuilder** (`build_graph`). `Parse`, `Register`, `Emit` and `Prune` are the loop bodies and
the passes, one file at a time: the registry of the names the repository defines, the nodes and
edges of a file under the whole registry, and the pruning of the nodes no edge mentions. A node's
id is the sequence of the names its dots separate, so that the class `A`, the module `A` and the
function `A` have one id, as they do in the code; `AddNodes` keeps the first. `FilterGraph` and
the three views, `Degree` and `ImportGraph` are operators of the graph that is done.

**NodeContext** (`code_retriever.py`). What `get_class_context` and `get_callable_context` tell of
a node, from the two adjacency indices. **IdOrder** is the order of the ids, which breaks ties.

**QueryTables** and **QueryResolver** (`query_resolver.py`). The tables hold, of the words the
model's questions are made of, every entry of the code, and all the weights (in hundredths). How a
text is split is data: constants give its lower case, the words in its camelCase, its stem. From
there everything is computed as in the code: `Keywords`, `Phrases`, `Detected`, `Categories`,
`Expanded`, the data containers (`IsDto`, with the exemption of exceptions and of the infrastructure
of graphs), and `Score`, the two passes and their fifteen weights. The order of a `frozenset` breaks
the ties between intents that only phrases found; `PrimaryChoices` is then any of them.

**RepositoryPipeline** composes them to one request: `Build` is GraphBuilder, `MakeResolver` the
constructor of the resolver, `Ask` and `Resolve` the question and its ranking, `Augment` the seeding
of an overview question with structural nodes. As a test of the translation, the operators were
evaluated beside the Python functions they stand for: on 540 repositories for the graph, and on 1656
pairs of graph and question for the ranking with its scores; they agree.

**RankFusion** (`HybridQueryResolver`, `trim_to_token_limit`). The fusion of two rankings by their
reciprocal ranks, in exact fractions, and the truncation of a text of some length to a number of
tokens, with its binary search, for the count of tokens the code has without `tiktoken`.

**AnswerService** (`/qa`, `/qa/stream` and the page). A request is a thread, a sequence of events
sent, and a page that reads it. `pc` runs through the cache of the index (`Probe`, `ReadIds`,
`ReadMatrix`), the encoding and the two files written one after the other (`Encode`, `OpenMatrix` to
`WriteIds`, `SaveFails`), the retrieval, and the stream (`Begin`, `SendFixed`, `ReceiveChunk`,
`Finish`, `ProviderFails`). `ReadEvent`, `GiveUp` and `Abort` are the page. The pages in `Timed`
are the app's, which reads `/qa/stream` with a timeout of 300 s; the others are those of
`index.html`, which reads the stream or `/qa` without one: it gives up when the connection ends
(`Over`), or when its user asks again by Ctrl+Enter (`Abort`). `Crash` takes the threads and
the connections and leaves the files. A graph is its nodes and the state of their texts, a row
of the matrix the node and the text it was made of, so that a stale row can be seen.

## 3. Runs

| run | property | what it would take to break it |
| --- | --- | --- |
| `limiter` | `WindowBound`, `RejectedOnlyAtLimit`, `RetryAfterSuffices` | an entry that expires too early or too late; a Retry-After a second too short |
| `cache` | `StaleOnlyWhenUnresolvable` | a request served an older graph, while the tree only moves between requests, to a tree with a Python file or with a commit git can resolve |
| `cache_overlap` | `ValidCacheIsCurrent` | a new fingerprint beside an old graph after a move under the parser, a crash, a failed save |
| `clone` | `ReturnsWhatWasAsked`, `ReturnsCompleteTree`, `EveryRequestAnswered`, `UpdatesAtOnce` | a path returned for the wrong owner or an old commit; a lock kept; an alarm that leaves its clone waiting; a directory that moves under a call that relies on it |
| `chat` | `OnlyTornSessionsMislead`, `FollowUpSeesTheChat`, `NoAnswerTwice`, `EveryQuestionEnds` | a session of the app used for another repository, though its repository was noted; a late answer in the wrong history; an endless rebuild |
| `subgraph` | `UniformIsExact`, `AdmittedInBudget`, `ExpansionEnds` | a hop too many, a relationship followed that has no budget, a cycle that never ends |
| `jobs` | `ImplementsLifecycle`, `PollsMoveForward`, `EveryPollEnds` | a status stored out of order; an old row served after a newer one; a job nobody ends |
| `graph` | `HierarchyIsTheSource`, `OwnedSymbolsOnly`, `GraphAndViewsAreClosed`, `ContextTellsTheSource` | a file that is emitted before what it names is registered; a foreign name taken for one's own; a view with edges that lead out of it; a caller taken for a callee |
| `graph` | `ImplementationBeatsData`, `NamedIsFound`, `OverviewKeepsMatches` | a weight that outdoes the penalty of data containers; a partial match above the thing that is named; a match lost or doubled by the seeding |
| `answers` | `StreamInOrder`, `AnswersAreWhole`, `EveryPageSettles` | an event behind the terminal one; an empty answer; a token lost on the way; a page of the app that waits for a dead or hanging server, a page of `index.html` that waits for a finished one |
| `answers` | `SearchesWhatIsAsked` | rows of another graph or of older texts, from a cache torn by a crash, mixed by two savers, or out of date |
| `answers` | `FusionRespectsAgreement`, `TrimmingIsTight` | a missing node ranked too well; a prefix too long or too short by one; a text over its limit by more than what the division by four loses |
| `clone_owner`, `subgraph_complete`, `embeddings_cached` | one each | violated: see section 6 |

Each module's `TypeOK` is checked by one run of it. Those of the chat and of the subgraph also
say that a prompt holds no more than the last turns, and that no node is expanded after more
hops than its budget; that of the graph, that no two nodes have one id; that of the answers, that
no page reads behind what was sent.

**Bounds.**

- `limiter`: 2 clients, 1 caller, 2 requests per window of 3 ticks, 2 ticks in a second, 7
  ticks. The window is no whole number of seconds, so truncation matters, and there is time
  for two windows and the wait after a rejection. Two clients, because the deques must not mix.
- `cache`: 2 workers, one Python and two TypeScript files, each there or not at first, so that either
  language may have the majority or be missing; 2 commits, 4 checkouts, `Quiet`: the tree moves
  between requests only, and nothing is deleted. Two commits are an older graph and the present one,
  four checkouts a pull and re-clones around it. 566,000 states with symmetry of the workers and of
  the two TypeScript files.
- `cache_overlap`: 1 worker, 2 Python files that appear, change and disappear, crashes and
  failed saves, 3 commits and 3 checkouts: the tree may move twice during a build and the next
  request meets what was left.
- `clone`: 2 workers, one of them the main thread (where the alarm works), 2 URLs of one name,
  3 requests, 1 push, all faults. Three requests leave a bad directory, find it, and wait for
  it. 180,000 states.
- `chat`: 1 browser of either client, 2 repositories, a prompt of 2 turns (5 in the code), 4 questions, 2
  sessions, 1 restart. Four questions overflow the prompt; two sessions are a rebuild.
  Browsers share nothing but the store of ids. 659,300 states.
- `subgraph`: every graph of at most 3 edges over 4 names, one of them no node, calls and
  contains; up to 2 seeds; 4 kinds of question: uniform, one that excludes contains, a merge
  of two policies, and a scaled and capped one. Three edges make a cycle with a
  chord, two parallel edges, a self-call. 486,000 states.

- `graph`: 1342 repositories. Six files of declarations (a class with its methods and base; a
  second class that the first one extends; functions with a nested one and decorators; declarations
  under an `if` and of an excluded name; clashing names; an exception) are combined to two files with
  every choice of imports, and to three files without, in every order and either language; a third
  family varies what the walks look at (hidden and skipped directories, depth, files that do not
  parse, a missing tree-sitter, mixed languages). Six of them are asked every question of one or two
  of 14 words, with 1 to 4 results wanted: the words cover implementation, definition and overview
  questions, a phrase, names in both spellings, synonyms and stop words. Three files are enough for a
  name used before, beside and behind its definition, defined once or twice. 25,700 states.
- `answers`: one stream and one plain request, three graphs (two nodes, the same nodes with other
  texts, none), 2 chunks, 1 crash. Two requests are a saver and a reader, or two savers; two chunks
  are a word between or beside blanks. The fusion is checked on every pair of rankings of up to four
  nodes, the truncation on every length to 80 and limit to 16 (the marker has 11 tokens).
  300,400 states.
- `jobs`: 2 jobs, 2 processes, 2 restarts, lock timeouts at every write. Two jobs, because the
  write of one is what freezes or frees the connection the other is read through. 16,000 states.

Every configuration sets `CHECK_DEADLOCK FALSE`: the bounds stop the models (a user asks no
more, the clock stops), and the expansion is over when its queue is empty.

## 4. Fairness

- CloneService. Weak fairness of what the service does itself (`Own`): a thread that can run runs, and
  the alarm of the main thread rings. Nothing is assumed of git: the code has a timeout for a fresh
  clone in the main thread only, and none for fetch and pull. `EveryRequestAnswered` has the condition
  instead: no thread stays for ever where it may hang (`MayHang`: a fetch or a pull, and outside the
  main thread a clone). Without it one hung command keeps the lock, and everybody behind it waits. A
  clone of the main thread is not in the condition: the alarm ends it. A `threading.Lock` is not
  fair: weak fairness of taking it is enough because the requests are bounded, so that nobody
  can be overtaken for ever.
- ChatSession. Weak fairness of the client's steps only. Every request of the app has a timeout (300 s
  to create a session, 120 s for a question), so its script goes on even when the server
  hangs. The stream's timeout is per read; that it ends is an assumption (a server that sends
  a token every two minutes for ever would keep it). The page has no timeout: `Timeout` is not
  its action, and `EveryQuestionEnds` is about the app.
- QAJobs. The event loop runs its tasks, a pipeline ends (an assumption about git and
  the LLM provider), and a client that waits goes on polling. Which process answers a
  poll is not assumed.
- SubgraphRetrieval. Weak fairness of `Next`: the expansion is a loop.
- AnswerService. Weak fairness of the page's reading only: in the app `requests` has a timeout of 300 s
  between two reads, and any client sees the end of a connection. Of the server, the provider and the
  disk nothing is assumed, so a page of the app must settle although the server hangs; one of
  `index.html` must settle once the server is done with its request or gone (`Over`), and may wait for
  a hanging one. That the user asks again is not assumed. A provider that sends for ever is
  cut off by `MaxChunks`.

## 5. Proofs

All theorems hold for every value of the constants that satisfies the named assumption of the
module. Four assumptions are about data: the texts of a repository are finite (`FiniteAssumption`:
a syntax tree, an import list, the names), what is made of a text is texts (`TextsAssumption`), a
question is made of texts and the file of every node has a priority (`PipelineAssumption`), and the
edges of a graph have the seven types of `RelationshipType` (`RetrievalAssumption`). The
theorems about contexts and answers have one hypothesis more, `Ordered(Seq(Names))`: the ids
are in a strict total order. In the code ids are strings and Python orders them; the model leaves
the order open (`IdBefore`), and TLC checks it on the ids of the run (`OrderedAssumption`).

| module | theorem | states |
| --- | --- | --- |
| RateLimiterProofs | `LimiterWindowBound`, `LimiterRejectsAtLimit`, `LimiterRetryAfter` | the window bound; rejections only at the limit; an honest Retry-After — with one caller |
| | `LimiterTypeCorrect`, `LimiterRemembersFew`, `LimiterDecides` | types; a deque no longer than the limit; every call is admitted or rejected, and never both — with any number of callers |
| GraphCacheProofs | `CacheTypeCorrect`, `CacheIsCurrent`, `CacheStaleOnlyWhenUnresolvable` | types; a valid cache is current — with one builder and no TypeScript; a request returns the graph of the tree, with any number of builders and both languages, unless the tree has no Python file and git cannot resolve the cached commit — in a tree that moves between requests only, loses no file, and with saves that succeed (`NothingLost`) |
| CloneServiceProofs | `CloneTypeCorrect`, `CloneReturnsWhatWasAsked`, `CloneReturnsCompleteTree`, `CloneUpdatesAtOnce` | types; the path returned is right, current, and complete unless the disk or the process failed; the service implements Mirror, whatever fails |
| | `CloneGoesForward`, `CloneNeverStuck` | a request takes at most 12 steps of its own, and has one or waits for the lock of a request that has one |
| | `CloneDistinctNames`, `CloneParsesWhatWasAsked` | with distinct names no other repository is parsed, whatever fails; and with no network failure and no force push besides, every request parses a complete tree of its own, unless the disk or the process failed |
| ChatSessionProofs | `ChatTypeCorrect`, `ChatOnlyTornSessionsMislead`, `ChatAnswersOnce`, `ChatFollowUps` | types and the length of a prompt; answers of the app are about the repository asked about unless their session is torn; no question is answered twice; a follow-up sees the chat |
| | `ChatGoesForward`, `ChatSessionsGrow` | a question takes at most 4 requests of 3 server steps; a session keeps its repository, its history only grows, and once lost it stays lost |
| QAJobsProofs | `JobsTypeCorrect`, `JobsImplementLifecycle`, `JobsPollsMoveForward` | types; both stores implement JobLifecycle, whatever fails; polls move forward while no connection is frozen |
| | `JobsToldIsStored` | the end a client was told is the one the store keeps, even from an old snapshot |
| | `JobsFrozenByLocks`, `JobsNeverBack`, `JobsStoreTheirEnd` | without a lock timeout nothing is frozen and no poll goes back; without restarts besides, every task that is over has stored its end |
| GraphBuilderProofs | `GraphTypeCorrect`, `GraphHierarchy`, `GraphOwnsItsSymbols`, `GraphClosed` | types and unique ids; hierarchy, symbols and closure of the graph and its views, for any repositories, languages and orders of the files |
| | `GraphContext` | the context of a node says what the source files say, as long as nothing clashes |
| | `OverviewAnswers`, `CallablesFirst` | the seeding keeps the matches, each node once; a callable comes before a container of data, for any question and any tables of words |
| | `NamedBeforeConnected`, `SubjectBeforeConnected` | no number of edges outweighs the mention of a name; nor the subject of a question against its verb, but for a tie |
| AnswerServiceProofs | `AnswersTypeCorrect`, `AnswersStreamInOrder`, `AnswersWhole`, `AnswersSearchWhatIsAsked`, `AnswersFusion`, `AnswersTrimming` | types; order and wholeness of a stream; the rows that are searched; the fusion of any two rankings of a finite set; the binary search of the trimming, and how many tokens a text that is cut then has |
| | `AnswersGoForward` | a request is served in at most 12 steps and one per chunk, events are only appended, a page reads each once |
| | `AnswersRaiseOnlyFromTheCache`, `AnswersCachedIndex` | a search fails for want of an encoder only on an index from the cache; without the libraries, never |
| SubgraphRetrievalProofs | `SubgraphTypeCorrect`, `ExcludedNeverAdds`, `MoreIntentsReachFurther`, `MoreHopsReachFurther` | types and budgets; a relationship without budget admits nothing; the hops along a relationship are monotonic in the intents and in `max_hops`, the uniform expansion of a lone visualization or unknown intent included; of further intents only containment may lose its hops |
| | `UniformReachesExactly`, `IntentStaysInBudget` | the uniform expansion returns exactly what `max_hops` reach; what the expansion by intent admits is reached within its budgets |
| | `ExpansionNeverStuck`, `ExpansionGoesForward` | until it is done an expansion has a step, and every step uses something up |
| | `FirstEdgesAreFollowed` | for every admitted node, by a walk within the budgets, the first edge of every relationship with budget left was followed |

**Why the invariants are what they are.**

- *Limiter.* `WindowBound` speaks of the history, and the code only of what it remembers. The
  invariant is that the deque is the tail of the history, that the history is sorted and no
  later than the clock, and that what was expired is more than a window before any present
  call. With two callers the second may append an older time behind a newer one, and
  the tail is no longer sorted: `OneCaller` is the assumption, and it is what the application
  does. What holds without it needs the length of a deque only (`Bounded`). `RetryInv` adds that a
  Retry-After reaches the moment the oldest remembered entry expires: the truncation to whole seconds
  is made up for by the second that is added.
- *Cache.* `Sound(p, g, f)`: if the print `p` saw the version of `f` that is there now, the
  graph `g` holds its content. `Pair` says it of the two files on disk; it is kept only because
  it already holds of what is in memory: for the part that is parsed (`GraphRead`), both of the
  print that will be saved and of the older one the new graph will stand beside first, and for
  the graph that was saved before its print (`GraphSaved`). `Stamps` is why a tree that
  moves does no harm: the next checkout has a stamp no print has. `CInv`, for
  `StaleOnlyWhenUnresolvable`, has another argument: while a request runs the tree holds still, so that
  whatever is written after the graph file is current (`Disk`, `JobOK`). Between requests the three
  files are of one commit, and as long as the print holds, either git can resolve it or the tree has no
  Python file (`Past`). In the first case the comparison of the commits tells (`Moved`). In the second
  nothing does (`Old`): the cache is accepted, so that nobody builds beside those who load it (`Calm`),
  and what they return is excused.
- *Clone.* `Locks` gives mutual exclusion in the directory; `Tips` says that from the moment a
  worker has compared, pulled or cloned, the directory's commit is of its URL and not older
  than what it was asked for, until it returns; `Trees` says which directory states each step
  of an undamaged run can meet. No other worker's step reaches the directory in between.
  For Mirror, `Whole` is what remains of `Trees` once the disk or the process has failed: a call that
  pulls, checks out, measures or returns has a directory git can open, and one that fetches the refs
  of a fresh clone has not. With it every step is an instant of Mirror or none (`LockedInstant`).
  What a request parses outside the lock needs `Settled`: every directory git can open is on the line
  of its own branch, so that updates fast-forward, and who is inside while another request relies on
  the directory only looks at it or pulls. Each of the three hypotheses of `CloneParsesWhatWasAsked`
  shuts one way to a removal, and TLC has a counterexample without any one of them.
- *Chat.* `Consistent(chat[b])`: an app that holds a session that is not torn has it for `last_repo`,
  between the assignments of the two for its field (`Knows`); a browser that waits for the answer of a
  session holds it as its client demands (`HasSession`). A torn session is forgotten with its id or
  healed by the next note. The field cannot change while the script runs, which is what `Interrupt` is
  for. `OnceInv` counts where
  a question can be: in one place of one history, or still on its way, with the browser or as a
  stray, and never both. `FollowInv` is that what is on the screen is in the history of its session,
  which only grows at its end. `ServedLive`, for `ChatSessionsGrow`, is that a question that is
  served is served in a session that is there.
- *Jobs.* The refinement needs that the row of a job is where its task is (queued until the task
  has begun, running until it is over), since a write does not look at the row it replaces. That
  polls move forward needs besides that no client and no snapshot, however old, is ahead of a row.
  `ToldInv` adds that an end a snapshot holds is the stored one, since no row changes once it has one.
- *Graph.* `BInv` describes each pass by the set of the files it has seen, without their order: the
  registry is that of these files, the edges are those they emit under the whole registry, the ids of
  the nodes are theirs. Order then matters to the `origin` of a node alone. For the closure, every
  edge that is emitted has its ends among the ids of its own file or of the registry, and the pruning
  keeps the ends of all edges.
- *Context.* `BInv` gives the edges of the finished graph as those of the files; each of the seven
  relations is then spelled out as a relation between declarations, in both directions. A context
  filters what is at the other end of an edge by its type, so the proof needs that an id tells the
  type of its node, which is what `Clash` is about. `SInv` (what was parsed comes from a source file of
  the repository) gives that the nodes are finitely many: the context takes the first of some.
- *Ranking and seeding.* `AskInv`: a request asks the resolver of the finished graph, and what is
  ranked is the ranking of that resolver. The graph has finitely many nodes and edges, so degrees
  are numbers and scores integers; no node that survives the pruning has degree 0. By score and id
  the candidates are in a strict total order, and a set sorted by one is the set, each element once,
  in the order (`SortedFacts`). `CallablesFirst` is then arithmetic on the weights: the callable
  boost and the penalty of data outweigh the preferred type, the verb, the edges and the covered
  words by at least 300 hundredths.
- *Answers.* What was sent is the metadata, a token per chunk the thread holds, and at most one
  terminal event; a page has read a prefix of it and has accumulated its tokens. An index that has an
  encoder was made in this thread for its own graph: this is why a stale or mixed cache is never
  searched, and it is the flaw of `embeddings_cached` that makes it so. The mutant of
  `SearchesWhatIsAsked` gives the cached index an encoder: then stale rows are searched.
  The binary search is shown equal to its closed form by induction on the width of the range.
  `CacheInv` follows an index without an encoder back to the two files: without the libraries nobody
  writes them, and who writes them has an encoder of its own.
- *Subgraph.* `ExcludedAddsNothing`, which only the proofs state, needs that the pending edges are
  those of the head of the queue, and that the head is an admitted node. For `UniformIsExact` the nodes admitted after a hop
  are those that so many hops reach, and every neighbour of what lies behind the frontier is
  admitted. For `AdmittedInBudget` every entry of the queue, the pending edges' too, is the end of a
  walk within the budgets that spent the hops the entry says. `FirstsInv` is that every admitted node
  waits in the queue or was expanded, and that what is marked as expanded was followed along its first
  edge: the mark is set when that edge is tried, before the others are.

**Recursion and induction.** The library's induction theorems take a predicate as a parameter, which
no prover here can instantiate. What is needed is stated about sets instead: a subset of `Nat` with 0
and closed under successor is `Nat` (`NaturalSet`, from the well-foundedness of `<`), and for a
function from a set to itself there is the sequence of its iterates (`Recursion`). Then
`f[n \in Nat] == ...` is a `CHOOSE` of something that exists, and satisfies its equation:
`NodesWithin` and `WalksOf`, the search, and the sums that `MapThenSumSet` folds.

**What the proofs found in the models.** Three properties held on the instances TLC checks and not
in general. `ImplementationBeatsData` spoke of every callable, but a decorator can mark one as a
container of data (`Implements` now excludes it). `ContextTellsTheSource` needed that no path, no
import and no bare method name is the id of another thing (`Clash`), and took for the bases of a method
those of every definition of its class: only a definition that has the method overrides something
(`Definers`).

`CacheTypeCorrect` holds for any number of builders. `CacheIsCurrent` needs both of its
assumptions, `CacheStaleOnlyWhenUnresolvable` each part of `NothingLost`, and the property its
exception: section 6 says what happens without them.

**Liveness, as far as it is proved.** Fairness and ENABLED are out of the prover's reach, so the
five liveness properties (`EveryRequestAnswered`, `EveryQuestionEnds`, `EveryPollEnds`,
`ExpansionEnds`, `EveryPageSettles`) stay with TLC. What they rest on besides fairness is safety, and
that is proved for every instance. *Goes forward*: a measure of what is left falls with every step of
an actor and is raised by nobody (`CloneGoesForward`, `ChatGoesForward`, `ExpansionGoesForward`,
`AnswersGoForward`; for a poll `JobsNeverBack`), so that no actor goes round in a circle, not even
with the help of failures and of the other actors. *Never stuck*: an actor that is not at its end has
an action whose guard holds, or waits for one that has (`CloneNeverStuck`, `ExpansionNeverStuck`); the
guard is written out, without ENABLED. What is left to TLC is that the step is then taken.

**Only model-checked**, besides, is `NamedIsFound`, which depends on the words themselves: for other
tables or another way to split names, the parts of a name can score more than the thing that bears it.
What is true for any of them is `NamedBeforeConnected`: of two nodes the other signals do not tell
apart, the one that is named comes first.

## 6. Where the code and its documentation part

Three of these are runs that end in a counterexample, with one line of the repository's own
documentation as their property.

- `clone_owner`: the per-repository lock is released before the directory is parsed, and two
  owners' repositories of one name share it. Distinct names are not enough: an update that fails on
  the network, or that a force push keeps from fast-forwarding, removes the directory and clones it
  again under another request's parser. With distinct names and neither of the two the claim is a
  theorem (`CloneParsesWhatWasAsked`).
- `subgraph_complete`: the expansion by intent promises all reachable nodes, but takes its
  `(node, relationship, depth)` key inside the loop over the edges: after the first edge of a
  relationship the others of that node are skipped. That the first is followed is a theorem
  (`FirstEdgesAreFollowed`).
- `embeddings_cached`: an index loaded from the cache has no encoder, "not needed for cached
  queries" (`hybrid_retriever.py:175`). `query` encodes the question with it: once the embeddings of
  a repository are on the disk, every later question with `use_embeddings` fails. There is no other
  way for a search to fail so (`AnswersRaiseOnlyFromTheCache`).

Four are the exceptions of properties that hold, so that a run beside them would only repeat what the
property says: with the exception taken away, TLC finds the counterexample.

- `StaleOnlyWhenUnresolvable`, without `Unresolvable`: the fingerprint walks `.py` files only, and a
  cached commit that git cannot resolve counts as unchanged (`graph_services.py:93`). A repository
  without Python that was cloned afresh is answered from the old graph, though the fingerprint is to
  track "exactly the files that influence the parsed graph" (`repository_cache.py:57-59`).
- `EveryRequestAnswered`, without its condition: the clone timeout that "prevents hung clones from blocking
  request threads indefinitely" (`config.py:92`) is an alarm, set in the main thread only
  (`repository_service.py:337`), and no endpoint clones there. A clone that hangs keeps its thread and
  the lock of its directory, and everybody who waits for it; so does a fetch or a pull.
- `OnlyTornSessionsMislead`, without `torn`, or of the page. The app notes a session's id before its
  repository (`app.py:762-764`): a script ended in between leaves the id of the new session beside the
  old `last_repo`, and with the field set back, a question about the old repository is answered about
  the new one. The page asks the session it has and never compares its repository with the field
  (`index.html:529,535`): after the field is edited the answers are about the old repository.
- `TrimmingIsTight`, with at most the limit for its last line: a text that is cut exceeds its limit, by
  one token that dividing the length by four loses, or by the marker itself when the limit is below its
  11 tokens. The docstring includes the marker in the maximum (`token_utils.py:106-107`), and a test
  asserts a count of at most 100 (`test_new_features.py:197`): without tiktoken its text has 101.

Where a run would only repeat what the model's definitions show:

*The cache, the clones, the jobs.*

- `CacheIsCurrent` has two assumptions. TypeScript files are in no fingerprint (`OnlyPython`). Two
  requests that build the same directory while it moves can leave one's graph
  beside the other's fingerprint, and `is_cache_valid` accepts the pair (`OneBuilder`).
- A crash between the fingerprint and the commit file leaves a cache that validates and has no commit
  to compare: a pull that changes TypeScript files only is answered from the old graph. A crash
  between the graph and the fingerprint leaves the new graph beside the old print; when a pull then
  removes the Python file that was new, the old print validates a graph that still has it. Both are
  counterexamples to `StaleOnlyWhenUnresolvable` with `Faults`, and are what `NothingLost` excludes;
  without TypeScript and with no file removed, TLC finds none for one worker, three commits and four
  checkouts.
- "SQLite with WAL mode handles concurrent reads from multiple processes safely": one write that
  waits 5 s for the lock in vain leaves its connection in a transaction. The process reads an old
  snapshot from its next poll on, so that a client sees a running job queued, and it can no longer
  write once another process has (`Frozen`, the exception of `PollsMoveForward`). A job whose process
  dies stays running in the file (`Abandoned`, the exception of `EveryPollEnds`). Nothing else does
  either: `JobsFrozenByLocks`, `JobsStoreTheirEnd`.
- "Repositories larger than this are rejected and deleted", but a pull is not measured (`Pull` goes to
  the return, `Size` is reached from `Checkout` only).
- Cached embeddings are accepted when the ids are the same (`hybrid_retriever.py:170`), though the
  texts of the nodes have changed, or the two files are of two savers (`TakenFromCache`).

*The graph.*

- A method that calls a name only methods bear gets an edge to the bare name, which is the id of
  nothing. The comment (`graph_builder.py:629-631`) leaves that to Pass 3, which prunes nodes and no
  edges; no `calls` edge ever reaches a method. `GraphAndViewsAreClosed` names the exception.
- An id "module::ClassName when ambiguous" is documented for classes and never made: the first class of a
  name is the node, with the file that was walked first.
- The filter of the views is documented as "or" of its conditions (`graph_builder.py:919-921`) and
  is "and".
- Without tree-sitter the documented fallback to CodeParser does not happen: the graph is empty. Nested
  TypeScript functions and classes are parsed, and `export const f = ...` is not.
- The calls in a decorator are recorded as calls of the body of the function.

*The ranking.*

- "Even a maximum-match DTO falls below" a callable: false in general, the penalty is outweighed by
  a phrase of the question or by more hits in the first pass. `ImplementationBeatsData` says under
  which conditions it is true.
- A word and its own stem count as two keywords of the multi-keyword bonus. Words of the lexicons
  that are stop words never arrive. The signal of classes that inherit `BaseModel` is dead, since
  that name is no node and has no edge. The docstrings give other weights than the code for the generic
  penalty (-6, the code -4) and the keyword weight (2.0, the code 3.0).
- The priority of the subject "prevents high-degree verb-named functions from outranking" one named
  for the subject "via hotspot score alone" (`query_resolver.py:2572-2573`). It is worth 4, and five
  edges are worth 4 more than one: the two may tie, and the ids decide. With a second edge the comment
  is right (`SubjectBeforeConnected`).

*The answer.*

- An empty graph with `use_embeddings` raises before the stream begins, outside the handler of
  `/qa/stream` (`endpoints.py:689`): a 500 and no event (`NothingToIndex`).
- `max_neighbours` caps the lines of a relationship, not the lists of callers and callees
  (`code_retriever.py:461-482`).

## 7. What is not modelled

- Forks: the same commit under two owners. `git`'s own processes: an alarm that kills Python's
  wait and leaves git writing while the directory is removed; a pull's checkout file by file.
- A session that is created after its browser gave up: nobody knows its id.
- A second question of the page by Ctrl+Enter while the first one runs: its button does not allow it.
  In AnswerService that is `Abort`; in session mode the two answers would land in two cards.
- Two workers in one process that compute the same fingerprint for different trees (mtime and
  size equal): excluded by the nanosecond stamps.
- The parsers' reading of text: syntax errors are a flag of a file, and line numbers, docstrings,
  arguments and bodies are carried along by the code and left out.
- How a word is stemmed and split is given to QueryResolver as data, for the texts of the model;
  the penalty of visualisation code and its words are left out. The tables are those of a
  vocabulary, not of all words.
- The similarity of two vectors: a search by meaning is a ranking. The SDKs of the LLM providers and
  their retries: a stream of chunks that ends, fails or hangs.
- HTTP, JSON, the wording of prompts and contexts, the search by label, the drawing of graphs
  (`graph_visualizer.py`), the pages' layout, the launcher: text or I/O without state shared
  between actors. Evaluation and scripts: offline benchmarks.

## 8. Plan

Done, in this order: what several requests share (limiter, cache, clones, sessions, jobs); the
expansion every answer rests on; the graph from the source files; the ranking and the seeding; the
answer stream with the embedding cache; then the proofs, of what the runs check and of the safety that
liveness rests on. What is left, in order:

1. Composition: GraphCache over the directory of Mirror, with the moves between the return of a path
   and its parse.
2. SubgraphRetrieval over the graphs GraphBuilder builds: its `Init` asks for no more than
   `GraphClosed` grants, so this is a lemma about the ids.
3. AnswerService as the refinement of ChatSession's stream step.
