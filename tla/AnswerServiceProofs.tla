------------------------- MODULE AnswerServiceProofs -------------------------
(***************************************************************************)
(* Proofs about AnswerService, for any requests, graphs, bounds and        *)
(* crashes: the events of a stream come in their order, a page that shows  *)
(* an answer has the whole of it, a search by meaning is in the rows of    *)
(* its own graph, and the fusion of two rankings respects what they agree  *)
(* on.                                                                     *)
(*                                                                         *)
(* The invariant behind the first two is the shape of what was sent: the   *)
(* metadata, a token for every chunk the thread has accumulated, and at    *)
(* most one terminal event; a page has read a prefix of it.  Behind the    *)
(* third: an index with an encoder was made for the graph of its thread.   *)
(*                                                                         *)
(* The trimming of a text to its limit is a binary search: by induction    *)
(* on the width of the range, what it finds is the longest prefix that     *)
(* leaves room for the marker.                                             *)
(*                                                                         *)
(* A request is served once, step by step; and an index without an encoder *)
(* is followed back to the two files of the cache.                         *)
(***************************************************************************)
EXTENDS AnswerService, FiniteSetTheorems, WellFoundedInduction, TLAPS

\* The events of a stream that sent the chunks c and has not ended.
Open(s, c) ==
    /\ Len(s) = Len(c) + 1
    /\ s[1].type = "metadata"
    /\ \A i \in 1 .. Len(c) : s[i + 1] = Event("token", <<c[i]>>)

\* The same with a terminal event behind them.
Ended(s, c) ==
    /\ Len(s) = Len(c) + 2
    /\ s[1].type = "metadata"
    /\ \A i \in 1 .. Len(c) : s[i + 1] = Event("token", <<c[i]>>)
    /\ Terminal(s[Len(c) + 2])
    /\ s[Len(c) + 2].type = "done" => s[Len(c) + 2].text = Strip(c) /\ Strip(c) # << >>

\* What a thread has sent, by where it is.
StreamOK(s, t) ==
    \/ s = << >> /\ t.pc \notin {"prompt", "offline", "no context", "ended"}
    \/ s = <<Event("error", << >>)>> /\ t.pc = "ended"
    \/ t.pc = "lost" /\ \E c \in Seq(Chunks) : Open(s, c)
    \/ t.pc = "prompt" /\ Open(s, t.chunks)
    \/ t.pc \in {"offline", "no context"} /\ Open(s, t.chunks)
       /\ t.chunks \in {<< >>, <<FixedText(t.pc)>>}
    \/ t.pc = "ended" /\ \E c \in Seq(Chunks) : Ended(s, c)

\* What a page has read of what was sent.
PageOK(p, s) ==
    /\ p.read <= Len(s)
    /\ p.state = "idle" => p.read = 0
    /\ p.read = 0 => p.accumulated = << >>
    /\ p.state = "reading" => \A i \in 1 .. p.read : ~Terminal(s[i])
    /\ p.state = "reading" /\ p.read # 0 =>
         /\ Len(p.accumulated) = p.read - 1
         /\ \A i \in 1 .. p.read - 1 : s[i + 1] = Event("token", <<p.accumulated[i]>>)
    /\ p.state = "answered" =>
         /\ p.read = Len(s) /\ p.read >= 2 /\ s[p.read].type = "done"
         /\ Len(p.accumulated) = p.read - 2
         /\ \A i \in 1 .. p.read - 2 : s[i + 1] = Event("token", <<p.accumulated[i]>>)

\* Where an index with an encoder comes from, and where it is needed.
IndexOK(t) ==
    /\ t.index.encoder # "none" => t.index.ids = t.graph.nodes /\ t.index.rows = Rows(t.graph)
    /\ t.pc = "begin" /\ t.embeddings => t.index.encoder # "none"
    /\ t.pc = "idle" => t.index.encoder = "none"

Inv ==
    /\ TypeOK
    /\ \A r \in Requests : IndexOK(thread[r])
    /\ \A r \in Streams : StreamOK(sent[r], thread[r]) /\ PageOK(page[r], sent[r])

-----------------------------------------------------------------------------
\* A fresh thread has the types of a thread, and an index of no graph.
LEMMA ThreadType ==
    ASSUME NEW pc \in PCs
    PROVE  /\ Thread(pc) \in Threads /\ IndexOK(Thread(pc))
           /\ Thread(pc).pc = pc /\ Thread(pc).chunks = << >>
  <1>1. NoGraph \in GraphSet /\ NoGraph.nodes = << >>
    BY DEF GraphSet, NoGraph
  <1>2. << >> \in IdSet
    BY <1>1 DEF IdSet
  <1>3. Rows(NoGraph) = << >>
    BY DEF Rows, NoGraph
  <1>4. << >> \in RowSet
    BY <1>1, <1>3 DEF RowSet
  <1>5. NoIndex \in Indices /\ NoIndex.encoder = "none"
    BY <1>2, <1>4 DEF NoIndex, Index, Indices
  <1>6. << >> \in Seq(Chunks)
    OBVIOUS
  <1>7. Thread(pc) \in Threads
    BY <1>1, <1>2, <1>5, <1>6 DEF Thread, Threads
  <1> QED
    BY <1>5, <1>7 DEF Thread, IndexOK

\* A step of one thread that sends nothing.
LEMMA QuietStep ==
    ASSUME Inv, NEW r \in Requests, NEW t \in Threads,
           thread' = [thread EXCEPT ![r] = t],
           IndexOK(t), r \in Streams => StreamOK(sent[r], t),
           UNCHANGED <<libraries, keys, sent, page, crashes>>,
           matrix' \in {Absent, Torn} \cup {File(rows) : rows \in RowSet},
           node_ids' \in {Absent, Torn} \cup {File(ids) : ids \in IdSet}
    PROVE  Inv'
  <1>1. thread \in [Requests -> Threads]
    BY DEF Inv, TypeOK
  <1>2. thread' \in [Requests -> Threads]
    BY <1>1
  <1>3. TypeOK'
    BY <1>2 DEF Inv, TypeOK
  <1>4. \A x \in Requests : thread'[x] = IF x = r THEN t ELSE thread[x]
    BY <1>1
  <1>5. \A x \in Requests : IndexOK(thread'[x])
    BY <1>4 DEF Inv
  <1>6. \A x \in Streams : StreamOK(sent'[x], thread'[x]) /\ PageOK(page'[x], sent'[x])
    BY <1>4 DEF Inv, Requests
  <1> QED
    BY <1>3, <1>5, <1>6 DEF Inv, IndexOK, StreamOK, PageOK, Open, Ended

\* Nothing ends a stream that is open.
LEMMA OpenGoesOn ==
    ASSUME NEW s \in Seq(Events), NEW c \in Seq(Chunks), Open(s, c)
    PROVE  \A i \in 1 .. Len(s) : ~Terminal(s[i])
  <1> SUFFICES ASSUME NEW i \in 1 .. Len(s) PROVE ~Terminal(s[i])
    OBVIOUS
  <1>1. CASE i = 1
    BY <1>1 DEF Open, Terminal
  <1>2. CASE i # 1
    <2>1. i - 1 \in 1 .. Len(c)
      BY <1>2 DEF Open
    <2>2. s[i] = Event("token", <<c[i - 1]>>)
      BY <2>1 DEF Open
    <2> QED
      BY <2>2 DEF Event, Terminal
  <1> QED
    BY <1>1, <1>2

\* What a page has read stays what it is when another event follows.
LEMMA AppendKeepsPage ==
    ASSUME NEW s \in Seq(Events), NEW e \in Events, NEW p \in Pages, PageOK(p, s),
           \A i \in 1 .. Len(s) : ~Terminal(s[i])
    PROVE  PageOK(p, Append(s, e))
  <1>1. /\ Len(Append(s, e)) = Len(s) + 1
        /\ \A i \in 1 .. Len(s) : Append(s, e)[i] = s[i]
    OBVIOUS
  <1>2. p.read \in Nat /\ p.read <= Len(s) /\ Len(s) \in Nat
    BY DEF Pages, PageOK
  <1>3. p.state # "answered"
    <2> SUFFICES ASSUME p.state = "answered" PROVE FALSE
      OBVIOUS
    <2>1. p.read \in 1 .. Len(s) /\ s[p.read].type = "done"
      BY <1>2 DEF PageOK
    <2> QED
      BY <2>1 DEF Terminal
  <1>4. p.state = "reading" => \A i \in 1 .. p.read : ~Terminal(Append(s, e)[i])
    BY <1>1, <1>2 DEF PageOK
  <1>5. p.state = "reading" /\ p.read # 0 =>
          /\ Len(p.accumulated) = p.read - 1
          /\ \A i \in 1 .. p.read - 1 : Append(s, e)[i + 1] = Event("token", <<p.accumulated[i]>>)
    BY <1>1, <1>2 DEF PageOK
  <1> QED
    BY <1>1, <1>2, <1>3, <1>4, <1>5 DEF PageOK

\* A step of one thread that sends one event; in a stream, behind none that ends it.
LEMMA SendStep ==
    ASSUME Inv, NEW r \in Requests, NEW t \in Threads, NEW e \in Events,
           thread' = [thread EXCEPT ![r] = t], Send(r, e), IndexOK(t),
           r \in Streams => /\ \A i \in 1 .. Len(sent[r]) : ~Terminal(sent[r][i])
                            /\ StreamOK(Append(sent[r], e), t),
           UNCHANGED <<libraries, keys, disk, page, crashes>>
    PROVE  Inv'
  <1>1. /\ thread \in [Requests -> Threads] /\ sent \in [Requests -> Seq(Events)]
        /\ page \in [Requests -> Pages]
    BY DEF Inv, TypeOK
  <1>2. /\ thread' \in [Requests -> Threads]
        /\ \A x \in Requests : thread'[x] = IF x = r THEN t ELSE thread[x]
    BY <1>1
  <1>3. sent' = [sent EXCEPT ![r] = Append(sent[r], e)]
    BY DEF Send
  <1>4. Append(sent[r], e) \in Seq(Events) /\ Len(Append(sent[r], e)) = Len(sent[r]) + 1
    BY <1>1
  <1>5. /\ sent' \in [Requests -> Seq(Events)]
        /\ \A x \in Requests : sent'[x] = IF x = r THEN Append(sent[r], e) ELSE sent[x]
    BY <1>1, <1>3, <1>4
  <1>6. \A x \in Requests : page'[x].read <= Len(sent'[x])
    <2> SUFFICES ASSUME NEW x \in Requests PROVE page'[x].read <= Len(sent'[x])
      OBVIOUS
    <2>1. page[x].read <= Len(sent[x]) /\ page[x].read \in Nat /\ Len(sent[x]) \in Nat
      BY <1>1 DEF Inv, TypeOK, Pages
    <2> QED
      BY <2>1, <1>4, <1>5
  <1>7. TypeOK'
    BY <1>2, <1>5, <1>6 DEF Inv, TypeOK, disk
  <1>8. \A x \in Requests : IndexOK(thread'[x])
    BY <1>2 DEF Inv
  <1>9. \A x \in Streams : StreamOK(sent'[x], thread'[x])
    BY <1>2, <1>5 DEF Inv, Requests
  <1>10. \A x \in Streams : PageOK(page'[x], sent'[x])
    <2> SUFFICES ASSUME NEW x \in Streams PROVE PageOK(page[x], sent'[x])
      OBVIOUS
    <2>1. x \in Requests /\ PageOK(page[x], sent[x])
      BY DEF Requests, Inv
    <2>2. CASE x = r
      <3>1. PageOK(page[r], Append(sent[r], e))
        BY <1>1, <2>1, <2>2, AppendKeepsPage
      <3> QED
        BY <1>5, <2>2, <3>1
    <2>3. CASE x # r
      BY <1>5, <2>1, <2>3
    <2> QED
      BY <2>2, <2>3
  <1>11. Inv' = /\ TypeOK'
                /\ \A x \in Requests : IndexOK(thread'[x])
                /\ \A x \in Streams : StreamOK(sent'[x], thread'[x]) /\ PageOK(page'[x], sent'[x])
    BY DEF Inv, IndexOK, StreamOK, PageOK, Open, Ended
  <1> QED
    BY <1>7, <1>8, <1>9, <1>10, <1>11

LEMMA InitInv == Init => Inv
  <1> SUFFICES ASSUME Init PROVE Inv
    OBVIOUS
  <1>1. "idle" \in PCs
    BY DEF PCs
  <1>2. Thread("idle") \in Threads /\ IndexOK(Thread("idle")) /\ Thread("idle").pc = "idle"
    BY <1>1, ThreadType
  <1>3. Page("idle") \in Pages
    BY DEF Page, Pages, States
  <1>4. \A r \in Requests :
          thread[r] = Thread("idle") /\ sent[r] = << >> /\ page[r] = Page("idle")
    BY DEF Init
  <1>5. TypeOK
    <2>1. thread \in [Requests -> Threads] /\ page \in [Requests -> Pages]
      BY <1>2, <1>3 DEF Init
    <2>2. sent \in [Requests -> Seq(Events)]
      BY DEF Init
    <2>3. \A r \in Requests : page[r].read <= Len(sent[r])
      BY <1>4 DEF Page
    <2> QED
      BY <2>1, <2>2, <2>3, AnswerServiceAssumption DEF Init, TypeOK
  <1>6. PageOK(Page("idle"), << >>)
    BY DEF PageOK, Page
  <1>7. StreamOK(<< >>, Thread("idle"))
    BY <1>2 DEF StreamOK
  <1> QED
    BY <1>2, <1>4, <1>5, <1>6, <1>7 DEF Inv, Requests

-----------------------------------------------------------------------------
\* Where a thread has not sent anything.
Early == {"idle", "probe", "read ids", "read matrix", "encode", "retrieve", "begin"} \cup Saving

\* A step of a thread that has not sent anything and sends nothing.
LEMMA EarlyStep ==
    ASSUME Inv, NEW r \in Requests, NEW t \in Threads,
           thread[r].pc \in Early, t.pc \in Early \cup {"refused"},
           thread' = [thread EXCEPT ![r] = t], IndexOK(t),
           UNCHANGED <<libraries, keys, sent, page, crashes>>,
           matrix' \in {Absent, Torn} \cup {File(rows) : rows \in RowSet},
           node_ids' \in {Absent, Torn} \cup {File(ids) : ids \in IdSet}
    PROVE  Inv'
  <1>1. r \in Streams => sent[r] = << >>
    BY DEF Inv, StreamOK, Early, Saving
  <1>2. r \in Streams => StreamOK(sent[r], t)
    BY <1>1 DEF StreamOK, Early, Saving
  <1> QED
    BY <1>2, QuietStep

\* What is known of every thread.
LEMMA ThreadFacts ==
    ASSUME Inv, NEW r \in Requests
    PROVE  /\ thread[r] \in Threads /\ IndexOK(thread[r])
           /\ matrix \in {Absent, Torn} \cup {File(rows) : rows \in RowSet}
           /\ node_ids \in {Absent, Torn} \cup {File(ids) : ids \in IdSet}
    BY DEF Inv, TypeOK

\* A step that moves the thread only.
LEMMA MoveStep ==
    ASSUME Inv, NEW r \in Requests, NEW pc \in Early, thread[r].pc \in Early, Goto(r, pc),
           pc # "idle", pc = "begin" => CanQuery(r),
           UNCHANGED <<libraries, keys, sent, page, crashes>>,
           matrix' \in {Absent, Torn} \cup {File(rows) : rows \in RowSet},
           node_ids' \in {Absent, Torn} \cup {File(ids) : ids \in IdSet}
    PROVE  Inv'
  <1> DEFINE t == [thread[r] EXCEPT !.pc = pc]
  <1>1. thread[r] \in Threads /\ IndexOK(thread[r])
    BY ThreadFacts
  <1>2. pc \in PCs
    BY DEF Early, PCs
  <1>3. t \in Threads /\ t.pc = pc
    BY <1>1, <1>2 DEF Threads
  <1>4. IndexOK(t)
    BY <1>1, <1>3 DEF IndexOK, CanQuery, Threads
  <1>5. thread' = [thread EXCEPT ![r] = t]
    BY DEF Goto, Inv, TypeOK
  <1> HIDE DEF t
  <1> QED
    BY <1>3, <1>4, <1>5, EarlyStep DEF Early

LEMMA ProbeInv == ASSUME Inv, NEW r \in Requests, Probe(r) PROVE Inv'
  <1> DEFINE pc == IF matrix # Absent /\ node_ids # Absent THEN "read ids" ELSE "encode"
  <1>1. pc \in Early /\ pc \notin {"begin", "idle"} /\ thread[r].pc \in Early /\ Goto(r, pc)
    BY DEF Probe, At, Early
  <1>2. UNCHANGED <<libraries, keys, sent, page, crashes, matrix, node_ids>>
    BY DEF Probe, disk
  <1> HIDE DEF pc
  <1> QED
    BY <1>1, <1>2, ThreadFacts, MoveStep

LEMMA ReadIdsInv == ASSUME Inv, NEW r \in Requests, ReadIds(r) PROVE Inv'
  <1> DEFINE ids == IF node_ids.file = "complete" THEN node_ids.content ELSE << >>
             pc  == IF node_ids.file = "complete" THEN "read matrix" ELSE "encode"
             t   == [thread[r] EXCEPT !.pc = pc, !.ids = ids]
  <1>1. thread[r] \in Threads /\ IndexOK(thread[r])
        /\ node_ids \in {Absent, Torn} \cup {File(x) : x \in IdSet}
    BY ThreadFacts
  <1>2. << >> \in IdSet
    <2>1. NoGraph \in GraphSet /\ NoGraph.nodes = << >>
      BY DEF GraphSet, NoGraph
    <2> QED
      BY <2>1 DEF IdSet
  <1>3. ids \in IdSet
    BY <1>1, <1>2 DEF File, Absent, Torn
  <1>4. pc \in PCs /\ pc \in Early /\ pc \notin {"begin", "idle"}
    BY DEF PCs, Early
  <1>5. t \in Threads /\ t.pc = pc /\ IndexOK(t)
    BY <1>1, <1>3, <1>4 DEF Threads, IndexOK
  <1>6. thread' = [thread EXCEPT ![r] = t] /\ thread[r].pc \in Early
    BY DEF ReadIds, Inv, TypeOK, At, Early
  <1>7. UNCHANGED <<libraries, keys, sent, page, crashes, matrix, node_ids>>
    BY DEF ReadIds, disk
  <1> HIDE DEF t, ids, pc
  <1> QED
    BY <1>4, <1>5, <1>6, <1>7, ThreadFacts, EarlyStep

LEMMA ReadMatrixInv == ASSUME Inv, NEW r \in Requests, ReadMatrix(r) PROVE Inv'
  <1> DEFINE ok    == TakenFromCache(thread[r])
             index == IF ok THEN FromCache(thread[r]) ELSE NoIndex
             pc    == IF ok THEN "retrieve" ELSE "encode"
             t     == [thread[r] EXCEPT !.pc = pc, !.ids = << >>, !.index = index]
  <1>1. thread[r] \in Threads /\ matrix \in {Absent, Torn} \cup {File(rows) : rows \in RowSet}
    BY ThreadFacts
  <1>2. << >> \in IdSet /\ NoIndex \in Indices /\ NoIndex.encoder = "none"
    <2>1. "idle" \in PCs
      BY DEF PCs
    <2>2. Thread("idle") \in Threads
      BY <2>1, ThreadType
    <2> QED
      BY <2>2 DEF Threads, Thread, NoIndex, Index
  <1>3. ok => matrix.content \in RowSet
    BY <1>1 DEF TakenFromCache, File, Absent, Torn
  <1>4. index \in Indices /\ index.encoder = "none"
    BY <1>1, <1>2, <1>3 DEF FromCache, Index, Indices, Threads
  <1>5. pc \in PCs /\ pc \in Early /\ pc \notin {"begin", "idle"}
    BY DEF PCs, Early
  <1> HIDE DEF index, pc, ok
  <1>6. t \in Threads /\ t.pc = pc /\ IndexOK(t)
    BY <1>1, <1>2, <1>4, <1>5 DEF Threads, IndexOK
  <1>7. thread' = [thread EXCEPT ![r] = t] /\ thread[r].pc \in Early
    BY DEF ReadMatrix, Inv, TypeOK, At, Early, index, pc, ok
  <1>8. UNCHANGED <<libraries, keys, sent, page, crashes, matrix, node_ids>>
    BY DEF ReadMatrix, disk
  <1> HIDE DEF t
  <1> QED
    BY <1>5, <1>6, <1>7, <1>8, ThreadFacts, EarlyStep

LEMMA NothingToIndexInv == ASSUME Inv, NEW r \in Requests, NothingToIndex(r) PROVE Inv'
  <1>1. "refused" \in PCs
    BY DEF PCs
  <1>2. Thread("refused") \in Threads /\ Thread("refused").pc = "refused" /\ IndexOK(Thread("refused"))
    BY <1>1, ThreadType
  <1>3. thread' = [thread EXCEPT ![r] = Thread("refused")] /\ thread[r].pc \in Early
    BY DEF NothingToIndex, At, Early
  <1>4. UNCHANGED <<libraries, keys, sent, page, crashes, matrix, node_ids>>
    BY DEF NothingToIndex, disk
  <1> QED
    BY <1>2, <1>3, <1>4, ThreadFacts, EarlyStep

\* The index made of a graph is an index of that graph.
LEMMA EncodedIndex ==
    ASSUME Inv, NEW r \in Requests, NEW encoder \in {"model", "vectorizer"}, NEW pc \in Early,
           pc \notin {"begin", "idle"}
    PROVE  LET t == [thread[r] EXCEPT !.pc = pc, !.index = Encoded(r, encoder)]
           IN  t \in Threads /\ IndexOK(t) /\ t.pc = pc
  <1>1. thread[r] \in Threads
    BY ThreadFacts
  <1>2. pc \in PCs
    BY DEF Early, PCs
  <1>3. thread[r].graph.nodes \in IdSet /\ Rows(thread[r].graph) \in RowSet
    BY <1>1 DEF Threads, IdSet, RowSet
  <1>4. Encoded(r, encoder) \in Indices
    BY <1>3 DEF Encoded, Index, Indices
  <1> DEFINE t == [thread[r] EXCEPT !.pc = pc, !.index = Encoded(r, encoder)]
  <1>5. t \in Threads /\ t.pc = pc /\ t.graph = thread[r].graph /\ t.index = Encoded(r, encoder)
    BY <1>1, <1>2, <1>4 DEF Threads
  <1>6. IndexOK(t)
    BY <1>5 DEF IndexOK, Encoded, Index
  <1> QED
    BY <1>5, <1>6

LEMMA EncodeInv == ASSUME Inv, NEW r \in Requests, Encode(r) PROVE Inv'
  <1> DEFINE t == [thread[r] EXCEPT !.pc = "open matrix", !.index = Encoded(r, "model")]
  <1>1. "open matrix" \in Early
    BY DEF Early, Saving
  <1>2. t \in Threads /\ IndexOK(t) /\ t.pc = "open matrix"
    BY <1>1, EncodedIndex
  <1>3. thread' = [thread EXCEPT ![r] = t] /\ thread[r].pc \in Early
    BY DEF Encode, Inv, TypeOK, At, Early
  <1>4. UNCHANGED <<libraries, keys, sent, page, crashes, matrix, node_ids>>
    BY DEF Encode, disk
  <1> HIDE DEF t
  <1> QED
    BY <1>1, <1>2, <1>3, <1>4, ThreadFacts, EarlyStep

LEMMA EncodeSparseInv == ASSUME Inv, NEW r \in Requests, EncodeSparse(r) PROVE Inv'
  <1> DEFINE t == [thread[r] EXCEPT !.pc = "retrieve", !.index = Encoded(r, "vectorizer")]
  <1>1. "retrieve" \in Early
    BY DEF Early
  <1>2. t \in Threads /\ IndexOK(t) /\ t.pc = "retrieve"
    BY <1>1, EncodedIndex
  <1>3. thread' = [thread EXCEPT ![r] = t] /\ thread[r].pc \in Early
    BY DEF EncodeSparse, Inv, TypeOK, At, Early
  <1>4. UNCHANGED <<libraries, keys, sent, page, crashes, matrix, node_ids>>
    BY DEF EncodeSparse, disk
  <1> HIDE DEF t
  <1> QED
    BY <1>1, <1>2, <1>3, <1>4, ThreadFacts, EarlyStep

\* save_embeddings, the step of each file and the failure of each.
LEMMA SaveInv ==
    ASSUME Inv, NEW r \in Requests,
           OpenMatrix(r) \/ WriteMatrix(r) \/ OpenIds(r) \/ WriteIds(r) \/ SaveFails(r)
    PROVE  Inv'
  <1>1. thread[r].pc \in Early
    BY DEF OpenMatrix, WriteMatrix, OpenIds, WriteIds, SaveFails, At, Early, Saving
  <1>2. \E to \in Saving \cup {"retrieve"} : Goto(r, to)
    BY DEF OpenMatrix, WriteMatrix, OpenIds, WriteIds, SaveFails, Saving
  <1>3. thread[r].index.rows \in RowSet /\ thread[r].index.ids \in IdSet
    BY ThreadFacts DEF Threads, Indices
  <1>4. matrix' \in {Absent, Torn} \cup {File(rows) : rows \in RowSet}
    BY <1>3, ThreadFacts DEF OpenMatrix, WriteMatrix, OpenIds, WriteIds, SaveFails, disk
  <1>5. node_ids' \in {Absent, Torn} \cup {File(ids) : ids \in IdSet}
    BY <1>3, ThreadFacts DEF OpenMatrix, WriteMatrix, OpenIds, WriteIds, SaveFails, disk
  <1>6. UNCHANGED <<libraries, keys, sent, page, crashes>>
    BY DEF OpenMatrix, WriteMatrix, OpenIds, WriteIds, SaveFails
  <1>7. Saving \cup {"retrieve"} \subseteq Early
        /\ \A to \in Saving \cup {"retrieve"} : to # "begin" /\ to # "idle"
    BY DEF Saving, Early
  <1> QED
    BY <1>1, <1>2, <1>4, <1>5, <1>6, <1>7, MoveStep

LEMMA RetrieveInv == ASSUME Inv, NEW r \in Requests, Retrieve(r) PROVE Inv'
  <1> PICK found \in BOOLEAN :
        thread' = [thread EXCEPT ![r].pc = "begin", ![r].found = found]
    BY DEF Retrieve
  <1> DEFINE t == [thread[r] EXCEPT !.pc = "begin", !.found = found]
  <1>1. thread[r] \in Threads /\ IndexOK(thread[r]) /\ CanQuery(r)
    BY ThreadFacts DEF Retrieve
  <1>2. "begin" \in PCs /\ "begin" \in Early
    BY DEF PCs, Early
  <1>3. t \in Threads /\ t.pc = "begin" /\ IndexOK(t)
    BY <1>1, <1>2 DEF Threads, IndexOK, CanQuery
  <1>4. thread' = [thread EXCEPT ![r] = t] /\ thread[r].pc \in Early
    BY DEF Retrieve, Inv, TypeOK, At, Early
  <1>5. UNCHANGED <<libraries, keys, sent, page, crashes, matrix, node_ids>>
    BY DEF Retrieve, disk
  <1> HIDE DEF t
  <1> QED
    BY <1>2, <1>3, <1>4, <1>5, ThreadFacts, EarlyStep

-----------------------------------------------------------------------------
LEMMA RetrievalFailsInv == ASSUME Inv, NEW r \in Requests, RetrievalFails(r) PROVE Inv'
  <1> DEFINE e == Event("error", << >>)
  <1>1. e \in Events
    BY DEF Event, Events
  <1>2. "ended" \in PCs
    BY DEF PCs
  <1>3. Thread("ended") \in Threads /\ IndexOK(Thread("ended")) /\ Thread("ended").pc = "ended"
    BY <1>2, ThreadType
  <1>4. r \in Streams => sent[r] = << >>
    BY DEF Inv, StreamOK, RetrievalFails, At
  <1>5. r \in Streams => StreamOK(Append(sent[r], e), Thread("ended"))
    <2>1. Append(<< >>, e) = <<e>>
      BY <1>1
    <2> QED
      BY <1>3, <1>4, <2>1 DEF StreamOK
  <1>6. r \in Streams => \A i \in 1 .. Len(sent[r]) : ~Terminal(sent[r][i])
    BY <1>4
  <1>7. /\ thread' = [thread EXCEPT ![r] = Thread("ended")] /\ Send(r, e)
        /\ UNCHANGED <<libraries, keys, disk, page, crashes>>
    BY DEF RetrievalFails
  <1> HIDE DEF e
  <1> QED
    BY <1>1, <1>3, <1>5, <1>6, <1>7, SendStep

LEMMA RespondInv == ASSUME Inv, NEW r \in Requests, Respond(r) PROVE Inv'
  <1> PICK ok \in BOOLEAN :
        Send(r, IF ok THEN Event("done", <<"word">>) ELSE Event("error", << >>))
    BY DEF Respond
  <1> DEFINE e == IF ok THEN Event("done", <<"word">>) ELSE Event("error", << >>)
  <1>1. e \in Events
    BY DEF Event, Events, Chunks
  <1>2. "ended" \in PCs
    BY DEF PCs
  <1>3. Thread("ended") \in Threads /\ IndexOK(Thread("ended"))
    BY <1>2, ThreadType
  <1>4. r \notin Streams
    BY AnswerServiceAssumption DEF Respond
  <1>5. /\ thread' = [thread EXCEPT ![r] = Thread("ended")] /\ Send(r, e)
        /\ UNCHANGED <<libraries, keys, disk, page, crashes>>
    BY DEF Respond
  <1> HIDE DEF e
  <1> QED
    BY <1>1, <1>3, <1>4, <1>5, SendStep

LEMMA BeginInv == ASSUME Inv, NEW r \in Requests, Begin(r) PROVE Inv'
  <1> DEFINE e  == Event("metadata", << >>)
             pc == IF ~keys THEN "offline" ELSE IF thread[r].found THEN "prompt" ELSE "no context"
  <1>1. e \in Events /\ e.type = "metadata"
    BY DEF Event, Events
  <1>2. pc \in PCs /\ pc \in {"offline", "prompt", "no context"}
    BY DEF PCs
  <1>3. /\ thread' = [thread EXCEPT ![r] = Thread(pc)] /\ Send(r, e)
        /\ UNCHANGED <<libraries, keys, disk, page, crashes>>
    BY DEF Begin
  <1>4. r \in Streams /\ sent[r] = << >>
    BY DEF Inv, StreamOK, Begin, At
  <1> HIDE DEF e, pc
  <1>5. /\ Thread(pc) \in Threads /\ IndexOK(Thread(pc)) /\ Thread(pc).pc = pc
        /\ Thread(pc).chunks = << >>
    BY <1>2, ThreadType
  <1>6. Open(<<e>>, << >>)
    BY <1>1 DEF Open
  <1>7. StreamOK(Append(sent[r], e), Thread(pc))
    <2>1. Append(<< >>, e) = <<e>> /\ << >> \in {<< >>, <<FixedText(pc)>>}
      BY <1>1
    <2> QED
      BY <1>2, <1>4, <1>5, <1>6, <2>1 DEF StreamOK
  <1>8. \A i \in 1 .. Len(sent[r]) : ~Terminal(sent[r][i])
    BY <1>4
  <1> QED
    BY <1>1, <1>3, <1>4, <1>5, <1>7, <1>8, SendStep

\* A token that follows the tokens of the chunks.
LEMMA OpenAppend ==
    ASSUME NEW s \in Seq(Events), NEW c \in Seq(Chunks), NEW chunk \in Chunks, Open(s, c)
    PROVE  /\ Open(Append(s, Event("token", <<chunk>>)), Append(c, chunk))
           /\ Event("token", <<chunk>>) \in Events
  <1> DEFINE e == Event("token", <<chunk>>)
  <1>1. e \in Events
    BY DEF Event, Events
  <1> HIDE DEF e
  <1>2. /\ Len(Append(s, e)) = Len(s) + 1 /\ Len(Append(c, chunk)) = Len(c) + 1
        /\ Len(s) = Len(c) + 1 /\ Len(c) \in Nat
    BY <1>1 DEF Open
  <1>3. Append(s, e)[1].type = "metadata"
    BY <1>1, <1>2 DEF Open
  <1>4. ASSUME NEW i \in 1 .. Len(c) + 1
        PROVE  Append(s, e)[i + 1] = Event("token", <<Append(c, chunk)[i]>>)
    <2>1. CASE i \in 1 .. Len(c)
      <3>1. s[i + 1] = Event("token", <<c[i]>>) /\ i + 1 \in 1 .. Len(s)
        BY <1>2, <2>1 DEF Open
      <3>2. Append(s, e)[i + 1] = s[i + 1] /\ Append(c, chunk)[i] = c[i]
        BY <1>1, <2>1, <3>1
      <3> QED
        BY <3>1, <3>2
    <2>2. CASE i = Len(c) + 1
      BY <1>1, <1>2, <2>2 DEF e
    <2> QED
      BY <1>2, <2>1, <2>2
  <1>5. Open(Append(s, e), Append(c, chunk))
    BY <1>2, <1>3, <1>4 DEF Open
  <1> QED
    BY <1>1, <1>5 DEF e

\* A terminal event behind the tokens.
LEMMA OpenEnds ==
    ASSUME NEW s \in Seq(Events), NEW c \in Seq(Chunks), NEW e \in Events, Open(s, c),
           Terminal(e), e.type = "done" => e.text = Strip(c) /\ Strip(c) # << >>
    PROVE  Ended(Append(s, e), c)
  <1>1. Len(Append(s, e)) = Len(c) + 2 /\ Len(s) = Len(c) + 1 /\ Len(c) \in Nat
    BY DEF Open
  <1>2. Append(s, e)[Len(c) + 2] = e
    BY <1>1
  <1>3. \A i \in 1 .. Len(c) + 1 : Append(s, e)[i] = s[i]
    BY <1>1
  <1>4. Append(s, e)[1].type = "metadata"
    BY <1>1, <1>3 DEF Open
  <1>5. \A i \in 1 .. Len(c) : Append(s, e)[i + 1] = Event("token", <<c[i]>>)
    BY <1>1, <1>3 DEF Open
  <1> QED
    BY <1>1, <1>2, <1>4, <1>5 DEF Ended

\* What is left of a text without its blanks is a text.
LEMMA StripType ==
    ASSUME NEW s \in Seq(Chunks)
    PROVE  Strip(s) \in Seq(Chunks)
  <1> DEFINE leading  == {i \in DOMAIN s : \A j \in 1 .. i : s[j] = "blank"}
             trailing == {i \in DOMAIN s : \A j \in i .. Len(s) : s[j] = "blank"}
             m == Cardinality(leading) + 1
             n == Len(s) - Cardinality(trailing)
  <1>1. IsFiniteSet(DOMAIN s)
    <2>1. IsFiniteSet(1 .. Len(s))
      BY FS_Interval
    <2> QED
      BY <2>1
  <1>2. IsFiniteSet(leading) /\ IsFiniteSet(trailing)
    BY <1>1, FS_Subset
  <1>3. Cardinality(leading) \in Nat /\ Cardinality(trailing) \in Nat
    BY <1>2, FS_CardinalityType
  <1>4. Strip(s) = SubSeq(s, m, n)
    BY DEF Strip
  <1> HIDE DEF leading, trailing
  <1>5. m \in Nat /\ n \in Int /\ 1 <= m /\ n <= Len(s)
    BY <1>3
  <1> HIDE DEF m, n
  <1>6. SubSeq(s, m, n) \in Seq(Chunks)
    BY <1>5
  <1> QED
    BY <1>4, <1>6

\* A text of one chunk that is not blank has no blanks around it.
LEMMA FixedIsStripped ==
    ASSUME NEW s \in Seq(Chunks), Len(s) = 1, s[1] # "blank"
    PROVE  Strip(s) = s
  <1> DEFINE leading  == {i \in DOMAIN s : \A j \in 1 .. i : s[j] = "blank"}
             trailing == {i \in DOMAIN s : \A j \in i .. Len(s) : s[j] = "blank"}
  <1>1. leading = {} /\ trailing = {}
    OBVIOUS
  <1>2. Cardinality(leading) = 0 /\ Cardinality(trailing) = 0
    BY <1>1, FS_EmptySet
  <1>3. Strip(s) = SubSeq(s, Cardinality(leading) + 1, Len(s) - Cardinality(trailing))
    BY DEF Strip
  <1>4. SubSeq(s, 1, 1) = s
    OBVIOUS
  <1> HIDE DEF leading, trailing
  <1> QED
    BY <1>2, <1>3, <1>4

\* The only element of a sequence.
LEMMA OneElement ==
    ASSUME NEW S, NEW x \in S
    PROVE  /\ Append(<< >>, x) = <<x>> /\ <<x>> \in Seq(S) /\ Len(<<x>>) = 1 /\ <<x>>[1] = x
           /\ <<x>> # << >> /\ << >> \in Seq(S)
    OBVIOUS

\* The last event of a stream, and the thread that ends with it.
LEMMA EndStep ==
    ASSUME Inv, NEW r \in Streams, NEW e \in Events, Open(sent[r], thread[r].chunks),
           Terminal(e),
           e.type = "done" => e.text = Strip(thread[r].chunks) /\ Strip(thread[r].chunks) # << >>,
           thread' = [thread EXCEPT ![r] = Thread("ended")], Send(r, e),
           UNCHANGED <<libraries, keys, disk, page, crashes>>
    PROVE  Inv'
  <1>1. r \in Requests /\ sent[r] \in Seq(Events) /\ thread[r].chunks \in Seq(Chunks)
    BY DEF Requests, Inv, TypeOK, Threads
  <1>2. "ended" \in PCs
    BY DEF PCs
  <1>3. Thread("ended") \in Threads /\ IndexOK(Thread("ended")) /\ Thread("ended").pc = "ended"
    BY <1>2, ThreadType
  <1>4. Ended(Append(sent[r], e), thread[r].chunks)
    BY <1>1, OpenEnds
  <1>5. StreamOK(Append(sent[r], e), Thread("ended"))
    BY <1>1, <1>3, <1>4 DEF StreamOK
  <1>6. \A i \in 1 .. Len(sent[r]) : ~Terminal(sent[r][i])
    BY <1>1, OpenGoesOn
  <1> QED
    BY <1>1, <1>3, <1>5, <1>6, SendStep

LEMMA SendFixedInv == ASSUME Inv, NEW r \in Requests, SendFixed(r) PROVE Inv'
  <1> DEFINE text == FixedText(thread[r].pc)
             t    == [thread[r] EXCEPT !.chunks = <<text>>]
  <1>1. thread[r] \in Threads /\ IndexOK(thread[r]) /\ thread[r].pc \in {"offline", "no context"}
    BY ThreadFacts DEF SendFixed
  <1>2. r \in Streams => /\ Open(sent[r], thread[r].chunks)
                         /\ thread[r].chunks \in {<< >>, <<text>>}
    BY <1>1 DEF Inv, StreamOK
  <1>3. text \in {"context", "no context"} /\ text \in Chunks
    BY DEF FixedText, Chunks
  <1>4. <<text>> \in Seq(Chunks) /\ <<text>> # << >> /\ Append(<< >>, text) = <<text>>
        /\ Len(<<text>>) = 1 /\ <<text>>[1] = text /\ << >> \in Seq(Chunks)
    BY <1>3, OneElement
  <1>5. sent[r] \in Seq(Events) /\ UNCHANGED <<libraries, keys, disk, page, crashes>>
    BY DEF Inv, TypeOK, SendFixed
  <1>6. CASE thread[r].chunks = << >>
    <2>1. thread' = [thread EXCEPT ![r] = t] /\ Send(r, Event("token", <<text>>))
      BY <1>6 DEF SendFixed, Inv, TypeOK
    <2>2. t \in Threads /\ t.pc = thread[r].pc /\ t.chunks = <<text>> /\ IndexOK(t)
      BY <1>1, <1>4 DEF Threads, IndexOK
    <2>3. Event("token", <<text>>) \in Events
      BY <1>4 DEF Event, Events
    <2>4. r \in Streams => StreamOK(Append(sent[r], Event("token", <<text>>)), t)
      <3> SUFFICES ASSUME r \in Streams
                   PROVE  StreamOK(Append(sent[r], Event("token", <<text>>)), t)
        OBVIOUS
      <3>1. Open(Append(sent[r], Event("token", <<text>>)), <<text>>)
        BY <1>2, <1>3, <1>5, <1>6, <1>4, OpenAppend
      <3> QED
        BY <1>1, <2>2, <3>1 DEF StreamOK
    <2>5. r \in Streams => \A i \in 1 .. Len(sent[r]) : ~Terminal(sent[r][i])
      BY <1>1, <1>2, <1>5, OpenGoesOn DEF Threads
    <2> HIDE DEF t, text
    <2> QED
      BY <1>5, <2>1, <2>2, <2>3, <2>4, <2>5, SendStep
  <1>7. CASE thread[r].chunks # << >>
    <2> DEFINE e == Event("done", <<text>>)
    <2>1. thread' = [thread EXCEPT ![r] = Thread("ended")] /\ Send(r, e)
      BY <1>7 DEF SendFixed
    <2>2. e \in Events /\ Terminal(e) /\ e.text = <<text>>
      BY <1>4 DEF Event, Events, Terminal
    <2>3. CASE r \in Streams
      <3>1. thread[r].chunks = <<text>> /\ Open(sent[r], thread[r].chunks)
        BY <1>2, <1>7, <2>3
      <3>2. Strip(thread[r].chunks) = <<text>> /\ <<text>> # << >>
        BY <1>3, <1>4, <3>1, FixedIsStripped
      <3> HIDE DEF e, text
      <3> QED
        BY <1>5, <2>1, <2>2, <2>3, <3>1, <3>2, EndStep
    <2>4. CASE r \notin Streams
      <3>1. "ended" \in PCs
        BY DEF PCs
      <3>2. Thread("ended") \in Threads /\ IndexOK(Thread("ended"))
        BY <3>1, ThreadType
      <3> HIDE DEF e, text
      <3> QED
        BY <1>5, <2>1, <2>2, <2>4, <3>2, SendStep
    <2> QED
      BY <2>3, <2>4
  <1> QED
    BY <1>6, <1>7

LEMMA ReceiveChunkInv == ASSUME Inv, NEW r \in Requests, ReceiveChunk(r) PROVE Inv'
  <1> PICK chunk \in {"word", "blank"} :
        /\ thread' = [thread EXCEPT ![r].chunks = Append(@, chunk)]
        /\ Send(r, Event("token", <<chunk>>))
    BY DEF ReceiveChunk
  <1> DEFINE t == [thread[r] EXCEPT !.chunks = Append(thread[r].chunks, chunk)]
             e == Event("token", <<chunk>>)
  <1>1. thread[r] \in Threads /\ IndexOK(thread[r]) /\ thread[r].pc = "prompt"
    BY ThreadFacts DEF ReceiveChunk, At
  <1>2. chunk \in Chunks /\ thread[r].chunks \in Seq(Chunks) /\ sent[r] \in Seq(Events)
    BY <1>1 DEF Chunks, Threads, Inv, TypeOK
  <1>3. Append(thread[r].chunks, chunk) \in Seq(Chunks)
    BY <1>2
  <1>4. /\ t \in Threads /\ IndexOK(t) /\ t.pc = "prompt"
        /\ t.chunks = Append(thread[r].chunks, chunk)
    BY <1>1, <1>3 DEF Threads, IndexOK
  <1>5. e \in Events
    BY <1>2, OneElement DEF Event, Events
  <1>6. thread' = [thread EXCEPT ![r] = t] /\ Send(r, e)
        /\ UNCHANGED <<libraries, keys, disk, page, crashes>>
    BY DEF ReceiveChunk, Inv, TypeOK
  <1>7. r \in Streams => Open(sent[r], thread[r].chunks)
    BY <1>1 DEF Inv, StreamOK
  <1>8. r \in Streams => StreamOK(Append(sent[r], e), t)
    BY <1>2, <1>4, <1>7, OpenAppend DEF StreamOK
  <1>9. r \in Streams => \A i \in 1 .. Len(sent[r]) : ~Terminal(sent[r][i])
    BY <1>2, <1>7, OpenGoesOn
  <1> HIDE DEF t, e
  <1> QED
    BY <1>4, <1>5, <1>6, <1>8, <1>9, SendStep

\* The end of the chunks, with the answer or with an error.
LEMMA PromptEndsInv ==
    ASSUME Inv, NEW r \in Requests, Finish(r) \/ ProviderFails(r)
    PROVE  Inv'
  <1> DEFINE c == thread[r].chunks
  <1>1. thread[r] \in Threads /\ thread[r].pc = "prompt" /\ c \in Seq(Chunks)
    BY ThreadFacts DEF Finish, ProviderFails, At, Threads
  <1>2. Strip(c) \in Seq(Chunks)
    BY <1>1, StripType
  <1> HIDE DEF c
  <1>3. PICK e \in {Event("error", << >>), Event("done", Strip(c))} :
          Send(r, e) /\ (e.type = "done" => Strip(c) # << >>)
    BY DEF Finish, ProviderFails, Event, c
  <1>4. e \in Events /\ Terminal(e) /\ (e.type = "done" => e.text = Strip(c))
    <2>1. << >> \in Seq(Chunks)
      OBVIOUS
    <2>2. Event("error", << >>) \in Events /\ Event("done", Strip(c)) \in Events
      BY <1>2, <2>1 DEF Event, Events
    <2> QED
      BY <1>3, <2>2 DEF Event, Terminal
  <1>5. /\ thread' = [thread EXCEPT ![r] = Thread("ended")]
        /\ UNCHANGED <<libraries, keys, disk, page, crashes>>
    BY DEF Finish, ProviderFails
  <1>6. CASE r \in Streams
    <2>1. Open(sent[r], thread[r].chunks)
      BY <1>1, <1>6 DEF Inv, StreamOK
    <2> QED
      BY <1>3, <1>4, <1>5, <1>6, <2>1, EndStep DEF c
  <1>7. CASE r \notin Streams
    <2>1. "ended" \in PCs
      BY DEF PCs
    <2>2. Thread("ended") \in Threads /\ IndexOK(Thread("ended"))
      BY <2>1, ThreadType
    <2> QED
      BY <1>3, <1>4, <1>5, <1>7, <2>2, SendStep
  <1> QED
    BY <1>6, <1>7

-----------------------------------------------------------------------------
\* A step of one page.
LEMMA PageStep ==
    ASSUME Inv, NEW r \in Requests, NEW p \in Pages, page' = [page EXCEPT ![r] = p],
           p.read <= Len(sent[r]), r \in Streams => PageOK(p, sent[r]),
           UNCHANGED <<libraries, keys, disk, thread, sent, crashes>>
    PROVE  Inv'
  <1>1. page \in [Requests -> Pages] /\ \A x \in Requests : page[x].read <= Len(sent[x])
    BY DEF Inv, TypeOK
  <1>2. /\ page' \in [Requests -> Pages]
        /\ \A x \in Requests : page'[x] = IF x = r THEN p ELSE page[x]
    BY <1>1
  <1>3. \A x \in Requests : page'[x].read <= Len(sent'[x])
    BY <1>1, <1>2
  <1>4. TypeOK'
    BY <1>2, <1>3 DEF Inv, TypeOK, disk
  <1>5. \A x \in Streams : PageOK(page'[x], sent'[x])
    BY <1>2 DEF Inv, Requests
  <1>6. /\ \A x \in Requests : IndexOK(thread'[x])
        /\ \A x \in Streams : StreamOK(sent'[x], thread'[x])
    BY DEF Inv
  <1>7. Inv' = /\ TypeOK'
               /\ \A x \in Requests : IndexOK(thread'[x])
               /\ \A x \in Streams : StreamOK(sent'[x], thread'[x]) /\ PageOK(page'[x], sent'[x])
    BY DEF Inv, IndexOK, StreamOK, PageOK, Open, Ended
  <1> QED
    BY <1>4, <1>5, <1>6, <1>7

LEMMA GiveUpInv == ASSUME Inv, NEW r \in Requests, GiveUp(r) \/ Abort(r) PROVE Inv'
  <1> DEFINE p == [page[r] EXCEPT !.state = "failed"]
  <1>1. page[r] \in Pages /\ page[r].read <= Len(sent[r])
    BY DEF Inv, TypeOK
  <1>2. /\ p \in Pages /\ p.read = page[r].read /\ p.state = "failed"
        /\ p.accumulated = page[r].accumulated
    BY <1>1 DEF Pages, States
  <1>3. page' = [page EXCEPT ![r] = p]
        /\ UNCHANGED <<libraries, keys, disk, thread, sent, crashes>>
    BY DEF GiveUp, Abort, Inv, TypeOK
  <1>4. r \in Streams => PageOK(p, sent[r])
    BY <1>2 DEF Inv, PageOK
  <1> HIDE DEF p
  <1> QED
    BY <1>1, <1>2, <1>3, <1>4, PageStep

\* The events of a stream, one by one.
LEMMA StreamShape ==
    ASSUME NEW s \in Seq(Events), NEW t \in Threads, StreamOK(s, t), NEW n \in 1 .. Len(s)
    PROVE  /\ n = 1 => s[n].type \in {"metadata", "error"}
           /\ n # 1 => /\ s[1].type = "metadata"
                       /\ \/ \E x \in Chunks : s[n] = Event("token", <<x>>)
                          \/ n = Len(s) /\ Terminal(s[n])
           /\ s[n].type = "error" => Terminal(s[n])
  <1>1. CASE s = <<Event("error", << >>)>>
    <2>1. Len(s) = 1 /\ s[1] = Event("error", << >>)
      BY <1>1
    <2> QED
      BY <2>1 DEF Event, Terminal
  <1>2. CASE \E c \in Seq(Chunks) : Open(s, c) \/ Ended(s, c)
    <2>1. PICK c \in Seq(Chunks) : Open(s, c) \/ Ended(s, c)
      BY <1>2
    <2>2. s[1].type = "metadata" /\ Len(s) \in {Len(c) + 1, Len(c) + 2} /\ Len(c) \in Nat
      BY <2>1 DEF Open, Ended
    <2>3. n # 1 /\ n <= Len(c) + 1 => s[n] = Event("token", <<c[n - 1]>>) /\ c[n - 1] \in Chunks
      <3> SUFFICES ASSUME n # 1, n <= Len(c) + 1
                   PROVE  s[n] = Event("token", <<c[n - 1]>>) /\ c[n - 1] \in Chunks
        OBVIOUS
      <3>1. n - 1 \in 1 .. Len(c) /\ (n - 1) + 1 = n
        BY <2>2
      <3>2. s[(n - 1) + 1] = Event("token", <<c[n - 1]>>)
        BY <2>1, <3>1 DEF Open, Ended
      <3> QED
        BY <3>1, <3>2
    <2>4. n > Len(c) + 1 => n = Len(s) /\ Terminal(s[n])
      BY <2>1, <2>2 DEF Open, Ended
    <2>5. n # 1 => (\E x \in Chunks : s[n] = Event("token", <<x>>)) \/ (n = Len(s) /\ Terminal(s[n]))
      <3>1. CASE n > Len(c) + 1
        BY <2>4, <3>1, Zenon
      <3>2. CASE n # 1 /\ n <= Len(c) + 1
        BY <2>3, <3>2, Zenon
      <3>3. n > Len(c) + 1 \/ n <= Len(c) + 1
        BY <2>2
      <3> QED
        BY <3>1, <3>2, <3>3, Zenon
    <2>6. s[n].type = "error" => Terminal(s[n])
      BY DEF Terminal
    <2> QED
      BY <2>2, <2>5, <2>6
  <1>3. s # << >>
    OBVIOUS
  <1>4. t.chunks \in Seq(Chunks)
    BY DEF Threads
  <1> QED
    BY <1>1, <1>2, <1>3, <1>4 DEF StreamOK

\* One token more.
LEMMA AccumulateToken ==
    ASSUME NEW s \in Seq(Events), NEW acc \in Seq(Chunks), NEW x \in Chunks,
           Len(acc) + 2 <= Len(s), s[Len(acc) + 2] = Event("token", <<x>>),
           \A i \in 1 .. Len(acc) : s[i + 1] = Event("token", <<acc[i]>>)
    PROVE  LET more == acc \o <<x>>
           IN  /\ more \in Seq(Chunks) /\ Len(more) = Len(acc) + 1
               /\ \A i \in 1 .. Len(acc) + 1 : s[i + 1] = Event("token", <<more[i]>>)
  <1> DEFINE more == acc \o <<x>>
  <1>1. <<x>> \in Seq(Chunks) /\ Len(<<x>>) = 1 /\ <<x>>[1] = x
    BY OneElement
  <1>2. more \in Seq(Chunks) /\ Len(more) = Len(acc) + 1 /\ Len(acc) \in Nat
    BY <1>1
  <1>3. (\A i \in 1 .. Len(acc) : more[i] = acc[i]) /\ more[Len(acc) + 1] = x
    BY <1>1
  <1>4. ASSUME NEW i \in 1 .. Len(acc) + 1 PROVE s[i + 1] = Event("token", <<more[i]>>)
    <2>1. CASE i \in 1 .. Len(acc)
      BY <1>3, <2>1
    <2>2. CASE i = Len(acc) + 1
      <3>1. i + 1 = Len(acc) + 2
        BY <1>2, <2>2
      <3> QED
        BY <1>3, <2>2, <3>1
    <2> QED
      BY <1>2, <2>1, <2>2
  <1> QED
    BY <1>2, <1>4

LEMMA ReadEventInv == ASSUME Inv, NEW r \in Requests, ReadEvent(r) PROVE Inv'
  <1> DEFINE s     == sent[r]
             old   == page[r]
             n     == old.read + 1
             acc   == IF s[n].type = "token" THEN old.accumulated \o s[n].text ELSE old.accumulated
             state == CASE s[n].type = "done" -> "answered" [] s[n].type = "error" -> "failed"
                        [] OTHER -> old.state
             p     == [old EXCEPT !.read = n, !.accumulated = acc, !.state = state]
  <1>1. /\ old \in Pages /\ s \in Seq(Events) /\ thread[r] \in Threads
        /\ old.read < Len(s) /\ old.state = "reading"
    BY DEF Inv, TypeOK, ReadEvent, Reading, Pending
  <1>2. n \in 1 .. Len(s) /\ n \in Nat /\ old.read \in Nat /\ old.accumulated \in Seq(Chunks)
    BY <1>1 DEF Pages
  <1>3. s[n] \in Events
    BY <1>1, <1>2
  <1>4. s[n].text \in Seq(Chunks) /\ s[n].type \in {"metadata", "token", "done", "error"}
    BY <1>3 DEF Events
  <1>5. acc \in Seq(Chunks)
    BY <1>2, <1>4
  <1>6. state \in States
    BY <1>1 DEF States
  <1>7. page' = [page EXCEPT ![r] = p]
        /\ UNCHANGED <<libraries, keys, disk, thread, sent, crashes>>
    BY DEF ReadEvent, NextEvent, Inv, TypeOK
  <1>8. state = "answered" <=> s[n].type = "done"
    BY <1>1
  <1>9. state = "reading" => s[n].type \in {"metadata", "token"} /\ ~Terminal(s[n])
    BY <1>1, <1>4 DEF Terminal
  <1>10. state # "idle"
    BY <1>1
  <1>11. s[n].type # "token" => acc = old.accumulated
    OBVIOUS
  <1>12. \A x : s[n] = Event("token", <<x>>) => acc = old.accumulated \o <<x>>
    BY DEF Event
  <1> HIDE DEF acc, state, old
  <1>13. /\ p \in Pages /\ p.read = n /\ p.accumulated = acc /\ p.state = state
    <2> HIDE DEF n
    <2> QED
      BY <1>1, <1>2, <1>5, <1>6 DEF Pages
  <1> HIDE DEF p
  <1>14. ASSUME r \in Streams PROVE PageOK(p, s)
    <2>1. PageOK(old, s) /\ StreamOK(s, thread[r])
      BY <1>14 DEF Inv, old
    <2>2. \A i \in 1 .. old.read : ~Terminal(s[i])
      BY <1>1, <2>1 DEF PageOK
    <2>3. state = "reading" => \A i \in 1 .. n : ~Terminal(s[i])
      BY <1>2, <1>9, <2>2
    <2>4. CASE n = 1
      <3>1. s[n].type \in {"metadata", "error"}
        BY <1>1, <1>2, <2>1, <2>4, StreamShape
      <3>2. old.read = 0 /\ old.accumulated = << >>
        BY <1>2, <2>1, <2>4 DEF PageOK
      <3>3. acc = << >>
        BY <1>11, <3>1, <3>2
      <3>4. state # "answered"
        BY <1>8, <3>1
      <3> HIDE DEF n, s
      <3> QED
        BY <1>2, <1>10, <1>13, <2>3, <2>4, <3>3, <3>4 DEF PageOK
    <2>5. CASE n # 1
      <3>1. /\ Len(old.accumulated) = n - 2
            /\ \A i \in 1 .. n - 2 : s[i + 1] = Event("token", <<old.accumulated[i]>>)
        BY <1>1, <1>2, <2>1, <2>5 DEF PageOK
      <3>2. \/ \E x \in Chunks : s[n] = Event("token", <<x>>)
            \/ n = Len(s) /\ Terminal(s[n])
        BY <1>1, <1>2, <2>1, <2>5, StreamShape
      <3>3. CASE \E x \in Chunks : s[n] = Event("token", <<x>>)
        <4>1. PICK x \in Chunks : s[n] = Event("token", <<x>>)
          BY <3>3
        <4>2. acc = old.accumulated \o <<x>> /\ s[n].type = "token"
          BY <1>12, <4>1 DEF Event
        <4>3. n = Len(old.accumulated) + 2
          BY <1>2, <3>1
        <4>4. /\ Len(acc) = n - 1
              /\ \A i \in 1 .. n - 1 : s[i + 1] = Event("token", <<acc[i]>>)
          <5>1. /\ Len(old.accumulated) + 2 <= Len(s)
                /\ s[Len(old.accumulated) + 2] = Event("token", <<x>>)
                /\ \A i \in 1 .. Len(old.accumulated) :
                     s[i + 1] = Event("token", <<old.accumulated[i]>>)
            BY <1>2, <3>1, <4>1, <4>3
          <5> HIDE DEF n, s
          <5>2. /\ Len(acc) = Len(old.accumulated) + 1
                /\ \A i \in 1 .. Len(old.accumulated) + 1 : s[i + 1] = Event("token", <<acc[i]>>)
            BY <1>1, <1>2, <4>2, <5>1, AccumulateToken
          <5>3. Len(old.accumulated) + 1 = n - 1
            BY <1>2, <4>3
          <5> QED
            BY <5>2, <5>3
        <4>5. state # "answered"
          BY <1>8, <4>2
        <4> HIDE DEF n, s
        <4> QED
          BY <1>2, <1>10, <1>13, <2>3, <2>5, <4>4, <4>5 DEF PageOK
      <3>4. CASE n = Len(s) /\ Terminal(s[n])
        <4>1. state # "reading" /\ acc = old.accumulated
          BY <1>9, <1>11, <3>4 DEF Terminal
        <4> HIDE DEF n, s
        <4> QED
          BY <1>2, <1>8, <1>10, <1>13, <2>5, <3>1, <3>4, <4>1 DEF PageOK
      <3> QED
        BY <3>2, <3>3, <3>4
    <2> QED
      BY <2>4, <2>5
  <1>15. p.read <= Len(s)
    BY <1>2, <1>13
  <1> QED
    BY <1>7, <1>13, <1>14, <1>15, PageStep

LEMMA ArriveInv == ASSUME Inv, NEW r \in Requests, Arrive(r) PROVE Inv'
  <1> PICK graph \in Graphs, embeddings \in BOOLEAN :
        thread' = [thread EXCEPT ![r].pc = IF embeddings THEN "probe" ELSE "retrieve",
                                 ![r].graph = graph, ![r].embeddings = embeddings]
    BY DEF Arrive
  <1> DEFINE pc == IF embeddings THEN "probe" ELSE "retrieve"
             t  == [thread[r] EXCEPT !.pc = pc, !.graph = graph, !.embeddings = embeddings]
             p  == [page[r] EXCEPT !.state = "reading"]
  <1>1. /\ thread \in [Requests -> Threads] /\ page \in [Requests -> Pages]
        /\ IndexOK(thread[r]) /\ page[r].read <= Len(sent[r])
        /\ thread[r].pc = "idle" /\ page[r].state = "idle"
    BY DEF Inv, TypeOK, Arrive, At
  <1>2. pc \in PCs /\ pc \in {"probe", "retrieve"} /\ graph \in GraphSet
    BY DEF PCs, GraphSet
  <1>3. thread' = [thread EXCEPT ![r] = t] /\ page' = [page EXCEPT ![r] = p]
        /\ UNCHANGED <<libraries, keys, disk, sent, crashes>>
    BY <1>1 DEF Arrive
  <1> HIDE DEF pc
  <1>4. t \in Threads /\ t.pc = pc /\ t.index = thread[r].index
    BY <1>1, <1>2 DEF Threads
  <1>5. IndexOK(t)
    BY <1>1, <1>2, <1>4 DEF IndexOK
  <1>6. p \in Pages /\ p.read = page[r].read /\ p.accumulated = page[r].accumulated
        /\ p.state = "reading"
    BY <1>1 DEF Pages, States
  <1> HIDE DEF t, p
  <1>7. /\ thread' \in [Requests -> Threads] /\ page' \in [Requests -> Pages]
        /\ \A x \in Requests : thread'[x] = IF x = r THEN t ELSE thread[x]
        /\ \A x \in Requests : page'[x] = IF x = r THEN p ELSE page[x]
    <2>1. thread' = [thread EXCEPT ![r] = t] /\ t \in Threads
      BY <1>3, <1>4
    <2>2. page' = [page EXCEPT ![r] = p] /\ p \in Pages
      BY <1>3, <1>6
    <2>3. /\ thread' \in [Requests -> Threads]
          /\ \A x \in Requests : thread'[x] = IF x = r THEN t ELSE thread[x]
      <3>1. thread \in [Requests -> Threads]
        BY <1>1
      <3>2. thread' \in [Requests -> Threads]
        BY <2>1, <3>1
      <3> QED
        BY <2>1, <3>1, <3>2
    <2>4. /\ page' \in [Requests -> Pages]
          /\ \A x \in Requests : page'[x] = IF x = r THEN p ELSE page[x]
      BY <1>1, <2>2
    <2> QED
      BY <2>3, <2>4
  <1>8. TypeOK'
    <2>1. \A x \in Requests : page'[x].read <= Len(sent'[x])
      BY <1>3, <1>6, <1>7 DEF Inv, TypeOK
    <2> QED
      BY <1>3, <1>7, <2>1 DEF Inv, TypeOK, disk
  <1>9. \A x \in Requests : IndexOK(thread'[x])
    BY <1>5, <1>7 DEF Inv
  <1>10. ASSUME NEW x \in Streams PROVE StreamOK(sent'[x], thread'[x]) /\ PageOK(page'[x], sent'[x])
    <2>1. x \in Requests /\ StreamOK(sent[x], thread[x]) /\ PageOK(page[x], sent[x])
      BY DEF Inv, Requests
    <2>2. CASE x # r
      BY <1>3, <1>7, <2>1, <2>2
    <2>3. CASE x = r
      <3>1. sent[r] = << >>
        BY <1>1, <2>1, <2>3 DEF StreamOK
      <3>2. StreamOK(sent[r], t)
        BY <1>2, <1>4, <3>1 DEF StreamOK
      <3>3. page[r].read = 0 /\ page[r].accumulated = << >>
        BY <1>1, <2>1, <2>3 DEF PageOK
      <3>4. PageOK(p, sent[r])
        BY <1>6, <3>1, <3>3 DEF PageOK
      <3> QED
        BY <1>3, <1>7, <2>3, <3>2, <3>4
    <2> QED
      BY <2>2, <2>3
  <1>11. Inv' = /\ TypeOK'
                /\ \A x \in Requests : IndexOK(thread'[x])
                /\ \A x \in Streams : StreamOK(sent'[x], thread'[x]) /\ PageOK(page'[x], sent'[x])
    BY DEF Inv, IndexOK, StreamOK, PageOK, Open, Ended
  <1> QED
    BY <1>8, <1>9, <1>10, <1>11

\* What was sent before a crash stays as it is, whole or not.
LEMMA CrashInv == ASSUME Inv, Crash PROVE Inv'
  <1>1. /\ thread \in [Requests -> Threads] /\ sent \in [Requests -> Seq(Events)]
        /\ crashes' \in 0 .. MaxCrashes /\ UNCHANGED <<libraries, keys, disk, sent, page>>
    BY AnswerServiceAssumption DEF Inv, TypeOK, Crash
  <1>2. \A x \in Requests :
          thread'[x] = IF thread[x].pc \in {"idle", "ended", "refused"} THEN thread[x]
                       ELSE Thread("lost")
    BY DEF Crash
  <1>3. "lost" \in PCs
    BY DEF PCs
  <1>4. Thread("lost") \in Threads /\ IndexOK(Thread("lost")) /\ Thread("lost").pc = "lost"
    BY <1>3, ThreadType
  <1>5. thread' \in [Requests -> Threads]
    BY <1>1, <1>4 DEF Crash
  <1>6. TypeOK'
    BY <1>1, <1>5 DEF Inv, TypeOK, disk
  <1>7. \A x \in Requests : IndexOK(thread'[x])
    BY <1>2, <1>4 DEF Inv
  <1>8. ASSUME NEW x \in Streams PROVE StreamOK(sent[x], thread'[x]) /\ PageOK(page[x], sent[x])
    <2>1. /\ x \in Requests /\ StreamOK(sent[x], thread[x]) /\ PageOK(page[x], sent[x])
          /\ thread[x].chunks \in Seq(Chunks)
      BY <1>1 DEF Inv, Requests, Threads
    <2>2. StreamOK(sent[x], thread'[x])
      <3>1. CASE thread[x].pc \in {"idle", "ended", "refused"}
        BY <1>2, <2>1, <3>1
      <3>2. CASE thread[x].pc \notin {"idle", "ended", "refused"}
        <4>1. thread'[x] = Thread("lost")
          BY <1>2, <2>1, <3>2
        <4>2. sent[x] = << >> \/ \E c \in Seq(Chunks) : Open(sent[x], c)
          BY <2>1, <3>2 DEF StreamOK
        <4> QED
          BY <1>4, <4>1, <4>2 DEF StreamOK
      <3> QED
        BY <3>1, <3>2
    <2> QED
      BY <2>1, <2>2
  <1>9. Inv' = /\ TypeOK'
               /\ \A x \in Requests : IndexOK(thread'[x])
               /\ \A x \in Streams : StreamOK(sent'[x], thread'[x]) /\ PageOK(page'[x], sent'[x])
    BY DEF Inv, IndexOK, StreamOK, PageOK, Open, Ended
  <1> QED
    BY <1>1, <1>6, <1>7, <1>8, <1>9

\* Every step keeps the invariant.
LEMMA NextInv == ASSUME Inv, [Next]_vars PROVE Inv'
  <1>1. CASE UNCHANGED vars
    <2>1. UNCHANGED <<libraries, keys, matrix, node_ids, thread, sent, page, crashes>>
      BY <1>1 DEF vars, disk
    <2>2. TypeOK'
      BY <2>1 DEF Inv, TypeOK
    <2>3. /\ \A x \in Requests : IndexOK(thread'[x])
          /\ \A x \in Streams : StreamOK(sent'[x], thread'[x]) /\ PageOK(page'[x], sent'[x])
      BY <2>1 DEF Inv
    <2> QED
      BY <2>2, <2>3 DEF Inv, IndexOK, StreamOK, PageOK, Open, Ended
  <1>2. ASSUME NEW r \in Requests, Arrive(r) PROVE Inv'
    BY <1>2, ArriveInv
  <1>3. ASSUME NEW r \in Requests, Serve(r) PROVE Inv'
    BY <1>3, ProbeInv, ReadIdsInv, ReadMatrixInv, NothingToIndexInv, EncodeInv, EncodeSparseInv,
       SaveInv, RetrievalFailsInv, RetrieveInv, RespondInv, BeginInv, SendFixedInv,
       ReceiveChunkInv, PromptEndsInv DEF Serve
  <1>4. ASSUME NEW r \in Requests, Read(r) PROVE Inv'
    BY <1>4, ReadEventInv, GiveUpInv DEF Read
  <1>5. ASSUME NEW r \in Requests, Abort(r) PROVE Inv'
    BY <1>5, GiveUpInv
  <1>6. CASE Crash
    BY <1>6, CrashInv
  <1> QED
    BY <1>1, <1>2, <1>3, <1>4, <1>5, <1>6 DEF Next

\* The invariant of every behaviour.
LEMMA Invariant == Spec => []Inv
  BY InitInv, NextInv, PTL DEF Spec

-----------------------------------------------------------------------------
\* The type invariant, for any number of requests, graphs, chunks and crashes.
THEOREM AnswersTypeCorrect == Spec => []TypeOK
  <1>1. Inv => TypeOK
    BY DEF Inv
  <1> QED
    BY <1>1, Invariant, PTL

\* The shape of what was sent gives its order.
LEMMA ShapeIsOrdered ==
    ASSUME NEW s \in Seq(Events), NEW t \in Threads, StreamOK(s, t)
    PROVE  /\ \A i \in DOMAIN s :
                /\ Terminal(s[i]) => i = Len(s)
                /\ s[i].type = "metadata" <=> i = 1 /\ s[1].type # "error"
           /\ t.pc = "ended" => s # << >> /\ Terminal(Last(s))
  <1>1. ASSUME NEW i \in DOMAIN s
        PROVE  /\ Terminal(s[i]) => i = Len(s)
               /\ s[i].type = "metadata" <=> i = 1 /\ s[1].type # "error"
    <2>1. i \in 1 .. Len(s) /\ 1 \in 1 .. Len(s) /\ Len(s) \in Nat /\ Len(s) >= 1
      OBVIOUS
    <2>2. i = 1 => s[i].type \in {"metadata", "error"}
      BY <2>1, StreamShape
    <2>3. i # 1 => \/ \E x \in Chunks : s[i] = Event("token", <<x>>)
                   \/ i = Len(s) /\ Terminal(s[i])
      BY <2>1, StreamShape
    <2>4. i # 1 => s[1].type = "metadata"
      BY <2>1, StreamShape
    <2>5. CASE i # 1
      BY <2>3, <2>5 DEF Event, Terminal
    <2>6. CASE i = 1
      <3>1. ASSUME s[1].type = "error" PROVE Len(s) = 1
        <4>1. 2 <= Len(s) => 2 \in 1 .. Len(s)
          OBVIOUS
        <4>2. 2 <= Len(s) => s[1].type = "metadata"
          BY <4>1, StreamShape
        <4>3. ~(2 <= Len(s))
          BY <3>1, <4>2
        <4>4. \A k \in Nat : k >= 1 /\ ~(2 <= k) => k = 1
          OBVIOUS
        <4> QED
          BY <2>1, <4>3, <4>4, Zenon
      <3> QED
        BY <2>2, <2>6, <3>1 DEF Terminal
    <2> QED
      BY <2>5, <2>6
  <1>2. ASSUME t.pc = "ended" PROVE s # << >> /\ Terminal(Last(s))
    <2>1. CASE s = <<Event("error", << >>)>>
      <3>1. Len(s) = 1 /\ s[1] = Event("error", << >>)
        BY <2>1
      <3> QED
        BY <3>1 DEF Last, Event, Terminal
    <2>2. CASE \E c \in Seq(Chunks) : Ended(s, c)
      <3>1. PICK c \in Seq(Chunks) : Ended(s, c)
        BY <2>2
      <3>2. Len(s) = Len(c) + 2 /\ Len(c) \in Nat /\ Terminal(s[Len(s)])
        BY <3>1 DEF Ended
      <3> QED
        BY <3>2 DEF Last
    <2> QED
      BY <1>2, <2>1, <2>2 DEF StreamOK
  <1> QED
    BY <1>1, <1>2

\* The events of every stream come in the documented order, whatever the index, the
\* provider and the crashes do.
THEOREM AnswersStreamInOrder == Spec => []StreamInOrder
  <1>1. Inv => StreamInOrder
    <2> SUFFICES ASSUME Inv, NEW r \in Streams
                 PROVE  /\ \A i \in DOMAIN sent[r] :
                             /\ Terminal(sent[r][i]) => i = Len(sent[r])
                             /\ sent[r][i].type = "metadata" <=> i = 1 /\ sent[r][1].type # "error"
                        /\ At(r, "ended") => sent[r] # << >> /\ Terminal(Last(sent[r]))
      BY DEF StreamInOrder
    <2>1. /\ sent[r] \in Seq(Events) /\ thread[r] \in Threads /\ StreamOK(sent[r], thread[r])
      BY DEF Inv, TypeOK, Requests
    <2> QED
      BY <2>1, ShapeIsOrdered DEF At
  <1> QED
    BY <1>1, Invariant, PTL

\* A page that shows an answer has the whole of it.
THEOREM AnswersWhole == Spec => []AnswersAreWhole
  <1>1. Inv => AnswersAreWhole
    <2> SUFFICES ASSUME Inv, NEW r \in Streams, page[r].state = "answered"
                 PROVE  /\ Last(sent[r]).type = "done"
                        /\ Last(sent[r]).text = Strip(page[r].accumulated)
                        /\ Strip(page[r].accumulated) # << >>
                        /\ Len(page[r].accumulated) = Len(sent[r]) - 2
      BY DEF AnswersAreWhole
    <2> DEFINE s == sent[r]
               acc == page[r].accumulated
    <2>1. /\ s \in Seq(Events) /\ acc \in Seq(Chunks) /\ Len(s) \in Nat
          /\ StreamOK(s, thread[r]) /\ PageOK(page[r], s) /\ thread[r] \in Threads
      BY DEF Inv, TypeOK, Requests, Pages
    <2>2. /\ Len(s) >= 2 /\ s[Len(s)].type = "done" /\ Len(acc) = Len(s) - 2
          /\ \A i \in 1 .. Len(s) - 2 : s[i + 1] = Event("token", <<acc[i]>>)
      BY <2>1 DEF PageOK
    <2> HIDE DEF s, acc
    <2>3. Terminal(s[Len(s)]) /\ Len(s) # 1 /\ s # << >>
      BY <2>2 DEF Terminal
    <2>4. \A c \in Seq(Chunks) : ~Open(s, c)
      BY <2>1, <2>2, <2>3, OpenGoesOn
    <2>5. s # <<Event("error", << >>)>>
      BY <2>3
    <2>6. thread[r].chunks \in Seq(Chunks)
      BY <2>1 DEF Threads
    <2>7. PICK c \in Seq(Chunks) : Ended(s, c)
      BY <2>1, <2>3, <2>4, <2>5, <2>6 DEF StreamOK
    <2>8. Len(c) = Len(s) - 2 /\ \A i \in 1 .. Len(c) : s[i + 1] = Event("token", <<c[i]>>)
      BY <2>1, <2>7 DEF Ended
    <2>9. ASSUME NEW i \in 1 .. Len(c) PROVE c[i] = acc[i]
      <3>1. Event("token", <<c[i]>>) = Event("token", <<acc[i]>>)
        BY <2>2, <2>8
      <3>2. Event("token", <<c[i]>>).text = Event("token", <<acc[i]>>).text
        BY <3>1
      <3>3. <<c[i]>> = <<acc[i]>>
        BY <3>2 DEF Event
      <3> QED
        BY <3>3
    <2>10. acc = c
      BY <2>1, <2>2, <2>8, <2>9
    <2>11. s[Len(s)].text = Strip(c) /\ Strip(c) # << >>
      <3>1. Len(s) = Len(c) + 2
        BY <2>7 DEF Ended
      <3> QED
        BY <2>2, <2>7, <3>1 DEF Ended
    <2> QED
      BY <2>2, <2>10, <2>11 DEF Last, s, acc
  <1> QED
    BY <1>1, Invariant, PTL

\* No search by meaning is made in the rows of another graph or of older texts.
THEOREM AnswersSearchWhatIsAsked == Spec => []SearchesWhatIsAsked
  <1>1. Inv => SearchesWhatIsAsked
    BY DEF Inv, SearchesWhatIsAsked, IndexOK, At
  <1> QED
    BY <1>1, Invariant, PTL

-----------------------------------------------------------------------------
\* Where a ranking has a node: at one place of its own, or behind all of them.
LEMMA RankFacts ==
    ASSUME NEW q \in Rankings, NEW x \in Ranked
    PROVE  LET worst == Worst(Cardinality(Ranked))
               rank  == RankIn(q, x, worst)
           IN  /\ worst \in Nat /\ rank \in 1 .. worst /\ DOMAIN q \subseteq 1 .. worst - 1
               /\ (\E i \in DOMAIN q : q[i] = x) =>
                    rank \in DOMAIN q /\ \A i \in DOMAIN q : q[i] = x <=> i = rank
               /\ ~(\E i \in DOMAIN q : q[i] = x) => rank = worst
  <1> DEFINE worst == Worst(Cardinality(Ranked))
             rank  == RankIn(q, x, worst)
  <1>1. Cardinality(Ranked) \in Nat
    BY AnswerServiceAssumption, FS_CardinalityType
  <1>2. PICK k \in 0 .. Cardinality(Ranked) : q \in [1 .. k -> Ranked] /\ IsInjective(q)
    BY DEF Rankings
  <1>3. worst \in Nat /\ worst = Cardinality(Ranked) + 1 /\ worst >= 1
    BY <1>1 DEF Worst
  <1>4. DOMAIN q = 1 .. k /\ 1 .. k \subseteq 1 .. worst - 1
    BY <1>1, <1>2, <1>3
  <1> HIDE DEF worst
  <1>5. CASE \E i \in DOMAIN q : q[i] = x
    <2>1. rank = CHOOSE i \in DOMAIN q : q[i] = x
      BY <1>5 DEF RankIn
    <2>2. rank \in DOMAIN q /\ q[rank] = x
      BY <1>5, <2>1
    <2>3. \A i \in DOMAIN q : q[i] = x <=> i = rank
      BY <1>2, <2>2 DEF IsInjective
    <2> HIDE DEF rank
    <2>4. rank \in 1 .. worst
      BY <1>3, <1>4, <2>2
    <2> QED
      BY <1>3, <1>4, <1>5, <2>2, <2>3, <2>4 DEF rank, worst
  <1>6. CASE ~\E i \in DOMAIN q : q[i] = x
    <2>1. rank = worst
      BY <1>6 DEF RankIn
    <2> QED
      BY <1>3, <1>4, <1>6, <2>1 DEF worst
  <1> QED
    BY <1>5, <1>6

\* To be before another node in a ranking is to have the smaller rank in it.
LEMMA BeforeIsSmaller ==
    ASSUME NEW q \in Rankings, NEW x \in Ranked, NEW y \in Ranked
    PROVE  LET worst == Worst(Cardinality(Ranked))
           IN  IsBefore(q, x, y) <=> RankIn(q, x, worst) < RankIn(q, y, worst)
  <1> DEFINE worst == Worst(Cardinality(Ranked))
             kx == RankIn(q, x, worst)
             ky == RankIn(q, y, worst)
             HasX == \E i \in DOMAIN q : q[i] = x
             HasY == \E i \in DOMAIN q : q[i] = y
  <1>1. /\ worst \in Nat /\ kx \in 1 .. worst /\ DOMAIN q \subseteq 1 .. worst - 1
        /\ HasX => kx \in DOMAIN q /\ \A i \in DOMAIN q : q[i] = x <=> i = kx
        /\ ~HasX => kx = worst
    BY RankFacts
  <1>2. /\ ky \in 1 .. worst
        /\ HasY => ky \in DOMAIN q /\ \A i \in DOMAIN q : q[i] = y <=> i = ky
        /\ ~HasY => ky = worst
    BY RankFacts
  <1> HIDE DEF worst, kx, ky
  <1>3. IsBefore(q, x, y) <=> HasX /\ \A j \in DOMAIN q : q[j] = y => kx < j
    BY <1>1 DEF IsBefore
  <1>4. CASE HasX /\ HasY
    <2>1. (\A j \in DOMAIN q : q[j] = y => kx < j) <=> kx < ky
      BY <1>2, <1>4
    <2> QED
      BY <1>3, <1>4, <2>1 DEF kx, ky, worst
  <1>5. CASE HasX /\ ~HasY
    <2>1. IsBefore(q, x, y)
      BY <1>3, <1>5
    <2>2. kx \in 1 .. worst - 1 /\ ky = worst
      BY <1>1, <1>2, <1>5
    <2> QED
      BY <1>1, <2>1, <2>2 DEF kx, ky, worst
  <1>6. CASE ~HasX
    BY <1>1, <1>2, <1>3, <1>6 DEF kx, ky, worst
  <1> QED
    BY <1>4, <1>5, <1>6 DEF kx, ky, worst

\* The score falls in both ranks.
LEMMA ScoreFalls ==
    ASSUME NEW kx \in Nat, NEW ky \in Nat, NEW sx \in Nat, NEW sy \in Nat,
           kx <= ky, sx <= sy, kx < ky \/ sx < sy
    PROVE  Less(RRF(ky, sy), RRF(kx, sx))
  <1> DEFINE a == RRF_K + kx
             b == RRF_K + sx
             c == RRF_K + ky
             d == RRF_K + sy
  <1>1. /\ a \in Nat /\ b \in Nat /\ c \in Nat /\ d \in Nat
        /\ a > 0 /\ b > 0 /\ c > 0 /\ d > 0 /\ a <= c /\ b <= d /\ (a < c \/ b < d)
    BY DEF RRF_K
  <1>2. /\ RRF(ky, sy).over = 3 * d + c /\ RRF(ky, sy).under = c * d
        /\ RRF(kx, sx).over = 3 * b + a /\ RRF(kx, sx).under = a * b
    BY DEF RRF, KeywordWeight
  <1> HIDE DEF a, b, c, d
  <1>3. b * d \in Nat /\ b * d > 0 /\ a * c \in Nat /\ a * c > 0
    BY <1>1
  <1>4. \A m, n, p \in Nat : p > 0 /\ m <= n => p * m <= p * n /\ (m < n => p * m < p * n)
    OBVIOUS
  <1>5. /\ (b * d) * a <= (b * d) * c /\ (a < c => (b * d) * a < (b * d) * c)
        /\ (a * c) * b <= (a * c) * d /\ (b < d => (a * c) * b < (a * c) * d)
    BY <1>1, <1>3, <1>4
  <1>6. 3 * ((b * d) * a) + (a * c) * b < 3 * ((b * d) * c) + (a * c) * d
    BY <1>1, <1>3, <1>5
  <1>7. /\ (3 * d + c) * (a * b) = 3 * ((b * d) * a) + (a * c) * b
        /\ (3 * b + a) * (c * d) = 3 * ((b * d) * c) + (a * c) * d
    BY <1>1
  <1>8. (3 * d + c) * (a * b) < (3 * b + a) * (c * d)
    BY <1>6, <1>7
  <1> QED
    BY <1>2, <1>8 DEF Less

\* The fusion of any two rankings of any nodes respects what they agree on.
THEOREM AnswersFusion == Spec => []FusionRespectsAgreement
  <1>1. FusionRespectsAgreement
    <2> DEFINE worst == Worst(Cardinality(Ranked))
    <2> SUFFICES ASSUME NEW kw \in Rankings, NEW sem \in Rankings, NEW x \in Ranked, NEW y \in Ranked,
                        IsBefore(kw, x, y) \/ IsBefore(sem, x, y),
                        ~IsBefore(kw, y, x), ~IsBefore(sem, y, x)
                 PROVE  Less(ScoreOf(y, kw, sem, Cardinality(Ranked)),
                             ScoreOf(x, kw, sem, Cardinality(Ranked)))
      BY DEF FusionRespectsAgreement
    <2>1. /\ worst \in Nat /\ RankIn(kw, x, worst) \in 1 .. worst /\ RankIn(kw, y, worst) \in 1 .. worst
          /\ RankIn(sem, x, worst) \in 1 .. worst /\ RankIn(sem, y, worst) \in 1 .. worst
      BY RankFacts
    <2>2. /\ IsBefore(kw, x, y) <=> RankIn(kw, x, worst) < RankIn(kw, y, worst)
          /\ IsBefore(kw, y, x) <=> RankIn(kw, y, worst) < RankIn(kw, x, worst)
          /\ IsBefore(sem, x, y) <=> RankIn(sem, x, worst) < RankIn(sem, y, worst)
          /\ IsBefore(sem, y, x) <=> RankIn(sem, y, worst) < RankIn(sem, x, worst)
      BY BeforeIsSmaller
    <2>3. /\ ScoreOf(x, kw, sem, Cardinality(Ranked)) = RRF(RankIn(kw, x, worst), RankIn(sem, x, worst))
          /\ ScoreOf(y, kw, sem, Cardinality(Ranked)) = RRF(RankIn(kw, y, worst), RankIn(sem, y, worst))
      BY DEF ScoreOf
    <2> HIDE DEF worst
    <2> DEFINE kx == RankIn(kw, x, worst)
               ky == RankIn(kw, y, worst)
               sx == RankIn(sem, x, worst)
               sy == RankIn(sem, y, worst)
    <2>4. kx \in Nat /\ ky \in Nat /\ sx \in Nat /\ sy \in Nat
      BY <2>1
    <2>5. kx < ky \/ sx < sy
      BY <2>2
    <2>6. ~(ky < kx) /\ ~(sy < sx)
      BY <2>2
    <2> HIDE DEF kx, ky, sx, sy
    <2>7. kx <= ky /\ sx <= sy
      BY <2>4, <2>6
    <2>8. Less(RRF(ky, sy), RRF(kx, sx))
      BY <2>4, <2>5, <2>7, ScoreFalls
    <2> QED
      BY <2>3, <2>8 DEF kx, ky, sx, sy
  <1> QED
    BY <1>1, PTL

-----------------------------------------------------------------------------
(* Trimming *)

\* Induction over the natural numbers, for a set.
LEMMA NaturalSet ==
    ASSUME NEW S \in SUBSET Nat, 0 \in S, \A n \in S : n + 1 \in S
    PROVE  S = Nat
  <1> SUFFICES ASSUME Nat \ S # {} PROVE FALSE
    OBVIOUS
  <1>1. PICK m \in Nat \ S : \A k \in Nat \ S : <<k, m>> \notin OpToRel(<, Nat)
    BY NatLessThanWellFounded, WFMin
  <1>2. m \in Nat /\ m \notin S
    OBVIOUS
  <1>3. m # 0
    BY <1>2
  <1>4. m - 1 \in Nat /\ m - 1 < m /\ (m - 1) + 1 = m
    BY <1>2, <1>3
  <1>5. <<m - 1, m>> \in OpToRel(<, Nat)
    BY <1>2, <1>4 DEF OpToRel
  <1>6. m - 1 \in S
    BY <1>1, <1>4, <1>5
  <1>7. (m - 1) + 1 \in S
    BY <1>6
  <1> QED
    BY <1>2, <1>4, <1>7

-----------------------------------------------------------------------------
\* The longest text whose tokens are within a budget.
Fits(budget) == IF budget = 0 THEN 0 ELSE 4 * budget + 3

LEMMA FitsIsTheLongest ==
    ASSUME NEW budget \in Nat, NEW length \in Nat
    PROVE  CountTokens(length) <= budget <=> length <= Fits(budget)
  <1>1. length \div 4 \in Nat /\ 4 * (length \div 4) <= length /\ length < 4 * (length \div 4) + 4
    OBVIOUS
  <1> DEFINE q == length \div 4
  <1>2. CountTokens(length) = IF length = 0 THEN 0 ELSE IF q = 0 THEN 1 ELSE q
    BY DEF CountTokens
  <1> HIDE DEF q
  <1>3. q \in Nat /\ 4 * q <= length /\ length < 4 * q + 4
    BY <1>1 DEF q
  <1> QED
    BY <1>2, <1>3 DEF Fits

\* What the binary search finds between two bounds.
Found(budget, lo, hi) ==
    IF lo >= hi \/ Fits(budget) <= lo THEN lo ELSE IF Fits(budget) < hi THEN Fits(budget) ELSE hi

LEMMA MiddleIsBetween ==
    ASSUME NEW lo \in Nat, NEW hi \in Nat, lo < hi
    PROVE  Middle(lo, hi) \in Nat /\ lo < Middle(lo, hi) /\ Middle(lo, hi) <= hi
  BY DEF Middle

LEMMA FoundRecurs ==
    ASSUME NEW budget \in Nat, NEW lo \in Nat, NEW hi \in Nat
    PROVE  Found(budget, lo, hi) =
             IF lo >= hi THEN lo
             ELSE IF CountTokens(Middle(lo, hi)) <= budget THEN Found(budget, Middle(lo, hi), hi)
             ELSE Found(budget, lo, Middle(lo, hi) - 1)
  <1>1. Fits(budget) \in Nat
    BY DEF Fits
  <1>2. CASE lo >= hi
    BY <1>2 DEF Found
  <1>3. CASE lo < hi
    <2> DEFINE m == Middle(lo, hi)
    <2>1. m \in Nat /\ lo < m /\ m <= hi
      BY <1>3, MiddleIsBetween
    <2>2. CountTokens(m) <= budget <=> m <= Fits(budget)
      BY <2>1, FitsIsTheLongest
    <2> HIDE DEF m
    <2>3. Found(budget, lo, hi) =
             IF lo >= hi THEN lo
             ELSE IF CountTokens(m) <= budget THEN Found(budget, m, hi)
             ELSE Found(budget, lo, m - 1)
      BY <1>1, <1>3, <2>1, <2>2 DEF Found
    <2> QED
      BY <2>3 DEF m
  <1> QED
    BY <1>2, <1>3

\* The binary search returns the longest prefix.
LEMMA LongestPrefixIs ==
    ASSUME NEW length \in Nat, NEW budget \in Nat
    PROVE  LongestPrefix(length, budget) = Found(budget, 0, length)
  <1> DEFINE Spans == (0 .. length) \X (0 .. length)
             Body(s, span) ==
               IF span[1] >= span[2] THEN span[1]
               ELSE IF CountTokens(Middle(span[1], span[2])) <= budget
                    THEN s[<<Middle(span[1], span[2]), span[2]>>]
               ELSE s[<<span[1], Middle(span[1], span[2]) - 1>>]
             search == CHOOSE s : s = [span \in Spans |-> Body(s, span)]
             f == [span \in Spans |-> Found(budget, span[1], span[2])]
  <1>1. ASSUME NEW lo \in 0 .. length, NEW hi \in 0 .. length, lo < hi
        PROVE  /\ <<Middle(lo, hi), hi>> \in Spans /\ <<lo, Middle(lo, hi) - 1>> \in Spans
               /\ hi - Middle(lo, hi) < hi - lo /\ (Middle(lo, hi) - 1) - lo < hi - lo
    <2>1. Middle(lo, hi) \in Nat /\ lo < Middle(lo, hi) /\ Middle(lo, hi) <= hi
      BY <1>1, MiddleIsBetween
    <2> QED
      BY <1>1, <2>1
  <1>2. ASSUME NEW span \in Spans PROVE f[span] = Body(f, span)
    <2>1. PICK lo \in 0 .. length, hi \in 0 .. length : span = <<lo, hi>>
      OBVIOUS
    <2>2. f[span] = Found(budget, lo, hi)
      BY <2>1
    <2>3. CASE lo >= hi
      BY <2>1, <2>2, <2>3, FoundRecurs
    <2>4. CASE lo < hi
      <3>1. /\ f[<<Middle(lo, hi), hi>>] = Found(budget, Middle(lo, hi), hi)
            /\ f[<<lo, Middle(lo, hi) - 1>>] = Found(budget, lo, Middle(lo, hi) - 1)
        BY <1>1, <2>4
      <3> HIDE DEF f
      <3> QED
        BY <2>1, <2>2, <2>4, <3>1, FoundRecurs
    <2> QED
      BY <2>3, <2>4
  <1>3. search = [span \in Spans |-> Body(search, span)]
    <2>1. f = [span \in Spans |-> Body(f, span)]
      BY <1>2
    <2> HIDE DEF f, Body, Spans
    <2> QED
      BY <2>1
  <1>4. ASSUME NEW lo \in 0 .. length, NEW hi \in 0 .. length
        PROVE  search[<<lo, hi>>] =
                 IF lo >= hi THEN lo
                 ELSE IF CountTokens(Middle(lo, hi)) <= budget THEN search[<<Middle(lo, hi), hi>>]
                 ELSE search[<<lo, Middle(lo, hi) - 1>>]
    <2> HIDE DEF search
    <2> QED
      BY <1>3
  <1> HIDE DEF search
  <1> DEFINE S == {n \in Nat : \A lo \in 0 .. length, hi \in 0 .. length :
                                 hi - lo <= n => search[<<lo, hi>>] = Found(budget, lo, hi)}
  <1>5. 0 \in S
    <2> SUFFICES ASSUME NEW lo \in 0 .. length, NEW hi \in 0 .. length, hi - lo <= 0
                 PROVE  search[<<lo, hi>>] = Found(budget, lo, hi)
      OBVIOUS
    <2>1. lo \in Nat /\ hi \in Nat /\ lo >= hi
      OBVIOUS
    <2> HIDE DEF S
    <2> QED
      BY <1>4, <2>1 DEF Found
  <1>6. ASSUME NEW n \in S PROVE n + 1 \in S
    <2> SUFFICES ASSUME NEW lo \in 0 .. length, NEW hi \in 0 .. length, hi - lo <= n + 1
                 PROVE  search[<<lo, hi>>] = Found(budget, lo, hi)
      OBVIOUS
    <2>1. n \in Nat /\ \A a \in 0 .. length, b \in 0 .. length :
                         b - a <= n => search[<<a, b>>] = Found(budget, a, b)
      OBVIOUS
    <2> HIDE DEF S
    <2>2. CASE lo >= hi
      BY <1>4, <2>2 DEF Found
    <2>3. CASE lo < hi
      <3>1. /\ Middle(lo, hi) \in 0 .. length /\ Middle(lo, hi) - 1 \in 0 .. length
            /\ hi - Middle(lo, hi) <= n /\ (Middle(lo, hi) - 1) - lo <= n
        <4>1. Middle(lo, hi) \in Nat /\ lo < Middle(lo, hi) /\ Middle(lo, hi) <= hi
          BY <2>3, MiddleIsBetween
        <4> QED
          BY <2>1, <2>3, <4>1
      <3>2. /\ search[<<Middle(lo, hi), hi>>] = Found(budget, Middle(lo, hi), hi)
            /\ search[<<lo, Middle(lo, hi) - 1>>] = Found(budget, lo, Middle(lo, hi) - 1)
        BY <2>1, <3>1
      <3>3. lo \in Nat /\ hi \in Nat /\ ~(lo >= hi)
        BY <2>3
      <3>4. search[<<lo, hi>>] =
              IF CountTokens(Middle(lo, hi)) <= budget THEN Found(budget, Middle(lo, hi), hi)
              ELSE Found(budget, lo, Middle(lo, hi) - 1)
        BY <1>4, <3>2, <3>3
      <3>5. Found(budget, lo, hi) =
              IF CountTokens(Middle(lo, hi)) <= budget THEN Found(budget, Middle(lo, hi), hi)
              ELSE Found(budget, lo, Middle(lo, hi) - 1)
        BY <3>3, FoundRecurs
      <3> QED
        BY <3>4, <3>5
    <2> QED
      BY <2>2, <2>3
  <1>7. search[<<0, length>>] = Found(budget, 0, length)
    <2>1. S = Nat
      <3> HIDE DEF S
      <3> QED
        BY <1>5, <1>6, NaturalSet DEF S
    <2>2. length \in S
      BY <2>1
    <2> QED
      BY <2>2
  <1>8. LongestPrefix(length, budget) = search[<<0, length>>]
    BY DEF LongestPrefix, search
  <1> QED
    BY <1>7, <1>8

\* A trimmed text, for every length and every limit.
LEMMA Trimming ==
    ASSUME NEW length \in Nat, NEW limit \in Nat
    PROVE  LET t == Trimmed(length, limit)
           IN  /\ t.marker <=> CountTokens(length) > limit
               /\ ~t.marker => t.kept = length
               /\ t.marker =>
                    /\ t.kept \in 0 .. length - 1
                    /\ CountTokens(t.kept) <= BudgetOf(limit)
                    /\ CountTokens(t.kept + 1) > BudgetOf(limit)
                    /\ CountTokens(TrimmedLength(t)) =
                         IF limit <= MarkerTokens THEN MarkerTokens ELSE limit + 1
  <1> DEFINE b == BudgetOf(limit)
  <1>1. MarkerTokens = 11
    BY DEF MarkerTokens, CountTokens, MarkerLength
  <1>2. b \in Nat /\ b <= limit /\ (limit >= 11 => b = limit - 11) /\ (limit < 11 => b = 0)
    BY <1>1 DEF BudgetOf
  <1> HIDE DEF b
  <1>3. \A l \in Nat : CountTokens(l) \in Nat
    BY DEF CountTokens
  <1>4. CASE CountTokens(length) <= limit
    <2>1. Trimmed(length, limit) = [kept |-> length, marker |-> FALSE]
      BY <1>4 DEF Trimmed
    <2>2. TrimmedLength(Trimmed(length, limit)) = length
      BY <2>1 DEF TrimmedLength
    <2> QED
      BY <1>3, <1>4, <2>1, <2>2
  <1>5. CASE ~(CountTokens(length) <= limit)
    <2> DEFINE k == LongestPrefix(length, b)
    <2>1. Trimmed(length, limit) = [kept |-> k, marker |-> TRUE]
      BY <1>5 DEF Trimmed, b
    <2>2. length > Fits(b) /\ length > Fits(limit) /\ Fits(b) \in Nat
      <3>1. ~(CountTokens(length) <= b)
        BY <1>2, <1>3, <1>5
      <3>2. Fits(b) \in Nat /\ Fits(limit) \in Nat
        BY <1>2 DEF Fits
      <3> QED
        BY <1>2, <1>5, <3>1, <3>2, FitsIsTheLongest
    <2>3. k = Fits(b)
      BY <1>2, <2>2, LongestPrefixIs DEF Found
    <2>4. k \in 0 .. length - 1 /\ CountTokens(k) <= b /\ CountTokens(k + 1) > b
      <3>1. k \in Nat /\ k + 1 \in Nat /\ ~(k + 1 <= Fits(b)) /\ k <= Fits(b)
        BY <2>2, <2>3
      <3>2. CountTokens(k) <= b /\ ~(CountTokens(k + 1) <= b)
        BY <1>2, <3>1, FitsIsTheLongest
      <3> QED
        BY <1>2, <1>3, <2>2, <2>3, <3>1, <3>2
    <2>5. TrimmedLength(Trimmed(length, limit)) = k + 46
      BY <2>1 DEF TrimmedLength, MarkerLength
    <2>6. CountTokens(k + 46) = IF limit <= 11 THEN 11 ELSE limit + 1
      <3>1. CASE limit > 11
        <4>1. b = limit - 11 /\ b # 0
          BY <1>2, <3>1
        <4>2. k + 46 = 4 * (limit + 1) + 1
          BY <2>3, <4>1 DEF Fits
        <4> HIDE DEF k
        <4> QED
          BY <1>2, <3>1, <4>2 DEF CountTokens
      <3>2. CASE limit <= 11
        <4>1. b = 0
          BY <1>2, <3>2
        <4>2. k + 46 = 46
          BY <2>3, <4>1 DEF Fits
        <4> HIDE DEF k
        <4> QED
          BY <3>2, <4>2 DEF CountTokens
      <3> QED
        BY <3>1, <3>2
    <2>7. CountTokens(length) > limit
      BY <1>3, <1>5
    <2> HIDE DEF k
    <2> QED
      BY <1>1, <2>1, <2>4, <2>5, <2>6, <2>7 DEF b
  <1> QED
    BY <1>4, <1>5

\* For every length and limit: the binary search of trim_to_token_limit finds the longest
\* prefix that leaves room for the marker, and a text that was cut has one token more than
\* the limit, or the eleven of the marker when the limit is no larger.
THEOREM AnswersTrimming == Spec => []TrimmingIsTight
  <1>1. TrimmingIsTight
    BY Trimming DEF TrimmingIsTight
  <1> QED
    BY <1>1, PTL

-----------------------------------------------------------------------------
\* The steps the server has left for a request, but for the chunks it sends.
StepsLeft(t) ==
    CASE t.pc = "idle" -> 12
      [] t.pc = "probe" -> 11
      [] t.pc = "read ids" -> 10
      [] t.pc = "read matrix" -> 9
      [] t.pc = "encode" -> 8
      [] t.pc = "open matrix" -> 7
      [] t.pc = "write matrix" -> 6
      [] t.pc = "open ids" -> 5
      [] t.pc = "write ids" -> 4
      [] t.pc = "retrieve" -> 3
      [] t.pc = "begin" -> 2
      [] t.pc \in {"prompt", "offline", "no context"} -> 1
      [] t.pc \in {"ended", "refused", "lost"} -> 0

\* The server goes forward with a request, sending at most one event behind those it
\* has sent, or sends one more chunk of the answer.
ServedForward(r) ==
    \/ UNCHANGED <<thread[r], sent[r]>>
    \/ thread[r].pc = "lost" /\ UNCHANGED <<thread[r].pc, sent[r]>>
    \/ /\ StepsLeft(thread'[r]) < StepsLeft(thread[r])
       /\ sent'[r] = sent[r] \/ sent'[r] = Append(sent[r], Last(sent'[r]))
    \/ /\ thread'[r].pc = thread[r].pc
       /\ \E chunk \in Chunks :
            /\ thread'[r].chunks = Append(thread[r].chunks, chunk)
            /\ sent'[r] = Append(sent[r], Event("token", <<chunk>>))

\* A page asks once, reads on in what was sent, or gives up.
PageForward(r) ==
    \/ page'[r] = page[r]
    \/ page[r].state = "idle" /\ page'[r].state = "reading" /\ page'[r].read = page[r].read
    \/ /\ page[r].state = "reading"
       /\ \/ page[r].read < page'[r].read /\ page'[r].read <= Len(sent[r])
          \/ page'[r].state = "failed"

GoesForward == \A r \in Requests : ServedForward(r) /\ PageForward(r)

LEMMA StepTable ==
    ASSUME NEW t
    PROVE  /\ (t.pc = "idle" => StepsLeft(t) = 12)
           /\ (t.pc = "probe" => StepsLeft(t) = 11)
           /\ (t.pc = "read ids" => StepsLeft(t) = 10)
           /\ (t.pc = "read matrix" => StepsLeft(t) = 9)
           /\ (t.pc = "encode" => StepsLeft(t) = 8)
           /\ (t.pc = "open matrix" => StepsLeft(t) = 7)
           /\ (t.pc = "write matrix" => StepsLeft(t) = 6)
           /\ (t.pc = "open ids" => StepsLeft(t) = 5)
           /\ (t.pc = "write ids" => StepsLeft(t) = 4)
           /\ (t.pc = "retrieve" => StepsLeft(t) = 3)
           /\ (t.pc = "begin" => StepsLeft(t) = 2)
           /\ (t.pc \in {"prompt", "offline", "no context"} => StepsLeft(t) = 1)
           /\ (t.pc \in {"ended", "refused", "lost"} => StepsLeft(t) = 0)
  <1>1. t.pc = "idle" => StepsLeft(t) = 12
    BY DEF StepsLeft
  <1>2. t.pc = "probe" => StepsLeft(t) = 11
    BY DEF StepsLeft
  <1>3. t.pc = "read ids" => StepsLeft(t) = 10
    BY DEF StepsLeft
  <1>4. t.pc = "read matrix" => StepsLeft(t) = 9
    BY DEF StepsLeft
  <1>5. t.pc = "encode" => StepsLeft(t) = 8
    BY DEF StepsLeft
  <1>6. t.pc = "open matrix" => StepsLeft(t) = 7
    BY DEF StepsLeft
  <1>7. t.pc = "write matrix" => StepsLeft(t) = 6
    BY DEF StepsLeft
  <1>8. t.pc = "open ids" => StepsLeft(t) = 5
    BY DEF StepsLeft
  <1>9. t.pc = "write ids" => StepsLeft(t) = 4
    BY DEF StepsLeft
  <1>10. t.pc = "retrieve" => StepsLeft(t) = 3
    BY DEF StepsLeft
  <1>11. t.pc = "begin" => StepsLeft(t) = 2
    BY DEF StepsLeft
  <1>12. t.pc \in {"prompt", "offline", "no context"} => StepsLeft(t) = 1
    BY DEF StepsLeft
  <1>13. t.pc \in {"ended", "refused", "lost"} => StepsLeft(t) = 0
    BY DEF StepsLeft
  <1> QED
    BY <1>1, <1>2, <1>3, <1>4, <1>5, <1>6, <1>7, <1>8, <1>9, <1>10, <1>11, <1>12, <1>13

\* The server moves the thread of a request and sends its events, of no other.
LEMMA OwnThread ==
    ASSUME TypeOK, NEW r \in Requests, Serve(r), NEW x \in Requests, x # r
    PROVE  thread'[x] = thread[x] /\ sent'[x] = sent[x]
  <1>1. \A t : thread' = [thread EXCEPT ![r] = t] => thread'[x] = thread[x]
    BY DEF TypeOK
  <1>2. \A e : sent' = [sent EXCEPT ![r] = e] => sent'[x] = sent[x]
    BY DEF TypeOK
  <1>3. ASSUME Probe(r) \/ OpenMatrix(r) \/ WriteMatrix(r) \/ OpenIds(r) \/ WriteIds(r)
               \/ SaveFails(r)
        PROVE  thread'[x] = thread[x] /\ sent' = sent
    BY <1>1, <1>3 DEF Probe, OpenMatrix, WriteMatrix, OpenIds, WriteIds, SaveFails, Goto
  <1>4. ASSUME ReadIds(r) \/ ReadMatrix(r) \/ NothingToIndex(r) \/ Encode(r) \/ EncodeSparse(r)
               \/ Retrieve(r)
        PROVE  thread'[x] = thread[x] /\ sent' = sent
    BY <1>1, <1>4 DEF ReadIds, ReadMatrix, NothingToIndex, Encode, EncodeSparse, Retrieve, Goto
  <1>5. ASSUME RetrievalFails(r) \/ Respond(r) \/ Begin(r) \/ SendFixed(r) \/ ReceiveChunk(r)
               \/ Finish(r) \/ ProviderFails(r)
        PROVE  thread'[x] = thread[x] /\ sent'[x] = sent[x]
    BY <1>1, <1>2, <1>5 DEF RetrievalFails, Respond, Begin, SendFixed, ReceiveChunk, Finish,
       ProviderFails, Send, Goto
  <1> QED
    BY <1>3, <1>4, <1>5 DEF Serve

LEMMA ServeForward ==
    ASSUME Inv, NEW r \in Requests, Serve(r)
    PROVE  ServedForward(r)
  <1>0. /\ thread \in [Requests -> Threads] /\ sent \in [Requests -> Seq(Events)]
        /\ thread[r] \in Threads /\ sent[r] \in Seq(Events)
    BY DEF Inv, TypeOK
  <1>t. ASSUME NEW pc, thread' = [thread EXCEPT ![r] = Thread(pc)] PROVE thread'[r].pc = pc
    BY <1>0, <1>t DEF Thread
  <1>g. ASSUME NEW pc, Goto(r, pc) PROVE thread'[r].pc = pc
    BY <1>0, <1>g DEF Goto, Threads
  <1>s. ASSUME NEW e, Send(r, e) PROVE sent'[r] = Append(sent[r], e) /\ e = Last(sent'[r])
    <2>1. sent'[r] = Append(sent[r], e)
      BY <1>0, <1>s DEF Send
    <2>2. Last(Append(sent[r], e)) = e
      BY <1>0 DEF Last
    <2> QED
      BY <2>1, <2>2
  <1>1. CASE Probe(r)
    <2>1. thread[r].pc = "probe" /\ thread'[r].pc \in {"read ids", "encode"} /\ sent' = sent
      BY <1>1, <1>g DEF Probe, At
    <2>8. StepsLeft(thread[r]) = 11 /\ StepsLeft(thread'[r]) \in {10, 8}
      BY <2>1, StepTable, Zenon
    <2>9. StepsLeft(thread'[r]) < StepsLeft(thread[r])
      BY <2>8
    <2> QED
      BY <2>1, <2>9 DEF ServedForward
  <1>2. CASE ReadIds(r)
    <2>1. thread[r].pc = "read ids" /\ thread'[r].pc \in {"read matrix", "encode"} /\ sent' = sent
      BY <1>0, <1>2 DEF ReadIds, At, Threads
    <2>8. StepsLeft(thread[r]) = 10 /\ StepsLeft(thread'[r]) \in {9, 8}
      BY <2>1, StepTable, Zenon
    <2>9. StepsLeft(thread'[r]) < StepsLeft(thread[r])
      BY <2>8
    <2> QED
      BY <2>1, <2>9 DEF ServedForward
  <1>3. CASE ReadMatrix(r)
    <2>1. thread[r].pc = "read matrix" /\ thread'[r].pc \in {"retrieve", "encode"} /\ sent' = sent
      BY <1>0, <1>3 DEF ReadMatrix, At, Threads
    <2>8. StepsLeft(thread[r]) = 9 /\ StepsLeft(thread'[r]) \in {3, 8}
      BY <2>1, StepTable, Zenon
    <2>9. StepsLeft(thread'[r]) < StepsLeft(thread[r])
      BY <2>8
    <2> QED
      BY <2>1, <2>9 DEF ServedForward
  <1>4. CASE NothingToIndex(r) \/ Encode(r) \/ EncodeSparse(r)
    <2>1. thread[r].pc = "encode" /\ sent' = sent
      BY <1>4 DEF NothingToIndex, Encode, EncodeSparse, At
    <2>2. thread'[r].pc \in {"refused", "open matrix", "retrieve"}
      BY <1>0, <1>4, <1>t DEF NothingToIndex, Encode, EncodeSparse, Threads
    <2>8. StepsLeft(thread[r]) = 8 /\ StepsLeft(thread'[r]) \in {0, 7, 3}
      BY <2>1, <2>2, StepTable, Zenon
    <2>9. StepsLeft(thread'[r]) < StepsLeft(thread[r])
      BY <2>8
    <2> QED
      BY <2>1, <2>2, <2>9 DEF ServedForward
  <1>5. CASE OpenMatrix(r) \/ WriteMatrix(r) \/ OpenIds(r) \/ WriteIds(r)
    <2>1. sent' = sent /\ <<thread[r].pc, thread'[r].pc>> \in
            {<<"open matrix", "write matrix">>, <<"write matrix", "open ids">>,
             <<"open ids", "write ids">>, <<"write ids", "retrieve">>}
      BY <1>5, <1>g DEF OpenMatrix, WriteMatrix, OpenIds, WriteIds, At
    <2>8. \/ StepsLeft(thread[r]) = 7 /\ StepsLeft(thread'[r]) = 6
          \/ StepsLeft(thread[r]) = 6 /\ StepsLeft(thread'[r]) = 5
          \/ StepsLeft(thread[r]) = 5 /\ StepsLeft(thread'[r]) = 4
          \/ StepsLeft(thread[r]) = 4 /\ StepsLeft(thread'[r]) = 3
      BY <2>1, StepTable, Zenon
    <2>9. StepsLeft(thread'[r]) < StepsLeft(thread[r])
      BY <2>8
    <2> QED
      BY <2>1, <2>9 DEF ServedForward
  <1>6. CASE SaveFails(r)
    <2>1. thread[r].pc \in {"open matrix", "write matrix", "open ids", "write ids"}
          /\ thread'[r].pc = "retrieve" /\ sent' = sent
      BY <1>6, <1>g DEF SaveFails, Saving
    <2>8. StepsLeft(thread[r]) \in {7, 6, 5, 4} /\ StepsLeft(thread'[r]) \in {3}
      BY <2>1, StepTable, Zenon
    <2>9. StepsLeft(thread'[r]) < StepsLeft(thread[r])
      BY <2>8
    <2> QED
      BY <2>1, <2>9 DEF ServedForward
  <1>7. CASE Retrieve(r)
    <2>1. thread[r].pc = "retrieve" /\ thread'[r].pc = "begin" /\ sent' = sent
      BY <1>0, <1>7 DEF Retrieve, At, Threads
    <2>8. StepsLeft(thread[r]) = 3 /\ StepsLeft(thread'[r]) \in {2}
      BY <2>1, StepTable, Zenon
    <2>9. StepsLeft(thread'[r]) < StepsLeft(thread[r])
      BY <2>8
    <2> QED
      BY <2>1, <2>9 DEF ServedForward
  <1>8. CASE RetrievalFails(r) \/ Respond(r)
    <2>1. thread[r].pc \in {"retrieve", "begin"} /\ thread'[r].pc = "ended"
      BY <1>8, <1>t DEF RetrievalFails, Respond, At
    <2>2. sent'[r] = Append(sent[r], Last(sent'[r]))
      BY <1>8, <1>s DEF RetrievalFails, Respond
    <2>8. StepsLeft(thread[r]) \in {3, 2} /\ StepsLeft(thread'[r]) \in {0}
      BY <2>1, <2>2, StepTable, Zenon
    <2>9. StepsLeft(thread'[r]) < StepsLeft(thread[r])
      BY <2>8
    <2> QED
      BY <2>1, <2>2, <2>9 DEF ServedForward
  <1>9. CASE Begin(r)
    <2>1. thread[r].pc = "begin" /\ thread'[r].pc \in {"prompt", "offline", "no context"}
      BY <1>9, <1>t DEF Begin, At
    <2>2. sent'[r] = Append(sent[r], Last(sent'[r]))
      BY <1>9, <1>s DEF Begin
    <2>8. StepsLeft(thread[r]) = 2 /\ StepsLeft(thread'[r]) \in {1}
      BY <2>1, <2>2, StepTable, Zenon
    <2>9. StepsLeft(thread'[r]) < StepsLeft(thread[r])
      BY <2>8
    <2> QED
      BY <2>1, <2>2, <2>9 DEF ServedForward
  <1>10. CASE Finish(r) \/ ProviderFails(r)
    <2>1. thread[r].pc = "prompt" /\ thread'[r].pc = "ended"
      BY <1>10, <1>t DEF Finish, ProviderFails, At
    <2>2. sent'[r] = Append(sent[r], Last(sent'[r]))
      BY <1>10, <1>s DEF Finish, ProviderFails
    <2>8. StepsLeft(thread[r]) = 1 /\ StepsLeft(thread'[r]) \in {0}
      BY <2>1, <2>2, StepTable, Zenon
    <2>9. StepsLeft(thread'[r]) < StepsLeft(thread[r])
      BY <2>8
    <2> QED
      BY <2>1, <2>2, <2>9 DEF ServedForward
  <1>11. CASE ReceiveChunk(r)
    <2>1. PICK chunk \in {"word", "blank"} :
            /\ thread' = [thread EXCEPT ![r].chunks = Append(@, chunk)]
            /\ Send(r, Event("token", <<chunk>>))
      BY <1>11 DEF ReceiveChunk
    <2>2. /\ thread'[r].chunks = Append(thread[r].chunks, chunk)
          /\ thread'[r].pc = thread[r].pc
      BY <1>0, <2>1 DEF Threads
    <2>3. sent'[r] = Append(sent[r], Event("token", <<chunk>>)) /\ chunk \in Chunks
      BY <1>s, <2>1 DEF Chunks
    <2> QED
      BY <2>2, <2>3 DEF ServedForward
  <1>12. CASE SendFixed(r)
    <2> DEFINE text == FixedText(thread[r].pc)
    <2>1. thread[r].pc \in {"offline", "no context"} /\ text \in Chunks
      BY <1>12 DEF SendFixed, FixedText, Chunks
    <2>2. CASE thread[r].chunks = << >>
      <3>1. /\ Send(r, Event("token", <<text>>))
            /\ thread' = [thread EXCEPT ![r].chunks = <<text>>]
        BY <1>12, <2>2 DEF SendFixed
      <3>2. thread'[r].chunks = <<text>> /\ thread'[r].pc = thread[r].pc
        BY <1>0, <3>1 DEF Threads
      <3>3. Append(thread[r].chunks, text) = <<text>>
        BY <2>2
      <3>4. sent'[r] = Append(sent[r], Event("token", <<text>>))
        BY <1>s, <3>1
      <3> QED
        BY <2>1, <3>2, <3>3, <3>4 DEF ServedForward
    <2>3. CASE thread[r].chunks # << >>
      <3>1. Send(r, Event("done", <<text>>)) /\ thread' = [thread EXCEPT ![r] = Thread("ended")]
        BY <1>12, <2>3 DEF SendFixed
      <3>2. thread'[r].pc = "ended" /\ sent'[r] = Append(sent[r], Last(sent'[r]))
        BY <1>s, <1>t, <3>1
      <3>3. StepsLeft(thread[r]) = 1 /\ StepsLeft(thread'[r]) = 0
        BY <2>1, <3>2, StepTable, Zenon
      <3>4. StepsLeft(thread'[r]) < StepsLeft(thread[r])
        BY <3>3
      <3> QED
        BY <3>2, <3>4 DEF ServedForward
    <2> QED
      BY <2>2, <2>3
  <1> QED
    BY <1>1, <1>2, <1>3, <1>4, <1>5, <1>6, <1>7, <1>8, <1>9, <1>10, <1>11, <1>12 DEF Serve

\* A request is served once: the server never goes back to a file it has read or
\* written, nor to an encoding or a search it has made, and sends every event behind
\* those it has sent; a page reads every event once.  A request has a way to go that only
\* gets shorter, but for the chunks of an answer.
THEOREM AnswersGoForward == Spec => [][GoesForward]_vars
  <1>1. ASSUME Inv, [Next]_vars PROVE [GoesForward]_vars
    <2> SUFFICES ASSUME Next PROVE GoesForward
      BY <1>1
    <2>0. /\ TypeOK /\ thread \in [Requests -> Threads] /\ page \in [Requests -> Pages]
          /\ \A x \in Requests : thread[x] \in Threads /\ page[x] \in Pages /\ sent[x] \in Seq(Events)
          /\ \A x \in Requests : page[x].read <= Len(sent[x])
      BY <1>1 DEF Inv, TypeOK
    <2>1. ASSUME NEW r \in Requests, Arrive(r) PROVE GoesForward
      <3>1. \A x \in Requests : sent'[x] = sent[x] /\ (x # r => UNCHANGED <<thread[x], page[x]>>)
        BY <2>0, <2>1 DEF Arrive
      <3>2. thread[r].pc = "idle" /\ thread'[r].pc \in {"probe", "retrieve"}
        BY <2>0, <2>1 DEF Arrive, At, Threads
      <3>3. page[r].state = "idle" /\ page'[r].state = "reading" /\ page'[r].read = page[r].read
        BY <2>0, <2>1 DEF Arrive, Pages
      <3>n. StepsLeft(thread[r]) = 12 /\ StepsLeft(thread'[r]) \in {11, 3}
        BY <3>2, StepTable, Zenon
      <3>4. StepsLeft(thread'[r]) < StepsLeft(thread[r])
        BY <3>n
      <3>5. ServedForward(r) /\ PageForward(r)
        BY <3>1, <3>3, <3>4 DEF ServedForward, PageForward
      <3>6. \A x \in Requests \ {r} : ServedForward(x) /\ PageForward(x)
        BY <3>1 DEF ServedForward, PageForward
      <3> QED
        BY <3>5, <3>6 DEF GoesForward
    <2>2. ASSUME NEW r \in Requests, Serve(r) PROVE GoesForward
      <3>1. page' = page
        BY <2>2 DEF Serve, Probe, ReadIds, ReadMatrix, NothingToIndex, Encode, EncodeSparse,
           OpenMatrix, WriteMatrix, OpenIds, WriteIds, SaveFails, RetrievalFails, Retrieve,
           Respond, Begin, SendFixed, ReceiveChunk, Finish, ProviderFails
      <3> QED
        BY <1>1, <2>0, <2>2, <3>1, OwnThread, ServeForward DEF GoesForward, ServedForward, PageForward
    <2>3. ASSUME NEW r \in Requests, ReadEvent(r) PROVE GoesForward
      <3>1. thread' = thread /\ sent' = sent /\ \A x \in Requests \ {r} : page'[x] = page[x]
        BY <2>0, <2>3 DEF ReadEvent
      <3>2. page[r].state = "reading" /\ page[r].read < Len(sent[r]) /\ page[r].read \in Nat
            /\ Len(sent[r]) \in Nat /\ page'[r].read = page[r].read + 1
        BY <2>0, <2>3 DEF ReadEvent, Reading, Pending, Pages
      <3> QED
        BY <3>1, <3>2 DEF GoesForward, ServedForward, PageForward
    <2>4. ASSUME NEW r \in Requests, GiveUp(r) \/ Abort(r) PROVE GoesForward
      <3>1. thread' = thread /\ sent' = sent /\ \A x \in Requests \ {r} : page'[x] = page[x]
        BY <2>0, <2>4 DEF GiveUp, Abort
      <3>2. page[r].state = "reading" /\ page'[r].state = "failed"
        BY <2>0, <2>4 DEF GiveUp, Abort, Reading, Pages
      <3> QED
        BY <3>1, <3>2 DEF GoesForward, ServedForward, PageForward
    <2>5. CASE Crash
      <3>1. page' = page /\ sent' = sent
        BY <2>5 DEF Crash
      <3>2. ASSUME NEW x \in Requests PROVE ServedForward(x)
        <4>1. CASE thread[x].pc \in {"idle", "ended", "refused", "lost"}
          <5>1. thread'[x] = thread[x] \/ (thread[x].pc = "lost" /\ thread'[x].pc = "lost")
            BY <2>5, <4>1 DEF Crash, Thread
          <5> QED
            BY <3>1, <5>1 DEF ServedForward
        <4>2. CASE thread[x].pc \notin {"idle", "ended", "refused", "lost"}
          <5>1. thread'[x].pc = "lost"
            BY <2>5, <4>2 DEF Crash, Thread
          <5>2. thread[x].pc \in PCs \ {"idle", "ended", "refused", "lost"}
            BY <2>0, <4>2 DEF Threads
          <5>n. /\ StepsLeft(thread[x]) \in {1, 2, 3, 4, 5, 6, 7, 8, 9, 10, 11}
                /\ StepsLeft(thread'[x]) = 0
            BY <5>1, <5>2, StepTable, Zenon DEF PCs, Saving
          <5>3. StepsLeft(thread'[x]) < StepsLeft(thread[x])
            BY <5>n
          <5> QED
            BY <3>1, <5>3 DEF ServedForward
        <4> QED
          BY <4>1, <4>2
      <3> QED
        BY <3>1, <3>2 DEF GoesForward, PageForward
    <2> QED
      BY <2>1, <2>2, <2>3, <2>4, <2>5 DEF Next, Read
  <1> QED
    BY <1>1, Invariant, PTL DEF Spec


-----------------------------------------------------------------------------
\* The two files of an index are there, whole or torn.
Written == matrix # Absent /\ node_ids # Absent

\* What SemanticIndex.build promises of a query, as far as it holds: a search fails for
\* want of an encoder only when its index was taken from the cache, so that another
\* request had written both files, with the libraries that make them installed, and only
\* when the ids in the cache name exactly the nodes of its graph.
RaisesOnlyFromTheCache ==
    \A r \in Requests :
        At(r, "retrieve") /\ ~CanQuery(r) =>
            /\ libraries = "sentence-transformers" /\ Written
            /\ ToSet(thread[r].index.ids) = ToSet(thread[r].graph.nodes)

\* A thread that found the files, and has not gone on to an encoding of its own.
FromFiles(t) ==
    \/ t.pc \in {"read ids", "read matrix"}
    \/ t.pc = "retrieve" /\ t.embeddings /\ t.index.encoder = "none"

CacheOK(t) ==
    /\ FromFiles(t) => libraries = "sentence-transformers" /\ Written
    /\ FromFiles(t) /\ t.pc = "retrieve" => ToSet(t.index.ids) = ToSet(t.graph.nodes)
    /\ t.pc \in Saving => libraries = "sentence-transformers" /\ t.index.encoder = "model"

CacheInv ==
    /\ libraries = "none" => matrix = Absent /\ node_ids = Absent
    /\ \A r \in Requests : CacheOK(thread[r])

LEMMA FilesExist == Torn # Absent /\ \A content : File(content) # Absent
  <1>1. Torn.file = "torn" /\ Absent.file = "absent" /\ \A content : File(content).file = "complete"
    BY DEF Torn, Absent, File
  <1> QED
    BY <1>1

\* Where the invariant asks for nothing.
CacheFree == PCs \ ({"read ids", "read matrix", "retrieve"} \cup Saving)

LEMMA CacheFreeOK ==
    ASSUME NEW r \in Requests, thread'[r].pc \in CacheFree
    PROVE  CacheOK(thread[r])'
  <1>1. /\ thread'[r].pc \notin Saving /\ thread'[r].pc \notin {"read ids", "read matrix"}
        /\ thread'[r].pc # "retrieve"
    BY DEF CacheFree
  <1>2. ~FromFiles(thread[r])'
    BY <1>1 DEF FromFiles
  <1>3. (thread[r].pc \notin Saving)'
    BY <1>1 DEF Saving
  <1> QED
    BY <1>2, <1>3, Zenon DEF CacheOK

\* Of a step of one request, the others are told nothing but that files appear.
LEMMA CacheStep ==
    ASSUME CacheInv, libraries' = libraries, Written => Written',
           libraries = "none" => disk' = disk,
           \A x \in Requests : thread'[x] = thread[x] \/ CacheOK(thread[x])'
    PROVE  CacheInv'
  <1>1. (libraries = "none" => matrix = Absent /\ node_ids = Absent)'
    BY DEF CacheInv, disk
  <1>2. ASSUME NEW x \in Requests, thread'[x] = thread[x] PROVE CacheOK(thread[x])'
    <2>1. CacheOK(thread[x])
      BY DEF CacheInv
    <2>2. FromFiles(thread[x])' <=> FromFiles(thread[x])
      BY <1>2 DEF FromFiles
    <2> QED
      BY <1>2, <2>1, <2>2, Zenon DEF CacheOK, Saving
  <1> QED
    BY <1>1, <1>2 DEF CacheInv

LEMMA ServeCache ==
    ASSUME Inv, CacheInv, NEW r \in Requests, Serve(r)
    PROVE  CacheInv'
  <1>0. /\ TypeOK /\ thread \in [Requests -> Threads] /\ thread[r] \in Threads
        /\ CacheOK(thread[r]) /\ libraries \in {"sentence-transformers", "none"}
        /\ libraries = "none" => ~Written
    BY DEF Inv, TypeOK, CacheInv, Written
  <1>o. \A x \in Requests : x # r => thread'[x] = thread[x]
    BY <1>0, OwnThread
  <1>t. ASSUME NEW pc, thread' = [thread EXCEPT ![r] = Thread(pc)] PROVE thread'[r].pc = pc
    BY <1>0, <1>t DEF Thread
  <1>g. ASSUME NEW pc, Goto(r, pc)
        PROVE  /\ thread'[r].pc = pc /\ thread'[r].index = thread[r].index
    BY <1>0, <1>g DEF Goto, Threads
  <1>k. ASSUME libraries' = libraries, disk' = disk, CacheOK(thread[r])' PROVE CacheInv'
    <2>1. Written' <=> Written
      BY <1>k DEF Written, disk
    <2> QED
      BY <1>k, <1>o, <2>1, CacheStep
  <1>1. CASE Probe(r)
    <2>1. libraries' = libraries /\ disk' = disk
      BY <1>1 DEF Probe
    <2>2. CASE Written
      <3>1. thread'[r].pc = "read ids"
        BY <1>1, <1>g, <2>2 DEF Probe, Written
      <3>2. libraries = "sentence-transformers" /\ Written'
        BY <1>0, <2>1, <2>2 DEF Written, disk
      <3>3. thread'[r].pc \notin Saving /\ thread'[r].pc # "retrieve"
        BY <3>1 DEF Saving
      <3>4. CacheOK(thread[r])'
        BY <2>1, <3>2, <3>3, Zenon DEF CacheOK, Saving
      <3> QED
        BY <1>k, <2>1, <3>4
    <2>3. CASE ~Written
      <3>1. thread'[r].pc = "encode"
        BY <1>1, <1>g, <2>3 DEF Probe, Written
      <3>2. thread'[r].pc \in CacheFree
        BY <3>1 DEF CacheFree, PCs, Saving
      <3> QED
        BY <1>k, <2>1, <3>2, CacheFreeOK
    <2> QED
      BY <2>2, <2>3
  <1>2. CASE ReadIds(r)
    <2>1. libraries' = libraries /\ disk' = disk
      BY <1>2 DEF ReadIds
    <2>2. thread'[r].pc \in {"read matrix", "encode"}
      BY <1>0, <1>2 DEF ReadIds, Threads
    <2>3. FromFiles(thread[r])
      BY <1>2 DEF ReadIds, At, FromFiles
    <2>4. libraries = "sentence-transformers" /\ Written /\ Written'
      BY <1>0, <2>1, <2>3 DEF CacheOK, Written, disk
    <2>5. thread'[r].pc \notin Saving /\ thread'[r].pc # "retrieve"
      BY <2>2 DEF Saving
    <2>6. CacheOK(thread[r])'
      BY <2>1, <2>4, <2>5, Zenon DEF CacheOK, Saving
    <2> QED
      BY <1>k, <2>1, <2>6
  <1>3. CASE ReadMatrix(r)
    <2>1. libraries' = libraries /\ disk' = disk
      BY <1>3 DEF ReadMatrix
    <2>2. FromFiles(thread[r])
      BY <1>3 DEF ReadMatrix, At, FromFiles
    <2>3. libraries = "sentence-transformers" /\ Written /\ Written'
      BY <1>0, <2>1, <2>2 DEF CacheOK, Written, disk
    <2>4. CASE TakenFromCache(thread[r])
      <3>1. /\ thread'[r].pc = "retrieve" /\ thread'[r].graph = thread[r].graph
            /\ thread'[r].index = FromCache(thread[r])
        BY <1>0, <1>3, <2>4 DEF ReadMatrix, Threads
      <3>2. thread'[r].index.ids = thread[r].ids
        BY <3>1 DEF FromCache, Index
      <3>3. ToSet(thread[r].ids) = ToSet(thread[r].graph.nodes)
        BY <2>4 DEF TakenFromCache
      <3>4. (ToSet(thread[r].index.ids) = ToSet(thread[r].graph.nodes))'
        BY <3>1, <3>2, <3>3, Zenon DEF ToSet
      <3>5. (thread[r].pc \notin Saving)'
        BY <3>1 DEF Saving
      <3>6. CacheOK(thread[r])'
        BY <2>1, <2>3, <3>4, <3>5, Zenon DEF CacheOK
      <3> QED
        BY <1>k, <2>1, <3>6
    <2>5. CASE ~TakenFromCache(thread[r])
      <3>1. thread'[r].pc = "encode"
        BY <1>0, <1>3, <2>5 DEF ReadMatrix, Threads
      <3>2. thread'[r].pc \in CacheFree
        BY <3>1 DEF CacheFree, PCs, Saving
      <3> QED
        BY <1>k, <2>1, <3>2, CacheFreeOK
    <2> QED
      BY <2>4, <2>5
  <1>4. CASE Encode(r)
    <2>1. libraries' = libraries /\ disk' = disk /\ libraries = "sentence-transformers"
      BY <1>4 DEF Encode
    <2>2. thread'[r].pc = "open matrix" /\ thread'[r].index = Encoded(r, "model")
      BY <1>0, <1>4 DEF Encode, Threads
    <2>3. thread'[r].index.encoder = "model"
      <3>1. Encoded(r, "model").encoder = "model"
        BY DEF Encoded, Index
      <3> QED
        BY <2>2, <3>1
    <2>4. ~FromFiles(thread[r])'
      BY <2>2 DEF FromFiles
    <2>5. CacheOK(thread[r])'
      BY <2>1, <2>3, <2>4, Zenon DEF CacheOK
    <2> QED
      BY <1>k, <2>1, <2>5
  <1>5. CASE EncodeSparse(r)
    <2>1. libraries' = libraries /\ disk' = disk
      BY <1>5 DEF EncodeSparse
    <2>2. thread'[r].pc = "retrieve" /\ thread'[r].index = Encoded(r, "vectorizer")
      BY <1>0, <1>5 DEF EncodeSparse, Threads
    <2>3. thread'[r].index.encoder = "vectorizer"
      <3>1. Encoded(r, "vectorizer").encoder = "vectorizer"
        BY DEF Encoded, Index
      <3> QED
        BY <2>2, <3>1
    <2>4. ~FromFiles(thread[r])' /\ (thread[r].pc \notin Saving)'
      BY <2>2, <2>3 DEF FromFiles, Saving
    <2>5. CacheOK(thread[r])'
      BY <2>4, Zenon DEF CacheOK
    <2> QED
      BY <1>k, <2>1, <2>5
  <1>6. CASE OpenMatrix(r) \/ WriteMatrix(r) \/ OpenIds(r) \/ WriteIds(r) \/ SaveFails(r)
    <2>1. libraries' = libraries /\ thread[r].pc \in Saving
      BY <1>6 DEF OpenMatrix, WriteMatrix, OpenIds, WriteIds, SaveFails, At, Saving
    <2>2. libraries = "sentence-transformers" /\ thread[r].index.encoder = "model"
      BY <1>0, <2>1, Zenon DEF CacheOK
    <2>3. thread'[r].pc \in Saving \cup {"retrieve"} /\ thread'[r].index = thread[r].index
      BY <1>6, <1>g DEF OpenMatrix, WriteMatrix, OpenIds, WriteIds, SaveFails, Saving
    <2>4. Written => Written'
      BY <1>6, FilesExist DEF OpenMatrix, WriteMatrix, OpenIds, WriteIds, SaveFails, Written, disk
    <2>5. ~FromFiles(thread[r])'
      BY <2>2, <2>3 DEF FromFiles, Saving
    <2>6. CacheOK(thread[r])'
      BY <2>1, <2>2, <2>3, <2>5, Zenon DEF CacheOK
    <2>7. libraries # "none"
      BY <2>2
    <2> QED
      BY <1>o, <2>1, <2>4, <2>6, <2>7, CacheStep
  <1>7. CASE NothingToIndex(r) \/ Retrieve(r)
    <2>1. libraries' = libraries /\ disk' = disk
      BY <1>7 DEF NothingToIndex, Retrieve
    <2>2. thread'[r].pc \in {"refused", "begin"}
      BY <1>0, <1>7, <1>t DEF NothingToIndex, Retrieve, Threads
    <2>3. thread'[r].pc \in CacheFree
      BY <2>2 DEF CacheFree, PCs, Saving
    <2> QED
      BY <1>k, <2>1, <2>3, CacheFreeOK
  <1>8. CASE RetrievalFails(r) \/ Respond(r) \/ Finish(r) \/ ProviderFails(r)
    <2>1. libraries' = libraries /\ disk' = disk
      BY <1>8 DEF RetrievalFails, Respond, Finish, ProviderFails
    <2>2. thread'[r].pc = "ended"
      BY <1>8, <1>t DEF RetrievalFails, Respond, Finish, ProviderFails
    <2>3. thread'[r].pc \in CacheFree
      BY <2>2 DEF CacheFree, PCs, Saving
    <2> QED
      BY <1>k, <2>1, <2>3, CacheFreeOK
  <1>9. CASE Begin(r) \/ SendFixed(r) \/ ReceiveChunk(r)
    <2>1. libraries' = libraries /\ disk' = disk
      BY <1>9 DEF Begin, SendFixed, ReceiveChunk
    <2>2. CASE Begin(r)
      <3> QED
        <4>1. thread'[r].pc \in {"prompt", "offline", "no context"}
          BY <2>2, <1>t DEF Begin
        <4>2. thread'[r].pc \in CacheFree
          BY <4>1 DEF CacheFree, PCs, Saving
        <4> QED
          BY <1>k, <2>1, <4>2, CacheFreeOK
    <2>3. CASE SendFixed(r)
      <3>1. thread'[r].pc \in {"offline", "no context", "ended"}
        BY <1>0, <2>3, <1>t DEF SendFixed, Threads
      <3>2. thread'[r].pc \in CacheFree
        BY <3>1 DEF CacheFree, PCs, Saving
      <3> QED
        BY <1>k, <2>1, <3>2, CacheFreeOK
    <2>4. CASE ReceiveChunk(r)
      <3>1. thread'[r].pc = "prompt"
        BY <1>0, <2>4 DEF ReceiveChunk, Threads, At
      <3>2. thread'[r].pc \in CacheFree
        BY <3>1 DEF CacheFree, PCs, Saving
      <3> QED
        BY <1>k, <2>1, <3>2, CacheFreeOK
    <2> QED
      BY <1>9, <2>2, <2>3, <2>4
  <1> QED
    BY <1>1, <1>2, <1>3, <1>4, <1>5, <1>6, <1>7, <1>8, <1>9 DEF Serve

\* The invariant of the cache is one of the specification: nobody reads files that
\* nobody wrote, and nobody writes them without an encoder of its own.
LEMMA CacheInvariant == Spec => []CacheInv
  <1>1. Init => CacheInv
    <2> SUFFICES ASSUME Init PROVE CacheInv
      OBVIOUS
    <2>1. ASSUME NEW r \in Requests PROVE CacheOK(thread[r])
      <3>1. thread[r].pc = "idle"
        BY DEF Init, Thread
      <3>2. ~FromFiles(thread[r]) /\ thread[r].pc \notin Saving
        BY <3>1 DEF FromFiles, Saving
      <3> QED
        BY <3>2, Zenon DEF CacheOK
    <2> QED
      BY <2>1 DEF Init, CacheInv
  <1>2. ASSUME Inv, CacheInv, [Next]_vars PROVE CacheInv'
    <2>0. thread \in [Requests -> Threads] /\ \A x \in Requests : thread[x] \in Threads
      BY <1>2 DEF Inv, TypeOK
    <2>k. ASSUME libraries' = libraries, disk' = disk,
                 \A x \in Requests : thread'[x] = thread[x] \/ CacheOK(thread[x])'
          PROVE  CacheInv'
      <3>1. Written' <=> Written
        BY <2>k DEF Written, disk
      <3> QED
        BY <1>2, <2>k, <3>1, CacheStep
    <2>1. ASSUME NEW r \in Requests, Arrive(r) PROVE CacheInv'
      <3>1. libraries' = libraries /\ disk' = disk /\ \A x \in Requests \ {r} : thread'[x] = thread[x]
        BY <2>0, <2>1 DEF Arrive
      <3>2. /\ thread'[r].pc \in {"probe", "retrieve"}
            /\ thread'[r].pc = "retrieve" => thread'[r].embeddings = FALSE
        BY <2>0, <2>1 DEF Arrive, Threads
      <3>3. ~FromFiles(thread[r])' /\ (thread[r].pc \notin Saving)'
        BY <3>2 DEF FromFiles, Saving
      <3>4. CacheOK(thread[r])'
        BY <3>3, Zenon DEF CacheOK
      <3> QED
        BY <2>k, <3>1, <3>4
    <2>2. ASSUME NEW r \in Requests, Serve(r) PROVE CacheInv'
      BY <1>2, <2>2, ServeCache
    <2>3. ASSUME NEW r \in Requests, Read(r) \/ Abort(r) PROVE CacheInv'
      BY <2>3, <2>k DEF Read, ReadEvent, GiveUp, Abort
    <2>4. CASE Crash
      <3>1. libraries' = libraries /\ disk' = disk
        BY <2>4 DEF Crash
      <3>2. ASSUME NEW x \in Requests, thread'[x] # thread[x] PROVE CacheOK(thread[x])'
        <4>1. thread'[x].pc = "lost"
          BY <2>4, <3>2 DEF Crash, Thread
        <4>2. thread'[x].pc \in CacheFree
          BY <4>1 DEF CacheFree, PCs, Saving
        <4> QED
          BY <4>2, CacheFreeOK
      <3> QED
        BY <2>k, <3>1, <3>2
    <2>5. CASE UNCHANGED vars
      BY <2>5, <2>k DEF vars
    <2> QED
      BY <1>2, <2>1, <2>2, <2>3, <2>4, <2>5 DEF Next
  <1> QED
    BY <1>1, <1>2, Invariant, PTL DEF Spec

\* What stays of the promise of SemanticIndex.build, which the code breaks for an index
\* taken from the cache: a search by meaning never fails for any other reason.
THEOREM AnswersRaiseOnlyFromTheCache == Spec => []RaisesOnlyFromTheCache
  <1>1. ASSUME Inv, CacheInv PROVE RaisesOnlyFromTheCache
    <2> SUFFICES ASSUME NEW r \in Requests, At(r, "retrieve"), ~CanQuery(r)
                 PROVE  /\ libraries = "sentence-transformers" /\ Written
                        /\ ToSet(thread[r].index.ids) = ToSet(thread[r].graph.nodes)
      BY DEF RaisesOnlyFromTheCache
    <2>1. thread[r].pc = "retrieve" /\ thread[r].embeddings /\ thread[r].index.encoder = "none"
      BY DEF At, CanQuery
    <2>2. FromFiles(thread[r])
      BY <2>1 DEF FromFiles
    <2>3. CacheOK(thread[r])
      BY <1>1 DEF CacheInv
    <2> QED
      BY <2>1, <2>2, <2>3, Zenon DEF CacheOK
  <1> QED
    BY <1>1, Invariant, CacheInvariant, PTL

\* Without the libraries the promise holds as it is stated.
THEOREM AnswersCachedIndex == Spec => [](libraries = "none" => CachedIndexAnswers)
  <1>1. RaisesOnlyFromTheCache => (libraries = "none" => CachedIndexAnswers)
    BY DEF RaisesOnlyFromTheCache, CachedIndexAnswers
  <1> QED
    BY <1>1, AnswersRaiseOnlyFromTheCache, PTL

=============================================================================
