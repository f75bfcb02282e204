------------------------- MODULE ChatSessionProofs -------------------------
(***************************************************************************)
(* Proofs about ChatSession, for any number of browsers of either client,  *)
(* repositories, turns, questions, sessions and restarts: in the app only  *)
(* a torn session answers about another repository; no question is         *)
(* answered twice, a follow-up sees the chat, a question goes forward and  *)
(* a session only grows.                                                   *)
(*                                                                         *)
(* The invariant behind the first: while a browser of the app holds a      *)
(* session id that is not torn, the server's session of that id (alive or  *)
(* lost) is about last_repo; between the two assignments it is about the   *)
(* field; and the script only asks a session when last_repo is the         *)
(* repository in the field.  A browser of the page knows nothing of the    *)
(* kind.                                                                   *)
(***************************************************************************)
EXTENDS ChatSession, TLAPS

\* What the client knows of its session when it is at phase: the app's is about
\* last_repo, or, until that is noted, about the field; the page rebuilds and
\* notes nothing.
Knows(c, phase) ==
    /\ phase \in {"recreate", "reask"} \cup Notes => c.client = "app"
    /\ phase \in Notes => c.session # 0 /\ sessions[c.session].repo = c.repo
    /\ phase \notin Notes /\ c.client = "app" /\ c.session # 0 /\ ~c.torn =>
         sessions[c.session].repo = c.last_repo

\* The answers on the app's screen: about another repository if torn only.
Shown(c) ==
    c.client = "app" =>
      \A i \in 1 .. Len(c.messages) :
        c.messages[i].about # c.messages[i].repo => c.messages[i].torn

\* What the client knows at each phase: the session it holds, the session it
\* asks, and the session just created for it.
Consistent(c) ==
    /\ c.session <= created /\ c.new <= created
    /\ Knows(c, c.phase)
    /\ c.phase # "idle" => c.repo # NoRepo
    /\ c.phase \in {"ask", "reask"} => HasSession(c)
    /\ c.reply = "created" =>
         c.phase \in {"create", "recreate"} /\ c.new # 0 /\ sessions[c.new].repo = c.repo
    /\ c.reply = "answer" => c.phase \in {"ask", "reask", "stream"}
    /\ Shown(c)

\* A session that was created is about a repository.
Pinned == \A s \in SessionIds : s <= created => sessions[s].repo \in Repos

Inv ==
    /\ TypeOK
    /\ \A b \in Browsers : Consistent(chat[b])
    /\ Pinned

-----------------------------------------------------------------------------
\* The history that enters a prompt is a sequence of at most Turns answers.
LEMMA LastTurnsType ==
    ASSUME NEW h \in Seq(Nat)
    PROVE  LastTurns(h) \in Seq(Nat) /\ Len(LastTurns(h)) <= Turns
  BY ChatAssumption DEF LastTurns

\* A step of the script that keeps the stage and the messages well typed.
LEMMA GoType ==
    ASSUME NEW c \in Chat, NEW phase \in Phases
    PROVE  /\ Go(c, phase) \in Chat
           /\ Go(c, phase).seen = << >>
           /\ Go(c, phase).phase = phase
           /\ Go(c, phase).repo = c.repo
           /\ Go(c, phase).session = c.session
           /\ Go(c, phase).last_repo = c.last_repo
           /\ Go(c, phase).reply = "none"
           /\ Go(c, phase).new = 0
           /\ Go(c, phase).messages = c.messages
           /\ Go(c, phase).client = c.client /\ Go(c, phase).torn = c.torn
  <1> DEFINE stage == IF phase \in {"idle"} \cup Notes THEN "replied" ELSE "sent"
             question == IF phase = "idle" THEN 0 ELSE c.question
             d == [c EXCEPT !.phase = phase, !.stage = stage, !.seen = << >>,
                            !.reply = "none", !.new = 0, !.question = question]
  <1>1. stage \in Stages /\ question \in Nat
    BY DEF Chat, Stages
  <1>2. Go(c, phase) = d
    BY DEF Go, Chat
  <1> HIDE DEF stage, question
  <1>3. d \in Chat
    <2>1. << >> \in Seq(Nat) /\ "none" \in Replies
      BY DEF Replies
    <2>2. c \in [client : {"app", "page"}, torn : BOOLEAN,
                 phase : Phases, repo : Repos \cup {NoRepo}, session : {0} \cup SessionIds,
                 last_repo : Repos \cup {NoRepo}, question : Nat, stage : Stages,
                 seen : Seq(Nat), reply : Replies, new : {0} \cup SessionIds,
                 messages : Seq(Message)]
      BY DEF Chat
    <2> QED
      BY <1>1, <2>1, <2>2 DEF Chat
  <1>4. /\ d.seen = << >> /\ d.phase = phase /\ d.repo = c.repo
        /\ d.session = c.session /\ d.last_repo = c.last_repo
        /\ d.reply = "none" /\ d.new = 0 /\ d.messages = c.messages
        /\ d.client = c.client /\ d.torn = c.torn
    BY DEF Chat
  <1> HIDE DEF d
  <1> QED
    BY <1>2, <1>3, <1>4

\* What a browser knows stays right while the sessions it may know of keep
\* their repository.
LEMMA StaysConsistent ==
    ASSUME TypeOK, created' \in Nat, created <= created',
           \A s \in SessionIds : s <= created => sessions'[s].repo = sessions[s].repo,
           NEW c \in Chat, Consistent(c)
    PROVE  Consistent(c)'
  <1>1. c.session \in {0} \cup SessionIds /\ c.new \in {0} \cup SessionIds
    BY DEF Chat
  <1>2. /\ c.session # 0 => sessions'[c.session].repo = sessions[c.session].repo
        /\ c.new # 0 => sessions'[c.new].repo = sessions[c.new].repo
    BY <1>1 DEF Consistent
  <1>3. c.session <= created' /\ c.new <= created'
    BY <1>1, ChatAssumption DEF Consistent, TypeOK, SessionIds
  <1> QED
    BY <1>2, <1>3 DEF Consistent, HasSession, Knows, Shown

\* A step of one browser that leaves the sessions alone.
LEMMA ChatStep ==
    ASSUME Inv, NEW b \in Browsers, NEW c \in Chat, Consistent(c),
           Len(c.seen) <= Turns,
           chat' = [chat EXCEPT ![b] = c], UNCHANGED <<sessions, created>>
    PROVE  /\ chat' \in [Browsers -> Chat]
           /\ \A x \in Browsers : Len(chat'[x].seen) <= Turns /\ Consistent(chat[x])'
  <1>1. chat \in [Browsers -> Chat]
    BY DEF Inv, TypeOK
  <1>2. chat' \in [Browsers -> Chat]
    BY <1>1
  <1>3. ASSUME NEW x \in Browsers
        PROVE  Len(chat'[x].seen) <= Turns /\ Consistent(chat[x])'
    <2>1. PICK d \in Chat : d = chat'[x]
      BY <1>2
    <2>2. Consistent(d) /\ Len(d.seen) <= Turns
      BY <1>1, <2>1 DEF Inv, TypeOK
    <2>3. Consistent(d)'
      BY <2>2 DEF Consistent, Knows, Shown, HasSession
    <2> QED
      BY <2>1, <2>2, <2>3 DEF Consistent, Knows, Shown, HasSession
  <1> QED
    BY <1>2, <1>3

\* What remains true of a browser when its client moves to phase.
Lasting(c, phase) == c.session <= created /\ Knows(c, phase) /\ Shown(c)

\* The steps of a browser that move the client on.
LEMMA GoConsistent ==
    ASSUME NEW c \in Chat, NEW phase \in Phases, Lasting(c, phase), created \in Nat,
           phase # "idle" => c.repo # NoRepo,
           phase \in {"ask", "reask"} => HasSession(c)
    PROVE  Consistent(Go(c, phase)) /\ Go(c, phase) \in Chat /\ Len(Go(c, phase).seen) <= Turns
  <1>1. PICK d : d = Go(c, phase)
    OBVIOUS
  <1>2. /\ d \in Chat /\ d.seen = << >> /\ d.phase = phase /\ d.repo = c.repo
        /\ d.session = c.session /\ d.last_repo = c.last_repo /\ d.reply = "none"
        /\ d.new = 0 /\ d.messages = c.messages /\ d.client = c.client /\ d.torn = c.torn
    BY <1>1, GoType
  <1>3. Knows(d, d.phase) /\ Shown(d)
    BY <1>2 DEF Lasting, Knows, Shown
  <1>4. Consistent(d)
    BY <1>2, <1>3 DEF Consistent, HasSession, Lasting
  <1> QED
    BY <1>1, <1>2, <1>4, ChatAssumption

\* What the client does to its record without a request.
LEMMA UnloadedFields ==
    ASSUME NEW c \in Chat
    PROVE  /\ Unloaded(c) \in Chat
           /\ Unloaded(c) = [c EXCEPT !.session = 0, !.torn = FALSE]
           /\ Unloaded(c).session = 0 /\ Unloaded(c).torn = FALSE
           /\ Unloaded(c).client = c.client /\ Unloaded(c).phase = c.phase
           /\ Unloaded(c).repo = c.repo /\ Unloaded(c).last_repo = c.last_repo
           /\ Unloaded(c).question = c.question /\ Unloaded(c).stage = c.stage
           /\ Unloaded(c).seen = c.seen /\ Unloaded(c).reply = c.reply
           /\ Unloaded(c).new = c.new /\ Unloaded(c).messages = c.messages
  BY DEF Unloaded, Chat

LEMMA EmptiedFields ==
    ASSUME NEW c \in Chat
    PROVE  /\ Emptied(c) \in Chat
           /\ Emptied(c).session = c.session /\ Emptied(c).torn = c.torn
           /\ Emptied(c).client = c.client /\ Emptied(c).phase = c.phase
           /\ Emptied(c).repo = c.repo /\ Emptied(c).last_repo = c.last_repo
           /\ Emptied(c).question = c.question /\ Emptied(c).stage = c.stage
           /\ Emptied(c).seen = c.seen /\ Emptied(c).reply = c.reply
           /\ Emptied(c).new = c.new /\ Emptied(c).messages = << >>
  <1>1. << >> \in Seq(Message)
    OBVIOUS
  <1> QED
    BY <1>1 DEF Emptied, Chat

LEMMA ForgottenFields ==
    ASSUME NEW c \in Chat
    PROVE  /\ Forgotten(c) \in Chat
           /\ Forgotten(c).session = c.session /\ Forgotten(c).torn = c.torn
           /\ Forgotten(c).client = c.client /\ Forgotten(c).phase = c.phase
           /\ Forgotten(c).repo = c.repo
           /\ Forgotten(c).question = c.question /\ Forgotten(c).stage = c.stage
           /\ Forgotten(c).seen = c.seen /\ Forgotten(c).reply = c.reply
           /\ Forgotten(c).new = c.new /\ Forgotten(c).messages = c.messages
  BY DEF Forgotten, Chat

\* A clear, as far as it came, loses the session or keeps it as it was.
Trimmed(c, d) ==
    /\ d \in Chat /\ d.client = c.client /\ d.phase = c.phase /\ d.repo = c.repo
    /\ d.question = c.question /\ d.stage = c.stage /\ d.seen = c.seen
    /\ d.reply = c.reply /\ d.new = c.new /\ d.messages \in {c.messages, << >>}
    /\ \/ d.session = 0
       \/ d.session = c.session /\ d.last_repo = c.last_repo /\ d.torn = c.torn

LEMMA ClearedFields ==
    ASSUME NEW c \in Chat, NEW d \in Cleared(c)
    PROVE  Trimmed(c, d)
  <1>1. ASSUME NEW e \in Chat, Trimmed(c, e)
        PROVE  Trimmed(c, Unloaded(e)) /\ Trimmed(c, Emptied(e))
    <2>1. Trimmed(c, Unloaded(e))
      BY <1>1, UnloadedFields DEF Trimmed
    <2>2. Trimmed(c, Emptied(e))
      BY <1>1, EmptiedFields DEF Trimmed
    <2> QED
      BY <2>1, <2>2
  <1>2. ASSUME NEW e \in Chat, Trimmed(c, e), e.session = 0
        PROVE  Trimmed(c, Forgotten(e))
    BY <1>2, ForgottenFields DEF Trimmed
  <1>3. Trimmed(c, c)
    BY DEF Trimmed
  <1>4. Trimmed(c, Unloaded(c)) /\ Trimmed(c, Emptied(c))
    BY <1>1, <1>3
  <1>5. Trimmed(c, Unloaded(Emptied(c)))
    BY <1>1, <1>4, EmptiedFields
  <1>6. Trimmed(c, Forgotten(Unloaded(c)))
    BY <1>2, <1>4, UnloadedFields
  <1>7. Trimmed(c, Emptied(Forgotten(Unloaded(c))))
    <2>1. Forgotten(Unloaded(c)) \in Chat
      BY <1>6 DEF Trimmed
    <2> QED
      BY <1>1, <1>6, <2>1
  <1> QED
    BY <1>4, <1>5, <1>6, <1>7 DEF Cleared

\* A script that is ended knows at idle what it left.
LEMMA StoppedFields ==
    ASSUME NEW c \in Chat
    PROVE  /\ Stopped(c) \in Chat /\ Stopped(c).client = c.client
           /\ Stopped(c).repo = c.repo /\ Stopped(c).question = c.question
           /\ Stopped(c).messages \in {c.messages, << >>}
           /\ created \in Nat /\ Consistent(c) => Lasting(Stopped(c), "idle")
  <1>1. CASE c.client = "page"
    <2>1. PICK d \in Chat : d = Emptied(c)
      BY EmptiedFields
    <2>2. /\ d.client = c.client /\ d.repo = c.repo /\ d.question = c.question
          /\ d.messages = << >>
      BY <2>1, EmptiedFields
    <2>3. Stopped(c) = Unloaded(d)
      BY <1>1, <2>1 DEF Stopped
    <2>4. /\ Unloaded(d) \in Chat /\ Unloaded(d).session = 0
          /\ Unloaded(d).client = d.client /\ Unloaded(d).repo = d.repo
          /\ Unloaded(d).question = d.question /\ Unloaded(d).messages = d.messages
      BY UnloadedFields
    <2>5. /\ Stopped(c) \in Chat /\ Stopped(c).client = c.client /\ Stopped(c).session = 0
          /\ Stopped(c).repo = c.repo /\ Stopped(c).question = c.question
          /\ Stopped(c).messages = << >>
      BY <2>2, <2>3, <2>4
    <2> QED
      BY <1>1, <2>5 DEF Lasting, Knows, Shown, Notes
  <1>2. CASE c.client = "app" /\ c.phase \in Notes
    <2>1. PICK torn \in BOOLEAN : torn = (c.last_repo # c.repo)
      OBVIOUS
    <2>2. Stopped(c) = [c EXCEPT !.torn = torn]
      BY <1>2, <2>1 DEF Stopped
    <2>3. /\ Stopped(c) \in Chat /\ Stopped(c).client = c.client
          /\ Stopped(c).session = c.session /\ Stopped(c).last_repo = c.last_repo
          /\ Stopped(c).repo = c.repo /\ Stopped(c).question = c.question
          /\ Stopped(c).messages = c.messages /\ Stopped(c).torn = torn
      BY <2>2 DEF Chat
    <2> QED
      BY <1>2, <2>1, <2>3 DEF Consistent, Lasting, Knows, Shown, Notes
  <1>3. CASE c.client = "app" /\ c.phase \notin Notes
    <2>1. Stopped(c) = c
      BY <1>3 DEF Stopped
    <2> QED
      BY <1>3, <2>1 DEF Consistent, Lasting, Knows, Shown, Notes
  <1> QED
    BY <1>1, <1>2, <1>3 DEF Chat

\* What a reply leaves with the client is as right as what was there.
LEMMA NotedLasting ==
    ASSUME Inv, NEW b \in Browsers, chat[b].phase # "idle"
    PROVE  LET c == chat[b]
               d == Noted(c, c.reply)
           IN  /\ d \in Chat /\ Lasting(d, After(c, c.reply)) /\ d.repo = c.repo /\ c.repo # NoRepo
               /\ After(c, c.reply) \in Phases
               /\ After(c, c.reply) \in {"ask", "reask"} => HasSession(d)
  <1> DEFINE c == chat[b]
             d == Noted(c, c.reply)
             next == After(c, c.reply)
  <1>1. c \in Chat /\ Consistent(c) /\ created \in Nat
    BY ChatAssumption DEF Inv, TypeOK
  <1>2. c.repo \in Repos /\ c.repo # NoRepo /\ next \in Phases
    BY <1>1 DEF Chat, Consistent, After, Phases, Notes
  <1>3. c.phase \notin Notes /\ c.reply # "created" =>
          next \in {"idle", "stream", "recreate"} /\ (next = "recreate" => c.client = "app")
    BY DEF After, Notes
  <1>4. CASE c.phase \in Notes
    <2>1. d = [c EXCEPT !.last_repo = c.repo, !.torn = FALSE]
      BY <1>4 DEF Noted
    <2>2. d \in Chat /\ d.repo = c.repo /\ d.session = c.session /\ d.last_repo = c.repo
          /\ d.messages = c.messages /\ d.client = c.client
      BY <1>1, <1>2, <2>1 DEF Chat
    <2>3. next \in {"ask", "reask"} /\ next \notin Notes
      BY <1>4 DEF After, Notes
    <2>4. c.client = "app" /\ c.session # 0 /\ sessions[c.session].repo = c.repo /\ Shown(c)
      BY <1>1, <1>4 DEF Consistent, Knows
    <2>5. Knows(d, next) /\ Shown(d)
      BY <2>2, <2>3, <2>4 DEF Knows, Shown
    <2> QED
      BY <1>1, <1>2, <2>2, <2>4, <2>5 DEF Consistent, Lasting, HasSession
  <1>5. CASE c.phase \notin Notes /\ c.reply = "created"
    <2>1. d = [c EXCEPT !.session = c.new]
      BY <1>5 DEF Noted
    <2>2. d \in Chat /\ d.repo = c.repo /\ d.session = c.new
          /\ d.messages = c.messages /\ d.client = c.client
      BY <1>1, <2>1 DEF Chat
    <2>3. /\ c.phase \in {"create", "recreate"} /\ c.new # 0 /\ sessions[c.new].repo = c.repo
          /\ Shown(c) /\ (c.phase = "recreate" => c.client = "app") /\ c.new <= created
      BY <1>1, <1>5 DEF Consistent, Knows
    <2>4. \/ next \in Notes /\ c.client = "app"
          \/ next = "ask" /\ next \notin Notes /\ c.client = "page"
      BY <1>1, <1>5, <2>3 DEF After, Notes, Chat
    <2>5. Knows(d, next) /\ Shown(d)
      BY <2>2, <2>3, <2>4 DEF Knows, Shown
    <2>6. next \in {"ask", "reask"} => c.client = "page"
      BY <2>4 DEF Notes
    <2> QED
      BY <1>1, <1>2, <2>2, <2>3, <2>5, <2>6 DEF Lasting, HasSession
  <1>6. CASE c.phase \notin Notes /\ c.reply = "notfound"
    <2>1. d = Unloaded(c)
      BY <1>6 DEF Noted
    <2>2. d \in Chat /\ d.repo = c.repo /\ d.session = 0 /\ d.messages = c.messages
          /\ d.client = c.client
      BY <1>1, <2>1, UnloadedFields
    <2>3. Knows(d, next) /\ Shown(d)
      BY <1>1, <1>3, <1>6, <2>2 DEF Consistent, Knows, Shown, Notes
    <2> QED
      BY <1>1, <1>2, <1>3, <1>6, <2>2, <2>3 DEF Lasting
  <1>7. CASE c.phase \notin Notes /\ c.reply = "answer"
    <2> DEFINE new == [question |-> c.question, repo |-> c.repo, torn |-> c.torn,
                       session |-> IF c.phase = "stream" THEN 0 ELSE c.session,
                       about |-> IF c.phase = "stream" THEN c.repo
                                 ELSE sessions[c.session].repo]
    <2>1. d = [c EXCEPT !.messages = Append(c.messages, new)]
      BY <1>1, <1>7 DEF Noted, Chat
    <2>2. /\ new.repo = c.repo /\ new.torn = c.torn
          /\ c.client = "app" /\ ~c.torn => new.about = c.repo
      BY <1>1, <1>7 DEF Consistent, HasSession, Knows
    <2>3. c.phase # "stream" => c.session \in SessionIds /\ sessions[c.session].repo \in Repos
      <3>1. c.phase # "stream" => c.session \in SessionIds /\ c.session <= created
        BY <1>1, <1>7 DEF Consistent, HasSession, Chat
      <3> QED
        BY <3>1 DEF Inv, Pinned
    <2>4. new \in Message
      BY <1>1, <1>2, <2>3 DEF Message, Chat
    <2> HIDE DEF new
    <2>5. c.messages \in Seq(Message)
      BY <1>1 DEF Chat
    <2>6. Append(c.messages, new) \in Seq(Message)
      BY <2>4, <2>5
    <2>7. d \in Chat /\ d.repo = c.repo /\ d.session = c.session /\ d.client = c.client
          /\ d.last_repo = c.last_repo /\ d.torn = c.torn /\ d.messages = Append(c.messages, new)
      BY <1>1, <2>1, <2>6 DEF Chat
    <2>8. Shown(d)
      <3>1. CASE c.client # "app"
        BY <2>7, <3>1 DEF Shown
      <3>2. CASE c.client = "app"
        <4>1. new.about # new.repo => new.torn
          BY <1>1, <2>2, <3>2 DEF Chat
        <4>2. \A i \in 1 .. Len(c.messages) : c.messages[i].about # c.messages[i].repo => c.messages[i].torn
          BY <1>1, <3>2 DEF Consistent, Shown
        <4>3. \A i \in 1 .. Len(d.messages) : d.messages[i] = new \/
                  (i \in 1 .. Len(c.messages) /\ d.messages[i] = c.messages[i])
          BY <2>4, <2>5, <2>7
        <4> QED
          BY <4>1, <4>2, <4>3 DEF Shown
      <3> QED
        BY <3>1, <3>2
    <2>9. Knows(d, next)
      BY <1>1, <1>3, <1>7, <2>7 DEF Consistent, Knows, Notes
    <2> QED
      BY <1>1, <1>2, <1>3, <1>7, <2>7, <2>8, <2>9 DEF Consistent, Lasting
  <1>8. CASE c.phase \notin Notes /\ c.reply \notin {"created", "notfound", "answer"}
    <2>1. d = c
      BY <1>8 DEF Noted
    <2>2. Knows(d, next)
      BY <1>1, <1>3, <1>8, <2>1 DEF Consistent, Knows, Notes
    <2> QED
      BY <1>1, <1>2, <1>3, <1>8, <2>1, <2>2 DEF Consistent, Lasting
  <1> QED
    BY <1>4, <1>5, <1>6, <1>7, <1>8

-----------------------------------------------------------------------------
LEMMA InvInit == Init => Inv
  <1> SUFFICES ASSUME Init PROVE Inv
    OBVIOUS
  <1> DEFINE fresh(client) ==
               [client |-> client, torn |-> FALSE, phase |-> "idle", repo |-> NoRepo,
                session |-> 0, last_repo |-> NoRepo, question |-> 0,
                stage |-> "replied", seen |-> << >>, reply |-> "none", new |-> 0,
                messages |-> << >>]
  <1>1. << >> \in Seq(Nat) /\ << >> \in Seq(Message)
    OBVIOUS
  <1>2. ASSUME NEW client \in Clients
        PROVE  fresh(client) \in Chat /\ Consistent(fresh(client))
               /\ Len(fresh(client).seen) <= Turns
    <2>1. PICK c : c = fresh(client)
      OBVIOUS
    <2>2. c \in Chat
      BY <1>1, <2>1, ChatAssumption DEF Chat, Phases, Notes, Stages, Replies
    <2>3. /\ c.phase = "idle" /\ c.session = 0 /\ c.new = 0 /\ c.reply = "none"
          /\ c.seen = << >> /\ c.messages = << >>
      BY <2>1
    <2>4. Consistent(c) /\ Len(c.seen) <= Turns
      BY <2>3, ChatAssumption DEF Consistent, Knows, Shown, Notes, Init
    <2> QED
      BY <2>1, <2>2, <2>4
  <1>3. PICK run \in [Browsers -> Clients] : chat = [b \in Browsers |-> fresh(run[b])]
    BY DEF Init
  <1>4. Unknown \in Session
    BY <1>1 DEF Unknown, Session
  <1> HIDE DEF fresh
  <1>5. chat \in [Browsers -> Chat]
        /\ \A b \in Browsers : Consistent(chat[b]) /\ Len(chat[b].seen) <= Turns
    BY <1>2, <1>3
  <1>6. TypeOK
    BY <1>4, <1>5, ChatAssumption DEF TypeOK, Init
  <1>7. Pinned
    BY DEF Init, Pinned, SessionIds
  <1> QED
    BY <1>5, <1>6, <1>7 DEF Inv

\* A step of one browser that leaves the sessions alone and moves the other
\* variables within their types.
LEMMA BrowserStep ==
    ASSUME Inv, NEW b \in Browsers, NEW c \in Chat, Consistent(c), Len(c.seen) <= Turns,
           chat' = [chat EXCEPT ![b] = c], UNCHANGED <<sessions, created, restarts, llm>>,
           stray' \subseteq Stray, asked' \in 0 .. MaxQuestions
    PROVE  Inv'
  <1>1. /\ chat' \in [Browsers -> Chat]
        /\ \A x \in Browsers : Len(chat'[x].seen) <= Turns /\ Consistent(chat[x])'
    BY ChatStep
  <1> QED
    BY <1>1 DEF Inv, TypeOK, Pinned

LEMMA UserStep ==
    ASSUME Inv, NEW b \in Browsers, User(b)
    PROVE  Inv'
  <1>1. chat[b] \in Chat /\ Consistent(chat[b]) /\ Len(chat[b].seen) <= Turns
    BY DEF Inv, TypeOK
  <1>2. stray \subseteq Stray /\ asked \in 0 .. MaxQuestions /\ created \in Nat
    BY DEF Inv, TypeOK
  <1>3. ASSUME NEW r \in Repos \cup {NoRepo}, TypeRepo(b, r)
        PROVE  Inv'
    <2> DEFINE c == [chat[b] EXCEPT !.repo = r]
    <2>1. /\ c \in Chat /\ c.phase = "idle" /\ c.seen = chat[b].seen
          /\ c.session = chat[b].session /\ c.last_repo = chat[b].last_repo
          /\ c.reply = chat[b].reply /\ c.new = chat[b].new
          /\ c.messages = chat[b].messages /\ c.client = chat[b].client
          /\ c.torn = chat[b].torn
      BY <1>1, <1>3 DEF Chat, TypeRepo, In
    <2>2. chat' = [chat EXCEPT ![b] = c] /\ UNCHANGED <<sessions, created, stray, asked, restarts, llm>>
      BY <1>3 DEF TypeRepo
    <2> HIDE DEF c
    <2>3. Consistent(c)
      BY <1>1, <1>3, <2>1 DEF Consistent, Knows, Shown, Notes, TypeRepo, In
    <2> QED
      BY <1>1, <1>2, <2>1, <2>2, <2>3, BrowserStep
  <1>4. CASE Ask(b)
    <2>1. asked' = asked + 1 /\ asked' \in 0 .. MaxQuestions /\ asked' \in Nat
      BY <1>2, <1>4, ChatAssumption DEF Ask
    <2>2. PICK d : d = [chat[b] EXCEPT !.question = asked']
      OBVIOUS
    <2>3. /\ d \in Chat /\ d.session = chat[b].session /\ d.last_repo = chat[b].last_repo
          /\ d.repo = chat[b].repo /\ d.messages = chat[b].messages
          /\ d.client = chat[b].client /\ d.torn = chat[b].torn
      BY <1>1, <2>1, <2>2 DEF Chat
    <2>4. HasSession(d) <=> HasSession(chat[b])
      BY <2>3 DEF HasSession
    <2>5. PICK phase \in {"ask", "create", "stream"} :
            /\ chat' = [chat EXCEPT ![b] = Go(d, phase)]
            /\ phase = "ask" => HasSession(d)
      <3>1. PICK phase \in {IF HasSession(chat[b]) THEN "ask" ELSE "create"} \cup
                            (IF chat[b].client = "page" THEN {"stream"} ELSE {}) :
              chat' = [chat EXCEPT ![b] = Go([chat[b] EXCEPT !.question = asked'], phase)]
        BY <1>4 DEF Ask, Inv, TypeOK
      <3> QED
        BY <2>2, <2>4, <3>1
    <2>6. UNCHANGED <<sessions, created, stray, restarts, llm>> /\ d.repo # NoRepo
      BY <1>4, <2>3 DEF Ask
    <2>7. phase \in Phases /\ phase \notin Notes /\ phase \notin {"recreate", "reask"}
      BY DEF Phases, Notes
    <2>8. Lasting(d, phase)
      BY <1>1, <1>4, <2>3, <2>7 DEF Lasting, Consistent, Knows, Shown, Notes, Ask, In
    <2>9. Consistent(Go(d, phase)) /\ Go(d, phase) \in Chat /\ Len(Go(d, phase).seen) <= Turns
      BY <1>2, <2>3, <2>5, <2>6, <2>7, <2>8, GoConsistent
    <2> QED
      BY <1>2, <2>1, <2>5, <2>6, <2>9, BrowserStep
  <1>5. CASE Clear(b)
    <2>1. PICK c \in Cleared(chat[b]) : chat' = [chat EXCEPT ![b] = c]
      BY <1>5 DEF Clear
    <2>2. /\ c \in Chat /\ c.client = chat[b].client /\ c.phase = "idle" /\ c.repo = chat[b].repo
          /\ c.seen = chat[b].seen /\ c.reply = chat[b].reply /\ c.new = chat[b].new
          /\ c.messages \in {chat[b].messages, << >>}
          /\ \/ c.session = 0
             \/ /\ c.session = chat[b].session /\ c.last_repo = chat[b].last_repo
                /\ c.torn = chat[b].torn
      BY <1>1, <1>5, ClearedFields DEF Trimmed, Clear, In
    <2>3. UNCHANGED <<sessions, created, stray, asked, restarts, llm>> /\ chat[b].phase = "idle"
      BY <1>5 DEF Clear, In
    <2>4. Shown(c) /\ Knows(c, c.phase)
      <3>1. Shown(c)
        <4>1. CASE c.messages = chat[b].messages
          BY <1>1, <2>2, <4>1 DEF Consistent, Shown
        <4>2. CASE c.messages = << >>
          <5>1. 1 .. Len(c.messages) = {}
            BY <4>2
          <5> QED
            BY <5>1 DEF Shown
        <4> QED
          BY <2>2, <4>1, <4>2
      <3> QED
        BY <1>1, <2>2, <2>3, <3>1 DEF Consistent, Knows, Notes
    <2>5. Consistent(c)
      BY <1>1, <1>2, <2>2, <2>3, <2>4 DEF Consistent
    <2> QED
      BY <1>1, <1>2, <2>1, <2>2, <2>3, <2>5, BrowserStep
  <1>6. CASE Interrupt(b)
    <2>1. PICK d : d = Stopped(chat[b])
      OBVIOUS
    <2>2. chat' = [chat EXCEPT ![b] = Go(d, "idle")]
      BY <1>6, <2>1 DEF Interrupt, Inv, TypeOK
    <2>3. stray' \subseteq Stray
      BY <1>1, <1>2, <1>6 DEF Interrupt, Left, Stray, Chat, Consistent, HasSession
    <2>4. UNCHANGED <<sessions, created, asked, restarts, llm>>
      BY <1>6 DEF Interrupt
    <2>5. d \in Chat /\ Lasting(d, "idle")
      BY <1>1, <1>2, <2>1, StoppedFields
    <2>6. /\ Consistent(Go(d, "idle")) /\ Go(d, "idle") \in Chat
          /\ Len(Go(d, "idle").seen) <= Turns
      BY <1>2, <2>5, GoConsistent DEF Phases
    <2> QED
      BY <1>2, <2>2, <2>3, <2>4, <2>6, BrowserStep
  <1> QED
    BY <1>3, <1>4, <1>5, <1>6 DEF User

LEMMA ScriptStep ==
    ASSUME Inv, NEW b \in Browsers, Script(b)
    PROVE  Inv'
  <1>1. chat[b] \in Chat /\ Consistent(chat[b])
    BY DEF Inv, TypeOK
  <1>2. stray \subseteq Stray /\ asked \in 0 .. MaxQuestions /\ created \in Nat
    BY DEF Inv, TypeOK
  <1>3. CASE Receive(b)
    <2> DEFINE d == Noted(chat[b], chat[b].reply)
               phase == After(chat[b], chat[b].reply)
    <2>1. chat' = [chat EXCEPT ![b] = Go(d, phase)]
          /\ UNCHANGED <<sessions, created, stray, asked, restarts, llm>>
      BY <1>3 DEF Receive
    <2>2. chat[b].phase # "idle"
      BY <1>3 DEF Receive, In
    <2>3. /\ d \in Chat /\ Lasting(d, phase) /\ d.repo # NoRepo /\ phase \in Phases
          /\ phase \in {"ask", "reask"} => HasSession(d)
      BY <2>2, NotedLasting
    <2> HIDE DEF d, phase
    <2>4. Consistent(Go(d, phase)) /\ Go(d, phase) \in Chat /\ Len(Go(d, phase).seen) <= Turns
      BY <1>2, <2>3, GoConsistent
    <2> QED
      BY <1>2, <2>1, <2>4, BrowserStep
  <1>4. CASE Timeout(b)
    <2> DEFINE phase == After(chat[b], "error")
    <2>0. chat[b].phase \notin {"idle"} \cup Notes
      BY <1>4 DEF Timeout, In
    <2>1. phase \in {"idle", "stream"} /\ phase \in Phases
      BY <2>0 DEF After, Phases, Notes
    <2>2. chat' = [chat EXCEPT ![b] = Go(chat[b], phase)]
      BY <1>4 DEF Timeout, Inv, TypeOK
    <2>3. stray' \subseteq Stray
      BY <1>1, <1>2, <1>4 DEF Timeout, Left, Stray, Chat, Consistent, HasSession
    <2>4. UNCHANGED <<sessions, created, asked, restarts, llm>> /\ chat[b].repo # NoRepo
      BY <1>1, <1>4, <2>0 DEF Timeout, Consistent
    <2> HIDE DEF phase
    <2>5. Lasting(chat[b], phase)
      BY <1>1, <2>0, <2>1 DEF Lasting, Consistent, Knows, Notes
    <2>6. /\ Consistent(Go(chat[b], phase)) /\ Go(chat[b], phase) \in Chat
          /\ Len(Go(chat[b], phase).seen) <= Turns
      BY <1>1, <1>2, <2>1, <2>4, <2>5, GoConsistent
    <2> QED
      BY <1>2, <2>2, <2>3, <2>4, <2>6, BrowserStep
  <1> QED
    BY <1>3, <1>4 DEF Script

\* A reply that is not a new session changes nothing else of the browser.
LEMMA ReplyStep ==
    ASSUME Inv, NEW b \in Browsers, NEW stage \in Stages, NEW reply \in Replies,
           reply # "created",
           reply = "answer" => chat[b].phase \in {"ask", "reask", "stream"},
           chat' = [chat EXCEPT ![b].stage = stage, ![b].reply = reply]
    PROVE  /\ chat' \in [Browsers -> Chat]
           /\ \A x \in Browsers : Len(chat'[x].seen) <= Turns /\ Consistent(chat'[x])
  <1>1. /\ chat \in [Browsers -> Chat]
        /\ \A x \in Browsers : Len(chat[x].seen) <= Turns /\ Consistent(chat[x])
    BY DEF Inv, TypeOK
  <1> DEFINE c == [chat[b] EXCEPT !.stage = stage, !.reply = reply]
  <1>2. /\ c \in Chat /\ c.phase = chat[b].phase /\ c.seen = chat[b].seen
        /\ c.repo = chat[b].repo /\ c.session = chat[b].session /\ c.reply = reply
        /\ c.last_repo = chat[b].last_repo /\ c.new = chat[b].new
        /\ c.messages = chat[b].messages /\ c.client = chat[b].client /\ c.torn = chat[b].torn
    BY <1>1 DEF Chat
  <1>3. chat' = [chat EXCEPT ![b] = c]
    BY <1>1
  <1> HIDE DEF c
  <1>4. Consistent(c)
    BY <1>1, <1>2 DEF Consistent, HasSession, Knows, Shown
  <1> QED
    BY <1>1, <1>2, <1>3, <1>4

\* Appending to a history leaves what the sessions are about.
LEMMA AppendedType ==
    ASSUME TypeOK, NEW s \in SessionIds, NEW q \in Nat
    PROVE  /\ Appended(s, q) \in [SessionIds -> Session]
           /\ \A t \in SessionIds : Appended(s, q)[t].repo = sessions[t].repo
  <1>1. sessions[s] \in Session /\ sessions \in [SessionIds -> Session]
    BY DEF TypeOK
  <1> DEFINE h == Append(sessions[s].history, q)
             t == [sessions[s] EXCEPT !.history = h]
  <1>2. h \in Seq(Nat)
    BY <1>1 DEF Session
  <1> HIDE DEF h
  <1>3. t \in Session /\ t.repo = sessions[s].repo
    BY <1>1, <1>2 DEF Session
  <1>4. Appended(s, q) = [sessions EXCEPT ![s] = t]
    BY <1>1 DEF Appended, h
  <1> HIDE DEF t
  <1> QED
    BY <1>1, <1>3, <1>4

LEMMA ServerStep ==
    ASSUME Inv, NEW b \in Browsers, Server(b)
    PROVE  Inv'
  <1>1. /\ chat \in [Browsers -> Chat] /\ chat[b] \in Chat
        /\ \A x \in Browsers : Len(chat[x].seen) <= Turns /\ Consistent(chat[x])
    BY DEF Inv, TypeOK
  <1>2. stray \subseteq Stray /\ created \in 0 .. MaxSessions /\ created \in Nat
        /\ asked \in 0 .. MaxQuestions
    BY ChatAssumption DEF Inv, TypeOK
  <1>3. ASSUME UNCHANGED <<sessions, created, stray, asked, restarts, llm>>,
               chat' \in [Browsers -> Chat],
               \A x \in Browsers : Len(chat'[x].seen) <= Turns /\ Consistent(chat'[x])
        PROVE  Inv'
    BY <1>3 DEF Inv, TypeOK, Consistent, Knows, Shown, HasSession, Pinned
  <1>4. CASE CreateSession(b)
    <2> DEFINE s == [live |-> TRUE, repo |-> chat[b].repo, history |-> << >>]
    <2>0. PICK c : c = [chat[b] EXCEPT !.stage = "replied", !.reply = "created",
                                       !.new = created']
      OBVIOUS
    <2>1. created' = created + 1 /\ created' \in SessionIds
      BY <1>2, <1>4, ChatAssumption DEF CreateSession, SessionIds
    <2>2. sessions' = [sessions EXCEPT ![created'] = s] /\ s \in Session
      <3>1. << >> \in Seq(Nat)
        OBVIOUS
      <3> QED
        BY <1>1, <1>4, <3>1 DEF CreateSession, Session, Chat
    <2>3. chat' = [chat EXCEPT ![b] = c] /\ UNCHANGED <<stray, asked, restarts, llm>>
      BY <1>1, <1>4, <2>0 DEF CreateSession
    <2>4. /\ c \in Chat /\ c.phase = chat[b].phase /\ c.seen = chat[b].seen
          /\ c.repo = chat[b].repo /\ c.session = chat[b].session /\ c.reply = "created"
          /\ c.last_repo = chat[b].last_repo /\ c.new = created'
          /\ c.messages = chat[b].messages /\ c.client = chat[b].client
          /\ c.torn = chat[b].torn
      BY <1>1, <2>0, <2>1 DEF Chat, Stages, Replies
    <2>5. chat[b].phase \in {"create", "recreate"} /\ s.repo = chat[b].repo
      BY <1>4 DEF CreateSession, At, In
    <2> HIDE DEF s
    <2>6. /\ sessions' \in [SessionIds -> Session] /\ sessions'[created'] = s
          /\ \A t \in SessionIds : t <= created => sessions'[t].repo = sessions[t].repo
      BY <1>2, <2>1, <2>2 DEF Inv, TypeOK
    <2>7. \A x \in Browsers : Consistent(chat[x])'
      <3>1. TypeOK /\ created' \in Nat /\ created <= created'
        BY <1>2, <2>1 DEF Inv
      <3>2. ASSUME NEW d \in Chat, Consistent(d) PROVE Consistent(d)'
        BY <2>6, <3>1, <3>2, StaysConsistent
      <3>3. Consistent(chat[b])
        BY <1>1
      <3>4. Consistent(c)'
        <4>1. c.session \in {0} \cup SessionIds
          BY <2>4 DEF Chat
        <4>2. /\ c.session <= created' /\ c.new <= created' /\ c.new # 0
              /\ c.session # 0 => sessions'[c.session].repo = sessions[c.session].repo
          BY <1>2, <2>1, <2>4, <2>6, <3>3, <4>1 DEF Consistent, SessionIds
        <4>3. sessions'[c.new].repo = c.repo
          BY <2>4, <2>5, <2>6
        <4>4. Knows(c, c.phase)' /\ Shown(c)'
          BY <2>4, <2>5, <3>3, <4>2 DEF Consistent, Knows, Shown
        <4> QED
          BY <2>4, <2>5, <3>3, <4>2, <4>3, <4>4 DEF Consistent
      <3> QED
        <4>1. ASSUME NEW x \in Browsers PROVE Consistent(chat[x])'
          <5>1. CASE x = b
            <6>1. chat'[x] = c
              BY <1>1, <2>3, <5>1
            <6> QED
              BY <3>4, <6>1 DEF Consistent, Knows, Shown, HasSession
          <5>2. CASE x # b
            <6>1. PICK d \in Chat : d = chat[x] /\ d = chat'[x] /\ Consistent(d)
              BY <1>1, <2>3, <5>2
            <6>2. Consistent(d)'
              BY <3>2, <6>1
            <6> QED
              BY <6>1, <6>2 DEF Consistent, Knows, Shown, HasSession
          <5> QED
            BY <5>1, <5>2
        <4> QED
          BY <4>1
    <2>8. TypeOK'
      <3>1. created' \in 0 .. MaxSessions /\ chat' \in [Browsers -> Chat]
        BY <1>1, <2>1, <2>3, <2>4, ChatAssumption DEF SessionIds
      <3>2. \A x \in Browsers : Len(chat'[x].seen) <= Turns
        BY <1>1, <2>3, <2>4
      <3> QED
        BY <1>2, <2>3, <2>6, <3>1, <3>2 DEF Inv, TypeOK
    <2>9. Pinned'
      <3>1. s.repo \in Repos
        BY <1>1, <2>5 DEF Consistent, Chat
      <3>2. ASSUME NEW t \in SessionIds, t <= created' PROVE sessions'[t].repo \in Repos
        <4>1. t <= created \/ t = created'
          BY <1>2, <2>1, <3>2 DEF SessionIds
        <4> QED
          BY <2>6, <3>1, <4>1 DEF Inv, Pinned
      <3> QED
        BY <3>2 DEF Pinned
    <2> QED
      BY <2>7, <2>8, <2>9 DEF Inv
  <1>5. CASE SessionQA(b)
    <2>1. UNCHANGED <<sessions, created, stray, asked, restarts, llm>>
      BY <1>5 DEF SessionQA
    <2> DEFINE h == sessions[chat[b].session].history
               c == [chat[b] EXCEPT !.stage = "llm", !.seen = LastTurns(h)]
    <2>2. CASE sessions[chat[b].session].live
      <3>1. chat' = [chat EXCEPT ![b] = c]
        BY <1>1, <1>5, <2>2 DEF SessionQA
      <3>2. chat[b].session \in SessionIds
        BY <1>1, <1>5 DEF SessionQA, At, In, Consistent, HasSession, Chat
      <3>3. LastTurns(h) \in Seq(Nat) /\ Len(LastTurns(h)) <= Turns
        <4>1. h \in Seq(Nat)
          BY <3>2 DEF Inv, TypeOK, Session
        <4> QED
          BY <4>1, LastTurnsType
      <3>4. /\ c \in Chat /\ c.phase = chat[b].phase /\ c.seen = LastTurns(h)
            /\ c.repo = chat[b].repo /\ c.session = chat[b].session
            /\ c.reply = chat[b].reply /\ c.last_repo = chat[b].last_repo
            /\ c.new = chat[b].new /\ c.messages = chat[b].messages
            /\ c.client = chat[b].client /\ c.torn = chat[b].torn
        BY <1>1, <3>3 DEF Chat, Stages
      <3> HIDE DEF h, c
      <3>5. Consistent(c)
        BY <1>1, <3>4 DEF Consistent, HasSession, Knows, Shown
      <3> QED
        BY <1>1, <1>3, <2>1, <3>1, <3>3, <3>4, <3>5
    <2>3. CASE ~sessions[chat[b].session].live
      <3>1. chat' = [chat EXCEPT ![b].stage = "replied", ![b].reply = "notfound"]
        BY <1>1, <1>5, <2>3 DEF SessionQA
      <3> QED
        BY <1>3, <2>1, <3>1, ReplyStep DEF Stages, Replies
    <2> QED
      BY <2>2, <2>3
  <1>6. CASE Answer(b)
    <2>1. UNCHANGED <<sessions, created, stray, asked, restarts, llm>>
      BY <1>6 DEF Answer
    <2>2. CASE llm
      <3>1. chat' = [chat EXCEPT ![b].stage = "append", ![b].reply = chat[b].reply]
        BY <1>1, <1>6, <2>2 DEF Answer, Chat
      <3>2. /\ chat[b].reply \in Replies /\ chat[b].reply # "created"
            /\ chat[b].reply = "answer" => chat[b].phase \in {"ask", "reask", "stream"}
        BY <1>1, <1>6 DEF Answer, At, In, Consistent, Chat
      <3> QED
        BY <1>3, <2>1, <3>1, <3>2, ReplyStep DEF Stages
    <2>3. CASE ~llm
      <3>1. chat' = [chat EXCEPT ![b].stage = "replied", ![b].reply = "offline"]
        BY <1>1, <1>6, <2>3 DEF Answer
      <3> QED
        BY <1>3, <2>1, <3>1, ReplyStep DEF Stages, Replies
    <2> QED
      BY <2>2, <2>3
  <1>7. CASE AppendHistory(b)
    <2>1. PICK reply \in {"answer", "offline"} :
            chat' = [chat EXCEPT ![b].stage = "replied", ![b].reply = reply]
      BY <1>7 DEF AppendHistory
    <2>2. chat[b].phase \in {"ask", "reask"} /\ UNCHANGED <<created, stray, asked, restarts, llm>>
      BY <1>7 DEF AppendHistory, At, In
    <2>3. /\ chat' \in [Browsers -> Chat]
          /\ \A x \in Browsers : Len(chat'[x].seen) <= Turns /\ Consistent(chat'[x])
      BY <2>1, <2>2, ReplyStep DEF Stages, Replies
    <2>4. chat[b].session \in SessionIds /\ chat[b].question \in Nat
      BY <1>1, <2>2 DEF Consistent, HasSession, Chat
    <2>5. /\ sessions' \in [SessionIds -> Session]
          /\ \A t \in SessionIds : sessions'[t].repo = sessions[t].repo
      BY <1>7, <2>4, AppendedType DEF AppendHistory, Inv
    <2>6. ASSUME NEW x \in Browsers PROVE Consistent(chat[x])'
      <3>1. PICK d \in Chat : d = chat'[x] /\ Consistent(d)
        BY <2>3
      <3>2. TypeOK /\ created' \in Nat /\ created <= created'
        BY <1>2, <2>2 DEF Inv
      <3>3. Consistent(d)'
        BY <2>5, <3>1, <3>2, StaysConsistent
      <3> QED
        BY <3>1, <3>3 DEF Consistent, Knows, Shown, HasSession
    <2> QED
      BY <2>2, <2>3, <2>5, <2>6 DEF Inv, TypeOK, Pinned
  <1>8. CASE Stream(b)
    <2>1. UNCHANGED <<sessions, created, stray, asked, restarts, llm>>
          /\ chat[b].phase = "stream"
          /\ chat' = [chat EXCEPT ![b].stage = "replied", ![b].reply = "answer"]
      BY <1>8 DEF Stream, At, In
    <2> QED
      BY <1>3, <2>1, ReplyStep DEF Stages, Replies
  <1>9. CASE Fail(b)
    <2>1. UNCHANGED <<sessions, created, stray, asked, restarts, llm>>
          /\ chat' = [chat EXCEPT ![b].stage = "replied", ![b].reply = "error"]
      BY <1>9 DEF Fail
    <2> QED
      BY <1>3, <2>1, ReplyStep DEF Stages, Replies
  <1> QED
    BY <1>4, <1>5, <1>6, <1>7, <1>8, <1>9 DEF Server

LEMMA StrayStep ==
    ASSUME Inv, NEW q \in stray, StrayEnds(q)
    PROVE  Inv'
  <1>1. q.session \in SessionIds /\ q.question \in Nat
    BY DEF Inv, TypeOK, Stray
  <1>2. stray' \subseteq Stray /\ UNCHANGED <<chat, created, asked, restarts, llm>>
    BY DEF StrayEnds, Inv, TypeOK
  <1>3. /\ sessions' \in [SessionIds -> Session]
        /\ \A t \in SessionIds : sessions'[t].repo = sessions[t].repo
    BY <1>1, AppendedType DEF StrayEnds, Inv, TypeOK
  <1>4. ASSUME NEW x \in Browsers PROVE Consistent(chat[x])'
    <2>1. PICK d \in Chat : d = chat[x] /\ d = chat'[x] /\ Consistent(d)
      BY <1>2 DEF Inv, TypeOK
    <2>2. TypeOK /\ created' \in Nat /\ created <= created'
      BY <1>2 DEF Inv, TypeOK
    <2>3. Consistent(d)'
      BY <1>3, <2>1, <2>2, StaysConsistent
    <2> QED
      BY <2>1, <2>3 DEF Consistent, Knows, Shown, HasSession
  <1> QED
    BY <1>2, <1>3, <1>4 DEF Inv, TypeOK, Pinned

LEMMA RestartStep == Inv /\ Restart => Inv'
  <1> SUFFICES ASSUME Inv, Restart PROVE Inv'
    OBVIOUS
  <1>1. /\ restarts' \in 0 .. MaxRestarts /\ stray' = {}
        /\ UNCHANGED <<created, asked, llm>>
    <2>1. MaxRestarts \in Nat /\ restarts \in 0 .. MaxRestarts
      BY ChatAssumption DEF Inv, TypeOK
    <2>2. /\ restarts < MaxRestarts /\ restarts' = restarts + 1 /\ stray' = {}
          /\ UNCHANGED <<created, asked, llm>>
      BY DEF Restart
    <2> QED
      BY <2>1, <2>2
  <1>2. /\ sessions' \in [SessionIds -> Session]
        /\ \A t \in SessionIds : sessions'[t].repo = sessions[t].repo
    <2>1. ASSUME NEW t \in SessionIds
          PROVE  /\ sessions'[t] \in Session
                 /\ sessions'[t].repo = sessions[t].repo
      <3>1. sessions[t] \in Session
        BY DEF Inv, TypeOK
      <3>2. sessions'[t] = [sessions[t] EXCEPT !.live = FALSE]
        BY DEF Restart
      <3> QED
        BY <3>1, <3>2 DEF Session
    <2> QED
      BY <2>1 DEF Restart
  <1>3. ASSUME NEW x \in Browsers
        PROVE  /\ chat'[x] \in Chat /\ Len(chat'[x].seen) <= Turns
               /\ Consistent(chat[x])'
    <2>1. chat[x] \in Chat /\ Consistent(chat[x]) /\ Len(chat[x].seen) <= Turns
      BY DEF Inv, TypeOK
    <2>2. PICK d : d = [chat[x] EXCEPT !.stage = "replied", !.reply = "error"]
      OBVIOUS
    <2>3. /\ d \in Chat /\ d.phase = chat[x].phase /\ d.seen = chat[x].seen
          /\ d.repo = chat[x].repo /\ d.session = chat[x].session
          /\ d.reply = "error" /\ d.last_repo = chat[x].last_repo
          /\ d.new = chat[x].new /\ d.messages = chat[x].messages
          /\ d.client = chat[x].client /\ d.torn = chat[x].torn
      BY <2>1, <2>2 DEF Chat, Stages, Replies
    <2>4. Consistent(d)
      BY <2>1, <2>3 DEF Consistent, HasSession, Knows, Shown
    <2>5. chat'[x] = chat[x] \/ chat'[x] = d
      BY <2>2 DEF Restart
    <2>6. PICK e \in Chat : e = chat'[x] /\ Consistent(e) /\ Len(e.seen) <= Turns
      BY <2>1, <2>3, <2>4, <2>5
    <2>7. TypeOK /\ created' \in Nat /\ created <= created'
      BY <1>1 DEF Inv, TypeOK
    <2>8. Consistent(e)'
      BY <1>2, <2>6, <2>7, StaysConsistent
    <2> QED
      BY <2>6, <2>8 DEF Consistent, Knows, Shown, HasSession
  <1>4. chat' \in [Browsers -> Chat]
    BY <1>3 DEF Restart
  <1> QED
    BY <1>1, <1>2, <1>3, <1>4 DEF Inv, TypeOK, Pinned

-----------------------------------------------------------------------------
\* Whatever the users, the requests and the server do, a browser of the app
\* that holds a session which no ended script tore knows what it is about
\* (app.py's session_id and last_repo), and asks it about nothing else.
THEOREM ChatInvariant == Spec => []Inv
  <1>1. Init => Inv
    BY InvInit
  <1>2. Inv /\ [Next]_vars => Inv'
    <2> SUFFICES ASSUME Inv, [Next]_vars PROVE Inv'
      OBVIOUS
    <2>1. ASSUME NEW b \in Browsers, User(b) \/ Script(b) \/ Server(b)
          PROVE  Inv'
      BY <2>1, UserStep, ScriptStep, ServerStep
    <2>2. ASSUME NEW q \in stray, StrayEnds(q) PROVE Inv'
      BY <2>2, StrayStep
    <2>3. CASE Restart
      BY <2>3, RestartStep
    <2>4. CASE UNCHANGED vars
      BY <2>4 DEF vars, Inv, TypeOK, Consistent, Knows, Shown, HasSession, Pinned
    <2> QED
      BY <2>1, <2>2, <2>3, <2>4 DEF Next
  <1> QED
    BY <1>1, <1>2, PTL DEF Spec

\* The types of the conversation, the length of the history in a prompt
\* included (endpoints.py, session.history[-5:]).
THEOREM ChatTypeCorrect == Spec => []TypeOK
  <1>1. Inv => TypeOK
    BY DEF Inv
  <1> QED
    BY <1>1, ChatInvariant, PTL

\* An answer on the app's screen is about the repository that was in the field
\* when its question was asked, unless a script was ended between the
\* assignments of the session's id and of its repository (app.py, 762-764).
THEOREM ChatOnlyTornSessionsMislead == Spec => []OnlyTornSessionsMislead
  <1>1. Inv => OnlyTornSessionsMislead
    BY DEF Inv, Consistent, Shown, OnlyTornSessionsMislead
  <1> QED
    BY <1>1, ChatInvariant, PTL

-----------------------------------------------------------------------------
(* A question is answered once.  Until its answer enters a history it is in  *)
(* one place: in the script of one browser, or left behind and served still. *)

InHistory(q) ==
    \E s \in SessionIds : \E i \in 1 .. Len(sessions[s].history) : sessions[s].history[i] = q

\* The question of the script may have been answered: the script ends with its reply.
Done(c) == c.phase \in {"ask", "reask"} /\ c.stage = "replied" /\ c.reply \in {"answer", "offline"}

Busy(b) == chat[b].phase # "idle"

\* The questions are numbered up to asked.
Numbered ==
    /\ \A s \in SessionIds : \A i \in 1 .. Len(sessions[s].history) : sessions[s].history[i] <= asked
    /\ \A q \in stray : q.question <= asked
    /\ \A b \in Browsers : chat[b].question <= asked

OnePlace ==
    /\ \A b, c \in Browsers : Busy(b) /\ Busy(c) /\ chat[b].question = chat[c].question => b = c
    /\ \A q, r \in stray : q.question = r.question => q = r
    /\ \A q \in stray : ~InHistory(q.question)
    /\ \A q \in stray, b \in Browsers : Busy(b) => chat[b].question # q.question
    /\ \A b \in Browsers : Busy(b) /\ ~Done(chat[b]) => ~InHistory(chat[b].question)

OnceInv == Inv /\ Numbered /\ OnePlace /\ NoAnswerTwice

LEMMA Numbers ==
    ASSUME Inv
    PROVE  /\ asked \in Nat /\ \A b \in Browsers : chat[b].question \in Nat
           /\ \A q \in stray : q.question \in Nat
           /\ \A s \in SessionIds : sessions[s].history \in Seq(Nat)
  BY ChatAssumption DEF Inv, TypeOK, Chat, Stray, Session

\* Steps that change one browser and lose histories at most.
LEMMA BrowserOnce ==
    ASSUME OnceInv, Inv', NEW b \in Browsers, NEW d, chat' = [chat EXCEPT ![b] = d],
           asked' = asked, d.question \in {0, chat[b].question},
           d.phase # "idle" =>
             /\ Busy(b) /\ d.question = chat[b].question /\ (Done(chat[b]) => Done(d))
             /\ stray' = stray,
           stray' \subseteq stray \cup Left(chat[b]),
           \A s \in SessionIds : sessions'[s].history \in {sessions[s].history, << >>}
    PROVE  OnceInv'
  <1>1. \A q : InHistory(q)' => InHistory(q)
    <2>1. Len(<< >>) = 0 /\ 1 .. 0 = {}
      OBVIOUS
    <2> QED
      BY <2>1 DEF InHistory
  <1>2. /\ asked \in Nat /\ chat'[b] = d /\ \A c \in Browsers \ {b} : chat'[c] = chat[c]
        /\ \A c \in Browsers : chat[c].question \in Nat
    BY Numbers DEF OnceInv, Inv, TypeOK
  <1>3. \A q \in stray' : \/ q \in stray
                          \/ /\ q.question = chat[b].question /\ Busy(b) /\ ~Done(chat[b])
                             /\ q = [session |-> chat[b].session, question |-> chat[b].question]
                             /\ d.phase = "idle"
    BY DEF Left, Done, Busy
  <1>4. Numbered'
    <2>1. ASSUME NEW s \in SessionIds, NEW i \in 1 .. Len(sessions'[s].history)
          PROVE  sessions'[s].history[i] <= asked
      <3>1. sessions'[s].history = sessions[s].history
        <4>1. Len(<< >>) = 0 /\ 1 .. 0 = {}
          OBVIOUS
        <4> QED
          BY <4>1
      <3> QED
        BY <3>1 DEF OnceInv, Numbered
    <2>2. \A q \in stray' : q.question <= asked
      BY <1>3 DEF OnceInv, Numbered
    <2>3. \A c \in Browsers : chat'[c].question <= asked
      BY <1>2 DEF OnceInv, Numbered
    <2> QED
      BY <2>1, <2>2, <2>3 DEF Numbered
  <1>5. OnePlace'
    <2>1. \A c \in Browsers : Busy(c)' => Busy(c) /\ chat'[c].question = chat[c].question
      BY <1>2 DEF Busy
    <2>2. \A c, e \in Browsers : Busy(c)' /\ Busy(e)' /\ chat'[c].question = chat'[e].question => c = e
      BY <2>1 DEF OnceInv, OnePlace
    <2>3. \A q, r \in stray' : q.question = r.question => q = r
      BY <1>3 DEF OnceInv, OnePlace
    <2>4. \A q \in stray' : ~InHistory(q.question)
      BY <1>3 DEF OnceInv, OnePlace
    <2>5. ASSUME NEW q \in stray', NEW c \in Browsers, Busy(c)' PROVE chat'[c].question # q.question
      <3>1. Busy(c) /\ chat'[c].question = chat[c].question
        BY <2>1, <2>5
      <3>2. CASE q \in stray
        BY <3>1, <3>2 DEF OnceInv, OnePlace
      <3>3. CASE q \notin stray
        <4>1. q.question = chat[b].question /\ Busy(b) /\ d.phase = "idle"
          BY <1>3, <3>3
        <4>2. c # b
          BY <1>2, <2>5, <4>1 DEF Busy
        <4> QED
          BY <3>1, <4>1, <4>2 DEF OnceInv, OnePlace
      <3> QED
        BY <3>2, <3>3
    <2>6. ASSUME NEW c \in Browsers, Busy(c)', ~Done(chat'[c]) PROVE ~InHistory(chat'[c].question)
      <3>1. Busy(c) /\ chat'[c].question = chat[c].question /\ ~Done(chat[c])
        BY <1>2, <2>1, <2>6 DEF Busy
      <3> QED
        BY <3>1 DEF OnceInv, OnePlace
    <2>7. \A q \in stray' : ~InHistory(q.question)'
      BY <1>1, <2>4
    <2>8. \A c \in Browsers : Busy(c)' /\ ~Done(chat[c])' => ~InHistory(chat[c].question)'
      <3>1. \A c \in Browsers : Done(chat[c])' <=> Done(chat'[c])
        BY DEF Done
      <3>2. \A c \in Browsers : InHistory(chat[c].question)' => InHistory(chat'[c].question)
        <4>1. Len(<< >>) = 0 /\ 1 .. 0 = {}
          OBVIOUS
        <4> QED
          BY <4>1 DEF InHistory
      <3> QED
        BY <2>6, <3>1, <3>2
    <2> QED
      BY <2>2, <2>3, <2>5, <2>7, <2>8 DEF OnePlace
  <1>6. NoAnswerTwice'
    <2> SUFFICES ASSUME NEW s \in SessionIds, NEW t \in SessionIds,
                        NEW i \in 1 .. Len(sessions'[s].history), NEW j \in 1 .. Len(sessions'[t].history),
                        sessions'[s].history[i] = sessions'[t].history[j]
                 PROVE  s = t /\ i = j
      BY DEF NoAnswerTwice
    <2>1. Len(<< >>) = 0 /\ 1 .. 0 = {}
      OBVIOUS
    <2>2. sessions'[s].history = sessions[s].history /\ sessions'[t].history = sessions[t].history
      BY <2>1
    <2> QED
      BY <2>2 DEF OnceInv, NoAnswerTwice
  <1> QED
    BY <1>4, <1>5, <1>6 DEF OnceInv

\* A question that is in no history enters one.
LEMMA AppendedOnce ==
    ASSUME OnceInv, NEW s \in SessionIds, NEW q \in Nat, q <= asked, ~InHistory(q),
           sessions' = Appended(s, q)
    PROVE  /\ NoAnswerTwice'
           /\ \A r : InHistory(r)' => InHistory(r) \/ r = q
           /\ \A t \in SessionIds : \A i \in 1 .. Len(sessions'[t].history) : sessions'[t].history[i] <= asked
  <1>1. /\ sessions \in [SessionIds -> Session]
        /\ \A t \in SessionIds : sessions[t].history \in Seq(Nat)
    BY Numbers DEF OnceInv, Inv, TypeOK
  <1> DEFINE h == sessions[s].history
  <1>2. sessions'[s].history = Append(h, q) /\ \A t \in SessionIds \ {s} : sessions'[t] = sessions[t]
    BY <1>1 DEF Appended, Session
  <1>3. h \in Seq(Nat) /\ Len(h) \in Nat
    BY <1>1
  <1>4. /\ Len(Append(h, q)) = Len(h) + 1 /\ Append(h, q)[Len(h) + 1] = q
        /\ \A i \in 1 .. Len(h) : Append(h, q)[i] = h[i]
    BY <1>3
  <1> HIDE DEF h
  <1>5. ASSUME NEW t \in SessionIds, NEW i \in 1 .. Len(sessions'[t].history)
        PROVE  \/ i \in 1 .. Len(sessions[t].history) /\ sessions'[t].history[i] = sessions[t].history[i]
               \/ t = s /\ i = Len(h) + 1 /\ sessions'[t].history[i] = q
    <2>1. CASE t # s
      BY <1>2, <2>1
    <2>2. CASE t = s
      <3>1. i \in 1 .. Len(h) \/ i = Len(h) + 1
        BY <1>2, <1>3, <1>4, <2>2
      <3> QED
        BY <1>2, <1>4, <2>2, <3>1 DEF h
    <2> QED
      BY <2>1, <2>2
  <1>6. ASSUME NEW r, NEW t \in SessionIds, NEW i \in 1 .. Len(sessions'[t].history),
               sessions'[t].history[i] = r
        PROVE  InHistory(r) \/ r = q
    BY <1>5, <1>6 DEF InHistory
  <1>7. NoAnswerTwice'
    <2> SUFFICES ASSUME NEW t \in SessionIds, NEW u \in SessionIds,
                        NEW i \in 1 .. Len(sessions'[t].history), NEW j \in 1 .. Len(sessions'[u].history),
                        sessions'[t].history[i] = sessions'[u].history[j]
                 PROVE  t = u /\ i = j
      BY DEF NoAnswerTwice
    <2>1. \A v \in SessionIds : \A k \in 1 .. Len(sessions[v].history) : sessions[v].history[k] # q
      BY DEF InHistory
    <2>2. CASE sessions'[t].history[i] = q
      <3>1. t = s /\ i = Len(h) + 1
        <4>1. \/ /\ i \in 1 .. Len(sessions[t].history)
                 /\ sessions'[t].history[i] = sessions[t].history[i]
              \/ t = s /\ i = Len(h) + 1
          BY <1>5
        <4>2. sessions'[t].history[i] = q
          BY <2>2
        <4> QED
          BY <2>1, <4>1, <4>2
      <3>2. u = s /\ j = Len(h) + 1
        <4>1. \/ /\ j \in 1 .. Len(sessions[u].history)
                 /\ sessions'[u].history[j] = sessions[u].history[j]
              \/ u = s /\ j = Len(h) + 1
          BY <1>5
        <4>2. sessions'[u].history[j] = q
          BY <2>2
        <4> QED
          BY <2>1, <4>1, <4>2
      <3> QED
        BY <3>1, <3>2
    <2>3. CASE sessions'[t].history[i] # q
      <3>1. i \in 1 .. Len(sessions[t].history) /\ sessions'[t].history[i] = sessions[t].history[i]
        BY <1>5, <2>3
      <3>2. j \in 1 .. Len(sessions[u].history) /\ sessions'[u].history[j] = sessions[u].history[j]
        BY <1>5, <2>3
      <3>3. sessions[t].history[i] = sessions[u].history[j]
        BY <3>1, <3>2
      <3>4. \A v, w \in SessionIds :
              \A k \in 1 .. Len(sessions[v].history), l \in 1 .. Len(sessions[w].history) :
                sessions[v].history[k] = sessions[w].history[l] => v = w /\ k = l
        BY DEF OnceInv, NoAnswerTwice
      <3> QED
        BY <3>1, <3>2, <3>3, <3>4
    <2> QED
      BY <2>2, <2>3
  <1>8. ASSUME NEW r, InHistory(r)' PROVE InHistory(r) \/ r = q
    <2>1. PICK t \in SessionIds : \E i \in 1 .. Len(sessions'[t].history) : sessions'[t].history[i] = r
      BY <1>8 DEF InHistory
    <2>2. PICK i \in 1 .. Len(sessions'[t].history) : sessions'[t].history[i] = r
      BY <2>1
    <2> QED
      BY <1>6, <2>2
  <1>9. \A t \in SessionIds : \A i \in 1 .. Len(sessions'[t].history) : sessions'[t].history[i] <= asked
    BY <1>5 DEF OnceInv, Numbered
  <1> QED
    BY <1>7, <1>8, <1>9

\* What the script does to the fields that matter here.
LEMMA GoQuestion ==
    ASSUME NEW c \in Chat, NEW phase \in Phases
    PROVE  /\ Go(c, phase).phase = phase
           /\ Go(c, phase).question = IF phase = "idle" THEN 0 ELSE c.question
  BY DEF Go, Chat

LEMMA NotedKeeps ==
    ASSUME NEW c \in Chat, NEW reply
    PROVE  Noted(c, reply).question = c.question /\ Noted(c, reply).repo = c.repo
  <1>1. CASE c.phase \in Notes
    BY <1>1 DEF Noted, Chat
  <1>2. CASE c.phase \notin Notes /\ reply = "created"
    BY <1>2 DEF Noted, Chat
  <1>3. CASE c.phase \notin Notes /\ reply = "notfound"
    BY <1>3, UnloadedFields DEF Noted
  <1>4. CASE c.phase \notin Notes /\ reply = "answer"
    BY <1>4 DEF Noted, Chat
  <1>5. CASE c.phase \notin Notes /\ reply \notin {"created", "notfound", "answer"}
    BY <1>5 DEF Noted
  <1> QED
    BY <1>1, <1>2, <1>3, <1>4, <1>5

LEMMA ScriptOnce ==
    ASSUME OnceInv, Inv', NEW b \in Browsers, Script(b)
    PROVE  OnceInv'
  <1> DEFINE c == chat[b]
  <1>1. c \in Chat /\ Busy(b)
    BY DEF OnceInv, Inv, TypeOK, Script, Receive, Timeout, In, Busy
  <1>2. \A reply \in Replies : After(c, reply) \in Phases
    BY <1>1 DEF After, Phases, Notes, Chat
  <1>3. c.reply \in Replies /\ "error" \in Replies
    BY <1>1 DEF Chat, Replies
  <1>4. \A reply \in {"answer", "offline", "error"} :
          c.phase \in {"ask", "reask"} => After(c, reply) = "idle"
    BY DEF After
  <1>5. CASE Receive(b)
    <2>1. PICK d : d = Go(Noted(c, c.reply), After(c, c.reply))
      OBVIOUS
    <2>2. Noted(c, c.reply) \in Chat
      BY <1>1, NotedLasting DEF OnceInv, Busy
    <2>3. /\ d.phase = After(c, c.reply)
          /\ d.question = IF d.phase = "idle" THEN 0 ELSE c.question
      BY <1>1, <1>2, <1>3, <2>1, <2>2, GoQuestion, NotedKeeps
    <2>4. Done(c) => d.phase = "idle"
      BY <1>4, <2>3 DEF Done
    <2>5. chat' = [chat EXCEPT ![b] = d] /\ UNCHANGED <<sessions, stray, asked>>
      BY <1>5, <2>1 DEF Receive
    <2> QED
      BY <1>1, <2>3, <2>4, <2>5, BrowserOnce
  <1>6. CASE Timeout(b)
    <2>1. PICK d : d = Go(c, After(c, "error"))
      OBVIOUS
    <2>2. /\ d.phase = After(c, "error")
          /\ d.question = IF d.phase = "idle" THEN 0 ELSE c.question
      BY <1>1, <1>2, <1>3, <2>1, GoQuestion
    <2>3. chat' = [chat EXCEPT ![b] = d] /\ UNCHANGED <<sessions, asked>> /\ stray' = stray \cup Left(c)
      <3>1. chat' = [chat EXCEPT ![b] = Go(chat[b], After(chat[b], "error"))]
        BY <1>6 DEF Timeout, OnceInv, Inv, TypeOK
      <3> QED
        BY <1>6, <2>1, <3>1 DEF Timeout
    <2>4. d.phase # "idle" => Left(c) = {} /\ ~Done(c)
      BY <1>4, <2>2 DEF Left, Done
    <2> QED
      BY <1>1, <2>2, <2>3, <2>4, BrowserOnce
  <1> QED
    BY <1>5, <1>6 DEF Script

LEMMA UserOnce ==
    ASSUME OnceInv, Inv', NEW b \in Browsers, User(b)
    PROVE  OnceInv'
  <1> DEFINE c == chat[b]
  <1>1. c \in Chat /\ chat \in [Browsers -> Chat]
    BY DEF OnceInv, Inv, TypeOK
  <1>2. ASSUME NEW r \in Repos \cup {NoRepo}, TypeRepo(b, r) PROVE OnceInv'
    <2>1. PICK d : d = [c EXCEPT !.repo = r]
      OBVIOUS
    <2>2. d.phase = "idle" /\ d.question = c.question
      BY <1>1, <1>2, <2>1 DEF TypeRepo, In, Chat
    <2>3. chat' = [chat EXCEPT ![b] = d] /\ UNCHANGED <<sessions, stray, asked>>
      BY <1>1, <1>2, <2>1 DEF TypeRepo
    <2> QED
      BY <2>2, <2>3, BrowserOnce
  <1>3. CASE Clear(b)
    <2>1. PICK d \in Cleared(c) : chat' = [chat EXCEPT ![b] = d]
      BY <1>3 DEF Clear
    <2>2. d.phase = "idle" /\ d.question = c.question
      BY <1>1, <1>3, ClearedFields DEF Trimmed, Clear, In
    <2>3. UNCHANGED <<sessions, stray, asked>>
      BY <1>3 DEF Clear
    <2> QED
      BY <2>1, <2>2, <2>3, BrowserOnce
  <1>4. CASE Interrupt(b)
    <2>1. PICK d : d = Go(Stopped(c), "idle")
      OBVIOUS
    <2>2. d.phase = "idle" /\ d.question = 0
      BY <1>1, <2>1, StoppedFields, GoQuestion DEF Phases
    <2>3. chat' = [chat EXCEPT ![b] = d] /\ UNCHANGED <<sessions, asked>> /\ stray' = stray \cup Left(c)
      BY <1>1, <1>4, <2>1 DEF Interrupt
    <2> QED
      BY <2>2, <2>3, BrowserOnce
  <1>5. CASE Ask(b)
    <2>1. PICK phase \in {"ask", "create", "stream"} :
            chat' = [chat EXCEPT ![b] = Go([c EXCEPT !.question = asked + 1], phase)]
      BY <1>1, <1>5 DEF Ask
    <2>2. PICK d : d = Go([c EXCEPT !.question = asked + 1], phase)
      OBVIOUS
    <2>3. asked \in Nat /\ asked' = asked + 1 /\ UNCHANGED <<sessions, stray>> /\ c.phase = "idle"
      BY <1>5, Numbers DEF Ask, OnceInv, In
    <2>4. [c EXCEPT !.question = asked + 1] \in Chat /\ [c EXCEPT !.question = asked + 1].question = asked + 1
      <3>1. asked + 1 \in Nat
        BY <2>3
      <3>2. \A n \in Nat : [c EXCEPT !.question = n] \in Chat /\ [c EXCEPT !.question = n].question = n
        BY <1>1 DEF Chat
      <3> QED
        BY <3>1, <3>2
    <2>5. d.phase = phase /\ d.question = asked + 1
      BY <2>2, <2>4, GoQuestion DEF Phases
    <2>6. chat'[b] = d /\ \A e \in Browsers \ {b} : chat'[e] = chat[e]
      BY <1>1, <2>1, <2>2
    <2>7. /\ \A s \in SessionIds : \A i \in 1 .. Len(sessions[s].history) :
                sessions[s].history[i] \in Nat /\ sessions[s].history[i] < asked'
          /\ \A q \in stray : q.question < asked'
          /\ \A e \in Browsers : chat[e].question < asked'
      <3>1. \A s \in SessionIds : \A i \in 1 .. Len(sessions[s].history) : sessions[s].history[i] \in Nat
        BY Numbers DEF OnceInv
      <3> QED
        BY <2>3, <3>1, Numbers DEF OnceInv, Numbered
    <2>8. \A q : InHistory(q)' <=> InHistory(q)
      BY <2>3 DEF InHistory
    <2>9. ~InHistory(asked')
      BY <2>3, <2>7 DEF InHistory
    <2>10. Numbered'
      BY <2>3, <2>5, <2>6, <2>7, Numbers DEF Numbered, OnceInv
    <2>11. /\ \A e, f \in Browsers : Busy(e)' /\ Busy(f)' /\ chat'[e].question = chat'[f].question => e = f
           /\ \A q \in stray', e \in Browsers : Busy(e)' => chat'[e].question # q.question
      <3>1. chat'[b].question = asked' /\ \A e \in Browsers \ {b} : Busy(e)' <=> Busy(e)
        BY <2>3, <2>5, <2>6 DEF Busy
      <3>2. \A e \in Browsers \ {b} : chat'[e].question # asked'
        BY <2>3, <2>6, <2>7, Numbers DEF OnceInv
      <3>3. \A q \in stray' : q.question # asked'
        BY <2>3, <2>7, Numbers DEF OnceInv
      <3> QED
        BY <2>3, <2>6, <3>1, <3>2, <3>3 DEF OnceInv, OnePlace
    <2>12. ASSUME NEW e \in Browsers, Busy(e)', ~Done(chat'[e]) PROVE ~InHistory(chat'[e].question)
      <3>1. CASE e = b
        BY <2>3, <2>5, <2>6, <2>9, <3>1
      <3>2. CASE e # b
        BY <2>6, <2>12, <3>2 DEF OnceInv, OnePlace, Busy
      <3> QED
        BY <3>1, <3>2
    <2>13. OnePlace'
      <3>1. \A q \in stray' : ~InHistory(q.question)'
        BY <2>3 DEF OnceInv, OnePlace, InHistory
      <3>2. \A e \in Browsers : Busy(e)' /\ ~Done(chat[e])' => ~InHistory(chat[e].question)'
        BY <2>3, <2>12 DEF Done, InHistory
      <3> QED
        BY <2>3, <2>11, <3>1, <3>2 DEF OnceInv, OnePlace
    <2>14. NoAnswerTwice'
      BY <2>3 DEF OnceInv, NoAnswerTwice
    <2> QED
      BY <2>10, <2>13, <2>14 DEF OnceInv
  <1> QED
    BY <1>2, <1>3, <1>4, <1>5 DEF User

\* The server moves the request of one browser on, and may answer it.
LEMMA ServedOnce ==
    ASSUME OnceInv, Inv', NEW b \in Browsers, NEW d, chat' = [chat EXCEPT ![b] = d],
           Busy(b), chat[b].stage # "replied", d.phase = chat[b].phase, d.question = chat[b].question,
           asked' = asked, stray' = stray,
           \A s \in SessionIds : sessions'[s].history \in {sessions[s].history, << >>}
    PROVE  OnceInv'
  BY BrowserOnce DEF Done

LEMMA ServerOnce ==
    ASSUME OnceInv, Inv', NEW b \in Browsers, Server(b)
    PROVE  OnceInv'
  <1> DEFINE c == chat[b]
  <1>1. c \in Chat /\ chat \in [Browsers -> Chat] /\ sessions \in [SessionIds -> Session]
    BY DEF OnceInv, Inv, TypeOK
  <1>2. ASSUME NEW stage, NEW seen, NEW reply, NEW new,
               chat' = [chat EXCEPT ![b] = [c EXCEPT !.stage = stage, !.seen = seen, !.reply = reply, !.new = new]],
               Busy(b), c.stage # "replied", asked' = asked, stray' = stray,
               \A s \in SessionIds : sessions'[s].history \in {sessions[s].history, << >>}
        PROVE  OnceInv'
    <2>1. PICK d : d = [c EXCEPT !.stage = stage, !.seen = seen, !.reply = reply, !.new = new]
      OBVIOUS
    <2>2. d.phase = c.phase /\ d.question = c.question
      BY <1>1, <2>1 DEF Chat
    <2> QED
      BY <1>2, <2>1, <2>2, ServedOnce
  <1>3. CASE CreateSession(b)
    <2>1. chat' = [chat EXCEPT ![b] = [c EXCEPT !.stage = "replied", !.seen = c.seen, !.reply = "created",
                                                !.new = created']]
      BY <1>1, <1>3 DEF CreateSession, Chat
    <2>2. \A s \in SessionIds : sessions'[s].history \in {sessions[s].history, << >>}
      BY <1>1, <1>3 DEF CreateSession
    <2>3. Busy(b) /\ c.stage # "replied" /\ asked' = asked /\ stray' = stray
      BY <1>3 DEF CreateSession, At, In, Busy
    <2> QED
      BY <1>2, <2>1, <2>2, <2>3
  <1>4. CASE SessionQA(b)
    <2>1. \/ chat' = [chat EXCEPT ![b] = [c EXCEPT !.stage = "llm",
                         !.seen = LastTurns(sessions[c.session].history), !.reply = c.reply, !.new = c.new]]
          \/ chat' = [chat EXCEPT ![b] = [c EXCEPT !.stage = "replied", !.seen = c.seen,
                         !.reply = "notfound", !.new = c.new]]
      BY <1>1, <1>4 DEF SessionQA, Chat
    <2>2. Busy(b) /\ c.stage # "replied" /\ asked' = asked /\ stray' = stray /\ sessions' = sessions
      BY <1>4 DEF SessionQA, At, In, Busy
    <2> QED
      BY <1>2, <2>1, <2>2
  <1>5. CASE Answer(b)
    <2>1. \/ chat' = [chat EXCEPT ![b] = [c EXCEPT !.stage = "append", !.seen = c.seen,
                         !.reply = c.reply, !.new = c.new]]
          \/ chat' = [chat EXCEPT ![b] = [c EXCEPT !.stage = "replied", !.seen = c.seen,
                         !.reply = "offline", !.new = c.new]]
      BY <1>1, <1>5 DEF Answer, Chat
    <2>2. Busy(b) /\ c.stage # "replied" /\ asked' = asked /\ stray' = stray /\ sessions' = sessions
      BY <1>5 DEF Answer, At, In, Busy
    <2> QED
      BY <1>2, <2>1, <2>2
  <1>6. CASE Stream(b) \/ Fail(b)
    <2>1. \E reply : chat' = [chat EXCEPT ![b] = [c EXCEPT !.stage = "replied", !.seen = c.seen,
                                                        !.reply = reply, !.new = c.new]]
      <3>1. \A reply : [chat EXCEPT ![b].stage = "replied", ![b].reply = reply]
                        = [chat EXCEPT ![b] = [c EXCEPT !.stage = "replied", !.seen = c.seen,
                                                        !.reply = reply, !.new = c.new]]
        BY <1>1 DEF Chat
      <3> QED
        BY <1>6, <3>1 DEF Stream, Fail
    <2>2. Busy(b) /\ c.stage # "replied" /\ asked' = asked /\ stray' = stray /\ sessions' = sessions
      BY <1>6 DEF Stream, Fail, At, In, Busy
    <2> QED
      BY <1>2, <2>1, <2>2
  <1>7. CASE AppendHistory(b)
    <2>1. PICK reply \in {"answer", "offline"} :
            chat' = [chat EXCEPT ![b].stage = "replied", ![b].reply = reply]
      BY <1>7 DEF AppendHistory
    <2>2. PICK d : d = [c EXCEPT !.stage = "replied", !.reply = reply]
      OBVIOUS
    <2>3. /\ d.phase = c.phase /\ d.question = c.question /\ d.stage = "replied" /\ d.reply = reply
          /\ chat'[b] = d /\ \A e \in Browsers \ {b} : chat'[e] = chat[e]
      BY <1>1, <2>1, <2>2 DEF Chat
    <2>4. /\ c.phase \in {"ask", "reask"} /\ c.stage = "append" /\ Busy(b)
          /\ sessions' = Appended(c.session, c.question) /\ asked' = asked /\ stray' = stray
      BY <1>7 DEF AppendHistory, At, In, Busy
    <2>5. c.session \in SessionIds /\ c.question \in Nat /\ c.question <= asked
      <3>1. HasSession(c) /\ c.session \in {0} \cup SessionIds
        BY <1>1, <2>4 DEF OnceInv, Inv, Consistent, Chat
      <3> QED
        BY <3>1, Numbers DEF OnceInv, Numbered, HasSession
    <2>6. ~InHistory(c.question)
      BY <2>4 DEF OnceInv, OnePlace, Done
    <2>7. /\ NoAnswerTwice'
          /\ \A r : InHistory(r)' => InHistory(r) \/ r = c.question
          /\ \A t \in SessionIds : \A i \in 1 .. Len(sessions'[t].history) : sessions'[t].history[i] <= asked
      BY <2>4, <2>5, <2>6, AppendedOnce
    <2>8. Numbered'
      BY <2>3, <2>4, <2>7 DEF OnceInv, Numbered
    <2>9. \A e \in Browsers : (Busy(e)' <=> Busy(e)) /\ chat'[e].question = chat[e].question
      BY <2>3 DEF Busy
    <2>10. Done(d)
      BY <2>3, <2>4 DEF Done
    <2>11. ASSUME NEW e \in Browsers, Busy(e)', ~Done(chat'[e]) PROVE ~InHistory(chat[e].question)'
      <3>1. e # b
        BY <2>3, <2>10, <2>11
      <3>2. ~InHistory(chat[e].question) /\ chat[e].question # c.question /\ chat'[e] = chat[e]
        BY <2>3, <2>4, <2>9, <2>11, <3>1 DEF OnceInv, OnePlace
      <3> QED
        BY <2>7, <3>2
    <2>12. \A q \in stray' : ~InHistory(q.question)'
      BY <2>4, <2>7 DEF OnceInv, OnePlace
    <2>13. \A e \in Browsers : Done(chat[e])' <=> Done(chat'[e])
      BY DEF Done
    <2>14. OnePlace'
      BY <2>4, <2>9, <2>11, <2>12, <2>13 DEF OnceInv, OnePlace
    <2> QED
      BY <2>7, <2>8, <2>14 DEF OnceInv
  <1> QED
    BY <1>3, <1>4, <1>5, <1>6, <1>7 DEF Server

LEMMA StrayOnce ==
    ASSUME OnceInv, Inv', NEW q \in stray, StrayEnds(q)
    PROVE  OnceInv'
  <1>1. /\ stray' = stray \ {q} /\ chat' = chat /\ asked' = asked
        /\ q.session \in SessionIds /\ q.question \in Nat /\ q.question <= asked /\ ~InHistory(q.question)
    BY DEF StrayEnds, OnceInv, Inv, TypeOK, Stray, Numbered, OnePlace
  <1>2. CASE UNCHANGED sessions
    BY <1>1, <1>2 DEF OnceInv, Numbered, OnePlace, NoAnswerTwice, InHistory, Busy, Done
  <1>3. CASE sessions' = Appended(q.session, q.question)
    <2>1. /\ NoAnswerTwice'
          /\ \A r : InHistory(r)' => InHistory(r) \/ r = q.question
          /\ \A t \in SessionIds : \A i \in 1 .. Len(sessions'[t].history) : sessions'[t].history[i] <= asked
      BY <1>1, <1>3, AppendedOnce
    <2>2. Numbered'
      BY <1>1, <2>1 DEF OnceInv, Numbered
    <2>3. \A r \in stray' : ~InHistory(r.question)'
      BY <1>1, <2>1 DEF OnceInv, OnePlace
    <2>4. ASSUME NEW e \in Browsers, Busy(e)', ~Done(chat[e])' PROVE ~InHistory(chat[e].question)'
      <3>1. Busy(e) /\ ~Done(chat[e]) /\ chat[e].question # q.question
        BY <1>1, <2>4 DEF OnceInv, OnePlace, Busy, Done
      <3>2. ~InHistory(chat[e].question)
        BY <3>1 DEF OnceInv, OnePlace
      <3> QED
        BY <1>1, <2>1, <3>1, <3>2
    <2>5. OnePlace'
      BY <1>1, <2>3, <2>4 DEF OnceInv, OnePlace, Busy
    <2> QED
      BY <2>1, <2>2, <2>5 DEF OnceInv
  <1> QED
    BY <1>2, <1>3 DEF StrayEnds

LEMMA RestartOnce ==
    ASSUME OnceInv, Inv', Restart
    PROVE  OnceInv'
  <1>1. stray' = {} /\ asked' = asked
    BY DEF Restart
  <1>2. \A s \in SessionIds : sessions'[s].history = sessions[s].history
    BY DEF Restart, OnceInv, Inv, TypeOK, Session
  <1>3. ASSUME NEW e \in Browsers
        PROVE  /\ Busy(e)' <=> Busy(e)
               /\ chat'[e].question = chat[e].question
               /\ Busy(e) /\ ~Done(chat'[e]) => ~Done(chat[e])
    <2>1. chat[e] \in Chat
      BY DEF OnceInv, Inv, TypeOK
    <2>2. CASE chat'[e] = chat[e]
      BY <2>2 DEF Busy
    <2>3. CASE /\ chat'[e] = [chat[e] EXCEPT !.stage = "replied", !.reply = "error"]
               /\ chat[e].stage # "replied"
      BY <2>1, <2>3 DEF Busy, Done, Chat
    <2> QED
      BY <2>2, <2>3 DEF Restart
  <1>4. /\ \A q : InHistory(q)' <=> InHistory(q)
        /\ NoAnswerTwice'
    <2>1. \A q : InHistory(q)' <=> InHistory(q)
      BY <1>2 DEF InHistory
    <2>2. NoAnswerTwice'
      <3> SUFFICES ASSUME NEW s \in SessionIds, NEW t \in SessionIds,
                          NEW i \in 1 .. Len(sessions'[s].history), NEW j \in 1 .. Len(sessions'[t].history),
                          sessions'[s].history[i] = sessions'[t].history[j]
                   PROVE  s = t /\ i = j
        BY DEF NoAnswerTwice
      <3>1. sessions'[s].history = sessions[s].history /\ sessions'[t].history = sessions[t].history
        BY <1>2
      <3> QED
        BY <3>1 DEF OnceInv, NoAnswerTwice
    <2> QED
      BY <2>1, <2>2
  <1>5. Numbered'
    BY <1>1, <1>2, <1>3 DEF OnceInv, Numbered
  <1>6. \A e \in Browsers : Busy(e)' /\ ~Done(chat'[e]) => ~InHistory(chat[e].question)'
    <2>1. \A e \in Browsers : InHistory(chat[e].question)' <=> InHistory(chat'[e].question)
      BY <1>2 DEF InHistory
    <2> QED
      BY <1>3, <2>1 DEF OnceInv, OnePlace
  <1>7. \A e \in Browsers : Done(chat[e])' <=> Done(chat'[e])
    BY DEF Done
  <1>8. OnePlace'
    BY <1>1, <1>3, <1>6, <1>7 DEF OnceInv, OnePlace
  <1> QED
    BY <1>4, <1>5, <1>8 DEF OnceInv

\* A question that was given up and is answered late, or asked again when its session
\* was lost, still enters one history once (endpoints.py, append_history).
THEOREM ChatAnswersOnce == Spec => []NoAnswerTwice
  <1>1. Init => OnceInv
    <2> SUFFICES ASSUME Init PROVE OnceInv
      OBVIOUS
    <2>1. \A b \in Browsers : chat[b].phase = "idle" /\ chat[b].question = 0
      BY DEF Init
    <2>2. \A s \in SessionIds : Len(sessions[s].history) = 0
      BY DEF Init, Unknown
    <2>3. 1 .. 0 = {} /\ stray = {} /\ asked = 0
      BY DEF Init
    <2>4. Numbered
      BY <2>1, <2>2, <2>3 DEF Numbered
    <2>5. OnePlace
      BY <2>1, <2>3 DEF OnePlace, Busy
    <2>6. NoAnswerTwice
      BY <2>2, <2>3 DEF NoAnswerTwice
    <2> QED
      BY <2>4, <2>5, <2>6, InvInit DEF OnceInv
  <1>2. OnceInv /\ Inv' /\ [Next]_vars => OnceInv'
    <2> SUFFICES ASSUME OnceInv, Inv', [Next]_vars PROVE OnceInv'
      OBVIOUS
    <2>1. ASSUME NEW b \in Browsers, User(b) \/ Script(b) \/ Server(b)
          PROVE  OnceInv'
      BY <2>1, UserOnce, ScriptOnce, ServerOnce
    <2>2. ASSUME NEW q \in stray, StrayEnds(q) PROVE OnceInv'
      BY <2>2, StrayOnce
    <2>3. CASE Restart
      BY <2>3, RestartOnce
    <2>4. CASE UNCHANGED vars
      BY <2>4 DEF vars, OnceInv, Numbered, OnePlace, NoAnswerTwice, InHistory, Busy, Done
    <2> QED
      BY <2>1, <2>2, <2>3, <2>4 DEF Next
  <1>3. OnceInv => NoAnswerTwice
    BY DEF OnceInv
  <1> QED
    BY <1>1, <1>2, <1>3, ChatInvariant, PTL DEF Spec

-----------------------------------------------------------------------------
(* A follow-up question sees the chat.  What is on the screen stays in the   *)
(* history of its session, which only grows, and what a prompt was given of  *)
(* that history stays the latest part of it.                                 *)

InSession(s, q) == \E k \in 1 .. Len(sessions[s].history) : sessions[s].history[k] = q

\* The prompt c waits on contains the question q of its session, or is full of later ones.
Sees(c, q) ==
    LET h == sessions[c.session].history
    IN  \E k \in 1 .. Len(h) :
          /\ h[k] = q
          /\ \/ q \in ToSet(c.seen)
             \/ /\ Len(c.seen) = Turns
                /\ \A j \in 1 .. Turns : \E l \in 1 .. Len(h) : h[l] = c.seen[j] /\ k < l

OnScreen(c) ==
    \A i \in 1 .. Len(c.messages) :
      c.messages[i].session # 0 =>
        c.messages[i].session <= created /\ InSession(c.messages[i].session, c.messages[i].question)

FollowsUp(c) ==
    /\ OnScreen(c)
    /\ c.phase \in {"ask", "reask"} /\ c.stage = "replied" /\ c.reply = "answer"
         => InSession(c.session, c.question)
    /\ c.phase \in {"ask", "reask"} /\ c.stage = "llm" =>
         \A i \in 1 .. Len(c.messages) : c.messages[i].session = c.session => Sees(c, c.messages[i].question)

FollowInv == \A b \in Browsers : \A c \in {chat[b]} : FollowsUp(c)

\* The histories of the sessions there are only grow.
Grow ==
    /\ created \in Nat /\ created' \in Nat /\ created <= created'
    /\ \A s \in SessionIds : s <= created =>
         \A k \in 1 .. Len(sessions[s].history) :
           k \in 1 .. Len(sessions'[s].history) /\ sessions'[s].history[k] = sessions[s].history[k]

LEMMA AppendedGrows ==
    ASSUME Inv, NEW s \in SessionIds, NEW q \in Nat, sessions' = Appended(s, q), created' = created
    PROVE  /\ Grow /\ InSession(s, q)'
  <1>1. /\ sessions \in [SessionIds -> Session] /\ created \in Nat
        /\ \A t \in SessionIds : sessions[t].history \in Seq(Nat)
    BY Numbers, ChatAssumption DEF Inv, TypeOK
  <1> DEFINE h == sessions[s].history
  <1>2. sessions'[s].history = Append(h, q) /\ \A t \in SessionIds \ {s} : sessions'[t] = sessions[t]
    BY <1>1 DEF Appended, Session
  <1>3. h \in Seq(Nat) /\ Len(h) \in Nat
    BY <1>1
  <1>4. /\ Len(Append(h, q)) = Len(h) + 1 /\ Append(h, q)[Len(h) + 1] = q
        /\ \A k \in 1 .. Len(h) : k \in 1 .. Len(h) + 1 /\ Append(h, q)[k] = h[k]
    BY <1>3
  <1>5. Len(h) + 1 \in 1 .. Len(sessions'[s].history) /\ sessions'[s].history[Len(h) + 1] = q
    BY <1>2, <1>3, <1>4
  <1>6. InSession(s, q)'
    BY <1>5 DEF InSession
  <1>7. \A k \in 1 .. Len(sessions[s].history) :
          k \in 1 .. Len(sessions'[s].history) /\ sessions'[s].history[k] = sessions[s].history[k]
    BY <1>2, <1>4
  <1>8. Grow
    <2>1. ASSUME NEW t \in SessionIds, NEW k \in 1 .. Len(sessions[t].history)
          PROVE  k \in 1 .. Len(sessions'[t].history) /\ sessions'[t].history[k] = sessions[t].history[k]
      BY <1>2, <1>7
    <2> QED
      BY <1>1, <2>1 DEF Grow
  <1> QED
    BY <1>6, <1>8

\* What a browser was told stays true.
LEMMA FollowsUpStays ==
    ASSUME Grow, NEW c \in Chat, Consistent(c), FollowsUp(c)
    PROVE  FollowsUp(c)'
  <1>1. \A s \in SessionIds : \A q : s <= created /\ InSession(s, q) => InSession(s, q)'
    BY DEF Grow, InSession
  <1>2. c.session \in {0} \cup SessionIds /\ c.session <= created
        /\ (c.phase \in {"ask", "reask"} => c.session # 0)
    BY DEF Chat, Consistent, HasSession
  <1>3. ASSUME NEW q, c.session \in SessionIds, Sees(c, q) PROVE Sees(c, q)'
    <2> DEFINE h == sessions[c.session].history
               g == sessions'[c.session].history
    <2>1. \A k \in 1 .. Len(h) : k \in 1 .. Len(g) /\ g[k] = h[k]
      BY <1>2, <1>3 DEF Grow
    <2>2. PICK k \in 1 .. Len(h) :
            /\ h[k] = q
            /\ \/ q \in ToSet(c.seen)
               \/ /\ Len(c.seen) = Turns
                  /\ \A j \in 1 .. Turns : \E l \in 1 .. Len(h) : h[l] = c.seen[j] /\ k < l
      BY <1>3 DEF Sees
    <2>3. Sees(c, q)' <=> \E m \in 1 .. Len(g) :
            /\ g[m] = q
            /\ \/ q \in ToSet(c.seen)
               \/ /\ Len(c.seen) = Turns
                  /\ \A j \in 1 .. Turns : \E l \in 1 .. Len(g) : g[l] = c.seen[j] /\ m < l
      BY DEF Sees
    <2> HIDE DEF h, g
    <2>4. k \in 1 .. Len(g) /\ g[k] = q
      BY <2>1, <2>2
    <2>5. (\A j \in 1 .. Turns : \E l \in 1 .. Len(h) : h[l] = c.seen[j] /\ k < l)
          => \A j \in 1 .. Turns : \E l \in 1 .. Len(g) : g[l] = c.seen[j] /\ k < l
      BY <2>1
    <2> QED
      BY <2>2, <2>3, <2>4, <2>5
  <1>4. ASSUME NEW i \in 1 .. Len(c.messages), c.messages[i].session # 0
        PROVE  /\ c.messages[i].session <= created'
               /\ InSession(c.messages[i].session, c.messages[i].question)'
    <2>1. c.messages[i] \in Message
      BY DEF Chat
    <2>2. c.messages[i].session \in SessionIds
      BY <1>4, <2>1 DEF Message
    <2>3. /\ c.messages[i].session <= created
          /\ InSession(c.messages[i].session, c.messages[i].question)
      BY <1>4 DEF FollowsUp, OnScreen
    <2>4. c.messages[i].session <= created'
      BY <2>2, <2>3 DEF Grow, SessionIds
    <2> QED
      BY <1>1, <2>2, <2>3, <2>4
  <1>5. OnScreen(c)'
    BY <1>4 DEF OnScreen
  <1> QED
    BY <1>1, <1>2, <1>3, <1>5 DEF FollowsUp

\* A step of one browser, what it shows and sees next being right already.
LEMMA BrowserFollows ==
    ASSUME Inv, FollowInv, Grow, NEW b \in Browsers, NEW d, FollowsUp(d)',
           chat' = [chat EXCEPT ![b] = d]
    PROVE  FollowInv'
  <1>1. chat \in [Browsers -> Chat]
    BY DEF Inv, TypeOK
  <1>2. ASSUME NEW x \in Browsers, NEW c \in {chat'[x]} PROVE FollowsUp(c)'
    <2>1. CASE x = b
      <3>1. c = d
        BY <1>1, <2>1
      <3> QED
        BY <3>1
    <2>2. CASE x # b
      <3>1. c = chat[x] /\ c \in Chat /\ Consistent(c) /\ FollowsUp(c)
        BY <1>1, <2>2 DEF Inv, FollowInv
      <3> QED
        BY <3>1, FollowsUpStays
    <2> QED
      BY <2>1, <2>2
  <1> QED
    BY <1>2 DEF FollowInv

\* The same while neither a reply is read nor a prompt made: the screen stays.
LEMMA ScreenFollows ==
    ASSUME Inv, FollowInv, Grow, NEW b \in Browsers, NEW d,
           chat' = [chat EXCEPT ![b] = d],
           d.messages \in {chat[b].messages, << >>},
           ~(d.phase \in {"ask", "reask"} /\ d.stage = "replied" /\ d.reply = "answer"),
           ~(d.phase \in {"ask", "reask"} /\ d.stage = "llm")
    PROVE  FollowInv'
  <1>1. PICK c \in Chat : c = chat[b] /\ Consistent(c) /\ FollowsUp(c)
    BY DEF Inv, TypeOK, FollowInv
  <1>2. FollowsUp(c)'
    BY <1>1, FollowsUpStays
  <1>3. OnScreen(d)'
    <2>1. CASE d.messages = c.messages
      BY <1>2, <2>1 DEF FollowsUp, OnScreen
    <2>2. CASE d.messages = << >>
      <3>1. 1 .. Len(d.messages) = {}
        BY <2>2
      <3> QED
        BY <3>1 DEF OnScreen
    <2> QED
      BY <1>1, <2>1, <2>2
  <1>4. FollowsUp(d)'
    BY <1>3 DEF FollowsUp
  <1> QED
    BY <1>4, BrowserFollows

LEMMA LastTurnsFacts ==
    ASSUME NEW h \in Seq(Nat)
    PROVE  /\ Len(h) < Turns => LastTurns(h) = h
           /\ Len(h) >= Turns =>
                /\ Len(LastTurns(h)) = Turns
                /\ \A j \in 1 .. Turns : LastTurns(h)[j] = h[(Len(h) - Turns) + j]
  <1>1. Len(h) \in Nat /\ Turns \in Nat /\ Turns > 0
    BY ChatAssumption
  <1>2. CASE Len(h) < Turns
    BY <1>1, <1>2 DEF LastTurns
  <1>3. CASE Len(h) >= Turns
    <2> DEFINE m == Len(h) - Turns + 1
    <2>0. ~(Len(h) < Turns) /\ m \in 1 .. Len(h)
      BY <1>1, <1>3
    <2>1. LastTurns(h) = SubSeq(h, m, Len(h)) /\ m \in 1 .. Len(h)
      <3> HIDE DEF m
      <3>1. LastTurns(h) = SubSeq(h, IF Len(h) < Turns THEN 1 ELSE m, Len(h))
        BY DEF LastTurns, m
      <3> QED
        BY <2>0, <3>1
    <2>2. SubSeq(h, m, Len(h)) = [j \in 1 .. Len(h) - m + 1 |-> h[m + j - 1]]
      BY <1>1, <2>1
    <2>3. Len(h) - m + 1 = Turns
      BY <1>1
    <2>4. \A j \in 1 .. Turns : m + j - 1 = (Len(h) - Turns) + j
      BY <1>1
    <2>5. LastTurns(h) = [j \in 1 .. Turns |-> h[m + j - 1]]
      BY <2>1, <2>2, <2>3
    <2> HIDE DEF m
    <2>6. Len(LastTurns(h)) = Turns
      BY <1>1, <2>5
    <2> QED
      BY <1>1, <1>3, <2>4, <2>5, <2>6
  <1> QED
    BY <1>1, <1>2, <1>3

\* The prompt that is made now sees what is in the history now.
LEMMA PromptSees ==
    ASSUME Inv, NEW c, c.session \in SessionIds, c.seen = LastTurns(sessions[c.session].history),
           NEW q, InSession(c.session, q)
    PROVE  Sees(c, q)
  <1> DEFINE h == sessions[c.session].history
  <1>1. h \in Seq(Nat) /\ Len(h) \in Nat /\ Turns \in Nat
    BY Numbers, ChatAssumption
  <1>2. PICK k \in 1 .. Len(h) : h[k] = q
    BY DEF InSession
  <1>3. Sees(c, q) <=> \E m \in 1 .. Len(h) :
          /\ h[m] = q
          /\ \/ q \in ToSet(c.seen)
             \/ /\ Len(c.seen) = Turns
                /\ \A j \in 1 .. Turns : \E l \in 1 .. Len(h) : h[l] = c.seen[j] /\ m < l
    BY DEF Sees
  <1>4. c.seen = LastTurns(h)
    OBVIOUS
  <1> HIDE DEF h
  <1>5. CASE Len(h) < Turns
    <2>1. q \in ToSet(c.seen)
      BY <1>1, <1>2, <1>4, <1>5, LastTurnsFacts DEF ToSet
    <2> QED
      BY <1>2, <1>3, <2>1
  <1>6. CASE Len(h) >= Turns /\ k > Len(h) - Turns
    <2>1. k - (Len(h) - Turns) \in 1 .. Turns /\ (Len(h) - Turns) + (k - (Len(h) - Turns)) = k
      BY <1>1, <1>6
    <2>2. c.seen[k - (Len(h) - Turns)] = q
      BY <1>1, <1>2, <1>4, <1>6, <2>1, LastTurnsFacts
    <2>3. Len(c.seen) = Turns
      BY <1>1, <1>4, <1>6, LastTurnsFacts
    <2>4. q \in ToSet(c.seen)
      <3>1. c.seen \in Seq(Nat)
        BY <1>1, <1>4, LastTurnsType
      <3> QED
        BY <2>1, <2>2, <2>3, <3>1 DEF ToSet
    <2> QED
      BY <1>2, <1>3, <2>4
  <1>7. CASE Len(h) >= Turns /\ k <= Len(h) - Turns
    <2>1. Len(c.seen) = Turns /\ \A j \in 1 .. Turns : c.seen[j] = h[(Len(h) - Turns) + j]
      BY <1>1, <1>4, <1>7, LastTurnsFacts
    <2>2. ASSUME NEW j \in 1 .. Turns PROVE \E l \in 1 .. Len(h) : h[l] = c.seen[j] /\ k < l
      <3>1. (Len(h) - Turns) + j \in 1 .. Len(h) /\ k < (Len(h) - Turns) + j
        BY <1>1, <1>7
      <3> QED
        BY <2>1, <3>1
    <2> QED
      BY <1>2, <1>3, <2>1, <2>2
  <1> QED
    BY <1>1, <1>5, <1>6, <1>7

LEMMA SameSessionsGrow ==
    ASSUME Inv, UNCHANGED <<sessions, created>>
    PROVE  Grow
  BY ChatAssumption DEF Grow, Inv, TypeOK

LEMMA UserFollows ==
    ASSUME Inv, FollowInv, NEW b \in Browsers, User(b)
    PROVE  FollowInv'
  <1> DEFINE c == chat[b]
  <1>1. c \in Chat /\ chat \in [Browsers -> Chat]
    BY DEF Inv, TypeOK
  <1>2. UNCHANGED <<sessions, created>>
    BY DEF User, TypeRepo, Ask, Clear, Interrupt
  <1>3. Grow
    BY <1>2, SameSessionsGrow
  <1>4. ASSUME NEW d, chat' = [chat EXCEPT ![b] = d], d.messages \in {c.messages, << >>},
               d.phase = "idle" \/ d.stage = "sent"
        PROVE  FollowInv'
    BY <1>3, <1>4, ScreenFollows
  <1>5. ASSUME NEW r \in Repos \cup {NoRepo}, TypeRepo(b, r) PROVE FollowInv'
    <2>1. PICK d : d = [c EXCEPT !.repo = r]
      OBVIOUS
    <2>2. d.phase = "idle" /\ d.messages = c.messages
      BY <1>1, <1>5, <2>1 DEF TypeRepo, In, Chat
    <2>3. chat' = [chat EXCEPT ![b] = d]
      BY <1>1, <1>5, <2>1 DEF TypeRepo
    <2> QED
      BY <1>4, <2>2, <2>3
  <1>6. CASE Clear(b)
    <2>1. PICK d \in Cleared(c) : chat' = [chat EXCEPT ![b] = d]
      BY <1>6 DEF Clear
    <2>2. d.phase = "idle" /\ d.messages \in {c.messages, << >>}
      BY <1>1, <1>6, ClearedFields DEF Trimmed, Clear, In
    <2> QED
      BY <1>4, <2>1, <2>2
  <1>7. CASE Interrupt(b)
    <2>1. PICK e : e = Stopped(c)
      OBVIOUS
    <2>2. e \in Chat /\ e.messages \in {c.messages, << >>}
      BY <1>1, <2>1, StoppedFields
    <2>3. PICK d : d = Go(e, "idle")
      OBVIOUS
    <2>4. d.phase = "idle" /\ d.messages = e.messages
      BY <2>2, <2>3, GoType DEF Phases
    <2>5. chat' = [chat EXCEPT ![b] = d]
      BY <1>1, <1>7, <2>1, <2>3 DEF Interrupt
    <2> QED
      BY <1>4, <2>2, <2>4, <2>5
  <1>8. CASE Ask(b)
    <2>1. PICK phase \in {"ask", "create", "stream"} :
            chat' = [chat EXCEPT ![b] = Go([c EXCEPT !.question = asked + 1], phase)]
      BY <1>1, <1>8 DEF Ask
    <2>2. PICK e : e = [c EXCEPT !.question = asked + 1]
      OBVIOUS
    <2>3. e \in Chat /\ e.messages = c.messages
      <3>1. asked + 1 \in Nat
        BY Numbers
      <3>2. \A n \in Nat : [c EXCEPT !.question = n] \in Chat /\ [c EXCEPT !.question = n].messages = c.messages
        BY <1>1 DEF Chat
      <3> QED
        BY <2>2, <3>1, <3>2
    <2>4. PICK d : d = Go(e, phase)
      OBVIOUS
    <2>5. d.messages = c.messages
      BY <2>3, <2>4, GoType DEF Phases
    <2>6. d.stage = "sent"
      BY <2>3, <2>4 DEF Go, Chat, Notes
    <2> QED
      BY <1>4, <2>1, <2>2, <2>4, <2>5, <2>6
  <1> QED
    BY <1>5, <1>6, <1>7, <1>8 DEF User

LEMMA ScriptFollows ==
    ASSUME Inv, FollowInv, NEW b \in Browsers, Script(b)
    PROVE  FollowInv'
  <1> DEFINE c == chat[b]
  <1>1. /\ c \in Chat /\ chat \in [Browsers -> Chat] /\ Consistent(c) /\ FollowsUp(c)
        /\ c.phase # "idle" /\ created \in Nat
    BY ChatAssumption DEF Inv, TypeOK, FollowInv, Script, Receive, Timeout, In
  <1>2. UNCHANGED <<sessions, created>>
    BY DEF Script, Receive, Timeout
  <1>3. Grow
    BY <1>2, SameSessionsGrow
  <1>4. \A reply : After(c, reply) \in Phases
    BY DEF After, Phases, Notes
  <1>5. \A e \in Chat, phase \in Phases :
          Go(e, phase).messages = e.messages /\ Go(e, phase).phase = phase
          /\ Go(e, phase).reply = "none"
          /\ (phase \notin {"idle"} \cup Notes => Go(e, phase).stage = "sent")
    <2>1. \A e \in Chat, phase \in Phases :
            phase \notin {"idle"} \cup Notes => Go(e, phase).stage = "sent"
      BY DEF Go, Chat
    <2> QED
      BY <2>1, GoType
  <1>6. CASE Timeout(b)
    <2>1. PICK d : d = Go(c, After(c, "error"))
      OBVIOUS
    <2>2. chat' = [chat EXCEPT ![b] = d]
      BY <1>1, <1>6, <2>1 DEF Timeout
    <2>3. d.messages = c.messages /\ (d.phase \in {"idle"} \cup Notes \/ d.stage = "sent")
      BY <1>1, <1>4, <1>5, <2>1
    <2> QED
      BY <1>3, <2>2, <2>3, ScreenFollows DEF Notes
  <1>7. CASE Receive(b)
    <2>1. PICK e : e = Noted(c, c.reply)
      OBVIOUS
    <2>2. e \in Chat
      BY <1>1, <2>1, NotedLasting
    <2>3. PICK d : d = Go(e, After(c, c.reply))
      OBVIOUS
    <2>4. chat' = [chat EXCEPT ![b] = d]
      BY <1>7, <2>1, <2>3 DEF Receive
    <2>5. d.messages = e.messages /\ (d.phase \in {"idle"} \cup Notes \/ d.stage = "sent")
      BY <1>4, <1>5, <2>2, <2>3
    <2>6. CASE c.phase \in Notes \/ c.reply # "answer"
      <3>1. e.messages = c.messages
        <4>1. CASE c.phase \in Notes
          BY <1>1, <2>1, <4>1 DEF Noted, Chat
        <4>2. CASE c.phase \notin Notes /\ c.reply = "created"
          BY <1>1, <2>1, <4>2 DEF Noted, Chat
        <4>3. CASE c.phase \notin Notes /\ c.reply = "notfound"
          BY <1>1, <2>1, <4>3, UnloadedFields DEF Noted
        <4>4. CASE c.phase \notin Notes /\ c.reply \notin {"created", "notfound"}
          BY <2>1, <2>6, <4>4 DEF Noted
        <4> QED
          BY <4>1, <4>2, <4>3, <4>4
      <3> QED
        BY <1>3, <2>4, <2>5, <3>1, ScreenFollows DEF Notes
    <2>7. CASE c.phase \notin Notes /\ c.reply = "answer"
      <3> DEFINE new == [question |-> c.question, repo |-> c.repo, torn |-> c.torn,
                         session |-> IF c.phase = "stream" THEN 0 ELSE c.session,
                         about |-> IF c.phase = "stream" THEN c.repo ELSE sessions[c.session].repo]
      <3>1. e.messages = Append(c.messages, new) /\ c.messages \in Seq(Message)
        BY <1>1, <2>1, <2>7 DEF Noted, Chat
      <3>2. new.session # 0 => new.session <= created /\ InSession(new.session, new.question)
        BY <1>1, <1>7, <2>7 DEF FollowsUp, Consistent, Receive
      <3> HIDE DEF new
      <3>3. ASSUME NEW i \in 1 .. Len(e.messages), e.messages[i].session # 0
            PROVE  e.messages[i].session <= created /\ InSession(e.messages[i].session, e.messages[i].question)
        <4>1. \/ i \in 1 .. Len(c.messages) /\ e.messages[i] = c.messages[i]
              \/ e.messages[i] = new
          BY <3>1
        <4>2. OnScreen(c)
          BY <1>1 DEF FollowsUp
        <4>3. CASE i \in 1 .. Len(c.messages) /\ e.messages[i] = c.messages[i]
          BY <3>3, <4>2, <4>3 DEF OnScreen
        <4>4. CASE e.messages[i] = new
          BY <3>2, <3>3, <4>4
        <4> QED
          BY <4>1, <4>3, <4>4
      <3>4. OnScreen(d)'
        <4>1. \A s, q : InSession(s, q)' <=> InSession(s, q)
          BY <1>2 DEF InSession
        <4> QED
          BY <1>2, <2>5, <3>3, <4>1 DEF OnScreen
      <3>5. FollowsUp(d)'
        BY <2>5, <3>4 DEF FollowsUp, Notes
      <3> QED
        BY <1>3, <2>4, <3>5, BrowserFollows
    <2> QED
      BY <2>6, <2>7
  <1> QED
    BY <1>6, <1>7 DEF Script

LEMMA ServerFollows ==
    ASSUME Inv, FollowInv, NEW b \in Browsers, Server(b)
    PROVE  FollowInv'
  <1> DEFINE c == chat[b]
  <1>1. /\ c \in Chat /\ chat \in [Browsers -> Chat] /\ Consistent(c) /\ FollowsUp(c)
        /\ created \in Nat /\ sessions \in [SessionIds -> Session]
    BY ChatAssumption DEF Inv, TypeOK, FollowInv
  <1>2. CASE CreateSession(b)
    <2>1. PICK d : d = [c EXCEPT !.stage = "replied", !.reply = "created", !.new = created']
      OBVIOUS
    <2>2. chat' = [chat EXCEPT ![b] = d] /\ d.messages = c.messages /\ d.stage = "replied" /\ d.reply = "created"
      BY <1>1, <1>2, <2>1 DEF CreateSession, Chat
    <2>3. created' = created + 1 /\ \A s \in SessionIds : s <= created => sessions'[s] = sessions[s]
      BY <1>1, <1>2 DEF CreateSession, SessionIds
    <2>4. Grow
      BY <1>1, <2>3 DEF Grow
    <2> QED
      BY <2>2, <2>4, ScreenFollows
  <1>3. ASSUME NEW d, chat' = [chat EXCEPT ![b] = d], UNCHANGED <<sessions, created>>,
               d.messages = c.messages, d.stage \notin {"llm", "replied"} \/ (d.stage = "replied" /\ d.reply # "answer")
        PROVE  FollowInv'
    <2>1. Grow
      BY <1>3, SameSessionsGrow
    <2> QED
      BY <1>3, <2>1, ScreenFollows
  <1>4. CASE SessionQA(b)
    <2>1. UNCHANGED <<sessions, created>> /\ c.phase \in {"ask", "reask"}
      BY <1>4 DEF SessionQA, At, In
    <2>2. CASE ~sessions[c.session].live
      <3>1. PICK d : d = [c EXCEPT !.stage = "replied", !.reply = "notfound"]
        OBVIOUS
      <3>2. chat' = [chat EXCEPT ![b] = d] /\ d.messages = c.messages /\ d.stage = "replied" /\ d.reply = "notfound"
        BY <1>1, <1>4, <2>2, <3>1 DEF SessionQA, Chat
      <3> QED
        BY <1>3, <2>1, <3>2
    <2>3. CASE sessions[c.session].live
      <3>1. PICK d : d = [c EXCEPT !.stage = "llm", !.seen = LastTurns(sessions[c.session].history)]
        OBVIOUS
      <3>2. chat' = [chat EXCEPT ![b] = d]
        BY <1>1, <1>4, <2>3, <3>1 DEF SessionQA
      <3>3. /\ d.messages = c.messages /\ d.stage = "llm" /\ d.session = c.session
            /\ d.seen = LastTurns(sessions[c.session].history)
        BY <1>1, <3>1 DEF Chat
      <3>4. c.session \in SessionIds
        BY <1>1, <2>1 DEF Consistent, HasSession, Chat
      <3>5. ASSUME NEW i \in 1 .. Len(d.messages), d.messages[i].session = d.session
            PROVE  Sees(d, d.messages[i].question)
        <4>1. InSession(d.session, d.messages[i].question)
          BY <1>1, <3>3, <3>4, <3>5 DEF FollowsUp, OnScreen, SessionIds
        <4> QED
          BY <3>3, <3>4, <4>1, PromptSees
      <3>6. OnScreen(d)
        BY <1>1, <3>3 DEF FollowsUp, OnScreen
      <3>7. FollowsUp(d)
        BY <3>3, <3>5, <3>6 DEF FollowsUp
      <3>8. FollowsUp(d)'
        BY <2>1, <3>7 DEF FollowsUp, OnScreen, InSession, Sees
      <3> QED
        BY <2>1, <3>2, <3>8, SameSessionsGrow, BrowserFollows
    <2> QED
      BY <2>2, <2>3
  <1>5. CASE Answer(b)
    <2>1. PICK d : d = IF llm THEN [c EXCEPT !.stage = "append"]
                       ELSE [c EXCEPT !.stage = "replied", !.reply = "offline"]
      OBVIOUS
    <2>2. chat' = [chat EXCEPT ![b] = d] /\ UNCHANGED <<sessions, created>>
      BY <1>1, <1>5, <2>1 DEF Answer
    <2>3. d.messages = c.messages /\ (d.stage = "append" \/ (d.stage = "replied" /\ d.reply = "offline"))
      <3>1. CASE llm
        <4>1. PICK e \in Chat : e = c
          BY <1>1
        <4>2. d = [e EXCEPT !.stage = "append"]
          BY <2>1, <3>1, <4>1
        <4>3. d.messages = e.messages /\ d.stage = "append"
          BY <4>2 DEF Chat
        <4> QED
          BY <4>1, <4>3
      <3>2. CASE ~llm
        BY <1>1, <2>1, <3>2 DEF Chat
      <3> QED
        BY <3>1, <3>2
    <2> QED
      BY <1>3, <2>2, <2>3
  <1>6. CASE Fail(b)
    <2>1. PICK d : d = [c EXCEPT !.stage = "replied", !.reply = "error"]
      OBVIOUS
    <2>2. chat' = [chat EXCEPT ![b] = d] /\ UNCHANGED <<sessions, created>>
      BY <1>1, <1>6, <2>1 DEF Fail
    <2>3. d.messages = c.messages /\ d.stage = "replied" /\ d.reply = "error"
      BY <1>1, <2>1 DEF Chat
    <2> QED
      BY <1>3, <2>2, <2>3
  <1>7. CASE Stream(b)
    <2>1. PICK d : d = [c EXCEPT !.stage = "replied", !.reply = "answer"]
      OBVIOUS
    <2>2. chat' = [chat EXCEPT ![b] = d] /\ UNCHANGED <<sessions, created>>
      BY <1>1, <1>7, <2>1 DEF Stream
    <2>3. d.messages = c.messages /\ d.phase = "stream"
      BY <1>1, <1>7, <2>1 DEF Chat, Stream, At, In
    <2> QED
      BY <2>2, <2>3, SameSessionsGrow, ScreenFollows
  <1>8. CASE AppendHistory(b)
    <2>1. PICK reply \in {"answer", "offline"} : chat' = [chat EXCEPT ![b].stage = "replied", ![b].reply = reply]
      BY <1>8 DEF AppendHistory
    <2>2. PICK d : d = [c EXCEPT !.stage = "replied", !.reply = reply]
      OBVIOUS
    <2>3. chat' = [chat EXCEPT ![b] = d]
      BY <1>1, <2>1, <2>2
    <2>4. /\ d.messages = c.messages /\ d.stage = "replied" /\ d.session = c.session
          /\ d.question = c.question
      BY <1>1, <2>2 DEF Chat
    <2>5. c.session \in SessionIds /\ c.question \in Nat
      BY <1>1, <1>8 DEF AppendHistory, At, In, Consistent, HasSession, Chat
    <2>6. PICK e \in Chat, s \in SessionIds, q \in Nat : e = c /\ s = c.session /\ q = c.question
      BY <1>1, <2>5
    <2>7. sessions' = Appended(s, q) /\ created' = created
      BY <1>8, <2>6 DEF AppendHistory
    <2>8. Grow /\ InSession(s, q)'
      BY <2>7, AppendedGrows
    <2>9. FollowsUp(e)'
      BY <1>1, <2>6, <2>8, FollowsUpStays
    <2>10. OnScreen(d)'
      BY <2>4, <2>6, <2>9 DEF FollowsUp, OnScreen
    <2>11. d.session = s /\ d.question = q
      BY <2>4, <2>6
    <2>12. FollowsUp(d)'
      BY <2>4, <2>8, <2>10, <2>11 DEF FollowsUp
    <2> QED
      BY <2>3, <2>8, <2>12, BrowserFollows
  <1> QED
    BY <1>2, <1>4, <1>5, <1>6, <1>7, <1>8 DEF Server

LEMMA StrayFollows ==
    ASSUME Inv, FollowInv, NEW q \in stray, StrayEnds(q)
    PROVE  FollowInv'
  <1>1. q.session \in SessionIds /\ q.question \in Nat /\ chat' = chat /\ created' = created
    BY DEF StrayEnds, Inv, TypeOK, Stray
  <1>2. Grow
    BY <1>1, AppendedGrows, SameSessionsGrow DEF StrayEnds
  <1>3. ASSUME NEW x \in Browsers, NEW c \in {chat'[x]} PROVE FollowsUp(c)'
    <2>1. c = chat[x] /\ c \in Chat /\ Consistent(c) /\ FollowsUp(c)
      BY <1>1, <1>3 DEF Inv, TypeOK, FollowInv
    <2> QED
      BY <1>2, <2>1, FollowsUpStays
  <1> QED
    BY <1>3 DEF FollowInv

LEMMA RestartFollows ==
    ASSUME Inv, FollowInv, Restart
    PROVE  FollowInv'
  <1>1. created' = created /\ \A s \in SessionIds : sessions'[s].history = sessions[s].history
    BY DEF Restart, Inv, TypeOK, Session
  <1>2. Grow
    BY <1>1, ChatAssumption DEF Grow, Inv, TypeOK
  <1>3. ASSUME NEW x \in Browsers, NEW d \in {chat'[x]} PROVE FollowsUp(d)'
    <2>1. PICK c : c = chat[x]
      OBVIOUS
    <2>2. c \in Chat /\ Consistent(c) /\ FollowsUp(c)
      BY <2>1 DEF Inv, TypeOK, FollowInv
    <2>3. FollowsUp(c)'
      BY <1>2, <2>2, FollowsUpStays
    <2>4. CASE d = c
      BY <2>3, <2>4
    <2>5. CASE d = [c EXCEPT !.stage = "replied", !.reply = "error"]
      <3>1. d.messages = c.messages /\ d.stage = "replied" /\ d.reply = "error"
        BY <2>2, <2>5 DEF Chat
      <3>2. OnScreen(d)'
        BY <2>3, <3>1 DEF FollowsUp, OnScreen
      <3> QED
        BY <3>1, <3>2 DEF FollowsUp
    <2> QED
      BY <1>3, <2>1, <2>4, <2>5 DEF Restart
  <1> QED
    BY <1>3 DEF FollowInv

LEMMA FollowHolds ==
    ASSUME Inv, FollowInv, NoAnswerTwice
    PROVE  FollowUpSeesTheChat
  <1>1. ASSUME NEW s \in SessionIds, NEW k \in 1 .. Len(sessions[s].history),
               NEW q, sessions[s].history[k] = q
        PROVE  Position(s, q) = k
    <2>1. \A l \in 1 .. Len(sessions[s].history) : sessions[s].history[l] = q => l = k
      BY <1>1 DEF NoAnswerTwice
    <2> QED
      BY <1>1, <2>1 DEF Position
  <1> SUFFICES ASSUME NEW b \in Browsers, At(b, {"ask", "reask"}, "llm"),
                      NEW i \in 1 .. Len(chat[b].messages),
                      chat[b].messages[i].session = chat[b].session
               PROVE  \/ chat[b].messages[i].question \in ToSet(chat[b].seen)
                      \/ /\ Len(chat[b].seen) = Turns
                         /\ \A j \in 1 .. Turns :
                              Position(chat[b].messages[i].session, chat[b].messages[i].question)
                                < Position(chat[b].messages[i].session, chat[b].seen[j])
    BY DEF FollowUpSeesTheChat
  <1> DEFINE c == chat[b]
             q == chat[b].messages[i].question
             h == sessions[c.session].history
  <1>2. /\ c \in Chat /\ Consistent(c) /\ FollowsUp(c) /\ c.phase \in {"ask", "reask"} /\ c.stage = "llm"
    BY DEF Inv, TypeOK, FollowInv, At, In
  <1>3. c.session \in SessionIds
    BY <1>2 DEF Consistent, HasSession, Chat
  <1>4. Sees(c, q)
    BY <1>2 DEF FollowsUp
  <1>5. PICK k \in 1 .. Len(h) :
          /\ h[k] = q
          /\ \/ q \in ToSet(c.seen)
             \/ /\ Len(c.seen) = Turns
                /\ \A j \in 1 .. Turns : \E l \in 1 .. Len(h) : h[l] = c.seen[j] /\ k < l
    BY <1>4 DEF Sees
  <1>6. Position(c.session, q) = k
    BY <1>1, <1>3, <1>5
  <1>7. ASSUME NEW j \in 1 .. Turns, NEW l \in 1 .. Len(h), h[l] = c.seen[j], k < l
        PROVE  Position(c.session, q) < Position(c.session, c.seen[j])
    <2>1. Position(c.session, c.seen[j]) = l
      BY <1>1, <1>3, <1>7
    <2> QED
      BY <1>6, <1>7, <2>1
  <1> QED
    BY <1>5, <1>7

\* Whatever happens to the conversation, the prompt of a question holds the answers of
\* its session that are on the screen, or a full five that came later: history[-5:] of
\* endpoints.py against the messages of app.py.
THEOREM ChatFollowUps == Spec => []FollowUpSeesTheChat
  <1>1. Init => FollowInv
    <2> SUFFICES ASSUME Init, NEW b \in Browsers, NEW c \in {chat[b]} PROVE FollowsUp(c)
      BY DEF FollowInv
    <2>1. c.phase = "idle" /\ c.messages = << >>
      BY DEF Init
    <2>2. 1 .. Len(c.messages) = {}
      BY <2>1
    <2> QED
      BY <2>1, <2>2 DEF FollowsUp, OnScreen
  <1>2. Inv /\ FollowInv /\ [Next]_vars => FollowInv'
    <2> SUFFICES ASSUME Inv, FollowInv, [Next]_vars PROVE FollowInv'
      OBVIOUS
    <2>1. ASSUME NEW b \in Browsers, User(b) \/ Script(b) \/ Server(b)
          PROVE  FollowInv'
      BY <2>1, UserFollows, ScriptFollows, ServerFollows
    <2>2. ASSUME NEW q \in stray, StrayEnds(q) PROVE FollowInv'
      BY <2>2, StrayFollows
    <2>3. CASE Restart
      BY <2>3, RestartFollows
    <2>4. CASE UNCHANGED vars
      <3>1. UNCHANGED <<sessions, created, chat>>
        BY <2>4 DEF vars
      <3>2. ASSUME NEW x \in Browsers, NEW c \in {chat'[x]} PROVE FollowsUp(c)'
        <4>1. c = chat[x] /\ c \in Chat /\ Consistent(c) /\ FollowsUp(c)
          BY <3>1, <3>2 DEF Inv, TypeOK, FollowInv
        <4> QED
          BY <3>1, <4>1, SameSessionsGrow, FollowsUpStays
      <3> QED
        BY <3>2 DEF FollowInv
    <2> QED
      BY <2>1, <2>2, <2>3, <2>4 DEF Next
  <1>3. Inv /\ FollowInv /\ NoAnswerTwice => FollowUpSeesTheChat
    BY FollowHolds
  <1> QED
    BY <1>1, <1>2, <1>3, ChatInvariant, ChatAnswersOnce, PTL DEF Spec

-----------------------------------------------------------------------------
(***************************************************************************)
(* What the end of every question rests on, beside the timeouts, and what  *)
(* the server never does to a session.                                     *)
(***************************************************************************)
\* The requests a question has left, the one it waits for included, and the
\* notes of new sessions between them.
RequestsLeft(phase) ==
    CASE phase = "create" -> 6 [] phase = "note" -> 5 [] phase = "ask" -> 4
      [] phase = "recreate" -> 3 [] phase = "renote" -> 2
      [] phase \in {"reask", "stream"} -> 1 [] phase = "idle" -> 0

\* The steps the server has left with a request.
ServingLeft(stage) ==
    CASE stage = "sent" -> 3 [] stage = "llm" -> 2 [] stage = "append" -> 1
      [] stage = "replied" -> 0

Closer(c, d) ==
    \/ RequestsLeft(d.phase) < RequestsLeft(c.phase)
    \/ d.phase = c.phase /\ ServingLeft(d.stage) < ServingLeft(c.stage)

\* Whatever happens to a running question brings it closer to its end, and it
\* stays the same question about the same repository.
GoesForward ==
    \A b \in Browsers : ~In(b, {"idle"}) /\ chat'[b] # chat[b] =>
        /\ Closer(chat[b], chat'[b])
        /\ chat'[b].repo = chat[b].repo
        /\ chat'[b].phase # "idle" => chat'[b].question = chat[b].question

LEMMA RequestTable ==
    /\ RequestsLeft("create") = 6 /\ RequestsLeft("note") = 5
    /\ RequestsLeft("ask") = 4 /\ RequestsLeft("recreate") = 3
    /\ RequestsLeft("renote") = 2 /\ RequestsLeft("reask") = 1
    /\ RequestsLeft("stream") = 1 /\ RequestsLeft("idle") = 0
  BY DEF RequestsLeft

LEMMA ServingTable ==
    /\ ServingLeft("sent") = 3 /\ ServingLeft("llm") = 2
    /\ ServingLeft("append") = 1 /\ ServingLeft("replied") = 0
  BY DEF ServingLeft

\* Where the client goes on, fewer requests are left.
LEMMA AfterCloser ==
    ASSUME NEW c, c.phase \in Phases \ {"idle"}, NEW reply
    PROVE  /\ After(c, reply) \in Phases
           /\ RequestsLeft(After(c, reply)) < RequestsLeft(c.phase)
           /\ RequestsLeft("idle") < RequestsLeft(c.phase)
  <1>1. \/ c.phase = "create" /\ After(c, reply) \in {"note", "ask", "idle"}
        \/ c.phase = "note" /\ After(c, reply) = "ask"
        \/ c.phase = "ask" /\ After(c, reply) \in {"recreate", "idle"}
        \/ c.phase = "recreate" /\ After(c, reply) \in {"renote", "stream", "idle"}
        \/ c.phase = "renote" /\ After(c, reply) = "reask"
        \/ c.phase \in {"reask", "stream"} /\ After(c, reply) = "idle"
    <2>1. CASE c.phase = "create"
      BY <2>1 DEF After
    <2>2. CASE c.phase = "ask"
      BY <2>2 DEF After
    <2>3. CASE c.phase = "recreate"
      BY <2>3 DEF After
    <2>4. CASE c.phase \in {"reask", "stream"}
      BY <2>4 DEF After
    <2>5. CASE c.phase \in {"note", "renote"}
      BY <2>5 DEF After
    <2> QED
      BY <2>1, <2>2, <2>3, <2>4, <2>5 DEF Phases, Notes
  <1>2. After(c, reply) \in Phases
    BY <1>1 DEF Phases, Notes
  <1> QED
    BY <1>1, <1>2, RequestTable

\* What has to be shown of a step of browser b, which leaves it as c.
LEMMA BrowserForward ==
    ASSUME chat \in [Browsers -> Chat], NEW b \in Browsers, NEW c,
           chat' = [chat EXCEPT ![b] = c],
           ~In(b, {"idle"}) =>
             /\ Closer(chat[b], c) /\ c.repo = chat[b].repo
             /\ c.phase # "idle" => c.question = chat[b].question
    PROVE  GoesForward
  <1>1. chat'[b] = c /\ \A x \in Browsers \ {b} : chat'[x] = chat[x]
    OBVIOUS
  <1> QED
    BY <1>1 DEF GoesForward

\* The script leaves a request: one fewer.
LEMMA ScriptForward ==
    ASSUME Inv, NEW b \in Browsers, ~In(b, {"idle"}), NEW d \in Chat,
           d.repo = chat[b].repo, d.question = chat[b].question,
           NEW phase \in Phases, RequestsLeft(phase) < RequestsLeft(chat[b].phase),
           chat' = [chat EXCEPT ![b] = Go(d, phase)]
    PROVE  GoesForward
  <1>1. /\ Go(d, phase).phase = phase /\ Go(d, phase).repo = chat[b].repo
        /\ phase # "idle" => Go(d, phase).question = chat[b].question
    BY GoType, GoQuestion
  <1>2. PICK c : c = Go(d, phase)
    OBVIOUS
  <1>3. Closer(chat[b], c)
    BY <1>1, <1>2 DEF Closer
  <1> QED
    BY <1>1, <1>2, <1>3, BrowserForward DEF Inv, TypeOK

\* The server goes on with a request.
LEMMA ServerForward ==
    ASSUME NEW b \in Browsers, \A x \in Browsers \ {b} : chat'[x] = chat[x],
           chat'[b].phase = chat[b].phase, chat'[b].repo = chat[b].repo,
           chat'[b].question = chat[b].question,
           \/ chat[b].stage = "sent" /\ chat'[b].stage = "llm"
           \/ chat[b].stage = "llm" /\ chat'[b].stage = "append"
           \/ chat[b].stage \in {"sent", "llm", "append"} /\ chat'[b].stage = "replied"
    PROVE  GoesForward
  <1>1. Closer(chat[b], chat'[b])
    BY ServingTable DEF Closer
  <1> QED
    BY <1>1 DEF GoesForward

\* A question takes at most four requests -- a session, the question, a new
\* session after a 404, and the question again or the stream -- each with at
\* most three steps of the server; nothing that fails, times out or restarts
\* starts it over, and the repository stays the one it was asked about.
THEOREM ChatGoesForward == Spec => [][GoesForward]_vars
  <1>1. ASSUME Inv, [Next]_vars
        PROVE  [GoesForward]_vars
    <2>1. chat \in [Browsers -> Chat]
      BY <1>1 DEF Inv, TypeOK
    <2>2. \A b \in Browsers : chat[b].phase \in Phases /\ chat[b].stage \in Stages
      BY <2>1 DEF Chat
    <2>3. ASSUME NEW b \in Browsers, User(b)
          PROVE  GoesForward
      <3>1. CASE In(b, {"idle"})
        <4>1. PICK c : chat' = [chat EXCEPT ![b] = c]
          <5>1. ASSUME NEW r, TypeRepo(b, r)
                PROVE  \E c : chat' = [chat EXCEPT ![b] = c]
            BY <2>1, <5>1 DEF TypeRepo
          <5>2. CASE Ask(b)
            BY <5>2 DEF Ask
          <5>3. CASE Clear(b)
            BY <2>1, <5>3 DEF Clear
          <5> QED
            BY <2>3, <3>1, <5>1, <5>2, <5>3 DEF User, Interrupt
        <4> QED
          BY <2>1, <3>1, <4>1, BrowserForward
      <3>2. CASE ~In(b, {"idle"})
        <4>1. PICK d : d = Stopped(chat[b])
          OBVIOUS
        <4>2. chat' = [chat EXCEPT ![b] = Go(d, "idle")]
          BY <2>1, <2>3, <3>2, <4>1 DEF User, TypeRepo, Ask, Clear, Interrupt
        <4>3. d \in Chat /\ d.repo = chat[b].repo /\ d.question = chat[b].question
          BY <2>1, <4>1, StoppedFields
        <4>4. /\ chat[b].phase \in Phases \ {"idle"} /\ "idle" \in Phases
              /\ RequestsLeft("idle") < RequestsLeft(chat[b].phase)
          BY <2>2, <3>2, AfterCloser DEF In, Phases
        <4> QED
          BY <1>1, <3>2, <4>2, <4>3, <4>4, ScriptForward
      <3> QED
        BY <3>1, <3>2
    <2>4. ASSUME NEW b \in Browsers, Script(b)
          PROVE  GoesForward
      <3>1. ~In(b, {"idle"}) /\ chat[b].phase \in Phases \ {"idle"}
        BY <2>2, <2>4 DEF Script, Receive, Timeout, In
      <3>2. CASE Receive(b)
        <4> DEFINE d == Noted(chat[b], chat[b].reply)
                   phase == After(chat[b], chat[b].reply)
        <4>1. chat' = [chat EXCEPT ![b] = Go(d, phase)]
          BY <3>2 DEF Receive
        <4>2. d \in Chat
          BY <1>1, <3>1, NotedLasting
        <4>3. d.repo = chat[b].repo /\ d.question = chat[b].question
          BY <2>1, NotedKeeps
        <4>4. phase \in Phases /\ RequestsLeft(phase) < RequestsLeft(chat[b].phase)
          BY <3>1, AfterCloser
        <4> HIDE DEF d, phase
        <4> QED
          BY <1>1, <3>1, <4>1, <4>2, <4>3, <4>4, ScriptForward
      <3>3. CASE Timeout(b)
        <4> DEFINE phase == After(chat[b], "error")
        <4>1. chat' = [chat EXCEPT ![b] = Go(chat[b], phase)]
          BY <2>1, <3>3 DEF Timeout
        <4>2. phase \in Phases /\ RequestsLeft(phase) < RequestsLeft(chat[b].phase)
          BY <3>1, AfterCloser
        <4> HIDE DEF phase
        <4> QED
          BY <1>1, <2>1, <3>1, <4>1, <4>2, ScriptForward
      <3> QED
        BY <2>4, <3>2, <3>3 DEF Script
    <2>5. ASSUME NEW b \in Browsers, Server(b)
          PROVE  GoesForward
      <3>1. chat[b] \in Chat
        BY <2>1
      <3>2. CASE CreateSession(b)
        <4>1. /\ chat'[b] = [chat[b] EXCEPT !.stage = "replied", !.reply = "created",
                                            !.new = created']
              /\ \A x \in Browsers \ {b} : chat'[x] = chat[x]
              /\ chat[b].stage = "sent"
          BY <2>1, <3>2 DEF CreateSession, At
        <4> QED
          BY <3>1, <4>1, ServerForward DEF Chat
      <3>3. CASE SessionQA(b)
        <4>1. chat'[b] \in
                {[chat[b] EXCEPT !.stage = "llm",
                                 !.seen = LastTurns(sessions[chat[b].session].history)],
                 [chat[b] EXCEPT !.stage = "replied", !.reply = "notfound"]}
          BY <2>1, <3>3 DEF SessionQA
        <4>2. /\ \A x \in Browsers \ {b} : chat'[x] = chat[x]
              /\ chat[b].stage = "sent"
          BY <2>1, <3>3 DEF SessionQA, At
        <4>3. /\ chat'[b].phase = chat[b].phase /\ chat'[b].repo = chat[b].repo
              /\ chat'[b].question = chat[b].question
              /\ chat'[b].stage \in {"llm", "replied"}
          BY <3>1, <4>1 DEF Chat
        <4> QED
          BY <4>2, <4>3, ServerForward
      <3>4. CASE Answer(b)
        <4>1. chat'[b] \in
                {[chat[b] EXCEPT !.stage = "append"],
                 [chat[b] EXCEPT !.stage = "replied", !.reply = "offline"]}
          BY <2>1, <3>4 DEF Answer
        <4>2. /\ \A x \in Browsers \ {b} : chat'[x] = chat[x]
              /\ chat[b].stage = "llm"
          BY <2>1, <3>4 DEF Answer, At
        <4>3. /\ chat'[b].phase = chat[b].phase /\ chat'[b].repo = chat[b].repo
              /\ chat'[b].question = chat[b].question
              /\ chat'[b].stage \in {"append", "replied"}
          BY <3>1, <4>1 DEF Chat
        <4> QED
          BY <4>2, <4>3, ServerForward
      <3>5. CASE AppendHistory(b) \/ Stream(b) \/ Fail(b)
        <4>1. PICK reply : chat' = [chat EXCEPT ![b].stage = "replied", ![b].reply = reply]
          BY <3>5 DEF AppendHistory, Stream, Fail
        <4>2. chat[b].stage \in {"sent", "llm", "append"}
          BY <2>2, <3>5 DEF AppendHistory, Stream, Fail, At, Stages
        <4>3. /\ chat'[b] = [chat[b] EXCEPT !.stage = "replied", !.reply = reply]
              /\ \A x \in Browsers \ {b} : chat'[x] = chat[x]
          BY <2>1, <4>1
        <4>4. /\ chat'[b].phase = chat[b].phase /\ chat'[b].repo = chat[b].repo
              /\ chat'[b].question = chat[b].question /\ chat'[b].stage = "replied"
          BY <3>1, <4>3 DEF Chat
        <4> QED
          BY <4>2, <4>3, <4>4, ServerForward
      <3> QED
        BY <2>5, <3>2, <3>3, <3>4, <3>5 DEF Server
    <2>6. CASE Restart
      <3> SUFFICES ASSUME NEW b \in Browsers, ~In(b, {"idle"}), chat'[b] # chat[b]
                   PROVE  /\ Closer(chat[b], chat'[b]) /\ chat'[b].repo = chat[b].repo
                          /\ chat'[b].question = chat[b].question
        BY DEF GoesForward
      <3>1. /\ chat[b].stage # "replied"
            /\ chat'[b] = [chat[b] EXCEPT !.stage = "replied", !.reply = "error"]
        <4>1. CASE chat[b].stage = "replied"
          BY <2>6, <4>1 DEF Restart
        <4>2. CASE chat[b].stage # "replied"
          BY <2>6, <4>2 DEF Restart
        <4> QED
          BY <4>1, <4>2
      <3> DEFINE c == [chat[b] EXCEPT !.stage = "replied", !.reply = "error"]
      <3>2. /\ c.phase = chat[b].phase /\ c.repo = chat[b].repo
            /\ c.question = chat[b].question /\ c.stage = "replied"
        BY <2>1 DEF Chat
      <3> HIDE DEF c
      <3>3. Closer(chat[b], c)
        BY <2>2, <3>1, <3>2, ServingTable DEF Closer, Stages
      <3> QED
        BY <3>1, <3>2, <3>3 DEF c
    <2>7. ASSUME NEW q \in stray, StrayEnds(q)
          PROVE  GoesForward
      BY <2>7 DEF StrayEnds, GoesForward
    <2> QED
      BY <1>1, <2>3, <2>4, <2>5, <2>6, <2>7 DEF Next
  <1> QED
    BY <1>1, ChatInvariant, PTL DEF Spec

\* A session keeps its repository and its history only grows; one that was lost
\* stays lost, and nothing is written to it any more.
SessionsGrow ==
    \A s \in SessionIds : s <= created =>
        /\ sessions'[s].repo = sessions[s].repo
        /\ \A k \in 1 .. Len(sessions[s].history) :
             /\ k \in 1 .. Len(sessions'[s].history)
             /\ sessions'[s].history[k] = sessions[s].history[k]
        /\ ~sessions[s].live => sessions'[s] = sessions[s]

\* A question is only answered in a session the server still has.
ServedLive ==
    \A b \in Browsers :
        chat[b].phase \in {"ask", "reask"} /\ chat[b].stage \in {"llm", "append"} =>
            chat[b].session \in SessionIds /\ sessions[chat[b].session].live

\* What has to be shown of a step of browser b.
LEMMA BrowserServed ==
    ASSUME ServedLive, NEW b \in Browsers, \A x \in Browsers \ {b} : chat'[x] = chat[x],
           \A s \in SessionIds : sessions[s].live => sessions'[s].live,
           \/ chat'[b].stage \notin {"llm", "append"}
           \/ chat'[b].phase \notin {"ask", "reask"}
           \/ chat'[b].session \in SessionIds /\ sessions[chat'[b].session].live
    PROVE  ServedLive'
  <1>1. ASSUME NEW x \in Browsers, chat'[x].phase \in {"ask", "reask"},
               chat'[x].stage \in {"llm", "append"}
        PROVE  chat'[x].session \in SessionIds /\ sessions'[chat'[x].session].live
    BY <1>1 DEF ServedLive
  <1> QED
    BY <1>1 DEF ServedLive

\* Appending is all that happens to a history.
LEMMA AppendedSession ==
    ASSUME Inv, NEW s \in SessionIds, NEW q, sessions[s].live,
           sessions' = Appended(s, q), created' = created
    PROVE  /\ SessionsGrow
           /\ \A t \in SessionIds : sessions[t].live => sessions'[t].live
  <1>1. /\ sessions \in [SessionIds -> Session] /\ sessions[s] \in Session
        /\ sessions[s].history \in Seq(Nat)
    BY DEF Inv, TypeOK, Session
  <1> DEFINE h == sessions[s].history
             r == [sessions[s] EXCEPT !.history = Append(h, q)]
  <1>2. sessions' = [sessions EXCEPT ![s] = r]
    BY <1>1 DEF Appended
  <1>3. r.repo = sessions[s].repo /\ r.live /\ r.history = Append(h, q)
    BY <1>1 DEF Session
  <1>4. \A k \in 1 .. Len(h) : k \in 1 .. Len(Append(h, q)) /\ Append(h, q)[k] = h[k]
    <2>1. h \in Seq(Nat) /\ Len(h) \in Nat
      BY <1>1
    <2>2. Len(Append(h, q)) = Len(h) + 1
      BY <2>1
    <2> QED
      BY <2>1, <2>2
  <1>5. sessions'[s].repo = sessions[s].repo /\ sessions'[s].live
        /\ sessions'[s].history = Append(h, q)
    <2> HIDE DEF r
    <2> QED
      BY <1>1, <1>2, <1>3
  <1>6. \A t \in SessionIds \ {s} : sessions'[t] = sessions[t]
    BY <1>1, <1>2
  <1> HIDE DEF r
  <1>7. ASSUME NEW t \in SessionIds, t <= created
        PROVE  /\ sessions'[t].repo = sessions[t].repo
               /\ \A k \in 1 .. Len(sessions[t].history) :
                    /\ k \in 1 .. Len(sessions'[t].history)
                    /\ sessions'[t].history[k] = sessions[t].history[k]
               /\ ~sessions[t].live => sessions'[t] = sessions[t]
    <2>1. CASE t = s
      BY <1>4, <1>5, <2>1
    <2>2. CASE t # s
      BY <1>6, <2>2
    <2> QED
      BY <2>1, <2>2
  <1> QED
    BY <1>5, <1>6, <1>7 DEF SessionsGrow

LEMMA UserSessions ==
    ASSUME Inv, ServedLive, NEW b \in Browsers, User(b) \/ Script(b)
    PROVE  ServedLive' /\ SessionsGrow
  <1>1. chat \in [Browsers -> Chat] /\ chat[b] \in Chat
    BY DEF Inv, TypeOK
  <1>2. sessions' = sessions
    BY DEF User, Script, TypeRepo, Ask, Clear, Interrupt, Receive, Timeout
  <1>3. SessionsGrow
    BY <1>2 DEF SessionsGrow
  <1>4. ASSUME NEW c, chat' = [chat EXCEPT ![b] = c], c.stage \notin {"llm", "append"}
        PROVE  ServedLive'
    BY <1>1, <1>2, <1>4, BrowserServed
  <1>5. \A c, phase : c \in Chat => Go(c, phase).stage \in {"replied", "sent"}
    BY DEF Go, Chat
  <1>6. CASE \E r : TypeRepo(b, r)
    <2>1. chat'[b].phase = "idle" /\ \A x \in Browsers \ {b} : chat'[x] = chat[x]
      BY <1>1, <1>6 DEF TypeRepo, In, Chat
    <2> QED
      BY <1>2, <1>3, <2>1, BrowserServed
  <1>7. CASE Clear(b)
    <2>1. chat'[b].phase = "idle" /\ \A x \in Browsers \ {b} : chat'[x] = chat[x]
      BY <1>1, <1>7, ClearedFields DEF Trimmed, Clear, In
    <2> QED
      BY <1>2, <1>3, <2>1, BrowserServed
  <1>8. CASE Ask(b)
    <2>1. [chat[b] EXCEPT !.question = asked'] \in Chat
      <3>1. asked' \in Nat
        BY <1>8, ChatAssumption DEF Ask, Inv, TypeOK
      <3> QED
        BY <1>1, <3>1 DEF Chat
    <2>2. PICK phase : chat' = [chat EXCEPT ![b] =
                                  Go([chat[b] EXCEPT !.question = asked'], phase)]
      BY <1>1, <1>8 DEF Ask
    <2> QED
      BY <1>3, <1>4, <1>5, <2>1, <2>2
  <1>9. CASE Interrupt(b) \/ Timeout(b)
    <2>1. CASE Interrupt(b)
      <3>1. Stopped(chat[b]) \in Chat
        BY <1>1, StoppedFields
      <3>2. chat' = [chat EXCEPT ![b] = Go(Stopped(chat[b]), "idle")]
        BY <1>1, <2>1 DEF Interrupt
      <3> QED
        BY <1>3, <1>4, <1>5, <3>1, <3>2
    <2>2. CASE Timeout(b)
      <3>1. chat' = [chat EXCEPT ![b] = Go(chat[b], After(chat[b], "error"))]
        BY <1>1, <2>2 DEF Timeout
      <3> QED
        BY <1>1, <1>3, <1>4, <1>5, <3>1
    <2> QED
      BY <1>9, <2>1, <2>2
  <1>10. CASE Receive(b)
    <2>1. chat[b].phase # "idle"
      BY <1>10 DEF Receive, In
    <2>2. Noted(chat[b], chat[b].reply) \in Chat
      BY <2>1, NotedLasting
    <2>3. chat' = [chat EXCEPT ![b] = Go(Noted(chat[b], chat[b].reply),
                                          After(chat[b], chat[b].reply))]
      BY <1>10 DEF Receive
    <2> QED
      BY <1>3, <1>4, <1>5, <2>2, <2>3
  <1> QED
    BY <1>6, <1>7, <1>8, <1>9, <1>10 DEF User, Script

LEMMA ServerSessions ==
    ASSUME Inv, ServedLive, NEW b \in Browsers, Server(b)
    PROVE  ServedLive' /\ SessionsGrow
  <1>1. /\ chat \in [Browsers -> Chat] /\ chat[b] \in Chat
        /\ sessions \in [SessionIds -> Session] /\ created \in Nat
    BY ChatAssumption DEF Inv, TypeOK
  <1>2. sessions' = sessions => SessionsGrow
    BY DEF SessionsGrow
  <1>3. CASE CreateSession(b)
    <2>1. /\ chat'[b] = [chat[b] EXCEPT !.stage = "replied", !.reply = "created",
                                        !.new = created']
          /\ \A x \in Browsers \ {b} : chat'[x] = chat[x]
      BY <1>1, <1>3 DEF CreateSession
    <2>2. chat'[b].stage = "replied"
      BY <1>1, <2>1 DEF Chat
    <2> DEFINE r == [live |-> TRUE, repo |-> chat[b].repo, history |-> << >>]
    <2>3. /\ sessions' = [sessions EXCEPT ![created + 1] = r] /\ r.live
          /\ created' = created + 1
      BY <1>3 DEF CreateSession
    <2> HIDE DEF r
    <2>4. \A s \in SessionIds :
            sessions'[s] = sessions[s] \/ (s = created + 1 /\ sessions'[s] = r)
      BY <1>1, <2>3
    <2>5. SessionsGrow
      BY <1>1, <2>4 DEF SessionsGrow, SessionIds
    <2> QED
      BY <2>1, <2>2, <2>3, <2>4, <2>5, BrowserServed
  <1>4. CASE SessionQA(b)
    <2>1. /\ \A x \in Browsers \ {b} : chat'[x] = chat[x]
          /\ sessions' = sessions
      BY <1>1, <1>4 DEF SessionQA
    <2>2. CASE sessions[chat[b].session].live
      <3>1. chat[b].session \in SessionIds
        BY <1>1, <1>4 DEF SessionQA, At, In, Inv, Consistent, HasSession, Chat
      <3>2. chat'[b] = [chat[b] EXCEPT !.stage = "llm",
                                 !.seen = LastTurns(sessions[chat[b].session].history)]
        BY <1>1, <1>4, <2>2 DEF SessionQA
      <3>3. chat'[b].session = chat[b].session
        BY <1>1, <3>2 DEF Chat
      <3> QED
        BY <1>2, <2>1, <2>2, <3>1, <3>3, BrowserServed
    <2>3. CASE ~sessions[chat[b].session].live
      <3>1. chat'[b] = [chat[b] EXCEPT !.stage = "replied", !.reply = "notfound"]
        BY <1>1, <1>4, <2>3 DEF SessionQA
      <3>2. chat'[b].stage = "replied"
        BY <1>1, <3>1 DEF Chat
      <3> QED
        BY <1>2, <2>1, <3>2, BrowserServed
    <2> QED
      BY <2>2, <2>3
  <1>5. CASE Answer(b)
    <2>1. /\ \A x \in Browsers \ {b} : chat'[x] = chat[x]
          /\ sessions' = sessions
      BY <1>1, <1>5 DEF Answer
    <2>2. chat[b].session \in SessionIds /\ sessions[chat[b].session].live
      BY <1>5 DEF Answer, At, In, ServedLive
    <2>3. chat'[b] \in {[chat[b] EXCEPT !.stage = "append"],
                        [chat[b] EXCEPT !.stage = "replied", !.reply = "offline"]}
      BY <1>1, <1>5 DEF Answer
    <2>4. chat'[b].session = chat[b].session
      BY <1>1, <2>3 DEF Chat
    <2> QED
      BY <1>2, <2>1, <2>2, <2>4, BrowserServed
  <1>6. CASE AppendHistory(b)
    <2>1. PICK reply : chat' = [chat EXCEPT ![b].stage = "replied", ![b].reply = reply]
      BY <1>6 DEF AppendHistory
    <2>2. /\ chat'[b] = [chat[b] EXCEPT !.stage = "replied", !.reply = reply]
          /\ \A x \in Browsers \ {b} : chat'[x] = chat[x]
      BY <1>1, <2>1
    <2>3. chat'[b].stage = "replied"
      BY <1>1, <2>2 DEF Chat
    <2>4. chat[b].session \in SessionIds /\ sessions[chat[b].session].live
      BY <1>6 DEF AppendHistory, At, In, ServedLive
    <2>5. sessions' = Appended(chat[b].session, chat[b].question) /\ created' = created
      BY <1>6 DEF AppendHistory
    <2>6. /\ SessionsGrow
          /\ \A t \in SessionIds : sessions[t].live => sessions'[t].live
      BY <2>4, <2>5, AppendedSession
    <2> QED
      BY <2>2, <2>3, <2>6, BrowserServed
  <1>7. CASE Stream(b) \/ Fail(b)
    <2>1. PICK reply : /\ chat' = [chat EXCEPT ![b].stage = "replied", ![b].reply = reply]
                       /\ sessions' = sessions
      BY <1>7 DEF Stream, Fail
    <2>2. /\ chat'[b] = [chat[b] EXCEPT !.stage = "replied", !.reply = reply]
          /\ \A x \in Browsers \ {b} : chat'[x] = chat[x]
      BY <1>1, <2>1
    <2>3. chat'[b].stage = "replied"
      BY <1>1, <2>2 DEF Chat
    <2> QED
      BY <1>2, <2>1, <2>2, <2>3, BrowserServed
  <1> QED
    BY <1>3, <1>4, <1>5, <1>6, <1>7 DEF Server

\* A restart loses the sessions for good: an id the browsers still hold is not
\* found again, its history stays what it was, and a session that is there only
\* ever has answers appended, whoever gave them up.
THEOREM ChatSessionsGrow == Spec => [][SessionsGrow]_vars
  <1>1. Init => ServedLive
    BY DEF Init, ServedLive
  <1>2. ASSUME Inv, ServedLive, [Next]_vars
        PROVE  ServedLive' /\ [SessionsGrow]_vars
    <2>1. ASSUME NEW b \in Browsers, User(b) \/ Script(b) \/ Server(b)
          PROVE  ServedLive' /\ SessionsGrow
      BY <1>2, <2>1, UserSessions, ServerSessions
    <2>2. ASSUME NEW q \in stray, StrayEnds(q)
          PROVE  ServedLive' /\ SessionsGrow
      <3>1. chat' = chat /\ created' = created /\ q.session \in SessionIds
        BY <1>2, <2>2 DEF StrayEnds, Inv, TypeOK, Stray
      <3>2. CASE sessions' = sessions
        BY <1>2, <3>1, <3>2 DEF ServedLive, SessionsGrow
      <3>3. CASE sessions[q.session].live /\ sessions' = Appended(q.session, q.question)
        <4>1. /\ SessionsGrow
              /\ \A t \in SessionIds : sessions[t].live => sessions'[t].live
          BY <1>2, <3>1, <3>3, AppendedSession
        <4> QED
          BY <1>2, <3>1, <4>1 DEF ServedLive
      <3> QED
        BY <2>2, <3>2, <3>3 DEF StrayEnds
    <2>3. CASE Restart
      <3>1. \A s \in SessionIds : sessions[s] \in Session
        BY <1>2 DEF Inv, TypeOK
      <3>2. \A s \in SessionIds : sessions'[s] = [sessions[s] EXCEPT !.live = FALSE]
        BY <2>3 DEF Restart
      <3>3. SessionsGrow
        <4>1. ASSUME NEW r \in Session
              PROVE  LET t == [r EXCEPT !.live = FALSE]
                     IN  t.repo = r.repo /\ t.history = r.history /\ (~r.live => t = r)
          BY DEF Session
        <4>2. \A s \in SessionIds :
                /\ sessions'[s].repo = sessions[s].repo
                /\ sessions'[s].history = sessions[s].history
                /\ ~sessions[s].live => sessions'[s] = sessions[s]
          BY <3>1, <3>2, <4>1
        <4> QED
          BY <4>2 DEF SessionsGrow
      <3>4. ASSUME NEW b \in Browsers
            PROVE  chat'[b].phase = "idle" \/ chat'[b].stage = "replied"
        <4>1. chat[b] \in Chat
          BY <1>2 DEF Inv, TypeOK
        <4>2. CASE In(b, {"idle"}) \/ chat[b].stage = "replied"
          BY <2>3, <4>2 DEF Restart, In
        <4>3. CASE ~(In(b, {"idle"}) \/ chat[b].stage = "replied")
          BY <2>3, <4>1, <4>3 DEF Restart, Chat
        <4> QED
          BY <4>2, <4>3
      <3> QED
        BY <3>3, <3>4 DEF ServedLive
    <2>4. CASE UNCHANGED vars
      BY <1>2, <2>4 DEF vars, ServedLive
    <2> QED
      BY <1>2, <2>1, <2>2, <2>3, <2>4 DEF Next
  <1> QED
    BY <1>1, <1>2, ChatInvariant, PTL DEF Spec

=============================================================================
