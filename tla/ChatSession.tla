---------------------------- MODULE ChatSession ----------------------------
(***************************************************************************)
(* Conversations: the browsers and the session endpoints they talk to      *)
(* (backend/app/api/endpoints.py).  A browser runs one of two clients: the *)
(* Streamlit app (frontend/app.py) or the page the backend serves at "/"   *)
(* (frontend/index.html).                                                  *)
(*                                                                         *)
(* The app's script runs from a question to its answer: it creates a       *)
(* session when it has none for the repository, asks, rebuilds the session *)
(* once when the server no longer knows it, and falls back to the one-shot *)
(* stream.  Streamlit may end it at every access to the session_state, so  *)
(* a new session is noted in two steps: its id, then last_repo.  The page  *)
(* creates a session when it has none, keeps no repository beside its id,  *)
(* forgets the session after a 404, and has no timeouts.                   *)
(*                                                                         *)
(* Every request may fail, the app's may time out; a request the browser   *)
(* gave up is still served, and its answer still enters the history.  The  *)
(* server keeps the sessions in memory and may restart.                    *)
(*                                                                         *)
(* Questions are numbered in the order they are asked; an answer is known  *)
(* by its question.  The page asks one question at a time (its button is   *)
(* disabled meanwhile; Ctrl+Enter, which is not, is left out), and its     *)
(* field is read when the question is asked, so that the user edits or     *)
(* clears it between questions.                                            *)
(***************************************************************************)
EXTENDS Integers, Sequences, SequencesExt

CONSTANTS
    Browsers,
    Clients,       \* what the browsers run: of {"app", "page"}
    Repos,
    NoRepo,        \* the repository field is empty
    Turns,         \* the turns of the history that enter a prompt: 5
    MaxQuestions,  \* bound on the questions
    MaxSessions,   \* bound on the sessions
    MaxRestarts    \* bound on the restarts of the server

ASSUME ChatAssumption ==
    /\ Clients \subseteq {"app", "page"}
    /\ NoRepo \notin Repos
    /\ Turns \in Nat \ {0}
    /\ {MaxQuestions, MaxSessions, MaxRestarts} \subseteq Nat

VARIABLES
    chat,      \* browser -> what its client keeps and the request it waits for
    sessions,  \* _session_store: session id -> what the server knows of it
    created,   \* the number of sessions created so far
    stray,     \* questions that are still served but nobody waits for
    asked,     \* the number of questions so far
    restarts,  \* the number of restarts so far
    llm        \* an LLM provider is configured

vars == <<chat, sessions, created, stray, asked, restarts, llm>>

SessionIds == 1 .. MaxSessions

\* The app has noted the id of a new session, and not yet its repository.
Notes == {"note", "renote"}

Phases == {"idle", "create", "ask", "recreate", "reask", "stream"} \cup Notes

Stages == {"sent", "llm", "append", "replied"}

Replies == {"none", "created", "notfound", "error", "offline", "answer"}

\* An answer on the screen: the session that gave it (0 for the stream), the
\* repository in the field then, the one the answer is about, and whether that
\* session was torn.
Message == [question : Nat, session : {0} \cup SessionIds,
            repo : Repos, about : Repos, torn : BOOLEAN]

\* torn is known to nobody: the script was ended between the assignments of
\* session and last_repo, and left the id beside another repository.
Chat == [client : {"app", "page"}, torn : BOOLEAN,
         phase : Phases, repo : Repos \cup {NoRepo}, session : {0} \cup SessionIds,
         last_repo : Repos \cup {NoRepo}, question : Nat, stage : Stages,
         seen : Seq(Nat), reply : Replies, new : {0} \cup SessionIds,
         messages : Seq(Message)]

Session == [live : BOOLEAN, repo : Repos \cup {NoRepo}, history : Seq(Nat)]

Stray == [session : SessionIds, question : Nat]

TypeOK ==
    /\ chat \in [Browsers -> Chat]
    /\ sessions \in [SessionIds -> Session]
    /\ created \in 0 .. MaxSessions
    /\ stray \subseteq Stray
    /\ asked \in 0 .. MaxQuestions /\ restarts \in 0 .. MaxRestarts
    /\ llm \in BOOLEAN
    /\ \A b \in Browsers : Len(chat[b].seen) <= Turns

Unknown == [live |-> FALSE, repo |-> NoRepo, history |-> << >>]

Init ==
    /\ \E run \in [Browsers -> Clients] :
         chat = [b \in Browsers |->
                   [client |-> run[b], torn |-> FALSE, phase |-> "idle",
                    repo |-> NoRepo, session |-> 0, last_repo |-> NoRepo,
                    question |-> 0, stage |-> "replied", seen |-> << >>,
                    reply |-> "none", new |-> 0, messages |-> << >>]]
    /\ sessions = [s \in SessionIds |-> Unknown]
    /\ created = 0 /\ stray = {} /\ asked = 0 /\ restarts = 0
    /\ llm \in BOOLEAN

-----------------------------------------------------------------------------
(***************************************************************************)
(* The browser.                                                            *)
(***************************************************************************)
In(b, phases) == chat[b].phase \in phases

\* The client leaves its request and goes to phase, where it sends the next
\* request, notes the repository or, at idle, is over.
Go(c, phase) ==
    [c EXCEPT !.phase = phase,
              !.stage = IF phase \in {"idle"} \cup Notes THEN "replied" ELSE "sent",
              !.seen = << >>, !.reply = "none", !.new = 0,
              !.question = IF phase = "idle" THEN 0 ELSE @]

TypeRepo(b, r) ==
    /\ In(b, {"idle"}) /\ chat[b].repo # r
    /\ chat' = [chat EXCEPT ![b].repo = r]
    /\ UNCHANGED <<sessions, created, stray, asked, restarts, llm>>

AnySession(c) == c.session # 0

\* The app asks the session at hand if it is for the repository in the field,
\* the page asks whatever session it has.
HasSession(c) == c.session # 0 /\ (c.client = "app" => c.last_repo = c.repo)

\* The page asks without a session when its session mode is off.
Ask(b) ==
    /\ In(b, {"idle"}) /\ chat[b].repo # NoRepo /\ asked < MaxQuestions
    /\ asked' = asked + 1
    /\ \E phase \in {IF HasSession(chat[b]) THEN "ask" ELSE "create"} \cup
                     (IF chat[b].client = "page" THEN {"stream"} ELSE {}) :
         chat' = [chat EXCEPT ![b] = Go([@ EXCEPT !.question = asked'], phase)]
    /\ UNCHANGED <<sessions, created, stray, restarts, llm>>

Emptied(c) == [c EXCEPT !.messages = << >>]

Unloaded(c) == [c EXCEPT !.session = 0, !.torn = FALSE]

Forgotten(c) == [c EXCEPT !.last_repo = NoRepo]

\* "Load a different repo" and "Reset" of the app, "End" and "Clear" of the
\* page.  Streamlit may end the app's clicks between two assignments, too.
Cleared(c) ==
    IF c.client = "page" THEN {Unloaded(c), Unloaded(Emptied(c))}
    ELSE {Emptied(c), Unloaded(Emptied(c))} \cup
         (IF c.session = 0 THEN {}
          ELSE {Unloaded(c), Forgotten(Unloaded(c)), Emptied(Forgotten(Unloaded(c)))})

Clear(b) ==
    /\ In(b, {"idle"})
    /\ \E c \in Cleared(chat[b]) : c # chat[b] /\ chat' = [chat EXCEPT ![b] = c]
    /\ UNCHANGED <<sessions, created, stray, asked, restarts, llm>>

AfterRetryingForEver(c, reply) ==
    CASE reply = "created"                -> IF c.client = "app" THEN "note" ELSE "ask"
      [] c.phase \in Notes                 -> "ask"
      [] reply \in {"notfound", "error"}   -> "recreate"
      [] OTHER                            -> "idle"

\* Where the client goes on: the question after a session was created and
\* noted; in the app a new session after a 404 (once), and the stream when
\* that fails; else the end.
After(c, reply) ==
    CASE c.phase = "create" /\ reply = "created" -> IF c.client = "app" THEN "note" ELSE "ask"
      [] c.phase = "note"                        -> "ask"
      [] c.phase = "ask" /\ reply = "notfound" /\ c.client = "app" -> "recreate"
      [] c.phase = "recreate" /\ reply = "created" -> "renote"
      [] c.phase = "renote"                      -> "reask"
      [] c.phase = "recreate" /\ reply = "error"  -> "stream"
      [] OTHER                                   -> "idle"

\* What the reply leaves with the client: the id of the new session, and at
\* the next step of the app its repository; no session after a 404; the
\* answer on the screen.
Noted(c, reply) ==
    IF c.phase \in Notes THEN [c EXCEPT !.last_repo = c.repo, !.torn = FALSE]
    ELSE CASE reply = "created" -> [c EXCEPT !.session = c.new]
           [] reply = "notfound" -> Unloaded(c)
           [] reply = "answer" ->
                [c EXCEPT !.messages = Append(@,
                   [question |-> c.question, repo |-> c.repo, torn |-> c.torn,
                    session |-> IF c.phase = "stream" THEN 0 ELSE c.session,
                    about |-> IF c.phase = "stream" THEN c.repo
                              ELSE sessions[c.session].repo])]
           [] OTHER -> c

Receive(b) ==
    /\ ~In(b, {"idle"}) /\ chat[b].stage = "replied"
    /\ LET c == chat[b]
       IN  chat' = [chat EXCEPT ![b] = Go(Noted(c, c.reply), After(c, c.reply))]
    /\ UNCHANGED <<sessions, created, stray, asked, restarts, llm>>

\* The request the browser leaves behind, if it is a question being served.
Left(c) ==
    IF c.phase \in {"ask", "reask"} /\ c.stage # "replied"
    THEN {[session |-> c.session, question |-> c.question]} ELSE {}

\* requests gives up after its timeout, however far the server has come.
Timeout(b) ==
    /\ ~In(b, {"idle"} \cup Notes) /\ chat[b].client = "app"
    /\ stray' = stray \cup Left(chat[b])
    /\ chat' = [chat EXCEPT ![b] = Go(@, After(@, "error"))]
    /\ UNCHANGED <<sessions, created, asked, restarts, llm>>

\* The user clicks elsewhere and Streamlit ends the running script, or loads
\* the page anew.
Stopped(c) ==
    IF c.client = "page" THEN Unloaded(Emptied(c))
    ELSE IF c.phase \in Notes THEN [c EXCEPT !.torn = c.last_repo # c.repo]
    ELSE c

Interrupt(b) ==
    /\ ~In(b, {"idle"})
    /\ stray' = stray \cup Left(chat[b])
    /\ chat' = [chat EXCEPT ![b] = Go(Stopped(@), "idle")]
    /\ UNCHANGED <<sessions, created, asked, restarts, llm>>

-----------------------------------------------------------------------------
(***************************************************************************)
(* The server.                                                             *)
(***************************************************************************)
At(b, phases, stage) == In(b, phases) /\ chat[b].stage = stage

\* POST /sessions: the repository is cloned and its graph built, then the
\* session is stored.
CreateSession(b) ==
    /\ At(b, {"create", "recreate"}, "sent") /\ created < MaxSessions
    /\ created' = created + 1
    /\ sessions' = [sessions EXCEPT ![created'] =
                      [live |-> TRUE, repo |-> chat[b].repo, history |-> << >>]]
    /\ chat' = [chat EXCEPT ![b].stage = "replied", ![b].reply = "created",
                            ![b].new = created']
    /\ UNCHANGED <<stray, asked, restarts, llm>>

AllTurns(history) == history

FirstTurns(history) == SubSeq(history, 1, IF Len(history) < Turns THEN Len(history) ELSE Turns)

\* session.history[-5:]
LastTurns(history) ==
    SubSeq(history, IF Len(history) < Turns THEN 1 ELSE Len(history) - Turns + 1,
           Len(history))

\* POST /sessions/{id}/qa, up to the prompt.
SessionQA(b) ==
    /\ At(b, {"ask", "reask"}, "sent")
    /\ LET s == sessions[chat[b].session]
       IN  chat' = [chat EXCEPT ![b] =
             IF s.live THEN [@ EXCEPT !.stage = "llm", !.seen = LastTurns(s.history)]
             ELSE [@ EXCEPT !.stage = "replied", !.reply = "notfound"]]
    /\ UNCHANGED <<sessions, created, stray, asked, restarts, llm>>

\* Without a provider the context is the answer, and the history stays.
Answer(b) ==
    /\ At(b, {"ask", "reask"}, "llm")
    /\ chat' = [chat EXCEPT ![b] =
                  IF llm THEN [@ EXCEPT !.stage = "append"]
                  ELSE [@ EXCEPT !.stage = "replied", !.reply = "offline"]]
    /\ UNCHANGED <<sessions, created, stray, asked, restarts, llm>>

\* append_history
Appended(s, question) ==
    [sessions EXCEPT ![s].history = Append(@, question)]

\* The answer is appended before it is returned; the browser takes an empty
\* one for the offline mode.
AppendHistory(b) ==
    /\ At(b, {"ask", "reask"}, "append")
    /\ sessions' = Appended(chat[b].session, chat[b].question)
    /\ \E reply \in {"answer", "offline"} :
         chat' = [chat EXCEPT ![b].stage = "replied", ![b].reply = reply]
    /\ UNCHANGED <<created, stray, asked, restarts, llm>>

\* POST /qa/stream, to its done event.
Stream(b) ==
    /\ At(b, {"stream"}, "sent")
    /\ chat' = [chat EXCEPT ![b].stage = "replied", ![b].reply = "answer"]
    /\ UNCHANGED <<sessions, created, stray, asked, restarts, llm>>

\* 4xx and 5xx but for the 404, a refused connection, an error event.
Fail(b) ==
    /\ ~In(b, {"idle"}) /\ chat[b].stage # "replied"
    /\ chat' = [chat EXCEPT ![b].stage = "replied", ![b].reply = "error"]
    /\ UNCHANGED <<sessions, created, stray, asked, restarts, llm>>

\* A question nobody waits for is answered, or fails.
StrayEnds(q) ==
    /\ q \in stray
    /\ stray' = stray \ {q}
    /\ \/ llm /\ sessions[q.session].live /\ sessions' = Appended(q.session, q.question)
       \/ UNCHANGED sessions
    /\ UNCHANGED <<chat, created, asked, restarts, llm>>

\* The sessions are lost and the open connections break.
Restart ==
    /\ restarts < MaxRestarts
    /\ restarts' = restarts + 1
    /\ sessions' = [s \in SessionIds |-> [sessions[s] EXCEPT !.live = FALSE]]
    /\ stray' = {}
    /\ chat' = [b \in Browsers |->
                  IF In(b, {"idle"}) \/ chat[b].stage = "replied" THEN chat[b]
                  ELSE [chat[b] EXCEPT !.stage = "replied", !.reply = "error"]]
    /\ UNCHANGED <<created, asked, llm>>

-----------------------------------------------------------------------------
User(b) ==
    \/ \E r \in Repos \cup {NoRepo} : TypeRepo(b, r)
    \/ Ask(b) \/ Clear(b) \/ Interrupt(b)

Script(b) == Receive(b) \/ Timeout(b)

Server(b) ==
    \/ CreateSession(b) \/ SessionQA(b) \/ Answer(b) \/ AppendHistory(b)
    \/ Stream(b) \/ Fail(b)

Next ==
    \/ \E b \in Browsers : User(b) \/ Script(b) \/ Server(b)
    \/ \E q \in stray : StrayEnds(q)
    \/ Restart

Spec == Init /\ [][Next]_vars

\* Every request of the app has a timeout, so its script always goes on;
\* nothing is assumed of the server, which may hang, and a page waits for it.
FairSpec == Spec /\ \A b \in Browsers : WF_vars(Script(b))

-----------------------------------------------------------------------------
\* "Ask a question about this repository": an answer on the screen of the app
\* is about the repository that was in the field when its question was asked,
\* unless its session was torn.  Changes of the field, failed sessions,
\* half-done resets, lost sessions and the fallback to the stream do not
\* mislead.  The page compares nothing, and is misled by the field alone.
OnlyTornSessionsMislead ==
    \A b \in Browsers : chat[b].client = "app" =>
        \A i \in 1 .. Len(chat[b].messages) :
            LET m == chat[b].messages[i]
            IN  m.about # m.repo => m.torn

Position(s, question) ==
    CHOOSE i \in 1 .. Len(sessions[s].history) : sessions[s].history[i] = question

\* Follow-up questions resolve: the prompt of a question contains every
\* answer of the session that is on the screen, or is full of answers that
\* came after it -- answers that were given up included.
FollowUpSeesTheChat ==
    \A b \in Browsers : At(b, {"ask", "reask"}, "llm") =>
        \A i \in 1 .. Len(chat[b].messages) :
            LET m == chat[b].messages[i]
                seen == chat[b].seen
            IN  m.session = chat[b].session =>
                  \/ m.question \in ToSet(seen)
                  \/ /\ Len(seen) = Turns
                     /\ \A j \in 1 .. Turns :
                          Position(m.session, m.question) < Position(m.session, seen[j])

\* A question enters the history of one session, and once: what the browser
\* gave up may still be answered, so it must not be asked again when the
\* session is rebuilt.
NoAnswerTwice ==
    \A s, t \in SessionIds :
      \A i \in 1 .. Len(sessions[s].history), j \in 1 .. Len(sessions[t].history) :
        sessions[s].history[i] = sessions[t].history[j] => s = t /\ i = j

\* A question of the app ends, with an answer or without, even if the server
\* hangs.
EveryQuestionEnds ==
    \A b \in Browsers :
        ~In(b, {"idle"}) /\ chat[b].client = "app" ~> In(b, {"idle"})

=============================================================================
