---------------------------- MODULE CloneService ----------------------------
(***************************************************************************)
(* RepositoryService.clone_repository                                      *)
(* (backend/app/services/repository_service.py) and what its callers do    *)
(* with the path it returns.                                               *)
(*                                                                         *)
(* A worker is a thread that serves a request.  It takes the lock of the   *)
(* repository's directory, updates the clone that is there (fetch, compare,*)
(* pull) or removes it and clones afresh, checks the size, and releases the*)
(* lock; only then does the caller parse the directory.  The directory is  *)
(* named after the last segment of the URL, so repositories of different   *)
(* owners share one.                                                       *)
(*                                                                         *)
(* git and rmtree are not atomic: a directory on its way in or out is      *)
(* partial (git cannot open it) or bare (its commit and refs are right,    *)
(* files of the working tree are missing).                                 *)
(***************************************************************************)
EXTENDS Integers, FiniteSets

CONSTANTS
    Urls,         \* the repositories on the git hosts
    Names,        \* the names of the directories under repos/
    NameOf,       \* sanitize_repo_name: the last path segment of a URL
    Workers,      \* the threads that call clone_repository
    MainThread,   \* those of them that are the main thread: SIGALRM works there
    NoUrl,        \* the URL of a worker that serves no request
    Faults,       \* what may fail: "network", "disk", "crash"
    MaxPushes,    \* bound on the pushes to the repositories
    MaxRequests   \* bound on the requests

ASSUME CloneAssumption ==
    /\ NameOf \in [Urls -> Names]
    /\ MainThread \subseteq Workers
    /\ NoUrl \notin Urls
    /\ Faults \subseteq {"network", "disk", "crash"}
    /\ MaxPushes \in Nat /\ MaxRequests \in Nat

VARIABLES
    remote,    \* url -> the tip of its default branch
    pushes,    \* the number of pushes so far
    repos,     \* name -> the directory repos/<name>
    held,      \* _CLONE_LOCKS: which worker holds the lock of which key
    call,      \* worker -> the request it serves
    requests,  \* the number of requests so far
    damaged    \* history: the disk failed or the process died once

vars == <<remote, pushes, repos, held, call, requests, damaged>>

\* A commit: pushes number them, a force push starts a new line of history,
\* and big tells that its tree is over _MAX_REPO_SIZE_MB.
Tip == [url : Urls \cup {NoUrl}, line : Nat, commit : Nat, big : BOOLEAN]

NoTip == [url |-> NoUrl, line |-> 0, commit |-> 0, big |-> FALSE]

DirStates == {"absent", "partial", "bare", "ready"}

Dir == [state : DirStates, tip : Tip]

Gone == [state |-> "absent", tip |-> NoTip]

\* The steps of clone_repository that hold the lock.
Locked == {"fetch", "pull", "remove", "removing", "clone", "refs", "checkout",
           "size", "return", "raise"}

\* asked is the number of the commit at the tip when the request came, after
\* the step that follows a removal, got the directory as clone_repository
\* returned it, and from the parse on as the caller parsed it.
Request == [pc : {"idle", "waiting", "parse", "answer"} \cup Locked,
            url : Urls \cup {NoUrl}, asked : Nat, after : {"clone", "raise"},
            got : Dir]

NoRequest == [pc |-> "idle", url |-> NoUrl, asked |-> 0, after |-> "clone",
              got |-> Gone]

TypeOK ==
    /\ remote \in [Urls -> Tip] /\ pushes \in Nat
    /\ repos \in [Names -> Dir]
    /\ held \subseteq [key : Names, worker : Workers]
    /\ call \in [Workers -> Request]
    /\ requests \in Nat
    /\ damaged \in BOOLEAN

Init ==
    /\ remote = [u \in Urls |-> [NoTip EXCEPT !.url = u]]
    /\ pushes = 0
    /\ repos = [n \in Names |-> Gone]
    /\ held = {}
    /\ call = [w \in Workers |-> NoRequest]
    /\ requests = 0
    /\ damaged = FALSE

-----------------------------------------------------------------------------
(***************************************************************************)
(* The git hosts.                                                          *)
(***************************************************************************)
Push(u, line, big) ==
    /\ pushes < MaxPushes
    /\ line \in {remote[u].line, remote[u].line + 1}
    /\ pushes' = pushes + 1
    /\ remote' = [remote EXCEPT ![u] =
                    [url |-> u, line |-> line, commit |-> pushes', big |-> big]]
    /\ UNCHANGED <<repos, held, call, requests, damaged>>

-----------------------------------------------------------------------------
(***************************************************************************)
(* clone_repository                                                        *)
(***************************************************************************)
LockOfUrl(u) == u

\* _get_clone_lock(repo_name)
LockKey(u) == NameOf[u]

At(w, pc) == call[w].pc = pc

Repo(w) == repos[NameOf[call[w].url]]

Origin(w) == remote[call[w].url]

\* The worker goes on at pc and leaves the directory alone.
GoTo(w, pc) ==
    /\ call' = [call EXCEPT ![w].pc = pc]
    /\ UNCHANGED <<remote, pushes, repos, held, requests, damaged>>

\* The worker makes the directory dir and goes on at pc.
Make(w, dir, pc) ==
    /\ repos' = [repos EXCEPT ![NameOf[call[w].url]] = dir]
    /\ call' = [call EXCEPT ![w].pc = pc]
    /\ UNCHANGED <<remote, pushes, held, requests, damaged>>

Ask(w, u) ==
    /\ At(w, "idle") /\ requests < MaxRequests
    /\ requests' = requests + 1
    /\ call' = [call EXCEPT ![w] = [NoRequest EXCEPT !.pc = "waiting", !.url = u,
                                                     !.asked = remote[u].commit]]
    /\ UNCHANGED <<remote, pushes, repos, held, damaged>>

\* with lock: a directory that exists is updated, one that does not is cloned.
Acquire(w) ==
    /\ At(w, "waiting")
    /\ \A h \in held : h.key # LockKey(call[w].url)
    /\ held' = held \cup {[key |-> LockKey(call[w].url), worker |-> w]}
    /\ call' = [call EXCEPT ![w].pc =
                  IF Repo(w).state = "absent" THEN "clone" ELSE "fetch"]
    /\ UNCHANGED <<remote, pushes, repos, requests, damaged>>

UpToDateIfWhole(dir, tip) == dir.state = "ready"

\* HEAD is at the commit origin has: returned as it is.
UpToDate(dir, tip) == dir.tip = tip

\* The origin is set to this URL and fetched, the two commits are compared.
Fetch(w) ==
    /\ At(w, "fetch") /\ Repo(w).state \in {"bare", "ready"}
    /\ GoTo(w, IF UpToDate(Repo(w), Origin(w)) THEN "return" ELSE "pull")

\* Any exception of the update: the directory is removed and cloned again.
UpdateFails(w) ==
    /\ \/ At(w, "fetch") /\ (Repo(w).state = "partial" \/ "network" \in Faults)
       \/ At(w, "pull") /\ "network" \in Faults
       \/ At(w, "pull") /\ Repo(w).state = "bare"
    /\ GoTo(w, "remove")

\* Unrelated histories and a line that was force-pushed away do not merge.
Mergeable(dir, tip) == dir.tip.url = tip.url /\ dir.tip.line = tip.line

\* Files that are missing stay missing unless the pull touches them.
Pull(w) ==
    /\ At(w, "pull") /\ Mergeable(Repo(w), Origin(w))
    /\ \E s \in {Repo(w).state, "ready"} :
         Make(w, [state |-> s, tip |-> Origin(w)], "return")

Diverged(w) ==
    /\ At(w, "pull") /\ ~Mergeable(Repo(w), Origin(w))
    /\ GoTo(w, "remove")

\* rmtree is under way: .git is broken already, or is still whole.
Remove(w) ==
    /\ At(w, "remove")
    /\ \E s \in {"partial"} \cup ({"bare"} \cap {Repo(w).state})
                \cup (IF Repo(w).state = "ready" THEN {"bare"} ELSE {}) :
         Make(w, [Repo(w) EXCEPT !.state = s], "removing")

Removed(w) == At(w, "removing") /\ Make(w, Gone, call[w].after)

RemoveFails(w) ==
    /\ At(w, "removing") /\ "disk" \in Faults
    /\ damaged' = TRUE
    /\ call' = [call EXCEPT ![w].pc = "raise"]
    /\ UNCHANGED <<remote, pushes, repos, held, requests>>

\* git clone: the directory is made, then the objects and refs come in, then
\* the working tree is checked out.
Clone(w) ==
    /\ At(w, "clone") /\ Repo(w).state = "absent"
    /\ Make(w, [state |-> "partial", tip |-> NoTip], "refs")

CloneRefs(w) ==
    /\ At(w, "refs")
    /\ Make(w, [state |-> "bare", tip |-> Origin(w)], "checkout")

Checkout(w) ==
    /\ At(w, "checkout")
    /\ Make(w, [Repo(w) EXCEPT !.state = "ready"], "size")

\* git clone fails on the network: it removes the directory it made.
CloneFails(w) ==
    /\ At(w, "refs") /\ "network" \in Faults
    /\ Make(w, Gone, "raise")

\* The clone succeeded but its checkout failed: git keeps the directory.
CheckoutFails(w) ==
    /\ At(w, "checkout") /\ "disk" \in Faults
    /\ damaged' = TRUE
    /\ call' = [call EXCEPT ![w].pc = "raise"]
    /\ UNCHANGED <<remote, pushes, repos, held, requests>>

AlarmRetries(w) ==
    /\ w \in MainThread /\ call[w].pc \in {"clone", "refs", "checkout"}
    /\ call' = [call EXCEPT ![w].pc = IF Repo(w).state = "absent" THEN "clone" ELSE "remove"]
    /\ UNCHANGED <<remote, pushes, repos, held, requests, damaged>>

\* SIGALRM after _CLONE_TIMEOUT_SECONDS, in the main thread only: what git made
\* of the directory is removed, and the TimeoutError raised.
Alarm(w) ==
    /\ w \in MainThread /\ call[w].pc \in {"clone", "refs", "checkout"}
    /\ call' = [call EXCEPT ![w].pc = IF Repo(w).state = "absent" THEN "raise" ELSE "remove",
                            ![w].after = "raise"]
    /\ UNCHANGED <<remote, pushes, repos, held, requests, damaged>>

\* Only a fresh clone is measured.
Size(w) ==
    /\ At(w, "size")
    /\ call' = [call EXCEPT ![w].pc = IF Repo(w).tip.big THEN "remove" ELSE "return",
                            ![w].after = "raise"]
    /\ UNCHANGED <<remote, pushes, repos, held, requests, damaged>>

\* Leaving the with block, by return or by exception.
Unlocked(w) == {h \in held : h.worker # w}

Return(w) ==
    /\ At(w, "return")
    /\ held' = Unlocked(w)
    /\ call' = [call EXCEPT ![w].pc = "parse", ![w].got = Repo(w)]
    /\ UNCHANGED <<remote, pushes, repos, requests, damaged>>

Raise(w) ==
    /\ At(w, "raise")
    /\ held' = Unlocked(w)
    /\ call' = [call EXCEPT ![w] = NoRequest]
    /\ UNCHANGED <<remote, pushes, repos, requests, damaged>>

-----------------------------------------------------------------------------
(***************************************************************************)
(* The caller: generate_graph or scan_repository on the path, unlocked.    *)
(***************************************************************************)
Parse(w) ==
    /\ At(w, "parse")
    /\ call' = [call EXCEPT ![w].pc = "answer", ![w].got = Repo(w)]
    /\ UNCHANGED <<remote, pushes, repos, held, requests, damaged>>

Answer(w) ==
    /\ At(w, "answer")
    /\ call' = [call EXCEPT ![w] = NoRequest]
    /\ UNCHANGED <<remote, pushes, repos, held, requests, damaged>>

\* The process dies, with its locks; the directories stay as they are.
Crash ==
    /\ "crash" \in Faults
    /\ \E w \in Workers : ~At(w, "idle")
    /\ held' = {}
    /\ call' = [w \in Workers |-> NoRequest]
    /\ damaged' = TRUE
    /\ UNCHANGED <<remote, pushes, repos, requests>>

\* What waits for git, and with it for the network and the git host.  A git
\* command may hang, and nothing but Alarm ends the wait for it.
GitSteps == {"fetch", "pull", "clone", "refs", "checkout"}

Git(w) ==
    \/ Fetch(w) \/ UpdateFails(w) \/ Pull(w) \/ Diverged(w)
    \/ Clone(w) \/ CloneRefs(w) \/ Checkout(w) \/ CloneFails(w) \/ CheckoutFails(w)

\* What the service does by itself.
Own(w) ==
    \/ Acquire(w) \/ Remove(w) \/ Removed(w) \/ RemoveFails(w) \/ Alarm(w)
    \/ Size(w) \/ Return(w) \/ Raise(w) \/ Parse(w) \/ Answer(w)

Next ==
    \/ \E u \in Urls, line \in 0 .. pushes + 1, big \in BOOLEAN : Push(u, line, big)
    \/ \E w \in Workers, u \in Urls : Ask(w, u)
    \/ \E w \in Workers : Git(w) \/ Own(w)
    \/ Crash

Spec == Init /\ [][Next]_vars

\* A thread that can run runs, and the alarm rings.  No git command need end.
\* The lock is not fair, but the requests are finitely many, so nobody is
\* overtaken for ever.
FairSpec == Spec /\ \A w \in Workers : WF_vars(Own(w))

-----------------------------------------------------------------------------
\* What clone_repository returns is the repository that was asked for, at the
\* commit its branch had when the request came or at a later one: a clone of
\* another owner under the same name, an older commit, a failed update or a
\* crash never gets through.
ReturnsWhatWasAsked ==
    \A w \in Workers : At(w, "parse") =>
        /\ call[w].got.tip.url = call[w].url
        /\ call[w].got.tip.commit >= call[w].asked

\* And its working tree is complete, however updates, removals and clones by
\* several requests follow each other and whatever the network does, as long
\* as no checkout or removal failed and the process did not die.
ReturnsCompleteTree ==
    ~damaged => \A w \in Workers : At(w, "parse") => call[w].got.state = "ready"

\* Where a thread may wait for ever: a clone in the main thread has a timeout.
MayHang(w) == IF w \in MainThread THEN {"fetch", "pull"} ELSE GitSteps

\* Every request that waits for the directory is answered, with the tree or
\* with an error, unless a fetch, a pull, or a clone outside the main thread
\* never ends: whatever else fails or hangs, the lock is released.  "Clone
\* timeout prevents hung clones" where the alarm rings; in a pool thread
\* nothing does.
EveryRequestAnswered ==
    (\A w \in Workers : []<>(call[w].pc \notin MayHang(w))) =>
        \A w \in Workers : At(w, "waiting") ~> At(w, "idle")

\* How far a call is, for the caller that waits for it.
Phase(c) ==
    CASE c.pc \in {"idle", "answer"} -> "idle"
      [] c.pc \in {"waiting", "fetch", "pull", "clone", "refs"} -> "asking"
      [] c.pc \in {"checkout", "size", "return"} -> "holding"
      [] c.pc \in {"remove", "removing"} -> IF c.after = "raise" THEN "failing" ELSE "asking"
      [] c.pc = "raise" -> "failing"
      [] c.pc = "parse" -> "returned"

\* What git finds in a directory.
Holds(dir) == IF dir.state \in {"bare", "ready"} THEN dir.tip ELSE NoTip

Caller(c) ==
    [pc  |-> Phase(c), url |-> IF Phase(c) = "idle" THEN NoUrl ELSE c.url,
     got |-> IF c.pc = "parse" THEN c.got.tip ELSE NoTip]

Mirrored == INSTANCE Mirror WITH
    Tips <- Tip, Nothing <- NoTip, tips <- remote,
    mirror <- [n \in Names |-> Holds(repos[n])],
    client <- [w \in Workers |-> Caller(call[w])]

\* Fetching, comparing, pulling, removing and cloning, step by step and by many threads,
\* are to the caller one instant: the directory then holds what the branch of its
\* repository is at, and holds it until the call returns, whatever fails around it.
UpdatesAtOnce == Mirrored!Spec

\* The lock prevents the race between concurrent clones: what the caller
\* parses is a complete tree of the repository it asked for.
ParsesWhatWasAsked ==
    ~damaged => \A w \in Workers : At(w, "answer") =>
        /\ call[w].got.state = "ready"
        /\ call[w].got.tip.url = call[w].url

=============================================================================
