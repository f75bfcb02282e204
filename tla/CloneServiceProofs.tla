------------------------- MODULE CloneServiceProofs -------------------------
(***************************************************************************)
(* What clone_repository returns, for any repositories, names, requests    *)
(* and threads, whatever the network, the disk and the process do; that a  *)
(* request goes forward and is never stuck; and what it takes for its      *)
(* directory to hold still until it has parsed it.                         *)
(***************************************************************************)
EXTENDS CloneService, TLAPS

\* The states a directory may be in while its lock holder is at pc, as long
\* as nothing was damaged.
StatesAt(pc) ==
    IF pc \in {"fetch", "pull", "size", "return"} THEN {"ready"}
    ELSE IF pc \in {"clone", "raise"} THEN {"absent"}
    ELSE IF pc = "refs" THEN {"partial"}
    ELSE IF pc = "checkout" THEN {"bare"}
    ELSE DirStates

\* A remote's tip is its own, at a commit that was pushed.
Remotes == \A u \in Urls : remote[u].url = u

\* A worker that is not idle serves a repository, and its branch has not gone
\* back since the request came.
Serving ==
    /\ \A u \in Urls : remote[u].commit <= pushes
    /\ \A w \in Workers : ~At(w, "idle") =>
         /\ call[w].url \in Urls
         /\ call[w].asked <= Origin(w).commit

\* A worker inside holds the lock of its directory, and nobody else does.
Locks ==
    /\ \A w \in Workers : call[w].pc \in Locked =>
         [key |-> NameOf[call[w].url], worker |-> w] \in held
    /\ \A h \in held :
         call[h.worker].pc \in Locked /\ h.key = NameOf[call[h.worker].url]
    /\ \A g, h \in held : g.key = h.key => g = h

Current(c, dir) == dir.tip.url = c.url /\ dir.tip.commit >= c.asked

\* From the refs of a fresh clone on, or the pull, the commit is right.
Tips ==
    \A w \in Workers : call[w].pc \in {"checkout", "size", "return"} =>
        Current(call[w], Repo(w))

Trees ==
    ~damaged =>
        /\ \A w \in Workers : call[w].pc \in Locked =>
             Repo(w).state \in StatesAt(call[w].pc)
        /\ \A n \in Names :
             (\A h \in held : h.key # n) => repos[n].state \in {"absent", "ready"}

IInv ==
    /\ TypeOK /\ Remotes /\ Serving /\ Locks /\ Tips /\ Trees
    /\ ReturnsWhatWasAsked /\ ReturnsCompleteTree

-----------------------------------------------------------------------------
\* Two workers inside never share a directory.
LEMMA Exclusive ==
    ASSUME Locks, NEW v \in Workers, NEW w \in Workers,
           call[v].pc \in Locked, call[w].pc \in Locked,
           NameOf[call[v].url] = NameOf[call[w].url]
    PROVE  v = w
<1>1. [key |-> NameOf[call[v].url], worker |-> v]
        = [key |-> NameOf[call[w].url], worker |-> w]
  BY DEF Locks
<1> QED BY <1>1

\* A step inside the lock: w goes on with request c and leaves directory d.
LEMMA LockedStep ==
    ASSUME IInv, TypeOK', NEW w \in Workers, NEW c \in Request, NEW d \in Dir,
           call[w].pc \in Locked, c.pc \in Locked,
           c.url = call[w].url, c.asked = call[w].asked,
           call' = [call EXCEPT ![w] = c],
           repos' = [repos EXCEPT ![NameOf[call[w].url]] = d],
           UNCHANGED <<remote, pushes, held>>,
           \/ damaged' = TRUE
           \/ damaged' = damaged /\ (~damaged => d.state \in StatesAt(c.pc)),
           c.pc \in {"checkout", "size", "return"} => Current(c, d)
    PROVE  IInv'
<1> USE DEF IInv
<1>1. /\ call \in [Workers -> Request] /\ repos \in [Names -> Dir]
      /\ held \subseteq [key : Names, worker : Workers]
  BY DEF TypeOK
<1>2. call'[w] = c /\ \A v \in Workers \ {w} : call'[v] = call[v]
  BY <1>1
<1>3. call[w].pc # "idle" /\ c.pc \notin {"idle", "parse"}
  BY DEF Locked
<1>4. call[w].url \in Urls /\ NameOf[call[w].url] \in Names
  BY <1>3, CloneAssumption DEF Serving, At
<1>5. repos'[NameOf[call[w].url]] = d
  BY <1>1, <1>4
<1>6. \A v \in Workers \ {w} : call[v].pc \in Locked =>
        repos'[NameOf[call[v].url]] = repos[NameOf[call[v].url]]
  <2> SUFFICES ASSUME NEW v \in Workers \ {w}, call[v].pc \in Locked
               PROVE  repos'[NameOf[call[v].url]] = repos[NameOf[call[v].url]]
    OBVIOUS
  <2>1. NameOf[call[v].url] # NameOf[call[w].url]
    BY Exclusive
  <2> QED BY <2>1, <1>1
<1>7. Remotes'
  BY DEF Remotes
<1>8. Serving'
  BY <1>2, <1>3 DEF Serving, At, Origin
<1>9. Locks'
  BY <1>1, <1>2 DEF Locks
<1>10. Tips'
  <2> SUFFICES ASSUME NEW v \in Workers,
                      call'[v].pc \in {"checkout", "size", "return"}
               PROVE  Current(call'[v], repos'[NameOf[call'[v].url]])
    BY DEF Tips, Repo, Current
  <2>1. CASE v = w
    BY <2>1, <1>2, <1>5
  <2>2. CASE v # w
    <3>1. call[v].pc \in Locked /\ call'[v] = call[v]
      BY <2>2, <1>2 DEF Locked
    <3> QED BY <2>2, <3>1, <1>6 DEF Tips, Repo
  <2> QED BY <2>1, <2>2
<1>11. Trees'
  <2> SUFFICES ASSUME ~damaged'
               PROVE  /\ \A v \in Workers : call'[v].pc \in Locked =>
                           repos'[NameOf[call'[v].url]].state \in StatesAt(call'[v].pc)
                      /\ \A n \in Names : (\A h \in held : h.key # n) =>
                           repos'[n].state \in {"absent", "ready"}
    BY DEF Trees, Repo, StatesAt
  <2>1. ~damaged /\ d.state \in StatesAt(c.pc)
    OBVIOUS
  <2>2. ASSUME NEW v \in Workers, call'[v].pc \in Locked
        PROVE  repos'[NameOf[call'[v].url]].state \in StatesAt(call'[v].pc)
    <3>1. CASE v = w
      BY <3>1, <2>1, <1>2, <1>5
    <3>2. CASE v # w
      BY <3>2, <2>1, <2>2, <1>2, <1>6 DEF Trees, Repo
    <3> QED BY <3>1, <3>2
  <2>3. ASSUME NEW n \in Names, \A h \in held : h.key # n
        PROVE  repos'[n].state \in {"absent", "ready"}
    <3>1. n # NameOf[call[w].url]
      BY <2>3 DEF Locks
    <3> QED BY <3>1, <2>1, <2>3, <1>1 DEF Trees
  <2> QED BY <2>2, <2>3
<1>12. ReturnsWhatWasAsked' /\ ReturnsCompleteTree'
  BY <1>2, <1>3 DEF ReturnsWhatWasAsked, ReturnsCompleteTree, At
<1> QED BY <1>7, <1>8, <1>9, <1>10, <1>11, <1>12

\* The facts every step of a worker inside starts from.
LEMMA Inside ==
    ASSUME IInv, NEW w \in Workers, call[w].pc \in Locked
    PROVE  /\ call[w] \in Request /\ call[w].url \in Urls
           /\ NameOf[call[w].url] \in Names /\ Repo(w) \in Dir
           /\ Origin(w) \in Tip /\ Origin(w).url = call[w].url
           /\ call[w].asked <= Origin(w).commit
           /\ repos = [repos EXCEPT ![NameOf[call[w].url]] = Repo(w)]
           /\ ~damaged => Repo(w).state \in StatesAt(call[w].pc)
<1>1. call[w].pc # "idle"
  BY DEF Locked
<1>2. call[w].url \in Urls
  BY <1>1 DEF IInv, Serving, At
<1> QED BY <1>1, <1>2, CloneAssumption
        DEF IInv, TypeOK, Repo, Origin, Remotes, Serving, Trees, At

\* Updating: the steps that fetch, compare, pull and give up.
LEMMA UpdateStep ==
    ASSUME IInv, TypeOK', NEW w \in Workers,
           Fetch(w) \/ UpdateFails(w) \/ Pull(w) \/ Diverged(w)
    PROVE  IInv'
<1>1. call[w].pc \in {"fetch", "pull"} /\ call[w].pc \in Locked
  BY DEF Fetch, UpdateFails, Pull, Diverged, At, Locked
<1>2. ASSUME NEW pc \in {"return", "pull", "remove"}, GoTo(w, pc),
             pc = "return" => Repo(w).tip = Origin(w)
      PROVE  IInv'
  <2> DEFINE c == [call[w] EXCEPT !.pc = pc]
  <2>1. /\ c \in Request /\ c.pc = pc /\ c.url = call[w].url
        /\ c.asked = call[w].asked /\ pc \in Locked
    BY <1>1, Inside DEF Request, Locked
  <2>2. call' = [call EXCEPT ![w] = c] /\ UNCHANGED <<remote, pushes, held, damaged, repos>>
    BY <1>2 DEF GoTo
  <2>3. ~damaged => Repo(w).state \in StatesAt(pc)
    BY <1>1, Inside DEF StatesAt, Dir
  <2>4. pc = "return" => Current(c, Repo(w))
    <3>1. Origin(w).commit \in Nat /\ call[w].asked \in Nat
      BY <1>1, Inside DEF Tip, Request
    <3> QED BY <1>1, <1>2, <2>1, <3>1, Inside DEF Current
  <2>5. damaged \in BOOLEAN
    BY DEF IInv, TypeOK
  <2> QED BY <1>1, <2>1, <2>2, <2>3, <2>4, <2>5, Inside, LockedStep
<1>3. CASE Fetch(w)
  BY <1>2, <1>3 DEF Fetch, UpToDate
<1>4. CASE UpdateFails(w) \/ Diverged(w)
  BY <1>2, <1>4 DEF UpdateFails, Diverged
<1>5. CASE Pull(w)
  <2>1. PICK s \in {Repo(w).state, "ready"} :
          Make(w, [state |-> s, tip |-> Origin(w)], "return")
    BY <1>5 DEF Pull
  <2> DEFINE c == [call[w] EXCEPT !.pc = "return"]
             d == [state |-> s, tip |-> Origin(w)]
  <2>2. /\ c \in Request /\ c.pc = "return" /\ c.url = call[w].url
        /\ c.asked = call[w].asked /\ "return" \in Locked
    BY <1>1, Inside DEF Request, Locked
  <2>3. d \in Dir
    BY <1>1, Inside DEF Dir, DirStates
  <2>4. ~damaged => d.state \in StatesAt("return")
    BY <1>1, Inside DEF StatesAt
  <2>5. Current(c, d)
    <3>1. Origin(w).commit \in Nat /\ call[w].asked \in Nat
      BY <1>1, Inside DEF Tip, Request
    <3> QED BY <1>1, <2>2, <3>1, Inside DEF Current
  <2>6. /\ call' = [call EXCEPT ![w] = c]
        /\ repos' = [repos EXCEPT ![NameOf[call[w].url]] = d]
        /\ UNCHANGED <<remote, pushes, held, damaged>>
    BY <2>1 DEF Make
  <2>7. damaged \in BOOLEAN
    BY DEF IInv, TypeOK
  <2> QED BY <1>1, <2>2, <2>3, <2>4, <2>5, <2>6, <2>7, LockedStep
<1> QED BY <1>3, <1>4, <1>5

\* Removing: rmtree, the timeout and the size check that lead to it.
LEMMA RemoveStep ==
    ASSUME IInv, TypeOK', NEW w \in Workers,
           Remove(w) \/ Removed(w) \/ RemoveFails(w) \/ Alarm(w) \/ Size(w)
    PROVE  IInv'
<1>0. damaged \in BOOLEAN
  BY DEF IInv, TypeOK
<1>1. call[w].pc \in Locked
  BY DEF Remove, Removed, RemoveFails, Alarm, Size, At, Locked
<1>2. CASE Remove(w)
  <2>1. PICK s \in {"partial", "bare"} :
          Make(w, [Repo(w) EXCEPT !.state = s], "removing")
    BY <1>2 DEF Remove
  <2> DEFINE c == [call[w] EXCEPT !.pc = "removing"]
             d == [Repo(w) EXCEPT !.state = s]
  <2>2. /\ c \in Request /\ c.pc = "removing" /\ c.url = call[w].url
        /\ c.asked = call[w].asked /\ "removing" \in Locked
    BY <1>1, Inside DEF Request, Locked
  <2>3. d \in Dir
    BY <1>1, Inside DEF Dir, DirStates
  <2>4. d.state \in StatesAt("removing")
    BY <2>3 DEF StatesAt, Dir
  <2>5. /\ call' = [call EXCEPT ![w] = c]
        /\ repos' = [repos EXCEPT ![NameOf[call[w].url]] = d]
        /\ UNCHANGED <<remote, pushes, held, damaged>>
    BY <2>1 DEF Make
  <2> QED BY <1>0, <1>1, <2>2, <2>3, <2>4, <2>5, LockedStep
<1>3. CASE Removed(w)
  <2> DEFINE c == [call[w] EXCEPT !.pc = call[w].after]
  <2>1. /\ c \in Request /\ c.pc \in {"clone", "raise"} /\ c.url = call[w].url
        /\ c.asked = call[w].asked /\ {"clone", "raise"} \subseteq Locked
    BY <1>1, Inside DEF Request, Locked
  <2>2. Gone \in Dir
    BY DEF Gone, NoTip, Dir, DirStates, Tip
  <2>3. Gone.state \in StatesAt(c.pc)
    BY <2>1 DEF StatesAt, Gone
  <2>4. /\ call' = [call EXCEPT ![w] = c]
        /\ repos' = [repos EXCEPT ![NameOf[call[w].url]] = Gone]
        /\ UNCHANGED <<remote, pushes, held, damaged>>
    BY <1>3 DEF Removed, Make
  <2> QED BY <1>0, <1>1, <2>1, <2>2, <2>3, <2>4, LockedStep
<1>4. CASE RemoveFails(w)
  <2> DEFINE c == [call[w] EXCEPT !.pc = "raise"]
  <2>1. /\ c \in Request /\ c.pc = "raise" /\ c.url = call[w].url
        /\ c.asked = call[w].asked /\ "raise" \in Locked
    BY <1>1, Inside DEF Request, Locked
  <2>2. /\ call' = [call EXCEPT ![w] = c]
        /\ repos' = repos /\ damaged' = TRUE
        /\ UNCHANGED <<remote, pushes, held>>
    BY <1>4 DEF RemoveFails
  <2>3. /\ Repo(w) \in Dir
        /\ repos' = [repos EXCEPT ![NameOf[call[w].url]] = Repo(w)]
    BY <1>1, <2>2, Inside
  <2>4. c.pc \notin {"checkout", "size", "return"}
    BY <2>1
  <2> HIDE DEF c
  <2> QED BY <1>1, <2>1, <2>2, <2>3, <2>4, LockedStep
<1>5. CASE Alarm(w)
  <2> DEFINE pc == IF Repo(w).state = "absent" THEN "raise" ELSE "remove"
             c == [call[w] EXCEPT !.pc = pc, !.after = "raise"]
  <2>1. /\ c \in Request /\ c.pc = pc /\ c.url = call[w].url
        /\ c.asked = call[w].asked /\ pc \in Locked
        /\ pc \notin {"checkout", "size", "return"}
    BY <1>1, Inside DEF Request, Locked
  <2>2. Repo(w).state \in StatesAt(pc)
    BY <1>1, Inside DEF StatesAt, Dir
  <2>3. /\ call' = [call EXCEPT ![w] = c]
        /\ UNCHANGED <<remote, pushes, held, damaged, repos>>
    BY <1>5 DEF Alarm
  <2> HIDE DEF c, pc
  <2> QED BY <1>0, <1>1, <2>1, <2>2, <2>3, Inside, LockedStep
<1>6. CASE Size(w)
  <2> DEFINE pc == IF Repo(w).tip.big THEN "remove" ELSE "return"
             c == [call[w] EXCEPT !.pc = pc, !.after = "raise"]
  <2>1. /\ c \in Request /\ c.pc = pc /\ c.url = call[w].url
        /\ c.asked = call[w].asked /\ pc \in Locked
    BY <1>1, Inside DEF Request, Locked
  <2>2. ~damaged => Repo(w).state \in StatesAt(pc)
    BY <1>1, <1>6, Inside DEF StatesAt, Dir, Size, At, DirStates
  <2>3. Current(c, Repo(w))
    BY <1>6, <2>1 DEF IInv, Tips, Size, At, Current
  <2>4. /\ call' = [call EXCEPT ![w] = c]
        /\ UNCHANGED <<remote, pushes, held, damaged, repos>>
    BY <1>6 DEF Size
  <2>5. /\ Repo(w) \in Dir
        /\ repos' = [repos EXCEPT ![NameOf[call[w].url]] = Repo(w)]
    BY <1>1, <2>4, Inside
  <2> HIDE DEF c, pc
  <2> QED BY <1>0, <1>1, <2>1, <2>2, <2>3, <2>4, <2>5, LockedStep
<1> QED BY <1>2, <1>3, <1>4, <1>5, <1>6

\* Cloning afresh.
LEMMA CloneStep ==
    ASSUME IInv, TypeOK', NEW w \in Workers,
           \/ Clone(w) \/ CloneRefs(w) \/ Checkout(w)
           \/ CloneFails(w) \/ CheckoutFails(w)
    PROVE  IInv'
<1>0. damaged \in BOOLEAN
  BY DEF IInv, TypeOK
<1>1. call[w].pc \in {"clone", "refs", "checkout"} /\ call[w].pc \in Locked
  BY DEF Clone, CloneRefs, Checkout, CloneFails, CheckoutFails, At, Locked
<1>2. ASSUME NEW d \in Dir, NEW pc \in {"refs", "checkout", "size", "raise"},
             Make(w, d, pc), d.state \in StatesAt(pc),
             pc \in {"checkout", "size"} => Current(call[w], d)
      PROVE  IInv'
  <2> DEFINE c == [call[w] EXCEPT !.pc = pc]
  <2>1. /\ c \in Request /\ c.pc = pc /\ c.url = call[w].url
        /\ c.asked = call[w].asked /\ pc \in Locked
    BY <1>1, Inside DEF Request, Locked
  <2>2. /\ call' = [call EXCEPT ![w] = c]
        /\ repos' = [repos EXCEPT ![NameOf[call[w].url]] = d]
        /\ UNCHANGED <<remote, pushes, held, damaged>>
    BY <1>2 DEF Make
  <2>3. pc \in {"checkout", "size"} => Current(c, d)
    BY <1>2, <2>1 DEF Current
  <2> QED BY <1>0, <1>1, <1>2, <2>1, <2>2, <2>3, LockedStep
<1>3. NoTip \in Tip
  BY DEF NoTip, Tip
<1>4. CASE Clone(w)
  BY <1>2, <1>3, <1>4 DEF Clone, Dir, DirStates, StatesAt
<1>5. CASE CloneRefs(w)
  <2> DEFINE d == [state |-> "bare", tip |-> Origin(w)]
  <2>1. d \in Dir /\ d.state \in StatesAt("checkout")
    BY <1>1, Inside DEF Dir, DirStates, StatesAt
  <2>2. Current(call[w], d)
    <3>1. Origin(w).commit \in Nat /\ call[w].asked \in Nat
      BY <1>1, Inside DEF Tip, Request
    <3> QED BY <1>1, <3>1, Inside DEF Current
  <2> QED BY <1>2, <1>5, <2>1, <2>2 DEF CloneRefs
<1>6. CASE Checkout(w)
  <2> DEFINE d == [Repo(w) EXCEPT !.state = "ready"]
  <2>1. d \in Dir /\ d.state \in StatesAt("size") /\ d.tip = Repo(w).tip
    BY <1>1, Inside DEF Dir, DirStates, StatesAt
  <2>2. Current(call[w], d)
    BY <1>6, <2>1 DEF Checkout, At, IInv, Tips, Current
  <2> QED BY <1>2, <1>6, <2>1, <2>2 DEF Checkout
<1>7. CASE CloneFails(w)
  <2>1. Gone \in Dir /\ Gone.state \in StatesAt("raise")
    BY <1>3 DEF Gone, Dir, DirStates, StatesAt
  <2> QED BY <1>2, <1>7, <2>1 DEF CloneFails
<1>8. CASE CheckoutFails(w)
  <2> DEFINE c == [call[w] EXCEPT !.pc = "raise"]
  <2>1. /\ c \in Request /\ c.pc = "raise" /\ c.url = call[w].url
        /\ c.asked = call[w].asked /\ "raise" \in Locked
    BY <1>1, Inside DEF Request, Locked
  <2>2. /\ call' = [call EXCEPT ![w] = c]
        /\ repos' = repos /\ damaged' = TRUE
        /\ UNCHANGED <<remote, pushes, held>>
    BY <1>8 DEF CheckoutFails
  <2>3. /\ Repo(w) \in Dir
        /\ repos' = [repos EXCEPT ![NameOf[call[w].url]] = Repo(w)]
    BY <1>1, <2>2, Inside
  <2>4. c.pc \notin {"checkout", "size", "return"}
    BY <2>1
  <2> HIDE DEF c
  <2> QED BY <1>1, <2>1, <2>2, <2>3, <2>4, LockedStep
<1> QED BY <1>4, <1>5, <1>6, <1>7, <1>8

\* The hosts move on: what was current for a request stays so.
LEMMA PushStep ==
    ASSUME IInv, TypeOK', NEW u \in Urls, NEW line, NEW big, Push(u, line, big)
    PROVE  IInv'
<1> USE DEF IInv
<1>1. /\ remote' = [remote EXCEPT ![u] =
                      [url |-> u, line |-> line, commit |-> pushes + 1, big |-> big]]
      /\ pushes' = pushes + 1 /\ UNCHANGED <<repos, held, call, damaged>>
  BY DEF Push
<1>2. remote \in [Urls -> Tip] /\ pushes \in Nat
  BY DEF TypeOK
<1>3. \A v \in Urls : /\ remote'[v].commit >= remote[v].commit
                      /\ remote'[v].commit <= pushes + 1 /\ remote'[v].url = v
                      /\ remote'[v].commit \in Nat /\ remote[v].commit \in Nat
  <2> SUFFICES ASSUME NEW v \in Urls
               PROVE  /\ remote'[v].commit >= remote[v].commit
                      /\ remote'[v].commit <= pushes + 1 /\ remote'[v].url = v
                      /\ remote'[v].commit \in Nat /\ remote[v].commit \in Nat
    OBVIOUS
  <2>1. remote[v].commit \in Nat /\ remote[v].commit <= pushes /\ remote[v].url = v
    BY <1>2 DEF Serving, Tip, Remotes
  <2>2. CASE v = u
    BY <1>1, <1>2, <2>1, <2>2
  <2>3. CASE v # u
    BY <1>1, <1>2, <2>1, <2>3
  <2> QED BY <2>2, <2>3
<1>4. Remotes'
  BY <1>3 DEF Remotes
<1>5. Serving'
  <2>1. \A w \in Workers : ~At(w, "idle") =>
          call[w].url \in Urls /\ call[w].asked <= remote'[call[w].url].commit
    <3> SUFFICES ASSUME NEW w \in Workers, ~At(w, "idle")
                 PROVE  call[w].url \in Urls /\ call[w].asked <= remote'[call[w].url].commit
      OBVIOUS
    <3>1. call[w].url \in Urls /\ call[w].asked <= remote[call[w].url].commit
      BY DEF Serving, Origin
    <3>2. call[w].asked \in Nat
      BY DEF TypeOK, Request
    <3> QED BY <3>1, <3>2, <1>3
  <2> QED BY <2>1, <1>1, <1>3 DEF Serving, At, Origin
<1>6. Locks' /\ Tips' /\ Trees' /\ ReturnsWhatWasAsked' /\ ReturnsCompleteTree'
  BY <1>1 DEF Locks, Tips, Trees, ReturnsWhatWasAsked, ReturnsCompleteTree, At,
              Repo, Current
<1> QED BY <1>4, <1>5, <1>6

\* Taking the lock: the directory is nobody else's, so it is whole or absent.
LEMMA AcquireStep ==
    ASSUME IInv, TypeOK', NEW w \in Workers, Acquire(w)
    PROVE  IInv'
<1> USE DEF IInv
<1> DEFINE n == NameOf[call[w].url]
           pc == IF Repo(w).state = "absent" THEN "clone" ELSE "fetch"
           c == [call[w] EXCEPT !.pc = pc]
<1>1. /\ call[w].pc = "waiting" /\ \A h \in held : h.key # n
      /\ held' = held \cup {[key |-> n, worker |-> w]}
      /\ call' = [call EXCEPT ![w] = c]
      /\ UNCHANGED <<remote, pushes, repos, damaged>>
  BY DEF Acquire, At, LockKey
<1>2. /\ call \in [Workers -> Request] /\ repos \in [Names -> Dir]
      /\ held \subseteq [key : Names, worker : Workers]
  BY DEF TypeOK
<1>3. call[w].url \in Urls /\ n \in Names
  BY <1>1, CloneAssumption DEF Serving, At
<1>4. /\ c.pc = pc /\ c.url = call[w].url /\ c.asked = call[w].asked
      /\ pc \in {"clone", "fetch"} /\ {"clone", "fetch"} \subseteq Locked
  BY <1>2 DEF Request, Locked
<1>5. call'[w] = c /\ \A v \in Workers \ {w} : call'[v] = call[v]
  BY <1>1, <1>2
<1>6. ~damaged => Repo(w).state \in StatesAt(pc)
  BY <1>1, <1>2, <1>3 DEF Trees, Repo, StatesAt
<1> HIDE DEF c, pc, n
<1>7. Remotes' /\ Serving'
  BY <1>1, <1>4, <1>5 DEF Remotes, Serving, At, Origin
<1>8. Locks'
  <2>1. \A v \in Workers : call'[v].pc \in Locked =>
          [key |-> NameOf[call'[v].url], worker |-> v] \in held'
    BY <1>1, <1>4, <1>5 DEF Locks, n
  <2>2. \A h \in held' :
          call'[h.worker].pc \in Locked /\ h.key = NameOf[call'[h.worker].url]
    <3>1. call[w].pc \notin Locked
      BY <1>1 DEF Locked
    <3>2. \A h \in held : h.worker \in Workers \ {w}
      BY <1>2, <3>1 DEF Locks
    <3> QED BY <1>1, <1>4, <1>5, <3>2 DEF Locks, n
  <2>3. \A g, h \in held' : g.key = h.key => g = h
    BY <1>1 DEF Locks
  <2> QED BY <2>1, <2>2, <2>3 DEF Locks
<1>9. Tips' /\ ReturnsWhatWasAsked' /\ ReturnsCompleteTree'
  BY <1>1, <1>4, <1>5 DEF Tips, ReturnsWhatWasAsked, ReturnsCompleteTree, At, Repo,
                          Current
<1>10. Trees'
  <2>1. \A v \in Workers : ~damaged /\ call'[v].pc \in Locked =>
          repos[NameOf[call'[v].url]].state \in StatesAt(call'[v].pc)
    BY <1>4, <1>5, <1>6 DEF Trees, Repo
  <2> QED BY <2>1, <1>1 DEF Trees, Repo, StatesAt
<1> QED BY <1>7, <1>8, <1>9, <1>10

\* Leaving the lock, by return or by exception.
LEMMA ReleaseStep ==
    ASSUME IInv, TypeOK', NEW w \in Workers, Return(w) \/ Raise(w)
    PROVE  IInv'
<1> USE DEF IInv
<1>1. /\ held' = {h \in held : h.worker # w}
      /\ UNCHANGED <<remote, pushes, repos, damaged>>
      /\ call[w].pc \in {"return", "raise"}
  BY DEF Return, Raise, Unlocked, At
<1>2. /\ call \in [Workers -> Request] /\ repos \in [Names -> Dir]
      /\ held \subseteq [key : Names, worker : Workers]
  BY DEF TypeOK
<1>3. /\ \A v \in Workers \ {w} : call'[v] = call[v]
      /\ call'[w].pc \in {"parse", "idle"}
      /\ call'[w].pc = "parse" =>
           /\ call[w].pc = "return"
           /\ call'[w].url = call[w].url /\ call'[w].asked = call[w].asked
           /\ call'[w].got = Repo(w)
  <2>1. CASE Return(w)
    BY <2>1, <1>2 DEF Return, At, Request
  <2>2. CASE Raise(w)
    BY <2>2, <1>2 DEF Raise, NoRequest
  <2> QED BY <2>1, <2>2
<1>4. call'[w].pc \notin Locked /\ call[w].pc \in Locked
  BY <1>1, <1>3 DEF Locked
<1>5. call[w].pc # "idle"
  BY <1>1
<1>6. Remotes' /\ Serving'
  BY <1>1, <1>3, <1>5 DEF Remotes, Serving, At, Origin
<1>7. Locks'
  <2>1. \A h \in held' : h.worker \in Workers \ {w}
    BY <1>1, <1>2
  <2> QED BY <2>1, <1>1, <1>3, <1>4 DEF Locks
<1>8. Tips'
  BY <1>1, <1>3 DEF Tips, Repo, Current
<1>9. Trees'
  <2> SUFFICES ASSUME ~damaged
               PROVE  /\ \A v \in Workers : call'[v].pc \in Locked =>
                           repos[NameOf[call'[v].url]].state \in StatesAt(call'[v].pc)
                      /\ \A n \in Names : (\A h \in held' : h.key # n) =>
                           repos[n].state \in {"absent", "ready"}
    BY <1>1 DEF Trees, Repo, StatesAt
  <2>1. \A v \in Workers : call'[v].pc \in Locked =>
          repos[NameOf[call'[v].url]].state \in StatesAt(call'[v].pc)
    BY <1>3, <1>4 DEF Trees, Repo
  <2>2. ASSUME NEW n \in Names, \A h \in held' : h.key # n
        PROVE  repos[n].state \in {"absent", "ready"}
    <3>1. CASE \A h \in held : h.key # n
      BY <3>1 DEF Trees
    <3>2. CASE \E h \in held : h.key = n
      <4>1. n = NameOf[call[w].url]
        BY <2>2, <3>2, <1>1 DEF Locks
      <4> QED BY <4>1, <1>1, <1>4 DEF Trees, Repo, StatesAt
    <3> QED BY <3>1, <3>2
  <2> QED BY <2>1, <2>2
<1>10. ReturnsWhatWasAsked'
  <2>1. call'[w].pc = "parse" => Current(call[w], Repo(w))
    BY <1>3 DEF Tips
  <2> QED BY <2>1, <1>3 DEF ReturnsWhatWasAsked, At, Current
<1>11. ReturnsCompleteTree'
  <2>1. call'[w].pc = "parse" /\ ~damaged => Repo(w).state = "ready"
    BY <1>3, <1>4 DEF Trees, StatesAt
  <2> QED BY <2>1, <1>1, <1>3 DEF ReturnsCompleteTree, At
<1> QED BY <1>6, <1>7, <1>8, <1>9, <1>10, <1>11

\* The steps outside the lock.
LEMMA OutsideStep ==
    ASSUME IInv, TypeOK', NEW w \in Workers,
           (\E u \in Urls : Ask(w, u)) \/ Parse(w) \/ Answer(w)
    PROVE  IInv'
<1> USE DEF IInv
<1>1. /\ UNCHANGED <<remote, pushes, repos, held, damaged>>
      /\ call[w].pc \notin Locked
  BY DEF Ask, Parse, Answer, At, Locked
<1>2. call \in [Workers -> Request] /\ remote \in [Urls -> Tip]
      /\ held \subseteq [key : Names, worker : Workers]
  BY DEF TypeOK
<1>3. /\ \A v \in Workers \ {w} : call'[v] = call[v]
      /\ call'[w].pc \in {"waiting", "answer", "idle"}
      /\ call'[w].pc # "idle" =>
           /\ call'[w].url \in Urls
           /\ call'[w].asked <= remote[call'[w].url].commit
  <2>1. ASSUME NEW u \in Urls, Ask(w, u)
        PROVE  /\ \A v \in Workers \ {w} : call'[v] = call[v]
               /\ call'[w].pc = "waiting" /\ call'[w].url = u
               /\ call'[w].asked <= remote[u].commit
    <3>1. call'[w] = [NoRequest EXCEPT !.pc = "waiting", !.url = u,
                                       !.asked = remote[u].commit]
      BY <2>1, <1>2 DEF Ask
    <3>2. remote[u].commit \in Nat
      BY <1>2 DEF Tip
    <3>3. /\ call'[w].pc = "waiting" /\ call'[w].url = u
          /\ call'[w].asked = remote[u].commit
      BY <3>1 DEF NoRequest
    <3>4. \A v \in Workers \ {w} : call'[v] = call[v]
      BY <2>1, <1>2 DEF Ask
    <3> QED BY <3>2, <3>3, <3>4
  <2>2. CASE Parse(w)
    BY <2>2, <1>2 DEF Parse, At, Request, Serving, Origin
  <2>3. CASE Answer(w)
    BY <2>3, <1>2 DEF Answer, NoRequest
  <2> QED BY <2>1, <2>2, <2>3
<1>4. call'[w].pc \notin Locked
  BY <1>3 DEF Locked
<1>5. Remotes' /\ Serving'
  BY <1>1, <1>3 DEF Remotes, Serving, At, Origin
<1>6. Locks'
  <2>1. \A h \in held : h.worker \in Workers \ {w}
    BY <1>1, <1>2 DEF Locks
  <2> QED BY <2>1, <1>1, <1>3, <1>4 DEF Locks
<1>7. Tips'
  BY <1>1, <1>3 DEF Tips, Repo, Current
<1>8. Trees'
  <2>1. \A v \in Workers : ~damaged /\ call'[v].pc \in Locked =>
          repos[NameOf[call'[v].url]].state \in StatesAt(call'[v].pc)
    BY <1>3, <1>4 DEF Trees, Repo
  <2> QED BY <2>1, <1>1 DEF Trees, Repo, StatesAt
<1>9. ReturnsWhatWasAsked' /\ ReturnsCompleteTree'
  BY <1>1, <1>3 DEF ReturnsWhatWasAsked, ReturnsCompleteTree, At
<1> QED BY <1>5, <1>6, <1>7, <1>8, <1>9

LEMMA CrashStep ==
    ASSUME IInv, TypeOK', Crash
    PROVE  IInv'
<1>1. /\ UNCHANGED <<remote, pushes, repos>> /\ held' = {} /\ damaged'
      /\ \A w \in Workers : call'[w].pc = "idle"
  BY DEF Crash, NoRequest
<1> QED BY <1>1 DEF IInv, Remotes, Serving, Locks, Tips, Trees, Locked, At,
                    ReturnsWhatWasAsked, ReturnsCompleteTree

-----------------------------------------------------------------------------
\* The step that follows is typed once the request and the directory are.
LEMMA TypedMove ==
    ASSUME TypeOK, NEW w \in Workers, NEW c \in Request, NEW d \in Dir,
           call' = [call EXCEPT ![w] = c],
           repos' = repos \/ repos' = [repos EXCEPT ![NameOf[call[w].url]] = d],
           damaged' \in BOOLEAN, UNCHANGED <<remote, pushes, held, requests>>
    PROVE  TypeOK'
BY DEF TypeOK

\* Every step of a worker keeps the types.
LEMMA WorkerTypes ==
    ASSUME TypeOK, Remotes, Serving, NEW w \in Workers, Git(w) \/ Own(w)
    PROVE  TypeOK'
<1> USE DEF TypeOK
<1>1. /\ call[w] \in Request /\ damaged \in BOOLEAN /\ Gone \in Dir /\ NoTip \in Tip
      /\ NoRequest \in Request
  BY DEF Gone, NoTip, Dir, DirStates, Tip, NoRequest, Request
<1>2. ~At(w, "idle") => /\ call[w].url \in Urls /\ NameOf[call[w].url] \in Names
                        /\ Repo(w) \in Dir /\ Origin(w) \in Tip
  BY CloneAssumption DEF Serving, Repo, Origin
<1>3. ASSUME NEW pc \in Locked, GoTo(w, pc)
      PROVE  TypeOK'
  <2>1. [call[w] EXCEPT !.pc = pc] \in Request
    BY <1>1 DEF Request
  <2>2. call' = [call EXCEPT ![w] = [call[w] EXCEPT !.pc = pc]]
    BY <1>3 DEF GoTo
  <2> QED BY <1>1, <1>3, <2>1, <2>2, TypedMove DEF GoTo
<1>4. ASSUME NEW pc \in Locked, NEW d \in Dir, Make(w, d, pc)
      PROVE  TypeOK'
  <2>1. [call[w] EXCEPT !.pc = pc] \in Request
    BY <1>1 DEF Request
  <2>2. call' = [call EXCEPT ![w] = [call[w] EXCEPT !.pc = pc]]
    BY <1>4 DEF Make
  <2> QED BY <1>1, <1>4, <2>1, <2>2, TypedMove DEF Make
<1>5. CASE Fetch(w) \/ UpdateFails(w) \/ Diverged(w)
  BY <1>3, <1>5 DEF Fetch, UpdateFails, Diverged, Locked
<1>6. CASE Pull(w)
  <2>1. PICK s \in {Repo(w).state, "ready"} :
          Make(w, [state |-> s, tip |-> Origin(w)], "return")
    BY <1>6 DEF Pull
  <2>2. [state |-> s, tip |-> Origin(w)] \in Dir
    BY <1>2, <1>6 DEF Pull, At, Dir, DirStates
  <2> QED BY <1>4, <2>1, <2>2 DEF Locked
<1>7. CASE Remove(w)
  <2>1. PICK s \in {"partial", "bare"} :
          Make(w, [Repo(w) EXCEPT !.state = s], "removing")
    BY <1>7 DEF Remove
  <2>2. [Repo(w) EXCEPT !.state = s] \in Dir
    BY <1>2, <1>7 DEF Remove, At, Dir, DirStates
  <2> QED BY <1>4, <2>1, <2>2 DEF Locked
<1>8. CASE Removed(w)
  BY <1>1, <1>4, <1>8 DEF Removed, Request, Locked
<1>9. CASE Clone(w)
  <2>1. [state |-> "partial", tip |-> NoTip] \in Dir
    BY <1>1 DEF Dir, DirStates
  <2> QED BY <1>4, <1>9, <2>1 DEF Clone, Locked
<1>10. CASE CloneRefs(w)
  <2>1. [state |-> "bare", tip |-> Origin(w)] \in Dir
    BY <1>2, <1>10 DEF CloneRefs, At, Dir, DirStates
  <2> QED BY <1>4, <1>10, <2>1 DEF CloneRefs, Locked
<1>11. CASE Checkout(w)
  <2>1. [Repo(w) EXCEPT !.state = "ready"] \in Dir
    BY <1>2, <1>11 DEF Checkout, At, Dir, DirStates
  <2> QED BY <1>4, <1>11, <2>1 DEF Checkout, Locked
<1>12. CASE CloneFails(w)
  BY <1>1, <1>4, <1>12 DEF CloneFails, Locked
<1>13. CASE RemoveFails(w) \/ CheckoutFails(w)
  <2>1. [call[w] EXCEPT !.pc = "raise"] \in Request
    BY <1>1 DEF Request, Locked
  <2> QED BY <1>13, <1>1, <2>1, TypedMove DEF RemoveFails, CheckoutFails
<1>14. CASE Alarm(w) \/ Size(w)
  <2>1. \A pc \in {"remove", "return", "raise"} :
          [call[w] EXCEPT !.pc = pc, !.after = "raise"] \in Request
    BY <1>1 DEF Request, Locked
  <2>2. PICK pc \in {"remove", "return", "raise"} :
          call' = [call EXCEPT ![w] = [call[w] EXCEPT !.pc = pc, !.after = "raise"]]
    BY <1>14, <1>1 DEF Alarm, Size
  <2> QED BY <1>14, <1>1, <2>1, <2>2, TypedMove DEF Alarm, Size
<1>15. CASE Acquire(w)
  <2>1. \A pc \in {"clone", "fetch"} : [call[w] EXCEPT !.pc = pc] \in Request
    BY <1>1 DEF Request, Locked
  <2>2. held' \subseteq [key : Names, worker : Workers]
    BY <1>15, <1>2 DEF Acquire, At, LockKey
  <2> QED BY <1>15, <2>1, <2>2 DEF Acquire
<1>16. CASE Return(w)
  <2>1. [call[w] EXCEPT !.pc = "parse", !.got = Repo(w)] \in Request
    BY <1>1, <1>2, <1>16 DEF Return, At, Request
  <2> QED BY <1>16, <2>1 DEF Return, Unlocked
<1>17. CASE Raise(w)
  BY <1>17, <1>1 DEF Raise, Unlocked
<1>18. CASE Parse(w)
  <2>1. [call[w] EXCEPT !.pc = "answer", !.got = Repo(w)] \in Request
    BY <1>1, <1>2, <1>18 DEF Parse, At, Request
  <2> QED BY <1>18, <2>1 DEF Parse
<1>19. CASE Answer(w)
  BY <1>19, <1>1 DEF Answer
<1> QED BY <1>5, <1>6, <1>7, <1>8, <1>9, <1>10, <1>11, <1>12, <1>13, <1>14, <1>15,
           <1>16, <1>17, <1>18, <1>19 DEF Git, Own

LEMMA TypeStep ==
    ASSUME IInv, [Next]_vars
    PROVE  TypeOK'
<1> USE DEF IInv, TypeOK
<1>1. NoRequest \in Request
  BY DEF NoRequest, Request, Gone, NoTip, Dir, DirStates, Tip
<1>2. ASSUME NEW u \in Urls, NEW line \in 0 .. pushes + 1, NEW big \in BOOLEAN,
             Push(u, line, big)
      PROVE  TypeOK'
  <2>1. [url |-> u, line |-> line, commit |-> pushes + 1, big |-> big] \in Tip
    BY DEF Tip
  <2> QED BY <1>2, <2>1 DEF Push
<1>3. ASSUME NEW w \in Workers, NEW u \in Urls, Ask(w, u)
      PROVE  TypeOK'
  <2>1. [NoRequest EXCEPT !.pc = "waiting", !.url = u,
                          !.asked = remote[u].commit] \in Request
    BY <1>1 DEF Request, Tip
  <2> QED BY <1>3, <2>1 DEF Ask
<1>4. ASSUME NEW w \in Workers, Git(w) \/ Own(w)
      PROVE  TypeOK'
  BY <1>4, WorkerTypes
<1>5. CASE Crash
  BY <1>5, <1>1 DEF Crash
<1>6. CASE UNCHANGED vars
  BY <1>6 DEF vars
<1> QED BY <1>2, <1>3, <1>4, <1>5, <1>6 DEF Next

-----------------------------------------------------------------------------
\* The inductive invariant: the lock keeps the others out of a directory from
\* the moment its commit is right to the moment the path is returned.
THEOREM CloneInvariant == Spec => []IInv
<1>1. Init => IInv
  <2> SUFFICES ASSUME Init
               PROVE  IInv
    OBVIOUS
  <2>1. NoTip \in Tip /\ Gone \in Dir /\ NoRequest \in Request
    BY DEF NoRequest, Request, Gone, NoTip, Dir, DirStates, Tip
  <2>2. TypeOK
    BY <2>1 DEF Init, TypeOK, Tip, NoTip
  <2>3. Remotes /\ Serving
    BY DEF Init, Remotes, Serving, NoTip, NoRequest, At
  <2>4. Locks /\ Tips /\ Trees
    BY DEF Init, Locks, Tips, Trees, NoRequest, Locked, Gone
  <2>5. ReturnsWhatWasAsked /\ ReturnsCompleteTree
    BY DEF Init, ReturnsWhatWasAsked, ReturnsCompleteTree, NoRequest, At
  <2> QED BY <2>2, <2>3, <2>4, <2>5 DEF IInv
<1>2. IInv /\ [Next]_vars => IInv'
  <2> SUFFICES ASSUME IInv, [Next]_vars
               PROVE  IInv'
    OBVIOUS
  <2>1. TypeOK'
    BY TypeStep
  <2>2. ASSUME NEW u \in Urls, NEW line \in 0 .. pushes + 1, NEW big \in BOOLEAN,
               Push(u, line, big)
        PROVE  IInv'
    BY <2>1, <2>2, PushStep
  <2>3. ASSUME NEW w \in Workers, NEW u \in Urls, Ask(w, u)
        PROVE  IInv'
    BY <2>1, <2>3, OutsideStep
  <2>4. ASSUME NEW w \in Workers, Git(w)
        PROVE  IInv'
    BY <2>1, <2>4, UpdateStep, CloneStep DEF Git
  <2>5. ASSUME NEW w \in Workers, Own(w)
        PROVE  IInv'
    BY <2>1, <2>5, AcquireStep, RemoveStep, ReleaseStep, OutsideStep DEF Own
  <2>6. CASE Crash
    BY <2>1, <2>6, CrashStep
  <2>7. CASE UNCHANGED vars
    BY <2>7, <2>1 DEF vars, IInv, Remotes, Serving, Locks, Tips, Trees, Current,
                      ReturnsWhatWasAsked, ReturnsCompleteTree, At, Repo, Origin
  <2> QED BY <2>2, <2>3, <2>4, <2>5, <2>6, <2>7 DEF Next
<1> QED BY <1>1, <1>2, PTL DEF Spec

\* The state of the service keeps its types.
THEOREM CloneTypeCorrect == Spec => []TypeOK
<1>1. IInv => TypeOK
  BY DEF IInv
<1> QED BY <1>1, CloneInvariant, PTL

\* clone_repository returns the repository that was asked for, no older than
\* when it was asked for, whatever fails.
THEOREM CloneReturnsWhatWasAsked == Spec => []ReturnsWhatWasAsked
<1>1. IInv => ReturnsWhatWasAsked
  BY DEF IInv
<1> QED BY <1>1, CloneInvariant, PTL

\* And with a complete tree, unless the disk or the process failed before.
THEOREM CloneReturnsCompleteTree == Spec => []ReturnsCompleteTree
<1>1. IInv => ReturnsCompleteTree
  BY DEF IInv
<1> QED BY <1>1, CloneInvariant, PTL

-----------------------------------------------------------------------------
(***************************************************************************)
(* The detailed service implements the directory of Mirror.                *)
(***************************************************************************)
mirror == [n \in Names |-> Holds(repos[n])]

client == [w \in Workers |-> Caller(call[w])]

\* What a call at c.pc finds in its directory, damaged or not: git opened it
\* before the pull, made it in the clone, and it is under the lock since.
Sound(c, dir) ==
    /\ c.pc \in {"pull", "checkout", "size", "return"} => dir.state \in {"bare", "ready"}
    /\ c.pc = "refs" => dir.state \notin {"bare", "ready"}

Whole == \A w \in Workers : Sound(call[w], Repo(w))

\* One instant of the abstract directory, or none.
Instant == [Mirrored!Next]_(Mirrored!mirrorVars)

\* Nobody else relies on the directory of a worker inside.
LEMMA HoldsAlone ==
    ASSUME IInv, NEW w \in Workers, call[w].pc \in Locked,
           Phase(call[w]) # "holding"
    PROVE  Mirrored!Holders(NameOf[call[w].url]) = {}
<1> SUFFICES ASSUME NEW v \in Workers, client[v].pc = "holding",
                    NameOf[client[v].url] = NameOf[call[w].url]
             PROVE  FALSE
  BY DEF Mirrored!Holders, client
<1>1. /\ call[v] \in Request /\ call[w] \in Request
      /\ Phase(call[v]) = "holding" /\ client[v].url = call[v].url
  BY DEF client, Caller, IInv, TypeOK
<1>2. call[v].pc \in {"checkout", "size", "return"}
  BY <1>1 DEF Phase, Request, Locked
<1>3. call[v].pc \in Locked
  BY <1>2 DEF Locked
<1>4. v = w
  BY <1>1, <1>3, Exclusive DEF IInv
<1> QED BY <1>1, <1>4

\* A step inside the lock is an instant: nothing, the refresh, the drop of a
\* directory nobody relies on, or a failure.
LEMMA LockedInstant ==
    ASSUME IInv, Whole, NEW w \in Workers, NEW c \in Request, NEW d \in Dir,
           call[w].pc \in Locked, c.pc \in Locked, c.url = call[w].url,
           call' = [call EXCEPT ![w] = c],
           repos' = [repos EXCEPT ![NameOf[call[w].url]] = d],
           remote' = remote, Sound(c, d),
           \/ Phase(c) = Phase(call[w]) /\ Holds(d) = Holds(Repo(w))
           \/ /\ Phase(call[w]) = "asking" /\ Phase(c) = "holding"
              /\ Holds(d) = Origin(w)
           \/ /\ Phase(c) = Phase(call[w]) /\ Phase(c) # "holding"
              /\ Holds(d) = NoTip
           \/ /\ Phase(call[w]) \in {"asking", "holding"} /\ Phase(c) = "failing"
              /\ Holds(d) = Holds(Repo(w))
    PROVE  Whole' /\ Instant
<1> DEFINE n == NameOf[call[w].url]
<1>1. /\ call \in [Workers -> Request] /\ repos \in [Names -> Dir]
      /\ n \in Names /\ call[w].url \in Urls
  BY Inside DEF IInv, TypeOK
<1>2. Whole'
  <2> SUFFICES ASSUME NEW v \in Workers
               PROVE  Sound(call'[v], repos'[NameOf[call'[v].url]])
    BY DEF Whole, Repo, Sound
  <2>1. CASE v = w
    BY <2>1, <1>1
  <2>2. CASE v # w /\ call[v].pc \in Locked
    <3>1. NameOf[call[v].url] # n
      BY <2>2, Exclusive DEF IInv
    <3>2. call'[v] = call[v] /\ repos'[NameOf[call[v].url]] = repos[NameOf[call[v].url]]
      BY <2>2, <3>1, <1>1
    <3> QED BY <3>2 DEF Whole, Repo
  <2>3. CASE v # w /\ call[v].pc \notin Locked
    BY <2>3, <1>1 DEF Sound, Locked
  <2> QED BY <2>1, <2>2, <2>3
<1>3. repos' = [repos EXCEPT ![n] = d] /\ Repo(w) = repos[n]
  BY DEF Repo
<1> HIDE DEF n
<1>4. client' = [client EXCEPT ![w] = Caller(c)]
  BY <1>1 DEF client
<1>5. mirror' = [mirror EXCEPT ![n] = Holds(d)]
  BY <1>1, <1>3 DEF mirror
<1>6. /\ client \in [Workers -> {Caller(call[v]) : v \in Workers}]
      /\ client[w] = Caller(call[w])
      /\ mirror \in [Names -> {Holds(repos[m]) : m \in Names}]
      /\ mirror[n] = Holds(Repo(w))
  BY <1>1, <1>3 DEF client, mirror
<1>7. /\ Phase(c) # "idle" /\ Phase(call[w]) # "idle"
      /\ c.pc # "parse" /\ call[w].pc # "parse"
  BY DEF Phase, Locked
<1>8. /\ Caller(c) = [pc |-> Phase(c), url |-> call[w].url, got |-> NoTip]
      /\ Caller(call[w]) = [pc |-> Phase(call[w]), url |-> call[w].url, got |-> NoTip]
  BY <1>7 DEF Caller
<1>9. Caller(c) = [Caller(call[w]) EXCEPT !.pc = Phase(c)]
  BY <1>8
<1>10. client[w].pc = Phase(call[w]) /\ client[w].url = call[w].url
  BY <1>6, <1>8
<1>11. client' = [client EXCEPT ![w].pc = Phase(c)]
  BY <1>4, <1>5, <1>6, <1>9
<1>12. CASE Phase(c) = Phase(call[w]) /\ Holds(d) = Holds(Repo(w))
  <2>1. client' = client
    BY <1>12, <1>4, <1>5, <1>6, <1>8
  <2>2. mirror' = mirror
    BY <1>12, <1>4, <1>5, <1>6
  <2> QED BY <1>2, <2>1, <2>2 DEF Instant, Mirrored!mirrorVars, mirror, client
<1>13. CASE /\ Phase(call[w]) = "asking" /\ Phase(c) = "holding"
            /\ Holds(d) = Origin(w)
  <2>1. Mirrored!Holders(n) = {}
    BY <1>13, HoldsAlone DEF n
  <2>2. Mirrored!Refresh(w)
    BY <1>13, <1>4, <1>5, <1>10, <1>11, <2>1 DEF Mirrored!Refresh, mirror, client, n, Origin
  <2> QED BY <1>2, <2>2 DEF Instant, Mirrored!Next
<1>14. CASE /\ Phase(c) = Phase(call[w]) /\ Phase(c) # "holding"
            /\ Holds(d) = NoTip
  <2>1. Mirrored!Holders(n) = {}
    BY <1>14, HoldsAlone DEF n
  <2>2. client' = client
    BY <1>14, <1>4, <1>5, <1>6, <1>8
  <2>3. Mirrored!Drop(n)
    BY <1>14, <1>4, <1>5, <2>1, <2>2 DEF Mirrored!Drop, mirror, client
  <2> QED BY <1>1, <1>2, <2>3 DEF Instant, Mirrored!Next
<1>15. CASE /\ Phase(call[w]) \in {"asking", "holding"} /\ Phase(c) = "failing"
            /\ Holds(d) = Holds(Repo(w))
  <2>1. mirror' = mirror
    BY <1>15, <1>4, <1>5, <1>6
  <2>2. Mirrored!Fail(w)
    BY <1>15, <1>10, <1>11, <2>1 DEF Mirrored!Fail, mirror, client
  <2> QED BY <1>2, <2>2 DEF Instant, Mirrored!Next
<1> QED BY <1>12, <1>13, <1>14, <1>15

\* Updating: only a return from a compare, or a pull, changes what a caller sees.
LEMMA UpdateInstant ==
    ASSUME IInv, Whole, NEW w \in Workers,
           Fetch(w) \/ UpdateFails(w) \/ Pull(w) \/ Diverged(w)
    PROVE  Whole' /\ Instant
<1>1. call[w].pc \in {"fetch", "pull"} /\ call[w].pc \in Locked
  BY DEF Fetch, UpdateFails, Pull, Diverged, At, Locked
<1>2. /\ call[w] \in Request /\ Repo(w) \in Dir
      /\ repos = [repos EXCEPT ![NameOf[call[w].url]] = Repo(w)]
  BY <1>1, Inside
<1>3. Phase(call[w]) = "asking"
  BY <1>1 DEF Phase
<1>4. ASSUME NEW pc \in {"return", "pull", "remove"}, GoTo(w, pc),
             pc # "remove" => Repo(w).state \in {"bare", "ready"},
             pc = "return" => Repo(w).tip = Origin(w)
      PROVE  Whole' /\ Instant
  <2> DEFINE c == [call[w] EXCEPT !.pc = pc]
  <2>1. c \in Request /\ c.pc = pc /\ c.url = call[w].url /\ pc \in Locked
    BY <1>2 DEF Request, Locked
  <2>2. call' = [call EXCEPT ![w] = c] /\ UNCHANGED <<remote, repos>>
    BY <1>4 DEF GoTo
  <2>3. repos' = [repos EXCEPT ![NameOf[call[w].url]] = Repo(w)]
    BY <1>2, <2>2
  <2>4. Sound(c, Repo(w))
    BY <1>4, <2>1 DEF Sound
  <2>5. /\ pc = "return" => Phase(c) = "holding" /\ Holds(Repo(w)) = Origin(w)
        /\ pc = "pull" => Phase(c) = "asking"
        /\ pc = "remove" => Phase(c) \in {"asking", "failing"}
    BY <1>4, <2>1 DEF Phase, Holds
  <2> HIDE DEF c
  <2> QED BY <1>1, <1>2, <1>3, <2>1, <2>2, <2>3, <2>4, <2>5, LockedInstant
<1>5. CASE Fetch(w)
  BY <1>4, <1>5 DEF Fetch, UpToDate
<1>6. CASE UpdateFails(w) \/ Diverged(w)
  BY <1>4, <1>6 DEF UpdateFails, Diverged
<1>7. CASE Pull(w)
  <2>1. PICK s \in {Repo(w).state, "ready"} :
          Make(w, [state |-> s, tip |-> Origin(w)], "return")
    BY <1>7 DEF Pull
  <2> DEFINE c == [call[w] EXCEPT !.pc = "return"]
             d == [state |-> s, tip |-> Origin(w)]
  <2>2. c \in Request /\ c.pc = "return" /\ c.url = call[w].url /\ "return" \in Locked
    BY <1>2 DEF Request, Locked
  <2>3. d \in Dir /\ d.state = s /\ d.tip = Origin(w)
    BY <1>1, <1>2, Inside DEF Dir, DirStates
  <2>4. s \in {"bare", "ready"}
    BY <1>7 DEF Whole, Sound, Pull, At
  <2>5. /\ call' = [call EXCEPT ![w] = c] /\ remote' = remote
        /\ repos' = [repos EXCEPT ![NameOf[call[w].url]] = d]
    BY <2>1 DEF Make
  <2>6. Sound(c, d) /\ Phase(c) = "holding" /\ Holds(d) = Origin(w)
    BY <2>2, <2>3, <2>4 DEF Sound, Phase, Holds
  <2> HIDE DEF c, d
  <2> QED BY <1>1, <1>3, <2>2, <2>3, <2>5, <2>6, LockedInstant
<1> QED BY <1>5, <1>6, <1>7

\* Removing: the directory goes from its callers at once, or the call fails.
LEMMA RemoveInstant ==
    ASSUME IInv, Whole, NEW w \in Workers,
           Remove(w) \/ Removed(w) \/ RemoveFails(w) \/ Alarm(w) \/ Size(w)
    PROVE  Whole' /\ Instant
<1>1. call[w].pc \in Locked
  BY DEF Remove, Removed, RemoveFails, Alarm, Size, At, Locked
<1>2. /\ call[w] \in Request /\ Repo(w) \in Dir
      /\ repos = [repos EXCEPT ![NameOf[call[w].url]] = Repo(w)]
  BY <1>1, Inside
<1>3. CASE Remove(w)
  <2>1. PICK s \in {"partial", "bare"} :
          /\ Make(w, [Repo(w) EXCEPT !.state = s], "removing")
          /\ s = "bare" => Repo(w).state \in {"bare", "ready"}
    BY <1>3 DEF Remove
  <2> DEFINE c == [call[w] EXCEPT !.pc = "removing"]
             d == [Repo(w) EXCEPT !.state = s]
  <2>2. /\ c \in Request /\ c.pc = "removing" /\ c.url = call[w].url
        /\ c.after = call[w].after /\ "removing" \in Locked
    BY <1>2 DEF Request, Locked
  <2>3. d \in Dir /\ d.state = s /\ d.tip = Repo(w).tip
    BY <1>2 DEF Dir, DirStates
  <2>4. /\ call' = [call EXCEPT ![w] = c] /\ remote' = remote
        /\ repos' = [repos EXCEPT ![NameOf[call[w].url]] = d]
    BY <2>1 DEF Make
  <2>5. Phase(c) = Phase(call[w]) /\ Phase(c) # "holding" /\ Sound(c, d)
    BY <1>3, <2>2 DEF Phase, Sound, Remove, At
  <2>6. Holds(d) = NoTip \/ Holds(d) = Holds(Repo(w))
    BY <2>1, <2>3 DEF Holds
  <2> HIDE DEF c, d
  <2> QED BY <1>1, <2>2, <2>3, <2>4, <2>5, <2>6, LockedInstant
<1>4. CASE Removed(w)
  <2> DEFINE c == [call[w] EXCEPT !.pc = call[w].after]
  <2>1. /\ c \in Request /\ c.pc = call[w].after /\ c.url = call[w].url
        /\ c.pc \in {"clone", "raise"} /\ {"clone", "raise"} \subseteq Locked
    BY <1>2 DEF Request, Locked
  <2>2. Gone \in Dir /\ Holds(Gone) = NoTip
    BY DEF Gone, NoTip, Dir, DirStates, Tip, Holds
  <2>3. /\ call' = [call EXCEPT ![w] = c] /\ remote' = remote
        /\ repos' = [repos EXCEPT ![NameOf[call[w].url]] = Gone]
    BY <1>4 DEF Removed, Make
  <2>4. Phase(c) = Phase(call[w]) /\ Phase(c) # "holding" /\ Sound(c, Gone)
    BY <1>4, <2>1 DEF Phase, Sound, Removed, At
  <2> HIDE DEF c
  <2> QED BY <1>1, <2>1, <2>2, <2>3, <2>4, LockedInstant
<1>5. CASE RemoveFails(w)
  <2> DEFINE c == [call[w] EXCEPT !.pc = "raise"]
  <2>1. c \in Request /\ c.pc = "raise" /\ c.url = call[w].url /\ "raise" \in Locked
    BY <1>2 DEF Request, Locked
  <2>2. /\ call' = [call EXCEPT ![w] = c] /\ remote' = remote
        /\ repos' = [repos EXCEPT ![NameOf[call[w].url]] = Repo(w)]
    BY <1>2, <1>5 DEF RemoveFails
  <2>3. /\ Phase(c) = "failing" /\ Sound(c, Repo(w))
        /\ Phase(call[w]) \in {"asking", "failing"}
    BY <1>5, <2>1 DEF Phase, Sound, RemoveFails, At
  <2> HIDE DEF c
  <2> QED BY <1>1, <1>2, <2>1, <2>2, <2>3, LockedInstant
<1>6. CASE Alarm(w)
  <2> DEFINE pc == IF Repo(w).state = "absent" THEN "raise" ELSE "remove"
             c == [call[w] EXCEPT !.pc = pc, !.after = "raise"]
  <2>1. /\ c \in Request /\ c.pc \in {"raise", "remove"} /\ c.after = "raise"
        /\ c.url = call[w].url /\ {"raise", "remove"} \subseteq Locked
    BY <1>2 DEF Request, Locked
  <2>2. /\ call' = [call EXCEPT ![w] = c] /\ remote' = remote
        /\ repos' = [repos EXCEPT ![NameOf[call[w].url]] = Repo(w)]
    BY <1>2, <1>6 DEF Alarm
  <2>3. /\ Phase(c) = "failing" /\ Sound(c, Repo(w))
        /\ Phase(call[w]) \in {"asking", "holding"}
    BY <1>6, <2>1 DEF Phase, Sound, Alarm
  <2> HIDE DEF c, pc
  <2> QED BY <1>1, <1>2, <2>1, <2>2, <2>3, LockedInstant
<1>7. CASE Size(w)
  <2> DEFINE pc == IF Repo(w).tip.big THEN "remove" ELSE "return"
             c == [call[w] EXCEPT !.pc = pc, !.after = "raise"]
  <2>1. /\ c \in Request /\ c.pc \in {"remove", "return"} /\ c.after = "raise"
        /\ c.url = call[w].url /\ {"remove", "return"} \subseteq Locked
    BY <1>2 DEF Request, Locked
  <2>2. /\ call' = [call EXCEPT ![w] = c] /\ remote' = remote
        /\ repos' = [repos EXCEPT ![NameOf[call[w].url]] = Repo(w)]
    BY <1>2, <1>7 DEF Size
  <2>3. /\ Phase(c) \in {"failing", "holding"} /\ Phase(call[w]) = "holding"
        /\ Sound(c, Repo(w))
    BY <1>7, <2>1 DEF Phase, Sound, Size, At, Whole
  <2> HIDE DEF c, pc
  <2> QED BY <1>1, <1>2, <2>1, <2>2, <2>3, LockedInstant
<1> QED BY <1>3, <1>4, <1>5, <1>6, <1>7

\* Cloning: the directory is there for its caller when its refs are.
LEMMA CloneInstant ==
    ASSUME IInv, Whole, NEW w \in Workers,
           \/ Clone(w) \/ CloneRefs(w) \/ Checkout(w)
           \/ CloneFails(w) \/ CheckoutFails(w)
    PROVE  Whole' /\ Instant
<1>1. call[w].pc \in {"clone", "refs", "checkout"} /\ call[w].pc \in Locked
  BY DEF Clone, CloneRefs, Checkout, CloneFails, CheckoutFails, At, Locked
<1>2. /\ call[w] \in Request /\ Repo(w) \in Dir /\ Origin(w) \in Tip
      /\ repos = [repos EXCEPT ![NameOf[call[w].url]] = Repo(w)]
  BY <1>1, Inside
<1>3. NoTip \in Tip /\ Gone \in Dir /\ Holds(Gone) = NoTip
  BY DEF Gone, NoTip, Dir, DirStates, Tip, Holds
<1>4. ASSUME NEW d \in Dir, NEW pc \in {"refs", "checkout", "size", "raise"},
             call' = [call EXCEPT ![w].pc = pc], remote' = remote,
             repos' = [repos EXCEPT ![NameOf[call[w].url]] = d],
             \/ /\ call[w].pc = "clone" /\ pc = "refs"
                /\ d.state \notin {"bare", "ready"} /\ Holds(Repo(w)) = NoTip
             \/ /\ call[w].pc = "refs" /\ pc = "checkout"
                /\ d.state = "bare" /\ d.tip = Origin(w)
             \/ /\ call[w].pc = "checkout" /\ pc = "size"
                /\ d.state = "ready" /\ d.tip = Holds(Repo(w))
             \/ /\ pc = "raise" /\ Holds(d) = Holds(Repo(w))
                /\ call[w].pc \in {"refs", "checkout"}
      PROVE  Whole' /\ Instant
  <2> DEFINE c == [call[w] EXCEPT !.pc = pc]
  <2>1. c \in Request /\ c.pc = pc /\ c.url = call[w].url /\ pc \in Locked
    BY <1>2 DEF Request, Locked
  <2>2. call' = [call EXCEPT ![w] = c]
    BY <1>4
  <2>3. Sound(c, d)
    BY <1>4, <2>1 DEF Sound
  <2>4. /\ pc = "refs" => Phase(c) = "asking"
        /\ pc \in {"checkout", "size"} => Phase(c) = "holding"
        /\ pc = "raise" => Phase(c) = "failing"
    BY <2>1 DEF Phase
  <2>5. /\ call[w].pc \in {"clone", "refs"} => Phase(call[w]) = "asking"
        /\ call[w].pc = "checkout" => Phase(call[w]) = "holding"
    BY DEF Phase
  <2>6. Holds(d) = IF d.state \in {"bare", "ready"} THEN d.tip ELSE NoTip
    BY DEF Holds
  <2> HIDE DEF c
  <2>7. CASE call[w].pc = "clone" /\ pc = "refs"
    BY <1>1, <1>4, <2>1, <2>2, <2>3, <2>4, <2>5, <2>6, <2>7, LockedInstant
  <2>8. CASE call[w].pc = "refs" /\ pc = "checkout"
    BY <1>1, <1>4, <2>1, <2>2, <2>3, <2>4, <2>5, <2>6, <2>8, LockedInstant
  <2>9. CASE call[w].pc = "checkout" /\ pc = "size"
    BY <1>1, <1>4, <2>1, <2>2, <2>3, <2>4, <2>5, <2>6, <2>9, LockedInstant
  <2>10. CASE pc = "raise"
    BY <1>1, <1>4, <2>1, <2>2, <2>3, <2>4, <2>5, <2>10, LockedInstant
  <2> QED BY <1>4, <2>7, <2>8, <2>9, <2>10
<1>5. CASE Clone(w)
  <2> DEFINE d == [state |-> "partial", tip |-> NoTip]
  <2>1. d \in Dir /\ Holds(Repo(w)) = NoTip
    BY <1>3, <1>5 DEF Dir, DirStates, Clone, Holds
  <2> QED BY <1>4, <1>5, <2>1 DEF Clone, Make, At
<1>6. CASE CloneRefs(w)
  <2> DEFINE d == [state |-> "bare", tip |-> Origin(w)]
  <2>1. d \in Dir
    BY <1>2 DEF Dir, DirStates
  <2> QED BY <1>4, <1>6, <2>1 DEF CloneRefs, Make, At
<1>7. CASE Checkout(w)
  <2> DEFINE d == [Repo(w) EXCEPT !.state = "ready"]
  <2>1. d \in Dir /\ d.state = "ready" /\ d.tip = Repo(w).tip
    BY <1>2 DEF Dir, DirStates
  <2>2. Holds(Repo(w)) = Repo(w).tip
    BY <1>7 DEF Whole, Sound, Checkout, At, Holds
  <2>3. /\ call' = [call EXCEPT ![w].pc = "size"] /\ remote' = remote
        /\ repos' = [repos EXCEPT ![NameOf[call[w].url]] = d]
        /\ call[w].pc = "checkout"
    BY <1>7 DEF Checkout, Make, At
  <2> HIDE DEF d
  <2> QED BY <1>4, <2>1, <2>2, <2>3
<1>8. CASE CloneFails(w)
  <2>1. Holds(Repo(w)) = NoTip
    BY <1>8 DEF Whole, Sound, CloneFails, At, Holds
  <2> QED BY <1>3, <1>4, <1>8, <2>1 DEF CloneFails, Make, At
<1>9. CASE CheckoutFails(w)
  <2>1. /\ call' = [call EXCEPT ![w].pc = "raise"] /\ remote' = remote
        /\ repos' = [repos EXCEPT ![NameOf[call[w].url]] = Repo(w)]
        /\ call[w].pc = "checkout"
    BY <1>2, <1>9 DEF CheckoutFails, At
  <2> QED BY <1>2, <1>4, <2>1
<1> QED BY <1>5, <1>6, <1>7, <1>8, <1>9

\* Taking the lock is nothing to the caller; leaving it returns or gives up.
LEMMA LockInstant ==
    ASSUME IInv, Whole, NEW w \in Workers, Acquire(w) \/ Return(w) \/ Raise(w)
    PROVE  Whole' /\ Instant
<1>1. /\ call \in [Workers -> Request] /\ call[w] \in Request
      /\ remote' = remote /\ repos' = repos
  BY DEF IInv, TypeOK, Acquire, Return, Raise
<1>2. client \in [Workers -> {Caller(call[v]) : v \in Workers}] /\ client[w] = Caller(call[w])
  BY DEF client
<1>3. mirror' = mirror
  BY <1>1 DEF mirror
<1>4. ASSUME NEW c, call' = [call EXCEPT ![w] = c],
             c.pc \in {"clone", "fetch", "parse", "idle"}
      PROVE  Whole' /\ client' = [client EXCEPT ![w] = Caller(c)]
  <2>1. client' = [client EXCEPT ![w] = Caller(c)]
    BY <1>1, <1>4 DEF client
  <2>2. Whole'
    BY <1>1, <1>4 DEF Whole, Sound, Repo
  <2> QED BY <2>1, <2>2
<1>5. CASE Acquire(w)
  <2> DEFINE pc == IF Repo(w).state = "absent" THEN "clone" ELSE "fetch"
             c == [call[w] EXCEPT !.pc = pc]
  <2>1. /\ c.pc \in {"clone", "fetch"} /\ c.url = call[w].url
        /\ call' = [call EXCEPT ![w] = c] /\ call[w].pc = "waiting"
    BY <1>1, <1>5 DEF Acquire, At, Request
  <2> HIDE DEF c, pc
  <2>2. Whole' /\ client' = [client EXCEPT ![w] = Caller(c)]
    BY <1>4, <2>1
  <2>3. Phase(c) = "asking" /\ Phase(call[w]) = "asking"
    BY <2>1 DEF Phase
  <2>4. Caller(c) = Caller(call[w])
    BY <2>1, <2>3 DEF Caller
  <2>5. client' = client
    BY <1>2, <2>2, <2>4
  <2> QED BY <1>1, <1>3, <2>2, <2>5 DEF Instant, Mirrored!mirrorVars, mirror, client
<1>6. CASE Return(w)
  <2> DEFINE c == [call[w] EXCEPT !.pc = "parse", !.got = Repo(w)]
  <2>1. /\ c.pc = "parse" /\ c.url = call[w].url /\ c.got = Repo(w)
        /\ call' = [call EXCEPT ![w] = c] /\ call[w].pc = "return"
    BY <1>1, <1>6 DEF Return, At, Request
  <2> HIDE DEF c
  <2>2. Whole' /\ client' = [client EXCEPT ![w] = Caller(c)]
    BY <1>4, <2>1
  <2>3. Phase(c) = "returned" /\ Phase(call[w]) = "holding"
    BY <2>1 DEF Phase
  <2>4. Repo(w).state \in {"bare", "ready"}
    BY <2>1 DEF Whole, Sound
  <2>5. /\ NameOf[call[w].url] \in Names
        /\ mirror[NameOf[call[w].url]] = Repo(w).tip
    BY <2>1, <2>4, Inside DEF mirror, Holds, Repo, Locked
  <2>6. /\ client[w].pc = "holding" /\ client[w].url = call[w].url
        /\ Caller(c) = Mirrored!At("returned", call[w].url, Repo(w).tip)
    BY <1>2, <2>1, <2>3 DEF Caller, Mirrored!At
  <2>7. client' = [client EXCEPT ![w] =
                     Mirrored!At("returned", call[w].url, mirror[NameOf[call[w].url]])]
    BY <2>2, <2>5, <2>6
  <2>8. Mirrored!Return(w)
    BY <1>1, <1>3, <2>6, <2>7 DEF Mirrored!Return, mirror, client
  <2> QED BY <2>2, <2>8 DEF Instant, Mirrored!Next
<1>7. CASE Raise(w)
  <2>1. /\ call' = [call EXCEPT ![w] = NoRequest] /\ NoRequest.pc = "idle"
        /\ call[w].pc = "raise"
    BY <1>7 DEF Raise, At, NoRequest
  <2>2. Whole' /\ client' = [client EXCEPT ![w] = Caller(NoRequest)]
    BY <1>4, <2>1
  <2>3. Caller(NoRequest) = Mirrored!Idle
    BY <2>1 DEF Caller, Phase, Mirrored!Idle, Mirrored!At
  <2>4. client[w].pc = "failing"
    BY <1>2, <2>1 DEF Caller, Phase
  <2>5. Mirrored!Leave(w)
    BY <1>1, <1>3, <2>2, <2>3, <2>4 DEF Mirrored!Leave, mirror, client
  <2> QED BY <2>2, <2>5 DEF Instant, Mirrored!Next
<1> QED BY <1>5, <1>6, <1>7

\* Asking, parsing and answering.
LEMMA CallerInstant ==
    ASSUME IInv, Whole, NEW w \in Workers,
           (\E u \in Urls : Ask(w, u)) \/ Parse(w) \/ Answer(w)
    PROVE  Whole' /\ Instant
<1>1. /\ call \in [Workers -> Request] /\ call[w] \in Request
      /\ remote' = remote /\ repos' = repos
  <2>1. call \in [Workers -> Request]
    BY DEF IInv, TypeOK
  <2>2. remote' = remote /\ repos' = repos
    <3>1. ASSUME NEW u \in Urls, Ask(w, u)
          PROVE  remote' = remote /\ repos' = repos
      BY <3>1, Zenon DEF Ask
    <3> QED BY <3>1 DEF Parse, Answer
  <2> QED BY <2>1, <2>2
<1>2. client \in [Workers -> {Caller(call[v]) : v \in Workers}] /\ client[w] = Caller(call[w])
  BY DEF client
<1>3. mirror' = mirror
  BY <1>1 DEF mirror
<1>4. ASSUME NEW c, call' = [call EXCEPT ![w] = c],
             c.pc \in {"waiting", "answer", "idle"}
      PROVE  Whole' /\ client' = [client EXCEPT ![w] = Caller(c)]
  <2>1. client' = [client EXCEPT ![w] = Caller(c)]
    BY <1>1, <1>4 DEF client
  <2>2. Whole'
    BY <1>1, <1>4 DEF Whole, Sound, Repo
  <2> QED BY <2>1, <2>2
<1>5. ASSUME NEW u \in Urls, Ask(w, u)
      PROVE  Whole' /\ Instant
  <2> DEFINE c == [NoRequest EXCEPT !.pc = "waiting", !.url = u,
                                    !.asked = remote[u].commit]
  <2>1. /\ call' = [call EXCEPT ![w] = c] /\ c.pc = "waiting" /\ c.url = u
        /\ call[w].pc = "idle"
    <3>1. call' = [call EXCEPT ![w] = c] /\ call[w].pc = "idle"
      BY <1>5, Zenon DEF Ask, At
    <3>2. c.pc = "waiting" /\ c.url = u
      BY DEF NoRequest
    <3> QED BY <3>1, <3>2
  <2> HIDE DEF c
  <2>2. Whole' /\ client' = [client EXCEPT ![w] = Caller(c)]
    BY <1>4, <2>1
  <2>3. Caller(c) = Mirrored!At("asking", u, NoTip)
    <3>1. Phase(c) = "asking"
      BY <2>1 DEF Phase
    <3> QED BY <2>1, <3>1 DEF Caller, Mirrored!At
  <2>4. client[w].pc = "idle"
    BY <1>2, <2>1 DEF Caller, Phase
  <2>5. client' = [client EXCEPT ![w] = Mirrored!At("asking", u, NoTip)]
    BY <2>2, <2>3
  <2>6. Mirrored!Ask(w)
    BY <1>1, <1>3, <2>4, <2>5 DEF Mirrored!Ask, mirror, client
  <2> QED BY <2>2, <2>6 DEF Instant, Mirrored!Next
<1>6. CASE Parse(w)
  <2> DEFINE c == [call[w] EXCEPT !.pc = "answer", !.got = Repo(w)]
  <2>1. call' = [call EXCEPT ![w] = c] /\ c.pc = "answer" /\ call[w].pc = "parse"
    BY <1>1, <1>6 DEF Parse, At, Request
  <2> HIDE DEF c
  <2>2. Whole' /\ client' = [client EXCEPT ![w] = Caller(c)]
    BY <1>4, <2>1
  <2>3. Caller(c) = Mirrored!Idle
    BY <2>1 DEF Caller, Phase, Mirrored!Idle, Mirrored!At
  <2>4. client[w].pc = "returned"
    BY <1>2, <2>1 DEF Caller, Phase
  <2>5. Mirrored!Leave(w)
    BY <1>1, <1>3, <2>2, <2>3, <2>4 DEF Mirrored!Leave, mirror, client
  <2> QED BY <2>2, <2>5 DEF Instant, Mirrored!Next
<1>7. CASE Answer(w)
  <2>1. /\ call' = [call EXCEPT ![w] = NoRequest] /\ NoRequest.pc = "idle"
        /\ call[w].pc = "answer"
    BY <1>7 DEF Answer, At, NoRequest
  <2>2. Whole' /\ client' = [client EXCEPT ![w] = Caller(NoRequest)]
    BY <1>4, <2>1
  <2>3. Caller(NoRequest) = Caller(call[w])
    BY <2>1 DEF Caller, Phase
  <2>4. client' = client
    BY <1>2, <2>2, <2>3
  <2> QED BY <1>1, <1>3, <2>2, <2>4 DEF Instant, Mirrored!mirrorVars, mirror, client
<1> QED BY <1>5, <1>6, <1>7

\* Every step of the service is an instant of the directory.
LEMMA EveryInstant ==
    ASSUME IInv, Whole, IInv', [Next]_vars
    PROVE  Whole' /\ Instant
<1>1. ASSUME NEW u \in Urls, NEW line \in 0 .. pushes + 1, NEW big \in BOOLEAN,
             Push(u, line, big)
      PROVE  Whole' /\ Instant
  <2>1. call' = call /\ repos' = repos
    BY <1>1 DEF Push
  <2>2. mirror' = mirror /\ client' = client
    BY <2>1 DEF mirror, client
  <2>3. remote' \in [Urls -> Tip] /\ \A v \in Urls \ {u} : remote'[v] = remote[v]
    BY <1>1 DEF IInv, TypeOK, Push
  <2>4. Mirrored!Advance
    BY <2>2, <2>3 DEF Mirrored!Advance, mirror, client
  <2> QED BY <2>1, <2>4 DEF Instant, Mirrored!Next, Whole, Repo
<1>2. ASSUME NEW w \in Workers, NEW u \in Urls, Ask(w, u)
      PROVE  Whole' /\ Instant
  BY <1>2, CallerInstant
<1>3. ASSUME NEW w \in Workers, Git(w)
      PROVE  Whole' /\ Instant
  BY <1>3, UpdateInstant, CloneInstant DEF Git
<1>4. ASSUME NEW w \in Workers, Own(w)
      PROVE  Whole' /\ Instant
  BY <1>4, RemoveInstant, LockInstant, CallerInstant DEF Own
<1>5. CASE Crash
  <2>1. /\ remote' = remote /\ repos' = repos
        /\ call' = [w \in Workers |-> NoRequest] /\ NoRequest.pc = "idle"
    BY <1>5 DEF Crash, NoRequest
  <2>2. Caller(NoRequest) = Mirrored!Idle
    BY <2>1 DEF Caller, Phase, Mirrored!Idle, Mirrored!At
  <2>3. client' = [w \in Workers |-> Mirrored!Idle] /\ mirror' = mirror
    BY <2>1, <2>2 DEF client, mirror
  <2>4. Mirrored!Die
    BY <2>1, <2>3 DEF Mirrored!Die, mirror, client
  <2>5. Whole'
    BY <2>1 DEF Whole, Sound
  <2> QED BY <2>4, <2>5 DEF Instant, Mirrored!Next
<1>6. CASE UNCHANGED vars
  <2>1. remote' = remote /\ repos' = repos /\ call' = call
    BY <1>6 DEF vars
  <2> QED BY <2>1 DEF Whole, Repo, Instant, Mirrored!mirrorVars
<1> QED BY <1>1, <1>2, <1>3, <1>4, <1>5, <1>6 DEF Next

\* To its callers, clone_repository brings the directory up to date in one
\* instant, and the directory stays as it was left until the call returns.
THEOREM CloneUpdatesAtOnce == Spec => UpdatesAtOnce
<1>1. Init => Mirrored!Init /\ Whole
  <2> SUFFICES ASSUME Init
               PROVE  Mirrored!Init /\ Whole
    OBVIOUS
  <2>1. /\ NoRequest.pc = "idle" /\ Holds(Gone) = NoTip
        /\ \A u \in Urls : [NoTip EXCEPT !.url = u] \in Tip
    BY DEF NoRequest, Holds, Gone, NoTip, Tip
  <2>2. Caller(NoRequest) = Mirrored!Idle
    BY <2>1 DEF Caller, Phase, Mirrored!Idle, Mirrored!At
  <2>3. remote \in [Urls -> Tip]
    BY <2>1 DEF Init
  <2>4. /\ mirror = [n \in Names |-> NoTip]
        /\ client = [w \in Workers |-> Mirrored!Idle]
    BY <2>1, <2>2 DEF Init, mirror, client
  <2> QED BY <2>1, <2>3, <2>4 DEF Init, Mirrored!Init, Whole, Sound, mirror, client
<1>2. ASSUME IInv, Whole, IInv', [Next]_vars
      PROVE  Whole' /\ [Mirrored!Next]_(Mirrored!mirrorVars)
  BY <1>2, EveryInstant DEF Instant
<1> QED BY <1>1, <1>2, CloneInvariant, PTL DEF Spec, UpdatesAtOnce, Mirrored!Spec

-----------------------------------------------------------------------------
(***************************************************************************)
(* What the liveness of the service rests on, beside fairness: a request   *)
(* only moves towards its end, and is never stuck on the way.              *)
(***************************************************************************)
\* How many steps of its own a request has left at most: no request comes back
\* to a step it was at.
StepsLeft(c) ==
    CASE c.pc = "waiting" -> 12 [] c.pc = "fetch" -> 11 [] c.pc = "pull" -> 10
      [] c.pc = "remove" -> IF c.after = "clone" THEN 9 ELSE 3
      [] c.pc = "removing" -> IF c.after = "clone" THEN 8 ELSE 2
      [] c.pc = "clone" -> 7 [] c.pc = "refs" -> 6 [] c.pc = "checkout" -> 5
      [] c.pc = "size" -> 4 [] c.pc = "return" -> 3 [] c.pc = "parse" -> 2
      [] c.pc \in {"raise", "answer"} -> 1
      [] c.pc = "idle" -> 0

\* A step leaves a request alone, brings it closer to its end or is its start.
GoesForward ==
    \A w \in Workers :
        \/ call'[w] = call[w]
        \/ StepsLeft(call'[w]) < StepsLeft(call[w])
        \/ At(w, "idle") /\ call'[w].pc \in {"idle", "waiting"}

LEMMA StepTable ==
    ASSUME NEW c
    PROVE  /\ c.pc = "waiting" => StepsLeft(c) = 12
           /\ c.pc = "fetch" => StepsLeft(c) = 11
           /\ c.pc = "pull" => StepsLeft(c) = 10
           /\ c.pc = "remove" /\ c.after = "clone" => StepsLeft(c) = 9
           /\ c.pc = "removing" /\ c.after = "clone" => StepsLeft(c) = 8
           /\ c.pc = "clone" => StepsLeft(c) = 7
           /\ c.pc = "refs" => StepsLeft(c) = 6
           /\ c.pc = "checkout" => StepsLeft(c) = 5
           /\ c.pc = "size" => StepsLeft(c) = 4
           /\ c.pc = "remove" /\ c.after = "raise" => StepsLeft(c) = 3
           /\ c.pc = "return" => StepsLeft(c) = 3
           /\ c.pc = "removing" /\ c.after = "raise" => StepsLeft(c) = 2
           /\ c.pc = "parse" => StepsLeft(c) = 2
           /\ c.pc \in {"raise", "answer"} => StepsLeft(c) = 1
           /\ c.pc = "idle" => StepsLeft(c) = 0
<1>1. c.pc = "waiting" => StepsLeft(c) = 12
  BY DEF StepsLeft
<1>2. c.pc = "fetch" => StepsLeft(c) = 11
  BY DEF StepsLeft
<1>3. c.pc = "pull" => StepsLeft(c) = 10
  BY DEF StepsLeft
<1>4. c.pc = "remove" /\ c.after = "clone" => StepsLeft(c) = 9
  BY DEF StepsLeft
<1>5. c.pc = "removing" /\ c.after = "clone" => StepsLeft(c) = 8
  BY DEF StepsLeft
<1>6. c.pc = "clone" => StepsLeft(c) = 7
  BY DEF StepsLeft
<1>7. c.pc = "refs" => StepsLeft(c) = 6
  BY DEF StepsLeft
<1>8. c.pc = "checkout" => StepsLeft(c) = 5
  BY DEF StepsLeft
<1>9. c.pc = "size" => StepsLeft(c) = 4
  BY DEF StepsLeft
<1>10. c.pc = "remove" /\ c.after = "raise" => StepsLeft(c) = 3
  BY DEF StepsLeft
<1>11. c.pc = "return" => StepsLeft(c) = 3
  BY DEF StepsLeft
<1>12. c.pc = "removing" /\ c.after = "raise" => StepsLeft(c) = 2
  BY DEF StepsLeft
<1>13. c.pc = "parse" => StepsLeft(c) = 2
  BY DEF StepsLeft
<1>14. c.pc \in {"raise", "answer"} => StepsLeft(c) = 1
  BY DEF StepsLeft
<1>15. c.pc = "idle" => StepsLeft(c) = 0
  BY DEF StepsLeft
<1> QED BY <1>1, <1>2, <1>3, <1>4, <1>5, <1>6, <1>7, <1>8, <1>9, <1>10, <1>11, <1>12, <1>13, <1>14, <1>15

\* A step of a worker is one step fewer to go, or several.
LEMMA WorkerForward ==
    ASSUME TypeOK, NEW w \in Workers, Git(w) \/ Own(w)
    PROVE  /\ StepsLeft(call'[w]) < StepsLeft(call[w])
           /\ \A v \in Workers \ {w} : call'[v] = call[v]
<1>1. call \in [Workers -> Request] /\ call[w] \in Request
  BY DEF TypeOK
<1>2. call[w].after \in {"clone", "raise"}
  BY <1>1 DEF Request
<1>3. ASSUME NEW pc, call' = [call EXCEPT ![w].pc = pc]
      PROVE  /\ call'[w].pc = pc /\ call'[w].after = call[w].after
             /\ \A v \in Workers \ {w} : call'[v] = call[v]
  BY <1>1, <1>3 DEF Request
<1>4. ASSUME NEW pc, call' = [call EXCEPT ![w].pc = pc, ![w].after = "raise"]
      PROVE  /\ call'[w].pc = pc /\ call'[w].after = "raise"
             /\ \A v \in Workers \ {w} : call'[v] = call[v]
  BY <1>1, <1>4 DEF Request
<1>5. ASSUME NEW pc, NEW got, call' = [call EXCEPT ![w].pc = pc, ![w].got = got]
      PROVE  /\ call'[w].pc = pc
             /\ \A v \in Workers \ {w} : call'[v] = call[v]
  BY <1>1, <1>5 DEF Request
<1>6. ASSUME call' = [call EXCEPT ![w] = NoRequest]
      PROVE  /\ call'[w].pc = "idle"
             /\ \A v \in Workers \ {w} : call'[v] = call[v]
  BY <1>1, <1>6 DEF NoRequest
<1>7. CASE Fetch(w)
  <2>1. PICK pc \in {"return", "pull"} : call' = [call EXCEPT ![w].pc = pc]
    BY <1>7 DEF Fetch, GoTo
  <2>2. call[w].pc = "fetch"
    BY <1>7 DEF Fetch, At
  <2>3. call'[w].pc = pc /\ \A v \in Workers \ {w} : call'[v] = call[v]
    BY <1>3, <2>1
  <2> QED BY <2>2, <2>3, StepTable
<1>8. CASE UpdateFails(w) \/ Diverged(w)
  <2>1. call' = [call EXCEPT ![w].pc = "remove"]
    BY <1>8 DEF UpdateFails, Diverged, GoTo
  <2>2. call[w].pc \in {"fetch", "pull"}
    BY <1>8 DEF UpdateFails, Diverged, At
  <2>3. /\ call'[w].pc = "remove" /\ call'[w].after \in {"clone", "raise"}
        /\ \A v \in Workers \ {w} : call'[v] = call[v]
    BY <1>2, <1>3, <2>1
  <2> QED BY <2>2, <2>3, StepTable
<1>9. CASE Pull(w)
  <2>1. call' = [call EXCEPT ![w].pc = "return"] /\ call[w].pc = "pull"
    BY <1>9 DEF Pull, Make, At
  <2>2. call'[w].pc = "return" /\ \A v \in Workers \ {w} : call'[v] = call[v]
    BY <1>3, <2>1
  <2>3. StepsLeft(call[w]) = 10 /\ StepsLeft(call'[w]) = 3
    BY <2>1, <2>2, StepTable
  <2> QED BY <2>2, <2>3
<1>10. CASE Remove(w)
  <2>1. call' = [call EXCEPT ![w].pc = "removing"] /\ call[w].pc = "remove"
    BY <1>10 DEF Remove, Make, At
  <2>2. /\ call'[w].pc = "removing" /\ call'[w].after = call[w].after
        /\ \A v \in Workers \ {w} : call'[v] = call[v]
    BY <1>3, <2>1
  <2>3. CASE call[w].after = "clone"
    <3>1. StepsLeft(call[w]) = 9
      BY <2>1, <2>3, StepTable
    <3>2. StepsLeft(call'[w]) = 8
      BY <2>2, <2>3, StepTable
    <3> QED BY <2>2, <3>1, <3>2
  <2>4. CASE call[w].after = "raise"
    <3>1. StepsLeft(call[w]) = 3
      BY <2>1, <2>4, StepTable
    <3>2. StepsLeft(call'[w]) = 2
      BY <2>2, <2>4, StepTable
    <3> QED BY <2>2, <3>1, <3>2
  <2> QED BY <1>2, <2>3, <2>4
<1>11. CASE Removed(w)
  <2>1. call' = [call EXCEPT ![w].pc = call[w].after] /\ call[w].pc = "removing"
    BY <1>11 DEF Removed, Make, At
  <2>2. /\ call'[w].pc = call[w].after
        /\ \A v \in Workers \ {w} : call'[v] = call[v]
    BY <1>3, <2>1
  <2>3. CASE call[w].after = "clone"
    <3>1. StepsLeft(call[w]) = 8
      BY <2>1, <2>3, StepTable
    <3>2. StepsLeft(call'[w]) = 7
      BY <2>2, <2>3, StepTable
    <3> QED BY <2>2, <3>1, <3>2
  <2>4. CASE call[w].after = "raise"
    <3>1. StepsLeft(call[w]) = 2 /\ StepsLeft(call'[w]) = 1
      BY <2>1, <2>2, <2>4, StepTable
    <3> QED BY <2>2, <3>1
  <2> QED BY <1>2, <2>3, <2>4
<1>12. CASE RemoveFails(w) \/ CheckoutFails(w) \/ CloneFails(w)
  <2>1. call' = [call EXCEPT ![w].pc = "raise"]
    BY <1>12 DEF RemoveFails, CheckoutFails, CloneFails, Make
  <2>2. call[w].pc \in {"removing", "checkout", "refs"}
    BY <1>12 DEF RemoveFails, CheckoutFails, CloneFails, At
  <2>3. call'[w].pc = "raise" /\ \A v \in Workers \ {w} : call'[v] = call[v]
    BY <1>3, <2>1
  <2> QED BY <1>2, <2>2, <2>3, StepTable
<1>13. CASE Clone(w) \/ CloneRefs(w) \/ Checkout(w)
  <2>1. ASSUME NEW to, call' = [call EXCEPT ![w].pc = to],
               \/ call[w].pc = "clone" /\ to = "refs"
               \/ call[w].pc = "refs" /\ to = "checkout"
               \/ call[w].pc = "checkout" /\ to = "size"
        PROVE  /\ StepsLeft(call'[w]) < StepsLeft(call[w])
               /\ \A v \in Workers \ {w} : call'[v] = call[v]
    <3>1. call'[w].pc = to /\ \A v \in Workers \ {w} : call'[v] = call[v]
      BY <1>3, <2>1
    <3>2. CASE call[w].pc = "clone" /\ to = "refs"
      BY <3>1, <3>2, StepTable
    <3>3. CASE call[w].pc = "refs" /\ to = "checkout"
      BY <3>1, <3>3, StepTable
    <3>4. CASE call[w].pc = "checkout" /\ to = "size"
      BY <3>1, <3>4, StepTable
    <3> QED BY <2>1, <3>2, <3>3, <3>4
  <2> QED BY <1>13, <2>1 DEF Clone, CloneRefs, Checkout, Make, At
<1>14. CASE Alarm(w) \/ Size(w)
  <2>1. PICK pc \in {"remove", "return", "raise"} :
          call' = [call EXCEPT ![w].pc = pc, ![w].after = "raise"]
    BY <1>14 DEF Alarm, Size
  <2>2. call[w].pc \in {"clone", "refs", "checkout", "size"}
    BY <1>14 DEF Alarm, Size, At
  <2>3. /\ call'[w].pc = pc /\ call'[w].after = "raise"
        /\ \A v \in Workers \ {w} : call'[v] = call[v]
    BY <1>4, <2>1
  <2> QED BY <2>2, <2>3, StepTable
<1>15. CASE Acquire(w)
  <2>1. PICK pc \in {"clone", "fetch"} : call' = [call EXCEPT ![w].pc = pc]
    BY <1>15 DEF Acquire
  <2>2. call'[w].pc = pc /\ \A v \in Workers \ {w} : call'[v] = call[v]
    BY <1>3, <2>1
  <2>3. StepsLeft(call[w]) = 12 /\ StepsLeft(call'[w]) \in {7, 11}
    BY <1>15, <2>2, StepTable DEF Acquire, At
  <2> QED BY <2>2, <2>3
<1>16. CASE Return(w) \/ Parse(w)
  <2>1. \/ call' = [call EXCEPT ![w].pc = "parse", ![w].got = Repo(w)]
           /\ call[w].pc = "return"
        \/ call' = [call EXCEPT ![w].pc = "answer", ![w].got = Repo(w)]
           /\ call[w].pc = "parse"
    BY <1>16 DEF Return, Parse, At
  <2> QED BY <1>5, <2>1, StepTable
<1>17. CASE Raise(w) \/ Answer(w)
  <2>1. call' = [call EXCEPT ![w] = NoRequest] /\ call[w].pc \in {"raise", "answer"}
    BY <1>17 DEF Raise, Answer, At
  <2> QED BY <1>6, <2>1, StepTable
<1> QED BY <1>7, <1>8, <1>9, <1>10, <1>11, <1>12, <1>13, <1>14, <1>15, <1>16, <1>17
        DEF Git, Own

\* A request ends after at most twelve steps of its own, whatever fails: an
\* update that fails is followed by one removal and one clone and never by
\* another update, and a clone that is over its time or its size by one removal.
THEOREM CloneGoesForward == Spec => [][GoesForward]_vars
<1>1. ASSUME IInv, [Next]_vars
      PROVE  [GoesForward]_vars
  <2>1. ASSUME NEW w \in Workers, NEW u \in Urls, Ask(w, u)
        PROVE  GoesForward
    <3>1. /\ At(w, "idle") /\ call'[w].pc = "waiting"
          /\ \A v \in Workers \ {w} : call'[v] = call[v]
      BY <1>1, <2>1 DEF Ask, NoRequest, IInv, TypeOK
    <3> QED BY <3>1 DEF GoesForward
  <2>2. ASSUME NEW w \in Workers, Git(w) \/ Own(w)
        PROVE  GoesForward
    BY <1>1, <2>2, WorkerForward DEF GoesForward, IInv
  <2>3. CASE Crash
    <3> SUFFICES ASSUME NEW w \in Workers
                 PROVE  \/ StepsLeft(call'[w]) < StepsLeft(call[w])
                        \/ At(w, "idle") /\ call'[w].pc \in {"idle", "waiting"}
      BY DEF GoesForward
    <3>1. call'[w] = NoRequest /\ NoRequest.pc = "idle"
      BY <2>3 DEF Crash, NoRequest
    <3>2. CASE call[w].pc = "idle"
      BY <3>1, <3>2 DEF At
    <3>3. CASE call[w].pc # "idle"
      <4>1. call[w] \in Request
        BY <1>1 DEF IInv, TypeOK
      <4>2. StepsLeft(call[w]) > 0
        BY <3>3, <4>1, StepTable DEF Request, Locked
      <4> QED BY <3>1, <4>2, StepTable
    <3> QED BY <3>2, <3>3
  <2>4. ASSUME NEW u \in Urls, NEW line \in 0 .. pushes + 1, NEW big \in BOOLEAN,
               Push(u, line, big)
        PROVE  GoesForward
    BY <2>4 DEF Push, GoesForward
  <2> QED BY <1>1, <2>1, <2>2, <2>3, <2>4 DEF Next, vars
<1> QED BY <1>1, CloneInvariant, PTL DEF Spec

\* Some step of w's own is allowed: the guards of Git and Own.
MayGoOn(w) ==
    \/ At(w, "waiting") /\ \A h \in held : h.key # LockKey(call[w].url)
    \/ At(w, "fetch") /\ Repo(w).state \in {"partial", "bare", "ready"}
    \/ At(w, "clone") /\ Repo(w).state = "absent"
    \/ call[w].pc \in {"pull", "remove", "removing", "refs", "checkout", "size",
                       "return", "raise", "parse", "answer"}

\* A request goes on, or waits for the lock of one that does.
NeverStuck ==
    \A w \in Workers : ~At(w, "idle") =>
        \/ MayGoOn(w)
        \/ At(w, "waiting") /\ \E h \in held :
              h.key = LockKey(call[w].url) /\ MayGoOn(h.worker)

\* Damaged or not, an update finds a directory and a clone finds none.
Tidy ==
    \A w \in Workers : /\ At(w, "fetch") => Repo(w).state # "absent"
                       /\ At(w, "clone") => Repo(w).state = "absent"

\* A worker touches its own request and, inside the lock, its own directory.
LEMMA Footprint ==
    ASSUME IInv, NEW w \in Workers, Git(w) \/ Own(w)
    PROVE  /\ \A v \in Workers \ {w} : call'[v] = call[v]
           /\ remote' = remote
           /\ call[w].pc \notin Locked => repos' = repos
           /\ \A n \in Names : n # NameOf[call[w].url] => repos'[n] = repos[n]
<1>1. \A v \in Workers \ {w} : call'[v] = call[v]
  BY WorkerForward DEF IInv
<1>2. repos \in [Names -> Dir]
  BY DEF IInv, TypeOK
<1>3. CASE repos' = repos /\ remote' = remote
  BY <1>1, <1>3
<1>4. ASSUME NEW d, NEW pc, Make(w, d, pc), call[w].pc \in Locked
      PROVE  /\ remote' = remote
             /\ \A n \in Names : n # NameOf[call[w].url] => repos'[n] = repos[n]
  BY <1>2, <1>4 DEF Make
<1>5. CASE Git(w)
  <2>1. CASE Fetch(w) \/ UpdateFails(w) \/ Diverged(w) \/ CheckoutFails(w)
    BY <2>1, <1>3 DEF Fetch, UpdateFails, Diverged, CheckoutFails, GoTo
  <2>2. CASE Pull(w) \/ Clone(w) \/ CloneRefs(w) \/ Checkout(w) \/ CloneFails(w)
    <3>1. call[w].pc \in Locked /\ \E d, pc : Make(w, d, pc)
      BY <2>2 DEF Pull, Clone, CloneRefs, Checkout, CloneFails, At, Locked
    <3> QED BY <3>1, <1>1, <1>4
  <2> QED BY <1>5, <2>1, <2>2 DEF Git
<1>6. CASE Own(w)
  <2>1. CASE \/ Acquire(w) \/ RemoveFails(w) \/ Alarm(w) \/ Size(w) \/ Return(w)
             \/ Raise(w) \/ Parse(w) \/ Answer(w)
    BY <2>1, <1>3 DEF Acquire, RemoveFails, Alarm, Size, Return, Raise, Parse, Answer
  <2>2. CASE Remove(w) \/ Removed(w)
    <3>1. call[w].pc \in Locked /\ \E d, pc : Make(w, d, pc)
      BY <2>2 DEF Remove, Removed, At, Locked
    <3> QED BY <3>1, <1>1, <1>4
  <2> QED BY <1>6, <2>1, <2>2 DEF Own
<1> QED BY <1>5, <1>6

\* The directory of another worker inside stays as it is.
LEMMA OtherRepo ==
    ASSUME IInv, NEW w \in Workers, Git(w) \/ Own(w),
           NEW v \in Workers \ {w}, call[v].pc \in Locked
    PROVE  call'[v] = call[v] /\ repos'[NameOf[call[v].url]] = Repo(v)
<1>1. NameOf[call[v].url] \in Names
  BY Inside
<1>2. call[w].pc \in Locked => NameOf[call[v].url] # NameOf[call[w].url]
  BY Exclusive DEF IInv
<1> QED BY <1>1, <1>2, Footprint DEF Repo

\* How a worker comes to the steps that rely on the directory.
LEMMA Entering ==
    ASSUME IInv, NEW w \in Workers, Git(w) \/ Own(w)
    PROVE  /\ call'[w].pc \in {"fetch", "clone"} => Acquire(w) \/ Removed(w)
           /\ call'[w].pc = "parse" => Return(w)
           /\ call'[w].pc = "answer" => Parse(w)
<1>1. call \in [Workers -> Request]
  BY DEF IInv, TypeOK
<1>2. ASSUME NEW pc, pc \notin {"fetch", "clone", "parse", "answer"},
             call' = [call EXCEPT ![w].pc = pc]
      PROVE  call'[w].pc \notin {"fetch", "clone", "parse", "answer"}
  BY <1>1, <1>2 DEF Request
<1>3. CASE Git(w)
  <2>1. call'[w].pc \notin {"fetch", "clone", "parse", "answer"}
    BY <1>2, <1>3 DEF Git, Fetch, UpdateFails, Pull, Diverged, Clone, CloneRefs,
                      Checkout, CloneFails, CheckoutFails, GoTo, Make
  <2> QED BY <2>1
<1>4. CASE Remove(w) \/ RemoveFails(w)
  <2>1. \/ call' = [call EXCEPT ![w].pc = "removing"]
        \/ call' = [call EXCEPT ![w].pc = "raise"]
    BY <1>4 DEF Remove, RemoveFails, Make
  <2> QED BY <1>2, <2>1
<1>5. CASE Alarm(w) \/ Size(w)
  <2>1. call'[w].pc \in {"remove", "return", "raise"}
    BY <1>1, <1>5 DEF Alarm, Size, Request
  <2> QED BY <2>1
<1>6. CASE Raise(w) \/ Answer(w)
  <2>1. call'[w].pc = "idle"
    BY <1>1, <1>6 DEF Raise, Answer, NoRequest
  <2> QED BY <2>1
<1>7. CASE Return(w)
  <2>1. call'[w].pc = "parse"
    BY <1>1, <1>7 DEF Return, Request
  <2> QED BY <1>7, <2>1
<1>8. CASE Parse(w)
  <2>1. call'[w].pc = "answer"
    BY <1>1, <1>8 DEF Parse, Request
  <2> QED BY <1>8, <2>1
<1>9. CASE Acquire(w)
  <2>1. call'[w].pc \in {"fetch", "clone"}
    BY <1>1, <1>9 DEF Acquire, Request
  <2> QED BY <1>9, <2>1
<1>10. CASE Removed(w)
  <2>1. call'[w].pc \in {"clone", "raise"}
    BY <1>1, <1>10 DEF Removed, Make, Request
  <2> QED BY <1>10, <2>1
<1> QED BY <1>3, <1>4, <1>5, <1>6, <1>7, <1>8, <1>9, <1>10 DEF Own

\* Only the lock and a removal lead to a fetch or a clone.
LEMMA TidyStep ==
    ASSUME IInv, Tidy, NEW w \in Workers, Git(w) \/ Own(w)
    PROVE  Tidy'
<1>1. call \in [Workers -> Request] /\ repos \in [Names -> Dir]
  BY DEF IInv, TypeOK
<1>2. /\ call'[w].pc = "fetch" => repos'[NameOf[call'[w].url]].state # "absent"
      /\ call'[w].pc = "clone" => repos'[NameOf[call'[w].url]].state = "absent"
  <2>1. CASE Acquire(w)
    BY <1>1, <2>1 DEF Acquire, Repo, Request
  <2>2. CASE Removed(w)
    <3>1. call[w].pc \in Locked
      BY <2>2 DEF Removed, At, Locked
    <3>2. NameOf[call[w].url] \in Names /\ call[w].after \in {"clone", "raise"}
      BY <3>1, Inside DEF Request
    <3>3. /\ call'[w].pc = call[w].after /\ call'[w].url = call[w].url
          /\ repos'[NameOf[call[w].url]] = Gone
      BY <1>1, <2>2, <3>2 DEF Removed, Make, Request
    <3> QED BY <3>2, <3>3 DEF Gone
  <2> QED BY <2>1, <2>2, Entering
<1>3. ASSUME NEW v \in Workers \ {w}
      PROVE  /\ call'[v].pc = "fetch" => repos'[NameOf[call'[v].url]].state # "absent"
             /\ call'[v].pc = "clone" => repos'[NameOf[call'[v].url]].state = "absent"
  <2>1. call'[v] = call[v]
    BY <1>3, Footprint
  <2>2. CASE call[v].pc \in {"fetch", "clone"}
    <3>1. call[v].pc \in Locked
      BY <2>2 DEF Locked
    <3>2. repos'[NameOf[call[v].url]] = Repo(v)
      BY <3>1, OtherRepo
    <3> QED BY <2>1, <3>2 DEF Tidy, At
  <2> QED BY <2>1, <2>2
<1> QED BY <1>2, <1>3 DEF Tidy, At, Repo

\* Whatever failed before, and in whatever state it left the directories, a
\* request has a step to take or waits for the lock of one that has: nothing
\* waits for ever on the clone locks.
THEOREM CloneNeverStuck == Spec => []NeverStuck
<1>1. Init => Tidy
  BY DEF Init, Tidy, NoRequest, At
<1>2. ASSUME IInv, Tidy, [Next]_vars
      PROVE  Tidy'
  <2>1. ASSUME NEW w \in Workers, NEW u \in Urls, Ask(w, u)
        PROVE  Tidy'
    <3>1. /\ call'[w].pc = "waiting" /\ repos' = repos
          /\ \A v \in Workers \ {w} : call'[v] = call[v]
      BY <1>2, <2>1 DEF Ask, NoRequest, IInv, TypeOK
    <3> QED BY <1>2, <3>1 DEF Tidy, At, Repo
  <2>2. ASSUME NEW w \in Workers, Git(w) \/ Own(w)
        PROVE  Tidy'
    BY <1>2, <2>2, TidyStep
  <2>3. CASE Crash
    BY <2>3 DEF Crash, Tidy, NoRequest, At
  <2>4. ASSUME NEW u \in Urls, NEW line \in 0 .. pushes + 1, NEW big \in BOOLEAN,
               Push(u, line, big)
        PROVE  Tidy'
    BY <1>2, <2>4 DEF Push, Tidy, At, Repo
  <2>5. CASE UNCHANGED vars
    BY <1>2, <2>5 DEF vars, Tidy, At, Repo
  <2> QED BY <1>2, <2>1, <2>2, <2>3, <2>4, <2>5 DEF Next
<1>3. ASSUME IInv, Tidy
      PROVE  NeverStuck
  <2>1. ASSUME NEW w \in Workers, call[w].pc \in Locked
        PROVE  MayGoOn(w)
    <3>1. Repo(w).state \in DirStates
      BY <1>3, <2>1, Inside DEF Dir
    <3> QED BY <1>3, <2>1, <3>1 DEF MayGoOn, Locked, DirStates, Tidy, At
  <2>2. ASSUME NEW w \in Workers, ~At(w, "idle"), ~MayGoOn(w)
        PROVE  At(w, "waiting") /\ \E h \in held :
                 h.key = LockKey(call[w].url) /\ MayGoOn(h.worker)
    <3>1. call[w].pc \in {"idle", "waiting", "parse", "answer"} \cup Locked
      BY <1>3 DEF IInv, TypeOK, Request
    <3>2. At(w, "waiting")
      BY <2>1, <2>2, <3>1 DEF MayGoOn, At
    <3>3. PICK h \in held : h.key = LockKey(call[w].url)
      BY <2>2, <3>2 DEF MayGoOn
    <3>4. h.worker \in Workers /\ call[h.worker].pc \in Locked
      BY <1>3 DEF IInv, TypeOK, Locks
    <3> QED BY <2>1, <3>2, <3>3, <3>4
  <2> QED BY <2>2 DEF NeverStuck
<1> QED BY <1>1, <1>2, <1>3, CloneInvariant, PTL DEF Spec

-----------------------------------------------------------------------------
(***************************************************************************)
(* What the callers may rely on after the lock is released.                *)
(***************************************************************************)
\* No two repositories share a directory.
DistinctNames == \A u, v \in Urls : NameOf[u] = NameOf[v] => u = v

\* What a caller parses is of the repository it asked for, or of none yet.
ParsesNoOtherRepo ==
    \A w \in Workers : At(w, "answer") => call[w].got.tip.url \in {call[w].url, NoUrl}

OwnTips == \A u \in Urls : repos[NameOf[u]].tip.url \in {u, NoUrl}

\* What a step inside the lock leaves in the directory.
LEMMA NewTip ==
    ASSUME IInv, NEW w \in Workers, Git(w) \/ Own(w), call[w].pc \in Locked
    PROVE  LET d == repos'[NameOf[call[w].url]]
           IN  d.tip \in {Repo(w).tip, Origin(w), NoTip}
<1>1. NameOf[call[w].url] \in Names /\ repos \in [Names -> Dir] /\ Repo(w) \in Dir
  BY Inside DEF IInv, TypeOK
<1>2. CASE repos' = repos
  BY <1>2 DEF Repo
<1>3. ASSUME NEW d, NEW pc, Make(w, d, pc), d.tip \in {Repo(w).tip, Origin(w), NoTip}
      PROVE  repos'[NameOf[call[w].url]].tip \in {Repo(w).tip, Origin(w), NoTip}
  BY <1>1, <1>3 DEF Make
<1>4. \A s : [Repo(w) EXCEPT !.state = s].tip = Repo(w).tip
  BY <1>1 DEF Dir
<1>5. CASE Git(w)
  <2>1. CASE Fetch(w) \/ UpdateFails(w) \/ Diverged(w) \/ CheckoutFails(w)
    BY <2>1, <1>2 DEF Fetch, UpdateFails, Diverged, CheckoutFails, GoTo
  <2>2. CASE Pull(w)
    <3>1. PICK s : Make(w, [state |-> s, tip |-> Origin(w)], "return")
      BY <2>2 DEF Pull
    <3> QED BY <3>1, <1>3
  <2>3. CASE Clone(w) \/ CloneRefs(w) \/ CloneFails(w)
    BY <2>3, <1>3 DEF Clone, CloneRefs, CloneFails, Gone
  <2>4. CASE Checkout(w)
    BY <2>4, <1>3, <1>4 DEF Checkout
  <2> QED BY <1>5, <2>1, <2>2, <2>3, <2>4 DEF Git
<1>6. CASE Own(w)
  <2>1. CASE \/ Acquire(w) \/ RemoveFails(w) \/ Alarm(w) \/ Size(w) \/ Return(w)
             \/ Raise(w) \/ Parse(w) \/ Answer(w)
    BY <2>1, <1>2 DEF Acquire, RemoveFails, Alarm, Size, Return, Raise, Parse, Answer
  <2>2. CASE Remove(w)
    <3>1. PICK s : Make(w, [Repo(w) EXCEPT !.state = s], "removing")
      BY <2>2 DEF Remove
    <3> QED BY <3>1, <1>3, <1>4
  <2>3. CASE Removed(w)
    BY <2>3, <1>3 DEF Removed, Gone
  <2> QED BY <1>6, <2>1, <2>2, <2>3 DEF Own
<1> QED BY <1>5, <1>6

\* The answer a caller is about to give is of what it just parsed.
LEMMA AnswerStep ==
    ASSUME IInv, NEW w \in Workers, Git(w) \/ Own(w), call'[w].pc = "answer"
    PROVE  /\ call[w].pc = "parse" /\ call'[w].url = call[w].url
           /\ call'[w].got = Repo(w) /\ repos' = repos
<1>1. Parse(w) /\ call \in [Workers -> Request]
  BY Entering DEF IInv, TypeOK
<1> QED BY <1>1 DEF Parse, At, Request

\* Where names are distinct, a directory only ever holds its own repository,
\* and so does what is parsed, whatever fails and whoever updates it meanwhile.
THEOREM CloneDistinctNames == DistinctNames => (Spec => []ParsesNoOtherRepo)
<1> SUFFICES ASSUME DistinctNames
             PROVE  Spec => []ParsesNoOtherRepo
  OBVIOUS
<1>1. Init => OwnTips /\ ParsesNoOtherRepo
  BY CloneAssumption DEF Init, OwnTips, ParsesNoOtherRepo, NoRequest, Gone, NoTip, At
<1>2. ASSUME IInv, OwnTips, ParsesNoOtherRepo, [Next]_vars
      PROVE  OwnTips' /\ ParsesNoOtherRepo'
  <2>1. ASSUME NEW w \in Workers, NEW u \in Urls, Ask(w, u)
        PROVE  OwnTips' /\ ParsesNoOtherRepo'
    <3>1. /\ call'[w].pc = "waiting" /\ repos' = repos
          /\ \A v \in Workers \ {w} : call'[v] = call[v]
      BY <1>2, <2>1 DEF Ask, NoRequest, IInv, TypeOK
    <3> QED BY <1>2, <3>1 DEF OwnTips, ParsesNoOtherRepo, At
  <2>2. ASSUME NEW w \in Workers, Git(w) \/ Own(w)
        PROVE  OwnTips' /\ ParsesNoOtherRepo'
    <3>1. OwnTips'
      <4> SUFFICES ASSUME NEW u \in Urls
                   PROVE  repos'[NameOf[u]].tip.url \in {u, NoUrl}
        BY DEF OwnTips
      <4>1. NameOf[u] \in Names
        BY CloneAssumption
      <4>2. CASE repos'[NameOf[u]] = repos[NameOf[u]]
        BY <1>2, <4>2 DEF OwnTips
      <4>3. CASE call[w].pc \in Locked /\ NameOf[u] = NameOf[call[w].url]
        <5>1. call[w].url \in Urls /\ Origin(w).url = call[w].url
          BY <1>2, <4>3, Inside
        <5>2. call[w].url = u /\ Origin(w).url = u
          BY <4>3, <5>1 DEF DistinctNames
        <5>3. repos'[NameOf[u]].tip \in {Repo(w).tip, Origin(w), NoTip}
          BY <1>2, <2>2, <4>3, NewTip
        <5> QED BY <1>2, <5>2, <5>3 DEF OwnTips, Repo, NoTip
      <4> QED BY <1>2, <2>2, <4>1, <4>2, <4>3, Footprint
    <3>2. ParsesNoOtherRepo'
      <4> SUFFICES ASSUME NEW v \in Workers, call'[v].pc = "answer"
                   PROVE  call'[v].got.tip.url \in {call'[v].url, NoUrl}
        BY DEF ParsesNoOtherRepo, At
      <4>1. CASE v # w
        BY <1>2, <2>2, <4>1, Footprint DEF ParsesNoOtherRepo, At
      <4>2. CASE v = w
        <5>1. call[w].pc = "parse" /\ call'[w].url = call[w].url /\ call'[w].got = Repo(w)
          BY <1>2, <2>2, <4>2, AnswerStep
        <5>2. call[w].url \in Urls
          BY <1>2, <5>1 DEF IInv, Serving, At
        <5> QED BY <1>2, <4>2, <5>1, <5>2 DEF OwnTips, Repo
      <4> QED BY <4>1, <4>2
    <3> QED BY <3>1, <3>2
  <2>3. CASE Crash
    BY <1>2, <2>3 DEF Crash, OwnTips, ParsesNoOtherRepo, NoRequest, At
  <2>4. ASSUME NEW u \in Urls, NEW line \in 0 .. pushes + 1, NEW big \in BOOLEAN,
               Push(u, line, big)
        PROVE  OwnTips' /\ ParsesNoOtherRepo'
    BY <1>2, <2>4 DEF Push, OwnTips, ParsesNoOtherRepo, At
  <2>5. CASE UNCHANGED vars
    BY <1>2, <2>5 DEF vars, OwnTips, ParsesNoOtherRepo, At
  <2> QED BY <1>2, <2>1, <2>2, <2>3, <2>4, <2>5 DEF Next
<1> QED BY <1>1, <1>2, CloneInvariant, PTL DEF Spec

\* No force push.
LinesStay == \A u \in Urls : remote'[u].line = remote[u].line

\* A directory git can open is on the branch of its own repository.
OnBranch(u, dir, tip) ==
    dir.state \in {"bare", "ready"} => dir.tip.url = u /\ dir.tip.line = tip.line

\* A request that was given its path.
Given(c) == c.pc \in {"parse", "answer"}

\* Once a request was given its path, the directory stays whole, and those
\* inside only look at it or pull.
Settled ==
    ~damaged =>
        /\ \A u \in Urls : OnBranch(u, repos[NameOf[u]], remote[u])
        /\ \A w \in Workers : Given(call[w]) =>
             /\ Repo(w).state = "ready"
             /\ \A v \in Workers : call[v].pc \in Locked /\ call[v].url = call[w].url =>
                  call[v].pc \in {"fetch", "pull", "return"}
        /\ \A w \in Workers : At(w, "answer") =>
             call[w].got.state = "ready" /\ call[w].got.tip.url = call[w].url

\* What has to be shown of a worker's step: d is what it leaves.
LEMMA SettledMove ==
    ASSUME IInv, Settled, ~damaged, DistinctNames, NEW w \in Workers, Git(w) \/ Own(w),
           call[w].url \in Urls, NEW c, call'[w] = c, NEW d,
           repos'[NameOf[call[w].url]] = d,
           c.pc # "idle" => c.url = call[w].url,
           OnBranch(call[w].url, d, Origin(w)),
           Given(c) => d.state = "ready",
           Given(c) => \A v \in Workers \ {w} :
               call[v].pc \in Locked /\ call[v].url = call[w].url =>
                   call[v].pc \in {"fetch", "pull", "return"},
           (\E v \in Workers \ {w} : Given(call[v]) /\ call[v].url = call[w].url) =>
               /\ d.state = "ready"
               /\ c.pc \in Locked => c.pc \in {"fetch", "pull", "return"},
           c.pc = "answer" => c.got.state = "ready" /\ c.got.tip.url = c.url
    PROVE  Settled'
<1>1. /\ \A v \in Workers \ {w} : call'[v] = call[v]
      /\ remote' = remote
      /\ \A n \in Names : n # NameOf[call[w].url] => repos'[n] = repos[n]
  BY Footprint
<1>2. \A u \in Urls : u # call[w].url => repos'[NameOf[u]] = repos[NameOf[u]]
  BY <1>1, CloneAssumption DEF DistinctNames
<1>3. \A v \in Workers : Given(call[v]) => call[v].url \in Urls
  BY DEF IInv, Serving, Given, At
<1>4. ASSUME NEW u \in Urls
      PROVE  OnBranch(u, repos'[NameOf[u]], remote'[u])
  <2>1. CASE u = call[w].url
    BY <1>1, <2>1 DEF Origin
  <2>2. CASE u # call[w].url
    BY <1>1, <1>2, <2>2 DEF Settled
  <2> QED BY <2>1, <2>2
<1>5. ASSUME NEW v \in Workers, Given(call'[v])
      PROVE  repos'[NameOf[call'[v].url]].state = "ready"
  <2>1. CASE v = w
    BY <1>5, <2>1 DEF Given
  <2>2. CASE v # w /\ call[v].url = call[w].url
    BY <1>1, <1>5, <2>2
  <2>3. CASE v # w /\ call[v].url # call[w].url
    BY <1>1, <1>2, <1>3, <1>5, <2>3 DEF Settled, Repo
  <2> QED BY <2>1, <2>2, <2>3
<1>6. ASSUME NEW v \in Workers, Given(call'[v]), NEW x \in Workers,
             call'[x].pc \in Locked, call'[x].url = call'[v].url
      PROVE  call'[x].pc \in {"fetch", "pull", "return"}
  <2>1. CASE v = w
    <3>1. x # w /\ call'[x] = call[x]
      BY <1>1, <1>6, <2>1 DEF Given, Locked
    <3> QED BY <1>6, <2>1, <3>1 DEF Given
  <2>2. CASE v # w /\ x = w
    <3>1. call'[v] = call[v] /\ c.url = call[w].url
      BY <1>1, <1>6, <2>2 DEF Locked
    <3> QED BY <1>6, <2>2, <3>1
  <2>3. CASE v # w /\ x # w
    BY <1>1, <1>6, <2>3 DEF Settled
  <2> QED BY <2>1, <2>2, <2>3
<1>7. ASSUME NEW v \in Workers, call'[v].pc = "answer"
      PROVE  call'[v].got.state = "ready" /\ call'[v].got.tip.url = call'[v].url
  BY <1>1, <1>7 DEF Settled, At
<1> QED BY <1>4, <1>5, <1>6, <1>7 DEF Settled, Repo, At

\* Without failures an update is a look or a pull.
LEMMA UpdateKeeps ==
    ASSUME IInv, Settled, ~damaged, "network" \notin Faults, NEW w \in Workers,
           Git(w) \/ Own(w), call[w].pc \in {"fetch", "pull"}
    PROVE  Fetch(w) \/ Pull(w)
<1>1. call[w].pc \in Locked
  BY DEF Locked
<1>2. Repo(w).state = "ready"
  BY <1>1 DEF IInv, Trees, StatesAt
<1>3. Mergeable(Repo(w), Origin(w))
  BY <1>1, <1>2, Inside DEF Settled, OnBranch, Mergeable, Repo, Origin
<1> QED BY <1>2, <1>3 DEF Git, Own, UpdateFails, Diverged, Clone, CloneRefs, Checkout,
        CloneFails, CheckoutFails, Acquire, Remove, Removed, RemoveFails, Alarm, Size,
        Return, Raise, Parse, Answer, At

LEMMA SettledStep ==
    ASSUME IInv, Settled, DistinctNames, "network" \notin Faults,
           NEW w \in Workers, Git(w) \/ Own(w)
    PROVE  Settled'
<1> SUFFICES ASSUME ~damaged'
             PROVE  Settled'
  BY DEF Settled
<1> DEFINE c == call'[w]
           d == repos'[NameOf[call[w].url]]
<1>1. ~damaged
  BY DEF Git, Own, Fetch, UpdateFails, Pull, Diverged, Clone, CloneRefs, Checkout,
         CloneFails, CheckoutFails, Acquire, Remove, Removed, RemoveFails, Alarm, Size,
         Return, Raise, Parse, Answer, GoTo, Make
<1>2. /\ call \in [Workers -> Request] /\ call[w] \in Request
      /\ repos \in [Names -> Dir] /\ NoRequest.pc = "idle"
  BY DEF IInv, TypeOK, NoRequest
<1>3. call[w].pc # "idle"
  BY DEF Git, Own, Fetch, UpdateFails, Pull, Diverged, Clone, CloneRefs, Checkout,
         CloneFails, CheckoutFails, Acquire, Remove, Removed, RemoveFails, Alarm, Size,
         Return, Raise, Parse, Answer, At
<1>4. call[w].url \in Urls /\ NameOf[call[w].url] \in Names
  BY <1>3, CloneAssumption DEF IInv, Serving, At
<1>5. Repo(w) \in Dir /\ Origin(w).url = call[w].url
  BY <1>2, <1>4 DEF Repo, Origin, IInv, Remotes
<1>6. OnBranch(call[w].url, Repo(w), Origin(w))
  BY <1>1, <1>4 DEF Settled, Repo, Origin
<1>7. ASSUME NEW v \in Workers, Given(call[v]), call[v].url = call[w].url
      PROVE  /\ Repo(w).state = "ready"
             /\ call[w].pc \in Locked => call[w].pc \in {"fetch", "pull", "return"}
  BY <1>1, <1>7 DEF Settled, Repo
<1>8. call[w].pc \in Locked =>
        \A v \in Workers \ {w} : ~(call[v].pc \in Locked /\ call[v].url = call[w].url)
  BY Exclusive DEF IInv
<1>9. CASE call[w].pc \in {"fetch", "pull"}
  <2>1. Fetch(w) \/ Pull(w)
    BY <1>1, <1>9, UpdateKeeps
  <2>2. Repo(w).state = "ready"
    BY <1>1, <1>9 DEF IInv, Trees, StatesAt, Locked
  <2>3. /\ c.pc \in {"return", "pull"} /\ c.url = call[w].url
        /\ d = Repo(w) \/ d = [state |-> "ready", tip |-> Origin(w)]
    <3>1. CASE Fetch(w)
      BY <1>2, <3>1 DEF Fetch, GoTo, Repo, Request
    <3>2. CASE Pull(w)
      <4>1. Make(w, [state |-> "ready", tip |-> Origin(w)], "return")
        BY <2>2, <3>2 DEF Pull
      <4> QED BY <1>2, <1>4, <4>1 DEF Make, Request
    <3> QED BY <2>1, <3>1, <3>2
  <2>4. OnBranch(call[w].url, d, Origin(w)) /\ d.state = "ready"
    BY <1>5, <1>6, <2>2, <2>3 DEF OnBranch
  <2> HIDE DEF c, d
  <2>5. c.pc \notin {"parse", "answer", "idle"}
    BY <2>3
  <2> QED BY <1>1, <1>4, <2>3, <2>4, <2>5, SettledMove DEF Given, c, d
<1>10. CASE call[w].pc \in Locked \ {"fetch", "pull", "return", "raise"}
  <2>1. \A v \in Workers \ {w} : ~(Given(call[v]) /\ call[v].url = call[w].url)
    BY <1>7, <1>10
  <2>2. c.pc \notin {"parse", "answer", "idle"} /\ c.url = call[w].url
    <3>1. ASSUME NEW pc \in {"refs", "checkout", "size", "raise", "removing"},
                 call' = [call EXCEPT ![w].pc = pc]
          PROVE  c.pc \notin {"parse", "answer", "idle"} /\ c.url = call[w].url
      BY <1>2, <3>1 DEF Request
    <3>2. CASE Git(w)
      BY <1>10, <3>1, <3>2 DEF Git, Fetch, UpdateFails, Pull, Diverged, Clone, CloneRefs,
                        Checkout, CloneFails, CheckoutFails, Make, At
    <3>3. CASE Remove(w) \/ RemoveFails(w)
      <4>1. \/ call' = [call EXCEPT ![w].pc = "removing"]
            \/ call' = [call EXCEPT ![w].pc = "raise"]
        BY <3>3 DEF Remove, RemoveFails, Make
      <4> QED BY <3>1, <4>1
    <3>4. CASE Removed(w)
      BY <1>2, <3>4 DEF Removed, Make, Request
    <3>5. CASE Alarm(w) \/ Size(w)
      BY <1>2, <3>5 DEF Alarm, Size, Request
    <3> QED BY <1>10, <3>2, <3>3, <3>4, <3>5
            DEF Own, Acquire, Return, Raise, Parse, Answer, At, Locked
  <2>3. OnBranch(call[w].url, d, Origin(w))
    <3>1. CASE repos' = repos
      BY <1>6, <3>1 DEF Repo
    <3>2. ASSUME NEW e, NEW pc, Make(w, e, pc), OnBranch(call[w].url, e, Origin(w))
          PROVE  OnBranch(call[w].url, d, Origin(w))
      BY <1>2, <1>4, <3>2 DEF Make
    <3>3. \A s : s \in {"bare", "ready"} /\ Repo(w).state \in {"bare", "ready"}
                   => OnBranch(call[w].url, [Repo(w) EXCEPT !.state = s], Origin(w))
      BY <1>5, <1>6 DEF OnBranch, Dir
    <3>4. CASE Clone(w) \/ CloneRefs(w) \/ CloneFails(w)
      BY <1>5, <3>2, <3>4 DEF Clone, CloneRefs, CloneFails, OnBranch, Gone
    <3>5. CASE Checkout(w)
      <4>1. Repo(w).state = "bare"
        BY <1>1, <3>5 DEF Checkout, At, IInv, Trees, StatesAt, Locked
      <4> QED BY <3>2, <3>3, <3>5, <4>1 DEF Checkout
    <3>6. CASE Remove(w)
      <4>1. PICK s \in {"partial"} \cup ({"bare"} \cap {Repo(w).state})
                \cup (IF Repo(w).state = "ready" THEN {"bare"} ELSE {}) :
              Make(w, [Repo(w) EXCEPT !.state = s], "removing")
        BY <3>6 DEF Remove
      <4>2. CASE s = "partial"
        <5>1. OnBranch(call[w].url, [Repo(w) EXCEPT !.state = s], Origin(w))
          BY <1>5, <4>2 DEF OnBranch, Dir
        <5> QED BY <3>2, <4>1, <5>1
      <4>3. CASE s = "bare" /\ Repo(w).state \in {"bare", "ready"}
        BY <3>2, <3>3, <4>1, <4>3
      <4> QED BY <4>1, <4>2, <4>3
    <3>7. CASE Removed(w)
      BY <3>2, <3>7 DEF Removed, OnBranch, Gone
    <3>8. CASE CheckoutFails(w) \/ RemoveFails(w) \/ Alarm(w) \/ Size(w)
      BY <3>1, <3>8 DEF CheckoutFails, RemoveFails, Alarm, Size
    <3> QED BY <1>10, <3>4, <3>5, <3>6, <3>7, <3>8
            DEF Git, Own, Fetch, UpdateFails, Pull, Diverged, Acquire, Return, Raise,
                Parse, Answer, At, Locked
  <2> HIDE DEF c, d
  <2> QED BY <1>1, <1>4, <2>1, <2>2, <2>3, SettledMove DEF Given, c, d
<1>11. CASE call[w].pc \in {"return", "raise", "waiting", "parse", "answer"}
  <2>1. Return(w) \/ Raise(w) \/ Acquire(w) \/ Parse(w) \/ Answer(w)
    BY <1>11 DEF Git, Own, Fetch, UpdateFails, Pull, Diverged, Clone, CloneRefs, Checkout,
         CloneFails, CheckoutFails, Remove, Removed, RemoveFails, Alarm, Size, At
  <2>2. repos' = repos
    BY <2>1 DEF Return, Raise, Acquire, Parse, Answer
  <2>3. d = Repo(w)
    BY <2>2 DEF Repo
  <2>4. CASE Return(w)
    <3>1. c.pc = "parse" /\ c.url = call[w].url /\ call[w].pc = "return"
      BY <1>2, <2>4 DEF Return, At, Request
    <3>2. d.state = "ready"
      BY <1>1, <2>3, <3>1 DEF IInv, Trees, StatesAt, Locked
    <3>3. call[w].pc \in Locked
      BY <3>1 DEF Locked
    <3> HIDE DEF c, d
    <3> QED BY <1>1, <1>4, <1>6, <1>8, <2>3, <3>1, <3>2, <3>3, SettledMove
            DEF Given, c, d, Locked
  <2>5. CASE Raise(w) \/ Answer(w)
    <3>1. c.pc = "idle"
      BY <1>2, <2>5 DEF Raise, Answer
    <3> HIDE DEF c, d
    <3> QED BY <1>1, <1>4, <1>6, <1>7, <2>3, <3>1, SettledMove DEF Given, c, d, Locked
  <2>6. CASE Acquire(w)
    <3>1. c.pc = (IF Repo(w).state = "absent" THEN "clone" ELSE "fetch")
          /\ c.url = call[w].url
      BY <1>2, <2>6 DEF Acquire, Request
    <3>2. c.pc \in {"clone", "fetch"} /\ (Repo(w).state = "ready" => c.pc = "fetch")
      BY <3>1
    <3> HIDE DEF c, d
    <3> QED BY <1>1, <1>4, <1>6, <1>7, <2>3, <3>1, <3>2, SettledMove DEF Given, c, d
  <2>7. CASE Parse(w)
    <3>1. /\ c.pc = "answer" /\ c.url = call[w].url /\ c.got = Repo(w)
          /\ call[w].pc = "parse"
      BY <1>2, <2>7 DEF Parse, At, Request
    <3>2. Given(call[w])
      BY <3>1 DEF Given
    <3>3. \A v \in Workers : call[v].pc \in Locked /\ call[v].url = call[w].url =>
            call[v].pc \in {"fetch", "pull", "return"}
      BY <1>1, <3>2 DEF Settled
    <3>4. Repo(w).state = "ready" /\ Repo(w).tip.url = call[w].url
      BY <1>6, <1>7, <3>2 DEF OnBranch
    <3> HIDE DEF c, d
    <3> QED BY <1>1, <1>4, <1>6, <2>3, <3>1, <3>3, <3>4, SettledMove
            DEF Given, c, d, Locked
  <2> QED BY <2>1, <2>4, <2>5, <2>6, <2>7
<1> QED BY <1>2, <1>3, <1>9, <1>10, <1>11 DEF Request

\* Where names are distinct, the network never fails and nobody force-pushes,
\* the lock is enough: whatever requests come at once, each parses a complete
\* tree of the repository it asked for.  Without one of the three hypotheses
\* another request may remove the directory while it is being parsed.
THEOREM CloneParsesWhatWasAsked ==
    DistinctNames /\ "network" \notin Faults =>
        (Spec /\ [][LinesStay]_vars => []ParsesWhatWasAsked)
<1> SUFFICES ASSUME DistinctNames, "network" \notin Faults
             PROVE  Spec /\ [][LinesStay]_vars => []ParsesWhatWasAsked
  OBVIOUS
<1>1. Init => Settled
  BY CloneAssumption DEF Init, Settled, OnBranch, Given, NoRequest, Gone, At
<1>2. ASSUME IInv, Settled, [Next]_vars, [LinesStay]_vars
      PROVE  Settled'
  <2>1. ASSUME NEW w \in Workers, NEW u \in Urls, Ask(w, u)
        PROVE  Settled'
    <3>1. /\ call'[w].pc = "waiting" /\ UNCHANGED <<remote, repos, damaged>>
          /\ \A v \in Workers \ {w} : call'[v] = call[v]
      BY <1>2, <2>1 DEF Ask, NoRequest, IInv, TypeOK
    <3> QED BY <1>2, <3>1 DEF Settled, Given, At, Repo, Locked
  <2>2. ASSUME NEW w \in Workers, Git(w) \/ Own(w)
        PROVE  Settled'
    BY <1>2, <2>2, SettledStep
  <2>3. CASE Crash
    BY <2>3 DEF Crash, Settled
  <2>4. ASSUME NEW u \in Urls, NEW line \in 0 .. pushes + 1, NEW big \in BOOLEAN,
               Push(u, line, big)
        PROVE  Settled'
    <3>1. UNCHANGED <<repos, call, damaged>> /\ pushes' = pushes + 1
      BY <2>4 DEF Push
    <3>2. pushes \in Nat
      BY <1>2 DEF IInv, TypeOK
    <3>3. LinesStay
      BY <1>2, <3>1, <3>2 DEF vars
    <3> QED BY <1>2, <3>1, <3>3 DEF Settled, OnBranch, LinesStay, Given, At, Repo
  <2>5. CASE UNCHANGED vars
    BY <1>2, <2>5 DEF vars, Settled, OnBranch, Given, At, Repo
  <2> QED BY <1>2, <2>1, <2>2, <2>3, <2>4, <2>5 DEF Next
<1>3. Settled => ParsesWhatWasAsked
  BY DEF Settled, ParsesWhatWasAsked
<1> QED BY <1>1, <1>2, <1>3, CloneInvariant, PTL DEF Spec

=============================================================================
