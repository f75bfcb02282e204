-------------------------------- MODULE Mirror --------------------------------
(***************************************************************************)
(* What clone_repository promises under its "per-repo file lock            *)
(* (concurrent clone race prevention)"                                     *)
(* (backend/app/services/repository_service.py): a directory that is       *)
(* brought up to date at one instant of the call, and left alone until the *)
(* call returns.                                                           *)
(***************************************************************************)
CONSTANTS
    Urls,      \* the repositories
    Names,     \* the names of the directories
    NameOf,    \* url -> the name of its directory
    Workers,   \* the callers
    Tips,      \* the commits a branch may be at
    Nothing,   \* what a directory holds that is none of a repository
    NoUrl      \* the url of a caller that asks for nothing

VARIABLES
    tips,      \* url -> the commit its branch is at
    mirror,    \* name -> the commit in its directory, or Nothing
    client     \* worker -> how far its call is, and what was returned

mirrorVars == <<tips, mirror, client>>

At(pc, url, got) == [pc |-> pc, url |-> url, got |-> got]

Idle == At("idle", NoUrl, Nothing)

Init ==
    /\ tips \in [Urls -> Tips]
    /\ mirror = [n \in Names |-> Nothing]
    /\ client = [w \in Workers |-> Idle]

\* Commits are pushed to one repository at a time.
Advance ==
    /\ tips' \in [Urls -> Tips]
    /\ \E u \in Urls : \A v \in Urls \ {u} : tips'[v] = tips[v]
    /\ UNCHANGED <<mirror, client>>

Ask(w) ==
    /\ client[w].pc = "idle"
    /\ \E u \in Urls : client' = [client EXCEPT ![w] = At("asking", u, Nothing)]
    /\ UNCHANGED <<tips, mirror>>

\* The callers that rely on a directory.
Holders(n) == {w \in Workers : client[w].pc = "holding" /\ NameOf[client[w].url] = n}

\* The instant: the directory holds what its branch is at, and nobody relied on it.
Refresh(w) ==
    LET dir == NameOf[client[w].url]
    IN  /\ client[w].pc = "asking" /\ Holders(dir) = {}
        /\ mirror' = [mirror EXCEPT ![dir] = tips[client[w].url]]
        /\ client' = [client EXCEPT ![w].pc = "holding"]
        /\ UNCHANGED tips

\* A directory nobody relies on may go.
Drop(n) ==
    /\ Holders(n) = {}
    /\ mirror' = [mirror EXCEPT ![n] = Nothing]
    /\ UNCHANGED <<tips, client>>

Return(w) ==
    /\ client[w].pc = "holding"
    /\ LET url == client[w].url
       IN  client' = [client EXCEPT ![w] = At("returned", url, mirror[NameOf[url]])]
    /\ UNCHANGED <<tips, mirror>>

\* A call that fails does not hold its directory any more, and returns nothing.
Fail(w) ==
    /\ client[w].pc \in {"asking", "holding"}
    /\ client' = [client EXCEPT ![w].pc = "failing"]
    /\ UNCHANGED <<tips, mirror>>

Leave(w) ==
    /\ client[w].pc \in {"returned", "failing"}
    /\ client' = [client EXCEPT ![w] = Idle]
    /\ UNCHANGED <<tips, mirror>>

\* The process dies, and its callers with it.
Die ==
    /\ client' = [w \in Workers |-> Idle]
    /\ UNCHANGED <<tips, mirror>>

Next ==
    \/ Advance \/ Die
    \/ \E w \in Workers : Ask(w) \/ Refresh(w) \/ Return(w) \/ Fail(w) \/ Leave(w)
    \/ \E n \in Names : Drop(n)

Spec == Init /\ [][Next]_mirrorVars
=============================================================================
