---------------------------- MODULE RateLimiter ----------------------------
(***************************************************************************)
(* The sliding-window limiter in front of the /qa endpoints                *)
(* (backend/app/core/security.py, _SlidingWindowLimiter).                  *)
(*                                                                         *)
(* The limiter keeps one deque of admission times per client key.  A call  *)
(* of check() reads the monotonic clock first and takes the lock after, so *)
(* it is two steps here.  In the application every call is made by the     *)
(* rate_limit_qa dependency on the event loop, that is, by one caller; the *)
(* class itself is documented for any number of threads.                   *)
(*                                                                         *)
(* Time is counted in ticks; Second is the number of ticks of one second,  *)
(* so that the truncation to whole seconds in retry_after is visible.      *)
(***************************************************************************)
EXTENDS Integers, Sequences

CONSTANTS
    Clients,      \* the client keys (IP addresses)
    Callers,      \* the threads that call check()
    MaxRequests,  \* RATE_LIMIT_REQUESTS
    Window,       \* RATE_LIMIT_WINDOW_SECONDS, in ticks
    Second,       \* ticks in a second
    MaxTime       \* bound: the clock stops here

\* A limit of 0 requests makes check() fail on dq[0] of an empty deque: the
\* configured default is 20.
ASSUME LimiterAssumption ==
    /\ MaxRequests \in Nat \ {0}
    /\ Window \in Nat
    /\ Second \in Nat \ {0}
    /\ MaxTime \in Nat

VARIABLES
    clock,    \* time.monotonic()
    deque,    \* _store: client -> admission times still remembered
    call,     \* caller -> the call of check() it is in, or NoCall
    admitted, \* history: client -> every admission time
    rejected  \* history: client -> its latest rejection, or NoRejection

vars == <<clock, deque, call, admitted, rejected>>

NoCall      == [busy |-> FALSE]
Call        == [busy : {TRUE}, client : Clients, now : Nat]
NoRejection == [known |-> FALSE]
\* count is the number of admissions the client had when it was rejected.
Rejection   == [known : {TRUE}, at : Nat, retry_after : Nat, count : Nat]

TypeOK ==
    /\ clock \in Nat
    /\ deque \in [Clients -> Seq(Nat)]
    /\ call \in [Callers -> Call \cup {NoCall}]
    /\ admitted \in [Clients -> Seq(Nat)]
    /\ rejected \in [Clients -> Rejection \cup {NoRejection}]

Init ==
    /\ clock = 0
    /\ deque = [c \in Clients |-> << >>]
    /\ call = [t \in Callers |-> NoCall]
    /\ admitted = [c \in Clients |-> << >>]
    /\ rejected = [c \in Clients |-> NoRejection]

\* The bugs that the properties below must notice, for the next definition.
ExpiresAtCutoff(dq, cutoff, k) ==
    /\ k \in 0 .. Len(dq)
    /\ \A i \in 1 .. k : dq[i] <= cutoff
    /\ k < Len(dq) => dq[k + 1] > cutoff

\* k leading entries are older than cutoff and the next one, if any, is not:
\* what the expiry loop leaves is dq without its first k entries.
Expires(dq, cutoff, k) ==
    /\ k \in 0 .. Len(dq)
    /\ \A i \in 1 .. k : dq[i] < cutoff
    /\ k < Len(dq) => dq[k + 1] >= cutoff

HasRoomButOne(n) == n + 1 < MaxRequests

\* n remembered admissions leave room for one more.
HasRoom(n) == n < MaxRequests

RetryAfterFloor(oldest, now) == ((oldest + Window) - now) \div Second

RetryAfterNegated(oldest, now) == (now - (oldest + Window)) \div Second

\* Seconds until the oldest remembered admission leaves the window.
RetryAfter(oldest, now) ==
    LET whole == ((oldest + Window) - now) \div Second + 1
    IN  IF whole > 1 THEN whole ELSE 1

-----------------------------------------------------------------------------
Tick ==
    /\ clock < MaxTime
    /\ clock' = clock + 1
    /\ UNCHANGED <<deque, call, admitted, rejected>>

\* check(), up to the lock: the time is read here.
ReadClock(t, c) ==
    /\ ~call[t].busy
    /\ call' = [call EXCEPT ![t] = [busy |-> TRUE, client |-> c, now |-> clock]]
    /\ UNCHANGED <<clock, deque, admitted, rejected>>

\* check(), under the lock, when fewer than MaxRequests entries are left.
Admit(t) ==
    /\ call[t].busy
    /\ LET c == call[t].client
           now == call[t].now
       IN  \E k \in 0 .. Len(deque[c]) :
             /\ Expires(deque[c], now - Window, k)
             /\ HasRoom(Len(deque[c]) - k)
             /\ deque' = [deque EXCEPT ![c] =
                            Append(SubSeq(@, k + 1, Len(@)), now)]
             /\ admitted' = [admitted EXCEPT ![c] = Append(@, now)]
    /\ call' = [call EXCEPT ![t] = NoCall]
    /\ UNCHANGED <<clock, rejected>>

\* check(), under the lock, when the client is at its limit: HTTP 429.
Reject(t) ==
    /\ call[t].busy
    /\ LET c == call[t].client
           now == call[t].now
       IN  \E k \in 0 .. Len(deque[c]) :
             /\ Expires(deque[c], now - Window, k)
             /\ ~HasRoom(Len(deque[c]) - k)
             /\ deque' = [deque EXCEPT ![c] = SubSeq(@, k + 1, Len(@))]
             /\ rejected' = [rejected EXCEPT ![c] =
                  [known |-> TRUE, at |-> now,
                   retry_after |-> RetryAfter(deque[c][k + 1], now),
                   count |-> Len(admitted[c])]]
    /\ call' = [call EXCEPT ![t] = NoCall]
    /\ UNCHANGED <<clock, admitted>>

Next ==
    \/ Tick
    \/ \E t \in Callers :
         \/ \E c \in Clients : ReadClock(t, c)
         \/ Admit(t)
         \/ Reject(t)

Spec == Init /\ [][Next]_vars

-----------------------------------------------------------------------------
\* No client is admitted more than MaxRequests times in any closed interval
\* of one window: the (i + MaxRequests)-th admission comes more than Window
\* after the i-th (the expiry test of check() is strict).
WindowBound ==
    \A c \in Clients : \A i \in 1 .. Len(admitted[c]) :
        i + MaxRequests <= Len(admitted[c]) =>
            admitted[c][i + MaxRequests] - admitted[c][i] > Window

\* A rejected client had used its whole limit in the window that ended when
\* it called: entries that outlived their window never count against it.
RejectedOnlyAtLimit ==
    \A c \in Clients : rejected[c].known =>
        /\ rejected[c].count >= MaxRequests
        /\ \A i \in 1 .. rejected[c].count :
             i > rejected[c].count - MaxRequests =>
                 rejected[c].at - admitted[c][i] <= Window

\* The Retry-After header is honest: a client that has not been admitted
\* since, and comes back that many seconds after its rejection or later, is
\* admitted, whatever it has remembered of earlier calls.
RetryAfterSuffices ==
    \A c \in Clients :
        /\ rejected[c].known
        /\ rejected[c].count = Len(admitted[c])
        /\ clock >= rejected[c].at + rejected[c].retry_after * Second
        => \E k \in 0 .. Len(deque[c]) :
             /\ Expires(deque[c], clock - Window, k)
             /\ HasRoom(Len(deque[c]) - k)

=============================================================================
