-------------------------- MODULE RateLimiterProofs --------------------------
(***************************************************************************)
(* What RateLimiter promises for every limit, window and set of clients,   *)
(* as long as check() is called by one caller at a time -- the event loop, *)
(* as in the application.  With two callers WindowBound is false: a caller *)
(* that read the clock early may append an old time behind a newer one.    *)
(* What holds for any number of them comes last: the types, the length of  *)
(* the deques, and that every call is decided.                             *)
(***************************************************************************)
EXTENDS RateLimiter, WellFoundedInduction, TLAPS

\* check() is called from one thread.
OneCaller == \A s, t \in Callers : s = t

(***************************************************************************)
(* What a client's admission history a and its deque d have to do with     *)
(* each other at a time now: the deque is the tail of the history, the     *)
(* history ascends and is not ahead of now, and what the deque forgot is   *)
(* out of the window that ends now.                                        *)
(***************************************************************************)
IsTail(a, d) ==
    /\ Len(d) <= Len(a)
    /\ \A i \in 1 .. Len(d) : d[i] = a[(Len(a) - Len(d)) + i]

Ascends(a, now) ==
    /\ \A i, j \in 1 .. Len(a) : i <= j => a[i] <= a[j]
    /\ \A i \in 1 .. Len(a) : a[i] <= now

Forgot(a, d, now) == \A i \in 1 .. Len(a) - Len(d) : a[i] + Window < now

Entries(a, d, now) == IsTail(a, d) /\ Ascends(a, now) /\ Forgot(a, d, now)

Spaced(a) ==
    \A i \in 1 .. Len(a) :
        i + MaxRequests <= Len(a) => a[i + MaxRequests] - a[i] > Window

\* The history's last MaxRequests entries up to the count-th are at most one
\* window older than at.
Full(a, count, at) ==
    /\ count >= MaxRequests
    /\ \A i \in 1 .. count : i > count - MaxRequests => at - a[i] <= Window

IInv ==
    /\ TypeOK
    /\ \A c \in Clients : Entries(admitted[c], deque[c], clock)
    /\ \A t \in Callers : call[t].busy =>
         /\ call[t].now <= clock
         /\ \A c \in Clients : Entries(admitted[c], deque[c], call[t].now)
    /\ \A c \in Clients : Spaced(admitted[c])
    /\ \A c \in Clients : rejected[c].known =>
         /\ rejected[c].count <= Len(admitted[c])
         /\ Full(admitted[c], rejected[c].count, rejected[c].at)

-----------------------------------------------------------------------------
\* Time that passes disturbs nothing.
LEMMA Later ==
    ASSUME NEW a \in Seq(Nat), NEW d \in Seq(Nat), NEW m \in Nat, NEW n \in Nat,
           Entries(a, d, m), m <= n
    PROVE  Entries(a, d, n)
<1>1. \A i \in 1 .. Len(a) : a[i] \in Nat
  OBVIOUS
<1>2. Len(a) \in Nat /\ Len(d) \in Nat /\ Len(d) <= Len(a)
  BY DEF Entries, IsTail
<1>3. Ascends(a, n)
  BY <1>1, <1>2 DEF Entries, Ascends
<1>4. Forgot(a, d, n)
  <2>1. ASSUME NEW i \in 1 .. Len(a) - Len(d) PROVE a[i] + Window < n
    <3>1. i \in 1 .. Len(a) /\ a[i] + Window < m
      BY <1>2 DEF Entries, Forgot
    <3>. QED BY <3>1, <1>1, LimiterAssumption
  <2>. QED BY <2>1 DEF Forgot
<1>. QED BY <1>3, <1>4 DEF Entries

\* Dropping a prefix of a sequence, entry by entry.
LEMMA DropPrefix ==
    ASSUME NEW s \in Seq(Nat), NEW k \in 0 .. Len(s)
    PROVE  /\ SubSeq(s, k + 1, Len(s)) \in Seq(Nat)
           /\ Len(SubSeq(s, k + 1, Len(s))) = Len(s) - k
           /\ \A i \in 1 .. Len(s) - k : SubSeq(s, k + 1, Len(s))[i] = s[k + i]
<1>1. /\ k + 1 \in 1 .. Len(s) + 1
      /\ Len(s) \in Nat
  OBVIOUS
<1>2. SubSeq(s, k + 1, Len(s)) = [i \in 1 .. Len(s) - k |-> s[k + i]]
  BY <1>1
<1>3. \A i \in 1 .. Len(s) - k : s[k + i] \in Nat
  OBVIOUS
<1>. QED BY <1>1, <1>2, <1>3

\* Expiry keeps the relation of the history to the deque.
LEMMA ExpireEntries ==
    ASSUME NEW a \in Seq(Nat), NEW d \in Seq(Nat), NEW now \in Nat,
           NEW k \in 0 .. Len(d), Entries(a, d, now),
           \A i \in 1 .. k : d[i] < now - Window
    PROVE  Entries(a, SubSeq(d, k + 1, Len(d)), now)
<1>. DEFINE r == SubSeq(d, k + 1, Len(d))
<1>1. /\ r \in Seq(Nat) /\ Len(r) = Len(d) - k
      /\ \A i \in 1 .. Len(d) - k : r[i] = d[k + i]
  BY DropPrefix
<1>2. /\ Len(a) \in Nat /\ Len(d) \in Nat /\ k \in Nat /\ k <= Len(d)
      /\ Len(d) <= Len(a)
      /\ \A i \in 1 .. Len(d) : d[i] = a[(Len(a) - Len(d)) + i]
      /\ \A i \in 1 .. Len(a) : a[i] \in Nat
  BY DEF Entries, IsTail
<1>. HIDE DEF r
<1>3. IsTail(a, r)
  <2>1. ASSUME NEW i \in 1 .. Len(r) PROVE r[i] = a[(Len(a) - Len(r)) + i]
    <3>1. k + i \in 1 .. Len(d) /\ i \in 1 .. Len(d) - k
      BY <1>1, <1>2
    <3>2. r[i] = a[(Len(a) - Len(d)) + (k + i)]
      BY <3>1, <1>1, <1>2
    <3>3. (Len(a) - Len(d)) + (k + i) = (Len(a) - Len(r)) + i
      BY <1>1, <1>2
    <3>. QED BY <3>2, <3>3
  <2>. QED BY <2>1, <1>1, <1>2 DEF IsTail
<1>4. Forgot(a, r, now)
  <2>1. ASSUME NEW i \in 1 .. Len(a) - Len(r) PROVE a[i] + Window < now
    <3>1. CASE i <= Len(a) - Len(d)
      BY <3>1, <1>2 DEF Entries, Forgot
    <3>2. CASE i > Len(a) - Len(d)
      <4>1. i - (Len(a) - Len(d)) \in 1 .. k
        BY <3>2, <1>1, <1>2
      <4>2. d[i - (Len(a) - Len(d))] = a[i]
        <5>1. i - (Len(a) - Len(d)) \in 1 .. Len(d)
          BY <4>1, <1>2
        <5>2. (Len(a) - Len(d)) + (i - (Len(a) - Len(d))) = i
          BY <1>1, <1>2
        <5>. QED BY <5>1, <5>2, <1>2
      <4>3. a[i] < now - Window
        BY <4>1, <4>2
      <4>. QED BY <4>3, <1>1, <1>2, LimiterAssumption
    <3>. QED BY <3>1, <3>2, <1>1, <1>2
  <2>. QED BY <2>1 DEF Forgot
<1>. QED BY <1>3, <1>4 DEF Entries, r

\* An admission at now keeps the relation.
LEMMA AppendEntries ==
    ASSUME NEW a \in Seq(Nat), NEW d \in Seq(Nat), NEW now \in Nat,
           Entries(a, d, now)
    PROVE  /\ Append(a, now) \in Seq(Nat) /\ Append(d, now) \in Seq(Nat)
           /\ Entries(Append(a, now), Append(d, now), now)
<1>. DEFINE b == Append(a, now)
            e == Append(d, now)
<1>1. /\ b \in Seq(Nat) /\ Len(b) = Len(a) + 1 /\ b[Len(a) + 1] = now
      /\ \A i \in 1 .. Len(a) : b[i] = a[i]
  OBVIOUS
<1>2. /\ e \in Seq(Nat) /\ Len(e) = Len(d) + 1 /\ e[Len(d) + 1] = now
      /\ \A i \in 1 .. Len(d) : e[i] = d[i]
  OBVIOUS
<1>3. /\ Len(a) \in Nat /\ Len(d) \in Nat /\ Len(d) <= Len(a)
      /\ \A i \in 1 .. Len(d) : d[i] = a[(Len(a) - Len(d)) + i]
      /\ \A i \in 1 .. Len(a) : a[i] \in Nat /\ a[i] <= now
      /\ \A i, j \in 1 .. Len(a) : i <= j => a[i] <= a[j]
      /\ \A i \in 1 .. Len(a) - Len(d) : a[i] + Window < now
  BY DEF Entries, IsTail, Ascends, Forgot
<1>. HIDE DEF b, e
<1>4. IsTail(b, e)
  <2>1. ASSUME NEW i \in 1 .. Len(e) PROVE e[i] = b[(Len(b) - Len(e)) + i]
    <3>1. CASE i = Len(d) + 1
      BY <3>1, <1>1, <1>2, <1>3
    <3>2. CASE i \in 1 .. Len(d)
      <4>1. (Len(a) - Len(d)) + i \in 1 .. Len(a)
        BY <3>2, <1>3
      <4>2. (Len(b) - Len(e)) + i = (Len(a) - Len(d)) + i
        BY <1>1, <1>2, <1>3
      <4>. QED BY <3>2, <4>1, <4>2, <1>1, <1>2, <1>3
    <3>. QED BY <3>1, <3>2, <1>2, <1>3
  <2>. QED BY <2>1, <1>1, <1>2, <1>3 DEF IsTail
<1>5. Ascends(b, now)
  <2>1. ASSUME NEW i \in 1 .. Len(b) PROVE b[i] \in Nat /\ b[i] <= now
    <3>1. CASE i = Len(a) + 1
      BY <3>1, <1>1
    <3>2. CASE i \in 1 .. Len(a)
      BY <3>2, <1>1, <1>3
    <3>. QED BY <3>1, <3>2, <1>1, <1>3
  <2>2. ASSUME NEW i \in 1 .. Len(b), NEW j \in 1 .. Len(b), i <= j
        PROVE  b[i] <= b[j]
    <3>1. CASE j = Len(a) + 1
      BY <3>1, <2>1, <1>1
    <3>2. CASE j \in 1 .. Len(a)
      <4>1. i \in 1 .. Len(a)
        BY <2>2, <3>2, <1>1, <1>3
      <4>. QED BY <2>2, <3>2, <4>1, <1>1, <1>3
    <3>. QED BY <3>1, <3>2, <1>1, <1>3
  <2>. QED BY <2>1, <2>2 DEF Ascends
<1>6. Forgot(b, e, now)
  <2>1. ASSUME NEW i \in 1 .. Len(b) - Len(e) PROVE b[i] + Window < now
    <3>1. Len(b) - Len(e) = Len(a) - Len(d)
      BY <1>1, <1>2, <1>3
    <3>2. i \in 1 .. Len(a) - Len(d)
      BY <2>1, <3>1
    <3>3. i \in 1 .. Len(a)
      BY <3>2, <1>1, <1>3
    <3>. QED BY <3>2, <3>3, <1>1, <1>3
  <2>. QED BY <2>1 DEF Forgot
<1>. QED BY <1>1, <1>2, <1>4, <1>5, <1>6 DEF Entries, b, e

\* With fewer than MaxRequests entries left, one more admission keeps the
\* admissions spaced: the one MaxRequests before it has been forgotten.
LEMMA AppendSpaced ==
    ASSUME NEW a \in Seq(Nat), NEW r \in Seq(Nat), NEW now \in Nat,
           Spaced(a), Entries(a, r, now), HasRoom(Len(r))
    PROVE  Spaced(Append(a, now))
<1>. DEFINE b == Append(a, now)
<1>1. /\ Len(b) = Len(a) + 1 /\ b[Len(a) + 1] = now
      /\ \A i \in 1 .. Len(a) : b[i] = a[i]
  OBVIOUS
<1>2. /\ Len(a) \in Nat /\ Len(r) \in Nat /\ Len(r) <= Len(a)
      /\ \A i \in 1 .. Len(a) : a[i] \in Nat
      /\ \A i \in 1 .. Len(a) - Len(r) : a[i] + Window < now
      /\ Len(r) < MaxRequests
      /\ MaxRequests \in Nat \ {0} /\ Window \in Nat
  BY LimiterAssumption DEF Entries, IsTail, Forgot, HasRoom
<1>. HIDE DEF b
<1>3. ASSUME NEW i \in 1 .. Len(b), i + MaxRequests <= Len(b)
      PROVE  b[i + MaxRequests] - b[i] > Window
  <2>1. CASE i + MaxRequests = Len(a) + 1
    <3>1. i \in 1 .. Len(a) - Len(r) /\ i \in 1 .. Len(a)
      BY <2>1, <1>1, <1>2
    <3>2. a[i] + Window < now /\ a[i] \in Nat /\ b[i] = a[i] /\ b[i + MaxRequests] = now
      BY <2>1, <3>1, <1>1, <1>2
    <3>. QED BY <3>2, <1>2
  <2>2. CASE i + MaxRequests <= Len(a)
    <3>1. i \in 1 .. Len(a) /\ i + MaxRequests \in 1 .. Len(a)
      BY <2>2, <1>1, <1>2
    <3>. QED BY <2>2, <3>1, <1>1 DEF Spaced
  <2>3. i + MaxRequests \in Nat /\ i + MaxRequests <= Len(a) + 1 /\ Len(a) \in Nat
    BY <1>3, <1>1, <1>2
  <2>. QED BY <2>1, <2>2, <2>3
<1>. QED BY <1>3 DEF Spaced, b

\* With MaxRequests entries left, the history shows the client at its limit.
LEMMA RejectFull ==
    ASSUME NEW a \in Seq(Nat), NEW d \in Seq(Nat), NEW now \in Nat,
           NEW k \in 0 .. Len(d), Entries(a, d, now),
           Expires(d, now - Window, k), ~HasRoom(Len(d) - k)
    PROVE  Full(a, Len(a), now)
<1>1. /\ Len(a) \in Nat /\ Len(d) \in Nat /\ k \in Nat /\ k <= Len(d)
      /\ Len(d) <= Len(a)
      /\ \A i \in 1 .. Len(d) : d[i] = a[(Len(a) - Len(d)) + i]
      /\ \A i \in 1 .. Len(a) : a[i] \in Nat
      /\ \A i, j \in 1 .. Len(a) : i <= j => a[i] <= a[j]
  BY DEF Entries, IsTail, Ascends
<1>2. MaxRequests \in Nat \ {0} /\ Window \in Nat
  BY LimiterAssumption
<1>3. Len(d) - k >= MaxRequests
  BY <1>1, <1>2 DEF HasRoom
<1>4. k + 1 \in 1 .. Len(d) /\ d[k + 1] >= now - Window
  BY <1>1, <1>2, <1>3 DEF Expires
<1>5. /\ (Len(a) - Len(d)) + (k + 1) \in 1 .. Len(a)
      /\ a[(Len(a) - Len(d)) + (k + 1)] >= now - Window
  BY <1>1, <1>4
<1>6. ASSUME NEW i \in 1 .. Len(a), i > Len(a) - MaxRequests
      PROVE  now - a[i] <= Window
  <2>1. (Len(a) - Len(d)) + (k + 1) <= i
    BY <1>1, <1>2, <1>3, <1>6
  <2>2. a[i] >= a[(Len(a) - Len(d)) + (k + 1)] /\ a[i] \in Nat
    BY <2>1, <1>1, <1>5
  <2>3. a[(Len(a) - Len(d)) + (k + 1)] \in Nat
    BY <1>1, <1>5
  <2>4. PICK x \in Nat : x = a[(Len(a) - Len(d)) + (k + 1)]
    BY <2>3
  <2>5. x >= now - Window /\ a[i] >= x /\ a[i] \in Nat
    BY <2>2, <2>4, <1>5
  <2>. QED BY <2>4, <2>5, <1>2
<1>. QED BY <1>1, <1>2, <1>3, <1>6 DEF Full

\* A longer history shows the same client at its limit.
LEMMA AppendFull ==
    ASSUME NEW a \in Seq(Nat), NEW now \in Nat, NEW count \in Nat, NEW at \in Nat,
           count <= Len(a), Full(a, count, at)
    PROVE  count <= Len(Append(a, now)) /\ Full(Append(a, now), count, at)
<1>1. Len(a) \in Nat /\ Len(Append(a, now)) = Len(a) + 1
  OBVIOUS
<1>2. \A i \in 1 .. count : i \in 1 .. Len(a) /\ Append(a, now)[i] = a[i]
  OBVIOUS
<1>. QED BY <1>1, <1>2 DEF Full

\* retry_after is a whole number of seconds, one at least.
LEMMA RetryAfterNat ==
    ASSUME NEW oldest \in Nat, NEW now \in Nat
    PROVE  RetryAfter(oldest, now) \in Nat
<1>1. ((oldest + Window) - now) \div Second \in Int
  BY LimiterAssumption, SMT
<1>. QED BY <1>1, SMT DEF RetryAfter

-----------------------------------------------------------------------------
\* The call in progress, and what is known when it takes the lock.
LEMMA InCall ==
    ASSUME OneCaller, IInv, NEW t \in Callers, call[t].busy
    PROVE  /\ call[t].client \in Clients
           /\ call[t].now \in Nat
           /\ call[t].now <= clock
           /\ \A c \in Clients : Entries(admitted[c], deque[c], call[t].now)
           /\ \A s \in Callers : ~[call EXCEPT ![t] = NoCall][s].busy
           /\ [call EXCEPT ![t] = NoCall] \in [Callers -> Call \cup {NoCall}]
<1>1. call[t] \in Call
  BY DEF IInv, TypeOK, NoCall
<1>2. call[t].client \in Clients /\ call[t].now \in Nat
  BY <1>1 DEF Call
<1>3. \A s \in Callers : s = t
  BY DEF OneCaller
<1>4. \A s \in Callers : ~[call EXCEPT ![t] = NoCall][s].busy
  BY <1>3 DEF IInv, TypeOK, NoCall
<1>. QED BY <1>2, <1>4 DEF IInv, TypeOK

LEMMA TickPreserves ==
    ASSUME IInv, Tick
    PROVE  IInv'
<1>1. /\ clock \in Nat /\ clock' = clock + 1 /\ clock <= clock'
      /\ deque' = deque /\ call' = call /\ admitted' = admitted
      /\ rejected' = rejected
  BY DEF Tick, IInv, TypeOK
<1>2. \A c \in Clients : Entries(admitted[c], deque[c], clock')
  BY <1>1, Later DEF IInv, TypeOK
<1>3. TypeOK'
  BY <1>1 DEF IInv, TypeOK
<1>4. \A t \in Callers : call[t].busy => call[t].now <= clock'
  <2>1. \A t \in Callers : call[t].busy => call[t].now \in Nat
    <3>1. \A t \in Callers : call[t].busy => call[t] \in Call
      BY DEF IInv, TypeOK, NoCall
    <3>. QED BY <3>1 DEF Call
  <2>. QED BY <2>1, <1>1 DEF IInv
<1>. QED BY <1>1, <1>2, <1>3, <1>4 DEF IInv

LEMMA ReadClockPreserves ==
    ASSUME IInv, NEW t \in Callers, NEW c \in Clients, ReadClock(t, c)
    PROVE  IInv'
<1>1. /\ clock' = clock /\ deque' = deque /\ admitted' = admitted
      /\ rejected' = rejected /\ clock \in Nat
      /\ call' = [call EXCEPT ![t] = [busy |-> TRUE, client |-> c, now |-> clock]]
  BY DEF ReadClock, IInv, TypeOK
<1>2. /\ call'[t] = [busy |-> TRUE, client |-> c, now |-> clock]
      /\ \A s \in Callers \ {t} : call'[s] = call[s]
  BY <1>1 DEF IInv, TypeOK
<1>3. TypeOK'
  BY <1>1 DEF IInv, TypeOK, Call
<1>4. \A s \in Callers : call'[s].busy =>
        /\ call'[s].now <= clock
        /\ \A e \in Clients : Entries(admitted[e], deque[e], call'[s].now)
  <2>1. ASSUME NEW s \in Callers, call'[s].busy
        PROVE  /\ call'[s].now <= clock
               /\ \A e \in Clients : Entries(admitted[e], deque[e], call'[s].now)
    <3>1. CASE s = t
      BY <3>1, <1>1, <1>2 DEF IInv
    <3>2. CASE s # t
      BY <2>1, <3>2, <1>2 DEF IInv
    <3>. QED BY <3>1, <3>2
  <2>. QED BY <2>1
<1>. QED BY <1>1, <1>3, <1>4 DEF IInv

LEMMA AdmitPreserves ==
    ASSUME OneCaller, IInv, NEW t \in Callers, Admit(t)
    PROVE  IInv'
<1>1. PICK c \in Clients, now \in Nat :
        /\ c = call[t].client /\ now = call[t].now
        /\ now <= clock
        /\ \A e \in Clients : Entries(admitted[e], deque[e], now)
  BY InCall DEF Admit
<1>2. PICK k \in 0 .. Len(deque[c]) :
        /\ Expires(deque[c], now - Window, k)
        /\ HasRoom(Len(deque[c]) - k)
        /\ deque' = [deque EXCEPT ![c] =
                       Append(SubSeq(deque[c], k + 1, Len(deque[c])), now)]
        /\ admitted' = [admitted EXCEPT ![c] = Append(admitted[c], now)]
  BY <1>1 DEF Admit
<1>3. /\ call' = [call EXCEPT ![t] = NoCall] /\ clock' = clock
      /\ rejected' = rejected /\ clock \in Nat
      /\ \A s \in Callers : ~call'[s].busy
      /\ call' \in [Callers -> Call \cup {NoCall}]
      /\ deque[c] \in Seq(Nat) /\ admitted[c] \in Seq(Nat)
  BY InCall DEF Admit, IInv, TypeOK
<1>. DEFINE live == SubSeq(deque[c], k + 1, Len(deque[c]))
<1>4. live \in Seq(Nat) /\ Len(live) = Len(deque[c]) - k
  BY <1>3, DropPrefix
<1>5. Entries(admitted[c], live, now)
  BY <1>1, <1>2, <1>3, ExpireEntries DEF Expires
<1>. HIDE DEF live
<1>6. /\ Append(admitted[c], now) \in Seq(Nat) /\ Append(live, now) \in Seq(Nat)
      /\ Entries(Append(admitted[c], now), Append(live, now), clock)
  <2>1. /\ Append(admitted[c], now) \in Seq(Nat) /\ Append(live, now) \in Seq(Nat)
        /\ Entries(Append(admitted[c], now), Append(live, now), now)
    BY <1>3, <1>4, <1>5, AppendEntries
  <2>. QED BY <2>1, <1>1, <1>3, Later
<1>7. Spaced(Append(admitted[c], now))
  BY <1>2, <1>3, <1>4, <1>5, AppendSpaced DEF IInv
<1>8. /\ admitted'[c] = Append(admitted[c], now) /\ deque'[c] = Append(live, now)
      /\ \A e \in Clients \ {c} : admitted'[e] = admitted[e] /\ deque'[e] = deque[e]
  BY <1>2 DEF IInv, TypeOK, live
<1>9. TypeOK'
  <2>1. deque' \in [Clients -> Seq(Nat)] /\ admitted' \in [Clients -> Seq(Nat)]
    BY <1>2, <1>6 DEF IInv, TypeOK, live
  <2>. QED BY <2>1, <1>3 DEF IInv, TypeOK
<1>10. \A e \in Clients : Entries(admitted'[e], deque'[e], clock)
  BY <1>6, <1>8 DEF IInv
<1>11. \A e \in Clients : Spaced(admitted'[e])
  BY <1>7, <1>8 DEF IInv
<1>12. \A e \in Clients : rejected[e].known =>
         /\ rejected[e].count <= Len(admitted'[e])
         /\ Full(admitted'[e], rejected[e].count, rejected[e].at)
  <2>1. ASSUME NEW e \in Clients, rejected[e].known
        PROVE  /\ rejected[e].count <= Len(admitted'[e])
               /\ Full(admitted'[e], rejected[e].count, rejected[e].at)
    <3>1. rejected[e] \in Rejection
      BY <2>1 DEF IInv, TypeOK, NoRejection
    <3>2. rejected[e].count \in Nat /\ rejected[e].at \in Nat
      BY <3>1 DEF Rejection
    <3>3. CASE e = c
      BY <2>1, <3>2, <3>3, <1>3, <1>8, AppendFull DEF IInv
    <3>4. CASE e # c
      BY <2>1, <3>4, <1>8 DEF IInv
    <3>. QED BY <3>3, <3>4
  <2>. QED BY <2>1
<1>. QED BY <1>3, <1>9, <1>10, <1>11, <1>12 DEF IInv

LEMMA RejectPreserves ==
    ASSUME OneCaller, IInv, NEW t \in Callers, Reject(t)
    PROVE  IInv'
<1>1. PICK c \in Clients, now \in Nat :
        /\ c = call[t].client /\ now = call[t].now
        /\ now <= clock
        /\ \A e \in Clients : Entries(admitted[e], deque[e], now)
  BY InCall DEF Reject
<1>2. PICK k \in 0 .. Len(deque[c]) :
        /\ Expires(deque[c], now - Window, k)
        /\ ~HasRoom(Len(deque[c]) - k)
        /\ deque' = [deque EXCEPT ![c] = SubSeq(deque[c], k + 1, Len(deque[c]))]
        /\ rejected' = [rejected EXCEPT ![c] =
             [known |-> TRUE, at |-> now,
              retry_after |-> RetryAfter(deque[c][k + 1], now),
              count |-> Len(admitted[c])]]
  BY <1>1 DEF Reject
<1>3. /\ call' = [call EXCEPT ![t] = NoCall] /\ clock' = clock
      /\ admitted' = admitted /\ clock \in Nat
      /\ \A s \in Callers : ~call'[s].busy
      /\ call' \in [Callers -> Call \cup {NoCall}]
      /\ deque[c] \in Seq(Nat) /\ admitted[c] \in Seq(Nat)
  BY InCall DEF Reject, IInv, TypeOK
<1>. DEFINE live == SubSeq(deque[c], k + 1, Len(deque[c]))
<1>4. live \in Seq(Nat)
  BY <1>3, DropPrefix
<1>5. Entries(admitted[c], live, clock)
  BY <1>1, <1>2, <1>3, <1>4, ExpireEntries, Later DEF Expires
<1>6. Full(admitted[c], Len(admitted[c]), now)
  BY <1>1, <1>2, <1>3, RejectFull
<1>7. /\ RetryAfter(deque[c][k + 1], now) \in Nat
      /\ Len(admitted[c]) \in Nat
  <2>1. k + 1 \in 1 .. Len(deque[c])
    BY <1>2, <1>3, LimiterAssumption DEF HasRoom
  <2>2. deque[c][k + 1] \in Nat /\ Len(admitted[c]) \in Nat
    BY <2>1, <1>3
  <2>. QED BY <2>2, RetryAfterNat
<1>. HIDE DEF live
<1>8. /\ deque'[c] = live
      /\ \A e \in Clients \ {c} : deque'[e] = deque[e]
      /\ rejected'[c].known /\ rejected'[c].at = now
      /\ rejected'[c].count = Len(admitted[c])
      /\ \A e \in Clients \ {c} : rejected'[e] = rejected[e]
  BY <1>2 DEF IInv, TypeOK, live
<1>9. TypeOK'
  <2>1. deque' \in [Clients -> Seq(Nat)]
    BY <1>2, <1>4 DEF IInv, TypeOK, live
  <2>2. rejected' \in [Clients -> Rejection \cup {NoRejection}]
    BY <1>2, <1>7 DEF IInv, TypeOK, Rejection
  <2>. QED BY <2>1, <2>2, <1>3 DEF IInv, TypeOK
<1>10. \A e \in Clients : Entries(admitted[e], deque'[e], clock)
  BY <1>5, <1>8 DEF IInv
<1>11. \A e \in Clients : rejected'[e].known =>
         /\ rejected'[e].count <= Len(admitted[e])
         /\ Full(admitted[e], rejected'[e].count, rejected'[e].at)
  <2>1. ASSUME NEW e \in Clients, rejected'[e].known
        PROVE  /\ rejected'[e].count <= Len(admitted[e])
               /\ Full(admitted[e], rejected'[e].count, rejected'[e].at)
    <3>1. CASE e = c
      BY <3>1, <1>6, <1>7, <1>8
    <3>2. CASE e # c
      BY <2>1, <3>2, <1>8 DEF IInv
    <3>. QED BY <3>1, <3>2
  <2>. QED BY <2>1
<1>. QED BY <1>3, <1>9, <1>10, <1>11 DEF IInv

-----------------------------------------------------------------------------
\* The inductive invariant holds in every reachable state.
THEOREM LimiterInvariant == OneCaller => (Spec => []IInv)
<1>. SUFFICES ASSUME OneCaller PROVE Spec => []IInv
  OBVIOUS
<1>1. Init => IInv
  <2>. SUFFICES ASSUME Init PROVE IInv
    OBVIOUS
  <2>1. TypeOK
    BY DEF Init, TypeOK
  <2>2. \A c \in Clients : Len(admitted[c]) = 0 /\ Len(deque[c]) = 0
    BY DEF Init
  <2>3. ASSUME NEW c \in Clients
        PROVE  Entries(admitted[c], deque[c], clock) /\ Spaced(admitted[c])
    <3>1. Len(admitted[c]) = 0 /\ Len(deque[c]) = 0 /\ \A i \in 1 .. 0 : FALSE
      BY <2>2
    <3>2. IsTail(admitted[c], deque[c])
      BY <3>1 DEF IsTail
    <3>3. Ascends(admitted[c], clock)
      BY <3>1 DEF Ascends
    <3>4. Forgot(admitted[c], deque[c], clock)
      BY <3>1 DEF Forgot
    <3>5. Spaced(admitted[c])
      BY <3>1 DEF Spaced
    <3>. QED BY <3>2, <3>3, <3>4, <3>5 DEF Entries
  <2>4. /\ \A t \in Callers : ~call[t].busy
        /\ \A c \in Clients : ~rejected[c].known
    BY DEF Init, NoCall, NoRejection
  <2>. QED BY <2>1, <2>3, <2>4 DEF IInv
<1>2. IInv /\ [Next]_vars => IInv'
  <2>. SUFFICES ASSUME IInv, [Next]_vars PROVE IInv'
    OBVIOUS
  <2>1. CASE Tick
    BY <2>1, TickPreserves
  <2>2. CASE \E t \in Callers : \E c \in Clients : ReadClock(t, c)
    BY <2>2, ReadClockPreserves
  <2>3. CASE \E t \in Callers : Admit(t)
    BY <2>3, AdmitPreserves
  <2>4. CASE \E t \in Callers : Reject(t)
    BY <2>4, RejectPreserves
  <2>5. CASE UNCHANGED vars
    BY <2>5 DEF vars, IInv, TypeOK
  <2>. QED BY <2>1, <2>2, <2>3, <2>4, <2>5 DEF Next
<1>. QED BY <1>1, <1>2, PTL DEF Spec

\* No client is admitted more than MaxRequests times in one window.
THEOREM LimiterWindowBound == OneCaller => (Spec => []WindowBound)
<1>1. IInv => WindowBound
  BY DEF IInv, WindowBound, Spaced
<1>. QED BY <1>1, LimiterInvariant, PTL

\* check() rejects only a client that used its limit within the last window.
THEOREM LimiterRejectsAtLimit == OneCaller => (Spec => []RejectedOnlyAtLimit)
<1>1. IInv => RejectedOnlyAtLimit
  BY DEF IInv, RejectedOnlyAtLimit, Full
<1>. QED BY <1>1, LimiterInvariant, PTL

-----------------------------------------------------------------------------
(* Retry-After.  Since its latest rejection a client that was not admitted   *)
(* has the deque of that rejection, or less, and its oldest entry leaves the *)
(* window before the announced seconds are over.                             *)

RetryInv ==
    \A c \in Clients :
      /\ Len(deque[c]) <= MaxRequests
      /\ rejected[c].known /\ rejected[c].count = Len(admitted[c]) =>
           /\ Len(deque[c]) >= 1
           /\ deque[c][1] + Window < rejected[c].at + rejected[c].retry_after * Second

\* More seconds than the difference has, whatever a second is.
LEMMA WholeSeconds ==
    ASSUME NEW d \in Int
    PROVE  (d \div Second + 1) * Second > d
<1>1. Second \in Nat /\ Second > 0
  BY LimiterAssumption
<1>2. \A s \in Nat : s > 0 => d \div s \in Int /\ (d \div s + 1) * s > d
  BY SMT
<1>. QED BY <1>1, <1>2

LEMMA RetryAfterIsLate ==
    ASSUME NEW oldest \in Nat, NEW now \in Nat
    PROVE  oldest + Window < now + RetryAfter(oldest, now) * Second
<1>. DEFINE whole == ((oldest + Window) - now) \div Second + 1
<1>1. (oldest + Window) - now \in Int /\ Second \in Nat /\ Second > 0 /\ Window \in Nat
  BY LimiterAssumption
<1>2. whole \in Int /\ whole * Second > (oldest + Window) - now
  <2>1. whole * Second > (oldest + Window) - now
    BY <1>1, WholeSeconds
  <2>2. whole \in Int
    BY <1>1, SMT
  <2>. QED BY <2>1, <2>2
<1>3. RetryAfter(oldest, now) = IF whole > 1 THEN whole ELSE 1
  BY DEF RetryAfter
<1>. HIDE DEF whole
<1>4. CASE whole > 1
  <2>1. RetryAfter(oldest, now) * Second = whole * Second
    BY <1>3, <1>4
  <2>2. whole * Second \in Int
    BY <1>1, <1>2, SMT
  <2>. QED BY <1>1, <1>2, <2>1, <2>2
<1>5. CASE ~(whole > 1)
  <2>1. RetryAfter(oldest, now) * Second = Second
    BY <1>1, <1>3, <1>5, SMT
  <2>2. whole * Second <= Second
    BY <1>1, <1>2, <1>5, SMT
  <2>3. whole * Second \in Int
    BY <1>1, <1>2, SMT
  <2>. QED BY <1>1, <1>2, <2>1, <2>2, <2>3
<1>. QED BY <1>4, <1>5

LEMMA AdmitRetry ==
    ASSUME OneCaller, IInv, RetryInv, NEW t \in Callers, Admit(t)
    PROVE  RetryInv'
<1>1. PICK c \in Clients, now \in Nat : c = call[t].client /\ now = call[t].now
  BY InCall DEF Admit
<1>2. PICK k \in 0 .. Len(deque[c]) :
        /\ HasRoom(Len(deque[c]) - k)
        /\ deque' = [deque EXCEPT ![c] = Append(SubSeq(deque[c], k + 1, Len(deque[c])), now)]
        /\ admitted' = [admitted EXCEPT ![c] = Append(admitted[c], now)]
  BY <1>1 DEF Admit
<1>3. /\ rejected' = rejected /\ deque[c] \in Seq(Nat) /\ admitted[c] \in Seq(Nat)
      /\ deque \in [Clients -> Seq(Nat)] /\ admitted \in [Clients -> Seq(Nat)]
  BY DEF Admit, IInv, TypeOK
<1>. DEFINE live == SubSeq(deque[c], k + 1, Len(deque[c]))
<1>4. live \in Seq(Nat) /\ Len(live) = Len(deque[c]) - k /\ Len(deque[c]) - k < MaxRequests
  BY <1>2, <1>3, DropPrefix DEF HasRoom
<1>5. deque'[c] = Append(live, now) /\ admitted'[c] = Append(admitted[c], now)
  BY <1>2, <1>3
<1>6. \A e \in Clients \ {c} : deque'[e] = deque[e] /\ admitted'[e] = admitted[e]
  BY <1>2, <1>3
<1>. HIDE DEF live
<1>7. Len(deque'[c]) <= MaxRequests
  <2>1. Len(Append(live, now)) = Len(live) + 1 /\ Len(live) \in Nat
    BY <1>4
  <2>. QED BY <1>4, <1>5, <2>1, LimiterAssumption
<1>8. rejected[c].known => rejected[c].count # Len(admitted'[c])
  <2>1. rejected[c].known => rejected[c].count <= Len(admitted[c])
    BY DEF IInv
  <2>2. Len(admitted'[c]) = Len(admitted[c]) + 1 /\ Len(admitted[c]) \in Nat
    BY <1>3, <1>5
  <2>. QED BY <2>1, <2>2
<1>9. ASSUME NEW e \in Clients
      PROVE  /\ Len(deque'[e]) <= MaxRequests
             /\ rejected'[e].known /\ rejected'[e].count = Len(admitted'[e]) =>
                  /\ Len(deque'[e]) >= 1
                  /\ deque'[e][1] + Window < rejected'[e].at + rejected'[e].retry_after * Second
  <2>1. CASE e = c
    BY <1>3, <1>7, <1>8, <2>1
  <2>2. CASE e # c
    BY <1>3, <1>6, <2>2 DEF RetryInv
  <2>. QED BY <2>1, <2>2
<1>. QED BY <1>9 DEF RetryInv

LEMMA RejectRetry ==
    ASSUME OneCaller, IInv, RetryInv, NEW t \in Callers, Reject(t)
    PROVE  RetryInv'
<1>1. PICK c \in Clients, now \in Nat : c = call[t].client /\ now = call[t].now
  BY InCall DEF Reject
<1>2. PICK k \in 0 .. Len(deque[c]) :
        /\ ~HasRoom(Len(deque[c]) - k)
        /\ deque' = [deque EXCEPT ![c] = SubSeq(deque[c], k + 1, Len(deque[c]))]
        /\ rejected' = [rejected EXCEPT ![c] =
             [known |-> TRUE, at |-> now,
              retry_after |-> RetryAfter(deque[c][k + 1], now),
              count |-> Len(admitted[c])]]
  BY <1>1 DEF Reject
<1>3. /\ admitted' = admitted /\ deque[c] \in Seq(Nat) /\ deque \in [Clients -> Seq(Nat)]
      /\ DOMAIN rejected = Clients /\ Len(deque[c]) <= MaxRequests
  BY DEF Reject, IInv, TypeOK, RetryInv
<1>. DEFINE live == SubSeq(deque[c], k + 1, Len(deque[c]))
<1>4. /\ live \in Seq(Nat) /\ Len(live) = Len(deque[c]) - k
      /\ \A i \in 1 .. Len(deque[c]) - k : live[i] = deque[c][k + i]
  BY <1>3, DropPrefix
<1>5. Len(live) >= 1 /\ Len(live) <= MaxRequests
  BY <1>2, <1>3, <1>4, LimiterAssumption DEF HasRoom
<1>6. live[1] = deque[c][k + 1] /\ live[1] \in Nat
  BY <1>4, <1>5
<1>7. deque'[c] = live /\ \A e \in Clients \ {c} : deque'[e] = deque[e] /\ rejected'[e] = rejected[e]
  BY <1>2, <1>3
<1>8. rejected'[c].at = now /\ rejected'[c].retry_after = RetryAfter(deque[c][k + 1], now)
  BY <1>2, <1>3
<1>. HIDE DEF live
<1>9. deque'[c][1] + Window < rejected'[c].at + rejected'[c].retry_after * Second
  BY <1>6, <1>7, <1>8, RetryAfterIsLate
<1>10. ASSUME NEW e \in Clients
       PROVE  /\ Len(deque'[e]) <= MaxRequests
              /\ rejected'[e].known /\ rejected'[e].count = Len(admitted'[e]) =>
                   /\ Len(deque'[e]) >= 1
                   /\ deque'[e][1] + Window < rejected'[e].at + rejected'[e].retry_after * Second
  <2>1. CASE e = c
    BY <1>5, <1>7, <1>9, <2>1
  <2>2. CASE e # c
    BY <1>3, <1>7, <2>2 DEF RetryInv
  <2>. QED BY <2>1, <2>2
<1>. QED BY <1>10 DEF RetryInv

\* The expiry loop always ends somewhere: at the first entry that is young enough.
LEMMA ExpiryStops ==
    ASSUME NEW d \in Seq(Nat), NEW cutoff \in Int
    PROVE  \E k \in 0 .. Len(d) : Expires(d, cutoff, k)
<1>. DEFINE stops == {k \in 0 .. Len(d) : k < Len(d) => d[k + 1] >= cutoff}
<1>1. Len(d) \in Nat /\ \A i \in 1 .. Len(d) : d[i] \in Nat
  OBVIOUS
<1>2. stops \subseteq Nat /\ Len(d) \in stops
  BY <1>1
<1>3. PICK k \in stops : \A j \in stops : k <= j
  <2>. HIDE DEF stops
  <2>1. PICK k \in stops : \A j \in stops : ~(<<j, k>> \in OpToRel(<, Nat))
    BY <1>2, NatLessThanWellFounded, WFMin
  <2>2. \A j \in stops : ~(j < k)
    BY <1>2, <2>1 DEF OpToRel
  <2>. QED BY <1>2, <2>2
<1>4. ASSUME NEW i \in 1 .. k PROVE d[i] < cutoff
  <2>1. i - 1 \in 0 .. Len(d) /\ i - 1 < Len(d) /\ i - 1 < k /\ (i - 1) + 1 = i
    BY <1>1
  <2>2. i - 1 \notin stops
    BY <1>2, <1>3, <2>1
  <2>. QED BY <1>1, <2>1, <2>2
<1>. QED BY <1>3, <1>4 DEF Expires

LEMMA RetryHolds == IInv /\ RetryInv => RetryAfterSuffices
<1>. SUFFICES ASSUME IInv, RetryInv, NEW c \in Clients, rejected[c].known,
                     rejected[c].count = Len(admitted[c]),
                     clock >= rejected[c].at + rejected[c].retry_after * Second
              PROVE  \E k \in 0 .. Len(deque[c]) :
                       Expires(deque[c], clock - Window, k) /\ HasRoom(Len(deque[c]) - k)
  BY DEF RetryAfterSuffices
<1>1. /\ deque[c] \in Seq(Nat) /\ clock \in Nat /\ Window \in Nat /\ Second \in Nat
      /\ MaxRequests \in Nat \ {0} /\ rejected[c] \in Rejection
  BY LimiterAssumption DEF IInv, TypeOK, NoRejection
<1>2. /\ Len(deque[c]) <= MaxRequests /\ Len(deque[c]) >= 1
      /\ deque[c][1] + Window < rejected[c].at + rejected[c].retry_after * Second
  BY DEF RetryInv
<1>3. PICK k \in 0 .. Len(deque[c]) : Expires(deque[c], clock - Window, k)
  BY <1>1, ExpiryStops
<1>4. deque[c][1] \in Nat /\ Len(deque[c]) \in Nat
  BY <1>1, <1>2
<1>5. rejected[c].at + rejected[c].retry_after * Second \in Int
  <2>1. rejected[c].at \in Nat /\ rejected[c].retry_after \in Nat
    BY <1>1 DEF Rejection
  <2>. QED BY <1>1, <2>1, SMT
<1>6. deque[c][1] < clock - Window
  <2>. DEFINE due == rejected[c].at + rejected[c].retry_after * Second
  <2>1. due \in Int /\ deque[c][1] + Window < due /\ clock >= due
    BY <1>2, <1>5
  <2>. HIDE DEF due
  <2>. QED BY <1>1, <1>4, <2>1
<1>7. k # 0
  BY <1>1, <1>2, <1>3, <1>4, <1>6 DEF Expires
<1>8. HasRoom(Len(deque[c]) - k)
  BY <1>1, <1>2, <1>4, <1>7 DEF HasRoom
<1>. QED BY <1>3, <1>8

\* A client that waits as long as the 429 told it to, and was not admitted meanwhile,
\* is admitted: retry_after of check() never names a second too early.
THEOREM LimiterRetryAfter == OneCaller => (Spec => []RetryAfterSuffices)
<1>. SUFFICES ASSUME OneCaller PROVE Spec => []RetryAfterSuffices
  OBVIOUS
<1>1. Spec => []IInv
  BY LimiterInvariant
<1>2. Init => RetryInv
  <2>. SUFFICES ASSUME Init, NEW c \in Clients
                PROVE  Len(deque[c]) <= MaxRequests /\ ~rejected[c].known
    BY DEF RetryInv
  <2>1. deque[c] = << >> /\ rejected[c] = NoRejection
    BY DEF Init
  <2>. QED BY <2>1, LimiterAssumption DEF NoRejection
<1>3. IInv /\ RetryInv /\ [Next]_vars => RetryInv'
  <2>. SUFFICES ASSUME IInv, RetryInv, [Next]_vars PROVE RetryInv'
    OBVIOUS
  <2>1. CASE Tick \/ (\E t \in Callers : \E c \in Clients : ReadClock(t, c)) \/ UNCHANGED vars
    <3>1. UNCHANGED <<deque, admitted, rejected>>
      BY <2>1 DEF Tick, ReadClock, vars
    <3>. QED BY <3>1 DEF RetryInv
  <2>2. CASE \E t \in Callers : Admit(t)
    BY <2>2, AdmitRetry
  <2>3. CASE \E t \in Callers : Reject(t)
    BY <2>3, RejectRetry
  <2>. QED BY <2>1, <2>2, <2>3 DEF Next
<1>4. IInv /\ RetryInv => RetryAfterSuffices
  BY RetryHolds
<1>. QED BY <1>1, <1>2, <1>3, <1>4, PTL DEF Spec

-----------------------------------------------------------------------------
(* The class is documented for any number of threads. What these theorems say *)
(* holds however many call check(), and however late they come to the lock.   *)

\* A client's deque never holds more than its limit.
RemembersFew == \A c \in Clients : Len(deque[c]) <= MaxRequests

\* What the expiry loop removes for a call is determined, by the deque and the time the
\* call read: the call is admitted or rejected, and never both.
CallsAreDecided ==
    \A t \in Callers : call[t].busy =>
        LET dq == deque[call[t].client]
        IN  \E k \in 0 .. Len(dq) :
              \A j \in 0 .. Len(dq) : Expires(dq, call[t].now - Window, j) <=> j = k

\* The types and the length of the deques, of which each needs the other: a client
\* that is rejected has an oldest entry.
Bounded == TypeOK /\ RemembersFew

LEMMA BusyCall ==
    ASSUME TypeOK, NEW t \in Callers, call[t].busy
    PROVE  /\ call[t].client \in Clients /\ call[t].now \in Nat
           /\ deque[call[t].client] \in Seq(Nat)
<1>1. call[t] \in Call
  BY DEF TypeOK, NoCall
<1>2. call[t].client \in Clients /\ call[t].now \in Nat
  BY <1>1 DEF Call
<1>. QED BY <1>2 DEF TypeOK

LEMMA AdmitBounded == ASSUME Bounded, NEW t \in Callers, Admit(t) PROVE Bounded'
<1>. DEFINE c == call[t].client
            now == call[t].now
<1>1. call[t].busy /\ c \in Clients /\ now \in Nat /\ deque[c] \in Seq(Nat)
  BY BusyCall DEF Bounded, Admit
<1>2. PICK k \in 0 .. Len(deque[c]) :
        /\ HasRoom(Len(deque[c]) - k)
        /\ deque' = [deque EXCEPT ![c] = Append(SubSeq(@, k + 1, Len(@)), now)]
        /\ admitted' = [admitted EXCEPT ![c] = Append(@, now)]
  BY DEF Admit
<1>3. /\ clock' = clock /\ rejected' = rejected
      /\ call' = [call EXCEPT ![t] = NoCall]
  BY DEF Admit
<1>. HIDE DEF c, now
<1>4. SubSeq(deque[c], k + 1, Len(deque[c])) \in Seq(Nat)
      /\ Len(SubSeq(deque[c], k + 1, Len(deque[c]))) = Len(deque[c]) - k
  BY <1>1, DropPrefix
<1>5. deque'[c] \in Seq(Nat) /\ Len(deque'[c]) = (Len(deque[c]) - k) + 1
  BY <1>1, <1>2, <1>4 DEF Bounded, TypeOK
<1>6. Len(deque'[c]) <= MaxRequests
  BY <1>1, <1>2, <1>5, LimiterAssumption DEF HasRoom
<1>7. \A e \in Clients \ {c} : deque'[e] = deque[e]
  BY <1>2 DEF Bounded, TypeOK
<1>8. RemembersFew'
  BY <1>6, <1>7 DEF Bounded, RemembersFew
<1>9. deque' \in [Clients -> Seq(Nat)]
  BY <1>1, <1>2, <1>5, <1>7 DEF Bounded, TypeOK
<1>10. admitted' \in [Clients -> Seq(Nat)]
  BY <1>1, <1>2 DEF Bounded, TypeOK
<1>11. call' \in [Callers -> Call \cup {NoCall}]
  BY <1>3 DEF Bounded, TypeOK
<1>. QED BY <1>3, <1>8, <1>9, <1>10, <1>11 DEF Bounded, TypeOK

LEMMA RejectBounded == ASSUME Bounded, NEW t \in Callers, Reject(t) PROVE Bounded'
<1>. DEFINE c == call[t].client
            now == call[t].now
<1>1. call[t].busy /\ c \in Clients /\ now \in Nat /\ deque[c] \in Seq(Nat)
  BY BusyCall DEF Bounded, Reject
<1>2. PICK k \in 0 .. Len(deque[c]) :
        /\ ~HasRoom(Len(deque[c]) - k)
        /\ deque' = [deque EXCEPT ![c] = SubSeq(@, k + 1, Len(@))]
        /\ rejected' = [rejected EXCEPT ![c] =
             [known |-> TRUE, at |-> now, retry_after |-> RetryAfter(deque[c][k + 1], now),
              count |-> Len(admitted[c])]]
  BY DEF Reject
<1>3. clock' = clock /\ admitted' = admitted /\ call' = [call EXCEPT ![t] = NoCall]
  BY DEF Reject
<1>. HIDE DEF c, now
<1>4. SubSeq(deque[c], k + 1, Len(deque[c])) \in Seq(Nat)
      /\ Len(SubSeq(deque[c], k + 1, Len(deque[c]))) = Len(deque[c]) - k
  BY <1>1, DropPrefix
<1>5. deque'[c] \in Seq(Nat) /\ Len(deque'[c]) = Len(deque[c]) - k
  BY <1>1, <1>2, <1>4 DEF Bounded, TypeOK
<1>6. Len(deque[c]) <= MaxRequests /\ Len(deque[c]) \in Nat /\ MaxRequests \in Nat
  BY <1>1, LimiterAssumption DEF Bounded, RemembersFew
<1>7. \A e \in Clients \ {c} : deque'[e] = deque[e]
  BY <1>2 DEF Bounded, TypeOK
<1>8. RemembersFew'
  BY <1>5, <1>6, <1>7 DEF Bounded, RemembersFew
<1>9. deque' \in [Clients -> Seq(Nat)]
  BY <1>1, <1>2, <1>5, <1>7 DEF Bounded, TypeOK
<1>10. k + 1 \in 1 .. Len(deque[c])
  BY <1>2, <1>6, LimiterAssumption DEF HasRoom
<1>11. RetryAfter(deque[c][k + 1], now) \in Nat
  <2>1. deque[c][k + 1] \in Nat
    BY <1>1, <1>10
  <2>. QED BY <1>1, <2>1, RetryAfterNat
<1>12. Len(admitted[c]) \in Nat
  BY <1>1 DEF Bounded, TypeOK
<1>13. rejected' \in [Clients -> Rejection \cup {NoRejection}]
  BY <1>1, <1>2, <1>11, <1>12 DEF Bounded, TypeOK, Rejection
<1>14. call' \in [Callers -> Call \cup {NoCall}]
  BY <1>3 DEF Bounded, TypeOK
<1>. QED BY <1>3, <1>8, <1>9, <1>13, <1>14 DEF Bounded, TypeOK

LEMMA LimiterBounded == Spec => []Bounded
<1>1. Init => Bounded
  BY LimiterAssumption DEF Init, Bounded, TypeOK, RemembersFew
<1>2. Bounded /\ [Next]_vars => Bounded'
  <2>. SUFFICES ASSUME Bounded, [Next]_vars PROVE Bounded'
    OBVIOUS
  <2>1. CASE Tick
    BY <2>1 DEF Tick, Bounded, TypeOK, RemembersFew
  <2>2. ASSUME NEW t \in Callers, NEW c \in Clients, ReadClock(t, c) PROVE Bounded'
    BY <2>2 DEF ReadClock, Bounded, TypeOK, RemembersFew, Call
  <2>3. CASE UNCHANGED vars
    BY <2>3 DEF vars, Bounded, TypeOK, RemembersFew
  <2>. QED BY <2>1, <2>2, <2>3, AdmitBounded, RejectBounded DEF Next
<1>. QED BY <1>1, <1>2, PTL DEF Spec

\* The deques hold times, the calls in progress a client and a time, and
\* retry_after is a natural number of seconds, whatever the traffic; in particular
\* check() never looks for the oldest entry of an empty deque.
THEOREM LimiterTypeCorrect == Spec => []TypeOK
<1>1. Bounded => TypeOK
  BY DEF Bounded
<1>. QED BY <1>1, LimiterBounded, PTL

\* A client costs the memory of one limit: what is appended takes the place of what
\* expired, even when threads append their times out of order.
THEOREM LimiterRemembersFew == Spec => []RemembersFew
<1>1. Bounded => RemembersFew
  BY DEF Bounded
<1>. QED BY <1>1, LimiterBounded, PTL

\* Every call has an answer, and only one, also on a deque whose times do not ascend:
\* there the loop leaves expired entries behind, which count.
THEOREM LimiterDecides == Spec => []CallsAreDecided
<1>1. Bounded => CallsAreDecided
  <2>. SUFFICES ASSUME Bounded, NEW t \in Callers, call[t].busy
                PROVE  LET dq == deque[call[t].client]
                       IN  \E k \in 0 .. Len(dq) : \A j \in 0 .. Len(dq) :
                             Expires(dq, call[t].now - Window, j) <=> j = k
    BY DEF CallsAreDecided
  <2>. DEFINE dq == deque[call[t].client]
              cutoff == call[t].now - Window
  <2>1. dq \in Seq(Nat) /\ cutoff \in Int
    BY BusyCall, LimiterAssumption DEF Bounded
  <2>. HIDE DEF dq, cutoff
  <2>2. PICK k \in 0 .. Len(dq) : Expires(dq, cutoff, k)
    BY <2>1, ExpiryStops
  <2>3. ASSUME NEW j \in 0 .. Len(dq), Expires(dq, cutoff, j) PROVE j = k
    <3>1. Len(dq) \in Nat /\ \A i \in 1 .. Len(dq) : dq[i] \in Nat
      BY <2>1
    <3>2. ~(j < k)
      <4>1. ASSUME j < k PROVE FALSE
        <5>1. j + 1 \in 1 .. k /\ j < Len(dq) /\ j + 1 \in 1 .. Len(dq)
          BY <3>1, <4>1
        <5>2. dq[j + 1] < cutoff /\ dq[j + 1] >= cutoff
          BY <2>2, <2>3, <5>1 DEF Expires
        <5>. QED BY <2>1, <3>1, <5>1, <5>2
      <4>. QED BY <4>1
    <3>3. ~(k < j)
      <4>1. ASSUME k < j PROVE FALSE
        <5>1. k + 1 \in 1 .. j /\ k < Len(dq) /\ k + 1 \in 1 .. Len(dq)
          BY <3>1, <4>1
        <5>2. dq[k + 1] < cutoff /\ dq[k + 1] >= cutoff
          BY <2>2, <2>3, <5>1 DEF Expires
        <5>. QED BY <2>1, <3>1, <5>1, <5>2
      <4>. QED BY <4>1
    <3>. QED BY <3>1, <3>2, <3>3
  <2>. QED BY <2>2, <2>3 DEF dq, cutoff
<1>. QED BY <1>1, LimiterBounded, PTL

=============================================================================
