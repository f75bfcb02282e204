-------------------------- MODULE GraphBuilderProofs --------------------------
(***************************************************************************)
(* Proofs about GraphBuilder and the request that follows it, for any      *)
(* repositories, languages and orders of the files, questions and tables   *)
(* of words.                                                               *)
(*                                                                         *)
(* The graph.  It has no two nodes of one id, its edges and its views lead *)
(* nowhere else than documented, its hierarchy is that of the source, and  *)
(* only what the repository defines is a node of it.  The invariant says   *)
(* what the passes have computed in terms of the set of the files they     *)
(* have seen, without their order: the registry is that of the files       *)
(* registered, the edges are those the emitted files emit under the whole  *)
(* registry, and the ids of the nodes are theirs, until the last pass      *)
(* keeps the ids the edges mention.                                        *)
(*                                                                         *)
(* The context of a node.  Each relation of the finished graph is spelled  *)
(* out as a relation of the declarations, in both directions; as long as   *)
(* nothing clashes the id of a node tells its type, and what is read along *)
(* the edges is what the source says.                                      *)
(*                                                                         *)
(* The answer.  The finished graph has finitely many nodes and edges, the  *)
(* scores are integers, and a finite set sorted by a strict total order is *)
(* that set, each element once, in the order.  That the ids are in such an *)
(* order is a hypothesis of these theorems: a path or a name is a string   *)
(* of the program, and the model leaves the order of the strings open.     *)
(***************************************************************************)
EXTENDS RepositoryPipeline, FiniteSetTheorems, WellFoundedInduction, TLAPS

\* R orders S, strictly and totally.
Linear(S, R) ==
    \A p, q, r \in S :
      /\ <<p, p>> \notin R
      /\ p = q \/ <<p, q>> \in R \/ <<q, p>> \in R
      /\ <<p, q>> \in R /\ <<q, r>> \in R => <<p, r>> \in R

\* Sorted, of a relation.
SortedBy(S, R) ==
    LET place == [n \in S |-> Cardinality({o \in S : <<o, n>> \in R}) + 1]
    IN  [i \in 1 .. Cardinality(S) |-> CHOOSE n \in S : place[n] = i]

\* A sorted set is the set, each element once, in the order.
LEMMA SortedFacts ==
    ASSUME NEW S, IsFiniteSet(S), NEW R, Linear(S, R)
    PROVE  LET s == SortedBy(S, R)
           IN  /\ s \in Seq(S) /\ Len(s) = Cardinality(S)
               /\ \A n \in S : \E i \in 1 .. Len(s) : s[i] = n
               /\ \A i, j \in 1 .. Len(s) : s[i] = s[j] => i = j
               /\ \A i, j \in 1 .. Len(s) : <<s[i], s[j]>> \in R => i < j
  <1> DEFINE Pred(n) == {o \in S : <<o, n>> \in R}
             place == [n \in S |-> Cardinality(Pred(n)) + 1]
             c == Cardinality(S)
             s == [i \in 1 .. c |-> CHOOSE n \in S : place[n] = i]
  <1>1. SortedBy(S, R) = s
    BY DEF SortedBy
  <1>2. c \in Nat
    BY FS_CardinalityType
  <1>3. ASSUME NEW n \in S
        PROVE  IsFiniteSet(Pred(n)) /\ Cardinality(Pred(n)) \in Nat /\ Cardinality(Pred(n)) < c
    <2>1. Pred(n) \in SUBSET S /\ n \notin Pred(n)
      BY DEF Linear
    <2>2. IsFiniteSet(Pred(n)) /\ Cardinality(Pred(n)) <= c /\ Cardinality(Pred(n)) # c
      <3> HIDE DEF Pred
      <3> QED
        BY <2>1, FS_Subset
    <2>3. Cardinality(Pred(n)) \in Nat
      BY <2>2, FS_CardinalityType
    <2> QED
      BY <1>2, <2>2, <2>3
  <1>4. ASSUME NEW o \in S, NEW n \in S, <<o, n>> \in R
        PROVE  place[o] < place[n]
    <2>1. Pred(o) \in SUBSET Pred(n) /\ o \in Pred(n) /\ o \notin Pred(o)
      BY <1>4 DEF Linear
    <2>2. IsFiniteSet(Pred(n)) /\ Cardinality(Pred(n)) \in Nat /\ Cardinality(Pred(o)) \in Nat
      BY <1>3
    <2>3. place[o] = Cardinality(Pred(o)) + 1 /\ place[n] = Cardinality(Pred(n)) + 1
      OBVIOUS
    <2> HIDE DEF Pred, place
    <2>4. Cardinality(Pred(o)) <= Cardinality(Pred(n)) /\ Cardinality(Pred(o)) # Cardinality(Pred(n))
      BY <2>1, <2>2, FS_Subset
    <2> QED
      BY <2>2, <2>3, <2>4
  <1>5. place \in Injection(S, 1 .. c)
    <2>1. ASSUME NEW n \in S PROVE place[n] \in 1 .. c
      <3>1. place[n] = Cardinality(Pred(n)) + 1
        OBVIOUS
      <3> HIDE DEF place, Pred, c
      <3> QED
        BY <1>2, <1>3, <3>1
    <2>2. ASSUME NEW n \in S, NEW o \in S, place[n] = place[o] PROVE n = o
      <3>1. place[n] \in Nat /\ place[o] \in Nat
        <4> HIDE DEF place, c
        <4> QED
          BY <1>2, <2>1
      <3>2. ~(place[n] < place[o]) /\ ~(place[o] < place[n])
        <4> HIDE DEF place
        <4> QED
          BY <2>2, <3>1
      <3>3. <<n, o>> \notin R /\ <<o, n>> \notin R
        <4> HIDE DEF place
        <4> QED
          BY <1>4, <3>2
      <3> HIDE DEF place
      <3> QED
        BY <3>3 DEF Linear
    <2>3. place = [n \in S |-> place[n]]
      OBVIOUS
    <2> HIDE DEF place, c
    <2> QED
      BY <2>1, <2>2, <2>3 DEF Injection, IsInjective
  <1>6. place \in Surjection(S, 1 .. c)
    <2>1. IsFiniteSet(1 .. c) /\ Cardinality(1 .. c) = c
      <3> HIDE DEF c
      <3> QED
        BY <1>2, FS_Interval
    <2> HIDE DEF place
    <2> QED
      BY <1>5, <2>1, FS_Injection
  <1>7. /\ \A n \in S : place[n] \in 1 .. c
        /\ \A n, o \in S : place[n] = place[o] => n = o
        /\ \A i \in 1 .. c : \E n \in S : place[n] = i
    <2> HIDE DEF place, c
    <2> QED
      BY <1>5, <1>6 DEF Injection, Surjection, IsInjective
  <1> HIDE DEF place
  <1>8. \A i \in 1 .. c : s[i] \in S /\ place[s[i]] = i
    BY <1>7
  <1>9. \A n \in S : s[place[n]] = n
    BY <1>7
  <1>10. s \in Seq(S) /\ Len(s) = c
    BY <1>2, <1>8
  <1> HIDE DEF s, c
  <1>11. \A n \in S : \E i \in 1 .. c : s[i] = n
    BY <1>7, <1>9
  <1>12. \A i, j \in 1 .. c : s[i] = s[j] => i = j
    BY <1>8
  <1>13. \A i, j \in 1 .. c : <<s[i], s[j]>> \in R => i < j
    BY <1>4, <1>8
  <1> QED
    BY <1>1, <1>10, <1>11, <1>12, <1>13 DEF c

\* It starts with the least.
LEMMA Least ==
    ASSUME NEW S, IsFiniteSet(S), S # {}, NEW R, Linear(S, R)
    PROVE  \E m \in S : {n \in S : \A o \in S \ {n} : <<n, o>> \in R} = {m}
  <1> DEFINE s == SortedBy(S, R)
  <1>1. /\ s \in Seq(S)
        /\ \A n \in S : \E i \in 1 .. Len(s) : s[i] = n
        /\ \A i, j \in 1 .. Len(s) : <<s[i], s[j]>> \in R => i < j
    BY SortedFacts
  <1> HIDE DEF s
  <1>2. Len(s) \in Nat /\ Len(s) # 0
    BY <1>1
  <1>3. 1 \in 1 .. Len(s) /\ s[1] \in S
    BY <1>1, <1>2
  <1>4. \A o \in S \ {s[1]} : <<s[1], o>> \in R
    <2> SUFFICES ASSUME NEW o \in S \ {s[1]} PROVE <<s[1], o>> \in R
      OBVIOUS
    <2>1. PICK i \in 1 .. Len(s) : s[i] = o
      BY <1>1
    <2>2. <<s[i], s[1]>> \in R => i < 1
      BY <1>1, <1>3
    <2>3. <<o, s[1]>> \notin R
      BY <1>2, <2>1, <2>2
    <2> QED
      BY <1>3, <2>3 DEF Linear
  <1>5. \A n \in S : (\A o \in S \ {n} : <<n, o>> \in R) => n = s[1]
    BY <1>3, <1>4 DEF Linear
  <1> QED
    BY <1>3, <1>4, <1>5

\* What a function makes of a finite set is finite.
LEMMA ImageFinite ==
    ASSUME NEW S, IsFiniteSet(S), NEW f
    PROVE  IsFiniteSet({f[x] : x \in S})
  <1> DEFINE g == [x \in S |-> f[x]]
  <1>1. g \in Surjection(S, {f[x] : x \in S})
    BY DEF Surjection
  <1> HIDE DEF g
  <1> QED
    BY <1>1, FS_Surjection

-----------------------------------------------------------------------------
\* Induction over the natural numbers, for a set.
LEMMA NaturalSet ==
    ASSUME NEW S \in SUBSET Nat, 0 \in S, \A n \in S : n + 1 \in S
    PROVE  S = Nat
  <1> SUFFICES ASSUME Nat \ S # {} PROVE FALSE
    OBVIOUS
  <1>1. PICK m \in Nat \ S : \A k \in Nat \ S : <<k, m>> \notin OpToRel(<, Nat)
    BY NatLessThanWellFounded, WFMin
  <1>2. m \in Nat /\ m \notin S
    OBVIOUS
  <1>3. m # 0
    BY <1>2
  <1>4. m - 1 \in Nat /\ m - 1 < m /\ (m - 1) + 1 = m
    BY <1>2, <1>3
  <1>5. <<m - 1, m>> \in OpToRel(<, Nat)
    BY <1>2, <1>4 DEF OpToRel
  <1>6. m - 1 \in S
    BY <1>1, <1>4, <1>5
  <1>7. (m - 1) + 1 \in S
    BY <1>6
  <1> QED
    BY <1>2, <1>4, <1>7

\* A function may be defined by recursion.
Iterates(g, T, base, F) ==
    g \in [Nat -> T] /\ g[0] = base /\ \A n \in Nat : g[n + 1] = F[g[n]]

LEMMA Recursion ==
    ASSUME NEW T, NEW base \in T, NEW F \in [T -> T]
    PROVE  \E g : Iterates(g, T, base, F)
  <1> DEFINE Upto(n) == {g \in [0 .. n -> T] :
                           g[0] = base /\ \A i \in 0 .. n - 1 : g[i + 1] = F[g[i]]}
             Ns == {n \in Nat : Upto(n) # {}}
  <1>1. 0 \in Ns
    <2>1. [i \in 0 .. 0 |-> base] \in Upto(0)
      OBVIOUS
    <2> QED
      BY <2>1
  <1>2. \A n \in Ns : n + 1 \in Ns
    <2> SUFFICES ASSUME NEW n \in Ns PROVE Upto(n + 1) # {}
      OBVIOUS
    <2>1. PICK g : g \in Upto(n)
      OBVIOUS
    <2> DEFINE h == [i \in 0 .. n + 1 |-> IF i = n + 1 THEN F[g[n]] ELSE g[i]]
    <2>2. h \in Upto(n + 1)
      BY <2>1
    <2> QED
      BY <2>2
  <1>3. Ns = Nat
    <2> HIDE DEF Ns
    <2> QED
      BY <1>1, <1>2, NaturalSet DEF Ns
  <1>4. ASSUME NEW n \in Nat, NEW m \in Nat, n <= m, NEW g \in Upto(n), NEW h \in Upto(m)
        PROVE  g[n] = h[n]
    <2> DEFINE S == {i \in Nat : i <= n => g[i] = h[i]}
    <2>1. 0 \in S
      BY <1>4
    <2>2. \A i \in S : i + 1 \in S
      <3> SUFFICES ASSUME NEW i \in S, i + 1 <= n PROVE g[i + 1] = h[i + 1]
        OBVIOUS
      <3>1. g[i] = h[i] /\ i \in 0 .. n - 1 /\ i \in 0 .. m - 1
        BY <1>4
      <3> QED
        BY <3>1
    <2>3. S = Nat
      <3> HIDE DEF S
      <3> QED
        BY <2>1, <2>2, NaturalSet DEF S
    <2> QED
      BY <2>3
  <1> DEFINE G == [n \in Nat |-> CHOOSE x \in T : \E g \in Upto(n) : x = g[n]]
  <1>5. ASSUME NEW n \in Nat, NEW g \in Upto(n)
        PROVE  G[n] = g[n]
    <2>1. g[n] \in T
      OBVIOUS
    <2>2. \E x \in T : \E h \in Upto(n) : x = h[n]
      <3> HIDE DEF Upto
      <3> QED
        BY <2>1
    <2>3. \A h \in Upto(n) : h[n] = g[n]
      <3> HIDE DEF Upto
      <3> QED
        BY <1>4
    <2> HIDE DEF Upto
    <2> QED
      BY <2>2, <2>3
  <1>6. ASSUME NEW n \in Nat PROVE G[n] \in T /\ G[n + 1] = F[G[n]]
    <2>1. PICK h \in Upto(n + 1) : TRUE
      <3> HIDE DEF Upto
      <3> QED
        BY <1>3 DEF Ns
    <2> DEFINE g == [i \in 0 .. n |-> h[i]]
    <2>2. g \in Upto(n) /\ g[n] = h[n] /\ h[n + 1] = F[h[n]] /\ h[n] \in T
      OBVIOUS
    <2> HIDE DEF Upto, g, G
    <2> QED
      BY <1>5, <2>2
  <1>7. G[0] = base
    <2>1. PICK g \in Upto(0) : TRUE
      <3> HIDE DEF Upto, Ns
      <3> QED
        BY <1>1 DEF Ns
    <2>2. g[0] = base
      OBVIOUS
    <2> HIDE DEF Upto, G
    <2> QED
      BY <1>5, <2>2
  <1>8. G \in [Nat -> T]
    <2> SUFFICES ASSUME NEW n \in Nat PROVE G[n] \in T
      OBVIOUS
    <2> HIDE DEF G
    <2> QED
      BY <1>6
  <1> HIDE DEF G
  <1> QED
    BY <1>6, <1>7, <1>8 DEF Iterates

\* The sum of the weights of a finite set, as MapThenSumSet defines it.
Sums(iter, S, w) ==
    iter = [s \in SUBSET S |-> IF s = {} THEN 0
                               ELSE LET x == CHOOSE x \in s : TRUE IN w[x] + iter[s \ {x}]]

\* Such a function exists.
LEMMA SumExists ==
    ASSUME NEW S, IsFiniteSet(S), NEW w \in [S -> Int]
    PROVE  \E iter : Sums(iter, S, w)
  <1> DEFINE pick(s) == CHOOSE x \in s : TRUE
             T == [SUBSET S -> Int]
             base == [s \in SUBSET S |-> 0]
             F == [g \in T |-> [s \in SUBSET S |-> IF s = {} THEN 0
                                                    ELSE w[pick(s)] + g[s \ {pick(s)}]]]
  <1>1. \A s \in SUBSET S : s # {} => pick(s) \in s
    OBVIOUS
  <1> HIDE DEF pick
  <1>2. PICK g : Iterates(g, T, base, F)
    <2>1. base \in T
      OBVIOUS
    <2>2. F \in [T -> T]
      BY <1>1
    <2> HIDE DEF base, T, F
    <2> QED
      BY <2>1, <2>2, Recursion
  <1>3. /\ \A n \in Nat : g[n] \in T
        /\ \A n \in Nat, s \in SUBSET S : s # {} => g[n + 1][s] = w[pick(s)] + g[n][s \ {pick(s)}]
        /\ \A n \in Nat : g[n][{}] = 0
    <2>1. g \in [Nat -> T] /\ g[0] = base /\ \A n \in Nat : g[n + 1] = F[g[n]]
      BY <1>2 DEF Iterates
    <2>2. ASSUME NEW n \in Nat, NEW s \in SUBSET S, s # {}
          PROVE  g[n + 1][s] = w[pick(s)] + g[n][s \ {pick(s)}]
      <3>1. g[n] \in T /\ g[n + 1] = F[g[n]]
        <4> HIDE DEF T, F
        <4> QED
          BY <2>1
      <3>2. F[g[n]] = [t \in SUBSET S |-> IF t = {} THEN 0 ELSE w[pick(t)] + g[n][t \ {pick(t)}]]
        <4> HIDE DEF T
        <4> QED
          BY <3>1
      <3> HIDE DEF F
      <3> QED
        BY <2>2, <3>1, <3>2
    <2>3. ASSUME NEW n \in Nat PROVE g[n][{}] = 0
      <3>1. CASE n = 0
        BY <2>1, <3>1
      <3>2. CASE n # 0
        <4>1. n - 1 \in Nat /\ (n - 1) + 1 = n
          BY <3>2
        <4>2. g[n - 1] \in T /\ g[n] = F[g[n - 1]]
          <5> HIDE DEF T, F
          <5> QED
            BY <2>1, <4>1
        <4>3. F[g[n - 1]] = [t \in SUBSET S |-> IF t = {} THEN 0 ELSE w[pick(t)] + g[n - 1][t \ {pick(t)}]]
          <5> HIDE DEF T
          <5> QED
            BY <4>2
        <4> HIDE DEF F
        <4> QED
          BY <4>2, <4>3
      <3> QED
        BY <3>1, <3>2
    <2>4. \A n \in Nat : g[n] \in T
      <3> HIDE DEF T, F
      <3> QED
        BY <2>1
    <2> QED
      BY <2>2, <2>3, <2>4
  <1> DEFINE iter == [s \in SUBSET S |-> g[Cardinality(s)][s]]
  <1>4. ASSUME NEW s \in SUBSET S
        PROVE  iter[s] = IF s = {} THEN 0 ELSE w[pick(s)] + iter[s \ {pick(s)}]
    <2>1. CASE s = {}
      BY <1>3, <2>1, FS_EmptySet
    <2>2. CASE s # {}
      <3> DEFINE t == s \ {pick(s)}
                 n == Cardinality(t)
      <3>1. IsFiniteSet(s) /\ Cardinality(s) \in Nat
        BY FS_Subset, FS_CardinalityType
      <3>2. pick(s) \in s
        BY <1>1, <2>2
      <3>3. IsFiniteSet(t) /\ n = Cardinality(s) - 1
        BY <3>1, <3>2, FS_RemoveElement
      <3>4. n \in Nat
        <4> HIDE DEF t
        <4> QED
          BY <3>3, FS_CardinalityType
      <3>5. Cardinality(s) = n + 1
        <4> HIDE DEF n
        <4> QED
          BY <3>1, <3>3, <3>4
      <3>6. iter[s] = g[n + 1][s] /\ iter[t] = g[n][t]
        BY <3>5
      <3> HIDE DEF n, iter
      <3> QED
        BY <1>3, <2>2, <3>4, <3>6
    <2> QED
      BY <2>1, <2>2
  <1>5. iter = [s \in SUBSET S |-> IF s = {} THEN 0 ELSE w[pick(s)] + iter[s \ {pick(s)}]]
    <2>1. iter = [s \in SUBSET S |-> iter[s]]
      OBVIOUS
    <2> HIDE DEF iter
    <2> QED
      BY <1>4, <2>1
  <1>6. Sums(iter, S, w)
    <2> HIDE DEF iter
    <2> QED
      BY <1>5 DEF Sums, pick
  <1> QED
    BY <1>6

\* A sum of integers is one.
LEMMA SumIsInt ==
    ASSUME NEW S, IsFiniteSet(S), NEW w \in [S -> Int], NEW iter, Sums(iter, S, w)
    PROVE  iter[S] \in Int
  <1> DEFINE pick(s) == CHOOSE x \in s : TRUE
             Ns == {n \in Nat : \A s \in SUBSET S : Cardinality(s) = n => iter[s] \in Int}
  <1>1. /\ iter[{}] = 0
        /\ \A s \in SUBSET S : s # {} => pick(s) \in s /\ iter[s] = w[pick(s)] + iter[s \ {pick(s)}]
    <2>1. \A s \in SUBSET S :
            iter[s] = IF s = {} THEN 0 ELSE w[pick(s)] + iter[s \ {pick(s)}]
      BY DEF Sums
    <2>2. \A s \in SUBSET S : s # {} => pick(s) \in s
      OBVIOUS
    <2>3. {} \in SUBSET S
      OBVIOUS
    <2> HIDE DEF pick
    <2> QED
      BY <2>1, <2>2, <2>3
  <1>2. \A s \in SUBSET S : IsFiniteSet(s) /\ Cardinality(s) \in Nat
    BY FS_Subset, FS_CardinalityType
  <1>3. 0 \in Ns
    <2>1. \A s \in SUBSET S : Cardinality(s) = 0 => s = {}
      BY <1>2, FS_EmptySet
    <2> HIDE DEF pick
    <2> QED
      BY <1>1, <2>1
  <1>4. ASSUME NEW n \in Ns PROVE n + 1 \in Ns
    <2> SUFFICES ASSUME NEW s \in SUBSET S, Cardinality(s) = n + 1 PROVE iter[s] \in Int
      OBVIOUS
    <2>1. n \in Nat /\ \A t \in SUBSET S : Cardinality(t) = n => iter[t] \in Int
      OBVIOUS
    <2>2. s # {}
      BY <2>1, FS_EmptySet
    <2>3. pick(s) \in s /\ iter[s] = w[pick(s)] + iter[s \ {pick(s)}]
      BY <1>1, <2>2
    <2> HIDE DEF pick, Ns
    <2>4. Cardinality(s \ {pick(s)}) = n
      BY <1>2, <2>1, <2>3, FS_RemoveElement
    <2>5. w[pick(s)] \in Int
      BY <2>3
    <2> QED
      BY <2>1, <2>3, <2>4, <2>5
  <1>5. Ns = Nat
    <2> HIDE DEF Ns
    <2> QED
      BY <1>3, <1>4, NaturalSet DEF Ns
  <1> QED
    BY <1>2, <1>5

-----------------------------------------------------------------------------
\* What a parser makes of a source file.
ParsedFiles ==
    {CodeParserParseFile(f) : f \in SourceFiles} \cup {TSParseFile(f) : f \in SourceFiles}

\* A function or a method of a parsed file, a class, and the file.
IsCallable(d) == d.name \in Names /\ d.decorators \subseteq Seq(Names)

IsClass(c) ==
    /\ IsCallable(c) /\ c.inherits_from \subseteq Names
    /\ \A m \in c.methods : IsCallable(m)

IsFile(f) ==
    /\ f.file_path \in Seq(Names) /\ f.imports \subseteq Seq(Names)
    /\ \A c \in f.classes : IsClass(c)
    /\ \A g \in f.functions : IsCallable(g)

-----------------------------------------------------------------------------
\* The decorators and the bases of a declaration are references.
LEMMA DeclarationFacts ==
    ASSUME NEW d \in Declarations
    PROVE  /\ d.name \in Names /\ {dec.ref : dec \in d.decorators} \subseteq Seq(Names)
           /\ ExtractBases(d) \subseteq Names /\ {Head(base) : base \in d.bases} \subseteq Names
  <1>1. /\ d.name \in Names /\ d.bases \subseteq References
        /\ d.decorators \subseteq [ref : References, is_call : BOOLEAN]
    BY DEF Declarations
  <1>2. \A dec \in d.decorators : dec.ref \in Seq(Names)
    BY <1>1 DEF References
  <1>3. ASSUME NEW base \in d.bases PROVE Last(base) \in Names /\ Head(base) \in Names
    <2>1. base \in Seq(Names) /\ base # << >>
      BY <1>1 DEF References
    <2>2. Len(base) \in Nat /\ Len(base) >= 1
      BY <2>1
    <2>3. base[Len(base)] \in Names /\ base[1] \in Names
      BY <2>1, <2>2
    <2> QED
      BY <2>1, <2>3 DEF Last
  <1> QED
    BY <1>1, <1>2, <1>3 DEF ExtractBases

\* The callables the parsers extract are named and decorated as the source says.
LEMMA CallableFacts ==
    ASSUME NEW d \in Declarations, NEW calls, NEW decorators,
           decorators \in {{}, {dec.ref : dec \in d.decorators}}
    PROVE  IsCallable([name |-> d.name, decorators |-> decorators, calls |-> calls])
  <1>1. d.name \in Names /\ decorators \subseteq Seq(Names)
    BY DeclarationFacts
  <1> QED
    BY <1>1 DEF IsCallable

\* Both parsers make parsed files.
LEMMA ParsedType ==
    ASSUME NEW p \in ParsedFiles
    PROVE  IsFile(p)
  <1>1. ASSUME NEW f \in SourceFiles, p = CodeParserParseFile(f) PROVE IsFile(p)
    <2>1. /\ f.path \in Seq(Names) /\ f.tree \subseteq Declarations
          /\ f.imports \subseteq [module : References, relative : BOOLEAN]
      BY DEF SourceFiles, References
    <2>2. ExtractImports(f) \subseteq Seq(Names)
      BY <2>1 DEF ExtractImports, References
    <2>3. \A d \in Declarations : IsCallable(ExtractFunction(f.tree, d))
      BY CallableFacts DEF ExtractFunction
    <2>4. ASSUME NEW d \in Declarations PROVE IsClass(ExtractClass(f.tree, d))
      <3> DEFINE methods == {ExtractFunction(f.tree, e) : e \in {e \in Inside(f.tree, d) : e.kind = "def"}}
      <3>1. \A m \in methods : IsCallable(m)
        BY <2>1, <2>3 DEF Inside
      <3>2. ExtractClass(f.tree, d) =
              [name |-> d.name, inherits_from |-> ExtractBases(d),
               decorators |-> {dec.ref : dec \in d.decorators}, methods |-> methods]
        BY DEF ExtractClass
      <3> HIDE DEF methods
      <3> QED
        BY <3>1, <3>2, DeclarationFacts DEF IsClass, IsCallable
    <2>5. TopLevel(f.tree, "class") \subseteq Declarations /\ TopLevel(f.tree, "def") \subseteq Declarations
      BY <2>1 DEF TopLevel
    <2>6. /\ p.file_path = f.path /\ p.imports = ExtractImports(f)
          /\ p.classes = {ExtractClass(f.tree, d) : d \in TopLevel(f.tree, "class")}
          /\ p.functions = {ExtractFunction(f.tree, d) : d \in TopLevel(f.tree, "def")}
      BY <1>1 DEF CodeParserParseFile
    <2> QED
      BY <2>1, <2>2, <2>3, <2>4, <2>5, <2>6 DEF IsFile
  <1>2. ASSUME NEW f \in SourceFiles, p = TSParseFile(f) PROVE IsFile(p)
    <2>1. /\ f.path \in Seq(Names) /\ f.tree \subseteq Declarations
          /\ f.imports \subseteq [module : References, relative : BOOLEAN]
      BY DEF SourceFiles, References
    <2>2. {i.module : i \in f.imports} \subseteq Seq(Names)
      BY <2>1 DEF References
    <2>3. ASSUME NEW d \in Declarations, NEW m \in TSExtractMethods(f.tree, d) PROVE IsCallable(m)
      <3>1. PICK e \in Inside(f.tree, d) :
              m = [name |-> e.name, decorators |-> {dec.ref : dec \in e.decorators},
                   calls |-> IF e.kind = "field" THEN {} ELSE TSExtractCalls(f.tree, e)]
        BY DEF TSExtractMethods
      <3>2. e \in Declarations
        BY <2>1 DEF Inside
      <3> QED
        BY <3>1, <3>2, CallableFacts
    <2>4. ASSUME NEW d \in Declarations PROVE IsClass(TSExtractClass(f.tree, d))
      BY <2>3, DeclarationFacts DEF TSExtractClass, IsClass, IsCallable
    <2>5. TSClasses(f.tree) \subseteq Declarations /\ TSFunctions(f.tree) \subseteq Declarations
      BY <2>1 DEF TSClasses, TSFunctions, TopLevel
    <2>6. \A d \in Declarations :
            IsCallable([name |-> d.name, decorators |-> {}, calls |-> TSExtractCalls(f.tree, d)])
      BY CallableFacts
    <2>7. /\ p.file_path = f.path /\ p.imports = {i.module : i \in f.imports}
          /\ p.classes = {TSExtractClass(f.tree, d) : d \in TSClasses(f.tree)}
          /\ p.functions = {[name |-> d.name, decorators |-> {}, calls |-> TSExtractCalls(f.tree, d)]
                              : d \in TSFunctions(f.tree)}
      BY <1>2 DEF TSParseFile
    <2> QED
      BY <2>1, <2>2, <2>4, <2>5, <2>6, <2>7 DEF IsFile
  <1> QED
    BY <1>1, <1>2 DEF ParsedFiles

-----------------------------------------------------------------------------
\* The first n parsed files.
Files(n) == {parsed[i] : i \in 1 .. n}

\* The files registered and the files emitted, by the pass.
Seen ==
    CASE pc = "parse" -> {}
      [] pc = "register" -> Files(next - 1)
      [] OTHER -> Files(Len(parsed))

Emitted ==
    CASE pc \in {"parse", "register"} -> {}
      [] pc = "emit" -> Files(next - 1)
      [] OTHER -> Files(Len(parsed))

\* The registry of a set of files.
AllClasses(F) == Known(UNION {f.classes : f \in F})

AllFunctions(F) == Known(UNION {f.functions : f \in F})

RegistryOf(F) ==
    [classes   |-> {c.name : c \in AllClasses(F)},
     functions |-> {f.name : f \in AllFunctions(F)},
     methods   |-> UNION {{<<c.name, m.name>> : m \in c.methods} : c \in AllClasses(F)}]

\* The nodes of one file, and of all that were emitted.
NodesOf(reg, file) ==
    {Node(FileId(file.file_path), "File", file.file_path)} \cup ModuleNodes(file)
    \cup ClassNodes(reg, file) \cup FunctionNodes(reg, file)

AllNodes == UNION {NodesOf(registry, f) : f \in Emitted}

Unique(ns) == \A n \in ns, o \in ns : n.id = o.id => n = o

Bounds ==
    /\ files \in Repositories /\ parsed \in Seq(ParsedFiles)
    /\ pc \in {"parse", "register", "emit", "done"} /\ next \in Nat /\ next >= 1
    /\ next <= Len(IF pc = "parse" THEN files.sources ELSE parsed) + 1
    /\ pc = "done" => next = Len(parsed) + 1

BInv ==
    /\ Bounds
    /\ registry = RegistryOf(Seen)
    /\ edges = UNION {EmittedEdges(registry, f) : f \in Emitted}
    /\ nodes \subseteq AllNodes /\ Unique(nodes)
    /\ Ids(nodes) = IF pc = "done" THEN Ids(AllNodes) \cap ConnectedIds(edges) ELSE Ids(AllNodes)

-----------------------------------------------------------------------------
\* One file more in the registry.
LEMMA RegisterAdds ==
    ASSUME NEW F, NEW f
    PROVE  Registered(RegistryOf(F), f) = RegistryOf(F \cup {f})
  <1> DEFINE P(c) == {<<c.name, m.name>> : m \in c.methods}
             C(S) == {c.name : c \in S}
             M(S) == UNION {P(c) : c \in S}
  <1>1. AllClasses(F \cup {f}) = AllClasses(F) \cup Known(f.classes)
    BY DEF AllClasses, Known
  <1>2. AllFunctions(F \cup {f}) = AllFunctions(F) \cup Known(f.functions)
    BY DEF AllFunctions, Known
  <1>3. \A S, T : C(S \cup T) = C(S) \cup C(T)
    OBVIOUS
  <1>4. \A S, T : M(S \cup T) = M(S) \cup M(T)
    <2> HIDE DEF P
    <2> QED
      OBVIOUS
  <1>5. \A G : RegistryOf(G) = [classes |-> C(AllClasses(G)), functions |-> C(AllFunctions(G)),
                               methods |-> M(AllClasses(G))]
    BY DEF RegistryOf
  <1>6. \A reg : Registered(reg, f) = [classes   |-> reg.classes \cup C(Known(f.classes)),
                                      functions |-> reg.functions \cup C(Known(f.functions)),
                                      methods   |-> reg.methods \cup M(Known(f.classes))]
    BY DEF Registered
  <1> HIDE DEF C, M
  <1>7. /\ RegistryOf(F).classes = C(AllClasses(F)) /\ RegistryOf(F).functions = C(AllFunctions(F))
        /\ RegistryOf(F).methods = M(AllClasses(F))
    BY <1>5
  <1>8. /\ C(AllClasses(F \cup {f})) = C(AllClasses(F)) \cup C(Known(f.classes))
        /\ C(AllFunctions(F \cup {f})) = C(AllFunctions(F)) \cup C(Known(f.functions))
        /\ M(AllClasses(F \cup {f})) = M(AllClasses(F)) \cup M(Known(f.classes))
    BY <1>1, <1>2, <1>3, <1>4
  <1>9. RegistryOf(F \cup {f}) =
          [classes   |-> C(AllClasses(F)) \cup C(Known(f.classes)),
           functions |-> C(AllFunctions(F)) \cup C(Known(f.functions)),
           methods   |-> M(AllClasses(F)) \cup M(Known(f.classes))]
    BY <1>5, <1>8
  <1> QED
    BY <1>6, <1>7, <1>9

LEMMA EmptyRegistry == RegistryOf({}) = NoSymbols
  <1>1. AllClasses({}) = {} /\ AllFunctions({}) = {}
    BY DEF AllClasses, AllFunctions, Known
  <1> QED
    BY <1>1 DEF RegistryOf, NoSymbols

\* add_node keeps the ids apart, and loses none.
LEMMA AddNodesFacts ==
    ASSUME NEW known, NEW new, Unique(known), Unique(new)
    PROVE  /\ Unique(AddNodes(known, new)) /\ AddNodes(known, new) \subseteq known \cup new
           /\ Ids(AddNodes(known, new)) = Ids(known) \cup Ids(new)
  <1>1. Unique(AddNodes(known, new))
    BY DEF Unique, AddNodes
  <1>2. AddNodes(known, new) \subseteq known \cup new
    BY DEF AddNodes
  <1>3. Ids(AddNodes(known, new)) \subseteq Ids(known) \cup Ids(new)
    BY DEF Ids, AddNodes
  <1>4. ASSUME NEW i \in Ids(known) \cup Ids(new) PROVE i \in Ids(AddNodes(known, new))
    BY DEF Ids, AddNodes
  <1> QED
    BY <1>1, <1>2, <1>3, <1>4

\* The nodes of one kind of one file are told apart by their ids.
LEMMA NewNodesUnique ==
    ASSUME NEW reg, NEW file
    PROVE  /\ Unique({Node(FileId(file.file_path), "File", file.file_path)})
           /\ Unique(ModuleNodes(file)) /\ Unique(ClassNodes(reg, file))
           /\ Unique(FunctionNodes(reg, file))
  <1>1. Unique({Node(FileId(file.file_path), "File", file.file_path)})
    BY DEF Unique
  <1>2. Unique(ModuleNodes(file))
    BY DEF Unique, ModuleNodes, Node, ModuleId
  <1>3. Unique(FunctionNodes(reg, file))
    BY DEF Unique, FunctionNodes, Node, FunctionId
  <1>4. ASSUME NEW n \in ClassNodes(reg, file)
        PROVE  \/ \E x : n = Node(<<x>>, "Class", file.file_path)
               \/ \E x, y : n = Node(<<x, y>>, "Method", file.file_path)
    BY DEF ClassNodes, ClassId, MethodId
  <1>5. \A x, y, z : <<x>> # <<y, z>>
    OBVIOUS
  <1>6. Unique(ClassNodes(reg, file))
    <2> SUFFICES ASSUME NEW n \in ClassNodes(reg, file), NEW o \in ClassNodes(reg, file), n.id = o.id
                 PROVE  n = o
      BY DEF Unique
    <2> QED
      BY <1>4, <1>5 DEF Node
  <1> QED
    BY <1>1, <1>2, <1>3, <1>6

\* One file more in the graph.
LEMMA EmitAdds ==
    ASSUME NEW known, NEW reg, NEW file, Unique(known)
    PROVE  LET all == EmittedNodes(known, reg, file)
           IN  /\ Unique(all) /\ all \subseteq known \cup NodesOf(reg, file)
               /\ Ids(all) = Ids(known) \cup Ids(NodesOf(reg, file))
  <1> DEFINE F == {Node(FileId(file.file_path), "File", file.file_path)}
             M == ModuleNodes(file)
             C == ClassNodes(reg, file)
             G == FunctionNodes(reg, file)
             n1 == AddNodes(known, F)
             n2 == AddNodes(n1, M)
             n3 == AddNodes(n2, C)
             n4 == AddNodes(n3, G)
  <1>1. Unique(F) /\ Unique(M) /\ Unique(C) /\ Unique(G)
    BY NewNodesUnique
  <1>2. EmittedNodes(known, reg, file) = n4
    BY DEF EmittedNodes
  <1>3. NodesOf(reg, file) = F \cup M \cup C \cup G
    BY DEF NodesOf
  <1> HIDE DEF F, M, C, G
  <1>4. Unique(n1) /\ n1 \subseteq known \cup F /\ Ids(n1) = Ids(known) \cup Ids(F)
    BY <1>1, AddNodesFacts
  <1> HIDE DEF n1
  <1>5. Unique(n2) /\ n2 \subseteq n1 \cup M /\ Ids(n2) = Ids(n1) \cup Ids(M)
    BY <1>1, <1>4, AddNodesFacts
  <1> HIDE DEF n2
  <1>6. Unique(n3) /\ n3 \subseteq n2 \cup C /\ Ids(n3) = Ids(n2) \cup Ids(C)
    BY <1>1, <1>5, AddNodesFacts
  <1> HIDE DEF n3
  <1>7. Unique(n4) /\ n4 \subseteq n3 \cup G /\ Ids(n4) = Ids(n3) \cup Ids(G)
    BY <1>1, <1>6, AddNodesFacts
  <1> HIDE DEF n4
  <1>8. Ids(F \cup M \cup C \cup G) = Ids(F) \cup Ids(M) \cup Ids(C) \cup Ids(G)
    BY DEF Ids
  <1> QED
    BY <1>2, <1>3, <1>4, <1>5, <1>6, <1>7, <1>8

\* The first n files of a sequence, and of one that goes on.
LEMMA FilesFacts ==
    ASSUME NEW n \in Nat
    PROVE  Files(0) = {} /\ Files(n + 1) = Files(n) \cup {parsed[n + 1]}
  <1>1. Files(0) = {}
    BY DEF Files
  <1>2. 1 .. n + 1 = (1 .. n) \cup {n + 1}
    OBVIOUS
  <1> QED
    BY <1>1, <1>2 DEF Files

-----------------------------------------------------------------------------
\* A visited file adds parsed files.
LEMMA VisitType ==
    ASSUME NEW sources \in Seq(SourceFiles), NEW tree_sitter, NEW f \in SourceFiles
    PROVE  Visit(sources, tree_sitter, f) \in Seq(ParsedFiles)
  <1>1. CodeParserParseFile(f) \in ParsedFiles /\ TSParseFile(f) \in ParsedFiles
    BY DEF ParsedFiles
  <1> DEFINE S == ParsedFiles
  <1> HIDE DEF S
  <1>2. \A x \in S : <<x>> \in Seq(S)
    OBVIOUS
  <1>3. << >> \in Seq(S)
    OBVIOUS
  <1>4. <<CodeParserParseFile(f)>> \in Seq(S) /\ <<TSParseFile(f)>> \in Seq(S)
    BY <1>1, <1>2 DEF S
  <1>5. Visit(sources, tree_sitter, f) \in {<< >>, <<CodeParserParseFile(f)>>, <<TSParseFile(f)>>}
    BY DEF Visit, CodeParserVisit, TSVisit
  <1> QED
    BY <1>3, <1>4, <1>5 DEF S

LEMMA BuildInit == Init => BInv
  <1> SUFFICES ASSUME Init PROVE BInv
    OBVIOUS
  <1>1. Bounds
    <2>1. files.sources \in Seq(SourceFiles)
      BY GraphBuilderAssumption DEF Init
    <2>2. 1 <= Len(files.sources) + 1
      BY <2>1
    <2>3. << >> \in Seq(ParsedFiles)
      OBVIOUS
    <2> QED
      BY <2>2, <2>3 DEF Init, Bounds
  <1>2. Seen = {} /\ Emitted = {}
    BY DEF Init, Seen, Emitted
  <1>3. AllNodes = {} /\ UNION {EmittedEdges(registry, f) : f \in Emitted} = {}
    BY <1>2 DEF AllNodes
  <1>4. registry = RegistryOf(Seen)
    BY <1>2, EmptyRegistry DEF Init
  <1>5. /\ nodes = {} /\ edges = {} /\ pc # "done"
    BY DEF Init
  <1> QED
    BY <1>1, <1>3, <1>4, <1>5 DEF BInv, Unique, Ids

LEMMA ParseInv == ASSUME BInv, Parse PROVE BInv'
  <1>1. /\ files.sources \in Seq(SourceFiles) /\ next \in 1 .. Len(files.sources)
        /\ parsed \in Seq(ParsedFiles) /\ pc = "parse" /\ pc' = "parse" /\ next' = next + 1
        /\ files' = files
    BY GraphBuilderAssumption DEF BInv, Bounds, Parse
  <1>2. files.sources[next] \in SourceFiles
    BY <1>1
  <1>3. Visit(files.sources, files.tree_sitter, files.sources[next]) \in Seq(ParsedFiles)
    BY <1>1, <1>2, VisitType
  <1>4. parsed' \in Seq(ParsedFiles)
    BY <1>1, <1>3 DEF Parse
  <1>5. Bounds'
    BY <1>1, <1>4 DEF BInv, Bounds
  <1>6. Seen = {} /\ Seen' = {} /\ Emitted = {} /\ Emitted' = {}
    BY <1>1 DEF Seen, Emitted
  <1>7. UNCHANGED <<registry, nodes, edges>>
    BY DEF Parse
  <1>8. AllNodes' = AllNodes
    BY <1>6, <1>7 DEF AllNodes
  <1> QED
    BY <1>1, <1>5, <1>6, <1>7, <1>8 DEF BInv, Unique, Ids, ConnectedIds

LEMMA StartRegistrationInv == ASSUME BInv, StartRegistration PROVE BInv'
  <1>1. /\ pc = "parse" /\ pc' = "register" /\ next' = 1
        /\ UNCHANGED <<files, parsed, registry, nodes, edges>>
        /\ parsed \in Seq(ParsedFiles)
    BY DEF BInv, Bounds, StartRegistration
  <1>2. Bounds'
    BY <1>1 DEF BInv, Bounds
  <1>3. Seen = {} /\ Emitted = {} /\ Emitted' = {}
    BY <1>1 DEF Seen, Emitted
  <1>4. Seen' = {}
    <2>1. Seen' = {parsed[i] : i \in 1 .. 0}
      BY <1>1 DEF Seen, Files
    <2> QED
      BY <2>1
  <1>5. AllNodes' = AllNodes
    BY <1>1, <1>3 DEF AllNodes
  <1> QED
    BY <1>1, <1>2, <1>3, <1>4, <1>5 DEF BInv, Unique, Ids, ConnectedIds

LEMMA RegisterInv == ASSUME BInv, Register PROVE BInv'
  <1>1. /\ pc = "register" /\ pc' = "register" /\ next' = next + 1
        /\ UNCHANGED <<files, parsed, nodes, edges>>
        /\ parsed \in Seq(ParsedFiles) /\ next \in Nat /\ next >= 1 /\ next <= Len(parsed)
        /\ registry' = Registered(registry, parsed[next])
    BY DEF BInv, Bounds, Register
  <1>2. Bounds'
    BY <1>1 DEF BInv, Bounds
  <1>3. Emitted = {} /\ Emitted' = {}
    BY <1>1 DEF Emitted
  <1>4. Seen = Files(next - 1)
    BY <1>1 DEF Seen
  <1>5. Seen' = Files(next)
    <2>1. Seen' = {parsed[i] : i \in 1 .. (next + 1) - 1}
      BY <1>1 DEF Seen, Files
    <2>2. (next + 1) - 1 = next
      BY <1>1
    <2> QED
      BY <2>1, <2>2 DEF Files
  <1>6. Files(next) = Files(next - 1) \cup {parsed[next]}
    <2>1. next - 1 \in Nat /\ (next - 1) + 1 = next
      BY <1>1
    <2>2. Files((next - 1) + 1) = Files(next - 1) \cup {parsed[(next - 1) + 1]}
      BY <2>1, FilesFacts
    <2> QED
      BY <2>1, <2>2
  <1>7. registry' = RegistryOf(Seen')
    BY <1>1, <1>4, <1>5, <1>6, RegisterAdds DEF BInv
  <1>8. AllNodes' = AllNodes
    BY <1>3 DEF AllNodes
  <1>9. (registry = RegistryOf(Seen))' <=> registry' = RegistryOf(Seen')
    BY <1>1 DEF RegistryOf, AllClasses, AllFunctions, Known, MayBeSymbol
  <1> QED
    BY <1>1, <1>2, <1>3, <1>7, <1>8, <1>9 DEF BInv, Unique, Ids, ConnectedIds

LEMMA StartEmissionInv == ASSUME BInv, StartEmission PROVE BInv'
  <1>1. /\ pc = "register" /\ pc' = "emit" /\ next' = 1 /\ next = Len(parsed) + 1
        /\ UNCHANGED <<files, parsed, registry, nodes, edges>>
        /\ parsed \in Seq(ParsedFiles) /\ Len(parsed) \in Nat
    BY DEF BInv, Bounds, StartEmission
  <1>2. Bounds'
    BY <1>1 DEF BInv, Bounds
  <1>3. Seen' = Seen
    BY <1>1 DEF Seen, Files
  <1>4. Emitted = {} /\ Emitted' = {}
    <2>1. Emitted' = {parsed[i] : i \in 1 .. 0}
      BY <1>1 DEF Emitted, Files
    <2> QED
      BY <1>1, <2>1 DEF Emitted
  <1>5. AllNodes' = AllNodes
    BY <1>1, <1>4 DEF AllNodes
  <1> QED
    BY <1>1, <1>2, <1>3, <1>4, <1>5 DEF BInv, Unique, Ids, ConnectedIds

LEMMA EmitInv == ASSUME BInv, Emit PROVE BInv'
  <1> DEFINE f == parsed[next]
  <1>1. /\ pc = "emit" /\ pc' = "emit" /\ next' = next + 1
        /\ UNCHANGED <<files, parsed, registry>>
        /\ parsed \in Seq(ParsedFiles) /\ next \in Nat /\ next >= 1 /\ next <= Len(parsed)
        /\ nodes' = EmittedNodes(nodes, registry, f)
        /\ edges' = edges \cup EmittedEdges(registry, f)
    BY DEF BInv, Bounds, Emit
  <1>2. Bounds'
    BY <1>1 DEF BInv, Bounds
  <1>3. Seen' = Seen
    BY <1>1 DEF Seen, Files
  <1>4. Emitted' = Emitted \cup {f}
    <2>1. Emitted = Files(next - 1)
      BY <1>1 DEF Emitted
    <2>2. Emitted' = {parsed[i] : i \in 1 .. (next + 1) - 1}
      BY <1>1 DEF Emitted, Files
    <2>3. next - 1 \in Nat /\ (next - 1) + 1 = next /\ (next + 1) - 1 = next
      BY <1>1
    <2>4. Files((next - 1) + 1) = Files(next - 1) \cup {parsed[(next - 1) + 1]}
      BY <2>3, FilesFacts
    <2> QED
      BY <2>1, <2>2, <2>3, <2>4 DEF Files
  <1> HIDE DEF f
  <1>5. AllNodes' = AllNodes \cup NodesOf(registry, f)
    <2>1. AllNodes' = UNION {NodesOf(registry, g) : g \in Emitted'}
      BY <1>1 DEF AllNodes
    <2> QED
      BY <1>4, <2>1 DEF AllNodes
  <1>6. /\ Unique(nodes') /\ nodes' \subseteq nodes \cup NodesOf(registry, f)
        /\ Ids(nodes') = Ids(nodes) \cup Ids(NodesOf(registry, f))
    BY <1>1, EmitAdds DEF BInv
  <1>7. Ids(AllNodes') = Ids(AllNodes) \cup Ids(NodesOf(registry, f))
    BY <1>5 DEF Ids
  <1>8. edges' = UNION {EmittedEdges(registry, g) : g \in Emitted'}
    BY <1>1, <1>4 DEF BInv
  <1>9. registry' = RegistryOf(Seen)
    BY <1>1 DEF BInv
  <1>10. nodes' \subseteq AllNodes' /\ Ids(nodes') = Ids(AllNodes')
    BY <1>1, <1>5, <1>6, <1>7 DEF BInv
  <1>11. BInv' <=> /\ Bounds' /\ registry' = RegistryOf(Seen')
                   /\ edges' = UNION {EmittedEdges(registry', g) : g \in Emitted'}
                   /\ nodes' \subseteq AllNodes' /\ Unique(nodes')
                   /\ Ids(nodes') = IF pc' = "done" THEN Ids(AllNodes') \cap ConnectedIds(edges')
                                    ELSE Ids(AllNodes')
    BY DEF BInv
  <1> QED
    BY <1>1, <1>2, <1>3, <1>6, <1>8, <1>9, <1>10, <1>11

LEMMA PruneInv == ASSUME BInv, Prune PROVE BInv'
  <1>1. /\ pc = "emit" /\ pc' = "done" /\ next = Len(parsed) + 1
        /\ UNCHANGED <<files, parsed, next, registry, edges>>
        /\ parsed \in Seq(ParsedFiles) /\ Len(parsed) \in Nat
        /\ nodes' = {n \in nodes : n.id \in ConnectedIds(edges)}
    BY DEF BInv, Bounds, Prune, Connected
  <1>2. Bounds'
    BY <1>1 DEF BInv, Bounds
  <1>3. Seen' = Seen
    BY <1>1 DEF Seen, Files
  <1>4. Emitted' = Emitted
    <2>1. Emitted = Files(next - 1) /\ next - 1 = Len(parsed)
      BY <1>1 DEF Emitted
    <2>2. Emitted' = Files(Len(parsed))
      BY <1>1 DEF Emitted, Files
    <2> QED
      BY <2>1, <2>2
  <1>5. AllNodes' = AllNodes
    BY <1>1, <1>4 DEF AllNodes
  <1>6. Ids(nodes') = Ids(nodes) \cap ConnectedIds(edges)
    BY <1>1 DEF Ids
  <1>7. BInv' <=> /\ Bounds' /\ registry' = RegistryOf(Seen')
                  /\ edges' = UNION {EmittedEdges(registry', g) : g \in Emitted'}
                  /\ nodes' \subseteq AllNodes' /\ Unique(nodes')
                  /\ Ids(nodes') = IF pc' = "done" THEN Ids(AllNodes') \cap ConnectedIds(edges')
                                   ELSE Ids(AllNodes')
    BY DEF BInv
  <1>8. nodes' \subseteq nodes /\ Unique(nodes')
    BY <1>1 DEF BInv, Unique
  <1> QED
    BY <1>1, <1>2, <1>3, <1>4, <1>5, <1>6, <1>7, <1>8 DEF BInv

\* The invariant, in every behaviour of the pipeline.
LEMMA BuildInvariant == Spec => []BInv
  <1>1. PipelineInit => BInv
    BY BuildInit DEF PipelineInit
  <1>2. ASSUME BInv, [Next]_vars PROVE BInv'
    <2>1. CASE UNCHANGED graphVars
      <3>1. UNCHANGED <<files, pc, parsed, next, registry, nodes, edges>>
        BY <2>1 DEF graphVars
      <3>2. Seen' = Seen /\ Emitted' = Emitted
        BY <3>1 DEF Seen, Emitted, Files
      <3>3. AllNodes' = AllNodes /\ Bounds'
        BY <1>2, <3>1, <3>2 DEF AllNodes, BInv, Bounds
      <3> QED
        BY <1>2, <3>1, <3>2, <3>3 DEF BInv
    <2>2. CASE BuildNext
      BY <1>2, <2>2, ParseInv, StartRegistrationInv, RegisterInv, StartEmissionInv, EmitInv,
         PruneInv DEF BuildNext
    <2> QED
      BY <1>2, <2>1, <2>2 DEF Next, Build, MakeResolver, Ask, Resolve, Augment, vars
  <1> QED
    BY <1>1, <1>2, PTL DEF Spec

-----------------------------------------------------------------------------
\* What the invariant says of a finished graph.
LEMMA Finished ==
    ASSUME BInv, pc = "done"
    PROVE  /\ Emitted = ToSet(parsed) /\ ToSet(parsed) \subseteq ParsedFiles
           /\ registry.classes = ClassNames /\ registry.functions = FunctionNames
           /\ registry.methods = UNION {{<<c.name, m.name>> : m \in c.methods} : c \in OwnClasses}
           /\ edges = UNION {EmittedEdges(registry, f) : f \in ToSet(parsed)}
           /\ nodes \subseteq UNION {NodesOf(registry, f) : f \in ToSet(parsed)}
           /\ Ids(nodes) = Ids(UNION {NodesOf(registry, f) : f \in ToSet(parsed)}) \cap ConnectedIds(edges)
  <1>1. parsed \in Seq(ParsedFiles)
    BY DEF BInv, Bounds
  <1>2. Files(Len(parsed)) = ToSet(parsed) /\ ToSet(parsed) \subseteq ParsedFiles
    BY <1>1 DEF Files, ToSet
  <1>3. Emitted = ToSet(parsed) /\ Seen = ToSet(parsed)
    BY <1>2 DEF Emitted, Seen
  <1>4. AllClasses(ToSet(parsed)) = OwnClasses
    BY DEF AllClasses, OwnClasses, Known, MayBeSymbol
  <1>5. AllFunctions(ToSet(parsed)) = OwnFunctions
    BY DEF AllFunctions, OwnFunctions, Known, MayBeSymbol
  <1>6. registry = [classes   |-> ClassNames, functions |-> FunctionNames,
                    methods   |-> UNION {{<<c.name, m.name>> : m \in c.methods} : c \in OwnClasses}]
    BY <1>3, <1>4, <1>5 DEF BInv, RegistryOf, ClassNames, FunctionNames
  <1>7. /\ registry.classes = ClassNames /\ registry.functions = FunctionNames
        /\ registry.methods = UNION {{<<c.name, m.name>> : m \in c.methods} : c \in OwnClasses}
    BY <1>6
  <1> QED
    BY <1>2, <1>3, <1>7 DEF BInv, AllNodes

\* The relations of the edges of each kind.
LEMMA Relations ==
    ASSUME NEW reg, NEW file, NEW c, NEW m, NEW id, NEW calls, NEW d
    PROVE  /\ \A e \in ImportEdges(file) : e.rel = "imports"
           /\ \A e \in Decorates(d, id) : e.rel = "decorates"
           /\ \A e \in InheritsEdges(reg, c) : e.rel = "inherits"
           /\ \A e \in OverridesEdges(reg, c, m) : e.rel = "overrides"
           /\ \A e \in ResolvedCalls(reg, calls, id) : e.rel \in {"instantiates", "calls"}
           /\ \A e \in BareCalls(reg, calls, id) : e.rel = "calls"
  BY DEF ImportEdges, Decorates, InheritsEdges, OverridesEdges, ResolvedCalls, BareCalls, Edge

\* Where an edge a file emits comes from.
LEMMA EdgeKinds ==
    ASSUME NEW reg, NEW file, NEW e \in EmittedEdges(reg, file)
    PROVE  \/ e \in ImportEdges(file)
           \/ \E c \in RepoClasses(reg, file) :
                \/ e = Edge(FileId(file.file_path), ClassId(c.name), "contains")
                \/ e \in InheritsEdges(reg, c) \/ e \in Decorates(c, ClassId(c.name))
                \/ \E m \in c.methods :
                     \/ e = Edge(ClassId(c.name), MethodId(c.name, m.name), "contains")
                     \/ e \in OverridesEdges(reg, c, m) \/ e \in Decorates(m, MethodId(c.name, m.name))
                     \/ e \in ResolvedCalls(reg, m.calls, MethodId(c.name, m.name))
                     \/ e \in BareCalls(reg, m.calls, MethodId(c.name, m.name))
           \/ \E f \in RepoFunctions(reg, file) :
                \/ e = Edge(FileId(file.file_path), FunctionId(f.name), "contains")
                \/ e \in Decorates(f, FunctionId(f.name))
                \/ e \in ResolvedCalls(reg, f.calls, FunctionId(f.name))
  <1>1. CASE e \in ImportEdges(file)
    BY <1>1
  <1>2. ASSUME NEW c \in RepoClasses(reg, file), e \in ClassEdges(reg, file, c)
        PROVE  \/ e = Edge(FileId(file.file_path), ClassId(c.name), "contains")
               \/ e \in InheritsEdges(reg, c) \/ e \in Decorates(c, ClassId(c.name))
               \/ \E m \in c.methods :
                    \/ e = Edge(ClassId(c.name), MethodId(c.name, m.name), "contains")
                    \/ e \in OverridesEdges(reg, c, m) \/ e \in Decorates(m, MethodId(c.name, m.name))
                    \/ e \in ResolvedCalls(reg, m.calls, MethodId(c.name, m.name))
                    \/ e \in BareCalls(reg, m.calls, MethodId(c.name, m.name))
    BY <1>2 DEF ClassEdges, MethodEdges
  <1>3. ASSUME NEW f \in RepoFunctions(reg, file), e \in FunctionEdges(reg, file, f)
        PROVE  \/ e = Edge(FileId(file.file_path), FunctionId(f.name), "contains")
               \/ e \in Decorates(f, FunctionId(f.name))
               \/ e \in ResolvedCalls(reg, f.calls, FunctionId(f.name))
    BY <1>3 DEF FunctionEdges
  <1>4. \/ e \in ImportEdges(file)
        \/ \E c \in RepoClasses(reg, file) : e \in ClassEdges(reg, file, c)
        \/ \E f \in RepoFunctions(reg, file) : e \in FunctionEdges(reg, file, f)
    BY DEF EmittedEdges
  <1> QED
    BY <1>1, <1>2, <1>3, <1>4

\* And the edges of the classes a file emits are all among them.
LEMMA ClassEdgesEmitted ==
    ASSUME NEW reg, NEW file, NEW c \in RepoClasses(reg, file)
    PROVE  /\ InheritsEdges(reg, c) \subseteq EmittedEdges(reg, file)
           /\ Edge(FileId(file.file_path), ClassId(c.name), "contains") \in EmittedEdges(reg, file)
           /\ \A m \in c.methods :
                /\ Edge(ClassId(c.name), MethodId(c.name, m.name), "contains") \in EmittedEdges(reg, file)
                /\ OverridesEdges(reg, c, m) \subseteq EmittedEdges(reg, file)
  <1>1. ClassEdges(reg, file, c) \subseteq EmittedEdges(reg, file)
    BY DEF EmittedEdges
  <1>2. \A m \in c.methods : MethodEdges(reg, c, m) \subseteq ClassEdges(reg, file, c)
    BY DEF ClassEdges
  <1>3. \A m \in c.methods :
          /\ Edge(ClassId(c.name), MethodId(c.name, m.name), "contains") \in MethodEdges(reg, c, m)
          /\ OverridesEdges(reg, c, m) \subseteq MethodEdges(reg, c, m)
    BY DEF MethodEdges
  <1>4. /\ InheritsEdges(reg, c) \subseteq ClassEdges(reg, file, c)
        /\ Edge(FileId(file.file_path), ClassId(c.name), "contains") \in ClassEdges(reg, file, c)
    BY DEF ClassEdges
  <1> QED
    BY <1>1, <1>2, <1>3, <1>4

\* The classes of the files, and the classes of the repository.
LEMMA OwnClassesEmitted ==
    ASSUME BInv, pc = "done"
    PROVE  /\ \A f \in ToSet(parsed) : RepoClasses(registry, f) \subseteq OwnClasses
           /\ \A c \in OwnClasses : \E f \in ToSet(parsed) : c \in RepoClasses(registry, f)
           /\ \A f \in ToSet(parsed) : RepoFunctions(registry, f) \subseteq OwnFunctions
           /\ \A g \in OwnFunctions : \E f \in ToSet(parsed) : g \in RepoFunctions(registry, f)
  <1>1. registry.classes = ClassNames /\ registry.functions = FunctionNames
    BY Finished
  <1>2. \A x \in ClassNames \cup FunctionNames : x \notin Excluded
    BY DEF ClassNames, FunctionNames, OwnClasses, OwnFunctions
  <1>3. \A c \in OwnClasses : c.name \in ClassNames
    BY DEF ClassNames
  <1>4. \A g \in OwnFunctions : g.name \in FunctionNames
    BY DEF FunctionNames
  <1>5. \A f \in ToSet(parsed) : RepoClasses(registry, f) \subseteq OwnClasses
    BY <1>1, <1>2 DEF RepoClasses, OwnClasses
  <1>6. \A c \in OwnClasses : \E f \in ToSet(parsed) : c \in RepoClasses(registry, f)
    BY <1>1, <1>3 DEF RepoClasses, OwnClasses
  <1>7. \A f \in ToSet(parsed) : RepoFunctions(registry, f) \subseteq OwnFunctions
    BY <1>1, <1>2 DEF RepoFunctions, OwnFunctions
  <1>8. \A g \in OwnFunctions : \E f \in ToSet(parsed) : g \in RepoFunctions(registry, f)
    BY <1>1, <1>4 DEF RepoFunctions, OwnFunctions
  <1> QED
    BY <1>5, <1>6, <1>7, <1>8

-----------------------------------------------------------------------------
\* The edges of a class, by their relations.
LEMMA EdgesOfARelation ==
    ASSUME NEW reg, NEW file, NEW e \in EmittedEdges(reg, file)
    PROVE  /\ e.rel = "inherits" => \E c \in RepoClasses(reg, file) : e \in InheritsEdges(reg, c)
           /\ e.rel = "overrides" =>
                \E c \in RepoClasses(reg, file) : \E m \in c.methods : e \in OverridesEdges(reg, c, m)
  <1>1. \A x, y : Edge(x, y, "contains").rel = "contains"
    BY DEF Edge
  <1>2. ASSUME e.rel \in {"inherits", "overrides"}
        PROVE  \E c \in RepoClasses(reg, file) :
                 \/ e \in InheritsEdges(reg, c)
                 \/ \E m \in c.methods : e \in OverridesEdges(reg, c, m)
    <2>1. ~(e \in ImportEdges(file))
      BY <1>2, Relations
    <2>2. ~(\E f \in RepoFunctions(reg, file) :
                \/ e = Edge(FileId(file.file_path), FunctionId(f.name), "contains")
                \/ e \in Decorates(f, FunctionId(f.name))
                \/ e \in ResolvedCalls(reg, f.calls, FunctionId(f.name)))
      BY <1>1, <1>2, Relations
    <2>3. PICK c \in RepoClasses(reg, file) :
                \/ e = Edge(FileId(file.file_path), ClassId(c.name), "contains")
                \/ e \in InheritsEdges(reg, c) \/ e \in Decorates(c, ClassId(c.name))
                \/ \E m \in c.methods :
                     \/ e = Edge(ClassId(c.name), MethodId(c.name, m.name), "contains")
                     \/ e \in OverridesEdges(reg, c, m) \/ e \in Decorates(m, MethodId(c.name, m.name))
                     \/ e \in ResolvedCalls(reg, m.calls, MethodId(c.name, m.name))
                     \/ e \in BareCalls(reg, m.calls, MethodId(c.name, m.name))
      BY <2>1, <2>2, EdgeKinds
    <2> QED
      BY <1>1, <1>2, <2>3, Relations
  <1> QED
    BY <1>2, Relations

\* The hierarchy of a finished graph.
LEMMA HierarchyHolds == BInv => HierarchyIsTheSource
  <1> SUFFICES ASSUME BInv, pc = "done"
               PROVE  /\ Relation("inherits") =
                            UNION {{Edge(ClassId(c.name), ClassId(parent), "inherits")
                                     : parent \in c.inherits_from \cap ClassNames} : c \in OwnClasses}
                      /\ Relation("overrides") = {Edge(pair[1], pair[2], "overrides") : pair \in Overriding}
    BY DEF HierarchyIsTheSource
  <1>1. /\ registry.classes = ClassNames
        /\ registry.methods = UNION {{<<c.name, m.name>> : m \in c.methods} : c \in OwnClasses}
        /\ edges = UNION {EmittedEdges(registry, f) : f \in ToSet(parsed)}
    BY Finished
  <1>2. \A c : InheritsEdges(registry, c) =
              {Edge(ClassId(c.name), ClassId(parent), "inherits") : parent \in c.inherits_from \cap ClassNames}
    BY <1>1 DEF InheritsEdges
  <1>3. Relation("inherits") = UNION {InheritsEdges(registry, c) : c \in OwnClasses}
    <2>1. ASSUME NEW e \in Relation("inherits")
          PROVE  \E c \in OwnClasses : e \in InheritsEdges(registry, c)
      <3>1. PICK f \in ToSet(parsed) : e \in EmittedEdges(registry, f) /\ e.rel = "inherits"
        BY <1>1, <2>1 DEF Relation
      <3> QED
        BY <3>1, EdgesOfARelation, OwnClassesEmitted
    <2>2. ASSUME NEW c \in OwnClasses, NEW e \in InheritsEdges(registry, c)
          PROVE  e \in Relation("inherits")
      <3>1. PICK f \in ToSet(parsed) : c \in RepoClasses(registry, f)
        BY OwnClassesEmitted
      <3>2. e \in EmittedEdges(registry, f) /\ e.rel = "inherits"
        BY <3>1, ClassEdgesEmitted, Relations
      <3> QED
        BY <1>1, <3>2 DEF Relation
    <2> QED
      BY <2>1, <2>2
  <1>4. Relation("overrides") =
          UNION {UNION {OverridesEdges(registry, c, m) : m \in c.methods} : c \in OwnClasses}
    <2>1. ASSUME NEW e \in Relation("overrides")
          PROVE  \E c \in OwnClasses : \E m \in c.methods : e \in OverridesEdges(registry, c, m)
      <3>1. PICK f \in ToSet(parsed) : e \in EmittedEdges(registry, f) /\ e.rel = "overrides"
        BY <1>1, <2>1 DEF Relation
      <3> QED
        BY <3>1, EdgesOfARelation, OwnClassesEmitted
    <2>2. ASSUME NEW c \in OwnClasses, NEW m \in c.methods, NEW e \in OverridesEdges(registry, c, m)
          PROVE  e \in Relation("overrides")
      <3>1. PICK f \in ToSet(parsed) : c \in RepoClasses(registry, f)
        BY OwnClassesEmitted
      <3>2. e \in EmittedEdges(registry, f) /\ e.rel = "overrides"
        BY <3>1, ClassEdgesEmitted, Relations
      <3> QED
        BY <1>1, <3>2 DEF Relation
    <2> QED
      BY <2>1, <2>2
  <1>5. \A i : i \in registry.methods <=> \E c \in OwnClasses : \E m \in c.methods : i = <<c.name, m.name>>
    BY <1>1
  <1>6. Own({}) = registry.methods
    BY <1>1 DEF Own, MethodId
  <1>7. ASSUME NEW c \in OwnClasses, NEW m \in c.methods, NEW e \in OverridesEdges(registry, c, m)
        PROVE  e \in {Edge(pair[1], pair[2], "overrides") : pair \in Overriding}
    <2>1. PICK p \in c.inherits_from :
            ParentDefinesMethod(registry, p, m.name)
            /\ e = Edge(<<c.name, m.name>>, <<p, m.name>>, "overrides")
      BY DEF OverridesEdges, MethodId
    <2>2. <<c.name, m.name>> \in Own({}) /\ <<p, m.name>> \in Own({})
      BY <1>5, <1>6, <2>1 DEF ParentDefinesMethod
    <2> DEFINE pair == <<<<c.name, m.name>>, <<p, m.name>>>>
    <2>3. pair \in Overriding
      BY <2>1, <2>2 DEF Overriding
    <2> QED
      BY <2>1, <2>3
  <1>8. ASSUME NEW pair \in Overriding
        PROVE  \E c \in OwnClasses : \E m \in c.methods :
                 Edge(pair[1], pair[2], "overrides") \in OverridesEdges(registry, c, m)
    <2>1. /\ pair[1] \in registry.methods /\ pair[2] \in registry.methods /\ pair[1][2] = pair[2][2]
          /\ \E c \in OwnClasses : /\ c.name = pair[1][1] /\ pair[2][1] \in c.inherits_from
                                   /\ \E m \in c.methods : m.name = pair[1][2]
      BY <1>6 DEF Overriding
    <2> PICK c \in OwnClasses :
          /\ c.name = pair[1][1] /\ pair[2][1] \in c.inherits_from
          /\ \E m \in c.methods : m.name = pair[1][2]
      BY <2>1
    <2> PICK m \in c.methods : m.name = pair[1][2]
      OBVIOUS
    <2>2. c.name = pair[1][1] /\ pair[2][1] \in c.inherits_from /\ m.name = pair[1][2]
      OBVIOUS
    <2>3. pair[1] = <<c.name, m.name>> /\ pair[2] = <<pair[2][1], m.name>>
      BY <1>5, <2>1, <2>2
    <2>4. ParentDefinesMethod(registry, pair[2][1], m.name)
      <3>1. PICK d \in OwnClasses : pair[2][1] = d.name
        BY <1>5, <2>1
      <3> QED
        BY <1>1, <2>1, <2>3, <3>1 DEF ParentDefinesMethod, ClassNames
    <2> QED
      BY <2>2, <2>3, <2>4 DEF OverridesEdges, MethodId
  <1>9. Relation("overrides") = {Edge(pair[1], pair[2], "overrides") : pair \in Overriding}
    BY <1>4, <1>7, <1>8
  <1>10. Relation("inherits") =
           UNION {{Edge(ClassId(c.name), ClassId(parent), "inherits")
                     : parent \in c.inherits_from \cap ClassNames} : c \in OwnClasses}
    BY <1>2, <1>3
  <1> QED
    BY <1>9, <1>10

-----------------------------------------------------------------------------
\* A node of a file, by its type.
LEMMA NodeKinds ==
    ASSUME NEW reg, NEW file, NEW n \in NodesOf(reg, file)
    PROVE  \/ n = Node(FileId(file.file_path), "File", file.file_path)
           \/ n \in ModuleNodes(file)
           \/ \E c \in RepoClasses(reg, file) :
                \/ n = Node(ClassId(c.name), "Class", file.file_path)
                \/ \E m \in c.methods : n = Node(MethodId(c.name, m.name), "Method", file.file_path)
           \/ \E f \in RepoFunctions(reg, file) : n = Node(FunctionId(f.name), "Function", file.file_path)
  BY DEF NodesOf, ClassNodes, FunctionNodes

\* The nodes of a finished graph are what the repository defines.
LEMMA OwnedHolds == BInv => OwnedSymbolsOnly
  <1> SUFFICES ASSUME BInv, pc = "done", NEW n \in nodes
               PROVE  /\ n.type \in {"Class", "Function", "Method"} =>
                           \E f \in ToSet(parsed) :
                             /\ f.file_path = n.origin
                             /\ CASE n.type = "Class"    -> \E c \in f.classes \cap OwnClasses : n.id = ClassId(c.name)
                                  [] n.type = "Function" -> \E g \in f.functions \cap OwnFunctions : n.id = FunctionId(g.name)
                                  [] n.type = "Method"   -> \E c \in f.classes \cap OwnClasses : \E m \in c.methods :
                                                              n.id = MethodId(c.name, m.name)
                      /\ n.type = "Method" =>
                           \E e \in Relation("contains") :
                             /\ e.target = n.id
                             /\ \E d \in Relation("contains") : d.target = e.source /\ d.source = FileId(n.origin)
    BY DEF OwnedSymbolsOnly
  <1>1. PICK f \in ToSet(parsed) : n \in NodesOf(registry, f)
    BY Finished
  <1>2. /\ edges = UNION {EmittedEdges(registry, g) : g \in ToSet(parsed)}
        /\ RepoClasses(registry, f) \subseteq OwnClasses \cap f.classes
        /\ RepoFunctions(registry, f) \subseteq OwnFunctions \cap f.functions
    BY <1>1, Finished, OwnClassesEmitted DEF RepoClasses, RepoFunctions
  <1>3. \A x, y : Edge(x, y, "contains").rel = "contains" /\ Edge(x, y, "contains").source = x
                  /\ Edge(x, y, "contains").target = y
    BY DEF Edge
  <1>4. \A i, t, o : Node(i, t, o).id = i /\ Node(i, t, o).type = t /\ Node(i, t, o).origin = o
    BY DEF Node
  <1>5. CASE n = Node(FileId(f.file_path), "File", f.file_path) \/ n \in ModuleNodes(f)
    <2>1. n.type \in {"File", "Module"}
      BY <1>4, <1>5 DEF ModuleNodes
    <2> QED
      BY <2>1
  <1>6. ASSUME NEW c \in RepoClasses(registry, f), n = Node(ClassId(c.name), "Class", f.file_path)
        PROVE  /\ n.type = "Class" /\ f.file_path = n.origin
               /\ \E k \in f.classes \cap OwnClasses : n.id = ClassId(k.name)
    BY <1>2, <1>4, <1>6
  <1>7. ASSUME NEW c \in RepoClasses(registry, f), NEW m \in c.methods,
               n = Node(MethodId(c.name, m.name), "Method", f.file_path)
        PROVE  /\ n.type = "Method" /\ f.file_path = n.origin
               /\ \E k \in f.classes \cap OwnClasses : \E l \in k.methods : n.id = MethodId(k.name, l.name)
               /\ \E e \in Relation("contains") :
                    /\ e.target = n.id
                    /\ \E d \in Relation("contains") : d.target = e.source /\ d.source = FileId(n.origin)
    <2>1. /\ n.type = "Method" /\ f.file_path = n.origin
          /\ \E k \in f.classes \cap OwnClasses : \E l \in k.methods : n.id = MethodId(k.name, l.name)
      BY <1>2, <1>4, <1>7
    <2> DEFINE e == Edge(ClassId(c.name), MethodId(c.name, m.name), "contains")
               d == Edge(FileId(f.file_path), ClassId(c.name), "contains")
    <2>2. e \in EmittedEdges(registry, f) /\ d \in EmittedEdges(registry, f)
      BY ClassEdgesEmitted
    <2>3. e \in edges /\ d \in edges
      BY <1>2, <2>2
    <2>4. e \in Relation("contains") /\ d \in Relation("contains")
      BY <1>3, <2>3 DEF Relation
    <2>5. /\ e.target = n.id /\ d.target = e.source /\ d.source = FileId(n.origin)
      BY <1>3, <1>4, <1>7
    <2> HIDE DEF e, d
    <2> QED
      BY <2>1, <2>4, <2>5
  <1>8. ASSUME NEW g \in RepoFunctions(registry, f), n = Node(FunctionId(g.name), "Function", f.file_path)
        PROVE  /\ n.type = "Function" /\ f.file_path = n.origin
               /\ \E k \in f.functions \cap OwnFunctions : n.id = FunctionId(k.name)
    BY <1>2, <1>4, <1>8
  <1>9. \/ n = Node(FileId(f.file_path), "File", f.file_path)
        \/ n \in ModuleNodes(f)
        \/ \E c \in RepoClasses(registry, f) :
              \/ n = Node(ClassId(c.name), "Class", f.file_path)
              \/ \E m \in c.methods : n = Node(MethodId(c.name, m.name), "Method", f.file_path)
        \/ \E g \in RepoFunctions(registry, f) : n = Node(FunctionId(g.name), "Function", f.file_path)
    BY <1>1, NodeKinds
  <1> QED
    BY <1>5, <1>6, <1>7, <1>8, <1>9

-----------------------------------------------------------------------------
\* The ids of whatever the files define or import, pruned or not.
DefinedIds == Ids(UNION {NodesOf(registry, f) : f \in ToSet(parsed)})

LEMMA DefinedFacts ==
    ASSUME BInv, pc = "done"
    PROVE  /\ \A f \in ToSet(parsed) :
                /\ FileId(f.file_path) \in DefinedIds
                /\ \A module \in f.imports : ModuleId(module) \in DefinedIds
                /\ \A c \in RepoClasses(registry, f) : ClassId(c.name) \in DefinedIds
                /\ \A g \in RepoFunctions(registry, f) : FunctionId(g.name) \in DefinedIds
                /\ \A c \in RepoClasses(registry, f) : \A m \in c.methods :
                     MethodId(c.name, m.name) \in DefinedIds
           /\ \A name \in registry.classes : ClassId(name) \in DefinedIds
           /\ \A name \in registry.functions : FunctionId(name) \in DefinedIds
           /\ registry.methods \subseteq DefinedIds
  <1>1. ASSUME NEW f \in ToSet(parsed), NEW n \in NodesOf(registry, f) PROVE n.id \in DefinedIds
    BY DEF DefinedIds, Ids
  <1>2. \A i, t, o : Node(i, t, o).id = i
    BY DEF Node
  <1>3. ASSUME NEW f \in ToSet(parsed)
        PROVE  /\ FileId(f.file_path) \in DefinedIds
               /\ \A module \in f.imports : ModuleId(module) \in DefinedIds
               /\ \A c \in RepoClasses(registry, f) : ClassId(c.name) \in DefinedIds
               /\ \A g \in RepoFunctions(registry, f) : FunctionId(g.name) \in DefinedIds
               /\ \A c \in RepoClasses(registry, f) : \A m \in c.methods :
                    MethodId(c.name, m.name) \in DefinedIds
    <2>1. Node(FileId(f.file_path), "File", f.file_path) \in NodesOf(registry, f)
      BY DEF NodesOf
    <2>2. \A module \in f.imports : Node(ModuleId(module), "Module", ModuleOrigin(module)) \in NodesOf(registry, f)
      BY DEF NodesOf, ModuleNodes
    <2>3. \A c \in RepoClasses(registry, f) :
            /\ Node(ClassId(c.name), "Class", f.file_path) \in NodesOf(registry, f)
            /\ \A m \in c.methods : Node(MethodId(c.name, m.name), "Method", f.file_path) \in NodesOf(registry, f)
      BY DEF NodesOf, ClassNodes
    <2>4. \A g \in RepoFunctions(registry, f) :
            Node(FunctionId(g.name), "Function", f.file_path) \in NodesOf(registry, f)
      BY DEF NodesOf, FunctionNodes
    <2> QED
      BY <1>1, <1>2, <2>1, <2>2, <2>3, <2>4
  <1>4. /\ registry.classes = ClassNames /\ registry.functions = FunctionNames
        /\ registry.methods = UNION {{<<c.name, m.name>> : m \in c.methods} : c \in OwnClasses}
    BY Finished
  <1>5. /\ \A c \in OwnClasses : \E f \in ToSet(parsed) : c \in RepoClasses(registry, f)
        /\ \A g \in OwnFunctions : \E f \in ToSet(parsed) : g \in RepoFunctions(registry, f)
    BY OwnClassesEmitted
  <1>6. \A name \in registry.classes : ClassId(name) \in DefinedIds
    BY <1>3, <1>4, <1>5 DEF ClassNames
  <1>7. \A name \in registry.functions : FunctionId(name) \in DefinedIds
    BY <1>3, <1>4, <1>5 DEF FunctionNames
  <1>8. ASSUME NEW i \in registry.methods PROVE i \in DefinedIds
    <2>1. PICK c \in OwnClasses : i \in {<<c.name, m.name>> : m \in c.methods}
      BY <1>4
    <2>2. PICK m \in c.methods : i = MethodId(c.name, m.name)
      BY <2>1 DEF MethodId
    <2> QED
      BY <1>3, <1>5, <2>2
  <1> QED
    BY <1>3, <1>6, <1>7, <1>8

\* The ends of the edges of a finished graph are defined somewhere, but for the
\* decorators and the bare names of methods.
LEMMA EdgeEnds ==
    ASSUME BInv, pc = "done", NEW e \in edges
    PROVE  /\ e.source \in DefinedIds \/ e.rel = "decorates"
           /\ \/ e.target \in DefinedIds
              \/ e.rel = "calls" /\ Len(e.source) = 2 /\ BareName(e.target)
  <1> USE DefinedFacts
  <1>1. PICK f \in ToSet(parsed) : e \in EmittedEdges(registry, f)
    BY Finished
  <1>2. \A x, y, r : Edge(x, y, r).source = x /\ Edge(x, y, r).target = y /\ Edge(x, y, r).rel = r
    BY DEF Edge
  <1>3. \A d, id : e \in Decorates(d, id) => e.target = id /\ e.rel = "decorates"
    BY <1>2 DEF Decorates
  <1>4. \A calls, id : e \in ResolvedCalls(registry, calls, id) => e.source = id /\ e.target \in DefinedIds
    BY <1>2 DEF ResolvedCalls
  <1>5. CASE e \in ImportEdges(f)
    BY <1>2, <1>5 DEF ImportEdges
  <1>6. ASSUME NEW c \in RepoClasses(registry, f), e \in InheritsEdges(registry, c)
        PROVE  e.source \in DefinedIds /\ e.target \in DefinedIds
    BY <1>2, <1>6 DEF InheritsEdges
  <1>7. ASSUME NEW c \in RepoClasses(registry, f), NEW m \in c.methods, e \in OverridesEdges(registry, c, m)
        PROVE  e.source \in DefinedIds /\ e.target \in DefinedIds
    <2>1. PICK p \in c.inherits_from :
            <<p, m.name>> \in registry.methods /\ e = Edge(MethodId(c.name, m.name), <<p, m.name>>, "overrides")
      BY <1>7 DEF OverridesEdges, ParentDefinesMethod, MethodId
    <2> QED
      BY <1>2, <2>1
  <1>8. ASSUME NEW c \in RepoClasses(registry, f), NEW m \in c.methods,
               e \in BareCalls(registry, m.calls, MethodId(c.name, m.name))
        PROVE  /\ e.source \in DefinedIds
               /\ e.rel = "calls" /\ Len(e.source) = 2 /\ BareName(e.target)
    <2>1. PICK name \in m.calls :
            IsRepoMethod(registry, name) /\ e = Edge(MethodId(c.name, m.name), <<name>>, "calls")
      BY <1>8 DEF BareCalls
    <2>2. PICK cm \in registry.methods : cm[2] = name
      BY <2>1 DEF IsRepoMethod
    <2>3. cm \in UNION {{<<k.name, l.name>> : l \in k.methods} : k \in OwnClasses}
      BY Finished
    <2>4. PICK k \in OwnClasses : cm \in {<<k.name, l.name>> : l \in k.methods}
      BY <2>3
    <2>5. PICK l \in k.methods : cm = <<k.name, l.name>>
      BY <2>4
    <2>6. BareName(<<name>>)
      BY <2>2, <2>5 DEF BareName, MemberNames
    <2>7. Len(MethodId(c.name, m.name)) = 2
      BY DEF MethodId
    <2> QED
      BY <1>2, <2>1, <2>6, <2>7
  <1>9. ASSUME NEW c \in RepoClasses(registry, f), NEW m \in c.methods
        PROVE  MethodId(c.name, m.name) \in DefinedIds /\ ClassId(c.name) \in DefinedIds
    OBVIOUS
  <1>10. CASE \E g \in RepoFunctions(registry, f) :
                \/ e = Edge(FileId(f.file_path), FunctionId(g.name), "contains")
                \/ e \in Decorates(g, FunctionId(g.name))
                \/ e \in ResolvedCalls(registry, g.calls, FunctionId(g.name))
    BY <1>2, <1>3, <1>4, <1>10
  <1>11. CASE \E c \in RepoClasses(registry, f) :
                \/ e = Edge(FileId(f.file_path), ClassId(c.name), "contains")
                \/ e \in InheritsEdges(registry, c) \/ e \in Decorates(c, ClassId(c.name))
                \/ \E m \in c.methods :
                     \/ e = Edge(ClassId(c.name), MethodId(c.name, m.name), "contains")
                     \/ e \in OverridesEdges(registry, c, m) \/ e \in Decorates(m, MethodId(c.name, m.name))
                     \/ e \in ResolvedCalls(registry, m.calls, MethodId(c.name, m.name))
                     \/ e \in BareCalls(registry, m.calls, MethodId(c.name, m.name))
    BY <1>2, <1>3, <1>4, <1>6, <1>7, <1>8, <1>9, <1>11
  <1> QED
    BY <1>1, <1>5, <1>10, <1>11, EdgeKinds

\* Whatever it is asked for, a view is a graph.
LEMMA FilterIsClosed == \A types, rels : Closed(FilterGraph(types, rels))
  <1> SUFFICES ASSUME NEW types, NEW rels PROVE Closed(FilterGraph(types, rels))
    OBVIOUS
  <1> DEFINE ids  == Ids({n \in nodes : n.type \in types})
             kept == FilterEdges(ids, rels)
             view == [nodes |-> {n \in nodes : n.id \in ids \cap ConnectedIds(kept)}, edges |-> kept]
  <1>1. FilterGraph(types, rels) = view
    BY DEF FilterGraph
  <1>2. \A i \in ids : \E n \in nodes : n.id = i
    BY DEF Ids
  <1>3. \A e \in kept : e.target \in ids /\ (e.rel = "decorates" \/ e.source \in ids)
    BY DEF FilterEdges
  <1>4. \A e \in kept : e.target \in ConnectedIds(kept) /\ e.source \in ConnectedIds(kept)
    BY DEF ConnectedIds
  <1> HIDE DEF ids, kept
  <1>5. \A i \in ids \cap ConnectedIds(kept) : i \in Ids(view.nodes)
    BY <1>2 DEF Ids
  <1>6. Closed(view)
    BY <1>3, <1>4, <1>5 DEF Closed
  <1> QED
    BY <1>1, <1>6

LEMMA ClosedHolds == BInv => GraphAndViewsAreClosed
  <1> SUFFICES ASSUME BInv, pc = "done"
               PROVE  \A e \in edges :
                        /\ e.source \in Ids(nodes) \/ e.rel = "decorates"
                        /\ \/ e.target \in Ids(nodes)
                           \/ e.rel = "calls" /\ Len(e.source) = 2 /\ BareName(e.target)
    BY FilterIsClosed DEF GraphAndViewsAreClosed, ArchitectureGraph, ClassGraph, CallGraph
  <1>1. Ids(nodes) = DefinedIds \cap ConnectedIds(edges)
    BY Finished DEF DefinedIds
  <1>2. \A e \in edges : e.source \in ConnectedIds(edges) /\ e.target \in ConnectedIds(edges)
    BY DEF ConnectedIds
  <1> QED
    BY <1>1, <1>2, EdgeEnds

-----------------------------------------------------------------------------
\* The names a set of parsed files registers.
LEMMA RegistryType ==
    ASSUME NEW F, F \subseteq ParsedFiles
    PROVE  /\ RegistryOf(F).classes \cup RegistryOf(F).functions \subseteq Names \ Excluded
           /\ RegistryOf(F).methods \subseteq RegistryOf(F).classes \X Names
  <1>1. \A f \in F : IsFile(f)
    BY ParsedType
  <1>2. \A c \in AllClasses(F) : IsClass(c) /\ c.name \in Names \ Excluded
    BY <1>1 DEF AllClasses, Known, MayBeSymbol, IsFile, IsClass, IsCallable
  <1>3. \A g \in AllFunctions(F) : g.name \in Names \ Excluded
    BY <1>1 DEF AllFunctions, Known, MayBeSymbol, IsFile, IsCallable
  <1>4. /\ RegistryOf(F).classes = {c.name : c \in AllClasses(F)}
        /\ RegistryOf(F).functions = {g.name : g \in AllFunctions(F)}
        /\ RegistryOf(F).methods = UNION {{<<c.name, m.name>> : m \in c.methods} : c \in AllClasses(F)}
    BY DEF RegistryOf
  <1>5. \A c \in AllClasses(F) : {<<c.name, m.name>> : m \in c.methods} \subseteq RegistryOf(F).classes \X Names
    BY <1>2, <1>4 DEF IsClass, IsCallable
  <1>6. RegistryOf(F).methods \subseteq RegistryOf(F).classes \X Names
    BY <1>4, <1>5
  <1>7. RegistryOf(F).classes \subseteq Names \ Excluded /\ RegistryOf(F).functions \subseteq Names \ Excluded
    BY <1>2, <1>3, <1>4
  <1> QED
    BY <1>6, <1>7

\* The nodes and the edges of a parsed file.
LEMMA NodeTyped ==
    ASSUME NEW reg, NEW f, IsFile(f), NEW n \in NodesOf(reg, f)
    PROVE  n.type \in NodeType /\ n.id \in Seq(Names)
  <1>1. \A i, t, o : Node(i, t, o).id = i /\ Node(i, t, o).type = t
    BY DEF Node
  <1>2. \A c \in RepoClasses(reg, f) : c.name \in Names /\ \A m \in c.methods : m.name \in Names
    BY DEF RepoClasses, IsFile, IsClass, IsCallable
  <1>3. \A g \in RepoFunctions(reg, f) : g.name \in Names
    BY DEF RepoFunctions, IsFile, IsCallable
  <1>4. \A x, y \in Names : <<x>> \in Seq(Names) /\ <<x, y>> \in Seq(Names)
    OBVIOUS
  <1>5. CASE n = Node(FileId(f.file_path), "File", f.file_path)
    BY <1>1, <1>5 DEF FileId, IsFile, NodeType
  <1>6. CASE n \in ModuleNodes(f)
    BY <1>1, <1>6 DEF ModuleNodes, ModuleId, IsFile, NodeType
  <1>7. CASE \E c \in RepoClasses(reg, f) :
               \/ n = Node(ClassId(c.name), "Class", f.file_path)
               \/ \E m \in c.methods : n = Node(MethodId(c.name, m.name), "Method", f.file_path)
    <2>1. \A c \in RepoClasses(reg, f) : ClassId(c.name) \in Seq(Names)
      BY <1>2, <1>4 DEF ClassId
    <2>2. \A c \in RepoClasses(reg, f) : \A m \in c.methods : MethodId(c.name, m.name) \in Seq(Names)
      BY <1>2, <1>4 DEF MethodId
    <2> QED
      BY <1>1, <1>7, <2>1, <2>2 DEF NodeType
  <1>8. CASE \E g \in RepoFunctions(reg, f) : n = Node(FunctionId(g.name), "Function", f.file_path)
    <2>1. \A g \in RepoFunctions(reg, f) : FunctionId(g.name) \in Seq(Names)
      BY <1>3, <1>4 DEF FunctionId
    <2> QED
      BY <1>1, <1>8, <2>1 DEF NodeType
  <1> QED
    BY <1>5, <1>6, <1>7, <1>8, NodeKinds

LEMMA EdgeType ==
    ASSUME NEW reg, NEW f, IsFile(f), NEW e \in EmittedEdges(reg, f),
           reg.classes \cup reg.functions \subseteq Names, reg.methods \subseteq reg.classes \X Names
    PROVE  e.source \in Seq(Names) /\ e.target \in Seq(Names)
  <1>1. \A x, y, r : Edge(x, y, r).source = x /\ Edge(x, y, r).target = y
    BY DEF Edge
  <1>2. /\ \A x, y \in Names : <<x>> \in Seq(Names) /\ <<x, y>> \in Seq(Names)
        /\ \A x, y \in Names : /\ ClassId(x) \in Seq(Names) /\ FunctionId(x) \in Seq(Names)
                             /\ MethodId(x, y) \in Seq(Names)
    BY DEF ClassId, FunctionId, MethodId
  <1>3. \A c \in RepoClasses(reg, f) : IsClass(c)
    BY DEF RepoClasses, IsFile
  <1>4. \A c \in RepoClasses(reg, f) : ClassId(c.name) \in Seq(Names) /\ c.inherits_from \subseteq Names
    BY <1>2, <1>3 DEF IsClass, IsCallable, ClassId
  <1>5. \A c \in RepoClasses(reg, f) : \A m \in c.methods :
          MethodId(c.name, m.name) \in Seq(Names) /\ m.name \in Names
    BY <1>2, <1>3 DEF IsClass, IsCallable, MethodId
  <1>6. \A g \in RepoFunctions(reg, f) : IsCallable(g) /\ FunctionId(g.name) \in Seq(Names)
    BY <1>2 DEF RepoFunctions, IsFile, IsCallable, FunctionId
  <1>7. \A d, id : IsCallable(d) /\ id \in Seq(Names) /\ e \in Decorates(d, id)
                   => e.source \in Seq(Names) /\ e.target \in Seq(Names)
    BY <1>1 DEF Decorates, IsCallable
  <1>8. \A calls, id : id \in Seq(Names) /\ e \in ResolvedCalls(reg, calls, id)
                       => e.source \in Seq(Names) /\ e.target \in Seq(Names)
    <2>1. \A name \in reg.classes \cup reg.functions :
            ClassId(name) \in Seq(Names) /\ FunctionId(name) \in Seq(Names)
      BY <1>2
    <2> QED
      BY <1>1, <2>1 DEF ResolvedCalls
  <1>9. \A calls, id : id \in Seq(Names) /\ e \in BareCalls(reg, calls, id)
                       => e.source \in Seq(Names) /\ e.target \in Seq(Names)
    <2>1. \A name : IsRepoMethod(reg, name) => name \in Names
      BY DEF IsRepoMethod
    <2>2. \A name : IsRepoMethod(reg, name) => <<name>> \in Seq(Names)
      BY <1>2, <2>1
    <2>3. ASSUME NEW calls, NEW id, id \in Seq(Names), e \in BareCalls(reg, calls, id)
          PROVE  e.source \in Seq(Names) /\ e.target \in Seq(Names)
      <3>1. PICK name \in calls : IsRepoMethod(reg, name) /\ e = Edge(id, <<name>>, "calls")
        BY <2>3 DEF BareCalls
      <3>2. <<name>> \in Seq(Names)
        BY <2>2, <3>1
      <3>3. e.source = id /\ e.target = <<name>>
        BY <1>1, <3>1
      <3> QED
        BY <2>3, <3>2, <3>3
    <2> QED
      BY <2>3
  <1>10. CASE e \in ImportEdges(f)
    BY <1>1, <1>10 DEF ImportEdges, FileId, ModuleId, IsFile
  <1>11. ASSUME NEW c \in RepoClasses(reg, f), e \in InheritsEdges(reg, c)
         PROVE  e.source \in Seq(Names) /\ e.target \in Seq(Names)
    <2>1. PICK parent \in c.inherits_from : e = Edge(ClassId(c.name), ClassId(parent), "inherits")
      BY <1>11 DEF InheritsEdges
    <2>2. ClassId(c.name) \in Seq(Names) /\ ClassId(parent) \in Seq(Names)
      BY <1>2, <1>4
    <2> QED
      BY <1>1, <2>1, <2>2
  <1>12. ASSUME NEW c \in RepoClasses(reg, f), NEW m \in c.methods, e \in OverridesEdges(reg, c, m)
         PROVE  e.source \in Seq(Names) /\ e.target \in Seq(Names)
    <2>1. PICK parent \in c.inherits_from :
            e = Edge(MethodId(c.name, m.name), MethodId(parent, m.name), "overrides")
      BY <1>12 DEF OverridesEdges
    <2>2. MethodId(c.name, m.name) \in Seq(Names) /\ MethodId(parent, m.name) \in Seq(Names)
      BY <1>2, <1>4, <1>5
    <2> QED
      BY <1>1, <2>1, <2>2
  <1>13. FileId(f.file_path) \in Seq(Names)
    BY DEF FileId, IsFile
  <1>14. CASE \E c \in RepoClasses(reg, f) :
                \/ e = Edge(FileId(f.file_path), ClassId(c.name), "contains")
                \/ e \in InheritsEdges(reg, c) \/ e \in Decorates(c, ClassId(c.name))
                \/ \E m \in c.methods :
                     \/ e = Edge(ClassId(c.name), MethodId(c.name, m.name), "contains")
                     \/ e \in OverridesEdges(reg, c, m) \/ e \in Decorates(m, MethodId(c.name, m.name))
                     \/ e \in ResolvedCalls(reg, m.calls, MethodId(c.name, m.name))
                     \/ e \in BareCalls(reg, m.calls, MethodId(c.name, m.name))
    <2>1. PICK c \in RepoClasses(reg, f) :
                \/ e = Edge(FileId(f.file_path), ClassId(c.name), "contains")
                \/ e \in InheritsEdges(reg, c) \/ e \in Decorates(c, ClassId(c.name))
                \/ \E m \in c.methods :
                     \/ e = Edge(ClassId(c.name), MethodId(c.name, m.name), "contains")
                     \/ e \in OverridesEdges(reg, c, m) \/ e \in Decorates(m, MethodId(c.name, m.name))
                     \/ e \in ResolvedCalls(reg, m.calls, MethodId(c.name, m.name))
                     \/ e \in BareCalls(reg, m.calls, MethodId(c.name, m.name))
      BY <1>14
    <2>2. IsCallable(c) /\ \A m \in c.methods : IsCallable(m)
      BY <1>3 DEF IsClass
    <2> QED
      BY <1>1, <1>4, <1>5, <1>7, <1>8, <1>9, <1>11, <1>12, <1>13, <2>1, <2>2
  <1>15. CASE \E g \in RepoFunctions(reg, f) :
                \/ e = Edge(FileId(f.file_path), FunctionId(g.name), "contains")
                \/ e \in Decorates(g, FunctionId(g.name))
                \/ e \in ResolvedCalls(reg, g.calls, FunctionId(g.name))
    BY <1>1, <1>6, <1>7, <1>8, <1>13, <1>15
  <1> QED
    BY <1>10, <1>14, <1>15, EdgeKinds

LEMMA TypeHolds == BInv => TypeOK
  <1> SUFFICES ASSUME BInv PROVE TypeOK
    OBVIOUS
  <1>1. /\ parsed \in Seq(ParsedFiles) /\ files.sources \in Seq(SourceFiles)
        /\ pc \in {"parse", "register", "emit", "done"} /\ next \in Nat /\ next >= 1
        /\ next <= Len(IF pc = "parse" THEN files.sources ELSE parsed) + 1
    BY GraphBuilderAssumption DEF BInv, Bounds
  <1>2. Seen \subseteq ParsedFiles /\ Emitted \subseteq ParsedFiles
    BY <1>1 DEF Seen, Emitted, Files
  <1>3. \A f \in Emitted : IsFile(f)
    BY <1>2, ParsedType
  <1>4. /\ registry.classes \cup registry.functions \subseteq Names \ Excluded
        /\ registry.methods \subseteq registry.classes \X Names
    BY <1>2, RegistryType DEF BInv
  <1>5. \A n \in nodes : n.type \in NodeType /\ n.id \in Seq(Names)
    BY <1>3, NodeTyped DEF BInv, AllNodes
  <1>6. \A e \in edges : e.source \in Seq(Names) /\ e.target \in Seq(Names)
    BY <1>3, <1>4, EdgeType DEF BInv
  <1>7. \A n \in nodes, o \in nodes : n.id = o.id => n = o
    BY DEF BInv, Unique
  <1>8. next \in 1 .. Len(IF pc = "parse" THEN files.sources ELSE parsed) + 1
    BY <1>1
  <1> QED
    BY <1>1, <1>4, <1>5, <1>6, <1>7, <1>8 DEF TypeOK

-----------------------------------------------------------------------------
\* What is made of its parts tells them.
LEMMA Tuples ==
    /\ \A x, y, r : Edge(x, y, r).source = x /\ Edge(x, y, r).target = y /\ Edge(x, y, r).rel = r
    /\ \A i, t, o : Node(i, t, o).id = i /\ Node(i, t, o).type = t /\ Node(i, t, o).origin = o
    /\ \A x, y : <<x>> = <<y>> => x = y
    /\ \A x, y, u, v : <<x, y>> = <<u, v>> => x = u /\ y = v
    /\ \A x, y, z : <<x>> # <<y, z>>
  BY DEF Edge, Node

\* The contains edges of a finished graph.
LEMMA ContainsEdges ==
    ASSUME BInv, pc = "done", NEW e \in edges, e.rel = "contains"
    PROVE  \/ \E f \in ToSet(parsed) : \E c \in f.classes \cap OwnClasses :
                e.source = f.file_path /\ e.target = <<c.name>>
           \/ \E f \in ToSet(parsed) : \E g \in f.functions \cap OwnFunctions :
                e.source = f.file_path /\ e.target = <<g.name>>
           \/ \E c \in OwnClasses : \E m \in c.methods :
                e.source = <<c.name>> /\ e.target = <<c.name, m.name>>
  <1>1. PICK f \in ToSet(parsed) : e \in EmittedEdges(registry, f)
    BY Finished
  <1>2. /\ ~(e \in ImportEdges(f)) /\ \A d, id : ~(e \in Decorates(d, id))
        /\ \A c : ~(e \in InheritsEdges(registry, c))
        /\ \A c, m : ~(e \in OverridesEdges(registry, c, m))
        /\ \A calls, id : ~(e \in ResolvedCalls(registry, calls, id))
        /\ \A calls, id : ~(e \in BareCalls(registry, calls, id))
    BY Relations
  <1>3. /\ RepoClasses(registry, f) \subseteq f.classes \cap OwnClasses
        /\ RepoFunctions(registry, f) \subseteq f.functions \cap OwnFunctions
    BY OwnClassesEmitted DEF RepoClasses, RepoFunctions
  <1>4. \/ \E c \in RepoClasses(registry, f) :
             \/ e = Edge(FileId(f.file_path), ClassId(c.name), "contains")
             \/ \E m \in c.methods : e = Edge(ClassId(c.name), MethodId(c.name, m.name), "contains")
        \/ \E g \in RepoFunctions(registry, f) : e = Edge(FileId(f.file_path), FunctionId(g.name), "contains")
    BY <1>1, <1>2, EdgeKinds
  <1>5. \/ \E c \in f.classes \cap OwnClasses :
             \/ e = Edge(f.file_path, <<c.name>>, "contains")
             \/ \E m \in c.methods : e = Edge(<<c.name>>, <<c.name, m.name>>, "contains")
        \/ \E g \in f.functions \cap OwnFunctions : e = Edge(f.file_path, <<g.name>>, "contains")
    BY <1>3, <1>4 DEF FileId, ClassId, FunctionId, MethodId
  <1>6. \A x, y : e = Edge(x, y, "contains") => e.source = x /\ e.target = y
    BY Tuples
  <1> QED
    BY <1>5, <1>6

\* And each of them is an edge.
LEMMA ContainsEdgesBack ==
    ASSUME BInv, pc = "done"
    PROVE  /\ \A c \in OwnClasses : \E f \in ToSet(parsed) :
                c \in f.classes /\ Edge(f.file_path, <<c.name>>, "contains") \in edges
           /\ \A c \in OwnClasses : \A m \in c.methods :
                Edge(<<c.name>>, <<c.name, m.name>>, "contains") \in edges
  <1>1. edges = UNION {EmittedEdges(registry, f) : f \in ToSet(parsed)}
    BY Finished
  <1> SUFFICES ASSUME NEW c \in OwnClasses
               PROVE  /\ \E f \in ToSet(parsed) :
                           c \in f.classes /\ Edge(f.file_path, <<c.name>>, "contains") \in edges
                      /\ \A m \in c.methods : Edge(<<c.name>>, <<c.name, m.name>>, "contains") \in edges
    OBVIOUS
  <1>2. PICK f \in ToSet(parsed) : c \in RepoClasses(registry, f)
    BY OwnClassesEmitted
  <1>3. c \in f.classes /\ EmittedEdges(registry, f) \subseteq edges
    BY <1>1, <1>2 DEF RepoClasses
  <1> QED
    BY <1>2, <1>3, ClassEdgesEmitted DEF FileId, ClassId, MethodId

\* The edges of the calls.
LEMMA CallEdges ==
    ASSUME BInv, pc = "done", NEW e \in edges, e.rel \in {"calls", "instantiates"}
    PROVE  \E d \in Callables : \E name \in d.calls :
             /\ e.source = d.id /\ e.target = <<name>>
             /\ \/ e.rel = "instantiates" /\ name \in ClassNames
                \/ e.rel = "calls" /\ name \in FunctionNames \ ClassNames
                \/ e.rel = "calls" /\ name \in MemberNames \ (ClassNames \cup FunctionNames)
  <1>1. PICK f \in ToSet(parsed) : e \in EmittedEdges(registry, f)
    BY Finished
  <1>2. /\ ~(e \in ImportEdges(f)) /\ \A d, id : ~(e \in Decorates(d, id))
        /\ \A c : ~(e \in InheritsEdges(registry, c))
        /\ \A c, m : ~(e \in OverridesEdges(registry, c, m))
    BY Relations
  <1>3. /\ RepoClasses(registry, f) \subseteq OwnClasses /\ RepoFunctions(registry, f) \subseteq OwnFunctions
        /\ registry.classes = ClassNames /\ registry.functions = FunctionNames
        /\ registry.methods = UNION {{<<c.name, m.name>> : m \in c.methods} : c \in OwnClasses}
    BY Finished, OwnClassesEmitted
  <1>4. \A x, y : e # Edge(x, y, "contains")
    BY Tuples
  <1>5. \/ \E c \in RepoClasses(registry, f) : \E m \in c.methods :
             \/ e \in ResolvedCalls(registry, m.calls, MethodId(c.name, m.name))
             \/ e \in BareCalls(registry, m.calls, MethodId(c.name, m.name))
        \/ \E g \in RepoFunctions(registry, f) : e \in ResolvedCalls(registry, g.calls, FunctionId(g.name))
    BY <1>1, <1>2, <1>4, EdgeKinds
  <1>6. \A calls, id : e \in ResolvedCalls(registry, calls, id) =>
          \E name \in calls : /\ e.source = id /\ e.target = <<name>>
                              /\ \/ e.rel = "instantiates" /\ name \in ClassNames
                                 \/ e.rel = "calls" /\ name \in FunctionNames \ ClassNames
    <2> SUFFICES ASSUME NEW calls, NEW id, e \in ResolvedCalls(registry, calls, id)
                 PROVE  \E name \in calls : /\ e.source = id /\ e.target = <<name>>
                              /\ \/ e.rel = "instantiates" /\ name \in ClassNames
                                 \/ e.rel = "calls" /\ name \in FunctionNames \ ClassNames
      OBVIOUS
    <2>1. \/ \E name \in calls \cap ClassNames : e = Edge(id, <<name>>, "instantiates")
          \/ \E name \in (calls \cap FunctionNames) \ ClassNames : e = Edge(id, <<name>>, "calls")
      BY <1>3 DEF ResolvedCalls, ClassId, FunctionId
    <2>2. \A x, y, r : e = Edge(x, y, r) => e.source = x /\ e.target = y /\ e.rel = r
      BY Tuples
    <2> QED
      BY <2>1, <2>2
  <1>7. \A name : IsRepoMethod(registry, name) => name \in MemberNames
    <2> SUFFICES ASSUME NEW name, NEW cm \in registry.methods, cm[2] = name PROVE name \in MemberNames
      BY DEF IsRepoMethod
    <2>1. PICK c \in OwnClasses : cm \in {<<c.name, m.name>> : m \in c.methods}
      BY <1>3
    <2>2. PICK m \in c.methods : cm = <<c.name, m.name>>
      BY <2>1
    <2> QED
      BY <2>2 DEF MemberNames
  <1>8. \A calls, id : e \in BareCalls(registry, calls, id) =>
          \E name \in calls : /\ e.source = id /\ e.target = <<name>> /\ e.rel = "calls"
                              /\ name \in MemberNames \ (ClassNames \cup FunctionNames)
    <2> SUFFICES ASSUME NEW calls, NEW id, e \in BareCalls(registry, calls, id)
                 PROVE  \E name \in calls : /\ e.source = id /\ e.target = <<name>> /\ e.rel = "calls"
                              /\ name \in MemberNames \ (ClassNames \cup FunctionNames)
      OBVIOUS
    <2>1. \E name \in calls : /\ name \notin ClassNames \cup FunctionNames
                              /\ IsRepoMethod(registry, name) /\ e = Edge(id, <<name>>, "calls")
      BY <1>3 DEF BareCalls
    <2>2. \A x, y, r : e = Edge(x, y, r) => e.source = x /\ e.target = y /\ e.rel = r
      BY Tuples
    <2> QED
      BY <1>7, <2>1, <2>2
  <1>9. \A c \in OwnClasses : \A m \in c.methods :
          [id |-> MethodId(c.name, m.name), calls |-> m.calls] \in Callables
    <2> DEFINE M(c) == {[id |-> MethodId(c.name, m.name), calls |-> m.calls] : m \in c.methods}
    <2>1. UNION {M(c) : c \in OwnClasses} \subseteq Callables
      BY DEF Callables
    <2>2. \A c \in OwnClasses : M(c) \subseteq Callables
      <3> HIDE DEF M
      <3> QED
        BY <2>1
    <2> QED
      BY <2>2
  <1>10. \A g \in OwnFunctions : [id |-> FunctionId(g.name), calls |-> g.calls] \in Callables
    BY DEF Callables
  <1>11. CASE \E c \in RepoClasses(registry, f) : \E m \in c.methods :
                \/ e \in ResolvedCalls(registry, m.calls, MethodId(c.name, m.name))
                \/ e \in BareCalls(registry, m.calls, MethodId(c.name, m.name))
    <2>0. PICK c \in OwnClasses : \E m \in c.methods :
                \/ e \in ResolvedCalls(registry, m.calls, MethodId(c.name, m.name))
                \/ e \in BareCalls(registry, m.calls, MethodId(c.name, m.name))
      BY <1>3, <1>11
    <2>1. PICK m \in c.methods :
                \/ e \in ResolvedCalls(registry, m.calls, MethodId(c.name, m.name))
                \/ e \in BareCalls(registry, m.calls, MethodId(c.name, m.name))
      BY <2>0
    <2> DEFINE d == [id |-> MethodId(c.name, m.name), calls |-> m.calls]
    <2>2. d \in Callables /\ d.id = MethodId(c.name, m.name) /\ d.calls = m.calls
      BY <1>9
    <2> HIDE DEF d
    <2> QED
      BY <1>6, <1>8, <2>1, <2>2
  <1>12. CASE \E g \in RepoFunctions(registry, f) : e \in ResolvedCalls(registry, g.calls, FunctionId(g.name))
    <2>1. PICK g \in OwnFunctions : e \in ResolvedCalls(registry, g.calls, FunctionId(g.name))
      BY <1>3, <1>12
    <2> DEFINE d == [id |-> FunctionId(g.name), calls |-> g.calls]
    <2>2. d \in Callables /\ d.id = FunctionId(g.name) /\ d.calls = g.calls
      BY <1>10
    <2> HIDE DEF d
    <2> QED
      BY <1>6, <2>1, <2>2
  <1> QED
    BY <1>5, <1>11, <1>12

\* And the calls the graph must have.
LEMMA CallEdgesBack ==
    ASSUME BInv, pc = "done", NEW d \in Callables, NEW name \in d.calls
    PROVE  /\ name \in ClassNames => Edge(d.id, <<name>>, "instantiates") \in edges
           /\ name \in FunctionNames \ ClassNames => Edge(d.id, <<name>>, "calls") \in edges
  <1>1. /\ edges = UNION {EmittedEdges(registry, f) : f \in ToSet(parsed)}
        /\ registry.classes = ClassNames /\ registry.functions = FunctionNames
    BY Finished
  <1>2. /\ name \in ClassNames => Edge(d.id, <<name>>, "instantiates") \in ResolvedCalls(registry, d.calls, d.id)
        /\ name \in FunctionNames \ ClassNames => Edge(d.id, <<name>>, "calls") \in ResolvedCalls(registry, d.calls, d.id)
    BY <1>1 DEF ResolvedCalls, ClassId, FunctionId
  <1>3. ResolvedCalls(registry, d.calls, d.id) \subseteq edges
    <2>1. CASE \E g \in OwnFunctions : d = [id |-> FunctionId(g.name), calls |-> g.calls]
      <3>1. PICK g \in OwnFunctions : d = [id |-> FunctionId(g.name), calls |-> g.calls]
        BY <2>1
      <3>2. PICK f \in ToSet(parsed) : g \in RepoFunctions(registry, f)
        BY OwnClassesEmitted
      <3>3. ResolvedCalls(registry, g.calls, FunctionId(g.name)) \subseteq FunctionEdges(registry, f, g)
        BY DEF FunctionEdges
      <3>4. FunctionEdges(registry, f, g) \subseteq EmittedEdges(registry, f)
        BY <3>2 DEF EmittedEdges
      <3>5. d.id = FunctionId(g.name) /\ d.calls = g.calls
        BY <3>1
      <3> QED
        BY <1>1, <3>3, <3>4, <3>5
    <2>2. CASE \E c \in OwnClasses : \E m \in c.methods : d = [id |-> MethodId(c.name, m.name), calls |-> m.calls]
      <3>0. PICK c \in OwnClasses : \E m \in c.methods : d = [id |-> MethodId(c.name, m.name), calls |-> m.calls]
        BY <2>2
      <3>1. PICK m \in c.methods : d = [id |-> MethodId(c.name, m.name), calls |-> m.calls]
        BY <3>0
      <3>2. PICK f \in ToSet(parsed) : c \in RepoClasses(registry, f)
        BY OwnClassesEmitted
      <3>3. ResolvedCalls(registry, m.calls, MethodId(c.name, m.name)) \subseteq MethodEdges(registry, c, m)
        BY DEF MethodEdges
      <3>4. MethodEdges(registry, c, m) \subseteq ClassEdges(registry, f, c)
        BY DEF ClassEdges
      <3>5. ClassEdges(registry, f, c) \subseteq EmittedEdges(registry, f)
        BY <3>2 DEF EmittedEdges
      <3>6. d.id = MethodId(c.name, m.name) /\ d.calls = m.calls
        BY <3>1
      <3> QED
        BY <1>1, <3>3, <3>4, <3>5, <3>6
    <2> QED
      BY <2>1, <2>2 DEF Callables
  <1> QED
    BY <1>2, <1>3

\* What decorates a class.
LEMMA DecoratesEdges ==
    ASSUME BInv, pc = "done"
    PROVE  /\ \A e \in edges : e.rel = "decorates" =>
                \/ \E c \in OwnClasses : e.source \in c.decorators /\ e.target = <<c.name>>
                \/ \E g \in OwnFunctions : e.target = <<g.name>>
                \/ \E c \in OwnClasses : \E m \in c.methods : e.target = <<c.name, m.name>>
           /\ \A c \in OwnClasses : \A ref \in c.decorators : Edge(ref, <<c.name>>, "decorates") \in edges
  <1>1. edges = UNION {EmittedEdges(registry, f) : f \in ToSet(parsed)}
    BY Finished
  <1>2. ASSUME NEW e \in edges, e.rel = "decorates"
        PROVE  \/ \E c \in OwnClasses : e.source \in c.decorators /\ e.target = <<c.name>>
               \/ \E g \in OwnFunctions : e.target = <<g.name>>
               \/ \E c \in OwnClasses : \E m \in c.methods : e.target = <<c.name, m.name>>
    <2>1. PICK f \in ToSet(parsed) : e \in EmittedEdges(registry, f)
      BY <1>1
    <2>2. /\ ~(e \in ImportEdges(f))
          /\ \A c : ~(e \in InheritsEdges(registry, c))
          /\ \A c, m : ~(e \in OverridesEdges(registry, c, m))
          /\ \A calls, id : ~(e \in ResolvedCalls(registry, calls, id))
          /\ \A calls, id : ~(e \in BareCalls(registry, calls, id))
      BY <1>2, Relations
    <2>3. \A x, y : e # Edge(x, y, "contains")
      BY <1>2, Tuples
    <2>4. /\ RepoClasses(registry, f) \subseteq OwnClasses
          /\ RepoFunctions(registry, f) \subseteq OwnFunctions
      BY OwnClassesEmitted
    <2>5. \A d, id : e \in Decorates(d, id) => e.source \in d.decorators /\ e.target = id
      BY Tuples DEF Decorates
    <2>6. \/ \E c \in OwnClasses : \/ e \in Decorates(c, ClassId(c.name))
                                   \/ \E m \in c.methods : e \in Decorates(m, MethodId(c.name, m.name))
          \/ \E g \in OwnFunctions : e \in Decorates(g, FunctionId(g.name))
      BY <2>1, <2>2, <2>3, <2>4, EdgeKinds
    <2>7. \/ \E c \in OwnClasses : \/ e \in Decorates(c, <<c.name>>)
                                   \/ \E m \in c.methods : e \in Decorates(m, <<c.name, m.name>>)
          \/ \E g \in OwnFunctions : e \in Decorates(g, <<g.name>>)
      BY <2>6 DEF ClassId, FunctionId, MethodId
    <2>8. \A c : e \in Decorates(c, <<c.name>>) => e.source \in c.decorators /\ e.target = <<c.name>>
      BY <2>5
    <2>9. \A c, m : e \in Decorates(m, <<c.name, m.name>>) => e.target = <<c.name, m.name>>
      BY <2>5
    <2>10. \A g : e \in Decorates(g, <<g.name>>) => e.target = <<g.name>>
      BY <2>5
    <2> QED
      BY <2>7, <2>8, <2>9, <2>10
  <1>3. ASSUME NEW c \in OwnClasses, NEW ref \in c.decorators
        PROVE  Edge(ref, <<c.name>>, "decorates") \in edges
    <2>1. PICK f \in ToSet(parsed) : c \in RepoClasses(registry, f)
      BY OwnClassesEmitted
    <2>2. Edge(ref, <<c.name>>, "decorates") \in Decorates(c, ClassId(c.name))
      BY DEF Decorates, ClassId
    <2>3. Decorates(c, ClassId(c.name)) \subseteq ClassEdges(registry, f, c)
      BY DEF ClassEdges
    <2>4. ClassEdges(registry, f, c) \subseteq EmittedEdges(registry, f)
      BY <2>1 DEF EmittedEdges
    <2> QED
      BY <1>1, <2>2, <2>3, <2>4
  <1> QED
    BY <1>2, <1>3

-----------------------------------------------------------------------------
\* What the ids of the finished graph are: of its files, its imports and its methods.
Paths == {f.file_path : f \in ToSet(parsed)}

Imported == UNION {f.imports : f \in ToSet(parsed)}

MethodIds == UNION {{<<c.name, m.name>> : m \in c.methods} : c \in OwnClasses}

\* The source files behind the parsed ones.
ParsedOf(S) == {CodeParserParseFile(f) : f \in S} \cup {TSParseFile(f) : f \in S}

SInv == parsed \in Seq(ParsedOf(ToSet(files.sources)))

\* What was parsed is what a parser makes of a source file of the repository.
LEMMA SourcesInvariant == Spec => []SInv
  <1>1. PipelineInit => SInv
    BY DEF PipelineInit, Init, SInv
  <1>2. ASSUME BInv, SInv, [Next]_vars PROVE SInv'
    <2>1. CASE UNCHANGED <<files, parsed>>
      BY <1>2, <2>1 DEF SInv
    <2>2. CASE Parse
      <3> DEFINE S == ParsedOf(ToSet(files.sources))
                 f == files.sources[next]
      <3>1. /\ files.sources \in Seq(SourceFiles) /\ next \in 1 .. Len(files.sources)
            /\ parsed' = parsed \o Visit(files.sources, files.tree_sitter, f) /\ files' = files
        BY <1>2, <2>2, GraphBuilderAssumption DEF BInv, Bounds, Parse
      <3>2. f \in ToSet(files.sources)
        BY <3>1 DEF ToSet
      <3>3. CodeParserParseFile(f) \in S /\ TSParseFile(f) \in S
        BY <3>2 DEF ParsedOf
      <3>4. Visit(files.sources, files.tree_sitter, f) \in {<< >>, <<CodeParserParseFile(f)>>, <<TSParseFile(f)>>}
        BY DEF Visit, CodeParserVisit, TSVisit
      <3>5. SInv' <=> parsed' \in Seq(S)
        BY <3>1 DEF SInv
      <3> HIDE DEF S, f
      <3>6. parsed \in Seq(S)
        BY <1>2 DEF SInv, S
      <3>7. \A x \in S : <<x>> \in Seq(S)
        OBVIOUS
      <3>8. << >> \in Seq(S) /\ <<CodeParserParseFile(f)>> \in Seq(S) /\ <<TSParseFile(f)>> \in Seq(S)
        BY <3>3, <3>7
      <3>9. Visit(files.sources, files.tree_sitter, f) \in Seq(S)
        BY <3>4, <3>8
      <3> QED
        BY <3>1, <3>5, <3>6, <3>9
    <2> QED
      BY <1>2, <2>1, <2>2 DEF Next, Build, BuildNext, StartRegistration, Register, StartEmission,
         Emit, Prune, MakeResolver, Ask, Resolve, Augment, vars, graphVars
  <1> QED
    BY <1>1, <1>2, BuildInvariant, PTL DEF Spec

\* The names of the declarations are names.
LEMMA OwnNames ==
    ASSUME BInv, pc = "done"
    PROVE  /\ ClassNames \subseteq Names /\ FunctionNames \subseteq Names /\ MemberNames \subseteq Names
           /\ MethodIds \subseteq ClassNames \X MemberNames
           /\ \A c \in OwnClasses : c.name \in ClassNames /\ \A m \in c.methods : m.name \in MemberNames
           /\ \A g \in OwnFunctions : g.name \in FunctionNames
  <1>1. \A f \in ToSet(parsed) : IsFile(f)
    BY Finished, ParsedType
  <1>2. \A c \in OwnClasses : IsClass(c)
    BY <1>1 DEF OwnClasses, IsFile
  <1>3. \A g \in OwnFunctions : IsCallable(g)
    BY <1>1 DEF OwnFunctions, IsFile
  <1>4. \A c \in OwnClasses : \A m \in c.methods : m.name \in Names /\ m.name \in MemberNames
    BY <1>2 DEF IsClass, IsCallable, MemberNames
  <1>5. MemberNames \subseteq Names
    BY <1>4 DEF MemberNames
  <1>6. \A c \in OwnClasses : c.name \in ClassNames /\ c.name \in Names
    BY <1>2 DEF ClassNames, IsClass, IsCallable
  <1>7. \A g \in OwnFunctions : g.name \in FunctionNames /\ g.name \in Names
    BY <1>3 DEF FunctionNames, IsCallable
  <1>8. ClassNames \subseteq Names /\ FunctionNames \subseteq Names
    BY <1>6, <1>7 DEF ClassNames, FunctionNames
  <1>9. \A c \in OwnClasses : {<<c.name, m.name>> : m \in c.methods} \subseteq ClassNames \X MemberNames
    BY <1>4, <1>6
  <1>10. MethodIds \subseteq ClassNames \X MemberNames
    BY <1>9 DEF MethodIds
  <1> QED
    BY <1>4, <1>5, <1>6, <1>7, <1>8, <1>10

\* The id of what a file emits, by the type of the node.
LEMMA IdOfEmitted ==
    ASSUME BInv, pc = "done", NEW f \in ToSet(parsed), NEW n \in NodesOf(registry, f)
    PROVE  /\ n.type \in NodeType
           /\ n.type = "File" => n.id \in Paths
           /\ n.type = "Module" => n.id \in Imported
           /\ n.type = "Class" => \E x \in ClassNames : n.id = <<x>>
           /\ n.type = "Function" => \E x \in FunctionNames : n.id = <<x>>
           /\ n.type = "Method" => n.id \in MethodIds
  <1>1. \A i, t, o : Node(i, t, o).id = i /\ Node(i, t, o).type = t
    BY DEF Node
  <1>2. /\ RepoClasses(registry, f) \subseteq OwnClasses
        /\ RepoFunctions(registry, f) \subseteq OwnFunctions
    BY OwnClassesEmitted
  <1>3. CASE n = Node(FileId(f.file_path), "File", f.file_path)
    BY <1>1, <1>3 DEF FileId, Paths, NodeType
  <1>4. CASE n \in ModuleNodes(f)
    BY <1>1, <1>4 DEF ModuleNodes, ModuleId, Imported, NodeType
  <1>5. CASE \E c \in RepoClasses(registry, f) : n = Node(ClassId(c.name), "Class", f.file_path)
    BY <1>1, <1>2, <1>5, OwnNames DEF ClassId, NodeType
  <1>6. ASSUME NEW c \in RepoClasses(registry, f), NEW m \in c.methods,
               n = Node(MethodId(c.name, m.name), "Method", f.file_path)
        PROVE  n.type = "Method" /\ n.id \in MethodIds
    <2>1. n.type = "Method" /\ n.id = <<c.name, m.name>>
      BY <1>1, <1>6 DEF MethodId
    <2>2. n.id \in {<<c.name, l.name>> : l \in c.methods}
      BY <2>1
    <2> QED
      BY <1>2, <2>1, <2>2 DEF MethodIds
  <1>7. CASE \E g \in RepoFunctions(registry, f) : n = Node(FunctionId(g.name), "Function", f.file_path)
    BY <1>1, <1>2, <1>7, OwnNames DEF FunctionId, NodeType
  <1>8. \/ n = Node(FileId(f.file_path), "File", f.file_path)
        \/ n \in ModuleNodes(f)
        \/ \E c \in RepoClasses(registry, f) :
              \/ n = Node(ClassId(c.name), "Class", f.file_path)
              \/ \E m \in c.methods : n = Node(MethodId(c.name, m.name), "Method", f.file_path)
        \/ \E g \in RepoFunctions(registry, f) : n = Node(FunctionId(g.name), "Function", f.file_path)
    BY NodeKinds
  <1> QED
    BY <1>3, <1>4, <1>5, <1>6, <1>7, <1>8 DEF NodeType

\* And of a node of the graph.
LEMMA IdOfType ==
    ASSUME BInv, pc = "done", NEW n \in nodes
    PROVE  /\ n.type \in NodeType
           /\ n.type = "File" => n.id \in Paths
           /\ n.type = "Module" => n.id \in Imported
           /\ n.type = "Class" => \E x \in ClassNames : n.id = <<x>>
           /\ n.type = "Function" => \E x \in FunctionNames : n.id = <<x>>
           /\ n.type = "Method" => n.id \in MethodIds
  <1>1. PICK f \in ToSet(parsed) : n \in NodesOf(registry, f)
    BY Finished
  <1> QED
    BY <1>1, IdOfEmitted

\* As long as nothing clashes, the id of a node tells its type.
LEMMA TypeOfId ==
    ASSUME BInv, pc = "done", ~Clash
    PROVE  /\ ClassNames \cap FunctionNames = {}
           /\ \A x \in ClassNames \cup FunctionNames \cup MemberNames : <<x>> \notin Paths \cup Imported
           /\ MethodIds \cap (Paths \cup Imported) = {}
           /\ \A n \in nodes :
                /\ n.id \in Paths => n.type = "File"
                /\ \A x \in ClassNames : n.id = <<x>> => n.type = "Class"
                /\ \A x \in FunctionNames : n.id = <<x>> => n.type = "Function"
                /\ \A x \in MemberNames : n.id = <<x>> => x \in ClassNames \cup FunctionNames
                /\ n.id \in MethodIds => n.type = "Method"
  <1> DEFINE single == {<<x>> : x \in ClassNames \cup FunctionNames \cup MemberNames}
  <1>1. Own(single) = single \cup MethodIds
    BY DEF Own, MethodIds, MethodId
  <1>2. /\ ClassNames \cap FunctionNames = {}
        /\ Imported \cap Own(single) = {} /\ Paths \cap (Own(single) \cup Imported) = {}
    BY DEF Clash, Imported, Paths
  <1>3. \A x \in ClassNames \cup FunctionNames \cup MemberNames : <<x>> \in single
    OBVIOUS
  <1> HIDE DEF single
  <1>4. /\ \A x \in ClassNames \cup FunctionNames \cup MemberNames : <<x>> \notin Paths \cup Imported
        /\ MethodIds \cap (Paths \cup Imported) = {} /\ Paths \cap Imported = {}
    BY <1>1, <1>2, <1>3
  <1>5. /\ \A x, y : <<x>> = <<y>> => x = y
        /\ \A x : <<x>> \notin MethodIds
    <2>1. \A x : \A i \in ClassNames \X MemberNames : <<x>> # i
      OBVIOUS
    <2> QED
      BY <2>1, OwnNames
  <1>6. ASSUME NEW n \in nodes
        PROVE  /\ n.id \in Paths => n.type = "File"
               /\ \A x \in ClassNames : n.id = <<x>> => n.type = "Class"
               /\ \A x \in FunctionNames : n.id = <<x>> => n.type = "Function"
               /\ \A x \in MemberNames : n.id = <<x>> => x \in ClassNames \cup FunctionNames
               /\ n.id \in MethodIds => n.type = "Method"
    <2>1. \/ n.type = "File" /\ n.id \in Paths
          \/ n.type = "Module" /\ n.id \in Imported
          \/ n.type = "Class" /\ \E x \in ClassNames : n.id = <<x>>
          \/ n.type = "Function" /\ \E x \in FunctionNames : n.id = <<x>>
          \/ n.type = "Method" /\ n.id \in MethodIds
      BY IdOfType DEF NodeType
    <2> QED
      BY <1>2, <1>4, <1>5, <2>1
  <1> QED
    BY <1>2, <1>4, <1>6

\* An edge is its ends and one of seven relations.
Rels == {"imports", "contains", "inherits", "overrides", "decorates", "instantiates", "calls"}

LEMMA EdgeForm ==
    ASSUME BInv, pc = "done", NEW e \in edges
    PROVE  e = Edge(e.source, e.target, e.rel) /\ e.rel \in Rels
  <1> SUFFICES \E x, y : \E r \in Rels : e = Edge(x, y, r)
    BY Tuples
  <1>1. PICK f \in ToSet(parsed) : e \in EmittedEdges(registry, f)
    BY Finished
  <1>2. \A d, i : e \in Decorates(d, i) => \E x, y : \E r \in Rels : e = Edge(x, y, r)
    BY DEF Decorates, Rels
  <1>3. \A calls, i : e \in ResolvedCalls(registry, calls, i) => \E x, y : \E r \in Rels : e = Edge(x, y, r)
    BY DEF ResolvedCalls, Rels
  <1>4. \A calls, i : e \in BareCalls(registry, calls, i) => \E x, y : \E r \in Rels : e = Edge(x, y, r)
    BY DEF BareCalls, Rels
  <1>5. \A c : e \in InheritsEdges(registry, c) => \E x, y : \E r \in Rels : e = Edge(x, y, r)
    BY DEF InheritsEdges, Rels
  <1>6. \A c, m : e \in OverridesEdges(registry, c, m) => \E x, y : \E r \in Rels : e = Edge(x, y, r)
    BY DEF OverridesEdges, Rels
  <1>7. e \in ImportEdges(f) => \E x, y : \E r \in Rels : e = Edge(x, y, r)
    BY DEF ImportEdges, Rels
  <1>8. \A x, y : e = Edge(x, y, "contains") => \E u, v : \E r \in Rels : e = Edge(u, v, r)
    BY DEF Rels
  <1> QED
    BY <1>1, <1>2, <1>3, <1>4, <1>5, <1>6, <1>7, <1>8, EdgeKinds

\* The ids of the nodes a relation comes from and leads to.
LEMMA NeighbourIds ==
    ASSUME BInv, pc = "done", NEW id, NEW rel
    PROVE  /\ rel # "decorates" =>
                Ids(Sources(id, rel)) = {e.source : e \in {e \in edges : e.target = id /\ e.rel = rel}}
           /\ rel # "calls" =>
                Ids(Targets(id, rel)) = {e.target : e \in {e \in edges : e.source = id /\ e.rel = rel}}
           /\ \A n \in Sources(id, rel) : n \in nodes /\ Edge(n.id, id, rel) \in edges
           /\ \A n \in Targets(id, rel) : n \in nodes /\ Edge(id, n.id, rel) \in edges
  <1>1. \A e \in edges : /\ e.source \in Ids(nodes) \/ e.rel = "decorates"
                         /\ e.target \in Ids(nodes) \/ e.rel = "calls"
    BY ClosedHolds DEF GraphAndViewsAreClosed
  <1>2. \A e \in edges : e = Edge(e.source, e.target, e.rel)
    BY EdgeForm
  <1>3. \A n \in Sources(id, rel) : n \in nodes /\ Edge(n.id, id, rel) \in edges
    BY <1>2 DEF Sources, InEdges
  <1>4. \A n \in Targets(id, rel) : n \in nodes /\ Edge(id, n.id, rel) \in edges
    BY <1>2 DEF Targets, OutEdges
  <1>5. ASSUME rel # "decorates"
        PROVE  Ids(Sources(id, rel)) = {e.source : e \in {e \in edges : e.target = id /\ e.rel = rel}}
    <2>1. ASSUME NEW i \in Ids(Sources(id, rel))
          PROVE  i \in {e.source : e \in {e \in edges : e.target = id /\ e.rel = rel}}
      BY DEF Ids, Sources, InEdges
    <2>2. ASSUME NEW e \in edges, e.target = id, e.rel = rel PROVE e.source \in Ids(Sources(id, rel))
      <3>1. PICK n \in nodes : n.id = e.source
        BY <1>1, <1>5, <2>2 DEF Ids
      <3>2. n \in Sources(id, rel)
        BY <2>2, <3>1 DEF Sources, InEdges
      <3> QED
        BY <3>1, <3>2 DEF Ids
    <2> QED
      BY <2>1, <2>2
  <1>6. ASSUME rel # "calls"
        PROVE  Ids(Targets(id, rel)) = {e.target : e \in {e \in edges : e.source = id /\ e.rel = rel}}
    <2>1. ASSUME NEW i \in Ids(Targets(id, rel))
          PROVE  i \in {e.target : e \in {e \in edges : e.source = id /\ e.rel = rel}}
      BY DEF Ids, Targets, OutEdges
    <2>2. ASSUME NEW e \in edges, e.source = id, e.rel = rel PROVE e.target \in Ids(Targets(id, rel))
      <3>1. PICK n \in nodes : n.id = e.target
        BY <1>1, <1>6, <2>2 DEF Ids
      <3>2. n \in Targets(id, rel)
        BY <2>2, <3>1 DEF Targets, OutEdges
      <3> QED
        BY <3>1, <3>2 DEF Ids
    <2> QED
      BY <2>1, <2>2
  <1> QED
    BY <1>3, <1>4, <1>5, <1>6

-----------------------------------------------------------------------------
\* The parsed files are finitely many, each of finitely many imports.
LEMMA FilesFinite ==
    ASSUME BInv, SInv
    PROVE  /\ IsFiniteSet(ToSet(parsed)) /\ IsFiniteSet(Paths) /\ IsFiniteSet(Imported)
  <1>1. parsed \in Seq(ParsedFiles) /\ Len(parsed) \in Nat
    BY DEF BInv, Bounds
  <1>2. IsFiniteSet(ToSet(parsed))
    <2>1. IsFiniteSet(1 .. Len(parsed))
      BY <1>1, FS_Interval
    <2>2. ToSet(parsed) = {parsed[i] : i \in 1 .. Len(parsed)}
      BY <1>1 DEF ToSet
    <2> QED
      BY <2>1, <2>2, ImageFinite
  <1>3. IsFiniteSet(Paths)
    <2> DEFINE path == [f \in ToSet(parsed) |-> f.file_path]
    <2>1. Paths = {path[f] : f \in ToSet(parsed)}
      BY DEF Paths
    <2> HIDE DEF path
    <2> QED
      BY <1>2, <2>1, ImageFinite
  <1>4. \A f \in ToSet(parsed) : IsFiniteSet(f.imports)
    <2> SUFFICES ASSUME NEW p \in ToSet(parsed) PROVE IsFiniteSet(p.imports)
      OBVIOUS
    <2>1. p \in ParsedOf(ToSet(files.sources))
      BY DEF SInv, ToSet
    <2>2. PICK f \in ToSet(files.sources) : p = CodeParserParseFile(f) \/ p = TSParseFile(f)
      BY <2>1 DEF ParsedOf
    <2>3. IsFiniteSet(f.imports)
      BY FiniteAssumption DEF BInv, Bounds
    <2> DEFINE module == [i \in f.imports |-> i.module]
    <2>4. p.imports \subseteq {module[i] : i \in f.imports}
      BY <2>2 DEF CodeParserParseFile, TSParseFile, ExtractImports
    <2> HIDE DEF module
    <2>5. IsFiniteSet({module[i] : i \in f.imports})
      BY <2>3, ImageFinite
    <2> QED
      BY <2>4, <2>5, FS_Subset
  <1>5. IsFiniteSet(Imported)
    <2> DEFINE imports == [f \in ToSet(parsed) |-> f.imports]
    <2>1. Imported = UNION {imports[f] : f \in ToSet(parsed)}
      BY DEF Imported
    <2>2. \A s \in {imports[f] : f \in ToSet(parsed)} : IsFiniteSet(s)
      BY <1>4
    <2> HIDE DEF imports
    <2>3. IsFiniteSet({imports[f] : f \in ToSet(parsed)})
      BY <1>2, ImageFinite
    <2> QED
      BY <2>1, <2>2, <2>3, FS_UNION
  <1> QED
    BY <1>2, <1>3, <1>5

\* The ids that may be those of nodes, and the nodes, are finitely many.
NodeIds == Paths \cup Imported \cup {<<x>> : x \in Names} \cup Names \X Names

LEMMA NodesFinite ==
    ASSUME BInv, SInv, pc = "done"
    PROVE  IsFiniteSet(NodeIds) /\ Ids(nodes) \subseteq NodeIds /\ IsFiniteSet(nodes)
  <1>1. IsFiniteSet(NodeIds)
    <2> DEFINE single == [x \in Names |-> <<x>>]
    <2>1. {<<x>> : x \in Names} = {single[x] : x \in Names}
      OBVIOUS
    <2> HIDE DEF single
    <2>2. IsFiniteSet({<<x>> : x \in Names})
      BY <2>1, FiniteAssumption, ImageFinite
    <2>3. IsFiniteSet(Names \X Names)
      BY FiniteAssumption, FS_Product
    <2>4. IsFiniteSet(Paths \cup Imported)
      BY FilesFinite, FS_Union
    <2>5. IsFiniteSet((Paths \cup Imported) \cup {<<x>> : x \in Names})
      BY <2>2, <2>4, FS_Union
    <2> QED
      BY <2>3, <2>5, FS_Union DEF NodeIds
  <1>2. ASSUME NEW n \in nodes PROVE n.id \in NodeIds
    <2>1. /\ ClassNames \subseteq Names /\ FunctionNames \subseteq Names
          /\ MethodIds \subseteq Names \X Names
      BY OwnNames
    <2>2. \/ n.id \in Paths \/ n.id \in Imported \/ (\E x \in Names : n.id = <<x>>) \/ n.id \in MethodIds
      BY <2>1, IdOfType DEF NodeType
    <2> QED
      BY <2>1, <2>2 DEF NodeIds
  <1>3. Ids(nodes) \subseteq NodeIds
    BY <1>2 DEF Ids
  <1>4. IsFiniteSet(nodes)
    <2> DEFINE node == [i \in Ids(nodes) |-> CHOOSE n \in nodes : n.id = i]
    <2>1. IsFiniteSet(Ids(nodes))
      BY <1>1, <1>3, FS_Subset
    <2>2. \A n \in nodes : n.id \in Ids(nodes) /\ node[n.id] = n
      BY DEF Ids, BInv, Unique
    <2> HIDE DEF node
    <2>3. nodes \subseteq {node[i] : i \in Ids(nodes)}
      BY <2>2
    <2>4. IsFiniteSet({node[i] : i \in Ids(nodes)})
      BY <2>1, ImageFinite
    <2> QED
      BY <2>3, <2>4, FS_Subset
  <1> QED
    BY <1>1, <1>3, <1>4

\* The nodes in the order of their ids.
NodeOrder == {pair \in nodes \X nodes : IdBefore(pair[1].id, pair[2].id)}

\* The order of ids orders the nodes, as no two have the same.
LEMMA NodesInOrder ==
    ASSUME BInv, Ordered(Seq(Names)), NEW S \in SUBSET nodes
    PROVE  Linear(S, NodeOrder)
  <1>1. /\ \A n \in nodes : n.id \in Seq(Names)
        /\ \A n, o \in nodes : n.id = o.id => n = o
    BY TypeHolds DEF TypeOK
  <1>2. \A n, o \in nodes : <<n, o>> \in NodeOrder <=> IdBefore(n.id, o.id)
    BY DEF NodeOrder
  <1>3. \A p, q, r \in Seq(Names) :
          /\ ~IdBefore(p, p)
          /\ p = q \/ IdBefore(p, q) \/ IdBefore(q, p)
          /\ IdBefore(p, q) /\ IdBefore(q, r) => IdBefore(p, r)
    BY DEF Ordered
  <1> SUFFICES ASSUME NEW p \in S, NEW q \in S, NEW r \in S
               PROVE  /\ <<p, p>> \notin NodeOrder
                      /\ p = q \/ <<p, q>> \in NodeOrder \/ <<q, p>> \in NodeOrder
                      /\ <<p, q>> \in NodeOrder /\ <<q, r>> \in NodeOrder => <<p, r>> \in NodeOrder
    BY DEF Linear
  <1>4. p.id \in Seq(Names) /\ q.id \in Seq(Names) /\ r.id \in Seq(Names) /\ (p.id = q.id => p = q)
    BY <1>1
  <1> QED
    BY <1>2, <1>3, <1>4

\* The first of some nodes is one of them, unless there is none.
LEMMA FirstIsOne ==
    ASSUME BInv, SInv, pc = "done", Ordered(Seq(Names)), NEW S \in SUBSET nodes
    PROVE  /\ S = {} => FirstOf(S) = {}
           /\ S # {} => \E m \in S : FirstOf(S) = {m}
  <1>1. S = {} => FirstOf(S) = {}
    BY DEF FirstOf
  <1>2. ASSUME S # {} PROVE \E m \in S : FirstOf(S) = {m}
    <2>1. IsFiniteSet(S)
      BY NodesFinite, FS_Subset
    <2>2. Linear(S, NodeOrder)
      BY NodesInOrder
    <2>3. PICK m \in S : {n \in S : \A o \in S \ {n} : <<n, o>> \in NodeOrder} = {m}
      BY <1>2, <2>1, <2>2, Least
    <2>4. FirstOf(S) = {n \in S : \A o \in S \ {n} : <<n, o>> \in NodeOrder}
      BY DEF FirstOf, NodeOrder
    <2> QED
      BY <2>3, <2>4
  <1> QED
    BY <1>1, <1>2

-----------------------------------------------------------------------------
\* The ends of the edges of the hierarchy.
LEMMA HierarchyEdges ==
    ASSUME BInv, pc = "done"
    PROVE  /\ \A e \in edges : e.rel = "inherits" =>
                \E c \in OwnClasses : \E b \in c.inherits_from \cap ClassNames :
                  e.source = <<c.name>> /\ e.target = <<b>>
           /\ \A c \in OwnClasses : \A b \in c.inherits_from \cap ClassNames :
                Edge(<<c.name>>, <<b>>, "inherits") \in edges
           /\ \A e \in edges : e.rel = "overrides" =>
                \E c \in OwnClasses : \E m \in c.methods : \E b \in c.inherits_from :
                  /\ e.source = <<c.name, m.name>> /\ e.target = <<b, m.name>>
                  /\ <<b, m.name>> \in MethodIds
           /\ \A c \in OwnClasses : \A m \in c.methods : \A b \in c.inherits_from :
                <<b, m.name>> \in MethodIds => Edge(<<c.name, m.name>>, <<b, m.name>>, "overrides") \in edges
  <1>1. /\ Relation("inherits") =
            UNION {{Edge(<<c.name>>, <<b>>, "inherits") : b \in c.inherits_from \cap ClassNames} : c \in OwnClasses}
        /\ Relation("overrides") = {Edge(pair[1], pair[2], "overrides") : pair \in Overriding}
    BY HierarchyHolds DEF HierarchyIsTheSource, ClassId
  <1>2. Own({}) = MethodIds
    BY DEF Own, MethodIds, MethodId
  <1>3. ASSUME NEW e \in edges, e.rel = "inherits"
        PROVE  \E c \in OwnClasses : \E b \in c.inherits_from \cap ClassNames :
                 e.source = <<c.name>> /\ e.target = <<b>>
    <2>1. e \in Relation("inherits")
      BY <1>3 DEF Relation
    <2>2. PICK c \in OwnClasses : e \in {Edge(<<c.name>>, <<b>>, "inherits") : b \in c.inherits_from \cap ClassNames}
      BY <1>1, <2>1
    <2>3. PICK b \in c.inherits_from \cap ClassNames : e = Edge(<<c.name>>, <<b>>, "inherits")
      BY <2>2
    <2> QED
      BY <2>3, Tuples
  <1>4. ASSUME NEW c \in OwnClasses, NEW b \in c.inherits_from \cap ClassNames
        PROVE  Edge(<<c.name>>, <<b>>, "inherits") \in edges
    <2>1. Edge(<<c.name>>, <<b>>, "inherits") \in
             {Edge(<<c.name>>, <<x>>, "inherits") : x \in c.inherits_from \cap ClassNames}
      OBVIOUS
    <2>2. Edge(<<c.name>>, <<b>>, "inherits") \in Relation("inherits")
      BY <1>1, <2>1
    <2> QED
      BY <2>2 DEF Relation
  <1>5. ASSUME NEW e \in edges, e.rel = "overrides"
        PROVE  \E c \in OwnClasses : \E m \in c.methods : \E b \in c.inherits_from :
                  /\ e.source = <<c.name, m.name>> /\ e.target = <<b, m.name>>
                  /\ <<b, m.name>> \in MethodIds
    <2>1. e \in Relation("overrides")
      BY <1>5 DEF Relation
    <2>2. PICK pair \in Overriding : e = Edge(pair[1], pair[2], "overrides")
      BY <1>1, <2>1
    <2>3. /\ pair[1] \in MethodIds /\ pair[2] \in MethodIds /\ pair[1][2] = pair[2][2]
          /\ \E c \in OwnClasses : /\ c.name = pair[1][1] /\ pair[2][1] \in c.inherits_from
                                   /\ \E m \in c.methods : m.name = pair[1][2]
      BY <1>2 DEF Overriding
    <2>4. pair[1] = <<pair[1][1], pair[1][2]>> /\ pair[2] = <<pair[2][1], pair[2][2]>>
      BY <2>3, OwnNames
    <2>5. e.source = pair[1] /\ e.target = pair[2]
      BY <2>2, Tuples
    <2> QED
      BY <2>3, <2>4, <2>5
  <1>6. ASSUME NEW c \in OwnClasses, NEW m \in c.methods, NEW b \in c.inherits_from, <<b, m.name>> \in MethodIds
        PROVE  Edge(<<c.name, m.name>>, <<b, m.name>>, "overrides") \in edges
    <2>1. <<c.name, m.name>> \in MethodIds
      <3>1. <<c.name, m.name>> \in {<<c.name, l.name>> : l \in c.methods}
        OBVIOUS
      <3> QED
        BY <3>1 DEF MethodIds
    <2> DEFINE pair == <<<<c.name, m.name>>, <<b, m.name>>>>
    <2>2. pair \in Overriding
      BY <1>2, <1>6, <2>1 DEF Overriding
    <2>3. Edge(pair[1], pair[2], "overrides") \in Relation("overrides")
      BY <1>1, <2>2
    <2> QED
      BY <2>3 DEF Relation
  <1> QED
    BY <1>3, <1>4, <1>5, <1>6

\* An edge, by its ends and its relation.
LEMMA EdgeExists ==
    ASSUME NEW x, NEW y, NEW r, Edge(x, y, r) \in edges
    PROVE  \E e \in edges : e.source = x /\ e.target = y /\ e.rel = r
  <1> DEFINE e == Edge(x, y, r)
  <1>1. e \in edges /\ e.source = x /\ e.target = y /\ e.rel = r
    BY Tuples
  <1> HIDE DEF e
  <1> QED
    BY <1>1

\* Only functions and methods call, and their names are those of callables.
LEMMA CallableIds ==
    ASSUME NEW d \in Callables
    PROVE  \/ \E x \in FunctionNames : d.id = <<x>>
           \/ d.id \in MethodIds
  <1>1. CASE \E f \in OwnFunctions : d = [id |-> FunctionId(f.name), calls |-> f.calls]
    BY <1>1 DEF FunctionId, FunctionNames
  <1>2. CASE \E c \in OwnClasses : d \in {[id |-> MethodId(c.name, m.name), calls |-> m.calls] : m \in c.methods}
    <2>1. PICK c \in OwnClasses : d \in {[id |-> MethodId(c.name, m.name), calls |-> m.calls] : m \in c.methods}
      BY <1>2
    <2>2. d.id \in {<<c.name, m.name>> : m \in c.methods}
      BY <2>1 DEF MethodId
    <2> QED
      BY <2>2 DEF MethodIds
  <1> QED
    BY <1>1, <1>2 DEF Callables

-----------------------------------------------------------------------------
\* The context of a class.
LEMMA ClassHolds ==
    ASSUME BInv, SInv, pc = "done", ~Clash, Ordered(Seq(Names)), NEW n \in nodes, n.type = "Class"
    PROVE  ClassIsTheSource(n)
  <1>1. PICK x \in ClassNames : n.id = <<x>>
    BY IdOfType
  <1>2. Head(n.id) = x
    BY <1>1
  <1>3. PICK d \in OwnClasses : d.name = x
    BY DEF ClassNames
  <1>4. \A c : c \in Definitions(x) <=> c \in OwnClasses /\ c.name = x
    BY DEF Definitions
  <1>5. <<x>> \notin MethodIds
    <2>1. \A i \in ClassNames \X MemberNames : <<x>> # i
      OBVIOUS
    <2> QED
      BY <2>1, OwnNames
  <1> DEFINE methods == OfType(Targets(n.id, "contains"), "Method")
             file == FirstOf(OfType(Sources(n.id, "contains"), "File"))
  <1>6. Ids(methods) = UNION {{MethodId(x, m.name) : m \in c.methods} : c \in Definitions(x)}
    <2>1. ASSUME NEW t \in methods
          PROVE  \E c \in Definitions(x) : \E m \in c.methods : t.id = MethodId(x, m.name)
      <3>1. t \in nodes /\ t.type = "Method" /\ Edge(<<x>>, t.id, "contains") \in edges
        BY <1>1, NeighbourIds DEF OfType
      <3> DEFINE e == Edge(<<x>>, t.id, "contains")
      <3>2. e \in edges /\ e.source = <<x>> /\ e.target = t.id /\ e.rel = "contains"
        BY <3>1, Tuples
      <3> HIDE DEF e
      <3>3. \/ \E f \in ToSet(parsed) : e.source = f.file_path
            \/ \E c \in OwnClasses : \E m \in c.methods :
                 e.source = <<c.name>> /\ e.target = <<c.name, m.name>>
        BY <3>2, ContainsEdges
      <3>4. <<x>> \notin Paths
        BY TypeOfId
      <3>5. PICK c \in OwnClasses : \E m \in c.methods : e.source = <<c.name>> /\ e.target = <<c.name, m.name>>
        BY <3>2, <3>3, <3>4 DEF Paths
      <3>6. c.name = x
        BY <3>2, <3>5, Tuples
      <3> QED
        BY <1>4, <3>2, <3>5, <3>6 DEF MethodId
    <2>2. ASSUME NEW c \in Definitions(x), NEW m \in c.methods
          PROVE  MethodId(x, m.name) \in Ids(methods)
      <3>1. c \in OwnClasses /\ c.name = x
        BY <1>4
      <3>2. Edge(<<x>>, <<x, m.name>>, "contains") \in edges
        BY <3>1, ContainsEdgesBack
      <3>3. <<x, m.name>> \in Ids(Targets(n.id, "contains"))
        BY <1>1, <3>2, NeighbourIds, Tuples
      <3>4. PICK t \in Targets(n.id, "contains") : t.id = <<x, m.name>>
        BY <3>3 DEF Ids
      <3>5. <<x, m.name>> \in MethodIds
        <4>1. <<x, m.name>> \in {<<c.name, l.name>> : l \in c.methods}
          BY <3>1
        <4> QED
          BY <3>1, <4>1 DEF MethodIds
      <3>6. t.type = "Method"
        BY <3>4, <3>5, TypeOfId, NeighbourIds
      <3> QED
        BY <3>4, <3>6 DEF OfType, Ids, MethodId
    <2>3. ASSUME NEW i \in Ids(methods)
          PROVE  i \in UNION {{MethodId(x, m.name) : m \in c.methods} : c \in Definitions(x)}
      <3> HIDE DEF methods
      <3>1. PICK t \in methods : i = t.id
        BY DEF Ids
      <3>2. PICK c \in Definitions(x) : \E m \in c.methods : t.id = MethodId(x, m.name)
        BY <2>1
      <3>3. i \in {MethodId(x, m.name) : m \in c.methods}
        BY <3>1, <3>2
      <3> QED
        BY <3>3
    <2>4. ASSUME NEW i \in UNION {{MethodId(x, m.name) : m \in c.methods} : c \in Definitions(x)}
          PROVE  i \in Ids(methods)
      <3>1. PICK c \in Definitions(x) : i \in {MethodId(x, m.name) : m \in c.methods}
        OBVIOUS
      <3> QED
        BY <2>2, <3>1
    <2> QED
      BY <2>3, <2>4
  <1>7. \E f \in file : \E g \in ToSet(parsed) : g.file_path = f.id /\ g.classes \cap Definitions(x) # {}
    <2> DEFINE S == OfType(Sources(n.id, "contains"), "File")
    <2>1. S \subseteq nodes
      BY DEF OfType, Sources
    <2>2. S # {}
      <3>1. PICK g \in ToSet(parsed) : Edge(g.file_path, <<x>>, "contains") \in edges
        BY <1>3, ContainsEdgesBack
      <3>2. g.file_path \in Ids(Sources(n.id, "contains"))
        BY <1>1, <3>1, NeighbourIds, Tuples
      <3>3. PICK t \in Sources(n.id, "contains") : t.id = g.file_path
        BY <3>2 DEF Ids
      <3>4. t.type = "File"
        BY <3>3, TypeOfId, NeighbourIds DEF Paths
      <3> QED
        BY <3>3, <3>4 DEF OfType
    <2>3. ASSUME NEW t \in S
          PROVE  \E g \in ToSet(parsed) : g.file_path = t.id /\ g.classes \cap Definitions(x) # {}
      <3>1. t \in nodes /\ t.type = "File" /\ Edge(t.id, <<x>>, "contains") \in edges
        BY <1>1, NeighbourIds DEF OfType
      <3> DEFINE e == Edge(t.id, <<x>>, "contains")
      <3>2. e \in edges /\ e.source = t.id /\ e.target = <<x>> /\ e.rel = "contains"
        BY <3>1, Tuples
      <3> HIDE DEF e
      <3>3. \/ \E f \in ToSet(parsed) : \E c \in f.classes \cap OwnClasses :
                 e.source = f.file_path /\ e.target = <<c.name>>
            \/ \E g \in OwnFunctions : e.target = <<g.name>>
            \/ \E c \in OwnClasses : \E m \in c.methods : e.target = <<c.name, m.name>>
        BY <3>2, ContainsEdges
      <3>4. \A g \in OwnFunctions : e.target # <<g.name>>
        BY <3>2, Tuples, OwnNames, TypeOfId
      <3>5. \A c, m : e.target # <<c.name, m.name>>
        BY <3>2, Tuples
      <3>6. PICK f \in ToSet(parsed) : \E c \in f.classes \cap OwnClasses :
                 e.source = f.file_path /\ e.target = <<c.name>>
        BY <3>3, <3>4, <3>5
      <3>7. PICK c \in f.classes \cap OwnClasses : e.target = <<c.name>>
        BY <3>6
      <3>8. c.name = x
        BY <3>2, <3>7, Tuples
      <3> QED
        BY <1>4, <3>2, <3>6, <3>7, <3>8
    <2> HIDE DEF S
    <2>4. PICK m \in S : FirstOf(S) = {m}
      BY <2>1, <2>2, FirstIsOne
    <2> QED
      BY <2>3, <2>4 DEF S
  <1>8. Ids(Targets(n.id, "inherits")) = {ClassId(b) : b \in Bases(x)}
    <2>1. Ids(Targets(n.id, "inherits")) = {e.target : e \in {e \in edges : e.source = <<x>> /\ e.rel = "inherits"}}
      BY <1>1, NeighbourIds
    <2>2. ASSUME NEW e \in edges, e.source = <<x>>, e.rel = "inherits"
          PROVE  \E b \in Bases(x) : e.target = <<b>>
      <3>1. PICK c \in OwnClasses : \E b \in c.inherits_from \cap ClassNames :
              e.source = <<c.name>> /\ e.target = <<b>>
        BY <2>2, HierarchyEdges
      <3>2. c \in Definitions(x)
        BY <1>4, <2>2, <3>1, Tuples
      <3> QED
        BY <3>1, <3>2 DEF Bases
    <2>3. ASSUME NEW b \in Bases(x)
          PROVE  Edge(<<x>>, <<b>>, "inherits") \in edges
      <3>1. PICK c \in Definitions(x) : b \in c.inherits_from \cap ClassNames
        BY DEF Bases
      <3> QED
        BY <1>4, <3>1, HierarchyEdges
    <2> QED
      BY <2>1, <2>2, <2>3, Tuples DEF ClassId
  <1>9. Ids(Sources(n.id, "inherits")) = {ClassId(c.name) : c \in {c \in OwnClasses : x \in c.inherits_from}}
    <2>1. Ids(Sources(n.id, "inherits")) = {e.source : e \in {e \in edges : e.target = <<x>> /\ e.rel = "inherits"}}
      BY <1>1, NeighbourIds
    <2>2. ASSUME NEW e \in edges, e.target = <<x>>, e.rel = "inherits"
          PROVE  \E c \in OwnClasses : x \in c.inherits_from /\ e.source = <<c.name>>
      BY <2>2, HierarchyEdges, Tuples
    <2>3. ASSUME NEW c \in OwnClasses, x \in c.inherits_from
          PROVE  \E e \in edges : e.source = <<c.name>> /\ e.target = <<x>> /\ e.rel = "inherits"
      <3>1. Edge(<<c.name>>, <<x>>, "inherits") \in edges
        BY <2>3, HierarchyEdges
      <3> QED
        BY <3>1, EdgeExists
    <2>4. \A e \in edges : e.target = <<x>> /\ e.rel = "inherits" =>
            e.source \in {<<c.name>> : c \in {c \in OwnClasses : x \in c.inherits_from}}
      BY <2>2
    <2>5. \A c \in OwnClasses : x \in c.inherits_from =>
            <<c.name>> \in {e.source : e \in {e \in edges : e.target = <<x>> /\ e.rel = "inherits"}}
      BY <2>3
    <2> QED
      BY <2>1, <2>4, <2>5 DEF ClassId
  <1>10. Targets(n.id, "instantiates") = {}
    <2> SUFFICES ASSUME NEW t \in Targets(n.id, "instantiates") PROVE FALSE
      OBVIOUS
    <2> DEFINE e == Edge(<<x>>, t.id, "instantiates")
    <2>1. e \in edges /\ e.source = <<x>> /\ e.rel = "instantiates"
      BY <1>1, NeighbourIds, Tuples
    <2> HIDE DEF e
    <2>2. PICK c \in Callables : e.source = c.id
      BY <2>1, CallEdges
    <2> QED
      BY <1>5, <2>1, <2>2, CallableIds, TypeOfId, Tuples
  <1>11. Ids(Sources(n.id, "instantiates")) = Naming(x)
    <2>1. Ids(Sources(n.id, "instantiates")) =
            {e.source : e \in {e \in edges : e.target = <<x>> /\ e.rel = "instantiates"}}
      BY <1>1, NeighbourIds
    <2>2. ASSUME NEW e \in edges, e.target = <<x>>, e.rel = "instantiates"
          PROVE  \E c \in Callables : x \in c.calls /\ e.source = c.id
      BY <2>2, CallEdges, Tuples
    <2>3. ASSUME NEW c \in Callables, x \in c.calls
          PROVE  \E e \in edges : e.source = c.id /\ e.target = <<x>> /\ e.rel = "instantiates"
      <3>1. Edge(c.id, <<x>>, "instantiates") \in edges
        BY <2>3, CallEdgesBack
      <3> QED
        BY <3>1, EdgeExists
    <2> QED
      BY <2>1, <2>2, <2>3 DEF Naming
  <1>12. {e.source : e \in {e \in InEdges(n.id) : e.rel = "decorates"}} = UNION {c.decorators : c \in Definitions(x)}
    <2>1. ASSUME NEW e \in edges, e.target = <<x>>, e.rel = "decorates"
          PROVE  \E c \in Definitions(x) : e.source \in c.decorators
      <3>1. \/ \E c \in OwnClasses : e.source \in c.decorators /\ e.target = <<c.name>>
            \/ \E g \in OwnFunctions : e.target = <<g.name>>
            \/ \E c \in OwnClasses : \E m \in c.methods : e.target = <<c.name, m.name>>
        BY <2>1, DecoratesEdges
      <3>2. \A g \in OwnFunctions : e.target # <<g.name>>
        BY <2>1, Tuples, OwnNames, TypeOfId
      <3>3. \A c, m : e.target # <<c.name, m.name>>
        BY <2>1, Tuples
      <3> QED
        BY <1>4, <2>1, <3>1, <3>2, <3>3, Tuples
    <2>2. ASSUME NEW c \in Definitions(x), NEW ref \in c.decorators
          PROVE  Edge(ref, <<x>>, "decorates") \in edges
      BY <1>4, DecoratesEdges
    <2> QED
      BY <1>1, <2>1, <2>2, Tuples DEF InEdges
  <1> HIDE DEF methods, file
  <1>13. /\ ClassContext(n).methods = methods /\ ClassContext(n).file = file
         /\ ClassContext(n).parent_classes = Targets(n.id, "inherits")
         /\ ClassContext(n).child_classes = Sources(n.id, "inherits")
         /\ ClassContext(n).instantiates = Targets(n.id, "instantiates")
         /\ ClassContext(n).instantiated_by = Sources(n.id, "instantiates")
         /\ ClassContext(n).decorators = {e.source : e \in {e \in InEdges(n.id) : e.rel = "decorates"}}
    BY DEF ClassContext, methods, file
  <1> QED
    BY <1>2, <1>6, <1>7, <1>8, <1>9, <1>10, <1>11, <1>12, <1>13 DEF ClassIsTheSource

-----------------------------------------------------------------------------
\* The context of a function or a method.
LEMMA CallableHolds ==
    ASSUME BInv, SInv, pc = "done", ~Clash, Ordered(Seq(Names)),
           NEW n \in nodes, n.type \in {"Function", "Method"}
    PROVE  CallableIsTheSource(n)
  <1> DEFINE callees == (UNION {d.calls : d \in {d \in Callables : d.id = n.id}}) \cap FunctionNames
             parents == IF n.type # "Method" THEN {}
                        ELSE {b \in UNION {d.inherits_from : d \in Definers(n.id[1], n.id[2])} :
                                MethodId(b, n.id[2]) \in Own({})}
             children == {d \in OwnClasses : n.type = "Method" /\ n.id[1] \in d.inherits_from
                                             /\ \E m \in d.methods : m.name = n.id[2]}
             owner == IF n.type = "Method" THEN FirstOf(OfType(Sources(n.id, "contains"), "Class")) ELSE {}
  <1>1. Own({}) = MethodIds
    BY DEF Own, MethodIds, MethodId
  <1>2. n.type = "Function" => \E x \in FunctionNames : n.id = <<x>>
    BY IdOfType
  <1>3. ASSUME n.type = "Method"
        PROVE  /\ n.id \in MethodIds /\ n.id = <<n.id[1], n.id[2]>> /\ n.id[1] \in ClassNames
               /\ Last(n.id) = n.id[2]
    <2>1. n.id \in MethodIds
      BY <1>3, IdOfType
    <2>2. n.id = <<n.id[1], n.id[2]>> /\ n.id[1] \in ClassNames
      BY <2>1, OwnNames
    <2>3. \A x, y : Last(<<x, y>>) = y
      BY DEF Last
    <2> QED
      BY <2>1, <2>2, <2>3
  <1>4. Ids(Sources(n.id, "calls")) = IF n.type = "Function" THEN Naming(n.id[1]) ELSE {}
    <2>1. Ids(Sources(n.id, "calls")) = {e.source : e \in {e \in edges : e.target = n.id /\ e.rel = "calls"}}
      BY NeighbourIds
    <2>2. CASE n.type = "Function"
      <3>1. PICK x \in FunctionNames : n.id = <<x>>
        BY <1>2, <2>2
      <3>2. n.id[1] = x
        BY <3>1
      <3>3. x \notin ClassNames
        BY TypeOfId
      <3>4. ASSUME NEW e \in edges, e.target = n.id, e.rel = "calls"
            PROVE  \E d \in Callables : x \in d.calls /\ e.source = d.id
        BY <3>1, <3>4, CallEdges, Tuples
      <3>5. ASSUME NEW d \in Callables, x \in d.calls
            PROVE  \E e \in edges : e.source = d.id /\ e.target = n.id /\ e.rel = "calls"
        <4>1. Edge(d.id, n.id, "calls") \in edges
          BY <3>1, <3>3, <3>5, CallEdgesBack
        <4> QED
          BY <4>1, EdgeExists
      <3>6. Ids(Sources(n.id, "calls")) = Naming(x)
        BY <2>1, <3>4, <3>5 DEF Naming
      <3> QED
        BY <2>2, <3>2, <3>6
    <2>3. CASE n.type = "Method"
      <3>1. ASSUME NEW e \in edges, e.rel = "calls" PROVE e.target # n.id
        <4>1. \A x : n.id # <<x>>
          BY <1>3, <2>3, Tuples
        <4> QED
          BY <3>1, <4>1, CallEdges
      <3> QED
        BY <2>1, <2>3, <3>1
    <2> QED
      BY <2>2, <2>3
  <1>5. Ids(Targets(n.id, "calls")) = {FunctionId(f) : f \in callees}
    <2>1. ASSUME NEW t \in Targets(n.id, "calls")
          PROVE  \E f \in callees : t.id = <<f>>
      <3> DEFINE e == Edge(n.id, t.id, "calls")
      <3>1. t \in nodes /\ e \in edges /\ e.source = n.id /\ e.target = t.id /\ e.rel = "calls"
        BY NeighbourIds, Tuples
      <3> HIDE DEF e
      <3>2. PICK d \in Callables : \E name \in d.calls :
              /\ e.source = d.id /\ e.target = <<name>>
              /\ \/ name \in FunctionNames \ ClassNames
                 \/ name \in MemberNames \ (ClassNames \cup FunctionNames)
        BY <3>1, CallEdges
      <3>3. PICK name \in d.calls :
              /\ e.source = d.id /\ e.target = <<name>>
              /\ \/ name \in FunctionNames \ ClassNames
                 \/ name \in MemberNames \ (ClassNames \cup FunctionNames)
        BY <3>2
      <3>4. name \in FunctionNames
        BY <3>1, <3>3, TypeOfId
      <3> QED
        BY <3>1, <3>3, <3>4
    <2>2. ASSUME NEW f \in callees
          PROVE  \E t \in Targets(n.id, "calls") : t.id = <<f>>
      <3>1. PICK d \in Callables : d.id = n.id /\ f \in d.calls
        OBVIOUS
      <3>2. f \in FunctionNames \ ClassNames
        BY TypeOfId
      <3> DEFINE e == Edge(n.id, <<f>>, "calls")
      <3>3. e \in edges /\ e.source = n.id /\ e.target = <<f>> /\ e.rel = "calls"
        BY <3>1, <3>2, CallEdgesBack, Tuples
      <3> HIDE DEF e
      <3>4. <<f>> \in ConnectedIds(edges)
        BY <3>3 DEF ConnectedIds
      <3>5. <<f>> \in DefinedIds
        BY <3>2, Finished, DefinedFacts DEF FunctionId
      <3>6. PICK t \in nodes : t.id = <<f>>
        BY <3>4, <3>5, Finished DEF DefinedIds, Ids
      <3> QED
        BY <3>3, <3>6 DEF Targets, OutEdges
    <2> HIDE DEF callees
    <2> QED
      BY <2>1, <2>2 DEF Ids, FunctionId
  <1>6. Ids(owner) = IF n.type = "Method" THEN {ClassId(n.id[1])} ELSE {}
    <2>1. CASE n.type # "Method"
      BY <2>1 DEF Ids
    <2>2. CASE n.type = "Method"
      <3> DEFINE S == OfType(Sources(n.id, "contains"), "Class")
      <3>1. S \subseteq nodes
        BY DEF OfType, Sources
      <3>2. \A t \in S : t.id = <<n.id[1]>>
        <4> SUFFICES ASSUME NEW t \in S PROVE t.id = <<n.id[1]>>
          OBVIOUS
        <4> DEFINE e == Edge(t.id, n.id, "contains")
        <4>1. e \in edges /\ e.source = t.id /\ e.target = n.id /\ e.rel = "contains"
          BY NeighbourIds, Tuples DEF OfType
        <4> HIDE DEF e
        <4>2. PICK c \in OwnClasses : \E m \in c.methods :
                e.source = <<c.name>> /\ e.target = <<c.name, m.name>>
          BY <1>3, <2>2, <4>1, ContainsEdges, Tuples
        <4> QED
          BY <1>3, <2>2, <4>1, <4>2
      <3>3. S # {}
        <4>1. PICK c \in OwnClasses : n.id \in {<<c.name, m.name>> : m \in c.methods}
          BY <1>3, <2>2 DEF MethodIds
        <4>2. PICK m \in c.methods : n.id = <<c.name, m.name>>
          BY <4>1
        <4>3. <<c.name>> \in Ids(Sources(n.id, "contains"))
          BY <4>2, ContainsEdgesBack, NeighbourIds, Tuples
        <4>4. PICK t \in Sources(n.id, "contains") : t.id = <<c.name>>
          BY <4>3 DEF Ids
        <4>5. t.type = "Class"
          BY <4>4, TypeOfId, NeighbourIds, OwnNames
        <4> QED
          BY <4>4, <4>5 DEF OfType
      <3> HIDE DEF S
      <3>4. PICK t \in S : FirstOf(S) = {t}
        BY <3>1, <3>3, FirstIsOne
      <3> QED
        BY <2>2, <3>2, <3>4 DEF Ids, ClassId, S
    <2> QED
      BY <2>1, <2>2
  <1> DEFINE overridden == Targets(n.id, "overrides")
  <1>7. Ids(overridden) = {MethodId(b, n.id[2]) : b \in parents}
    <2>1. Ids(overridden) = {e.target : e \in {e \in edges : e.source = n.id /\ e.rel = "overrides"}}
      BY NeighbourIds
    <2>2. CASE n.type = "Function"
      <3>1. \A c, m : n.id # <<c, m>>
        BY <1>2, <2>2, Tuples
      <3>2. \A e \in edges : ~(e.source = n.id /\ e.rel = "overrides")
        <4> SUFFICES ASSUME NEW e \in edges, e.source = n.id, e.rel = "overrides" PROVE FALSE
          OBVIOUS
        <4>1. \E c \in OwnClasses : \E m \in c.methods : \E b \in c.inherits_from :
                e.source = <<c.name, m.name>> /\ e.target = <<b, m.name>>
          BY HierarchyEdges
        <4> QED
          BY <3>1, <4>1
      <3> QED
        BY <2>1, <2>2, <3>2
    <2>3. CASE n.type = "Method"
      <3>1. ASSUME NEW e \in edges, e.source = n.id, e.rel = "overrides"
            PROVE  \E b \in parents : e.target = <<b, n.id[2]>>
        <4>1. PICK c \in OwnClasses : \E m \in c.methods : \E b \in c.inherits_from :
                  /\ e.source = <<c.name, m.name>> /\ e.target = <<b, m.name>>
                  /\ <<b, m.name>> \in MethodIds
          BY <3>1, HierarchyEdges
        <4>2. PICK m \in c.methods : \E b \in c.inherits_from :
                  /\ e.source = <<c.name, m.name>> /\ e.target = <<b, m.name>>
                  /\ <<b, m.name>> \in MethodIds
          BY <4>1
        <4>3. n.id[1] = c.name /\ n.id[2] = m.name
          BY <3>1, <4>2
        <4>4. c \in Definers(n.id[1], n.id[2])
          BY <4>3 DEF Definers, Definitions
        <4> QED
          BY <1>1, <2>3, <4>2, <4>3, <4>4 DEF MethodId
      <3>2. ASSUME NEW b \in parents
            PROVE  \E e \in edges : e.source = n.id /\ e.target = <<b, n.id[2]>> /\ e.rel = "overrides"
        <4>1. PICK c \in Definers(n.id[1], n.id[2]) : b \in c.inherits_from
          BY <2>3
        <4>2. PICK m \in c.methods : m.name = n.id[2]
          BY DEF Definers
        <4>3. c \in OwnClasses /\ c.name = n.id[1]
          BY DEF Definers, Definitions
        <4>4. <<b, m.name>> \in MethodIds
          BY <1>1, <2>3, <4>2 DEF MethodId
        <4>5. Edge(<<c.name, m.name>>, <<b, m.name>>, "overrides") \in edges
          BY <4>1, <4>3, <4>4, HierarchyEdges
        <4>6. <<c.name, m.name>> = n.id
          BY <1>3, <2>3, <4>2, <4>3
        <4> QED
          BY <4>2, <4>5, <4>6, Tuples
      <3> HIDE DEF parents
      <3>3. \A e \in edges : e.source = n.id /\ e.rel = "overrides" =>
              e.target \in {<<b, n.id[2]>> : b \in parents}
        BY <3>1
      <3>4. \A b \in parents :
              <<b, n.id[2]>> \in {e.target : e \in {e \in edges : e.source = n.id /\ e.rel = "overrides"}}
        BY <3>2
      <3> QED
        BY <2>1, <3>3, <3>4 DEF MethodId
    <2> QED
      BY <2>2, <2>3
  <1>8. /\ Cardinality(FirstOf(overridden)) = IF parents = {} THEN 0 ELSE 1
        /\ Ids(FirstOf(overridden)) \subseteq {MethodId(b, n.id[2]) : b \in parents}
    <2>1. overridden \subseteq nodes
      BY DEF Targets
    <2> HIDE DEF overridden, parents
    <2>2. parents = {} <=> overridden = {}
      BY <1>7 DEF Ids
    <2>3. CASE overridden = {}
      <3>1. FirstOf(overridden) = {}
        BY <2>1, <2>3, FirstIsOne
      <3> QED
        BY <2>2, <2>3, <3>1, FS_EmptySet DEF Ids
    <2>4. CASE overridden # {}
      <3>1. PICK m \in overridden : FirstOf(overridden) = {m}
        BY <2>1, <2>4, FirstIsOne
      <3>2. Cardinality(FirstOf(overridden)) = 1
        BY <3>1, FS_Singleton
      <3>3. Ids(FirstOf(overridden)) \subseteq Ids(overridden)
        BY <3>1 DEF Ids
      <3> QED
        BY <1>7, <2>2, <2>4, <3>2, <3>3
    <2> QED
      BY <2>3, <2>4
  <1>9. Ids(Sources(n.id, "overrides")) = {MethodId(d.name, Last(n.id)) : d \in children}
    <2>1. Ids(Sources(n.id, "overrides")) = {e.source : e \in {e \in edges : e.target = n.id /\ e.rel = "overrides"}}
      BY NeighbourIds
    <2>2. CASE n.type = "Function"
      <3>1. \A c, m : n.id # <<c, m>>
        BY <1>2, <2>2, Tuples
      <3>2. \A e \in edges : ~(e.target = n.id /\ e.rel = "overrides")
        <4> SUFFICES ASSUME NEW e \in edges, e.target = n.id, e.rel = "overrides" PROVE FALSE
          OBVIOUS
        <4>1. \E c \in OwnClasses : \E m \in c.methods : \E b \in c.inherits_from :
                e.source = <<c.name, m.name>> /\ e.target = <<b, m.name>>
          BY HierarchyEdges
        <4> QED
          BY <3>1, <4>1
      <3> QED
        BY <2>1, <2>2, <3>2
    <2>3. CASE n.type = "Method"
      <3>1. ASSUME NEW e \in edges, e.target = n.id, e.rel = "overrides"
            PROVE  \E d \in children : e.source = <<d.name, n.id[2]>>
        <4>1. PICK c \in OwnClasses : \E m \in c.methods : \E b \in c.inherits_from :
                  e.source = <<c.name, m.name>> /\ e.target = <<b, m.name>>
          BY <3>1, HierarchyEdges
        <4>2. PICK m \in c.methods : \E b \in c.inherits_from :
                  e.source = <<c.name, m.name>> /\ e.target = <<b, m.name>>
          BY <4>1
        <4>3. n.id[1] \in c.inherits_from /\ n.id[2] = m.name
          BY <3>1, <4>2
        <4> QED
          BY <2>3, <4>2, <4>3
      <3>2. ASSUME NEW d \in children
            PROVE  \E e \in edges : e.source = <<d.name, n.id[2]>> /\ e.target = n.id /\ e.rel = "overrides"
        <4>1. d \in OwnClasses /\ n.id[1] \in d.inherits_from
          OBVIOUS
        <4>2. PICK m \in d.methods : m.name = n.id[2]
          OBVIOUS
        <4>3. <<n.id[1], m.name>> \in MethodIds /\ n.id = <<n.id[1], m.name>>
          BY <1>3, <2>3, <4>2
        <4>4. Edge(<<d.name, m.name>>, <<n.id[1], m.name>>, "overrides") \in edges
          BY <4>1, <4>3, HierarchyEdges
        <4> QED
          BY <4>2, <4>3, <4>4, Tuples
      <3> HIDE DEF children
      <3>3. \A e \in edges : e.target = n.id /\ e.rel = "overrides" =>
              e.source \in {<<d.name, n.id[2]>> : d \in children}
        BY <3>1
      <3>4. \A d \in children :
              <<d.name, n.id[2]>> \in {e.source : e \in {e \in edges : e.target = n.id /\ e.rel = "overrides"}}
        BY <3>2
      <3>5. Last(n.id) = n.id[2]
        BY <1>3, <2>3
      <3> QED
        BY <2>1, <3>3, <3>4, <3>5 DEF MethodId
    <2> QED
      BY <2>2, <2>3
  <1>10. /\ CallableContext(n).callers = Sources(n.id, "calls")
         /\ CallableContext(n).callees = Targets(n.id, "calls")
         /\ CallableContext(n).owning_class = owner
         /\ CallableContext(n).overrides = FirstOf(overridden)
         /\ CallableContext(n).overridden_by = Sources(n.id, "overrides")
    BY DEF CallableContext
  <1>11. CallableIsTheSource(n) <=>
           /\ Ids(CallableContext(n).callers) = IF n.type = "Function" THEN Naming(n.id[1]) ELSE {}
           /\ Ids(CallableContext(n).callees) = {FunctionId(f) : f \in callees}
           /\ Ids(CallableContext(n).owning_class) = IF n.type = "Method" THEN {ClassId(n.id[1])} ELSE {}
           /\ Cardinality(CallableContext(n).overrides) = IF parents = {} THEN 0 ELSE 1
           /\ Ids(CallableContext(n).overrides) \subseteq {MethodId(b, n.id[2]) : b \in parents}
           /\ Ids(CallableContext(n).overridden_by) = {MethodId(d.name, Last(n.id)) : d \in children}
    BY DEF CallableIsTheSource
  <1> HIDE DEF callees, parents, children, owner, overridden
  <1> QED
    BY <1>4, <1>5, <1>6, <1>8, <1>9, <1>10, <1>11

-----------------------------------------------------------------------------
\* Finitely many finite sets.
LEMMA UnionFinite ==
    ASSUME NEW S, IsFiniteSet(S), NEW f, \A x \in S : IsFiniteSet(f[x])
    PROVE  IsFiniteSet(UNION {f[x] : x \in S})
  <1>1. IsFiniteSet({f[x] : x \in S})
    BY ImageFinite
  <1>2. \A s \in {f[x] : x \in S} : IsFiniteSet(s)
    OBVIOUS
  <1> QED
    BY <1>1, <1>2, FS_UNION

\* The decorators of the declarations of a source file.
ReferencesOf(f) == UNION {{dec.ref : dec \in d.decorators} : d \in f.tree}

DecoratorsOf(S) == UNION {ReferencesOf(f) : f \in S}

LEMMA DecoratorsFinite ==
    ASSUME BInv
    PROVE  IsFiniteSet(DecoratorsOf(ToSet(files.sources)))
  <1>1. /\ files.sources \in Seq(SourceFiles) /\ Len(files.sources) \in Nat
        /\ \A f \in ToSet(files.sources) :
             IsFiniteSet(f.tree) /\ \A d \in f.tree : IsFiniteSet(d.decorators)
    BY GraphBuilderAssumption, FiniteAssumption DEF BInv, Bounds
  <1>2. IsFiniteSet(ToSet(files.sources))
    <2>1. IsFiniteSet(1 .. Len(files.sources))
      BY <1>1, FS_Interval
    <2>2. ToSet(files.sources) = {files.sources[i] : i \in 1 .. Len(files.sources)}
      BY <1>1 DEF ToSet
    <2> QED
      BY <2>1, <2>2, ImageFinite
  <1>3. ASSUME NEW f \in ToSet(files.sources) PROVE IsFiniteSet(ReferencesOf(f))
    <2>1. ASSUME NEW d \in f.tree PROVE IsFiniteSet({dec.ref : dec \in d.decorators})
      <3> DEFINE ref == [dec \in d.decorators |-> dec.ref]
      <3>1. {dec.ref : dec \in d.decorators} = {ref[dec] : dec \in d.decorators}
        OBVIOUS
      <3>2. IsFiniteSet(d.decorators)
        BY <1>1
      <3> HIDE DEF ref
      <3>3. IsFiniteSet({ref[dec] : dec \in d.decorators})
        BY <3>2, ImageFinite
      <3> QED
        BY <3>1, <3>3
    <2> DEFINE refs == [d \in f.tree |-> {dec.ref : dec \in d.decorators}]
    <2>2. ReferencesOf(f) = UNION {refs[d] : d \in f.tree}
      BY DEF ReferencesOf
    <2>3. \A d \in f.tree : IsFiniteSet(refs[d])
      BY <2>1
    <2>4. IsFiniteSet(f.tree)
      BY <1>1
    <2> HIDE DEF refs
    <2> QED
      BY <2>2, <2>3, <2>4, UnionFinite
  <1> DEFINE refs == [f \in ToSet(files.sources) |-> ReferencesOf(f)]
  <1>4. DecoratorsOf(ToSet(files.sources)) = UNION {refs[f] : f \in ToSet(files.sources)}
    BY DEF DecoratorsOf
  <1>5. \A f \in ToSet(files.sources) : IsFiniteSet(refs[f])
    BY <1>3
  <1> HIDE DEF refs
  <1> QED
    BY <1>2, <1>4, <1>5, UnionFinite

\* What decorates a symbol is a decorator of a source file.
LEMMA DecoratorsAreOfTheSources ==
    ASSUME BInv, SInv, NEW p \in ToSet(parsed)
    PROVE  LET refs == DecoratorsOf(ToSet(files.sources))
           IN  /\ \A c \in p.classes : c.decorators \subseteq refs /\ \A m \in c.methods : m.decorators \subseteq refs
               /\ \A g \in p.functions : g.decorators \subseteq refs
  <1> DEFINE refs == DecoratorsOf(ToSet(files.sources))
  <1>1. p \in ParsedOf(ToSet(files.sources))
    BY DEF SInv, ToSet
  <1>2. PICK f \in ToSet(files.sources) : p = CodeParserParseFile(f) \/ p = TSParseFile(f)
    BY <1>1 DEF ParsedOf
  <1>3. \A d \in f.tree : {dec.ref : dec \in d.decorators} \subseteq refs
    <2>1. ReferencesOf(f) \subseteq refs
      BY DEF DecoratorsOf
    <2>2. \A d \in f.tree : {dec.ref : dec \in d.decorators} \subseteq ReferencesOf(f)
      BY DEF ReferencesOf
    <2> QED
      BY <2>1, <2>2
  <1>4. /\ \A d : Inside(f.tree, d) \subseteq f.tree
        /\ \A kind : TopLevel(f.tree, kind) \subseteq f.tree
        /\ TSClasses(f.tree) \subseteq f.tree
    BY DEF Inside, TopLevel, TSClasses
  <1> HIDE DEF refs
  <1>5. CASE p = CodeParserParseFile(f)
    <2>1. /\ p.classes = {ExtractClass(f.tree, d) : d \in TopLevel(f.tree, "class")}
          /\ p.functions = {ExtractFunction(f.tree, d) : d \in TopLevel(f.tree, "def")}
      BY <1>5 DEF CodeParserParseFile
    <2>2. \A d \in f.tree : ExtractFunction(f.tree, d).decorators \subseteq refs
      BY <1>3 DEF ExtractFunction
    <2>3. \A d \in f.tree : /\ ExtractClass(f.tree, d).decorators = {dec.ref : dec \in d.decorators}
                            /\ ExtractClass(f.tree, d).methods =
                                 {ExtractFunction(f.tree, e) : e \in {e \in Inside(f.tree, d) : e.kind = "def"}}
      BY DEF ExtractClass
    <2>4. \A d \in f.tree : \A m \in ExtractClass(f.tree, d).methods : m.decorators \subseteq refs
      BY <1>4, <2>2, <2>3
    <2>5. \A d \in f.tree : ExtractClass(f.tree, d).decorators \subseteq refs
      BY <1>3, <2>3
    <2> QED
      BY <1>4, <2>1, <2>2, <2>4, <2>5 DEF refs
  <1>6. CASE p = TSParseFile(f)
    <2>1. /\ p.classes = {TSExtractClass(f.tree, d) : d \in TSClasses(f.tree)}
          /\ \A g \in p.functions : g.decorators = {}
      BY <1>6 DEF TSParseFile
    <2>2. \A d \in f.tree : /\ TSExtractClass(f.tree, d).decorators = {dec.ref : dec \in d.decorators}
                            /\ TSExtractClass(f.tree, d).methods = TSExtractMethods(f.tree, d)
      BY DEF TSExtractClass
    <2>3. ASSUME NEW d \in f.tree, NEW m \in TSExtractMethods(f.tree, d) PROVE m.decorators \subseteq refs
      <3>1. \E e \in Inside(f.tree, d) : m.decorators = {dec.ref : dec \in e.decorators}
        BY DEF TSExtractMethods
      <3> QED
        BY <1>3, <1>4, <3>1
    <2>4. \A d \in f.tree : TSExtractClass(f.tree, d).decorators \subseteq refs
      BY <1>3, <2>2
    <2> QED
      BY <1>4, <2>1, <2>2, <2>3, <2>4 DEF refs
  <1> QED
    BY <1>2, <1>5, <1>6

\* A finished graph has finitely many edges.
LEMMA EdgesFinite ==
    ASSUME BInv, SInv, pc = "done"
    PROVE  IsFiniteSet(edges)
  <1> DEFINE refs == DecoratorsOf(ToSet(files.sources))
             ends == NodeIds \cup refs
             edge == [t \in (ends \X ends) \X Rels |-> Edge(t[1][1], t[1][2], t[2])]
  <1>1. IsFiniteSet(ends)
    BY NodesFinite, DecoratorsFinite, FS_Union
  <1>2. IsFiniteSet(Rels)
    <2>1. Rels = {"imports"} \cup {"contains"} \cup {"inherits"} \cup {"overrides"} \cup {"decorates"}
                 \cup {"instantiates"} \cup {"calls"}
      BY DEF Rels
    <2> QED
      BY <2>1, FS_Singleton, FS_Union
  <1>3. IsFiniteSet((ends \X ends) \X Rels)
    <2> HIDE DEF ends
    <2>1. IsFiniteSet(ends \X ends)
      BY <1>1, FS_Product
    <2> QED
      BY <1>2, <2>1, FS_Product
  <1>4. DefinedIds \subseteq NodeIds
    <2> SUFFICES ASSUME NEW f \in ToSet(parsed), NEW n \in NodesOf(registry, f) PROVE n.id \in NodeIds
      BY DEF DefinedIds, Ids
    <2>1. /\ ClassNames \subseteq Names /\ FunctionNames \subseteq Names
          /\ MethodIds \subseteq Names \X Names
      BY OwnNames
    <2>2. \/ n.id \in Paths \/ n.id \in Imported \/ (\E x \in Names : n.id = <<x>>) \/ n.id \in MethodIds
      BY <2>1, IdOfEmitted DEF NodeType
    <2> QED
      BY <2>1, <2>2 DEF NodeIds
  <1>5. \A x : BareName(x) => x \in NodeIds
    BY OwnNames DEF BareName, NodeIds
  <1>6. ASSUME NEW e \in edges, e.rel = "decorates" PROVE e.source \in refs
    <2>1. PICK f \in ToSet(parsed) : e \in EmittedEdges(registry, f)
      BY Finished
    <2>2. /\ ~(e \in ImportEdges(f))
          /\ \A c : ~(e \in InheritsEdges(registry, c))
          /\ \A c, m : ~(e \in OverridesEdges(registry, c, m))
          /\ \A calls, id : ~(e \in ResolvedCalls(registry, calls, id))
          /\ \A calls, id : ~(e \in BareCalls(registry, calls, id))
      BY <1>6, Relations
    <2>3. \A x, y : e # Edge(x, y, "contains")
      BY <1>6, Tuples
    <2>4. RepoClasses(registry, f) \subseteq f.classes /\ RepoFunctions(registry, f) \subseteq f.functions
      BY DEF RepoClasses, RepoFunctions
    <2>5. \A d, id : e \in Decorates(d, id) => e.source \in d.decorators
      BY Tuples DEF Decorates
    <2>6. \/ \E c \in f.classes : \/ e \in Decorates(c, ClassId(c.name))
                                  \/ \E m \in c.methods : e \in Decorates(m, MethodId(c.name, m.name))
          \/ \E g \in f.functions : e \in Decorates(g, FunctionId(g.name))
      BY <2>1, <2>2, <2>3, <2>4, EdgeKinds
    <2>7. /\ \A c \in f.classes : c.decorators \subseteq refs /\ \A m \in c.methods : m.decorators \subseteq refs
          /\ \A g \in f.functions : g.decorators \subseteq refs
      BY DecoratorsAreOfTheSources
    <2> HIDE DEF refs
    <2>8. CASE \E c \in f.classes : \/ e \in Decorates(c, ClassId(c.name))
                                    \/ \E m \in c.methods : e \in Decorates(m, MethodId(c.name, m.name))
      <3>1. PICK c \in f.classes : \/ e \in Decorates(c, ClassId(c.name))
                                   \/ \E m \in c.methods : e \in Decorates(m, MethodId(c.name, m.name))
        BY <2>8
      <3> QED
        BY <2>5, <2>7, <3>1
    <2>9. CASE \E g \in f.functions : e \in Decorates(g, FunctionId(g.name))
      BY <2>5, <2>7, <2>9
    <2> QED
      BY <2>6, <2>8, <2>9
  <1>7. \A e \in edges : e.source \in ends /\ e.target \in ends
    BY <1>4, <1>5, <1>6, EdgeEnds
  <1>8. \A e \in edges : e = Edge(e.source, e.target, e.rel) /\ e.rel \in Rels
    BY EdgeForm
  <1> HIDE DEF ends, refs
  <1>9. edges \subseteq {edge[t] : t \in (ends \X ends) \X Rels}
    <2> SUFFICES ASSUME NEW e \in edges PROVE \E t \in (ends \X ends) \X Rels : e = edge[t]
      OBVIOUS
    <2> DEFINE t == <<<<e.source, e.target>>, e.rel>>
    <2>1. t \in (ends \X ends) \X Rels /\ t[1][1] = e.source /\ t[1][2] = e.target /\ t[2] = e.rel
      BY <1>7, <1>8
    <2> HIDE DEF t
    <2>2. edge[t] = Edge(t[1][1], t[1][2], t[2])
      BY <2>1
    <2> QED
      BY <1>8, <2>1, <2>2
  <1> HIDE DEF edge
  <1>10. IsFiniteSet({edge[t] : t \in (ends \X ends) \X Rels})
    BY <1>3, ImageFinite
  <1> QED
    BY <1>9, <1>10, FS_Subset

\* So a node has a degree, and as it was not pruned one above 0.
LEMMA Degrees ==
    ASSUME BInv, SInv, pc = "done", NEW n \in nodes
    PROVE  DegreeOf(Graph, n) \in Nat /\ DegreeOf(Graph, n) > 0
  <1> DEFINE out == {e \in edges : e.source = n.id}
             in == {e \in edges : e.target = n.id}
  <1>1. DegreeOf(Graph, n) = Cardinality(out) + Cardinality(in)
    BY DEF DegreeOf, Graph
  <1>2. IsFiniteSet(out) /\ IsFiniteSet(in)
    BY EdgesFinite, FS_Subset
  <1>3. out # {} \/ in # {}
    <2>1. n.id \in ConnectedIds(edges)
      BY Finished DEF Ids
    <2> QED
      BY <2>1 DEF ConnectedIds
  <1> HIDE DEF out, in
  <1>4. /\ Cardinality(out) \in Nat /\ Cardinality(in) \in Nat
        /\ Cardinality(out) # 0 \/ Cardinality(in) # 0
    BY <1>2, <1>3, FS_CardinalityType, FS_EmptySet
  <1> QED
    BY <1>1, <1>4

-----------------------------------------------------------------------------
\* What holds of the request: a resolver of the finished graph, and a question that may be asked.
Answered == step \in {"asked", "resolved", "seeded"}

AskInv ==
    /\ step \in {"none", "ready", "asked", "resolved", "seeded"}
    /\ step # "none" => pc = "done" /\ resolver = Indexed(Graph)
    /\ Answered => query \in Queries
    /\ step \in {"resolved", "seeded"} => ranked = RankCandidates(resolver, query) /\ top_k \in Nat
    /\ step = "resolved" => matches = TopK(ranked, top_k)

\* A request asks the resolver of the finished graph.
LEMMA AskInvariant == Spec => []AskInv
  <1>1. PipelineInit => AskInv
    BY DEF PipelineInit, AskInv, Answered
  <1>2. ASSUME BInv, AskInv, [Next]_vars PROVE AskInv'
    <2>1. CASE UNCHANGED vars
      <3>1. UNCHANGED <<pc, nodes, edges, resolver, query, ranked, top_k, matches, step>>
        BY <2>1 DEF vars, graphVars, askVars
      <3>2. Graph' = Graph
        BY <3>1 DEF Graph
      <3>3. RankCandidates(resolver, query)' = RankCandidates(resolver, query)
        BY <3>1
      <3>4. Indexed(Graph)' = Indexed(Graph)
        BY <3>2
      <3>5. Queries' = Queries
        BY DEF Queries
      <3> QED
        BY <1>2, <3>1, <3>3, <3>4, <3>5 DEF AskInv, Answered
    <2>2. CASE Build
      <3>1. pc # "done"
        BY <2>2 DEF Build, BuildNext, Parse, StartRegistration, Register, StartEmission, Emit, Prune
      <3>2. step = "none" /\ step' = "none"
        BY <1>2, <2>2, <3>1 DEF AskInv, Build, askVars
      <3> QED
        BY <3>2 DEF AskInv, Answered
    <2>3. CASE MakeResolver
      <3>1. pc' = "done" /\ step' = "ready" /\ Graph' = Graph
        BY <2>3 DEF MakeResolver, graphVars, Graph
      <3>2. resolver' = Indexed(Graph)'
        BY <2>3, <3>1 DEF MakeResolver
      <3> QED
        BY <3>1, <3>2 DEF AskInv, Answered
    <2>4. CASE Ask
      <3>1. pc' = pc /\ step' = "asked" /\ step = "ready" /\ Graph' = Graph /\ resolver' = resolver
            /\ query' \in Queries
        BY <2>4 DEF Ask, graphVars, Graph
      <3>2. Indexed(Graph)' = Indexed(Graph)
        BY <3>1
      <3>3. Queries' = Queries
        BY DEF Queries
      <3> QED
        BY <1>2, <3>1, <3>2, <3>3 DEF AskInv, Answered
    <2>5. CASE Resolve
      <3>1. pc' = pc /\ step' = "resolved" /\ step = "asked" /\ Graph' = Graph /\ resolver' = resolver
            /\ query' = query /\ ranked' = RankCandidates(resolver, query) /\ top_k' \in 1 .. MaxTopK
            /\ matches' = TopK(ranked', top_k')
        BY <2>5 DEF Resolve, graphVars, Graph
      <3>2. Indexed(Graph)' = Indexed(Graph)
        BY <3>1
      <3>3. Queries' = Queries
        BY DEF Queries
      <3>4. RankCandidates(resolver, query)' = RankCandidates(resolver, query)
        BY <3>1
      <3>5. TopK(ranked, top_k)' = TopK(ranked', top_k')
        OBVIOUS
      <3>6. top_k' \in Nat
        BY <3>1, PipelineAssumption
      <3> QED
        BY <1>2, <3>1, <3>2, <3>3, <3>4, <3>5, <3>6 DEF AskInv, Answered
    <2>6. CASE Augment
      <3>1. pc' = pc /\ step' = "seeded" /\ step = "resolved" /\ Graph' = Graph /\ resolver' = resolver
            /\ query' = query /\ ranked' = ranked /\ top_k' = top_k
        BY <2>6 DEF Augment, graphVars, Graph
      <3>2. Indexed(Graph)' = Indexed(Graph)
        BY <3>1
      <3>3. Queries' = Queries
        BY DEF Queries
      <3>4. RankCandidates(resolver, query)' = RankCandidates(resolver, query)
        BY <3>1
      <3> QED
        BY <1>2, <3>1, <3>2, <3>3, <3>4 DEF AskInv, Answered
    <2> QED
      BY <1>2, <2>1, <2>2, <2>3, <2>4, <2>5, <2>6 DEF Next
  <1> QED
    BY <1>1, <1>2, BuildInvariant, PTL DEF Spec

-----------------------------------------------------------------------------
\* A sequence has finitely many elements.
LEMMA SeqFinite ==
    ASSUME NEW S, NEW s \in Seq(S)
    PROVE  IsFiniteSet(ToSet(s))
  <1>1. IsFiniteSet(1 .. Len(s))
    BY FS_Interval
  <1>2. ToSet(s) = {s[i] : i \in 1 .. Len(s)}
    BY DEF ToSet
  <1> QED
    BY <1>1, <1>2, ImageFinite

\* A word has at most one synonym of the vocabulary.
LEMMA SynonymsFinite ==
    ASSUME NEW w
    PROVE  IsFiniteSet(Synonyms(w))
  <1> DEFINE few == {{}, {"module"}, {"load"}, {"parse"}, {"generate"}, {"structure"}, {"file"}}
  <1>1. QUERY_EXPANSION \in [Vocabulary -> few]
    <2>1. NoSynonyms \in [Vocabulary -> few]
      BY DEF NoSynonyms
    <2> QED
      BY <2>1 DEF QUERY_EXPANSION
  <1>2. Synonyms(w) \in few
    BY <1>1 DEF Synonyms
  <1>3. \A s \in few : s = {} \/ \E x : s = {x}
    OBVIOUS
  <1> HIDE DEF few
  <1> QED
    BY <1>2, <1>3, FS_EmptySet, FS_Singleton

\* A question has finitely many keywords.
LEMMA KeywordsFinite ==
    ASSUME NEW question \in Seq(Texts)
    PROVE  IsFiniteSet(Expanded(question))
  <1>1. ASSUME NEW raw \in Texts PROVE IsFiniteSet(KeywordsOf(raw))
    <2> DEFINE token == Lower[raw]
               snake == SnakeWords(token)
               stems == {Stem[w] : w \in snake}
               stem == IF token \in STOP_WORDS THEN {} ELSE {Stem[token]}
               camel == IF Len(Camel[raw]) > 1 THEN ToSet(Camel[raw]) ELSE {}
    <2>1. token \in Texts /\ Camel[raw] \in Seq(Texts) /\ Snake[token] \in Seq(Texts)
      BY TextsAssumption
    <2>2. IsFiniteSet(ToSet(Camel[raw])) /\ IsFiniteSet(snake)
      BY <2>1, SeqFinite DEF SnakeWords
    <2>3. IsFiniteSet(camel)
      BY <2>2, FS_EmptySet
    <2>4. IsFiniteSet(stem) /\ IsFiniteSet({token})
      BY FS_EmptySet, FS_Singleton
    <2>5. KeywordsOf(raw) = Unstopped(camel \cup {token} \cup stem \cup snake \cup stems)
      BY DEF KeywordsOf
    <2> HIDE DEF token, camel, stem, snake
    <2>6. IsFiniteSet(stems)
      BY <2>2, ImageFinite
    <2> HIDE DEF stems
    <2>7. IsFiniteSet(camel \cup {token})
      BY <2>3, <2>4, FS_Union
    <2>8. IsFiniteSet(camel \cup {token} \cup stem)
      BY <2>4, <2>7, FS_Union
    <2>9. IsFiniteSet(camel \cup {token} \cup stem \cup snake)
      BY <2>2, <2>8, FS_Union
    <2>10. IsFiniteSet(camel \cup {token} \cup stem \cup snake \cup stems)
      BY <2>6, <2>9, FS_Union
    <2>11. KeywordsOf(raw) \subseteq camel \cup {token} \cup stem \cup snake \cup stems
      BY <2>5 DEF Unstopped
    <2> QED
      BY <2>10, <2>11, FS_Subset
  <1>2. IsFiniteSet(Keywords(question))
    <2> DEFINE kws == [i \in DOMAIN question |-> KeywordsOf(question[i])]
    <2>1. IsFiniteSet(DOMAIN question)
      BY FS_Interval
    <2>2. Keywords(question) = UNION {kws[i] : i \in DOMAIN question}
      BY DEF Keywords
    <2>3. \A i \in DOMAIN question : IsFiniteSet(kws[i])
      BY <1>1
    <2> HIDE DEF kws
    <2> QED
      BY <2>1, <2>2, <2>3, UnionFinite
  <1> DEFINE K == Keywords(question)
             more == [w \in K |-> Synonyms(w) \cup Synonyms(Stem[w])]
  <1>3. Expanded(question) \subseteq K \cup UNION {more[w] : w \in K}
    BY DEF Expanded, Unstopped
  <1>4. \A w \in K : IsFiniteSet(more[w])
    BY SynonymsFinite, FS_Union
  <1> HIDE DEF K, more
  <1>5. IsFiniteSet(UNION {more[w] : w \in K})
    BY <1>2, <1>4, UnionFinite DEF K
  <1>6. IsFiniteSet(K \cup UNION {more[w] : w \in K})
    BY <1>2, <1>5, FS_Union DEF K
  <1> QED
    BY <1>3, <1>6, FS_Subset

-----------------------------------------------------------------------------
\* A score is an integer.
LEMMA FirstPassIsInt ==
    ASSUME NEW n, NEW q, IsFiniteSet(q.expanded)
    PROVE  FirstPass(n, q) \in Int
  <1> DEFINE S == HitsAmong(n, q.expanded)
             w == [kw \in S |-> KeywordPoints(n, kw)]
             P(iter) == iter = [s \in SUBSET S |-> IF s = {} THEN 0
                                  ELSE LET x == CHOOSE x \in s : TRUE IN KeywordPoints(n, x) + iter[s \ {x}]]
             it == CHOOSE iter : P(iter)
  <1>1. IsFiniteSet(S)
    BY FS_Subset DEF HitsAmong
  <1>2. \A kw : KeywordPoints(n, kw) \in Int
    BY DEF KeywordPoints, Points, W_EXACT_LABEL, W_PARTIAL_LABEL, W_PARTIAL_ID, W_SNAKE
  <1>3. w \in [S -> Int]
    BY <1>2
  <1>4. FirstPass(n, q) = it[S]
    BY DEF FirstPass, MapThenSumSet, MapThenFoldSet
  <1>5. \A s \in SUBSET S : s # {} => w[CHOOSE x \in s : TRUE] = KeywordPoints(n, CHOOSE x \in s : TRUE)
    OBVIOUS
  <1> HIDE DEF S, w
  <1>6. \A iter : P(iter) <=> Sums(iter, S, w)
    <2> SUFFICES ASSUME NEW iter PROVE P(iter) <=> Sums(iter, S, w)
      OBVIOUS
    <2> DEFINE f == [s \in SUBSET S |-> IF s = {} THEN 0
                       ELSE LET x == CHOOSE x \in s : TRUE IN KeywordPoints(n, x) + iter[s \ {x}]]
               g == [s \in SUBSET S |-> IF s = {} THEN 0
                       ELSE LET x == CHOOSE x \in s : TRUE IN w[x] + iter[s \ {x}]]
    <2>1. \A s \in SUBSET S : f[s] = g[s]
      BY <1>5
    <2>2. f = g
      BY <2>1
    <2>3. Sums(iter, S, w) <=> iter = g
      BY DEF Sums
    <2> QED
      BY <2>2, <2>3
  <1>7. \E iter : P(iter)
    <2>1. \E iter : Sums(iter, S, w)
      BY <1>1, <1>3, SumExists
    <2> HIDE DEF P
    <2> QED
      BY <1>6, <2>1
  <1>8. P(it)
    <2> HIDE DEF P
    <2> QED
      BY <1>7
  <1>9. Sums(it, S, w)
    BY <1>6, <1>8
  <1> HIDE DEF it
  <1> QED
    BY <1>1, <1>3, <1>4, <1>9, SumIsInt

-----------------------------------------------------------------------------
\* What is known of a question is finite.
LEMMA QueryFacts ==
    ASSUME NEW q \in Queries
    PROVE  /\ IsFiniteSet(q.expanded) /\ IsFiniteSet(q.phrases)
           /\ \E question \in Questions : \E first \in PrimaryChoices(question) : q = Query(question, first)
  <1>1. PICK question \in Questions : q \in {Query(question, first) : first \in PrimaryChoices(question)}
    BY DEF Queries
  <1>2. PICK first \in PrimaryChoices(question) : q = Query(question, first)
    BY <1>1
  <1>3. q.expanded = Expanded(question) /\ q.phrases = Phrases(question)
    BY <1>2 DEF Query
  <1>4. IsFiniteSet(Expanded(question))
    BY PipelineAssumption, KeywordsFinite
  <1>5. IsFiniteSet(PHRASE_TABLE)
    <2>1. \E x, y, z : PHRASE_TABLE = {x} \cup {y} \cup {z}
      <3> DEFINE a == Phrase(<<"call", "graph">>, {"graph_traversal", "analysis"}, {"call_graph", "callgraph"})
                 b == Phrase(<<"graph", "generated">>, {"generation", "graph_traversal"},
                             {"build_graph", "generate_graph"})
                 c == Phrase(<<"graph", "built">>, {"generation", "graph_traversal"},
                             {"build_graph", "graph_build", "graph_builder"})
      <3>1. PHRASE_TABLE = {a, b, c}
        BY DEF PHRASE_TABLE
      <3> HIDE DEF a, b, c
      <3>2. PHRASE_TABLE = {a} \cup {b} \cup {c}
        BY <3>1
      <3> QED
        BY <3>2
    <2>2. PICK x, y, z : PHRASE_TABLE = {x} \cup {y} \cup {z}
      BY <2>1
    <2>3. IsFiniteSet({x}) /\ IsFiniteSet({y}) /\ IsFiniteSet({z})
      BY FS_Singleton
    <2>4. IsFiniteSet({x} \cup {y})
      BY <2>3, FS_Union
    <2>5. IsFiniteSet({x} \cup {y} \cup {z})
      BY <2>3, <2>4, FS_Union
    <2> QED
      BY <2>2, <2>5
  <1>6. Phrases(question) \subseteq PHRASE_TABLE
    BY DEF Phrases
  <1> QED
    BY <1>2, <1>3, <1>4, <1>5, <1>6, FS_Subset

\* The weights, one by one.
LEMMA PointsType == \A c : \A w \in Int : Points(c, w) \in {0, w}
  BY DEF Points

LEMMA PhrasePointsType ==
    ASSUME NEW n, NEW q \in Queries
    PROVE  PhrasePoints(n, q) \in Nat
  <1> DEFINE C == {entry \in q.phrases : CarriesPhrase(n, entry)}
  <1>1. IsFiniteSet(C)
    BY QueryFacts, FS_Subset
  <1>2. Cardinality(C) \in Nat
    BY <1>1, FS_CardinalityType
  <1>3. PhrasePoints(n, q) = 700 * Cardinality(C)
    BY DEF PhrasePoints, W_PHRASE_MATCH
  <1> HIDE DEF C
  <1> QED
    BY <1>2, <1>3

LEMMA HotspotType ==
    ASSUME NEW r, NEW n, r.degree[n] \in Nat, r.degree[n] > 0
    PROVE  HotspotPoints(r, n) \in 100 .. 500
  BY DEF HotspotPoints, W_HOTSPOT_CAP

\* The parts of a score are integers.
LEMMA ScoreType ==
    ASSUME NEW r, NEW n, r.degree[n] \in Nat, r.degree[n] > 0, NEW q \in Queries
    PROVE  /\ FirstPass(n, q) \in Int /\ PhrasePoints(n, q) \in Int /\ HotspotPoints(r, n) \in Int
           /\ TypePoints(n, q) \in Int /\ DtoPoints(r, n, q) \in Int /\ CoveragePoints(n, q) \in Int
           /\ Score(r, n, q) \in Int
  <1>1. FirstPass(n, q) \in Int
    BY QueryFacts, FirstPassIsInt
  <1>2. PhrasePoints(n, q) \in Int
    BY PhrasePointsType
  <1>3. HotspotPoints(r, n) \in Int
    BY HotspotType
  <1>4. \A c : \A w \in Int : Points(c, w) \in Int
    BY PointsType
  <1>5. TypePoints(n, q) \in Int
    BY <1>4 DEF TypePoints, W_NODE_TYPE_BASE, W_INTENT_TYPE, W_CALLABLE_BOOST
  <1>6. DtoPoints(r, n, q) \in Int
    BY <1>4 DEF DtoPoints, W_DTO_SOFTENED, W_DTO_PENALTY
  <1>7. CoveragePoints(n, q) \in Int
    BY <1>4 DEF CoveragePoints, W_MULTI_KW_BONUS, W_SUBJECT_PRIORITY, W_LABEL_COVERAGE, W_GENERIC_PENALTY
  <1>8. /\ Points(VerbLabelled(n, q), W_VERB_LABEL_BOOST) \in Int
        /\ Points(EntityMentioned(n, q), W_ENTITY_MENTION) \in Int
    BY <1>4 DEF W_VERB_LABEL_BOOST, W_ENTITY_MENTION
  <1>9. Score(r, n, q) \in Int
    BY <1>1, <1>2, <1>3, <1>5, <1>6, <1>7, <1>8 DEF Score
  <1> QED
    BY <1>1, <1>2, <1>3, <1>5, <1>6, <1>7, <1>9

-----------------------------------------------------------------------------
\* A sorted set of nodes is the set, each once, in the order of its relation.
Enumerates(s, S) ==
    /\ s \in Seq(S) /\ Len(s) = Cardinality(S)
    /\ \A n \in S : \E i \in 1 .. Len(s) : s[i] = n
    /\ \A i, j \in 1 .. Len(s) : s[i] = s[j] => i = j

Better(S, r, q) ==
    {pair \in S \X S : \/ Score(r, pair[1], q) > Score(r, pair[2], q)
                       \/ /\ Score(r, pair[1], q) = Score(r, pair[2], q)
                          /\ IdBefore(pair[1].id, pair[2].id)}

\* The ranking, as a set sorted by a relation.
LEMMA RankingIsSorted ==
    ASSUME NEW r, NEW q
    PROVE  RankCandidates(r, q) = SortedBy(Candidates(r, q), Better(Candidates(r, q), r, q))
  <1> DEFINE S == Candidates(r, q)
             R == Better(S, r, q)
             score == [n \in S |-> Score(r, n, q)]
             place == [n \in S |-> Cardinality({o \in S : score[o] > score[n] \/ (score[o] = score[n] /\ IdBefore(o.id, n.id))}) + 1]
             place2 == [n \in S |-> Cardinality({o \in S : <<o, n>> \in R}) + 1]
  <1>1. ASSUME NEW n \in S
        PROVE  {o \in S : score[o] > score[n] \/ (score[o] = score[n] /\ IdBefore(o.id, n.id))}
               = {o \in S : <<o, n>> \in R}
    <2> SUFFICES ASSUME NEW o \in S
                 PROVE  (score[o] > score[n] \/ (score[o] = score[n] /\ IdBefore(o.id, n.id))) <=> <<o, n>> \in R
      OBVIOUS
    <2>1. score[o] = Score(r, o, q) /\ score[n] = Score(r, n, q)
      OBVIOUS
    <2> HIDE DEF S, score
    <2>2. <<o, n>> \in R <=> \/ Score(r, o, q) > Score(r, n, q)
                             \/ Score(r, o, q) = Score(r, n, q) /\ IdBefore(o.id, n.id)
      BY DEF Better
    <2> HIDE DEF R
    <2> QED
      BY <2>1, <2>2
  <1>2. place = place2
    <2> HIDE DEF S, R, score
    <2> QED
      BY <1>1
  <1>3. RankCandidates(r, q) = [i \in 1 .. Cardinality(S) |-> CHOOSE n \in S : place[n] = i]
    BY DEF RankCandidates, Sorted
  <1>4. SortedBy(S, R) = [i \in 1 .. Cardinality(S) |-> CHOOSE n \in S : place2[n] = i]
    BY DEF SortedBy
  <1> HIDE DEF S, R, place, place2
  <1> QED
    BY <1>2, <1>3, <1>4 DEF S, R

\* The candidates of a resolver are ranked by score and id.
LEMMA RankingFacts ==
    ASSUME BInv, SInv, AskInv, Ordered(Seq(Names)), Answered
    PROVE  LET found == Candidates(resolver, query)
               s     == RankCandidates(resolver, query)
           IN  /\ found \subseteq nodes /\ IsFiniteSet(found)
               /\ Enumerates(s, found)
               /\ \A i, j \in 1 .. Len(s) : Score(resolver, s[i], query) > Score(resolver, s[j], query) => i < j
               /\ \A n \in nodes : /\ resolver.degree[n] \in Nat /\ resolver.degree[n] > 0
  <1> DEFINE S == Candidates(resolver, query)
             R == Better(S, resolver, query)
             s == RankCandidates(resolver, query)
  <1>1. pc = "done" /\ resolver = Indexed(Graph) /\ query \in Queries
    BY DEF AskInv, Answered
  <1>2. resolver.nodes = nodes /\ \A n \in nodes : resolver.degree[n] = DegreeOf(Graph, n)
    BY <1>1 DEF Indexed, Graph
  <1>3. S \subseteq nodes /\ IsFiniteSet(S)
    BY <1>1, <1>2, NodesFinite, FS_Subset DEF Candidates
  <1>4. \A n \in nodes : resolver.degree[n] \in Nat /\ resolver.degree[n] > 0
    BY <1>1, <1>2, Degrees
  <1>5. \A n \in S : Score(resolver, n, query) \in Int
    BY <1>1, <1>3, <1>4, ScoreType
  <1>6. Linear(S, R)
    <2> SUFFICES ASSUME NEW x \in S, NEW y \in S, NEW z \in S
                 PROVE  /\ <<x, x>> \notin R
                        /\ x = y \/ <<x, y>> \in R \/ <<y, x>> \in R
                        /\ <<x, y>> \in R /\ <<y, z>> \in R => <<x, z>> \in R
      BY DEF Linear
    <2> HIDE DEF S
    <2>1. /\ x.id \in Seq(Names) /\ y.id \in Seq(Names) /\ z.id \in Seq(Names)
          /\ x.id = y.id => x = y
      BY <1>3, TypeHolds DEF TypeOK
    <2>2. \A p, q, t \in Seq(Names) :
            /\ ~IdBefore(p, p)
            /\ p = q \/ IdBefore(p, q) \/ IdBefore(q, p)
            /\ IdBefore(p, q) /\ IdBefore(q, t) => IdBefore(p, t)
      BY DEF Ordered
    <2>3. \A a, b \in S : <<a, b>> \in R <=>
             \/ Score(resolver, a, query) > Score(resolver, b, query)
             \/ Score(resolver, a, query) = Score(resolver, b, query) /\ IdBefore(a.id, b.id)
      BY DEF Better
    <2> HIDE DEF R
    <2>4. /\ ~IdBefore(x.id, x.id)
          /\ x = y \/ IdBefore(x.id, y.id) \/ IdBefore(y.id, x.id)
          /\ IdBefore(x.id, y.id) /\ IdBefore(y.id, z.id) => IdBefore(x.id, z.id)
      BY <2>1, <2>2
    <2>5. Score(resolver, x, query) \in Int /\ Score(resolver, y, query) \in Int /\ Score(resolver, z, query) \in Int
      BY <1>5
    <2> QED
      BY <2>3, <2>4, <2>5
  <1>7. s = SortedBy(S, R)
    BY RankingIsSorted
  <1> HIDE DEF S, R, s
  <1>8. /\ s \in Seq(S) /\ Len(s) = Cardinality(S)
        /\ \A n \in S : \E i \in 1 .. Len(s) : s[i] = n
        /\ \A i, j \in 1 .. Len(s) : s[i] = s[j] => i = j
        /\ \A i, j \in 1 .. Len(s) : <<s[i], s[j]>> \in R => i < j
    BY <1>3, <1>6, <1>7, SortedFacts
  <1>9. ASSUME NEW i \in 1 .. Len(s), NEW j \in 1 .. Len(s),
               Score(resolver, s[i], query) > Score(resolver, s[j], query)
        PROVE  i < j
    <2>1. s[i] \in S /\ s[j] \in S
      BY <1>8
    <2>2. <<s[i], s[j]>> \in R
      BY <1>9, <2>1 DEF R, Better
    <2> QED
      BY <1>8, <2>2
  <1> QED
    BY <1>3, <1>4, <1>8, <1>9 DEF Enumerates, S, s

-----------------------------------------------------------------------------
\* The first k of a sequence, prefixes, and sequences without repetitions.
LEMMA TopKFacts ==
    ASSUME NEW S, NEW s \in Seq(S), NEW k \in Nat
    PROVE  LET t == TopK(s, k)
           IN  /\ t \in Seq(S) /\ Len(t) = IF Len(s) < k THEN Len(s) ELSE k
               /\ \A i \in 1 .. Len(t) : t[i] = s[i]
               /\ \A i \in 1 .. Len(t) : i \in 1 .. Len(s)
  <1> DEFINE m == IF Len(s) < k THEN Len(s) ELSE k
  <1>1. m \in Nat /\ m <= Len(s) /\ m = IF Len(s) < k THEN Len(s) ELSE k
    OBVIOUS
  <1>2. TopK(s, k) = SubSeq(s, 1, m)
    BY DEF TopK
  <1> HIDE DEF m
  <1>3. SubSeq(s, 1, m) = [i \in 1 .. m |-> s[i]]
    BY <1>1
  <1>4. [i \in 1 .. m |-> s[i]] \in Seq(S) /\ Len([i \in 1 .. m |-> s[i]]) = m
    BY <1>1
  <1> QED
    BY <1>1, <1>2, <1>3, <1>4

LEMMA PrefixIs ==
    ASSUME NEW S, NEW a \in Seq(S), NEW b \in Seq(S), Len(a) <= Len(b),
           \A i \in 1 .. Len(a) : a[i] = b[i]
    PROVE  IsPrefix(a, b)
  <1>1. Len(a) \in Nat
    OBVIOUS
  <1>2. SubSeq(a, 1, Len(a)) = [i \in 1 .. Len(a) |-> a[i]]
    BY <1>1
  <1>3. SubSeq(b, 1, Len(a)) = [i \in 1 .. Len(a) |-> b[i]]
    BY <1>1
  <1>4. [i \in 1 .. Len(a) |-> a[i]] = [i \in 1 .. Len(a) |-> b[i]]
    OBVIOUS
  <1> QED
    BY <1>2, <1>3, <1>4 DEF IsPrefix

LEMMA DistinctCardinality ==
    ASSUME NEW S, NEW s \in Seq(S), \A i, j \in 1 .. Len(s) : s[i] = s[j] => i = j
    PROVE  Cardinality(ToSet(s)) = Len(s)
  <1> DEFINE f == [i \in 1 .. Len(s) |-> s[i]]
  <1>1. IsFiniteSet(1 .. Len(s)) /\ Cardinality(1 .. Len(s)) = Len(s)
    <2>1. Len(s) \in Nat
      OBVIOUS
    <2>2. Cardinality(1 .. Len(s)) = IF 1 > Len(s) THEN 0 ELSE Len(s) - 1 + 1
      BY <2>1, FS_Interval
    <2> QED
      BY <2>1, <2>2, FS_Interval
  <1>2. ToSet(s) = {s[i] : i \in 1 .. Len(s)}
    BY DEF ToSet
  <1>3. f \in Surjection(1 .. Len(s), ToSet(s))
    BY <1>2 DEF Surjection
  <1>4. f \in Injection(1 .. Len(s), ToSet(s))
    BY <1>2 DEF Injection, IsInjective
  <1> HIDE DEF f
  <1> QED
    BY <1>1, <1>3, <1>4, FS_Surjection

-----------------------------------------------------------------------------
\* The order of the structural nodes, spelled out.
LEMMA StructuralOrderIs ==
    ASSUME NEW n, NEW o
    PROVE  StructuralBefore(n, o) <=>
             \/ TypePriority(n) < TypePriority(o)
             \/ TypePriority(n) = TypePriority(o) /\ PathRank(n) < PathRank(o)
             \/ /\ TypePriority(n) = TypePriority(o) /\ PathRank(n) = PathRank(o)
                /\ 0 - resolver.degree[n] < 0 - resolver.degree[o]
             \/ /\ TypePriority(n) = TypePriority(o) /\ PathRank(n) = PathRank(o)
                /\ 0 - resolver.degree[n] = 0 - resolver.degree[o] /\ IdBefore(n.id, o.id)
  <1> DEFINE a(x) == TypePriority(x)
             b(x) == PathRank(x)
             c(x) == 0 - resolver.degree[x]
             key(x) == <<a(x), b(x), c(x)>>
  <1>1. StructuralBefore(n, o) <=>
          \/ \E i \in 1 .. 3 : key(n)[i] < key(o)[i] /\ \A j \in 1 .. i - 1 : key(n)[j] = key(o)[j]
          \/ key(n) = key(o) /\ IdBefore(n.id, o.id)
    BY DEF StructuralBefore
  <1> HIDE DEF a, b, c
  <1>2. \A x : key(x)[1] = a(x) /\ key(x)[2] = b(x) /\ key(x)[3] = c(x)
    OBVIOUS
  <1>3. key(n) = key(o) <=> a(n) = a(o) /\ b(n) = b(o) /\ c(n) = c(o)
    OBVIOUS
  <1> HIDE DEF key
  <1>4. (\E i \in 1 .. 3 : key(n)[i] < key(o)[i] /\ \A j \in 1 .. i - 1 : key(n)[j] = key(o)[j])
          <=> \/ key(n)[1] < key(o)[1]
              \/ key(n)[2] < key(o)[2] /\ key(n)[1] = key(o)[1]
              \/ key(n)[3] < key(o)[3] /\ key(n)[1] = key(o)[1] /\ key(n)[2] = key(o)[2]
    <2>1. 1 .. 3 = {1, 2, 3} /\ 1 .. 1 - 1 = {} /\ 1 .. 2 - 1 = {1} /\ 1 .. 3 - 1 = {1, 2}
      OBVIOUS
    <2> DEFINE P(i) == key(n)[i] < key(o)[i] /\ \A j \in 1 .. i - 1 : key(n)[j] = key(o)[j]
    <2>2. P(1) <=> key(n)[1] < key(o)[1]
      BY <2>1
    <2>3. P(2) <=> key(n)[2] < key(o)[2] /\ key(n)[1] = key(o)[1]
      BY <2>1
    <2>4. P(3) <=> key(n)[3] < key(o)[3] /\ key(n)[1] = key(o)[1] /\ key(n)[2] = key(o)[2]
      BY <2>1
    <2>5. (\E i \in 1 .. 3 : P(i)) <=> P(1) \/ P(2) \/ P(3)
      <3> HIDE DEF P
      <3> QED
        BY <2>1
    <2> QED
      BY <2>2, <2>3, <2>4, <2>5
  <1>5. StructuralBefore(n, o) <=>
          \/ a(n) < a(o)
          \/ a(n) = a(o) /\ b(n) < b(o)
          \/ a(n) = a(o) /\ b(n) = b(o) /\ c(n) < c(o)
          \/ a(n) = a(o) /\ b(n) = b(o) /\ c(n) = c(o) /\ IdBefore(n.id, o.id)
    BY <1>1, <1>2, <1>3, <1>4
  <1> QED
    BY <1>5 DEF a, b, c

StructuralOrder(S) == {pair \in S \X S : StructuralBefore(pair[1], pair[2])}

\* The seeds, as a set sorted by a relation.
LEMMA StructureIsSorted ==
    ASSUME NEW S
    PROVE  Sorted(S, StructuralBefore) = SortedBy(S, StructuralOrder(S))
  <1> DEFINE R == StructuralOrder(S)
             place == [n \in S |-> Cardinality({o \in S : StructuralBefore(o, n)}) + 1]
             place2 == [n \in S |-> Cardinality({o \in S : <<o, n>> \in R}) + 1]
  <1>1. \A n \in S : {o \in S : StructuralBefore(o, n)} = {o \in S : <<o, n>> \in R}
    BY DEF StructuralOrder
  <1>2. place = place2
    BY <1>1
  <1>3. Sorted(S, StructuralBefore) = [i \in 1 .. Cardinality(S) |-> CHOOSE n \in S : place[n] = i]
    BY DEF Sorted
  <1>4. SortedBy(S, R) = [i \in 1 .. Cardinality(S) |-> CHOOSE n \in S : place2[n] = i]
    BY DEF SortedBy
  <1> HIDE DEF R, place, place2
  <1> QED
    BY <1>2, <1>3, <1>4 DEF R

\* A file or a class lies in a source file, which has a priority.
LEMMA PathRankType ==
    ASSUME BInv, SInv, pc = "done", NEW n \in nodes, n.type \in {"File", "Module", "Class"}
    PROVE  PathRank(n) \in Nat /\ TypePriority(n) \in Nat
  <1>1. TypePriority(n) \in Nat
    BY DEF TypePriority
  <1>2. PICK f \in ToSet(parsed) : n \in NodesOf(registry, f)
    BY Finished
  <1>3. f \in ParsedOf(ToSet(files.sources))
    BY DEF SInv, ToSet
  <1>4. PICK g \in ToSet(files.sources) : f = CodeParserParseFile(g) \/ f = TSParseFile(g)
    BY <1>3 DEF ParsedOf
  <1>5. f.file_path = g.path
    BY <1>4 DEF CodeParserParseFile, TSParseFile
  <1>6. PathPriority[f.file_path] \in Nat
    BY <1>5, PipelineAssumption DEF BInv, Bounds
  <1>7. n.type = "Module" \/ n.origin = f.file_path
    <2>1. \A i, t, o : Node(i, t, o).type = t /\ Node(i, t, o).origin = o
      BY DEF Node
    <2>2. n \in ModuleNodes(f) => n.type = "Module"
      BY <2>1 DEF ModuleNodes
    <2> QED
      BY <1>2, <2>1, <2>2, NodeKinds
  <1> QED
    BY <1>1, <1>6, <1>7 DEF PathRank

\* The seeds are the structural nodes that were not found, each once.
LEMMA StructureInOrder ==
    ASSUME BInv, SInv, AskInv, Ordered(Seq(Names)), Answered,
           NEW S \in SUBSET nodes, \A n \in S : n.type \in {"File", "Module", "Class"}
    PROVE  Enumerates(Sorted(S, StructuralBefore), S)
  <1> DEFINE R == StructuralOrder(S)
  <1>1. pc = "done"
    BY DEF AskInv, Answered
  <1>2. IsFiniteSet(S)
    BY <1>1, NodesFinite, FS_Subset
  <1>3. Linear(S, R)
    <2> SUFFICES ASSUME NEW x \in S, NEW y \in S, NEW z \in S
                 PROVE  /\ <<x, x>> \notin R
                        /\ x = y \/ <<x, y>> \in R \/ <<y, x>> \in R
                        /\ <<x, y>> \in R /\ <<y, z>> \in R => <<x, z>> \in R
      BY DEF Linear
    <2>1. /\ x.id \in Seq(Names) /\ y.id \in Seq(Names) /\ z.id \in Seq(Names)
          /\ x.id = y.id => x = y
      BY TypeHolds DEF TypeOK
    <2>2. \A p, q, t \in Seq(Names) :
            /\ ~IdBefore(p, p)
            /\ p = q \/ IdBefore(p, q) \/ IdBefore(q, p)
            /\ IdBefore(p, q) /\ IdBefore(q, t) => IdBefore(p, t)
      BY DEF Ordered
    <2>3. /\ ~IdBefore(x.id, x.id)
          /\ x = y \/ IdBefore(x.id, y.id) \/ IdBefore(y.id, x.id)
          /\ IdBefore(x.id, y.id) /\ IdBefore(y.id, z.id) => IdBefore(x.id, z.id)
      BY <2>1, <2>2
    <2>4. \A n \in S : TypePriority(n) \in Int /\ PathRank(n) \in Int
      BY <1>1, PathRankType
    <2>5. \A n \in S : 0 - resolver.degree[n] \in Int
      BY RankingFacts
    <2>6. \A n, o \in S : <<n, o>> \in R <=>
             \/ TypePriority(n) < TypePriority(o)
             \/ TypePriority(n) = TypePriority(o) /\ PathRank(n) < PathRank(o)
             \/ /\ TypePriority(n) = TypePriority(o) /\ PathRank(n) = PathRank(o)
                /\ 0 - resolver.degree[n] < 0 - resolver.degree[o]
             \/ /\ TypePriority(n) = TypePriority(o) /\ PathRank(n) = PathRank(o)
                /\ 0 - resolver.degree[n] = 0 - resolver.degree[o] /\ IdBefore(n.id, o.id)
      <3>1. \A n, o \in S : <<n, o>> \in R <=> StructuralBefore(n, o)
        BY DEF StructuralOrder
      <3> QED
        BY <3>1, StructuralOrderIs
    <2> HIDE DEF R
    <2>7. /\ TypePriority(x) \in Int /\ PathRank(x) \in Int /\ 0 - resolver.degree[x] \in Int
          /\ TypePriority(y) \in Int /\ PathRank(y) \in Int /\ 0 - resolver.degree[y] \in Int
          /\ TypePriority(z) \in Int /\ PathRank(z) \in Int /\ 0 - resolver.degree[z] \in Int
      BY <2>4, <2>5
    <2>8. <<x, x>> \notin R
      BY <2>3, <2>6, <2>7
    <2>9. x = y \/ <<x, y>> \in R \/ <<y, x>> \in R
      BY <2>3, <2>6, <2>7
    <2>10. <<x, y>> \in R /\ <<y, z>> \in R => <<x, z>> \in R
      BY <2>3, <2>6, <2>7
    <2> QED
      BY <2>8, <2>9, <2>10
  <1>4. Sorted(S, StructuralBefore) = SortedBy(S, R)
    BY StructureIsSorted
  <1> HIDE DEF R
  <1>5. LET s == SortedBy(S, R)
        IN  /\ s \in Seq(S) /\ Len(s) = Cardinality(S)
            /\ \A n \in S : \E i \in 1 .. Len(s) : s[i] = n
            /\ \A i, j \in 1 .. Len(s) : s[i] = s[j] => i = j
    BY <1>2, <1>3, SortedFacts
  <1> QED
    BY <1>4, <1>5 DEF Enumerates

-----------------------------------------------------------------------------
\* An answer to a question about the whole, when it is completed.
LEMMA SeededHolds ==
    ASSUME BInv, SInv, AskInv, Ordered(Seq(Names)), Augment
    PROVE  OverviewKeepsMatches'
  <1> DEFINE found == Candidates(resolver, query)
             room == {n \in nodes : Structural(n)} \ ToSet(matches)
             extra == Sorted(room, StructuralBefore)
             new == matches'
  <1>1. /\ step = "resolved" /\ ranked = RankCandidates(resolver, query) /\ top_k \in Nat
        /\ matches = TopK(ranked, top_k) /\ Answered /\ pc = "done" /\ resolver = Indexed(Graph)
    BY DEF Augment, AskInv, Answered
  <1>2. /\ nodes' = nodes /\ ranked' = ranked /\ top_k' = top_k /\ query' = query
        /\ new = IF NeedsStructure THEN TopK(matches \o extra, top_k) ELSE matches
    BY DEF Augment, graphVars, Seeds, MayBeSeeded
  <1>3. found \subseteq nodes /\ Enumerates(ranked, found)
    BY <1>1, RankingFacts
  <1> HIDE DEF found
  <1>4. /\ ranked \in Seq(nodes) /\ Len(ranked) \in Nat
        /\ \A i, j \in 1 .. Len(ranked) : ranked[i] = ranked[j] => i = j
    <2>1. ranked \in Seq(found)
      BY <1>3 DEF Enumerates
    <2>2. \A i \in 1 .. Len(ranked) : ranked[i] \in nodes
      BY <1>3, <2>1
    <2>3. ranked \in Seq(nodes)
      BY <1>3, <2>1
    <2> QED
      BY <1>3, <2>3 DEF Enumerates
  <1>5. /\ matches \in Seq(nodes) /\ Len(matches) = IF Len(ranked) < top_k THEN Len(ranked) ELSE top_k
        /\ \A i \in 1 .. Len(matches) : matches[i] = ranked[i] /\ i \in 1 .. Len(ranked)
    BY <1>1, <1>4, TopKFacts
  <1>6. \A i, j \in 1 .. Len(matches) : matches[i] = matches[j] => i = j
    BY <1>4, <1>5
  <1>7. ToSet(matches) = {matches[i] : i \in 1 .. Len(matches)}
    BY <1>5 DEF ToSet
  <1>8. Enumerates(extra, room)
    <2>1. room \in SUBSET nodes /\ \A n \in room : n.type \in {"File", "Module", "Class"}
      BY DEF Structural
    <2> HIDE DEF room
    <2> QED
      BY <1>1, <2>1, StructureInOrder
  <1>9. \A n \in nodes : n.type \in {"File", "Module", "Class"} => n \in room \/ n \in ToSet(matches)
    BY <1>1, RankingFacts DEF Structural
  <1>10. room \subseteq nodes /\ room \cap ToSet(matches) = {}
    OBVIOUS
  <1> HIDE DEF room, extra
  <1>11. extra \in Seq(nodes) /\ \A i \in 1 .. Len(extra) : extra[i] \in room
    <2>1. extra \in Seq(room)
      BY <1>8 DEF Enumerates
    <2> QED
      BY <1>10, <2>1
  <1> DEFINE all == matches \o extra
  <1>12. /\ all \in Seq(nodes) /\ Len(all) = Len(matches) + Len(extra)
         /\ \A i \in 1 .. Len(matches) : all[i] = matches[i]
         /\ \A i \in 1 .. Len(extra) : all[Len(matches) + i] = extra[i]
    BY <1>5, <1>11
  <1>13. \A i, j \in 1 .. Len(all) : all[i] = all[j] => i = j
    <2>1. Len(matches) \in Nat /\ Len(extra) \in Nat
      BY <1>5, <1>11
    <2>2. \A i \in 1 .. Len(all) : i \in 1 .. Len(matches) \/ i - Len(matches) \in 1 .. Len(extra)
      BY <1>12, <2>1
    <2>3. \A i \in 1 .. Len(matches) : all[i] = matches[i] /\ all[i] \in ToSet(matches)
      BY <1>7, <1>12
    <2>4. \A i \in 1 .. Len(all) : i - Len(matches) \in 1 .. Len(extra) =>
            all[i] = extra[i - Len(matches)] /\ all[i] \in room
      <3> SUFFICES ASSUME NEW i \in 1 .. Len(all), i - Len(matches) \in 1 .. Len(extra)
                   PROVE  all[i] = extra[i - Len(matches)] /\ all[i] \in room
        OBVIOUS
      <3>1. Len(matches) + (i - Len(matches)) = i
        BY <1>12, <2>1
      <3>2. all[Len(matches) + (i - Len(matches))] = extra[i - Len(matches)]
        BY <1>12
      <3> QED
        BY <1>11, <3>1, <3>2
    <2>5. \A i, j \in 1 .. Len(extra) : extra[i] = extra[j] => i = j
      BY <1>8 DEF Enumerates
    <2> SUFFICES ASSUME NEW i \in 1 .. Len(all), NEW j \in 1 .. Len(all), all[i] = all[j] PROVE i = j
      OBVIOUS
    <2> HIDE DEF all
    <2>6. CASE i \in 1 .. Len(matches) /\ j \in 1 .. Len(matches)
      BY <1>6, <2>3, <2>6
    <2>7. CASE i - Len(matches) \in 1 .. Len(extra) /\ j - Len(matches) \in 1 .. Len(extra)
      <3>1. i - Len(matches) = j - Len(matches)
        BY <2>4, <2>5, <2>7
      <3> QED
        BY <1>12, <2>1, <3>1
    <2>8. ~(i \in 1 .. Len(matches) /\ j - Len(matches) \in 1 .. Len(extra))
      BY <1>10, <2>3, <2>4
    <2>9. ~(j \in 1 .. Len(matches) /\ i - Len(matches) \in 1 .. Len(extra))
      BY <1>10, <2>3, <2>4
    <2> QED
      BY <2>2, <2>6, <2>7, <2>8, <2>9
  <1> HIDE DEF all
  <1>14. /\ new \in Seq(nodes) /\ Len(matches) <= Len(new) /\ Len(new) <= top_k
         /\ \A i \in 1 .. Len(matches) : new[i] = matches[i]
         /\ \A i, j \in 1 .. Len(new) : new[i] = new[j] => i = j
         /\ query.primary = "overview" => Len(new) = top_k \/ new = all
    <2>1. CASE ~NeedsStructure
      <3>1. new = matches
        BY <1>2, <2>1
      <3>2. query.primary = "overview" => ~(Len(matches) < top_k)
        BY <2>1 DEF NeedsStructure
      <3>3. Len(matches) \in Nat /\ Len(matches) <= top_k
        BY <1>1, <1>4, <1>5
      <3> HIDE DEF new
      <3> QED
        BY <1>1, <1>5, <1>6, <3>1, <3>2, <3>3
    <2>2. CASE NeedsStructure
      <3>1. new = TopK(all, top_k)
        BY <1>2, <2>2 DEF all
      <3> HIDE DEF new
      <3>2. /\ new \in Seq(nodes) /\ Len(new) = IF Len(all) < top_k THEN Len(all) ELSE top_k
            /\ \A i \in 1 .. Len(new) : new[i] = all[i] /\ i \in 1 .. Len(all)
        BY <1>1, <1>12, <3>1, TopKFacts
      <3>3. Len(matches) < top_k /\ Len(matches) \in Nat /\ Len(extra) \in Nat /\ Len(all) \in Nat
        BY <1>5, <1>11, <1>12, <2>2 DEF NeedsStructure
      <3>4. Len(matches) <= Len(new) /\ Len(new) <= top_k
        BY <1>1, <1>12, <3>2, <3>3
      <3>5. \A i \in 1 .. Len(matches) : i \in 1 .. Len(new)
        BY <3>3, <3>4
      <3>6. \A i \in 1 .. Len(matches) : new[i] = matches[i]
        BY <1>12, <3>2, <3>5
      <3>7. \A i, j \in 1 .. Len(new) : new[i] = new[j] => i = j
        BY <1>13, <3>2
      <3>8. Len(new) = top_k \/ new = all
        <4>1. CASE Len(all) < top_k
          <5>1. Len(new) = Len(all)
            BY <3>2, <4>1
          <5>2. \A i \in 1 .. Len(all) : new[i] = all[i]
            BY <3>2, <5>1
          <5> QED
            BY <1>12, <3>2, <5>1, <5>2
        <4> QED
          BY <3>2, <4>1
      <3> QED
        BY <3>2, <3>4, <3>6, <3>7, <3>8
    <2> QED
      BY <2>1, <2>2
  <1>15. IsPrefix(matches, new) /\ Cardinality(ToSet(new)) = Len(new) /\ ToSet(new) \subseteq nodes
    <2> HIDE DEF new
    <2>1. IsPrefix(matches, new)
      BY <1>5, <1>14, PrefixIs
    <2>2. Cardinality(ToSet(new)) = Len(new)
      BY <1>14, DistinctCardinality
    <2>3. ToSet(new) \subseteq nodes
      BY <1>14 DEF ToSet
    <2> QED
      BY <2>1, <2>2, <2>3
  <1>16. new = all => \A n \in nodes : n.type \in {"File", "Module", "Class"} => n \in ToSet(new)
    <2> SUFFICES ASSUME new = all, NEW n \in nodes, n.type \in {"File", "Module", "Class"}
                 PROVE  n \in ToSet(all)
      BY DEF ToSet
    <2>1. Len(matches) \in Nat /\ Len(extra) \in Nat
      BY <1>5, <1>11
    <2>2. ToSet(all) = {all[i] : i \in 1 .. Len(all)}
      BY <1>12 DEF ToSet
    <2>3. CASE n \in ToSet(matches)
      <3>1. PICK i \in 1 .. Len(matches) : n = matches[i]
        BY <1>7, <2>3
      <3>2. i \in 1 .. Len(all) /\ all[i] = n
        BY <1>12, <2>1, <3>1
      <3> QED
        BY <2>2, <3>2
    <2>4. CASE n \in room
      <3>1. PICK i \in 1 .. Len(extra) : extra[i] = n
        BY <1>8, <2>4 DEF Enumerates
      <3>2. Len(matches) + i \in 1 .. Len(all) /\ all[Len(matches) + i] = n
        BY <1>12, <2>1, <3>1
      <3> QED
        BY <2>2, <3>2
    <2> QED
      BY <1>9, <2>3, <2>4
  <1>17. OverviewKeepsMatches' <=>
           (step' = "seeded" =>
              /\ IsPrefix(TopK(ranked', top_k'), new)
              /\ Len(new) <= top_k'
              /\ Cardinality(ToSet(new)) = Len(new)
              /\ ToSet(new) \subseteq nodes'
              /\ query'.primary = "overview" =>
                   \/ Len(new) = top_k'
                   \/ \A n \in nodes' : n.type \in {"File", "Module", "Class"} => n \in ToSet(new))
    BY DEF OverviewKeepsMatches
  <1> HIDE DEF new
  <1> QED
    BY <1>1, <1>2, <1>14, <1>15, <1>16, <1>17

-----------------------------------------------------------------------------
\* What the weights give a callable that the question has no reason to push down.
LEMMA CallablePoints ==
    ASSUME NEW n, Implements(n), AsksHow, resolver.degree[n] \in Nat, resolver.degree[n] > 0
    PROVE  /\ TypePoints(n, query) \in Int /\ TypePoints(n, query) >= 800
           /\ Points(VerbLabelled(n, query), W_VERB_LABEL_BOOST) \in Int
           /\ Points(VerbLabelled(n, query), W_VERB_LABEL_BOOST) >= 0
           /\ Points(EntityMentioned(n, query), W_ENTITY_MENTION) \in Int
           /\ Points(EntityMentioned(n, query), W_ENTITY_MENTION) >= 0
           /\ HotspotPoints(resolver, n) \in 100 .. 500
           /\ DtoPoints(resolver, n, query) = 0
  <1>1. Callable(n) /\ n \notin resolver.dtos /\ Label(n) \notin Dunder /\ ~PrivatePenalised(n)
    BY DEF Implements
  <1>2. CodeNode(n) /\ ~FilePenalised(n, query)
    BY <1>1 DEF Callable, CodeNode, FilePenalised
  <1>3. query.categories \cap CALLABLE_SUPREMACY_INTENTS # {}
    BY DEF AsksHow
  <1>4. /\ Points(CodeNode(n), W_NODE_TYPE_BASE) = 300 /\ Points(FilePenalised(n, query), 1200) = 0
        /\ Points(Label(n) \in Dunder, 1500) = 0 /\ Points(PrivatePenalised(n), 400) = 0
        /\ Points(Callable(n) /\ query.categories \cap CALLABLE_SUPREMACY_INTENTS # {}, W_CALLABLE_BOOST) = 500
    BY <1>1, <1>2, <1>3 DEF Points, W_NODE_TYPE_BASE, W_CALLABLE_BOOST
  <1>5. Points(n.type \in PreferredTypes(query.primary), W_INTENT_TYPE) \in {0, 600}
    BY PointsType DEF W_INTENT_TYPE
  <1>6. TypePoints(n, query) \in Int /\ TypePoints(n, query) >= 800
    BY <1>4, <1>5 DEF TypePoints
  <1>7. /\ Points(VerbLabelled(n, query), W_VERB_LABEL_BOOST) \in {0, 400}
        /\ Points(EntityMentioned(n, query), W_ENTITY_MENTION) \in {0, 600}
    BY PointsType DEF W_VERB_LABEL_BOOST, W_ENTITY_MENTION
  <1>8. DtoPoints(resolver, n, query) = 0
    BY <1>1 DEF DtoPoints
  <1> QED
    BY <1>6, <1>7, <1>8, HotspotType

\* And what they leave to a container of data that the question does not name.
LEMMA DataPoints ==
    ASSUME NEW o, HoldsData(o), AsksHow, resolver.degree[o] \in Nat, resolver.degree[o] > 0
    PROVE  /\ TypePoints(o, query) \in Int /\ TypePoints(o, query) <= 900
           /\ Points(VerbLabelled(o, query), W_VERB_LABEL_BOOST) \in Int
           /\ Points(VerbLabelled(o, query), W_VERB_LABEL_BOOST) <= 400
           /\ Points(EntityMentioned(o, query), W_ENTITY_MENTION) = 0
           /\ HotspotPoints(resolver, o) \in 100 .. 500
           /\ DtoPoints(resolver, o, query) = 0 - 1500
  <1>1. o \in resolver.dtos /\ ~Callable(o) /\ ~EntityMentioned(o, query)
    BY DEF HoldsData
  <1>2. /\ Points(CodeNode(o), W_NODE_TYPE_BASE) \in {0, 300}
        /\ Points(FilePenalised(o, query), 1200) \in {0, 1200}
        /\ Points(Label(o) \in Dunder, 1500) \in {0, 1500} /\ Points(PrivatePenalised(o), 400) \in {0, 400}
        /\ Points(o.type \in PreferredTypes(query.primary), W_INTENT_TYPE) \in {0, 600}
    BY PointsType DEF W_NODE_TYPE_BASE, W_INTENT_TYPE
  <1>3. Points(Callable(o) /\ query.categories \cap CALLABLE_SUPREMACY_INTENTS # {}, W_CALLABLE_BOOST) = 0
    BY <1>1 DEF Points
  <1>4. TypePoints(o, query) \in Int /\ TypePoints(o, query) <= 900
    BY <1>2, <1>3 DEF TypePoints
  <1>5. /\ Points(VerbLabelled(o, query), W_VERB_LABEL_BOOST) \in {0, 400}
        /\ Points(EntityMentioned(o, query), W_ENTITY_MENTION) = 0
    BY <1>1, PointsType DEF W_VERB_LABEL_BOOST, Points
  <1>6. DtoPoints(resolver, o, query) = 0 - 1500
    <2>1. ~DefinitionQuery(query) /\ query.categories \cap IMPLEMENTATION_INTENTS # {}
      BY DEF AsksHow
    <2>2. DtoPoints(resolver, o, query) = W_DTO_PENALTY
      BY <1>1, <2>1 DEF DtoPoints, Points
    <2> QED
      BY <2>2 DEF W_DTO_PENALTY
  <1> QED
    BY <1>4, <1>5, <1>6, HotspotType

\* Of two nodes that the same keywords hit, only the words of the name differ.
LEMMA CoverageDiffers ==
    ASSUME NEW n, NEW o, NEW q, BaseHits(n, q) = BaseHits(o, q)
    PROVE  /\ CoveragePoints(n, q) \in Int /\ CoveragePoints(o, q) \in Int
           /\ CoveragePoints(n, q) >= CoveragePoints(o, q) - 300
  <1>1. SubjectHits(n, q) = SubjectHits(o, q)
    BY DEF SubjectHits
  <1> DEFINE many    == Points(Cardinality(BaseHits(o, q)) >= 2, W_MULTI_KW_BONUS)
             subject == Points(q.primary # "unknown" /\ SubjectHits(o, q) # {}, W_SUBJECT_PRIORITY)
             generic == Points(BaseHits(o, q) = {}, W_GENERIC_PENALTY)
             a       == Points(Covered(n, q), W_LABEL_COVERAGE)
             b       == Points(Covered(o, q), W_LABEL_COVERAGE)
  <1>2. many \in {0, 500} /\ subject \in {0, 400} /\ generic \in {0, 0 - 400} /\ a \in {0, 300} /\ b \in {0, 300}
    BY PointsType DEF W_MULTI_KW_BONUS, W_SUBJECT_PRIORITY, W_GENERIC_PENALTY, W_LABEL_COVERAGE
  <1>3. CoveragePoints(n, q) = many + subject + a + generic
    BY <1>1 DEF CoveragePoints
  <1>4. CoveragePoints(o, q) = many + subject + b + generic
    BY DEF CoveragePoints
  <1> HIDE DEF many, subject, generic, a, b
  <1> QED
    BY <1>2, <1>3, <1>4

\* The arithmetic of it.
LEMMA Weighed ==
    ASSUME NEW f1 \in Int, NEW t1 \in Int, NEW v1 \in Int, NEW p1 \in Int,
           NEW h1 \in Int, NEW d1 \in Int, NEW e1 \in Int, NEW c1 \in Int,
           NEW f2 \in Int, NEW t2 \in Int, NEW v2 \in Int, NEW p2 \in Int,
           NEW h2 \in Int, NEW d2 \in Int, NEW e2 \in Int, NEW c2 \in Int,
           f1 >= f2, p1 >= p2, t1 >= 800, t2 <= 900, v1 >= 0, v2 <= 400, h1 >= 100, h2 <= 500,
           d1 = 0, d2 = 0 - 1500, e1 >= 0, e2 = 0, c1 >= c2 - 300
    PROVE  f1 + t1 + v1 + p1 + h1 + d1 + e1 + c1 > f2 + t2 + v2 + p2 + h2 + d2 + e2 + c2
  OBVIOUS

\* The callable boost and the penalty of data outweigh, together, the edges, the
\* preferred types, the verbs and the words that a name covers.
LEMMA CallableScores ==
    ASSUME query \in Queries, AsksHow,
           NEW n, resolver.degree[n] \in Nat, resolver.degree[n] > 0, Implements(n),
           NEW o, resolver.degree[o] \in Nat, resolver.degree[o] > 0, HoldsData(o),
           BaseHits(n, query) = BaseHits(o, query),
           FirstPass(n, query) >= FirstPass(o, query),
           PhrasePoints(n, query) >= PhrasePoints(o, query)
    PROVE  Score(resolver, n, query) > Score(resolver, o, query)
  <1> DEFINE f(x) == FirstPass(x, query)
             t(x) == TypePoints(x, query)
             v(x) == Points(VerbLabelled(x, query), W_VERB_LABEL_BOOST)
             p(x) == PhrasePoints(x, query)
             h(x) == HotspotPoints(resolver, x)
             d(x) == DtoPoints(resolver, x, query)
             e(x) == Points(EntityMentioned(x, query), W_ENTITY_MENTION)
             c(x) == CoveragePoints(x, query)
  <1>1. f(n) \in Int /\ f(o) \in Int /\ f(n) >= f(o) /\ p(n) \in Int /\ p(o) \in Int /\ p(n) >= p(o)
    BY ScoreType
  <1>2. t(n) \in Int /\ t(n) >= 800 /\ v(n) \in Int /\ v(n) >= 0 /\ e(n) \in Int /\ e(n) >= 0
        /\ h(n) \in 100 .. 500 /\ d(n) = 0
    BY CallablePoints
  <1>3. t(o) \in Int /\ t(o) <= 900 /\ v(o) \in Int /\ v(o) <= 400 /\ e(o) = 0
        /\ h(o) \in 100 .. 500 /\ d(o) = 0 - 1500
    BY DataPoints
  <1>4. c(n) \in Int /\ c(o) \in Int /\ c(n) >= c(o) - 300
    BY CoverageDiffers
  <1>5. /\ Score(resolver, n, query) = f(n) + t(n) + v(n) + p(n) + h(n) + d(n) + e(n) + c(n)
        /\ Score(resolver, o, query) = f(o) + t(o) + v(o) + p(o) + h(o) + d(o) + e(o) + c(o)
    BY DEF Score
  <1> HIDE DEF f, t, v, p, h, d, e, c
  <1>6. /\ h(n) \in Int /\ h(n) >= 100 /\ d(n) \in Int /\ h(o) \in Int /\ h(o) <= 500
        /\ d(o) \in Int /\ e(o) \in Int
    BY <1>2, <1>3
  <1> QED
    BY <1>1, <1>2, <1>3, <1>4, <1>5, <1>6, Weighed

\* A higher score is an earlier place, and what is ranked has an edge.
LEMMA HigherIsEarlier ==
    ASSUME BInv, SInv, AskInv, Ordered(Seq(Names)), step = "resolved",
           NEW n \in ToSet(ranked), NEW o \in ToSet(ranked)
    PROVE  /\ query \in Queries
           /\ resolver.degree[n] \in Nat /\ resolver.degree[n] > 0
           /\ resolver.degree[o] \in Nat /\ resolver.degree[o] > 0
           /\ Score(resolver, n, query) > Score(resolver, o, query) => Outranks(n, o)
  <1> DEFINE found == Candidates(resolver, query)
  <1>1. Answered /\ query \in Queries /\ ranked = RankCandidates(resolver, query)
    BY DEF AskInv, Answered
  <1>2. /\ found \subseteq nodes /\ Enumerates(ranked, found)
        /\ \A i, j \in 1 .. Len(ranked) :
             Score(resolver, ranked[i], query) > Score(resolver, ranked[j], query) => i < j
        /\ \A m \in nodes : /\ resolver.degree[m] \in Nat /\ resolver.degree[m] > 0
    BY <1>1, RankingFacts
  <1> HIDE DEF found
  <1>3. ranked \in Seq(found) /\ \A i, j \in 1 .. Len(ranked) : ranked[i] = ranked[j] => i = j
    BY <1>2 DEF Enumerates
  <1>4. DOMAIN ranked = 1 .. Len(ranked) /\ ToSet(ranked) = {ranked[i] : i \in 1 .. Len(ranked)}
    BY <1>3 DEF ToSet
  <1>5. PICK i \in 1 .. Len(ranked) : n = ranked[i]
    BY <1>4
  <1>6. PICK j \in 1 .. Len(ranked) : o = ranked[j]
    BY <1>4
  <1>7. n \in nodes /\ o \in nodes
    BY <1>2, <1>3, <1>5, <1>6
  <1>8. Score(resolver, n, query) > Score(resolver, o, query) => i < j
    BY <1>2, <1>5, <1>6
  <1>9. Position(n) = i /\ Position(o) = j
    BY <1>3, <1>4, <1>5, <1>6 DEF Position
  <1> QED
    BY <1>1, <1>2, <1>7, <1>8, <1>9 DEF Outranks

LEMMA RankedHolds ==
    ASSUME BInv, SInv, AskInv, Ordered(Seq(Names))
    PROVE  ImplementationBeatsData
  <1> SUFFICES ASSUME step = "resolved", AsksHow,
                      NEW n \in ToSet(ranked), NEW o \in ToSet(ranked), Implements(n), HoldsData(o),
                      BaseHits(n, query) = BaseHits(o, query),
                      FirstPass(n, query) >= FirstPass(o, query),
                      PhrasePoints(n, query) >= PhrasePoints(o, query)
               PROVE  Outranks(n, o)
    BY DEF ImplementationBeatsData
  <1> QED
    BY HigherIsEarlier, CallableScores

-----------------------------------------------------------------------------
\* A node has every signal of another but its edges: the same type, and whatever else
\* adds to the score of the second, or does not take from it, holds of the first.
MatchesAsWell(n, o) ==
    /\ n.type = o.type
    /\ FirstPass(n, query) >= FirstPass(o, query)
    /\ PhrasePoints(n, query) >= PhrasePoints(o, query)
    /\ DtoPoints(resolver, n, query) >= DtoPoints(resolver, o, query)
    /\ Label(n) \in Dunder => Label(o) \in Dunder
    /\ PrivatePenalised(n) => PrivatePenalised(o)
    /\ VerbLabelled(o, query) => VerbLabelled(n, query)
    /\ EntityMentioned(o, query) => EntityMentioned(n, query)
    /\ SubjectHits(o, query) # {} => SubjectHits(n, query) # {}
    /\ BaseHits(o, query) # {} => BaseHits(n, query) # {}
    /\ Cardinality(BaseHits(o, query)) >= 2 => Cardinality(BaseHits(n, query)) >= 2
    /\ Covered(o, query) => Covered(n, query)

\* The question names the one, and not the other.
OnlyNamed(n, o) == EntityMentioned(n, query) /\ ~EntityMentioned(o, query)

\* The question has an intent; the one is found by what it is about, the other only by
\* the verb.
OnlySubject(n, o) ==
    query.primary # "unknown" /\ SubjectHits(n, query) # {} /\ SubjectHits(o, query) = {}

\* A class, function or method the question names comes before one it does not name
\* and that matches no better otherwise, however many edges that one has.
NamedBeatsConnected ==
    step = "resolved" =>
      \A n \in ToSet(ranked), o \in ToSet(ranked) :
        MatchesAsWell(n, o) /\ OnlyNamed(n, o) => Outranks(n, o)

\* One found by the subject of the question is not outscored, for its edges, by one
\* found by the verb: the priority of the subject is worth the edges above the first,
\* so a node with one edge may tie with one of five, and then the ids decide.
SubjectBeatsConnected ==
    step = "resolved" =>
      \A n \in ToSet(ranked), o \in ToSet(ranked) :
        MatchesAsWell(n, o) /\ OnlySubject(n, o) =>
          /\ Score(resolver, n, query) >= Score(resolver, o, query)
          /\ resolver.degree[n] >= 2 => Outranks(n, o)

LEMMA PointsGrow ==
    ASSUME NEW a, NEW b, NEW w \in Nat, b => a
    PROVE  /\ Points(a, w) \in Int /\ Points(b, w) \in Int /\ Points(a, w) >= Points(b, w)
  BY DEF Points

\* What a node of the same type keeps of the points of another.
LEMMA TypePointsGrow ==
    ASSUME NEW n, NEW o, MatchesAsWell(n, o)
    PROVE  TypePoints(n, query) >= TypePoints(o, query)
  <1>1. /\ CodeNode(n) <=> CodeNode(o)
        /\ Callable(n) <=> Callable(o)
        /\ FilePenalised(n, query) <=> FilePenalised(o, query)
    BY DEF MatchesAsWell, CodeNode, Callable, FilePenalised
  <1> DEFINE base(x)    == Points(CodeNode(x), W_NODE_TYPE_BASE)
             file(x)    == Points(FilePenalised(x, query), 1200)
             dunder(x)  == Points(Label(x) \in Dunder, 1500)
             private(x) == Points(PrivatePenalised(x), 400)
             type(x)    == Points(x.type \in PreferredTypes(query.primary), W_INTENT_TYPE)
             boost(x)   == Points(Callable(x) /\ query.categories \cap CALLABLE_SUPREMACY_INTENTS # {},
                                  W_CALLABLE_BOOST)
  <1>2. base(n) = base(o) /\ base(n) \in Int
    BY <1>1, PointsType DEF Points, W_NODE_TYPE_BASE
  <1>3. file(n) = file(o) /\ file(n) \in Int
    BY <1>1 DEF Points
  <1>4. dunder(n) \in Int /\ dunder(o) \in Int /\ dunder(n) <= dunder(o)
    BY DEF Points, MatchesAsWell
  <1>5. private(n) \in Int /\ private(o) \in Int /\ private(n) <= private(o)
    BY DEF Points, MatchesAsWell
  <1>6. type(n) = type(o) /\ type(n) \in Int
    <2>1. n.type = o.type
      BY DEF MatchesAsWell
    <2>2. type(n) = type(o)
      BY <2>1
    <2> QED
      BY <2>2 DEF Points, W_INTENT_TYPE
  <1>7. boost(n) = boost(o) /\ boost(n) \in Int
    BY <1>1 DEF Points, W_CALLABLE_BOOST
  <1>8. /\ TypePoints(n, query) = base(n) - file(n) - dunder(n) - private(n) + type(n) + boost(n)
        /\ TypePoints(o, query) = base(o) - file(o) - dunder(o) - private(o) + type(o) + boost(o)
    BY DEF TypePoints
  <1> HIDE DEF base, file, dunder, private, type, boost
  <1> QED
    BY <1>2, <1>3, <1>4, <1>5, <1>6, <1>7, <1>8

\* The words that are covered count as much, and the priority of the subject more.
LEMMA CoverageGrows ==
    ASSUME NEW n, NEW o, MatchesAsWell(n, o)
    PROVE  /\ CoveragePoints(n, query) \in Int /\ CoveragePoints(o, query) \in Int
           /\ CoveragePoints(n, query) >= CoveragePoints(o, query)
           /\ OnlySubject(n, o) => CoveragePoints(n, query) >= CoveragePoints(o, query) + 400
  <1> DEFINE many(x)    == Points(Cardinality(BaseHits(x, query)) >= 2, W_MULTI_KW_BONUS)
             subject(x) == Points(query.primary # "unknown" /\ SubjectHits(x, query) # {}, W_SUBJECT_PRIORITY)
             cover(x)   == Points(Covered(x, query), W_LABEL_COVERAGE)
             generic(x) == Points(BaseHits(x, query) = {}, W_GENERIC_PENALTY)
  <1>1. many(n) \in Int /\ many(o) \in Int /\ many(n) >= many(o)
    BY DEF MatchesAsWell, Points, W_MULTI_KW_BONUS
  <1>2. subject(n) \in Int /\ subject(o) \in Int /\ subject(n) >= subject(o)
    BY DEF MatchesAsWell, Points, W_SUBJECT_PRIORITY
  <1>3. OnlySubject(n, o) => subject(n) = 400 /\ subject(o) = 0
    BY DEF OnlySubject, Points, W_SUBJECT_PRIORITY
  <1>4. cover(n) \in Int /\ cover(o) \in Int /\ cover(n) >= cover(o)
    BY DEF MatchesAsWell, Points, W_LABEL_COVERAGE
  <1>5. generic(n) \in Int /\ generic(o) \in Int /\ generic(n) >= generic(o)
    BY DEF MatchesAsWell, Points, W_GENERIC_PENALTY
  <1>6. /\ CoveragePoints(n, query) = many(n) + subject(n) + cover(n) + generic(n)
        /\ CoveragePoints(o, query) = many(o) + subject(o) + cover(o) + generic(o)
    BY DEF CoveragePoints
  <1> HIDE DEF many, subject, cover, generic
  <1> QED
    BY <1>1, <1>2, <1>3, <1>4, <1>5, <1>6

\* The arithmetic of it.
LEMMA Compared ==
    ASSUME NEW f1 \in Int, NEW t1 \in Int, NEW v1 \in Int, NEW p1 \in Int,
           NEW h1 \in Int, NEW d1 \in Int, NEW e1 \in Int, NEW c1 \in Int,
           NEW f2 \in Int, NEW t2 \in Int, NEW v2 \in Int, NEW p2 \in Int,
           NEW h2 \in Int, NEW d2 \in Int, NEW e2 \in Int, NEW c2 \in Int,
           NEW k \in Int,
           f1 >= f2, p1 >= p2, t1 >= t2, v1 >= v2, d1 >= d2, h2 <= 500, h1 >= 100,
           e1 >= e2, c1 >= c2, (e1 - e2) + (c1 - c2) + h1 >= k
    PROVE  (f1 + t1 + v1 + p1 + h1 + d1 + e1 + c1) - (f2 + t2 + v2 + p2 + h2 + d2 + e2 + c2) >= k - 500
  OBVIOUS

\* By its name a node is ahead of all the edges of another; by its subject it is not
\* behind, and with a second edge ahead.
LEMMA Scores ==
    ASSUME query \in Queries,
           NEW n, resolver.degree[n] \in Nat, resolver.degree[n] > 0,
           NEW o, resolver.degree[o] \in Nat, resolver.degree[o] > 0,
           MatchesAsWell(n, o)
    PROVE  /\ OnlyNamed(n, o) => Score(resolver, n, query) > Score(resolver, o, query)
           /\ OnlySubject(n, o) =>
                /\ Score(resolver, n, query) >= Score(resolver, o, query)
                /\ resolver.degree[n] >= 2 => Score(resolver, n, query) > Score(resolver, o, query)
  <1> DEFINE f(x) == FirstPass(x, query)
             t(x) == TypePoints(x, query)
             v(x) == Points(VerbLabelled(x, query), W_VERB_LABEL_BOOST)
             p(x) == PhrasePoints(x, query)
             h(x) == HotspotPoints(resolver, x)
             d(x) == DtoPoints(resolver, x, query)
             e(x) == Points(EntityMentioned(x, query), W_ENTITY_MENTION)
             c(x) == CoveragePoints(x, query)
  <1>1. /\ f(n) \in Int /\ f(o) \in Int /\ f(n) >= f(o) /\ p(n) \in Int /\ p(o) \in Int /\ p(n) >= p(o)
        /\ d(n) \in Int /\ d(o) \in Int /\ d(n) >= d(o)
        /\ t(n) \in Int /\ t(o) \in Int
    BY ScoreType DEF MatchesAsWell
  <1>2. t(n) >= t(o)
    BY TypePointsGrow
  <1>3. v(n) \in Int /\ v(o) \in Int /\ v(n) >= v(o)
    BY DEF MatchesAsWell, Points, W_VERB_LABEL_BOOST
  <1>4. e(n) \in Int /\ e(o) \in Int /\ e(n) >= e(o) /\ (OnlyNamed(n, o) => e(n) - e(o) = 600)
    BY DEF MatchesAsWell, OnlyNamed, Points, W_ENTITY_MENTION
  <1>5. c(n) \in Int /\ c(o) \in Int /\ c(n) >= c(o) /\ (OnlySubject(n, o) => c(n) - c(o) >= 400)
    <2>1. c(n) \in Int /\ c(o) \in Int /\ c(n) >= c(o) /\ (OnlySubject(n, o) => c(n) >= c(o) + 400)
      BY CoverageGrows
    <2> HIDE DEF c
    <2> QED
      BY <2>1
  <1>6. /\ h(n) \in Int /\ h(o) \in Int /\ h(n) >= 100 /\ h(o) <= 500
        /\ resolver.degree[n] >= 2 => h(n) >= 200
    BY DEF HotspotPoints, W_HOTSPOT_CAP
  <1>7. /\ Score(resolver, n, query) = f(n) + t(n) + v(n) + p(n) + h(n) + d(n) + e(n) + c(n)
        /\ Score(resolver, o, query) = f(o) + t(o) + v(o) + p(o) + h(o) + d(o) + e(o) + c(o)
    BY DEF Score
  <1> HIDE DEF f, t, v, p, h, d, e, c
  <1> DEFINE ahead == (f(n) + t(n) + v(n) + p(n) + h(n) + d(n) + e(n) + c(n))
                      - (f(o) + t(o) + v(o) + p(o) + h(o) + d(o) + e(o) + c(o))
  <1>8. ASSUME NEW k \in Int, (e(n) - e(o)) + (c(n) - c(o)) + h(n) >= k PROVE ahead >= k - 500
    BY <1>1, <1>2, <1>3, <1>4, <1>5, <1>6, <1>8, Compared
  <1>9. ahead \in Int /\ Score(resolver, n, query) \in Int /\ Score(resolver, o, query) \in Int
        /\ ahead = Score(resolver, n, query) - Score(resolver, o, query)
    BY <1>1, <1>3, <1>4, <1>5, <1>6, <1>7
  <1> HIDE DEF ahead
  <1>10. ASSUME OnlyNamed(n, o) PROVE Score(resolver, n, query) > Score(resolver, o, query)
    <2>1. (e(n) - e(o)) + (c(n) - c(o)) + h(n) >= 700
      BY <1>4, <1>5, <1>6, <1>10
    <2>2. ahead >= 700 - 500
      BY <1>8, <2>1
    <2> QED
      BY <1>9, <2>2
  <1>11. ASSUME OnlySubject(n, o) PROVE Score(resolver, n, query) >= Score(resolver, o, query)
    <2>1. (e(n) - e(o)) + (c(n) - c(o)) + h(n) >= 500
      BY <1>4, <1>5, <1>6, <1>11
    <2>2. ahead >= 500 - 500
      BY <1>8, <2>1
    <2> QED
      BY <1>9, <2>2
  <1>12. ASSUME OnlySubject(n, o), resolver.degree[n] >= 2
         PROVE  Score(resolver, n, query) > Score(resolver, o, query)
    <2>1. (e(n) - e(o)) + (c(n) - c(o)) + h(n) >= 600
      BY <1>4, <1>5, <1>6, <1>12
    <2>2. ahead >= 600 - 500
      BY <1>8, <2>1
    <2> QED
      BY <1>9, <2>2
  <1> QED
    BY <1>10, <1>11, <1>12

-----------------------------------------------------------------------------
\* In every pass the graph is typed, and an id is the id of one node: of two things
\* with one id (GraphBuilder.add_node) the second is dropped, not mixed in.
THEOREM GraphTypeCorrect == Spec => []TypeOK
  BY BuildInvariant, TypeHolds, PTL

\* The inheritance and the overriding in the finished graph are those the source files
\* state, for any files in any order: what build_graph emits for a class before its
\* base was parsed is not lost, and no base from outside the repository has an edge.
THEOREM GraphHierarchy == Spec => []HierarchyIsTheSource
  BY BuildInvariant, HierarchyHolds, PTL

\* Every class, function and method of the finished graph is defined in the file its
\* node names, and every method hangs from that file through its class.
THEOREM GraphOwnsItsSymbols == Spec => []OwnedSymbolsOnly
  BY BuildInvariant, OwnedHolds, PTL

\* Pruning leaves no edge with a missing end, but the documented and the bare ones,
\* and each of the three views of _filter_graph is closed.
THEOREM GraphClosed == Spec => []GraphAndViewsAreClosed
  BY BuildInvariant, ClosedHolds, PTL

\* As long as no two things have one id, what get_class_context and get_callable_context
\* read along the edges - members, bases, subclasses, overrides, callers and callees - is
\* what the source files say, all of it and nothing else.
THEOREM GraphContext ==
    ASSUME Ordered(Seq(Names))
    PROVE  Spec => []ContextTellsTheSource
  <1>1. ASSUME BInv, SInv PROVE ContextTellsTheSource
    BY <1>1, ClassHolds, CallableHolds DEF ContextTellsTheSource
  <1> QED
    BY <1>1, BuildInvariant, SourcesInvariant, PTL

\* Completing the matches of an overview (_augment_with_structural_nodes) keeps them in
\* front, repeats no node, and leaves room only when all the structure is there.
THEOREM OverviewAnswers ==
    ASSUME Ordered(Seq(Names))
    PROVE  Spec => []OverviewKeepsMatches
  <1>1. PipelineInit => OverviewKeepsMatches
    BY DEF PipelineInit, OverviewKeepsMatches
  <1>2. ASSUME BInv, SInv, AskInv, OverviewKeepsMatches, [Next]_vars
        PROVE  OverviewKeepsMatches'
    <2>1. CASE UNCHANGED vars
      <3>1. UNCHANGED <<nodes, query, ranked, top_k, matches, step>>
        BY <2>1 DEF vars, graphVars, askVars
      <3> QED
        BY <1>2, <3>1 DEF OverviewKeepsMatches
    <2>2. CASE Augment
      BY <1>2, <2>2, SeededHolds
    <2>3. CASE Build
      <3>1. pc # "done" /\ step' = step
        BY <2>3 DEF Build, askVars, BuildNext, Parse, StartRegistration, Register, StartEmission, Emit, Prune
      <3>2. step' # "seeded"
        BY <1>2, <3>1 DEF AskInv
      <3> QED
        BY <3>2 DEF OverviewKeepsMatches
    <2>4. CASE MakeResolver \/ Ask \/ Resolve
      <3>1. step' # "seeded"
        BY <2>4 DEF MakeResolver, Ask, Resolve
      <3> QED
        BY <3>1 DEF OverviewKeepsMatches
    <2> QED
      BY <1>2, <2>1, <2>2, <2>3, <2>4 DEF Next
  <1> QED
    BY <1>1, <1>2, BuildInvariant, SourcesInvariant, AskInvariant, PTL DEF Spec

\* Asked how something is done, rank_candidates puts a callable before a container of
\* data that matches the question no better, whatever the tables of words say.
THEOREM CallablesFirst ==
    ASSUME Ordered(Seq(Names))
    PROVE  Spec => []ImplementationBeatsData
  <1>1. BInv /\ SInv /\ AskInv => ImplementationBeatsData
    BY RankedHolds
  <1> QED
    BY <1>1, BuildInvariant, SourcesInvariant, AskInvariant, PTL

\* The mention of a name outweighs all the edges another node may have, whatever the
\* tables of words say: what is true of NamedIsFound for any of them.
THEOREM NamedBeforeConnected ==
    ASSUME Ordered(Seq(Names))
    PROVE  Spec => []NamedBeatsConnected
  <1>1. BInv /\ SInv /\ AskInv => NamedBeatsConnected
    BY HigherIsEarlier, Scores DEF NamedBeatsConnected
  <1> QED
    BY <1>1, BuildInvariant, SourcesInvariant, AskInvariant, PTL

\* The subject priority of rank_candidates prevents what its comment says, a verb that
\* outranks a subject by its edges alone, but for a tie of one edge with five.
THEOREM SubjectBeforeConnected ==
    ASSUME Ordered(Seq(Names))
    PROVE  Spec => []SubjectBeatsConnected
  <1>1. BInv /\ SInv /\ AskInv => SubjectBeatsConnected
    BY HigherIsEarlier, Scores DEF SubjectBeatsConnected
  <1> QED
    BY <1>1, BuildInvariant, SourcesInvariant, AskInvariant, PTL

=============================================================================
