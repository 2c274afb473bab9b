---------------------------- MODULE FilterProofs ----------------------------
(***************************************************************************)
(* What the loop of Filter leaves, for every list.  The library states     *)
(* induction with an operator parameter; here a property of numbers is the *)
(* set of those that have it, and a recursive function is shown to exist   *)
(* before its equation is used.                                            *)
(***************************************************************************)
EXTENDS Filter, SequenceTheorems, WellFoundedInduction, TLAPS

\* A set of natural numbers that is not empty has a least element.
LEMMA LeastNat ==
    ASSUME NEW T \in SUBSET Nat, T # {}
    PROVE  \E n \in T : \A m \in T : n <= m
<1> DEFINE R == {ss \in Nat \X Nat : ss[1] < ss[2]}
<1>1. IsWellFoundedOn(R, Nat)
  BY NatLessThanWellFounded DEF OpToRel
<1>2. PICK n \in T : \A m \in T : ~ (<<m, n>> \in R)
  <2> HIDE DEF R
  <2> QED
    BY <1>1, WFMin, Zenon
<1>3. ASSUME NEW m \in T
      PROVE  n <= m
  <2>1. m \in Nat /\ n \in Nat
    OBVIOUS
  <2>2. m < n => <<m, n>> \in R
    BY <2>1
  <2>3. ~ (m < n)
    BY <1>2, <2>2
  <2> QED
    BY <2>1, <2>3, SMT
<1> QED
  BY <1>3

\* Induction, for the numbers in a set.
LEMMA InductionInSet ==
    ASSUME NEW T, 0 \in T, \A n \in Nat : n \in T => n + 1 \in T
    PROVE  \A n \in Nat : n \in T
<1> DEFINE U == {n \in Nat : n \notin T}
<1> SUFFICES ASSUME U # {}
             PROVE  FALSE
  OBVIOUS
<1>1. PICK n \in U : \A m \in U : n <= m
  <2> U \in SUBSET Nat
    OBVIOUS
  <2> HIDE DEF U
  <2> QED
    BY LeastNat
<1>2. n \in Nat /\ n - 1 \in Nat /\ (n - 1) + 1 = n /\ ~ (n <= n - 1)
  <2>1. n \in Nat /\ n # 0
    BY <1>1
  <2> QED
    BY <2>1, SMT
<1>3. n - 1 \in T
  BY <1>1, <1>2
<1> QED
  BY <1>1, <1>2, <1>3

\* A function on the first n positions is a sequence of length n.
LEMMA FunctionAsSeq ==
    ASSUME NEW n \in Nat, NEW T, NEW f \in [1..n -> T]
    PROVE  f \in Seq(T) /\ Len(f) = n
<1>1. f \in Seq(T)
  BY SeqDef
<1>2. Len(f) \in Nat /\ 1..Len(f) = 1..n
  BY <1>1, LenProperties
<1> QED
  BY <1>1, <1>2, SMT

\* A function on 0..N that a first value and a step define exists.
Steps(N, V) == [1..N -> [V -> V]]
DefinedBy(f, N, V, base, step) ==
    f \in [0..N -> V] /\ f[0] = base /\ \A n \in 1..N : f[n] = step[n][f[n - 1]]

LEMMA RecursionExists ==
    ASSUME NEW N \in Nat, NEW V, NEW base \in V, NEW step \in Steps(N, V)
    PROVE  \E f : DefinedBy(f, N, V, base, step)
<1> USE DEF Steps
<1> DEFINE Is(f, m) == f[0] = base /\ \A n \in 1..m : f[n] = step[n][f[n - 1]]
           T == {m \in Nat : m <= N => \E f \in [0..m -> V] : Is(f, m)}
<1>1. 0 \in T
  <2> DEFINE f == [n \in 0..0 |-> base]
  <2>1. f \in [0..0 -> V] /\ f[0] = base /\ 1..0 = {}
    BY SMT
  <2> QED
    BY <2>1
<1>2. ASSUME NEW m \in Nat, m \in T, m + 1 <= N
      PROVE  \E f \in [0..(m + 1) -> V] : Is(f, m + 1)
  <2>1. PICK f \in [0..m -> V] : Is(f, m)
    BY <1>2, SMT
  <2> DEFINE g == [n \in 0..(m + 1) |-> IF n = m + 1 THEN step[m + 1][f[m]] ELSE f[n]]
  <2>2. m + 1 \in 1..N /\ m \in 0..m /\ f[m] \in V
    BY <1>2, <2>1, SMT
  <2>3. step[m + 1][f[m]] \in V
    BY <2>2
  <2>4. g \in [0..(m + 1) -> V]
    <3>1. ASSUME NEW n \in 0..(m + 1)
          PROVE  g[n] \in V
      <4>1. n # m + 1 => n \in 0..m
        BY SMT
      <4> QED
        BY <2>1, <2>3, <4>1
    <3> QED
      BY <3>1
  <2>5. g[0] = base
    BY <2>1, SMT
  <2>6. ASSUME NEW n \in 1..(m + 1)
        PROVE  g[n] = step[n][g[n - 1]]
    <3>1. n \in 0..(m + 1) /\ n - 1 \in 0..(m + 1) /\ n - 1 # m + 1 /\ (m + 1) - 1 = m
      BY SMT
    <3>2. g[n - 1] = f[n - 1]
      BY <3>1
    <3>3. CASE n = m + 1
      BY <3>1, <3>2, <3>3
    <3>4. CASE n # m + 1
      <4>1. n \in 1..m
        BY <3>4, SMT
      <4>2. f[n] = step[n][f[n - 1]]
        BY <2>1, <4>1
      <4> QED
        BY <3>1, <3>2, <3>4, <4>2
    <3> QED
      BY <3>3, <3>4
  <2> HIDE DEF g
  <2> QED
    BY <2>4, <2>5, <2>6
<1>3. ASSUME NEW m \in Nat, m \in T
      PROVE  m + 1 \in T
  <2>1. m + 1 \in Nat
    BY SMT
  <2>2. m + 1 <= N => \E f \in [0..(m + 1) -> V] : Is(f, m + 1)
    BY <1>2, <1>3
  <2> HIDE DEF Is
  <2> QED
    BY <2>1, <2>2
<1>4. N \in T
  <2> HIDE DEF T
  <2> QED
    BY <1>1, <1>3, InductionInSet
<1>5. N <= N
  BY SMT
<1>6. PICK f \in [0..N -> V] : Is(f, N)
  BY <1>4, <1>5, Zenon
<1> QED
  BY <1>6 DEF DefinedBy

-----------------------------------------------------------------------------
\* The turns of the loop.
LEMMA KeptTurns ==
    ASSUME NEW S, NEW s \in Seq(S), NEW K
    PROVE  LET u == KeptUpTo(s, K) IN
           /\ u \in [0..Len(s) -> Seq(S)] /\ u[0] = <<>>
           /\ \A n \in 1..Len(s) :
                 u[n] = IF s[n] \in K THEN Append(u[n - 1], s[n]) ELSE u[n - 1]
<1> DEFINE N == Len(s)
           step == [n \in 1..N |-> [q \in Seq(S) |-> IF s[n] \in K THEN Append(q, s[n]) ELSE q]]
           Turns(f) == [n \in 0..N |->
                          IF n = 0 THEN <<>>
                          ELSE IF s[n] \in K THEN Append(f[n - 1], s[n]) ELSE f[n - 1]]
<1>1. N \in Nat /\ \A n \in 1..N : s[n] \in S
  BY SMT
<1>2. step \in [1..N -> [Seq(S) -> Seq(S)]] /\ <<>> \in Seq(S)
  <2>1. ASSUME NEW n \in 1..N, NEW q \in Seq(S)
        PROVE  (IF s[n] \in K THEN Append(q, s[n]) ELSE q) \in Seq(S)
    BY <1>1, AppendProperties
  <2> QED
    BY <2>1, EmptySeq
<1>3. PICK f \in [0..N -> Seq(S)] : f[0] = <<>> /\ \A n \in 1..N : f[n] = step[n][f[n - 1]]
  <2>1. step \in Steps(N, Seq(S))
    BY <1>2 DEF Steps
  <2> HIDE DEF step, N
  <2>2. \E f : DefinedBy(f, N, Seq(S), <<>>, step)
    BY <1>1, <1>2, <2>1, RecursionExists
  <2> QED
    BY <2>2 DEF DefinedBy
<1>4. ASSUME NEW n \in 1..N
      PROVE  /\ n \in 0..N /\ n # 0 /\ n - 1 \in 0..N /\ f[n - 1] \in Seq(S)
             /\ f[n] = IF s[n] \in K THEN Append(f[n - 1], s[n]) ELSE f[n - 1]
  <2>1. n \in 0..N /\ n # 0 /\ n - 1 \in 0..N
    BY <1>1, SMT
  <2>2. f[n - 1] \in Seq(S)
    BY <1>3, <2>1
  <2> QED
    BY <1>3, <2>1, <2>2
<1>5. f = Turns(f)
  <2>1. ASSUME NEW n \in 0..N
        PROVE  f[n] = Turns(f)[n]
    <3>1. n = 0 \/ n \in 1..N
      BY <1>1, SMT
    <3> QED
      BY <1>3, <1>4, <3>1
  <2> QED
    BY <1>3, <2>1
<1>6. KeptUpTo(s, K) = CHOOSE g : g = Turns(g)
  BY DEF KeptUpTo
<1> DEFINE u == KeptUpTo(s, K)
<1>7. u = Turns(u)
  <2> HIDE DEF Turns
  <2> QED
    BY <1>5, <1>6
<1>8. /\ u[0] = <<>>
      /\ \A n \in 1..N : u[n] = IF s[n] \in K THEN Append(u[n - 1], s[n]) ELSE u[n - 1]
  <2>1. \A n \in 0..N : u[n] = Turns(u)[n]
    BY <1>7, Zenon
  <2>2. 0 \in 0..N /\ \A n \in 1..N : n \in 0..N /\ n # 0
    BY <1>1, SMT
  <2> HIDE DEF u
  <2> QED
    BY <2>1, <2>2
<1> DEFINE T == {n \in Nat : n <= N => u[n] \in Seq(S)}
<1>9. 0 \in T
  BY <1>2, <1>8
<1>10. ASSUME NEW n \in Nat, n \in T
       PROVE  n + 1 \in T
  <2>1. ASSUME n + 1 <= N
        PROVE  u[n + 1] \in Seq(S)
    <3>1. n + 1 \in 1..N /\ (n + 1) - 1 = n /\ n <= N
      BY <1>1, <2>1, SMT
    <3>2. u[n] \in Seq(S) /\ s[n + 1] \in S
      BY <1>1, <1>10, <3>1
    <3>3. Append(u[n], s[n + 1]) \in Seq(S)
      BY <3>2, AppendProperties
    <3> QED
      BY <1>8, <3>1, <3>2, <3>3
  <2> QED
    BY <2>1
<1>11. \A n \in Nat : n \in T
  <2> HIDE DEF T
  <2> QED
    BY <1>9, <1>10, InductionInSet
<1>12. u \in [0..N -> Seq(S)]
  <2>1. \A n \in 0..N : n \in Nat /\ n <= N
    BY <1>1, SMT
  <2>2. \A n \in 0..N : u[n] \in Seq(S)
    BY <1>11, <2>1
  <2>3. Turns(u) = [n \in 0..N |-> u[n]]
    BY <1>7
  <2> QED
    BY <1>7, <2>2, <2>3
<1> QED
  BY <1>8, <1>12

\* at lists the places of the kept elements among the first n, in their order.
PlacesUpTo(s, K, n, at) ==
    LET q == KeptUpTo(s, K)[n] IN
    /\ at \in Seq(1..n) /\ Len(at) = Len(q)
    /\ \A i \in 1..Len(at) : q[i] = s[at[i]] /\ s[at[i]] \in K
    /\ \A i, j \in 1..Len(at) : i < j => at[i] < at[j]
    /\ \A m \in 1..n : s[m] \in K => \E i \in 1..Len(at) : at[i] = m

LEMMA PlacesExist ==
    ASSUME NEW S, NEW s \in Seq(S), NEW K, NEW n \in 0..Len(s)
    PROVE  \E at : PlacesUpTo(s, K, n, at)
<1> DEFINE N == Len(s)
           u == KeptUpTo(s, K)
           T == {m \in Nat : m <= N => \E at : PlacesUpTo(s, K, m, at)}
<1>1. /\ N \in Nat /\ \A m \in 1..N : s[m] \in S
      /\ u \in [0..N -> Seq(S)] /\ u[0] = <<>>
      /\ \A m \in 1..N : u[m] = IF s[m] \in K THEN Append(u[m - 1], s[m]) ELSE u[m - 1]
  BY KeptTurns, SMT
<1>2. 0 \in T
  <2>1. <<>> \in Seq(1..0) /\ Len(<<>>) = 0 /\ 1..0 = {} /\ KeptUpTo(s, K)[0] = <<>>
    BY <1>1, EmptySeq, SMT
  <2>2. PlacesUpTo(s, K, 0, <<>>)
    BY <2>1 DEF PlacesUpTo
  <2> QED
    BY <2>2
<1>3. ASSUME NEW m \in Nat, m \in T
      PROVE  m + 1 \in T
  <2> SUFFICES ASSUME m + 1 <= N
               PROVE  \E at : PlacesUpTo(s, K, m + 1, at)
    BY SMT
  <2>1. /\ m + 1 \in 1..N /\ (m + 1) - 1 = m /\ m \in 0..N /\ m <= N
        /\ \A k \in 1..m : k \in 1..(m + 1) /\ k < m + 1
        /\ m + 1 \in 1..(m + 1) /\ \A k \in 1..(m + 1) : k = m + 1 \/ k \in 1..m
    BY <1>1, SMT
  <2>2. PICK at : PlacesUpTo(s, K, m, at)
    BY <1>3, <2>1
  <2> DEFINE q == u[m]
             l == Len(at)
  <2>3. /\ at \in Seq(1..m) /\ l = Len(q) /\ q \in Seq(S)
        /\ \A i \in 1..l : q[i] = s[at[i]] /\ s[at[i]] \in K
        /\ \A i, j \in 1..l : i < j => at[i] < at[j]
        /\ \A k \in 1..m : s[k] \in K => \E i \in 1..l : at[i] = k
    BY <1>1, <2>1, <2>2 DEF PlacesUpTo
  <2>4. l \in Nat /\ \A i \in 1..l : at[i] \in 1..m
    BY <2>3, SMT
  <2>5. at \in Seq(1..(m + 1))
    BY <2>1, <2>3, SeqMonotonic
  <2>6. CASE s[m + 1] \notin K
    <3>1. u[m + 1] = q
      BY <1>1, <2>1, <2>6
    <3>2. \A k \in 1..(m + 1) : s[k] \in K => \E i \in 1..l : at[i] = k
      BY <2>1, <2>3, <2>6
    <3>3. PlacesUpTo(s, K, m + 1, at)
      BY <2>3, <2>5, <3>1, <3>2 DEF PlacesUpTo
    <3> QED
      BY <3>3
  <2>7. CASE s[m + 1] \in K
    <3> DEFINE to == Append(at, m + 1)
    <3>1. /\ to \in Seq(1..(m + 1)) /\ Len(to) = l + 1 /\ to[l + 1] = m + 1
          /\ \A i \in 1..l : to[i] = at[i]
      BY <2>1, <2>5, AppendProperties
    <3>2. /\ u[m + 1] = Append(q, s[m + 1]) /\ Len(u[m + 1]) = l + 1
          /\ u[m + 1][l + 1] = s[m + 1] /\ \A i \in 1..l : u[m + 1][i] = q[i]
      <4>1. u[m + 1] = Append(q, s[m + 1]) /\ s[m + 1] \in S /\ q \in Seq(S) /\ Len(q) = l
        BY <1>1, <2>1, <2>3, <2>7
      <4> HIDE DEF q, u, l
      <4> QED
        BY <4>1, AppendProperties
    <3>3. /\ \A i \in 1..(l + 1) : i = l + 1 \/ i \in 1..l
          /\ l + 1 \in 1..(l + 1) /\ \A i \in 1..l : i \in 1..(l + 1)
          /\ \A i, j \in 1..(l + 1) : i < j => i \in 1..l
      BY <2>4, SMT
    <3> HIDE DEF to, l, q, u
    <3>4. ASSUME NEW i \in 1..(l + 1)
          PROVE  u[m + 1][i] = s[to[i]] /\ s[to[i]] \in K
      BY <2>3, <2>7, <3>1, <3>2, <3>3
    <3>5. ASSUME NEW i \in 1..(l + 1), NEW j \in 1..(l + 1), i < j
          PROVE  to[i] < to[j]
      <4>1. i \in 1..l /\ at[i] \in 1..m /\ at[i] < m + 1
        BY <2>1, <2>4, <3>3, <3>5
      <4> QED
        BY <2>3, <3>1, <3>3, <3>5, <4>1
    <3>6. ASSUME NEW k \in 1..(m + 1), s[k] \in K
          PROVE  \E i \in 1..(l + 1) : to[i] = k
      BY <2>1, <2>3, <3>1, <3>3, <3>6
    <3>7. PlacesUpTo(s, K, m + 1, to)
      BY <3>1, <3>2, <3>4, <3>5, <3>6 DEF PlacesUpTo, u
    <3> QED
      BY <3>7
  <2> QED
    BY <2>6, <2>7
<1>4. \A m \in Nat : m \in T
  <2> HIDE DEF T
  <2> QED
    BY <1>2, <1>3, InductionInSet
<1>5. n \in Nat /\ n <= N
  BY <1>1, SMT
<1> QED
  BY <1>4, <1>5

\* The loop keeps exactly the elements of s that are in K, each as often as s has
\* it, and in the order of s.
Places(s, K, at) ==
    /\ at \in Seq(1..Len(s)) /\ Len(at) = Len(Kept(s, K))
    /\ \A i \in 1..Len(at) : Kept(s, K)[i] = s[at[i]] /\ s[at[i]] \in K
    /\ \A i, j \in 1..Len(at) : i < j => at[i] < at[j]
    /\ \A m \in 1..Len(s) : s[m] \in K => \E i \in 1..Len(at) : at[i] = m

THEOREM KeptPlaces ==
    ASSUME NEW S, NEW s \in Seq(S), NEW K
    PROVE  Kept(s, K) \in Seq(S) /\ \E at : Places(s, K, at)
<1>1. Len(s) \in 0..Len(s)
  BY SMT
<1>2. PICK at : PlacesUpTo(s, K, Len(s), at)
  BY <1>1, PlacesExist
<1>3. Places(s, K, at)
  BY <1>2 DEF Places, PlacesUpTo, Kept
<1>4. Kept(s, K) \in Seq(S)
  BY <1>1, KeptTurns DEF Kept
<1> QED
  BY <1>3, <1>4

=============================================================================
