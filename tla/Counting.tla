-------------------------------- MODULE Counting --------------------------------
(***************************************************************************)
(* Facts about finite sets, sequences, remainders and folds that the proofs *)
(* about several components use.  Induction is over a set: the set of the   *)
(* natural numbers, or of the subsets, for which something holds.           *)
(***************************************************************************)
EXTENDS Integers, Sequences, FiniteSets, FiniteSetTheorems, WellFoundedInduction, TLAPS

\* Two finite sets that differ in one element at most.
LEMMA OneDiffers ==
  ASSUME NEW F, NEW G, NEW x, IsFiniteSet(F), IsFiniteSet(G), F \ {x} = G \ {x}
  PROVE  /\ x \notin F /\ x \in G => Cardinality(G) = Cardinality(F) + 1
         /\ x \in F /\ x \notin G => Cardinality(G) = Cardinality(F) - 1
         /\ (x \in F <=> x \in G) => G = F
<1>1. ASSUME x \notin F, x \in G PROVE Cardinality(G) = Cardinality(F) + 1
  <2>1. G = F \cup {x}
    BY <1>1
  <2> QED BY <2>1, <1>1, FS_AddElement
<1>2. ASSUME x \in F, x \notin G PROVE Cardinality(G) = Cardinality(F) - 1
  <2>1. G = F \ {x}
    BY <1>2
  <2> QED BY <2>1, <1>2, FS_RemoveElement
<1>3. ASSUME x \in F <=> x \in G PROVE G = F
  BY <1>3
<1> QED BY <1>1, <1>2, <1>3

LEMMA EmptySeqType == ASSUME NEW S PROVE <<>> \in Seq(S)
  OBVIOUS

\* The length of a queue after a push and after a pop.
LEMMA SeqLengths ==
  ASSUME NEW S, NEW q \in Seq(S)
  PROVE  /\ Len(q) \in Nat /\ (q = <<>> <=> Len(q) = 0)
         /\ \A x \in S : Append(q, x) \in Seq(S) /\ Len(Append(q, x)) = Len(q) + 1
         /\ q # <<>> => Tail(q) \in Seq(S) /\ Len(Tail(q)) = Len(q) - 1
  OBVIOUS

--------------------------------------------------------------------------------
(* Induction. *)

\* A set of natural numbers that is not empty has a least element.
LEMMA LeastNat ==
  ASSUME NEW S \in SUBSET Nat, S # {}
  PROVE  \E m \in S : \A n \in S : m <= n
<1> DEFINE R == {ss \in Nat \X Nat : ss[1] < ss[2]}
<1>1. IsWellFoundedOn(R, Nat)
  BY NatLessThanWellFounded DEF OpToRel
<1>2. PICK m \in S : \A n \in S : <<n, m>> \notin R
  BY <1>1, WFMin
<1>3. ASSUME NEW n \in S PROVE m <= n
  <2>1. <<n, m>> \in Nat \X Nat /\ ~(n < m)
    BY <1>2
  <2> QED BY <2>1
<1> QED BY <1>3

\* Induction over the natural numbers, with a set of them for the predicate.
LEMMA NatInductionInSet ==
  ASSUME NEW Good, 0 \in Good, \A n \in Nat : n \in Good => n + 1 \in Good
  PROVE  Nat \subseteq Good
<1> SUFFICES ASSUME ~(Nat \subseteq Good) PROVE FALSE
  OBVIOUS
<1> DEFINE C == {n \in Nat : n \notin Good}
<1>1. PICK n \in C : \A k \in C : n <= k
  <2>1. C \in SUBSET Nat /\ C # {}
    OBVIOUS
  <2> HIDE DEF C
  <2> QED BY <2>1, LeastNat
<1>2. n # 0 /\ n - 1 \in Nat
  BY <1>1
<1>3. n - 1 \in Good
  BY <1>1, <1>2
<1> QED BY <1>1, <1>2, <1>3

\* A set of subsets of a finite set that is not empty has one that contains no other.
LEMMA LeastSubset ==
  ASSUME NEW S, IsFiniteSet(S), NEW C \in SUBSET (SUBSET S), C # {}
  PROVE  \E T \in C : \A U \in C : U \subseteq T => U = T
<1>1. IsWellFoundedOn(StrictSubsetOrdering(S), SUBSET S)
  BY FS_StrictSubsetOrderingWellFounded, FS_FiniteSubsetsOfFinite
<1>2. PICK T \in C : \A U \in C : <<U, T>> \notin StrictSubsetOrdering(S)
  BY <1>1, WFMin
<1> QED BY <1>2 DEF StrictSubsetOrdering


\* Induction over the subsets of a finite set, with a set of them for the predicate.
LEMMA SubsetInduction ==
  ASSUME NEW T, IsFiniteSet(T), NEW Good,
         \A s \in SUBSET T : (\A u \in SUBSET s : u # s => u \in Good) => s \in Good
  PROVE  T \in Good
<1> SUFFICES ASSUME T \notin Good PROVE FALSE
  OBVIOUS
<1> DEFINE C == {s \in SUBSET T : s \notin Good}
<1>1. C \in SUBSET (SUBSET T) /\ C # {}
  OBVIOUS
<1>2. PICK s \in C : \A u \in C : u \subseteq s => u = s
  <2> HIDE DEF C
  <2> QED BY <1>1, LeastSubset
<1>3. ASSUME NEW u \in SUBSET s, u # s PROVE u \in Good
  BY <1>2, <1>3
<1> QED BY <1>2, <1>3

--------------------------------------------------------------------------------
(* Folds. *)

\* F is the function on the subsets of S that a fold is read from: it takes the
\* elements out in the order ch, starts from base and combines them with op.
IsFold(F, S, V, base, op, ch) ==
  /\ F \in [SUBSET S -> V]
  /\ \A s \in SUBSET S : F[s] = IF s = {} THEN base ELSE op[ch[s]][F[s \ {ch[s]}]]

\* Two functions that a fold can be read from give the same result.
LEMMA FoldIsUnique ==
  ASSUME NEW S, IsFiniteSet(S), NEW V, NEW base, NEW op, NEW ch,
         \A s \in SUBSET S : s # {} => ch[s] \in s,
         NEW F, IsFold(F, S, V, base, op, ch),
         NEW T \in SUBSET S, NEW G, IsFold(G, T, V, base, op, ch)
  PROVE  F[T] = G[T]
<1> DEFINE Good == {s \in SUBSET T : F[s] = G[s]}
<1>1. ASSUME NEW s \in SUBSET T, \A u \in SUBSET s : u # s => u \in Good
      PROVE  s \in Good
  <2>1. F[s] = IF s = {} THEN base ELSE op[ch[s]][F[s \ {ch[s]}]]
    BY DEF IsFold
  <2>2. G[s] = IF s = {} THEN base ELSE op[ch[s]][G[s \ {ch[s]}]]
    BY DEF IsFold
  <2>3. s # {} => s \ {ch[s]} \in Good
    <3> HIDE DEF Good
    <3> QED BY <1>1
  <2> QED BY <2>1, <2>2, <2>3
<1>2. IsFiniteSet(T)
  BY FS_Subset
<1>3. T \in Good
  <2> HIDE DEF Good
  <2> QED BY <1>1, <1>2, SubsetInduction
<1> QED BY <1>3

\* A fold over a finite set is well defined, whatever the order of its elements.
LEMMA FoldExists ==
  ASSUME NEW S, IsFiniteSet(S), NEW V, NEW base \in V, NEW op,
         \A x \in S, v \in V : op[x][v] \in V,
         NEW ch, \A s \in SUBSET S : s # {} => ch[s] \in s
  PROVE  \E F : IsFold(F, S, V, base, op, ch)
<1> DEFINE Good == {T \in SUBSET S : \E F : IsFold(F, T, V, base, op, ch)}
<1>1. ASSUME NEW T \in SUBSET S, \A u \in SUBSET T : u # T => u \in Good
      PROVE  T \in Good
  <2> DEFINE G == [u \in SUBSET T |-> CHOOSE F : IsFold(F, u, V, base, op, ch)]
             H == [u \in SUBSET T |->
                     IF u # T THEN G[u][u]
                     ELSE IF T = {} THEN base ELSE op[ch[T]][G[T \ {ch[T]}][T \ {ch[T]}]]]
  <2>1. ASSUME NEW u \in SUBSET T, u # T PROVE IsFold(G[u], u, V, base, op, ch)
    BY <1>1, <2>1
  <2>2. ASSUME NEW u \in SUBSET T, u # T, u # {}
        PROVE  /\ G[u][u] = op[ch[u]][G[u \ {ch[u]}][u \ {ch[u]}]] 
    <3> DEFINE v == u \ {ch[u]}
    <3>1. ch[u] \in u /\ v \in SUBSET u /\ v # T
      BY <2>2
    <3>2. G[u][u] = op[ch[u]][G[u][v]]
      <4> HIDE DEF G
      <4> QED BY <2>1, <2>2 DEF IsFold
    <3>3. G[u][v] = G[v][v]
      <4>1. IsFold(G[u], u, V, base, op, ch) /\ IsFold(G[v], v, V, base, op, ch)
        BY <2>1, <2>2, <3>1
      <4>2. IsFiniteSet(u)
        BY FS_Subset
      <4>3. \A s \in SUBSET u : s # {} => ch[s] \in s
        OBVIOUS
      <4>4. v \in SUBSET u
        BY <3>1
      <4> HIDE DEF G, H, v, Good
      <4> QED BY ONLY <4>1, <4>2, <4>3, <4>4, FoldIsUnique
    <3> QED BY <3>2, <3>3
  <2>3. ASSUME NEW u \in SUBSET T, u # T PROVE G[u][u] \in V /\ (u = {} => G[u][u] = base)
    <3>1. IsFold(G[u], u, V, base, op, ch) /\ u \in SUBSET u
      BY <2>1, <2>3
    <3> HIDE DEF G, H, Good
    <3> QED BY ONLY <3>1 DEF IsFold
  <2>4. IsFold(H, T, V, base, op, ch)
    <3> HIDE DEF G
    <3>1. ASSUME T # {} PROVE ch[T] \in T /\ T \ {ch[T]} \in SUBSET T /\ T \ {ch[T]} # T
      BY <3>1
    <3>2. ASSUME NEW u \in SUBSET T PROVE H[u] \in V
      <4>1. CASE u # T
        BY <4>1, <2>3
      <4>2. CASE u = T
        BY <4>2, <3>1, <2>3
      <4> QED BY <4>1, <4>2
    <3>3. ASSUME NEW u \in SUBSET T
          PROVE  H[u] = IF u = {} THEN base ELSE op[ch[u]][H[u \ {ch[u]}]]
      <4>1. CASE u = {}
        <5>1. CASE T = {}
          BY <4>1, <5>1
        <5>2. CASE T # {}
          <6>1. H[u] = G[u][u]
            BY <4>1, <5>2
          <6>2. G[u][u] = base
            BY <4>1, <5>2, <2>3
          <6> HIDE DEF H
          <6> QED BY <6>1, <6>2, <4>1
        <5> QED BY <5>1, <5>2
      <4>2. CASE u # {} /\ u = T
        BY <4>2, <3>1
      <4>3. CASE u # {} /\ u # T
        <5>1. u \ {ch[u]} \in SUBSET T /\ u \ {ch[u]} # T
          BY <4>3
        <5> QED BY <5>1, <4>3, <2>2
      <4> QED BY <4>1, <4>2, <4>3
    <3> HIDE DEF H
    <3> QED BY <3>2, <3>3 DEF H, IsFold
  <2> QED BY <2>4
<1>2. S \in Good
  <2> HIDE DEF Good
  <2> QED BY <1>1, SubsetInduction
<1> QED BY <1>2

--------------------------------------------------------------------------------
(* Remainders. *)

\* A remainder is what its equation says.
LEMMA Remainder ==
  ASSUME NEW a \in Int, NEW w \in Nat, w # 0, NEW q \in Int, NEW r \in 0..(w-1), a = w * q + r
  PROVE  a % w = r
<1> DEFINE p == a \div w
           s == a % w
<1>1. a = w * p + s /\ s \in 0..(w-1) /\ p \in Int
  OBVIOUS
<1> HIDE DEF p, s
<1>2. w * (p - q) = r - s
  <2>1. w * (p - q) = w * p - w * q
    BY <1>1
  <2> QED BY <2>1, <1>1
<1>3. ~(p - q >= 1)
  <2> SUFFICES ASSUME p - q >= 1 PROVE FALSE
    OBVIOUS
  <2>1. w * (p - q) >= w
    BY <1>1
  <2> QED BY <2>1, <1>2, <1>1
<1>4. ~(q - p >= 1)
  <2> SUFFICES ASSUME q - p >= 1 PROVE FALSE
    OBVIOUS
  <2>1. w * (q - p) >= w
    BY <1>1
  <2>2. w * (q - p) = s - r
    <3>1. w * (q - p) = w * q - w * p
      BY <1>1
    <3> QED BY <3>1, <1>1
  <2> QED BY <2>1, <2>2, <1>1
<1>5. p = q
  BY <1>3, <1>4, <1>1
<1> QED BY <1>5, <1>2, <1>1 DEF s

\* Adding to a remainder is adding to the number that it is left of.
LEMMA RemainderOfSum ==
  ASSUME NEW a \in Int, NEW b \in Int, NEW w \in Nat, w # 0
  PROVE  ((a % w) + b) % w = (a + b) % w
<1> DEFINE p == a \div w
           s == a % w
           q == (a + b) \div w
           r == (a + b) % w
<1>1. a = w * p + s /\ s \in 0..(w-1) /\ p \in Int
  OBVIOUS
<1>2. a + b = w * q + r /\ r \in 0..(w-1) /\ q \in Int
  OBVIOUS
<1> HIDE DEF p, q, r, s
<1>3. s + b = w * (q - p) + r
  <2>1. w * (q - p) = w * q - w * p
    BY <1>1, <1>2
  <2> QED BY <2>1, <1>1, <1>2
<1>4. (s + b) % w = r
  <2>1. s + b \in Int /\ q - p \in Int
    BY <1>1, <1>2
  <2> HIDE <1>1
  <2> QED BY <2>1, <1>2, <1>3, Remainder
<1> QED BY <1>4 DEF s, r

================================================================================
