---------------------------- MODULE DataTheorems ----------------------------
(***************************************************************************)
(* What the operators of the community modules compute that the models are *)
(* built from: SumFunction on a finite domain, Max and Min of finite sets, *)
(* FlattenSeq.  The recursion of SumFunction picks the elements in an      *)
(* order of its own; that the order does not matter is what everything     *)
(* about sums rests on.  Induction goes over sets instead of predicates.   *)
(***************************************************************************)
EXTENDS Integers, FiniteSets, Functions, SequencesExt, FiniteSetTheorems, SequenceTheorems,
        WellFoundedInduction, TLAPS

-----------------------------------------------------------------------------
(* Induction                                                               *)

\* Subsets of a finite set have what they inherit from the subsets with one
\* element less.
LEMMA SubsetInduction ==
  ASSUME NEW S, IsFiniteSet(S), NEW P \in SUBSET SUBSET S,
         \A t \in SUBSET S : (\A x \in t : t \ {x} \in P) => t \in P
  PROVE  P = SUBSET S
  <1> SUFFICES ASSUME NEW bad \in SUBSET S, bad \notin P PROVE FALSE
    OBVIOUS
  <1> DEFINE Sizes == {n \in Nat : \E t \in SUBSET S : t \notin P /\ Cardinality(t) = n}
             R == OpToRel(<, Nat)
  <1>1. \A t \in SUBSET S : IsFiniteSet(t) /\ Cardinality(t) \in Nat
    BY FS_Subset, FS_CardinalityType
  <1>2. Sizes \in SUBSET Nat /\ Sizes # {}
    BY <1>1
  <1>3. PICK n \in Sizes : \A m \in Sizes : ~(<<m, n>> \in R)
    <2>1. IsWellFoundedOn(R, Nat)
      BY NatLessThanWellFounded
    <2> HIDE DEF R, Sizes
    <2>2. \A T : T \subseteq Nat /\ T # {} => \E n \in T : \A m \in T : ~(<<m, n>> \in R)
      BY <2>1, WFMin
    <2>3. QED BY <1>2, <2>2
  <1>4. PICK t \in SUBSET S : t \notin P /\ Cardinality(t) = n
    BY <1>3
  <1>5. PICK x \in t : t \ {x} \notin P
    BY <1>4
  <1>6. Cardinality(t \ {x}) = n - 1 /\ n - 1 \in Nat
    <2>1. IsFiniteSet(t) /\ t \ {x} \in SUBSET S
      BY <1>1
    <2>2. Cardinality(t \ {x}) = Cardinality(t) - 1
      BY <2>1, FS_RemoveElement
    <2>3. Cardinality(t \ {x}) \in Nat
      BY <1>1, <2>1
    <2>4. QED BY <1>4, <2>2, <2>3
  <1>7. n - 1 \in Sizes
    BY <1>5, <1>6
  <1>8. <<n - 1, n>> \in R
    BY <1>3, <1>6 DEF OpToRel
  <1>9. QED BY <1>3, <1>7, <1>8

\* The numbers up to n have what each passes on to the next.
LEMMA UpTo ==
  ASSUME NEW n \in Nat, NEW P, 0 \in P, \A k \in 0 .. n - 1 : k \in P => k + 1 \in P
  PROVE  \A k \in 0 .. n : k \in P
  <1> SUFFICES ASSUME NEW bad \in 0 .. n, bad \notin P PROVE FALSE
    OBVIOUS
  <1> DEFINE S == {k \in 0 .. n : k \notin P}
             R == OpToRel(<, Nat)
  <1>1. S \in SUBSET Nat /\ S # {}
    OBVIOUS
  <1>2. PICK k \in S : \A m \in S : ~(<<m, k>> \in R)
    <2>1. IsWellFoundedOn(R, Nat)
      BY NatLessThanWellFounded
    <2> HIDE DEF R, S
    <2>2. QED BY <1>1, <2>1, WFMin
  <1>3. k # 0 /\ k \in 0 .. n /\ k \notin P
    OBVIOUS
  <1>4. k - 1 \in 0 .. n - 1
    BY <1>3
  <1>5. k - 1 \in S
    <2>1. k - 1 \in P => k \in P
      BY <1>4
    <2>2. QED BY <1>3, <1>4, <2>1
  <1>6. <<k - 1, k>> \in R
    BY <1>3, <1>4 DEF OpToRel
  <1>7. QED BY <1>2, <1>5, <1>6

-----------------------------------------------------------------------------
(* The last and the first of some numbers                                  *)

\* A finite set of integers that is not empty has a last number.
LEMMA MaxIsLast ==
  ASSUME NEW S \in SUBSET Int, IsFiniteSet(S), S # {}
  PROVE  Max(S) \in S /\ \A y \in S : y <= Max(S)
  <1> DEFINE P == {t \in SUBSET S : t = {} \/ \E m \in t : \A y \in t : y <= m}
  <1>1. ASSUME NEW t \in SUBSET S, \A x \in t : t \ {x} \in P PROVE t \in P
    <2>1. CASE t = {}
      BY <2>1
    <2>2. CASE t # {}
      <3>1. PICK x \in t : TRUE
        BY <2>2
      <3>2. t \ {x} \in P
        BY <1>1, <3>1
      <3>3. CASE t \ {x} = {}
        <4>1. \A y \in t : y <= x
          BY <3>1, <3>3
        <4>2. QED BY <3>1, <4>1
      <3>4. CASE t \ {x} # {}
        <4>1. PICK m \in t \ {x} : \A y \in t \ {x} : y <= m
          BY <3>2, <3>4
        <4>2. m \in Int /\ x \in Int
          BY <3>1, <4>1
        <4>3. CASE x <= m
          <5>1. \A y \in t : y <= m
            BY <4>1, <4>3
          <5>2. QED BY <4>1, <5>1
        <4>4. CASE ~(x <= m)
          <5>1. \A y \in t : y <= x
            BY <4>1, <4>2, <4>4
          <5>2. QED BY <3>1, <5>1
        <4>5. QED BY <4>3, <4>4
      <3>5. QED BY <3>3, <3>4
    <2>3. QED BY <2>1, <2>2
  <1>2. P = SUBSET S
    <2>1. P \in SUBSET SUBSET S
      OBVIOUS
    <2> HIDE DEF P
    <2>2. QED BY <1>1, <2>1, SubsetInduction
  <1>3. \E m \in S : \A y \in S : m >= y
    BY <1>2
  <1>4. QED BY <1>3 DEF Max

\* And a first one.
LEMMA MinIsLeast ==
  ASSUME NEW S \in SUBSET Int, IsFiniteSet(S), S # {}
  PROVE  Min(S) \in S /\ \A y \in S : Min(S) <= y
  <1> DEFINE T == {0 - y : y \in S}
             f == [y \in S |-> 0 - y]
  <1>1. IsFiniteSet(T)
    <2>1. f \in Surjection(S, T)
      BY DEF Surjection
    <2> HIDE DEF f, T
    <2>2. QED BY <2>1, FS_Surjection
  <1>2. T \in SUBSET Int /\ T # {}
    <2>1. \A y \in S : y \in Int /\ 0 - y \in Int
      OBVIOUS
    <2>2. QED BY <2>1
  <1>3. Max(T) \in T /\ \A y \in T : y <= Max(T)
    <2> HIDE DEF T
    <2>1. QED BY <1>1, <1>2, MaxIsLast
  <1>4. PICK x \in S : Max(T) = 0 - x
    BY <1>3
  <1>5. \A y \in S : x <= y
    <2> SUFFICES ASSUME NEW y \in S PROVE x <= y
      OBVIOUS
    <2>1. 0 - y \in T /\ x \in Int /\ y \in Int
      OBVIOUS
    <2>2. 0 - y <= 0 - x
      BY <1>3, <1>4, <2>1
    <2>3. QED BY <2>1, <2>2
  <1>6. QED BY <1>5 DEF Min

-----------------------------------------------------------------------------
(* Sums                                                                    *)

\* h says of every part of S what f amounts to on it.
IsSum(h, f, S) ==
    /\ h \in [SUBSET S -> Int]
    /\ h[{}] = 0
    /\ \A t \in SUBSET S : \A x \in t : h[t] = h[t \ {x}] + f[x]

\* There are such functions.
LEMMA SumExists ==
  ASSUME NEW S, IsFiniteSet(S), NEW f \in [S -> Int]
  PROVE  \E h : IsSum(h, f, S)
  <1> DEFINE P == {t \in SUBSET S : \E h : IsSum(h, f, t)}
  <1>1. ASSUME NEW t \in SUBSET S, \A x \in t : t \ {x} \in P
        PROVE  t \in P
    <2>1. CASE t = {}
      <3> DEFINE h == [s \in SUBSET {} |-> 0]
      <3>1. IsSum(h, f, {})
        BY DEF IsSum
      <3>2. QED BY <2>1, <3>1
    <2>2. CASE t # {}
      <3>1. PICK x \in t : TRUE
        BY <2>2
      <3>2. PICK g : IsSum(g, f, t \ {x})
        BY <1>1, <3>1
      <3> DEFINE h == [s \in SUBSET t |-> IF x \in s THEN g[s \ {x}] + f[x] ELSE g[s]]
      <3>3. h \in [SUBSET t -> Int] /\ h[{}] = 0
        <4>1. \A s \in SUBSET t : s \ {x} \in SUBSET (t \ {x}) /\ (x \notin s => s \in SUBSET (t \ {x}))
          OBVIOUS
        <4>2. f[x] \in Int
          BY <3>1
        <4>3. g \in [SUBSET (t \ {x}) -> Int] /\ g[{}] = 0
          BY <3>2 DEF IsSum
        <4>4. QED BY <4>1, <4>2, <4>3
      <3>4. ASSUME NEW s \in SUBSET t, NEW y \in s PROVE h[s] = h[s \ {y}] + f[y]
        <4>0. /\ s \ {y} \in SUBSET t /\ f[x] \in Int /\ f[y] \in Int
              /\ \A u \in SUBSET (t \ {x}) : g[u] \in Int
          BY <3>1, <3>2 DEF IsSum
        <4>1. CASE y = x
          BY <4>0, <4>1
        <4>2. CASE y # x /\ x \notin s
          <5>1. s \in SUBSET (t \ {x}) /\ g[s] = g[s \ {y}] + f[y]
            BY <3>2, <4>2 DEF IsSum
          <5>2. h[s] = g[s] /\ h[s \ {y}] = g[s \ {y}]
            BY <4>0, <4>2
          <5>3. QED BY <5>1, <5>2
        <4>3. CASE y # x /\ x \in s
          <5>1. s \ {x} \in SUBSET (t \ {x}) /\ y \in s \ {x} /\ (s \ {x}) \ {y} = (s \ {y}) \ {x}
            BY <4>3
          <5>2. (s \ {y}) \ {x} \in SUBSET (t \ {x})
            OBVIOUS
          <5>3. g[s \ {x}] = g[(s \ {y}) \ {x}] + f[y]
            BY <3>2, <5>1 DEF IsSum
          <5>4. h[s] = g[s \ {x}] + f[x] /\ h[s \ {y}] = g[(s \ {y}) \ {x}] + f[x]
            BY <4>0, <4>3
          <5> HIDE DEF h
          <5>5. QED BY <4>0, <5>1, <5>2, <5>3, <5>4
        <4>4. QED BY <4>1, <4>2, <4>3
      <3> HIDE DEF h
      <3>5. IsSum(h, f, t)
        BY <3>3, <3>4 DEF IsSum
      <3>6. QED BY <3>5
    <2>3. QED BY <2>1, <2>2
  <1>2. P = SUBSET S
    <2>1. P \in SUBSET SUBSET S
      OBVIOUS
    <2> HIDE DEF P
    <2>2. QED BY <1>1, <2>1, SubsetInduction
  <1>3. QED BY <1>2

\* SumFunction is what they say of the whole.
LEMMA SumIs ==
  ASSUME NEW S, IsFiniteSet(S), NEW f \in [S -> Int], NEW h, IsSum(h, f, S)
  PROVE  SumFunction(f) = h[S]
  <1> DEFINE Picks(g) == g = [s \in SUBSET S |->
                 IF s = {} THEN 0
                 ELSE LET x == CHOOSE x \in s : TRUE IN f[x] + g[s \ {x}]]
  <1>1. Picks(h)
    <2>2. ASSUME NEW s \in SUBSET S, s # {}
          PROVE  h[s] = f[CHOOSE x \in s : TRUE] + h[s \ {CHOOSE x \in s : TRUE}]
      <3> DEFINE x == CHOOSE x \in s : TRUE
      <3>1. x \in s
        BY <2>2
      <3> HIDE DEF x
      <3>2. h[s] = h[s \ {x}] + f[x] /\ h[s \ {x}] \in Int /\ f[x] \in Int
        BY <3>1 DEF IsSum
      <3>3. h[s] = f[x] + h[s \ {x}]
        BY <3>2
      <3>4. QED BY <3>3 DEF x
    <2>3. QED BY <2>2 DEF IsSum
  <1>2. ASSUME NEW g, Picks(g) PROVE g[S] = h[S]
    <2> DEFINE P == {t \in SUBSET S : g[t] = h[t]}
    <2>1. ASSUME NEW t \in SUBSET S, \A x \in t : t \ {x} \in P
          PROVE  t \in P
      <3>1. CASE t = {}
        BY <1>2, <3>1 DEF IsSum
      <3>2. CASE t # {}
        <4> DEFINE x == CHOOSE x \in t : TRUE
        <4>1. x \in t
          BY <3>2
        <4>2. g[t] = f[x] + g[t \ {x}]
          BY <1>2, <3>2
        <4> HIDE DEF x
        <4>3. h[t] = h[t \ {x}] + f[x] /\ h[t \ {x}] \in Int /\ f[x] \in Int
          BY <4>1 DEF IsSum
        <4>4. g[t \ {x}] = h[t \ {x}]
          BY <2>1, <4>1
        <4>5. QED BY <4>2, <4>3, <4>4
      <3>3. QED BY <3>1, <3>2
    <2>2. P = SUBSET S
      <3>1. P \in SUBSET SUBSET S
        OBVIOUS
      <3> HIDE DEF P
      <3>2. QED BY <2>1, <3>1, SubsetInduction
    <2>3. QED BY <2>2
  <1>3. Picks(CHOOSE g : Picks(g))
    <2> HIDE DEF Picks
    <2>1. QED BY <1>1
  <1>4. SumFunction(f) = (CHOOSE g : Picks(g))[S]
    BY DEF SumFunction, SumFunctionOnSet, FoldFunctionOnSet, MapThenFoldSet
  <1>5. QED BY <1>2, <1>3, <1>4

\* Of nothing it is zero, and of integers an integer.
LEMMA SumType ==
  ASSUME NEW S, IsFiniteSet(S), NEW f \in [S -> Int]
  PROVE  SumFunction(f) \in Int /\ (S = {} => SumFunction(f) = 0)
  <1>1. PICK h : IsSum(h, f, S)
    BY SumExists
  <1>2. SumFunction(f) = h[S]
    BY <1>1, SumIs
  <1>3. QED BY <1>1, <1>2 DEF IsSum

\* One more element adds its value.
LEMMA SumAdd ==
  ASSUME NEW S, IsFiniteSet(S), NEW x, x \notin S,
         NEW f \in [S -> Int], NEW g \in [S \cup {x} -> Int], \A y \in S : g[y] = f[y]
  PROVE  SumFunction(g) = SumFunction(f) + g[x]
  <1> DEFINE T == S \cup {x}
  <1>1. IsFiniteSet(T)
    BY FS_AddElement
  <1>2. PICK h : IsSum(h, g, T)
    BY <1>1, SumExists
  <1> DEFINE part == [t \in SUBSET S |-> h[t]]
  <1>3. IsSum(part, f, S)
    <2>1. part \in [SUBSET S -> Int] /\ part[{}] = 0
      BY <1>2 DEF IsSum
    <2>2. ASSUME NEW t \in SUBSET S, NEW y \in t PROVE part[t] = part[t \ {y}] + f[y]
      <3>1. t \in SUBSET T /\ t \ {y} \in SUBSET S /\ g[y] = f[y]
        OBVIOUS
      <3>2. h[t] = h[t \ {y}] + g[y]
        BY <1>2, <3>1 DEF IsSum
      <3>3. QED BY <3>1, <3>2
    <2> HIDE DEF part
    <2>3. QED BY <2>1, <2>2 DEF IsSum
  <1>4. SumFunction(f) = h[S]
    <2>1. SumFunction(f) = part[S]
      <3> HIDE DEF part
      <3>1. QED BY <1>3, SumIs
    <2>2. QED BY <2>1
  <1>5. SumFunction(g) = h[T]
    <2> HIDE DEF T
    <2>1. g \in [T -> Int]
      BY DEF T
    <2>2. QED BY <1>1, <1>2, <2>1, SumIs
  <1>6. h[T] = h[S] + g[x]
    <2>1. T \in SUBSET T /\ x \in T /\ T \ {x} = S
      OBVIOUS
    <2> HIDE DEF T
    <2>2. h[T] = h[T \ {x}] + g[x]
      BY <1>2, <2>1 DEF IsSum
    <2>3. QED BY <2>1, <2>2
  <1>7. QED BY <1>4, <1>5, <1>6

\* Another value of one element counts by what it differs.
LEMMA SumChange ==
  ASSUME NEW S, IsFiniteSet(S), NEW x \in S,
         NEW f \in [S -> Int], NEW g \in [S -> Int], \A y \in S \ {x} : g[y] = f[y]
  PROVE  SumFunction(g) = SumFunction(f) - f[x] + g[x]
  <1> DEFINE R == S \ {x}
             rest == [y \in R |-> f[y]]
  <1>1. IsFiniteSet(R) /\ x \notin R /\ R \cup {x} = S
    BY FS_RemoveElement
  <1>2. rest \in [R -> Int] /\ (\A y \in R : f[y] = rest[y]) /\ (\A y \in R : g[y] = rest[y])
    OBVIOUS
  <1>3. f \in [R \cup {x} -> Int] /\ g \in [R \cup {x} -> Int]
    BY <1>1
  <1> HIDE DEF R, rest
  <1>4. SumFunction(f) = SumFunction(rest) + f[x]
    BY <1>1, <1>2, <1>3, SumAdd
  <1>5. SumFunction(g) = SumFunction(rest) + g[x]
    BY <1>1, <1>2, <1>3, SumAdd
  <1>6. SumFunction(rest) \in Int
    BY <1>1, <1>2, SumType
  <1>7. QED BY <1>4, <1>5, <1>6

\* A sequence with one more number at its end.
LEMMA SumAppend ==
  ASSUME NEW n \in Nat, NEW f \in [1 .. n -> Int], NEW g \in [1 .. n + 1 -> Int],
         \A k \in 1 .. n : g[k] = f[k]
  PROVE  SumFunction(g) = SumFunction(f) + g[n + 1]
  <1>1. IsFiniteSet(1 .. n)
    BY FS_Interval
  <1>2. n + 1 \notin 1 .. n /\ (1 .. n) \cup {n + 1} = 1 .. n + 1
    OBVIOUS
  <1>3. g \in [(1 .. n) \cup {n + 1} -> Int]
    BY <1>2
  <1>4. QED BY <1>1, <1>2, <1>3, SumAdd

\* Nothing negative comes of natural numbers.
LEMMA SumIsNatural ==
  ASSUME NEW S, IsFiniteSet(S), NEW f \in [S -> Nat]
  PROVE  SumFunction(f) \in Nat
  <1>1. f \in [S -> Int]
    OBVIOUS
  <1>2. PICK h : IsSum(h, f, S)
    BY <1>1, SumExists
  <1>3. SumFunction(f) = h[S]
    BY <1>1, <1>2, SumIs
  <1> DEFINE P == {t \in SUBSET S : h[t] \in Nat}
  <1>4. ASSUME NEW t \in SUBSET S, \A x \in t : t \ {x} \in P PROVE t \in P
    <2>1. CASE t = {}
      BY <1>2, <2>1 DEF IsSum
    <2>2. CASE t # {}
      <3>1. PICK x \in t : TRUE
        BY <2>2
      <3>2. h[t] = h[t \ {x}] + f[x] /\ f[x] \in Nat
        BY <1>2, <3>1 DEF IsSum
      <3>3. h[t \ {x}] \in Nat
        BY <1>4, <3>1
      <3>4. QED BY <3>2, <3>3
    <2>3. QED BY <2>1, <2>2
  <1>5. P = SUBSET S
    <2>1. P \in SUBSET SUBSET S
      OBVIOUS
    <2> HIDE DEF P
    <2>2. QED BY <1>4, <2>1, SubsetInduction
  <1>6. QED BY <1>3, <1>5

\* Zeros add up to zero.
LEMMA SumOfZeros ==
  ASSUME NEW S, IsFiniteSet(S), NEW f \in [S -> Int], \A x \in S : f[x] = 0
  PROVE  SumFunction(f) = 0
  <1> DEFINE h == [t \in SUBSET S |-> 0]
  <1>1. IsSum(h, f, S)
    BY DEF IsSum
  <1> HIDE DEF h
  <1>2. SumFunction(f) = h[S]
    BY <1>1, SumIs
  <1>3. QED BY <1>2 DEF h

-----------------------------------------------------------------------------
(* Sequences of sequences                                                  *)

\* F has the first k of the sequences one after the other.
IsFlat(F, ss, S, n) ==
    /\ F \in [0 .. n -> Seq(S)]
    /\ F[0] = <<>>
    /\ \A k \in 1 .. n : F[k] = F[k - 1] \o ss[k]

\* There is such a function, and FlattenSeq is its last value.
LEMMA FlattenSteps ==
  ASSUME NEW S, NEW ss \in Seq(Seq(S))
  PROVE  \E F : IsFlat(F, ss, S, Len(ss)) /\ FlattenSeq(ss) = F[Len(ss)]
  <1> DEFINE n == Len(ss)
             P == {k \in 0 .. n : \E F : IsFlat(F, ss, S, k)}
  <1>1. n \in Nat /\ \A k \in 1 .. n : ss[k] \in Seq(S)
    OBVIOUS
  <1>2. 0 \in P
    <2>1. IsFlat([k \in 0 .. 0 |-> <<>>], ss, S, 0)
      <3>1. <<>> \in Seq(S)
        OBVIOUS
      <3>2. QED BY <3>1 DEF IsFlat
    <2>2. QED BY <1>1, <2>1
  <1>3. ASSUME NEW k \in 0 .. n - 1, k \in P PROVE k + 1 \in P
    <2>1. PICK F : IsFlat(F, ss, S, k)
      BY <1>3
    <2> DEFINE G == [j \in 0 .. k + 1 |-> IF j = k + 1 THEN F[k] \o ss[k + 1] ELSE F[j]]
    <2>2. k \in Nat /\ k + 1 \in 1 .. n /\ F[k] \in Seq(S) /\ ss[k + 1] \in Seq(S)
      BY <1>1, <2>1 DEF IsFlat
    <2>3. F[k] \o ss[k + 1] \in Seq(S)
      BY <2>2, ConcatProperties
    <2>4. G \in [0 .. k + 1 -> Seq(S)] /\ G[0] = <<>>
      BY <2>1, <2>2, <2>3 DEF IsFlat
    <2>5. ASSUME NEW j \in 1 .. k + 1 PROVE G[j] = G[j - 1] \o ss[j]
      <3>1. /\ F \in [0 .. k -> Seq(S)]
            /\ \A m \in 1 .. k : F[m] = F[m - 1] \o ss[m]
        BY <2>1 DEF IsFlat
      <3>2. j - 1 \in 0 .. k + 1 /\ j - 1 # k + 1 /\ j \in 0 .. k + 1
        BY <2>2
      <3>3. G[j - 1] = F[j - 1]
        BY <3>2
      <3>4. CASE j = k + 1
        <4>1. G[j] = F[k] \o ss[k + 1] /\ j - 1 = k
          <5>1. G[k + 1] = F[k] \o ss[k + 1] /\ (k + 1) - 1 = k
            <6>1. k + 1 \in 0 .. k + 1
              BY <2>2
            <6>2. (k + 1) - 1 = k
              BY <2>2
            <6>3. QED BY <6>1, <6>2
          <5> HIDE DEF G
          <5>2. QED BY <2>2, <3>4, <5>1
        <4>2. QED BY <3>3, <3>4, <4>1
      <3>5. CASE j # k + 1
        <4>1. j \in 1 .. k /\ G[j] = F[j]
          BY <2>2, <3>2, <3>5
        <4>2. QED BY <3>1, <3>3, <4>1
      <3>6. QED BY <3>4, <3>5
    <2> HIDE DEF G
    <2>6. IsFlat(G, ss, S, k + 1)
      BY <2>4, <2>5 DEF IsFlat
    <2>7. QED BY <2>2, <2>6
  <1>4. n \in P
    <2> HIDE DEF P
    <2>1. \A k \in 0 .. n : k \in P
      BY <1>1, <1>2, <1>3, UpTo
    <2>2. QED BY <1>1, <2>1
  <1>5. PICK F : IsFlat(F, ss, S, n)
    BY <1>4
  <1>6. CASE n = 0
    <2>1. ss = <<>> /\ FlattenSeq(ss) = ss
      BY <1>6 DEF FlattenSeq
    <2>2. QED BY <1>5, <1>6, <2>1 DEF IsFlat
  <1>7. CASE n # 0
    <2> DEFINE Picks(g) == g = [i \in 1 .. n |-> IF i = 1 THEN ss[i] ELSE g[i - 1] \o ss[i]]
               part == [i \in 1 .. n |-> F[i]]
    <2>1. Picks(part)
      <3>1. ASSUME NEW i \in 1 .. n
            PROVE  F[i] = IF i = 1 THEN ss[i] ELSE part[i - 1] \o ss[i]
        <4>1. F[i] = F[i - 1] \o ss[i]
          BY <1>5 DEF IsFlat
        <4>2. CASE i = 1
          <5>1. F[0] = <<>> /\ ss[1] \in Seq(S)
            BY <1>1, <1>5, <4>2 DEF IsFlat
          <5>2. <<>> \o ss[1] = ss[1]
            BY <5>1, ConcatEmptySeq
          <5> HIDE DEF part, P, n
          <5>4. i - 1 = 0
            BY <4>2
          <5>5. F[i] = F[0] \o ss[1]
            BY <4>1, <4>2, <5>4
          <5>3. F[i] = ss[i]
            BY <4>2, <5>1, <5>2, <5>5
          <5>6. QED BY <4>2, <5>3
        <4>3. CASE i # 1
          <5>1. i - 1 \in 1 .. n
            BY <4>3
          <5>2. part[i - 1] = F[i - 1]
            BY <5>1
          <5>3. QED BY <4>1, <4>3, <5>2
        <4>4. QED BY <4>2, <4>3
      <3>2. QED BY <3>1
    <2>2. ASSUME NEW g, Picks(g) PROVE g[n] = F[n]
      <3> DEFINE Q == {k \in 0 .. n : k = 0 \/ g[k] = part[k]}
      <3>1. 0 \in Q
        BY <1>1
      <3>2. ASSUME NEW k \in 0 .. n - 1, k \in Q PROVE k + 1 \in Q
        <4>1. k + 1 \in 1 .. n
          BY <1>1
        <4>2. /\ g[k + 1] = IF k + 1 = 1 THEN ss[k + 1] ELSE g[k] \o ss[k + 1]
              /\ part[k + 1] = IF k + 1 = 1 THEN ss[k + 1] ELSE part[k] \o ss[k + 1]
          <5>1. (k + 1) - 1 = k
            BY <1>1
          <5>2. g[k + 1] = IF k + 1 = 1 THEN ss[k + 1] ELSE g[(k + 1) - 1] \o ss[k + 1]
            BY <2>2, <4>1
          <5> HIDE DEF part
          <5>3. part[k + 1] = IF k + 1 = 1 THEN ss[k + 1] ELSE part[(k + 1) - 1] \o ss[k + 1]
            BY <2>1, <4>1
          <5>4. QED BY <5>1, <5>2, <5>3
        <4> HIDE DEF part, Picks
        <4>3. g[k + 1] = part[k + 1]
          BY <3>2, <4>1, <4>2
        <4>4. QED BY <4>1, <4>3
      <3>3. \A k \in 0 .. n : k \in Q
        <4> HIDE DEF Q
        <4>1. QED BY <1>1, <3>1, <3>2, UpTo
      <3>4. n \in Q /\ part[n] = F[n]
        <4>1. n \in 0 .. n /\ n \in 1 .. n
          BY <1>1, <1>7
        <4>2. part[n] = F[n]
          BY <4>1
        <4> HIDE DEF Q, part
        <4>3. QED BY <3>3, <4>1, <4>2
      <3>5. QED BY <1>7, <3>4
    <2>3. Picks(CHOOSE g : Picks(g))
      <3> HIDE DEF Picks, part
      <3>1. QED BY <2>1
    <2>4. FlattenSeq(ss) = (CHOOSE g : Picks(g))[n]
      BY <1>7 DEF FlattenSeq
    <2>5. FlattenSeq(ss) = F[n]
      <3> HIDE DEF Picks
      <3>1. QED BY <2>2, <2>3, <2>4
    <2>6. QED BY <1>5, <2>5
  <1>8. QED BY <1>6, <1>7

Earlier(r1, c1, r2, c2) == r1 < r2 \/ (r1 = r2 /\ c1 < c2)

\* s has the elements of the first n sequences of ss, each of them once and in
\* their order: its i-th is the one at col[i] in the sequence at row[i].
Places(row, col, ss, n, s) ==
    /\ \A i \in DOMAIN s : /\ row[i] \in 1 .. n
                           /\ col[i] \in DOMAIN ss[row[i]]
                           /\ s[i] = ss[row[i]][col[i]]
    /\ \A i, j \in DOMAIN s : i < j => Earlier(row[i], col[i], row[j], col[j])
    /\ \A k \in 1 .. n : \A j \in DOMAIN ss[k] : \E i \in DOMAIN s : row[i] = k /\ col[i] = j

\* One sequence more.
LEMMA PlacesNext ==
  ASSUME NEW S, NEW ss, NEW n \in Nat, ss[n + 1] \in Seq(S), NEW s \in Seq(S),
         NEW row, NEW col, Places(row, col, ss, n, s)
  PROVE  \E r, c : Places(r, c, ss, n + 1, s \o ss[n + 1])
  <1> DEFINE t == ss[n + 1]
             u == s \o t
             a == Len(s)
             b == Len(t)
             r == [i \in 1 .. a + b |-> IF i <= a THEN row[i] ELSE n + 1]
             c == [i \in 1 .. a + b |-> IF i <= a THEN col[i] ELSE i - a]
  <1>1. /\ a \in Nat /\ b \in Nat /\ DOMAIN s = 1 .. a /\ DOMAIN t = 1 .. b
        /\ DOMAIN u = 1 .. a + b
        /\ \A i \in 1 .. a + b : u[i] = IF i <= a THEN s[i] ELSE t[i - a]
    <2>1. t \in Seq(S)
      OBVIOUS
    <2> HIDE DEF t
    <2>2. /\ u \in Seq(S) /\ Len(u) = a + b
          /\ \A i \in 1 .. a + b : u[i] = IF i <= a THEN s[i] ELSE t[i - a]
      BY <2>1, ConcatProperties
    <2>3. QED BY <2>1, <2>2
  <1>2. /\ \A i \in 1 .. a : row[i] \in 1 .. n /\ col[i] \in DOMAIN ss[row[i]] /\ s[i] = ss[row[i]][col[i]]
        /\ \A i, j \in 1 .. a : i < j => Earlier(row[i], col[i], row[j], col[j])
        /\ \A k \in 1 .. n : \A j \in DOMAIN ss[k] : \E i \in 1 .. a : row[i] = k /\ col[i] = j
    <2> HIDE DEF t, u, a, b, r, c
    <2>1. DOMAIN s = 1 .. a
      BY <1>1
    <2>2. QED BY <2>1 DEF Places
  <1> HIDE DEF u
  <1>3. ASSUME NEW i \in 1 .. a + b
        PROVE  r[i] \in 1 .. n + 1 /\ c[i] \in DOMAIN ss[r[i]] /\ u[i] = ss[r[i]][c[i]]
    <2>1. CASE i <= a
      <3>1. i \in 1 .. a /\ r[i] = row[i] /\ c[i] = col[i] /\ u[i] = s[i]
        BY <1>1, <2>1
      <3>2. QED BY <1>2, <3>1
    <2>2. CASE ~(i <= a)
      <3>1. i - a \in 1 .. b /\ r[i] = n + 1 /\ c[i] = i - a /\ u[i] = t[i - a]
        BY <1>1, <2>2
      <3>2. QED BY <1>1, <3>1
    <2>3. QED BY <2>1, <2>2
  <1>4. ASSUME NEW i \in 1 .. a + b, NEW j \in 1 .. a + b, i < j
        PROVE  Earlier(r[i], c[i], r[j], c[j])
    <2>1. \A m \in 1 .. a + b : IF m <= a THEN m \in 1 .. a /\ r[m] = row[m] /\ c[m] = col[m] /\ row[m] \in 1 .. n
                                ELSE r[m] = n + 1 /\ c[m] = m - a
      BY <1>1, <1>2
    <2> HIDE DEF r, c
    <2>2. CASE j <= a
      <3>1. i <= a
        BY <1>1, <1>4, <2>2
      <3>2. i \in 1 .. a /\ j \in 1 .. a /\ r[i] = row[i] /\ c[i] = col[i] /\ r[j] = row[j] /\ c[j] = col[j]
        BY <2>1, <2>2, <3>1
      <3>3. QED BY <1>2, <1>4, <3>2
    <2>3. CASE ~(j <= a) /\ i <= a
      <3>1. r[i] \in 1 .. n /\ r[j] = n + 1
        BY <2>1, <2>3
      <3>2. QED BY <3>1 DEF Earlier
    <2>4. CASE ~(j <= a) /\ ~(i <= a)
      <3>1. r[i] = r[j] /\ c[i] = i - a /\ c[j] = j - a
        BY <2>1, <2>4
      <3>2. QED BY <1>1, <1>4, <3>1 DEF Earlier
    <2>5. QED BY <2>2, <2>3, <2>4
  <1>5. ASSUME NEW k \in 1 .. n + 1, NEW j \in DOMAIN ss[k]
        PROVE  \E i \in 1 .. a + b : r[i] = k /\ c[i] = j
    <2>1. CASE k = n + 1
      <3>1. j \in 1 .. b
        BY <1>1, <2>1
      <3>2. a + j \in 1 .. a + b /\ ~(a + j <= a) /\ (a + j) - a = j
        BY <1>1, <3>1
      <3>3. r[a + j] = n + 1 /\ c[a + j] = j
        BY <3>2
      <3>4. QED BY <2>1, <3>2, <3>3
    <2>2. CASE k # n + 1
      <3>1. PICK i \in 1 .. a : row[i] = k /\ col[i] = j
        BY <1>2, <2>2
      <3>2. i \in 1 .. a + b /\ i <= a
        BY <1>1
      <3>3. QED BY <3>1, <3>2
    <2>3. QED BY <2>1, <2>2
  <1> HIDE DEF r, c
  <1>6. Places(r, c, ss, n + 1, u)
    BY <1>1, <1>3, <1>4, <1>5 DEF Places
  <1>7. QED BY <1>6 DEF u

\* Flattened, the sequences keep every element once.
LEMMA FlattenPlaces ==
  ASSUME NEW S, NEW ss \in Seq(Seq(S))
  PROVE  /\ FlattenSeq(ss) \in Seq(S)
         /\ \E row, col : Places(row, col, ss, Len(ss), FlattenSeq(ss))
  <1> DEFINE n == Len(ss)
  <1>1. PICK F : IsFlat(F, ss, S, n) /\ FlattenSeq(ss) = F[n]
    BY FlattenSteps
  <1> DEFINE P == {k \in 0 .. n : \E row, col : Places(row, col, ss, k, F[k])}
  <1>2. n \in Nat /\ \A k \in 1 .. n : ss[k] \in Seq(S)
    OBVIOUS
  <1>3. 0 \in P
    <2>1. F[0] = <<>> /\ DOMAIN F[0] = {}
      BY <1>1 DEF IsFlat
    <2>2. Places(<<>>, <<>>, ss, 0, F[0])
      BY <2>1 DEF Places
    <2>3. QED BY <1>2, <2>2
  <1>4. ASSUME NEW k \in 0 .. n - 1, k \in P PROVE k + 1 \in P
    <2>1. PICK row, col : Places(row, col, ss, k, F[k])
      BY <1>4
    <2>2. k \in Nat /\ k + 1 \in 1 .. n /\ ss[k + 1] \in Seq(S) /\ F[k] \in Seq(S)
          /\ F[k + 1] = F[k] \o ss[k + 1]
      <3>1. k \in Nat /\ k + 1 \in 1 .. n /\ (k + 1) - 1 = k
        BY <1>2
      <3>2. F[k + 1] = F[(k + 1) - 1] \o ss[k + 1] /\ F[k] \in Seq(S)
        <4>1. /\ F \in [0 .. n -> Seq(S)]
              /\ \A m \in 1 .. n : F[m] = F[m - 1] \o ss[m]
          BY <1>1 DEF IsFlat
        <4>2. k \in 0 .. n
          BY <1>2
        <4> HIDE DEF n, P
        <4>3. QED BY <3>1, <4>1, <4>2
      <3>3. QED BY <1>2, <3>1, <3>2
    <2>3. \E r, c : Places(r, c, ss, k + 1, F[k] \o ss[k + 1])
      BY <2>1, <2>2, PlacesNext
    <2>4. k + 1 \in 0 .. n /\ F[k + 1] = F[k] \o ss[k + 1]
      BY <2>2
    <2> HIDE DEF n
    <2>5. QED BY <2>3, <2>4
  <1>5. n \in P
    <2>1. n \in 0 .. n
      BY <1>2
    <2> HIDE DEF P
    <2>2. \A k \in 0 .. n : k \in P
      BY <1>2, <1>3, <1>4, UpTo
    <2>3. QED BY <2>1, <2>2
  <1>6. F[n] \in Seq(S)
    BY <1>1, <1>2 DEF IsFlat
  <1>7. QED BY <1>1, <1>5, <1>6

\* What it has are the elements of all of them.
LEMMA FlattenRange ==
  ASSUME NEW S, NEW ss \in Seq(Seq(S))
  PROVE  ToSet(FlattenSeq(ss)) = UNION {ToSet(ss[k]) : k \in DOMAIN ss}
  <1>1. PICK row, col : Places(row, col, ss, Len(ss), FlattenSeq(ss))
    BY FlattenPlaces
  <1>2. DOMAIN ss = 1 .. Len(ss)
    OBVIOUS
  <1> DEFINE s == FlattenSeq(ss)
  <1> HIDE DEF s
  <1>3. /\ \A i \in DOMAIN s : row[i] \in DOMAIN ss /\ col[i] \in DOMAIN ss[row[i]] /\ s[i] = ss[row[i]][col[i]]
        /\ \A k \in DOMAIN ss : \A j \in DOMAIN ss[k] :
              \E i \in DOMAIN s : row[i] = k /\ col[i] = j /\ s[i] = ss[k][j]
    BY <1>1, <1>2 DEF Places, s
  <1>4. ASSUME NEW x \in ToSet(s) PROVE x \in UNION {ToSet(ss[k]) : k \in DOMAIN ss}
    <2>1. PICK i \in DOMAIN s : x = s[i]
      BY DEF ToSet
    <2>2. x \in ToSet(ss[row[i]])
      BY <1>3, <2>1 DEF ToSet
    <2>3. QED BY <1>3, <2>2
  <1>5. ASSUME NEW k \in DOMAIN ss, NEW x \in ToSet(ss[k]) PROVE x \in ToSet(s)
    <2>1. PICK j \in DOMAIN ss[k] : x = ss[k][j]
      BY DEF ToSet
    <2>2. PICK i \in DOMAIN s : s[i] = ss[k][j]
      BY <1>3
    <2>3. QED BY <2>1, <2>2 DEF ToSet
  <1>6. QED BY <1>4, <1>5 DEF s

\* A sequence, of whatever.
IsSeq(s) == s \in Seq(ToSet(s))

\* A sequence over a set is one over its elements.
LEMMA SeqIsSeq ==
  ASSUME NEW S, NEW s \in Seq(S) PROVE IsSeq(s)
  <1>1. Len(s) \in Nat /\ s \in [1 .. Len(s) -> ToSet(s)]
    BY DEF ToSet
  <1>2. QED BY <1>1 DEF IsSeq

\* A function on an interval from 1 is a sequence.
LEMMA FunctionIsSeq ==
  ASSUME NEW n \in Nat, NEW s, s = [k \in 1 .. n |-> s[k]]
  PROVE  IsSeq(s) /\ DOMAIN s = 1 .. n /\ Len(s) = n
  <1>1. DOMAIN s = 1 .. n
    OBVIOUS
  <1>2. s \in [1 .. n -> ToSet(s)]
    BY <1>1 DEF ToSet
  <1>3. s \in Seq(ToSet(s)) /\ Len(s) = n
    BY <1>2
  <1>4. QED BY <1>1, <1>3 DEF IsSeq

\* The length, the domain and the elements of a sequence.
LEMMA SeqFacts ==
  ASSUME NEW s, IsSeq(s)
  PROVE  /\ Len(s) \in Nat /\ DOMAIN s = 1 .. Len(s)
         /\ s = <<>> <=> Len(s) = 0
         /\ s = <<>> <=> ToSet(s) = {}
         /\ s = [k \in 1 .. Len(s) |-> s[k]]
  <1>1. s \in Seq(ToSet(s))
    BY DEF IsSeq
  <1>2. Len(s) \in Nat /\ DOMAIN s = 1 .. Len(s)
    BY <1>1
  <1>3. s = <<>> <=> Len(s) = 0
    BY <1>1
  <1>4. s = <<>> <=> ToSet(s) = {}
    <2>1. s # <<>> => 1 \in DOMAIN s
      BY <1>2, <1>3
    <2>2. s = <<>> => DOMAIN s = {}
      BY <1>2, <1>3
    <2>3. ToSet(s) = {} <=> DOMAIN s = {}
      BY DEF ToSet
    <2>4. QED BY <2>1, <2>2, <2>3
  <1>5. s = [k \in 1 .. Len(s) |-> s[k]]
    BY <1>1
  <1>6. QED BY <1>2, <1>3, <1>4, <1>5

\* The same of sequences of whatever.
LEMMA FlattenSequences ==
  ASSUME NEW ss, IsSeq(ss), \A k \in DOMAIN ss : IsSeq(ss[k])
  PROVE  /\ IsSeq(FlattenSeq(ss))
         /\ \E row, col : Places(row, col, ss, Len(ss), FlattenSeq(ss))
         /\ ToSet(FlattenSeq(ss)) = UNION {ToSet(ss[k]) : k \in DOMAIN ss}
  <1> DEFINE S == UNION {ToSet(ss[k]) : k \in DOMAIN ss}
  <1>1. Len(ss) \in Nat /\ DOMAIN ss = 1 .. Len(ss) /\ ss = [k \in 1 .. Len(ss) |-> ss[k]]
    BY SeqFacts
  <1>2. \A k \in DOMAIN ss : ss[k] \in Seq(S)
    <2> TAKE k \in DOMAIN ss
    <2>1. ss[k] \in Seq(ToSet(ss[k])) /\ ToSet(ss[k]) \subseteq S
      BY DEF IsSeq
    <2> DEFINE t == ss[k]
               T == ToSet(ss[k])
    <2> HIDE DEF S, t, T
    <2>2. \A s \in Seq(T) : T \subseteq S => s \in Seq(S)
      OBVIOUS
    <2>3. QED BY <2>1, <2>2 DEF T
  <1> HIDE DEF S
  <1>3. ss \in [1 .. Len(ss) -> Seq(S)]
    BY <1>1, <1>2
  <1>4. ss \in Seq(Seq(S))
    BY <1>1, <1>3
  <1>5. FlattenSeq(ss) \in Seq(S)
    BY <1>4, FlattenPlaces
  <1>6. QED BY <1>4, <1>5, FlattenPlaces, FlattenRange, SeqIsSeq

\* A place is one element's only, and elements are in the order of their places.
LEMMA PlacesOnce ==
  ASSUME NEW ss, IsSeq(ss), \A k \in DOMAIN ss : IsSeq(ss[k]), NEW s, IsSeq(s),
         NEW row, NEW col, Places(row, col, ss, Len(ss), s)
  PROVE  /\ \A i \in DOMAIN s : row[i] \in Nat /\ col[i] \in Nat /\ i \in Nat
         /\ \A i, j \in DOMAIN s : row[i] = row[j] /\ col[i] = col[j] => i = j
         /\ \A i, j \in DOMAIN s : Earlier(row[i], col[i], row[j], col[j]) => i < j
  <1>1. \A i \in DOMAIN s : row[i] \in Nat /\ col[i] \in Nat /\ i \in Nat
    <2> TAKE i \in DOMAIN s
    <2>1. row[i] \in 1 .. Len(ss) /\ col[i] \in DOMAIN ss[row[i]]
      BY DEF Places
    <2>2. Len(ss) \in Nat /\ DOMAIN ss = 1 .. Len(ss) /\ Len(s) \in Nat /\ DOMAIN s = 1 .. Len(s)
      BY SeqFacts
    <2>3. IsSeq(ss[row[i]])
      BY <2>1, <2>2
    <2>4. col[i] \in 1 .. Len(ss[row[i]]) /\ Len(ss[row[i]]) \in Nat
      BY <2>1, <2>3, SeqFacts
    <2>5. QED BY <2>1, <2>2, <2>4
  <1>2. \A i, j \in DOMAIN s : i < j => Earlier(row[i], col[i], row[j], col[j])
    BY DEF Places
  <1>3. QED BY <1>1, <1>2 DEF Earlier

-----------------------------------------------------------------------------
(* Counting                                                                *)

\* A sequence of different things has as many of them as it is long.
LEMMA DistinctCount ==
  ASSUME NEW n \in Nat, NEW f, DOMAIN f = 1 .. n, \A j, k \in 1 .. n : j # k => f[j] # f[k]
  PROVE  IsFiniteSet({f[k] : k \in 1 .. n}) /\ Cardinality({f[k] : k \in 1 .. n}) = n
  <1> DEFINE S == {f[k] : k \in 1 .. n}
             g == [k \in 1 .. n |-> f[k]]
  <1>1. g \in Bijection(1 .. n, S)
    BY DEF Bijection, Injection, Surjection, IsInjective
  <1>2. IsFiniteSet(1 .. n) /\ Cardinality(1 .. n) = n
    BY FS_Interval
  <1> HIDE DEF g, S
  <1>3. IsFiniteSet(S) /\ Cardinality(S) = Cardinality(1 .. n)
    BY <1>1, <1>2, FS_Bijection DEF ExistsBijection
  <1>4. QED BY <1>2, <1>3 DEF S

-----------------------------------------------------------------------------
(* Pieces of equal size                                                    *)

\* Whole and rest.
LEMMA DivFacts ==
  ASSUME NEW a \in Int, NEW s \in Nat \ {0}
  PROVE  a \div s \in Int /\ (a \div s) * s <= a /\ a < (a \div s) * s + s
  OBVIOUS

\* A larger number of pieces is at least as large.
LEMMA Multiples ==
  ASSUME NEW a \in Int, NEW b \in Int, a <= b, NEW s \in Nat
  PROVE  a * s \in Int /\ b * s \in Int /\ a * s <= b * s
  OBVIOUS

\* With n pieces of size s, the last perhaps shorter, there is a piece for each
\* of the numbers up to m, and every piece has one of them.
LEMMA Pieces ==
  ASSUME NEW m \in Nat \ {0}, NEW s \in Nat \ {0}
  PROVE  LET n == (m + s - 1) \div s
         IN  /\ n \in Nat \ {0}
             /\ \A k \in 1 .. n : (k - 1) * s \in Nat /\ (k - 1) * s + 1 <= m /\ k * s = (k - 1) * s + s
             /\ \A j, k \in 1 .. n : j < k => j * s <= (k - 1) * s
             /\ \A j \in 1 .. m : \E k \in 1 .. n : (k - 1) * s + 1 <= j /\ j <= k * s
  <1> DEFINE n == (m + s - 1) \div s
  <1>1. n \in Int /\ n * s <= m + s - 1 /\ m + s - 1 < n * s + s
    BY DivFacts
  <1> HIDE DEF n
  <1>2. n \in Nat \ {0}
    <2>1. CASE n <= 0
      <3>1. n * s <= 0 * s
        BY <1>1, <2>1, Multiples
      <3>2. n * s <= 0 /\ n * s \in Int
        BY <1>1, <3>1
      <3>3. QED BY <1>1, <3>2
    <2>2. QED BY <1>1, <2>1
  <1>3. ASSUME NEW k \in 1 .. n
        PROVE  (k - 1) * s \in Nat /\ (k - 1) * s + 1 <= m /\ k * s = (k - 1) * s + s
    <2>1. k \in Int /\ k - 1 \in Int /\ 0 <= k - 1 /\ k <= n
      BY <1>2
    <2>2. k * s = (k - 1) * s + s
      BY <2>1
    <2>3. 0 * s <= (k - 1) * s /\ (k - 1) * s \in Int
      BY <2>1, Multiples
    <2>4. k * s <= n * s /\ n * s \in Int /\ k * s \in Int
      BY <1>1, <2>1, Multiples
    <2>5. 0 * s = 0
      OBVIOUS
    <2>6. QED BY <1>1, <2>2, <2>3, <2>4, <2>5
  <1>4. ASSUME NEW j \in 1 .. n, NEW k \in 1 .. n, j < k PROVE j * s <= (k - 1) * s
    <2>1. j \in Int /\ k - 1 \in Int /\ j <= k - 1
      BY <1>2, <1>4
    <2>2. QED BY <2>1, Multiples
  <1>5. ASSUME NEW j \in 1 .. m
        PROVE  \E k \in 1 .. n : (k - 1) * s + 1 <= j /\ j <= k * s
    <2> DEFINE q == (j - 1) \div s
    <2>1. q \in Int /\ q * s <= j - 1 /\ j - 1 < q * s + s
      <3>1. j - 1 \in Int
        OBVIOUS
      <3>2. QED BY <3>1, DivFacts
    <2> HIDE DEF q
    <2>2. (q + 1) - 1 = q /\ q + 1 \in Int /\ (q + 1) * s = q * s + s /\ q * s \in Int
      BY <2>1
    <2>3. 0 <= q
      <3>1. CASE q + 1 <= 0
        <4>1. (q + 1) * s <= 0 * s /\ 0 * s = 0
          BY <2>2, <3>1, Multiples
        <4>2. QED BY <2>1, <2>2, <4>1
      <3>2. QED BY <2>1, <3>1
    <2>4. q + 1 <= n
      <3>1. CASE n + 1 <= q + 1
        <4>1. (n + 1) * s <= (q + 1) * s
          BY <1>1, <2>2, <3>1, Multiples
        <4>2. (n + 1) * s = n * s + s /\ n * s \in Int
          BY <1>1
        <4>3. QED BY <1>1, <2>1, <2>2, <4>1, <4>2
      <3>2. QED BY <1>1, <2>2, <3>1
    <2>5. q + 1 \in 1 .. n /\ ((q + 1) - 1) * s + 1 <= j /\ j <= (q + 1) * s
      BY <1>2, <2>1, <2>2, <2>3, <2>4
    <2>6. QED BY <2>5
  <1>6. QED BY <1>2, <1>3, <1>4, <1>5 DEF n
=============================================================================
