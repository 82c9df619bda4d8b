-------------------------- MODULE StatisticsProofs --------------------------
(***************************************************************************)
(* The figures of a lottery are what they are called, for every archive,   *)
(* every rule set and every number.                                        *)
(*                                                                         *)
(* The sums and the loop of the code are recursive functions.  That they   *)
(* exist, and what they compute, is proved by induction over the natural   *)
(* numbers and over finite sets, in a form that speaks of sets instead of  *)
(* predicates.                                                             *)
(***************************************************************************)
EXTENDS Statistics, TicketRulesProofs

-----------------------------------------------------------------------------
(* Induction.                                                              *)

(* A set that contains 0 and every successor contains the numbers.         *)
LEMMA NaturalSets ==
  ASSUME NEW P, 0 \in P, \A n \in Nat : n \in P => n + 1 \in P
  PROVE  Nat \subseteq P
<1> SUFFICES ASSUME Nat \ P # {} PROVE FALSE OBVIOUS
<1>1. PICK n \in Nat \ P : \A m \in Nat \ P : n <= m
  <2>1. Nat \ P \in SUBSET Nat OBVIOUS
  <2> QED BY <2>1, LeastExists
<1>2. n # 0 /\ n - 1 \in Nat BY <1>1
<1>3. n - 1 \in P BY <1>1, <1>2
<1>4. n \in P
  <2>1. (n - 1) + 1 = n BY <1>1
  <2> QED BY <1>2, <1>3, <2>1
<1> QED BY <1>1, <1>4

LEMMA NotEmpty ==
  ASSUME NEW T, NEW n \in Nat, Cardinality(T) = n + 1
  PROVE  T # {}
<1>1. Cardinality({}) = 0 BY FS_EmptySet
<1>2. n + 1 # 0 OBVIOUS
<1> QED BY <1>1, <1>2

LEMMA OneLess ==
  ASSUME NEW T, IsFiniteSet(T), NEW x \in T, NEW n, n \in Nat, Cardinality(T) = n + 1
  PROVE  Cardinality(T \ {x}) = n
<1>1. Cardinality(T \ {x}) = Cardinality(T) - 1 BY FS_RemoveElement
<1> QED BY <1>1

LEMMA TwoTogether ==
  ASSUME NEW A, NEW B, IsFiniteSet(A), IsFiniteSet(B), A \cap B = {}
  PROVE  /\ IsFiniteSet(A \cup B) /\ Cardinality(A) \in Nat /\ Cardinality(B) \in Nat
         /\ Cardinality(A \cup B) = Cardinality(A) + Cardinality(B)
<1>1. Cardinality(A \cap B) = 0 BY FS_EmptySet
<1>2. Cardinality(A) \in Nat /\ Cardinality(B) \in Nat BY FS_CardinalityType
<1>3. /\ IsFiniteSet(A \cup B)
      /\ Cardinality(A \cup B) = Cardinality(A) + Cardinality(B) - Cardinality(A \cap B)
  BY FS_Union
<1> QED BY <1>1, <1>2, <1>3

(* A set of subsets that grows by every element contains the whole set.    *)
LEMMA SubsetsOfFinite ==
  ASSUME NEW S, IsFiniteSet(S), NEW P, {} \in P,
         \A T \in SUBSET S : \A x \in S \ T : T \in P => T \cup {x} \in P
  PROVE  S \in P
<1> DEFINE Q == {n \in Nat : \A T \in SUBSET S : Cardinality(T) = n => T \in P}
<1>0. \A T \in SUBSET S : IsFiniteSet(T) /\ Cardinality(T) \in Nat
  BY FS_Subset, FS_CardinalityType
<1>1. 0 \in Q
  <2>1. ASSUME NEW T \in SUBSET S, Cardinality(T) = 0 PROVE T \in P
    <3>1. T = {} BY <1>0, <2>1, FS_EmptySet
    <3> QED BY <3>1
  <2> QED BY <2>1
<1>2. ASSUME NEW n \in Nat, n \in Q PROVE n + 1 \in Q
  <2>1. ASSUME NEW T \in SUBSET S, Cardinality(T) = n + 1 PROVE T \in P
    <3>1. T # {} BY <2>1, NotEmpty
    <3>2. PICK x \in T : TRUE BY <3>1
    <3>3. PICK U : U = T \ {x} OBVIOUS
    <3>4. Cardinality(U) = n BY <1>0, <2>1, <3>3, OneLess
    <3>5. U \in SUBSET S /\ U \in P BY <1>2, <3>3, <3>4
    <3>6. x \in S \ U /\ T = U \cup {x} BY <3>3
    <3> QED BY <3>5, <3>6
  <2> QED BY <2>1
<1>3. Nat \subseteq Q
  <2> HIDE DEF Q
  <2> QED BY <1>1, <1>2, NaturalSets
<1>4. Cardinality(S) \in Q BY <1>0, <1>3
<1> QED BY <1>4

(* The image of a finite set.                                              *)
LEMMA FiniteImage ==
  ASSUME NEW S, IsFiniteSet(S), NEW f, NEW T, T = {f[x] : x \in S}
  PROVE  IsFiniteSet(T)
<1>1. PICK g : g = [x \in S |-> f[x]] OBVIOUS
<1>2. g \in Surjection(S, T) BY <1>1 DEF Surjection
<1> QED BY <1>2, FS_Surjection

-----------------------------------------------------------------------------
(* Sums.                                                                   *)

(* h adds up f over every subset of S, in the order MapThenSumSet takes.   *)
AddsUp(S, f, h) ==
    h = [s \in SUBSET S |-> IF s = {} THEN 0
                            ELSE f[CHOOSE x \in s : TRUE] + h[s \ {CHOOSE x \in s : TRUE}]]

LEMMA SumExists ==
  ASSUME NEW S, IsFiniteSet(S), NEW f
  PROVE  \E h : AddsUp(S, f, h)
<1> DEFINE Pick(s) == CHOOSE x \in s : TRUE
           Value(h, s) == IF s = {} THEN 0 ELSE f[Pick(s)] + h[s \ {Pick(s)}]
           Upto(h, n) == \A s \in SUBSET S : Cardinality(s) <= n => h[s] = Value(h, s)
           Q == {n \in Nat : \E h : Upto(h, n)}
<1>0. \A s \in SUBSET S : /\ IsFiniteSet(s) /\ Cardinality(s) \in Nat
                          /\ Cardinality(s) = 0 <=> s = {}
                          /\ s # {} => /\ Pick(s) \in s
                                       /\ Cardinality(s \ {Pick(s)}) = Cardinality(s) - 1
  <2> SUFFICES ASSUME NEW s \in SUBSET S
               PROVE  /\ IsFiniteSet(s) /\ Cardinality(s) \in Nat
                      /\ Cardinality(s) = 0 <=> s = {}
                      /\ s # {} => /\ Pick(s) \in s
                                   /\ Cardinality(s \ {Pick(s)}) = Cardinality(s) - 1
    OBVIOUS
  <2>1. IsFiniteSet(s) /\ Cardinality(s) \in Nat BY FS_Subset, FS_CardinalityType
  <2>2. Cardinality(s) = 0 <=> s = {} BY <2>1, FS_EmptySet
  <2>3. s # {} => Pick(s) \in s OBVIOUS
  <2> HIDE DEF Pick
  <2> QED BY <2>1, <2>2, <2>3, FS_RemoveElement
<1> HIDE DEF Pick
<1>1. 0 \in Q
  <2>1. PICK h : h = [s \in SUBSET S |-> 0] OBVIOUS
  <2>2. ASSUME NEW s \in SUBSET S, Cardinality(s) <= 0 PROVE h[s] = Value(h, s)
    <3>0. Cardinality(s) \in Nat BY <1>0
    <3>1. Cardinality(s) = 0 BY <3>0, <2>2
    <3>2. s = {} BY <1>0, <3>1
    <3> QED BY <2>1, <3>2
  <2>3. Upto(h, 0) BY <2>2
  <2> QED BY <2>3
<1>2. ASSUME NEW n \in Nat, n \in Q PROVE n + 1 \in Q
  <2>1. PICK h : Upto(h, n) BY <1>2
  <2>2. PICK g : g = [s \in SUBSET S |-> IF Cardinality(s) <= n THEN h[s] ELSE Value(h, s)]
    OBVIOUS
  <2>3. ASSUME NEW s \in SUBSET S, Cardinality(s) <= n + 1 PROVE g[s] = Value(g, s)
    <3>1. g[s] = Value(h, s) BY <2>1, <2>2
    <3>2. ASSUME s # {} PROVE g[s \ {Pick(s)}] = h[s \ {Pick(s)}]
      <4>1. s \ {Pick(s)} \in SUBSET S /\ Cardinality(s \ {Pick(s)}) <= n
        BY <1>0, <2>3, <3>2
      <4> QED BY <2>2, <4>1
    <3> QED BY <3>1, <3>2
  <2>4. Upto(g, n + 1) BY <2>3
  <2>5. n + 1 \in Nat OBVIOUS
  <2> HIDE DEF Upto
  <2> QED BY <2>4, <2>5
<1>3. Cardinality(S) \in Q
  <2>1. Nat \subseteq Q
    <3> HIDE DEF Q
    <3> QED BY <1>1, <1>2, NaturalSets
  <2> QED BY <1>0, <2>1
<1>4. PICK h : Upto(h, Cardinality(S)) BY <1>3
<1>5. PICK g : g = [s \in SUBSET S |-> h[s]] OBVIOUS
<1>6. ASSUME NEW s \in SUBSET S PROVE g[s] = Value(g, s)
  <2>1. Cardinality(s) <= Cardinality(S) BY FS_Subset
  <2>2. h[s] = Value(h, s) BY <1>4, <2>1
  <2>3. s \ {Pick(s)} \in SUBSET S OBVIOUS
  <2> QED BY <1>5, <2>2, <2>3
<1>7. g = [s \in SUBSET S |-> Value(g, s)] BY <1>5, <1>6
<1> QED BY <1>7 DEF AddsUp, Pick

(* The sizes of disjoint parts add up to that of their union.              *)
LEMMA SizesAddUp ==
  ASSUME NEW S, IsFiniteSet(S), NEW f, NEW h, AddsUp(S, f, h), NEW Part,
         \A x \in S : IsFiniteSet(Part[x]) /\ f[x] = Cardinality(Part[x]),
         \A x, y \in S : x # y => Part[x] \cap Part[y] = {}
  PROVE  /\ IsFiniteSet(UNION {Part[x] : x \in S})
         /\ h[S] = Cardinality(UNION {Part[x] : x \in S})
<1> DEFINE All(T) == UNION {Part[x] : x \in T}
           Holds(T) == IsFiniteSet(All(T)) /\ h[T] = Cardinality(All(T))
           Q == {n \in Nat : \A T \in SUBSET S : Cardinality(T) = n => Holds(T)}
<1>0. \A T \in SUBSET S : IsFiniteSet(T) /\ Cardinality(T) \in Nat
  BY FS_Subset, FS_CardinalityType
<1>1. 0 \in Q
  <2>1. ASSUME NEW T \in SUBSET S, Cardinality(T) = 0 PROVE Holds(T)
    <3>1. T = {} BY <1>0, <2>1, FS_EmptySet
    <3>2. All(T) = {} BY <3>1
    <3>3. h[T] = 0 BY <3>1 DEF AddsUp
    <3> QED BY <3>2, <3>3, FS_EmptySet
  <2> QED BY <2>1
<1>2. ASSUME NEW n \in Nat, n \in Q PROVE n + 1 \in Q
  <2>1. ASSUME NEW T \in SUBSET S, Cardinality(T) = n + 1 PROVE Holds(T)
    <3>1. T # {} BY <2>1, NotEmpty
    <3>2. PICK x : x = CHOOSE y \in T : TRUE OBVIOUS
    <3>3. x \in T BY <3>1, <3>2
    <3>4. PICK U : U = T \ {x} OBVIOUS
    <3>5. Cardinality(U) = n BY <1>0, <2>1, <3>3, <3>4, OneLess
    <3>6. Holds(U) BY <1>2, <3>4, <3>5
    <3>7. h[T] = f[x] + h[U] BY <3>1, <3>2, <3>4 DEF AddsUp
    <3>8. PICK A, B : A = All(U) /\ B = Part[x] OBVIOUS
    <3>9. All(T) = A \cup B /\ A \cap B = {} BY <3>3, <3>4, <3>8
    <3>10. IsFiniteSet(A) /\ IsFiniteSet(B) /\ h[U] = Cardinality(A) /\ f[x] = Cardinality(B)
      BY <3>3, <3>6, <3>8
    <3>11. /\ IsFiniteSet(A \cup B) /\ Cardinality(A) \in Nat /\ Cardinality(B) \in Nat
           /\ Cardinality(A \cup B) = Cardinality(A) + Cardinality(B)
      BY <3>9, <3>10, TwoTogether
    <3>12. h[T] = Cardinality(A \cup B) BY <3>7, <3>10, <3>11
    <3> QED BY <3>9, <3>11, <3>12
  <2> QED BY <2>1
<1>3. Nat \subseteq Q
  <2> HIDE DEF Q
  <2> QED BY <1>1, <1>2, NaturalSets
<1>4. Cardinality(S) \in Q BY <1>0, <1>3
<1> QED BY <1>4

-----------------------------------------------------------------------------
(* Pairs.                                                                  *)

LEMMA PairsWithOne ==
  ASSUME NEW T, IsFiniteSet(T), NEW x, x \notin T
  PROVE  /\ IsFiniteSet({{x, y} : y \in T})
         /\ Cardinality({{x, y} : y \in T}) = Cardinality(T)
<1> DEFINE Pairs(U) == {{x, y} : y \in U}
           P == {U \in SUBSET T : IsFiniteSet(Pairs(U)) /\ Cardinality(Pairs(U)) = Cardinality(U)}
<1>1. {} \in P
  <2>1. Pairs({}) = {} OBVIOUS
  <2> QED BY <2>1, FS_EmptySet
<1>2. ASSUME NEW U \in SUBSET T, NEW z \in T \ U, U \in P PROVE U \cup {z} \in P
  <2>1. PICK A : A = Pairs(U) OBVIOUS
  <2>2. Pairs(U \cup {z}) = A \cup {{x, z}} BY <2>1
  <2>3. {x, z} \notin A
    <3>1. ASSUME NEW y \in U PROVE {x, y} # {x, z} BY <3>1
    <3> QED BY <2>1, <3>1
  <2>4. IsFiniteSet(A) /\ Cardinality(A) = Cardinality(U) BY <1>2, <2>1
  <2>5. IsFiniteSet(A \cup {{x, z}}) /\ Cardinality(A \cup {{x, z}}) = Cardinality(A) + 1
    BY <2>3, <2>4, FS_AddElement
  <2>6. IsFiniteSet(U) BY FS_Subset
  <2>7. Cardinality(U \cup {z}) = Cardinality(U) + 1 BY <2>6, FS_AddElement
  <2> QED BY <2>2, <2>4, <2>5, <2>7
<1>3. T \in P
  <2> HIDE DEF P
  <2> QED BY <1>1, <1>2, SubsetsOfFinite
<1> QED BY <1>3

(* A pair that contains x is x and another.                                *)
LEMMA PairsSplit ==
  ASSUME NEW T, IsFiniteSet(T), NEW x, x \notin T
  PROVE  /\ kSubset(2, T \cup {x}) = kSubset(2, T) \cup {{x, y} : y \in T}
         /\ kSubset(2, T) \cap {{x, y} : y \in T} = {}
<1>0. IsFiniteSet(T \cup {x}) BY FS_AddElement
<1>1. ASSUME NEW s \in kSubset(2, T \cup {x}), x \in s PROVE \E y \in T : s = {x, y}
  <2>1. s \in SUBSET (T \cup {x}) /\ Cardinality(s) = 1 + 1 BY DEF kSubset
  <2>2. IsFiniteSet(s) BY <1>0, <2>1, FS_Subset
  <2>3. Cardinality(s \ {x}) = 1 BY <1>1, <2>1, <2>2, OneLess
  <2>4. IsFiniteSet(s \ {x}) BY <2>2, FS_RemoveElement
  <2>5. PICK y : s \ {x} = {y} BY <2>3, <2>4, FS_Singleton
  <2>6. y \in T BY <2>1, <2>5
  <2>7. s = {x, y} BY <1>1, <2>5
  <2> QED BY <2>6, <2>7
<1>2. ASSUME NEW y \in T PROVE {x, y} \in kSubset(2, T \cup {x})
  <2>1. IsFiniteSet({x}) /\ Cardinality({x}) = 1 BY FS_Singleton
  <2>2. y \notin {x} /\ {x, y} = {x} \cup {y} OBVIOUS
  <2>3. Cardinality({x} \cup {y}) = 1 + 1 BY <2>1, <2>2, FS_AddElement
  <2> QED BY <2>2, <2>3 DEF kSubset
<1> QED BY <1>1, <1>2 DEF kSubset

LEMMA Halves ==
  ASSUME NEW n \in Nat
  PROVE  ((n + 1) * ((n + 1) - 1)) \div 2 = (n * (n - 1)) \div 2 + n
<1>1. PICK a \in Int : a = n * (n - 1) OBVIOUS
<1>2. (n + 1) * ((n + 1) - 1) = a + 2 * n BY <1>1
<1>3. (a + 2 * n) \div 2 = a \div 2 + n OBVIOUS
<1> QED BY <1>1, <1>2, <1>3

(* n things make n (n - 1) / 2 pairs.                                      *)
LEMMA PairsCounted ==
  ASSUME NEW S, IsFiniteSet(S)
  PROVE  /\ IsFiniteSet(kSubset(2, S))
         /\ Cardinality(kSubset(2, S)) = (Cardinality(S) * (Cardinality(S) - 1)) \div 2
<1> DEFINE P == {T \in SUBSET S :
                   /\ IsFiniteSet(kSubset(2, T))
                   /\ Cardinality(kSubset(2, T)) = (Cardinality(T) * (Cardinality(T) - 1)) \div 2}
<1>1. {} \in P
  <2>1. Cardinality({}) = 0 BY FS_EmptySet
  <2>2. kSubset(2, {}) = {} BY <2>1 DEF kSubset
  <2>3. (0 * (0 - 1)) \div 2 = 0 OBVIOUS
  <2> QED BY <2>1, <2>2, <2>3, FS_EmptySet
<1>2. ASSUME NEW T \in SUBSET S, NEW x \in S \ T, T \in P PROVE T \cup {x} \in P
  <2>1. IsFiniteSet(T) BY FS_Subset
  <2>2. PICK n \in Nat : n = Cardinality(T) BY <2>1, FS_CardinalityType
  <2>3. PICK A, B : A = kSubset(2, T) /\ B = {{x, y} : y \in T} OBVIOUS
  <2>4. kSubset(2, T \cup {x}) = A \cup B /\ A \cap B = {} BY <2>1, <2>3, PairsSplit
  <2>5. IsFiniteSet(A) /\ Cardinality(A) = (n * (n - 1)) \div 2 BY <1>2, <2>2, <2>3
  <2>6. IsFiniteSet(B) /\ Cardinality(B) = n BY <2>1, <2>2, <2>3, PairsWithOne
  <2>7. IsFiniteSet(A \cup B) /\ Cardinality(A \cup B) = (n * (n - 1)) \div 2 + n
    BY <2>4, <2>5, <2>6, TwoTogether
  <2>8. Cardinality(T \cup {x}) = n + 1 BY <2>1, <2>2, FS_AddElement
  <2>9. Cardinality(A \cup B) = ((n + 1) * ((n + 1) - 1)) \div 2 BY <2>7, Halves
  <2> QED BY <2>4, <2>7, <2>8, <2>9
<1>3. S \in P
  <2> HIDE DEF P
  <2> QED BY <1>1, <1>2, SubsetsOfFinite
<1> QED BY <1>3

-----------------------------------------------------------------------------
(* The figures.                                                            *)

PositionTotal(obs, p) == MapThenSumSet(LAMBDA digit : PositionDigitCount(obs, p, digit), 0 .. 9)

LEMMA PositionsAddUp ==
  ASSUME NEW obs, IsFiniteSet(obs), NEW p, \A o \in obs : o.number[p] \in 0 .. 9
  PROVE  PositionTotal(obs, p) = Cardinality(obs)
<1> DEFINE Rec(iter) == [s \in SUBSET (0 .. 9) |->
          IF s = {} THEN 0 ELSE PositionDigitCount(obs, p, CHOOSE x \in s : TRUE)
                                + iter[s \ {CHOOSE x \in s : TRUE}]]
<1>f. IsFiniteSet(0 .. 9)
  <2> HIDE DEF Rec
  <2>1. 0 \in Int /\ 9 \in Int OBVIOUS
  <2> QED BY <2>1, FS_Interval
<1>1. PICK f : f = [digit \in 0 .. 9 |-> PositionDigitCount(obs, p, digit)] OBVIOUS
<1> DEFINE Sum(h) == [s \in SUBSET (0 .. 9) |->
               IF s = {} THEN 0 ELSE f[CHOOSE x \in s : TRUE] + h[s \ {CHOOSE x \in s : TRUE}]]
<1>2. \A h : Rec(h) = Sum(h)
  <2>1. \A s \in SUBSET (0 .. 9) : s # {} =>
            f[CHOOSE x \in s : TRUE] = PositionDigitCount(obs, p, CHOOSE x \in s : TRUE)
    BY <1>1
  <2> QED BY <2>1
<1>3. \A h : h = Rec(h) <=> AddsUp(0 .. 9, f, h)
  <2>1. \A h : h = Sum(h) <=> AddsUp(0 .. 9, f, h) BY DEF AddsUp
  <2> HIDE DEF Rec, Sum
  <2> QED BY <1>2, <2>1
<1>4. PICK h : h = CHOOSE iter : iter = Rec(iter) OBVIOUS
<1>5. PositionTotal(obs, p) = h[0 .. 9]
  BY <1>4 DEF PositionTotal, MapThenSumSet, MapThenFoldSet
<1>6. h = Rec(h)
  <2>1. \E g : g = Rec(g)
    <3>1. PICK g : AddsUp(0 .. 9, f, g) BY <1>f, SumExists
    <3> HIDE DEF Rec
    <3> QED BY <1>3, <3>1
  <2> HIDE DEF Rec
  <2> QED BY <1>4, <2>1
<1>7. AddsUp(0 .. 9, f, h) BY <1>3, <1>6
<1>8. PICK Part : Part = [digit \in 0 .. 9 |-> {o \in obs : o.number[p] = digit}] OBVIOUS
<1>9. \A digit \in 0 .. 9 : IsFiniteSet(Part[digit]) /\ f[digit] = Cardinality(Part[digit])
  BY <1>1, <1>8, FS_Subset DEF PositionDigitCount
<1>10. \A c, d \in 0 .. 9 : c # d => Part[c] \cap Part[d] = {} BY <1>8
<1>11. UNION {Part[digit] : digit \in 0 .. 9} = obs BY <1>8
<1> QED BY <1>f, <1>5, <1>7, <1>9, <1>10, <1>11, SizesAddUp

LEMMA CollisionsArePairs ==
  ASSUME NEW obs, IsFiniteSet(obs)
  PROVE  CollisionPairs(obs) =
             Cardinality({pair \in kSubset(2, obs) : \A o, p \in pair : o.number = p.number})
<1> DEFINE Numbers == {o.number : o \in obs}
           Pairs(n) == (Tally(obs, n) * (Tally(obs, n) - 1)) \div 2
           Rec(iter) == [s \in SUBSET Numbers |->
               IF s = {} THEN 0 ELSE Pairs(CHOOSE x \in s : TRUE) + iter[s \ {CHOOSE x \in s : TRUE}]]
<1>f. IsFiniteSet(Numbers)
  <2>1. PICK g : g = [o \in obs |-> o.number] OBVIOUS
  <2>2. Numbers = {g[o] : o \in obs} BY <2>1
  <2> HIDE DEF Numbers
  <2> QED BY <2>2, FiniteImage
<1>1. PICK f : f = [n \in Numbers |-> Pairs(n)] OBVIOUS
<1> DEFINE Sum(h) == [s \in SUBSET Numbers |->
               IF s = {} THEN 0 ELSE f[CHOOSE x \in s : TRUE] + h[s \ {CHOOSE x \in s : TRUE}]]
<1>2. \A h : Rec(h) = Sum(h)
  <2> HIDE DEF Numbers, Pairs
  <2>1. \A s \in SUBSET Numbers : s # {} =>
            f[CHOOSE x \in s : TRUE] = Pairs(CHOOSE x \in s : TRUE)
    BY <1>1
  <2> QED BY <2>1
<1>3. \A h : h = Rec(h) <=> AddsUp(Numbers, f, h)
  <2> HIDE DEF Numbers, Pairs
  <2>1. \A h : h = Sum(h) <=> AddsUp(Numbers, f, h) BY DEF AddsUp
  <2> HIDE DEF Rec, Sum
  <2> QED BY <1>2, <2>1
<1>4. PICK h : h = CHOOSE iter : iter = Rec(iter) OBVIOUS
<1>5. CollisionPairs(obs) = h[Numbers]
  BY <1>4 DEF CollisionPairs, MapThenSumSet, MapThenFoldSet
<1>6. h = Rec(h)
  <2>1. \E g : g = Rec(g)
    <3> HIDE DEF Numbers, Rec
    <3> QED BY <1>f, <1>3, SumExists
  <2> HIDE DEF Rec
  <2> QED BY <1>4, <2>1
<1>7. AddsUp(Numbers, f, h) BY <1>3, <1>6
<1>8. PICK Of : Of = [n \in Numbers |-> {o \in obs : o.number = n}] OBVIOUS
<1>9. PICK Part : Part = [n \in Numbers |-> kSubset(2, Of[n])] OBVIOUS
<1>10. ASSUME NEW n \in Numbers
       PROVE  IsFiniteSet(Part[n]) /\ f[n] = Cardinality(Part[n])
  <2>1. Of[n] \in SUBSET obs /\ Cardinality(Of[n]) = Tally(obs, n) BY <1>8 DEF Tally
  <2>2. IsFiniteSet(Of[n]) BY <2>1, FS_Subset
  <2>3. f[n] = (Cardinality(Of[n]) * (Cardinality(Of[n]) - 1)) \div 2 BY <1>1, <2>1
  <2>4. Part[n] = kSubset(2, Of[n]) BY <1>9
  <2> QED BY <2>2, <2>3, <2>4, PairsCounted
<1>11. \A s \in kSubset(2, obs) : s # {}
  <2>1. \A s : Cardinality(s) = 1 + 1 => s # {} BY NotEmpty
  <2> QED BY <2>1 DEF kSubset
<1>12. \A n \in Numbers : Part[n] = {pair \in kSubset(2, obs) : \A o \in pair : o.number = n}
  BY <1>8, <1>9 DEF kSubset
<1>13. \A m, n \in Numbers : m # n => Part[m] \cap Part[n] = {}
  <2> HIDE DEF Numbers
  <2> QED BY <1>11, <1>12
<1>14. UNION {Part[n] : n \in Numbers} =
           {pair \in kSubset(2, obs) : \A o, p \in pair : o.number = p.number}
  <2>1. ASSUME NEW pair \in kSubset(2, obs), \A o, p \in pair : o.number = p.number
        PROVE  \E n \in Numbers : pair \in Part[n]
    <3>1. PICK o \in pair : TRUE BY <1>11
    <3>2. o \in obs BY DEF kSubset
    <3>3. PICK n : n = o.number OBVIOUS
    <3>4. n \in Numbers BY <3>2, <3>3
    <3>5. pair \in Part[n] BY <1>12, <2>1, <3>1, <3>3, <3>4
    <3> QED BY <3>4, <3>5
  <2> HIDE DEF Numbers
  <2> QED BY <1>12, <2>1
<1>15. h[Numbers] = Cardinality(UNION {Part[n] : n \in Numbers})
  <2> HIDE DEF Numbers
  <2> QED BY <1>f, <1>7, <1>10, <1>13, SizesAddUp
<1> QED BY <1>5, <1>14, <1>15

-----------------------------------------------------------------------------
(* Runs of consecutive digits.                                             *)

(* What the loop knows after digit i, from what it knew after i - 1.       *)
After(number, run, i) ==
    IF i = 1 \/ Step(number, i) \notin {1, -1} THEN [length |-> 1, direction |-> 0]
    ELSE IF run[i - 1].direction \in {0, Step(number, i)}
         THEN [length |-> run[i - 1].length + 1, direction |-> Step(number, i)]
    ELSE Turned(Step(number, i))

Runs(number, run) == run = [i \in DOMAIN number |-> After(number, run, i)]

LEMMA RunsExist ==
  ASSUME NEW number \in Seq(0 .. 9)
  PROVE  \E run : Runs(number, run)
<1> DEFINE Upto(run, n) == \A i \in DOMAIN number : i <= n => run[i] = After(number, run, i)
           Q == {n \in Nat : \E run : Upto(run, n)}
<1>d. PICK len \in Nat : len = Len(number) /\ DOMAIN number = 1 .. len OBVIOUS
<1>1. 0 \in Q
  <2>1. PICK run : run = [i \in DOMAIN number |-> 0] OBVIOUS
  <2>2. Upto(run, 0) BY <1>d
  <2> HIDE DEF Upto
  <2> QED BY <2>2
<1>2. ASSUME NEW n \in Nat, n \in Q PROVE n + 1 \in Q
  <2>1. PICK run : Upto(run, n) BY <1>2
  <2>2. PICK next : next = [i \in DOMAIN number |->
                               IF i <= n THEN run[i] ELSE After(number, run, i)]
    OBVIOUS
  <2>3. ASSUME NEW i \in DOMAIN number, i <= n + 1 PROVE next[i] = After(number, next, i)
    <3>1. next[i] = After(number, run, i) BY <2>1, <2>2
    <3>2. CASE i = 1 BY <3>1, <3>2 DEF After
    <3>3. CASE i # 1
      <4>1. i - 1 \in DOMAIN number /\ i - 1 <= n BY <1>d, <2>3, <3>3
      <4>2. next[i - 1] = run[i - 1] BY <2>2, <4>1
      <4> QED BY <3>1, <4>2 DEF After
    <3> QED BY <3>2, <3>3
  <2>4. Upto(next, n + 1) BY <2>3
  <2>5. n + 1 \in Nat OBVIOUS
  <2> HIDE DEF Upto
  <2> QED BY <2>4, <2>5
<1>3. len \in Q
  <2> HIDE DEF Q
  <2> QED BY <1>1, <1>2, NaturalSets
<1>4. PICK run : Upto(run, len) BY <1>3
<1>5. PICK whole : whole = [i \in DOMAIN number |-> run[i]] OBVIOUS
<1>6. ASSUME NEW i \in DOMAIN number PROVE whole[i] = After(number, whole, i)
  <2>1. run[i] = After(number, run, i) /\ whole[i] = run[i] BY <1>d, <1>4, <1>5
  <2>2. CASE i = 1 BY <2>1, <2>2 DEF After
  <2>3. CASE i # 1
    <3>1. i - 1 \in DOMAIN number BY <1>d, <2>3
    <3>2. whole[i - 1] = run[i - 1] BY <1>5, <3>1
    <3> QED BY <2>1, <3>2 DEF After
  <2> QED BY <2>2, <2>3
<1>7. whole = [i \in DOMAIN number |-> After(number, whole, i)] BY <1>5, <1>6
<1> QED BY <1>7 DEF Runs

(* Where the digits step by one the loop is in a run of at least two, in   *)
(* the direction of the step; elsewhere it has begun anew.                 *)
LEMMA RunsAreOfTheStep ==
  ASSUME NEW number \in Seq(0 .. 9), NEW run, Runs(number, run), NEW i \in DOMAIN number
  PROVE  /\ run[i].length \in Nat \ {0}
         /\ i = 1 \/ Step(number, i) \notin {1, -1} => run[i].length = 1 /\ run[i].direction = 0
         /\ i # 1 /\ Step(number, i) \in {1, -1} =>
                run[i].length >= 2 /\ run[i].direction = Step(number, i)
<1> DEFINE Q == {n \in Nat : \A j \in DOMAIN number : j <= n => run[j].length \in Nat \ {0}}
<1>d. PICK len \in Nat : len = Len(number) /\ DOMAIN number = 1 .. len OBVIOUS
<1>r. \A j \in DOMAIN number : run[j] = After(number, run, j) BY DEF Runs
<1>1. 0 \in Q BY <1>d
<1>2. ASSUME NEW n \in Nat, n \in Q PROVE n + 1 \in Q
  <2>1. ASSUME NEW j \in DOMAIN number, j <= n + 1 PROVE run[j].length \in Nat \ {0}
    <3>1. CASE j = 1 \/ Step(number, j) \notin {1, -1}
      <4>1. run[j] = [length |-> 1, direction |-> 0] BY <1>r, <3>1 DEF After
      <4>2. run[j].length = 1 BY <4>1
      <4> QED BY <4>2
    <3>2. CASE j # 1 /\ Step(number, j) \in {1, -1}
      <4>1. j - 1 \in DOMAIN number /\ j - 1 <= n BY <1>d, <2>1, <3>2
      <4>2. run[j - 1].length \in Nat \ {0} BY <1>2, <4>1
      <4>3. \/ run[j] = [length |-> run[j - 1].length + 1, direction |-> Step(number, j)]
            \/ run[j] = [length |-> 2, direction |-> Step(number, j)]
        BY <1>r, <3>2 DEF After, Turned
      <4>4. run[j].length = run[j - 1].length + 1 \/ run[j].length = 2 BY <4>3
      <4> QED BY <4>2, <4>4
    <3> QED BY <3>1, <3>2
  <2> QED BY <2>1
<1>3. len \in Q
  <2> HIDE DEF Q
  <2> QED BY <1>1, <1>2, NaturalSets
<1>4. \A j \in DOMAIN number : run[j].length \in Nat \ {0} BY <1>d, <1>3
<1>5. CASE i = 1 \/ Step(number, i) \notin {1, -1}
  <2>1. run[i] = [length |-> 1, direction |-> 0] BY <1>r, <1>5 DEF After
  <2> QED BY <1>4, <1>5, <2>1
<1>6. CASE i # 1 /\ Step(number, i) \in {1, -1}
  <2>1. i - 1 \in DOMAIN number BY <1>d, <1>6
  <2>2. \/ run[i] = [length |-> run[i - 1].length + 1, direction |-> Step(number, i)]
        \/ run[i] = [length |-> 2, direction |-> Step(number, i)]
    BY <1>r, <1>6 DEF After, Turned
  <2>3. /\ run[i].length = run[i - 1].length + 1 \/ run[i].length = 2
        /\ run[i].direction = Step(number, i)
    BY <2>2
  <2>4. run[i - 1].length \in Nat \ {0} BY <1>4, <2>1
  <2> QED BY <1>4, <1>6, <2>3, <2>4
<1> QED BY <1>5, <1>6

LEMMA RunsOfThree ==
  ASSUME NEW number \in Seq(0 .. 9), NEW run, Runs(number, run)
  PROVE  (\E i \in DOMAIN number : run[i].length >= 3)
         <=> \E i \in 1 .. Len(number) - 2, by \in {1, -1} : Steady(number, i, 3, by)
<1>d. PICK len \in Nat : len = Len(number) /\ DOMAIN number = 1 .. len OBVIOUS
<1>r. \A j \in DOMAIN number : run[j] = After(number, run, j) BY DEF Runs
<1>1. ASSUME NEW i \in DOMAIN number, run[i].length >= 3
      PROVE  \E k \in 1 .. Len(number) - 2, by \in {1, -1} : Steady(number, k, 3, by)
  <2>1. i # 1 /\ Step(number, i) \in {1, -1} BY <1>1, RunsAreOfTheStep
  <2>2. i - 1 \in DOMAIN number BY <1>d, <2>1
  <2>3. /\ run[i - 1].direction \in {0, Step(number, i)}
        /\ run[i].length = run[i - 1].length + 1
    <3>1. CASE run[i - 1].direction \in {0, Step(number, i)}
      <4>1. run[i] = [length |-> run[i - 1].length + 1, direction |-> Step(number, i)]
        BY <1>r, <2>1, <3>1 DEF After
      <4> QED BY <3>1, <4>1
    <3>2. CASE run[i - 1].direction \notin {0, Step(number, i)}
      <4>1. run[i] = [length |-> 2, direction |-> Step(number, i)]
        BY <1>r, <2>1, <3>2 DEF After, Turned
      <4>2. run[i].length = 2 BY <4>1
      <4> QED BY <1>1, <4>2
    <3> QED BY <3>1, <3>2
  <2>4. run[i - 1].length # 1
    <3>1. run[i - 1].length \in Nat BY <2>2, RunsAreOfTheStep
    <3> QED BY <1>1, <2>3, <3>1
  <2>5. /\ i - 1 # 1 /\ Step(number, i - 1) \in {1, -1}
        /\ run[i - 1].direction = Step(number, i - 1)
    BY <2>2, <2>4, RunsAreOfTheStep
  <2>6. Step(number, i - 1) = Step(number, i) BY <2>1, <2>3, <2>5
  <2>7. PICK k : k = i - 2 OBVIOUS
  <2>8. k \in 1 .. Len(number) - 2 /\ k + 1 = i - 1 /\ k + 2 = i BY <1>d, <2>1, <2>2, <2>5, <2>7
  <2>9. Steady(number, k, 3, Step(number, i))
    <3>1. ASSUME NEW j \in 1 .. 3 - 1 PROVE Step(number, k + j) = Step(number, i)
      <4>1. j = 1 \/ j = 2 OBVIOUS
      <4> QED BY <2>6, <2>8, <4>1
    <3> QED BY <3>1 DEF Steady
  <2> QED BY <2>1, <2>8, <2>9
<1>2. ASSUME NEW k \in 1 .. Len(number) - 2, NEW by \in {1, -1}, Steady(number, k, 3, by)
      PROVE  \E i \in DOMAIN number : run[i].length >= 3
  <2>1. k + 1 \in DOMAIN number /\ k + 2 \in DOMAIN number /\ k + 1 # 1 /\ k + 2 # 1
    BY <1>d
  <2>2. Step(number, k + 1) = by /\ Step(number, k + 2) = by
    <3>1. 1 \in 1 .. 3 - 1 /\ 2 \in 1 .. 3 - 1 OBVIOUS
    <3> QED BY <1>2, <3>1 DEF Steady
  <2>3. run[k + 1].length >= 2 /\ run[k + 1].direction = by /\ run[k + 1].length \in Nat
    BY <2>1, <2>2, RunsAreOfTheStep
  <2>4. run[k + 2] = [length |-> run[k + 1].length + 1, direction |-> by]
    <3>1. (k + 2) - 1 = k + 1 BY <1>d
    <3>2. run[k + 2] = After(number, run, k + 2) BY <1>r, <2>1
    <3> QED BY <2>1, <2>2, <2>3, <3>1, <3>2 DEF After
  <2>5. run[k + 2].length >= 3 BY <2>3, <2>4
  <2> QED BY <2>1, <2>5
<1> QED BY <1>1, <1>2

(* The loop finds exactly the numbers in which three neighbouring digits   *)
(* rise, or fall, by one.                                                  *)
LEMMA RunsAreFound ==
  ASSUME NEW number \in Seq(0 .. 9)
  PROVE  HasConsecutiveRun(number, 3)
         <=> \E i \in 1 .. Len(number) - 2, by \in {1, -1} : Steady(number, i, 3, by)
<1> DEFINE Body(run) == [i \in DOMAIN number |-> After(number, run, i)]
<1>1. PICK run : run = CHOOSE r : r = Body(r) OBVIOUS
<1>2. run = Body(run)
  <2>1. \E r : r = Body(r) BY RunsExist DEF Runs
  <2> HIDE DEF Body
  <2> QED BY <1>1, <2>1
<1>3. HasConsecutiveRun(number, 3)
      <=> Len(number) >= 3 /\ \E i \in DOMAIN number : run[i].length >= 3
  BY <1>1 DEF HasConsecutiveRun, After
<1>4. Runs(number, run) BY <1>2 DEF Runs
<1>5. (\E i \in DOMAIN number : run[i].length >= 3)
      <=> \E i \in 1 .. Len(number) - 2, by \in {1, -1} : Steady(number, i, 3, by)
  BY <1>4, RunsOfThree
<1>6. (\E i \in 1 .. Len(number) - 2, by \in {1, -1} : Steady(number, i, 3, by)) => Len(number) >= 3
  <2>1. Len(number) \in Nat OBVIOUS
  <2>2. \A i \in 1 .. Len(number) - 2 : Len(number) >= 3 BY <2>1
  <2> QED BY <2>2
<1> QED BY <1>3, <1>5, <1>6

-----------------------------------------------------------------------------
(* What is observed.                                                       *)

(* The entries of drafts and of what is public are finitely many, of       *)
(* digits: they were imported, or typed.                                   *)
Listed(d, st, pu) ==
    /\ st # "none" => Listing(d.entries)
    /\ pu # Null => Listing(pu.entries)

ListedInv == Listed(draft, stage, published)

LEMMA ListedStart == Init => ListedInv
  BY DEF Init, ListedInv, Listed

LEMMA OpenedIsListed ==
  ASSUME ListedInv, NEW result, Listing(result.entries), NEW kind, Opened(result, kind)
  PROVE  ListedInv'
<1>d. PICK d : d = draft' OBVIOUS
<1>1. d.entries = result.entries BY <1>d DEF Opened
<1>2. published' = published /\ stage' = "draft" BY DEF Opened
<1>3. Listed(d, "draft", published) BY <1>1 DEF ListedInv, Listed
<1> QED BY <1>d, <1>2, <1>3 DEF ListedInv

LEMMA RetypedIsListed ==
  ASSUME NEW entries, Listing(entries), NEW list, Listing(list.entries)
  PROVE  Listing({e \in entries : e.category # list.category} \cup
                 {[category |-> list.category, series |-> e.series, number |-> e.number] :
                     e \in list.entries})
<1>1. PICK A : A = {e \in entries : e.category # list.category} OBVIOUS
<1>2. PICK g : g = [e \in list.entries |->
                      [category |-> list.category, series |-> e.series, number |-> e.number]]
  OBVIOUS
<1>3. PICK B : B = {g[e] : e \in list.entries} OBVIOUS
<1>4. IsFiniteSet(A) BY <1>1, FS_Subset DEF Listing
<1>5. IsFiniteSet(B) BY <1>3, FiniteImage DEF Listing
<1>6. IsFiniteSet(A \cup B) BY <1>4, <1>5, FS_Union
<1>7. \A e \in A \cup B : e.number \in Seq(0 .. 9) BY <1>1, <1>2, <1>3 DEF Listing
<1>8. Listing(A \cup B) BY <1>6, <1>7 DEF Listing
<1>9. B = {[category |-> list.category, series |-> e.series, number |-> e.number] :
              e \in list.entries}
  BY <1>2, <1>3
<1> QED BY <1>1, <1>8, <1>9

LEMMA PatchesAreListed ==
  ASSUME RulesInv, ListedInv, PatchCategory \/ ReplaceEntries \/ PatchCompleteness
  PROVE  ListedInv'
<1>d. PICK d : d = draft' OBVIOUS
<1>1. stage = "draft" /\ stage' = stage /\ published' = published
  BY DEF PatchCategory, ReplaceEntries, PatchCompleteness, Patched
<1>2. IsDraft(draft) BY <1>1 DEF RulesInv, Good
<1>3. PICK V, C : draft \in [kind : V, edited : BOOLEAN, complete : V, entries : V,
                             rows : [C -> [state : V, amount : V, reviewed : V]]]
  BY <1>2 DEF IsDraft
<1>4. Listing(draft.entries) BY <1>1 DEF ListedInv, Listed
<1>5. Listing(d.entries)
  <2>1. CASE PatchCategory
    <3>1. d.entries = draft.entries BY <1>d, <1>3, <2>1 DEF PatchCategory
    <3> QED BY <1>4, <3>1
  <2>2. CASE PatchCompleteness
    <3>1. d.entries = draft.entries BY <1>d, <1>3, <2>2 DEF PatchCompleteness
    <3> QED BY <1>4, <3>1
  <2>3. CASE ReplaceEntries
    <3>1. PICK list \in Lists :
              d = [draft EXCEPT !.edited = TRUE, !.entries =
                     {e \in @ : e.category # list.category} \cup
                     {[category |-> list.category, series |-> e.series, number |-> e.number] :
                         e \in list.entries}]
      BY <1>d, <2>3 DEF ReplaceEntries
    <3>2. d.entries = {e \in draft.entries : e.category # list.category} \cup
                      {[category |-> list.category, series |-> e.series, number |-> e.number] :
                          e \in list.entries}
      BY <1>3, <3>1
    <3>3. Listing(list.entries) BY EntriesAssumption
    <3> QED BY <1>4, <3>2, <3>3, RetypedIsListed
  <2> QED BY <2>1, <2>2, <2>3
<1>6. Listed(d, stage, published) BY <1>5 DEF ListedInv, Listed
<1> QED BY <1>d, <1>1, <1>6 DEF ListedInv

LEMMA ListedStep == RulesInv /\ ListedInv /\ [Next]_vars => ListedInv'
<1> SUFFICES ASSUME RulesInv, ListedInv, [Next]_vars PROVE ListedInv' OBVIOUS
<1>1. ASSUME Approve PROVE ListedInv' BY <1>1 DEF Approve, ListedInv, Listed
<1>2. ASSUME Import PROVE ListedInv'
  <2>1. PICK upload \in Uploads : \E kind : Opened(upload, kind) BY <1>2 DEF Import
  <2>2. Listing(upload.entries) BY EntriesAssumption
  <2> QED BY <2>1, <2>2, OpenedIsListed
<1>3. ASSUME CreateCorrection PROVE ListedInv'
  <2>1. Listing(published.entries) /\ Opened(published, "CORRECTION")
    BY <1>3 DEF CreateCorrection, ListedInv, Listed
  <2> QED BY <2>1, OpenedIsListed
<1>4. ASSUME PatchCategory \/ ReplaceEntries \/ PatchCompleteness PROVE ListedInv'
  BY <1>4, PatchesAreListed
<1>5. ASSUME Reopen PROVE ListedInv' BY <1>5 DEF Reopen, ListedInv, Listed
<1>6. ASSUME Review PROVE ListedInv'
  <2>1. stage = "draft" /\ stage' = "ready" /\ published' = published BY <1>6 DEF Review
  <2>2. PICK V, C : draft \in [kind : V, edited : BOOLEAN, complete : V, entries : V,
                               rows : [C -> [state : V, amount : V, reviewed : V]]]
    BY <2>1 DEF RulesInv, Good, IsDraft
  <2>3. PICK d : d = draft' OBVIOUS
  <2>4. d.entries = draft.entries BY <1>6, <2>2, <2>3 DEF Review
  <2>5. Listed(d, "ready", published) BY <2>1, <2>4 DEF ListedInv, Listed
  <2> QED BY <2>1, <2>3, <2>5 DEF ListedInv
<1>7. ASSUME Publish PROVE ListedInv'
  <2>1. PICK pu : pu = published' OBVIOUS
  <2>2. pu.entries = draft.entries BY <1>7, <2>1 DEF Publish
  <2>3. stage = "ready" /\ stage' = "none" BY <1>7 DEF Publish
  <2>4. Listing(pu.entries) BY <2>2, <2>3 DEF ListedInv, Listed
  <2> QED BY <2>1, <2>3, <2>4 DEF ListedInv, Listed
<1>8. ASSUME UNCHANGED vars PROVE ListedInv' BY <1>8 DEF vars, ListedInv
<1> QED BY <1>1, <1>2, <1>3, <1>4, <1>5, <1>6, <1>7, <1>8 DEF Next

(* The entries that are checked and counted are finitely many and of       *)
(* digits, however drafts are edited.                                      *)
THEOREM EntriesAreListed == Spec => []ListedInv
  BY ListedStart, ListedStep, RulesInvariant, PTL DEF Spec

(* A draw that counts has a result, and its first prizes were reviewed.    *)
LEMMA CountedDraws ==
  ASSUME ListedInv, NEW set, NEW d \in Selected(set)
  PROVE  /\ d \in Draws /\ d.current # Null /\ Listing(d.current.entries)
         /\ \A c \in FirstPrizes(d) : d.current.rows[c].reviewed
         /\ d.draw = "this" => d.current = published
<1>1. d \in Draws /\ d.current # Null /\ FirstPrizeWhole(d)
  BY DEF Selected, Eligible, Exclusion
<1>2. \A c \in FirstPrizes(d) : d.current.rows[c].reviewed BY <1>1 DEF FirstPrizeWhole
<1>3. CASE d \in Archive BY <1>1, <1>2, <1>3, ArchiveAssumption
<1>4. CASE d = ThisDraw
  <2>1. d.current = published BY <1>4 DEF ThisDraw
  <2> QED BY <1>1, <1>2, <2>1 DEF ListedInv, Listed
<1> QED BY <1>1, <1>3, <1>4 DEF Draws

Observed(d, e) == [draw |-> d.draw, category |-> e.category, series |-> e.series, number |-> e.number]

LEMMA WhatIsObserved ==
  ASSUME NEW set, NEW o \in Observations(set)
  PROVE  \E d \in Selected(set) : \E e \in d.current.entries :
             e.category \in FirstPrizes(d) /\ o = Observed(d, e)
  BY DEF Observations, Observed

LEMMA ObservationsAreFinite ==
  ASSUME ListedInv, NEW set
  PROVE  IsFiniteSet(Observations(set))
<1> DEFINE Of(d) == {Observed(d, e) : e \in {x \in d.current.entries : x.category \in FirstPrizes(d)}}
<1>1. IsFiniteSet(Selected(set))
  <2>1. IsFiniteSet(Draws) BY ArchiveAssumption, FS_AddElement DEF Draws
  <2>2. Selected(set) \in SUBSET Draws BY DEF Selected, Eligible
  <2> QED BY <2>1, <2>2, FS_Subset
<1>2. ASSUME NEW d \in Selected(set) PROVE IsFiniteSet(Of(d))
  <2>1. PICK E : E = {x \in d.current.entries : x.category \in FirstPrizes(d)} OBVIOUS
  <2>2. IsFiniteSet(d.current.entries) BY CountedDraws DEF Listing
  <2>3. IsFiniteSet(E) BY <2>1, <2>2, FS_Subset
  <2>4. PICK g : g = [e \in E |-> Observed(d, e)] OBVIOUS
  <2>5. Of(d) = {g[e] : e \in E} BY <2>1, <2>4
  <2> HIDE DEF Of
  <2> QED BY <2>3, <2>5, FiniteImage
<1>3. PICK g : g = [d \in Selected(set) |-> Of(d)] OBVIOUS
<1>4. PICK F : F = {g[d] : d \in Selected(set)} OBVIOUS
<1>5. IsFiniteSet(F) BY <1>1, <1>4, FiniteImage
<1>6. \A T \in F : IsFiniteSet(T)
  <2> HIDE DEF Of
  <2> QED BY <1>2, <1>3, <1>4
<1>7. Observations(set) = UNION F BY <1>3, <1>4 DEF Observations, Observed
<1> QED BY <1>5, <1>6, <1>7, FS_UNION

LEMMA FiguresAreRight == ListedInv => FiguresAreExact
<1> SUFFICES ASSUME ListedInv, NEW set \in {s \in RuleChoices : Computes(s)}, NEW obs,
                    obs = Observations(set)
             PROVE  /\ \A o \in obs : o.draw = "this" => published.rows[o.category].reviewed
                    /\ CollisionPairs(obs) =
                         Cardinality({pair \in kSubset(2, obs) : \A o, p \in pair : o.number = p.number})
                    /\ \A p \in 1 .. NumberLength(set) :
                         MapThenSumSet(LAMBDA digit : PositionDigitCount(obs, p, digit), 0 .. 9)
                             = Cardinality(obs)
                    /\ \A o \in obs :
                         HasConsecutiveRun(o.number, 3) <=>
                         \E i \in 1 .. Len(o.number) - 2, by \in {1, -1} : Steady(o.number, i, 3, by)
  BY DEF FiguresAreExact
<1>1. IsFiniteSet(obs) BY ObservationsAreFinite
<1>2. ASSUME NEW o \in obs
      PROVE  /\ o.number \in Seq(0 .. 9) /\ Len(o.number) = NumberLength(set)
             /\ o.draw = "this" => published.rows[o.category].reviewed
  <2>0. PICK d \in Selected(set) :
            \E e \in d.current.entries : e.category \in FirstPrizes(d) /\ o = Observed(d, e)
    BY WhatIsObserved
  <2>1. PICK e \in d.current.entries : e.category \in FirstPrizes(d) /\ o = Observed(d, e)
    BY <2>0
  <2>2. o.draw = d.draw /\ o.category = e.category /\ o.number = e.number BY <2>1 DEF Observed
  <2>3. Len(o.number) = NumberLength(set) BY DEF Computes
  <2> QED BY <2>1, <2>2, <2>3, CountedDraws DEF Listing
<1>3. CollisionPairs(obs) =
        Cardinality({pair \in kSubset(2, obs) : \A o, p \in pair : o.number = p.number})
  BY <1>1, CollisionsArePairs
<1>4. ASSUME NEW p \in 1 .. NumberLength(set)
      PROVE  MapThenSumSet(LAMBDA digit : PositionDigitCount(obs, p, digit), 0 .. 9)
                 = Cardinality(obs)
  <2>1. ASSUME NEW o \in obs PROVE o.number[p] \in 0 .. 9
    <3>1. o.number \in Seq(0 .. 9) /\ p \in 1 .. Len(o.number) BY <1>2
    <3> QED BY <3>1
  <2>2. PositionTotal(obs, p) = Cardinality(obs) BY <1>1, <2>1, PositionsAddUp
  <2> QED BY <2>2 DEF PositionTotal
<1>5. ASSUME NEW o \in obs
      PROVE  HasConsecutiveRun(o.number, 3) <=>
             \E i \in 1 .. Len(o.number) - 2, by \in {1, -1} : Steady(o.number, i, 3, by)
  BY <1>2, RunsAreFound
<1> QED BY <1>2, <1>3, <1>4, <1>5

(* The figures over what is public are what they are called, whatever was  *)
(* published and whatever the archive holds: nothing counts that a review  *)
(* did not cover, collisions are pairs of equal numbers, the counts of a   *)
(* position add up, and a run is three digits that rise or fall by one.    *)
THEOREM FiguresAreCorrect == Spec => []FiguresAreExact
  BY EntriesAreListed, FiguresAreRight, PTL

=============================================================================
