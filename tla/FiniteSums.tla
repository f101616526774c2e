------------------------------ MODULE FiniteSums ------------------------------
(****************************************************************************)
(* Induction without an operator as a parameter, and what the sums of       *)
(* MapThenSumSet are.                                                       *)
(*                                                                          *)
(* The induction theorems of the library take a predicate, which the        *)
(* provers cannot instantiate.  A set of counterexamples has a least        *)
(* element instead, and a set is no parameter that troubles them.           *)
(****************************************************************************)
EXTENDS Integers, FiniteSets, FiniteSetsExt, FiniteSetTheorems, WellFoundedInduction, TLAPS

(* Every set of natural numbers has a least element.                        *)
LEMMA LeastNatural ==
  ASSUME NEW T \in SUBSET Nat, T # {}
  PROVE  \E x \in T : \A y \in T : x <= y
<1> DEFINE R == OpToRel(<, Nat)
<1>1. IsWellFoundedOn(R, Nat)
  BY NatLessThanWellFounded
<1>2. \A x, y \in Nat : <<y, x>> \in R <=> y < x
  BY DEF OpToRel
<1> HIDE DEF R
<1>3. PICK x \in T : \A y \in T : ~ (<<y, x>> \in R)
  BY <1>1, WFMin
<1>4. \A y \in T : y \in Nat /\ x \in Nat /\ ~ (y < x)
  BY <1>2, <1>3
<1>5. \A y \in T : x <= y
  BY <1>4
<1> QED
  BY <1>5

(* What holds of 0, and of n + 1 if it holds of n, holds of all of them.    *)
LEMMA AllNaturals ==
  ASSUME NEW S, 0 \in S, \A n \in Nat : n \in S => n + 1 \in S
  PROVE  Nat \subseteq S
<1> DEFINE T == Nat \ S
<1> SUFFICES ASSUME T # {} PROVE FALSE
  OBVIOUS
<1>1. PICK x \in T : \A y \in T : x <= y
  BY LeastNatural
<1>2. x # 0 /\ x \in Nat
  OBVIOUS
<1>3. x - 1 \in Nat /\ x - 1 \notin T
  BY <1>1, <1>2
<1> QED
  BY <1>2, <1>3

(* A set of integers that is bounded has a greatest element.                *)
LEMMA GreatestInteger ==
  ASSUME NEW T \in SUBSET Int, T # {}, NEW b \in Int, \A y \in T : y <= b
  PROVE  \E x \in T : \A y \in T : y <= x
<1> DEFINE D == {b - y : y \in T}
<1>1. D \in SUBSET Nat /\ D # {}
  OBVIOUS
<1>2. PICK d \in D : \A e \in D : d <= e
  BY <1>1, LeastNatural
<1>3. PICK x \in T : d = b - x
  OBVIOUS
<1>4. \A y \in T : y \in Int /\ x \in Int /\ b - x <= b - y
  BY <1>2, <1>3
<1>5. \A y \in T : y <= x
  BY <1>4
<1> QED
  BY <1>5

(* Max is what its name says.                                               *)
LEMMA MaxIsGreatest ==
  ASSUME NEW T \in SUBSET Int, T # {}, NEW b \in Int, \A y \in T : y <= b
  PROVE  Max(T) \in T /\ \A y \in T : y <= Max(T)
<1>1. PICK x \in T : \A y \in T : y <= x
  BY GreatestInteger
<1>2. \A y \in T : x >= y
  BY <1>1
<1>3. Max(T) \in T /\ \A y \in T : Max(T) >= y
  BY <1>2 DEF Max
<1> QED
  BY <1>3

(* Among the parts of a finite set that violate something, one has no       *)
(* proper part that does.                                                   *)
LEMMA LeastPart ==
  ASSUME NEW S, IsFiniteSet(S), NEW B \in SUBSET (SUBSET S), B # {}
  PROVE  \E T \in B : \A U \in SUBSET T : U # T => U \notin B
<1> DEFINE C == {Cardinality(T) : T \in B}
<1>1. \A T \in B : IsFiniteSet(T) /\ Cardinality(T) \in Nat
  BY FS_Subset, FS_CardinalityType
<1>2. C \in SUBSET Nat /\ C # {}
  BY <1>1
<1>3. PICK c \in C : \A d \in C : c <= d
  BY <1>2, LeastNatural
<1>4. PICK T \in B : c = Cardinality(T)
  OBVIOUS
<1>5. ASSUME NEW U \in SUBSET T, U # T PROVE U \notin B
  <2>1. IsFiniteSet(T) /\ Cardinality(U) <= Cardinality(T) /\ Cardinality(U) # Cardinality(T)
    BY <1>1, <1>5, FS_Subset
  <2>2. U \in B => Cardinality(U) \in Nat /\ c <= Cardinality(U)
    BY <1>1, <1>3
  <2> QED
    BY <1>1, <1>4, <2>1, <2>2
<1> QED
  BY <1>5

-----------------------------------------------------------------------------
(* What MapThenSumSet takes out of a set next.                              *)
Chosen(s) == CHOOSE x \in s : TRUE

(* The numbers of g are added up over every part of S.                      *)
Adds(g, S, iter) ==
  iter = [s \in SUBSET S |-> IF s = {} THEN 0 ELSE g[Chosen(s)] + iter[s \ {Chosen(s)}]]

(* MapThenSumSet of the numbers of a function g.                            *)
Sum(g, S) == (CHOOSE iter : Adds(g, S, iter))[S]

Unfolds(g, S) == Sum(g, S) = IF S = {} THEN 0 ELSE g[Chosen(S)] + Sum(g, S \ {Chosen(S)})

AllUnfold(g, S) == \A T \in SUBSET S : Unfolds(g, T)

(* A sum over some set is the only one, also where the whole set is larger. *)
LEMMA OneSum ==
  ASSUME NEW g, NEW S, IsFiniteSet(S), NEW iter, Adds(g, S, iter), NEW T \in SUBSET S,
         AllUnfold(g, T)
  PROVE  iter[T] = Sum(g, T)
<1> DEFINE B == {U \in SUBSET T : iter[U] # Sum(g, U)}
<1> SUFFICES ASSUME B # {} PROVE FALSE
  OBVIOUS
<1>1. IsFiniteSet(T)
  BY FS_Subset
<1>2. PICK U \in B : \A V \in SUBSET U : V # U => V \notin B
  <2> HIDE DEF B
  <2>1. B \in SUBSET (SUBSET T)
    BY DEF B
  <2> QED
    BY <1>1, <2>1, LeastPart
<1>3. iter[U] = IF U = {} THEN 0 ELSE g[Chosen(U)] + iter[U \ {Chosen(U)}]
  BY DEF Adds
<1>4. U # {} => iter[U \ {Chosen(U)}] = Sum(g, U \ {Chosen(U)})
  BY <1>2 DEF Chosen
<1> QED
  BY <1>2, <1>3, <1>4 DEF AllUnfold, Unfolds

(* A sum is one number and the sum of the others.                           *)
LEMMA SumUnfolds ==
  ASSUME NEW g, NEW S, IsFiniteSet(S)
  PROVE  Unfolds(g, S) /\ \E iter : Adds(g, S, iter)
<1> DEFINE Fine(T) == Unfolds(g, T) /\ \E iter : Adds(g, T, iter)
           B == {T \in SUBSET S : ~Fine(T)}
<1> SUFFICES ASSUME B # {} PROVE FALSE
  OBVIOUS
<1>1. PICK T \in B : \A U \in SUBSET T : U # T => U \notin B
  <2> HIDE DEF B
  <2>1. B \in SUBSET (SUBSET S)
    BY DEF B
  <2> QED
    BY <2>1, LeastPart
<1>2. IsFiniteSet(T)
  BY FS_Subset
<1>3. \A U \in SUBSET T : U # T => Unfolds(g, U)
  BY <1>1
<1> DEFINE it == [s \in SUBSET T |-> IF s = {} THEN 0 ELSE g[Chosen(s)] + Sum(g, s \ {Chosen(s)})]
<1>4. Adds(g, T, it)
  <2>1. ASSUME NEW s \in SUBSET T, s # {} PROVE it[s \ {Chosen(s)}] = Sum(g, s \ {Chosen(s)})
    <3>1. Chosen(s) \in s
      BY <2>1 DEF Chosen
    <3>2. s \ {Chosen(s)} \in SUBSET T /\ s \ {Chosen(s)} # T
      BY <3>1
    <3> QED
      BY <1>3, <3>2 DEF Unfolds
  <2> QED
    BY <2>1 DEF Adds
<1> HIDE DEF it
<1> DEFINE iter == CHOOSE i : Adds(g, T, i)
<1>5. Adds(g, T, iter) /\ Sum(g, T) = iter[T]
  BY <1>4 DEF Sum
<1> HIDE DEF iter
<1>6. iter[T] = IF T = {} THEN 0 ELSE g[Chosen(T)] + iter[T \ {Chosen(T)}]
  BY <1>5 DEF Adds
<1>7. ASSUME T # {} PROVE iter[T \ {Chosen(T)}] = Sum(g, T \ {Chosen(T)})
  <2>1. Chosen(T) \in T
    BY <1>7 DEF Chosen
  <2> DEFINE R == T \ {Chosen(T)}
  <2>2. R \in SUBSET T /\ AllUnfold(g, R)
    BY <1>3, <2>1 DEF AllUnfold
  <2> HIDE DEF R, B
  <2>3. iter[R] = Sum(g, R)
    BY <1>2, <1>5, <2>2, OneSum
  <2> QED
    BY <2>3 DEF R
<1>8. Unfolds(g, T)
  BY <1>5, <1>6, <1>7 DEF Unfolds
<1> QED
  BY <1>4, <1>8

(* A sum of a function that is written in place.                            *)
LEMMA SumIs ==
  ASSUME NEW g, NEW S
  PROVE  MapThenSumSet(LAMBDA x : g[x], S) = Sum(g, S)
BY DEF MapThenSumSet, MapThenFoldSet, Sum, Adds, Chosen

(* Sums of the same numbers are the same.                                   *)
LEMMA SumOfSame ==
  ASSUME NEW g, NEW h, NEW S, IsFiniteSet(S), \A x \in S : g[x] = h[x]
  PROVE  Sum(g, S) = Sum(h, S)
<1> DEFINE B == {T \in SUBSET S : Sum(g, T) # Sum(h, T)}
<1> SUFFICES ASSUME B # {} PROVE FALSE
  OBVIOUS
<1>1. PICK T \in B : \A U \in SUBSET T : U # T => U \notin B
  <2> HIDE DEF B
  <2>1. B \in SUBSET (SUBSET S)
    BY DEF B
  <2> QED
    BY <2>1, LeastPart
<1>2. Unfolds(g, T) /\ Unfolds(h, T)
  BY FS_Subset, SumUnfolds
<1>3. ASSUME T # {} PROVE FALSE
  <2>1. Chosen(T) \in T
    BY <1>3 DEF Chosen
  <2>2. Sum(g, T \ {Chosen(T)}) = Sum(h, T \ {Chosen(T)})
    BY <1>1, <2>1
  <2> QED
    BY <1>2, <1>3, <2>1, <2>2 DEF Unfolds
<1> QED
  BY <1>2, <1>3 DEF Unfolds

(* The sum of nothing.                                                      *)
LEMMA SumOfNone == ASSUME NEW g PROVE Sum(g, {}) = 0
BY FS_EmptySet, SumUnfolds DEF Unfolds

(* A sum of natural numbers is one.                                         *)
LEMMA SumType ==
  ASSUME NEW g, NEW S, IsFiniteSet(S), \A x \in S : g[x] \in Nat
  PROVE  Sum(g, S) \in Nat
<1> DEFINE B == {T \in SUBSET S : Sum(g, T) \notin Nat}
<1> SUFFICES ASSUME B # {} PROVE FALSE
  OBVIOUS
<1>1. PICK T \in B : \A U \in SUBSET T : U # T => U \notin B
  <2> HIDE DEF B
  <2>1. B \in SUBSET (SUBSET S)
    BY DEF B
  <2> QED
    BY <2>1, LeastPart
<1>2. Unfolds(g, T)
  BY FS_Subset, SumUnfolds
<1>3. ASSUME T # {} PROVE FALSE
  <2>1. Chosen(T) \in T
    BY <1>3 DEF Chosen
  <2>2. Sum(g, T \ {Chosen(T)}) \in Nat /\ g[Chosen(T)] \in Nat
    BY <1>1, <2>1
  <2> QED
    BY <1>2, <1>3, <2>2 DEF Unfolds
<1> QED
  BY <1>2, <1>3 DEF Unfolds

(* The order in which numbers are added does not matter.                    *)
LEMMA SumTakesOut ==
  ASSUME NEW g, NEW S, IsFiniteSet(S), \A x \in S : g[x] \in Nat, NEW x \in S
  PROVE  Sum(g, S) = g[x] + Sum(g, S \ {x})
<1> DEFINE B == {T \in SUBSET S : \E y \in T : Sum(g, T) # g[y] + Sum(g, T \ {y})}
<1> SUFFICES ASSUME B # {} PROVE FALSE
  OBVIOUS
<1>1. PICK T \in B : \A U \in SUBSET T : U # T => U \notin B
  <2> HIDE DEF B
  <2>1. B \in SUBSET (SUBSET S)
    BY DEF B
  <2> QED
    BY <2>1, LeastPart
<1>2. PICK y \in T : Sum(g, T) # g[y] + Sum(g, T \ {y})
  OBVIOUS
<1> DEFINE c == Chosen(T)
<1>3. c \in T
  BY <1>2 DEF Chosen
<1>4. \A U \in SUBSET T : IsFiniteSet(U) /\ Sum(g, U) \in Nat
  BY FS_Subset, SumType
<1>5. Sum(g, T) = g[c] + Sum(g, T \ {c})
  BY <1>2, <1>4, SumUnfolds DEF Unfolds
<1> HIDE DEF c
<1>6. c # y
  BY <1>2, <1>5
<1>7. Sum(g, T \ {c}) = g[y] + Sum(g, (T \ {c}) \ {y})
  BY <1>1, <1>3, <1>6
<1>8. Sum(g, T \ {y}) = g[c] + Sum(g, (T \ {y}) \ {c})
  BY <1>1, <1>2, <1>3, <1>6
<1>9. (T \ {c}) \ {y} = (T \ {y}) \ {c}
  OBVIOUS
<1>10. g[c] \in Nat /\ g[y] \in Nat /\ Sum(g, (T \ {c}) \ {y}) \in Nat
  BY <1>3, <1>4
<1>11. Sum(g, T) = g[c] + (g[y] + Sum(g, (T \ {c}) \ {y}))
  BY <1>5, <1>7
<1>12. g[y] + Sum(g, T \ {y}) = g[y] + (g[c] + Sum(g, (T \ {c}) \ {y}))
  BY <1>8, <1>9
<1> QED
  BY <1>2, <1>10, <1>11, <1>12

(* A sum over two sets that have nothing in common.                         *)
LEMMA SumOfUnion ==
  ASSUME NEW g, NEW S, IsFiniteSet(S), \A x \in S : g[x] \in Nat,
         NEW A \in SUBSET S, NEW C \in SUBSET S, A \cap C = {}
  PROVE  Sum(g, A \cup C) = Sum(g, A) + Sum(g, C)
<1> DEFINE B == {T \in SUBSET C : Sum(g, A \cup T) # Sum(g, A) + Sum(g, T)}
<1> SUFFICES ASSUME B # {} PROVE FALSE
  OBVIOUS
<1>1. PICK T \in B : \A U \in SUBSET T : U # T => U \notin B
  <2> HIDE DEF B
  <2>1. B \in SUBSET (SUBSET C) /\ IsFiniteSet(C)
    BY FS_Subset DEF B
  <2> QED
    BY <2>1, LeastPart
<1>2. \A U \in SUBSET S : IsFiniteSet(U) /\ Sum(g, U) \in Nat
  BY FS_Subset, SumType
<1>3. T # {}
  <2>1. A \cup {} = A
    OBVIOUS
  <2>2. Sum(g, A) \in Nat /\ Sum(g, {}) = 0
    BY <1>2, SumOfNone
  <2> QED
    BY <2>1, <2>2
<1>4. PICK x \in T : TRUE
  BY <1>3
<1>5. Sum(g, T) = g[x] + Sum(g, T \ {x})
  BY <1>2, SumTakesOut
<1>6. Sum(g, A \cup T) = g[x] + Sum(g, A \cup (T \ {x}))
  <2>1. (A \cup T) \ {x} = A \cup (T \ {x}) /\ A \cup T \in SUBSET S /\ x \in A \cup T
    OBVIOUS
  <2>2. Sum(g, A \cup T) = g[x] + Sum(g, (A \cup T) \ {x})
    BY <1>2, <2>1, SumTakesOut
  <2> QED
    BY <2>1, <2>2
<1>7. Sum(g, A \cup (T \ {x})) = Sum(g, A) + Sum(g, T \ {x})
  BY <1>1
<1>8. g[x] \in Nat /\ Sum(g, A) \in Nat /\ Sum(g, T \ {x}) \in Nat
  BY <1>2
<1>9. Sum(g, A \cup T) = Sum(g, A) + Sum(g, T)
  BY <1>5, <1>6, <1>7, <1>8
<1> QED
  BY <1>9

(* A part of a set has a part of its sum.                                   *)
LEMMA SumOfPart ==
  ASSUME NEW g, NEW S, IsFiniteSet(S), \A x \in S : g[x] \in Nat, NEW A \in SUBSET S
  PROVE  Sum(g, A) <= Sum(g, S) /\ Sum(g, S \ A) = Sum(g, S) - Sum(g, A)
<1>1. A \cup (S \ A) = S /\ A \cap (S \ A) = {} /\ S \ A \in SUBSET S
  OBVIOUS
<1>2. Sum(g, A \cup (S \ A)) = Sum(g, A) + Sum(g, S \ A)
  BY <1>1, SumOfUnion
<1>3. Sum(g, A) \in Nat /\ Sum(g, S \ A) \in Nat
  BY FS_Subset, SumType
<1>4. Sum(g, S) = Sum(g, A) + Sum(g, S \ A)
  BY <1>1, <1>2
<1> QED
  BY <1>3, <1>4

(* Sums over the parts of a set add up to the sum over the whole.           *)
LEMMA SumOfSums ==
  ASSUME NEW g, NEW S, IsFiniteSet(S), \A x \in S : g[x] \in Nat,
         NEW A, IsFiniteSet(A), NEW F \in [A -> SUBSET S], NEW h,
         \A a \in A : h[a] = Sum(g, F[a]),
         \A a, b \in A : a # b => F[a] \cap F[b] = {}
  PROVE  Sum(h, A) = Sum(g, UNION {F[a] : a \in A})
<1> DEFINE Whole(T) == UNION {F[a] : a \in T}
           B == {T \in SUBSET A : Sum(h, T) # Sum(g, Whole(T))}
<1> SUFFICES ASSUME B # {} PROVE FALSE
  OBVIOUS
<1>1. PICK T \in B : \A U \in SUBSET T : U # T => U \notin B
  <2> HIDE DEF B
  <2>1. B \in SUBSET (SUBSET A)
    BY DEF B
  <2> QED
    BY <2>1, LeastPart
<1>2. \A U \in SUBSET S : IsFiniteSet(U) /\ Sum(g, U) \in Nat
  BY FS_Subset, SumType
<1>3. T # {}
  <2>1. Whole({}) = {}
    OBVIOUS
  <2> QED
    BY <2>1, SumOfNone
<1>4. PICK a \in T : TRUE
  BY <1>3
<1>5. \A b \in T : h[b] \in Nat
  BY <1>2
<1>6. Sum(h, T) = h[a] + Sum(h, T \ {a})
  BY <1>5, SumTakesOut, FS_Subset
<1>7. Whole(T) = F[a] \cup Whole(T \ {a}) /\ F[a] \cap Whole(T \ {a}) = {}
  BY <1>4
<1>8. F[a] \in SUBSET S /\ Whole(T \ {a}) \in SUBSET S
  OBVIOUS
<1>9. Sum(h, T \ {a}) = Sum(g, Whole(T \ {a}))
  BY <1>1
<1> HIDE DEF Whole
<1>10. Sum(g, Whole(T)) = Sum(g, F[a]) + Sum(g, Whole(T \ {a}))
  <2> DEFINE P == F[a]
             Q == Whole(T \ {a})
  <2>1. P \in SUBSET S /\ Q \in SUBSET S /\ P \cap Q = {} /\ Whole(T) = P \cup Q
    BY <1>7, <1>8
  <2> HIDE DEF P, Q, B
  <2>2. Sum(g, P \cup Q) = Sum(g, P) + Sum(g, Q)
    BY <2>1, SumOfUnion
  <2> QED
    BY <2>1, <2>2 DEF P, Q
<1>11. Sum(h, T) = Sum(g, Whole(T))
  BY <1>6, <1>9, <1>10
<1> QED
  BY <1>11
=============================================================================
