-------------------------- MODULE ScopeCleanupProofs --------------------------
(****************************************************************************)
(* Safety of ScopeCleanup, for every set of well nested function bodies.    *)
(*                                                                          *)
(* IInv relates each of the three passes to the scopes and loops that are   *)
(* open where the pass stands, which are a matter of the function only:     *)
(*   Validated   the contexts of the validator list the open scopes and its *)
(*               loops the loops around, both from outer to inner; where    *)
(*               nested loops are in braces, a context is marked exactly if *)
(*               it is the innermost scope of a loop around; and what was   *)
(*               noted at a break, skip or return is right                  *)
(*   Placed      the offset is what the visible variables take, and every   *)
(*               variable stands on top of those visible at its declaration *)
(*   Balanced    rsp is below by what the open scopes take                  *)
(* None can do without Places, and Balanced not without what was noted.     *)
(*                                                                          *)
(* Only the marks need the braces: a context has room for one mark, so that *)
(* the end of a loop takes the mark of another loop in the same scope along.*)
(****************************************************************************)
EXTENDS ScopeCleanup, FiniteSums, SequenceTheorems

-----------------------------------------------------------------------------
(****************************************************************************)
(* The parts of a function, as a sequence of tokens, without the program    *)
(* that compiles it: which part ends where, which scopes and loops are open *)
(* in front of a token and how that changes from one token to the next, and *)
(* what the variables of the open scopes take.                              *)
(*                                                                          *)
(* Everything follows from WellNested, which is stated with levels: how     *)
(* many parts have begun and not ended.  The levels are followed token by   *)
(* token, with the induction of FiniteSums.                                 *)
(****************************************************************************)
Ops == Opening \cup Closing \cup {"else", "var", "break", "skip", "return"}

(* What opens and closes a part.                                            *)
LEMMA Words ==
  /\ Opening = {"block", "init", "loop", "if"}
  /\ Closing = {"endblock", "endinit", "endloop", "endif"}
  /\ Opening \cap Closing = {}
  /\ ClosedBy["block"] = "endblock" /\ ClosedBy["init"] = "endinit"
  /\ ClosedBy["loop"] = "endloop" /\ ClosedBy["if"] = "endif"
<1>1. Opening = {"block", "init", "loop", "if"}
  BY DEF Opening, ClosedBy
<1>2. /\ ClosedBy["block"] = "endblock" /\ ClosedBy["init"] = "endinit"
      /\ ClosedBy["loop"] = "endloop" /\ ClosedBy["if"] = "endif"
  BY DEF ClosedBy
<1>3. Closing = {"endblock", "endinit", "endloop", "endif"}
  BY <1>1, <1>2 DEF Closing
<1> QED
  BY <1>1, <1>2, <1>3

(* A function is a sequence of tokens, and not an empty one.                *)
LEMMA Tokens ==
  ASSUME NEW f \in FunctionBodies
  PROVE  /\ f \in Seq(Token) /\ Len(f) \in Nat /\ Len(f) > 1
         /\ \A i \in 1 .. Len(f) :
              /\ f[i].op \in Ops
              /\ f[i].op = "var" => f[i].size \in Nat
              /\ f[i].op = "loop" => f[i].kind \in LoopKind
<1>1. WellNested(f)
  BY FunctionBodiesWellNested
<1>2. f \in Seq(Token) /\ Len(f) \in Nat /\ Len(f) > 1
  BY <1>1 DEF WellNested
<1>3. ASSUME NEW t \in Token
      PROVE  t.op \in Ops /\ (t.op = "var" => t.size \in Nat) /\ (t.op = "loop" => t.kind \in LoopKind)
  <2>1. CASE t \in [op : {"loop"}, kind : LoopKind]
    BY <2>1, Words DEF Ops
  <2>2. CASE t \in [op : {"var"}, size : Nat]
    BY <2>2, Words DEF Ops
  <2>3. CASE t \in [op : {"block", "endblock", "init", "endinit", "endloop", "if", "else", "endif",
                "break", "skip", "return"}]
    BY <2>3, Words DEF Ops
  <2> QED
    BY <2>1, <2>2, <2>3 DEF Token
<1> QED
  BY <1>2, <1>3

(* How a token changes the level.                                           *)
Weight(f, i) == IF f[i].op \in Opening THEN 1 ELSE IF f[i].op \in Closing THEN -1 ELSE 0
Count(f, ops, i) == Cardinality({j \in 1 .. i : f[j].op \in ops})

(* Nothing is counted in front of the first token.                          *)
LEMMA CountNone ==
  ASSUME NEW f, NEW ops
  PROVE  Count(f, ops, 0) = 0
<1>1. {j \in 1 .. 0 : f[j].op \in ops} = {}
  OBVIOUS
<1> QED
  BY <1>1, FS_EmptySet DEF Count

(* One more token is counted or not.                                        *)
LEMMA CountOne ==
  ASSUME NEW f, NEW ops, NEW i \in Nat
  PROVE  /\ Count(f, ops, i) \in Nat
         /\ f[i + 1].op \in ops => Count(f, ops, i + 1) = Count(f, ops, i) + 1
         /\ f[i + 1].op \notin ops => Count(f, ops, i + 1) = Count(f, ops, i)
<1> DEFINE S == {j \in 1 .. i : f[j].op \in ops}
           T == {j \in 1 .. i + 1 : f[j].op \in ops}
<1>1. IsFiniteSet(1 .. i) /\ S \in SUBSET (1 .. i) /\ i + 1 \notin S
  BY FS_Interval
<1>2. T = IF f[i + 1].op \in ops THEN S \cup {i + 1} ELSE S
  OBVIOUS
<1>3. Count(f, ops, i) = Cardinality(S) /\ Count(f, ops, i + 1) = Cardinality(T)
  BY DEF Count
<1> HIDE DEF S, T
<1>4. IsFiniteSet(S)
  BY <1>1, FS_Subset
<1>5. Cardinality(S) \in Nat /\ Cardinality(S \cup {i + 1}) = Cardinality(S) + 1
  BY <1>1, <1>4, FS_CardinalityType, FS_AddElement
<1> QED
  BY <1>2, <1>3, <1>5

(* The level goes up and down by one, token by token.                       *)
LEMMA Levels ==
  ASSUME NEW f
  PROVE  /\ Level(f, 0) = 0
         /\ \A i \in Nat : Level(f, i) \in Int /\ Level(f, i + 1) = Level(f, i) + Weight(f, i + 1)
<1>1. \A i : Level(f, i) = Count(f, Opening, i) - Count(f, Closing, i)
  BY DEF Level, Count
<1>2. \A i : ~ (f[i].op \in Opening /\ f[i].op \in Closing)
  BY Words
<1>3. Level(f, 0) = 0
  BY <1>1, CountNone
<1>4. ASSUME NEW i \in Nat PROVE Level(f, i) \in Int /\ Level(f, i + 1) = Level(f, i) + Weight(f, i + 1)
  BY <1>1, <1>2, CountOne DEF Weight
<1> QED
  BY <1>3, <1>4

(* The same, seen from the token itself.                                    *)
LEMMA LevelAt ==
  ASSUME NEW f, NEW i \in Nat \ {0}
  PROVE  /\ Level(f, i - 1) \in Int /\ Level(f, i) \in Int
         /\ Level(f, i) = Level(f, i - 1) + Weight(f, i)
<1>1. i - 1 \in Nat /\ (i - 1) + 1 = i
  OBVIOUS
<1> QED
  BY <1>1, Levels

(* Where a part ends: the first token behind its beginning that has a lower *)
(* level.                                                                   *)
LEMMA Ends ==
  ASSUME NEW f \in FunctionBodies, NEW i \in 1 .. Len(f), f[i].op \in Opening
  PROVE  /\ MatchingEnd(f, i) \in i + 1 .. Len(f)
         /\ Level(f, MatchingEnd(f, i)) = Level(f, i) - 1
         /\ \A k \in i .. MatchingEnd(f, i) - 1 : Level(f, k) >= Level(f, i)
<1> DEFINE D == {j \in i + 1 .. Len(f) : Level(f, j) < Level(f, i)}
<1>1. Len(f) \in Nat /\ Level(f, Len(f)) = 0 /\ \A k \in 1 .. Len(f) - 1 : Level(f, k) > 0
  BY FunctionBodiesWellNested, Tokens DEF WellNested
<1>2. \A k \in Nat : Level(f, k) \in Int
  BY Levels
<1>3. i < Len(f) /\ Level(f, i) > 0
  <2>1. i = Len(f) => Level(f, i - 1) >= 0 /\ Level(f, i) = Level(f, i - 1) + 1
    <3> SUFFICES ASSUME i = Len(f) PROVE Level(f, i - 1) >= 0 /\ Level(f, i) = Level(f, i - 1) + 1
      OBVIOUS
    <3>1. Level(f, i - 1) >= 0
      <4>1. i - 1 = 0 \/ i - 1 \in 1 .. Len(f) - 1
        BY <1>1
      <4>2. Level(f, i - 1) \in Int
        BY LevelAt
      <4> QED
        BY <1>1, <4>1, <4>2, Levels
    <3>2. Weight(f, i) = 1
      BY DEF Weight
    <3> QED
      BY <3>1, <3>2, LevelAt
  <2> QED
    BY <1>1, <1>2, <2>1
<1>4. Len(f) \in D
  BY <1>1, <1>3
<1>5. D \in SUBSET Nat /\ D # {}
  BY <1>4
<1>6. PICK j \in D : \A k \in D : j <= k
  BY <1>5, LeastNatural
<1>7. \A k \in i .. j - 1 : Level(f, k) >= Level(f, i)
  BY <1>2, <1>6
<1>8. Level(f, j) = Level(f, i) - 1
  <2>1. j - 1 \in i .. j - 1 /\ j - 1 \in Nat /\ (j - 1) + 1 = j
    BY <1>6
  <2>2. Level(f, j) = Level(f, j - 1) + Weight(f, j) /\ Level(f, j - 1) >= Level(f, i)
    BY <1>7, <2>1, Levels
  <2> QED
    BY <1>2, <1>6, <2>1, <2>2 DEF Weight
<1> DEFINE P(e) == Level(f, e) = Level(f, i) - 1 /\ \A k \in i .. e - 1 : Level(f, k) >= Level(f, i)
<1>9. P(j) /\ j \in i + 1 .. Len(f) /\ MatchingEnd(f, i) = CHOOSE e \in i + 1 .. Len(f) : P(e)
  BY <1>6, <1>7, <1>8 DEF MatchingEnd
<1> HIDE DEF P
<1>10. MatchingEnd(f, i) \in i + 1 .. Len(f) /\ P(MatchingEnd(f, i))
  BY <1>9
<1> QED
  BY <1>10 DEF P

Opens(f) == {i \in 1 .. Len(f) : f[i].op \in Opening}
EndIn(f, i) == EndOf[f][i]

(* A part ends behind its beginning, with the word that belongs to it, on   *)
(* the level it began on, and is not left in between.                       *)
LEMMA Parts ==
  ASSUME NEW f \in FunctionBodies
  PROVE  /\ DOMAIN EndOf[f] = Opens(f)
         /\ \A i \in Opens(f) :
              /\ EndIn(f, i) = MatchingEnd(f, i)
              /\ i \in Nat /\ EndIn(f, i) \in Nat /\ 1 <= i /\ i < EndIn(f, i) /\ EndIn(f, i) <= Len(f)
              /\ f[EndIn(f, i)].op = ClosedBy[f[i].op] /\ f[EndIn(f, i)].op \in Closing
              /\ Level(f, EndIn(f, i)) = Level(f, i) - 1
              /\ \A k \in i .. EndIn(f, i) - 1 : Level(f, k) >= Level(f, i)
<1>1. DOMAIN EndOf[f] = Opens(f)
  BY DEF EndOf, Opens
<1>2. ASSUME NEW i \in Opens(f)
      PROVE  /\ EndIn(f, i) = MatchingEnd(f, i)
             /\ i \in Nat /\ EndIn(f, i) \in Nat /\ 1 <= i /\ i < EndIn(f, i) /\ EndIn(f, i) <= Len(f)
             /\ f[EndIn(f, i)].op = ClosedBy[f[i].op] /\ f[EndIn(f, i)].op \in Closing
             /\ Level(f, EndIn(f, i)) = Level(f, i) - 1
             /\ \A k \in i .. EndIn(f, i) - 1 : Level(f, k) >= Level(f, i)
  <2>1. EndIn(f, i) = MatchingEnd(f, i)
    BY DEF EndIn, EndOf, Opens
  <2>2. i \in 1 .. Len(f) /\ f[i].op \in Opening /\ Len(f) \in Nat
    BY Tokens DEF Opens
  <2>3. f[MatchingEnd(f, i)].op = ClosedBy[f[i].op]
    BY <2>2, FunctionBodiesWellNested DEF WellNested
  <2>4. ClosedBy[f[i].op] \in Closing
    BY <2>2 DEF Closing
  <2>5. /\ MatchingEnd(f, i) \in i + 1 .. Len(f)
        /\ Level(f, MatchingEnd(f, i)) = Level(f, i) - 1
        /\ \A k \in i .. MatchingEnd(f, i) - 1 : Level(f, k) >= Level(f, i)
    BY <2>2, Ends
  <2> QED
    BY <2>1, <2>2, <2>3, <2>4, <2>5
<1> QED
  BY <1>1, <1>2

(* Parts lie within each other or apart.                                    *)
LEMMA Nesting ==
  ASSUME NEW f \in FunctionBodies, NEW i \in Opens(f), NEW k \in Opens(f), i < k
  PROVE  EndIn(f, k) < EndIn(f, i) \/ EndIn(f, i) < k
<1>1. /\ i \in Nat /\ EndIn(f, i) \in Nat /\ k \in Nat /\ EndIn(f, k) \in Nat /\ i < EndIn(f, i) /\ k < EndIn(f, k)
      /\ Level(f, EndIn(f, i)) = Level(f, i) - 1 /\ Level(f, EndIn(f, k)) = Level(f, k) - 1
      /\ \A l \in i .. EndIn(f, i) - 1 : Level(f, l) >= Level(f, i)
      /\ \A l \in k .. EndIn(f, k) - 1 : Level(f, l) >= Level(f, k)
  BY Parts
<1>2. EndIn(f, i) # k
  <2>1. f[EndIn(f, i)].op \in Closing /\ f[k].op \in Opening
    BY Parts DEF Opens
  <2> QED
    BY <2>1, Words
<1>3. CASE k < EndIn(f, i)
  <2>1. Level(f, k) = Level(f, k - 1) + 1 /\ Level(f, k - 1) \in Int /\ Level(f, k) \in Int
    <3>1. Weight(f, k) = 1 /\ k \in Nat \ {0}
      BY <1>1 DEF Weight, Opens
    <3> QED
      BY <3>1, LevelAt
  <2>2. Level(f, k - 1) >= Level(f, i)
    BY <1>1, <1>3
  <2>3. Level(f, i) \in Int
    BY <1>1, Levels
  <2>4. Level(f, EndIn(f, i)) < Level(f, k) - 1
    BY <1>1, <2>1, <2>2, <2>3
  <2>5. ~ (EndIn(f, i) \in k .. EndIn(f, k) - 1) /\ EndIn(f, i) # EndIn(f, k)
    <3>1. Level(f, EndIn(f, i)) \in Int
      BY <1>1, Levels
    <3> QED
      BY <1>1, <2>1, <2>4, <3>1
  <2> QED
    BY <1>1, <1>3, <2>5
<1> QED
  BY <1>1, <1>2, <1>3

(* Every part has its own end.                                              *)
LEMMA OneOpener ==
  ASSUME NEW f \in FunctionBodies, NEW i \in Opens(f), NEW k \in Opens(f), EndIn(f, i) = EndIn(f, k)
  PROVE  i = k
<1>1. /\ i \in Nat /\ EndIn(f, i) \in Nat /\ k \in Nat /\ EndIn(f, k) \in Nat /\ i < EndIn(f, i) /\ k < EndIn(f, k)
  BY Parts
<1>2. ~ (i < k)
  BY <1>1, Nesting
<1>3. ~ (k < i)
  BY <1>1, Nesting
<1> QED
  BY <1>1, <1>2, <1>3

(* What is closed has been opened: at the last token before which the level *)
(* was as low as behind the end.                                            *)
LEMMA HasOpener ==
  ASSUME NEW f \in FunctionBodies, NEW j \in 1 .. Len(f), f[j].op \in Closing
  PROVE  \E i \in Opens(f) : EndIn(f, i) = j
<1> DEFINE D == {i \in 1 .. j : Level(f, i - 1) <= Level(f, j)}
<1>0. \A k \in Nat : Level(f, k) \in Int
  BY Levels
<1>1. Len(f) \in Nat /\ j \in Nat \ {0} /\ j \in Int /\ \A k \in Nat : Level(f, k) \in Int
  BY <1>0, Tokens
<1>2. Level(f, j) >= 0
  <2>1. Level(f, Len(f)) = 0 /\ \A i \in 1 .. Len(f) - 1 : Level(f, i) > 0
    BY FunctionBodiesWellNested DEF WellNested
  <2>2. CASE j = Len(f)
    BY <2>1, <2>2
  <2>3. CASE j # Len(f)
    <3>1. j \in 1 .. Len(f) - 1
      BY <1>1, <2>3
    <3> QED
      BY <1>1, <2>1, <3>1
  <2> QED
    BY <2>2, <2>3
<1>3. 1 \in D
  BY <1>1, <1>2, Levels
<1>4. D \in SUBSET Int /\ D # {}
  <2>1. D \subseteq 1 .. j /\ 1 .. j \subseteq Int
    BY <1>1
  <2> QED
    BY <1>3, <2>1
<1>16. \A y \in D : y <= j
  BY <1>1
<1>5. PICK i \in D : \A y \in D : y <= i
  <2> HIDE DEF D
  <2> QED
    BY <1>1, <1>4, <1>16, GreatestInteger
<1>6. /\ i \in 1 .. j /\ i \in Nat \ {0} /\ Level(f, i - 1) <= Level(f, j)
      /\ Level(f, i - 1) \in Int /\ Level(f, i) \in Int /\ Level(f, j) \in Int
  BY <1>1, <1>5, LevelAt
<1>7. Level(f, j - 1) = Level(f, j) + 1
  <2>1. Weight(f, j) = -1
    BY Words DEF Weight
  <2> QED
    BY <1>1, <2>1, LevelAt
<1>8. i # j
  BY <1>6, <1>7
<1>9. \A k \in i .. j - 1 : Level(f, k) > Level(f, j)
  <2> SUFFICES ASSUME NEW k \in i .. j - 1 PROVE Level(f, k) > Level(f, j)
    OBVIOUS
  <2>1. k + 1 \in 1 .. j /\ k + 1 > i /\ k \in Nat /\ (k + 1) - 1 = k
    BY <1>6
  <2>2. k + 1 \notin D
    BY <1>5, <1>6, <2>1
  <2> QED
    BY <1>1, <1>6, <2>1, <2>2
<1>10. Level(f, i) = Level(f, j) + 1 /\ f[i].op \in Opening
  <2>1. Level(f, i) > Level(f, j)
    BY <1>6, <1>8, <1>9
  <2>2. Level(f, i) = Level(f, i - 1) + Weight(f, i)
    BY <1>6, LevelAt
  <2>3. Weight(f, i) \in {1, 0, -1}
    BY DEF Weight
  <2>4. Weight(f, i) = 1
    BY <1>6, <2>1, <2>2, <2>3
  <2> QED
    BY <1>6, <2>1, <2>2, <2>4 DEF Weight
<1>11. i \in Opens(f)
  BY <1>1, <1>6, <1>10 DEF Opens
<1>12. /\ EndIn(f, i) \in Nat /\ i < EndIn(f, i) /\ Level(f, EndIn(f, i)) = Level(f, i) - 1
       /\ \A k \in i .. EndIn(f, i) - 1 : Level(f, k) >= Level(f, i)
  BY <1>11, Parts
<1>13. ~ (EndIn(f, i) < j)
  BY <1>6, <1>9, <1>10, <1>12
<1>14. ~ (j < EndIn(f, i))
  BY <1>6, <1>10, <1>12
<1>15. EndIn(f, i) = j
  BY <1>1, <1>12, <1>13, <1>14
<1> QED
  BY <1>11, <1>15

(* The body is the whole function.                                          *)
LEMMA BodyIsAll ==
  ASSUME NEW f \in FunctionBodies
  PROVE  1 \in Opens(f) /\ f[1].op = "block" /\ EndIn(f, 1) = Len(f) /\ f[Len(f)].op = "endblock"
<1>1. /\ f[1].op = "block" /\ Len(f) \in Nat /\ Len(f) > 1 /\ \A i \in 1 .. Len(f) - 1 : Level(f, i) > 0
  BY FunctionBodiesWellNested, Tokens DEF WellNested
<1>2. 1 \in Opens(f)
  BY <1>1, Words DEF Opens
<1>3. Level(f, 1) = 1
  <2>1. Weight(f, 1) = 1
    BY <1>1, Words DEF Weight
  <2>2. Level(f, 1 - 1) = 0
    BY Levels
  <2> QED
    BY <2>1, <2>2, LevelAt
<1>4. /\ EndIn(f, 1) \in Nat /\ 1 < EndIn(f, 1) /\ EndIn(f, 1) <= Len(f) /\ Level(f, EndIn(f, 1)) = 0
      /\ f[EndIn(f, 1)].op = ClosedBy["block"]
  BY <1>1, <1>2, <1>3, Parts
<1> QED
  BY <1>1, <1>2, <1>4, Words

(* What is open in front of a token, of some of the parts.                  *)
At(f, parts, i) == {s \in parts : s < i /\ i <= EndIn(f, s)}

(* Behind the token that opens a part, the part is open too.                *)
LEMMA Enters ==
  ASSUME NEW f \in FunctionBodies, NEW K \in SUBSET Opens(f), NEW i \in K
  PROVE  At(f, K, i + 1) = At(f, K, i) \cup {i} /\ i \notin At(f, K, i) /\ \A s \in At(f, K, i) : s < i
<1>1. ASSUME NEW s \in K
      PROVE  /\ s \in Nat /\ EndIn(f, s) \in Nat /\ s < EndIn(f, s) /\ i \in Nat /\ EndIn(f, s) # i
  <2>1. s \in Opens(f) /\ i \in Opens(f)
    OBVIOUS
  <2>2. f[EndIn(f, s)].op \in Closing /\ f[i].op \in Opening
    BY <2>1, Parts DEF Opens
  <2> QED
    BY <2>1, <2>2, Parts, Words
<1>2. i < EndIn(f, i)
  BY <1>1
<1>3. \A s \in K : s \in At(f, K, i + 1) <=> s \in At(f, K, i) \/ s = i
  BY <1>1, <1>2 DEF At
<1> QED
  BY <1>1, <1>3 DEF At

(* Behind the end of a part, which is the innermost one, it is open no      *)
(* more.                                                                    *)
LEMMA Leaves ==
  ASSUME NEW f \in FunctionBodies, NEW K \in SUBSET Opens(f), NEW o \in K, NEW i, i = EndIn(f, o)
  PROVE  At(f, K, i + 1) = At(f, K, i) \ {o} /\ o \in At(f, K, i) /\ \A s \in At(f, K, i) : s <= o
<1>1. ASSUME NEW s \in K
      PROVE  /\ s \in Nat /\ EndIn(f, s) \in Nat /\ s < EndIn(f, s) /\ i \in Nat
             /\ o \in Nat /\ o < i
             /\ EndIn(f, s) = i => s = o
             /\ o < s => EndIn(f, s) < i \/ i < s
  <2>1. s \in Opens(f) /\ o \in Opens(f)
    OBVIOUS
  <2> QED
    BY <2>1, Parts, OneOpener, Nesting
<1>2. \A s \in K : s \in At(f, K, i + 1) <=> s \in At(f, K, i) /\ s # o
  BY <1>1 DEF At
<1>3. o \in At(f, K, i)
  BY <1>1 DEF At
<1>4. \A s \in At(f, K, i) : s <= o
  BY <1>1 DEF At
<1>5. \A s \in At(f, K, i + 1) : s \in K
  BY DEF At
<1>6. \A s \in At(f, K, i) : s \in K
  BY DEF At
<1> QED
  BY <1>2, <1>3, <1>4, <1>5, <1>6

(* A token that neither opens nor closes one leaves what is open as it is.  *)
LEMMA Passes ==
  ASSUME NEW f \in FunctionBodies, NEW K \in SUBSET Opens(f), NEW i \in Nat, i \notin K,
         \A s \in K : EndIn(f, s) # i
  PROVE  At(f, K, i + 1) = At(f, K, i)
<1>1. ASSUME NEW s \in K
      PROVE  s \in Nat /\ EndIn(f, s) \in Nat
  BY Parts
<1>2. \A s \in K : s \in At(f, K, i + 1) <=> s \in At(f, K, i)
  BY <1>1 DEF At
<1> QED
  BY <1>2 DEF At

(* In front of its end a part has the same around it as in front of its     *)
(* beginning.                                                               *)
LEMMA Around ==
  ASSUME NEW f \in FunctionBodies, NEW K \in SUBSET Opens(f), NEW o \in Opens(f)
  PROVE  At(f, K, EndIn(f, o)) = At(f, K, o) \cup ({o} \cap K)
<1>1. ASSUME NEW s \in K
      PROVE  s \in At(f, K, EndIn(f, o)) <=> s \in At(f, K, o) \/ s = o
  <2>1. s \in Opens(f)
    OBVIOUS
  <2>2. /\ s \in Nat /\ EndIn(f, s) \in Nat /\ s < EndIn(f, s)
        /\ o \in Nat /\ EndIn(f, o) \in Nat /\ o < EndIn(f, o)
        /\ o < s => EndIn(f, s) < EndIn(f, o) \/ EndIn(f, o) < s
        /\ s < o => EndIn(f, o) < EndIn(f, s) \/ EndIn(f, s) < o
    BY <2>1, Parts, Nesting
  <2> QED
    BY <2>2 DEF At
<1>2. \A s \in At(f, K, EndIn(f, o)) : s \in K
  BY DEF At
<1>3. \A s \in At(f, K, o) : s \in K
  BY DEF At
<1>4. At(f, K, EndIn(f, o)) = At(f, K, o) \cup ({o} \cap K)
  <2>1. ASSUME NEW s PROVE s \in At(f, K, EndIn(f, o)) <=> s \in At(f, K, o) \cup ({o} \cap K)
    BY <1>1, <1>2, <1>3
  <2> QED
    BY <2>1
<1> QED
  BY <1>4

(* What is around a part is around everything in it, and what is around a   *)
(* token of a part and begins before the part is around the part.           *)
LEMMA Deeper ==
  ASSUME NEW f \in FunctionBodies, NEW K \in SUBSET Opens(f), NEW o \in Opens(f),
         NEW i \in Nat, o < i, i <= EndIn(f, o)
  PROVE  \A s \in K : s \in At(f, K, o) <=> s \in At(f, K, i) /\ s < o
<1>1. ASSUME NEW s \in K
      PROVE  s \in At(f, K, o) <=> s \in At(f, K, i) /\ s < o
  <2>1. s \in Opens(f)
    OBVIOUS
  <2>2. /\ s \in Nat /\ EndIn(f, s) \in Nat /\ s < EndIn(f, s)
        /\ o \in Nat /\ EndIn(f, o) \in Nat /\ o < EndIn(f, o)
        /\ s < o => EndIn(f, o) < EndIn(f, s) \/ EndIn(f, s) < o
    BY <2>1, Parts, Nesting
  <2> QED
    BY <2>2 DEF At
<1> QED
  BY <1>1

-----------------------------------------------------------------------------
(* The scopes of a function, and what begins its loops: for a for with a    *)
(* declaration that is its init, two tokens before the loop.                *)
ScopesIn(f) == {s \in Opens(f) : f[s].op \in Scopes}
LoopsIn(f) == {l \in Opens(f) : f[l].op = "loop"}
HeadsIn(f) == {h \in Opens(f) : f[h].op = "init" \/ (f[h].op = "loop" /\ f[h].kind # "fordecl")}
LoopOf(f, h) == IF f[h].op = "init" THEN h + 2 ELSE h

(* The loop of a for with a declaration stands behind its variable and ends *)
(* one token before it.                                                     *)
LEMMA ForDeclarations ==
  ASSUME NEW f \in FunctionBodies, NEW h \in Opens(f), f[h].op = "init"
  PROVE  /\ h + 2 \in Opens(f) /\ f[h + 1].op = "var" /\ f[h + 2].op = "loop" /\ f[h + 2].kind = "fordecl"
         /\ EndIn(f, h) = EndIn(f, h + 2) + 1 /\ h + 2 < EndIn(f, h + 2)
<1>1. h \in 1 .. Len(f) /\ Len(f) \in Nat
  BY Tokens DEF Opens
<1>2. IsForDeclaration(f, h)
  BY <1>1, FunctionBodiesWellNested DEF WellNested
<1>3. h + 2 \in 1 .. Len(f) /\ f[h + 1].op = "var" /\ f[h + 2].op = "loop"
  BY <1>1, <1>2 DEF IsForDeclaration
<1>4. f[h + 2].kind = "fordecl"
  <2>1. h + 2 > 2 /\ (h + 2) - 2 = h
    BY <1>1
  <2> QED
    BY <1>3, <2>1, FunctionBodiesWellNested DEF WellNested
<1>5. h + 2 \in Opens(f)
  BY <1>3, Words DEF Opens
<1>6. EndIn(f, h) = EndIn(f, h + 2) + 1
  BY <1>2, <1>5, Parts DEF IsForDeclaration
<1> QED
  BY <1>3, <1>4, <1>5, <1>6, Parts

(* A loop of that kind has such a declaration around it.                    *)
LEMMA ForLoops ==
  ASSUME NEW f \in FunctionBodies, NEW l \in LoopsIn(f), f[l].kind = "fordecl"
  PROVE  l - 2 \in Opens(f) /\ f[l - 2].op = "init" /\ (l - 2) + 2 = l
<1>1. l \in 1 .. Len(f) /\ f[l].op = "loop" /\ Len(f) \in Nat
  BY Tokens DEF Opens, LoopsIn
<1>2. l > 2 /\ f[l - 2].op = "init"
  BY <1>1, FunctionBodiesWellNested DEF WellNested
<1>3. l - 2 \in 1 .. Len(f)
  BY <1>1, <1>2
<1> QED
  BY <1>1, <1>2, <1>3, Words DEF Opens

(* What a head is: the init of its loop or, of any other loop, the loop.    *)
LEMMA Heads ==
  ASSUME NEW f \in FunctionBodies, NEW h \in HeadsIn(f)
  PROVE  /\ h \in Opens(f) /\ LoopOf(f, h) \in LoopsIn(f)
         /\ f[h].op = "init" => LoopOf(f, h) = h + 2 /\ EndIn(f, h) = EndIn(f, LoopOf(f, h)) + 1
         /\ f[h].op # "init" => LoopOf(f, h) = h /\ h \notin ScopesIn(f)
         /\ f[LoopOf(f, h)].kind = "fordecl" <=> f[h].op = "init"
<1>1. CASE f[h].op = "init"
  BY <1>1, ForDeclarations DEF HeadsIn, LoopOf, LoopsIn
<1>2. CASE f[h].op # "init"
  BY <1>2 DEF HeadsIn, LoopOf, LoopsIn, ScopesIn, Scopes
<1> QED
  BY <1>1, <1>2

(* Every loop has a head.                                                   *)
LEMMA HeadOfLoop ==
  ASSUME NEW f \in FunctionBodies, NEW l \in LoopsIn(f)
  PROVE  \E h \in HeadsIn(f) : LoopOf(f, h) = l
<1>1. CASE f[l].kind = "fordecl"
  <2>1. l - 2 \in HeadsIn(f) /\ LoopOf(f, l - 2) = l
    BY <1>1, ForLoops DEF HeadsIn, LoopOf
  <2> QED
    BY <2>1
<1>2. CASE f[l].kind # "fordecl"
  BY <1>2 DEF HeadsIn, LoopsIn, LoopOf
<1> QED
  BY <1>1, <1>2

(* Heads and loops come in the same order.                                  *)
LEMMA HeadsInOrder ==
  ASSUME NEW f \in FunctionBodies, NEW h \in HeadsIn(f), NEW k \in HeadsIn(f), h < k
  PROVE  LoopOf(f, h) < LoopOf(f, k) /\ LoopOf(f, h) < k
<1>1. h \in Opens(f) /\ k \in Opens(f) /\ h \in Nat /\ k \in Nat
  BY Parts DEF HeadsIn
<1>2. CASE f[h].op # "init"
  BY <1>1, <1>2 DEF LoopOf
<1>3. CASE f[h].op = "init"
  <2>1. f[h + 1].op = "var" /\ f[h + 2].op = "loop" /\ f[h + 2].kind = "fordecl"
    BY <1>1, <1>3, ForDeclarations
  <2>2. k # h + 1 /\ k # h + 2
    BY <2>1 DEF HeadsIn
  <2> QED
    BY <1>1, <1>3, <2>2 DEF LoopOf
<1> QED
  BY <1>2, <1>3

(* Two loops that are the same have the same head.                          *)
LEMMA OneHead ==
  ASSUME NEW f \in FunctionBodies, NEW h \in HeadsIn(f), NEW k \in HeadsIn(f), LoopOf(f, h) = LoopOf(f, k)
  PROVE  h = k
<1>1. h \in Nat /\ k \in Nat /\ LoopOf(f, h) \in Nat
  BY Parts, Heads DEF LoopsIn
<1>2. ~ (h < k) /\ ~ (k < h)
  BY <1>1, HeadsInOrder
<1> QED
  BY <1>1, <1>2

OpenAt(f, i) == At(f, ScopesIn(f), i)
HeadsAt(f, i) == At(f, HeadsIn(f), i)

(* A token that is in a loop, but is neither its variable nor its end, has  *)
(* the head of the loop open.                                               *)
Plain == {"else", "break", "skip", "return", "if", "block"}

(* A token that is in a loop, but is neither its variable nor its end, has  *)
(* the head of the loop open.                                               *)
LEMMA AroundPlain ==
  ASSUME NEW f \in FunctionBodies, NEW i \in 1 .. Len(f), f[i].op \in Plain
  PROVE  \A h \in HeadsIn(f) :
           h \in HeadsAt(f, i) <=> LoopOf(f, h) < i /\ i < EndIn(f, LoopOf(f, h))
<1> SUFFICES ASSUME NEW h \in HeadsIn(f)
             PROVE  h \in HeadsAt(f, i) <=> LoopOf(f, h) < i /\ i < EndIn(f, LoopOf(f, h))
  OBVIOUS
<1>1. h \in Opens(f) /\ h \in Nat /\ EndIn(f, h) \in Nat /\ Len(f) \in Nat
  BY Parts, Tokens DEF HeadsIn
<1>2. i # EndIn(f, h) /\ f[i].op \notin Closing
  <2>1. f[i].op \notin Closing
    BY Words DEF Plain
  <2> QED
    BY <1>1, <2>1, Parts
<1>3. CASE f[h].op # "init"
  BY <1>1, <1>2, <1>3 DEF LoopOf, HeadsAt, At
<1>4. CASE f[h].op = "init"
  <2>1. /\ h + 2 \in Opens(f) /\ f[h + 1].op = "var" /\ f[h + 2].op = "loop"
        /\ EndIn(f, h) = EndIn(f, h + 2) + 1 /\ LoopOf(f, h) = h + 2
    BY <1>1, <1>4, ForDeclarations DEF LoopOf
  <2>2. i # h + 1 /\ i # h + 2 /\ i # EndIn(f, h + 2) /\ EndIn(f, h + 2) \in Nat
    BY <1>2, <2>1, Parts DEF Plain
  <2> QED
    BY <1>1, <1>2, <2>1, <2>2 DEF HeadsAt, At
<1> QED
  BY <1>3, <1>4

(* The scope a token stands in, 0 if it is the first one.                   *)
Innermost(f, i) == Max({0} \cup OpenAt(f, i))

(* Open scopes and heads begin in front of a token and do not end before    *)
(* it.                                                                      *)
LEMMA OpenScopesAre ==
  ASSUME NEW f \in FunctionBodies, NEW i
  PROVE  /\ ScopesIn(f) \subseteq Opens(f) /\ HeadsIn(f) \subseteq Opens(f)
         /\ \A s \in OpenAt(f, i) : s \in ScopesIn(f) /\ s \in Nat /\ 1 <= s /\ s < i /\ i <= EndIn(f, s)
         /\ \A h \in HeadsAt(f, i) : h \in HeadsIn(f) /\ h \in Nat /\ 1 <= h /\ h < i /\ i <= EndIn(f, h)
BY Parts DEF ScopesIn, HeadsIn, OpenAt, HeadsAt, At

(* The innermost scope is open, or 0, and no open scope is behind it.       *)
LEMMA InnermostIs ==
  ASSUME NEW f \in FunctionBodies, NEW i \in Nat \ {0}
  PROVE  /\ Innermost(f, i) \in {0} \cup OpenAt(f, i) /\ Innermost(f, i) \in Nat /\ Innermost(f, i) < i
         /\ \A s \in OpenAt(f, i) : s <= Innermost(f, i)
<1> DEFINE T == {0} \cup OpenAt(f, i)
<1>1. \A s \in OpenAt(f, i) : s \in Nat /\ s < i
  BY OpenScopesAre
<1>2. T \in SUBSET Int /\ T # {} /\ i \in Int /\ \A y \in T : y \in Nat /\ y < i
  BY <1>1
<1>3. \A y \in T : y <= i
  BY <1>2
<1>4. Innermost(f, i) = Max(T) /\ \A s \in OpenAt(f, i) : s \in T
  BY DEF Innermost
<1> HIDE DEF T
<1>5. Max(T) \in T /\ \A y \in T : y <= Max(T)
  BY <1>2, <1>3, MaxIsGreatest
<1> QED
  BY <1>2, <1>4, <1>5 DEF T

(* Every two loops, one in the other, have different innermost scopes.      *)
BracedIn(f) ==
  \A h, k \in HeadsIn(f) : h < k /\ k < EndIn(f, h) => \E s \in OpenAt(f, k) : s >= h

(* In braces, the scope an outer loop is in ends before the one of the      *)
(* inner loop begins.                                                       *)
LEMMA BracesTellApart ==
  ASSUME NEW f \in FunctionBodies, BracedIn(f), NEW h \in HeadsIn(f), NEW k \in HeadsIn(f),
         h < k, k < EndIn(f, h)
  PROVE  Innermost(f, h) < h /\ h <= Innermost(f, k)
<1>1. h \in Nat \ {0} /\ k \in Nat \ {0}
  BY Parts DEF HeadsIn
<1>2. PICK s \in OpenAt(f, k) : s >= h
  BY DEF BracedIn
<1>3. Innermost(f, h) < h /\ s <= Innermost(f, k) /\ Innermost(f, k) \in Nat /\ s \in Nat
  BY <1>1, InnermostIs, OpenScopesAre
<1> QED
  BY <1>1, <1>2, <1>3

(* Of the scopes around a token, those around a loop it stands in are the   *)
(* outermost ones.                                                          *)
LEMMA ScopesOfLoop ==
  ASSUME NEW f \in FunctionBodies, NEW i \in Nat, NEW h \in HeadsAt(f, i)
  PROVE  /\ Innermost(f, h) \in {0} \cup OpenAt(f, i)
         /\ \A s \in OpenAt(f, i) : s > Innermost(f, h) <=> s >= h
         /\ \A s \in OpenAt(f, i) : s <= Innermost(f, h) <=> s \in OpenAt(f, h)
<1>1. h \in HeadsIn(f) /\ h \in Opens(f) /\ h \in Nat \ {0} /\ h < i /\ i <= EndIn(f, h)
  BY OpenScopesAre
<1>2. \A s \in ScopesIn(f) : s \in OpenAt(f, h) <=> s \in OpenAt(f, i) /\ s < h
  BY <1>1, Deeper, OpenScopesAre DEF OpenAt
<1>3. /\ Innermost(f, h) \in {0} \cup OpenAt(f, h) /\ Innermost(f, h) \in Nat /\ Innermost(f, h) < h
      /\ \A s \in OpenAt(f, h) : s <= Innermost(f, h)
  BY <1>1, InnermostIs
<1>4. \A s \in OpenAt(f, i) : s \in ScopesIn(f) /\ s \in Nat
  BY OpenScopesAre
<1>5. \A s \in OpenAt(f, h) : s \in ScopesIn(f) /\ s \in Nat
  BY OpenScopesAre
<1>6. Innermost(f, h) \in {0} \cup OpenAt(f, i)
  BY <1>2, <1>3, <1>5
<1>7. \A s \in OpenAt(f, i) : s > Innermost(f, h) <=> s >= h
  BY <1>1, <1>2, <1>3, <1>4
<1>8. \A s \in OpenAt(f, i) : s <= Innermost(f, h) <=> s \in OpenAt(f, h)
  BY <1>1, <1>2, <1>3, <1>4
<1> QED
  BY <1>6, <1>7, <1>8

-----------------------------------------------------------------------------
(* How the open scopes and the heads around change from token to token.     *)
LEMMA OpenNext ==
  ASSUME NEW f \in FunctionBodies, NEW i \in 1 .. Len(f)
  PROVE  /\ f[i].op \in Scopes => i \in ScopesIn(f) /\ OpenAt(f, i + 1) = OpenAt(f, i) \cup {i}
         /\ \A o \in ScopesIn(f) : EndIn(f, o) = i =>
              /\ OpenAt(f, i + 1) = OpenAt(f, i) \ {o}
              /\ o \in OpenAt(f, i) /\ \A s \in OpenAt(f, i) : s <= o
         /\ f[i].op \notin {"block", "init", "endblock", "endinit"} => OpenAt(f, i + 1) = OpenAt(f, i)
<1>1. ScopesIn(f) \in SUBSET Opens(f)
  BY DEF ScopesIn
<1>2. f[i].op \in Scopes => i \in ScopesIn(f)
  BY Words DEF Scopes, ScopesIn, Opens
<1>3. f[i].op \in Scopes => OpenAt(f, i + 1) = OpenAt(f, i) \cup {i}
  BY <1>1, <1>2, Enters DEF OpenAt
<1>4. \A o \in ScopesIn(f) : EndIn(f, o) = i =>
        /\ OpenAt(f, i + 1) = OpenAt(f, i) \ {o}
        /\ o \in OpenAt(f, i) /\ \A s \in OpenAt(f, i) : s <= o
  BY <1>1, Leaves DEF OpenAt
<1>5. ASSUME f[i].op \notin {"block", "init", "endblock", "endinit"} PROVE OpenAt(f, i + 1) = OpenAt(f, i)
  <2>1. i \in Nat /\ i \notin ScopesIn(f)
    BY <1>5, Tokens DEF ScopesIn, Scopes
  <2>2. ASSUME NEW s \in ScopesIn(f) PROVE EndIn(f, s) # i
    <3>1. s \in Opens(f) /\ f[s].op \in {"block", "init"}
      BY DEF ScopesIn, Scopes
    <3>2. f[EndIn(f, s)].op = ClosedBy[f[s].op]
      BY <3>1, Parts
    <3> QED
      BY <1>5, <3>1, <3>2, Words
  <2> QED
    BY <1>1, <2>1, <2>2, Passes DEF OpenAt
<1> QED
  BY <1>2, <1>3, <1>4, <1>5

(* How the heads around change from token to token.                         *)
LEMMA HeadsNext ==
  ASSUME NEW f \in FunctionBodies, NEW i \in 1 .. Len(f)
  PROVE  /\ i \in HeadsIn(f) => HeadsAt(f, i + 1) = HeadsAt(f, i) \cup {i}
         /\ \A o \in HeadsIn(f) : EndIn(f, o) = i =>
              /\ HeadsAt(f, i + 1) = HeadsAt(f, i) \ {o}
              /\ o \in HeadsAt(f, i) /\ \A h \in HeadsAt(f, i) : h <= o
         /\ i \notin HeadsIn(f) /\ (\A o \in HeadsIn(f) : EndIn(f, o) # i) => HeadsAt(f, i + 1) = HeadsAt(f, i)
<1>1. HeadsIn(f) \in SUBSET Opens(f) /\ i \in Nat
  BY Tokens DEF HeadsIn
<1>2. i \in HeadsIn(f) => HeadsAt(f, i + 1) = HeadsAt(f, i) \cup {i}
  BY <1>1, Enters DEF HeadsAt
<1>3. \A o \in HeadsIn(f) : EndIn(f, o) = i =>
        /\ HeadsAt(f, i + 1) = HeadsAt(f, i) \ {o}
        /\ o \in HeadsAt(f, i) /\ \A h \in HeadsAt(f, i) : h <= o
  BY <1>1, Leaves DEF HeadsAt
<1>4. i \notin HeadsIn(f) /\ (\A o \in HeadsIn(f) : EndIn(f, o) # i) => HeadsAt(f, i + 1) = HeadsAt(f, i)
  BY <1>1, Passes DEF HeadsAt
<1> QED
  BY <1>2, <1>3, <1>4

-----------------------------------------------------------------------------
LoopsAt(f, i) == {LoopOf(f, h) : h \in HeadsAt(f, i)}

(* The innermost loop around a token.                                       *)
InnerLoop(f, i) == Max(LoopsAt(f, i))

-----------------------------------------------------------------------------
(* The variables of a function, the size of a scope and of the open ones.   *)
Vars(f) == {v \in 1 .. Len(f) : f[v].op = "var"}
Size(f) == [v \in Vars(f) |-> f[v].size]
VarsOf(f, s) == {v \in Vars(f) : Innermost(f, v) = s}
ScopeSize(f) == [s \in 1 .. Len(f) |-> Sum(Size(f), VarsOf(f, s))]
OpenSize(f, i) == Sum(ScopeSize(f), OpenAt(f, i))

(* Variables are finitely many, and every size is a natural number.         *)
LEMMA Sizes ==
  ASSUME NEW f \in FunctionBodies
  PROVE  /\ IsFiniteSet(Vars(f)) /\ IsFiniteSet(1 .. Len(f)) /\ Vars(f) \subseteq 1 .. Len(f)
         /\ \A v \in Vars(f) : Size(f)[v] = f[v].size /\ Size(f)[v] \in Nat
         /\ \A s \in 1 .. Len(f) : ScopeSize(f)[s] = Sum(Size(f), VarsOf(f, s)) /\ ScopeSize(f)[s] \in Nat
<1>1. IsFiniteSet(1 .. Len(f)) /\ Vars(f) \in SUBSET (1 .. Len(f))
  BY Tokens, FS_Interval DEF Vars
<1>2. IsFiniteSet(Vars(f))
  BY <1>1, FS_Subset
<1>3. \A v \in Vars(f) : Size(f)[v] = f[v].size /\ Size(f)[v] \in Nat
  BY Tokens DEF Vars, Size
<1>4. ASSUME NEW s \in 1 .. Len(f)
      PROVE  ScopeSize(f)[s] = Sum(Size(f), VarsOf(f, s)) /\ ScopeSize(f)[s] \in Nat
  <2>1. VarsOf(f, s) \in SUBSET Vars(f)
    BY DEF VarsOf
  <2>2. Sum(Size(f), VarsOf(f, s)) \in Nat
    BY <1>2, <1>3, <2>1, FS_Subset, SumType
  <2> QED
    BY <2>2 DEF ScopeSize
<1> QED
  BY <1>1, <1>2, <1>3, <1>4

(* A variable belongs to a scope that is open where it stands.              *)
LEMMA VariablesInScopes ==
  ASSUME NEW f \in FunctionBodies, NEW v \in Vars(f)
  PROVE  /\ v \in Nat \ {0} /\ v < Len(f) /\ v \notin Opens(f) /\ Innermost(f, v) \in OpenAt(f, v)
         /\ \A o \in Opens(f) : EndIn(f, o) # v
<1>1. v \in 1 .. Len(f) /\ f[v].op = "var" /\ v \in Nat \ {0} /\ Len(f) \in Nat
  BY Tokens DEF Vars
<1>2. 1 \in Opens(f) /\ f[1].op = "block" /\ EndIn(f, 1) = Len(f) /\ f[Len(f)].op = "endblock"
  BY BodyIsAll
<1>3. v # 1 /\ v # Len(f)
  BY <1>1, <1>2
<1>4. 1 \in OpenAt(f, v)
  BY <1>1, <1>2, <1>3 DEF OpenAt, At, ScopesIn, Scopes
<1>5. Innermost(f, v) \in {0} \cup OpenAt(f, v) /\ 1 <= Innermost(f, v)
  BY <1>1, <1>4, InnermostIs
<1>6. \A o \in Opens(f) : EndIn(f, o) # v
  <2>1. \A o \in Opens(f) : f[EndIn(f, o)].op \in Closing
    BY Parts
  <2> QED
    BY <1>1, <2>1, Words
<1>7. v \notin Opens(f)
  BY <1>1, Words DEF Opens
<1> QED
  BY <1>1, <1>3, <1>5, <1>6, <1>7

-----------------------------------------------------------------------------
(* The variables that have been declared and whose scope is open.           *)
Visible(f, i) == {v \in Vars(f) : v < i /\ Innermost(f, v) \in OpenAt(f, i)}
Place(f, v) == Sum(Size(f), Visible(f, v) \cup {v})

(* What is visible changes at a variable and where a scope ends.            *)
LEMMA VisibleNext ==
  ASSUME NEW f \in FunctionBodies, NEW i \in 1 .. Len(f)
  PROVE  /\ i \in Vars(f) => Visible(f, i + 1) = Visible(f, i) \cup {i} /\ i \notin Visible(f, i)
         /\ \A o \in ScopesIn(f) : EndIn(f, o) = i =>
              Visible(f, i + 1) = Visible(f, i) \ VarsOf(f, o) /\ VarsOf(f, o) \subseteq Visible(f, i)
         /\ f[i].op \notin {"var", "endblock", "endinit"} => Visible(f, i + 1) = Visible(f, i)
<1>1. /\ i \in Nat
      /\ \A v \in Vars(f) : /\ v \in Nat /\ Innermost(f, v) \in OpenAt(f, v)
                            /\ \A o \in Opens(f) : EndIn(f, o) # v
  BY Tokens, VariablesInScopes
<1>2. \A v \in Vars(f) : v < i + 1 <=> v < i \/ v = i
  BY <1>1
<1>3. ASSUME i \in Vars(f) PROVE Visible(f, i + 1) = Visible(f, i) \cup {i} /\ i \notin Visible(f, i)
  <2>1. OpenAt(f, i + 1) = OpenAt(f, i)
    BY <1>3, OpenNext DEF Vars
  <2>2. \A v \in Vars(f) : v \in Visible(f, i + 1) <=> v \in Visible(f, i) \/ v = i
    BY <1>1, <1>2, <1>3, <2>1 DEF Visible
  <2>3. i \notin Visible(f, i)
    BY <1>1 DEF Visible
  <2> QED
    BY <1>3, <2>2, <2>3 DEF Visible
<1>4. ASSUME NEW o \in ScopesIn(f), EndIn(f, o) = i
      PROVE  Visible(f, i + 1) = Visible(f, i) \ VarsOf(f, o) /\ VarsOf(f, o) \subseteq Visible(f, i)
  <2>1. OpenAt(f, i + 1) = OpenAt(f, i) \ {o} /\ o \in OpenAt(f, i) /\ o \in Opens(f)
    BY <1>4, OpenNext, OpenScopesAre
  <2>2. i \notin Vars(f)
    BY <1>1, <1>4, <2>1
  <2>3. \A v \in Vars(f) : Innermost(f, v) = o => v < i
    <3> SUFFICES ASSUME NEW v \in Vars(f), Innermost(f, v) = o PROVE v < i
      OBVIOUS
    <3>1. v <= EndIn(f, o)
      BY <1>1, OpenScopesAre
    <3> QED
      BY <1>1, <1>4, <2>2, <3>1
  <2>4. \A v \in Vars(f) : v \in Visible(f, i + 1) <=> v \in Visible(f, i) /\ v \notin VarsOf(f, o)
    BY <1>2, <2>1, <2>2 DEF Visible, VarsOf
  <2>5. VarsOf(f, o) \subseteq Visible(f, i)
    BY <2>1, <2>3 DEF Visible, VarsOf
  <2> QED
    BY <2>4, <2>5 DEF Visible
<1>5. ASSUME f[i].op \notin {"var", "endblock", "endinit"} PROVE Visible(f, i + 1) = Visible(f, i)
  <2>1. i \notin Vars(f)
    BY <1>5 DEF Vars
  <2>2. OpenAt(f, i + 1) = OpenAt(f, i) \/ OpenAt(f, i + 1) = OpenAt(f, i) \cup {i}
    BY <1>5, OpenNext DEF Scopes
  <2>3. \A v \in Vars(f) : v < i => Innermost(f, v) # i
    <3> SUFFICES ASSUME NEW v \in Vars(f), v < i PROVE Innermost(f, v) # i
      OBVIOUS
    <3>1. Innermost(f, v) \in Nat /\ Innermost(f, v) < v
      BY <1>1, OpenScopesAre
    <3> QED
      BY <1>1, <3>1
  <2>4. \A v \in Vars(f) : v \in Visible(f, i + 1) <=> v \in Visible(f, i)
    BY <1>2, <2>1, <2>2, <2>3 DEF Visible
  <2> QED
    BY <2>4 DEF Visible
<1> QED
  BY <1>3, <1>4, <1>5

(* What is visible at a variable is visible wherever the variable is.       *)
LEMMA VisibleGrows ==
  ASSUME NEW f \in FunctionBodies, NEW v \in Vars(f), NEW i \in Nat, v < i, Innermost(f, v) \in OpenAt(f, i)
  PROVE  \A u \in Visible(f, v) \cup {v} : u \in Visible(f, i)
<1>1. v \in Nat \ {0} /\ Innermost(f, v) \in OpenAt(f, v)
  BY VariablesInScopes
<1>2. v \in Visible(f, i)
  BY DEF Visible
<1>3. ASSUME NEW u \in Visible(f, v) PROVE u \in Visible(f, i)
  <2> DEFINE s == Innermost(f, v)
             t == Innermost(f, u)
  <2>1. u \in Vars(f) /\ u \in Nat /\ u < v /\ t \in OpenAt(f, v) /\ t <= s
    <3>1. u \in Vars(f) /\ u < v /\ t \in OpenAt(f, v)
      BY DEF Visible
    <3> QED
      BY <1>1, <3>1, InnermostIs, VariablesInScopes
  <2>2. t \in OpenAt(f, i)
    <3>1. CASE t = s
      BY <3>1
    <3>2. CASE t # s
      <4>1. /\ s \in Opens(f) /\ t \in Opens(f) /\ t \in ScopesIn(f) /\ s \in Nat /\ t \in Nat /\ t < s
            /\ s < v /\ v <= EndIn(f, t) /\ i <= EndIn(f, s)
        BY <1>1, <2>1, <3>2, OpenScopesAre
      <4>2. EndIn(f, s) \in Nat /\ EndIn(f, t) \in Nat /\ (EndIn(f, s) < EndIn(f, t) \/ EndIn(f, t) < s)
        BY <4>1, Parts, Nesting
      <4>3. t < i /\ i <= EndIn(f, t)
        BY <1>1, <4>1, <4>2
      <4> QED
        BY <4>1, <4>3 DEF OpenAt, At
    <3> QED
      BY <3>1, <3>2
  <2> QED
    BY <1>1, <2>1, <2>2 DEF Visible
<1> QED
  BY <1>2, <1>3

(* A variable comes on top of those that are visible before it.             *)
LEMMA PlaceIs ==
  ASSUME NEW f \in FunctionBodies, NEW v \in Vars(f)
  PROVE  /\ Place(f, v) = Sum(Size(f), Visible(f, v)) + Size(f)[v]
         /\ Place(f, v) \in Nat /\ Sum(Size(f), Visible(f, v)) \in Nat /\ Size(f)[v] \in Nat
<1> DEFINE A == Visible(f, v)
<1>1. A \in SUBSET Vars(f) /\ {v} \in SUBSET Vars(f) /\ A \cap {v} = {}
  <2>1. v \notin A
    BY VariablesInScopes DEF Visible
  <2> QED
    BY <2>1 DEF Visible
<1>2. IsFiniteSet(Vars(f)) /\ \A x \in Vars(f) : Size(f)[x] \in Nat
  BY Sizes
<1> HIDE DEF A
<1>3. Sum(Size(f), A \cup {v}) = Sum(Size(f), A) + Sum(Size(f), {v})
  BY <1>1, <1>2, SumOfUnion
<1>4. Sum(Size(f), {v}) = Size(f)[v] + Sum(Size(f), {v} \ {v})
  <2>1. IsFiniteSet({v}) /\ v \in {v} /\ \A x \in {v} : Size(f)[x] \in Nat
    BY <1>1, <1>2, FS_Subset
  <2> QED
    BY <2>1, SumTakesOut
<1>5. Sum(Size(f), {v} \ {v}) = 0
  BY SumOfNone
<1>6. Sum(Size(f), A) \in Nat
  BY <1>1, <1>2, FS_Subset, SumType
<1> QED
  BY <1>2, <1>3, <1>4, <1>5, <1>6 DEF A, Place

(* The open scopes take what their variables take.                          *)
LEMMA OpenSizeIs ==
  ASSUME NEW f \in FunctionBodies, NEW i
  PROVE  OpenSize(f, i) = Sum(Size(f), {v \in Vars(f) : Innermost(f, v) \in OpenAt(f, i)})
<1> DEFINE A == OpenAt(f, i)
           F == [s \in A |-> VarsOf(f, s)]
           g == Size(f)
           h == ScopeSize(f)
<1>1. A \in SUBSET (1 .. Len(f))
  <2>1. \A s \in A : s \in Opens(f)
    BY OpenScopesAre
  <2> QED
    BY <2>1 DEF Opens
<1>2. IsFiniteSet(A) /\ IsFiniteSet(Vars(f)) /\ \A x \in Vars(f) : g[x] \in Nat
  BY <1>1, Sizes, FS_Subset
<1>3. F \in [A -> SUBSET Vars(f)]
  BY DEF VarsOf
<1>4. \A a \in A : h[a] = Sum(g, F[a])
  BY <1>1, Sizes
<1>5. \A a, b \in A : a # b => F[a] \cap F[b] = {}
  BY DEF VarsOf
<1>6. UNION {F[a] : a \in A} = {v \in Vars(f) : Innermost(f, v) \in A}
  BY DEF VarsOf
<1> HIDE DEF A, F, g, h
<1>7. Sum(h, A) = Sum(g, UNION {F[a] : a \in A})
  BY <1>2, <1>3, <1>4, <1>5, SumOfSums
<1> QED
  BY <1>6, <1>7 DEF A, g, h, OpenSize

-----------------------------------------------------------------------------
(* Where a jump goes, the same scopes are open.                             *)
LEMMA PassesOver ==
  ASSUME NEW f \in FunctionBodies, NEW i \in 1 .. Len(f), f[i].op \notin {"block", "init", "endblock", "endinit"}
  PROVE  i + 1 \in 1 .. Len(f) /\ OpenAt(f, i + 1) = OpenAt(f, i)
<1>1. f[Len(f)].op = "endblock" /\ Len(f) \in Nat
  BY BodyIsAll, Tokens
<1>2. i # Len(f)
  BY <1>1
<1> QED
  BY <1>1, <1>2, OpenNext

(* A part that is no scope has the same scopes open at its end.             *)
LEMMA SameAtEnd ==
  ASSUME NEW f \in FunctionBodies, NEW o \in Opens(f), o \notin ScopesIn(f)
  PROVE  EndIn(f, o) \in 1 .. Len(f) /\ OpenAt(f, EndIn(f, o)) = OpenAt(f, o)
<1>1. OpenAt(f, EndIn(f, o)) = OpenAt(f, o) \cup ({o} \cap ScopesIn(f))
  BY Around, OpenScopesAre DEF OpenAt
<1>2. EndIn(f, o) \in 1 .. Len(f)
  BY Parts, Tokens
<1> QED
  BY <1>1, <1>2

(* Behind a loop and at its end the scopes are those at its beginning.      *)
LEMMA BehindLoop ==
  ASSUME NEW f \in FunctionBodies, NEW l \in LoopsIn(f)
  PROVE  /\ EndIn(f, l) + 1 \in 1 .. Len(f) /\ OpenAt(f, EndIn(f, l) + 1) = OpenAt(f, l)
         /\ EndIn(f, l) \in 1 .. Len(f) /\ OpenAt(f, EndIn(f, l)) = OpenAt(f, l)
         /\ l \in 1 .. Len(f) /\ l \notin ScopesIn(f)
<1>1. l \in Opens(f) /\ l \notin ScopesIn(f) /\ l \in 1 .. Len(f) /\ f[l].op = "loop"
  BY DEF LoopsIn, ScopesIn, Scopes, Opens
<1>2. f[EndIn(f, l)].op = "endloop"
  BY <1>1, Parts, Words
<1> QED
  BY <1>1, <1>2, SameAtEnd, PassesOver

(* The scopes that are open at an else are those around its if: it stands   *)
(* on the same level.                                                       *)
LEMMA ElseStandsIn ==
  ASSUME NEW f \in FunctionBodies, NEW h \in Opens(f), f[h].op = "if", NEW j \in ElseIn(f, h)
  PROVE  /\ j \in 1 .. Len(f) /\ f[j].op = "else" /\ OpenAt(f, j) = OpenAt(f, h)
         /\ j + 1 \in 1 .. Len(f) /\ OpenAt(f, j + 1) = OpenAt(f, h)
<1>1. /\ h \in Nat /\ EndIn(f, h) \in Nat /\ 1 <= h /\ h < EndIn(f, h) /\ EndIn(f, h) <= Len(f) /\ Len(f) \in Nat
      /\ EndIn(f, h) = MatchingEnd(f, h) /\ \A k \in h .. EndIn(f, h) - 1 : Level(f, k) >= Level(f, h)
  BY Parts, Tokens
<1>2. /\ j \in Nat /\ h < j /\ j < EndIn(f, h) /\ j \in 1 .. Len(f) /\ f[j].op = "else" /\ Level(f, j) = Level(f, h)
  BY <1>1 DEF ElseIn
<1>3. h \notin ScopesIn(f)
  BY DEF ScopesIn, Scopes
<1>4. ASSUME NEW s \in OpenAt(f, j), h < s PROVE FALSE
  <2>1. s \in Opens(f) /\ s \in Nat \ {0} /\ s < j /\ j <= EndIn(f, s)
    BY OpenScopesAre
  <2>2. /\ EndIn(f, s) \in Nat /\ f[EndIn(f, s)].op \in Closing
        /\ \A k \in s .. EndIn(f, s) - 1 : Level(f, k) >= Level(f, s)
    BY <2>1, Parts
  <2>3. j # EndIn(f, s)
    BY <1>2, <2>2, Words
  <2>4. Level(f, j) >= Level(f, s)
    BY <1>2, <2>1, <2>2, <2>3
  <2>5. Level(f, s) = Level(f, s - 1) + 1
    <3>1. Weight(f, s) = 1
      BY <2>1 DEF Weight, Opens
    <3> QED
      BY <2>1, <3>1, LevelAt
  <2>6. Level(f, s - 1) >= Level(f, h)
    <3>1. s - 1 \in h .. EndIn(f, h) - 1
      BY <1>1, <1>2, <1>4, <2>1
    <3> QED
      BY <1>1, <3>1
  <2>7. Level(f, s - 1) \in Int /\ Level(f, s) \in Int /\ Level(f, h) \in Int
    BY <1>1, <2>1, LevelAt, Levels
  <2> QED
    BY <1>2, <2>4, <2>5, <2>6, <2>7
<1>5. \A s \in ScopesIn(f) : s \in OpenAt(f, h) <=> s \in OpenAt(f, j) /\ s < h
  BY <1>1, <1>2, Deeper, OpenScopesAre DEF OpenAt
<1>6. \A s \in OpenAt(f, j) : s \in ScopesIn(f) /\ s < h
  <2> SUFFICES ASSUME NEW s \in OpenAt(f, j) PROVE s \in ScopesIn(f) /\ s < h
    OBVIOUS
  <2>1. s \in ScopesIn(f) /\ s \in Nat
    BY OpenScopesAre
  <2> QED
    BY <1>1, <1>3, <1>4, <2>1
<1>7. \A s \in OpenAt(f, h) : s \in ScopesIn(f)
  BY OpenScopesAre
<1>8. OpenAt(f, j) = OpenAt(f, h)
  BY <1>5, <1>6, <1>7
<1> QED
  BY <1>2, <1>8, PassesOver

(* At a loop the scopes are open that a break out of it leaves open.        *)
LEMMA ExitJumps ==
  ASSUME NEW f \in FunctionBodies, NEW i \in 1 .. Len(f), f[i].op \in {"break", "skip"}, HeadsAt(f, i) # {},
         NEW l, l = InnerLoop(f, i)
  PROVE  l \in LoopsIn(f) /\ l \in LoopsAt(f, i) /\ OpenAt(f, l) = {s \in OpenAt(f, i) : s < l}
<1>1. PICK o \in HeadsAt(f, i) : l = LoopOf(f, o)
  <2>1. LoopsAt(f, i) \in SUBSET Nat /\ LoopsAt(f, i) # {} /\ \A x \in LoopsAt(f, i) : x <= Len(f)
    <3>1. \A h \in HeadsAt(f, i) : LoopOf(f, h) \in LoopsIn(f)
      BY OpenScopesAre, Heads
    <3>2. \A x \in LoopsIn(f) : x \in Nat /\ x <= Len(f)
      BY Tokens DEF LoopsIn, Opens
    <3> QED
      BY <3>1, <3>2 DEF LoopsAt
  <2>2. Len(f) \in Int /\ LoopsAt(f, i) \in SUBSET Int
    BY <2>1, Tokens
  <2>3. l \in LoopsAt(f, i)
    BY <2>1, <2>2, MaxIsGreatest DEF InnerLoop
  <2> QED
    BY <2>3 DEF LoopsAt
<1>2. o \in HeadsIn(f) /\ l \in LoopsIn(f) /\ l \in LoopsAt(f, i)
  BY <1>1, OpenScopesAre, Heads DEF LoopsAt
<1>3. l < i /\ i < EndIn(f, l)
  BY <1>1, <1>2, AroundPlain DEF Plain
<1>4. l \in Opens(f) /\ EndIn(f, l) \in Nat /\ i \in Nat /\ i <= EndIn(f, l)
  BY <1>2, <1>3, Parts, Tokens DEF LoopsIn
<1>5. \A s \in ScopesIn(f) : s \in OpenAt(f, l) <=> s \in OpenAt(f, i) /\ s < l
  BY <1>3, <1>4, Deeper, OpenScopesAre DEF OpenAt
<1>6. \A s \in OpenAt(f, l) \cup OpenAt(f, i) : s \in ScopesIn(f)
  BY OpenScopesAre
<1> QED
  BY <1>2, <1>5, <1>6

-----------------------------------------------------------------------------
(* The sizes of the open scopes.                                            *)
LEMMA OpenSizes ==
  ASSUME NEW f \in FunctionBodies, NEW i
  PROVE  /\ OpenAt(f, i) \in SUBSET (1 .. Len(f)) /\ IsFiniteSet(OpenAt(f, i))
         /\ \A s \in OpenAt(f, i) : ScopeSize(f)[s] \in Nat
         /\ OpenSize(f, i) \in Nat
<1>1. OpenAt(f, i) \in SUBSET (1 .. Len(f))
  <2>1. \A s \in OpenAt(f, i) : s \in Opens(f)
    BY OpenScopesAre
  <2> QED
    BY <2>1 DEF Opens
<1>2. IsFiniteSet(OpenAt(f, i)) /\ \A s \in OpenAt(f, i) : ScopeSize(f)[s] \in Nat
  BY <1>1, Sizes, FS_Subset
<1> QED
  BY <1>1, <1>2, SumType DEF OpenSize

(* A scope adds its size,                                                   *)
LEMMA SizeOfNextScope ==
  ASSUME NEW f \in FunctionBodies, NEW i \in 1 .. Len(f), f[i].op \in Scopes
  PROVE  OpenSize(f, i + 1) = OpenSize(f, i) + ScopeSize(f)[i]
<1> DEFINE g == ScopeSize(f)
           A == OpenAt(f, i + 1)
<1>1. A = OpenAt(f, i) \cup {i}
  BY OpenNext
<1>2. i \in A /\ A \ {i} = OpenAt(f, i)
  <2>1. i \notin OpenAt(f, i)
    BY OpenScopesAre, Tokens
  <2> QED
    BY <1>1, <2>1
<1>3. IsFiniteSet(A) /\ \A s \in A : g[s] \in Nat
  BY OpenSizes
<1>5. Sum(g, OpenAt(f, i)) \in Nat
  BY OpenSizes DEF OpenSize
<1> HIDE DEF A, g
<1>6. i \in A
  BY <1>2
<1>4. Sum(g, A) = g[i] + Sum(g, A \ {i})
  <2>1. \A x \in A : Sum(g, A) = g[x] + Sum(g, A \ {x})
    BY <1>3, SumTakesOut
  <2> QED
    BY <1>6, <2>1
<1>7. g[i] \in Nat /\ Sum(g, A) = g[i] + Sum(g, OpenAt(f, i))
  BY <1>2, <1>3, <1>4
<1>8. Sum(g, A) = Sum(g, OpenAt(f, i)) + g[i]
  BY <1>5, <1>7
<1> QED
  BY <1>8 DEF A, g, OpenSize

(* and takes it off where it ends.                                          *)
LEMMA SizeWithoutLastScope ==
  ASSUME NEW f \in FunctionBodies, NEW o \in ScopesIn(f)
  PROVE  /\ OpenSize(f, EndIn(f, o) + 1) = OpenSize(f, EndIn(f, o)) - ScopeSize(f)[o]
<1> DEFINE g == ScopeSize(f)
           A == OpenAt(f, EndIn(f, o))
<1>1. EndIn(f, o) \in 1 .. Len(f)
  BY Parts, Tokens DEF ScopesIn
<1>2. OpenAt(f, EndIn(f, o) + 1) = A \ {o} /\ o \in A
  BY <1>1, OpenNext
<1>3. IsFiniteSet(A) /\ \A s \in A : g[s] \in Nat
  BY OpenSizes
<1>4. Sum(g, A \ {o}) \in Nat
  BY <1>2, OpenSizes DEF OpenSize
<1> HIDE DEF A, g
<1>5. Sum(g, A) = g[o] + Sum(g, A \ {o})
  BY <1>2, <1>3, SumTakesOut
<1>6. g[o] \in Nat
  BY <1>2, <1>3
<1>7. Sum(g, A \ {o}) = Sum(g, A) - g[o]
  BY <1>4, <1>5, <1>6
<1> QED
  BY <1>2, <1>7 DEF A, g, OpenSize

(* Taking off the scopes behind x leaves those before it.                   *)
LEMMA SizeBefore ==
  ASSUME NEW f \in FunctionBodies, NEW i, NEW l \in Nat, l \notin ScopesIn(f), NEW j,
         OpenAt(f, j) = {s \in OpenAt(f, i) : s < l}
  PROVE  OpenSize(f, i) - Sum(ScopeSize(f), {s \in OpenAt(f, i) : s > l}) = OpenSize(f, j)
<1> DEFINE g == ScopeSize(f)
           A == OpenAt(f, i)
           B == {s \in OpenAt(f, i) : s > l}
<1>1. IsFiniteSet(A) /\ (\A s \in A : g[s] \in Nat) /\ B \in SUBSET A
  BY OpenSizes
<1>2. A \ B = OpenAt(f, j)
  <2>1. \A s \in A : s \in Nat /\ s # l
    BY OpenScopesAre
  <2>2. \A s \in A : s \notin B <=> s < l
    BY <2>1
  <2> QED
    BY <2>2
<1> HIDE DEF A, B, g
<1>3. Sum(g, A \ B) = Sum(g, A) - Sum(g, B)
  BY <1>1, SumOfPart
<1> QED
  BY <1>2, <1>3 DEF A, B, g, OpenSize

(* The initial token has nothing open, and the last one only the body.      *)
LEMMA SizesAtEnds ==
  ASSUME NEW f \in FunctionBodies
  PROVE  OpenSize(f, 1) = 0 /\ OpenSize(f, Len(f)) = ScopeSize(f)[1]
<1>1. 1 \in Opens(f) /\ 1 \in ScopesIn(f) /\ EndIn(f, 1) = Len(f) /\ Len(f) \in 1 .. Len(f)
  BY BodyIsAll, Tokens DEF ScopesIn, Scopes
<1>2. OpenAt(f, 1) = {}
  BY OpenScopesAre
<1>3. OpenSize(f, 1) = 0
  BY <1>2, SumOfNone DEF OpenSize
<1>4. OpenAt(f, Len(f)) = {1}
  <2>1. OpenAt(f, EndIn(f, 1)) = OpenAt(f, 1) \cup ({1} \cap ScopesIn(f))
    BY <1>1, Around, OpenScopesAre DEF OpenAt
  <2> QED
    BY <1>1, <1>2, <2>1
<1>5. OpenSize(f, Len(f)) = ScopeSize(f)[1]
  <2> DEFINE g == ScopeSize(f)
  <2>1. g[1] \in Nat
    BY <1>4, OpenSizes
  <2> HIDE DEF g
  <2>2. IsFiniteSet({1}) /\ 1 \in {1} /\ \A x \in {1} : g[x] \in Nat
    BY <2>1, FS_Singleton
  <2>3. Sum(g, {1}) = g[1] + Sum(g, {1} \ {1})
    BY <2>2, SumTakesOut
  <2>4. Sum(g, {1} \ {1}) = 0
    BY SumOfNone
  <2>5. Sum(g, {1}) = g[1]
    BY <2>1, <2>3, <2>4
  <2> QED
    BY <1>4, <2>5 DEF g, OpenSize
<1> QED
  BY <1>3, <1>5

-----------------------------------------------------------------------------
(* What the operators of the specification are for the function that is     *)
(* compiled.                                                                *)
LEMMA Operators ==
  ASSUME function \in FunctionBodies
  PROVE  /\ \A i : End(i) = EndIn(function, i)
         /\ DOMAIN EndOf[function] = Opens(function)
         /\ LoopTokens = LoopsIn(function)
         /\ \A o \in Opens(function) : at = EndIn(function, o) => Opener = o
         /\ \A i : OpenScopes(i) = {s \in ScopesIn(function) : s < i /\ i < EndIn(function, s)}
<1>1. DOMAIN EndOf[function] = Opens(function) /\ \A i : End(i) = EndIn(function, i)
  BY Parts DEF End, EndIn
<1>2. LoopTokens = LoopsIn(function)
  BY Words DEF LoopTokens, LoopsIn, Opens
<1>3. ASSUME NEW o \in Opens(function), at = EndIn(function, o) PROVE Opener = o
  <2>1. \A i \in DOMAIN EndOf[function] : End(i) = at <=> i = o
    BY <1>1, <1>3, OneOpener
  <2> QED
    BY <1>1, <2>1 DEF Opener
<1>4. ASSUME NEW i PROVE OpenScopes(i) = {s \in ScopesIn(function) : s < i /\ i < EndIn(function, s)}
  <2>1. Scopes \subseteq Opening
    BY Words DEF Scopes
  <2> QED
    BY <1>1, <2>1 DEF OpenScopes, Inside, ScopesIn, Opens
<1> QED
  BY <1>1, <1>2, <1>3, <1>4

(* The loop of a for with a declaration is two tokens behind its init.      *)
LEMMA LoopInIs ==
  ASSUME function \in FunctionBodies, NEW h \in Opens(function), function[h].op = "init"
  PROVE  LoopIn(h) = h + 2
<1>1. /\ h + 2 \in Opens(function) /\ EndIn(function, h) = EndIn(function, h + 2) + 1
      /\ h \in Nat /\ EndIn(function, h + 2) \in Nat
  BY ForDeclarations, Parts
<1>2. ASSUME NEW i \in Opens(function), End(i) = End(h) - 1 PROVE i = h + 2
  <2>1. EndIn(function, i) = EndIn(function, h + 2)
    BY <1>1, <1>2, Operators
  <2> QED
    BY <1>1, <2>1, OneOpener
<1>3. h + 2 > h /\ End(h + 2) = End(h) - 1
  BY <1>1, Operators
<1> QED
  BY <1>1, <1>2, <1>3, Operators DEF LoopIn

(* Header finds the head of a loop.                                         *)
LEMMA HeaderIs ==
  ASSUME function \in FunctionBodies, NEW h \in HeadsIn(function)
  PROVE  Header(LoopOf(function, h)) = h
<1> DEFINE l == LoopOf(function, h)
<1>1. h \in Opens(function) /\ h \in Nat \ {0} /\ Len(function) \in Nat
  BY Parts, Tokens DEF HeadsIn
<1>2. CASE function[h].op # "init"
  BY <1>2, Heads DEF Header, KindOf
<1>3. CASE function[h].op = "init"
  <2>1. l = h + 2 /\ KindOf(l) = "fordecl" /\ l \in Opens(function)
    BY <1>3, Heads DEF KindOf, LoopsIn
  <2>2. h \in 1 .. l /\ function[h].op = "init" /\ LoopIn(h) = l
    BY <1>1, <1>3, <2>1, LoopInIs
  <2>3. ASSUME NEW k \in 1 .. l, function[k].op = "init", LoopIn(k) = l PROVE k = h
    <3>1. l \in 1 .. Len(function)
      BY <2>1 DEF Opens
    <3>2. k \in Opens(function)
      BY <1>1, <2>3, <3>1, Words DEF Opens
    <3> QED
      BY <1>1, <2>1, <2>3, <3>2, LoopInIs
  <2>4. Header(l) = CHOOSE k \in 1 .. l : function[k].op = "init" /\ LoopIn(k) = l
    BY <2>1 DEF Header
  <2> HIDE DEF l
  <2>5. Header(l) = h
    BY <2>2, <2>3, <2>4
  <2> QED
    BY <2>5 DEF l
<1> QED
  BY <1>2, <1>3

(* Braced, of the specification, is BracedIn.                               *)
LEMMA BracedMeans ==
  ASSUME function \in FunctionBodies, Braced
  PROVE  BracedIn(function)
<1> SUFFICES ASSUME NEW h \in HeadsIn(function), NEW k \in HeadsIn(function), h < k, k < EndIn(function, h)
             PROVE  \E s \in OpenAt(function, k) : s >= h
  BY DEF BracedIn
<1> DEFINE l == LoopOf(function, h)
           m == LoopOf(function, k)
<1>1. /\ h \in Opens(function) /\ k \in Opens(function) /\ l \in Opens(function) /\ m \in Opens(function)
      /\ l \in LoopTokens /\ m \in LoopTokens
  BY Heads, Operators DEF HeadsIn, LoopsIn
<1>2. /\ \A x \in {h, k, l, m} : x \in Nat /\ EndIn(function, x) \in Nat /\ x < EndIn(function, x)
      /\ EndIn(function, k) < EndIn(function, h) /\ l < m /\ l < k
  BY <1>1, Parts, Nesting, HeadsInOrder
<1>3. EndIn(function, k) < EndIn(function, l)
  <2>1. CASE function[h].op = "init"
    <3>1. EndIn(function, h) = EndIn(function, l) + 1
      BY <2>1, Heads
    <3>2. EndIn(function, k) # EndIn(function, l)
      BY <1>1, <1>2, OneOpener
    <3> QED
      BY <1>2, <3>1, <3>2
  <2>2. CASE function[h].op # "init"
    BY <1>2, <2>2, Heads
  <2> QED
    BY <2>1, <2>2
<1>4. m < EndIn(function, k)
  <2>1. CASE function[k].op = "init"
    <3>1. EndIn(function, k) = EndIn(function, m) + 1
      BY <2>1, Heads
    <3> QED
      BY <1>2, <3>1
  <2>2. CASE function[k].op # "init"
    BY <1>2, <2>2, Heads
  <2> QED
    BY <2>1, <2>2
<1>5. Inside(m, l)
  BY <1>1, <1>2, <1>3, <1>4, Operators DEF Inside
<1>6. \E s \in OpenScopes(Header(m)) : s >= Header(l)
  BY <1>1, <1>5 DEF Braced
<1>7. PICK s \in OpenScopes(k) : s >= h
  BY <1>6, HeaderIs
<1>8. s \in OpenAt(function, k)
  BY <1>2, <1>7, Operators, OpenScopesAre, Parts DEF OpenAt, At
<1> QED
  BY <1>7, <1>8

-----------------------------------------------------------------------------
(* The first n elements of q are the elements of S in order.                *)
Rises(q, n, S) ==
  /\ \A k \in 1 .. n : q[k] \in S
  /\ \A s \in S : \E k \in 1 .. n : q[k] = s
  /\ \A j, k \in 1 .. n : j < k => q[j] < q[k]

(* A number behind all others comes last.                                   *)
LEMMA RisesByOne ==
  ASSUME NEW q, NEW p, NEW n \in Nat, NEW S \in SUBSET Nat, Rises(q, n, S), NEW x \in Nat, \A s \in S : s < x,
         \A k \in 1 .. n : p[k] = q[k], p[n + 1] = x
  PROVE  Rises(p, n + 1, S \cup {x})
<1>1. \A k \in 1 .. n + 1 : k \in 1 .. n \/ k = n + 1
  OBVIOUS
<1>6. \A k \in 1 .. n : k \in 1 .. n + 1 /\ k < n + 1
  OBVIOUS
<1>7. \A k \in 1 .. n : q[k] \in S /\ q[k] \in Nat
  BY DEF Rises
<1>2. \A k \in 1 .. n : k \in 1 .. n + 1 /\ k < n + 1 /\ q[k] \in S /\ q[k] \in Nat
  BY <1>6, <1>7
<1>3. \A k \in 1 .. n + 1 : p[k] \in S \cup {x}
  BY <1>1, <1>2
<1>4. ASSUME NEW s \in S \cup {x} PROVE \E k \in 1 .. n + 1 : p[k] = s
  <2>1. CASE s \in S
    <3>1. PICK k \in 1 .. n : q[k] = s
      BY <2>1 DEF Rises
    <3> QED
      BY <1>2, <3>1
  <2>2. CASE s = x
    <3>1. n + 1 \in 1 .. n + 1
      OBVIOUS
    <3> QED
      BY <2>2, <3>1
  <2> QED
    BY <2>1, <2>2
<1>5. ASSUME NEW j \in 1 .. n + 1, NEW k \in 1 .. n + 1, j < k PROVE p[j] < p[k]
  <2>1. j \in 1 .. n
    BY <1>5
  <2>2. CASE k \in 1 .. n
    BY <1>5, <2>1, <2>2 DEF Rises
  <2>3. CASE k = n + 1
    BY <1>2, <2>1, <2>3
  <2> QED
    BY <1>1, <2>2, <2>3
<1> QED
  BY <1>3, <1>4, <1>5 DEF Rises

(* The last one is the greatest one.                                        *)
LEMMA RisesTo ==
  ASSUME NEW q, NEW n \in Nat, NEW S \in SUBSET Nat, Rises(q, n, S), NEW x \in S, \A s \in S : s <= x
  PROVE  n > 0 /\ q[n] = x
<1>1. PICK k \in 1 .. n : q[k] = x
  BY DEF Rises
<1>2. n \in 1 .. n /\ q[n] \in S
  BY <1>1 DEF Rises
<1>3. ~ (k < n)
  <2>1. k < n => q[k] < q[n]
    BY <1>2 DEF Rises
  <2>2. q[n] \in Nat /\ q[n] <= x
    BY <1>2
  <2> QED
    BY <1>1, <2>1, <2>2
<1> QED
  BY <1>1, <1>2, <1>3

(* Without the greatest one the others stay listed.                         *)
LEMMA RisesLessOne ==
  ASSUME NEW q, NEW p, NEW n \in Nat, NEW S \in SUBSET Nat, Rises(q, n, S), NEW x \in S, \A s \in S : s <= x,
         \A k \in 1 .. n - 1 : p[k] = q[k]
  PROVE  Rises(p, n - 1, S \ {x})
<1>1. n > 0 /\ q[n] = x
  BY RisesTo
<1>2. \A k \in 1 .. n - 1 : k \in 1 .. n /\ n \in 1 .. n /\ k < n
  BY <1>1
<1>3. \A k \in 1 .. n - 1 : p[k] \in S \ {x}
  <2>1. \A k \in 1 .. n - 1 : q[k] \in S /\ q[k] \in Nat /\ q[k] < q[n]
    BY <1>2 DEF Rises
  <2> QED
    BY <1>1, <2>1
<1>4. ASSUME NEW s \in S \ {x} PROVE \E k \in 1 .. n - 1 : p[k] = s
  <2>1. PICK k \in 1 .. n : q[k] = s
    BY DEF Rises
  <2>2. k \in 1 .. n - 1
    BY <1>1, <2>1
  <2> QED
    BY <2>1, <2>2
<1>5. \A j, k \in 1 .. n - 1 : j < k => p[j] < p[k]
  BY <1>2 DEF Rises
<1> QED
  BY <1>3, <1>4, <1>5 DEF Rises

(* A listing is its elements.                                               *)
LEMMA RisesSame ==
  ASSUME NEW q, NEW p, NEW n \in Nat, NEW S \in SUBSET Nat, Rises(q, n, S), \A k \in 1 .. n : p[k] = q[k]
  PROVE  Rises(p, n, S)
BY DEF Rises

-----------------------------------------------------------------------------
(* The contexts of the validator are the open scopes, its loops those       *)
(* around, and the mark of a context says that it is the innermost one of   *)
(* one of them.                                                             *)
ContextType == [scope : Nat, hasLoop : BOOLEAN]
ScopeAt(c) == [k \in 1 .. Len(c) |-> c[k].scope]
ContextsListed(f, c, i) == c \in Seq(ContextType) /\ Rises(ScopeAt(c), Len(c), {0} \cup OpenAt(f, i))
LoopsListed(f, q, i) == q \in Seq(Nat) /\ Rises(q, Len(q), LoopsAt(f, i))
Told(f, c, heads) ==
  \A k \in 1 .. Len(c) : c[k].hasLoop <=> \E h \in heads : Innermost(f, h) = c[k].scope

(* A context is pushed where a scope begins,                                *)
LEMMA ContextsPush ==
  ASSUME NEW f \in FunctionBodies, NEW i \in Nat \ {0}, NEW c, ContextsListed(f, c, i),
         OpenAt(f, i + 1) = OpenAt(f, i) \cup {i},
         NEW d \in Seq(ContextType), Len(d) = Len(c) + 1, d[Len(c) + 1].scope = i,
         \A k \in 1 .. Len(c) : d[k].scope = c[k].scope
  PROVE  ContextsListed(f, d, i + 1)
<1> DEFINE S == {0} \cup OpenAt(f, i)
<1>1. S \in SUBSET Nat /\ \A s \in S : s < i
  BY OpenScopesAre
<1>2. Len(c) \in Nat /\ Rises(ScopeAt(c), Len(c), S) /\ {0} \cup OpenAt(f, i + 1) = S \cup {i}
  BY DEF ContextsListed
<1>3. \A k \in 1 .. Len(c) : ScopeAt(d)[k] = ScopeAt(c)[k]
  BY <1>2 DEF ScopeAt
<1>4. ScopeAt(d)[Len(c) + 1] = i
  BY <1>2 DEF ScopeAt
<1> HIDE DEF S
<1>5. Rises(ScopeAt(d), Len(c) + 1, S \cup {i})
  BY <1>1, <1>2, <1>3, <1>4, RisesByOne
<1> QED
  BY <1>2, <1>5 DEF ContextsListed

(* is popped where the innermost one ends,                                  *)
LEMMA ContextsPop ==
  ASSUME NEW f \in FunctionBodies, NEW i \in Nat \ {0}, NEW c, ContextsListed(f, c, i),
         NEW o \in OpenAt(f, i), \A s \in OpenAt(f, i) : s <= o, OpenAt(f, i + 1) = OpenAt(f, i) \ {o},
         NEW d \in Seq(ContextType), Len(d) = Len(c) - 1,
         \A k \in 1 .. Len(c) - 1 : d[k].scope = c[k].scope
  PROVE  ContextsListed(f, d, i + 1)
<1> DEFINE S == {0} \cup OpenAt(f, i)
<1>1. S \in SUBSET Nat /\ o \in S /\ o # 0 /\ \A s \in S : s <= o
  BY OpenScopesAre
<1>2. Len(c) \in Nat /\ Rises(ScopeAt(c), Len(c), S) /\ {0} \cup OpenAt(f, i + 1) = S \ {o}
  BY <1>1 DEF ContextsListed
<1>3. \A k \in 1 .. Len(c) - 1 : ScopeAt(d)[k] = ScopeAt(c)[k]
  BY <1>2 DEF ScopeAt
<1> HIDE DEF S
<1>4. Rises(ScopeAt(d), Len(c) - 1, S \ {o})
  BY <1>1, <1>2, <1>3, RisesLessOne
<1> QED
  BY <1>2, <1>4 DEF ContextsListed

(* and elsewhere the contexts are the same, whatever their marks are.       *)
LEMMA ContextsKept ==
  ASSUME NEW f \in FunctionBodies, NEW i \in Nat \ {0}, NEW c, ContextsListed(f, c, i),
         OpenAt(f, i + 1) = OpenAt(f, i),
         NEW d \in Seq(ContextType), Len(d) = Len(c), \A k \in 1 .. Len(c) : d[k].scope = c[k].scope
  PROVE  ContextsListed(f, d, i + 1)
<1> DEFINE S == {0} \cup OpenAt(f, i)
<1>1. S \in SUBSET Nat
  BY OpenScopesAre
<1>2. Len(c) \in Nat /\ Rises(ScopeAt(c), Len(c), S) /\ {0} \cup OpenAt(f, i + 1) = S
  BY DEF ContextsListed
<1>3. \A k \in 1 .. Len(c) : ScopeAt(d)[k] = ScopeAt(c)[k]
  BY <1>2 DEF ScopeAt
<1> HIDE DEF S
<1>4. Rises(ScopeAt(d), Len(c), S)
  BY <1>1, <1>2, <1>3, RisesSame
<1> QED
  BY <1>2, <1>4 DEF ContextsListed

(* The last context is the innermost open scope, and no two are the same.   *)
LEMMA ContextsAre ==
  ASSUME NEW f \in FunctionBodies, NEW i \in Nat \ {0}, NEW c, ContextsListed(f, c, i)
  PROVE  /\ Len(c) \in Nat /\ Len(c) > 0 /\ c[Len(c)].scope = Innermost(f, i)
         /\ \A k \in 1 .. Len(c) : c[k] \in ContextType /\ c[k].scope \in {0} \cup OpenAt(f, i)
         /\ \A s \in {0} \cup OpenAt(f, i) : \E k \in 1 .. Len(c) : c[k].scope = s
         /\ \A j, k \in 1 .. Len(c) : j < k => c[j].scope < c[k].scope
<1> DEFINE S == {0} \cup OpenAt(f, i)
<1>1. S \in SUBSET Nat /\ Innermost(f, i) \in S /\ \A s \in S : s <= Innermost(f, i)
  BY OpenScopesAre, InnermostIs
<1>2. Len(c) \in Nat /\ Rises(ScopeAt(c), Len(c), S) /\ c \in Seq(ContextType)
  BY DEF ContextsListed
<1>3. \A k \in 1 .. Len(c) : ScopeAt(c)[k] = c[k].scope
  BY DEF ScopeAt
<1> HIDE DEF S
<1>4. Len(c) > 0 /\ ScopeAt(c)[Len(c)] = Innermost(f, i)
  BY <1>1, <1>2, RisesTo
<1>5. Len(c) \in 1 .. Len(c)
  BY <1>2, <1>4
<1>6. c[Len(c)].scope = Innermost(f, i)
  BY <1>3, <1>4, <1>5
<1>7. \A k \in 1 .. Len(c) : c[k] \in ContextType
  BY <1>2
<1>8. /\ \A k \in 1 .. Len(c) : c[k].scope \in S
      /\ \A s \in S : \E k \in 1 .. Len(c) : c[k].scope = s
      /\ \A j, k \in 1 .. Len(c) : j < k => c[j].scope < c[k].scope
  BY <1>2, <1>3 DEF Rises
<1> QED
  BY <1>2, <1>4, <1>6, <1>7, <1>8 DEF S

-----------------------------------------------------------------------------
(* The mark of context n is set to b.                                       *)
Marked(c, d, n, b) ==
  \A k \in 1 .. Len(d) : /\ d[k].scope = c[k].scope
                         /\ d[k].hasLoop <=> IF k = n THEN b ELSE c[k].hasLoop

(* Setting a mark changes nothing but the mark.                             *)
LEMMA MarkSet ==
  ASSUME NEW c \in Seq(ContextType), NEW n \in 1 .. Len(c), NEW b \in BOOLEAN,
         NEW d, d = [c EXCEPT ![n].hasLoop = b]
  PROVE  d \in Seq(ContextType) /\ Len(d) = Len(c) /\ Marked(c, d, n, b)
<1>1. Len(c) \in Nat /\ \A k \in 1 .. Len(c) : c[k] \in ContextType
  OBVIOUS
<1>2. /\ [c[n] EXCEPT !.hasLoop = b] \in ContextType
      /\ [c[n] EXCEPT !.hasLoop = b].scope = c[n].scope
      /\ [c[n] EXCEPT !.hasLoop = b].hasLoop = b
  BY <1>1 DEF ContextType
<1> DEFINE r == [c[n] EXCEPT !.hasLoop = b]
<1>3. d = [c EXCEPT ![n] = r]
  OBVIOUS
<1> HIDE DEF r
<1>4. d \in Seq(ContextType) /\ Len(d) = Len(c) /\ \A k \in 1 .. Len(c) : d[k] = IF k = n THEN r ELSE c[k]
  BY <1>1, <1>2, <1>3 DEF r
<1> QED
  BY <1>1, <1>2, <1>4 DEF r, Marked

(* How the marks follow the loops: nothing new for a mark to say,           *)
LEMMA ToldOfFewer ==
  ASSUME NEW f, NEW heads, NEW c, Told(f, c, heads), Len(c) \in Nat,
         NEW d, Len(d) \in Nat, Len(d) <= Len(c),
         \A k \in 1 .. Len(d) : d[k].scope = c[k].scope /\ d[k].hasLoop = c[k].hasLoop
  PROVE  Told(f, d, heads)
BY DEF Told

(* a context without a mark for a scope in which no loop begins yet,        *)
LEMMA ToldOfNew ==
  ASSUME NEW f, NEW heads, NEW c, Told(f, c, heads), Len(c) \in Nat,
         NEW x, \A h \in heads : Innermost(f, h) # x,
         NEW d, Len(d) = Len(c) + 1, d[Len(c) + 1].scope = x, d[Len(c) + 1].hasLoop = FALSE,
         \A k \in 1 .. Len(c) : d[k].scope = c[k].scope /\ d[k].hasLoop = c[k].hasLoop
  PROVE  Told(f, d, heads)
<1>1. \A k \in 1 .. Len(d) : k \in 1 .. Len(c) \/ k = Len(c) + 1
  OBVIOUS
<1> QED
  BY <1>1 DEF Told

(* a mark for a loop that begins,                                           *)
LEMMA ToldOfEntered ==
  ASSUME NEW f \in FunctionBodies, NEW i \in Nat \ {0}, NEW c, ContextsListed(f, c, i),
         NEW heads, Told(f, c, heads), NEW o, Innermost(f, o) = Innermost(f, i),
         NEW d, Len(d) = Len(c), Marked(c, d, Len(c), TRUE)
  PROVE  Told(f, d, heads \cup {o})
<1>4. /\ Len(c) \in Nat /\ Len(c) > 0 /\ c[Len(c)].scope = Innermost(f, i)
      /\ \A j, k \in 1 .. Len(c) : j < k => c[j].scope < c[k].scope
  BY ContextsAre
<1>5. \A k \in 1 .. Len(c) : c[k] \in ContextType
  BY ContextsAre
<1>1. /\ Len(c) \in Nat /\ Len(c) > 0 /\ c[Len(c)].scope = Innermost(f, i)
      /\ \A k \in 1 .. Len(c) : c[k].scope \in Nat
      /\ \A j, k \in 1 .. Len(c) : j < k => c[j].scope < c[k].scope
  BY <1>4, <1>5 DEF ContextType
<1>2. ASSUME NEW k \in 1 .. Len(c), k # Len(c) PROVE c[k].scope # Innermost(f, i)
  <2>1. k < Len(c) /\ Len(c) \in 1 .. Len(c)
    BY <1>1, <1>2
  <2>2. c[k].scope < c[Len(c)].scope /\ c[k].scope \in Nat /\ c[Len(c)].scope \in Nat
    BY <1>1, <2>1
  <2> QED
    BY <1>1, <2>2
<1>3. ASSUME NEW k \in 1 .. Len(d) PROVE d[k].hasLoop <=> \E h \in heads \cup {o} : Innermost(f, h) = d[k].scope
  <2>1. CASE k = Len(c)
    BY <1>1, <2>1 DEF Marked
  <2>2. CASE k # Len(c)
    BY <1>2, <2>2 DEF Told, Marked
  <2> QED
    BY <2>1, <2>2
<1> QED
  BY <1>3 DEF Told

(* and no mark where the last loop has ended.                               *)
LEMMA ToldOfLeft ==
  ASSUME NEW f, NEW heads, NEW c, Told(f, c, heads), NEW n \in Nat, n > 0, n <= Len(c), Len(c) \in Nat,
         \A k \in 1 .. Len(c) : c[k].scope \in Nat, \A j, k \in 1 .. Len(c) : j < k => c[j].scope < c[k].scope,
         NEW o, Innermost(f, o) = c[n].scope,
         \A h \in heads \ {o} : Innermost(f, h) # Innermost(f, o),
         NEW d, Len(d) = n, Marked(c, d, n, FALSE)
  PROVE  Told(f, d, heads \ {o})
<1>1. ASSUME NEW k \in 1 .. n, k # n PROVE c[k].scope # c[n].scope
  <2>1. k < n /\ n \in 1 .. Len(c) /\ k \in 1 .. Len(c)
    BY <1>1
  <2>2. c[k].scope < c[n].scope /\ c[k].scope \in Nat /\ c[n].scope \in Nat
    BY <2>1
  <2> QED
    BY <2>2
<1>2. ASSUME NEW k \in 1 .. n PROVE d[k].hasLoop <=> \E h \in heads \ {o} : Innermost(f, h) = d[k].scope
  <2>1. CASE k = n
    BY <2>1 DEF Marked
  <2>2. CASE k # n
    <3>1. c[k].hasLoop <=> \E h \in heads : Innermost(f, h) = c[k].scope
      BY DEF Told
    <3>2. c[k].scope # Innermost(f, o)
      BY <1>1, <2>2
    <3> QED
      BY <2>2, <3>1, <3>2 DEF Marked
  <2> QED
    BY <2>1, <2>2
<1> QED
  BY <1>2 DEF Told

(* Two loops, one in the other, in braces: only the inner one is in its     *)
(* innermost scope.                                                         *)
LEMMA OthersFurtherOut ==
  ASSUME NEW f \in FunctionBodies, BracedIn(f), NEW i \in Nat, NEW o \in HeadsAt(f, i),
         \A h \in HeadsAt(f, i) : h <= o
  PROVE  \A h \in HeadsAt(f, i) \ {o} :
           Innermost(f, h) < Innermost(f, o) /\ Innermost(f, h) \in Nat /\ Innermost(f, o) \in Nat
<1> SUFFICES ASSUME NEW h \in HeadsAt(f, i), h # o
             PROVE  Innermost(f, h) < Innermost(f, o) /\ Innermost(f, h) \in Nat /\ Innermost(f, o) \in Nat
  OBVIOUS
<1>1. /\ h \in HeadsIn(f) /\ o \in HeadsIn(f) /\ h \in Nat \ {0} /\ o \in Nat \ {0} /\ h < o
      /\ i <= EndIn(f, h) /\ o < i
  BY OpenScopesAre
<1>2. EndIn(f, h) \in Nat
  BY <1>1, OpenScopesAre, Parts
<1>3. Innermost(f, h) < h /\ h <= Innermost(f, o)
  BY <1>1, <1>2, BracesTellApart
<1> QED
  BY <1>1, <1>3, InnermostIs

(* What pop_back leaves.                                                    *)
LEMMA Shortened ==
  ASSUME NEW T, NEW q \in Seq(T), Len(q) > 0
  PROVE  LET p == SubSeq(q, 1, Len(q) - 1)
         IN  p \in Seq(T) /\ Len(p) = Len(q) - 1 /\ \A k \in 1 .. Len(q) - 1 : p[k] = q[k]
<1>1. Len(q) \in Nat /\ Len(q) - 1 \in Nat /\ \A k \in 1 .. Len(q) : q[k] \in T
  OBVIOUS
<1>2. \A k \in 1 .. Len(q) - 1 : k \in 1 .. Len(q)
  BY <1>1
<1> DEFINE n == Len(q) - 1
<1>3. n \in Nat /\ n \in Int /\ 1 \in Int /\ \A k \in 1 .. n : q[k] \in T
  BY <1>1, <1>2
<1> HIDE DEF n
<1>4. /\ SubSeq(q, 1, n) \in Seq(T)
      /\ Len(SubSeq(q, 1, n)) = IF 1 <= n THEN n - 1 + 1 ELSE 0
      /\ \A k \in 1 .. n - 1 + 1 : SubSeq(q, 1, n)[k] = q[1 + k - 1]
  BY <1>3, SubSeqProperties
<1>5. Len(SubSeq(q, 1, n)) = n /\ \A k \in 1 .. n : k \in 1 .. n - 1 + 1 /\ 1 + k - 1 = k
  BY <1>3, <1>4
<1>6. \A k \in 1 .. n : SubSeq(q, 1, n)[k] = q[k]
  BY <1>4, <1>5
<1> QED
  BY <1>4, <1>5, <1>6 DEF n

(* A loop is pushed where its head is,                                      *)
LEMMA LoopsPush ==
  ASSUME NEW f \in FunctionBodies, NEW i \in HeadsIn(f), NEW q, LoopsListed(f, q, i),
         NEW p, p = Append(q, LoopOf(f, i))
  PROVE  LoopsListed(f, p, i + 1)
<1> DEFINE S == LoopsAt(f, i)
           x == LoopOf(f, i)
<1>1. i \in Opens(f) /\ i \in Nat /\ HeadsIn(f) \in SUBSET Opens(f)
  BY Parts DEF HeadsIn
<1>2. HeadsAt(f, i + 1) = HeadsAt(f, i) \cup {i}
  BY <1>1, Enters DEF HeadsAt
<1>3. \A h \in HeadsIn(f) : LoopOf(f, h) \in Nat
  BY Heads, Parts DEF LoopsIn
<1>4. ASSUME NEW h \in HeadsAt(f, i) PROVE h \in HeadsIn(f) /\ LoopOf(f, h) < x /\ LoopOf(f, h) \in Nat
  <2>1. h \in HeadsIn(f) /\ h < i
    BY OpenScopesAre
  <2> QED
    BY <1>3, <2>1, HeadsInOrder
<1>5. S \in SUBSET Nat /\ x \in Nat /\ \A s \in S : s < x
  BY <1>3, <1>4 DEF LoopsAt
<1>6. LoopsAt(f, i + 1) = S \cup {x}
  BY <1>2 DEF LoopsAt
<1>7. q \in Seq(Nat) /\ Len(q) \in Nat /\ Rises(q, Len(q), S)
  BY DEF LoopsListed
<1> HIDE DEF S, x
<1>8. p \in Seq(Nat) /\ Len(p) = Len(q) + 1 /\ p[Len(q) + 1] = x /\ \A k \in 1 .. Len(q) : p[k] = q[k]
  BY <1>5, <1>7 DEF x
<1>9. Rises(p, Len(q) + 1, S \cup {x})
  BY <1>5, <1>7, <1>8, RisesByOne
<1> QED
  BY <1>6, <1>8, <1>9 DEF LoopsListed

(* and popped where the head ends.                                          *)
LEMMA LoopsPop ==
  ASSUME NEW f \in FunctionBodies, NEW i, NEW q, LoopsListed(f, q, i),
         NEW o \in HeadsAt(f, i), \A h \in HeadsAt(f, i) : h <= o, HeadsAt(f, i + 1) = HeadsAt(f, i) \ {o},
         NEW p, p = SubSeq(q, 1, Len(q) - 1)
  PROVE  LoopsListed(f, p, i + 1)
<1> DEFINE S == LoopsAt(f, i)
           x == LoopOf(f, o)
<1>3. \A h \in HeadsAt(f, i) : h \in HeadsIn(f) /\ h \in Nat /\ LoopOf(f, h) \in Nat
  BY Heads, Parts, OpenScopesAre DEF LoopsIn
<1>4. ASSUME NEW h \in HeadsAt(f, i), h # o PROVE LoopOf(f, h) < x
  <2>1. h < o
    BY <1>3, <1>4
  <2> QED
    BY <1>3, <2>1, HeadsInOrder
<1>5. S \in SUBSET Nat /\ x \in S /\ \A s \in S : s <= x
  BY <1>3, <1>4 DEF LoopsAt
<1>6. LoopsAt(f, i + 1) = S \ {x}
  <2>1. \A h \in HeadsAt(f, i) : h # o => LoopOf(f, h) # x
    BY <1>3, <1>4
  <2> QED
    BY <2>1 DEF LoopsAt
<1>7. q \in Seq(Nat) /\ Len(q) \in Nat /\ Rises(q, Len(q), S)
  BY DEF LoopsListed
<1> HIDE DEF S, x
<1>10. Len(q) > 0
  BY <1>5, <1>7, RisesTo
<1>8. p \in Seq(Nat) /\ Len(p) = Len(q) - 1 /\ \A k \in 1 .. Len(q) - 1 : p[k] = q[k]
  BY <1>7, <1>10, Shortened
<1>9. Rises(p, Len(q) - 1, S \ {x})
  BY <1>5, <1>7, <1>8, RisesLessOne
<1> QED
  BY <1>6, <1>8, <1>9 DEF LoopsListed

(* The last loop of the validator is the innermost loop around.             *)
LEMMA LastLoop ==
  ASSUME NEW f \in FunctionBodies, NEW i, NEW q, LoopsListed(f, q, i)
  PROVE  /\ Len(q) \in Nat
         /\ q = <<>> <=> HeadsAt(f, i) = {}
         /\ HeadsAt(f, i) # {} => \E o \in HeadsAt(f, i) :
              /\ \A h \in HeadsAt(f, i) : h <= o
              /\ InnerLoop(f, i) = LoopOf(f, o) /\ q[Len(q)] = LoopOf(f, o)
<1> DEFINE S == LoopsAt(f, i)
<1>1. \A h \in HeadsAt(f, i) : h \in HeadsIn(f) /\ h \in Nat /\ LoopOf(f, h) \in Nat
  BY Heads, Parts, OpenScopesAre DEF LoopsIn
<1>2. S \in SUBSET Nat
  BY <1>1 DEF LoopsAt
<1>3. q \in Seq(Nat) /\ Len(q) \in Nat /\ Rises(q, Len(q), S)
  BY DEF LoopsListed
<1>4. S = {} <=> HeadsAt(f, i) = {}
  BY DEF LoopsAt
<1> HIDE DEF S
<1>5. q = <<>> <=> S = {}
  <2>1. q = <<>> => S = {}
    BY <1>3 DEF Rises
  <2>2. ASSUME q # <<>> PROVE S # {}
    <3>1. 1 \in 1 .. Len(q)
      BY <1>3, <2>2
    <3> QED
      BY <1>3, <3>1 DEF Rises
  <2> QED
    BY <2>1, <2>2
<1>6. ASSUME HeadsAt(f, i) # {}
      PROVE  \E o \in HeadsAt(f, i) :
              /\ \A h \in HeadsAt(f, i) : h <= o
              /\ InnerLoop(f, i) = LoopOf(f, o) /\ q[Len(q)] = LoopOf(f, o)
  <2>1. /\ HeadsAt(f, i) \in SUBSET Int /\ HeadsAt(f, i) # {}
    BY <1>1, <1>6
  <2>2. PICK b \in Nat : \A h \in HeadsAt(f, i) : h <= b
    <3>1. \A h \in HeadsAt(f, i) : h < EndIn(f, h) /\ EndIn(f, h) <= Len(f) /\ EndIn(f, h) \in Nat /\ h \in Nat
      BY <1>1, Parts DEF HeadsIn
    <3>2. Len(f) \in Nat /\ \A h \in HeadsAt(f, i) : h <= Len(f)
      BY <3>1, Tokens
    <3> QED
      BY <3>2
  <2>3. PICK o \in HeadsAt(f, i) : \A h \in HeadsAt(f, i) : h <= o
    <3> DEFINE H == HeadsAt(f, i)
    <3>1. H \in SUBSET Int /\ H # {} /\ b \in Int /\ \A h \in H : h <= b
      BY <2>1, <2>2
    <3> HIDE DEF H
    <3>2. \E o \in H : \A h \in H : h <= o
      BY <3>1, GreatestInteger
    <3> QED
      BY <3>2 DEF H
  <2>4. \A h \in HeadsAt(f, i) : LoopOf(f, h) <= LoopOf(f, o)
    <3> SUFFICES ASSUME NEW h \in HeadsAt(f, i) PROVE LoopOf(f, h) <= LoopOf(f, o)
      OBVIOUS
    <3>1. CASE h = o
      BY <1>1, <3>1
    <3>2. CASE h # o
      <4>1. h < o
        BY <1>1, <2>3, <3>2
      <4> QED
        BY <1>1, <4>1, HeadsInOrder
    <3> QED
      BY <3>1, <3>2
  <2>5. LoopOf(f, o) \in S /\ (\A s \in S : s <= LoopOf(f, o)) /\ LoopOf(f, o) \in Int
    BY <1>1, <2>4 DEF S, LoopsAt
  <2>6. q[Len(q)] = LoopOf(f, o)
    BY <1>2, <1>3, <2>5, RisesTo
  <2>7. Max(S) \in S /\ \A s \in S : s <= Max(S)
    <3>1. S \in SUBSET Int /\ S # {}
      BY <1>2, <2>5
    <3> QED
      BY <2>5, <3>1, MaxIsGreatest
  <2>8. Max(S) = LoopOf(f, o)
    <3> DEFINE m == Max(S)
    <3>1. m \in S /\ \A s \in S : s <= m
      BY <2>7
    <3> HIDE DEF m
    <3>2. m <= LoopOf(f, o) /\ LoopOf(f, o) <= m /\ m \in Int
      BY <1>2, <2>5, <3>1
    <3>3. m = LoopOf(f, o)
      BY <2>5, <3>2
    <3> QED
      BY <3>3 DEF m
  <2> QED
    BY <2>3, <2>6, <2>8 DEF InnerLoop, S
<1> QED
  BY <1>3, <1>4, <1>5, <1>6

-----------------------------------------------------------------------------
(* What a break, a skip or a return finds in the contexts.                  *)
ValidatorStands ==
  /\ function \in FunctionBodies /\ at \in 1 .. Len(function)
  /\ ContextsListed(function, contexts, at) /\ LoopsListed(function, loops, at)

MarksTell == BracedIn(function) /\ Told(function, contexts, HeadsAt(function, at))

(* The contexts behind one of them are the open scopes behind its scope.    *)
LEMMA ScopesFromContext ==
  ASSUME ValidatorStands, NEW k \in 1 .. Top
  PROVE  {contexts[j].scope : j \in k + 1 .. Top} = {s \in OpenAt(function, at) : s > contexts[k].scope}
<1>1. /\ Top \in Nat /\ \A j \in 1 .. Top : contexts[j].scope \in {0} \cup OpenAt(function, at)
      /\ \A s \in {0} \cup OpenAt(function, at) : \E j \in 1 .. Top : contexts[j].scope = s
      /\ \A i, j \in 1 .. Top : i < j => contexts[i].scope < contexts[j].scope
  <2>1. at \in Nat \ {0} /\ function \in FunctionBodies /\ ContextsListed(function, contexts, at)
    BY Tokens DEF ValidatorStands
  <2>2. Top = Len(contexts)
    BY DEF Top
  <2> QED
    BY <2>1, <2>2, ContextsAre
<1>2. \A s \in {0} \cup OpenAt(function, at) : s \in Nat
  BY OpenScopesAre DEF ValidatorStands
<1>3. ASSUME NEW j \in k + 1 .. Top
      PROVE  contexts[j].scope \in OpenAt(function, at) /\ contexts[j].scope > contexts[k].scope
  <2>1. j \in 1 .. Top /\ k < j
    BY <1>1
  <2>2. contexts[k].scope < contexts[j].scope /\ contexts[k].scope \in Nat /\ contexts[j].scope \in Nat
    BY <1>1, <1>2, <2>1
  <2> QED
    BY <1>1, <2>1, <2>2
<1>4. ASSUME NEW s \in OpenAt(function, at), s > contexts[k].scope
      PROVE  \E j \in k + 1 .. Top : contexts[j].scope = s
  <2>1. PICK j \in 1 .. Top : contexts[j].scope = s
    BY <1>1
  <2>2. j # k /\ ~ (j < k)
    <3>1. contexts[k].scope \in Nat /\ s \in Nat
      BY <1>1, <1>2
    <3>2. j < k => contexts[j].scope < contexts[k].scope
      BY <1>1
    <3> QED
      BY <1>4, <2>1, <3>1, <3>2
  <2>3. j \in k + 1 .. Top
    BY <1>1, <2>2
  <2> QED
    BY <2>1, <2>3
<1> QED
  BY <1>3, <1>4

(* The contexts behind the first one are all open scopes.                   *)
LEMMA AllScopes ==
  ASSUME ValidatorStands
  PROVE  {contexts[j].scope : j \in 2 .. Top} = OpenAt(function, at)
<1>1. at \in Nat \ {0} /\ function \in FunctionBodies /\ ContextsListed(function, contexts, at)
  BY Tokens DEF ValidatorStands
<1>2. /\ Top \in Nat /\ Top > 0
      /\ \A s \in {0} \cup OpenAt(function, at) : \E j \in 1 .. Top : contexts[j].scope = s
      /\ \A j \in 1 .. Top : contexts[j].scope \in {0} \cup OpenAt(function, at)
      /\ \A i, j \in 1 .. Top : i < j => contexts[i].scope < contexts[j].scope
  BY <1>1, ContextsAre DEF Top
<1>3. \A s \in OpenAt(function, at) : s \in Nat /\ s > 0
  BY <1>1, OpenScopesAre
<1>4. contexts[1].scope = 0
  <2>1. PICK j \in 1 .. Top : contexts[j].scope = 0
    BY <1>2
  <2>2. 1 \in 1 .. Top
    BY <1>2
  <2>3. contexts[1].scope \in Nat /\ (1 < j => contexts[1].scope < contexts[j].scope)
    BY <1>2, <1>3, <2>2
  <2> QED
    BY <2>1, <2>3
<1>5. 1 \in 1 .. Top /\ 1 + 1 = 2
  BY <1>2
<1>6. {contexts[j].scope : j \in 1 + 1 .. Top} = {s \in OpenAt(function, at) : s > contexts[1].scope}
  BY <1>5, ScopesFromContext
<1> QED
  BY <1>3, <1>4, <1>5, <1>6

(* The context that is found is the innermost one of the innermost loop.    *)
LEMMA LoopContextIs ==
  ASSUME ValidatorStands, MarksTell,
         NEW o \in HeadsAt(function, at), \A h \in HeadsAt(function, at) : h <= o
  PROVE  LoopContext \in 1 .. Top /\ contexts[LoopContext].scope = Innermost(function, o)
<1>1. at \in Nat \ {0} /\ function \in FunctionBodies /\ ContextsListed(function, contexts, at)
  BY Tokens DEF ValidatorStands
<1>2. /\ Top \in Nat
      /\ \A j \in 1 .. Top : contexts[j].scope \in {0} \cup OpenAt(function, at)
      /\ \A s \in {0} \cup OpenAt(function, at) : \E j \in 1 .. Top : contexts[j].scope = s
      /\ \A i, j \in 1 .. Top : i < j => contexts[i].scope < contexts[j].scope
  BY <1>1, ContextsAre DEF Top
<1>3. \A j \in 1 .. Top : contexts[j].scope \in Nat
  BY <1>1, <1>2, OpenScopesAre
<1>4. Innermost(function, o) \in {0} \cup OpenAt(function, at)
  BY <1>1, ScopesOfLoop
<1>5. PICK n \in 1 .. Top : contexts[n].scope = Innermost(function, o)
  BY <1>2, <1>4
<1>6. contexts[n].hasLoop
  BY <1>5 DEF MarksTell, Told, Top
<1>7. ASSUME NEW k \in 1 .. Top, contexts[k].hasLoop PROVE k <= n
  <2>1. PICK h \in HeadsAt(function, at) : Innermost(function, h) = contexts[k].scope
    BY <1>7 DEF MarksTell, Told, Top
  <2>2. contexts[k].scope <= contexts[n].scope
    <3>1. CASE h = o
      BY <1>3, <1>5, <2>1, <3>1
    <3>2. CASE h # o
      <4>1. Innermost(function, h) < Innermost(function, o)
        BY <1>1, <3>2, OthersFurtherOut DEF MarksTell
      <4> QED
        BY <1>3, <1>5, <2>1, <4>1
    <3> QED
      BY <3>1, <3>2
  <2>3. n < k => contexts[n].scope < contexts[k].scope
    BY <1>2
  <2> QED
    BY <1>2, <1>3, <2>2, <2>3
<1> DEFINE K == {0} \cup {k \in 1 .. Top : contexts[k].hasLoop}
<1>8. K \in SUBSET Int /\ n \in K /\ n \in Nat /\ \A k \in K : k <= n
  BY <1>2, <1>6, <1>7
<1>9. LoopContext = Max(K)
  BY DEF LoopContext
<1> HIDE DEF K
<1>10. Max(K) \in K /\ \A k \in K : k <= Max(K)
  BY <1>8, MaxIsGreatest
<1>11. LoopContext \in Int /\ LoopContext <= n /\ n <= LoopContext
  BY <1>8, <1>9, <1>10
<1>12. LoopContext = n
  BY <1>8, <1>11
<1> QED
  BY <1>5, <1>12

(* A break or skip finds no loop, or no context with a mark, exactly where  *)
(* there is no loop around it.                                              *)
LEMMA NoLoopContext ==
  ASSUME ValidatorStands, MarksTell
  PROVE  loops = <<>> \/ LoopContext = 0 <=> HeadsAt(function, at) = {}
<1>1. loops = <<>> <=> HeadsAt(function, at) = {}
  BY LastLoop DEF ValidatorStands
<1>2. ASSUME HeadsAt(function, at) # {} PROVE LoopContext # 0
  <2>1. PICK o \in HeadsAt(function, at) : \A h \in HeadsAt(function, at) : h <= o
    BY <1>2, LastLoop DEF ValidatorStands
  <2>2. LoopContext \in 1 .. Top
    BY <2>1, LoopContextIs
  <2> QED
    BY <2>2
<1> QED
  BY <1>1, <1>2

(* Safety of a break or skip: the scopes it leaves are those in its loop.   *)
LEMMA ExitLeaves ==
  ASSUME ValidatorStands, MarksTell, HeadsAt(function, at) # {}, Op \in {"break", "skip"},
         Op = "break" \/ KindOf(InnerLoop(function, at)) = "fordecl"
  PROVE  {contexts[k].scope : k \in FirstContained .. Top}
           = {s \in OpenAt(function, at) : s > InnerLoop(function, at)}
<1>1. at \in Nat \ {0} /\ function \in FunctionBodies /\ ContextsListed(function, contexts, at)
  BY Tokens DEF ValidatorStands
<1>2. PICK o \in HeadsAt(function, at) :
        /\ \A h \in HeadsAt(function, at) : h <= o
        /\ InnerLoop(function, at) = LoopOf(function, o) /\ loops[Len(loops)] = LoopOf(function, o)
  BY LastLoop DEF ValidatorStands
<1> DEFINE n == LoopContext
           Open == OpenAt(function, at)
<1>3. n \in 1 .. Top /\ contexts[n].scope = Innermost(function, o)
  BY <1>2, LoopContextIs
<1>4. {contexts[j].scope : j \in n + 1 .. Top} = {s \in Open : s > Innermost(function, o)}
  BY <1>3, ScopesFromContext
<1>5. \A s \in Open : s > Innermost(function, o) <=> s >= o
  BY <1>1, ScopesOfLoop
<1>6. /\ o \in HeadsIn(function) /\ o \in Opens(function) /\ o \in Nat /\ o < at /\ at <= EndIn(function, o)
      /\ \A s \in Open : s \in Nat /\ s \in ScopesIn(function)
  BY <1>1, OpenScopesAre
<1>7. hasAdditionalCleanup <=> function[o].op = "init"
  BY <1>1, <1>2, <1>6, Heads DEF hasAdditionalCleanup, KindOf
<1>8. CASE function[o].op # "init"
  <2>1. LoopOf(function, o) = o /\ o \notin ScopesIn(function) /\ Op = "break" /\ FirstContained = n + 1
    <3>1. KindOf(LoopOf(function, o)) # "fordecl"
      BY <1>1, <1>6, <1>8, Heads DEF KindOf
    <3>2. Op = "break"
      BY <1>2, <3>1
    <3> QED
      BY <1>1, <1>6, <1>7, <1>8, <3>2, Heads DEF FirstContained
  <2>2. \A s \in Open : s > Innermost(function, o) <=> s > o
    BY <1>5, <1>6, <2>1
  <2> QED
    BY <1>2, <1>4, <2>1, <2>2
<1>9. CASE function[o].op = "init"
  <2>1. LoopOf(function, o) = o + 2 /\ FirstContained = (n + 1) + 1
    BY <1>1, <1>3, <1>6, <1>7, <1>9, Heads DEF FirstContained
  <2>2. o \in Open
    BY <1>6, <1>9 DEF OpenAt, At, ScopesIn, Scopes
  <2>3. n + 1 \in 1 .. Top /\ contexts[n + 1].scope = o
    <3>1. /\ Top \in Nat
          /\ \A j \in 1 .. Top : contexts[j].scope \in {0} \cup Open
          /\ \A i, j \in 1 .. Top : i < j => contexts[i].scope < contexts[j].scope
      BY <1>1, ContextsAre DEF Top
    <3>2. o > Innermost(function, o)
      BY <1>5, <1>6, <2>2
    <3>3. PICK j \in n + 1 .. Top : contexts[j].scope = o
      BY <1>4, <2>2, <3>2
    <3>4. n + 1 \in 1 .. Top /\ n + 1 \in n + 1 .. Top /\ j \in 1 .. Top
      BY <1>3, <3>1, <3>3
    <3>5. contexts[n + 1].scope \in Open /\ contexts[n + 1].scope >= o
      BY <1>4, <1>5, <3>4
    <3>6. n + 1 < j => contexts[n + 1].scope < contexts[j].scope
      BY <3>1, <3>4
    <3>7. ~ (n + 1 < j)
      BY <1>6, <3>3, <3>5, <3>6
    <3>8. n + 1 = j
      BY <1>3, <3>1, <3>3, <3>7
    <3> QED
      BY <3>3, <3>4, <3>8
  <2>4. {contexts[j].scope : j \in (n + 1) + 1 .. Top} = {s \in Open : s > o}
    BY <2>3, ScopesFromContext
  <2>5. \A s \in Open : s > o <=> s > o + 2
    <3>1. function[o + 1].op = "var" /\ function[o + 2].op = "loop"
      BY <1>1, <1>6, <1>9, ForDeclarations
    <3>2. \A s \in Open : s # o + 1 /\ s # o + 2
      BY <1>6, <3>1 DEF ScopesIn, Scopes
    <3> QED
      BY <1>6, <3>2
  <2> QED
    BY <1>2, <2>1, <2>4, <2>5
<1> QED
  BY <1>8, <1>9

-----------------------------------------------------------------------------
(* The inductive invariant of the validator.                                *)
Places ==
  /\ function \in FunctionBodies
  /\ at \in Nat \ {0} /\ at <= Len(function) + 1
  /\ hasError \in BOOLEAN
  /\ status \in {"validate", "insert", "run", "rejected", "crash", "returned"}
  /\ status \in {"run", "returned"} => at <= Len(function)
  /\ status \in {"insert", "run", "returned"} => ~hasError
ContextsRight(f, c, q, i) ==
  /\ ContextsListed(f, c, i) /\ LoopsListed(f, q, i)
  /\ BracedIn(f) => Told(f, c, HeadsAt(f, i))

(* The tokens that have been visited are those in front of SeenTo.          *)
SeenTo == IF status = "validate" THEN at ELSE Len(function) + 1
OutsideLoop(f, i) == f[i].op \in {"break", "skip"} /\ HeadsAt(f, i) = {}
ErrorRight(f, error, n) == BracedIn(f) => (error <=> \E i \in 1 .. n - 1 : OutsideLoop(f, i))

(* What is noted at a token: a return leaves every scope.  Without an error *)
(* a break or skip has a loop, and the scopes it leaves are those in it.    *)
ExitRight(f, error, x, i) ==
  /\ f[i].op = "return" => i \in DOMAIN x /\ x[i].scopes = OpenAt(f, i)
  /\ f[i].op \in {"break", "skip"} /\ ~error =>
       /\ HeadsAt(f, i) # {} /\ i \in DOMAIN x /\ x[i].loop = InnerLoop(f, i)
       /\ BracedIn(f) /\ (f[i].op = "break" \/ f[InnerLoop(f, i)].kind = "fordecl") =>
            x[i].scopes = {s \in OpenAt(f, i) : s > InnerLoop(f, i)}
Validated ==
  /\ status = "validate" => ContextsRight(function, contexts, loops, at)
  /\ status # "crash" => ErrorRight(function, hasError, SeenTo)
  /\ status # "crash" => \A i \in 1 .. SeenTo - 1 : ExitRight(function, hasError, exits, i)

-----------------------------------------------------------------------------
(* The validator begins with the context of the globals.                    *)
LEMMA ValidatedAtFirst ==
  ASSUME Init
  PROVE  Places /\ Validated
<1>1. function \in FunctionBodies /\ status = "validate" /\ at = 1 /\ hasError = FALSE
      /\ contexts = <<Context(GlobalScope)>> /\ loops = <<>>
  BY DEF Init
<1>2. Len(function) \in Nat
  BY <1>1, Tokens
<1>9. hasError \in BOOLEAN /\ ~hasError
  BY <1>1
<1>10. at \in Nat \ {0} /\ at <= Len(function) + 1
  BY <1>1, <1>2
<1>3. Places
  BY <1>1, <1>9, <1>10 DEF Places
<1>4. OpenAt(function, 1) = {} /\ HeadsAt(function, 1) = {}
  BY <1>1, OpenScopesAre
<1>5. ContextsListed(function, contexts, 1)
  <2>1. contexts \in Seq(ContextType) /\ Len(contexts) = 1 /\ contexts[1].scope = 0
    BY <1>1 DEF Context, GlobalScope, ContextType
  <2>2. ScopeAt(contexts)[1] = 0
    BY <2>1 DEF ScopeAt
  <2> QED
    BY <1>4, <2>1, <2>2 DEF ContextsListed, Rises
<1>6. LoopsListed(function, loops, 1)
  BY <1>1, <1>4 DEF LoopsListed, Rises, LoopsAt
<1>7. Told(function, contexts, HeadsAt(function, 1))
  BY <1>1, <1>4 DEF Told, Context
<1>8. SeenTo = 1 /\ 1 .. SeenTo - 1 = {}
  BY <1>1 DEF SeenTo
<1> QED
  BY <1>1, <1>3, <1>5, <1>6, <1>7, <1>8 DEF Validated, ContextsRight, ErrorRight

(* What a visit has to show.                                                *)
LEMMA Visits ==
  ASSUME Places, Validated, status = "validate", at <= Len(function), Visited, hasError' \in BOOLEAN,
         ContextsRight(function, contexts', loops', at + 1),
         BracedIn(function) => (hasError' <=> hasError \/ OutsideLoop(function, at)),
         \A i \in 1 .. at - 1 : ExitRight(function, hasError, exits, i) => ExitRight(function, hasError', exits', i),
         ExitRight(function, hasError', exits', at)
  PROVE  Places' /\ Validated'
<1>1. function' = function /\ status' = "validate" /\ at' = at + 1 /\ at \in Nat \ {0} /\ Len(function) \in Nat
  BY Tokens DEF Places, Visited
<1>2. Places'
  BY <1>1 DEF Places
<1>3. SeenTo = at /\ SeenTo' = at + 1 /\ (at + 1) - 1 = at
  BY <1>1 DEF SeenTo
<1>4. \A i \in 1 .. at : i \in 1 .. at - 1 \/ i = at
  BY <1>1
<1>5. \A i \in 1 .. at : ExitRight(function, hasError', exits', i)
  BY <1>3, <1>4 DEF Validated
<1>6. ErrorRight(function, hasError', at + 1)
  <2>1. BracedIn(function) => (hasError <=> \E i \in 1 .. at - 1 : OutsideLoop(function, i))
    BY <1>3 DEF Validated, ErrorRight
  <2>2. (\E i \in 1 .. at : OutsideLoop(function, i))
          <=> (\E i \in 1 .. at - 1 : OutsideLoop(function, i)) \/ OutsideLoop(function, at)
    <3>1. \A i \in 1 .. at - 1 : i \in 1 .. at
      BY <1>1
    <3>2. at \in 1 .. at
      BY <1>1
    <3> QED
      BY <1>4, <3>1, <3>2
  <2> QED
    BY <1>3, <2>1, <2>2 DEF ErrorRight
<1> QED
  BY <1>1, <1>2, <1>3, <1>5, <1>6 DEF Validated

(* A visit to any token but a break, skip or return has to show the         *)
(* contexts only.                                                           *)
LEMMA VisitsNoExit ==
  ASSUME Places, Validated, status = "validate", at <= Len(function), Visited, UNCHANGED <<exits, hasError>>,
         Op \notin {"break", "skip", "return"},
         ContextsRight(function, contexts', loops', at + 1)
  PROVE  Places' /\ Validated'
<1>1. hasError' \in BOOLEAN
  BY DEF Places
<1>2. ~ OutsideLoop(function, at)
  BY DEF OutsideLoop, Op
<1>3. ExitRight(function, hasError', exits', at)
  BY DEF ExitRight, Op
<1>4. \A i \in 1 .. at - 1 : ExitRight(function, hasError, exits, i) => ExitRight(function, hasError', exits', i)
  OBVIOUS
<1> QED
  BY <1>1, <1>2, <1>3, <1>4, Visits

(* What the invariant says of the token that is visited.                    *)
LEMMA Stands ==
  ASSUME Places, Validated, status = "validate", at <= Len(function)
  PROVE  /\ ValidatorStands /\ at \in Nat \ {0} /\ function \in FunctionBodies
         /\ ContextsListed(function, contexts, at) /\ LoopsListed(function, loops, at)
         /\ contexts \in Seq(ContextType) /\ Top \in 1 .. Len(contexts) /\ Top = Len(contexts) /\ Top \in Nat
         /\ contexts[Top].scope = Innermost(function, at)
         /\ BracedIn(function) => Told(function, contexts, HeadsAt(function, at)) /\ MarksTell
<1>1. at \in 1 .. Len(function) /\ function \in FunctionBodies /\ at \in Nat \ {0}
  BY Tokens DEF Places
<1>2. ContextsRight(function, contexts, loops, at)
  BY DEF Validated
<1>3. /\ ContextsListed(function, contexts, at) /\ LoopsListed(function, loops, at)
      /\ BracedIn(function) => Told(function, contexts, HeadsAt(function, at))
  BY <1>2 DEF ContextsRight
<1>4. contexts \in Seq(ContextType)
  BY <1>3 DEF ContextsListed
<1>5. /\ Len(contexts) \in Nat /\ Len(contexts) > 0
      /\ contexts[Len(contexts)].scope = Innermost(function, at)
  BY <1>1, <1>3, ContextsAre
<1> QED
  BY <1>1, <1>3, <1>4, <1>5 DEF ValidatorStands, MarksTell, Top

(* The token that closes a part, and what it opened.                        *)
LEMMA OpenerIs ==
  ASSUME function \in FunctionBodies, at \in 1 .. Len(function), Op \in Closing
  PROVE  /\ Opener \in Opens(function) /\ EndIn(function, Opener) = at
         /\ Op = ClosedBy[function[Opener].op]
<1>1. PICK o \in Opens(function) : EndIn(function, o) = at
  BY HasOpener DEF Op
<1>2. Opener = o
  BY <1>1, Operators
<1>3. function[at].op = ClosedBy[function[o].op]
  BY <1>1, Parts
<1> QED
  BY <1>1, <1>2, <1>3 DEF Op

(* No head ends where another word closes.                                  *)
LEMMA NoHeadEnds ==
  ASSUME NEW f \in FunctionBodies, NEW i, f[i].op \notin {"endloop", "endinit"}
  PROVE  \A o \in HeadsIn(f) : EndIn(f, o) # i
<1> SUFFICES ASSUME NEW o \in HeadsIn(f), EndIn(f, o) = i PROVE FALSE
  OBVIOUS
<1>1. o \in Opens(f) /\ f[o].op \in {"init", "loop"}
  BY DEF HeadsIn
<1>2. f[EndIn(f, o)].op = ClosedBy[f[o].op]
  BY <1>1, Parts
<1> QED
  BY <1>1, <1>2, Words

(* VisitScope pushes a context without a mark for a scope in which nothing  *)
(* has begun.                                                               *)
LEMMA VisitScopeKeeps ==
  ASSUME Places, Validated, VisitScope
  PROVE  Places' /\ Validated'
<1>1. status = "validate" /\ at <= Len(function) /\ Op = "block" /\ Visited /\ UNCHANGED <<loops, exits, hasError>>
      /\ contexts' = Append(contexts, Context(at))
  BY DEF VisitScope, Validating
<1>2. /\ at \in Nat \ {0} /\ function \in FunctionBodies /\ contexts \in Seq(ContextType) /\ Len(contexts) \in Nat
      /\ ContextsListed(function, contexts, at) /\ LoopsListed(function, loops, at) /\ at \in 1 .. Len(function)
      /\ BracedIn(function) => Told(function, contexts, HeadsAt(function, at))
  BY <1>1, Stands DEF ValidatorStands
<1>3. Context(at) \in ContextType /\ Context(at).scope = at /\ Context(at).hasLoop = FALSE
  BY <1>2 DEF Context, ContextType
<1>4. /\ contexts' \in Seq(ContextType) /\ Len(contexts') = Len(contexts) + 1
      /\ contexts'[Len(contexts) + 1] = Context(at) /\ \A k \in 1 .. Len(contexts) : contexts'[k] = contexts[k]
  BY <1>1, <1>2, <1>3
<1>5. OpenAt(function, at + 1) = OpenAt(function, at) \cup {at}
  BY <1>1, <1>2, OpenNext DEF Op, Scopes
<1>6. HeadsAt(function, at + 1) = HeadsAt(function, at)
  <2>1. at \notin HeadsIn(function)
    BY <1>1 DEF HeadsIn, Op
  <2>2. \A o \in HeadsIn(function) : EndIn(function, o) # at
    BY <1>1, <1>2, NoHeadEnds DEF Op
  <2> QED
    BY <1>2, <2>1, <2>2, HeadsNext
<1>7. ContextsListed(function, contexts', at + 1)
  BY <1>2, <1>3, <1>4, <1>5, ContextsPush
<1>8. LoopsListed(function, loops', at + 1)
  BY <1>1, <1>2, <1>6 DEF LoopsListed, LoopsAt
<1>9. ASSUME BracedIn(function) PROVE Told(function, contexts', HeadsAt(function, at + 1))
  <2>1. \A h \in HeadsAt(function, at) : Innermost(function, h) # at
    <3> SUFFICES ASSUME NEW h \in HeadsAt(function, at) PROVE Innermost(function, h) # at
      OBVIOUS
    <3>1. h \in Nat \ {0} /\ h < at
      BY <1>2, OpenScopesAre
    <3>2. Innermost(function, h) < h /\ Innermost(function, h) \in Nat
      BY <1>2, <3>1, InnermostIs
    <3> QED
      BY <1>2, <3>1, <3>2
  <2> QED
    BY <1>2, <1>3, <1>4, <1>6, <1>9, <2>1, ToldOfNew
<1>10. ContextsRight(function, contexts', loops', at + 1)
  BY <1>7, <1>8, <1>9 DEF ContextsRight
<1> QED
  BY <1>1, <1>10, VisitsNoExit

(* LeaveScope pops the context of the scope that ends.                      *)
LEMMA LeaveScopeKeeps ==
  ASSUME Places, Validated, LeaveScope
  PROVE  Places' /\ Validated'
<1>1. status = "validate" /\ at <= Len(function) /\ Op = "endblock" /\ Visited /\ UNCHANGED <<loops, exits, hasError>>
      /\ contexts' = SubSeq(contexts, 1, Top - 1)
  BY DEF LeaveScope, Validating
<1>2. /\ at \in Nat \ {0} /\ function \in FunctionBodies /\ contexts \in Seq(ContextType) /\ Len(contexts) \in Nat
      /\ ContextsListed(function, contexts, at) /\ LoopsListed(function, loops, at) /\ at \in 1 .. Len(function)
      /\ BracedIn(function) => Told(function, contexts, HeadsAt(function, at))
      /\ Top = Len(contexts) /\ Len(contexts) > 0
  BY <1>1, Stands DEF ValidatorStands
<1>4. /\ contexts' \in Seq(ContextType) /\ Len(contexts') = Len(contexts) - 1
      /\ \A k \in 1 .. Len(contexts) - 1 : contexts'[k] = contexts[k]
  BY <1>1, <1>2, Shortened
<1>3. Opener \in ScopesIn(function) /\ EndIn(function, Opener) = at
  <2>1. Opener \in Opens(function) /\ EndIn(function, Opener) = at /\ Op = ClosedBy[function[Opener].op]
    BY <1>1, <1>2, OpenerIs, Words
  <2>2. function[Opener].op = "block"
    BY <1>1, <2>1, Words DEF Opens
  <2> QED
    BY <2>1, <2>2 DEF ScopesIn, Scopes
<1>5. /\ OpenAt(function, at + 1) = OpenAt(function, at) \ {Opener}
      /\ Opener \in OpenAt(function, at) /\ \A s \in OpenAt(function, at) : s <= Opener
  BY <1>2, <1>3, OpenNext
<1>6. HeadsAt(function, at + 1) = HeadsAt(function, at)
  <2>1. at \notin HeadsIn(function)
    BY <1>1 DEF HeadsIn, Op
  <2>2. \A o \in HeadsIn(function) : EndIn(function, o) # at
    BY <1>1, <1>2, NoHeadEnds DEF Op
  <2> QED
    BY <1>2, <2>1, <2>2, HeadsNext
<1>7. ContextsListed(function, contexts', at + 1)
  BY <1>2, <1>4, <1>5, ContextsPop
<1>8. LoopsListed(function, loops', at + 1)
  BY <1>1, <1>2, <1>6 DEF LoopsListed, LoopsAt
<1>9. ASSUME BracedIn(function) PROVE Told(function, contexts', HeadsAt(function, at + 1))
  <2>1. Len(contexts') \in Nat /\ Len(contexts') <= Len(contexts)
    BY <1>2, <1>4
  <2> QED
    BY <1>2, <1>4, <1>6, <1>9, <2>1, ToldOfFewer
<1>10. ContextsRight(function, contexts', loops', at + 1)
  BY <1>7, <1>8, <1>9 DEF ContextsRight
<1> QED
  BY <1>1, <1>10, VisitsNoExit

(* VisitLoop pushes the loop and marks the scope it is in.                  *)
LEMMA VisitLoopKeeps ==
  ASSUME Places, Validated, VisitLoop
  PROVE  Places' /\ Validated'
<1>1. status = "validate" /\ at <= Len(function) /\ Op = "loop" /\ KindOf(at) # "fordecl" /\ Visited
      /\ UNCHANGED <<exits, hasError>>
      /\ contexts' = [contexts EXCEPT ![Top].hasLoop = TRUE] /\ loops' = Append(loops, at)
  BY DEF VisitLoop, Validating
<1>2. /\ at \in Nat \ {0} /\ function \in FunctionBodies /\ contexts \in Seq(ContextType) /\ Len(contexts) \in Nat
      /\ ContextsListed(function, contexts, at) /\ LoopsListed(function, loops, at) /\ at \in 1 .. Len(function)
      /\ BracedIn(function) => Told(function, contexts, HeadsAt(function, at))
      /\ Top = Len(contexts) /\ Top \in 1 .. Len(contexts)
  BY <1>1, Stands DEF ValidatorStands
<1>3. at \in HeadsIn(function) /\ LoopOf(function, at) = at
  BY <1>1, <1>2, Words DEF HeadsIn, Opens, Op, KindOf, LoopOf
<1>4. /\ contexts' \in Seq(ContextType) /\ Len(contexts') = Len(contexts)
      /\ Marked(contexts, contexts', Len(contexts), TRUE)
  BY <1>1, <1>2, MarkSet
<1>11. \A k \in 1 .. Len(contexts) : contexts'[k].scope = contexts[k].scope
  BY <1>4 DEF Marked
<1>5. OpenAt(function, at + 1) = OpenAt(function, at)
  BY <1>1, <1>2, OpenNext DEF Op
<1>6. HeadsAt(function, at + 1) = HeadsAt(function, at) \cup {at}
  BY <1>2, <1>3, HeadsNext
<1>7. ContextsListed(function, contexts', at + 1)
  BY <1>2, <1>4, <1>5, <1>11, ContextsKept
<1>8. LoopsListed(function, loops', at + 1)
  BY <1>1, <1>2, <1>3, LoopsPush
<1>9. ASSUME BracedIn(function) PROVE Told(function, contexts', HeadsAt(function, at + 1))
  <2>1. Told(function, contexts, HeadsAt(function, at))
    BY <1>2, <1>9
  <2>2. at \in Nat \ {0} /\ ContextsListed(function, contexts, at) /\ function \in FunctionBodies
    BY <1>2
  <2>3. Told(function, contexts', HeadsAt(function, at) \cup {at})
    BY <1>4, <2>1, <2>2, ToldOfEntered
  <2> QED
    BY <1>6, <2>3
<1>10. ContextsRight(function, contexts', loops', at + 1)
  BY <1>7, <1>8, <1>9 DEF ContextsRight
<1> QED
  BY <1>1, <1>10, VisitsNoExit

(* LeaveLoop pops the loop and takes the mark back; in braces no other loop *)
(* had the same mark.                                                       *)
LEMMA LeaveLoopKeeps ==
  ASSUME Places, Validated, LeaveLoop
  PROVE  Places' /\ Validated'
<1>1. status = "validate" /\ at <= Len(function) /\ Op = "endloop" /\ KindOf(Opener) # "fordecl" /\ Visited
      /\ UNCHANGED <<exits, hasError>>
      /\ contexts' = [contexts EXCEPT ![Top].hasLoop = FALSE] /\ loops' = SubSeq(loops, 1, Len(loops) - 1)
  BY DEF LeaveLoop, Validating
<1>2. /\ at \in Nat \ {0} /\ function \in FunctionBodies /\ contexts \in Seq(ContextType) /\ Len(contexts) \in Nat
      /\ ContextsListed(function, contexts, at) /\ LoopsListed(function, loops, at) /\ at \in 1 .. Len(function)
      /\ BracedIn(function) => Told(function, contexts, HeadsAt(function, at))
      /\ Top = Len(contexts) /\ Top \in 1 .. Len(contexts) /\ contexts[Top].scope = Innermost(function, at)
  BY <1>1, Stands DEF ValidatorStands
<1> DEFINE o == Opener
<1>3. o \in HeadsIn(function) /\ EndIn(function, o) = at /\ o \in Opens(function) /\ o \notin ScopesIn(function)
  <2>1. o \in Opens(function) /\ EndIn(function, o) = at /\ Op = ClosedBy[function[o].op]
    BY <1>1, <1>2, OpenerIs, Words
  <2>2. function[o].op = "loop"
    BY <1>1, <2>1, Words DEF Opens
  <2> QED
    BY <1>1, <2>1, <2>2 DEF HeadsIn, KindOf, ScopesIn, Scopes
<1> HIDE DEF o
<1>4. /\ contexts' \in Seq(ContextType) /\ Len(contexts') = Len(contexts)
      /\ Marked(contexts, contexts', Len(contexts), FALSE)
  BY <1>1, <1>2, MarkSet
<1>5. \A k \in 1 .. Len(contexts) : contexts'[k].scope = contexts[k].scope
  BY <1>4 DEF Marked
<1>6. OpenAt(function, at + 1) = OpenAt(function, at)
  BY <1>1, <1>2, OpenNext DEF Op
<1>7. /\ HeadsAt(function, at + 1) = HeadsAt(function, at) \ {o}
      /\ o \in HeadsAt(function, at) /\ \A h \in HeadsAt(function, at) : h <= o
  BY <1>2, <1>3, HeadsNext
<1>8. ContextsListed(function, contexts', at + 1)
  BY <1>2, <1>4, <1>5, <1>6, ContextsKept
<1>9. LoopsListed(function, loops', at + 1)
  BY <1>1, <1>2, <1>7, LoopsPop
<1>10. Innermost(function, o) = Innermost(function, at)
  <2>1. OpenAt(function, at) = OpenAt(function, o) \cup ({o} \cap ScopesIn(function))
    BY <1>2, <1>3, Around, OpenScopesAre DEF OpenAt
  <2>2. OpenAt(function, at) = OpenAt(function, o)
    BY <1>3, <2>1
  <2> QED
    BY <2>2 DEF Innermost
<1>11. ASSUME BracedIn(function) PROVE Told(function, contexts', HeadsAt(function, at + 1))
  <2>1. Told(function, contexts, HeadsAt(function, at))
    BY <1>2, <1>11
  <2>2. \A h \in HeadsAt(function, at) \ {o} : Innermost(function, h) # Innermost(function, o)
    <3>1. \A h \in HeadsAt(function, at) \ {o} :
            /\ Innermost(function, h) < Innermost(function, o)
            /\ Innermost(function, h) \in Nat /\ Innermost(function, o) \in Nat
      BY <1>2, <1>7, <1>11, OthersFurtherOut
    <3> QED
      BY <3>1
  <2>3. /\ \A k \in 1 .. Len(contexts) : contexts[k].scope \in Nat
        /\ \A j, k \in 1 .. Len(contexts) : j < k => contexts[j].scope < contexts[k].scope
    <3>1. /\ \A k \in 1 .. Len(contexts) : contexts[k] \in ContextType
          /\ \A j, k \in 1 .. Len(contexts) : j < k => contexts[j].scope < contexts[k].scope
      BY <1>2, ContextsAre
    <3> QED
      BY <3>1 DEF ContextType
  <2>4. /\ Len(contexts) \in Nat /\ Len(contexts) > 0 /\ Len(contexts) <= Len(contexts)
        /\ Innermost(function, o) = contexts[Len(contexts)].scope
    BY <1>2, <1>10
  <2>5. Told(function, contexts', HeadsAt(function, at) \ {o})
    BY <1>4, <2>1, <2>2, <2>3, <2>4, ToldOfLeft
  <2> QED
    BY <1>7, <2>5
<1>12. ContextsRight(function, contexts', loops', at + 1)
  BY <1>8, <1>9, <1>11 DEF ContextsRight
<1> QED
  BY <1>1, <1>12, VisitsNoExit

(* VisitForDeclaration marks the outer scope, pushes the loop and then the  *)
(* context of its variable.                                                 *)
LEMMA VisitForDeclarationKeeps ==
  ASSUME Places, Validated, VisitForDeclaration
  PROVE  Places' /\ Validated'
<1> DEFINE c == [contexts EXCEPT ![Top].hasLoop = TRUE]
<1>1. status = "validate" /\ at <= Len(function) /\ Op = "init" /\ Visited
      /\ UNCHANGED <<exits, hasError>>
      /\ contexts' = Append(c, Context(at)) /\ loops' = Append(loops, LoopIn(at))
  BY DEF VisitForDeclaration, Validating
<1>2. /\ at \in Nat \ {0} /\ function \in FunctionBodies /\ contexts \in Seq(ContextType) /\ Len(contexts) \in Nat
      /\ ContextsListed(function, contexts, at) /\ LoopsListed(function, loops, at) /\ at \in 1 .. Len(function)
      /\ BracedIn(function) => Told(function, contexts, HeadsAt(function, at))
      /\ Top = Len(contexts) /\ Top \in 1 .. Len(contexts)
  BY <1>1, Stands DEF ValidatorStands
<1>3. at \in HeadsIn(function) /\ LoopOf(function, at) = LoopIn(at)
  <2>1. at \in Opens(function) /\ function[at].op = "init"
    BY <1>1, <1>2, Words DEF Opens, Op
  <2> QED
    BY <1>2, <2>1, LoopInIs DEF HeadsIn, LoopOf
<1>4. c \in Seq(ContextType) /\ Len(c) = Len(contexts) /\ Marked(contexts, c, Len(contexts), TRUE)
  BY <1>2, MarkSet
<1> HIDE DEF c
<1>5. Context(at) \in ContextType /\ Context(at).scope = at /\ Context(at).hasLoop = FALSE
  BY <1>2 DEF Context, ContextType
<1>6. /\ contexts' \in Seq(ContextType) /\ Len(contexts') = Len(c) + 1
      /\ contexts'[Len(c) + 1] = Context(at) /\ \A k \in 1 .. Len(c) : contexts'[k] = c[k]
  BY <1>1, <1>4, <1>5
<1>7. \A k \in 1 .. Len(contexts) : contexts'[k].scope = contexts[k].scope
  BY <1>4, <1>6 DEF Marked
<1>8. OpenAt(function, at + 1) = OpenAt(function, at) \cup {at}
  BY <1>1, <1>2, OpenNext DEF Op, Scopes
<1>9. HeadsAt(function, at + 1) = HeadsAt(function, at) \cup {at}
  BY <1>2, <1>3, HeadsNext
<1>10. ContextsListed(function, contexts', at + 1)
  BY <1>2, <1>4, <1>5, <1>6, <1>7, <1>8, ContextsPush
<1>11. LoopsListed(function, loops', at + 1)
  BY <1>1, <1>2, <1>3, LoopsPush
<1>12. ASSUME BracedIn(function) PROVE Told(function, contexts', HeadsAt(function, at + 1))
  <2>1. Told(function, contexts, HeadsAt(function, at))
    BY <1>2, <1>12
  <2>2. at \in Nat \ {0} /\ ContextsListed(function, contexts, at) /\ function \in FunctionBodies
    BY <1>2
  <2>3. Told(function, c, HeadsAt(function, at) \cup {at})
    BY <1>4, <2>1, <2>2, ToldOfEntered
  <2>4. \A h \in HeadsAt(function, at) \cup {at} : Innermost(function, h) # at
    <3> SUFFICES ASSUME NEW h \in HeadsAt(function, at) \cup {at} PROVE Innermost(function, h) # at
      OBVIOUS
    <3>1. h \in Nat \ {0} /\ h <= at
      BY <2>2, OpenScopesAre
    <3>2. Innermost(function, h) < h /\ Innermost(function, h) \in Nat
      BY <2>2, <3>1, InnermostIs
    <3> QED
      BY <2>2, <3>1, <3>2
  <2>5. Len(c) \in Nat /\ contexts'[Len(c) + 1].scope = at /\ contexts'[Len(c) + 1].hasLoop = FALSE
    BY <1>2, <1>4, <1>5, <1>6
  <2>6. \A k \in 1 .. Len(c) : contexts'[k].scope = c[k].scope /\ contexts'[k].hasLoop = c[k].hasLoop
    BY <1>6
  <2>7. Told(function, contexts', HeadsAt(function, at) \cup {at})
    BY <1>6, <2>3, <2>4, <2>5, <2>6, ToldOfNew
  <2> QED
    BY <1>9, <2>7
<1>13. ContextsRight(function, contexts', loops', at + 1)
  BY <1>10, <1>11, <1>12 DEF ContextsRight
<1> QED
  BY <1>1, <1>13, VisitsNoExit

(* LeaveForDeclaration pops the context before it takes back the mark of    *)
(* the outer scope.                                                         *)
LEMMA LeaveForDeclarationKeeps ==
  ASSUME Places, Validated, LeaveForDeclaration
  PROVE  Places' /\ Validated'
<1> DEFINE c == SubSeq(contexts, 1, Top - 1)
           o == Opener
<1>1. status = "validate" /\ at <= Len(function) /\ Op = "endinit" /\ Visited
      /\ UNCHANGED <<exits, hasError>>
      /\ contexts' = [c EXCEPT ![Top - 1].hasLoop = FALSE] /\ loops' = SubSeq(loops, 1, Len(loops) - 1)
  BY DEF LeaveForDeclaration, Validating
<1>2. /\ at \in Nat \ {0} /\ function \in FunctionBodies /\ contexts \in Seq(ContextType) /\ Len(contexts) \in Nat
      /\ ContextsListed(function, contexts, at) /\ LoopsListed(function, loops, at) /\ at \in 1 .. Len(function)
      /\ BracedIn(function) => Told(function, contexts, HeadsAt(function, at))
      /\ Top = Len(contexts) /\ Top \in 1 .. Len(contexts) /\ contexts[Top].scope = Innermost(function, at)
      /\ at + 1 \in Nat \ {0}
  BY <1>1, Stands DEF ValidatorStands
<1>3. /\ o \in HeadsIn(function) /\ EndIn(function, o) = at /\ o \in Opens(function) /\ o \in ScopesIn(function)
      /\ o \in Nat \ {0}
  <2>1. o \in Opens(function) /\ EndIn(function, o) = at /\ Op = ClosedBy[function[o].op]
    BY <1>1, <1>2, OpenerIs, Words
  <2>2. function[o].op = "init"
    BY <1>1, <2>1, Words DEF Opens
  <2>3. o \in Nat \ {0}
    BY <1>2, <2>1, Parts
  <2> QED
    BY <1>1, <2>1, <2>2, <2>3 DEF HeadsIn, ScopesIn, Scopes
<1>4. /\ c \in Seq(ContextType) /\ Len(c) = Len(contexts) - 1
      /\ \A k \in 1 .. Len(contexts) - 1 : c[k] = contexts[k]
  BY <1>2, Shortened
<1> HIDE DEF o, c
<1>5. /\ OpenAt(function, at + 1) = OpenAt(function, at) \ {o}
      /\ o \in OpenAt(function, at) /\ \A s \in OpenAt(function, at) : s <= o
  BY <1>2, <1>3, OpenNext
<1>6. /\ HeadsAt(function, at + 1) = HeadsAt(function, at) \ {o}
      /\ o \in HeadsAt(function, at) /\ \A h \in HeadsAt(function, at) : h <= o
  BY <1>2, <1>3, HeadsNext
<1>7. Len(contexts) > 1
  <2>1. \A s \in {0} \cup OpenAt(function, at) : \E k \in 1 .. Len(contexts) : contexts[k].scope = s
    <3>1. ContextsListed(function, contexts, at) /\ at \in Nat \ {0} /\ function \in FunctionBodies
      BY <1>2
    <3>2. /\ Len(contexts) \in Nat /\ Len(contexts) > 0 /\ contexts[Len(contexts)].scope = Innermost(function, at)
          /\ \A k \in 1 .. Len(contexts) :
               contexts[k] \in ContextType /\ contexts[k].scope \in {0} \cup OpenAt(function, at)
          /\ \A s \in {0} \cup OpenAt(function, at) : \E k \in 1 .. Len(contexts) : contexts[k].scope = s
          /\ \A j, k \in 1 .. Len(contexts) : j < k => contexts[j].scope < contexts[k].scope
      BY <3>1, ContextsAre
    <3> QED
      BY <3>2
  <2>2. PICK k \in 1 .. Len(contexts) : contexts[k].scope = 0
    BY <2>1
  <2>3. PICK j \in 1 .. Len(contexts) : contexts[j].scope = o
    BY <1>5, <2>1
  <2>4. k # j
    BY <1>3, <2>2, <2>3
  <2> QED
    BY <1>2, <2>4
<1>8. /\ contexts' \in Seq(ContextType) /\ Len(contexts') = Len(contexts) - 1
      /\ Marked(c, contexts', Len(contexts) - 1, FALSE)
  <2>1. Len(contexts) - 1 \in 1 .. Len(c)
    BY <1>2, <1>4, <1>7
  <2>2. contexts' = [c EXCEPT ![Len(contexts) - 1].hasLoop = FALSE]
    BY <1>1, <1>2
  <2> DEFINE n == Len(contexts) - 1
             d == contexts'
  <2>3. n \in 1 .. Len(c) /\ FALSE \in BOOLEAN /\ c \in Seq(ContextType)
    BY <1>4, <2>1
  <2>4. d = [c EXCEPT ![n].hasLoop = FALSE]
    BY <2>2
  <2> HIDE DEF n, d
  <2>5. d \in Seq(ContextType) /\ Len(d) = Len(c) /\ Marked(c, d, n, FALSE)
    BY <2>3, <2>4, MarkSet
  <2> QED
    BY <1>4, <2>5 DEF n, d
<1>9. Marked(contexts, contexts', Len(contexts) - 1, FALSE)
  BY <1>4, <1>8 DEF Marked
<1>10. \A k \in 1 .. Len(contexts) - 1 : contexts'[k].scope = contexts[k].scope
  BY <1>8, <1>9 DEF Marked
<1>11. ContextsListed(function, contexts', at + 1)
  BY <1>2, <1>5, <1>8, <1>10, ContextsPop
<1>12. LoopsListed(function, loops', at + 1)
  BY <1>1, <1>2, <1>6, LoopsPop
<1>13. Innermost(function, o) = contexts[Len(contexts) - 1].scope
  <2>1. OpenAt(function, at) = OpenAt(function, o) \cup ({o} \cap ScopesIn(function))
    BY <1>2, <1>3, Around, OpenScopesAre DEF OpenAt
  <2>2. o \notin OpenAt(function, o)
    BY <1>2, <1>3, OpenScopesAre
  <2>3. OpenAt(function, at + 1) = OpenAt(function, o)
    BY <1>3, <1>5, <2>1, <2>2
  <2>4. Innermost(function, o) = Innermost(function, at + 1)
    BY <2>3 DEF Innermost
  <2>5. contexts'[Len(contexts')].scope = Innermost(function, at + 1)
    BY <1>2, <1>11, ContextsAre
  <2>6. Len(contexts) - 1 \in 1 .. Len(contexts) - 1
    BY <1>2, <1>7
  <2> QED
    BY <1>8, <1>10, <2>4, <2>5, <2>6
<1>14. ASSUME BracedIn(function) PROVE Told(function, contexts', HeadsAt(function, at + 1))
  <2>1. Told(function, contexts, HeadsAt(function, at))
    BY <1>2, <1>14
  <2>2. \A h \in HeadsAt(function, at) \ {o} : Innermost(function, h) # Innermost(function, o)
    <3>1. \A h \in HeadsAt(function, at) \ {o} :
            /\ Innermost(function, h) < Innermost(function, o)
            /\ Innermost(function, h) \in Nat /\ Innermost(function, o) \in Nat
      BY <1>2, <1>6, <1>14, OthersFurtherOut
    <3> QED
      BY <3>1
  <2>3. /\ \A k \in 1 .. Len(contexts) : contexts[k].scope \in Nat
        /\ \A j, k \in 1 .. Len(contexts) : j < k => contexts[j].scope < contexts[k].scope
    <3>1. /\ \A k \in 1 .. Len(contexts) : contexts[k] \in ContextType
          /\ \A j, k \in 1 .. Len(contexts) : j < k => contexts[j].scope < contexts[k].scope
      BY <1>2, ContextsAre
    <3> QED
      BY <3>1 DEF ContextType
  <2> DEFINE n == Len(contexts) - 1
  <2>4. n \in Nat /\ n > 0 /\ n <= Len(contexts) /\ Len(contexts) \in Nat
    BY <1>2, <1>7
  <2>5. Len(contexts') = n /\ Marked(contexts, contexts', n, FALSE) /\ Innermost(function, o) = contexts[n].scope
    BY <1>8, <1>9, <1>13
  <2> HIDE DEF n
  <2>6. Told(function, contexts', HeadsAt(function, at) \ {o})
    BY <2>1, <2>2, <2>3, <2>4, <2>5, ToldOfLeft
  <2> QED
    BY <1>6, <2>6
<1>15. ContextsRight(function, contexts', loops', at + 1)
  BY <1>11, <1>12, <1>14 DEF ContextsRight
<1> QED
  BY <1>1, <1>15, VisitsNoExit

(* A token that opens and closes neither a scope nor a head.                *)
LEMMA StaysRight ==
  ASSUME Places, Validated, status = "validate", at <= Len(function), UNCHANGED <<contexts, loops>>,
         Op \notin {"block", "init", "endblock", "endinit"}, at \notin HeadsIn(function),
         \A o \in HeadsIn(function) : EndIn(function, o) # at
  PROVE  ContextsRight(function, contexts', loops', at + 1)
<1>1. /\ at \in Nat \ {0} /\ function \in FunctionBodies /\ at \in 1 .. Len(function)
      /\ ContextsListed(function, contexts, at) /\ LoopsListed(function, loops, at)
      /\ BracedIn(function) => Told(function, contexts, HeadsAt(function, at))
  BY Stands DEF ValidatorStands
<1>2. OpenAt(function, at + 1) = OpenAt(function, at)
  BY <1>1, OpenNext DEF Op
<1>3. HeadsAt(function, at + 1) = HeadsAt(function, at)
  BY <1>1, HeadsNext
<1>4. ContextsListed(function, contexts', at + 1)
  BY <1>1, <1>2 DEF ContextsListed
<1>5. LoopsListed(function, loops', at + 1)
  BY <1>1, <1>3 DEF LoopsListed, LoopsAt
<1> QED
  BY <1>1, <1>3, <1>4, <1>5 DEF ContextsRight

(* VisitOther changes neither contexts nor loops, and nothing is opened or  *)
(* closed.                                                                  *)
LEMMA VisitOtherKeeps ==
  ASSUME Places, Validated, VisitOther
  PROVE  Places' /\ Validated'
<1>1. /\ status = "validate" /\ at <= Len(function) /\ Visited /\ UNCHANGED <<contexts, loops, exits, hasError>>
      /\ \/ Op \in {"if", "else", "endif", "var"}
         \/ Op = "loop" /\ KindOf(at) = "fordecl"
         \/ Op = "endloop" /\ KindOf(Opener) = "fordecl"
  BY DEF VisitOther, Validating
<1>2. at \in 1 .. Len(function) /\ function \in FunctionBodies
  BY <1>1, Stands DEF ValidatorStands
<1>3. at \notin HeadsIn(function)
  BY <1>1 DEF HeadsIn, Op, KindOf
<1>4. ASSUME NEW o \in HeadsIn(function), EndIn(function, o) = at PROVE FALSE
  <2>1. Op = "endloop"
    BY <1>1, <1>4, NoHeadEnds, <1>2 DEF Op
  <2>2. Opener \in Opens(function) /\ EndIn(function, Opener) = at /\ Op = ClosedBy[function[Opener].op]
    BY <1>2, <2>1, OpenerIs, Words
  <2>3. o = Opener
    BY <1>2, <1>4, <2>2, OneOpener DEF HeadsIn
  <2>4. function[Opener].op = "loop"
    BY <2>1, <2>2, Words DEF Opens
  <2> QED
    BY <1>1, <2>1, <2>3, <2>4 DEF HeadsIn, KindOf
<1>5. ContextsRight(function, contexts', loops', at + 1)
  BY <1>1, <1>3, <1>4, StaysRight
<1> QED
  BY <1>1, <1>5, VisitsNoExit

(* Nor does a break, a skip or a return.                                    *)
LEMMA ExitStays ==
  ASSUME Places, Validated, status = "validate", at <= Len(function), UNCHANGED <<contexts, loops>>,
         Op \in {"break", "skip", "return"}
  PROVE  ContextsRight(function, contexts', loops', at + 1)
<1>1. at \in 1 .. Len(function) /\ function \in FunctionBodies
  BY Stands DEF ValidatorStands
<1>2. at \notin HeadsIn(function)
  BY DEF HeadsIn, Op
<1>3. \A o \in HeadsIn(function) : EndIn(function, o) # at
  BY <1>1, NoHeadEnds DEF Op
<1> QED
  BY <1>2, <1>3, StaysRight

(* VisitExitOutsideLoop reports an error, and there is one: the token has   *)
(* no loop around it.                                                       *)
LEMMA VisitExitOutsideLoopKeeps ==
  ASSUME Places, Validated, VisitExitOutsideLoop
  PROVE  Places' /\ Validated'
<1>1. /\ status = "validate" /\ at <= Len(function) /\ Visited /\ UNCHANGED <<contexts, loops, exits>>
      /\ Op \in {"break", "skip"} /\ hasError' = TRUE /\ (loops = <<>> \/ LoopContext = 0)
  BY DEF VisitExitOutsideLoop, Validating
<1>2. ContextsRight(function, contexts', loops', at + 1)
  BY <1>1, ExitStays
<1>3. ValidatorStands /\ (BracedIn(function) => MarksTell)
  BY <1>1, Stands
<1>4. BracedIn(function) => HeadsAt(function, at) = {}
  BY <1>1, <1>3, NoLoopContext
<1>5. BracedIn(function) => (hasError' <=> hasError \/ OutsideLoop(function, at))
  BY <1>1, <1>4 DEF OutsideLoop, Op
<1>6. ExitRight(function, hasError', exits', at)
  BY <1>1 DEF ExitRight, Op
<1>7. \A i \in 1 .. at - 1 : ExitRight(function, hasError, exits, i) => ExitRight(function, hasError', exits', i)
  BY <1>1 DEF ExitRight
<1> QED
  BY <1>1, <1>2, <1>5, <1>6, <1>7, Visits

(* What is noted at a token leaves what was noted before.                   *)
LEMMA NotesKept ==
  ASSUME Places, NEW first, NEW loop, LeavesScopesFrom(first, loop)
  PROVE  /\ \A i \in 1 .. at - 1 :
              ExitRight(function, hasError, exits, i) => ExitRight(function, hasError, exits', i)
         /\ at \in DOMAIN exits'
         /\ exits'[at].loop = loop /\ exits'[at].scopes = {contexts[k].scope : k \in first .. Top}
<1>1. exits' = [i \in DOMAIN exits \cup {at} |->
                  IF i = at THEN [scopes |-> {contexts[k].scope : k \in first .. Top}, loop |-> loop]
                  ELSE exits[i]]
  BY DEF LeavesScopesFrom
<1>2. DOMAIN exits' = DOMAIN exits \cup {at} /\ \A i \in DOMAIN exits : i # at => exits'[i] = exits[i]
  BY <1>1
<1>3. exits'[at] = [scopes |-> {contexts[k].scope : k \in first .. Top}, loop |-> loop]
  BY <1>1
<1>4. \A i \in 1 .. at - 1 : i # at
  BY DEF Places
<1>5. \A i \in 1 .. at - 1 : ExitRight(function, hasError, exits, i) => ExitRight(function, hasError, exits', i)
  BY <1>2, <1>4 DEF ExitRight
<1> QED
  BY <1>2, <1>3, <1>5

(* VisitExit notes the scopes from the context with the innermost mark on,  *)
(* which are those in the loop.                                             *)
LEMMA VisitExitKeeps ==
  ASSUME Places, Validated, VisitExit
  PROVE  Places' /\ Validated'
<1>1. /\ status = "validate" /\ at <= Len(function) /\ Visited /\ UNCHANGED <<contexts, loops, hasError>>
      /\ Op \in {"break", "skip"} /\ loops # <<>> /\ LoopContext # 0
      /\ LeavesScopesFrom(FirstContained, loops[Len(loops)])
  BY DEF VisitExit, Validating
<1>2. ContextsRight(function, contexts', loops', at + 1)
  BY <1>1, ExitStays
<1>3. ValidatorStands /\ (BracedIn(function) => MarksTell)
  BY <1>1, Stands
<1>4. BracedIn(function) => HeadsAt(function, at) # {}
  BY <1>1, <1>3, NoLoopContext
<1>5. hasError' \in BOOLEAN /\ (BracedIn(function) => (hasError' <=> hasError \/ OutsideLoop(function, at)))
  BY <1>1, <1>4 DEF OutsideLoop, Places
<1>6. /\ \A i \in 1 .. at - 1 : ExitRight(function, hasError, exits, i) => ExitRight(function, hasError', exits', i)
      /\ at \in DOMAIN exits' /\ exits'[at].loop = loops[Len(loops)]
      /\ exits'[at].scopes = {contexts[k].scope : k \in FirstContained .. Top}
  BY <1>1, NotesKept
<1>7. HeadsAt(function, at) # {} /\ loops[Len(loops)] = InnerLoop(function, at)
  BY <1>1, <1>3, LastLoop DEF ValidatorStands
<1>8. ASSUME BracedIn(function), Op = "break" \/ function[InnerLoop(function, at)].kind = "fordecl"
      PROVE  exits'[at].scopes = {s \in OpenAt(function, at) : s > InnerLoop(function, at)}
  BY <1>1, <1>3, <1>4, <1>6, <1>8, ExitLeaves DEF KindOf
<1>9. ExitRight(function, hasError', exits', at)
  BY <1>1, <1>6, <1>7, <1>8 DEF ExitRight, Op
<1> QED
  BY <1>1, <1>2, <1>5, <1>6, <1>9, Visits

(* VisitReturn notes all scopes but the one of the globals.                 *)
LEMMA VisitReturnKeeps ==
  ASSUME Places, Validated, VisitReturn
  PROVE  Places' /\ Validated'
<1>1. /\ status = "validate" /\ at <= Len(function) /\ Visited /\ UNCHANGED <<contexts, loops, hasError>>
      /\ Op = "return" /\ LeavesScopesFrom(2, 0)
  BY DEF VisitReturn, Validating
<1>2. ContextsRight(function, contexts', loops', at + 1)
  BY <1>1, ExitStays
<1>3. ValidatorStands
  BY <1>1, Stands
<1>5. hasError' \in BOOLEAN /\ (BracedIn(function) => (hasError' <=> hasError \/ OutsideLoop(function, at)))
  BY <1>1 DEF OutsideLoop, Places, Op
<1>6. /\ \A i \in 1 .. at - 1 : ExitRight(function, hasError, exits, i) => ExitRight(function, hasError', exits', i)
      /\ at \in DOMAIN exits' /\ exits'[at].scopes = {contexts[k].scope : k \in 2 .. Top}
  BY <1>1, NotesKept
<1>7. exits'[at].scopes = OpenAt(function, at)
  BY <1>3, <1>6, AllScopes
<1>8. ExitRight(function, hasError', exits', at)
  BY <1>1, <1>6, <1>7 DEF ExitRight, Op
<1> QED
  BY <1>1, <1>2, <1>5, <1>6, <1>8, Visits

(* FinishValidation goes on to the insertion only without an error.         *)
LEMMA FinishValidationKeeps ==
  ASSUME Places, Validated, FinishValidation
  PROVE  Places' /\ Validated'
<1>1. /\ status = "validate" /\ at > Len(function) /\ status' = (IF hasError THEN "rejected" ELSE "insert")
      /\ at' = 1 /\ UNCHANGED <<function, contexts, loops, exits, hasError>>
  BY DEF FinishValidation
<1>2. /\ function \in FunctionBodies /\ Len(function) \in Nat /\ at = Len(function) + 1 /\ hasError \in BOOLEAN
  BY <1>1, Tokens DEF Places
<1>3. status' \in {"rejected", "insert"} /\ (status' = "insert" => ~hasError)
  BY <1>1, <1>2
<1>4. Places'
  <2>1. at' \in Nat \ {0} /\ at' <= Len(function) + 1
    BY <1>1, <1>2
  <2> QED
    BY <1>1, <1>2, <1>3, <2>1 DEF Places
<1>5. SeenTo = Len(function) + 1 /\ SeenTo' = Len(function) + 1
  BY <1>1, <1>2, <1>3 DEF SeenTo
<1> QED
  BY <1>1, <1>3, <1>4, <1>5 DEF Validated

(* Every step of the validator keeps its part of the invariant.             *)
LEMMA ValidateKeeps ==
  ASSUME Places, Validated, Validate
  PROVE  Places' /\ Validated'
<1>1. ASSUME VisitExitThrows PROVE Places' /\ Validated'
  <2>1. status = "validate" /\ status' = "crash" /\ UNCHANGED <<function, at, hasError>>
    BY <1>1 DEF VisitExitThrows, Validating
  <2> QED
    BY <2>1 DEF Places, Validated
<1> QED
  BY <1>1, VisitScopeKeeps, LeaveScopeKeeps, VisitLoopKeeps, LeaveLoopKeeps, VisitForDeclarationKeeps,
     LeaveForDeclarationKeeps, VisitOtherKeeps, VisitExitOutsideLoopKeeps, VisitExitKeeps, VisitReturnKeeps,
     FinishValidationKeeps DEF Validate

-----------------------------------------------------------------------------
(* ScopeOf, of the specification, is the innermost scope.                   *)
LEMMA ScopeOfIs ==
  ASSUME function \in FunctionBodies, NEW v \in Vars(function)
  PROVE  ScopeOf(v) = Innermost(function, v)
<1>1. /\ v \in Nat \ {0} /\ v < Len(function) /\ Innermost(function, v) \in OpenAt(function, v)
      /\ \A o \in Opens(function) : EndIn(function, o) # v
  BY VariablesInScopes
<1>2. \A s \in OpenAt(function, v) :
        s \in ScopesIn(function) /\ s \in Nat /\ 1 <= s /\ s < v /\ v <= EndIn(function, s)
  BY OpenScopesAre
<1>3. \A s \in ScopesIn(function) : EndIn(function, s) \in Nat /\ s \in Opens(function)
  BY Parts DEF ScopesIn
<1> DEFINE S == {s \in 1 .. v : function[s].op \in Scopes /\ Inside(v, s)}
<1>4. S = OpenAt(function, v)
  <2>1. ASSUME NEW s \in S PROVE s \in OpenAt(function, v)
    <3>1. s \in Opens(function) /\ s < v /\ v < EndIn(function, s)
      BY <1>1, Words, Operators, Tokens DEF Opens, Scopes, Inside
    <3>2. EndIn(function, s) \in Nat
      BY <3>1, Parts
    <3> QED
      BY <1>1, <3>1, <3>2 DEF OpenAt, At, ScopesIn
  <2>2. ASSUME NEW s \in OpenAt(function, v) PROVE s \in S
    <3>1. s \in 1 .. v /\ function[s].op \in Scopes
      BY <1>1, <1>2 DEF ScopesIn
    <3>2. s < v /\ v < EndIn(function, s)
      BY <1>1, <1>2, <1>3
    <3> QED
      BY <3>1, <3>2, Operators DEF Inside
  <2> QED
    BY <2>1, <2>2
<1>5. ScopeOf(v) = Max(S)
  BY DEF ScopeOf
<1> HIDE DEF S
<1> DEFINE x == Innermost(function, v)
           y == Max(S)
<1>6. S \in SUBSET Int /\ S # {} /\ x \in S /\ x \in Int /\ \A s \in S : s <= x
  BY <1>1, <1>2, <1>4, InnermostIs
<1> HIDE DEF x
<1>7. y \in S /\ \A s \in S : s <= y
  BY <1>6, MaxIsGreatest
<1> HIDE DEF y
<1>8. x <= y /\ y <= x /\ y \in Int
  BY <1>6, <1>7
<1>9. x = y
  BY <1>6, <1>8
<1> QED
  BY <1>5, <1>9 DEF x, y

(* sizeOfLocalVariables is the size of the scope.                           *)
LEMMA LocalSize ==
  ASSUME function \in FunctionBodies, NEW s \in 1 .. Len(function)
  PROVE  sizeOfLocalVariables(s) = ScopeSize(function)[s]
<1> DEFINE S == VarsOf(function, s)
           g == Size(function)
           Raw(iter) == iter = [t \in SUBSET S |-> IF t = {} THEN 0
                                                   ELSE function[Chosen(t)].size + iter[t \ {Chosen(t)}]]
<1>1. VariablesOf(s) = S
  BY ScopeOfIs DEF VariablesOf, VarsOf, Vars
<1>2. IsFiniteSet(S) /\ S \in SUBSET Vars(function)
  <2>1. S \in SUBSET Vars(function)
    BY DEF VarsOf
  <2> QED
    BY <2>1, Sizes, FS_Subset
<1>3. sizeOfLocalVariables(s) = (CHOOSE iter : Raw(iter))[S]
  BY <1>1 DEF sizeOfLocalVariables, MapThenSumSet, MapThenFoldSet, Chosen
<1>4. \A t \in SUBSET S : t # {} => Chosen(t) \in t /\ g[Chosen(t)] = function[Chosen(t)].size
  BY <1>2, Sizes DEF Chosen
<1> HIDE DEF S, g
<1>5. ASSUME NEW iter PROVE Raw(iter) <=> Adds(g, S, iter)
  BY <1>4 DEF Adds
<1>6. \E iter : Raw(iter)
  BY <1>2, <1>5, SumUnfolds
<1> DEFINE it == CHOOSE iter : Raw(iter)
<1>7. Adds(g, S, it)
  <2>1. Raw(it)
    BY <1>6
  <2> QED
    BY <1>5, <2>1
<1> HIDE DEF it
<1>8. AllUnfold(g, S)
  BY <1>2, SumUnfolds, FS_Subset DEF AllUnfold
<1>9. it[S] = Sum(g, S)
  <2> HIDE DEF Raw
  <2>1. IsFiniteSet(S) /\ S \in SUBSET S
    BY <1>2
  <2> QED
    BY <1>7, <1>8, <2>1, OneSum
<1> QED
  BY <1>3, <1>9, Sizes DEF it, S, g

(* The sum over scopes that the specification writes in place.              *)
LEMMA SizeOfScopes ==
  ASSUME function \in FunctionBodies, NEW S \in SUBSET (1 .. Len(function))
  PROVE  MapThenSumSet(LAMBDA s : sizeOfLocalVariables(s), S) = Sum(ScopeSize(function), S)
<1> DEFINE g == ScopeSize(function)
           Raw(iter) == iter = [t \in SUBSET S |-> IF t = {} THEN 0
                                                   ELSE sizeOfLocalVariables(Chosen(t)) + iter[t \ {Chosen(t)}]]
<1>1. MapThenSumSet(LAMBDA s : sizeOfLocalVariables(s), S) = (CHOOSE iter : Raw(iter))[S]
  BY DEF MapThenSumSet, MapThenFoldSet, Chosen
<1>2. IsFiniteSet(S)
  BY Sizes, FS_Subset
<1>3. \A s \in S : g[s] = sizeOfLocalVariables(s)
  BY LocalSize
<1>4. \A t \in SUBSET S : t # {} => Chosen(t) \in t /\ g[Chosen(t)] = sizeOfLocalVariables(Chosen(t))
  BY <1>3 DEF Chosen
<1> HIDE DEF g
<1>5. ASSUME NEW iter PROVE Raw(iter) <=> Adds(g, S, iter)
  BY <1>4 DEF Adds
<1>6. \E iter : Raw(iter)
  BY <1>2, <1>5, SumUnfolds
<1> DEFINE it == CHOOSE iter : Raw(iter)
<1>7. Adds(g, S, it)
  <2>1. Raw(it)
    BY <1>6
  <2> QED
    BY <1>5, <2>1
<1>8. AllUnfold(g, S)
  BY <1>2, SumUnfolds, FS_Subset DEF AllUnfold
<1> HIDE DEF it, Raw
<1>9. it[S] = Sum(g, S)
  <2>1. IsFiniteSet(S) /\ S \in SUBSET S
    BY <1>2
  <2> QED
    BY <1>7, <1>8, <2>1, OneSum
<1> QED
  BY <1>1, <1>9 DEF it, g

(* The frame at a token is what its open scopes take.                       *)
LEMMA FrameIs ==
  ASSUME function \in FunctionBodies, at \in 1 .. Len(function)
  PROVE  Frame(at) = OpenSize(function, at)
<1> DEFINE S == OpenScopes(at) \cup OpenAtClosing(at)
<1>1. \A s \in ScopesIn(function) : s \in Opens(function) /\ s \in Nat /\ EndIn(function, s) \in Nat
                                   /\ 1 <= s /\ s < EndIn(function, s) /\ EndIn(function, s) <= Len(function)
  BY Parts DEF ScopesIn
<1>2. OpenScopes(at) = {s \in ScopesIn(function) : s < at /\ at < EndIn(function, s)}
  BY Operators
<1>3. OpenAtClosing(at) = {s \in ScopesIn(function) : EndIn(function, s) = at}
  <2>1. CASE Op \in {"endblock", "endinit"}
    <3>1. Opener \in Opens(function) /\ EndIn(function, Opener) = at /\ Op = ClosedBy[function[Opener].op]
      BY <2>1, OpenerIs, Words
    <3>2. Opener \in ScopesIn(function)
      BY <2>1, <3>1, Words DEF ScopesIn, Scopes, Opens
    <3>3. \A s \in ScopesIn(function) : EndIn(function, s) = at => s = Opener
      BY <1>1, <3>1, OneOpener
    <3>4. OpenAtClosing(at) = {Opener}
      BY <2>1 DEF OpenAtClosing, Op
    <3> QED
      BY <3>1, <3>2, <3>3, <3>4
  <2>2. CASE Op \notin {"endblock", "endinit"}
    <3>1. ASSUME NEW s \in ScopesIn(function), EndIn(function, s) = at PROVE FALSE
      <4>1. Op = ClosedBy[function[s].op] /\ function[s].op \in {"block", "init"}
        BY <1>1, <3>1, Parts DEF Op, ScopesIn, Scopes
      <4> QED
        BY <2>2, <4>1, Words
    <3>2. OpenAtClosing(at) = {}
      BY <2>2 DEF OpenAtClosing, Op
    <3> QED
      BY <3>1, <3>2
  <2> QED
    BY <2>1, <2>2
<1>4. S = OpenAt(function, at)
  <2>1. at \in Nat
    BY Tokens
  <2>2. \A s \in ScopesIn(function) :
          s \in OpenAt(function, at) <=> (s < at /\ at < EndIn(function, s)) \/ EndIn(function, s) = at
    BY <1>1, <2>1 DEF OpenAt, At
  <2>3. \A s \in S : s \in ScopesIn(function)
    BY <1>2, <1>3
  <2>4. \A s \in OpenAt(function, at) : s \in ScopesIn(function)
    BY DEF OpenAt, At
  <2>5. \A s \in ScopesIn(function) : s \in S <=> s \in OpenAt(function, at)
    BY <1>2, <1>3, <2>2
  <2> QED
    BY <2>3, <2>4, <2>5
<1>5. S \in SUBSET (1 .. Len(function))
  <2>1. \A s \in OpenAt(function, at) : s \in ScopesIn(function)
    BY DEF OpenAt, At
  <2> QED
    BY <1>1, <1>4, <2>1, Tokens
<1>6. Frame(at) = Sum(ScopeSize(function), S)
  BY <1>5, SizeOfScopes DEF Frame
<1> QED
  BY <1>4, <1>6 DEF OpenSize

-----------------------------------------------------------------------------
(* Insertion: the offset is what the visible variables take, and a variable *)
(* is put on top of those that are visible where it is declared.            *)
InsertedTo == IF status = "insert" THEN at
              ELSE IF status \in {"run", "returned"} THEN Len(function) + 1 ELSE 1
Placed ==
  /\ status = "validate" => stackOffset = 0
  /\ status = "insert" => stackOffset = Sum(Size(function), Visible(function, at))
  /\ \A v \in Vars(function) :
       v < InsertedTo => v \in DOMAIN accessor /\ accessor[v] = Place(function, v)

(* What was noted stays when the validator is done.                         *)
LEMMA ValidatedStays ==
  ASSUME Places, Validated, status \in {"insert", "run", "returned"}, status' \in {"insert", "run", "returned"},
         UNCHANGED <<function, contexts, loops, exits, hasError>>
  PROVE  Validated'
<1>1. SeenTo = Len(function) + 1 /\ SeenTo' = Len(function) + 1
  BY DEF SeenTo
<1> QED
  BY <1>1 DEF Validated

(* The validator inserts nothing, and the insertion begins with an empty    *)
(* frame.                                                                   *)
LEMMA InsertedBefore ==
  ASSUME Places, Placed, Validate
  PROVE  Placed'
<1>1. /\ UNCHANGED <<function, stackOffset, accessor>> /\ status = "validate"
      /\ \/ status' \in {"validate", "rejected", "crash"}
         \/ status' = "insert" /\ at' = 1
  BY DEF Validate, VisitScope, LeaveScope, VisitLoop, LeaveLoop, VisitForDeclaration, LeaveForDeclaration,
         VisitOther, VisitExitOutsideLoop, VisitExit, VisitExitThrows, VisitReturn, FinishValidation,
         Visited, Validating
<1>2. \A v \in Vars(function) : v \in Nat \ {0}
  BY VariablesInScopes DEF Places
<1>3. InsertedTo' = 1
  BY <1>1 DEF InsertedTo
<1>4. Visible(function, 1) = {}
  BY <1>2 DEF Visible
<1>5. status' = "insert" => stackOffset' = Sum(Size(function), Visible(function, at'))
  BY <1>1, <1>4, SumOfNone DEF Placed
<1>6. \A v \in Vars(function) : ~ (v < 1)
  BY <1>2
<1> QED
  BY <1>1, <1>3, <1>5, <1>6 DEF Placed

(* The insertion visits the tokens one by one and touches no state of the   *)
(* validator.                                                               *)
LEMMA InsertKeepsPlaces ==
  ASSUME Places, Insert
  PROVE  Places' /\ status = "insert" /\ status' \in {"insert", "run"}
         /\ UNCHANGED <<function, contexts, loops, exits, hasError, rsp>>
<1>1. /\ function \in FunctionBodies /\ Len(function) \in Nat /\ Len(function) > 1 /\ at \in Nat \ {0}
      /\ ~(status = "insert" /\ hasError)
  BY Tokens DEF Places
<1>2. CASE FinishInsertion
  <2>1. /\ status = "insert" /\ status' = "run" /\ at' = 1
        /\ UNCHANGED <<function, contexts, loops, exits, hasError, rsp>>
    BY <1>2 DEF FinishInsertion
  <2>2. at' \in Nat \ {0} /\ at' <= Len(function) /\ at' <= Len(function) + 1
    BY <1>1, <2>1
  <2> QED
    BY <1>1, <2>1, <2>2 DEF Places
<1>3. CASE InsertVariable \/ InsertScopeEnd \/ InsertNothing
  <2>1. status = "insert" /\ at <= Len(function) /\ at' = at + 1
        /\ UNCHANGED <<function, status, contexts, loops, exits, hasError, rsp>>
    BY <1>3 DEF InsertVariable, InsertScopeEnd, InsertNothing, Inserting, Inserted
  <2>2. at' \in Nat \ {0} /\ at' <= Len(function) + 1
    BY <1>1, <2>1
  <2> QED
    BY <1>1, <2>1, <2>2 DEF Places
<1> QED
  BY <1>2, <1>3 DEF Insert

(* It adds a variable to the offset where it is declared, and takes the     *)
(* variables of a scope off where the scope ends.                           *)
LEMMA InsertKeepsPlace ==
  ASSUME Places, Placed, Insert
  PROVE  Placed'
<1> DEFINE g == Size(function)
           A == Visible(function, at)
<1>1. /\ function \in FunctionBodies /\ at \in Nat \ {0} /\ Len(function) \in Nat /\ function' = function
      /\ status = "insert" /\ status' \in {"insert", "run"}
  BY InsertKeepsPlaces, Tokens DEF Places
<1>2. /\ stackOffset = Sum(g, A)
      /\ \A v \in Vars(function) : v < at => v \in DOMAIN accessor /\ accessor[v] = Place(function, v)
  BY <1>1 DEF Placed, InsertedTo
<1>3. \A v \in Vars(function) : v \in Nat /\ (v < at + 1 <=> v < at \/ v = at)
  BY <1>1, VariablesInScopes
<1>4. /\ IsFiniteSet(A) /\ A \in SUBSET Vars(function)
      /\ \A v \in Vars(function) : g[v] \in Nat /\ g[v] = function[v].size
  <2>1. A \in SUBSET Vars(function)
    BY DEF Visible
  <2> QED
    BY <1>1, <2>1, Sizes, FS_Subset
<1>5. CASE InsertVariable
  <2>1. /\ status' = "insert" /\ at' = at + 1 /\ at \in Vars(function) /\ at \in 1 .. Len(function)
        /\ stackOffset' = stackOffset + function[at].size
        /\ accessor' = [i \in DOMAIN accessor \cup {at} |-> IF i = at THEN stackOffset' ELSE accessor[i]]
    BY <1>1, <1>5 DEF InsertVariable, Inserting, Inserted, Vars, Op
  <2>2. stackOffset' = Place(function, at)
    BY <1>1, <1>2, <1>4, <2>1, PlaceIs
  <2>3. Visible(function, at + 1) = A \cup {at}
    BY <1>1, <2>1, VisibleNext
  <2>4. stackOffset' = Sum(g, Visible(function, at + 1))
    BY <2>2, <2>3 DEF Place
  <2>5. \A v \in Vars(function) : v < at + 1 => v \in DOMAIN accessor' /\ accessor'[v] = Place(function, v)
    BY <1>2, <1>3, <2>1, <2>2
  <2> QED
    BY <1>1, <2>1, <2>4, <2>5 DEF Placed, InsertedTo
<1>6. CASE InsertScopeEnd
  <2>1. /\ status' = "insert" /\ at' = at + 1 /\ Op \in {"endblock", "endinit"} /\ at \in 1 .. Len(function)
        /\ stackOffset' = stackOffset - sizeOfLocalVariables(Opener) /\ accessor' = accessor
    BY <1>1, <1>6 DEF InsertScopeEnd, Inserting, Inserted
  <2>2. /\ Opener \in ScopesIn(function) /\ EndIn(function, Opener) = at /\ Opener \in 1 .. Len(function)
    <3>1. Opener \in Opens(function) /\ EndIn(function, Opener) = at /\ Op = ClosedBy[function[Opener].op]
      BY <1>1, <2>1, OpenerIs, Words
    <3> QED
      BY <2>1, <3>1, Words DEF ScopesIn, Scopes, Opens
  <2>3. /\ Visible(function, at + 1) = A \ VarsOf(function, Opener)
        /\ VarsOf(function, Opener) \subseteq A
    BY <1>1, <2>1, <2>2, VisibleNext
  <2>4. sizeOfLocalVariables(Opener) = Sum(g, VarsOf(function, Opener))
    BY <1>1, <2>2, LocalSize, Sizes
  <2> DEFINE B == VarsOf(function, Opener)
  <2>5. B \in SUBSET A /\ \A v \in A : g[v] \in Nat
    BY <1>4, <2>3
  <2>6. stackOffset' = Sum(g, A) - Sum(g, B) /\ Visible(function, at + 1) = A \ B
    BY <1>2, <2>1, <2>3, <2>4
  <2> HIDE DEF A, B, g
  <2>7. Sum(g, A \ B) = Sum(g, A) - Sum(g, B)
    BY <1>4, <2>5, SumOfPart
  <2>8. stackOffset' = Sum(g, Visible(function, at + 1))
    BY <2>6, <2>7
  <2>9. at \notin Vars(function)
    BY <2>1 DEF Vars, Op
  <2>10. \A v \in Vars(function) : v < at + 1 => v \in DOMAIN accessor' /\ accessor'[v] = Place(function, v)
    BY <1>2, <1>3, <2>1, <2>9
  <2> QED
    BY <1>1, <2>1, <2>8, <2>10 DEF Placed, InsertedTo, g
<1>7. CASE InsertNothing
  <2>1. /\ status' = "insert" /\ at' = at + 1 /\ Op \notin {"var", "endblock", "endinit"} /\ at \in 1 .. Len(function)
        /\ UNCHANGED <<stackOffset, accessor>>
    BY <1>1, <1>7 DEF InsertNothing, Inserting, Inserted
  <2>2. Visible(function, at + 1) = A /\ at \notin Vars(function)
    BY <1>1, <2>1, VisibleNext DEF Op, Vars
  <2>3. \A v \in Vars(function) : v < at + 1 => v \in DOMAIN accessor' /\ accessor'[v] = Place(function, v)
    BY <1>2, <1>3, <2>1, <2>2
  <2> QED
    BY <1>1, <1>2, <2>1, <2>2, <2>3 DEF Placed, InsertedTo
<1>8. CASE FinishInsertion
  <2>1. status' = "run" /\ at > Len(function) /\ UNCHANGED accessor
    BY <1>8 DEF FinishInsertion
  <2>2. at = Len(function) + 1
    BY <1>1, <2>1 DEF Places
  <2> QED
    BY <1>1, <1>2, <2>1, <2>2 DEF Placed, InsertedTo
<1> QED
  BY <1>5, <1>6, <1>7, <1>8 DEF Insert

-----------------------------------------------------------------------------
(* The loops around a token are those whose heads are.                      *)
LEMMA LoopsAroundAre ==
  ASSUME function \in FunctionBodies, NEW i \in 1 .. Len(function), function[i].op \in Plain
  PROVE  LoopsAround(i) = LoopsAt(function, i)
<1>1. \A h \in HeadsIn(function) :
        h \in HeadsAt(function, i) <=> LoopOf(function, h) < i /\ i < EndIn(function, LoopOf(function, h))
  BY AroundPlain
<1>2. LoopsAround(i) = {l \in LoopsIn(function) : l < i /\ i < EndIn(function, l)}
  BY Operators DEF LoopsAround, Inside
<1>3. \A h \in HeadsAt(function, i) : h \in HeadsIn(function)
  BY OpenScopesAre
<1>4. ASSUME NEW l \in LoopsAround(i) PROVE l \in LoopsAt(function, i)
  <2>1. PICK h \in HeadsIn(function) : LoopOf(function, h) = l
    BY <1>2, HeadOfLoop
  <2> QED
    BY <1>1, <1>2, <2>1 DEF LoopsAt
<1>5. ASSUME NEW l \in LoopsAt(function, i) PROVE l \in LoopsAround(i)
  <2>1. PICK h \in HeadsAt(function, i) : l = LoopOf(function, h)
    BY DEF LoopsAt
  <2>2. l \in LoopsIn(function)
    BY <1>3, <2>1, Heads
  <2> QED
    BY <1>1, <1>2, <1>3, <2>1, <2>2
<1> QED
  BY <1>4, <1>5

(* No jump of a loop or an if changes the open scopes.                      *)
LEMMA JumpsKeepScopes ==
  ASSUME function \in FunctionBodies, at \in 1 .. Len(function),
         Op \in {"loop", "endloop", "if", "else", "endif", "var"}, NEW target \in Targets
  PROVE  target \in 1 .. Len(function) /\ OpenAt(function, target) = OpenAt(function, at)
<1> DEFINE f == function
           Same(t) == t \in 1 .. Len(f) /\ OpenAt(f, t) = OpenAt(f, at)
<1>1. Same(at + 1)
  BY PassesOver DEF Op
<1>2. CASE Op = "loop"
  <2>1. at \in LoopsIn(f)
    BY <1>2, Words DEF LoopsIn, Opens, Op
  <2>2. target = at + 1 \/ target = BreakLabel(at)
    BY <1>2 DEF Targets
  <2>3. BreakLabel(at) = EndIn(f, at) + 1
    BY Operators DEF BreakLabel
  <2> QED
    BY <1>1, <2>1, <2>2, <2>3, BehindLoop
<1>3. CASE Op = "endloop"
  <2>1. Opener \in Opens(f) /\ EndIn(f, Opener) = at /\ Op = ClosedBy[f[Opener].op]
    BY <1>3, OpenerIs, Words
  <2>2. Opener \in LoopsIn(f)
    BY <1>3, <2>1, Words DEF LoopsIn, Opens
  <2>3. Same(Opener)
    BY <2>1, <2>2, BehindLoop
  <2>4. target = at + 1 \/ target = Opener
    BY <1>3 DEF Targets
  <2> QED
    BY <1>1, <2>3, <2>4
<1>4. CASE Op = "if"
  <2>1. at \in Opens(f) /\ at \notin ScopesIn(f) /\ f[at].op = "if"
    BY <1>4, Words DEF ScopesIn, Scopes, Opens, Op
  <2>2. Same(End(at))
    BY <2>1, SameAtEnd, Operators
  <2>3. target = at + 1 \/ target = End(at) \/ \E j \in ElseIn(f, at) : target = j + 1
    BY <1>4 DEF Targets, ElseOf
  <2>4. ASSUME NEW j \in ElseIn(f, at), target = j + 1 PROVE Same(target)
    BY <2>1, <2>4, ElseStandsIn
  <2> QED
    BY <1>1, <2>2, <2>3, <2>4
<1>5. CASE Op = "else"
  <2>1. \E h \in 1 .. at : f[h].op = "if" /\ at \in ElseIn(f, h)
    BY <1>5, FunctionBodiesWellNested DEF WellNested, Op
  <2>2. IfOf(at) \in 1 .. at /\ f[IfOf(at)].op = "if" /\ at \in ElseIn(f, IfOf(at))
    BY <2>1 DEF IfOf, ElseOf
  <2>3. IfOf(at) \in Opens(f) /\ IfOf(at) \notin ScopesIn(f)
    BY <2>2, Words, Tokens DEF Opens, ScopesIn, Scopes
  <2>4. target = EndIn(f, IfOf(at))
    BY <1>5, Operators DEF Targets
  <2> QED
    BY <2>2, <2>3, <2>4, SameAtEnd, ElseStandsIn
<1>6. CASE Op \in {"endif", "var"}
  <2>1. target = at + 1
    BY <1>6 DEF Targets
  <2> QED
    BY <1>1, <2>1
<1> QED
  BY <1>2, <1>3, <1>4, <1>5, <1>6

-----------------------------------------------------------------------------
(* The code: rsp is below what the open scopes take, and control goes to a  *)
(* token of the function.                                                   *)
SkipsIn(f) ==
  \A i \in 1 .. Len(f) :
    f[i].op = "skip" /\ HeadsAt(f, i) # {} => f[InnerLoop(f, i)].kind = "fordecl"
Balanced ==
  /\ status \in {"validate", "insert"} => rsp = 0
  /\ BracedIn(function) /\ SkipsIn(function) =>
       /\ status = "run" => rsp = OpenSize(function, at)
       /\ status = "returned" => rsp = 0

(* What a break or skip that is executed finds in its node.                 *)
LEMMA ExitNoted ==
  ASSUME Places, Validated, status = "run", Op \in {"break", "skip"}
  PROVE  /\ HeadsAt(function, at) # {} /\ exits[at].loop = InnerLoop(function, at)
         /\ BracedIn(function) /\ (Op = "break" \/ KindOf(InnerLoop(function, at)) = "fordecl") =>
              exits[at].scopes = {s \in OpenAt(function, at) : s > InnerLoop(function, at)}
<1>1. SeenTo = Len(function) + 1 /\ ~hasError /\ at \in 1 .. Len(function) /\ Len(function) \in Nat
  BY Tokens DEF SeenTo, Places
<1>2. at \in 1 .. SeenTo - 1
  BY <1>1
<1>3. ExitRight(function, hasError, exits, at)
  BY <1>2 DEF Validated
<1> QED
  BY <1>1, <1>3 DEF ExitRight, Op, KindOf

(* Where a run goes.                                                        *)
LEMMA RunGoes ==
  ASSUME Places, Validated, Run
  PROVE  /\ function \in FunctionBodies /\ at \in 1 .. Len(function)
         /\ status = "run" /\ status' \in {"run", "returned"}
         /\ at' \in 1 .. Len(function)
         /\ UNCHANGED <<function, contexts, loops, exits, hasError, stackOffset, accessor>>
<1>1. /\ status = "run" /\ status' \in {"run", "returned"}
      /\ UNCHANGED <<function, contexts, loops, exits, hasError, stackOffset, accessor>>
  BY DEF Run, setupLocalVariables, ResetStackPointer, FallOffEnd, Proceed, Exit, Return, Running, Jump
<1>2. function \in FunctionBodies /\ at \in 1 .. Len(function) /\ Len(function) \in Nat
  BY <1>1, Tokens DEF Places
<1>3. CASE setupLocalVariables
  <2>1. Op \in Scopes /\ at' = at + 1
    BY <1>3 DEF setupLocalVariables, Running, Jump
  <2>2. at # Len(function)
    BY <1>2, <2>1, BodyIsAll DEF Op, Scopes
  <2> QED
    BY <1>1, <1>2, <2>1, <2>2
<1>4. CASE ResetStackPointer
  BY <1>1, <1>2, <1>4 DEF ResetStackPointer, Jump
<1>5. CASE FallOffEnd
  BY <1>1, <1>2, <1>5 DEF FallOffEnd
<1>6. CASE Proceed
  <2>1. Op \in {"loop", "endloop", "if", "else", "endif", "var"} /\ at' \in Targets
    BY <1>6 DEF Proceed, Running, Jump
  <2>2. at' \in 1 .. Len(function)
    BY <1>2, <2>1, JumpsKeepScopes
  <2> QED
    BY <1>1, <1>2, <2>2
<1>7. CASE Exit
  <2>1. /\ Op \in {"break", "skip"}
        /\ at' = (IF Op = "break" THEN BreakLabel(exits[at].loop) ELSE SkipLabel(exits[at].loop))
    BY <1>7 DEF Exit, Running, Jump
  <2> DEFINE l == InnerLoop(function, at)
  <2>2. HeadsAt(function, at) # {} /\ exits[at].loop = l
    BY <1>1, <2>1, ExitNoted
  <2>3. l \in LoopsIn(function)
    BY <1>2, <2>1, <2>2, ExitJumps DEF Op
  <2> HIDE DEF l
  <2>4. BreakLabel(l) \in 1 .. Len(function) /\ SkipLabel(l) \in 1 .. Len(function)
    BY <1>2, <2>3, BehindLoop, Operators DEF BreakLabel, SkipLabel
  <2> QED
    BY <1>1, <1>2, <2>1, <2>2, <2>4
<1>8. CASE Return
  BY <1>1, <1>2, <1>8 DEF Return
<1> QED
  BY <1>3, <1>4, <1>5, <1>6, <1>7, <1>8 DEF Run

(* In braces, and with a skip only in a for with a declaration, every step  *)
(* of the code moves rsp by what the open scopes take more or less.         *)
LEMMA RunKeepsBalance ==
  ASSUME Places, Validated, Balanced, Run, BracedIn(function), SkipsIn(function)
  PROVE  /\ status' = "run" => rsp' = OpenSize(function, at')
         /\ status' = "returned" => rsp' = 0
<1> DEFINE f == function
           g == ScopeSize(f)
<1>1. /\ f \in FunctionBodies /\ at \in 1 .. Len(f) /\ status = "run" /\ rsp = OpenSize(f, at) /\ rsp \in Nat
      /\ Len(f) \in Nat /\ at \in Nat
  <2>1. f \in FunctionBodies /\ at \in 1 .. Len(f) /\ status = "run"
    BY RunGoes
  <2>2. rsp = OpenSize(f, at) /\ OpenSize(f, at) \in Nat
    BY <2>1, OpenSizes DEF Balanced
  <2> QED
    BY <2>1, <2>2, Tokens
<1>2. BracedIn(f) /\ SkipsIn(f)
  OBVIOUS
<1>3. CASE setupLocalVariables
  <2>1. Op \in Scopes /\ at' = at + 1 /\ status' = "run" /\ rsp' = rsp + sizeOfLocalVariables(at)
    BY <1>1, <1>3 DEF setupLocalVariables, Running, Jump
  <2>2. OpenSize(f, at + 1) = OpenSize(f, at) + g[at]
    BY <1>1, <2>1, SizeOfNextScope DEF Op
  <2>3. sizeOfLocalVariables(at) = g[at]
    BY <1>1, LocalSize
  <2> QED
    BY <1>1, <2>1, <2>2, <2>3
<1>4. CASE ResetStackPointer \/ FallOffEnd
  <2>1. Op \in {"endblock", "endinit"} /\ rsp' = rsp - sizeOfLocalVariables(Opener)
    BY <1>4 DEF ResetStackPointer, FallOffEnd, Running
  <2>2. Opener \in ScopesIn(f) /\ EndIn(f, Opener) = at /\ Opener \in 1 .. Len(f) /\ Opener \in Opens(f)
    <3>1. Opener \in Opens(f) /\ EndIn(f, Opener) = at /\ Op = ClosedBy[f[Opener].op]
      BY <1>1, <2>1, OpenerIs, Words
    <3> QED
      BY <2>1, <3>1, Words DEF ScopesIn, Scopes, Opens
  <2>3. rsp' = OpenSize(f, at) - g[Opener]
    BY <1>1, <2>1, <2>2, LocalSize
  <2>4. CASE ResetStackPointer
    <3>1. at' = at + 1 /\ status' = "run"
      BY <1>1, <2>4 DEF ResetStackPointer, Jump
    <3>2. OpenSize(f, at + 1) = OpenSize(f, at) - g[Opener]
      BY <1>1, <2>2, SizeWithoutLastScope
    <3> QED
      BY <2>3, <3>1, <3>2
  <2>5. CASE FallOffEnd
    <3>1. at = Len(f) /\ status' = "returned"
      BY <2>5 DEF FallOffEnd
    <3>2. Opener = 1
      BY <1>1, <2>2, <3>1, BodyIsAll, OneOpener
    <3>3. OpenSize(f, at) = g[1] /\ OpenSize(f, at) \in Nat
      BY <1>1, <3>1, SizesAtEnds
    <3>4. rsp' = 0
      BY <2>3, <3>2, <3>3
    <3> QED
      BY <3>1, <3>4
  <2> QED
    BY <1>4, <2>4, <2>5
<1>5. CASE Proceed
  <2>1. /\ Op \in {"loop", "endloop", "if", "else", "endif", "var"} /\ at' \in Targets /\ rsp' = rsp
        /\ status' = "run"
    BY <1>1, <1>5 DEF Proceed, Running, Jump
  <2>2. OpenAt(f, at') = OpenAt(f, at)
    BY <1>1, <2>1, JumpsKeepScopes
  <2> QED
    BY <1>1, <2>1, <2>2 DEF OpenSize
<1>6. CASE Exit
  <2> DEFINE l == InnerLoop(f, at)
  <2>1. /\ Op \in {"break", "skip"} /\ status' = "run" /\ rsp' = rsp - ContainedSize
        /\ at' = (IF Op = "break" THEN BreakLabel(exits[at].loop) ELSE SkipLabel(exits[at].loop))
    BY <1>1, <1>6 DEF Exit, Running, Jump
  <2>2. HeadsAt(f, at) # {} /\ exits[at].loop = l
    BY <1>1, <2>1, ExitNoted
  <2>3. l \in LoopsIn(f) /\ OpenAt(f, l) = {s \in OpenAt(f, at) : s < l} /\ l \in Nat /\ l \notin ScopesIn(f)
    <3>1. l \in LoopsIn(f) /\ OpenAt(f, l) = {s \in OpenAt(f, at) : s < l}
      BY <1>1, <2>1, <2>2, ExitJumps DEF Op
    <3>2. l \in 1 .. Len(f) /\ l \notin ScopesIn(f)
      BY <1>1, <3>1, BehindLoop
    <3> QED
      BY <3>1, <3>2
  <2>4. Op = "break" \/ KindOf(l) = "fordecl"
    <3> SUFFICES ASSUME Op = "skip" PROVE KindOf(l) = "fordecl"
      BY <2>1
    <3> QED
      BY <1>1, <1>2, <2>2 DEF SkipsIn, Op, KindOf
  <2>5. exits[at].scopes = {s \in OpenAt(f, at) : s > l}
    BY <1>1, <1>2, <2>1, <2>4, ExitNoted
  <2>6. /\ OpenAt(f, BreakLabel(l)) = OpenAt(f, l) /\ OpenAt(f, SkipLabel(l)) = OpenAt(f, l)
    BY <1>1, <2>3, BehindLoop, Operators DEF BreakLabel, SkipLabel
  <2> HIDE DEF l
  <2>7. OpenAt(f, at') = OpenAt(f, l)
    BY <2>1, <2>2, <2>6
  <2>8. ContainedSize = Sum(g, {s \in OpenAt(f, at) : s > l})
    <3> DEFINE S == {s \in OpenAt(f, at) : s > l}
    <3>1. S \in SUBSET (1 .. Len(f))
      BY <1>1, OpenSizes
    <3>2. ContainedSize = MapThenSumSet(LAMBDA s : sizeOfLocalVariables(s), S)
      BY <2>5 DEF ContainedSize
    <3> HIDE DEF S
    <3>3. ContainedSize = Sum(g, S)
      BY <1>1, <3>1, <3>2, SizeOfScopes
    <3> QED
      BY <3>3 DEF S
  <2>9. OpenSize(f, at) - Sum(g, {s \in OpenAt(f, at) : s > l}) = OpenSize(f, at')
    <3>1. OpenAt(f, at') = {s \in OpenAt(f, at) : s < l}
      BY <2>3, <2>7
    <3> QED
      BY <1>1, <2>3, <3>1, SizeBefore
  <2> QED
    BY <1>1, <2>1, <2>8, <2>9
<1>7. CASE Return
  <2>1. Op = "return" /\ status' = "returned" /\ rsp' = rsp - ContainedSize
    BY <1>7 DEF Return, Running
  <2>2. exits[at].scopes = OpenAt(f, at)
    <3>1. at \in 1 .. SeenTo - 1
      BY <1>1 DEF SeenTo
    <3>2. ExitRight(f, hasError, exits, at)
      BY <1>1, <3>1 DEF Validated
    <3> QED
      BY <2>1, <3>2 DEF ExitRight, Op
  <2>3. ContainedSize = OpenSize(f, at)
    <3> DEFINE S == OpenAt(f, at)
    <3>1. S \in SUBSET (1 .. Len(f))
      BY <1>1, OpenSizes
    <3>2. ContainedSize = MapThenSumSet(LAMBDA s : sizeOfLocalVariables(s), S)
      BY <2>2 DEF ContainedSize
    <3> HIDE DEF S
    <3>3. ContainedSize = Sum(g, S)
      BY <1>1, <3>1, <3>2, SizeOfScopes
    <3> QED
      BY <3>3 DEF S, OpenSize
  <2>4. rsp' = 0
    BY <1>1, <2>1, <2>3
  <2> QED
    BY <2>1, <2>4
<1> QED
  BY <1>3, <1>4, <1>5, <1>6, <1>7 DEF Run

(* SkipsOnlyForDeclarations, of the specification, is SkipsIn.              *)
LEMMA SkipsMean ==
  ASSUME function \in FunctionBodies, SkipsOnlyForDeclarations
  PROVE  SkipsIn(function)
<1> SUFFICES ASSUME NEW i \in 1 .. Len(function), function[i].op = "skip"
             PROVE  function[InnerLoop(function, i)].kind = "fordecl"
  BY DEF SkipsIn
<1>1. KindOf(Max(LoopsAround(i))) = "fordecl"
  BY DEF SkipsOnlyForDeclarations
<1>2. LoopsAround(i) = LoopsAt(function, i)
  BY LoopsAroundAre DEF Plain
<1> QED
  BY <1>1, <1>2 DEF InnerLoop, KindOf

-----------------------------------------------------------------------------
(* The inductive invariant.                                                 *)
IInv == Places /\ Validated /\ Placed /\ Balanced

(* It holds in the beginning                                                *)
LEMMA IInvAtFirst == Init => IInv
<1> SUFFICES ASSUME Init PROVE IInv
  OBVIOUS
<1>1. Places /\ Validated
  BY ValidatedAtFirst
<1>2. status = "validate" /\ stackOffset = 0 /\ rsp = 0 /\ function \in FunctionBodies
  BY DEF Init
<1>3. \A v \in Vars(function) : ~ (v < 1)
  BY <1>2, VariablesInScopes
<1>4. Placed
  BY <1>2, <1>3 DEF Placed, InsertedTo
<1>5. Balanced
  BY <1>2 DEF Balanced
<1> QED
  BY <1>1, <1>4, <1>5 DEF IInv

(* and every step keeps it.                                                 *)
LEMMA IInvKept == IInv /\ [Next]_vars => IInv'
<1> SUFFICES ASSUME IInv, [Next]_vars PROVE IInv'
  OBVIOUS
<1>1. Places /\ Validated /\ Placed /\ Balanced
  BY DEF IInv
<1>2. CASE Validate
  <2>1. Places' /\ Validated' /\ Placed'
    BY <1>1, <1>2, ValidateKeeps, InsertedBefore
  <2>2. rsp' = rsp /\ status = "validate" /\ status' \notin {"run", "returned"}
    BY <1>2 DEF Validate, VisitScope, LeaveScope, VisitLoop, LeaveLoop, VisitForDeclaration, LeaveForDeclaration,
         VisitOther, VisitExitOutsideLoop, VisitExit, VisitExitThrows, VisitReturn, FinishValidation,
         Visited, Validating
  <2>3. Balanced'
    BY <1>1, <2>2 DEF Balanced
  <2> QED
    BY <2>1, <2>3 DEF IInv
<1>3. CASE Insert
  <2>1. /\ Places' /\ status = "insert" /\ status' \in {"insert", "run"}
        /\ UNCHANGED <<function, contexts, loops, exits, hasError, rsp>>
    BY <1>1, <1>3, InsertKeepsPlaces
  <2>2. Validated'
    BY <1>1, <2>1, ValidatedStays
  <2>3. Placed'
    BY <1>1, <1>3, InsertKeepsPlace
  <2>4. status' = "run" => at' = 1
    BY <1>3, <2>1 DEF Insert, InsertVariable, InsertScopeEnd, InsertNothing, FinishInsertion, Inserted
  <2>5. OpenSize(function, 1) = 0
    BY <1>1, SizesAtEnds DEF Places
  <2>6. Balanced'
    BY <1>1, <2>1, <2>4, <2>5 DEF Balanced
  <2> QED
    BY <2>1, <2>2, <2>3, <2>6 DEF IInv
<1>4. CASE Run
  <2>1. /\ status = "run" /\ status' \in {"run", "returned"} /\ at' \in 1 .. Len(function)
        /\ UNCHANGED <<function, contexts, loops, exits, hasError, stackOffset, accessor>>
    BY <1>1, <1>4, RunGoes
  <2>2. Places'
    <3>1. Len(function) \in Nat
      BY <1>1, Tokens DEF Places
    <3> QED
      BY <1>1, <2>1, <3>1 DEF Places
  <2>3. Validated'
    BY <1>1, <2>1, ValidatedStays
  <2>4. Placed'
    BY <1>1, <2>1 DEF Placed, InsertedTo
  <2>5. Balanced'
    BY <1>1, <1>4, <2>1, RunKeepsBalance DEF Balanced
  <2> QED
    BY <2>2, <2>3, <2>4, <2>5 DEF IInv
<1>5. CASE UNCHANGED vars
  BY <1>1, <1>5 DEF IInv, vars, Places, Validated, SeenTo, Placed, InsertedTo, Balanced
<1> QED
  BY <1>2, <1>3, <1>4, <1>5 DEF Next

(* The contexts, the loops, the notes, the offsets and rsp are what IInv    *)
(* says, in every state of every function body.                             *)
THEOREM InvariantHolds == Spec => []IInv
<1> QED
  BY IInvAtFirst, IInvKept, PTL DEF Spec

(* A function whose nested loops are in braces is rejected exactly if it    *)
(* has a break or skip outside of a loop (SemanticValidator::visit of       *)
(* AstBreak and AstSkip).                                                   *)
THEOREM BreaksAccepted == Spec => []ExitsAccepted
<1>1. IInv => ExitsAccepted
  <2> SUFFICES ASSUME IInv, Braced, status \in {"insert", "run", "rejected"}
               PROVE  hasError <=> \E i \in 1 .. Len(function) :
                                     function[i].op \in {"break", "skip"} /\ LoopsAround(i) = {}
    BY DEF ExitsAccepted
  <2>1. function \in FunctionBodies /\ Len(function) \in Nat /\ SeenTo - 1 = Len(function)
    BY Tokens DEF IInv, Places, SeenTo
  <2>2. hasError <=> \E i \in 1 .. Len(function) : OutsideLoop(function, i)
    <3>1. ErrorRight(function, hasError, SeenTo)
      BY DEF IInv, Validated
    <3>2. BracedIn(function)
      BY <2>1, BracedMeans
    <3> QED
      BY <2>1, <3>1, <3>2 DEF ErrorRight
  <2>3. ASSUME NEW i \in 1 .. Len(function), function[i].op \in {"break", "skip"}
        PROVE  LoopsAround(i) = {} <=> HeadsAt(function, i) = {}
    <3>1. LoopsAround(i) = LoopsAt(function, i)
      BY <2>1, <2>3, LoopsAroundAre DEF Plain
    <3> QED
      BY <3>1 DEF LoopsAt
  <2> QED
    BY <2>2, <2>3 DEF OutsideLoop
<1> QED
  BY <1>1, InvariantHolds, PTL

(* Whatever the function is, two visible variables have no byte of the      *)
(* frame in common, and none is outside of what the open scopes have        *)
(* allocated (VariableSizeInserter and setupLocalVariables).                *)
THEOREM NoOverlap == Spec => []VariablesDisjoint
<1>1. IInv => VariablesDisjoint
  <2> SUFFICES ASSUME IInv, status = "run", NEW v \in VisibleVariables(at)
               PROVE  /\ accessor[v] <= Frame(at)
                      /\ \A w \in VisibleVariables(at) : v < w => accessor[v] <= accessor[w] - function[w].size
    BY DEF VariablesDisjoint
  <2> DEFINE f == function
             g == Size(f)
  <2>1. /\ f \in FunctionBodies /\ at \in 1 .. Len(f) /\ at \in Nat /\ Len(f) \in Nat
        /\ \A u \in Vars(f) : accessor[u] = Place(f, u)
    <3>1. f \in FunctionBodies /\ at \in 1 .. Len(f)
      BY DEF IInv, Places
    <3>2. \A u \in Vars(f) : u < InsertedTo
      BY <3>1, VariablesInScopes, Tokens DEF InsertedTo
    <3> QED
      BY <3>1, <3>2, Tokens DEF IInv, Placed
  <2>2. ASSUME NEW u \in VisibleVariables(at)
        PROVE  u \in Vars(f) /\ u < at /\ Innermost(f, u) \in OpenAt(f, at) /\ u \in Nat
    <3>1. u \in Vars(f) /\ u < at /\ u \in Nat /\ ScopeOf(u) \in OpenScopes(at)
      BY <2>1 DEF VisibleVariables, Vars
    <3>2. Innermost(f, u) \in OpenScopes(at)
      BY <2>1, <3>1, ScopeOfIs
    <3>3. \A s \in ScopesIn(f) : EndIn(f, s) \in Nat
      BY <2>1, Parts DEF ScopesIn
    <3>4. Innermost(f, u) \in OpenAt(f, at)
      BY <2>1, <3>2, <3>3, Operators DEF OpenAt, At
    <3> QED
      BY <3>1, <3>4
  <2>3. IsFiniteSet(Vars(f)) /\ \A x \in Vars(f) : g[x] \in Nat /\ g[x] = f[x].size
    BY <2>1, Sizes
  <2> DEFINE P == Visible(f, v) \cup {v}
  <2>4. accessor[v] = Sum(g, P) /\ v \in Vars(f)
    BY <2>1, <2>2 DEF Place
  <2>5. accessor[v] <= Frame(at)
    <3> DEFINE A == {x \in Vars(f) : Innermost(f, x) \in OpenAt(f, at)}
    <3>1. P \in SUBSET A
      <4>1. \A u \in P : u \in Visible(f, at)
        BY <2>1, <2>2, VisibleGrows
      <4> QED
        BY <4>1 DEF Visible
    <3>2. A \in SUBSET Vars(f)
      OBVIOUS
    <3>3. Frame(at) = Sum(g, A)
      BY <2>1, FrameIs, OpenSizeIs
    <3> HIDE DEF A, P, g
    <3>4. IsFiniteSet(A) /\ \A x \in A : g[x] \in Nat
      BY <2>3, <3>2, FS_Subset
    <3>5. Sum(g, P) <= Sum(g, A)
      BY <3>1, <3>4, SumOfPart
    <3> QED
      BY <2>4, <3>3, <3>5
  <2>6. ASSUME NEW w \in VisibleVariables(at), v < w PROVE accessor[v] <= accessor[w] - f[w].size
    <3> DEFINE A == Visible(f, w)
    <3>1. w \in Vars(f) /\ w \in Nat /\ v \in Nat
      BY <2>2, <2>6
    <3>2. Innermost(f, v) \in OpenAt(f, w)
      <4>1. /\ Innermost(f, v) \in ScopesIn(f) /\ Innermost(f, v) \in Nat /\ Innermost(f, v) < v
            /\ w < at /\ at <= EndIn(f, Innermost(f, v)) /\ EndIn(f, Innermost(f, v)) \in Nat
        <5>1. Innermost(f, v) \in OpenAt(f, at) /\ Innermost(f, v) \in OpenAt(f, v) /\ w < at
          BY <2>1, <2>2, <2>6, VariablesInScopes
        <5> QED
          BY <2>1, <5>1, OpenScopesAre, Parts
      <4> QED
        BY <2>1, <2>6, <3>1, <4>1 DEF OpenAt, At
    <3>3. P \in SUBSET A
      <4>1. \A u \in P : u \in Visible(f, w)
        BY <2>1, <2>4, <2>6, <3>1, <3>2, VisibleGrows
      <4> QED
        BY <4>1
    <3>4. A \in SUBSET Vars(f)
      BY DEF Visible
    <3>5. accessor[w] = Sum(g, A) + g[w] /\ g[w] \in Nat /\ Sum(g, A) \in Nat
      BY <2>1, <3>1, PlaceIs
    <3>8. g[w] = f[w].size
      BY <2>3, <3>1
    <3> HIDE DEF A, P, g
    <3>6. IsFiniteSet(A) /\ \A x \in A : g[x] \in Nat
      BY <2>3, <3>4, FS_Subset
    <3>7. Sum(g, P) <= Sum(g, A)
      BY <3>3, <3>6, SumOfPart
    <3>9. accessor[w] - g[w] = Sum(g, A)
      BY <3>5
    <3> QED
      BY <2>4, <3>7, <3>8, <3>9
  <2> QED
    BY <2>5, <2>6
<1> QED
  BY <1>1, InvariantHolds, PTL

(* Wherever the code of a function with braces and without a skip in other  *)
(* loops is, by whatever path, rsp is below its first value by exactly the  *)
(* open scopes (NASMCodeGenerator and the notes of the validator).          *)
THEOREM StackIsBalanced == Spec => []StackBalancedIfBraced
<1>1. IInv => StackBalancedIfBraced
  <2> SUFFICES ASSUME IInv, Braced, SkipsOnlyForDeclarations PROVE StackBalanced
    BY DEF StackBalancedIfBraced
  <2>1. function \in FunctionBodies
    BY DEF IInv, Places
  <2>2. BracedIn(function) /\ SkipsIn(function)
    BY <2>1, BracedMeans, SkipsMean
  <2>3. status = "run" => Frame(at) = OpenSize(function, at)
    <3>1. status = "run" => at \in 1 .. Len(function)
      BY DEF IInv, Places
    <3> QED
      BY <2>1, <3>1, FrameIs
  <2> QED
    BY <2>2, <2>3 DEF IInv, Balanced, StackBalanced
<1> QED
  BY <1>1, InvariantHolds, PTL
===============================================================================
