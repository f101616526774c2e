---------------------------- MODULE MCRSILiveness ----------------------------
(* Two families of functions for RSILiveness.                               *)
EXTENDS RSILiveness

CONSTANTS a, b, l1, l2

Op(result, operand) == [type |-> "OPERATION", result |-> result, op1 |-> operand, op2 |-> None]
Ret(operand)        == [type |-> "RETURN", result |-> None, op1 |-> operand, op2 |-> None]
Jmp(label)          == [type |-> "JUMP", result |-> None, op1 |-> label, op2 |-> None]
Jmpz(operand, label) == [type |-> "JUMP_IF_ZERO", result |-> None, op1 |-> operand, op2 |-> label]
Defl(label)         == [type |-> "DEFINE_LABEL", result |-> None, op1 |-> label, op2 |-> None]

Refs == {a, b}
TwoLabels == {l1, l2}

Ops == {Op(r, o) : r, o \in Refs \cup {None}} \ {Op(None, None)}
Alphabet == Ops \cup {Jmpz(r, l1) : r \in Refs} \cup {Jmp(l1), Defl(l1), Ret(None)}

(* Every function of five instructions over two references and one label    *)
(* that jumps somewhere; without a jump only the fall-through edges count.   *)
(* a and b are interchangeable, so nothing is lost by returning only a.     *)
ShortFunctions ==
  {f \in {<<i, j, k, l, Ret(r)>> : i, j, k, l \in Alphabet, r \in {a, None}} :
     (\E p \in 1 .. 4 : IsJump(f[p])) /\ WellFormedFunction(f)}

(* Functions with two labels and two conditional jumps in every textual     *)
(* order: nested loops, crossing loops, forward and backward branches.      *)
Skeleton == {Defl(l1), Defl(l2), Jmpz(a, l1), Jmpz(b, l2)}
Orders == {s \in [1 .. 4 -> Skeleton] : \A i, j \in 1 .. 4 : i # j => s[i] # s[j]}
LoopFunctions ==
  {<<Op(a, None), x, s[1], s[2], y, s[3], s[4], Ret(b)>> :
     x \in {Op(b, a), Op(None, b)}, y \in {Op(a, b), Op(b, a), Op(a, None)}, s \in Orders}

AllFunctions == ShortFunctions \cup LoopFunctions
==============================================================================
