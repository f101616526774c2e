--------------------------------- MODULE RSI ---------------------------------
(****************************************************************************)
(* R-Sharp Intermediate code: the instruction list of one function, as      *)
(* RSIGenerator leaves it and the RSI passes rewrite it                     *)
(* (compiler/include/R-Sharp/backend/RSI_FWD.hpp, RSI.hpp).                 *)
(*                                                                          *)
(* An operand is a reference (a virtual register), a label, or something    *)
(* the analyses do not look at: a constant, a global or nothing at all.     *)
(* Those last three are the single value None.  SET_LIVE stands for the two *)
(* instructions that emit no code and only announce that their result is    *)
(* already in its register, SET_LIVE itself and LOAD_PARAMETER.  Every type *)
(* that is not listed behaves the same for liveness and register            *)
(* allocation: it is an OPERATION.                                          *)
(****************************************************************************)
EXTENDS Naturals, Sequences

CONSTANTS
  References,   \* the virtual registers (RSI::Reference)
  Labels,       \* the jump targets (RSI::Label)
  None          \* std::monostate, or an operand that is no reference

ASSUME OperandKinds ==
  /\ References \cap Labels = {}
  /\ None \notin References \cup Labels

InstructionType ==
  {"OPERATION", "SET_LIVE", "RETURN", "JUMP", "JUMP_IF_ZERO", "DEFINE_LABEL"}

Operand == References \cup Labels \cup {None}

Instruction ==
  [type : InstructionType, result : References \cup {None}, op1 : Operand, op2 : Operand]

Instr(type, result, op1, op2) == [type |-> type, result |-> result, op1 |-> op1, op2 |-> op2]

(* What an instruction writes and reads.                                    *)
Defs(instr) == {instr.result} \cap References
Uses(instr) == {instr.op1, instr.op2} \cap References

IsJump(instr) == instr.type \in {"JUMP", "JUMP_IF_ZERO"}

(* The jump instruction names the label that the other instruction defines. *)
JumpsTo(jump, target) ==
  /\ IsJump(jump)
  /\ target.type = "DEFINE_LABEL"
  /\ target.op1 \in {jump.op1, jump.op2}

Positions(code) == 1 .. Len(code)

(* The instructions control may reach next when code is executed: a JUMP    *)
(* has no fall-through and a RETURN no successor.                           *)
Successors(code, i) ==
  {j \in Positions(code) :
     \/ JumpsTo(code[i], code[j])
     \/ j = i + 1 /\ code[i].type \notin {"JUMP", "RETURN"}}

(****************************************************************************)
(* The functions the generator and the passes produce: labels occur only    *)
(* where an instruction expects one, a label that is jumped to is defined   *)
(* exactly once, control flow has no result, and the function ends in the   *)
(* RETURN that RSIGenerator appends.                                    *)
(****************************************************************************)
WellFormedInstruction(instr) ==
  /\ instr.type \notin {"OPERATION", "SET_LIVE"} => instr.result = None
  /\ instr.type \in {"SET_LIVE", "RETURN", "JUMP", "DEFINE_LABEL"} => instr.op2 = None
  /\ instr.type = "SET_LIVE" => instr.op1 = None
  /\ instr.op1 \in Labels <=> instr.type \in {"JUMP", "DEFINE_LABEL"}
  /\ instr.op2 \in Labels <=> instr.type = "JUMP_IF_ZERO"

WellFormedFunction(code) ==
  /\ code \in Seq(Instruction) /\ Len(code) > 0
  /\ \A i \in Positions(code) : WellFormedInstruction(code[i])
  /\ \A i, j \in Positions(code) :
       code[i].type = "DEFINE_LABEL" /\ code[j].type = "DEFINE_LABEL" /\ code[i].op1 = code[j].op1 => i = j
  /\ \A i \in Positions(code) :
       IsJump(code[i]) => \E j \in Positions(code) : JumpsTo(code[i], code[j])
  /\ code[Len(code)].type = "RETURN"

(****************************************************************************)
(* Modules that keep the operations of RSI and other operands: the analyses *)
(* see OPERATIONs, SET_LIVEs and control flow, references and labels.       *)
(****************************************************************************)
AbstractType(instr) ==
  CASE instr.type = "LOAD_PARAMETER"  -> "SET_LIVE"
    [] instr.type \in InstructionType -> instr.type
    [] OTHER                          -> "OPERATION"

AbstractOperand(instr, x) ==
  IF x \in References \/ (x \in Labels /\ instr.type # "CALL") THEN x ELSE None

Abstraction(code) ==
  [i \in Positions(code) |->
     Instr(AbstractType(code[i]), code[i].result,
           AbstractOperand(code[i], code[i].op1), AbstractOperand(code[i], code[i].op2))]
==============================================================================
