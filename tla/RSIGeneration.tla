---------------------------- MODULE RSIGeneration ----------------------------
(****************************************************************************)
(* The code that RSIGenerator makes of a function, run instruction by       *)
(* instruction beside the meaning of the syntax tree.                       *)
(*                                                                          *)
(* RSI has one size of integers, so the functions that are run have no      *)
(* other: all their variables are i64 or pointers.                          *)
(****************************************************************************)
EXTENDS RSIGenerator, SyntaxTree

CONSTANTS
  Sources,     \* the functions
  MaxCalls     \* how many calls the code makes before it is stopped

VARIABLES
  source,      \* the function
  generated,   \* what VisitFunctionDefinition returns
  at,          \* the instruction that runs next
  memory,      \* the values of references and globals
  arguments,   \* the arguments stored for calls to come
  calls,       \* calls made, with their arguments
  outcome      \* <<>> while the function runs, then what it has returned

vars == <<source, generated, at, memory, arguments, calls, outcome>>

code == generated.code

-----------------------------------------------------------------------------
(* The generated code.                                                      *)
Undefined == Values(8)

ValueOf(x) ==
  CASE x[1] = "const"      -> x[2]
    [] x \in DOMAIN memory -> memory[x]
    [] OTHER               -> Undefined

Init ==
  /\ source \in {s \in {Validated(f) : f \in Sources} : IsAccepted(s)}
  /\ generated = VisitFunctionDefinition(source)
  /\ at = 1
  /\ memory = [g \in {<<"global", v>> : v \in DOMAIN source.globals} |-> DefineGlobalData(source.globals[g[2]])]
  /\ arguments = <<>>
  /\ calls = <<>>
  /\ outcome = <<>>

Cell(address) == generated.accessor[VariableAt(address)]

(* The place an instruction writes and what it writes there.                *)
Target(instr) ==
  CASE instr.type = "STORE_GLOBAL" -> instr.op1
    [] instr.type = "STORE_MEMORY" -> Cell(ValueOf(instr.op1))
    [] OTHER                       -> instr.result

Written(instr) ==
  CASE instr.type \in {"MOVE", "LOAD_GLOBAL"}           -> ValueOf(instr.op1)
    [] instr.type \in {"STORE_GLOBAL", "STORE_MEMORY"}  -> ValueOf(instr.op2)
    [] instr.type = "LOAD_MEMORY"                       -> ValueOf(Cell(ValueOf(instr.op1)))
    [] instr.type = "LOAD_PARAMETER"                    -> source.inputs[instr.op1[2] + 1]
    [] instr.type = "ADDRESS_OF"                        -> Address[instr.op1[2]]
    [] instr.op2 = None                                 -> Compute(Values(8), instr.type, ValueOf(instr.op1), 0)
    [] OTHER                                            -> Compute(Values(8), instr.type, ValueOf(instr.op1), ValueOf(instr.op2))

Control == {"JUMP", "JUMP_IF_ZERO", "DEFINE_LABEL", "FUNCTION_BEGIN", "STORE_PARAMETER", "CALL", "RETURN"}

Running == outcome = <<>> /\ ~generated.refused

ExecuteOperation ==
  /\ Running /\ code[at].type \notin Control
  /\ memory' = (Target(code[at]) :> Written(code[at])) @@ memory
  /\ at' = at + 1
  /\ UNCHANGED <<source, generated, arguments, calls, outcome>>

StoreParameter ==
  /\ Running /\ code[at].type = "STORE_PARAMETER"
  /\ arguments' = Append(arguments, ValueOf(code[at].op1))
  /\ at' = at + 1
  /\ UNCHANGED <<source, generated, memory, calls, outcome>>

Call ==
  /\ Running /\ code[at].type = "CALL" /\ Len(calls) < MaxCalls
  /\ LET n == code[at].op2[2]
     IN /\ calls' = Append(calls, <<code[at].op1[2], SubSeq(arguments, Len(arguments) - n + 1, Len(arguments))>>)
        /\ arguments' = SubSeq(arguments, 1, Len(arguments) - n)
  /\ memory' = (code[at].result :> Answer(calls') % Values(8)) @@ memory
  /\ at' = at + 1
  /\ UNCHANGED <<source, generated, outcome>>

Goes(i, j) ==
  IF code[i].type = "JUMP" \/ (code[i].type = "JUMP_IF_ZERO" /\ ValueOf(code[i].op1) = 0)
  THEN JumpsTo(code[i], code[j])
  ELSE j = i + 1

Proceed ==
  /\ Running /\ code[at].type \in {"JUMP", "JUMP_IF_ZERO", "DEFINE_LABEL", "FUNCTION_BEGIN"}
  /\ \E j \in Positions(code) : Goes(at, j) /\ at' = j
  /\ UNCHANGED <<source, generated, memory, arguments, calls, outcome>>

Return ==
  /\ Running /\ code[at].type = "RETURN"
  /\ outcome' = <<ValueOf(code[at].op1)>>
  /\ UNCHANGED <<source, generated, at, memory, arguments, calls>>

Next == ExecuteOperation \/ StoreParameter \/ Call \/ Proceed \/ Return

Spec == Init /\ [][Next]_vars

-----------------------------------------------------------------------------
(****************************************************************************)
(* Trees of which the code is known to differ, see the README:              *)
(*  - the left operand is a variable that the right operand assigns,        *)
(*  - the value of an assignment to a global or through a pointer is used,  *)
(*  - a skip belongs to a do-while loop.                                    *)
(****************************************************************************)
(* The local variable whose reference stands for the value of an operand.   *)
RECURSIVE NamedBy(_)
NamedBy(node) ==
  CASE node.node = "AstVariableAccess"                              -> {node.variable}
    [] node.node = "AstAssignment" /\ node.lvalue.node = "AstVariableAccess" -> {node.lvalue.variable}
    [] node.node = "AstTypeConversion"                              -> NamedBy(node.value)
    [] OTHER                                                        -> {}

AddressTaken(function) ==
  {node.operand.variable : node \in {m \in Nodes(function.body) :
                                        m.node = "AstAddressOf" /\ m.operand.node = "AstVariableAccess"}}

AssignedIn(function, node) ==
  UNION {IF m.lvalue.node = "AstVariableAccess" THEN {m.lvalue.variable} ELSE AddressTaken(function) :
           m \in {o \in Nodes(node) : o.node = "AstAssignment"}} \ DOMAIN function.globals

DisturbsLeft(function, node) ==
  \/ /\ node.node = "AstBinary"
     /\ NamedBy(node.left) \cap AssignedIn(function, node.right) # {}
  \/ /\ node.node = "AstAssignment"
     /\ NamedBy(node.rvalue) \cap AssignedIn(function, node.lvalue) # {}

IsStore(function, node) ==
  /\ node.node = "AstAssignment"
  /\ node.lvalue.node = "AstDereference" \/ node.lvalue.variable \in DOMAIN function.globals

(* Where the value of a child is not used.                                  *)
Discards(node, child) ==
  \/ node.node = "AstExpressionStatement"
  \/ node.node = "AstForLoop" /\ child # node.condition

UsesStore(function, node) ==
  \E child \in Children(node) : IsStore(function, child) /\ ~Discards(node, child)

RECURSIVE SkipsIn(_)
SkipsIn(node) ==
  \/ node.node = "AstSkip"
  \/ node.node \notin {"AstForLoop", "AstWhileLoop", "AstDoWhileLoop"} /\ \E child \in Children(node) : SkipsIn(child)

Differs(function) ==
  \E node \in Nodes(function.body) :
    \/ DisturbsLeft(function, node)
    \/ UsesStore(function, node)
    \/ node.node = "AstDoWhileLoop" /\ SkipsIn(node.body)

-----------------------------------------------------------------------------
HasOperands(instr) ==
  CASE instr.type \in {"DEFINE_LABEL", "FUNCTION_BEGIN", "JUMP"} -> TRUE
    [] instr.type \in {"JUMP_IF_ZERO", "RETURN", "STORE_PARAMETER"} -> instr.op1 # None
    [] OTHER -> instr.op1 # None /\ (instr.type \in {"STORE_GLOBAL", "STORE_MEMORY"} => instr.op2 # None)

(* The instructions that can be reached from those in S, in the sense of    *)
(* the liveness analysis, before anything is written to a reference.        *)
RECURSIVE ReachedWithout(_, _)
ReachedWithout(reference, S) ==
  LET open == {i \in S : reference \notin Defs(code[i])}
      further == {j \in Positions(code) : \E i \in open : j = i + 1 \/ JumpsTo(code[i], code[j])}
  IN IF further \subseteq S THEN S ELSE ReachedWithout(reference, S \cup further)

(* Safety: the code has the form that the passes and analyses assume: jumps *)
(* have exactly one target, every operation has its operands, and the       *)
(* sanity check of main.cpp finds nothing live at the beginning.            *)
GeneratedIsAccepted ==
  at = 1 /\ ~Differs(source) =>
    /\ ~generated.refused
    /\ WellFormedFunction(Abstraction(code))
    /\ \A i \in Positions(code) : HasOperands(code[i])
    /\ \A r \in UNION {Uses(code[i]) : i \in Positions(code)} :
         \A i \in ReachedWithout(r, {1}) : r \notin Uses(code[i])

GlobalValue(v) == memory[<<"global", v>>]
==============================================================================
