------------------------------- MODULE Assembly -------------------------------
(****************************************************************************)
(* What the code of a function runs on, whatever the processor: byte-wise   *)
(* memory with a stack, and the words in it.                                *)
(****************************************************************************)
EXTENDS CodeGenerator

CONSTANTS
  Bottom,      \* the end of the stack: what is pushed first lies below it
  StackSize    \* how far it may grow down

Stack == Bottom - StackSize .. Bottom - 1
ASSUME \A v \in DOMAIN Address : \A i \in 0 .. 7 : Address[v] + i \notin Stack

Modulus == Values(8)

(* What is left in a register or in memory by others.                       *)
Leftover == Modulus - 2
LeftByte == ByteValues - 1

Byte(bytes, a) == IF a \in DOMAIN bytes THEN bytes[a] ELSE LeftByte
Load(bytes, address, size) ==
  FoldFunction(+, 0, [i \in 0 .. size - 1 |-> Values(i) * Byte(bytes, address + i)])

Store(bytes, address, size, x) ==
  [a \in address .. address + size - 1 |-> (x \div Values(a - address)) % ByteValues] @@ bytes

(* An argument of the function, in a register whose other bytes are in use. *)
Passed(function, i) ==
  LET size == SizeOfType(function.types[function.parameters[i]])
  IN function.inputs[i] + (IF size < 8 THEN Values(size) ELSE 0)

(* Globals with a value are in .data, the others in .bss.                   *)
GlobalData(function) ==
  FoldSet(LAMBDA v, bytes : Store(bytes, Address[v], 8, Globals(function)[v]), <<>>, DOMAIN function.globals)

(* A callee may leave anything below the stack pointer.                     *)
AboveStackPointer(bytes, stackPointer) == Restrict(bytes, {a \in DOMAIN bytes : a \notin Stack \/ a >= stackPointer})

-----------------------------------------------------------------------------
(* Nodes of which the value is tested for zero.                             *)
TestedForZero(node) ==
  CASE node.node \in {"AstConditionalStatement", "AstConditionalExpression", "AstForLoop", "AstWhileLoop", "AstDoWhileLoop"} ->
         {node.condition}
    [] node.node = "AstUnary" /\ node.type = "LOGICAL_NOT"                  -> {node.value}
    [] node.node = "AstBinary" /\ node.type \in {"LogicalAnd", "LogicalOr"} -> {node.left, node.right}
    [] OTHER                                                                -> {}

(* A skip in a loop without a variable of its own leaves the body's scope   *)
(* on the stack, see ScopeCleanup.                                          *)
RECURSIVE SkipsIn(_)
SkipsIn(node) ==
  \/ node.node = "AstSkip"
  \/ node.node \notin {"AstForLoop", "AstWhileLoop", "AstDoWhileLoop"} /\ \E child \in Children(node) : SkipsIn(child)

LeavesScope(node) ==
  /\ \/ node.node \in {"AstWhileLoop", "AstDoWhileLoop"}
     \/ node.node = "AstForLoop" /\ node.initialization.node # "AstVariableDeclaration"
  /\ SkipsIn(node.body)
  /\ \E item \in Children(node.body) : item.node = "AstVariableDeclaration"

(* What an instruction takes for operands of one size has that size.        *)
OperandsAgreeIn(function) ==
  \A node \in Nodes(function.body) :
    /\ node.node = "AstBinary" =>
         SizeOfType(node.left.semanticType) = SizeOfType(node.right.semanticType)
    /\ node.node = "AstReturn" => SizeOfType(node.value.semanticType) = SizeOfType(function.returns)
    /\ node.node = "AstVariableDeclaration" /\ node.value # NoNode =>
         SizeOfType(node.value.semanticType) = SizeOfType(function.types[node.variable])
    /\ node.node = "AstConditionalExpression" =>
         SizeOfType(node.trueExpression.semanticType) = SizeOfType(node.falseExpression.semanticType)
    /\ node.node = "AstFunctionCall" =>
         \A i \in DOMAIN node.arguments :
           SizeOfType(node.arguments[i].semanticType) = SizeOfType(function.functions[node.function].parameters[i])
===============================================================================
