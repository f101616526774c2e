----------------------------- MODULE RSIGenerator -----------------------------
(****************************************************************************)
(* RSIGenerator (compiler/src/backend/RSIGenerator.cpp): the translation of *)
(* a function from its syntax tree to RSI.                                  *)
(*                                                                          *)
(* The tree is that of SemanticTypes; types are ignored.  Operands are as   *)
(* in RSIPasses, and a generated label is <<"label", name, n>>.             *)
(*                                                                          *)
(* Every visit takes the state of the generator, a record g, and returns    *)
(* the state it leaves:                                                     *)
(*   code       the instructions of the function that is generated          *)
(*   last       lastResult                  expects   expectedValueType     *)
(*   accessor   the operand that every variable visited so far has          *)
(*   slots      the references that were given a stack slot                 *)
(*   created    the counter behind makeStringUnique                         *)
(*   skipLabel, breakLabel   those of the loop that is visited              *)
(*   refused    whether Fatal was called                                    *)
(* Arrays and arithmetic with pointers, where the generator calls           *)
(* Fatal("Not implemented!"), have no nodes here.                           *)
(****************************************************************************)
EXTENDS RSI, SemanticTypes

Constant(n) == <<"const", n>>

NewReference(g, name, k) == <<"ref", name, g.created + k>>
NewLabel(g, name, k) == <<"label", name, g.created + k>>

(* n new names have been made.                                              *)
Named(g, n) == [g EXCEPT !.created = @ + n]

Emit(g, instr) == [g EXCEPT !.code = Append(@, instr), !.last = instr.result]

Define(g, label) == Emit(g, Instr("DEFINE_LABEL", None, label, None))
Jump(g, label)   == Emit(g, Instr("JUMP", None, label, None))
JumpIfZero(g, x, label) == Emit(g, Instr("JUMP_IF_ZERO", None, x, label))
Move(g, result, x) == Emit(g, Instr("MOVE", result, x, None))

(* An instruction with a new reference as its result.                       *)
EmitNew(g, type, op1, op2) ==
  Emit(Named(g, 1), Instr(type, NewReference(g, "tmp", 0), op1, op2))

Expecting(g, valueType) == [g EXCEPT !.expects = valueType]
ExpectValueType(g, valueType) == [g EXCEPT !.refused = @ \/ g.expects # valueType]

RECURSIVE Visit(_, _)

VisitAll(nodes, g) == FoldLeft(LAMBDA h, node : Visit(node, h), g, nodes)

-----------------------------------------------------------------------------
(* Statements.  The cleanup of scopes that AstReturn, AstBreak and AstSkip  *)
(* ask for emits nothing, since references live in no stack frame yet.      *)
VisitReturn(node, g) ==
  LET value == Visit(node.value, Expecting(g, "Value"))
  IN Emit(value, Instr("RETURN", None, value.last, None))

VisitConditionalStatement(node, g) ==
  LET else == NewLabel(g, "else", 0)
      end  == NewLabel(g, "end", 1)
      condition == Visit(node.condition, Named(g, 2))
      true == Visit(node.trueStatement, JumpIfZero(condition, condition.last, else))
  IN Define(Visit(node.falseStatement, Define(Jump(true, end), else)), end)

(* The labels of a loop are those of break and skip inside it.              *)
Enter(g, skip, break) == [g EXCEPT !.skipLabel = skip, !.breakLabel = break]
Leave(g, outer) == [g EXCEPT !.skipLabel = outer.skipLabel, !.breakLabel = outer.breakLabel]

(* A slip, for mutation: skip goes back to the condition.                   *)
VisitForLoopSkippingIncrement(node, g) ==
  LET start == NewLabel(g, "start", 0)
      end   == NewLabel(g, "end", 1)
      increment == NewLabel(g, "increment", 2)
      initialization == Visit(node.initialization, Enter(Named(g, 3), start, end))
      condition == Visit(node.condition, Define(initialization, start))
      body == Visit(node.body, JumpIfZero(condition, condition.last, end))
      step == Visit(node.increment, Define(body, increment))
  IN Leave(Define(Jump(step, start), end), g)

VisitForLoop(node, g) ==
  LET start == NewLabel(g, "start", 0)
      end   == NewLabel(g, "end", 1)
      increment == NewLabel(g, "increment", 2)
      initialization == Visit(node.initialization, Enter(Named(g, 3), increment, end))
      condition == Visit(node.condition, Define(initialization, start))
      body == Visit(node.body, JumpIfZero(condition, condition.last, end))
      step == Visit(node.increment, Define(body, increment))
  IN Leave(Define(Jump(step, start), end), g)

VisitWhileLoop(node, g) ==
  LET start == NewLabel(g, "start", 0)
      end   == NewLabel(g, "end", 1)
      condition == Visit(node.condition, Define(Enter(Named(g, 2), start, end), start))
      body == Visit(node.body, JumpIfZero(condition, condition.last, end))
  IN Leave(Define(Jump(body, start), end), g)

VisitDoWhileLoop(node, g) ==
  LET start == NewLabel(g, "start", 0)
      end   == NewLabel(g, "end", 1)
      body == Visit(node.body, Define(Enter(Named(g, 2), start, end), start))
      condition == Visit(node.condition, body)
  IN Leave(Define(Jump(JumpIfZero(condition, condition.last, end), start), end), g)

VisitExpressionStatement(node, g) == Visit(node.expression, Expecting(g, "Value"))

(* A local variable: the reference exists only behind its value.            *)
VisitVariableDeclaration(node, g) ==
  LET value == IF node.value = NoNode THEN [g EXCEPT !.expects = "Value", !.last = Constant(0)]
               ELSE Visit(node.value, Expecting(g, "Value"))
      reference == NewReference(value, node.variable, 0)
  IN Move([Named(value, 1) EXCEPT !.accessor = (node.variable :> reference) @@ @], reference, value.last)

-----------------------------------------------------------------------------
(* Expressions.                                                             *)
VisitUnary(node, g) ==
  LET value == Visit(node.value, ExpectValueType(g, "Value"))
  IN EmitNew(value, node.type, value.last, None)

VisitLogicalOr(node, g) ==
  LET left == Visit(node.left, g)
      end == NewLabel(left, "logical_or_end", 0)
      right == NewLabel(left, "logical_or_right", 1)
      result == NewReference(left, "result", 2)
      short == Jump(Move(JumpIfZero(Named(left, 3), left.last, right), result, Constant(1)), end)
      value == Visit(node.right, Define(short, right))
  IN [Define(Emit(value, Instr("NOT_EQUAL", result, value.last, Constant(0))), end) EXCEPT !.last = result]

VisitLogicalAnd(node, g) ==
  LET left == Visit(node.left, g)
      end == NewLabel(left, "logical_and_end", 0)
      right == NewLabel(left, "logical_and_right", 1)
      result == NewReference(left, "tmp", 2)
      isZero == NewReference(left, "tmp", 3)
      test == Emit(Named(left, 4), Instr("EQUAL", isZero, left.last, Constant(0)))
      short == Jump(Move(JumpIfZero(test, isZero, right), result, Constant(0)), end)
      value == Visit(node.right, Define(short, right))
  IN [Define(Emit(value, Instr("NOT_EQUAL", result, value.last, Constant(0))), end) EXCEPT !.last = result]

(* The left operand is remembered as an operand, not as a value.            *)
VisitBinary(node, g) ==
  CASE node.type = "LogicalOr"  -> VisitLogicalOr(node, g)
    [] node.type = "LogicalAnd" -> VisitLogicalAnd(node, g)
    [] OTHER -> LET left == Visit(node.left, g)
                    right == Visit(node.right, left)
                IN ExpectValueType(EmitNew(right, node.type, left.last, right.last), "Value")

VisitInteger(node, g) == [ExpectValueType(g, "Value") EXCEPT !.last = Constant(node.constant)]

VisitEmptyExpression(g) == [ExpectValueType(g, "Value") EXCEPT !.last = Constant(1)]

VisitVariableAccess(node, g) ==
  LET accessor == g.accessor[node.variable]
  IN CASE g.expects = "Address" ->
            EmitNew([g EXCEPT !.slots = @ \cup ({accessor} \cap References)], "ADDRESS_OF", accessor, None)
       [] accessor \in References -> [g EXCEPT !.last = accessor]
       [] OTHER -> EmitNew(g, "LOAD_GLOBAL", accessor, None)

(* Stores have no result, so that lastResult is None behind them.           *)
VisitAssignment(node, g) ==
  LET value == Visit(node.rvalue, Expecting(ExpectValueType(g, "Value"), "Value"))
      address == Visit(node.lvalue, Expecting(value, "Address"))
  IN CASE node.lvalue.node = "AstDereference" ->
            Emit(Expecting(address, "Value"), Instr("STORE_MEMORY", None, address.last, value.last))
       [] value.accessor[node.lvalue.variable] \in References ->
            Move(value, value.accessor[node.lvalue.variable], value.last)
       [] OTHER -> Emit(value, Instr("STORE_GLOBAL", None, value.accessor[node.lvalue.variable], value.last))

(* A slip, for mutation: only the first branch moves its value.             *)
VisitConditionalExpressionMovingOnce(node, g) ==
  LET false == NewLabel(g, "false_expression", 0)
      end == NewLabel(g, "end", 1)
      result == NewReference(g, "tmp", 2)
      condition == Visit(node.condition, Named(ExpectValueType(g, "Value"), 3))
      first == Visit(node.trueExpression, JumpIfZero(condition, condition.last, false))
      second == Visit(node.falseExpression, Define(Jump(Move(first, result, first.last), end), false))
  IN [Define(second, end) EXCEPT !.last = result]

VisitConditionalExpression(node, g) ==
  LET false == NewLabel(g, "false_expression", 0)
      end == NewLabel(g, "end", 1)
      result == NewReference(g, "tmp", 2)
      condition == Visit(node.condition, Named(ExpectValueType(g, "Value"), 3))
      first == Visit(node.trueExpression, JumpIfZero(condition, condition.last, false))
      second == Visit(node.falseExpression, Define(Jump(Move(first, result, first.last), end), false))
  IN [Define(Move(second, result, second.last), end) EXCEPT !.last = result]

(* Every argument is stored as soon as it is evaluated.                     *)
VisitArgument(node, g) ==
  LET value == Visit(node, Expecting(g, "Value"))
  IN Emit(value, Instr("STORE_PARAMETER", None, value.last, None))

VisitFunctionCall(node, g) ==
  LET arguments == FoldLeft(LAMBDA h, argument : VisitArgument(argument, h),
                            ExpectValueType(g, "Value"), node.arguments)
  IN EmitNew(arguments, "CALL", <<"label", node.function>>, Constant(Len(node.arguments)))

VisitAddressOf(node, g) ==
  Expecting(Visit(node.operand, Expecting(ExpectValueType(g, "Value"), "Address")), "Value")

(* As an address a dereference is the value of its operand.                 *)
VisitDereference(node, g) ==
  IF g.expects = "Value"
  THEN LET pointer == Visit(node.operand, g) IN EmitNew(pointer, "LOAD_MEMORY", pointer.last, None)
  ELSE Visit(node.operand, Expecting(g, "Value"))

Visit(node, g) ==
  CASE node.node = "AstBlock"                -> VisitAll(node.items, g)
    [] node.node = "AstReturn"               -> VisitReturn(node, g)
    [] node.node = "AstConditionalStatement" -> VisitConditionalStatement(node, g)
    [] node.node = "AstForLoop"              -> VisitForLoop(node, g)
    [] node.node = "AstWhileLoop"            -> VisitWhileLoop(node, g)
    [] node.node = "AstDoWhileLoop"          -> VisitDoWhileLoop(node, g)
    [] node.node = "AstBreak"                -> Jump(g, g.breakLabel)
    [] node.node = "AstSkip"                 -> Jump(g, g.skipLabel)
    [] node.node = "AstExpressionStatement"  -> VisitExpressionStatement(node, g)
    [] node.node = "AstVariableDeclaration"  -> VisitVariableDeclaration(node, g)
    [] node.node = "AstUnary"                -> VisitUnary(node, g)
    [] node.node = "AstBinary"               -> VisitBinary(node, g)
    [] node.node = "AstInteger"              -> VisitInteger(node, g)
    [] node.node = "AstEmptyExpression"      -> VisitEmptyExpression(g)
    [] node.node = "AstVariableAccess"       -> VisitVariableAccess(node, g)
    [] node.node = "AstAssignment"           -> VisitAssignment(node, g)
    [] node.node = "AstConditionalExpression" -> VisitConditionalExpression(node, g)
    [] node.node = "AstFunctionCall"         -> VisitFunctionCall(node, g)
    [] node.node = "AstAddressOf"            -> VisitAddressOf(node, g)
    [] node.node = "AstDereference"          -> VisitDereference(node, g)
    [] node.node = "AstTypeConversion"       -> Visit(node.value, g)
    [] OTHER                                 -> g

-----------------------------------------------------------------------------
(* A parameter: its reference is loaded at the beginning of the function.   *)
VisitParameter(g, variable, index) ==
  LET reference == NewReference(g, variable, 0)
  IN Emit([Named(g, 1) EXCEPT !.accessor = (variable :> reference) @@ @],
          Instr("LOAD_PARAMETER", reference, Constant(index), None))

(* The data behind a global variable: its value, or zero without one.       *)
DefineGlobalData(value) == IF value = NoNode THEN 0 ELSE value.constant

(* A function behind the declarations of the global variables.              *)
VisitFunctionDefinition(function) ==
  LET begin == [code |-> <<Instr("DEFINE_LABEL", None, <<"label", "f">>, None),
                           Instr("FUNCTION_BEGIN", None, None, None)>>,
                last |-> None, expects |-> "Value",
                accessor |-> [x \in DOMAIN function.globals |-> <<"global", x>>],
                slots |-> {}, created |-> 0, skipLabel |-> None, breakLabel |-> None, refused |-> FALSE]
      parameters == FoldLeftDomain(LAMBDA g, i : VisitParameter(g, function.parameters[i], i - 1),
                                   begin, function.parameters)
  IN Emit(Visit(function.body, parameters), Instr("RETURN", None, Constant(0), None))
==============================================================================
