---------------------------- MODULE NASMGenerator ----------------------------
(****************************************************************************)
(* NASMCodeGenerator (compiler/src/backend/NASMCodeGenerator.cpp): the      *)
(* x86_64 text of a function, apart from arrays.                            *)
(*                                                                          *)
(* Every expression leaves its value in rax, of which as many bytes count   *)
(* as its type has; the others hold whatever the instructions leave there.  *)
(* "imul" and "idiv" stand for the forms of the size of their operand,      *)
(* "idiv" together with the sign extension printed before it.               *)
(****************************************************************************)
EXTENDS CodeGenerator

RAX == Reg("rax", 8)
RBX == Reg("rbx", 8)
RBP == Reg("rbp", 8)
RSP == Reg("rsp", 8)
R12 == Reg("r12", 8)

IsZero == Op2("cmp", RAX, Number(0))
SetTruth(condition) == <<Op2("mov", RAX, Number(0)), Op1(condition, Reg("rax", 1))>>

CalleeSaved == <<"rbx", "rbp", "r12", "r13", "r14", "r15">>
ArgumentRegisters == <<"rdi", "rsi", "rdx", "rcx", "r8", "r9">>

RECURSIVE Visit(_, _)

-----------------------------------------------------------------------------
(* Expressions.                                                             *)
UnaryCode == [NEGATE |-> <<Op1("neg", RAX)>>, BINARY_NOT |-> <<Op1("not", RAX)>>,
              LOGICAL_NOT |-> <<IsZero>> \o SetTruth("sete")]

VisitUnary(node, g) == EmitAll(Visit(node.value, ExpectValueType(g, "Value")), UnaryCode[node.type])

Conditions == [EQUAL |-> "sete", NOT_EQUAL |-> "setne", LESS_THAN |-> "setl", LESS_THAN_OR_EQUAL |-> "setle",
               GREATER_THAN |-> "setg", GREATER_THAN_OR_EQUAL |-> "setge"]

(* A number that is added to a pointer is multiplied by the size of what    *)
(* the pointer leads to; one that is subtracted, by that of the pointer.    *)
Scaling(node) ==
  LET l == node.left.semanticType
      r == node.right.semanticType
      size(type) == IF node.type = "ADD" THEN SizeOfType(type.subtype) ELSE SizeOfType(type)
  IN CASE IsPointer(l) -> <<Op2("imul", RBX, Number(size(l)))>>
       [] ~IsPointer(l) /\ IsPointer(r) -> <<Op2("imul", RAX, Number(size(r)))>>
       [] OTHER -> <<>>

BinaryCode(node) ==
  LET leftSize == SizeOfType(node.left.semanticType)
      a == Reg("rax", leftSize)
      b == Reg("rbx", leftSize)
  IN CASE node.type = "ADD"      -> Scaling(node) \o <<Op2("add", RAX, RBX)>>
       [] node.type = "SUBTRACT" -> Scaling(node) \o <<Op2("sub", RAX, RBX)>>
       [] node.type = "MULTIPLY" -> <<Op2("imul", RAX, RBX)>>
       [] node.type = "DIVIDE"   -> <<Op1("idiv", b)>>
       [] node.type = "MODULO"   -> <<Op1("idiv", b), Op2("mov", RAX, Reg("rdx", 8))>>
       [] OTHER -> <<Op2("cmp", a, b), Op1(Conditions[node.type], Reg("rax", 1)),
                     Op2("movzx", Reg("rax", 4), Reg("rax", 1))>>

(* A slip, for mutation: rbx is not safe from what the right operand does.  *)
VisitOperandsInRegisters(node, g) ==
  LET left == EmitAll(Visit(node.left, g), <<Op2("mov", RBX, RAX)>>)
  IN EmitAll(Visit(node.right, left), <<Op1("push", RBX), Op2("mov", RBX, RAX), Op1("pop", RAX)>>)

VisitOperands(node, g) ==
  LET left == EmitAll(Visit(node.left, g), <<Op1("push", RAX)>>)
  IN EmitAll(Visit(node.right, left), <<Op2("mov", RBX, RAX), Op1("pop", RAX)>>)

VisitLogicalAnd(node, g) ==
  LET left == ExpectValueType(Visit(node.left, g), "Value")
      second == NewLabel(left, 0)
      end == NewLabel(left, 1)
      test == EmitAll(Labelled(left, 2), <<IsZero, Op1("jne", second), Op1("jmp", end), Op1("label", second)>>)
  IN EmitAll(Visit(node.right, test), <<IsZero>> \o SetTruth("setne") \o <<Op1("label", end)>>)

VisitLogicalOr(node, g) ==
  LET left == ExpectValueType(Visit(node.left, g), "Value")
      second == NewLabel(left, 0)
      end == NewLabel(left, 1)
      test == EmitAll(Labelled(left, 2), <<IsZero, Op1("je", second), Op2("mov", RAX, Number(1)), Op1("jmp", end),
                                          Op1("label", second)>>)
  IN EmitAll(Visit(node.right, test), <<IsZero>> \o SetTruth("setne") \o <<Op1("label", end)>>)

VisitBinary(node, g) ==
  CASE node.type = "LogicalAnd" -> VisitLogicalAnd(node, g)
    [] node.type = "LogicalOr"  -> VisitLogicalOr(node, g)
    [] OTHER -> LET operands == VisitOperands(node, g)
                IN EmitAll(IF Scaling(node) = <<>> \/ node.type \notin {"ADD", "SUBTRACT"}
                           THEN ExpectValueType(operands, "Value") ELSE operands, BinaryCode(node))

VisitInteger(node, g) == EmitAll(ExpectValueType(g, "Value"), <<Op2("mov", RAX, Number(node.constant))>>)

VisitEmptyExpression(g) == EmitAll(ExpectValueType(g, "Value"), <<Op2("mov", RAX, Number(1))>>)

VisitAssignment(node, g) ==
  LET size == SizeOfType(node.lvalue.semanticType)
      value == EmitAll(Visit(node.rvalue, Expecting(ExpectValueType(g, "Value"), "Value")), <<Op1("push", RAX)>>)
      place == Expecting(Visit(node.lvalue, Expecting(value, "Address")), "Value")
  IN EmitAll(place, <<Op1("pop", RBX), Op2("mov", At("rax", 0, size), Reg("rbx", size)), Op2("mov", RAX, RBX)>>)

VisitConditionalExpression(node, g) ==
  LET false == NewLabel(g, 1)
      end == NewLabel(g, 2)
      condition == Visit(node.condition, Labelled(ExpectValueType(g, "Value"), 3))
      true == Visit(node.trueExpression,
                    EmitAll(condition, <<IsZero, Op1("je", false), Op1("label", NewLabel(g, 0))>>))
  IN EmitAll(Visit(node.falseExpression, EmitAll(true, <<Op1("jmp", end), Op1("label", false)>>)),
             <<Op1("label", end)>>)

(* The stack is aligned to 16 bytes, and r12 is how far that moved it.      *)
AlignedCall(function, types) ==
  <<Op2("mov", R12, RSP), Op2("sub", RSP, Number(16)), Op2("and", RSP, Number(-16)), Op2("sub", R12, RSP),
    [op |-> "call", to |-> function, from |-> types], Op2("add", RSP, R12)>>

VisitArgument(argument, g) ==
  EmitAll(Visit(argument, Expecting(g, "Value")), <<Op1("push", RAX)>>)

VisitFunctionCall(node, g) ==
  LET registers == SubSeq(ArgumentRegisters, 1, Len(node.arguments))
      types == [i \in DOMAIN node.arguments |-> node.arguments[i].semanticType]
      saved == EmitAll(ExpectValueType(g, "Value"), PushAll(registers))
      arguments == FoldLeft(LAMBDA h, argument : VisitArgument(argument, h), saved, node.arguments)
  IN IF Len(node.arguments) > Len(ArgumentRegisters) THEN [g EXCEPT !.refused = TRUE]
     ELSE EmitAll(arguments, PopAll(registers) \o AlignedCall(node, types) \o PopAll(registers))

VisitAddressOf(node, g) ==
  Expecting(Visit(node.operand, Expecting(ExpectValueType(g, "Value"), "Address")), "Value")

(* The sign is kept when a value grows, the upper bytes are cleared when it *)
(* shrinks.                                                                 *)
VisitTypeConversion(node, g) ==
  LET originSize == SizeOfType(node.value.semanticType)
      targetSize == SizeOfType(node.semanticType)
      value == Visit(node.value, g)
  IN CASE value.expects = "Address" \/ targetSize = originSize -> value
       [] targetSize > originSize ->
            EmitAll(value, <<Op2("movsx", Reg("rax", targetSize), Reg("rax", originSize))>>)
       [] OTHER -> EmitAll(value, <<Op2("mov", RBX, Number(Values(targetSize) - 1)), Op2("and", RAX, RBX)>>)

PlaceOf(g, variable, size) ==
  IF variable \in DOMAIN g.accessor THEN At("rbp", -g.accessor[variable], size) ELSE Data(variable, size)

(* Only the instructions with 4 or 8 bytes write the whole register.        *)
VisitVariableAccess(node, g) ==
  LET size == SizeOfType(node.semanticType)
      place == PlaceOf(g, node.variable, IF g.expects = "Value" THEN size ELSE 8)
  IN CASE g.expects = "Address" -> EmitAll(g, <<Op2("lea", RAX, place)>>)
       [] size \in {4, 8}       -> EmitAll(g, <<Op2("mov", Reg("rax", size), place)>>)
       [] OTHER                 -> EmitAll(g, <<Op2("xor", Reg("rax", 4), Reg("rax", 4)), Op2("mov", Reg("rax", size), place)>>)

(* As an address a dereference is the value of its operand.                 *)
VisitDereference(node, g) ==
  LET size == SizeOfType(node.semanticType)
  IN IF g.expects = "Value"
     THEN EmitAll(Visit(node.operand, g),
                  <<Op2("mov", Reg("rax", size), At("rax", 0, size)),
                    Op2("mov", RBX, Number(Values(size) - 1)), Op2("and", RAX, RBX)>>)
     ELSE Visit(node.operand, Expecting(g, "Value"))

-----------------------------------------------------------------------------
(* Statements.                                                              *)
SetupLocalVariables(g, size) == [EmitAll(g, <<Op2("sub", RSP, Number(size))>>) EXCEPT !.scopes = Append(@, size)]
ResetStackPointer(g, outer, size) ==
  [Outside(EmitAll(g, <<Op2("add", RSP, Number(size))>>), outer) EXCEPT !.offset = @ - size]

VisitBlock(node, g) ==
  LET size == SizeOfLocalVariables(g, node.items)
  IN ResetStackPointer(FoldLeft(LAMBDA h, item : Visit(item, h), SetupLocalVariables(g, size), node.items), g, size)

Cleanup(sizes) == [i \in DOMAIN sizes |-> Op2("add", RSP, Number(Reverse(sizes)[i]))]

Epilogue == PopAll(CalleeSaved)

(* A slip, for mutation: only the innermost block is left.                  *)
VisitReturnFromBlock(node, g) ==
  LET value == Visit(node.value, Expecting(g, "Value"))
  IN EmitAll(value, <<Op2("add", RSP, Number(Last(g.scopes)))>> \o Epilogue \o <<Op1("ret", RAX)>>)

VisitReturn(node, g) ==
  LET value == Visit(node.value, Expecting(g, "Value"))
  IN EmitAll(value, Cleanup(g.scopes) \o Epilogue \o <<Op1("ret", RAX)>>)

VisitConditionalStatement(node, g) ==
  LET else == NewLabel(g, 0)
      end == NewLabel(g, 1)
      condition == EmitAll(Visit(node.condition, Labelled(g, 2)), <<IsZero, Op1("je", else)>>)
      true == EmitAll(Visit(node.trueStatement, condition), <<Op1("jmp", end), Op1("label", else)>>)
  IN EmitAll(Visit(node.falseStatement, true), <<Op1("label", end)>>)

(* The condition, body and increment of a loop that ends at end.            *)
VisitRounds(node, g, start, end, increment) ==
  LET condition == EmitAll(Visit(node.condition, EmitAll(g, <<Op1("label", start)>>)), <<IsZero, Op1("je", end)>>)
      body == Visit(node.body, condition)
  IN EmitAll(Visit(node.increment, EmitAll(body, <<Op1("label", increment)>>)), <<Op1("jmp", start), Op1("label", end)>>)

(* AstForLoopDeclaration, whose variable has a scope of its own, and        *)
(* AstForLoopExpression.                                                    *)
VisitForLoop(node, g) ==
  LET start == NewLabel(g, 0)
      end == NewLabel(g, 1)
      increment == NewLabel(g, 2)
      declares == node.initialization.node = "AstVariableDeclaration"
      looping == InLoop(Labelled(g, 3), end, increment, declares)
      size == SizeOfLocalVariables(looping, <<node.initialization>>)
      begin == IF declares THEN SetupLocalVariables(looping, size) ELSE looping
      rounds == VisitRounds(node, Visit(node.initialization, begin), start, end, increment)
  IN IF declares THEN ResetStackPointer(rounds, g, size) ELSE Outside(rounds, g)

VisitWhileLoop(node, g) ==
  LET start == NewLabel(g, 0)
      end == NewLabel(g, 1)
      looping == InLoop(Labelled(g, 2), end, start, FALSE)
      condition == EmitAll(Visit(node.condition, EmitAll(looping, <<Op1("label", start)>>)), <<IsZero, Op1("je", end)>>)
  IN Outside(EmitAll(Visit(node.body, condition), <<Op1("jmp", start), Op1("label", end)>>), g)

VisitDoWhileLoop(node, g) ==
  LET start == NewLabel(g, 0)
      end == NewLabel(g, 1)
      body == Visit(node.body, EmitAll(InLoop(Labelled(g, 2), end, start, FALSE), <<Op1("label", start)>>))
  IN Outside(EmitAll(Visit(node.condition, body), <<IsZero, Op1("jne", start), Op1("label", end)>>), g)

VisitBreak(g) == EmitAll(g, Cleanup(BreakScopes(g)) \o <<Op1("jmp", g.loop.breakLabel)>>)
VisitSkip(g) == EmitAll(g, Cleanup(SkipScopes(g)) \o <<Op1("jmp", g.loop.skipLabel)>>)

VisitVariableDeclaration(node, g) ==
  LET size == SizeOfType(node.semanticType)
      value == Visit(node.value, Expecting(InsertVariable(g, node.variable), "Value"))
  IN EmitAll(value, <<Op2("mov", PlaceOf(value, node.variable, size),
                          IF node.value = NoNode THEN Number(0) ELSE Reg("rax", size))>>)

Visit(node, g) ==
  CASE node.node = "AstBlock"                 -> VisitBlock(node, g)
    [] node.node = "AstReturn"                -> VisitReturn(node, g)
    [] node.node = "AstConditionalStatement"  -> VisitConditionalStatement(node, g)
    [] node.node = "AstForLoop"               -> VisitForLoop(node, g)
    [] node.node = "AstWhileLoop"             -> VisitWhileLoop(node, g)
    [] node.node = "AstDoWhileLoop"           -> VisitDoWhileLoop(node, g)
    [] node.node = "AstBreak"                 -> VisitBreak(g)
    [] node.node = "AstSkip"                  -> VisitSkip(g)
    [] node.node = "AstExpressionStatement"   -> Visit(node.expression, Expecting(g, "Value"))
    [] node.node = "AstVariableDeclaration"   -> VisitVariableDeclaration(node, g)
    [] node.node = "AstUnary"                 -> VisitUnary(node, g)
    [] node.node = "AstBinary"                -> VisitBinary(node, g)
    [] node.node = "AstInteger"               -> VisitInteger(node, g)
    [] node.node = "AstEmptyExpression"       -> VisitEmptyExpression(g)
    [] node.node = "AstVariableAccess"        -> VisitVariableAccess(node, g)
    [] node.node = "AstAssignment"            -> VisitAssignment(node, g)
    [] node.node = "AstConditionalExpression" -> VisitConditionalExpression(node, g)
    [] node.node = "AstFunctionCall"          -> VisitFunctionCall(node, g)
    [] node.node = "AstAddressOf"             -> VisitAddressOf(node, g)
    [] node.node = "AstDereference"           -> VisitDereference(node, g)
    [] node.node = "AstTypeConversion"        -> VisitTypeConversion(node, g)
    [] OTHER                                  -> g

-----------------------------------------------------------------------------
(* A parameter is declared, which clears its place, and then stored below   *)
(* rsp, which moves only at the block.                                      *)
VisitParameter(g, i) ==
  LET variable == g.parameters[i]
      size == SizeOfType(g.types[variable])
      declared == VisitVariableDeclaration(ParameterDeclaration(g, i), g)
  IN EmitAll(declared, <<Op2("mov", PlaceOf(declared, variable, size), Reg(ArgumentRegisters[i], size))>>)

VisitFunctionDefinition(function) ==
  LET begin == Begin(function, PushAll(CalleeSaved) \o <<Op2("mov", RBP, RSP)>>)
      parameters == FoldLeftDomain(VisitParameter, begin, function.parameters)
  IN EmitAll(Visit(function.body, parameters), Epilogue \o <<Op2("mov", RAX, Number(0)), Op1("ret", RAX)>>)
==============================================================================
