--------------------------- MODULE AArch64Generator ---------------------------
(****************************************************************************)
(* AArch64CodeGenerator (compiler/src/backend/AArch64CodeGenerator.cpp):    *)
(* the AArch64 text of a function, apart from arrays.                       *)
(*                                                                          *)
(* Every expression leaves its value in x0, of which as many bytes count as *)
(* its type has.  An instruction has one operand that it writes and a       *)
(* sequence of operands that it reads; W(k) is the lower half of X(k).      *)
(****************************************************************************)
EXTENDS CodeGenerator

X(k) == Reg(<<"x", k>>, 8)
W(k) == Reg(<<"x", k>>, 4)
FP == X(29)
LR == X(30)
SP == X(31)

(* getRegisterWithSize: fewer than four bytes are in the lower half.        *)
RegisterWithSize(k, size) == IF size = 8 THEN X(k) ELSE W(k)

CalleeSaved == [i \in 1 .. 10 |-> <<"x", i + 18>>]
MaxArguments == 8

RECURSIVE Visit(_, _)

-----------------------------------------------------------------------------
(* Expressions.                                                             *)
SetTruth(condition) == <<Op2("cmp", Nothing, <<X(0), Number(0)>>), Op2("cset", X(0), condition)>>

UnaryCode == [NEGATE |-> <<Op2("neg", X(0), <<X(0)>>)>>, BINARY_NOT |-> <<Op2("mvn", X(0), <<X(0)>>)>>,
              LOGICAL_NOT |-> SetTruth("eq")]

VisitUnary(node, g) == EmitAll(Visit(node.value, ExpectValueType(g, "Value")), UnaryCode[node.type])

Conditions == [EQUAL |-> "eq", NOT_EQUAL |-> "ne", LESS_THAN |-> "lt", LESS_THAN_OR_EQUAL |-> "le",
               GREATER_THAN |-> "gt", GREATER_THAN_OR_EQUAL |-> "ge"]

IsPointerSum(node) ==
  /\ node.type \in {"ADD", "SUBTRACT"}
  /\ IsPointer(node.left.semanticType) \/ IsPointer(node.right.semanticType)

(* A number that is added to a pointer is multiplied by the size of what    *)
(* the pointer leads to; what is subtracted, by that of the left operand.   *)
PointerSumCode(node) ==
  LET left == IsPointer(node.left.semanticType)
      size == CASE node.type = "SUBTRACT" -> SizeOfType(node.left.semanticType)
                [] left -> SizeOfType(node.left.semanticType.subtype)
                [] OTHER -> SizeOfType(node.right.semanticType.subtype)
  IN <<Op2("mov", X(2), <<Number(size)>>),
       Op2(IF node.type = "ADD" THEN "madd" ELSE "msub", X(0),
           IF left THEN <<X(1), X(2), X(0)>> ELSE <<X(0), X(2), X(1)>>)>>

(* The signs of fewer than four bytes are extended before a division.       *)
SignExtended(k, size) ==
  (IF size = 1 THEN <<Op2("sxtb", W(k), <<W(k)>>)>> ELSE <<>>)
  \o (IF size <= 2 THEN <<Op2("sxth", W(k), <<W(k)>>)>> ELSE <<>>)

DivideCode(leftSize, rightSize) ==
  LET R(k) == RegisterWithSize(k, leftSize)
  IN SignExtended(0, leftSize) \o SignExtended(1, rightSize) \o <<Op2("sdiv", R(0), <<R(0), R(1)>>)>>

BinaryCode(node) ==
  CASE IsPointerSum(node)       -> PointerSumCode(node)
    [] node.type = "ADD"        -> <<Op2("add", X(0), <<X(0), X(1)>>)>>
    [] node.type = "SUBTRACT"   -> <<Op2("sub", X(0), <<X(0), X(1)>>)>>
    [] node.type = "MULTIPLY"   -> <<Op2("mul", X(0), <<X(0), X(1)>>)>>
    [] node.type = "DIVIDE"     -> DivideCode(SizeOfType(node.left.semanticType), SizeOfType(node.right.semanticType))
    [] node.type = "MODULO"     -> <<Op2("sdiv", X(2), <<X(0), X(1)>>), Op2("msub", X(0), <<X(2), X(1), X(0)>>)>>
    [] OTHER -> <<Op2("cmp", Nothing, <<X(0), X(1)>>), Op2("cset", X(0), Conditions[node.type])>>

VisitOperands(node, g) ==
  LET left == EmitAll(Visit(node.left, g), <<Op1("push", X(0))>>)
  IN EmitAll(Visit(node.right, left), <<Op2("mov", X(1), <<X(0)>>), Op1("pop", X(0))>>)

VisitLogicalAnd(node, g) ==
  LET left == ExpectValueType(Visit(node.left, g), "Value")
      end == NewLabel(left, 0)
      test == EmitAll(Labelled(left, 1), <<Op2("cbz", end, <<X(0)>>)>>)
  IN EmitAll(Visit(node.right, test), SetTruth("ne") \o <<Op1("label", end)>>)

VisitLogicalOr(node, g) ==
  LET left == ExpectValueType(Visit(node.left, g), "Value")
      second == NewLabel(left, 0)
      end == NewLabel(left, 1)
      test == EmitAll(Labelled(left, 2), <<Op2("cbz", second, <<X(0)>>), Op2("mov", X(0), <<Number(1)>>),
                                          Op1("b", end), Op1("label", second)>>)
  IN EmitAll(Visit(node.right, test), SetTruth("ne") \o <<Op1("label", end)>>)

VisitBinary(node, g) ==
  CASE node.type = "LogicalAnd" -> VisitLogicalAnd(node, g)
    [] node.type = "LogicalOr"  -> VisitLogicalOr(node, g)
    [] OTHER -> LET operands == VisitOperands(node, g)
                IN EmitAll(IF IsPointerSum(node) THEN operands ELSE ExpectValueType(operands, "Value"), BinaryCode(node))

(* Sixteen bits at a time, as long as there are any left.                   *)
VisitInteger(node, g) ==
  LET value == node.constant % Values(8)
      chunks == {i \in 0 .. 3 : value \div Values(2 * i) # 0}
      chunk(i) == Number((value \div Values(2 * i)) % Values(2))
  IN EmitAll(ExpectValueType(g, "Value"),
             IF value = 0 THEN <<Op2("mov", X(0), <<Number(0)>>)>>
             ELSE [k \in 1 .. Cardinality(chunks) |->
                     IF k = 1 THEN Op2("movz", X(0), <<chunk(0)>>) ELSE Op2("movk", X(0), <<chunk(k - 1), Number(k - 1)>>)])

VisitEmptyExpression(g) == EmitAll(ExpectValueType(g, "Value"), <<Op2("mov", X(0), <<Number(1)>>)>>)

PlaceOf(g, variable) ==
  IF variable \in DOMAIN g.accessor THEN Op2("sub", X(0), <<FP, Number(g.accessor[variable])>>)
  ELSE Op2("ldr=", X(0), Data(variable, 8))

VisitVariableAccess(node, g) ==
  LET size == SizeOfType(node.semanticType)
  IN EmitAll(g, <<PlaceOf(g, node.variable)>>
                \o IF g.expects = "Value" THEN <<Op2("ldr", RegisterWithSize(0, size), At(<<"x", 0>>, 0, size))>> ELSE <<>>)

VisitAssignment(node, g) ==
  LET size == SizeOfType(node.lvalue.semanticType)
      value == EmitAll(Visit(node.rvalue, Expecting(ExpectValueType(g, "Value"), "Value")), <<Op1("push", X(0))>>)
      place == Expecting(Visit(node.lvalue, Expecting(value, "Address")), "Value")
  IN EmitAll(place, <<Op1("pop", X(1)), Op2("str", At(<<"x", 0>>, 0, size), <<RegisterWithSize(1, size)>>),
                      Op2("mov", X(0), <<X(1)>>)>>)

VisitConditionalExpression(node, g) ==
  LET false == NewLabel(g, 1)
      end == NewLabel(g, 2)
      condition == Visit(node.condition, Labelled(ExpectValueType(g, "Value"), 3))
      true == Visit(node.trueExpression,
                    EmitAll(condition, <<Op2("cbz", false, <<X(0)>>), Op1("label", NewLabel(g, 0))>>))
  IN EmitAll(Visit(node.falseExpression, EmitAll(true, <<Op1("b", end), Op1("label", false)>>)),
             <<Op1("label", end)>>)

(* The stack is aligned to 16 bytes, x20 is how far that moved it, and the  *)
(* frame pointer and the return address are saved for the call.             *)
FunctionCallPrologue ==
  <<Op2("stp", SP, <<X(8), X(9)>>), Op2("mov", X(20), <<SP>>), Op2("sub", SP, <<SP, Number(16)>>),
    Op2("mov", X(8), <<Number(-16)>>), Op2("mov", X(9), <<SP>>), Op2("and", X(8), <<X(9), X(8)>>),
    Op2("mov", SP, <<X(8)>>), Op2("sub", X(20), <<X(20), X(8)>>),
    Op2("stp", SP, <<FP, LR>>), Op2("mov", FP, <<SP>>)>>

FunctionCallEpilogue ==
  <<Op2("ldp", SP, <<FP, LR>>), Op2("add", SP, <<SP, X(20)>>), Op2("ldp", SP, <<X(8), X(9)>>)>>

VisitArgument(argument, g) == EmitAll(Visit(argument, Expecting(g, "Value")), <<Op1("push", X(0))>>)

VisitFunctionCall(node, g) ==
  LET registers == [i \in DOMAIN node.arguments |-> <<"x", i - 1>>]
      types == [i \in DOMAIN node.arguments |-> node.arguments[i].semanticType]
      arguments == FoldLeft(LAMBDA h, argument : VisitArgument(argument, h), ExpectValueType(g, "Value"), node.arguments)
  IN EmitAll([arguments EXCEPT !.refused = @ \/ Len(node.arguments) > MaxArguments],
             PopAll(registers) \o FunctionCallPrologue \o <<[op |-> "bl", to |-> node, from |-> types]>> \o FunctionCallEpilogue)

VisitAddressOf(node, g) ==
  Expecting(Visit(node.operand, Expecting(ExpectValueType(g, "Value"), "Address")), "Value")

(* The sign is kept when a value grows, the upper bytes are cleared when it *)
(* shrinks.                                                                 *)
SignExtension == (1 :> "sxtb") @@ (2 :> "sxth") @@ (4 :> "sxtw")

Masked(size) == <<Op2("mov", X(1), <<Number(Values(size) - 1)>>), Op2("and", X(0), <<X(0), X(1)>>)>>

VisitTypeConversion(node, g) ==
  LET originSize == SizeOfType(node.value.semanticType)
      targetSize == SizeOfType(node.semanticType)
      value == Visit(node.value, g)
  IN CASE value.expects = "Address" \/ targetSize = originSize -> value
       [] targetSize > originSize ->
            EmitAll(value, <<Op2(SignExtension[originSize], RegisterWithSize(0, targetSize), <<W(0)>>)>>)
       [] OTHER -> EmitAll(value, Masked(targetSize))

(* Eight bytes are loaded, whatever the pointer leads to.  As an address a  *)
(* dereference is the value of its operand.                                 *)
VisitDereference(node, g) ==
  IF g.expects = "Value"
  THEN EmitAll(Visit(node.operand, g), <<Op2("ldr", X(0), At(<<"x", 0>>, 0, 8))>> \o Masked(SizeOfType(node.semanticType)))
  ELSE Visit(node.operand, Expecting(g, "Value"))

-----------------------------------------------------------------------------
(* Statements.                                                              *)
GiveBack(size) == Op2("add", SP, <<SP, Number(size)>>)

SetupLocalVariables(g, size) == [EmitAll(g, <<Op2("sub", SP, <<SP, Number(size)>>)>>) EXCEPT !.scopes = Append(@, size)]
ResetStackPointer(g, outer, size) == [Outside(EmitAll(g, <<GiveBack(size)>>), outer) EXCEPT !.offset = @ - size]

VisitBlock(node, g) ==
  LET size == SizeOfLocalVariables(g, node.items)
  IN ResetStackPointer(FoldLeft(LAMBDA h, item : Visit(item, h), SetupLocalVariables(g, size), node.items), g, size)

Cleanup(sizes) == [i \in DOMAIN sizes |-> GiveBack(Reverse(sizes)[i])]

Epilogue == PopAll(CalleeSaved)

(* A slip, for mutation: only the innermost block is left.                  *)
VisitReturnFromBlock(node, g) ==
  EmitAll(Visit(node.value, Expecting(g, "Value")), <<GiveBack(Last(g.scopes))>> \o Epilogue \o <<Op1("ret", LR)>>)

VisitReturn(node, g) ==
  EmitAll(Visit(node.value, Expecting(g, "Value")), Cleanup(g.scopes) \o Epilogue \o <<Op1("ret", LR)>>)

VisitConditionalStatement(node, g) ==
  LET else == NewLabel(g, 0)
      end == NewLabel(g, 1)
      condition == EmitAll(Visit(node.condition, Labelled(g, 2)), <<Op2("cbz", else, <<X(0)>>)>>)
      true == EmitAll(Visit(node.trueStatement, condition), <<Op1("b", end), Op1("label", else)>>)
  IN EmitAll(Visit(node.falseStatement, true), <<Op1("label", end)>>)

VisitRounds(node, g, start, end, increment) ==
  LET condition == EmitAll(Visit(node.condition, EmitAll(g, <<Op1("label", start)>>)), <<Op2("cbz", end, <<X(0)>>)>>)
      body == Visit(node.body, condition)
  IN EmitAll(Visit(node.increment, EmitAll(body, <<Op1("label", increment)>>)), <<Op1("b", start), Op1("label", end)>>)

VisitForLoop(node, g) ==
  LET start == NewLabel(g, 0)
      end == NewLabel(g, 1)
      increment == NewLabel(g, 2)
      declares == node.initialization.node = "AstVariableDeclaration"
      looping == InLoop(Labelled(g, 3), end, increment, declares)
      size == SizeOfLocalVariables(looping, <<node.initialization>>)
      begin == IF declares THEN SetupLocalVariables(looping, size) ELSE looping
      rounds == VisitRounds(node, Visit(node.initialization, begin), start, end, increment)
  IN IF declares THEN ResetStackPointer(rounds, g, size) ELSE Outside(rounds, g)

VisitWhileLoop(node, g) ==
  LET start == NewLabel(g, 0)
      end == NewLabel(g, 1)
      looping == InLoop(Labelled(g, 2), end, start, FALSE)
      condition == EmitAll(Visit(node.condition, EmitAll(looping, <<Op1("label", start)>>)), <<Op2("cbz", end, <<X(0)>>)>>)
  IN Outside(EmitAll(Visit(node.body, condition), <<Op1("b", start), Op1("label", end)>>), g)

VisitDoWhileLoop(node, g) ==
  LET start == NewLabel(g, 0)
      end == NewLabel(g, 1)
      body == Visit(node.body, EmitAll(InLoop(Labelled(g, 2), end, start, FALSE), <<Op1("label", start)>>))
  IN Outside(EmitAll(Visit(node.condition, body), <<Op2("cbnz", start, <<X(0)>>), Op1("label", end)>>), g)

VisitBreak(g) == EmitAll(g, Cleanup(BreakScopes(g)) \o <<Op1("b", g.loop.breakLabel)>>)
VisitSkip(g) == EmitAll(g, Cleanup(SkipScopes(g)) \o <<Op1("b", g.loop.skipLabel)>>)

VisitVariableDeclaration(node, g) ==
  LET size == SizeOfType(node.semanticType)
      declared == Expecting(InsertVariable(g, node.variable), "Value")
      value == IF node.value = NoNode THEN EmitAll(declared, <<Op2("mov", X(0), <<Number(0)>>)>>) ELSE Visit(node.value, declared)
  IN EmitAll(value, <<Op2("sub", X(19), <<FP, Number(value.accessor[node.variable])>>),
                      Op2("str", At(<<"x", 19>>, 0, size), <<RegisterWithSize(0, size)>>)>>)

Visit(node, g) ==
  CASE node.node = "AstBlock"                 -> VisitBlock(node, g)
    [] node.node = "AstReturn"                -> VisitReturn(node, g)
    [] node.node = "AstConditionalStatement"  -> VisitConditionalStatement(node, g)
    [] node.node = "AstForLoop"               -> VisitForLoop(node, g)
    [] node.node = "AstWhileLoop"             -> VisitWhileLoop(node, g)
    [] node.node = "AstDoWhileLoop"           -> VisitDoWhileLoop(node, g)
    [] node.node = "AstBreak"                 -> VisitBreak(g)
    [] node.node = "AstSkip"                  -> VisitSkip(g)
    [] node.node = "AstExpressionStatement"   -> Visit(node.expression, Expecting(g, "Value"))
    [] node.node = "AstVariableDeclaration"   -> VisitVariableDeclaration(node, g)
    [] node.node = "AstUnary"                 -> VisitUnary(node, g)
    [] node.node = "AstBinary"                -> VisitBinary(node, g)
    [] node.node = "AstInteger"               -> VisitInteger(node, g)
    [] node.node = "AstEmptyExpression"       -> VisitEmptyExpression(g)
    [] node.node = "AstVariableAccess"        -> VisitVariableAccess(node, g)
    [] node.node = "AstAssignment"            -> VisitAssignment(node, g)
    [] node.node = "AstConditionalExpression" -> VisitConditionalExpression(node, g)
    [] node.node = "AstFunctionCall"          -> VisitFunctionCall(node, g)
    [] node.node = "AstAddressOf"             -> VisitAddressOf(node, g)
    [] node.node = "AstDereference"           -> VisitDereference(node, g)
    [] node.node = "AstTypeConversion"        -> VisitTypeConversion(node, g)
    [] OTHER                                  -> g

-----------------------------------------------------------------------------
(* A parameter is declared, which clears its place and x0, so that the      *)
(* first one is kept in x9 meanwhile, and then stored below sp, which moves *)
(* only at the block.                                                       *)
VisitParameter(g, i) ==
  LET variable == g.parameters[i]
      size == SizeOfType(g.types[variable])
      copied(to, from) == IF i = 1 THEN <<Op2("mov", X(to), <<X(from)>>)>> ELSE <<>>
      declared == VisitVariableDeclaration(ParameterDeclaration(g, i), EmitAll(g, copied(9, 0)))
  IN EmitAll(declared, copied(0, 9) \o <<Op2("str", At(FP.name, -declared.accessor[variable], size),
                                             <<RegisterWithSize(i - 1, size)>>)>>)

VisitFunctionDefinition(function) ==
  LET begin == Begin(function, PushAll(CalleeSaved) \o <<Op2("mov", FP, <<SP>>)>>)
      parameters == FoldLeftDomain(VisitParameter, begin, function.parameters)
  IN EmitAll(Visit(function.body, parameters), Epilogue \o <<Op2("mov", X(0), <<Number(0)>>), Op1("ret", LR)>>)
==============================================================================
