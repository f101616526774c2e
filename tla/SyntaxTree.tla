------------------------------ MODULE SyntaxTree ------------------------------
(****************************************************************************)
(* What a function means, once SemanticValidator has accepted it: what      *)
(* CCodeGenerator turns it into (compiler/src/backend/CCodeGeneror.cpp),    *)
(* with operands evaluated from left to right as in NASMCodeGenerator, and  *)
(* every operation done modulo the size of its type, in two's complement.   *)
(*                                                                          *)
(* A pointer is the number of the first byte it leads to.  A callee returns *)
(* a number that tells its call from others and leaves memory alone.        *)
(****************************************************************************)
EXTENDS SemanticTypes

CONSTANTS
  ByteValues,  \* how many values a byte has
  Address,     \* where every variable lies
  Fuel         \* how many rounds of loops the meaning follows

ASSUME ByteValues \in Nat \ {0}

SizeOfType(type) ==
  CASE type.kind \in {"i8", "c_void"}   -> 1
    [] type.kind = "i16"               -> 2
    [] type.kind = "i32"               -> 4
    [] type.kind \in {"i64", "pointer"} -> 8

Values(size) == ByteValues ^ size
ValuesOf(node) == Values(SizeOfType(node.semanticType))

-----------------------------------------------------------------------------
(* The operators on numbers modulo m in two's complement.                   *)
Signed(m, x) == IF 2 * x < m THEN x ELSE x - m
Absolute(x) == IF x < 0 THEN -x ELSE x
Quotient(x, y) ==
  LET q == Absolute(x) \div Absolute(y) IN IF (x < 0) = (y < 0) THEN q ELSE -q
Truth(condition) == IF condition THEN 1 ELSE 0

(* A division by zero traps; the functions that are run have none.          *)
Compute(m, type, x, y) ==
  LET a == Signed(m, x)
      b == Signed(m, y)
  IN CASE type = "ADD"                    -> (x + y) % m
       [] type = "SUBTRACT"               -> (x - y) % m
       [] type = "MULTIPLY"               -> (a * b) % m
       [] type = "DIVIDE"                 -> IF y = 0 THEN 0 ELSE Quotient(a, b) % m
       [] type = "MODULO"                 -> IF y = 0 THEN 0 ELSE (a - b * Quotient(a, b)) % m
       [] type = "NEGATE"                 -> (-x) % m
       [] type = "BINARY_NOT"             -> m - 1 - x
       [] type = "LOGICAL_NOT"            -> Truth(x = 0)
       [] type = "EQUAL"                  -> Truth(x = y)
       [] type = "NOT_EQUAL"              -> Truth(x # y)
       [] type = "LESS_THAN"              -> Truth(a < b)
       [] type = "LESS_THAN_OR_EQUAL"     -> Truth(a <= b)
       [] type = "GREATER_THAN"           -> Truth(a > b)
       [] type = "GREATER_THAN_OR_EQUAL"  -> Truth(a >= b)

Answer(made) == Len(made) + FoldSeq(+, 0, made[Len(made)][2])

VariableAt(address) == CHOOSE v \in DOMAIN Address : Address[v] = address

-----------------------------------------------------------------------------
(****************************************************************************)
(* What the tree means.  A state s has the values of variables, the calls   *)
(* made, the result of the last expression, and flow: "next", or why the    *)
(* statement was left, or "stuck" when Fuel is used up.                     *)
(****************************************************************************)
RECURSIVE Run(_, _), Repeat(_, _)

Result(s, x) == [s EXCEPT !.result = x]
Converted(node, type, x) == Signed(ValuesOf(node), x) % Values(SizeOfType(type))
Assign(s, v, x) == [s EXCEPT !.value = (v :> x) @@ @]
Leaving(s, flow) == [s EXCEPT !.flow = flow]

RunBlock(items, s) == FoldLeft(LAMBDA t, item : IF t.flow = "next" THEN Run(item, t) ELSE t, s, items)

(* What is added to a pointer counts in elements.                           *)
Steps(node, other, x) ==
  IF node.type \in {"ADD", "SUBTRACT"} /\ IsPointer(other.semanticType)
  THEN x * SizeOfType(other.semanticType.subtype) ELSE x

RunBinary(node, s) ==
  LET left == Run(node.left, s)
      right == Run(node.right, left)
      truth == Result(right, Truth(right.result # 0))
  IN CASE node.type = "LogicalOr"  -> IF left.result # 0 THEN Result(left, 1) ELSE truth
       [] node.type = "LogicalAnd" -> IF left.result = 0 THEN left ELSE truth
       [] OTHER -> Result(right, Compute(ValuesOf(node.left), node.type, Steps(node, node.right, left.result),
                                         Steps(node, node.left, right.result)))

RunCall(node, s) ==
  LET stored == FoldLeft(LAMBDA p, argument : LET t == Run(argument, p[1]) IN <<t, Append(p[2], t.result)>>,
                         <<s, <<>>>>, node.arguments)
      made == Append(stored[1].calls, <<node.function, stored[2]>>)
  IN [stored[1] EXCEPT !.calls = made, !.result = Answer(made) % ValuesOf(node)]

(* The right side of an assignment comes before the place it goes to.       *)
RunAssignment(node, s) ==
  LET value == Run(node.rvalue, s)
      place == IF node.lvalue.node = "AstVariableAccess" THEN value ELSE Run(node.lvalue.operand, value)
      x == Converted(node.rvalue, node.lvalue.semanticType, value.result)
  IN Result(Assign(place, IF node.lvalue.node = "AstVariableAccess" THEN node.lvalue.variable ELSE VariableAt(place.result), x), x)

(* One round of a loop behind its condition, and all that follow.           *)
Round(node, s) ==
  LET body == Run(node.body, [s EXCEPT !.fuel = @ - 1])
  IN CASE body.flow \in {"return", "stuck"} -> body
       [] body.flow = "break"               -> Leaving(body, "next")
       [] node.node = "AstForLoop"          -> Repeat(node, Run(node.increment, Leaving(body, "next")))
       [] OTHER                             -> Repeat(node, Leaving(body, "next"))

Repeat(node, s) ==
  LET condition == Run(node.condition, s)
  IN CASE s.fuel = 0           -> Leaving(s, "stuck")
       [] condition.result = 0 -> condition
       [] OTHER                -> Round(node, condition)

Run(node, s) ==
  CASE node.node = "AstBlock"               -> RunBlock(node.items, s)
    [] node.node = "AstReturn"              -> Leaving(Run(node.value, s), "return")
    [] node.node = "AstConditionalStatement" ->
         LET condition == Run(node.condition, s)
         IN Run(IF condition.result # 0 THEN node.trueStatement ELSE node.falseStatement, condition)
    [] node.node = "AstForLoop"             -> Repeat(node, Run(node.initialization, s))
    [] node.node = "AstWhileLoop"           -> Repeat(node, s)
    [] node.node = "AstDoWhileLoop"         -> Round(node, s)
    [] node.node = "AstBreak"               -> Leaving(s, "break")
    [] node.node = "AstSkip"                -> Leaving(s, "skip")
    [] node.node = "AstExpressionStatement" -> Run(node.expression, s)
    [] node.node = "AstVariableDeclaration" ->
         LET value == Run(node.value, Result(s, 0)) IN Assign(value, node.variable, value.result)
    [] node.node = "AstUnary"               -> LET t == Run(node.value, s) IN Result(t, Compute(ValuesOf(node), node.type, t.result, 0))
    [] node.node = "AstBinary"              -> RunBinary(node, s)
    [] node.node = "AstInteger"             -> Result(s, node.constant % ValuesOf(node))
    [] node.node = "AstEmptyExpression"     -> Result(s, 1)
    [] node.node = "AstVariableAccess"      -> Result(s, s.value[node.variable])
    [] node.node = "AstAssignment"          -> RunAssignment(node, s)
    [] node.node = "AstConditionalExpression" ->
         LET condition == Run(node.condition, s)
         IN Run(IF condition.result # 0 THEN node.trueExpression ELSE node.falseExpression, condition)
    [] node.node = "AstFunctionCall"        -> RunCall(node, s)
    [] node.node = "AstAddressOf"           -> Result(s, Address[node.operand.variable])
    [] node.node = "AstDereference"         -> LET t == Run(node.operand, s) IN Result(t, t.value[VariableAt(t.result)])
    [] node.node = "AstTypeConversion"      ->
         LET t == Run(node.value, s) IN Result(t, Converted(node.value, node.semanticType, t.result))
    [] OTHER                                -> s

(* A global without a value is zero; a function that ends without return    *)
(* gives 0.                                                                 *)
Globals(function) ==
  [v \in DOMAIN function.globals |-> IF function.globals[v] = NoNode THEN 0 ELSE Run(function.globals[v], [result |-> 0]).result]

Meaning(function) ==
  LET begin == [value |-> [v \in ToSet(function.parameters) |->
                             function.inputs[SelectInSeq(function.parameters, LAMBDA p : p = v)]] @@ Globals(function),
                calls |-> <<>>, result |-> 0, flow |-> "next", fuel |-> Fuel]
      end == Run(function.body, begin)
  IN IF end.flow = "return" THEN end ELSE Result(end, 0)

==============================================================================
