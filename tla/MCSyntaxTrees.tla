---------------------------- MODULE MCSyntaxTrees ----------------------------
(* Nodes of syntax trees, in the shape that Parser leaves them.             *)
EXTENDS SemanticTypes

(* A character literal is an AstInteger of type i8.                         *)
Integer(k)        == [node |-> "AstInteger", constant |-> k, semanticType |-> I64]
Character(k)      == [node |-> "AstInteger", constant |-> k, semanticType |-> Primitive("i8")]
Variable(v)       == [node |-> "AstVariableAccess", variable |-> v]
Unary(type, e)    == [node |-> "AstUnary", type |-> type, value |-> e]
Binary(type, l, r) == [node |-> "AstBinary", type |-> type, left |-> l, right |-> r]
Set(place, e)     == [node |-> "AstAssignment", lvalue |-> place, rvalue |-> e]
If(c, t, f)       == [node |-> "AstConditionalExpression", condition |-> c, trueExpression |-> t, falseExpression |-> f]
CallOf(f, args)   == [node |-> "AstFunctionCall", function |-> f, arguments |-> args]
AddressOf(v)      == [node |-> "AstAddressOf", operand |-> Variable(v)]
Dereference(e)    == [node |-> "AstDereference", operand |-> e]
Empty             == [node |-> "AstEmptyExpression", semanticType |-> CVoid]

Block(items)      == [node |-> "AstBlock", items |-> items]
ReturnOf(e)       == [node |-> "AstReturn", value |-> e]
Statement(e)      == [node |-> "AstExpressionStatement", expression |-> e]
Declare(v, e)     == [node |-> "AstVariableDeclaration", variable |-> v, value |-> e]
When(c, t, f)     == [node |-> "AstConditionalStatement", condition |-> c, trueStatement |-> t, falseStatement |-> f]
While(c, body)    == [node |-> "AstWhileLoop", condition |-> c, body |-> body]
DoWhile(body, c)  == [node |-> "AstDoWhileLoop", body |-> body, condition |-> c]
For(init, c, step, body) ==
  [node |-> "AstForLoop", initialization |-> init, condition |-> c, increment |-> step, body |-> body]
Break == [node |-> "AstBreak"]
Skip  == [node |-> "AstSkip"]
==============================================================================
