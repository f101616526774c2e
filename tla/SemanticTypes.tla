---------------------------- MODULE SemanticTypes ----------------------------
(****************************************************************************)
(* The types of expressions and the conversions between them, as            *)
(* SemanticValidator inserts them (compiler/src/ast/SemanticValidator.cpp). *)
(*                                                                          *)
(* A node of the syntax tree is a record whose field "node" is its class;   *)
(* its other fields have the names of the members of that class.  A         *)
(* variable is its SemanticVariableData, so that variables that shadow each *)
(* other differ.  The parser gives a semanticType to literals, empty        *)
(* expressions and declarations; the visits give one to every expression.   *)
(*                                                                          *)
(* hasError is set exactly for the nodes whose semanticType becomes         *)
(* ErrorType here; which messages follow the first is left out.  So are     *)
(* arrays, and names, which have been resolved.                             *)
(*                                                                          *)
(* A function is a record: types, the type of every variable; globals, the  *)
(* value of every global variable or NoNode; parameters and inputs, the     *)
(* arguments it is run with; returns; functions, the signatures of the      *)
(* functions it calls; and body.                                            *)
(****************************************************************************)
EXTENDS Integers, TLC, SequencesExt

NoNode == [node |-> "none"]   \* a member that is not set

Primitive(name) == [kind |-> name]
PointerTo(type) == [kind |-> "pointer", subtype |-> type]
ErrorType == Primitive("error")
I64 == Primitive("i64")
CVoid == Primitive("c_void")
IntegerTypes == {Primitive("i8"), Primitive("i16"), Primitive("i32"), I64}
IsPointer(type) == type.kind = "pointer"

(* Parts of a tree.                                                         *)
Members(node) ==
  {node[f] : f \in DOMAIN node \ {"node", "type", "constant", "variable", "function", "semanticType"}}

Children(node) ==
  CASE node.node = "AstBlock"        -> ToSet(node.items)
    [] node.node = "AstFunctionCall" -> ToSet(node.arguments)
    [] OTHER                         -> Members(node)

RECURSIVE Nodes(_)
Nodes(node) == {node} \cup UNION {Nodes(child) : child \in Children(node)}

IsExpression(node) ==
  node.node \in {"AstUnary", "AstBinary", "AstInteger", "AstEmptyExpression", "AstVariableAccess", "AstAssignment",
                 "AstConditionalExpression", "AstFunctionCall", "AstAddressOf", "AstDereference", "AstTypeConversion"}

-----------------------------------------------------------------------------
(* isEqualTypeInSharedPointer: what a leads to is compared with b itself,   *)
(* so that no two pointers are equal.                                       *)
RECURSIVE IsEqualType(_, _)
IsEqualType(a, b) ==
  IF IsPointer(a) THEN IsPointer(b) /\ IsEqualType(a.subtype, b) ELSE a = b

(* A primitive type takes no pointer: areEquivalentTypes reads what a       *)
(* pointer type holds in that place as the number of a primitive type, and  *)
(* an address is none of these.                                             *)
RECURSIVE AreEquivalentTypes(_, _)
AreEquivalentTypes(expected, found) ==
  \/ expected = ErrorType \/ found = ErrorType
  \/ expected = found
  \/ {expected, found} \subseteq IntegerTypes
  \/ IsPointer(expected) /\ found \in IntegerTypes
  \/ /\ IsPointer(expected) /\ IsPointer(found)
     /\ \/ AreEquivalentTypes(expected.subtype, found.subtype)
        \/ CVoid \in {expected.subtype, found.subtype}

WithType(node, type) == ("semanticType" :> type) @@ node

Conversion(node, type) == [node |-> "AstTypeConversion", value |-> node, semanticType |-> type]

(* A slip, for mutation: a type as large as that of a pointer will do.      *)
ConvertToUnlessI64(node, type) ==
  IF IsEqualType(type, node.semanticType) \/ node.semanticType = I64 THEN node ELSE Conversion(node, type)

(* The conversion that is inserted where a value of some type is wanted.    *)
ConvertTo(node, type) == IF IsEqualType(type, node.semanticType) THEN node ELSE Conversion(node, type)

RECURSIVE Validate(_, _)

-----------------------------------------------------------------------------
(* Expressions, whose children have been validated.                         *)
TypedBinary(node, left, right) ==
  LET result == [node EXCEPT !.left = left, !.right = right]
      l == left.semanticType
      r == right.semanticType
  IN CASE \/ CVoid \in {l, r} \/ ~AreEquivalentTypes(l, r) -> WithType(result, ErrorType)
       [] IsEqualType(l, r) -> WithType(result, l)
       [] ~IsPointer(l) /\ ~IsPointer(r) -> WithType([result EXCEPT !.right = Conversion(right, l)], l)
       [] node.type \notin {"ADD", "SUBTRACT"} -> WithType(result, ErrorType)
       [] IsPointer(l) -> WithType([result EXCEPT !.right = Conversion(right, I64)], l)
       [] OTHER -> WithType([result EXCEPT !.left = Conversion(left, I64)], I64)

(* Through a pointer anything can be assigned, and nothing is converted.    *)
TypedAssignment(node, place, value) ==
  LET result == [node EXCEPT !.lvalue = place, !.rvalue = ConvertTo(value, place.semanticType)]
  IN CASE place.node = "AstDereference" -> WithType([result EXCEPT !.rvalue = value], place.semanticType)
       [] AreEquivalentTypes(place.semanticType, value.semanticType) -> WithType(result, place.semanticType)
       [] OTHER -> WithType(result, ErrorType)

TypedConditional(node, true, false) ==
  LET result == [node EXCEPT !.trueExpression = true, !.falseExpression = ConvertTo(false, true.semanticType)]
  IN WithType(result, IF AreEquivalentTypes(false.semanticType, true.semanticType) THEN true.semanticType ELSE ErrorType)

(* The arguments are visited once more behind the conversion, which can     *)
(* only repeat conversions between a pointer and another.                   *)
TypedCall(node, arguments, signature) ==
  LET types == signature.parameters
      matches == /\ Len(arguments) = Len(types)
                 /\ \A i \in 1 .. Len(types) : AreEquivalentTypes(types[i], arguments[i].semanticType)
  IN IF matches
     THEN WithType([node EXCEPT !.arguments = [i \in 1 .. Len(types) |-> ConvertTo(arguments[i], types[i])]],
                   signature.returns)
     ELSE WithType(node, ErrorType)

TypedDereference(node, operand) ==
  LET type == operand.semanticType
  IN WithType([node EXCEPT !.operand = operand],
              IF IsPointer(type) /\ type.subtype # CVoid THEN type.subtype ELSE ErrorType)

TypedAddressOf(node, operand) ==
  WithType([node EXCEPT !.operand = operand],
           IF operand.node = "AstVariableAccess" THEN PointerTo(operand.semanticType) ELSE ErrorType)

-----------------------------------------------------------------------------
(* Statements with a value that goes somewhere.                             *)
TypedReturn(node, value, function) ==
  WithType([node EXCEPT !.value = ConvertTo(value, function.returns)],
           IF AreEquivalentTypes(function.returns, value.semanticType) THEN value.semanticType ELSE ErrorType)

TypedDeclaration(node, value, type) ==
  CASE type = CVoid -> WithType(node, ErrorType)
    [] node.value = NoNode -> WithType(node, type)
    [] OTHER -> WithType([node EXCEPT !.value = ConvertTo(value, type)],
                         IF AreEquivalentTypes(type, value.semanticType) THEN type ELSE ErrorType)

Validate(node, function) ==
  LET V(member) == Validate(member, function)
  IN CASE node.node = "AstBlock" -> [node EXCEPT !.items = [i \in DOMAIN @ |-> V(@[i])]]
       [] node.node = "AstReturn" -> TypedReturn(node, V(node.value), function)
       [] node.node = "AstVariableDeclaration" ->
            TypedDeclaration(node, V(node.value), function.types[node.variable])
       [] node.node = "AstExpressionStatement" -> [node EXCEPT !.expression = V(@)]
       [] node.node = "AstConditionalStatement" ->
            [node EXCEPT !.condition = V(@), !.trueStatement = V(@), !.falseStatement = V(@)]
       [] node.node \in {"AstWhileLoop", "AstDoWhileLoop"} -> [node EXCEPT !.condition = V(@), !.body = V(@)]
       [] node.node = "AstForLoop" ->
            [node EXCEPT !.initialization = V(@), !.condition = V(@), !.increment = V(@), !.body = V(@)]
       [] node.node = "AstUnary" ->
            LET value == V(node.value) IN WithType([node EXCEPT !.value = value], value.semanticType)
       [] node.node = "AstBinary" -> TypedBinary(node, V(node.left), V(node.right))
       [] node.node = "AstVariableAccess" -> WithType(node, function.types[node.variable])
       [] node.node = "AstAssignment" -> TypedAssignment(node, V(node.lvalue), V(node.rvalue))
       [] node.node = "AstConditionalExpression" ->
            TypedConditional([node EXCEPT !.condition = V(@)], V(node.trueExpression), V(node.falseExpression))
       [] node.node = "AstFunctionCall" ->
            TypedCall(node, [i \in DOMAIN node.arguments |-> V(node.arguments[i])], function.functions[node.function])
       [] node.node = "AstAddressOf" -> TypedAddressOf(node, V(node.operand))
       [] node.node = "AstDereference" -> TypedDereference(node, V(node.operand))
       [] OTHER -> node

Validated(function) == [function EXCEPT !.body = Validate(@, function)]

(* A conversion around the value of a global variable is no constant.       *)
IsAccepted(function) ==
  /\ \A v \in DOMAIN function.globals : function.globals[v] # NoNode => function.types[v] = I64
  /\ \A node \in Nodes(function.body) : "semanticType" \in DOMAIN node => node.semanticType # ErrorType
==============================================================================
