---------------------------- MODULE CodeGenerator ----------------------------
(****************************************************************************)
(* What NASMCodeGenerator and AArch64CodeGenerator have in common           *)
(* (compiler/src/backend/): the state of a generator, operands, labels, the *)
(* places of variables and the scopes that an exit gives back.              *)
(*                                                                          *)
(* An instruction is a record of its mnemonic and its operands.  An operand *)
(* is a register with a size, a number, a label, or a place in memory with  *)
(* a size.  A visit takes and returns the state of the generator, a record: *)
(*   code      the section .text of the function                            *)
(*   expects   expectedValueType        labels   the labels made so far     *)
(*   accessor  of every local variable visited so far                       *)
(*   offset    VariableSizeInserter::stackOffset                            *)
(*   scopes    sizeOfLocalVariables of the blocks around                    *)
(*   loop      the SemanticLoopData of the loop around, with the number of  *)
(*             scopes around that loop                                      *)
(*   types, parameters   of the function                                    *)
(*   refused   whether expectValueType failed, or a call had too many       *)
(*             arguments                                                    *)
(* The accessors that VariableSizeInserter computes in a pass of its own,   *)
(* and the containedScopes that SemanticValidator computes, are computed on *)
(* the way.  Loop bodies are blocks; ScopeCleanup has the others.  Arrays   *)
(* are left out.                                                            *)
(****************************************************************************)
EXTENDS SyntaxTree

Reg(name, size) == [kind |-> "register", name |-> name, size |-> size]
Number(k) == [kind |-> "number", value |-> k]
Label(k) == [kind |-> "label", label |-> k]
At(base, displacement, size) == [kind |-> "memory", base |-> base, displacement |-> displacement, size |-> size]
Data(variable, size) == [kind |-> "data", variable |-> variable, size |-> size]
Nothing == [kind |-> "nothing"]

Op2(mnemonic, to, from) == [op |-> mnemonic, to |-> to, from |-> from]
Op1(mnemonic, to) == Op2(mnemonic, to, Nothing)

EmitAll(g, instructions) == [g EXCEPT !.code = @ \o instructions]
Expecting(g, valueType) == [g EXCEPT !.expects = valueType]
ExpectValueType(g, valueType) == [g EXCEPT !.refused = @ \/ g.expects # valueType]

NewLabel(g, k) == Label(g.labels + k)
Labelled(g, n) == [g EXCEPT !.labels = @ + n]

PushAll(names) == [i \in DOMAIN names |-> Op1("push", Reg(names[i], 8))]
PopAll(names) == [i \in DOMAIN names |-> Op1("pop", Reg(Reverse(names)[i], 8))]

NoLoop == [around |-> 0, breakLabel |-> Nothing, skipLabel |-> Nothing, hasAdditionalCleanup |-> FALSE]

Begin(function, code) ==
  [code |-> code, expects |-> "Value", labels |-> 0, accessor |-> <<>>, offset |-> 0, scopes |-> <<>>,
   loop |-> NoLoop, types |-> function.types, parameters |-> function.parameters, refused |-> FALSE]

(* VariableSizeInserter: the frame offset of a variable.                    *)
InsertVariable(g, variable) ==
  LET size == SizeOfType(g.types[variable])
  IN [g EXCEPT !.offset = @ + size, !.accessor = (variable :> g.offset + size) @@ @]

(* A parameter is a declaration without a value.                            *)
ParameterDeclaration(g, i) ==
  [node |-> "AstVariableDeclaration", variable |-> g.parameters[i], semanticType |-> g.types[g.parameters[i]],
   value |-> NoNode]

(* The variables of a block; that of the body also holds the parameters.    *)
DeclaredIn(items) ==
  [i \in DOMAIN items |-> IF items[i].node = "AstVariableDeclaration" THEN <<items[i].variable>> ELSE <<>>]

SizeOfLocalVariables(g, items) ==
  LET variables == (IF g.scopes = <<>> THEN g.parameters ELSE <<>>) \o FlattenSeq(DeclaredIn(items))
  IN FoldSeq(+, 0, [i \in DOMAIN variables |-> SizeOfType(g.types[variables[i]])])

(* The scopes that break and skip give back; skip always leaves one out.    *)
ScopesInside(g, leftOut) == SubSeq(g.scopes, g.loop.around + leftOut + 1, Len(g.scopes))
BreakScopes(g) == ScopesInside(g, IF g.loop.hasAdditionalCleanup THEN 1 ELSE 0)
SkipScopes(g) == ScopesInside(g, 1)

InLoop(g, breakLabel, skipLabel, hasAdditionalCleanup) ==
  [g EXCEPT !.loop = [around |-> Len(g.scopes), breakLabel |-> breakLabel, skipLabel |-> skipLabel,
                      hasAdditionalCleanup |-> hasAdditionalCleanup]]

(* Behind a statement everything but what it emitted is as before it.       *)
Outside(g, outer) == [g EXCEPT !.scopes = outer.scopes, !.loop = outer.loop]
=============================================================================
