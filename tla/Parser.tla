-------------------------------- MODULE Parser --------------------------------
(****************************************************************************)
(* Parser::parseProgram, the statements and the recovery from errors        *)
(* (compiler/src/frontend/Parser.cpp), on the tokens the Tokenizer found.   *)
(*                                                                          *)
(* parseStatement calls itself for the parts of a statement.  Every call    *)
(* that waits for a part is a frame of the stack; a step parses up to where *)
(* the next part begins or a statement ends.  An error is caught by the     *)
(* parseStatement or parseProgramItem it happened in: the first of a row    *)
(* consumes nothing, the others one token each.                             *)
(****************************************************************************)
EXTENDS ExpressionParser

VARIABLES
  at,            \* currentTokenIndex, from 1
  stack,         \* the calls that wait for a statement, the innermost last
  program,       \* program->items
  hasError,
  isRecovering,
  expecting      \* what is parsed next, or the statement that was parsed

parserVars == <<at, stack, program, hasError, isRecovering, expecting>>
vars == <<source, position, tokens, failed, phase, at, stack, program, hasError, isRecovering, expecting>>

(* expecting holds a tree only behind a statement.                          *)
Item      == Node("item", <<>>)
BlockItem == Node("block item", <<>>)
Statement == Node("statement", <<>>)
Expecting(what) == phase = "parsing" /\ expecting = what
Parsed == phase = "parsing" /\ expecting \notin {Item, BlockItem, Statement}

Frame(kind, kids) == [kind |-> kind, kids |-> kids, wereRecovering |-> isRecovering]
Caller == stack[Len(stack)]
Return == SubSeq(stack, 1, Len(stack) - 1)
CallerKids(kids) == [stack EXCEPT ![Len(stack)].kids = kids]

Here == StateAt(at)
Is(type) == Match(Here, type)

ParserInit ==
  /\ at = 1
  /\ stack = <<>>
  /\ program = <<>>
  /\ hasError = FALSE
  /\ isRecovering = FALSE
  /\ expecting = Item

-----------------------------------------------------------------------------
(* A slip, for mutation: errors are reported and nothing is consumed.       *)
RecoveredWithoutConsuming(s) == s.at

(* The token at which parsing goes on after the error that left s.          *)
Recovered(s) == IF isRecovering THEN s.at + 1 ELSE s.at

(* The token of an error behind the last token is read: fatal.              *)
Recover(s) ==
  /\ hasError' = TRUE
  /\ isRecovering' = TRUE
  /\ at' = Recovered(s)
  /\ phase' = IF Recovered(s) > Len(tokens) THEN "fatal" ELSE phase

Advance(s) ==
  /\ at' = s.at
  /\ hasError' = (hasError \/ s.hasError)
  /\ UNCHANGED phase

(* parseStatement returns the tree, or catches the error that left s.       *)
Complete(s, tree) == Advance(s) /\ expecting' = tree /\ UNCHANGED isRecovering
Fail(s) == Recover(s) /\ expecting' = ErrorNode
CompleteOrFail(s) == IF s.ok THEN Complete(s, Top(s)) ELSE Fail(s)

-----------------------------------------------------------------------------
(* parseProgram: an import, or else parseProgramItem.                       *)
AddItem(item, wereRecovering) ==
  /\ program' = IF item = ErrorNode /\ wereRecovering THEN program ELSE Append(program, item)
  /\ expecting' = Item

(* parseProgramItem catches an error.                                       *)
FailItem(s, wereRecovering) == Recover(s) /\ AddItem(ErrorNode, wereRecovering)

(* Anything but an error ends the recovery.                                 *)
CompleteItem(s, item) == Advance(s) /\ AddItem(item, FALSE) /\ isRecovering' = FALSE

ExpectingItem == Expecting(Item) /\ ~AtEnd(at)
IsImport == ParseImportStatement(Here).ok
IsVariable == MatchBoth(Here, "Identifier", ":")

CompleteItemOrFail(s) == IF s.ok THEN CompleteItem(s, Top(s)) ELSE FailItem(s, isRecovering)

AddImport(s) == s.ok /\ Advance(s) /\ AddItem(Top(s), FALSE)
ParseImport ==
  /\ ExpectingItem /\ AddImport(ParseImportStatement(Here))
  /\ UNCHANGED <<stack, isRecovering>>

ParseGlobalVariableDefinition ==
  /\ ExpectingItem /\ IsVariable /\ ~IsImport
  /\ CompleteItemOrFail(Consume(ParseVariableDeclaration(Here), ";"))
  /\ UNCHANGED stack

ParseExternFunction ==
  /\ ExpectingItem /\ HasTags(Here) /\ ~IsImport
  /\ CompleteItemOrFail(Build(Consume(ParseFunctionHeader(Here), ";"), "extern", 3))
  /\ UNCHANGED stack

BeginFunction(header) ==
  \/ /\ header.ok
     /\ Advance(header)
     /\ stack' = <<Frame("definition", header.out)>>
     /\ expecting' = Statement
     /\ UNCHANGED <<program, isRecovering>>
  \/ ~header.ok /\ FailItem(header, isRecovering) /\ UNCHANGED stack

ParseFunctionDefinition ==
  /\ ExpectingItem /\ ~IsVariable /\ ~HasTags(Here) /\ ~IsImport
  /\ BeginFunction(ParseFunctionHeader(Here))

(* A function that has an empty expression for its body is an error.        *)
EndFunction ==
  /\ Parsed /\ Caller.kind = "definition"
  /\ stack' = Return
  /\ IF expecting = Empty THEN FailItem(Here, Caller.wereRecovering)
     ELSE CompleteItem(Here, Node("definition", Append(Caller.kids, expecting)))

EndProgram ==
  /\ Expecting(Item) /\ AtEnd(at)
  /\ phase' = "parsed"
  /\ UNCHANGED parserVars

-----------------------------------------------------------------------------
(* Statements without parts that are statements.                            *)
ReturnValue(s) == Consume(ParseExpression(s), ";")
ReturnStatement(s) ==
  Build(Try(Consume(ParseOptionalExpression(s), ";"), s, ReturnValue), "return", 1)

ParseReturn ==
  /\ Expecting(Statement) /\ Is("return")
  /\ CompleteOrFail(ReturnStatement(Skip(Here)))
  /\ UNCHANGED <<stack, program>>

ParseBreakOrSkip(kind) ==
  /\ Expecting(Statement) /\ Is(kind)
  /\ CompleteOrFail(Consume(Push(Skip(Here), Node(kind, <<>>)), ";"))
  /\ UNCHANGED <<stack, program>>

StatementKeywords == {"{", "return", "if", "while", "do", "for", "break", "skip"}

(* The tree of an expression statement is that of its expression.           *)
ParseExpressionStatement ==
  /\ Expecting(Statement) /\ \A type \in StatementKeywords : ~Is(type)
  /\ CompleteOrFail(Consume(ParseOptionalExpression(Here), ";"))
  /\ UNCHANGED <<stack, program>>

-----------------------------------------------------------------------------
(* Statements with parts: a header, behind which a statement follows.       *)
Condition(s) == Consume(ParseExpression(Consume(s, "(")), ")")

ForHeader(first) ==
  LET condition == ParseOptionalExpression(Consume(first, ";"))
      increment == ParseOptionalExpression(Consume(condition, ";"))
  IN Consume(increment, ")")

(* The form with a declaration is tried first.                              *)
ForLoopExpression(s) == ForHeader(ParseOptionalExpression(Consume(s, "(")))
ForLoop(s) ==
  Try(ForHeader(ParseVariableDeclaration(Consume(s, "("))), s, ForLoopExpression)

Header(kind) ==
  CASE kind \in {"if", "while"} -> Condition(Skip(Here))
    [] kind = "do"              -> Skip(Here)
    [] kind = "for"             -> ForLoop(Skip(Here))

BeginPart(kind, header) ==
  \/ /\ header.ok
     /\ Advance(header)
     /\ stack' = Append(stack, Frame(kind, header.out))
     /\ expecting' = Statement
     /\ UNCHANGED isRecovering
  \/ ~header.ok /\ Fail(header) /\ UNCHANGED stack

BeginStatement(kind) ==
  /\ Expecting(Statement) /\ Is(kind)
  /\ BeginPart(kind, Header(kind))
  /\ UNCHANGED program

EndLoop ==
  /\ Parsed /\ Caller.kind \in {"while", "for"}
  /\ stack' = Return
  /\ Complete(Here, Node(Caller.kind, Append(Caller.kids, expecting)))
  /\ UNCHANGED program

EndDoWhileLoop ==
  /\ Parsed /\ Caller.kind = "do"
  /\ stack' = Return
  /\ CompleteOrFail(Build(Consume(Condition(Consume(Push(Here, expecting), "while")), ";"), "do", 2))
  /\ UNCHANGED program

(* The conditions and statements of a chain are the children of one tree.   *)
ContinuePart(kind, kids) ==
  /\ stack' = [CallerKids(kids) EXCEPT ![Len(stack)].kind = kind]
  /\ expecting' = Statement
  /\ UNCHANGED isRecovering

ParseElif(condition, kids) ==
  \/ condition.ok /\ Advance(condition) /\ ContinuePart("if", kids \o condition.out)
  \/ ~condition.ok /\ Fail(condition) /\ stack' = Return

(* Behind else no other part follows.                                       *)
ContinueConditional ==
  /\ Parsed /\ Caller.kind = "if"
  /\ LET kids == Append(Caller.kids, expecting)
     IN \/ Is("elif") /\ ParseElif(Condition(Skip(Here)), kids)
        \/ Is("else") /\ Advance(Skip(Here)) /\ ContinuePart("else", kids)
        \/ /\ ~Is("elif") /\ ~Is("else")
           /\ Complete(Here, Node("if", kids))
           /\ stack' = Return
  /\ UNCHANGED program

EndElse ==
  /\ Parsed /\ Caller.kind = "else"
  /\ stack' = Return
  /\ Complete(Here, Node("if", Append(Caller.kids, expecting)))
  /\ UNCHANGED program

-----------------------------------------------------------------------------
(* parseBlock.                                                              *)
BeginBlock ==
  /\ Expecting(Statement) /\ Is("{")
  /\ Advance(Skip(Here))
  /\ stack' = Append(stack, Frame("block", <<>>))
  /\ expecting' = BlockItem
  /\ UNCHANGED <<program, isRecovering>>

BlockGoesOn == ~Is("}") /\ ~AtEnd(at)

(* wereRecovering is remembered while the item is parsed.                   *)
BeginBlockItem ==
  /\ Expecting(BlockItem) /\ BlockGoesOn /\ ~IsVariable
  /\ stack' = [stack EXCEPT ![Len(stack)].wereRecovering = isRecovering]
  /\ expecting' = Statement
  /\ UNCHANGED <<at, program, hasError, isRecovering, phase>>

(* A slip, for mutation: the first error is not kept either.                *)
KeepsNoError(tree, wereRecovering) == tree # ErrorNode

Keeps(tree, wereRecovering) == tree # ErrorNode \/ ~wereRecovering

EndBlockItem ==
  /\ Parsed /\ Caller.kind = "block"
  /\ stack' = IF Keeps(expecting, Caller.wereRecovering)
              THEN CallerKids(Append(Caller.kids, expecting)) ELSE stack
  /\ isRecovering' = (isRecovering /\ expecting = ErrorNode)
  /\ expecting' = BlockItem
  /\ UNCHANGED <<at, program, hasError, phase>>

(* A bad declaration ends the block: the parseStatement around catches it.  *)
AddDeclaration(s) ==
  \/ /\ s.ok
     /\ Advance(s)
     /\ stack' = CallerKids(Append(Caller.kids, Top(s)))
     /\ isRecovering' = FALSE
     /\ UNCHANGED expecting
  \/ ~s.ok /\ Fail(s) /\ stack' = Return

ParseDeclaration ==
  /\ Expecting(BlockItem) /\ BlockGoesOn /\ IsVariable
  /\ AddDeclaration(Consume(ParseVariableDeclaration(Here), ";"))
  /\ UNCHANGED program

EndBlock ==
  /\ Expecting(BlockItem) /\ ~BlockGoesOn
  /\ stack' = Return
  /\ CompleteOrFail(Consume(Push(Here, Node("block", Caller.kids)), "}"))
  /\ UNCHANGED program

Parse ==
  /\ \/ ParseImport \/ ParseGlobalVariableDefinition
     \/ ParseExternFunction \/ ParseFunctionDefinition
     \/ EndFunction \/ EndProgram
     \/ ParseReturn \/ ParseExpressionStatement
     \/ \E kind \in {"break", "skip"} : ParseBreakOrSkip(kind)
     \/ \E kind \in {"if", "while", "do", "for"} : BeginStatement(kind)
     \/ EndLoop \/ EndDoWhileLoop \/ ContinueConditional \/ EndElse
     \/ BeginBlock \/ BeginBlockItem \/ EndBlockItem \/ ParseDeclaration \/ EndBlock
  /\ UNCHANGED <<source, position, tokens, failed>>
=============================================================================
