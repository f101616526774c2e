--------------------------- MODULE ExpressionParser ---------------------------
(****************************************************************************)
(* The recursive descent of Parser for everything below a statement         *)
(* (compiler/src/frontend/Parser.cpp).                                      *)
(*                                                                          *)
(* A parsing function takes the state of the parser and returns the one it  *)
(* leaves: the token it is at, whether it returned or threw a ParsingError, *)
(* hasError, and the trees of what was parsed, the last on top.  Whatever   *)
(* follows a throw leaves the state alone.                                  *)
(*                                                                          *)
(* A leaf of a tree knows the position of its token.                        *)
(****************************************************************************)
EXTENDS Tokenizer

CONSTANTS
  MaxDigits   \* a number with more digits does not fit into 64 bits

ASSUME MaxDigits \in Nat

Node(kind, kids) == [kind |-> kind, kids |-> kids]
Empty == Node("empty", <<>>)
ErrorNode == Node("error", <<>>)         \* AstErrorStatement, AstErrorProgramItem
BadNumber == Node("bad number", <<>>)    \* AstErrorExpression

StateAt(p) == [at |-> p, ok |-> TRUE, hasError |-> FALSE, out |-> <<>>]

(* isAtEnd and match.  Reading a token behind the last one is fatal.        *)
AtEnd(p) == p > Len(tokens) \/ tokens[p].type = "EndOfFile"
Match(s, type) == s.ok /\ ~AtEnd(s.at) /\ tokens[s.at].type = type
MatchBoth(s, type, type2) == Match(s, type) /\ Match([s EXCEPT !.at = @ + 1], type2)

Throw(s) == [s EXCEPT !.ok = FALSE]
Skip(s) == [s EXCEPT !.at = @ + 1]
Consume(s, type) == IF Match(s, type) THEN Skip(s) ELSE Throw(s)

Push(s, tree) == IF s.ok THEN [s EXCEPT !.out = Append(@, tree)] ELSE s
Leaf(s, kind) == Push(s, [kind |-> kind, token |-> s.at])
Top(s) == s.out[Len(s.out)]

(* The last n trees become the children of a new one.                       *)
Build(s, kind, n) ==
  IF ~s.ok THEN s
  ELSE LET below == Len(s.out) - n
       IN [s EXCEPT !.out = Append(SubSeq(@, 1, below), Node(kind, SubSeq(@, below + 1, Len(@))))]

(* A checkpoint and a try: if what was tried at s threw, Else goes on from s; *)
(* only hasError is not taken back.                                         *)
Try(tried, s, Else(_)) == IF tried.ok THEN tried ELSE Else([s EXCEPT !.hasError = tried.hasError])

-----------------------------------------------------------------------------
(* The binary operators, from those that bind least.                        *)
(* A slip, for mutation: products bind like sums.                           *)
LevelsMerged ==
  << {"||"}, {"&&"}, {"==", "!="}, {">", ">=", "<", "<="}, {"+", "-", "*", "/", "%"}, {} >>

Levels ==
  << {"||"}, {"&&"}, {"==", "!="}, {">", ">=", "<", "<="}, {"+", "-"}, {"*", "/", "%"} >>

PrefixOperators == {"!", "-", "~", "$", "*"}

RECURSIVE ParseExpression(_), ParseBinaryExp(_, _), ParseOperators(_, _),
          ParsePrefixExp(_), ParseIndices(_), ParseList(_, _, _, _), ParseListBehind(_, _, _, _)

-----------------------------------------------------------------------------
ParseNumber(s) ==
  IF Match(s, "Number") /\ Len(tokens[s.at].text) > MaxDigits
  THEN Skip(Push([s EXCEPT !.hasError = TRUE], BadNumber))
  ELSE Consume(Leaf(s, "number"), "Number")

Escapes == {"n", "r", "t", "e", "b", "0", "\\"}

CharacterIsValid(text) ==
  \/ Len(text) = 3
  \/ Len(text) = 4 /\ text[2] = "\\" /\ text[3] \in Escapes

ParseCharacterLiteral(s) ==
  IF CharacterIsValid(tokens[s.at].text) THEN Skip(Leaf(s, "character")) ELSE Throw(s)

(* Every backslash, unless another one takes it along, begins an escape.    *)
StringIsValid(text) ==
  LET valid[i \in 2 .. Len(text) + 1] ==
        \/ i >= Len(text)
        \/ text[i] # "\\" /\ valid[i + 1]
        \/ text[i] = "\\" /\ i + 1 < Len(text) /\ text[i + 1] \in Escapes /\ valid[i + 2]
  IN valid[2]

ParseStringLiteral(s) ==
  IF StringIsValid(tokens[s.at].text) THEN Skip(Leaf(s, "string")) ELSE Throw(s)

(* Expressions up to the closing token; a comma may come before it.         *)
ParseList(s, close, kind, n) ==
  IF ~s.ok \/ Match(s, close) THEN Build(Consume(s, close), kind, n)
  ELSE ParseListBehind(ParseExpression(s), close, kind, n + 1)

ParseListBehind(e, close, kind, n) ==
  IF Match(e, ",") THEN ParseList(Skip(e), close, kind, n) ELSE Build(Consume(e, close), kind, n)

ParseArrayLiteral(s) == ParseList(Skip(s), "]", "array", 0)

ParseFunctionCall(s) == ParseList(Skip(Skip(Leaf(s, "function"))), ")", "call", 1)

ParsePrimaryExp(s) ==
  IF Match(s, "(") THEN Consume(ParseExpression(Skip(s)), ")")
  ELSE IF Match(s, "Number") THEN ParseNumber(s)
  ELSE IF Match(s, "[") THEN ParseArrayLiteral(s)
  ELSE IF Match(s, "CharacterLiteral") THEN ParseCharacterLiteral(s)
  ELSE IF Match(s, "StringLiteral") THEN ParseStringLiteral(s)
  ELSE IF Match(s, "Identifier") THEN Skip(Leaf(s, "variable"))
  ELSE Throw(s)

ParseIndices(s) ==
  IF Match(s, "[")
  THEN ParseIndices(Build(Consume(ParseExpression(Skip(s)), "]"), "index", 2))
  ELSE s

ParsePostfixExp(s) ==
  IF MatchBoth(s, "Identifier", "(") THEN ParseFunctionCall(s) ELSE ParseIndices(ParsePrimaryExp(s))

ParsePrefixExp(s) ==
  IF \E op \in PrefixOperators : Match(s, op)
  THEN Build(ParsePrefixExp(Skip(s)), tokens[s.at].type, 1)
  ELSE ParsePostfixExp(s)

-----------------------------------------------------------------------------
(* parseLogicalOrExp down to parseMultiplicativeExp.                        *)
ParseBinaryExp(s, level) ==
  IF level > Len(Levels) THEN ParsePrefixExp(s)
  ELSE ParseOperators(ParseBinaryExp(s, level + 1), level)

ParseOperators(s, level) ==
  IF \E op \in Levels[level] : Match(s, op)
  THEN ParseOperators(Build(ParseBinaryExp(Skip(s), level + 1), tokens[s.at].type, 2), level)
  ELSE s

ParseChoices(condition) ==
  IF Match(condition, "?")
  THEN Build(ParseExpression(Consume(ParseExpression(Skip(condition)), ":")), "?", 3)
  ELSE condition

ParseConditionalExpression(s) == ParseChoices(ParseBinaryExp(s, 1))

IsLocation(tree) ==
  \/ tree.kind \in {"variable", "index"}
  \/ tree.kind = "*" /\ Len(tree.kids) = 1

CheckLocation(s) == IF s.ok /\ ~IsLocation(Top(s)) THEN Throw(s) ELSE s
ParseAssignmentLocation(s) == CheckLocation(ParsePrefixExp(s))
ParseAssignment(s) == Build(ParseExpression(Consume(ParseAssignmentLocation(s), "=")), "=", 2)

(* What is no assignment is parsed again.                                   *)
ParseExpression(s) ==
  IF s.ok THEN Try(ParseAssignment(s), s, ParseConditionalExpression) ELSE s

NoExpression(s) == Push(s, Empty)
ParseOptionalExpression(s) ==
  IF s.ok THEN Try(ParseExpression(s), s, NoExpression) ELSE s

-----------------------------------------------------------------------------
RECURSIVE ParseType(_), ParseParameters(_, _), ParseTagNames(_), ParseNames(_, _)

ParseSize(element) ==
  IF Match(element, ",") THEN Build(Consume(ParseNumber(Skip(element)), "]"), "array type", 2)
  ELSE Build(Consume(element, "]"), "array type", 1)

ParseType(s) ==
  IF Match(s, "Typename") THEN Skip(Leaf(s, "type"))
  ELSE IF Match(s, "*") THEN Build(ParseType(Skip(s)), "pointer", 1)
  ELSE IF Match(s, "[") THEN ParseSize(ParseType(Skip(s)))
  ELSE Throw(s)

(* The trees of a declaration are its name, its type and its value, if any. *)
ParseName(s) == Consume(Leaf(s, "name"), "Identifier")

ParseValue(declared) ==
  IF Match(declared, "=") THEN Build(ParseExpression(Skip(declared)), "declaration", 3)
  ELSE Build(declared, "declaration", 2)

ParseVariableDeclaration(s) == ParseValue(ParseType(Consume(ParseName(s), ":")))

ParseSeparator(s) == IF Match(s, ")") THEN s ELSE Consume(s, ",")
ParseParameters(s, n) ==
  IF ~s.ok \/ Match(s, ")") THEN Build(Consume(s, ")"), "parameters", n)
  ELSE ParseParameters(ParseSeparator(ParseVariableDeclaration(s)), n + 1)

ParseParameterList(s) == ParseParameters(Consume(s, "("), 0)

(* Tags; extern is the only one.                                            *)
Extern == <<"e", "x", "t", "e", "r", "n">>

ParseTag(s) ==
  IF Match(s, "Identifier") /\ tokens[s.at].text # Extern THEN Throw(Skip(s))
  ELSE Consume(s, "Identifier")

ParseTagNames(s) ==
  IF MatchBoth(s, "Identifier", ",") THEN ParseTagNames(Consume(ParseTag(s), ","))
  ELSE Consume(ParseTag(s), "]")

HasTags(s) == Match(s, "[")
ParseTags(s) == IF HasTags(s) THEN ParseTagNames(Skip(s)) ELSE s

ParseFunctionHeader(s) ==
  ParseType(Consume(ParseParameterList(ParseName(ParseTags(s))), ":"))

(* The text of an import; ImportResolution has what it does.                *)
ParseNames(s, separator) ==
  IF MatchBoth(s, "Identifier", separator) THEN ParseNames(Skip(Skip(s)), separator)
  ELSE Consume(s, "Identifier")

ParseImported(s) == IF Match(s, "*") THEN Skip(s) ELSE ParseNames(s, ",")
ParseImportStatement(s) ==
  Push(Consume(ParseNames(Consume(ParseImported(s), "@"), "::"), ";"), Node("import", <<>>))
=============================================================================
