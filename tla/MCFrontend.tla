------------------------------ MODULE MCFrontend ------------------------------
(****************************************************************************)
(* Sources for the frontend: words spelled in characters, every one of a    *)
(* few tokens of expressions, the sentences of the grammar, sentences with  *)
(* one token missing, added or replaced, several items, and short texts of  *)
(* the characters that begin or end comments, literals and operators.       *)
(****************************************************************************)
EXTENDS Frontend, SequencesExt

G == INSTANCE Grammar

MCLetters == {"a", "b", "c", "d", "e", "f", "h", "i", "k", "l", "n", "o", "p", "r", "s", "t", "u", "v", "w", "x", "_"}
MCDigits == {"1", "6", "3", "2", "4", "8"}
MCBlanks == {" ", "\n"}

-----------------------------------------------------------------------------
Spelling(type) ==
  CASE type = "Identifier" -> <<"x">>
    [] type = "extern"     -> Extern
    [] type = "Number"     -> <<"1">>
    [] type = "bad number" -> <<"1", "1">>
    [] type = "CharacterLiteral" -> <<"'", "\\", "n", "'">>
    [] type = "StringLiteral"    -> <<"\"", "a", "\"">>
    [] OTHER -> (CHOOSE a \in Range(Alternatives) : a[1] = type)[2]

Separators == {"(", ")", "[", "]", "{", "}", ";", ","}

Glued(text, next) ==
  LET a == text[Len(text)]
      b == next[1]
  IN IF \/ a \in Separators \/ b \in Separators
        \/ (a \in IdentifierChars) # (b \in IdentifierChars)
     THEN text \o next
     ELSE text \o <<" ">> \o next

Spelled(word) ==
  LET add(text, type) == IF text = <<>> THEN Spelling(type) ELSE Glued(text, Spelling(type))
  IN FoldLeft(add, <<>>, word)

-----------------------------------------------------------------------------
Var == "Identifier"
InFunction(body) == <<Var, "(", ")", ":", "Typename">> \o body

(* Expressions: all words of three tokens, all sentences of five.           *)
ExpressionTypes ==
  {Var, "Number", "(", ")", "[", "]", ",", "=", "?", ":", "*", "-", "+", "==", "<", "&&", "||", "$"}

ExpressionWords == SeqOf(ExpressionTypes, 2) \cup [1 .. 3 -> ExpressionTypes \ {"Number", "==", "<", "||", "$"}]
Terms == G!Expressions(5, ExpressionTypes)
Returned(word) == InFunction(<<"return">> \o word \o <<";">>)

(* Statements of seven tokens, with calls in them; conditionals in others.  *)
Variable == G!LeafOf("variable", Var)
Inner == G!Expressions(4, {Var, "(", ")"})
Bodies == G!Statements(7, Inner)
Nothing == G!Cat(1, G!EmptyTree, G!Tok(";"))
Nested ==
  LET small == {s \in G!StatementsAround(8, Variable, Nothing) : s.word[1] \in {"if", "while"}}
  IN G!StatementsAround(12, Variable, Nothing \cup small) \ Nothing

(* Programs of two items around the smallest bodies.                        *)
Blocks == G!As("block", G!Cat(2, G!Tok("{"), G!Tok("}")))
SmallPrograms == G!Programs(16, Variable, Blocks)

(* What is wrong in one token.                                              *)
Slips == {Var, ";", ":", "(", "{", "}", "else"}
Spoiled(word) ==
  {RemoveAt(word, i) : i \in DOMAIN word}
  \cup {InsertAt(word, i, slip) : i \in 1 .. Len(word) + 1, slip \in Slips}
  \cup {ReplaceAt(word, i, slip) : i \in DOMAIN word, slip \in Slips}

SpoiledBodies ==
  UNION {Spoiled(s.word) : s \in G!Statements(6, Variable)}
SpoiledPrograms ==
  UNION {{RemoveAt(s.word, i) : i \in DOMAIN s.word} : s \in G!Programs(12, Variable, Blocks)}

(* Literals, numbers that do not fit, types, headers of for loops.          *)
Samples ==
  {Returned(<<"CharacterLiteral", "+", "StringLiteral">>),
   Returned(<<"bad number">>), Returned(<<Var, "=", "bad number">>),
   InFunction(<<"for", "(", Var, ":", "Typename", "=", "bad number", ";", ";", ")", ";">>),
   InFunction(<<"{", Var, ":", "[", "*", "Typename", ",", "bad number", "]", ";", "}">>)}

MCWords ==
  {Returned(w) : w \in ExpressionWords} \cup {Returned(s.word) : s \in Terms}
  \cup {InFunction(s.word) : s \in Bodies \cup Nested}
  \cup {InFunction(w) : w \in SpoiledBodies}
  \cup {s.word : s \in SmallPrograms} \cup SpoiledPrograms \cup Samples

Characters == {"/", "*", "\n", "'", "\\", "=", "i", "f"}
AllSources == {Spelled(w) : w \in MCWords} \cup SeqOf(Characters, 4)
MCSources == AllSources

(* Everything above that is a sentence.                                     *)
AllSentences ==
  G!Programs(8 + 5, Inner, Bodies) \cup SmallPrograms
  \cup LET header == G!Header(5, {})
           function(s) == G!As("definition", G!Cat(20, header, s))
           literals == G!Expressions(3, {"CharacterLiteral", "StringLiteral", "+"})
           return(e) == G!As("return", G!Cat(7, G!Cat(6, G!Tok("return"), e), G!Tok(";")))
       IN function(Nested \cup return(Terms \cup literals))
MCSentences == AllSentences
=============================================================================
