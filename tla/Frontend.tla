------------------------------- MODULE Frontend -------------------------------
(****************************************************************************)
(* Tokenizer and Parser one after the other, as main calls them, beside the *)
(* sentences of the language they are to recognise.                         *)
(****************************************************************************)
EXTENDS Parser

CONSTANTS
  Sentences   \* the programs of the Grammar: words with their trees

Init == TokenizerInit /\ ParserInit

Ended == phase \in {"parsed", "fatal", "crashed"} /\ UNCHANGED vars

Next ==
  \/ Tokenize /\ UNCHANGED parserVars
  \/ Parse
  \/ Ended

(* The compiler goes on as long as it can.  Parse can go on just as long as *)
(* the phase is parsing, or the model would deadlock; said like this, the   *)
(* fairness of Parse needs no ENABLED of the recursive descent.             *)
Fairness ==
  /\ WF_vars(Tokenize /\ UNCHANGED parserVars)
  /\ []<>(phase # "parsing") \/ []<><<Parse>>_vars

Spec == Init /\ [][Next]_vars /\ Fairness

-----------------------------------------------------------------------------
Spellings == {Alternatives[i][2] : i \in DOMAIN Alternatives}
KeywordTexts == {Keywords[i][2] : i \in DOMAIN Keywords}

(* A lexeme that begins behind p characters ends at q.                      *)
IsLexeme(p, q) ==
  LET text == SubSeq(source, p + 1, q)
      inside(chars) == \A i \in DOMAIN text : text[i] \in chars
  IN \/ text \in Spellings
     \/ text[1] \in Letters /\ inside(IdentifierChars)
     \/ inside(Digits)

(* A token that is no literal is the longest lexeme there is at its place,  *)
(* and a keyword is no identifier: the order in which nextToken tries the   *)
(* spellings, and the character it looks at behind a keyword, must achieve  *)
(* that together.                                                           *)
LongestLexeme ==
  [][Len(tokens') > Len(tokens) /\ tokens'[Len(tokens')].type \notin {"EndOfFile", "CharacterLiteral", "StringLiteral"}
     => /\ IsLexeme(position, position')
        /\ \A q \in position' + 1 .. Len(source) : ~IsLexeme(position, q)
        /\ LET token == tokens'[Len(tokens')]
           IN token.type = "Identifier" => token.text \notin KeywordTexts]_vars

-----------------------------------------------------------------------------
(* The word of a source; a number that does not fit is none.                *)
TypeInWord(token) ==
  IF token.type = "Number" /\ Len(token.text) > MaxDigits THEN "bad number"
  ELSE IF token.text = Extern THEN "extern" ELSE token.type

Word ==
  LET types == [i \in DOMAIN tokens |-> TypeInWord(tokens[i])]
      isToken(type) == type # "EndOfFile"
  IN SelectSeq(types, isToken)

Accepted == phase = "parsed" /\ ~hasError
Refused == (phase = "parsed" /\ hasError) \/ (phase = "fatal" /\ ~failed)

(* The parser accepts the sentences of the language and nothing else, and   *)
(* gives each of them the tree the grammar gives it: precedence, the side   *)
(* to which operators associate, the branch an else belongs to, what is an  *)
(* assignment.  Recovery from an error never turns what is wrong into a     *)
(* program.                                                                 *)
TreesOfTheGrammar ==
  LET word == Word
  IN /\ Accepted => [word |-> word, trees |-> program] \in Sentences
     /\ Refused => \A s \in Sentences : s.word # word

RECURSIVE HasErrorNode(_)
HasErrorNode(tree) ==
  \/ tree \in {ErrorNode, BadNumber}
  \/ "kids" \in DOMAIN tree /\ \E i \in DOMAIN tree.kids : HasErrorNode(tree.kids[i])

(* main stops with an error if hasErrors says so and prints the errors that *)
(* are in the tree: none of the errors that were caught may get lost with   *)
(* the nodes recovery throws away, and none may be in a tree that counts as *)
(* correct.                                                                 *)
ErrorsAreShown ==
  phase = "parsed" => hasError = \E i \in DOMAIN program : HasErrorNode(program[i])

-----------------------------------------------------------------------------
(* Whatever begins like a comment is followed by what ends one.             *)
CommentsAreClosed ==
  \A p \in 0 .. Len(source), c \in DOMAIN Comments :
    MatchesText(p, Comments[c][1]) => \E q \in p + 2 .. Len(source) : MatchesText(q, Comments[c][2])

(* Every source is read to its end and parsed or refused, recovery from     *)
(* errors included, unless a comment is open at the end of the file.        *)
ParsingEnds == CommentsAreClosed => <>(phase \in {"parsed", "fatal"})
=============================================================================
