------------------------------ MODULE Tokenizer ------------------------------
(****************************************************************************)
(* Tokenizer::tokenize and nextToken (compiler/src/frontend/Tokenizer.cpp). *)
(* A source is a sequence of characters, a token its type and its text.     *)
(* The type of a token with one spelling is that spelling.  Comments are    *)
(* read and dropped.  Any error makes tokenize stop the compiler in the     *)
(* end, or earlier, when there are too many of them.                        *)
(****************************************************************************)
EXTENDS Integers, Sequences, FiniteSets

CONSTANTS
  Letters,   \* validIdentifierBegin
  Digits,    \* numbers
  Blanks,    \* what std::isspace accepts
  Sources    \* the files

ASSUME CharactersDiffer ==
  /\ Letters \cap Digits = {} /\ Letters \cap Blanks = {} /\ Digits \cap Blanks = {}
  /\ "\n" \in Blanks

VARIABLES
  source,
  position,   \* currentPosition: how many characters were consumed
  tokens,
  failed,     \* whether logError was called
  phase

tokenizerVars == <<source, position, tokens, failed, phase>>

-----------------------------------------------------------------------------
(* The spellings nextToken tries, in its order: keywords, which must not go *)
(* on as an identifier, and symbols.                                        *)
Keywords ==
  << <<"if",     <<"i", "f">>>>,
     <<"elif",   <<"e", "l", "i", "f">>>>,
     <<"else",   <<"e", "l", "s", "e">>>>,
     <<"return", <<"r", "e", "t", "u", "r", "n">>>>,
     <<"while",  <<"w", "h", "i", "l", "e">>>>,
     <<"for",    <<"f", "o", "r">>>>,
     <<"do",     <<"d", "o">>>>,
     <<"break",  <<"b", "r", "e", "a", "k">>>>,
     <<"skip",   <<"s", "k", "i", "p">>>>,
     <<"Typename", <<"i", "8">>>>,
     <<"Typename", <<"i", "1", "6">>>>,
     <<"Typename", <<"i", "3", "2">>>>,
     <<"Typename", <<"i", "6", "4">>>>,
     <<"Typename", <<"c", "_", "v", "o", "i", "d">>>> >>

Single(symbol) == <<symbol, <<symbol>>>>

Symbols ==
  << Single("@"), <<"::", <<":", ":">>>>,
     Single(";"), Single(","), Single(":"),
     Single("("), Single(")"), Single("["), Single("]"), Single("{"), Single("}"),
     <<"&&", <<"&", "&">>>>, <<"||", <<"|", "|">>>>, <<"==", <<"=", "=">>>>,
     <<"!=", <<"!", "=">>>>, <<"<=", <<"<", "=">>>>, <<">=", <<">", "=">>>>,
     Single("<"), Single(">"), Single("!"), Single("~"), Single("?"),
     Single("+"), Single("-"), Single("*"), Single("/"), Single("%"),
     Single("="), Single("$") >>

Alternatives == Keywords \o Symbols

IdentifierChars == Letters \cup Digits
Comments == << <<<<"/", "/">>, <<"\n">>>>, <<<<"/", "*">>, <<"*", "/">>>> >>
Quotes == {"'", "\""}

-----------------------------------------------------------------------------
(* match, with p characters consumed.                                       *)
TextAtEnd(p) == p >= Len(source)
MatchesText(p, text) ==
  p + Len(text) <= Len(source) /\ \A i \in DOMAIN text : source[p + i] = text[i]
MatchesAny(p, chars) == ~TextAtEnd(p) /\ source[p + 1] \in chars

(* Where consumeAny stops.                                                  *)
EndOfRun(p, chars) ==
  CHOOSE q \in p .. Len(source) :
    ~MatchesAny(q, chars) /\ \A r \in p .. q - 1 : MatchesAny(r, chars)

(* A slip, for mutation: a keyword may go on as an identifier.              *)
SpelledAtStart(p) ==
  {i \in 1 .. Len(Alternatives) : MatchesText(p, Alternatives[i][2])}

SpelledAt(p) ==
  {i \in 1 .. Len(Alternatives) :
     /\ MatchesText(p, Alternatives[i][2])
     /\ i <= Len(Keywords) => ~MatchesAny(p + Len(Alternatives[i][2]), IdentifierChars)}

First(numbers) == CHOOSE n \in numbers : \A m \in numbers : n <= m

Reading == phase = "tokenizing" /\ ~TextAtEnd(position)
AtComment(c) == MatchesText(position, Comments[c][1])
AtLiteral == MatchesAny(position, Quotes)
AtAnyComment == \E c \in DOMAIN Comments : AtComment(c)

EndOfFile == [type |-> "EndOfFile", text |-> <<>>]

(* A token from here to q.                                                  *)
Read(type, q) ==
  /\ tokens' = Append(tokens, [type |-> type, text |-> SubSeq(source, position + 1, q)])
  /\ position' = q
  /\ UNCHANGED <<source, failed, phase>>

-----------------------------------------------------------------------------
(* Where the text that ends a comment begins.                               *)
EndsOfComment(c) ==
  {q \in position + Len(Comments[c][1]) .. Len(source) : MatchesText(q, Comments[c][2])}

ReadComment(c) ==
  /\ Reading /\ AtComment(c) /\ EndsOfComment(c) # {}
  /\ position' = First(EndsOfComment(c)) + Len(Comments[c][2])
  /\ UNCHANGED <<source, tokens, failed, phase>>

(* consumeUntil does not stop at the end of the text: no position behind it *)
(* matches, and the loop reads and appends on until the process dies.       *)
RunOff(c) ==
  /\ Reading /\ AtComment(c) /\ EndsOfComment(c) = {}
  /\ phase' = "crashed"
  /\ UNCHANGED <<source, position, tokens, failed>>

(* Where the closing quote of a literal lies, with p characters consumed; a *)
(* backslash takes the character behind it along, even the end of the text. *)
EndOfLiteral(quote) ==
  LET end[p \in position + 1 .. Len(source) + 1] ==
        IF TextAtEnd(p) \/ source[p + 1] = quote THEN p
        ELSE end[IF source[p + 1] = "\\" THEN p + 2 ELSE p + 1]
  IN end[position + 1]

ReadLiteral ==
  LET quote == source[position + 1]
      end   == EndOfLiteral(quote)
      type  == IF quote = "'" THEN "CharacterLiteral" ELSE "StringLiteral"
  IN /\ Reading /\ AtLiteral
     /\ IF TextAtEnd(end)
        THEN /\ tokens' = Append(tokens, [type |-> type, text |-> SubSeq(source, position + 1, Len(source))])
             /\ position' = end
             /\ failed' = TRUE
             /\ UNCHANGED <<source, phase>>
        ELSE Read(type, end + 1)

ReadSpelling ==
  /\ Reading /\ ~AtAnyComment
  /\ LET spelled  == SpelledAt(position)
         spelling == Alternatives[First(spelled)]
     IN spelled # {} /\ Read(spelling[1], position + Len(spelling[2]))

ReadIdentifier ==
  /\ Reading /\ MatchesAny(position, Letters) /\ SpelledAt(position) = {}
  /\ Read("Identifier", EndOfRun(position, IdentifierChars))

ReadNumber ==
  /\ Reading /\ MatchesAny(position, Digits)
  /\ Read("Number", EndOfRun(position, Digits))

(* Behind blanks nextToken goes on; at the end of the text it returns an    *)
(* end of file, to which tokenize appends another one.                      *)
SkipTo(q) ==
  /\ position' = q
  /\ tokens' = IF TextAtEnd(q) THEN Append(tokens, EndOfFile) ELSE tokens
  /\ UNCHANGED <<source, phase>>

SkipBlanks ==
  /\ Reading /\ MatchesAny(position, Blanks)
  /\ SkipTo(EndOfRun(position, Blanks))
  /\ UNCHANGED failed

UnexpectedCharacter ==
  /\ Reading
  /\ ~AtLiteral /\ ~MatchesAny(position, IdentifierChars \cup Blanks)
  /\ SpelledAt(position) = {}
  /\ SkipTo(position + 1)
  /\ failed' = TRUE

EndTokens ==
  /\ phase = "tokenizing" /\ TextAtEnd(position)
  /\ tokens' = Append(tokens, EndOfFile)
  /\ phase' = IF failed THEN "fatal" ELSE "parsing"
  /\ UNCHANGED <<source, position, failed>>

TokenizerInit ==
  /\ source \in Sources
  /\ position = 0
  /\ tokens = <<>>
  /\ failed = FALSE
  /\ phase = "tokenizing"

Tokenize ==
  \/ \E c \in DOMAIN Comments : ReadComment(c) \/ RunOff(c)
  \/ ReadLiteral \/ ReadSpelling \/ ReadIdentifier \/ ReadNumber
  \/ SkipBlanks \/ UnexpectedCharacter
  \/ EndTokens
=============================================================================
