SPECIFICATION Spec
CONSTANTS
  Letters <- MCLetters
  Digits <- MCDigits
  Blanks <- MCBlanks
  MaxDigits = 1
  Sources <- MCSources
  Sentences <- MCSentences
INVARIANTS TreesOfTheGrammar ErrorsAreShown
PROPERTIES LongestLexeme ParsingEnds
