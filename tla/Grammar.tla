------------------------------- MODULE Grammar -------------------------------
(****************************************************************************)
(* The grammar of R-Sharp (grammar.ebnf) as sets of sentences with their    *)
(* trees, up to a length.  It differs from grammar.ebnf where the tests of  *)
(* the repository or the parser do:                                         *)
(*  - a variable is declared in a block or in a for loop, and globally; it  *)
(*    is no statement by itself;                                            *)
(*  - a list of expressions or parameters may end in a comma;               *)
(*  - a parameter may have a value; only a variable, an element of an array *)
(*    or what a pointer leads to is assigned;                               *)
(*  - the body of a function is not ";", an external function has none.     *)
(*                                                                          *)
(* A sentence is a word, the sequence of the types of its tokens, and the   *)
(* trees in it.  A leaf has the position of its token in the word.  The     *)
(* name extern is a word of its own and stands for nothing but the tag.     *)
(****************************************************************************)
EXTENDS Naturals, Sequences, FiniteSets

Tree(kind, kids) == [kind |-> kind, kids |-> kids]

RECURSIVE Shift(_, _)
Shift(tree, k) ==
  IF "token" \in DOMAIN tree THEN [tree EXCEPT !.token = @ + k]
  ELSE [tree EXCEPT !.kids = [i \in DOMAIN @ |-> Shift(@[i], k)]]

Concat(a, b) ==
  [word  |-> a.word \o b.word,
   trees |-> a.trees \o [i \in DOMAIN b.trees |-> Shift(b.trees[i], Len(a.word))]]

(* Sets of sentences of at most n tokens.                                   *)
Nothing == {[word |-> <<>>, trees |-> <<>>]}
Tok(type) == {[word |-> <<type>>, trees |-> <<>>]}
LeafOf(kind, type) == {[word |-> <<type>>, trees |-> <<[kind |-> kind, token |-> 1]>>]}
EmptyTree == {[word |-> <<>>, trees |-> <<Tree("empty", <<>>)>>]}
As(kind, A) == {[word |-> a.word, trees |-> <<Tree(kind, a.trees)>>] : a \in A}

Cat(n, A, B) ==
  UNION {LET heads == {a \in A : Len(a.word) = k}
             tails == {b \in B : k + Len(b.word) <= n}
         IN {Concat(a, b) : a \in heads, b \in tails} : k \in 0 .. n}
Cat3(n, A, B, C) == Cat(n, Cat(n, A, B), C)

(* At most k + 1 of A, with separators between them.                        *)
RECURSIVE Lists(_, _, _, _)
Lists(n, separators, A, k) ==
  IF k = 0 THEN A ELSE A \cup Cat(n, Lists(n, separators, A, k - 1), Cat(n, separators, A))

Listed(n, A) ==
  LET some == Lists(n, Tok(","), A, n \div 2)
  IN Nothing \cup some \cup Cat(n, some, Tok(","))

-----------------------------------------------------------------------------
(* Operators of one level associate to the left.                            *)
RECURSIVE Operations(_, _, _, _)
Operations(n, ops, A, k) ==
  IF k = 0 THEN A
  ELSE A \cup UNION {As(op, Cat3(n, Operations(n, ops, A, k - 1), Tok(op), A)) : op \in ops}

RECURSIVE Prefixed(_, _, _, _)
Prefixed(n, ops, A, k) ==
  IF k = 0 THEN A ELSE A \cup UNION {As(op, Cat(n, Tok(op), Prefixed(n, ops, A, k - 1))) : op \in ops}

RECURSIVE Indexed(_, _, _, _)
Indexed(n, A, E, k) ==
  IF k = 0 THEN A
  ELSE A \cup As("index", Cat(n, Cat3(n, Indexed(n, A, E, k - 1), Tok("["), E), Tok("]")))

Assignable(sentence) ==
  LET tree == sentence.trees[1] IN
  \/ tree.kind \in {"variable", "index"}
  \/ tree.kind = "*" /\ Len(tree.kids) = 1

(* Expressions of words over the types T, with those of E inside brackets.  *)
ExpressionsAround(n, T, E) ==
  LET primary    == LeafOf("variable", "Identifier") \cup LeafOf("number", "Number")
                    \cup LeafOf("character", "CharacterLiteral") \cup LeafOf("string", "StringLiteral")
                    \cup Cat3(n, Tok("("), E, Tok(")"))
                    \cup As("array", Cat3(n, Tok("["), Listed(n, E), Tok("]")))
      call       == As("call", Cat(n, Cat(n, LeafOf("function", "Identifier"), Tok("(")),
                                      Cat(n, Listed(n, E), Tok(")"))))
      overT(S)   == {s \in S : \A i \in DOMAIN s.word : s.word[i] \in T}
      postfix    == overT(Indexed(n, primary, E, n \div 3) \cup call)
      prefix     == Prefixed(n, {"!", "-", "~", "$", "*"} \cap T, postfix, n)
      product    == Operations(n, {"*", "/", "%"} \cap T, prefix, n \div 2)
      sum        == Operations(n, {"+", "-"} \cap T, product, n \div 2)
      relation   == Operations(n, {"<", ">", "<=", ">="} \cap T, sum, n \div 2)
      equality   == Operations(n, {"==", "!="} \cap T, relation, n \div 2)
      and        == Operations(n, {"&&"} \cap T, equality, n \div 2)
      or         == Operations(n, {"||"} \cap T, and, n \div 2)
      choice     == or \cup As("?", Cat3(n, Cat3(n, or, Tok("?"), E), Tok(":"), E))
      assignment == As("=", Cat3(n, {s \in prefix : Assignable(s)}, Tok("="), E))
  IN overT(choice \cup assignment)

RECURSIVE ExpressionsNested(_, _, _)
ExpressionsNested(n, T, k) ==
  ExpressionsAround(n, T, IF k = 0 THEN {} ELSE ExpressionsNested(n, T, k - 1))

Expressions(n, T) == ExpressionsNested(n, T, n \div 2)

-----------------------------------------------------------------------------
Type == LeafOf("type", "Typename")

Declaration(n, E) ==
  LET declared == Cat3(n, LeafOf("name", "Identifier"), Tok(":"), Type)
  IN As("declaration", declared \cup Cat3(n, declared, Tok("="), E))

(* Statements whose parts are those of S.                                   *)
StatementsAround(n, E, S) ==
  LET optional    == E \cup EmptyTree
      inParens(A) == Cat3(n, Tok("("), A, Tok(")"))
      simple      == Cat(n, optional, Tok(";"))
                     \cup As("return", Cat3(n, Tok("return"), optional, Tok(";")))
                     \cup As("break", Cat(n, Tok("break"), Tok(";")))
                     \cup As("skip", Cat(n, Tok("skip"), Tok(";")))
      item        == S \cup Cat(n, Declaration(n, E), Tok(";"))
      block       == As("block", Cat3(n, Tok("{"), Nothing \cup Lists(n, Nothing, item, n), Tok("}")))
      part(word)  == Cat3(n, Tok(word), inParens(E), S)
      conditional == LET chain == Lists(n, Nothing, part("elif"), n \div 5)
                         ifs   == part("if") \cup Cat(n, part("if"), chain)
                     IN As("if", ifs \cup Cat3(n, ifs, Tok("else"), S))
      while       == As("while", part("while"))
      do          == As("do", Cat(n, Cat3(n, Tok("do"), S, Tok("while")), Cat(n, inParens(E), Tok(";"))))
      for         == As("for", Cat3(n, Tok("for"),
                       inParens(Cat(n, Cat3(n, optional \cup Declaration(n, E), Tok(";"), optional),
                                       Cat(n, Tok(";"), optional))), S))
  IN simple \cup block \cup conditional \cup while \cup do \cup for

RECURSIVE StatementsNested(_, _, _)
StatementsNested(n, E, k) ==
  StatementsAround(n, E, IF k = 0 THEN {} ELSE StatementsNested(n, E, k - 1))

Statements(n, E) == StatementsNested(n, E, n \div 2)

-----------------------------------------------------------------------------
(* Program items, and programs of at most three of them.                     *)
Header(n, E) ==
  LET parameters == As("parameters", Cat3(n, Tok("("), Listed(n, Declaration(n, E)), Tok(")")))
  IN Cat3(n, Cat(n, LeafOf("name", "Identifier"), parameters), Tok(":"), Type)

Function(n, E, S) == As("definition", Cat(n, Header(n, E), {s \in S : s.word # <<";">>}))

Extern(n, E) ==
  LET tags == Cat3(n, Tok("["), Lists(n, Tok(","), Tok("extern"), n), Tok("]"))
  IN As("extern", Cat3(n, tags, Header(n, E), Tok(";")))

Import(n) ==
  LET names == Tok("*") \cup Lists(n, Tok(","), Tok("Identifier"), n)
      path  == Lists(n, Tok("::"), Tok("Identifier"), n)
  IN As("import", Cat(n, Cat3(n, names, Tok("@"), path), Tok(";")))

Items(n, E, S) ==
  Function(n, E, S) \cup Extern(n, E) \cup Import(n) \cup Cat(n, Declaration(n, E), Tok(";"))

Programs(n, E, S) ==
  LET items == Items(n, E, S) IN Nothing \cup Lists(n, Nothing, items, 2)
=============================================================================
