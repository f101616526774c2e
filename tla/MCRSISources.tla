----------------------------- MODULE MCRSISources -----------------------------
(* Functions f(n) for RSIGeneration, with two local variables and a global, *)
(* of the one size of integers that RSI has.                                *)
EXTENDS MCSyntaxTrees

n == Variable("n")
a == Variable("a")
b == Variable("b")
x == Variable("x")

(* The functions that are called, and how many parameters they have.        *)
Parameters == [f \in {"g", "g2", "g3", "h", "h1"} |->
                 CASE f = "h" -> 0 [] f \in {"g", "h1"} -> 1 [] f = "g2" -> 2 [] f = "g3" -> 3]

(* Operands of which the order of evaluation matters.                       *)
Simple == {Integer(2), a, x}
Effects == {Set(a, Integer(3)), Set(b, a), Set(x, Integer(2)), CallOf("g", <<a>>), CallOf("h", <<>>)}

Operators == {"SUBTRACT", "LESS_THAN", "LogicalOr", "LogicalAnd"}

Pairs == {Binary(o, l, r) : o \in Operators, l, r \in Simple \cup Effects}
Triples == {Binary(o, e, n) : o \in Operators, e \in Pairs} \cup {Binary(o, n, e) : o \in Operators, e \in Pairs}

Deep ==
  {Binary("SUBTRACT", Binary(o, n, l), Binary(p, r, b)) : o, p \in Operators, l, r \in {a, CallOf("h", <<>>), Set(b, a)}}
  \cup {If(c, t, f) : c \in {n, Set(a, n), Binary("LogicalOr", n, Set(b, n))},
                      t, f \in {Integer(3), CallOf("g", <<b>>), If(a, b, x)}}
  \cup {CallOf("g3", <<l, CallOf("h1", <<r>>), a>>) : l, r \in {n, Set(a, Integer(3)), Binary("MULTIPLY", a, a)}}
  \cup {Unary(o, e) : o \in {"NEGATE", "BINARY_NOT", "LOGICAL_NOT"}, e \in {a, CallOf("h", <<>>)}}

(* { a = n; b; x = 1; return e - a; }                                       *)
Returning(e) ==
  Block(<<Declare("a", n), Declare("b", NoNode), Statement(Set(x, Integer(1))),
          ReturnOf(Binary("SUBTRACT", e, a))>>)

(* { a = n; x = a; *$a = e; b = *$a; return b - a; }                        *)
Pointing(e) ==
  Block(<<Declare("a", n), Statement(Set(x, a)), Statement(Set(Dereference(AddressOf("a")), e)),
          Declare("b", Dereference(AddressOf("a"))), ReturnOf(Binary("SUBTRACT", b, a))>>)

(* Statements in the body of a loop that counts a up.                       *)
Count == Statement(Set(a, Binary("ADD", a, Integer(1))))
Exits == {Break, Skip, ReturnOf(a), Statement(CallOf("g", <<a>>)),
          Block(<<Declare("j", a), Statement(Set(x, Variable("j")))>>)}
Bodies == {Block(<<Count, When(Binary("LESS_THAN", c, Integer(2)), t, f), Statement(Set(b, a))>>) :
             c \in {a, n}, t \in Exits, f \in {NoNode, Break, Statement(CallOf("h", <<>>))}}

Below == Binary("LESS_THAN", a, Integer(3))
LoopsOver(body) ==
  {While(Below, body), DoWhile(body, Below),
   For(Declare("i", Integer(0)), Binary("LESS_THAN", Variable("i"), Integer(3)),
       Set(Variable("i"), Binary("ADD", Variable("i"), Integer(1))), body),
   For(Empty, Empty, Set(x, a), Block(<<When(Below, NoNode, Break), body>>))}

Inner == {While(Below, Block(<<Count, When(n, Break, Skip)>>)),
          For(Set(a, Integer(0)), Below, Set(a, Binary("ADD", a, Integer(1))), When(n, Skip, Break))}

Looping(statement) ==
  Block(<<Declare("a", Integer(0)), Declare("b", NoNode), statement, Statement(CallOf("g2", <<a, b>>))>>)

AllBodies ==
  {Returning(e) : e \in Pairs \cup Triples \cup Deep}
  \cup {Pointing(e) : e \in {Integer(2), Binary("ADD", a, Integer(1))}}
  \cup {Looping(loop) : loop \in UNION {LoopsOver(body) : body \in Bodies}}
  \cup {Looping(loop) : loop \in UNION {LoopsOver(Block(<<Count, inner, Statement(Set(b, a))>>)) : inner \in Inner}}

AllSources ==
  {[globals |-> ("x" :> IF k = 0 THEN NoNode ELSE Integer(2)), parameters |-> <<"n">>, inputs |-> <<k>>, body |-> body,
    types |-> [v \in {"n", "a", "b", "i", "j", "x"} |-> I64], returns |-> I64,
    functions |-> [f \in DOMAIN Parameters |-> [returns |-> I64, parameters |-> [i \in 1 .. Parameters[f] |-> I64]]]] :
     k \in {0, 3}, body \in AllBodies}
==============================================================================
