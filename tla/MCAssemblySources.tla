-------------------------- MODULE MCAssemblySources --------------------------
(* Functions for NASMGeneration and AArch64Generation, with variables of    *)
(* every size.                                                              *)
EXTENDS MCSyntaxTrees, SyntaxTree

m == Variable("m")
n == Variable("n")
a == Variable("a")
b == Variable("b")
p == Variable("p")
x == Variable("x")

Signatures ==
  [g |-> [returns |-> I64, parameters |-> <<Primitive("i8"), I64>>],
   h |-> [returns |-> Primitive("i16"), parameters |-> <<Primitive("i32")>>],
   k |-> [returns |-> Primitive("i32"), parameters |-> <<>>]]

(* f(m: s, n: t), with the locals a: s, b: t and p: *s.                     *)
Function(s, t, returns, k, l, body) ==
  [globals |-> "x" :> Integer(2) @@ "z" :> NoNode, parameters |-> <<"m", "n">>,
   inputs |-> <<k % Values(SizeOfType(s)), l % Values(SizeOfType(t))>>,
   types |-> [v \in {"m", "n", "a", "b", "p", "x", "y", "z", "i", "j"} |->
                CASE v \in {"m", "a"} -> s [] v \in {"n", "b"} -> t [] v = "p" -> PointerTo(s) [] OTHER -> I64],
   returns |-> returns, functions |-> Signatures, body |-> body]

Comparisons == {"EQUAL", "NOT_EQUAL", "LESS_THAN", "LESS_THAN_OR_EQUAL", "GREATER_THAN", "GREATER_THAN_OR_EQUAL"}
Operators == {"ADD", "SUBTRACT", "MULTIPLY", "DIVIDE", "MODULO", "LogicalAnd", "LogicalOr"} \cup Comparisons

(* The operators on numbers of every pair of types.                         *)
Sums ==
  {Function(s, t, I64, k[1], k[2], Block(<<ReturnOf(Binary(o, m, n))>>)) :
     o \in Operators, s, t \in IntegerTypes, k \in {<<-1, 1>>, <<4, -1>>}}

(* Values that are tested for zero, everywhere that happens.                *)
Sum == Binary("ADD", m, Integer(1))
Tested ==
  {m, Sum, Binary("ADD", m, n), Binary("LESS_THAN", m, n), Binary("DIVIDE", m, Integer(2)), Binary("DIVIDE", Sum, Integer(-1)),
   Binary("MODULO", m, Integer(1)), Set(n, m), Set(m, n), Set(m, Sum), Set(n, Unary("BINARY_NOT", m)),
   Set(Dereference(AddressOf("m")), n),
   CallOf("h", <<m>>), CallOf("k", <<>>), If(n, m, n), If(m, Integer(0), m), If(n, Sum, Sum)}
  \cup {Unary(o, e) : o \in {"NEGATE", "BINARY_NOT", "LOGICAL_NOT"}, e \in {m, Sum}}

Testing(e) ==
  {Block(<<When(e, ReturnOf(n), NoNode), Statement(CallOf("h", <<n>>))>>), Block(<<ReturnOf(Unary("LOGICAL_NOT", e))>>),
   Block(<<ReturnOf(If(e, n, m))>>), Block(<<ReturnOf(Binary("LogicalAnd", e, n))>>),
   Block(<<ReturnOf(Binary("LogicalOr", n, e))>>)}

Tests ==
  {Function(s, IF s = Primitive("i16") THEN I64 ELSE Primitive("i16"), I64, k, IF k = 0 THEN 1 ELSE 4, body) :
     s \in IntegerTypes, k \in {-1, 0}, body \in UNION {Testing(e) : e \in Tested}}

(* Operands with calls and assignments in them, and calls inside calls.     *)
Effects == {n, Set(x, m), Set(n, Integer(3)), CallOf("g", <<m, n>>), CallOf("h", <<Binary("ADD", n, x)>>)}
Nested ==
  {Binary(o, l, r) : o \in {"SUBTRACT", "MULTIPLY", "LESS_THAN"}, l, r \in Effects}
  \cup {CallOf("g", <<l, r>>) : l, r \in Effects}
  \cup {Binary("SUBTRACT", m, Binary("SUBTRACT", l, CallOf("g", <<m, r>>))) : l, r \in Effects}

Nests ==
  {Function(s, t, s, 1, -1, Block(<<Statement(Set(x, e)), ReturnOf(Binary("SUBTRACT", x, e))>>)) :
     s, t \in {Primitive("i8"), I64}, e \in Nested}

(* { a = m; p = $a; b = *p = e; x = *p; return b - a; }                           *)
Places == {p, AddressOf("a"), Binary("SUBTRACT", Binary("ADD", p, Integer(2)), Integer(2)),
           Binary("ADD", Binary("ADD", p, Integer(2)), Integer(-2))}
Pointing(place, e) ==
  Block(<<Declare("a", m), Declare("p", AddressOf("a")), Declare("b", NoNode), Statement(Set(b, Set(Dereference(place), e))),
          Statement(Set(x, Dereference(place))), ReturnOf(Binary("SUBTRACT", b, a))>>)

Pointers ==
  {Function(s, t, t, 1, -1, Pointing(place, e)) :
     s, t \in IntegerTypes, place \in Places, e \in {n, Sum, Dereference(p), Set(x, m)}}

(* Blocks with variables that are left early.                               *)
Inner(e) ==
  Block(<<Declare("b", n), When(e, Block(<<Declare("y", b), ReturnOf(Binary("ADD", b, Variable("y")))>>), NoNode),
          Statement(CallOf("g", <<a, b>>))>>)
Blocks ==
  {Function(s, t, I64, k, 1, Block(<<Declare("a", m), Inner(e), ReturnOf(Set(x, a))>>)) :
     s, t \in {Primitive("i8"), I64}, k \in {0, 1}, e \in {m, a, x, Binary("EQUAL", a, Integer(1))}}

(* Loops that count a up to 3, with and without variables in their bodies,  *)
(* left or gone on with from a block inside.                                *)
i == Variable("i")
j == Variable("j")
Next(v) == Set(v, Binary("ADD", v, Integer(1)))
Exits == {Break, Skip, ReturnOf(Binary("ADD", x, a)), Statement(CallOf("h", <<a>>))}
LeftBy(exit) == When(Binary("EQUAL", a, Integer(2)), Block(<<Declare("y", a), exit>>), NoNode)
Bodies ==
  UNION {{Block(<<Statement(Next(a)), LeftBy(exit), Statement(Set(x, Binary("ADD", x, a)))>>),
          Block(<<Declare("b", a), Statement(Next(a)), LeftBy(exit), Statement(Set(x, b))>>)} : exit \in Exits}

Below == Binary("LESS_THAN", a, Integer(3))
LoopsOver(body) ==
  {While(Below, body), DoWhile(body, Below), For(Declare("i", a), Below, Next(i), body),
   For(Set(x, a), Below, Next(x), body), For(Empty, Empty, Empty, Block(<<When(Below, body, Break)>>))}

Nestings ==
  {For(Declare("j", Integer(0)), Binary("LESS_THAN", j, Integer(2)), Next(j),
       Block(<<Statement(Set(a, j)), loop, Statement(CallOf("g", <<a, j>>))>>)) :
     loop \in UNION {LoopsOver(Block(<<Statement(Next(a)), LeftBy(exit)>>)) : exit \in {Break, Skip}}}

Loops ==
  {Function(s, I64, I64, 0, 1, Block(<<Declare("a", m), loop, Statement(CallOf("k", <<>>))>>)) :
     s \in {Primitive("i16"), I64}, loop \in Nestings \cup UNION {LoopsOver(body) : body \in Bodies}}

AllSources == Sums \cup Tests \cup Nests \cup Pointers \cup Blocks \cup Loops
==============================================================================
