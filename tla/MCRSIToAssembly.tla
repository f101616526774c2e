--------------------------- MODULE MCRSIToAssembly ---------------------------
(****************************************************************************)
(* Functions for RSIToAssembly, as RSIGenerator emits them, named after the *)
(* source they come from.                                                   *)
(****************************************************************************)
EXTENDS RSIToAssembly

R(name)   == <<"ref", name, 0>>
C(n)      == <<"const", n>>
L(name)   == <<"label", name>>
G(name)   == <<"global", name>>

MCNames == {"n", "m", "k", "a", "p", "s", "t1", "t2", "t3", "t4", "u", "v", "b",
            "divtmp", "divresult", "callresult", "param", "constant", "sp", "tmp"}
MCLabels == {L(l) : l \in {"f", "g", "h", "else", "end", "start"}}
MCNone == <<"none">>

Label(l)             == Instr("DEFINE_LABEL", None, L(l), None)
Jump(l)              == Instr("JUMP", None, L(l), None)
JumpIfZero(x, l)     == Instr("JUMP_IF_ZERO", None, x, L(l))
Return(x)            == Instr("RETURN", None, x, None)
Store(x)             == Instr("STORE_PARAMETER", None, x, None)
Call(result, l, n)   == Instr("CALL", result, L(l), C(n))

(* A function begins with its label and its parameters and ends with a      *)
(* return of its own.                                                       *)
Function(parameters, body) ==
  <<Label("f"), Instr("FUNCTION_BEGIN", None, None, None)>>
  \o FoldLeftDomain(LAMBDA c, i : Append(c, Instr("LOAD_PARAMETER", parameters[i], C(i - 1), None)),
                    <<>>, parameters)
  \o body \o <<Return(C(0))>>

n == R("n")
m == R("m")
k == R("k")
a == R("a")
p == R("p")
s == R("s")
t1 == R("t1")
t2 == R("t2")
t3 == R("t3")
t4 == R("t4")
u == R("u")
v == R("v")
b == R("b")

(* f(n, m) { return g(n * m, n) + m; }                                      *)
CallWithProduct ==
  Function(<<n, m>>,
    <<Instr("MULTIPLY", t1, n, m), Store(t1), Store(n), Call(t2, "g", 2), Instr("ADD", t3, t2, m), Return(t3)>>)

(* f(n, m) { return g(n, h(m)) - n; }                                       *)
NestedCalls ==
  Function(<<n, m>>,
    <<Store(n), Store(m), Call(t1, "h", 1), Store(t1), Call(t2, "g", 2), Instr("SUBTRACT", t3, t2, n), Return(t3)>>)

(* f(n, m) { return (n X m) Y w - n; } and with the operands of Y swapped,  *)
(* for X and Y among the three operations that need rax and rdx.            *)
Products == {"MULTIPLY", "DIVIDE", "MODULO"}

Arithmetic ==
  {Function(<<n, m>>,
     <<Instr(x, t1, n, m), IF swapped THEN Instr(y, t2, w, t1) ELSE Instr(y, t2, t1, w),
       Instr("SUBTRACT", t3, t2, n), Return(t3)>>) :
     x, y \in Products, w \in {m, C(3)}, swapped \in BOOLEAN}

(* f(n, m, k) { return g(n / k, m) + n * (m - k); }                         *)
Crowded ==
  Function(<<n, m, k>>,
    <<Instr("DIVIDE", t1, n, k), Store(t1), Store(m), Call(t2, "g", 2), Instr("SUBTRACT", t3, m, k),
      Instr("MULTIPLY", t4, n, t3), Instr("ADD", t1, t2, t4), Return(t1)>>)

(* f(n) { if (n == 0) return h(); s = -n; while (!s) s = n; return s * n; } *)
Loop ==
  Function(<<n>>,
    <<Instr("EQUAL", t1, n, C(0)), JumpIfZero(t1, "else"), Call(t2, "h", 0), Return(t2), Label("else"),
      Instr("NEGATE", t3, n, None), Move(s, t3), Label("start"), Instr("LOGICAL_NOT", t4, s, None),
      JumpIfZero(t4, "end"), Move(s, n), Jump("start"), Label("end"), Instr("MULTIPLY", t1, s, n), Return(t1)>>)

(* f(n) { a = n; p = $a; *p = h(); return *p; }                             *)
Pointer ==
  Function(<<n>>,
    <<Move(a, n), Instr("ADDRESS_OF", t1, a, None), Move(p, t1), Call(t2, "h", 0),
      Instr("STORE_MEMORY", None, p, t2), Instr("LOAD_MEMORY", t3, p, None), Return(t3)>>)

(* f(n) { x = ~n; return h(x) + x; }, x global                              *)
Globals ==
  Function(<<n>>,
    <<Instr("BINARY_NOT", t1, n, None), Instr("STORE_GLOBAL", None, G("x"), t1),
      Instr("LOAD_GLOBAL", t2, G("x"), None), Store(t2), Call(t3, "h", 1),
      Instr("LOAD_GLOBAL", t2, G("x"), None), Instr("ADD", t4, t3, t2), Return(t4)>>)

(* f(n) { return h(x) - x - n; }, x global                                  *)
GlobalsRead ==
  Function(<<n>>,
    <<Instr("LOAD_GLOBAL", t1, G("x"), None), Store(t1), Call(t2, "h", 1), Instr("LOAD_GLOBAL", t3, G("x"), None),
      Instr("SUBTRACT", t4, t2, t3), Instr("SUBTRACT", u, t4, n), Return(u)>>)

(* f(n) { a = n; p = $a; s = h(); return a + s; }                           *)
SlotAcrossCall ==
  Function(<<n>>,
    <<Move(a, n), Instr("ADDRESS_OF", t1, a, None), Move(p, t1), Call(t2, "h", 0), Move(s, t2),
      Instr("ADD", t3, a, s), Return(t3)>>)

(* f(n) { a = n; return g(3, $a); } and f(n) { a = n; p = $a; return g(3,   *)
(* a - n); }: the slot is used while an argument is stored.                 *)
SlotAsArgument ==
  {Function(<<n>>,
     <<Move(a, n), Store(C(3)), Instr("ADDRESS_OF", t1, a, None), Store(t1), Call(t2, "g", 2), Return(t2)>>),
   Function(<<n>>,
     <<Move(a, n), Instr("ADDRESS_OF", t1, a, None), Move(p, t1), Store(C(3)), Instr("SUBTRACT", t2, a, n),
       Store(t2), Call(t3, "g", 2), Return(t3)>>)}

(* f(n, m, k) { return (n - m) - ((m - k) - (n X m - (n - m - k))); }: more *)
(* values than registers.                                                   *)
Pressure(x) ==
  Function(<<n, m, k>>,
    <<Instr("SUBTRACT", t1, n, m), Instr("SUBTRACT", t2, m, k), Instr(x, t3, n, m), Instr("SUBTRACT", t4, n, m),
      Instr("SUBTRACT", u, t4, k), Instr("SUBTRACT", v, t3, u), Instr("SUBTRACT", s, t2, v),
      Instr("SUBTRACT", p, t1, s), Return(p)>>)

(* f(n, m, k) { return m X k - ((m - k) - (n X k - (h(n - m) - k))); }      *)
PressureAtCall(x) ==
  Function(<<n, m, k>>,
    <<Instr(x, t1, m, k), Instr("SUBTRACT", t2, m, k), Instr(x, t3, n, k), Instr("SUBTRACT", t4, n, m),
      Store(t4), Call(b, "h", 1), Instr("SUBTRACT", u, b, k), Instr("SUBTRACT", v, t3, u),
      Instr("SUBTRACT", s, t2, v), Instr("SUBTRACT", p, t1, s), Return(p)>>)

(* f(n, m, k) { a = n; p = $a; return (m X k) Y *p; }                       *)
SlotAndArithmetic ==
  {Function(<<n, m, k>>,
     <<Move(a, n), Instr("ADDRESS_OF", t1, a, None), Move(p, t1), Instr(x, t2, m, k),
       Instr("LOAD_MEMORY", t3, p, None), Instr(y, t4, t2, t3), Return(t4)>>) :
     x, y \in Products \cup {"SUBTRACT"}}

(* f(n) { a = n; p = $a; return h() - n - *p; }                             *)
SlotAndCall ==
  Function(<<n>>,
    <<Move(a, n), Instr("ADDRESS_OF", t1, a, None), Move(p, t1), Call(t2, "h", 0), Instr("SUBTRACT", t3, t2, n),
      Instr("LOAD_MEMORY", t4, p, None), Instr("SUBTRACT", u, t3, t4), Return(u)>>)

(* With $z for each parameter z, f(n, m, k) { p = $z; return (k - m) X n -  *)
(* m - k; } and f(n, m, k) { p = $z; return k / n - (k - m); }: a slot that *)
(* takes part in arithmetic, and registers that colorIn takes away from     *)
(* the parameters and divisions they are prescribed for.                    *)
SlotOfParameter(z) ==
  {Function(<<n, m, k>>,
     <<Instr("ADDRESS_OF", t1, z, None), Move(p, t1), Instr("SUBTRACT", t2, k, m), Instr(x, t3, t2, n),
       Instr("SUBTRACT", t4, t3, m), Instr("SUBTRACT", u, t4, k), Return(u)>>) :
     x \in Products \cup {"SUBTRACT"}}
  \cup {Function(<<n, m, k>>,
          <<Instr("ADDRESS_OF", t1, z, None), Move(p, t1), Instr("DIVIDE", t2, k, n), Instr("SUBTRACT", t3, k, m),
            Instr("SUBTRACT", t4, t2, t3), Return(t4)>>)}

(* f(n, m) { n = m; k = m; return n; }: the copy of the first parameter is  *)
(* dead and may get the register from which m has not been loaded yet.      *)
OverwrittenParameter == Function(<<n, m>>, <<Move(n, m), Move(k, m), Return(n)>>)

(* What the passes refuse: a seventh parameter (nine on AArch64), or the    *)
(* address of a global.                                                     *)
NineParameters ==
  Function(<<n, n, n, n, n, n, n, n, n>>, <<>>)
AddressOfGlobal ==
  Function(<<>>, <<Instr("ADDRESS_OF", t1, G("x"), None), Return(t1)>>)

On(architecture, function, slots) == [arch |-> architecture, code |-> function, slots |-> slots]

(* f(n) { a = n; p = $a; s = g(3, n); return a + s; }                       *)
LiveSlot ==
  {On("x86_64",
      Function(<<n>>, <<Move(a, n), Instr("ADDRESS_OF", t1, a, None), Store(C(3)), Store(n), Call(t2, "g", 2),
                        Instr("ADD", t3, a, t2), Return(t3)>>), {a})}
(* f(n) { a = ~n; return a + n; }                                           *)
Complement ==
  {On("x86_64",
      Function(<<n>>, <<Instr("BINARY_NOT", t1, n, None), Move(a, t1), Instr("ADD", t2, a, n), Return(t2)>>), {})}

Both == Arithmetic \cup {CallWithProduct, NestedCalls, Crowded, Loop, Globals, GlobalsRead,
                          OverwrittenParameter, NineParameters, AddressOfGlobal}

Accepted ==
  {On(architecture, f, {}) : architecture \in {"x86_64", "AArch64"}, f \in Both}
  \cup {On(architecture, f, {a}) : architecture \in {"x86_64", "AArch64"}, f \in {Pointer, SlotAcrossCall}}
  \cup {On("x86_64", f, {a}) : f \in SlotAsArgument \cup SlotAndArithmetic \cup {SlotAndCall}}
  \cup UNION {{On("x86_64", f, {z}) : f \in SlotOfParameter(z)} : z \in {n, m, k}}
  \cup {On("x86_64", Pressure(x), {}) : x \in Products \cup {"SUBTRACT"}}
  \cup {On("x86_64", PressureAtCall(x), {}) : x \in Products}
  \cup LiveSlot \cup Complement

UsedRegisters5 == {"rax", "rbx", "rdx", "rdi", "rsi"} \cup {"x0", "x1", "x2", "x19", "x20"}

==============================================================================
