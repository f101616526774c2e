------------------------- MODULE MCRegisterAllocation -------------------------
(****************************************************************************)
(* Functions for RegisterAllocation, as the passes before the liveness      *)
(* analysis leave them: whole functions on eight registers, 1 .. 8 being    *)
(* RAX RBX RCX RDX RSI RDI R8 R9 on x86_64 and x0 .. x7 on AArch64, and     *)
(* every function of one small shape on a single register.                  *)
(****************************************************************************)
EXTENDS RegisterAllocation

Op2(result, x, y)    == [type |-> "OPERATION", result |-> result, op1 |-> x, op2 |-> y]
Op(result, x)        == Op2(result, x, None)
Setl(result)         == [type |-> "SET_LIVE", result |-> result, op1 |-> None, op2 |-> None]
Ret(x)               == [type |-> "RETURN", result |-> None, op1 |-> x, op2 |-> None]
Jmp(label)           == [type |-> "JUMP", result |-> None, op1 |-> label, op2 |-> None]
Jmpz(x, label)       == [type |-> "JUMP_IF_ZERO", result |-> None, op1 |-> x, op2 |-> label]
Defl(label)          == [type |-> "DEFINE_LABEL", result |-> None, op1 |-> label, op2 |-> None]

RefNames == {"p1", "p2", "p3", "p4", "n1", "n2", "n3", "n4", "sp", "a", "b", "c", "ptr",
             "dt1", "dt2", "dr", "cr", "t", "u", "s"}
LabelNames == {"start", "else", "end"}

(* seperateDivReferences on x86_64: dividend and quotient live in RAX.      *)
Divide(result, x, y) ==
  <<Op("dt1", x), Op("dt2", y), Op("dr", "dt1"), Op2("dr", "dr", "dt2"), Op(result, "dr")>>

(* makeTwoOperandCompatible.                                                *)
Add(result, x, y) == <<Op(result, x), Op2(result, result, y)>>

(* seperateCallResults: the result arrives in the return value register.    *)
Call(result, x) == <<Op(None, x), Op("cr", None), Op(result, "cr")>>

(* resolveAddressOf: the address is the stack pointer plus the slot.        *)
AddressOf(result) ==
  <<Setl("sp"), Op("c", None), Op("t", "c"), Op2("t", "t", "sp"), Op(result, "t")>>

Load(i) == <<Setl(<<"p1", "p2", "p3", "p4">>[i]), Op(<<"n1", "n2", "n3", "n4">>[i], <<"p1", "p2", "p3", "p4">>[i])>>

X86Params == <<6, 5, 4, 3>>
ArmParams == <<1, 2, 3, 4>>

(* Where references arrive: parameters and the operands of divisions and    *)
(* calls in their registers, sp in the stack pointer, slot variables in     *)
(* slots of their own.                                                      *)
Arrival(params, slots) ==
  [r \in RefNames |->
     CASE r \in {"dt1", "dr", "cr"} -> 1
       [] r = "p1" -> params[1]
       [] r = "p2" -> params[2]
       [] r = "p3" -> params[3]
       [] r = "p4" -> params[4]
       [] r = "sp" -> StackPointer(8)
       [] r \in slots -> StackPointer(8) + 1
       [] OTHER -> 0]

Program(body, params, slots) ==
  [code |-> body, registers |-> 8, storage |-> Arrival(params, slots),
   firstFresh |-> StackPointer(8) + 2]

(* Three parameters of which the body adds or divides two: the rest is dead.*)
N == {"n1", "n2", "n3"}
Loads == Load(1) \o Load(2) \o Load(3)
Sums ==
  {Program(Loads \o Add("t", i, j) \o <<Ret("t")>>, params, {}) :
     i, j \in N, params \in {X86Params, ArmParams}}
Quotients ==
  {Program(Loads \o Divide("t", i, j) \o Add("u", "t", "n2") \o <<Ret("u")>>, X86Params, {}) :
     i, j \in N}

(* f(n, m) { s = 0; while (n) { s = s + m / n; n = n - m; } return s; }     *)
Loop ==
  Load(1) \o Load(2) \o <<Op("s", None), Defl("start"), Jmpz("n1", "end")>>
  \o Divide("t", "n2", "n1") \o Add("u", "s", "t") \o <<Op("s", "u")>>
  \o Add("t", "n1", "n2") \o <<Op("n1", "t"), Jmp("start"), Defl("end"), Ret("s")>>

(* f(n) { if (n) s = g(n); else s = n; return s + n; }                      *)
Branch ==
  Load(1) \o <<Jmpz("n1", "else")>> \o Call("s", "n1")
  \o <<Jmp("end"), Defl("else"), Op("s", "n1"), Defl("end")>>
  \o Add("t", "s", "n1") \o <<Ret("t")>>

(* main() { a = 3; ptr = $a; a = g(ptr); return a; }, a in a stack slot.    *)
Address ==
  <<Op("a", None)>> \o AddressOf("ptr") \o Call("a", "ptr") \o <<Ret("a")>>

(* What a wrong transformation would leave: s is read before it is written. *)
Undefined == <<Defl("start"), Op("t", None), Jmpz("t", "start"), Ret("s")>>

Accepted ==
  Sums \cup Quotients
  \cup {Program(Loop, X86Params, {}), Program(Branch, X86Params, {}),
          Program(Branch, ArmParams, {}), Program(Address, X86Params, {"a"}),
          Program(Undefined, X86Params, {})}

(* f(n, m, k, l) { ptr = $n; return l / m + ...; }: n in a stack slot.      *)
SlotAndDivision ==
  Load(1) \o Load(2) \o Load(3) \o Load(4) \o Divide("t", "n4", "n2")
  \o Add("u", "t", "n1") \o Add("s", "u", "n2") \o Add("t", "s", "n3") \o <<Ret("t")>>

(* f(n, m) { n = m; k = m; return n; } on AArch64: the copy of the first    *)
(* parameter is dead and gets x1, from which m has not been loaded yet.     *)
OverwrittenParameter ==
  Load(1) \o Load(2) \o <<Op("n1", "n2"), Op("u", "n2"), Ret("n1")>>

WithLostParameter ==
  {Program(SlotAndDivision, X86Params, {"n1"}), Program(OverwrittenParameter, ArmParams, {})}

(* Every function of one shape on a machine with a single general purpose   *)
(* register, which makes spills the rule: three values of which the first   *)
(* may live in a slot and the second may be a quotient, and a loop.         *)
SmallRefs == {"a", "b", "c"}

SmallCode ==
  {<<Op("a", None), Op("b", x), Defl("start"), Op2("c", y, z), Jmpz(u, "start"), Op2(v, v, w), Ret(s)>> :
     x \in {None, "a"}, y \in {"a", "b"}, z \in {None, "a", "b"}, u, v, w \in SmallRefs, s \in {"a", "c"}}

SmallStorage(inSlot, inRegister) ==
  [r \in RefNames |->
     CASE r = "a" /\ inSlot -> StackPointer(1) + 1
       [] r = "b" /\ inRegister -> 1
       [] OTHER -> 0]

Pressure ==
  {[code |-> f, registers |-> 1, storage |-> SmallStorage(inSlot, inRegister),
    firstFresh |-> StackPointer(1) + 2] :
     f \in SmallCode, inSlot, inRegister \in BOOLEAN}

MCPrograms == Accepted \cup Pressure
==============================================================================
