------------------------- MODULE RSIToAssemblyProofs -------------------------
(****************************************************************************)
(* Safety of the passes of RSIPasses, on their own and as part of           *)
(* RSIToAssembly, for every set of functions that RSIGenerator emits.       *)
(*                                                                          *)
(* PInv says of each pass what it has established in the instructions it is *)
(* through with, and that the passes after it keep it:                      *)
(*   Shaped      the types; which operands an instruction can have          *)
(*   Flows       the control flow is as the generator made it               *)
(*   PassesDone  what a pass is there for, where it has been                *)
(*   Stages      what the steps behind the passes rely on                   *)
(* A rewriting is looked at twice: as an insertion into the function, which *)
(* is the same for every pass (Spliced), and as the few instructions that it*)
(* inserts, pass by pass (Fits..., Renders...).                             *)
(*                                                                          *)
(* For the meaning, the instructions that a rewriting leaves are carried    *)
(* out one after the other, on terms (...Means).                            *)
(*                                                                          *)
(* Behind the passes RSILivenessProofs takes over (AnalysisInPlace).        *)
(****************************************************************************)
EXTENDS RSIToAssembly, FiniteSums, SequenceTheorems, TLAPS

(* The references that there are: those of the generator, numbered 0, and   *)
(* those that the passes may have made so far.                              *)
Known == Numbered(0 .. created)

(* The instructions that can be in the function while the passes run: those *)
(* of the generator and the three forms that only the passes make.          *)
Lowered(refs) ==
  Emitted(refs)
  \cup Form({"SET_LIVE"}, refs, {None}, {None})
  \cup Form({"MOVE"}, refs, {"dyn"} \X refs, {None})
  \cup Form({"ADD"}, refs, {"dyn"} \X refs, refs)

(* No operation computes into its own second operand:                       *)
(* MakeTwoOperandCompatible overwrites the result before that operand is    *)
(* read.                                                                    *)
ResultIsNew(instr) == instr.type \in Binary => instr.result # instr.op2

(* The types of the state, as far as the passes go.                         *)
Shaped ==
  /\ arch \in {"x86_64", "AArch64"}
  /\ created \in Nat
  /\ pass \in 1 .. Len(PassList)
  /\ position \in Nat \ {0}
  /\ code \in Seq(Lowered(Known))
  /\ \A i \in Positions(code) : ResultIsNew(code[i])

(* What RSILiveness needs of a function: every label is defined once, every *)
(* jump has its label, and a return is last.                                *)
Flows(c) ==
  /\ \A i, j \in Positions(c) :
       c[i].type = "DEFINE_LABEL" /\ c[j].type = "DEFINE_LABEL" /\ c[i].op1 = c[j].op1 => i = j
  /\ \A i \in Positions(c) : IsJump(c[i]) => \E j \in Positions(c) : JumpsTo(c[i], c[j])
  /\ Len(c) > 0 /\ c[Len(c)].type = "RETURN"

(* What a pass is there for: what holds of an instruction that it has seen  *)
(* or has put in.                                                           *)
Establishes(name, instr) ==
  /\ name = "divisions" => DivisionForm(instr)
  /\ name = "addresses" => instr.type # "ADDRESS_OF"
  /\ name = "constants" /\ instr.type \notin {"MOVE", "CALL", "LOAD_PARAMETER"} =>
       ~IsConstant(instr.op1) /\ ~IsConstant(instr.op2)
  /\ name = "two operands" => TwoOperandForm(instr)
  /\ name = "modulo" => instr.type # "MODULO"

(* The k-th pass of the list is through with the i-th instruction.          *)
Through(k, i) == k < pass \/ (k = pass /\ i < position)

(* What a pass has established stays: a later pass never takes it back,     *)
(* neither in the instruction it rewrites nor in those it inserts.          *)
PassesDone ==
  \A i \in Positions(code), k \in 1 .. Len(PassList) : Through(k, i) => Establishes(PassList[k], code[i])

(* No location is prescribed yet for a reference to come; and whatever      *)
(* follows the passes finds them at their end.                              *)
Stages ==
  /\ stage = "lowering" => DOMAIN storage \subseteq Known
  /\ stage \notin {"lowering", "fatal"} => pass = Len(PassList) /\ position > Len(code)

(* The allocation may take the registers away that a pass has prescribed.   *)
BeforeAllocation == stage \in {"lowering", "lowered"}

(* The inductive invariant of the passes.                                   *)
PInv == Shaped /\ Flows(code) /\ (BeforeAllocation => PassesDone) /\ Stages

-----------------------------------------------------------------------------
(* What an operation can read, but for the offsets that ResolveAddressOf    *)
(* makes.                                                                   *)
Values(refs) == refs \cup Constants

(* The operands that go with the type of an instruction.                    *)
LEMMA Forms ==
  ASSUME NEW refs, NEW instr \in Lowered(refs)
  PROVE  /\ instr = Instr(instr.type, instr.result, instr.op1, instr.op2)
         /\ instr.type \in {"LOAD_MEMORY"} \cup Unary =>
              instr.result \in refs /\ instr.op1 \in Values(refs) /\ instr.op2 = None
         /\ instr.type = "MOVE" =>
              /\ instr.result \in refs /\ instr.op2 = None
              /\ instr.op1 \in Values(refs) \cup ({"dyn"} \X refs)
         /\ instr.type \in Binary =>
              /\ instr.result \in refs /\ instr.op2 \in Values(refs)
              /\ instr.op1 \in Values(refs) \cup ({"dyn"} \X refs)
         /\ instr.type = "LOAD_GLOBAL" =>
              instr.result \in refs /\ instr.op1 \in GlobalReferences /\ instr.op2 = None
         /\ instr.type = "STORE_GLOBAL" =>
              instr.result = None /\ instr.op1 \in GlobalReferences /\ instr.op2 \in Values(refs)
         /\ instr.type = "STORE_MEMORY" =>
              instr.result = None /\ instr.op1 \in Values(refs) /\ instr.op2 \in Values(refs)
         /\ instr.type = "ADDRESS_OF" =>
              instr.result \in refs /\ instr.op1 \in refs \cup GlobalReferences /\ instr.op2 = None
         /\ instr.type = "LOAD_PARAMETER" =>
              instr.result \in refs /\ instr.op1 \in Constants /\ instr.op2 = None
         /\ instr.type = "CALL" =>
              instr.result \in refs /\ instr.op1 \in Labels /\ instr.op2 \in Constants
         /\ instr.type \in {"STORE_PARAMETER", "RETURN"} =>
              instr.result = None /\ instr.op1 \in Values(refs) /\ instr.op2 = None
         /\ instr.type \in {"JUMP", "DEFINE_LABEL"} =>
              instr.result = None /\ instr.op1 \in Labels /\ instr.op2 = None
         /\ instr.type = "JUMP_IF_ZERO" =>
              instr.result = None /\ instr.op1 \in Values(refs) /\ instr.op2 \in Labels
         /\ instr.type \in {"NOP", "FUNCTION_BEGIN"} =>
              instr.result = None /\ instr.op1 = None /\ instr.op2 = None
         /\ instr.type = "SET_LIVE" =>
              instr.result \in refs /\ instr.op1 = None /\ instr.op2 = None
BY SMTT(60) DEF Lowered, Emitted, Form, Values, Unary, Binary, Comparison, Instr

(* Every operand begins with its kind.                                      *)
LEMMA Kinds ==
  /\ \A x \in References : x[1] = "ref"
  /\ \A x \in Constants : x[1] = "const"
  /\ \A x \in GlobalReferences : x[1] = "global"
  /\ \A x \in Labels : x[1] = "label"
  /\ \A S : \A x \in {"dyn"} \X S : x[1] = "dyn"
  /\ None[1] \notin {"ref", "const", "dyn", "label", "global"}
BY OperandShapes DEF References, Numbered, Constants, GlobalReferences

(* A reference with any number is a reference.                              *)
LEMMA NumberedAreReferences ==
  \A N \in SUBSET Nat : Numbered(N) \subseteq References
BY DEF References, Numbered

(* Operands of two kinds are never equal, and only constants and offsets    *)
(* are constant.                                                            *)
LEMMA KindsDiffer ==
  /\ \A x \in References : x \notin Labels /\ x \notin Constants /\ x \notin GlobalReferences /\ x # None
                            /\ ~IsConstant(x) /\ \A S : x \notin {"dyn"} \X S
  /\ \A x \in Labels : x \notin References /\ x \notin Constants /\ x \notin GlobalReferences /\ x # None
                        /\ ~IsConstant(x) /\ \A S : x \notin {"dyn"} \X S
  /\ \A x \in Constants : x \notin References /\ x # None /\ IsConstant(x) /\ x \notin Labels
  /\ \A x \in GlobalReferences : x \notin References /\ x # None /\ ~IsConstant(x) /\ x \notin Labels
  /\ \A S : \A x \in {"dyn"} \X S : x \notin References /\ x # None /\ IsConstant(x) /\ x \notin Labels
  /\ None \notin References /\ None \notin Labels /\ ~IsConstant(None)
<1> HIDE OperandShapes
<1> USE Kinds DEF IsConstant
<1>1. \A x \in References : x \notin Labels /\ x \notin Constants /\ x \notin GlobalReferences /\ x # None
                            /\ ~IsConstant(x) /\ \A S : x \notin {"dyn"} \X S
  OBVIOUS
<1>2. \A x \in Labels : x \notin References /\ x \notin Constants /\ x \notin GlobalReferences /\ x # None
                        /\ ~IsConstant(x) /\ \A S : x \notin {"dyn"} \X S
  OBVIOUS
<1>3. \A x \in Constants : x \notin References /\ x # None /\ IsConstant(x) /\ x \notin Labels
  OBVIOUS
<1>4. \A x \in GlobalReferences : x \notin References /\ x # None /\ ~IsConstant(x) /\ x \notin Labels
  OBVIOUS
<1>5. \A S : \A x \in {"dyn"} \X S : x \notin References /\ x # None /\ IsConstant(x) /\ x \notin Labels
  OBVIOUS
<1>6. None \notin References /\ None \notin Labels /\ ~IsConstant(None)
  OBVIOUS
<1> QED
  BY <1>1, <1>2, <1>3, <1>4, <1>5, <1>6

(* What Abstraction makes of an instruction of the passes is an instruction *)
(* of the analyses; it has the same labels, and is a jump, a definition or  *)
(* a return if the instruction is one.                                      *)
LEMMA AbstractInstruction ==
  ASSUME NEW refs \in SUBSET References, NEW instr \in Lowered(refs)
  PROVE  LET a == Instr(AbstractType(instr), instr.result,
                        AbstractOperand(instr, instr.op1), AbstractOperand(instr, instr.op2))
         IN /\ a \in Instruction
            /\ WellFormedInstruction(a)
            /\ \A type \in {"DEFINE_LABEL", "RETURN", "JUMP", "JUMP_IF_ZERO"} :
                 a.type = type <=> instr.type = type
            /\ instr.type = "DEFINE_LABEL" => a.op1 = instr.op1
            /\ IsJump(instr) => \A l \in Labels : l \in {a.op1, a.op2} <=> l \in {instr.op1, instr.op2}
<1> DEFINE a == Instr(AbstractType(instr), instr.result,
                      AbstractOperand(instr, instr.op1), AbstractOperand(instr, instr.op2))
<1>1. AbstractType(instr) \in InstructionType
  BY DEF AbstractType, InstructionType
<1>2. \A x : AbstractOperand(instr, x) \in Operand
  BY DEF AbstractOperand, Operand
<1>3. instr.result \in References \cup {None}
  BY Forms DEF Lowered, Emitted, Form
<1>4. a \in Instruction
  BY <1>1, <1>2, <1>3 DEF Instruction, Instr
<1>5. \A type \in {"DEFINE_LABEL", "RETURN", "JUMP", "JUMP_IF_ZERO"} : a.type = type <=> instr.type = type
  BY DEF AbstractType, InstructionType, Instr
<1>6. instr.type = "DEFINE_LABEL" => a.op1 = instr.op1
  BY Forms DEF AbstractOperand, Instr
<1>7. IsJump(instr) => \A l \in Labels : l \in {a.op1, a.op2} <=> l \in {instr.op1, instr.op2}
  BY Forms, KindsDiffer DEF AbstractOperand, Instr, IsJump
<1>8. WellFormedInstruction(a)
  <2>1. /\ a.type = "SET_LIVE" <=> instr.type \in {"SET_LIVE", "LOAD_PARAMETER"}
        /\ a.type \in {"JUMP", "DEFINE_LABEL"} <=> instr.type \in {"JUMP", "DEFINE_LABEL"}
    BY DEF AbstractType, InstructionType, Instr
  <2>2. a.type \notin {"OPERATION", "SET_LIVE"} => a.result = None
    BY Forms DEF AbstractType, InstructionType, Instr
  <2>3. a.type \in {"SET_LIVE", "RETURN", "JUMP", "DEFINE_LABEL"} => a.op2 = None
    BY Forms, KindsDiffer DEF AbstractType, InstructionType, Instr, AbstractOperand
  <2>4. a.type = "SET_LIVE" => a.op1 = None
    <3>1. instr.type = "SET_LIVE" => instr.op1 = None
      BY Forms
    <3>2. instr.type = "LOAD_PARAMETER" => instr.op1 \in Constants
      BY Forms
    <3> QED
      BY <2>1, <3>1, <3>2, KindsDiffer DEF Instr, AbstractOperand
  <2>5. a.op1 \in Labels <=> a.type \in {"JUMP", "DEFINE_LABEL"}
    <3>1. a.op1 \in Labels <=> instr.op1 \in Labels /\ instr.type # "CALL"
      BY KindsDiffer DEF Instr, AbstractOperand
    <3>2. instr.op1 \in Labels <=> instr.type \in {"JUMP", "DEFINE_LABEL", "CALL"}
      <4>1. \A x \in refs \cup Constants \cup GlobalReferences \cup ({"dyn"} \X refs) \cup {None} : x \notin Labels
        BY KindsDiffer
      <4> QED
        BY <4>1 DEF Lowered, Emitted, Form, Unary, Binary, Comparison
    <3> QED
      BY <2>1, <3>1, <3>2
  <2>6. a.op2 \in Labels <=> a.type = "JUMP_IF_ZERO"
    <3>1. a.op2 \in Labels <=> instr.op2 \in Labels /\ instr.type # "CALL"
      BY KindsDiffer DEF Instr, AbstractOperand
    <3>2. instr.op2 \in Labels <=> instr.type = "JUMP_IF_ZERO"
      <4>1. \A x \in refs \cup Constants \cup {None} : x \notin Labels
        BY KindsDiffer
      <4> QED
        BY <4>1 DEF Lowered, Emitted, Form, Unary, Binary, Comparison
    <3>3. a.type = "JUMP_IF_ZERO" <=> instr.type = "JUMP_IF_ZERO"
      BY <1>5
    <3> QED
      BY <3>1, <3>2, <3>3
  <2> QED
    BY <2>2, <2>3, <2>4, <2>5, <2>6 DEF WellFormedInstruction
<1> QED
  BY <1>4, <1>5, <1>6, <1>7, <1>8

(* So a function that flows is, abstracted, one that the liveness analysis  *)
(* takes.                                                                   *)
LEMMA AbstractFlow ==
  ASSUME NEW refs \in SUBSET References, NEW c \in Seq(Lowered(refs))
  PROVE  WellFormedFunction(Abstraction(c)) <=> Flows(c)
<1> DEFINE A == Abstraction(c)
           I(i) == Instr(AbstractType(c[i]), c[i].result,
                         AbstractOperand(c[i], c[i].op1), AbstractOperand(c[i], c[i].op2))
<1>1. Len(c) \in Nat /\ \A i \in Positions(c) : c[i] \in Lowered(refs)
  BY DEF Positions
<1>2. A = [i \in 1 .. Len(c) |-> I(i)]
  BY DEF Abstraction, Positions
<1>3. \A i \in Positions(c) :
        /\ I(i) \in Instruction /\ WellFormedInstruction(I(i))
        /\ \A type \in {"DEFINE_LABEL", "RETURN", "JUMP", "JUMP_IF_ZERO"} :
             I(i).type = type <=> c[i].type = type
        /\ c[i].type = "DEFINE_LABEL" => I(i).op1 = c[i].op1
        /\ IsJump(c[i]) => \A l \in Labels : l \in {I(i).op1, I(i).op2} <=> l \in {c[i].op1, c[i].op2}
        /\ c[i].type = "DEFINE_LABEL" => c[i].op1 \in Labels
  BY <1>1, AbstractInstruction, Forms
<1> HIDE DEF I, A
<1>4. A \in Seq(Instruction) /\ Len(A) = Len(c) /\ Positions(A) = Positions(c)
  <2>1. \A i \in 1 .. Len(c) : I(i) \in Instruction
    BY <1>3 DEF Positions
  <2> QED
    BY <1>1, <1>2, <2>1 DEF Positions
<1>5. \A i \in Positions(c) : A[i] = I(i)
  BY <1>1, <1>2 DEF Positions
<1>6. \A i, j \in Positions(c) : JumpsTo(A[i], A[j]) <=> JumpsTo(c[i], c[j])
  BY <1>3, <1>5 DEF JumpsTo, IsJump
<1>7. \A i \in Positions(c) : IsJump(A[i]) <=> IsJump(c[i])
  BY <1>3, <1>5 DEF IsJump
<1>8. \A i, j \in Positions(c) :
        A[i].type = "DEFINE_LABEL" /\ A[j].type = "DEFINE_LABEL" /\ A[i].op1 = A[j].op1
        <=> c[i].type = "DEFINE_LABEL" /\ c[j].type = "DEFINE_LABEL" /\ c[i].op1 = c[j].op1
  BY <1>3, <1>5
<1>9. Len(c) > 0 => (A[Len(A)].type = "RETURN" <=> c[Len(c)].type = "RETURN")
  BY <1>1, <1>3, <1>4, <1>5 DEF Positions
<1> QED
  BY <1>3, <1>4, <1>5, <1>6, <1>7, <1>8, <1>9 DEF WellFormedFunction, Flows, A

(* The two lists of passes, pass by pass.                                   *)
LEMMA PassLists ==
  ASSUME arch \in {"x86_64", "AArch64"}
  PROVE  /\ Len(PassList) \in Nat /\ Len(PassList) >= 1
         /\ arch = "x86_64" =>
              /\ Len(PassList) = 6
              /\ PassList[1] = "divisions" /\ PassList[2] = "calls" /\ PassList[3] = "parameters"
              /\ PassList[4] = "addresses" /\ PassList[5] = "constants" /\ PassList[6] = "two operands"
         /\ arch = "AArch64" =>
              /\ Len(PassList) = 5
              /\ PassList[1] = "calls" /\ PassList[2] = "parameters" /\ PassList[3] = "addresses"
              /\ PassList[4] = "constants" /\ PassList[5] = "modulo"
BY DEF PassList

(* When the passes are through, what all of them have established together  *)
(* is what the analyses and the backends insist on.                         *)
THEOREM DoneIsAccepted == PInv => BackendsAccept
<1> SUFFICES ASSUME PInv, stage = "lowered"
             PROVE  /\ WellFormedFunction(AbstractCode)
                    /\ \A i \in Positions(code) :
                         /\ code[i].type # "ADDRESS_OF"
                         /\ code[i].type \notin {"MOVE", "CALL", "LOAD_PARAMETER"} =>
                              ~IsConstant(code[i].op1) /\ ~IsConstant(code[i].op2)
                         /\ arch = "x86_64" => TwoOperandForm(code[i]) /\ DivisionForm(code[i])
                         /\ arch = "AArch64" => code[i].type # "MODULO"
  BY DEF BackendsAccept
<1>1. Known \in SUBSET References /\ code \in Seq(Lowered(Known)) /\ arch \in {"x86_64", "AArch64"}
  BY NumberedAreReferences DEF PInv, Shaped, Known
<1>2. WellFormedFunction(AbstractCode)
  BY <1>1, AbstractFlow DEF PInv, AbstractCode
<1>3. \A i \in Positions(code), k \in 1 .. Len(PassList) : Establishes(PassList[k], code[i])
  <2>1. \A i \in Positions(code), k \in 1 .. Len(PassList) : Through(k, i)
    <3>1. pass = Len(PassList) /\ position > Len(code) /\ pass \in Nat
      <4>1. Len(PassList) \in Nat
        BY <1>1, PassLists
      <4> QED
        BY <4>1 DEF PInv, Stages, Shaped
    <3>2. Len(code) \in Nat /\ position \in Nat
      BY <1>1 DEF PInv, Shaped
    <3> QED
      BY <3>1, <3>2 DEF Through, Positions
  <2> QED
    BY <2>1 DEF PInv, PassesDone, BeforeAllocation
<1>4. ASSUME NEW i \in Positions(code)
      PROVE  /\ code[i].type # "ADDRESS_OF"
             /\ code[i].type \notin {"MOVE", "CALL", "LOAD_PARAMETER"} =>
                  ~IsConstant(code[i].op1) /\ ~IsConstant(code[i].op2)
             /\ arch = "x86_64" => TwoOperandForm(code[i]) /\ DivisionForm(code[i])
             /\ arch = "AArch64" => code[i].type # "MODULO"
  <2>1. \A k \in 1 .. Len(PassList) : Establishes(PassList[k], code[i])
    BY <1>3
  <2>2. CASE arch = "x86_64"
    <3>1. /\ Establishes("divisions", code[i]) /\ Establishes("addresses", code[i])
          /\ Establishes("constants", code[i]) /\ Establishes("two operands", code[i])
      <4>1. 1 \in 1 .. Len(PassList) /\ 4 \in 1 .. Len(PassList)
            /\ 5 \in 1 .. Len(PassList) /\ 6 \in 1 .. Len(PassList)
        <5>1. Len(PassList) = 6
          BY <2>2, PassLists
        <5> QED
          BY <5>1
      <4> QED
        BY <2>1, <2>2, <4>1, PassLists
    <3> QED
      BY <2>2, <3>1 DEF Establishes
  <2>3. CASE arch = "AArch64"
    <3>1. Establishes("addresses", code[i]) /\ Establishes("constants", code[i]) /\ Establishes("modulo", code[i])
      <4>1. 3 \in 1 .. Len(PassList) /\ 4 \in 1 .. Len(PassList) /\ 5 \in 1 .. Len(PassList)
        <5>1. Len(PassList) = 5
          BY <2>3, PassLists
        <5> QED
          BY <5>1
      <4> QED
        BY <2>1, <2>3, <4>1, PassLists
    <3> QED
      BY <2>3, <3>1 DEF Establishes
  <2> QED
    BY <1>1, <2>2, <2>3
<1> QED
  BY <1>2, <1>4

-----------------------------------------------------------------------------
(* What RSIGenerator emits satisfies the invariant: no pass has seen        *)
(* anything yet.                                                            *)
LEMMA InitialPasses == Init => PInv
<1> SUFFICES ASSUME Init PROVE PInv
  OBVIOUS
<1>1. PICK p \in Programs :
        /\ arch = p.arch /\ code = p.code
        /\ storage = [r \in p.slots |-> <<"slot", 0>>]
        /\ created = 0 /\ pass = 1 /\ position = 1 /\ stage = "lowering"
  BY DEF Init, InitPasses
<1>2. IsGenerated(p)
  BY ProgramsAreGenerated
<1>3. Known = Numbered({0}) /\ Known \in SUBSET References
  <2>1. 0 .. created = {0}
    BY <1>1
  <2> QED
    <3>1. Known = Numbered({0})
      BY <2>1 DEF Known
    <3>2. Numbered({0}) \subseteq References
      BY NumberedAreReferences
    <3> QED
      BY <3>1, <3>2
<1>4. code \in Seq(Lowered(Known))
  <2>1. code \in Seq(Emitted(Known))
    BY <1>1, <1>2, <1>3 DEF IsGenerated
  <2>2. Emitted(Known) \subseteq Lowered(Known)
    BY DEF Lowered
  <2> QED
    BY <2>1, <2>2
<1>5. Shaped
  <2>1. arch \in {"x86_64", "AArch64"}
    BY <1>1, <1>2 DEF IsGenerated
  <2>2. Len(PassList) \in Nat /\ Len(PassList) >= 1
    BY <2>1, PassLists
  <2>3. \A i \in Positions(code) : ResultIsNew(code[i])
    BY <1>1, <1>2 DEF IsGenerated, ResultIsNew
  <2> QED
    BY <1>1, <1>4, <2>1, <2>2, <2>3 DEF Shaped
<1>6. Flows(code)
  BY <1>1, <1>2, <1>3, <1>4, AbstractFlow DEF IsGenerated
<1>7. PassesDone
  BY <1>1, <1>5 DEF PassesDone, Through, Shaped, Positions
<1>8. Stages
  <2>1. DOMAIN storage = p.slots
    BY <1>1
  <2>2. DOMAIN storage \subseteq Known
    BY <1>2, <1>3, <2>1 DEF IsGenerated
  <2> QED
    BY <1>1, <2>2 DEF Stages
<1> QED
  BY <1>5, <1>6, <1>7, <1>8 DEF PInv

-----------------------------------------------------------------------------
(* The references that there are after one more rewriting.                  *)
Later == Numbered(0 .. created + 3)

(* makeStringUnique: the references of a rewriting are new, and differ from *)
(* each other.                                                              *)
LEMMA NewReferences ==
  ASSUME created \in Nat
  PROVE  /\ Known \in SUBSET Later /\ Later \in SUBSET References
         /\ \A name \in {"divtmp", "divresult", "callresult", "param", "constant", "sp", "tmp"} :
              \A k \in 1 .. 3 : New(name, k) \in Later /\ New(name, k) \notin Known
         /\ \A a, b : \A k, l \in 1 .. 3 : New(a, k) = New(b, l) => k = l
<1>1. Known \in SUBSET Later
  BY DEF Known, Later, Numbered
<1>2. Later \in SUBSET References
  BY DEF Later, References, Numbered
<1>3. \A name \in {"divtmp", "divresult", "callresult", "param", "constant", "sp", "tmp"} :
        \A k \in 1 .. 3 : New(name, k) \in Later /\ New(name, k) \notin Known
  BY OperandShapes DEF Known, Later, Numbered, New
<1>4. \A a, b : \A k, l \in 1 .. 3 : New(a, k) = New(b, l) => k = l
  <2> SUFFICES ASSUME NEW a, NEW b, NEW k \in 1 .. 3, NEW l \in 1 .. 3, New(a, k) = New(b, l) PROVE k = l
    OBVIOUS
  <2>1. created + k = created + l
    BY DEF New
  <2> QED
    BY <2>1
<1> QED
  BY <1>1, <1>2, <1>3, <1>4

(* With more references there are more instructions.                        *)
LEMMA LoweredGrows ==
  ASSUME NEW small, NEW large, small \subseteq large
  PROVE  Lowered(small) \subseteq Lowered(large)
BY DEF Lowered, Emitted, Form

(* An instruction as the invariant wants it, and one that takes no part in  *)
(* the control flow.                                                        *)
Allowed(refs) == {instr \in Lowered(refs) : ResultIsNew(instr)}
Straight == {instr \in Allowed(Later) : instr.type \notin {"DEFINE_LABEL", "RETURN", "JUMP", "JUMP_IF_ZERO"}}

(* Two instructions play the same part in the control flow.                 *)
SameFlow(x, y) ==
  /\ \A type \in {"DEFINE_LABEL", "RETURN", "JUMP", "JUMP_IF_ZERO"} : x.type = type <=> y.type = type
  /\ x.type = "DEFINE_LABEL" => x.op1 = y.op1
  /\ IsJump(x) => \A l \in Labels : l \in {x.op1, x.op2} <=> l \in {y.op1, y.op2}

(* A rewriting that leaves the control flow as it is: what it inserts only  *)
(* computes, the instruction plays the same part, and it prescribes         *)
(* locations for new references only.                                       *)
Fits(instr, r) ==
  /\ r.before \in Seq(Straight) /\ r.after \in Seq(Straight)
  /\ r.instr \in Allowed(Later) /\ SameFlow(instr, r.instr)
  /\ instr.type = "RETURN" => r.after = <<>>
  /\ DOMAIN r.pins \subseteq Later \ Known

(* A move only computes, and so does an operation whose result is none of   *)
(* what it reads second.                                                    *)
LEMMA MovesAreStraight ==
  ASSUME NEW x \in Later, NEW y \in Values(Later) \cup ({"dyn"} \X Later)
  PROVE  Move(x, y) \in Straight
BY DEF Move, Straight, Allowed, Lowered, Emitted, Form, Instr, ResultIsNew, Values, Binary, Comparison

(* An operation only computes.                                              *)
LEMMA OperationsAreStraight ==
  ASSUME NEW type \in Binary, NEW x \in Later, NEW y \in Values(Later), NEW z \in Values(Later), x # z
  PROVE  Instr(type, x, y, z) \in Straight
<1>1. Instr(type, x, y, z) \in Form(Binary, Later, Values(Later), Values(Later))
  BY DEF Form, Instr
<1>2. Instr(type, x, y, z) \in Lowered(Later)
  BY <1>1 DEF Lowered, Emitted, Values
<1>3. ResultIsNew(Instr(type, x, y, z))
  BY DEF ResultIsNew, Instr
<1> QED
  BY <1>2, <1>3 DEF Straight, Allowed, Instr, Binary, Comparison

(* SeperateDivReferences leaves the control flow as it is.                  *)
LEMMA FitsDivision ==
  ASSUME created \in Nat, NEW instr \in Allowed(Known), instr.type = "DIVIDE"
  PROVE  Fits(instr, SeperateDivReferences(instr))
<1> DEFINE dividend == New("divtmp", 1)
           divisor  == New("divtmp", 2)
           quotient == New("divresult", 3)
           r == SeperateDivReferences(instr)
<1>1. dividend \in Later \ Known /\ divisor \in Later \ Known /\ quotient \in Later \ Known /\ quotient # divisor
  BY NewReferences
<1> HIDE DEF dividend, divisor, quotient
<1>2. /\ r.before = <<Move(dividend, instr.op1), Move(divisor, instr.op2)>>
      /\ r.instr = Instr("DIVIDE", quotient, dividend, divisor)
      /\ r.after = <<Move(instr.result, quotient)>>
      /\ DOMAIN r.pins = {dividend, quotient}
  BY DEF SeperateDivReferences, dividend, divisor, quotient
<1> HIDE DEF r
<1>3. /\ instr.result \in Known /\ instr.op2 \in Values(Known)
      /\ instr.op1 \in Values(Known) \cup ({"dyn"} \X Known)
  BY Forms DEF Allowed, Binary
<1>4. Move(dividend, instr.op1) \in Straight /\ Move(divisor, instr.op2) \in Straight
      /\ Move(instr.result, quotient) \in Straight
  BY <1>1, <1>3, NewReferences, MovesAreStraight DEF Values
<1>5. r.instr \in Allowed(Later)
  <2>1. "DIVIDE" \in Binary /\ dividend \in Values(Later) /\ divisor \in Values(Later)
    BY <1>1 DEF Binary, Values
  <2> QED
    BY <1>1, <1>2, <2>1, OperationsAreStraight DEF Straight
<1>6. SameFlow(instr, r.instr)
  BY <1>2 DEF SameFlow, Instr, IsJump
<1> QED
  <2>1. r.before \in Seq(Straight) /\ r.after \in Seq(Straight)
    BY <1>2, <1>4
  <2>2. DOMAIN r.pins \subseteq Later \ Known
    BY <1>1, <1>2
  <2> QED
    BY <1>4, <1>5, <1>6, <2>1, <2>2 DEF Fits, r

(* SeperateCallResults leaves the control flow as it is.                    *)
LEMMA FitsCall ==
  ASSUME created \in Nat, NEW instr \in Allowed(Known), instr.type = "CALL"
  PROVE  Fits(instr, SeperateCallResults(instr))
<1> DEFINE returned == New("callresult", 1)
           r == SeperateCallResults(instr)
<1>1. returned \in Later \ Known
  BY NewReferences
<1> HIDE DEF returned
<1>2. /\ r.before = <<>> /\ r.after = <<Move(instr.result, returned)>>
      /\ r.instr = [instr EXCEPT !.result = returned]
      /\ DOMAIN r.pins = {returned}
  BY DEF SeperateCallResults, returned
<1> HIDE DEF r
<1>3. /\ instr = Instr(instr.type, instr.result, instr.op1, instr.op2)
      /\ instr.result \in Known /\ instr.op1 \in Labels /\ instr.op2 \in Constants
  BY Forms DEF Allowed
<1>4. r.instr = Instr("CALL", returned, instr.op1, instr.op2)
  BY <1>2, <1>3 DEF Instr
<1>5. Move(instr.result, returned) \in Straight
  BY <1>1, <1>3, NewReferences, MovesAreStraight DEF Values
<1>6. r.instr \in Allowed(Later)
  BY <1>1, <1>3, <1>4 DEF Allowed, Lowered, Emitted, Form, Instr, ResultIsNew, Binary, Comparison
<1>7. SameFlow(instr, r.instr)
  BY <1>4 DEF SameFlow, Instr, IsJump
<1> QED
  <2>1. r.before \in Seq(Straight) /\ r.after \in Seq(Straight)
    BY <1>2, <1>5
  <2>2. DOMAIN r.pins \subseteq Later \ Known
    BY <1>1, <1>2
  <2> QED
    BY <1>5, <1>6, <1>7, <2>1, <2>2 DEF Fits, r

(* SeparateLoadParameters leaves the control flow as it is.                 *)
LEMMA FitsParameter ==
  ASSUME created \in Nat, NEW instr \in Allowed(Known), instr.type = "LOAD_PARAMETER"
  PROVE  Fits(instr, SeparateLoadParameters(instr))
<1> DEFINE param == New("param", 1)
           r == SeparateLoadParameters(instr)
<1>1. param \in Later \ Known
  BY NewReferences
<1> HIDE DEF param
<1>2. /\ r.before = <<>> /\ r.after = <<Move(instr.result, param)>>
      /\ r.instr = [instr EXCEPT !.result = param]
      /\ DOMAIN r.pins = {param}
  BY DEF SeparateLoadParameters, param
<1> HIDE DEF r
<1>3. /\ instr = Instr(instr.type, instr.result, instr.op1, instr.op2)
      /\ instr.result \in Known /\ instr.op1 \in Constants /\ instr.op2 = None
  BY Forms DEF Allowed
<1>4. r.instr = Instr("LOAD_PARAMETER", param, instr.op1, None)
  BY <1>2, <1>3 DEF Instr
<1>5. Move(instr.result, param) \in Straight
  BY <1>1, <1>3, NewReferences, MovesAreStraight DEF Values
<1>6. r.instr \in Allowed(Later)
  BY <1>1, <1>3, <1>4 DEF Allowed, Lowered, Emitted, Form, Instr, ResultIsNew, Binary, Comparison
<1>7. SameFlow(instr, r.instr)
  BY <1>4 DEF SameFlow, Instr, IsJump
<1> QED
  <2>1. r.before \in Seq(Straight) /\ r.after \in Seq(Straight)
    BY <1>2, <1>5
  <2>2. DOMAIN r.pins \subseteq Later \ Known
    BY <1>1, <1>2
  <2> QED
    BY <1>5, <1>6, <1>7, <2>1, <2>2 DEF Fits, r

(* ResolveAddressOf leaves the control flow as it is.                       *)
LEMMA FitsAddress ==
  ASSUME created \in Nat, NEW instr \in Allowed(Known), instr.type = "ADDRESS_OF",
         instr.op1 \in References
  PROVE  Fits(instr, ResolveAddressOf(instr))
<1> DEFINE sp == New("sp", 1)
           r == ResolveAddressOf(instr)
<1>1. sp \in Later \ Known
  BY NewReferences
<1> HIDE DEF sp
<1>2. /\ r.before = <<Instr("SET_LIVE", sp, None, None)>> /\ r.after = <<>>
      /\ r.instr = Instr("ADD", instr.result, <<"dyn", instr.op1>>, sp)
      /\ DOMAIN r.pins = {sp}
  BY DEF ResolveAddressOf, sp
<1> HIDE DEF r
<1>3. instr.result \in Known /\ instr.op1 \in Known
  <2>1. instr.result \in Known /\ instr.op1 \in Known \cup GlobalReferences
    BY Forms DEF Allowed
  <2> QED
    BY <2>1, KindsDiffer
<1>4. Instr("SET_LIVE", sp, None, None) \in Straight
  BY <1>1 DEF Straight, Allowed, Lowered, Form, Instr, ResultIsNew, Binary, Comparison
<1>5. r.instr \in Allowed(Later)
  <2>1. instr.result \in Later /\ <<"dyn", instr.op1>> \in {"dyn"} \X Later /\ instr.result # sp
    BY <1>1, <1>3, NewReferences
  <2>2. r.instr \in Form({"ADD"}, Later, {"dyn"} \X Later, Later)
    BY <1>1, <1>2, <2>1 DEF Form, Instr
  <2> QED
    BY <1>2, <2>1, <2>2 DEF Allowed, Lowered, Instr, ResultIsNew
<1>6. SameFlow(instr, r.instr)
  BY <1>2 DEF SameFlow, Instr, IsJump
<1> QED
  <2>1. r.before \in Seq(Straight) /\ r.after \in Seq(Straight)
    BY <1>2, <1>4
  <2>2. DOMAIN r.pins \subseteq Later \ Known
    BY <1>1, <1>2
  <2> QED
    BY <1>4, <1>5, <1>6, <2>1, <2>2 DEF Fits, r

(* MoveConstantsToReferences leaves the control flow as it is: labels are   *)
(* no constants, and a return is not followed by anything.                  *)
LEMMA FitsConstants ==
  ASSUME created \in Nat, NEW instr \in Allowed(Known), instr.type \notin {"MOVE", "CALL", "LOAD_PARAMETER"}
  PROVE  Fits(instr, MoveConstantsToReferences(instr))
<1> DEFINE c1 == New("constant", 1)
           c2 == New("constant", 2)
           first == IsConstant(instr.op1)
           second == IsConstant(instr.op2)
           a == IF first THEN c1 ELSE instr.op1
           b == IF second THEN c2 ELSE instr.op2
           r == MoveConstantsToReferences(instr)
<1>1. c1 \in Later \ Known /\ c2 \in Later \ Known
  BY NewReferences
<1> HIDE DEF c1, c2
<1>2. /\ r.before = (IF first THEN <<Move(c1, instr.op1)>> ELSE <<>>)
                    \o (IF second THEN <<Move(c2, instr.op2)>> ELSE <<>>)
      /\ r.after = <<>>
      /\ r.instr = [instr EXCEPT !.op1 = IF first THEN c1 ELSE @, !.op2 = IF second THEN c2 ELSE @]
      /\ DOMAIN r.pins = {}
  BY DEF MoveConstantsToReferences, c1, c2, Nowhere
<1> HIDE DEF r
<1>3. instr \in Lowered(Known)
      /\ instr = Instr(instr.type, instr.result, instr.op1, instr.op2) /\ ResultIsNew(instr)
  BY Forms DEF Allowed
<1>4. r.instr = Instr(instr.type, instr.result, a, b)
  BY <1>2, <1>3 DEF Instr
<1>5. Known \subseteq Later /\ Known \subseteq References /\ Later \subseteq References
  BY NewReferences
<1>6. /\ \A x \in Known : ~IsConstant(x) /\ x \in Later
      /\ \A x \in Labels \cup GlobalReferences \cup {None} : ~IsConstant(x)
      /\ \A x \in Constants \cup ({"dyn"} \X Known) : IsConstant(x)
  BY <1>5, KindsDiffer
<1>7. first => instr.op1 \in Values(Later) \cup ({"dyn"} \X Later)
  <2>1. instr.op1 \in Known \cup Constants \cup ({"dyn"} \X Known) \cup Labels \cup GlobalReferences \cup {None}
    BY <1>3 DEF Lowered, Emitted, Form
  <2> QED
    BY <1>5, <1>6, <2>1 DEF Values
<1>8. second => instr.op2 \in Values(Later) \cup ({"dyn"} \X Later)
  <2>1. instr.op2 \in Known \cup Constants \cup Labels \cup {None}
    BY <1>3 DEF Lowered, Emitted, Form
  <2> QED
    BY <1>5, <1>6, <2>1 DEF Values
<1>9. first => Move(c1, instr.op1) \in Straight
  BY <1>1, <1>7, MovesAreStraight
<1>10. second => Move(c2, instr.op2) \in Straight
  BY <1>1, <1>8, MovesAreStraight
<1>11. r.before \in Seq(Straight)
  <2>1. /\ first => <<Move(c1, instr.op1)>> \in Seq(Straight)
        /\ second => <<Move(c2, instr.op2)>> \in Seq(Straight)
        /\ <<>> \in Seq(Straight)
    BY <1>9, <1>10
  <2> HIDE DEF first, second
  <2> QED
    BY <1>2, <2>1
<1>12. r.instr \in Lowered(Later)
  <2>1. /\ instr.op1 \in Values(Known) => a \in Values(Later)
        /\ instr.op1 \in {"dyn"} \X Known => a \in Later
        /\ instr.op1 \in Labels \cup GlobalReferences \cup {None} => a = instr.op1
        /\ instr.op1 \in Known => a \in Later
    BY <1>1, <1>5, <1>6 DEF Values
  <2>2. /\ instr.op2 \in Values(Known) => b \in Values(Later)
        /\ instr.op2 \in Known => b \in Later
        /\ instr.op2 \in Labels \cup {None} => b = instr.op2
    BY <1>1, <1>5, <1>6 DEF Values
  <2>3. instr.result \in Known => instr.result \in Later
    BY <1>5
  <2> HIDE DEF a, b
  <2> QED
    BY SMTT(60), <1>3, <1>4, <2>1, <2>2, <2>3 DEF Lowered, Emitted, Form, Values, Instr, Unary, Binary, Comparison
<1>13. ResultIsNew(r.instr)
  <2>1. instr.type \in Binary => instr.result \in Known
    BY <1>3, Forms
  <2> QED
    BY <1>1, <1>3, <1>4, <2>1 DEF ResultIsNew, Instr
<1>14. SameFlow(instr, r.instr)
  <2>1. \A l \in Labels : l # c1 /\ l # c2 /\ ~IsConstant(l)
    BY <1>1, <1>5, KindsDiffer
  <2> QED
    BY <1>4, <2>1, <1>3, Forms, <1>6 DEF SameFlow, Instr, IsJump
<1> QED
  <2>1. r.after \in Seq(Straight) /\ DOMAIN r.pins \subseteq Later \ Known
    BY <1>2
  <2> QED
    BY <1>2, <1>11, <1>12, <1>13, <1>14, <2>1 DEF Fits, Allowed, r

(* The prefilter of MakeTwoOperandCompatible lets only operations through.  *)
LEMMA NeededTwice ==
  ASSUME NEW instr \in Allowed(Known), NeedsTwoOperandForm(instr)
  PROVE  instr.type = "NEGATE" \/ instr.type \in Binary
<1>1. \A x \in Labels \cup Constants \cup GlobalReferences \cup {None} : x \notin References
  BY KindsDiffer
<1>2. instr \in Lowered(Known)
  BY DEF Allowed
<1> QED
  BY SMTT(60), <1>1, <1>2 DEF NeedsTwoOperandForm, Lowered, Emitted, Form, Unary, Binary, Comparison

(* MakeTwoOperandCompatible leaves the control flow as it is.               *)
LEMMA FitsTwoOperands ==
  ASSUME created \in Nat, NEW instr \in Allowed(Known), NeedsTwoOperandForm(instr)
  PROVE  Fits(instr, MakeTwoOperandCompatible(instr))
<1> DEFINE r == MakeTwoOperandCompatible(instr)
<1>2. /\ r.before = <<Move(instr.result, instr.op1)>> /\ r.after = <<>>
      /\ r.instr = [instr EXCEPT !.op1 = instr.result]
      /\ DOMAIN r.pins = {}
  BY DEF MakeTwoOperandCompatible, Nowhere
<1> HIDE DEF r
<1>3. instr \in Lowered(Known)
      /\ instr = Instr(instr.type, instr.result, instr.op1, instr.op2) /\ ResultIsNew(instr)
  BY Forms DEF Allowed
<1>4. r.instr = Instr(instr.type, instr.result, instr.result, instr.op2)
  BY <1>2, <1>3 DEF Instr
<1>5. Known \subseteq Later /\ Known \subseteq References
  BY NewReferences
<1>6. instr.type = "NEGATE" \/ instr.type \in Binary
  BY NeededTwice
<1>7. /\ instr.result \in Known /\ instr.op1 \in Values(Known) \cup ({"dyn"} \X Known)
      /\ instr.type = "NEGATE" => instr.op2 = None
      /\ instr.type \in Binary => instr.op2 \in Values(Known)
  BY <1>3, <1>6, Forms DEF Unary, Values
<1>8. Move(instr.result, instr.op1) \in Straight
  BY <1>5, <1>7, MovesAreStraight DEF Values
<1>9. r.instr \in Straight
  <2>1. CASE instr.type = "NEGATE"
    BY <1>4, <1>5, <1>7, <2>1 DEF Straight, Allowed, Lowered, Emitted, Form,
                                  Instr, Unary, ResultIsNew, Binary, Comparison
  <2>2. CASE instr.type \in Binary
    <3>1. instr.result \in Later /\ instr.op2 \in Values(Later) /\ instr.result # instr.op2
      BY <1>3, <1>5, <1>7, <2>2 DEF Values, ResultIsNew
    <3> QED
      BY <1>4, <2>2, <3>1, OperationsAreStraight DEF Values
  <2> QED
    BY <1>6, <2>1, <2>2
<1>10. SameFlow(instr, r.instr) /\ instr.type # "RETURN"
  BY <1>4, <1>6 DEF SameFlow, Instr, IsJump, Binary, Comparison
<1> QED
  <2>1. r.after \in Seq(Straight) /\ DOMAIN r.pins \subseteq Later \ Known /\ r.before \in Seq(Straight)
    BY <1>2, <1>8
  <2> QED
    BY <1>2, <1>9, <1>10, <2>1 DEF Fits, Straight, r

(* ReplaceModWithDivMulSub leaves the control flow as it is, once no        *)
(* operand is a constant.                                                   *)
LEMMA FitsModulo ==
  ASSUME created \in Nat, NEW instr \in Allowed(Known), instr.type = "MODULO", ~IsConstant(instr.op1)
  PROVE  Fits(instr, ReplaceModWithDivMulSub(instr))
<1> DEFINE quotient == New("tmp", 1)
           product  == New("tmp", 2)
           r == ReplaceModWithDivMulSub(instr)
<1>1. quotient \in Later \ Known /\ product \in Later \ Known /\ quotient # product
  BY NewReferences
<1> HIDE DEF quotient, product
<1>2. /\ r.before = <<>>
      /\ r.instr = Instr("DIVIDE", quotient, instr.op1, instr.op2)
      /\ r.after = <<Instr("MULTIPLY", product, quotient, instr.op2),
                     Instr("SUBTRACT", instr.result, instr.op1, product)>>
      /\ DOMAIN r.pins = {}
  BY DEF ReplaceModWithDivMulSub, quotient, product, Nowhere
<1> HIDE DEF r
<1>3. Known \subseteq Later /\ Known \subseteq References
  BY NewReferences
<1>4. instr.result \in Known /\ instr.op1 \in Values(Known) /\ instr.op2 \in Values(Known)
  <2>1. instr.result \in Known /\ instr.op2 \in Values(Known) /\ instr.op1 \in Values(Known) \cup ({"dyn"} \X Known)
    BY Forms DEF Allowed, Binary
  <2> QED
    BY <2>1, KindsDiffer
<1>5. {"DIVIDE", "MULTIPLY", "SUBTRACT"} \subseteq Binary
  BY DEF Binary
<1>6. \A x \in Known \cup Constants : x # quotient /\ x # product
  BY <1>1, KindsDiffer, NewReferences
<1>7. Values(Known) \subseteq Values(Later) /\ quotient \in Values(Later) /\ product \in Values(Later)
  BY <1>1, <1>3 DEF Values
<1>8. Instr("DIVIDE", quotient, instr.op1, instr.op2) \in Straight
  BY <1>1, <1>4, <1>5, <1>6, <1>7, OperationsAreStraight DEF Values
<1>9. Instr("MULTIPLY", product, quotient, instr.op2) \in Straight
  BY <1>1, <1>4, <1>5, <1>6, <1>7, OperationsAreStraight DEF Values
<1>10. Instr("SUBTRACT", instr.result, instr.op1, product) \in Straight
  BY <1>1, <1>3, <1>4, <1>5, <1>6, <1>7, OperationsAreStraight DEF Values
<1>11. SameFlow(instr, r.instr)
  BY <1>2 DEF SameFlow, Instr, IsJump
<1> QED
  <2>1. r.after \in Seq(Straight) /\ DOMAIN r.pins \subseteq Later \ Known /\ r.before \in Seq(Straight)
    BY <1>2, <1>9, <1>10
  <2> QED
    BY <1>2, <1>8, <1>11, <2>1 DEF Fits, Straight, r

-----------------------------------------------------------------------------
(* The function c with b before, x instead of and a after its p-th          *)
(* instruction, and where an instruction of c is then.                      *)
Splice(c, p, b, x, a) == SubSeq(c, 1, p - 1) \o b \o <<x>> \o a \o SubSeq(c, p + 1, Len(c))

(* The place of what was at i.                                              *)
Moved(p, b, a, i) == IF i < p THEN i ELSE IF i = p THEN p + Len(b) ELSE i + Len(b) + Len(a)

(* What is where after a rewriting, and that nothing gets lost or into      *)
(* another order.                                                           *)
IsSplice(S, c, p, b, x, a) ==
  LET d == Splice(c, p, b, x, a)
  IN /\ d \in Seq(S) /\ Len(d) = Len(c) + Len(b) + Len(a)
     /\ \A i \in Positions(c) \ {p} : d[Moved(p, b, a, i)] = c[i]
     /\ d[p + Len(b)] = x
     /\ \A i \in Positions(b) : d[p - 1 + i] = b[i]
     /\ \A i \in Positions(a) : d[p + Len(b) + i] = a[i]

(* No two instructions move to one place.                                   *)
KeepsOrder(c, p, b, a) ==
  /\ \A i \in Positions(c) : Moved(p, b, a, i) \in 1 .. Len(c) + Len(b) + Len(a)
  /\ \A i, k \in Positions(c) : Moved(p, b, a, i) = Moved(p, b, a, k) => i = k

(* What is where in the concatenation of two sequences.                     *)
LEMMA Joined ==
  ASSUME NEW S, NEW s \in Seq(S), NEW t \in Seq(S)
  PROVE  /\ s \o t \in Seq(S) /\ Len(s \o t) = Len(s) + Len(t)
         /\ \A i \in 1 .. Len(s) : (s \o t)[i] = s[i]
         /\ \A i \in 1 .. Len(t) : (s \o t)[Len(s) + i] = t[i]
OBVIOUS

(* The insertion that RSIPass::operator() makes puts everything where it    *)
(* belongs.                                                                 *)
LEMMA Spliced ==
  ASSUME NEW S, NEW c \in Seq(S), NEW p \in Positions(c), NEW b \in Seq(S), NEW a \in Seq(S), NEW x \in S
  PROVE  IsSplice(S, c, p, b, x, a)
<1> DEFINE l == SubSeq(c, 1, p - 1)
           q == SubSeq(c, p + 1, Len(c))
           d == Splice(c, p, b, x, a)
<1>1. Len(c) \in Nat /\ p \in 1 .. Len(c) /\ Len(b) \in Nat /\ Len(a) \in Nat
  BY DEF Positions
<1>2. l \in Seq(S) /\ Len(l) = p - 1 /\ \A i \in 1 .. p - 1 : l[i] = c[i]
  BY <1>1, SubSeqProperties
<1>3. q \in Seq(S) /\ Len(q) = Len(c) - p /\ \A i \in 1 .. Len(c) - p : q[i] = c[p + i]
  BY <1>1, SubSeqProperties
<1> HIDE DEF l, q
<1>4. d = l \o b \o <<x>> \o a \o q
  BY DEF Splice, l, q
<1> HIDE DEF d
<1> DEFINE lb == l \o b
           lbx == lb \o <<x>>
           lbxa == lbx \o a
<1>5. /\ lb \in Seq(S) /\ Len(lb) = p - 1 + Len(b)
      /\ \A i \in 1 .. p - 1 : lb[i] = c[i]
      /\ \A i \in 1 .. Len(b) : lb[p - 1 + i] = b[i]
  <2>1. l \in Seq(S)
    BY <1>2
  <2>2. /\ lb \in Seq(S) /\ Len(lb) = Len(l) + Len(b)
        /\ \A i \in 1 .. Len(l) : lb[i] = l[i]
        /\ \A i \in 1 .. Len(b) : lb[Len(l) + i] = b[i]
    BY <2>1, Joined
  <2> HIDE DEF lb
  <2> QED
    BY <1>1, <1>2, <2>2
<1> HIDE DEF lb
<1>6. /\ lbx \in Seq(S) /\ Len(lbx) = p + Len(b)
      /\ \A i \in 1 .. p - 1 + Len(b) : lbx[i] = lb[i]
      /\ lbx[p + Len(b)] = x
  <2>1. <<x>> \in Seq(S) /\ Len(<<x>>) = 1 /\ 1 \in 1 .. 1 /\ <<x>>[1] = x
    OBVIOUS
  <2>2. lbx \in Seq(S) /\ Len(lbx) = Len(lb) + 1 /\ (\A i \in 1 .. Len(lb) : lbx[i] = lb[i]) /\ lbx[Len(lb) + 1] = x
    BY <1>5, <2>1, Joined
  <2> HIDE DEF lbx
  <2> QED
    BY <1>1, <1>5, <2>2
<1> HIDE DEF lbx
<1>7. /\ lbxa \in Seq(S) /\ Len(lbxa) = p + Len(b) + Len(a)
      /\ \A i \in 1 .. p + Len(b) : lbxa[i] = lbx[i]
      /\ \A i \in 1 .. Len(a) : lbxa[p + Len(b) + i] = a[i]
  <2>1. /\ lbxa \in Seq(S) /\ Len(lbxa) = Len(lbx) + Len(a)
        /\ \A i \in 1 .. Len(lbx) : lbxa[i] = lbx[i]
        /\ \A i \in 1 .. Len(a) : lbxa[Len(lbx) + i] = a[i]
    <3>1. lbx \in Seq(S)
      BY <1>6
    <3> QED
      BY <3>1, Joined
  <2> HIDE DEF lbxa
  <2> QED
    BY <1>1, <1>6, <2>1
<1> HIDE DEF lbxa
<1>8. /\ d \in Seq(S) /\ Len(d) = Len(c) + Len(b) + Len(a)
      /\ \A i \in 1 .. p + Len(b) + Len(a) : d[i] = lbxa[i]
      /\ \A i \in 1 .. Len(c) - p : d[p + Len(b) + Len(a) + i] = q[i]
  <2>1. d = lbxa \o q
    BY <1>4 DEF lbxa, lbx, lb
  <2>2. /\ d \in Seq(S) /\ Len(d) = Len(lbxa) + Len(q)
        /\ \A i \in 1 .. Len(lbxa) : d[i] = lbxa[i]
        /\ \A i \in 1 .. Len(q) : d[Len(lbxa) + i] = q[i]
    <3>1. lbxa \in Seq(S) /\ q \in Seq(S)
      BY <1>3, <1>7
    <3> QED
      BY <2>1, <3>1, Joined
  <2> QED
    BY <1>1, <1>3, <1>7, <2>2
<1>9. ASSUME NEW i \in Positions(c) \ {p} PROVE d[Moved(p, b, a, i)] = c[i]
  <2>1. CASE i < p
    <3>1. i \in 1 .. p - 1 /\ i \in 1 .. p - 1 + Len(b) /\ i \in 1 .. p + Len(b) /\ i \in 1 .. p + Len(b) + Len(a)
      BY <1>1, <2>1 DEF Positions
    <3> QED
      BY <1>5, <1>6, <1>7, <1>8, <2>1, <3>1 DEF Moved
  <2>2. CASE i > p
    <3>1. i - p \in 1 .. Len(c) - p /\ Moved(p, b, a, i) = p + Len(b) + Len(a) + (i - p) /\ p + (i - p) = i
      BY <1>1, <2>2 DEF Positions, Moved
    <3> QED
      BY <1>3, <1>8, <3>1
  <2> QED
    BY <1>1, <2>1, <2>2 DEF Positions
<1>10. d[p + Len(b)] = x
  <2>1. p + Len(b) \in 1 .. p + Len(b) /\ p + Len(b) \in 1 .. p + Len(b) + Len(a)
    BY <1>1
  <2> QED
    BY <1>6, <1>7, <1>8, <2>1
<1>11. ASSUME NEW i \in Positions(b) PROVE d[p - 1 + i] = b[i]
  <2>1. i \in 1 .. Len(b) /\ p - 1 + i \in 1 .. p - 1 + Len(b) /\ p - 1 + i \in 1 .. p + Len(b)
        /\ p - 1 + i \in 1 .. p + Len(b) + Len(a)
    BY <1>1 DEF Positions
  <2> QED
    BY <1>5, <1>6, <1>7, <1>8, <2>1
<1>12. ASSUME NEW i \in Positions(a) PROVE d[p + Len(b) + i] = a[i]
  <2>1. i \in 1 .. Len(a) /\ p + Len(b) + i \in 1 .. p + Len(b) + Len(a)
    BY <1>1 DEF Positions
  <2> QED
    BY <1>7, <1>8, <2>1
<1> QED
  BY <1>8, <1>9, <1>10, <1>11, <1>12 DEF d, IsSplice

(* Whatever is in the function after a rewriting was there or was put       *)
(* there.                                                                   *)
LEMMA SplicePositions ==
  ASSUME NEW S, NEW c \in Seq(S), NEW p \in Positions(c), NEW b \in Seq(S), NEW a \in Seq(S), NEW x \in S,
         NEW j \in Positions(Splice(c, p, b, x, a))
  PROVE  \/ \E i \in Positions(c) : j = Moved(p, b, a, i)
         \/ \E i \in Positions(b) : j = p - 1 + i
         \/ \E i \in Positions(a) : j = p + Len(b) + i
<1>1. Len(c) \in Nat /\ p \in 1 .. Len(c) /\ Len(b) \in Nat /\ Len(a) \in Nat
  BY DEF Positions
<1>2. j \in 1 .. Len(c) + Len(b) + Len(a)
  <2>1. IsSplice(S, c, p, b, x, a)
    BY Spliced
  <2> QED
    BY <2>1 DEF IsSplice, Positions
<1>3. CASE j < p
  BY <1>1, <1>2, <1>3 DEF Moved, Positions
<1>4. CASE j >= p /\ j < p + Len(b)
  <2>1. j - p + 1 \in Positions(b) /\ j = p - 1 + (j - p + 1)
    BY <1>1, <1>2, <1>4 DEF Positions
  <2> QED
    BY <2>1
<1>5. CASE j = p + Len(b)
  BY <1>1, <1>5 DEF Moved, Positions
<1>6. CASE j > p + Len(b) /\ j <= p + Len(b) + Len(a)
  <2>1. j - p - Len(b) \in Positions(a) /\ j = p + Len(b) + (j - p - Len(b))
    BY <1>1, <1>2, <1>6 DEF Positions
  <2> QED
    BY <2>1
<1>7. CASE j > p + Len(b) + Len(a)
  <2>1. j - Len(b) - Len(a) \in Positions(c) /\ j = Moved(p, b, a, j - Len(b) - Len(a))
    BY <1>1, <1>2, <1>7 DEF Positions, Moved
  <2> QED
    BY <2>1
<1>8. \/ j < p
      \/ j >= p /\ j < p + Len(b)
      \/ j = p + Len(b)
      \/ j > p + Len(b) /\ j <= p + Len(b) + Len(a)
      \/ j > p + Len(b) + Len(a)
  BY <1>1, <1>2
<1> QED
  BY <1>3, <1>4, <1>5, <1>6, <1>7, <1>8

(* What was in the function is still there, once.                           *)
LEMMA MovedKeepsOrder ==
  ASSUME NEW S, NEW c \in Seq(S), NEW p \in Positions(c), NEW b \in Seq(S), NEW a \in Seq(S)
  PROVE  KeepsOrder(c, p, b, a)
<1>1. Len(c) \in Nat /\ p \in 1 .. Len(c) /\ Len(b) \in Nat /\ Len(a) \in Nat
  BY DEF Positions
<1> QED
  BY <1>1 DEF Moved, Positions, KeepsOrder

(* A rewriting that fits leaves a function that flows one that flows.       *)
LEMMA SplicedFlow ==
  ASSUME created \in Nat, NEW c \in Seq(Allowed(Later)), NEW p \in Positions(c), NEW r, Fits(c[p], r), Flows(c)
  PROVE  Flows(Splice(c, p, r.before, r.instr, r.after))
<1> DEFINE b == r.before
           a == r.after
           x == r.instr
           d == Splice(c, p, b, x, a)
           f(i) == Moved(p, b, a, i)
<1>1. /\ b \in Seq(Straight) /\ a \in Seq(Straight) /\ x \in Allowed(Later) /\ SameFlow(c[p], x)
      /\ c[p].type = "RETURN" => a = <<>>
  BY DEF Fits
<1>2. b \in Seq(Allowed(Later)) /\ a \in Seq(Allowed(Later))
  <2>1. Straight \subseteq Allowed(Later)
    BY DEF Straight
  <2> QED
    BY <1>1, <2>1
<1>3. Len(c) \in Nat /\ Len(b) \in Nat /\ Len(a) \in Nat /\ p \in 1 .. Len(c)
  BY <1>1 DEF Positions
<1> HIDE DEF b, a, x
<1>4. /\ d \in Seq(Allowed(Later)) /\ Len(d) = Len(c) + Len(b) + Len(a)
      /\ \A i \in Positions(c) \ {p} : d[f(i)] = c[i]
      /\ d[p + Len(b)] = x
      /\ \A i \in Positions(b) : d[p - 1 + i] = b[i]
      /\ \A i \in Positions(a) : d[p + Len(b) + i] = a[i]
  <2>1. IsSplice(Allowed(Later), c, p, b, x, a)
    BY <1>1, <1>2, Spliced
  <2> QED
    BY <2>1 DEF IsSplice
<1>5. \A j \in Positions(d) : \/ \E i \in Positions(c) : j = f(i)
                              \/ \E i \in Positions(b) : j = p - 1 + i
                              \/ \E i \in Positions(a) : j = p + Len(b) + i
  BY <1>1, <1>2, SplicePositions
<1>6. /\ \A i \in Positions(c) : f(i) \in Positions(d)
      /\ \A i, k \in Positions(c) : f(i) = f(k) => i = k
  <2>1. KeepsOrder(c, p, b, a)
    BY <1>2, MovedKeepsOrder
  <2> HIDE DEF f, d
  <2>2. Positions(d) = 1 .. Len(c) + Len(b) + Len(a)
    BY <1>4 DEF Positions
  <2> QED
    BY <2>1, <2>2 DEF KeepsOrder, f
<1>7. f(p) = p + Len(b)
  BY <1>3 DEF Moved
<1> HIDE DEF d, f
<1>8. \A i \in Positions(c) : SameFlow(c[i], d[f(i)])
  BY <1>1, <1>4, <1>7 DEF SameFlow
<1>9. ASSUME NEW j \in Positions(d), d[j].type \in {"DEFINE_LABEL", "RETURN", "JUMP", "JUMP_IF_ZERO"}
      PROVE  \E i \in Positions(c) : j = f(i)
  <2>1. \A i \in Positions(b) : b[i] \in Straight
    BY <1>1 DEF Positions
  <2>2. \A i \in Positions(a) : a[i] \in Straight
    BY <1>1 DEF Positions
  <2> QED
    BY <1>4, <1>5, <1>9, <2>1, <2>2 DEF Straight
<1>10. ASSUME NEW i \in Positions(d), NEW j \in Positions(d),
              d[i].type = "DEFINE_LABEL", d[j].type = "DEFINE_LABEL", d[i].op1 = d[j].op1
       PROVE  i = j
  <2>1. PICK k \in Positions(c) : i = f(k)
    BY <1>9, <1>10
  <2>2. PICK l \in Positions(c) : j = f(l)
    BY <1>9, <1>10
  <2>3. c[k].type = "DEFINE_LABEL" /\ c[l].type = "DEFINE_LABEL"
    BY <1>8, <1>10, <2>1, <2>2 DEF SameFlow
  <2>4. c[k].op1 = c[l].op1
    BY <1>8, <1>10, <2>1, <2>2, <2>3 DEF SameFlow
  <2>5. k = l
    BY <2>3, <2>4 DEF Flows
  <2> QED
    BY <2>1, <2>2, <2>5
<1>11. ASSUME NEW i \in Positions(d), IsJump(d[i])
       PROVE  \E j \in Positions(d) : JumpsTo(d[i], d[j])
  <2>1. PICK k \in Positions(c) : i = f(k)
    BY <1>9, <1>11 DEF IsJump
  <2>2. IsJump(c[k]) /\ SameFlow(c[k], d[i])
    BY <1>8, <1>11, <2>1 DEF SameFlow, IsJump
  <2>3. PICK l \in Positions(c) : JumpsTo(c[k], c[l])
    BY <2>2 DEF Flows
  <2>4. d[f(l)].type = "DEFINE_LABEL" /\ d[f(l)].op1 = c[l].op1
    BY <1>8, <2>3 DEF SameFlow, JumpsTo
  <2>5. c[l].op1 \in Labels
    <3>1. c[l] \in Lowered(Later) /\ c[l].type = "DEFINE_LABEL"
      BY <2>3 DEF JumpsTo, Allowed, Positions
    <3> QED
      BY <3>1, Forms
  <2>6. JumpsTo(d[i], d[f(l)])
    BY <1>11, <2>2, <2>3, <2>4, <2>5 DEF JumpsTo, SameFlow
  <2> QED
    BY <1>6, <2>6
<1>12. Len(d) > 0 /\ d[Len(d)].type = "RETURN"
  <2>1. Len(c) \in Positions(c) /\ c[Len(c)].type = "RETURN"
    BY <1>3 DEF Flows, Positions
  <2>2. f(Len(c)) = Len(d)
    <3>1. CASE p = Len(c)
      <4>1. Len(a) = 0
        BY <1>1, <2>1, <3>1
      <4> QED
        BY <1>3, <1>4, <1>7, <3>1, <4>1
    <3>2. CASE p # Len(c)
      BY <1>3, <1>4, <3>2 DEF f, Moved
    <3> QED
      BY <3>1, <3>2
  <2>3. d[Len(d)].type = "RETURN"
    BY <1>8, <2>1, <2>2 DEF SameFlow
  <2> QED
    BY <1>3, <1>4, <2>3
<1> QED
  BY <1>10, <1>11, <1>12 DEF Flows, d, b, a, x

-----------------------------------------------------------------------------
(* The passes, and those that were through when the current one began.      *)
PassNames == {"divisions", "calls", "parameters", "addresses", "constants", "two operands", "modulo"}

(* The passes before this one.                                              *)
Earliest == {PassList[k] : k \in 1 .. pass - 1}

(* The order of the pass list: which passes can come before which, and the  *)
(* two orders that matter: addresses before constants, constants before the *)
(* modulo.                                                                  *)
LEMMA PassOrder ==
  ASSUME arch \in {"x86_64", "AArch64"}, pass \in 1 .. Len(PassList)
  PROVE  /\ PassList[pass] \in PassNames
         /\ PassList[pass] = "divisions" => Earliest = {}
         /\ PassList[pass] = "calls" => Earliest \subseteq {"divisions"}
         /\ PassList[pass] = "parameters" => Earliest \subseteq {"divisions", "calls"}
         /\ PassList[pass] = "addresses" => Earliest \subseteq {"divisions", "calls", "parameters"}
         /\ PassList[pass] = "constants" =>
              /\ Earliest \subseteq {"divisions", "calls", "parameters", "addresses"}
              /\ "addresses" \in Earliest
         /\ PassList[pass] = "two operands" =>
              Earliest \subseteq {"divisions", "calls", "parameters", "addresses", "constants"}
         /\ PassList[pass] = "modulo" =>
              /\ Earliest \subseteq {"calls", "parameters", "addresses", "constants"}
              /\ "constants" \in Earliest
<1>1. CASE arch = "x86_64"
  <2>1. Len(PassList) = 6
    BY <1>1, PassLists
  <2>2. pass \in {1, 2, 3, 4, 5, 6}
    BY <2>1
  <2>3. CASE pass = 1
    <3>1. 1 .. pass - 1 = {}
      BY <2>3
    <3>2. PassList[pass] = "divisions" /\ Earliest = {}
      BY <1>1, <2>3, <3>1, PassLists DEF Earliest
    <3> QED
      BY <3>2 DEF PassNames
  <2>4. CASE pass = 2
    <3>1. 1 .. pass - 1 = {1}
      BY <2>4
    <3>2. PassList[pass] = "calls" /\ Earliest = {"divisions"}
      BY <1>1, <2>4, <3>1, PassLists DEF Earliest
    <3> QED
      BY <3>2 DEF PassNames
  <2>5. CASE pass = 3
    <3>1. 1 .. pass - 1 = {1, 2}
      BY <2>5
    <3>2. PassList[pass] = "parameters" /\ Earliest = {"divisions", "calls"}
      BY <1>1, <2>5, <3>1, PassLists DEF Earliest
    <3> QED
      BY <3>2 DEF PassNames
  <2>6. CASE pass = 4
    <3>1. 1 .. pass - 1 = {1, 2, 3}
      BY <2>6
    <3>2. PassList[pass] = "addresses" /\ Earliest = {"divisions", "calls", "parameters"}
      BY <1>1, <2>6, <3>1, PassLists DEF Earliest
    <3> QED
      BY <3>2 DEF PassNames
  <2>7. CASE pass = 5
    <3>1. 1 .. pass - 1 = {1, 2, 3, 4}
      BY <2>7
    <3>2. PassList[pass] = "constants" /\ Earliest = {"divisions", "calls", "parameters", "addresses"}
      BY <1>1, <2>7, <3>1, PassLists DEF Earliest
    <3> QED
      BY <3>2 DEF PassNames
  <2>8. CASE pass = 6
    <3>1. 1 .. pass - 1 = {1, 2, 3, 4, 5}
      BY <2>8
    <3>2. PassList[pass] = "two operands"
          /\ Earliest = {"divisions", "calls", "parameters", "addresses", "constants"}
      BY <1>1, <2>8, <3>1, PassLists DEF Earliest
    <3> QED
      BY <3>2 DEF PassNames
  <2> QED
    BY <2>2, <2>3, <2>4, <2>5, <2>6, <2>7, <2>8
<1>2. CASE arch = "AArch64"
  <2>1. Len(PassList) = 5
    BY <1>2, PassLists
  <2>2. pass \in {1, 2, 3, 4, 5}
    BY <2>1
  <2>3. CASE pass = 1
    <3>1. 1 .. pass - 1 = {}
      BY <2>3
    <3>2. PassList[pass] = "calls" /\ Earliest = {}
      BY <1>2, <2>3, <3>1, PassLists DEF Earliest
    <3> QED
      BY <3>2 DEF PassNames
  <2>4. CASE pass = 2
    <3>1. 1 .. pass - 1 = {1}
      BY <2>4
    <3>2. PassList[pass] = "parameters" /\ Earliest = {"calls"}
      BY <1>2, <2>4, <3>1, PassLists DEF Earliest
    <3> QED
      BY <3>2 DEF PassNames
  <2>5. CASE pass = 3
    <3>1. 1 .. pass - 1 = {1, 2}
      BY <2>5
    <3>2. PassList[pass] = "addresses" /\ Earliest = {"calls", "parameters"}
      BY <1>2, <2>5, <3>1, PassLists DEF Earliest
    <3> QED
      BY <3>2 DEF PassNames
  <2>6. CASE pass = 4
    <3>1. 1 .. pass - 1 = {1, 2, 3}
      BY <2>6
    <3>2. PassList[pass] = "constants" /\ Earliest = {"calls", "parameters", "addresses"}
      BY <1>2, <2>6, <3>1, PassLists DEF Earliest
    <3> QED
      BY <3>2 DEF PassNames
  <2>7. CASE pass = 5
    <3>1. 1 .. pass - 1 = {1, 2, 3, 4}
      BY <2>7
    <3>2. PassList[pass] = "modulo" /\ Earliest = {"calls", "parameters", "addresses", "constants"}
      BY <1>2, <2>7, <3>1, PassLists DEF Earliest
    <3> QED
      BY <3>2 DEF PassNames
  <2> QED
    BY <2>2, <2>3, <2>4, <2>5, <2>6, <2>7
<1> QED
  BY <1>1, <1>2

(* A rewriting prescribes what it says for new references and leaves every  *)
(* other location.                                                          *)
LEMMA LocationsKept ==
  ASSUME created \in Nat, NEW pins, storage' = Overlay(pins, storage), DOMAIN storage \subseteq Known,
         DOMAIN pins \subseteq Later \ Known
  PROVE  /\ \A x \in DOMAIN storage : Location(x)' = Location(x)
         /\ \A x \in DOMAIN pins : Location(x)' = pins[x]
         /\ \A name, x : Establishes(name, x) => Establishes(name, x)'
         /\ created' = created + 3 => DOMAIN storage' \subseteq Known'
<1>1. /\ \A x \in DOMAIN storage : Location(x)' = Location(x)
      /\ \A x \in DOMAIN pins : Location(x)' = pins[x]
  BY DEF Location, Overlay
<1>2. \A x : Location(x)[1] = "reg" => x \in DOMAIN storage
  BY DEF Location
<1>3. \A name, x : Establishes(name, x) => Establishes(name, x)'
  <2>1. \A x : DivisionForm(x) => DivisionForm(x)'
    <3> SUFFICES ASSUME NEW x, DivisionForm(x), x.type = "DIVIDE"
                 PROVE  Location(x.result)' = Reg("rax") /\ Location(x.op1)' = Reg("rax")
      BY DEF DivisionForm
    <3>1. Location(x.result) = Reg("rax") /\ Location(x.op1) = Reg("rax") /\ Reg("rax")[1] = "reg"
      BY DEF DivisionForm, Reg
    <3>2. x.result \in DOMAIN storage /\ x.op1 \in DOMAIN storage
      BY <1>2, <3>1
    <3> QED
      BY <1>1, <3>1, <3>2
  <2> QED
    BY <2>1 DEF Establishes, TwoOperandForm, References
<1>4. created' = created + 3 => DOMAIN storage' \subseteq Known'
  <2> SUFFICES ASSUME created' = created + 3 PROVE DOMAIN storage' \subseteq Known'
    OBVIOUS
  <2>1. DOMAIN storage' = DOMAIN pins \cup DOMAIN storage
    BY DEF Overlay
  <2>2. Known' = Later
    BY DEF Known, Later, Numbered
  <2> QED
    <3>1. Known \subseteq Later
      BY NewReferences
    <3> QED
      BY <2>1, <2>2, <3>1
<1> QED
  BY <1>1, <1>3, <1>4

(* Everything that a rewriting leaves in the function has what the pass     *)
(* establishes.                                                             *)
Renders(r, name) ==
  /\ Establishes(name, r.instr)
  /\ \A i \in Positions(r.before) : Establishes(name, r.before[i])
  /\ \A i \in Positions(r.after) : Establishes(name, r.after[i])

(* Every pass is content with a move.                                       *)
LEMMA MovesAreDone ==
  \A name, x, y : Establishes(name, Move(x, y))'
BY DEF Establishes, Move, Instr, DivisionForm, TwoOperandForm

(* SeperateDivReferences puts the dividend and the quotient of a division   *)
(* into rax.                                                                *)
LEMMA RendersDivision ==
  ASSUME created \in Nat, NEW instr \in Allowed(Known), instr.type = "DIVIDE", DOMAIN storage \subseteq Known,
         NEW r, r = SeperateDivReferences(instr), storage' = Overlay(r.pins, storage)
  PROVE  Renders(r, "divisions")'
<1> DEFINE dividend == New("divtmp", 1)
           divisor  == New("divtmp", 2)
           quotient == New("divresult", 3)
<1>1. r.pins = [x \in {dividend, quotient} |-> Reg("rax")]
  BY DEF SeperateDivReferences
<1>2. /\ r.before = <<Move(dividend, instr.op1), Move(divisor, instr.op2)>>
      /\ r.instr = Instr("DIVIDE", quotient, dividend, divisor)
      /\ r.after = <<Move(instr.result, quotient)>>
  BY DEF SeperateDivReferences
<1>3. dividend \in Later \ Known /\ quotient \in Later \ Known
  BY NewReferences
<1> HIDE DEF dividend, divisor, quotient
<1>4. DOMAIN r.pins = {dividend, quotient} /\ DOMAIN r.pins \subseteq Later \ Known
  BY <1>1, <1>3
<1> DEFINE pins == r.pins
<1> HIDE DEF pins
<1>5. \A x \in DOMAIN pins : Location(x)' = pins[x]
  <2>1. storage' = Overlay(pins, storage) /\ DOMAIN pins \subseteq Later \ Known
    BY <1>4 DEF pins
  <2> QED
    BY <2>1, LocationsKept
<1>6. Establishes("divisions", r.instr)'
  <2>0. dividend \in DOMAIN pins /\ quotient \in DOMAIN pins
        /\ pins[dividend] = Reg("rax") /\ pins[quotient] = Reg("rax")
    BY <1>1 DEF pins
  <2>1. r.instr.type = "DIVIDE" /\ r.instr.result = quotient /\ r.instr.op1 = dividend
    BY <1>2 DEF Instr
  <2>2. r.instr.result \in DOMAIN pins /\ r.instr.op1 \in DOMAIN pins
        /\ pins[r.instr.result] = Reg("rax") /\ pins[r.instr.op1] = Reg("rax")
    BY <2>0, <2>1
  <2>3. Location(r.instr.result)' = Reg("rax") /\ Location(r.instr.op1)' = Reg("rax")
    BY <1>5, <2>2
  <2> QED
    BY <2>3 DEF Establishes, DivisionForm, Reg
<1> QED
  <2>1. \A i \in Positions(r.before) : Establishes("divisions", r.before[i])'
    <3>1. Positions(r.before) = {1, 2} /\ r.before[1].type = "MOVE" /\ r.before[2].type = "MOVE"
      BY <1>2 DEF Positions, Move, Instr
    <3> QED
      BY <3>1 DEF Establishes, DivisionForm
  <2>2. \A i \in Positions(r.after) : Establishes("divisions", r.after[i])'
    <3>1. Positions(r.after) = {1} /\ r.after[1].type = "MOVE"
      BY <1>2 DEF Positions, Move, Instr
    <3> QED
      BY <3>1 DEF Establishes, DivisionForm
  <2> QED
    BY <1>6, <2>1, <2>2 DEF Renders

(* What is neither a division nor an address-of meets the first passes.     *)
LEMMA HarmlessIsDone ==
  \A x, name : x.type \notin {"DIVIDE", "ADDRESS_OF"} /\ name \in {"divisions", "calls", "parameters", "addresses"}
               => Establishes(name, x)'
BY DEF Establishes, DivisionForm

(* SeperateCallResults keeps what the divisions have got.                   *)
LEMMA RendersCall ==
  ASSUME NEW instr \in Allowed(Known), instr.type = "CALL", NEW r, r = SeperateCallResults(instr)
  PROVE  \A name \in {"divisions", "calls"} : Renders(r, name)'
<1>1. r.before = <<>> /\ r.after = <<Move(instr.result, New("callresult", 1))>> /\ r.instr.type = "CALL"
  <2>1. instr = Instr(instr.type, instr.result, instr.op1, instr.op2)
    BY Forms DEF Allowed
  <2> QED
    BY <2>1 DEF SeperateCallResults, Instr
<1>2. Positions(r.before) = {} /\ Positions(r.after) = {1} /\ r.after[1].type = "MOVE"
  BY <1>1 DEF Positions, Move, Instr
<1> QED
  BY <1>1, <1>2, HarmlessIsDone DEF Renders

(* SeparateLoadParameters keeps what the passes before it have established. *)
LEMMA RendersParameter ==
  ASSUME NEW instr \in Allowed(Known), instr.type = "LOAD_PARAMETER", NEW r, r = SeparateLoadParameters(instr)
  PROVE  \A name \in {"divisions", "calls", "parameters"} : Renders(r, name)'
<1>1. r.before = <<>> /\ r.after = <<Move(instr.result, New("param", 1))>> /\ r.instr.type = "LOAD_PARAMETER"
  <2>1. instr = Instr(instr.type, instr.result, instr.op1, instr.op2)
    BY Forms DEF Allowed
  <2> QED
    BY <2>1 DEF SeparateLoadParameters, Instr
<1>2. Positions(r.before) = {} /\ Positions(r.after) = {1} /\ r.after[1].type = "MOVE"
  BY <1>1 DEF Positions, Move, Instr
<1> QED
  BY <1>1, <1>2, HarmlessIsDone DEF Renders

(* ResolveAddressOf leaves no address-of, and keeps what the passes before  *)
(* it have established.                                                     *)
LEMMA RendersAddress ==
  ASSUME NEW instr \in Allowed(Known), instr.type = "ADDRESS_OF", NEW r, r = ResolveAddressOf(instr)
  PROVE  \A name \in {"divisions", "calls", "parameters", "addresses"} : Renders(r, name)'
<1>1. /\ r.before = <<Instr("SET_LIVE", New("sp", 1), None, None)>> /\ r.after = <<>>
      /\ r.instr.type = "ADD"
  BY DEF ResolveAddressOf, Instr
<1>2. Positions(r.before) = {1} /\ Positions(r.after) = {} /\ r.before[1].type = "SET_LIVE"
  BY <1>1 DEF Positions, Instr
<1> QED
  BY <1>1, <1>2, HarmlessIsDone DEF Renders

(* MoveConstantsToReferences leaves no constant where a register has to be, *)
(* and keeps what the passes before it have established: the result and the *)
(* first operand of a division are references already.                      *)
LEMMA RendersConstants ==
  ASSUME created \in Nat, NEW instr \in Allowed(Known), instr.type \notin {"MOVE", "CALL", "LOAD_PARAMETER"},
         DOMAIN storage \subseteq Known,
         NEW r, r = MoveConstantsToReferences(instr), storage' = Overlay(r.pins, storage),
         NEW names \in SUBSET {"divisions", "calls", "parameters", "addresses"},
         \A name \in names : Establishes(name, instr)
  PROVE  \A name \in names \cup {"constants"} : Renders(r, name)'
<1> DEFINE c1 == New("constant", 1)
           c2 == New("constant", 2)
           first == IsConstant(instr.op1)
           second == IsConstant(instr.op2)
           before1 == IF first THEN <<Move(c1, instr.op1)>> ELSE <<>>
           before2 == IF second THEN <<Move(c2, instr.op2)>> ELSE <<>>
<1>1. c1 \in Later \ Known /\ c2 \in Later \ Known /\ Later \subseteq References /\ Known \subseteq References
  BY NewReferences
<1>2. ~IsConstant(c1) /\ ~IsConstant(c2)
  BY <1>1, KindsDiffer
<1>3. r.before = before1 \o before2 /\ r.after = <<>> /\ r.pins = [x \in {} |-> <<"none">>]
  BY DEF MoveConstantsToReferences, Nowhere
<1>4. r.instr = Instr(instr.type, instr.result, IF first THEN c1 ELSE instr.op1, IF second THEN c2 ELSE instr.op2)
  <2>1. instr = Instr(instr.type, instr.result, instr.op1, instr.op2)
    BY Forms DEF Allowed
  <2> HIDE DEF first, second
  <2> QED
    BY <2>1 DEF MoveConstantsToReferences, Instr, first, second
<1>5. \A i \in Positions(r.before) : \E x, y : r.before[i] = Move(x, y)
  <2> DEFINE S == {Move(c1, instr.op1), Move(c2, instr.op2)}
  <2>1. <<Move(c1, instr.op1)>> \in Seq(S) /\ <<Move(c2, instr.op2)>> \in Seq(S) /\ <<>> \in Seq(S)
    OBVIOUS
  <2> HIDE DEF first, second
  <2>2. before1 \in Seq(S) /\ before2 \in Seq(S)
    BY <2>1
  <2> HIDE DEF before1, before2
  <2>3. r.before \in Seq(S)
    BY <1>3, <2>2
  <2> QED
    BY <2>3 DEF Positions
<1>6. \A name : \A i \in Positions(r.before) : Establishes(name, r.before[i])'
  BY <1>5, MovesAreDone
<1>7. \A name : \A i \in Positions(r.after) : Establishes(name, r.after[i])'
  BY <1>3 DEF Positions
<1>8. Establishes("constants", r.instr)'
  <2>1. ~IsConstant(r.instr.op1) /\ ~IsConstant(r.instr.op2)
    BY <1>2, <1>4 DEF Instr
  <2> QED
    BY <2>1 DEF Establishes
<1>9. ASSUME NEW name \in names PROVE Establishes(name, r.instr)'
  <2>1. Establishes(name, instr)
    OBVIOUS
  <2>2. name # "divisions" => Establishes(name, r.instr)'
    <3>1. r.instr.type = instr.type
      BY <1>4 DEF Instr
    <3> QED
      BY <2>1, <3>1 DEF Establishes
  <2>3. ASSUME name = "divisions", instr.type = "DIVIDE"
        PROVE  r.instr.op1 = instr.op1 /\ r.instr.result = instr.result
    <3>1. Location(instr.op1) = Reg("rax")
      BY <2>1, <2>3 DEF Establishes, DivisionForm
    <3>2. instr.op1 \in DOMAIN storage
      BY <3>1 DEF Location, Reg
    <3>3. ~first
      BY <1>1, <3>2, KindsDiffer
    <3> QED
      BY <1>4, <3>3 DEF Instr
  <2>4. DOMAIN r.pins \subseteq Later \ Known
    BY <1>3
  <2>5. Establishes("divisions", instr) => Establishes("divisions", instr)'
    <3> DEFINE pins == r.pins
    <3> HIDE DEF pins
    <3>1. storage' = Overlay(pins, storage) /\ DOMAIN pins \subseteq Later \ Known
      BY <2>4 DEF pins
    <3> QED
      BY <3>1, LocationsKept
  <2>6. r.instr.type = instr.type
    BY <1>4 DEF Instr
  <2> QED
    BY <2>1, <2>2, <2>3, <2>5, <2>6 DEF Establishes, DivisionForm
<1> QED
  BY <1>6, <1>7, <1>8, <1>9 DEF Renders

(* MakeTwoOperandCompatible makes the result the first operand, and keeps   *)
(* what the passes before it have established: of a division both are in    *)
(* rax.                                                                     *)
LEMMA RendersTwoOperands ==
  ASSUME created \in Nat, NEW instr \in Allowed(Known), NeedsTwoOperandForm(instr),
         DOMAIN storage \subseteq Known,
         NEW r, r = MakeTwoOperandCompatible(instr), storage' = Overlay(r.pins, storage),
         NEW names \in SUBSET {"divisions", "calls", "parameters", "addresses", "constants"},
         \A name \in names : Establishes(name, instr),
         instr.result \in Known
  PROVE  \A name \in names \cup {"two operands"} : Renders(r, name)'
<1>1. /\ r.before = <<Move(instr.result, instr.op1)>> /\ r.after = <<>>
      /\ r.instr = Instr(instr.type, instr.result, instr.result, instr.op2)
      /\ r.pins = [x \in {} |-> <<"none">>]
  <2>1. instr = Instr(instr.type, instr.result, instr.op1, instr.op2)
    BY Forms DEF Allowed
  <2> QED
    BY <2>1 DEF MakeTwoOperandCompatible, Instr, Nowhere
<1>2. \A name : \A i \in Positions(r.before) : Establishes(name, r.before[i])'
  <2>1. Positions(r.before) = {1} /\ r.before[1] = Move(instr.result, instr.op1)
    BY <1>1 DEF Positions
  <2> QED
    BY <2>1, MovesAreDone
<1>3. \A name : \A i \in Positions(r.after) : Establishes(name, r.after[i])'
  BY <1>1 DEF Positions
<1>4. Establishes("two operands", r.instr)'
  <2>1. r.instr.result = r.instr.op1
    BY <1>1 DEF Instr
  <2> QED
    BY <2>1 DEF Establishes, TwoOperandForm
<1>5. ASSUME NEW name \in names PROVE Establishes(name, r.instr)'
  <2>1. Establishes(name, instr) /\ name # "two operands"
    OBVIOUS
  <2>2. ~IsConstant(instr.result)
    <3>1. Known \subseteq References
      BY NewReferences
    <3> QED
      BY <3>1, KindsDiffer
  <2>3. name # "divisions" => Establishes(name, r.instr)'
    <3>1. r.instr.type = instr.type /\ r.instr.op1 = instr.result /\ r.instr.op2 = instr.op2
      BY <1>1 DEF Instr
    <3> QED
      BY <2>1, <2>2, <3>1 DEF Establishes
  <2>4. DOMAIN r.pins \subseteq Later \ Known
    BY <1>1
  <2>5. Establishes("divisions", instr) => Establishes("divisions", instr)'
    <3> DEFINE pins == r.pins
    <3> HIDE DEF pins
    <3>1. storage' = Overlay(pins, storage) /\ DOMAIN pins \subseteq Later \ Known
      BY <2>4 DEF pins
    <3> QED
      BY <3>1, LocationsKept
  <2>6. r.instr.type = instr.type /\ r.instr.result = instr.result /\ r.instr.op1 = instr.result
    BY <1>1 DEF Instr
  <2> QED
    BY <2>1, <2>3, <2>5, <2>6 DEF Establishes, DivisionForm
<1> QED
  BY <1>2, <1>3, <1>4, <1>5 DEF Renders

(* ReplaceModWithDivMulSub leaves no modulo, and inserts no constant where  *)
(* there was none.                                                          *)
LEMMA RendersModulo ==
  ASSUME created \in Nat, NEW instr \in Allowed(Known), instr.type = "MODULO", Establishes("constants", instr),
         NEW r, r = ReplaceModWithDivMulSub(instr)
  PROVE  \A name \in {"calls", "parameters", "addresses", "constants", "modulo"} : Renders(r, name)'
<1> DEFINE quotient == New("tmp", 1)
           product  == New("tmp", 2)
<1>1. quotient \in Later \ Known /\ product \in Later \ Known /\ Later \subseteq References
  BY NewReferences
<1>2. /\ ~IsConstant(quotient) /\ ~IsConstant(product)
      /\ ~IsConstant(instr.op1) /\ ~IsConstant(instr.op2)
  BY <1>1, KindsDiffer DEF Establishes
<1> HIDE DEF quotient, product
<1>3. /\ r.before = <<>>
      /\ r.instr = Instr("DIVIDE", quotient, instr.op1, instr.op2)
      /\ r.after = <<Instr("MULTIPLY", product, quotient, instr.op2),
                     Instr("SUBTRACT", instr.result, instr.op1, product)>>
  BY DEF ReplaceModWithDivMulSub, quotient, product
<1>4. Positions(r.before) = {} /\ Positions(r.after) = {1, 2}
  BY <1>3 DEF Positions
<1>5. /\ r.after[1] = Instr("MULTIPLY", product, quotient, instr.op2)
      /\ r.after[2] = Instr("SUBTRACT", instr.result, instr.op1, product)
  BY <1>3
<1>6. \A name, type, x, y, z : type \in {"DIVIDE", "MULTIPLY", "SUBTRACT"} /\ ~IsConstant(y) /\ ~IsConstant(z)
        /\ name \in {"calls", "parameters", "addresses", "constants", "modulo"}
        => Establishes(name, Instr(type, x, y, z))'
  <2> SUFFICES ASSUME NEW name \in {"calls", "parameters", "addresses", "constants", "modulo"},
                      NEW type \in {"DIVIDE", "MULTIPLY", "SUBTRACT"}, NEW x, NEW y, NEW z,
                      ~IsConstant(y), ~IsConstant(z)
               PROVE  Establishes(name, Instr(type, x, y, z))'
    OBVIOUS
  <2> DEFINE e == Instr(type, x, y, z)
  <2>1. e.type = type /\ e.op1 = y /\ e.op2 = z
    BY DEF Instr
  <2> HIDE DEF e
  <2>2. Establishes(name, e)'
    BY <2>1 DEF Establishes
  <2> QED
    BY <2>2 DEF e
<1> QED
  BY <1>2, <1>3, <1>4, <1>5, <1>6 DEF Renders

-----------------------------------------------------------------------------
(* The instruction at hand has what the passes before this one establish.   *)
LEMMA EarlierPasses ==
  ASSUME Shaped, PassesDone, AtInstruction
  PROVE  /\ code[position] \in Allowed(Known) /\ position \in Positions(code)
         /\ \A name \in Earliest : Establishes(name, code[position])
<1>1. position \in Positions(code)
  BY DEF Shaped, AtInstruction, Positions
<1>2. code[position] \in Allowed(Known)
  BY <1>1 DEF Shaped, Positions, Allowed
<1>3. ASSUME NEW k \in 1 .. pass - 1 PROVE Establishes(PassList[k], code[position])
  <2>1. Len(PassList) \in Nat
    BY PassLists DEF Shaped
  <2>2. k \in 1 .. Len(PassList) /\ k < pass
    BY <2>1 DEF Shaped
  <2> QED
    BY <1>1, <2>2 DEF PassesDone, Through
<1> QED
  BY <1>1, <1>2, <1>3 DEF Earliest

(* Every rewriting fits, and leaves only instructions that have what its    *)
(* own pass and all earlier ones establish.                                 *)
LEMMA Rewriting ==
  ASSUME Shaped, PassesDone, AtInstruction, DOMAIN storage \subseteq Known,
         NEW instr, instr = code[position], Applies(instr), ~Refuses(instr),
         NEW r, r = Rewritten(instr), storage' = Overlay(r.pins, storage)
  PROVE  /\ Fits(instr, r)
         /\ \A name \in Earliest \cup {PassList[pass]} : Renders(r, name)'
<1>1. /\ created \in Nat /\ instr \in Allowed(Known)
      /\ \A name \in Earliest : Establishes(name, instr)
  BY EarlierPasses DEF Shaped
<1>2. arch \in {"x86_64", "AArch64"} /\ pass \in 1 .. Len(PassList)
  BY DEF Shaped
<1>3. CASE PassList[pass] = "divisions"
  <2>1. instr.type = "DIVIDE" /\ r = SeperateDivReferences(instr)
    BY <1>3 DEF Applies, Rewritten
  <2>2. Earliest = {}
    BY <1>2, <1>3, PassOrder
  <2> QED
    BY <1>1, <1>3, <2>1, <2>2, FitsDivision, RendersDivision
<1>4. CASE PassList[pass] = "calls"
  <2>1. instr.type = "CALL" /\ r = SeperateCallResults(instr)
    BY <1>4 DEF Applies, Rewritten
  <2>2. Earliest \subseteq {"divisions"}
    BY <1>2, <1>4, PassOrder
  <2> QED
    BY <1>1, <1>4, <2>1, <2>2, FitsCall, RendersCall
<1>5. CASE PassList[pass] = "parameters"
  <2>1. instr.type = "LOAD_PARAMETER" /\ r = SeparateLoadParameters(instr)
    BY <1>5 DEF Applies, Rewritten
  <2>2. Earliest \subseteq {"divisions", "calls"}
    BY <1>2, <1>5, PassOrder
  <2> QED
    BY <1>1, <1>5, <2>1, <2>2, FitsParameter, RendersParameter
<1>6. CASE PassList[pass] = "addresses"
  <2>1. instr.type = "ADDRESS_OF" /\ r = ResolveAddressOf(instr)
    BY <1>6 DEF Applies, Rewritten
  <2>2. Earliest \subseteq {"divisions", "calls", "parameters"}
    BY <1>2, <1>6, PassOrder
  <2>3. instr.op1 \in References
    <3>1. Known \subseteq References
      BY <1>1, NewReferences
    <3>2. Location(instr.op1)[1] = "slot"
      BY <1>6 DEF Refuses, InSlot
    <3>3. instr.op1 \in DOMAIN storage
      BY <3>2 DEF Location
    <3> QED
      BY <3>1, <3>3
  <2>4. Fits(instr, r)
    BY <1>1, <2>1, <2>3, FitsAddress
  <2>5. \A name \in {"divisions", "calls", "parameters", "addresses"} : Renders(r, name)'
    BY <1>1, <2>1, RendersAddress
  <2> QED
    BY <1>6, <2>2, <2>4, <2>5
<1>7. CASE PassList[pass] = "constants"
  <2>1. instr.type \notin {"MOVE", "CALL", "LOAD_PARAMETER"} /\ r = MoveConstantsToReferences(instr)
    BY <1>7 DEF Applies, Rewritten
  <2>2. Earliest \subseteq {"divisions", "calls", "parameters", "addresses"}
    BY <1>2, <1>7, PassOrder
  <2>3. Fits(instr, r)
    BY <1>1, <2>1, FitsConstants
  <2>4. \A name \in Earliest \cup {"constants"} : Renders(r, name)'
    BY <1>1, <2>1, <2>2, RendersConstants
  <2> QED
    BY <1>7, <2>3, <2>4
<1>8. CASE PassList[pass] = "two operands"
  <2>1. NeedsTwoOperandForm(instr) /\ r = MakeTwoOperandCompatible(instr)
    BY <1>8 DEF Applies, Rewritten
  <2>2. Earliest \subseteq {"divisions", "calls", "parameters", "addresses", "constants"}
    BY <1>2, <1>8, PassOrder
  <2>3. Fits(instr, r)
    BY <1>1, <2>1, FitsTwoOperands
  <2>4. instr.result \in Known
    <3>1. instr.type = "NEGATE" => instr.result \in Known
      BY <1>1, Forms DEF Allowed, Unary
    <3>2. instr.result \in References => instr.result \in Known
      <4>1. instr.result \in Known \cup {None}
        BY <1>1 DEF Allowed, Lowered, Emitted, Form
      <4> QED
        BY <4>1, KindsDiffer
    <3> QED
      BY <2>1, <3>1, <3>2 DEF NeedsTwoOperandForm
  <2>5. \A name \in Earliest \cup {"two operands"} : Renders(r, name)'
    BY <1>1, <2>1, <2>2, <2>4, RendersTwoOperands
  <2> QED
    BY <1>8, <2>3, <2>5
<1>9. CASE PassList[pass] = "modulo"
  <2>1. instr.type = "MODULO" /\ r = ReplaceModWithDivMulSub(instr)
    BY <1>9 DEF Applies, Rewritten
  <2>2. Earliest \subseteq {"calls", "parameters", "addresses", "constants"} /\ "constants" \in Earliest
    BY <1>2, <1>9, PassOrder
  <2>3. Establishes("constants", instr)
    BY <1>1, <2>2
  <2>4. ~IsConstant(instr.op1)
    BY <2>1, <2>3 DEF Establishes
  <2>5. Fits(instr, r)
    BY <1>1, <2>1, <2>4, FitsModulo
  <2>6. \A name \in {"calls", "parameters", "addresses", "constants", "modulo"} : Renders(r, name)'
    BY <1>1, <2>1, <2>3, RendersModulo
  <2> QED
    BY <1>9, <2>2, <2>5, <2>6
<1> QED
  BY <1>2, <1>3, <1>4, <1>5, <1>6, <1>7, <1>8, <1>9, PassOrder DEF PassNames

(* The filter of a pass passes over an instruction only if it has what the  *)
(* pass establishes.                                                        *)
LEMMA SkippedIsDone ==
  ASSUME Shaped, AtInstruction, NEW instr \in Allowed(Known), ~Applies(instr)
  PROVE  Establishes(PassList[pass], instr)
<1>1. PassList[pass] \in PassNames
  BY PassOrder DEF Shaped
<1>2. CASE PassList[pass] = "two operands"
  <2>1. instr.type \in {"JUMP", "JUMP_IF_ZERO", "DEFINE_LABEL"} \/ ~NeedsTwoOperandForm(instr)
    BY <1>2 DEF Applies
  <2>2. instr.type \in {"JUMP", "JUMP_IF_ZERO", "DEFINE_LABEL"} => instr.result \notin References
    BY Forms, KindsDiffer DEF Allowed
  <2>3. TwoOperandForm(instr)
    BY <2>1, <2>2 DEF NeedsTwoOperandForm, TwoOperandForm
  <2> QED
    BY <1>2, <2>3 DEF Establishes
<1>3. CASE PassList[pass] # "two operands"
  <2>1. PassList[pass] = "divisions" => instr.type # "DIVIDE"
    BY DEF Applies
  <2>2. PassList[pass] = "addresses" => instr.type # "ADDRESS_OF"
    BY DEF Applies
  <2>3. PassList[pass] = "constants" => instr.type \in {"MOVE", "CALL", "LOAD_PARAMETER"}
    BY DEF Applies
  <2>4. PassList[pass] = "modulo" => instr.type # "MODULO"
    BY DEF Applies
  <2> QED
    BY <1>3, <2>1, <2>2, <2>3, <2>4 DEF Establishes, DivisionForm
<1> QED
  BY <1>2, <1>3

-----------------------------------------------------------------------------
(* A rewriting preserves the invariant.                                     *)
LEMMA RewriteKeeps ==
  ASSUME PInv, RewriteInstruction
  PROVE  PInv'
<1> DEFINE p == position
<1>0. PICK instr, r, d : instr = code[p] /\ r = Rewritten(instr) /\ d = code'
  OBVIOUS
<1> DEFINE b == r.before
           a == r.after
           x == r.instr
<1>1. /\ AtInstruction /\ Applies(instr) /\ ~Refuses(instr)
      /\ d = Splice(code, p, b, x, a)
      /\ storage' = Overlay(r.pins, storage)
      /\ position' = p + Len(b) + Len(a) + 1
      /\ created' = created + 3 /\ arch' = arch /\ pass' = pass /\ stage' = stage
  BY <1>0 DEF RewriteInstruction, Splice
<1>2. /\ Shaped /\ PassesDone /\ Flows(code) /\ stage = "lowering" /\ DOMAIN storage \subseteq Known
      /\ created \in Nat /\ arch \in {"x86_64", "AArch64"} /\ pass \in 1 .. Len(PassList) /\ PassList' = PassList
  BY <1>1 DEF PInv, BeforeAllocation, Stages, AtInstruction, Shaped, PassList
<1>3. p \in Positions(code) /\ instr \in Allowed(Known) /\ Len(code) \in Nat /\ p \in Nat
  BY <1>0, <1>1, <1>2, EarlierPasses DEF Shaped
<1>4. Fits(instr, r) /\ \A name \in Earliest \cup {PassList[pass]} : Renders(r, name)'
  BY <1>0, <1>1, <1>2, Rewriting
<1>5. /\ b \in Seq(Straight) /\ a \in Seq(Straight) /\ x \in Allowed(Later)
      /\ DOMAIN r.pins \subseteq Later \ Known
  BY <1>4 DEF Fits
<1>18. /\ \A n \in Earliest \cup {PassList[pass]} : Establishes(n, x)'
       /\ \A n \in Earliest \cup {PassList[pass]} : \A i \in Positions(b) : Establishes(n, b[i])'
       /\ \A n \in Earliest \cup {PassList[pass]} : \A i \in Positions(a) : Establishes(n, a[i])'
  BY <1>4 DEF Renders
<1> HIDE DEF b, a, x
<1>6. b \in Seq(Allowed(Later)) /\ a \in Seq(Allowed(Later)) /\ Len(b) \in Nat /\ Len(a) \in Nat
  <2>1. Straight \subseteq Allowed(Later)
    BY DEF Straight
  <2> QED
    BY <1>5, <2>1
<1>7. code \in Seq(Allowed(Later))
  <2>1. Known \subseteq Later
    BY <1>2, NewReferences
  <2>2. Lowered(Known) \subseteq Lowered(Later)
    BY <2>1, LoweredGrows
  <2>3. \A i \in 1 .. Len(code) : code[i] \in Allowed(Later)
    BY <1>2, <2>2 DEF Shaped, Allowed, Positions
  <2>4. code \in Seq(Lowered(Known))
    BY <1>2 DEF Shaped
  <2> QED
    BY <2>3, <2>4
<1>8. IsSplice(Allowed(Later), code, p, b, x, a)
  BY <1>3, <1>5, <1>6, <1>7, Spliced
<1>9. Known' = Later
  BY <1>1 DEF Known, Later, Numbered
<1>10. Shaped'
  <2>1. d \in Seq(Allowed(Later))
    BY <1>1, <1>8 DEF IsSplice
  <2>2. d \in Seq(Lowered(Later)) /\ \A i \in Positions(d) : ResultIsNew(d[i])
    <3>1. Allowed(Later) \subseteq Lowered(Later) /\ \A y \in Allowed(Later) : ResultIsNew(y)
      BY DEF Allowed
    <3>2. \A i \in Positions(d) : d[i] \in Allowed(Later)
      BY <2>1 DEF Positions
    <3> QED
      BY <2>1, <3>1, <3>2
  <2>3. position' \in Nat \ {0}
    <3>1. p \in Nat /\ Len(b) \in Nat /\ Len(a) \in Nat /\ position' = p + Len(b) + Len(a) + 1
      BY <1>1, <1>3, <1>6
    <3> HIDE DEF p
    <3> QED
      BY <3>1
  <2> HIDE DEF p
  <2> QED
    BY <1>0, <1>1, <1>2, <1>9, <2>2, <2>3 DEF Shaped
<1>11. Flows(code)'
  <2>1. Flows(Splice(code, p, b, x, a))
    <3>1. PICK c : c = code
      OBVIOUS
    <3>2. c \in Seq(Allowed(Later)) /\ p \in Positions(c) /\ Fits(c[p], r) /\ Flows(c)
      BY <1>0, <1>2, <1>3, <1>4, <1>7, <3>1
    <3> QED
      BY <1>2, <3>1, <3>2, SplicedFlow DEF b, a, x
  <2>2. Flows(d)
    BY <1>1, <2>1
  <2> QED
    BY <1>0, <2>2
<1>12. \A name, y : Establishes(name, y) => Establishes(name, y)'
  <2> DEFINE pins == r.pins
  <2> HIDE DEF pins
  <2>1. storage' = Overlay(pins, storage) /\ DOMAIN pins \subseteq Later \ Known
    BY <1>1, <1>5 DEF pins
  <2> QED
    BY <1>2, <2>1, LocationsKept
<1>13. DOMAIN storage' \subseteq Known'
  <2> DEFINE pins == r.pins
  <2> HIDE DEF pins
  <2>1. storage' = Overlay(pins, storage) /\ DOMAIN pins \subseteq Later \ Known
    BY <1>1, <1>5 DEF pins
  <2> QED
    BY <1>1, <1>2, <2>1, LocationsKept
<1>14. ASSUME NEW j \in Positions(d), NEW k \in 1 .. Len(PassList), k < pass \/ (k = pass /\ j < position'),
              NEW n, n = PassList[k]
       PROVE  Establishes(n, d[j])'
  <2>1. n \in Earliest \cup {PassList[pass]}
    <3>1. k < pass => k \in 1 .. pass - 1
      BY <1>2
    <3> QED
      BY <1>14, <3>1 DEF Earliest
  <2>2. \/ \E i \in Positions(code) : j = Moved(p, b, a, i)
        \/ \E i \in Positions(b) : j = p - 1 + i
        \/ \E i \in Positions(a) : j = p + Len(b) + i
    <3>1. PICK c : c = code
      OBVIOUS
    <3>2. /\ c \in Seq(Allowed(Later)) /\ p \in Positions(c) /\ b \in Seq(Allowed(Later))
          /\ a \in Seq(Allowed(Later)) /\ x \in Allowed(Later) /\ j \in Positions(Splice(c, p, b, x, a))
      BY <1>1, <1>3, <1>5, <1>6, <1>7, <3>1
    <3>3. \/ \E i \in Positions(c) : j = Moved(p, b, a, i)
          \/ \E i \in Positions(b) : j = p - 1 + i
          \/ \E i \in Positions(a) : j = p + Len(b) + i
      BY <3>2, SplicePositions
    <3> QED
      BY <3>1, <3>3
  <2>3. CASE \E i \in Positions(code) : j = Moved(p, b, a, i)
    <3>1. PICK i \in Positions(code) : j = Moved(p, b, a, i)
      BY <2>3
    <3>2. CASE i = p
      <4>1. d[j] = x
        BY <1>1, <1>3, <1>8, <3>1, <3>2 DEF IsSplice, Moved
      <4> QED
        BY <1>18, <2>1, <4>1
    <3>3. CASE i # p
      <4>1. d[j] = code[i]
        BY <1>1, <1>8, <3>1, <3>3 DEF IsSplice
      <4>2. Through(k, i)
        <5>0. p \in Nat /\ i \in Nat /\ Len(b) \in Nat /\ Len(a) \in Nat /\ position' = p + Len(b) + Len(a) + 1
          BY <1>1, <1>3, <1>6 DEF Positions
        <5>1. i > p => j = i + Len(b) + Len(a)
          BY <3>1, <5>0 DEF Moved
        <5>2. i > p => j >= position'
          BY <5>0, <5>1
        <5>3. i < p \/ k < pass
          BY <1>14, <3>1, <3>3, <5>0, <5>2 DEF Moved
        <5> QED
          BY <1>14, <5>3 DEF Through
      <4>3. Establishes(n, code[i])
        BY <1>2, <1>14, <4>2 DEF PassesDone
      <4>4. PICK y : y = d[j]
        OBVIOUS
      <4>5. Establishes(n, y)'
        BY <1>12, <4>1, <4>3, <4>4
      <4> QED
        BY <4>4, <4>5
    <3> QED
      BY <3>2, <3>3
  <2>4. CASE \E i \in Positions(b) : j = p - 1 + i
    <3>1. PICK i \in Positions(b) : j = p - 1 + i
      BY <2>4
    <3>2. d[j] = b[i]
      BY <1>1, <1>8, <3>1 DEF IsSplice
    <3> QED
      BY <1>18, <2>1, <3>2
  <2>5. CASE \E i \in Positions(a) : j = p + Len(b) + i
    <3>1. PICK i \in Positions(a) : j = p + Len(b) + i
      BY <2>5
    <3>2. d[j] = a[i]
      BY <1>1, <1>8, <3>1 DEF IsSplice
    <3> QED
      BY <1>18, <2>1, <3>2
  <2> QED
    BY <2>2, <2>3, <2>4, <2>5
<1>15. PassesDone'
  <2> SUFFICES ASSUME NEW j \in Positions(code)', NEW k \in (1 .. Len(PassList))', Through(k, j)'
               PROVE  Establishes(PassList[k], code[j])'
    BY DEF PassesDone
  <2>1. j \in Positions(d) /\ k \in 1 .. Len(PassList) /\ (k < pass \/ (k = pass /\ j < position'))
    BY <1>0, <1>1, <1>2 DEF Through, Positions
  <2>2. PICK n, y : n = PassList[k] /\ y = d[j]
    OBVIOUS
  <2>3. Establishes(n, y)'
    BY <1>14, <2>1, <2>2
  <2>4. n = PassList[k]' /\ y = code[j]'
    BY <1>0, <1>2, <2>2
  <2> QED
    BY <2>3, <2>4
<1>16. Stages'
  BY <1>1, <1>2, <1>13 DEF Stages
<1> QED
  BY <1>10, <1>11, <1>15, <1>16 DEF PInv

(* A step that leaves the function and its references alone preserves the   *)
(* invariant.                                                               *)
LEMMA StillKeeps ==
  ASSUME PInv, UNCHANGED <<arch, code, storage, created, pass, position>>, Stages',
         BeforeAllocation' => BeforeAllocation
  PROVE  PInv'
<1>1. PassList' = PassList /\ Known' = Known
  BY DEF PassList, Known, Numbered
<1>2. Shaped'
  BY <1>1 DEF PInv, Shaped
<1>3. Flows(code)'
  <2>1. Flows(code)
    BY DEF PInv
  <2>2. PICK c : c = code
    OBVIOUS
  <2> QED
    BY <2>1, <2>2
<1>4. \A n, y : Establishes(n, y) => Establishes(n, y)'
  BY DEF Establishes, DivisionForm, Location, TwoOperandForm, References
<1>5. ASSUME BeforeAllocation' PROVE PassesDone'
  <2> SUFFICES ASSUME NEW j \in Positions(code)', NEW k \in (1 .. Len(PassList))', Through(k, j)'
               PROVE  Establishes(PassList[k], code[j])'
    BY DEF PassesDone
  <2>1. Establishes(PassList[k], code[j])
    BY <1>1, <1>5 DEF PInv, PassesDone, Through
  <2>2. PICK n, y : n = PassList[k] /\ y = code[j]
    OBVIOUS
  <2>3. Establishes(n, y)'
    BY <1>4, <2>1, <2>2
  <2>4. n = PassList[k]' /\ y = code[j]'
    BY <1>1, <2>2
  <2> QED
    BY <2>3, <2>4
<1> QED
  BY <1>2, <1>3, <1>5 DEF PInv

(* Passing over an instruction preserves the invariant.                     *)
LEMMA SkipKeeps ==
  ASSUME PInv, SkipInstruction
  PROVE  PInv'
<1>1. /\ AtInstruction /\ ~Applies(code[position]) /\ position' = position + 1
      /\ UNCHANGED <<arch, code, storage, created, pass, stage>>
  BY DEF SkipInstruction
<1>2. /\ Shaped /\ PassesDone /\ Flows(code) /\ position \in Nat /\ stage = "lowering"
      /\ DOMAIN storage \subseteq Known /\ pass \in 1 .. Len(PassList)
  BY <1>1 DEF PInv, BeforeAllocation, Shaped, Stages, AtInstruction
<1>3. PassList' = PassList /\ Known' = Known
  BY <1>1 DEF PassList, Known, Numbered
<1>4. Shaped'
  BY <1>1, <1>2, <1>3 DEF Shaped
<1>5. Flows(code)'
  <2>1. PICK c : c = code
    OBVIOUS
  <2> QED
    BY <1>1, <1>2, <2>1
<1>6. \A n, y : Establishes(n, y) => Establishes(n, y)'
  BY <1>1 DEF Establishes, DivisionForm, Location, TwoOperandForm, References
<1>7. Establishes(PassList[pass], code[position])
  <2>1. PICK instr : instr = code[position]
    OBVIOUS
  <2>2. instr \in Allowed(Known) /\ ~Applies(instr)
    BY <1>1, <1>2, <2>1, EarlierPasses
  <2> QED
    BY <1>1, <1>2, <2>1, <2>2, SkippedIsDone
<1>8. PassesDone'
  <2> SUFFICES ASSUME NEW j \in Positions(code)', NEW k \in (1 .. Len(PassList))', Through(k, j)'
               PROVE  Establishes(PassList[k], code[j])'
    BY DEF PassesDone
  <2>1. j \in Positions(code) /\ k \in 1 .. Len(PassList) /\ j \in Nat
    BY <1>1, <1>3 DEF Positions
  <2>2. Through(k, j) \/ (k = pass /\ j = position)
    BY <1>1, <1>2, <2>1 DEF Through
  <2>3. Establishes(PassList[k], code[j])
    BY <1>2, <1>7, <2>1, <2>2 DEF PassesDone
  <2>4. PICK n, y : n = PassList[k] /\ y = code[j]
    OBVIOUS
  <2>5. Establishes(n, y)'
    BY <1>6, <2>3, <2>4
  <2>6. n = PassList[k]' /\ y = code[j]'
    BY <1>1, <1>3, <2>4
  <2> QED
    BY <2>5, <2>6
<1>9. Stages'
  BY <1>1, <1>2, <1>3 DEF Stages
<1> QED
  BY <1>4, <1>5, <1>8, <1>9 DEF PInv

(* The end of a pass: it is through with every instruction.                 *)
LEMMA NextPassKeeps ==
  ASSUME PInv, NextPass
  PROVE  PInv'
<1>1. /\ stage = "lowering" /\ position > Len(code) /\ UNCHANGED <<arch, code, storage, created>>
      /\ IF pass < Len(PassList) THEN pass' = pass + 1 /\ position' = 1 /\ stage' = stage
         ELSE stage' = "lowered" /\ UNCHANGED <<pass, position>>
  BY DEF NextPass
<1>2. /\ Shaped /\ PassesDone /\ Flows(code) /\ position \in Nat /\ stage = "lowering" /\ Len(code) \in Nat
      /\ DOMAIN storage \subseteq Known /\ pass \in 1 .. Len(PassList) /\ Len(PassList) \in Nat
  <2>1. /\ Shaped /\ PassesDone /\ Flows(code) /\ stage = "lowering" /\ DOMAIN storage \subseteq Known
    BY <1>1 DEF PInv, BeforeAllocation, Stages
  <2>2. arch \in {"x86_64", "AArch64"} /\ position \in Nat /\ Len(code) \in Nat /\ pass \in 1 .. Len(PassList)
    BY <2>1 DEF Shaped
  <2>3. Len(PassList) \in Nat
    BY <2>2, PassLists
  <2> QED
    BY <2>1, <2>2, <2>3
<1>3. PassList' = PassList /\ Known' = Known
  BY <1>1 DEF PassList, Known, Numbered
<1>4. CASE pass < Len(PassList)
  <2>1. pass' = pass + 1 /\ position' = 1 /\ stage' = stage
    BY <1>1, <1>4
  <2>2. Shaped'
    <3>1. pass + 1 \in 1 .. Len(PassList)
      BY <1>2, <1>4
    <3> QED
      BY <1>1, <1>2, <1>3, <2>1, <3>1 DEF Shaped
  <2>3. Flows(code)'
    <3>1. PICK c : c = code
      OBVIOUS
    <3> QED
      BY <1>1, <1>2, <3>1
  <2>4. \A n, y : Establishes(n, y) => Establishes(n, y)'
    BY <1>1 DEF Establishes, DivisionForm, Location, TwoOperandForm, References
  <2>5. PassesDone'
    <3> SUFFICES ASSUME NEW j \in Positions(code)', NEW k \in (1 .. Len(PassList))', Through(k, j)'
                 PROVE  Establishes(PassList[k], code[j])'
      BY DEF PassesDone
    <3>1. j \in Positions(code) /\ k \in 1 .. Len(PassList) /\ j \in Nat /\ j >= 1 /\ j <= Len(code)
      BY <1>1, <1>2, <1>3 DEF Positions
    <3>2. k < pass' \/ (k = pass' /\ j < position')
      BY DEF Through
    <3>3. Through(k, j)
      BY <1>1, <1>2, <2>1, <3>1, <3>2 DEF Through
    <3>4. Establishes(PassList[k], code[j])
      BY <1>2, <3>1, <3>3 DEF PassesDone
    <3>5. PICK n, y : n = PassList[k] /\ y = code[j]
      OBVIOUS
    <3>6. Establishes(n, y)'
      BY <2>4, <3>4, <3>5
    <3>7. n = PassList[k]' /\ y = code[j]'
      BY <1>1, <1>3, <3>5
    <3> QED
      BY <3>6, <3>7
  <2>6. Stages'
    BY <1>1, <1>2, <1>3, <2>1 DEF Stages
  <2> QED
    BY <2>2, <2>3, <2>5, <2>6 DEF PInv
<1>5. CASE ~(pass < Len(PassList))
  <2>1. stage' = "lowered" /\ UNCHANGED <<pass, position>> /\ pass = Len(PassList)
    BY <1>1, <1>2, <1>5
  <2>2. Stages'
    BY <1>1, <1>3, <2>1 DEF Stages
  <2> QED
    BY <1>1, <2>1, <2>2, StillKeeps DEF BeforeAllocation
<1> QED
  BY <1>4, <1>5

(* The allocation gives every reference another location, and leaves the    *)
(* function alone.                                                          *)
LEMMA AllocationKeeps ==
  ASSUME PInv, UNCHANGED <<arch, code, created, pass, position>>, Stages', ~BeforeAllocation'
  PROVE  PInv'
<1>1. PassList' = PassList /\ Known' = Known
  BY DEF PassList, Known, Numbered
<1>2. Shaped'
  BY <1>1 DEF PInv, Shaped
<1>3. Flows(code)'
  <2>1. PICK c : c = code
    OBVIOUS
  <2> QED
    BY <2>1 DEF PInv
<1> QED
  BY <1>2, <1>3 DEF PInv

(* Every step preserves the invariant, those after the passes too.          *)
THEOREM PassesStep == PInv /\ [Next]_vars => PInv'
<1> SUFFICES ASSUME PInv, [Next]_vars PROVE PInv'
  OBVIOUS
<1> USE DEF BeforeAllocation
<1>0. \/ PassList' = PassList /\ Known' = Known
      \/ ~(UNCHANGED <<arch, code, created, pass, position>>)
  BY DEF PassList, Known, Numbered
<1>1. CASE SkipInstruction
  BY <1>1, SkipKeeps
<1>2. CASE RewriteInstruction
  BY <1>2, RewriteKeeps
<1>3. CASE RefuseInstruction
  BY <1>0, <1>3, StillKeeps DEF RefuseInstruction, Stages
<1>4. CASE NextPass
  BY <1>4, NextPassKeeps
<1>5. CASE StartAnalysis
  BY <1>0, <1>5, StillKeeps DEF StartAnalysis, Stages, PInv
<1>6. CASE Analyze
  BY <1>0, <1>6, StillKeeps DEF Analyze, Stages, PInv, passVars
<1>7. CASE StartColoring
  BY <1>0, <1>7, StillKeeps DEF StartColoring, Stages, PInv
<1>8. CASE Color
  BY <1>0, <1>8, StillKeeps DEF Color, Stages, PInv, passVars
<1>9. CASE AssignStorage
  BY <1>0, <1>9, AllocationKeeps DEF AssignStorage, Stages, PInv
<1>10. CASE Assemble
  BY <1>0, <1>10, AllocationKeeps DEF Assemble, Stages, PInv
<1>11. CASE Execute
  BY <1>0, <1>11, AllocationKeeps DEF Execute, Stages, PInv
<1>12. CASE UNCHANGED vars
  BY <1>0, <1>12, StillKeeps DEF vars, passVars, Stages, PInv
<1> QED
  BY <1>1, <1>2, <1>3, <1>4, <1>5, <1>6, <1>7, <1>8, <1>9, <1>10, <1>11, <1>12 DEF Next, Lower, LowerNext

(* The passes, whatever function the generator emits: the types, the        *)
(* control flow, and that nothing a pass has established is undone by a     *)
(* later one.                                                               *)
THEOREM PassesInvariant == Spec => []PInv
BY InitialPasses, PassesStep, PTL DEF Spec

(* Behind the passes, every function has the forms that the analyses and    *)
(* the backends insist on: none of the Fatals of rsiToNasm on the form of   *)
(* an instruction can occur.                                                *)
THEOREM PassesEstablishForms == Spec => []BackendsAccept
BY PassesInvariant, DoneIsAccepted, PTL

-----------------------------------------------------------------------------
(* FoldLeft is a CHOOSE of a function on all subsets of the domain.  Here   *)
(* it is unfolded, with an induction over the smallest set that it is wrong *)
(* for.                                                                     *)
Follows(E, s, S, iter) ==
  iter = [T \in SUBSET S |-> IF T = {} THEN s ELSE Do(iter[T \ {Max(T)}], E[Max(T)])]

(* The state after the instructions of E at S.                              *)
Run(E, s, S) == (CHOOSE iter : Follows(E, s, S, iter))[S]

(* The function is right at S.                                              *)
RunsOn(E, s, S) == Run(E, s, S) = IF S = {} THEN s ELSE Do(Run(E, s, S \ {Max(S)}), E[Max(S)])

(* And at all parts of S.                                                   *)
AllRun(E, s, S) == \A T \in SUBSET S : RunsOn(E, s, T)

(* A set of numbers that is finite and not empty has its maximum.           *)
LEMMA MaxIsIn ==
  ASSUME NEW n \in Nat, NEW S \in SUBSET (1 .. n), S # {}
  PROVE  Max(S) \in S
<1>1. S \in SUBSET Int /\ n \in Int /\ \A y \in S : y <= n
  OBVIOUS
<1> QED
  BY <1>1, MaxIsGreatest

(* So is every part of 1 .. n.                                              *)
LEMMA PartsAreFinite ==
  ASSUME NEW n \in Nat, NEW S \in SUBSET (1 .. n)
  PROVE  IsFiniteSet(S)
<1>1. n \in Int /\ 1 \in Int
  OBVIOUS
<1>2. IsFiniteSet(1 .. n)
  BY <1>1, FS_Interval
<1> QED
  BY <1>2, FS_Subset

(* There is one function that follows the instructions.                     *)
LEMMA OneRun ==
  ASSUME NEW E, NEW s, NEW n \in Nat, NEW S \in SUBSET (1 .. n),
         NEW iter, Follows(E, s, S, iter), NEW T \in SUBSET S,
         AllRun(E, s, T)
  PROVE  iter[T] = Run(E, s, T)
<1> DEFINE B == {U \in SUBSET T : iter[U] # Run(E, s, U)}
<1> SUFFICES ASSUME B # {} PROVE FALSE
  OBVIOUS
<1>1. IsFiniteSet(T)
  BY PartsAreFinite
<1>2. PICK U \in B : \A V \in SUBSET U : V # U => V \notin B
  <2> HIDE DEF B
  <2>1. B \in SUBSET (SUBSET T)
    BY DEF B
  <2> QED
    BY <1>1, <2>1, LeastPart
<1>3. iter[U] = IF U = {} THEN s ELSE Do(iter[U \ {Max(U)}], E[Max(U)])
  BY DEF Follows
<1>4. U # {} => iter[U \ {Max(U)}] = Run(E, s, U \ {Max(U)})
  <2> SUFFICES ASSUME U # {} PROVE iter[U \ {Max(U)}] = Run(E, s, U \ {Max(U)})
    OBVIOUS
  <2>1. Max(U) \in U
    BY MaxIsIn
  <2> QED
    BY <1>2, <2>1
<1> QED
  BY <1>2, <1>3, <1>4 DEF AllRun, RunsOn

(* What FoldLeft chooses follows the instructions.                          *)
LEMMA RunUnfolds ==
  ASSUME NEW E, NEW s, NEW n \in Nat, NEW S \in SUBSET (1 .. n)
  PROVE  RunsOn(E, s, S)
<1> DEFINE Fine(T) == RunsOn(E, s, T)
           B == {T \in SUBSET S : ~Fine(T)}
<1> SUFFICES ASSUME B # {} PROVE FALSE
  OBVIOUS
<1>1. PICK T \in B : \A U \in SUBSET T : U # T => U \notin B
  <2>1. IsFiniteSet(S)
    BY PartsAreFinite
  <2> HIDE DEF B
  <2>2. B \in SUBSET (SUBSET S)
    BY DEF B
  <2> QED
    BY <2>1, <2>2, LeastPart
<1>2. T \in SUBSET (1 .. n)
  OBVIOUS
<1>3. \A U \in SUBSET T : U # T => RunsOn(E, s, U)
  BY <1>1
<1> DEFINE it == [U \in SUBSET T |-> IF U = {} THEN s ELSE Do(Run(E, s, U \ {Max(U)}), E[Max(U)])]
<1>4. Follows(E, s, T, it)
  <2>1. ASSUME NEW U \in SUBSET T, U # {} PROVE it[U \ {Max(U)}] = Run(E, s, U \ {Max(U)})
    <3>1. Max(U) \in U
      BY <1>2, <2>1, MaxIsIn
    <3>2. U \ {Max(U)} \in SUBSET T /\ U \ {Max(U)} # T
      BY <3>1
    <3> QED
      BY <1>3, <3>2 DEF RunsOn
  <2> QED
    BY <2>1 DEF Follows
<1> HIDE DEF it
<1> DEFINE iter == CHOOSE i : Follows(E, s, T, i)
<1>5. Follows(E, s, T, iter) /\ Run(E, s, T) = iter[T]
  BY <1>4 DEF Run
<1> HIDE DEF iter
<1>6. iter[T] = IF T = {} THEN s ELSE Do(iter[T \ {Max(T)}], E[Max(T)])
  BY <1>5 DEF Follows
<1>7. ASSUME T # {} PROVE iter[T \ {Max(T)}] = Run(E, s, T \ {Max(T)})
  <2>1. Max(T) \in T
    BY <1>2, <1>7, MaxIsIn
  <2> DEFINE R == T \ {Max(T)}
  <2>2. R \in SUBSET T /\ AllRun(E, s, R)
    BY <1>3, <2>1 DEF AllRun
  <2> HIDE DEF R, B
  <2>3. iter[R] = Run(E, s, R)
    BY <1>2, <1>5, <2>2, OneRun
  <2> QED
    BY <2>3 DEF R
<1> QED
  BY <1>5, <1>6, <1>7 DEF RunsOn

(* One instruction more.                                                    *)
LEMMA RunNext ==
  ASSUME NEW E, NEW s, NEW n \in Nat
  PROVE  Run(E, s, 1 .. n + 1) = Do(Run(E, s, 1 .. n), E[n + 1])
<1>1. Max(1 .. n + 1) = n + 1
  <2>1. 1 .. n + 1 \in SUBSET Int /\ 1 .. n + 1 # {} /\ n + 1 \in Int /\ \A y \in 1 .. n + 1 : y <= n + 1
    OBVIOUS
  <2> DEFINE S == 1 .. n + 1
  <2> HIDE DEF S
  <2>2. S \in SUBSET Int /\ S # {} /\ n + 1 \in Int /\ \A y \in S : y <= n + 1
    BY <2>1 DEF S
  <2>3. Max(S) \in S /\ \A y \in S : y <= Max(S)
    BY <2>2, MaxIsGreatest
  <2> QED
    BY <2>3 DEF S
<1>2. (1 .. n + 1) \ {n + 1} = 1 .. n /\ 1 .. n + 1 # {} /\ 1 .. n + 1 \in SUBSET (1 .. n + 1) /\ n + 1 \in Nat
  <2>1. n + 1 \in 1 .. n + 1 /\ n + 1 \in Nat
    OBVIOUS
  <2>2. \A y : y \in (1 .. n + 1) \ {n + 1} <=> y \in 1 .. n
    OBVIOUS
  <2> QED
    BY <2>1, <2>2
<1>3. RunsOn(E, s, 1 .. n + 1)
  BY <1>2, RunUnfolds
<1> QED
  BY <1>1, <1>2, <1>3 DEF RunsOn

(* No instruction.                                                          *)
LEMMA RunOfNone ==
  ASSUME NEW E, NEW s
  PROVE  Run(E, s, 1 .. 0) = s
<1>1. 1 .. 0 = {} /\ 0 \in Nat
  OBVIOUS
<1>2. RunsOn(E, s, {})
  BY <1>1, RunUnfolds
<1> QED
  BY <1>1, <1>2 DEF RunsOn

(* The meaning of instructions is what Run makes of them.                   *)
LEMMA MeaningIsRun ==
  ASSUME NEW E, NEW s
  PROVE  Meaning(s, E) = Run(E, s, DOMAIN E)
BY DEF Meaning, FoldLeft, MapThenFoldSet, Run, Follows

(* The meaning of up to four instructions: one after the other.             *)
LEMMA Meanings ==
  ASSUME NEW s, NEW E
  PROVE  /\ DOMAIN E = 1 .. 1 => Meaning(s, E) = Do(s, E[1])
         /\ DOMAIN E = 1 .. 2 => Meaning(s, E) = Do(Do(s, E[1]), E[2])
         /\ DOMAIN E = 1 .. 3 => Meaning(s, E) = Do(Do(Do(s, E[1]), E[2]), E[3])
         /\ DOMAIN E = 1 .. 4 => Meaning(s, E) = Do(Do(Do(Do(s, E[1]), E[2]), E[3]), E[4])
<1>1. /\ Run(E, s, 1 .. 0 + 1) = Do(Run(E, s, 1 .. 0), E[0 + 1])
      /\ Run(E, s, 1 .. 1 + 1) = Do(Run(E, s, 1 .. 1), E[1 + 1])
      /\ Run(E, s, 1 .. 2 + 1) = Do(Run(E, s, 1 .. 2), E[2 + 1])
      /\ Run(E, s, 1 .. 3 + 1) = Do(Run(E, s, 1 .. 3), E[3 + 1])
  <2>1. 0 \in Nat /\ 1 \in Nat /\ 2 \in Nat /\ 3 \in Nat
    OBVIOUS
  <2> QED
    BY <2>1, RunNext
<1>2. 0 + 1 = 1 /\ 1 + 1 = 2 /\ 2 + 1 = 3 /\ 3 + 1 = 4
  OBVIOUS
<1>3. Meaning(s, E) = Run(E, s, DOMAIN E)
  BY MeaningIsRun
<1> QED
  BY <1>1, <1>2, <1>3, RunOfNone

-----------------------------------------------------------------------------
(* A state of the meaning, and two that agree on everything but the values  *)
(* of N.                                                                    *)
IsState(s) == s = [value |-> s.value, args |-> s.args, calls |-> s.calls]

(* The states differ in the values of N at most.                            *)
Agree(s, t, N) ==
  /\ IsState(s) /\ IsState(t) /\ s.args = t.args /\ s.calls = t.calls
  /\ \A x : x \notin N => Value(s, x) = Value(t, x)

(* Of the unknown state no value is known.                                  *)
LEMMA UnknownAgrees ==
  /\ IsState(Unknown) /\ DOMAIN Unknown.value = {}
  /\ \A N : Agree(Unknown, Unknown, N)
BY DEF Unknown, IsState, Agree, Nowhere

(* Set changes a value and nothing else.                                    *)
LEMMA SetFields ==
  ASSUME NEW s, IsState(s), NEW x, NEW term
  PROVE  /\ IsState(Set(s, x, term))
         /\ Set(s, x, term).args = s.args /\ Set(s, x, term).calls = s.calls
         /\ Set(s, x, term).value = With(s.value, x, term)
         /\ DOMAIN Set(s, x, term).value = DOMAIN s.value \cup {x}
<1>1. Set(s, x, term) = [value |-> With(s.value, x, term), args |-> s.args, calls |-> s.calls]
  BY DEF Set, IsState
<1> QED
  BY <1>1 DEF IsState, With, Overlay

(* What has which value after Set.                                          *)
LEMMA ValueOfSet ==
  ASSUME NEW s, IsState(s), NEW x, x[1] \notin {"const", "dyn"}, NEW term
  PROVE  \A y : Value(Set(s, x, term), y) = IF y = x THEN term ELSE Value(s, y)
<1> DEFINE t == Set(s, x, term)
<1>1. t.value = With(s.value, x, term)
  BY SetFields
<1> HIDE DEF t
<1>2. /\ DOMAIN t.value = DOMAIN s.value \cup {x} /\ t.value[x] = term
      /\ \A y \in DOMAIN s.value : y # x => t.value[y] = s.value[y]
  BY <1>1 DEF With, Overlay
<1>3. Value(t, x) = term
  BY <1>2 DEF Value
<1>4. ASSUME NEW y, y # x PROVE Value(t, y) = Value(s, y)
  <2>1. y \in DOMAIN t.value <=> y \in DOMAIN s.value
    BY <1>2, <1>4
  <2>2. y \in DOMAIN s.value => t.value[y] = s.value[y]
    BY <1>2, <1>4
  <2> QED
    BY <2>1, <2>2 DEF Value
<1> QED
  BY <1>3, <1>4 DEF t

(* The same value, set in two states that agree.                            *)
LEMMA AgreeOnSet ==
  ASSUME NEW s, NEW t, NEW N, Agree(s, t, N), NEW x, x[1] \notin {"const", "dyn"}, NEW term
  PROVE  Agree(Set(s, x, term), Set(t, x, term), N)
BY ValueOfSet, SetFields DEF Agree

(* What is set in N aside does not matter.                                  *)
LEMMA AgreeAside ==
  ASSUME NEW s, NEW t, NEW N, Agree(s, t, N), NEW x, x \in N, x[1] \notin {"const", "dyn"}, NEW term
  PROVE  Agree(s, Set(t, x, term), N)
BY ValueOfSet, SetFields DEF Agree

(* What an instruction computes, type by type.                              *)
LEMMA Computing ==
  ASSUME NEW s, NEW instr
  PROVE  /\ instr.type \in {"MOVE", "LOAD_GLOBAL"} => Computed(s, instr) = Value(s, instr.op1)
         /\ instr.type = "LOAD_MEMORY" => Computed(s, instr) = Value(s, Cell(Value(s, instr.op1)))
         /\ instr.type = "ADDRESS_OF" => Computed(s, instr) = <<"&", instr.op1>>
         /\ instr.type = "SET_LIVE" => Computed(s, instr) = <<"stack">>
         /\ instr.type = "LOAD_PARAMETER" => Computed(s, instr) = <<"parameter", instr.op1[2]>>
         /\ instr.type \in Unary => Computed(s, instr) = <<instr.type, Value(s, instr.op1)>>
         /\ instr.type \in Binary =>
              Computed(s, instr) = Apply(instr.type, Value(s, instr.op1), Value(s, instr.op2))
<1>1. instr.type \in {"MOVE", "LOAD_GLOBAL"} => Computed(s, instr) = Value(s, instr.op1)
  BY Zenon DEF Computed, Unary, Binary, Comparison
<1>2. instr.type = "LOAD_MEMORY" => Computed(s, instr) = Value(s, Cell(Value(s, instr.op1)))
  BY Zenon DEF Computed, Unary, Binary, Comparison
<1>3. instr.type = "ADDRESS_OF" => Computed(s, instr) = <<"&", instr.op1>>
  BY Zenon DEF Computed, Unary, Binary, Comparison
<1>4. instr.type = "SET_LIVE" => Computed(s, instr) = <<"stack">>
  BY Zenon DEF Computed, Unary, Binary, Comparison
<1>5. instr.type = "LOAD_PARAMETER" => Computed(s, instr) = <<"parameter", instr.op1[2]>>
  BY Zenon DEF Computed, Unary, Binary, Comparison
<1>6. instr.type \in Unary => Computed(s, instr) = <<instr.type, Value(s, instr.op1)>>
  BY Zenon DEF Computed, Unary, Binary, Comparison
<1>7. instr.type \in Binary => Computed(s, instr) = Apply(instr.type, Value(s, instr.op1), Value(s, instr.op2))
  BY Zenon DEF Computed, Unary, Binary, Comparison
<1> QED
  BY <1>1, <1>2, <1>3, <1>4, <1>5, <1>6, <1>7

(* What an instruction does, type by type.                                  *)
LEMMA Doing ==
  ASSUME NEW s, NEW instr
  PROVE  /\ instr.type \in Computes => Do(s, instr) = Set(s, instr.result, Computed(s, instr))
         /\ instr.type = "STORE_GLOBAL" => Do(s, instr) = Set(s, instr.op1, Value(s, instr.op2))
         /\ instr.type = "STORE_MEMORY" => Do(s, instr) = Set(s, Cell(Value(s, instr.op1)), Value(s, instr.op2))
         /\ instr.type = "STORE_PARAMETER" => Do(s, instr) = WithArgument(s, Value(s, instr.op1))
         /\ instr.type = "CALL" => Do(s, instr) = WithResult(Called(s, instr.op1, instr.op2[2]), instr.result)
         /\ instr.type = "RETURN" => Do(s, instr) = Returned(s, Value(s, instr.op1))
         /\ instr.type \in {"JUMP", "DEFINE_LABEL", "JUMP_IF_ZERO", "NOP", "FUNCTION_BEGIN"} => Do(s, instr) = s
<1> DEFINE stores == {"STORE_GLOBAL", "STORE_MEMORY", "STORE_PARAMETER", "CALL", "RETURN"}
           others == {"JUMP", "DEFINE_LABEL", "JUMP_IF_ZERO", "NOP", "FUNCTION_BEGIN"}
<1>1. \A type \in stores \cup others : type \notin Computes
  BY DEF Computes, Unary, Binary, Comparison
<1>2. instr.type \in Computes => Do(s, instr) = Set(s, instr.result, Computed(s, instr))
  BY <1>1, Zenon DEF Do
<1>3. instr.type = "STORE_GLOBAL" => Do(s, instr) = Set(s, instr.op1, Value(s, instr.op2))
  BY <1>1, Zenon DEF Do
<1>4. instr.type = "STORE_MEMORY" => Do(s, instr) = Set(s, Cell(Value(s, instr.op1)), Value(s, instr.op2))
  BY <1>1, Zenon DEF Do
<1>5. instr.type = "STORE_PARAMETER" => Do(s, instr) = WithArgument(s, Value(s, instr.op1))
  BY <1>1, Zenon DEF Do
<1>6. instr.type = "CALL" => Do(s, instr) = WithResult(Called(s, instr.op1, instr.op2[2]), instr.result)
  BY <1>1, Zenon DEF Do
<1>7. instr.type = "RETURN" => Do(s, instr) = Returned(s, Value(s, instr.op1))
  BY <1>1, Zenon DEF Do
<1>8. instr.type \in others => Do(s, instr) = s
  BY <1>1, Zenon DEF Do
<1> QED
  BY <1>2, <1>3, <1>4, <1>5, <1>6, <1>7, <1>8

(* What the operations are that the rewritings split or put together.       *)
LEMMA Applying ==
  ASSUME NEW x, NEW y
  PROVE  /\ Apply("MULTIPLY", x, y) = Product(x, y)
         /\ Apply("MODULO", x, y) = <<"SUBTRACT", x, Product(<<"DIVIDE", x, y>>, y)>>
         /\ Apply("DIVIDE", x, y) = <<"DIVIDE", x, y>>
         /\ Apply("SUBTRACT", x, y) = <<"SUBTRACT", x, y>>
         /\ \A z : Apply("ADD", <<"offset of", z>>, <<"stack">>) = <<"&", z>>
BY DEF Apply

(* The values in the unknown state.                                         *)
LEMMA ValuesOfUnknown ==
  /\ \A x \in References : Value(Unknown, x) = <<"in", x>>
  /\ \A x \in Constants : Value(Unknown, x) = x
  /\ \A S : \A x \in {"dyn"} \X S : Value(Unknown, x) = <<"offset of", x[2]>>
BY UnknownAgrees, Kinds DEF Value

-----------------------------------------------------------------------------
(* The references that a rewriting makes, and what a rewriting leaves       *)
(* between the two unchanged parts of the function.                         *)
Fresh == Later \ Known

(* E is what the rewriting r puts in place of an instruction.               *)
IsSegment(E, r) ==
  /\ DOMAIN E = 1 .. Len(r.before) + 1 + Len(r.after)
  /\ \A i \in Positions(r.before) : E[i] = r.before[i]
  /\ E[Len(r.before) + 1] = r.instr
  /\ \A i \in Positions(r.after) : E[Len(r.before) + 1 + i] = r.after[i]

(* It is one, two, three or four instructions.                              *)
LEMMA Segments ==
  ASSUME NEW E, NEW r, IsSegment(E, r)
  PROVE  /\ \A x, y, z : r.before = <<x, y>> /\ r.after = <<z>> =>
              DOMAIN E = 1 .. 4 /\ E[1] = x /\ E[2] = y /\ E[3] = r.instr /\ E[4] = z
         /\ \A x : r.before = <<>> /\ r.after = <<x>> => DOMAIN E = 1 .. 2 /\ E[1] = r.instr /\ E[2] = x
         /\ \A x, y : r.before = <<>> /\ r.after = <<x, y>> =>
              DOMAIN E = 1 .. 3 /\ E[1] = r.instr /\ E[2] = x /\ E[3] = y
         /\ \A x : r.before = <<x>> /\ r.after = <<>> => DOMAIN E = 1 .. 2 /\ E[1] = x /\ E[2] = r.instr
         /\ \A x, y : r.before = <<x, y>> /\ r.after = <<>> =>
              DOMAIN E = 1 .. 3 /\ E[1] = x /\ E[2] = y /\ E[3] = r.instr
         /\ r.before = <<>> /\ r.after = <<>> => DOMAIN E = 1 .. 1 /\ E[1] = r.instr
<1>1. Positions(<<>>) = {} /\ Len(<<>>) = 0
  BY DEF Positions
<1>2. \A x : Positions(<<x>>) = {1} /\ Len(<<x>>) = 1 /\ <<x>>[1] = x
  BY DEF Positions
<1>3. \A x, y : Positions(<<x, y>>) = {1, 2} /\ Len(<<x, y>>) = 2 /\ <<x, y>>[1] = x /\ <<x, y>>[2] = y
  BY DEF Positions
<1>4. 0 + 1 = 1 /\ 1 + 1 = 2 /\ 2 + 1 = 3 /\ 3 + 1 = 4 /\ 1 + 0 = 1 /\ 2 + 0 = 2
      /\ 1 + 2 = 3
  OBVIOUS
<1>5. \A x, y, z : r.before = <<x, y>> /\ r.after = <<z>> =>
        DOMAIN E = 1 .. 4 /\ E[1] = x /\ E[2] = y /\ E[3] = r.instr /\ E[4] = z
  <2> SUFFICES ASSUME NEW x, NEW y, NEW z, r.before = <<x, y>>, r.after = <<z>>
               PROVE  DOMAIN E = 1 .. 4 /\ E[1] = x /\ E[2] = y /\ E[3] = r.instr /\ E[4] = z
    OBVIOUS
  <2>1. /\ Positions(r.before) = {1, 2} /\ Len(r.before) = 2
        /\ Positions(r.after) = {1} /\ Len(r.after) = 1
    BY <1>1, <1>2, <1>3
  <2>2. r.before[1] = x /\ r.before[2] = y /\ r.after[1] = z
    OBVIOUS
  <2> QED
    BY <2>1, <2>2, <1>4 DEF IsSegment
<1>6. \A x : r.before = <<>> /\ r.after = <<x>> =>
        DOMAIN E = 1 .. 2 /\ E[1] = r.instr /\ E[2] = x
  <2> SUFFICES ASSUME NEW x, r.before = <<>>, r.after = <<x>> PROVE DOMAIN E = 1 .. 2 /\ E[1] = r.instr /\ E[2] = x
    OBVIOUS
  <2>1. /\ Positions(r.before) = {} /\ Len(r.before) = 0
        /\ Positions(r.after) = {1} /\ Len(r.after) = 1
    BY <1>1, <1>2, <1>3
  <2>2. r.after[1] = x
    OBVIOUS
  <2> QED
    BY <2>1, <2>2, <1>4 DEF IsSegment
<1>7. \A x, y : r.before = <<>> /\ r.after = <<x, y>> =>
        DOMAIN E = 1 .. 3 /\ E[1] = r.instr /\ E[2] = x /\ E[3] = y
  <2> SUFFICES ASSUME NEW x, NEW y, r.before = <<>>, r.after = <<x, y>>
               PROVE  DOMAIN E = 1 .. 3 /\ E[1] = r.instr /\ E[2] = x /\ E[3] = y
    OBVIOUS
  <2>1. /\ Positions(r.before) = {} /\ Len(r.before) = 0
        /\ Positions(r.after) = {1, 2} /\ Len(r.after) = 2
    BY <1>1, <1>2, <1>3
  <2>2. r.after[1] = x /\ r.after[2] = y
    OBVIOUS
  <2> QED
    BY <2>1, <2>2, <1>4 DEF IsSegment
<1>8. \A x : r.before = <<x>> /\ r.after = <<>> =>
        DOMAIN E = 1 .. 2 /\ E[1] = x /\ E[2] = r.instr
  <2> SUFFICES ASSUME NEW x, r.before = <<x>>, r.after = <<>> PROVE DOMAIN E = 1 .. 2 /\ E[1] = x /\ E[2] = r.instr
    OBVIOUS
  <2>1. /\ Positions(r.before) = {1} /\ Len(r.before) = 1
        /\ Positions(r.after) = {} /\ Len(r.after) = 0
    BY <1>1, <1>2, <1>3
  <2>2. r.before[1] = x
    OBVIOUS
  <2> QED
    BY <2>1, <2>2, <1>4 DEF IsSegment
<1>9. \A x, y : r.before = <<x, y>> /\ r.after = <<>> =>
        DOMAIN E = 1 .. 3 /\ E[1] = x /\ E[2] = y /\ E[3] = r.instr
  <2> SUFFICES ASSUME NEW x, NEW y, r.before = <<x, y>>, r.after = <<>>
               PROVE  DOMAIN E = 1 .. 3 /\ E[1] = x /\ E[2] = y /\ E[3] = r.instr
    OBVIOUS
  <2>1. /\ Positions(r.before) = {1, 2} /\ Len(r.before) = 2
        /\ Positions(r.after) = {} /\ Len(r.after) = 0
    BY <1>1, <1>2, <1>3
  <2>2. r.before[1] = x /\ r.before[2] = y
    OBVIOUS
  <2> QED
    BY <2>1, <2>2, <1>4 DEF IsSegment
<1>10. r.before = <<>> /\ r.after = <<>> =>
        DOMAIN E = 1 .. 1 /\ E[1] = r.instr
  <2> SUFFICES ASSUME r.before = <<>>, r.after = <<>> PROVE DOMAIN E = 1 .. 1 /\ E[1] = r.instr
    OBVIOUS
  <2>1. /\ Positions(r.before) = {} /\ Len(r.before) = 0
        /\ Positions(r.after) = {} /\ Len(r.after) = 0
    BY <1>1, <1>2, <1>3
  <2> QED
    BY <2>1, <1>4 DEF IsSegment
<1> QED
  BY <1>5, <1>6, <1>7, <1>8, <1>9, <1>10

(* The meaning of a move.                                                   *)
LEMMA Moving ==
  ASSUME NEW s, NEW x, NEW y
  PROVE  Do(s, Move(x, y)) = Set(s, x, Value(s, y))
<1> DEFINE m == Move(x, y)
<1>1. m.type = "MOVE" /\ m.result = x /\ m.op1 = y
  BY DEF Move, Instr
<1>2. m.type \in Computes
  BY <1>1 DEF Computes
<1> HIDE DEF m
<1>3. Do(s, m) = Set(s, m.result, Computed(s, m)) /\ Computed(s, m) = Value(s, m.op1)
  BY <1>1, <1>2, Doing, Computing
<1> QED
  BY <1>1, <1>3 DEF m

(* The meaning of an operation.                                             *)
LEMMA Operating ==
  ASSUME NEW s, NEW type \in Binary, NEW x, NEW y, NEW z
  PROVE  Do(s, Instr(type, x, y, z)) = Set(s, x, Apply(type, Value(s, y), Value(s, z)))
<1> DEFINE m == Instr(type, x, y, z)
<1>1. m.type = type /\ m.result = x /\ m.op1 = y /\ m.op2 = z
  BY DEF Instr
<1>2. m.type \in Computes /\ m.type \in Binary
  BY <1>1 DEF Computes
<1> HIDE DEF m
<1>3. Do(s, m) = Set(s, m.result, Computed(s, m))
      /\ Computed(s, m) = Apply(m.type, Value(s, m.op1), Value(s, m.op2))
  BY <1>2, Doing, Computing
<1> QED
  BY <1>1, <1>3 DEF m

(* No operand of the function is a new reference.                           *)
LEMMA FreshNames ==
  ASSUME created \in Nat
  PROVE  /\ \A x \in Fresh : x[1] \notin {"const", "dyn"} /\ x \notin Known /\ x \notin Constants
                             /\ x \notin {"dyn"} \X Known
         /\ \A x \in Known : x[1] \notin {"const", "dyn"} /\ x \notin Fresh
         /\ \A name \in {"divtmp", "divresult", "callresult", "param", "constant", "sp", "tmp"} :
              \A k \in 1 .. 3 : New(name, k) \in Fresh
         /\ \A a, b : \A k, l \in 1 .. 3 : k # l => New(a, k) # New(b, l)
<1>1. Known \subseteq References /\ Later \subseteq References
  BY NewReferences
<1>2. \A x \in Fresh : x[1] \notin {"const", "dyn"} /\ x \notin Known /\ x \notin Constants
                       /\ x \notin {"dyn"} \X Known
  BY <1>1, Kinds DEF Fresh
<1>3. \A x \in Known : x[1] \notin {"const", "dyn"} /\ x \notin Fresh
  BY <1>1, Kinds DEF Fresh
<1>4. \A name \in {"divtmp", "divresult", "callresult", "param", "constant", "sp", "tmp"} :
        \A k \in 1 .. 3 : New(name, k) \in Fresh
  BY NewReferences DEF Fresh
<1>5. \A a, b : \A k, l \in 1 .. 3 : k # l => New(a, k) # New(b, l)
  BY NewReferences
<1> QED
  BY <1>2, <1>3, <1>4, <1>5

(* SeperateDivReferences: the quotient of the copies is the quotient.  The  *)
(* divisor is read before its copy could be overwritten, as it is no new    *)
(* reference.                                                               *)
LEMMA DivisionMeans ==
  ASSUME created \in Nat, NEW instr \in Allowed(Known), instr.type = "DIVIDE",
         NEW E, IsSegment(E, SeperateDivReferences(instr))
  PROVE  Agree(Do(Unknown, instr), Meaning(Unknown, E), Fresh)
<1> DEFINE dividend == New("divtmp", 1)
           divisor  == New("divtmp", 2)
           quotient == New("divresult", 3)
           r == SeperateDivReferences(instr)
           res == instr.result
           x == Value(Unknown, instr.op1)
           y == Value(Unknown, instr.op2)
           s1 == Set(Unknown, dividend, x)
           s2 == Set(s1, divisor, y)
           s3 == Set(s2, quotient, <<"DIVIDE", x, y>>)
           s4 == Set(s3, res, <<"DIVIDE", x, y>>)
<1>1. /\ r.before = <<Move(dividend, instr.op1), Move(divisor, instr.op2)>>
      /\ r.instr = Instr("DIVIDE", quotient, dividend, divisor)
      /\ r.after = <<Move(instr.result, quotient)>>
  BY DEF SeperateDivReferences
<1> HIDE DEF r
<1>2. /\ DOMAIN E = 1 .. 4
      /\ E[1] = Move(dividend, instr.op1) /\ E[2] = Move(divisor, instr.op2)
      /\ E[3] = Instr("DIVIDE", quotient, dividend, divisor) /\ E[4] = Move(res, quotient)
  BY <1>1, Segments DEF r
<1>3. /\ dividend \in Fresh /\ divisor \in Fresh /\ quotient \in Fresh
      /\ dividend # divisor /\ divisor # quotient /\ dividend # quotient
  BY FreshNames
<1> HIDE DEF dividend, divisor, quotient
<1>4. /\ res \in Known /\ instr.op2 \in Known \cup Constants
      /\ instr = Instr("DIVIDE", res, instr.op1, instr.op2) /\ "DIVIDE" \in Binary
  BY Forms DEF Allowed, Binary, Values
<1>5. instr.op2 # dividend /\ \A z \in Fresh \cup Known : z[1] \notin {"const", "dyn"}
  BY <1>3, <1>4, FreshNames
<1> HIDE DEF res, x, y
<1>6. Do(Unknown, instr) = Set(Unknown, res, <<"DIVIDE", x, y>>)
  <2>1. Do(Unknown, instr) = Set(Unknown, res, Apply("DIVIDE", x, y))
    BY <1>4, Operating DEF x, y
  <2> QED
    BY <2>1, Applying
<1>7. /\ Do(Unknown, E[1]) = s1 /\ IsState(s1)
      /\ Value(s1, dividend) = x /\ Value(s1, instr.op2) = y
  BY <1>2, <1>3, <1>5, Moving, UnknownAgrees, SetFields, ValueOfSet DEF x, y
<1>8. Do(s1, E[2]) = s2 /\ IsState(s2) /\ Value(s2, dividend) = x /\ Value(s2, divisor) = y
  BY <1>2, <1>3, <1>5, <1>7, Moving, SetFields, ValueOfSet
<1>9. Do(s2, E[3]) = s3 /\ IsState(s3) /\ Value(s3, quotient) = <<"DIVIDE", x, y>>
  <2>1. Do(s2, E[3]) = Set(s2, quotient, Apply("DIVIDE", x, y))
    BY <1>2, <1>4, <1>8, Operating
  <2>2. Do(s2, E[3]) = s3
    BY <2>1, Applying
  <2> QED
    BY <2>2, <1>3, <1>5, <1>8, SetFields, ValueOfSet
<1>10. Do(s3, E[4]) = s4
  BY <1>2, <1>9, Moving
<1>11. Meaning(Unknown, E) = s4
  BY <1>2, <1>7, <1>8, <1>9, <1>10, Meanings
<1>12. Agree(Unknown, s3, Fresh)
  BY <1>3, <1>5, UnknownAgrees, AgreeAside
<1>13. Agree(Set(Unknown, res, <<"DIVIDE", x, y>>), s4, Fresh)
  BY <1>4, <1>5, <1>12, AgreeOnSet
<1> QED
  BY <1>6, <1>11, <1>13

(* A result by way of a new reference is the result.                        *)
LEMMA ThroughFresh ==
  ASSUME created \in Nat, NEW s, IsState(s), NEW x \in Known, NEW y \in Fresh, NEW term
  PROVE  Agree(Set(s, x, term), Do(Set(s, y, term), Move(x, y)), Fresh)
<1>1. x[1] \notin {"const", "dyn"} /\ y[1] \notin {"const", "dyn"}
  BY FreshNames
<1> DEFINE t == Set(s, y, term)
<1>2. IsState(t) /\ Value(t, y) = term
  BY <1>1, SetFields, ValueOfSet
<1>3. Agree(s, t, Fresh)
  <2>1. Agree(s, s, Fresh)
    BY DEF Agree
  <2> QED
    BY <1>1, <2>1, AgreeAside
<1> HIDE DEF t
<1>4. Do(t, Move(x, y)) = Set(t, x, term)
  BY <1>2, Moving
<1> QED
  BY <1>1, <1>3, <1>4, AgreeOnSet DEF t

(* A call takes arguments and leaves the values.                            *)
LEMMA CalledState ==
  ASSUME NEW label, NEW n
  PROVE  IsState(Called(Unknown, label, n)) /\ Called(Unknown, label, n).value = Unknown.value
<1> DEFINE s == Called(Unknown, label, n)
<1>1. s = [[Unknown EXCEPT !.calls = s.calls] EXCEPT !.args = s.args]
  BY DEF Called, Unknown
<1>2. Unknown = [value |-> Unknown.value, args |-> Unknown.args, calls |-> Unknown.calls]
  BY DEF Unknown
<1> HIDE DEF s
<1>3. IsState(s) /\ s.value = Unknown.value
  BY <1>1, <1>2 DEF IsState
<1> QED
  BY <1>3 DEF s

(* SeperateCallResults: the call is the same, and its result gets where it  *)
(* went.                                                                    *)
LEMMA CallMeans ==
  ASSUME created \in Nat, NEW instr \in Allowed(Known), instr.type = "CALL",
         NEW E, IsSegment(E, SeperateCallResults(instr))
  PROVE  Agree(Do(Unknown, instr), Meaning(Unknown, E), Fresh)
<1> DEFINE returned == New("callresult", 1)
           r == SeperateCallResults(instr)
           s == Called(Unknown, instr.op1, instr.op2[2])
<1>1. /\ instr.result \in Known
      /\ instr = Instr("CALL", instr.result, instr.op1, instr.op2)
  BY Forms DEF Allowed
<1>2. /\ r.before = <<>> /\ r.after = <<Move(instr.result, returned)>>
      /\ r.instr = [instr EXCEPT !.result = returned]
  BY DEF SeperateCallResults
<1> HIDE DEF r
<1>3. DOMAIN E = 1 .. 2 /\ E[1] = r.instr /\ E[2] = Move(instr.result, returned)
  BY <1>2, Segments DEF r
<1>4. /\ r.instr.type = "CALL" /\ r.instr.result = returned
      /\ r.instr.op1 = instr.op1 /\ r.instr.op2 = instr.op2
  BY <1>1, <1>2 DEF Instr
<1>5. returned \in Fresh
  BY FreshNames
<1> HIDE DEF returned, s
<1>6. IsState(s)
  BY CalledState DEF s
<1>7. Do(Unknown, instr) = Set(s, instr.result, Outcome(s))
  BY Doing DEF s, WithResult
<1>8. Do(Unknown, E[1]) = Set(s, returned, Outcome(s))
  <2>1. Do(Unknown, r.instr) = WithResult(Called(Unknown, r.instr.op1, r.instr.op2[2]), r.instr.result)
    BY <1>4, Doing
  <2> QED
    BY <1>3, <1>4, <2>1 DEF s, WithResult
<1>9. Meaning(Unknown, E) = Do(Set(s, returned, Outcome(s)), Move(instr.result, returned))
  BY <1>3, <1>8, Meanings
<1> QED
  BY <1>1, <1>5, <1>6, <1>7, <1>9, ThroughFresh

(* SeparateLoadParameters: the parameter gets where it went.                *)
LEMMA ParameterMeans ==
  ASSUME created \in Nat, NEW instr \in Allowed(Known), instr.type = "LOAD_PARAMETER",
         NEW E, IsSegment(E, SeparateLoadParameters(instr))
  PROVE  Agree(Do(Unknown, instr), Meaning(Unknown, E), Fresh)
<1> DEFINE param == New("param", 1)
           r == SeparateLoadParameters(instr)
           term == <<"parameter", instr.op1[2]>>
<1>1. /\ instr.result \in Known
      /\ instr = Instr("LOAD_PARAMETER", instr.result, instr.op1, instr.op2)
  BY Forms DEF Allowed
<1>2. /\ r.before = <<>> /\ r.after = <<Move(instr.result, param)>>
      /\ r.instr = [instr EXCEPT !.result = param]
  BY DEF SeparateLoadParameters
<1> HIDE DEF r
<1>3. DOMAIN E = 1 .. 2 /\ E[1] = r.instr /\ E[2] = Move(instr.result, param)
  BY <1>2, Segments DEF r
<1>4. /\ r.instr.type = "LOAD_PARAMETER" /\ r.instr.result = param
      /\ r.instr.op1 = instr.op1
  BY <1>1, <1>2 DEF Instr
<1>5. param \in Fresh
  BY FreshNames
<1>6. "LOAD_PARAMETER" \in Computes
  BY DEF Computes
<1> HIDE DEF param
<1>7. Do(Unknown, instr) = Set(Unknown, instr.result, term)
  BY <1>6, Doing, Computing
<1>8. Do(Unknown, E[1]) = Set(Unknown, param, term)
  <2>1. Do(Unknown, r.instr) = Set(Unknown, r.instr.result, Computed(Unknown, r.instr))
    BY <1>4, <1>6, Doing
  <2>2. Computed(Unknown, r.instr) = <<"parameter", r.instr.op1[2]>>
    BY <1>4, Computing
  <2> QED
    BY <1>3, <1>4, <2>1, <2>2
<1> HIDE DEF term
<1>9. Meaning(Unknown, E) = Do(Set(Unknown, param, term), Move(instr.result, param))
  BY <1>3, <1>8, Meanings
<1> QED
  BY <1>1, <1>5, <1>7, <1>9, ThroughFresh, UnknownAgrees

(* ResolveAddressOf: the stack pointer and the offset of a reference make   *)
(* its address.                                                             *)
LEMMA AddressMeans ==
  ASSUME created \in Nat, NEW instr \in Allowed(Known), instr.type = "ADDRESS_OF",
         NEW E, IsSegment(E, ResolveAddressOf(instr))
  PROVE  Agree(Do(Unknown, instr), Meaning(Unknown, E), Fresh)
<1> DEFINE sp == New("sp", 1)
           r == ResolveAddressOf(instr)
           alive == Instr("SET_LIVE", sp, None, None)
           stack == <<"stack">>
           amount == <<"offset of", instr.op1>>
           s == Set(Unknown, sp, stack)
           offset == <<"dyn", instr.op1>>
           term == <<"&", instr.op1>>
<1>1. instr.result \in Known
  BY Forms DEF Allowed
<1>2. r.before = <<alive>> /\ r.after = <<>> /\ r.instr = Instr("ADD", instr.result, offset, sp)
  BY DEF ResolveAddressOf
<1> HIDE DEF r
<1>3. DOMAIN E = 1 .. 2 /\ E[1] = alive /\ E[2] = Instr("ADD", instr.result, offset, sp)
  BY <1>2, Segments DEF r
<1>4. sp \in Fresh
  BY FreshNames
<1>5. alive.type = "SET_LIVE" /\ alive.result = sp
  BY DEF Instr
<1>6. "SET_LIVE" \in Computes /\ "ADDRESS_OF" \in Computes /\ "ADD" \in Binary
  BY DEF Computes, Binary
<1> HIDE DEF sp, alive
<1>7. Do(Unknown, instr) = Set(Unknown, instr.result, term)
  BY <1>6, Doing, Computing
<1>8. Do(Unknown, alive) = s
  BY <1>5, <1>6, Doing, Computing
<1>9. sp[1] \notin {"const", "dyn"} /\ instr.result[1] \notin {"const", "dyn"}
  BY <1>1, <1>4, FreshNames
<1>10. Value(s, sp) = stack /\ Value(s, offset) = amount
  <2>1. offset # sp
    BY <1>9
  <2>2. Value(Unknown, offset) = amount
    BY UnknownAgrees DEF Value
  <2> HIDE DEF stack, amount, offset
  <2>3. \A z : Value(s, z) = IF z = sp THEN stack ELSE Value(Unknown, z)
    BY <1>9, UnknownAgrees, ValueOfSet
  <2> QED
    BY <2>1, <2>2, <2>3
<1> HIDE DEF s, offset
<1>11. Do(s, Instr("ADD", instr.result, offset, sp)) = Set(s, instr.result, term)
  <2>1. Apply("ADD", amount, stack) = term
    BY Applying
  <2> HIDE DEF amount, stack, term
  <2>2. Do(s, Instr("ADD", instr.result, offset, sp)) = Set(s, instr.result, Apply("ADD", amount, stack))
    BY <1>6, <1>10, Operating
  <2> QED
    BY <2>1, <2>2
<1>12. Meaning(Unknown, E) = Set(s, instr.result, term)
  BY <1>3, <1>8, <1>11, Meanings
<1>13. Agree(Unknown, s, Fresh)
  BY <1>4, <1>9, UnknownAgrees, AgreeAside DEF s
<1> HIDE DEF term
<1> QED
  BY <1>7, <1>9, <1>12, <1>13, AgreeOnSet

(* ReplaceModWithDivMulSub: x - (x / y) * y is the remainder, and nothing   *)
(* is overwritten before it is read.                                        *)
LEMMA ModuloMeans ==
  ASSUME created \in Nat, NEW instr \in Allowed(Known), instr.type = "MODULO",
         NEW E, IsSegment(E, ReplaceModWithDivMulSub(instr))
  PROVE  Agree(Do(Unknown, instr), Meaning(Unknown, E), Fresh)
<1> DEFINE quotient == New("tmp", 1)
           product  == New("tmp", 2)
           r == ReplaceModWithDivMulSub(instr)
           res == instr.result
           x == Value(Unknown, instr.op1)
           y == Value(Unknown, instr.op2)
           q == <<"DIVIDE", x, y>>
           s1 == Set(Unknown, quotient, q)
           s2 == Set(s1, product, Product(q, y))
           term == <<"SUBTRACT", x, Product(q, y)>>
<1>1. /\ r.before = <<>>
      /\ r.instr = Instr("DIVIDE", quotient, instr.op1, instr.op2)
      /\ r.after = <<Instr("MULTIPLY", product, quotient, instr.op2), Instr("SUBTRACT", res, instr.op1, product)>>
  BY DEF ReplaceModWithDivMulSub
<1> HIDE DEF r
<1>2. /\ DOMAIN E = 1 .. 3
      /\ E[1] = Instr("DIVIDE", quotient, instr.op1, instr.op2)
      /\ E[2] = Instr("MULTIPLY", product, quotient, instr.op2)
      /\ E[3] = Instr("SUBTRACT", res, instr.op1, product)
  BY <1>1, Segments DEF r
<1>3. quotient \in Fresh /\ product \in Fresh /\ quotient # product
  BY FreshNames
<1> HIDE DEF quotient, product
<1>4. /\ res \in Known /\ instr.op2 \in Known \cup Constants
      /\ instr.op1 \in Known \cup Constants \cup ({"dyn"} \X Known)
      /\ instr = Instr("MODULO", res, instr.op1, instr.op2)
      /\ {"MODULO", "DIVIDE", "MULTIPLY", "SUBTRACT"} \subseteq Binary
  BY Forms DEF Allowed, Binary, Values
<1>5. /\ instr.op1 \notin {quotient, product} /\ instr.op2 \notin {quotient, product}
      /\ \A z \in Fresh \cup Known : z[1] \notin {"const", "dyn"}
  BY <1>3, <1>4, FreshNames
<1> HIDE DEF res, x, y
<1>6. Do(Unknown, instr) = Set(Unknown, res, term)
  <2>1. Do(Unknown, instr) = Set(Unknown, res, Apply("MODULO", x, y))
    BY <1>4, Operating DEF x, y
  <2> QED
    BY <2>1, Applying
<1>7. Do(Unknown, E[1]) = s1
  <2>1. Do(Unknown, E[1]) = Set(Unknown, quotient, Apply("DIVIDE", x, y))
    BY <1>2, <1>4, Operating DEF x, y
  <2> QED
    BY <2>1, Applying
<1> HIDE DEF q
<1>8. IsState(s1) /\ Value(s1, quotient) = q /\ Value(s1, instr.op1) = x /\ Value(s1, instr.op2) = y
  BY <1>3, <1>5, UnknownAgrees, SetFields, ValueOfSet DEF x, y
<1>9. Do(s1, E[2]) = s2
  <2>1. Do(s1, E[2]) = Set(s1, product, Apply("MULTIPLY", q, y))
    BY <1>2, <1>4, <1>8, Operating
  <2> QED
    BY <2>1, Applying
<1>10. Value(s2, product) = Product(q, y) /\ Value(s2, instr.op1) = x
  BY <1>3, <1>5, <1>8, SetFields, ValueOfSet
<1>11. Do(s2, E[3]) = Set(s2, res, term)
  <2>1. Do(s2, E[3]) = Set(s2, res, Apply("SUBTRACT", x, Product(q, y)))
    BY <1>2, <1>4, <1>10, Operating
  <2> QED
    BY <2>1, Applying
<1>12. Meaning(Unknown, E) = Set(s2, res, term)
  BY <1>2, <1>7, <1>9, <1>11, Meanings
<1>13. Agree(Unknown, s2, Fresh)
  BY <1>3, <1>5, UnknownAgrees, AgreeAside
<1> HIDE DEF s2, term
<1> QED
  BY <1>4, <1>5, <1>6, <1>12, <1>13, AgreeOnSet

(* MakeTwoOperandCompatible: the result serves as the first operand, which  *)
(* is right as it is not the second.                                        *)
LEMMA TwoOperandsMean ==
  ASSUME created \in Nat, NEW instr \in Allowed(Known), NeedsTwoOperandForm(instr),
         NEW E, IsSegment(E, MakeTwoOperandCompatible(instr))
  PROVE  Agree(Do(Unknown, instr), Meaning(Unknown, E), Fresh)
<1> DEFINE r == MakeTwoOperandCompatible(instr)
           res == instr.result
           x == Value(Unknown, instr.op1)
           y == Value(Unknown, instr.op2)
           s == Set(Unknown, res, x)
<1>1. r.before = <<Move(res, instr.op1)>> /\ r.after = <<>> /\ r.instr = [instr EXCEPT !.op1 = res]
  BY DEF MakeTwoOperandCompatible
<1> HIDE DEF r
<1>2. DOMAIN E = 1 .. 2 /\ E[1] = Move(res, instr.op1) /\ E[2] = r.instr
  BY <1>1, Segments DEF r
<1>3. instr \in Lowered(Known) /\ instr = Instr(instr.type, res, instr.op1, instr.op2) /\ ResultIsNew(instr)
  BY Forms DEF Allowed
<1>4. r.instr = Instr(instr.type, res, res, instr.op2)
  BY <1>1, <1>3 DEF Instr
<1>5. instr.type = "NEGATE" \/ instr.type \in Binary
  BY NeededTwice
<1>6. res \in Known /\ res[1] \notin {"const", "dyn"} /\ (instr.type \in Binary => res # instr.op2)
  <2>1. res \in Known
    BY <1>3, <1>5, Forms DEF Unary
  <2> QED
    BY <1>3, <2>1, FreshNames DEF ResultIsNew
<1> HIDE DEF res, x, y
<1>7. Do(Unknown, E[1]) = s
  BY <1>2, Moving DEF x
<1>8. IsState(s) /\ Value(s, res) = x /\ (instr.type \in Binary => Value(s, instr.op2) = y)
  BY <1>6, UnknownAgrees, SetFields, ValueOfSet DEF y
<1>9. PICK term : Do(Unknown, instr) = Set(Unknown, res, term) /\ Do(s, E[2]) = Set(s, res, term)
  <2>1. CASE instr.type \in Binary
    <3>1. Do(Unknown, instr) = Set(Unknown, res, Apply(instr.type, x, y))
      BY <1>3, <2>1, Operating DEF x, y
    <3>2. Do(s, E[2]) = Set(s, res, Apply(instr.type, x, y))
      BY <1>2, <1>4, <1>8, <2>1, Operating
    <3> QED
      BY <3>1, <3>2
  <2>2. CASE instr.type = "NEGATE"
    <3>1. "NEGATE" \in Computes /\ "NEGATE" \in Unary
      BY DEF Computes, Unary
    <3>2. Do(Unknown, instr) = Set(Unknown, res, <<"NEGATE", x>>)
      BY <2>2, <3>1, Doing, Computing DEF x, res
    <3>3. r.instr.type = "NEGATE" /\ r.instr.result = res /\ r.instr.op1 = res
      BY <1>4, <2>2 DEF Instr
    <3>4. Do(s, r.instr) = Set(s, r.instr.result, Computed(s, r.instr)) /\ Computed(s, r.instr) = <<"NEGATE", x>>
      BY <1>8, <3>1, <3>3, Doing, Computing
    <3> QED
      BY <1>2, <3>2, <3>3, <3>4
  <2> QED
    BY <1>5, <2>1, <2>2
<1>10. Meaning(Unknown, E) = Set(s, res, term)
  BY <1>2, <1>7, <1>9, Meanings
<1>11. /\ IsState(Set(Unknown, res, term)) /\ IsState(Set(s, res, term))
       /\ Set(Unknown, res, term).args = Set(s, res, term).args
       /\ Set(Unknown, res, term).calls = Set(s, res, term).calls
  BY <1>8, UnknownAgrees, SetFields
<1>12. \A z : Value(Set(Unknown, res, term), z) = Value(Set(s, res, term), z)
  BY <1>6, <1>8, UnknownAgrees, ValueOfSet
<1> QED
  BY <1>9, <1>10, <1>11, <1>12 DEF Agree

(* The instructions without an effect on values.                            *)
Idle == {"JUMP", "DEFINE_LABEL", "JUMP_IF_ZERO", "NOP", "FUNCTION_BEGIN"}

(* Every instruction computes, stores, calls or does nothing.               *)
LEMMA Types ==
  ASSUME NEW refs, NEW instr \in Lowered(refs)
  PROVE  \/ instr.type \in Computes /\ instr.result \in refs
         \/ instr.type \in {"STORE_GLOBAL", "STORE_MEMORY", "STORE_PARAMETER", "CALL", "RETURN"}
         \/ instr.type \in Idle
BY SMTT(60) DEF Lowered, Emitted, Form, Computes, Unary, Binary, Comparison, Idle

(* The operands of an instruction are no new references.                    *)
LEMMA OldNames ==
  ASSUME created \in Nat, NEW instr \in Allowed(Known)
  PROVE  instr.result \notin Fresh /\ instr.op1 \notin Fresh /\ instr.op2 \notin Fresh
<1>1. Fresh \subseteq References
  BY NewReferences DEF Fresh
<1>2. \A x \in Fresh : x \notin Known /\ x \notin Constants /\ x \notin {"dyn"} \X Known
                       /\ x \notin Labels /\ x \notin GlobalReferences /\ x # None
  BY <1>1, FreshNames, KindsDiffer
<1>3. /\ instr.result \in Known \cup {None}
      /\ instr.op1 \in Known \cup Constants \cup ({"dyn"} \X Known) \cup Labels \cup GlobalReferences \cup {None}
      /\ instr.op2 \in Known \cup Constants \cup Labels \cup {None}
  BY DEF Allowed, Lowered, Emitted, Form
<1> QED
  BY <1>2, <1>3

(* Nothing is known of the memory that an unknown address names.            *)
LEMMA UnknownCell ==
  ASSUME created \in Nat, NEW x \in Values(Known)
  PROVE  Cell(Value(Unknown, x))[1] = "cell" /\ Cell(Value(Unknown, x)) \notin Fresh
<1>1. Value(Unknown, x)[1] # "&"
  <2>1. Known \subseteq References
    BY NewReferences
  <2>2. CASE x \in Known
    <3>1. Value(Unknown, x) = <<"in", x>>
      BY <2>1, <2>2, ValuesOfUnknown
    <3> QED
      BY <3>1
  <2>3. CASE x \in Constants
    BY <2>3, ValuesOfUnknown, Kinds
  <2> QED
    BY <2>2, <2>3 DEF Values
<1>2. Cell(Value(Unknown, x)) = <<"cell", Value(Unknown, x)>>
  BY <1>1 DEF Cell
<1>3. Cell(Value(Unknown, x))[1] = "cell"
  BY <1>2
<1>4. \A y \in Fresh : y[1] = "ref"
  BY NewReferences, Kinds DEF Fresh
<1> QED
  BY <1>3, <1>4

(* Storing an argument and returning leave the values.                      *)
LEMMA Extended ==
  ASSUME NEW s, IsState(s), NEW term
  PROVE  /\ IsState(WithArgument(s, term)) /\ WithArgument(s, term).value = s.value
         /\ WithArgument(s, term).args = Append(s.args, term) /\ WithArgument(s, term).calls = s.calls
         /\ IsState(Returned(s, term)) /\ Returned(s, term).value = s.value
         /\ Returned(s, term).calls = Append(s.calls, <<<<"label", "return">>, <<term>>>>)
         /\ Returned(s, term).args = s.args
<1> DEFINE more == Append(s.args, term)
           done == Append(s.calls, <<<<"label", "return">>, <<term>>>>)
<1>1. WithArgument(s, term) = [s EXCEPT !.args = more] /\ Returned(s, term) = [s EXCEPT !.calls = done]
  BY DEF WithArgument, Returned, IsState
<1> HIDE DEF more, done
<1>2. /\ WithArgument(s, term) = [value |-> s.value, args |-> more, calls |-> s.calls]
      /\ Returned(s, term) = [value |-> s.value, args |-> s.args, calls |-> done]
  BY <1>1 DEF IsState
<1> QED
  BY <1>2 DEF IsState, more, done

(* Two instructions of one type do the same if their operands have the same *)
(* values.                                                                  *)
LEMMA SameEffect ==
  ASSUME created \in Nat, NEW instr \in Allowed(Known),
         instr.type \notin {"MOVE", "CALL", "LOAD_PARAMETER", "ADDRESS_OF"},
         NEW t, Agree(Unknown, t, Fresh), NEW other, other.type = instr.type, other.result = instr.result,
         Value(t, other.op1) = Value(Unknown, instr.op1), Value(t, other.op2) = Value(Unknown, instr.op2),
         instr.type \in {"LOAD_GLOBAL", "STORE_GLOBAL"} => other.op1 = instr.op1
  PROVE  Agree(Do(Unknown, instr), Do(t, other), Fresh)
<1> DEFINE x == Value(Unknown, instr.op1)
           y == Value(Unknown, instr.op2)
<1>1. instr \in Lowered(Known)
  BY DEF Allowed
<1>2. IsState(t) /\ t.args = Unknown.args /\ t.calls = Unknown.calls /\ IsState(Unknown)
  BY DEF Agree
<1>3. CASE instr.type \in Computes /\ instr.result \in Known
  <2>1. instr.result[1] \notin {"const", "dyn"}
    BY <1>3, FreshNames
  <2>2. Do(Unknown, instr) = Set(Unknown, instr.result, Computed(Unknown, instr))
    BY <1>3, Doing
  <2>3. Do(t, other) = Set(t, instr.result, Computed(t, other))
    BY <1>3, Doing
  <2>4. CASE instr.type = "LOAD_GLOBAL" \/ instr.type = "SET_LIVE" \/ instr.type \in Unary \/ instr.type \in Binary
    <3> HIDE DEF x, y
    <3>1. Computed(t, other) = Computed(Unknown, instr)
      <4>1. CASE instr.type = "LOAD_GLOBAL"
        BY <4>1, Computing
      <4>2. CASE instr.type = "SET_LIVE"
        BY <4>2, Computing
      <4>3. CASE instr.type \in Unary
        BY <4>3, Computing
      <4>4. CASE instr.type \in Binary
        BY <4>4, Computing
      <4> QED
        BY <2>4, <4>1, <4>2, <4>3, <4>4
    <3> QED
      BY <2>1, <2>2, <2>3, <3>1, AgreeOnSet
  <2>5. CASE instr.type = "LOAD_MEMORY"
    <3>1. instr.op1 \in Values(Known)
      BY <1>1, <2>5, Forms
    <3>2. Computed(Unknown, instr) = Value(Unknown, Cell(x)) /\ Computed(t, other) = Value(t, Cell(x))
      BY <2>5, Computing
    <3>3. Cell(x) \notin Fresh
      BY <3>1, UnknownCell
    <3>4. Value(Unknown, Cell(x)) = Value(t, Cell(x))
      BY <3>3 DEF Agree
    <3> QED
      BY <2>1, <2>2, <2>3, <3>2, <3>4, AgreeOnSet
  <2> QED
    BY <1>3, <2>4, <2>5 DEF Computes
<1>4. CASE instr.type = "STORE_GLOBAL"
  <2>1. instr.op1[1] \notin {"const", "dyn"}
    BY <1>1, <1>4, Forms, Kinds
  <2>2. Do(Unknown, instr) = Set(Unknown, instr.op1, y) /\ Do(t, other) = Set(t, instr.op1, y)
    BY <1>4, Doing
  <2> HIDE DEF y
  <2> QED
    BY <2>1, <2>2, AgreeOnSet
<1>5. CASE instr.type = "STORE_MEMORY"
  <2>1. instr.op1 \in Values(Known)
    BY <1>1, <1>5, Forms
  <2>2. Cell(x)[1] \notin {"const", "dyn"}
    BY <2>1, UnknownCell
  <2>3. Do(Unknown, instr) = Set(Unknown, Cell(x), y) /\ Do(t, other) = Set(t, Cell(x), y)
    BY <1>5, Doing
  <2> HIDE DEF x, y
  <2> QED
    BY <2>2, <2>3, AgreeOnSet
<1>6. CASE instr.type = "STORE_PARAMETER"
  <2>1. Do(Unknown, instr) = WithArgument(Unknown, x) /\ Do(t, other) = WithArgument(t, x)
    BY <1>6, Doing
  <2> HIDE DEF x
  <2>2. \A z : Value(WithArgument(Unknown, x), z) = Value(Unknown, z) /\ Value(WithArgument(t, x), z) = Value(t, z)
    BY <1>2, Extended DEF Value
  <2>3. IsState(WithArgument(Unknown, x)) /\ IsState(WithArgument(t, x))
    BY <1>2, Extended
  <2>4. WithArgument(Unknown, x).calls = WithArgument(t, x).calls
    BY <1>2, Extended
  <2>5. WithArgument(Unknown, x).args = WithArgument(t, x).args
    <3>1. WithArgument(Unknown, x).args = Append(Unknown.args, x) /\ WithArgument(t, x).args = Append(t.args, x)
      BY <1>2, Extended
    <3>2. Append(Unknown.args, x) = Append(t.args, x)
      BY <1>2, Zenon
    <3> QED
      BY <3>1, <3>2, Zenon
  <2> QED
    BY <2>1, <2>2, <2>3, <2>4, <2>5 DEF Agree
<1>7. CASE instr.type = "RETURN"
  <2>1. Do(Unknown, instr) = Returned(Unknown, x) /\ Do(t, other) = Returned(t, x)
    BY <1>7, Doing
  <2> HIDE DEF x
  <2>2. \A z : Value(Returned(Unknown, x), z) = Value(Unknown, z) /\ Value(Returned(t, x), z) = Value(t, z)
    BY <1>2, Extended DEF Value
  <2>3. IsState(Returned(Unknown, x)) /\ IsState(Returned(t, x))
    BY <1>2, Extended
  <2>4. Returned(Unknown, x).args = Returned(t, x).args
    BY <1>2, Extended
  <2>5. Returned(Unknown, x).calls = Returned(t, x).calls
    <3>1. Returned(Unknown, x).calls = Append(Unknown.calls, <<<<"label", "return">>, <<x>>>>)
          /\ Returned(t, x).calls = Append(t.calls, <<<<"label", "return">>, <<x>>>>)
      BY <1>2, Extended
    <3>2. Append(Unknown.calls, <<<<"label", "return">>, <<x>>>>)
          = Append(t.calls, <<<<"label", "return">>, <<x>>>>)
      BY <1>2, Zenon
    <3> QED
      BY <3>1, <3>2, Zenon
  <2> QED
    BY <2>1, <2>2, <2>3, <2>4, <2>5 DEF Agree
<1>8. CASE instr.type \in Idle
  BY <1>8, Doing DEF Idle
<1> QED
  BY <1>1, <1>3, <1>4, <1>5, <1>6, <1>7, <1>8, Types

(* Two sequences of one make one of two.                                    *)
LEMMA Pair ==
  ASSUME NEW l, NEW m
  PROVE  <<l>> \o <<m>> = <<l, m>>
<1>1. <<l>> \in Seq({l, m}) /\ <<m>> \in Seq({l, m}) /\ <<l, m>> \in Seq({l, m})
  OBVIOUS
<1> DEFINE both == <<l>> \o <<m>>
<1>2. both \in Seq({l, m}) /\ Len(both) = 2 /\ both[1] = l /\ both[1 + 1] = m
  <2>1. Len(<<l>>) = 1 /\ Len(<<m>>) = 1 /\ <<l>>[1] = l /\ <<m>>[1] = m
    OBVIOUS
  <2> QED
    BY <1>1, <2>1, Joined
<1>3. Len(<<l, m>>) = 2 /\ \A i \in 1 .. 2 : <<l, m>>[i] = IF i = 1 THEN l ELSE m
  OBVIOUS
<1> HIDE DEF both
<1>4. both = <<l, m>>
  BY <1>1, <1>2, <1>3, SeqEqual
<1> QED
  BY <1>4 DEF both

(* MoveConstantsToReferences: the operands have their values by way of new  *)
(* references.                                                              *)
LEMMA ConstantsMean ==
  ASSUME created \in Nat, NEW instr \in Allowed(Known),
         instr.type \notin {"MOVE", "CALL", "LOAD_PARAMETER", "ADDRESS_OF"},
         NEW E, IsSegment(E, MoveConstantsToReferences(instr))
  PROVE  Agree(Do(Unknown, instr), Meaning(Unknown, E), Fresh)
<1> DEFINE c1 == New("constant", 1)
           c2 == New("constant", 2)
           first == IsConstant(instr.op1)
           second == IsConstant(instr.op2)
           a == IF first THEN c1 ELSE instr.op1
           b == IF second THEN c2 ELSE instr.op2
           x == Value(Unknown, instr.op1)
           y == Value(Unknown, instr.op2)
           s1 == Set(Unknown, c1, x)
           s2 == Set(Unknown, c2, y)
           s12 == Set(s1, c2, y)
           r == MoveConstantsToReferences(instr)
<1>1. c1 \in Fresh /\ c2 \in Fresh /\ c1 # c2
  BY FreshNames
<1> HIDE DEF c1, c2
<1>2. /\ r.before = (IF first THEN <<Move(c1, instr.op1)>> ELSE <<>>)
                    \o (IF second THEN <<Move(c2, instr.op2)>> ELSE <<>>)
      /\ r.after = <<>>
      /\ r.instr = [instr EXCEPT !.op1 = IF first THEN c1 ELSE @, !.op2 = IF second THEN c2 ELSE @]
  BY DEF MoveConstantsToReferences, c1, c2
<1> HIDE DEF r
<1>3. instr = Instr(instr.type, instr.result, instr.op1, instr.op2)
  BY Forms DEF Allowed
<1>4. r.instr = Instr(instr.type, instr.result, a, b)
  BY <1>2, <1>3 DEF Instr
<1>5. instr.op1 \notin Fresh /\ instr.op2 \notin Fresh
  BY OldNames
<1>6. c1[1] \notin {"const", "dyn"} /\ c2[1] \notin {"const", "dyn"}
  BY <1>1, FreshNames
<1>7. /\ r.instr.type = instr.type /\ r.instr.result = instr.result
      /\ r.instr.op1 = a /\ r.instr.op2 = b
  BY <1>4 DEF Instr
<1>8. instr.type \in {"LOAD_GLOBAL", "STORE_GLOBAL"} => a = instr.op1
  <2>1. instr.type \in {"LOAD_GLOBAL", "STORE_GLOBAL"} => instr.op1 \in GlobalReferences
    BY Forms DEF Allowed
  <2> QED
    BY <2>1, KindsDiffer
<1>9. /\ IsState(s1) /\ IsState(s2) /\ IsState(s12)
      /\ \A z : Value(s1, z) = IF z = c1 THEN x ELSE Value(Unknown, z)
      /\ \A z : Value(s2, z) = IF z = c2 THEN y ELSE Value(Unknown, z)
      /\ \A z : Value(s12, z) = IF z = c2 THEN y ELSE Value(s1, z)
  <2> HIDE DEF x, y
  <2> QED
    BY <1>6, UnknownAgrees, SetFields, ValueOfSet
<1>10. /\ Agree(Unknown, s1, Fresh) /\ Agree(Unknown, s2, Fresh) /\ Agree(Unknown, s12, Fresh)
       /\ Agree(Unknown, Unknown, Fresh)
  <2> HIDE DEF x, y
  <2> QED
    BY <1>1, <1>6, UnknownAgrees, AgreeAside
<1>11. /\ Do(Unknown, Move(c1, instr.op1)) = s1 /\ Do(Unknown, Move(c2, instr.op2)) = s2
       /\ Do(s1, Move(c2, instr.op2)) = s12
  <2>1. Value(s1, instr.op2) = y
    BY <1>1, <1>5, <1>9
  <2> QED
    BY <2>1, Moving
<1> HIDE DEF first, second, s1, s2, s12, x, y
<1>12. PICK t : /\ Agree(Unknown, t, Fresh) /\ Value(t, a) = x /\ Value(t, b) = y
                /\ Meaning(Unknown, E) = Do(t, r.instr)
  <2>1. CASE first /\ second
    <3>1. r.before = <<Move(c1, instr.op1), Move(c2, instr.op2)>>
      <4>1. r.before = <<Move(c1, instr.op1)>> \o <<Move(c2, instr.op2)>>
        BY <1>2, <2>1
      <4> QED
        BY <4>1, Pair
    <3>2. DOMAIN E = 1 .. 3 /\ E[1] = Move(c1, instr.op1) /\ E[2] = Move(c2, instr.op2) /\ E[3] = r.instr
      BY <1>2, <3>1, Segments DEF r
    <3>3. Meaning(Unknown, E) = Do(s12, r.instr)
      BY <1>11, <3>2, Meanings
    <3>4. Value(s12, a) = x /\ Value(s12, b) = y
      BY <1>1, <1>9, <2>1
    <3> QED
      BY <1>10, <3>3, <3>4
  <2>2. CASE first /\ ~second
    <3>1. r.before = <<Move(c1, instr.op1)>>
      BY <1>2, <2>2
    <3>2. DOMAIN E = 1 .. 2 /\ E[1] = Move(c1, instr.op1) /\ E[2] = r.instr
      BY <1>2, <3>1, Segments DEF r
    <3>3. Meaning(Unknown, E) = Do(s1, r.instr)
      BY <1>11, <3>2, Meanings
    <3>4. Value(s1, a) = x /\ Value(s1, b) = y
      BY <1>1, <1>5, <1>9, <2>2 DEF y
    <3> QED
      BY <1>10, <3>3, <3>4
  <2>3. CASE ~first /\ second
    <3>1. r.before = <<Move(c2, instr.op2)>>
      BY <1>2, <2>3
    <3>2. DOMAIN E = 1 .. 2 /\ E[1] = Move(c2, instr.op2) /\ E[2] = r.instr
      BY <1>2, <3>1, Segments DEF r
    <3>3. Meaning(Unknown, E) = Do(s2, r.instr)
      BY <1>11, <3>2, Meanings
    <3>4. Value(s2, a) = x /\ Value(s2, b) = y
      BY <1>1, <1>5, <1>9, <2>3 DEF x
    <3> QED
      BY <1>10, <3>3, <3>4
  <2>4. CASE ~first /\ ~second
    <3>1. r.before = <<>>
      BY <1>2, <2>4
    <3>2. DOMAIN E = 1 .. 1 /\ E[1] = r.instr
      BY <1>2, <3>1, Segments DEF r
    <3>3. Meaning(Unknown, E) = Do(Unknown, r.instr)
      BY <3>2, Meanings
    <3>4. Value(Unknown, a) = x /\ Value(Unknown, b) = y
      BY <2>4 DEF x, y
    <3> QED
      BY <1>10, <3>3, <3>4
  <2> QED
    BY <2>1, <2>2, <2>3, <2>4
<1> HIDE DEF a, b
<1>13. /\ Value(t, r.instr.op1) = Value(Unknown, instr.op1) /\ Value(t, r.instr.op2) = Value(Unknown, instr.op2)
       /\ instr.type \in {"LOAD_GLOBAL", "STORE_GLOBAL"} => r.instr.op1 = instr.op1
  BY <1>7, <1>8, <1>12 DEF x, y
<1>14. Agree(Do(Unknown, instr), Do(t, r.instr), Fresh)
  BY <1>7, <1>12, <1>13, SameEffect
<1> QED
  BY <1>12, <1>14

(* An instruction of the function does nothing to a reference that is new   *)
(* after it.                                                                *)
LEMMA EffectsAreOld ==
  ASSUME created \in Nat, NEW instr \in Allowed(Known)
  PROVE  DOMAIN Do(Unknown, instr).value \cap Fresh = {}
<1>1. instr \in Lowered(Known)
  BY DEF Allowed
<1>2. instr.result \notin Fresh /\ instr.op1 \notin Fresh
  BY OldNames
<1>3. \A x, term : DOMAIN Set(Unknown, x, term).value = {x}
  BY UnknownAgrees, SetFields
<1>4. CASE instr.type \in Computes
  <2>1. Do(Unknown, instr) = Set(Unknown, instr.result, Computed(Unknown, instr))
    BY <1>4, Doing
  <2> QED
    BY <1>2, <1>3, <2>1
<1>5. CASE instr.type = "STORE_GLOBAL"
  <2>1. Do(Unknown, instr) = Set(Unknown, instr.op1, Value(Unknown, instr.op2))
    BY <1>5, Doing
  <2> QED
    BY <1>2, <1>3, <2>1
<1>6. CASE instr.type = "STORE_MEMORY"
  <2>1. Do(Unknown, instr) = Set(Unknown, Cell(Value(Unknown, instr.op1)), Value(Unknown, instr.op2))
    BY <1>6, Doing
  <2>2. Cell(Value(Unknown, instr.op1)) \notin Fresh
    BY <1>1, <1>6, Forms, UnknownCell
  <2> QED
    BY <1>3, <2>1, <2>2
<1>7. CASE instr.type = "STORE_PARAMETER"
  <2>1. Do(Unknown, instr) = WithArgument(Unknown, Value(Unknown, instr.op1))
    BY <1>7, Doing
  <2>2. \A term : WithArgument(Unknown, term).value = Unknown.value
    BY DEF WithArgument, Unknown
  <2> QED
    BY <2>1, <2>2, UnknownAgrees
<1>8. CASE instr.type = "RETURN"
  <2>1. Do(Unknown, instr) = Returned(Unknown, Value(Unknown, instr.op1))
    BY <1>8, Doing
  <2>2. \A term : Returned(Unknown, term).value = Unknown.value
    BY DEF Returned, Unknown
  <2> QED
    BY <2>1, <2>2, UnknownAgrees
<1>9. CASE instr.type = "CALL"
  <2> DEFINE s == Called(Unknown, instr.op1, instr.op2[2])
  <2>1. Do(Unknown, instr) = Set(s, instr.result, Outcome(s))
    BY <1>9, Doing DEF WithResult
  <2>2. IsState(s) /\ s.value = Unknown.value
    BY CalledState
  <2> HIDE DEF s
  <2>3. DOMAIN Set(s, instr.result, Outcome(s)).value = {instr.result}
    BY <2>2, UnknownAgrees, SetFields
  <2> QED
    BY <1>2, <2>1, <2>3
<1>10. CASE instr.type \in Idle
  BY <1>10, Doing, UnknownAgrees DEF Idle
<1> QED
  BY <1>1, <1>4, <1>5, <1>6, <1>7, <1>8, <1>9, <1>10, Types

(* Every rewriting leaves the effect of the instruction, but for new        *)
(* references.                                                              *)
LEMMA RewritingMeans ==
  ASSUME Shaped, PassesDone, AtInstruction, NEW instr, instr = code[position], Applies(instr),
         NEW E, IsSegment(E, Rewritten(instr))
  PROVE  Agree(Do(Unknown, instr), Meaning(Unknown, E), Fresh)
<1>1. /\ created \in Nat /\ instr \in Allowed(Known)
      /\ \A name \in Earliest : Establishes(name, instr)
  BY EarlierPasses DEF Shaped
<1>2. arch \in {"x86_64", "AArch64"} /\ pass \in 1 .. Len(PassList)
  BY DEF Shaped
<1>3. CASE PassList[pass] = "divisions"
  <2>1. instr.type = "DIVIDE" /\ Rewritten(instr) = SeperateDivReferences(instr)
    BY <1>3 DEF Applies, Rewritten
  <2> QED
    BY <1>1, <2>1, DivisionMeans
<1>4. CASE PassList[pass] = "calls"
  <2>1. instr.type = "CALL" /\ Rewritten(instr) = SeperateCallResults(instr)
    BY <1>4 DEF Applies, Rewritten
  <2> QED
    BY <1>1, <2>1, CallMeans
<1>5. CASE PassList[pass] = "parameters"
  <2>1. instr.type = "LOAD_PARAMETER" /\ Rewritten(instr) = SeparateLoadParameters(instr)
    BY <1>5 DEF Applies, Rewritten
  <2> QED
    BY <1>1, <2>1, ParameterMeans
<1>6. CASE PassList[pass] = "addresses"
  <2>1. instr.type = "ADDRESS_OF" /\ Rewritten(instr) = ResolveAddressOf(instr)
    BY <1>6 DEF Applies, Rewritten
  <2> QED
    BY <1>1, <2>1, AddressMeans
<1>7. CASE PassList[pass] = "constants"
  <2>1. instr.type \notin {"MOVE", "CALL", "LOAD_PARAMETER"} /\ Rewritten(instr) = MoveConstantsToReferences(instr)
    BY <1>7 DEF Applies, Rewritten
  <2>2. "addresses" \in Earliest
    BY <1>2, <1>7, PassOrder
  <2>3. Establishes("addresses", instr)
    BY <1>1, <2>2
  <2>4. instr.type # "ADDRESS_OF"
    BY <2>3 DEF Establishes
  <2> QED
    BY <1>1, <2>1, <2>4, ConstantsMean
<1>8. CASE PassList[pass] = "two operands"
  <2>1. NeedsTwoOperandForm(instr) /\ Rewritten(instr) = MakeTwoOperandCompatible(instr)
    BY <1>8 DEF Applies, Rewritten
  <2> QED
    BY <1>1, <2>1, TwoOperandsMean
<1>9. CASE PassList[pass] = "modulo"
  <2>1. instr.type = "MODULO" /\ Rewritten(instr) = ReplaceModWithDivMulSub(instr)
    BY <1>9 DEF Applies, Rewritten
  <2> QED
    BY <1>1, <2>1, ModuloMeans
<1> QED
  BY <1>2, <1>3, <1>4, <1>5, <1>6, <1>7, <1>8, <1>9, PassOrder DEF PassNames

(* The meaning of one instruction.                                          *)
LEMMA OneMeaning ==
  ASSUME NEW s, NEW instr
  PROVE  Meaning(s, <<instr>>) = Do(s, instr)
<1> DEFINE E == <<instr>>
<1>1. DOMAIN E = 1 .. 1 /\ E[1] = instr
  OBVIOUS
<1> HIDE DEF E
<1>2. Meaning(s, E) = Do(s, instr)
  BY <1>1, Meanings
<1> QED
  BY <1>2 DEF E

(* New references are none that the function names or the instruction       *)
(* changes, so the meaning is the same.                                     *)
LEMMA MeansTheSame ==
  ASSUME Shaped, PassesDone, AtInstruction, NEW instr, instr = code[position],
         NEW E, Agree(Do(Unknown, instr), Meaning(Unknown, E), Fresh)
  PROVE  SameMeaning(instr, E)
<1> DEFINE old == Do(Unknown, instr)
           new == Meaning(Unknown, E)
<1>1. created \in Nat /\ instr \in Allowed(Known)
  BY EarlierPasses DEF Shaped
<1>2. OldOperands \cap Fresh = {}
  <2> SUFFICES ASSUME NEW i \in Positions(code), NEW x \in {code[i].result, code[i].op1, code[i].op2}
               PROVE  x \notin Fresh
    BY DEF OldOperands
  <2>1. code[i] \in Allowed(Known)
    BY DEF Shaped, Allowed, Positions
  <2>2. PICK y : y = code[i]
    OBVIOUS
  <2>3. y.result \notin Fresh /\ y.op1 \notin Fresh /\ y.op2 \notin Fresh
    BY <1>1, <2>1, <2>2, OldNames
  <2> QED
    BY <2>2, <2>3
<1>3. DOMAIN old.value \cap Fresh = {}
  BY <1>1, EffectsAreOld
<1>4. Meaning(Unknown, <<instr>>) = old
  BY OneMeaning
<1> HIDE DEF old, new
<1>5. \A x \in OldOperands \cup DOMAIN old.value : Value(old, x) = Value(new, x)
  BY <1>2, <1>3 DEF Agree, old, new
<1>6. old.args = new.args /\ old.calls = new.calls
  BY DEF Agree, old, new
<1> QED
  BY <1>4, <1>5, <1>6 DEF SameMeaning, new

(* Parts of sequences, by where they begin and how long they are.           *)
InRange(S, s, m, n) == \A i \in 1 .. n : s[m + i - 1] \in S

(* The n elements from m on in s are those from k on in t.                  *)
Matches(s, m, t, k, n) == \A i \in 1 .. n : t[k + i - 1] = s[m + i - 1]

(* x is the part of s of length n from m on.                                *)
IsSlice(S, x, s, m, n) == x \in Seq(S) /\ Len(x) = n /\ \A i \in 1 .. n : x[i] = s[m + i - 1]

(* What SubSeq makes.                                                       *)
LEMMA Slice ==
  ASSUME NEW S, NEW s, NEW m \in Int, NEW n \in Nat, InRange(S, s, m, n)
  PROVE  IsSlice(S, SubSeq(s, m, m + n - 1), s, m, n)
<1> DEFINE k == m + n - 1
           x == SubSeq(s, m, k)
<1>1. k \in Int /\ k - m + 1 = n /\ (m <= k <=> n > 0)
  OBVIOUS
<1>2. \A i \in m .. k : s[i] \in S
  <2> SUFFICES ASSUME NEW i \in m .. k PROVE s[i] \in S
    OBVIOUS
  <2>1. i - m + 1 \in 1 .. n /\ m + (i - m + 1) - 1 = i
    OBVIOUS
  <2> QED
    BY <2>1 DEF InRange
<1> HIDE DEF k
<1>3. /\ x \in Seq(S) /\ Len(x) = IF m <= k THEN k - m + 1 ELSE 0
      /\ \A i \in 1 .. k - m + 1 : x[i] = s[m + i - 1]
  BY <1>1, <1>2, SubSeqProperties
<1> HIDE DEF x
<1>4. Len(x) = n /\ \A i \in 1 .. n : x[i] = s[m + i - 1]
  BY <1>1, <1>3
<1>5. IsSlice(S, x, s, m, n)
  BY <1>3, <1>4 DEF IsSlice
<1> QED
  BY <1>5 DEF x, k

(* Where two sequences match, their parts are equal.                        *)
LEMMA SameSlices ==
  ASSUME NEW S, NEW s, NEW t, NEW m \in Int, NEW k \in Int, NEW n \in Nat,
         InRange(S, s, m, n), Matches(s, m, t, k, n)
  PROVE  SubSeq(s, m, m + n - 1) = SubSeq(t, k, k + n - 1)
<1> DEFINE x == SubSeq(s, m, m + n - 1)
           y == SubSeq(t, k, k + n - 1)
<1>1. InRange(S, t, k, n)
  BY DEF InRange, Matches
<1>2. IsSlice(S, x, s, m, n) /\ IsSlice(S, y, t, k, n)
  BY <1>1, Slice
<1> HIDE DEF x, y
<1>3. \A i \in 1 .. Len(x) : x[i] = y[i]
  BY <1>2 DEF IsSlice, Matches
<1>4. x \in Seq(S) /\ y \in Seq(S) /\ Len(x) = Len(y)
  BY <1>2 DEF IsSlice
<1>5. x = y
  BY <1>3, <1>4, SeqEqual
<1> QED
  BY <1>5 DEF x, y

(* Before and behind p, d is like c.                                        *)
SplicedLike(S, c, d, n, l, m, p) ==
  /\ \A i \in 1 .. n + l + m : d[i] \in S
  /\ \A i \in 1 .. p - 1 : d[i] = c[i]
  /\ \A i \in p + 1 .. n : d[i + l + m] = c[i]

(* The three parts of the function after a rewriting.                       *)
Sliced(S, c, d, n, l, m, p) ==
  /\ SubSeq(d, 1, p - 1) = SubSeq(c, 1, p - 1)
  /\ SubSeq(d, p + l + m + 1, n + l + m) = SubSeq(c, p + 1, n)
  /\ IsSlice(S, SubSeq(d, p, p + l + m), d, p, l + 1 + m)

(* The parts before and behind are those of before.                         *)
LEMMA SplicedSlices ==
  ASSUME NEW S, NEW c, NEW d, NEW n \in Nat, NEW l \in Nat, NEW m \in Nat, NEW p \in 1 .. n,
         SplicedLike(S, c, d, n, l, m, p)
  PROVE  Sliced(S, c, d, n, l, m, p)
<1>1. SubSeq(d, 1, p - 1) = SubSeq(c, 1, p - 1)
  <2>1. p - 1 \in Nat /\ 1 + (p - 1) - 1 = p - 1
    OBVIOUS
  <2>2. InRange(S, d, 1, p - 1) /\ Matches(d, 1, c, 1, p - 1)
    <3> SUFFICES ASSUME NEW i \in 1 .. p - 1 PROVE d[1 + i - 1] \in S /\ c[1 + i - 1] = d[1 + i - 1]
      BY DEF InRange, Matches
    <3>1. 1 + i - 1 = i /\ i \in 1 .. n + l + m
      OBVIOUS
    <3> QED
      BY <3>1 DEF SplicedLike
  <2>3. SubSeq(d, 1, 1 + (p - 1) - 1) = SubSeq(c, 1, 1 + (p - 1) - 1)
    BY <2>1, <2>2, SameSlices
  <2> QED
    BY <2>1, <2>3
<1>2. SubSeq(d, p + l + m + 1, n + l + m) = SubSeq(c, p + 1, n)
  <2> DEFINE q == p + l + m + 1
             h == p + 1
             w == n - p
  <2>1. w \in Nat /\ q \in Int /\ h \in Int /\ q + w - 1 = n + l + m /\ h + w - 1 = n
    OBVIOUS
  <2>2. InRange(S, d, q, w) /\ Matches(d, q, c, h, w)
    <3> SUFFICES ASSUME NEW i \in 1 .. w PROVE d[q + i - 1] \in S /\ c[h + i - 1] = d[q + i - 1]
      BY DEF InRange, Matches
    <3>1. h + i - 1 \in p + 1 .. n /\ q + i - 1 = (h + i - 1) + l + m /\ q + i - 1 \in 1 .. n + l + m
      OBVIOUS
    <3> QED
      BY <3>1 DEF SplicedLike
  <2> HIDE DEF q, h, w
  <2>3. SubSeq(d, q, q + w - 1) = SubSeq(c, h, h + w - 1)
    BY <2>1, <2>2, SameSlices
  <2>4. SubSeq(d, q, n + l + m) = SubSeq(c, h, n)
    BY <2>1, <2>3
  <2> QED
    BY <2>4 DEF q, h
<1>3. IsSlice(S, SubSeq(d, p, p + l + m), d, p, l + 1 + m)
  <2> DEFINE w == l + 1 + m
  <2>1. w \in Nat /\ p \in Int /\ p + w - 1 = p + l + m
    OBVIOUS
  <2>2. InRange(S, d, p, w)
    <3> SUFFICES ASSUME NEW i \in 1 .. w PROVE d[p + i - 1] \in S
      BY DEF InRange
    <3>1. p + i - 1 \in 1 .. n + l + m
      OBVIOUS
    <3> QED
      BY <3>1 DEF SplicedLike
  <2> HIDE DEF w
  <2>3. IsSlice(S, SubSeq(d, p, p + w - 1), d, p, w)
    BY <2>1, <2>2, Slice
  <2> QED
    BY <2>1, <2>3 DEF w
<1> QED
  BY <1>1, <1>2, <1>3 DEF Sliced

(* What is needed of a splice for that.                                     *)
SplicedWell(S, c, p, b, a, d) ==
  /\ Len(c) \in Nat /\ Len(b) \in Nat /\ Len(a) \in Nat /\ p \in 1 .. Len(c)
  /\ Len(d) = Len(c) + Len(b) + Len(a)
  /\ SplicedLike(S, c, d, Len(c), Len(b), Len(a), p)

(* The insertion of RSIPass::operator() is such a splice.                   *)
LEMMA SplicedAgrees ==
  ASSUME NEW S, NEW c \in Seq(S), NEW p \in Positions(c), NEW b \in Seq(S), NEW a \in Seq(S), NEW x \in S
  PROVE  SplicedWell(S, c, p, b, a, Splice(c, p, b, x, a))
<1> DEFINE d == Splice(c, p, b, x, a)
<1>1. IsSplice(S, c, p, b, x, a)
  BY Spliced
<1>2. Len(c) \in Nat /\ Len(b) \in Nat /\ Len(a) \in Nat /\ p \in 1 .. Len(c) /\ Positions(c) = 1 .. Len(c)
  BY DEF Positions
<1>3. d \in Seq(S) /\ Len(d) = Len(c) + Len(b) + Len(a)
  BY <1>1 DEF IsSplice
<1>4. \A i \in Positions(c) \ {p} : d[Moved(p, b, a, i)] = c[i]
  BY <1>1 DEF IsSplice
<1> HIDE DEF d
<1>5. \A i \in 1 .. p - 1 : i \in Positions(c) \ {p} /\ Moved(p, b, a, i) = i
  BY <1>2 DEF Moved
<1>6. \A i \in p + 1 .. Len(c) : i \in Positions(c) \ {p} /\ Moved(p, b, a, i) = i + Len(b) + Len(a)
  BY <1>2 DEF Moved
<1>7. \A i \in 1 .. Len(c) + Len(b) + Len(a) : d[i] \in S
  BY <1>3
<1>8. \A i \in 1 .. p - 1 : d[i] = c[i]
  BY <1>4, <1>5
<1>9. \A i \in p + 1 .. Len(c) : d[i + Len(b) + Len(a)] = c[i]
  BY <1>4, <1>6
<1> QED
  BY <1>2, <1>3, <1>7, <1>8, <1>9 DEF SplicedLike, SplicedWell, d

(* A rewriting changes one place: the rest of the function is as it was.    *)
Segmentation(c, p, r, d) ==
  /\ SubSeq(d, 1, p - 1) = SubSeq(c, 1, p - 1)
  /\ IsSegment(SubSeq(d, p, p + Len(r.before) + Len(r.after)), r)
  /\ SubSeq(d, p + Len(r.before) + Len(r.after) + 1, Len(d)) = SubSeq(c, p + 1, Len(c))

(* That is what RSIPass::operator() does.                                   *)
LEMMA Segmented ==
  ASSUME NEW S, NEW c \in Seq(S), NEW p \in Positions(c), NEW r,
         r.before \in Seq(S), r.after \in Seq(S), r.instr \in S
  PROVE  Segmentation(c, p, r, Splice(c, p, r.before, r.instr, r.after))
<1> DEFINE d == Splice(c, p, r.before, r.instr, r.after)
           l == Len(r.before)
           m == Len(r.after)
           n == Len(c)
           E == SubSeq(d, p, p + l + m)
<1>1. /\ n \in Nat /\ l \in Nat /\ m \in Nat /\ p \in 1 .. n /\ Len(d) = n + l + m
      /\ SplicedLike(S, c, d, n, l, m, p)
  <2>1. SplicedWell(S, c, p, r.before, r.after, d)
    BY SplicedAgrees
  <2> QED
    BY <2>1 DEF SplicedWell
<1>2. /\ d[p + l] = r.instr
      /\ \A i \in 1 .. l : d[p - 1 + i] = r.before[i]
      /\ \A i \in 1 .. m : d[p + l + i] = r.after[i]
  <2>1. IsSplice(S, c, p, r.before, r.instr, r.after)
    BY Spliced
  <2> QED
    BY <2>1 DEF IsSplice, Positions
<1>3. Positions(r.before) = 1 .. l /\ Positions(r.after) = 1 .. m
  BY DEF Positions
<1> HIDE DEF d, l, m, n
<1>4. /\ SubSeq(d, 1, p - 1) = SubSeq(c, 1, p - 1)
      /\ SubSeq(d, p + l + m + 1, n + l + m) = SubSeq(c, p + 1, n)
      /\ IsSlice(S, E, d, p, l + 1 + m)
  <2>1. Sliced(S, c, d, n, l, m, p)
    BY <1>1, SplicedSlices
  <2> QED
    BY <2>1 DEF Sliced
<1> HIDE DEF E
<1>5. IsSegment(E, r)
  <2>1. \A i \in 1 .. l : i \in 1 .. l + 1 + m /\ p + i - 1 = p - 1 + i
    BY <1>1
  <2>2. l + 1 \in 1 .. l + 1 + m /\ p + (l + 1) - 1 = p + l
    BY <1>1
  <2>3. \A i \in 1 .. m : l + 1 + i \in 1 .. l + 1 + m /\ p + (l + 1 + i) - 1 = p + l + i
    BY <1>1
  <2>4. \A i \in 1 .. l : E[i] = r.before[i]
    BY <1>2, <1>4, <2>1 DEF IsSlice
  <2>5. E[l + 1] = r.instr
    BY <1>2, <1>4, <2>2 DEF IsSlice
  <2>6. \A i \in 1 .. m : E[l + 1 + i] = r.after[i]
    BY <1>2, <1>4, <2>3 DEF IsSlice
  <2>7. DOMAIN E = 1 .. l + 1 + m
    BY <1>4 DEF IsSlice
  <2> QED
    BY <1>3, <2>4, <2>5, <2>6, <2>7 DEF IsSegment, l, m
<1> QED
  BY <1>1, <1>4, <1>5 DEF Segmentation, E, d, l, m, n

(* What PassesKeepMeaning says of a step.                                   *)
StepKeepsMeaning ==
  AtInstruction /\ stage' = stage =>
    /\ SubSeq(code', 1, position - 1) = SubSeq(code, 1, position - 1)
    /\ SameMeaning(code[position], SubSeq(code', position, position' - 1))
    /\ SubSeq(code', position', Len(code')) = SubSeq(code, position + 1, Len(code))

(* A rewriting keeps the meaning.                                           *)
LEMMA RewriteMeans ==
  ASSUME PInv, RewriteInstruction
  PROVE  StepKeepsMeaning
<1>1. /\ AtInstruction /\ Applies(code[position]) /\ ~Refuses(code[position])
      /\ Shaped /\ PassesDone /\ DOMAIN storage \subseteq Known
  BY DEF RewriteInstruction, PInv, BeforeAllocation, Stages, AtInstruction
<1>2. PICK instr, r, c, d, p, q : /\ instr = code[position] /\ r = Rewritten(instr) /\ c = code /\ d = code'
                                  /\ p = position /\ q = position'
  OBVIOUS
<1>3. /\ d = Splice(c, p, r.before, r.instr, r.after)
      /\ storage' = Overlay(r.pins, storage)
      /\ q = p + Len(r.before) + Len(r.after) + 1
  BY <1>2 DEF RewriteInstruction, Splice
<1>4. Fits(instr, r)
  BY <1>1, <1>2, <1>3, Rewriting
<1>5. /\ r.before \in Seq(Allowed(Later)) /\ r.after \in Seq(Allowed(Later)) /\ r.instr \in Allowed(Later)
  <2>1. Straight \subseteq Allowed(Later)
    BY DEF Straight
  <2> QED
    BY <1>4, <2>1 DEF Fits
<1>6. c \in Seq(Allowed(Later)) /\ p \in Positions(c)
  <2>1. Known \subseteq Later
    BY <1>1, NewReferences DEF Shaped
  <2>2. Lowered(Known) \subseteq Lowered(Later)
    BY <2>1, LoweredGrows
  <2>3. \A i \in 1 .. Len(code) : code[i] \in Allowed(Later)
    BY <1>1, <2>2 DEF Shaped, Allowed, Positions
  <2>4. code \in Seq(Lowered(Known))
    BY <1>1 DEF Shaped
  <2>5. position \in Positions(code)
    BY <1>1, EarlierPasses
  <2> QED
    BY <1>2, <2>3, <2>4, <2>5
<1>7. /\ SubSeq(d, 1, p - 1) = SubSeq(c, 1, p - 1)
      /\ IsSegment(SubSeq(d, p, q - 1), r)
      /\ SubSeq(d, q, Len(d)) = SubSeq(c, p + 1, Len(c))
  <2>1. /\ SubSeq(d, 1, p - 1) = SubSeq(c, 1, p - 1)
        /\ IsSegment(SubSeq(d, p, p + Len(r.before) + Len(r.after)), r)
        /\ SubSeq(d, p + Len(r.before) + Len(r.after) + 1, Len(d)) = SubSeq(c, p + 1, Len(c))
    <3> DEFINE S == Allowed(Later)
    <3>1. c \in Seq(S) /\ p \in Positions(c) /\ r.before \in Seq(S) /\ r.after \in Seq(S) /\ r.instr \in S
          /\ d = Splice(c, p, r.before, r.instr, r.after)
      BY <1>3, <1>5, <1>6
    <3> HIDE DEF S
    <3>2. Segmentation(c, p, r, Splice(c, p, r.before, r.instr, r.after))
      BY <3>1, Segmented
    <3>3. Segmentation(c, p, r, d)
      BY <3>1, <3>2
    <3> QED
      BY <3>3 DEF Segmentation
  <2>2. q - 1 = p + Len(r.before) + Len(r.after)
    <3>1. p \in Nat /\ Len(r.before) \in Nat /\ Len(r.after) \in Nat
      BY <1>5, <1>6 DEF Positions
    <3> QED
      BY <1>3, <3>1
  <2> QED
    BY <1>3, <2>1, <2>2
<1>8. SameMeaning(instr, SubSeq(d, p, q - 1))
  BY <1>1, <1>2, <1>7, RewritingMeans, MeansTheSame
<1> QED
  BY <1>2, <1>7, <1>8 DEF StepKeepsMeaning

(* Passing over an instruction keeps the meaning.                           *)
LEMMA SkipMeans ==
  ASSUME PInv, SkipInstruction
  PROVE  StepKeepsMeaning
<1>1. AtInstruction /\ Shaped /\ PassesDone /\ code' = code /\ position' = position + 1
  BY DEF SkipInstruction, PInv, BeforeAllocation, AtInstruction
<1>2. position \in Positions(code) /\ code \in Seq(Lowered(Known)) /\ position \in Nat
  BY <1>1, EarlierPasses DEF Shaped
<1>3. position' - 1 = position
  BY <1>1, <1>2
<1>4. PICK c, instr : c = code /\ instr = code[position]
  OBVIOUS
<1>5. SubSeq(c, position, position) = <<instr>>
  <2>1. position \in Int /\ \A i \in position .. position : c[i] \in {instr}
    BY <1>2, <1>4
  <2> DEFINE x == SubSeq(c, position, position)
  <2>2. /\ x \in Seq({instr}) /\ Len(x) = position - position + 1
        /\ \A i \in 1 .. position - position + 1 : x[i] = c[position + i - 1]
    BY <2>1, SubSeqProperties
  <2> HIDE DEF x
  <2>3. Len(x) = 1 /\ x[1] = instr
    BY <1>2, <1>4, <2>2
  <2>4. <<instr>> \in Seq({instr}) /\ Len(<<instr>>) = 1 /\ <<instr>>[1] = instr
    OBVIOUS
  <2>5. x = <<instr>>
    <3>1. Len(x) = Len(<<instr>>) /\ \A i \in 1 .. Len(x) : x[i] = <<instr>>[i]
      BY <2>3, <2>4
    <3> QED
      BY <2>2, <2>4, <3>1, SeqEqual
  <2> QED
    BY <2>5 DEF x
<1>6. SameMeaning(instr, <<instr>>)
  BY DEF SameMeaning
<1> QED
  BY <1>1, <1>3, <1>4, <1>5, <1>6 DEF StepKeepsMeaning

(* Every pass, on every function the generator emits, puts in place of an   *)
(* instruction instructions with the same effect on everything the function *)
(* named before, leaves the rest of the function as it was and continues    *)
(* behind what it inserted.                                                 *)
THEOREM PassesPreserveMeaning == Spec => PassesKeepMeaning
<1>1. PInv /\ [Next]_vars => [StepKeepsMeaning]_passVars
  <2> SUFFICES ASSUME PInv, [Next]_vars, passVars' # passVars PROVE StepKeepsMeaning
    OBVIOUS
  <2>1. CASE SkipInstruction
    BY <2>1, SkipMeans
  <2>2. CASE RewriteInstruction
    BY <2>2, RewriteMeans
  <2>3. CASE RefuseInstruction
    BY <2>3 DEF RefuseInstruction, AtInstruction, StepKeepsMeaning
  <2>4. CASE NextPass
    <3>1. Len(code) \in Nat /\ position \in Nat
      BY DEF PInv, Shaped
    <3>2. ~AtInstruction
      BY <2>4, <3>1 DEF NextPass, AtInstruction
    <3> QED
      BY <3>2 DEF StepKeepsMeaning
  <2>5. CASE StartAnalysis
    BY <2>5 DEF StartAnalysis, AtInstruction, StepKeepsMeaning
  <2>6. CASE Analyze
    BY <2>6 DEF Analyze
  <2>7. CASE StartColoring
    BY <2>7 DEF StartColoring, AtInstruction, StepKeepsMeaning
  <2>8. CASE Color
    BY <2>8 DEF Color
  <2>9. CASE AssignStorage
    BY <2>9 DEF AssignStorage, AtInstruction, StepKeepsMeaning
  <2>10. CASE Assemble
    BY <2>10 DEF Assemble, AtInstruction, StepKeepsMeaning
  <2>11. CASE Execute
    BY <2>11 DEF Execute, AtInstruction, StepKeepsMeaning
  <2>12. CASE UNCHANGED vars
    BY <2>12 DEF vars
  <2> QED
    BY <2>1, <2>2, <2>3, <2>4, <2>5, <2>6, <2>7, <2>8, <2>9, <2>10, <2>11, <2>12 DEF Next, Lower, LowerNext
<1>2. Spec => [][StepKeepsMeaning]_passVars
  BY <1>1, PassesInvariant, PTL DEF Spec
<1> QED
  BY <1>2 DEF PassesKeepMeaning, StepKeepsMeaning

-----------------------------------------------------------------------------
(****************************************************************************)
(* The liveness analysis behind the passes.  What RSILivenessProofs shows   *)
(* of it holds of the function that the passes leave, which is one of those *)
(* it was shown for.                                                        *)
(****************************************************************************)
LP == INSTANCE RSILivenessProofs WITH code <- AbstractCode,
                                      Functions <- {c \in Seq(Instruction) : WellFormedFunction(c)}

(* The vocabulary of the instance is that of the modules themselves.        *)
LEMMA SameInstructions ==
  /\ \A c : LP!Positions(c) = Positions(c)
  /\ \A instr : LP!Uses(instr) = Uses(instr) /\ LP!Defs(instr) = Defs(instr)
  /\ \A x, y : LP!JumpsTo(x, y) <=> JumpsTo(x, y)
  /\ \A c : LP!WellFormedFunction(c) <=> WellFormedFunction(c)
<1>1. \A c : LP!Positions(c) = Positions(c)
  BY DEF LP!Positions, Positions
<1>2. \A instr : LP!Uses(instr) = Uses(instr) /\ LP!Defs(instr) = Defs(instr)
  BY DEF LP!Uses, Uses, LP!Defs, Defs
<1>3. \A x, y : LP!JumpsTo(x, y) <=> JumpsTo(x, y)
  BY DEF LP!JumpsTo, JumpsTo, LP!IsJump, IsJump
<1>4. \A x : (LP!IsJump(x) <=> IsJump(x)) /\ (LP!WellFormedInstruction(x) <=> WellFormedInstruction(x))
  BY DEF LP!IsJump, IsJump, LP!WellFormedInstruction, WellFormedInstruction
<1>5. LP!Instruction = Instruction
  BY DEF LP!Instruction, Instruction, LP!InstructionType, InstructionType, LP!Operand, Operand
<1>6. \A c : LP!WellFormedFunction(c) <=> WellFormedFunction(c)
  BY <1>1, <1>3, <1>4, <1>5 DEF LP!WellFormedFunction, WellFormedFunction
<1> QED
  BY <1>1, <1>2, <1>3, <1>6

LEMMA SameLiveness ==
  LP!Next <=> Liveness!Next
  BY DEF LP!Next, Liveness!Next,
     LP!StartPass, Liveness!StartPass, LP!SanityCheck, Liveness!SanityCheck,
     LP!VisitInstruction, Liveness!VisitInstruction, LP!VisitLabel, Liveness!VisitLabel,
     LP!Transfer, Liveness!Transfer, LP!LiveAfter, Liveness!LiveAfter,
     LP!Uses, Liveness!Uses, LP!Defs, Liveness!Defs, LP!JumpsTo, Liveness!JumpsTo,
     LP!IsJump, Liveness!IsJump, LP!Positions, Liveness!Positions

(* The instance's assumptions hold.                                         *)
LEMMA InstanceFits ==
  /\ \A c \in {d \in Seq(Instruction) : WellFormedFunction(d)} : LP!WellFormedFunction(c)
  /\ References \cap Labels = {} /\ None \notin References \cup Labels
<1>1. References \cap Labels = {} /\ None \notin References \cup Labels
  BY KindsDiffer
<1> QED
  BY <1>1, SameInstructions

(* The analysis of the function that the passes leave starts in a state that*)
(* RSILivenessProofs has its invariant for, and keeps it.                   *)
LEMMA AnalysisStarts == LP!Init => LP!IInv
  BY LP!InitIInv, InstanceFits

(* The same of the next state: StartAnalysis sets the analysis up.          *)
LEMMA AnalysisStartsNext == (LP!Init => LP!IInv)'
  BY AnalysisStarts, PTL

(* Steps of the analysis, or none of it, keep its invariant.                *)
LEMMA AnalysisStep ==
  LP!IInv /\ [Liveness!Next]_(<<AbstractCode, live, next, hasModifiedTheIR, status>>) => LP!IInv'
  BY LP!StepIInv, InstanceFits, SameLiveness DEF LP!analysisVars

(* The analysis starts once and for all, behind the passes; whatever comes  *)
(* later finds it done and the function accepted.                           *)
BehindPasses   == stage \notin {"lowering", "lowered", "fatal"}
BehindAnalysis == stage \in {"coloring", "assigned", "running", "returned", "rejected"}

AnalysisInPlace ==
  /\ ~BehindPasses /\ stage # "fatal" => next = 0 /\ hasModifiedTheIR = TRUE /\ status = "analyzing"
  /\ BehindPasses => LP!IInv
  /\ BehindAnalysis => status = "accepted"
  /\ stage \in {"lowering", "lowered", "fatal", "analyzing"} \/ BehindAnalysis

(* What the analysis says of the function that is to be coloured and run.   *)
AnalyzedExactly == BehindAnalysis => Liveness!AnalysisExact /\ live[1] = {}

-----------------------------------------------------------------------------
(* The function behind the passes, as the analysis sees it.                 *)
LEMMA AbstractPositions ==
  ASSUME Shaped
  PROVE  /\ Len(code) \in Nat /\ Positions(AbstractCode) = Positions(code)
         /\ code \in Seq(Lowered(Known)) /\ Known \in SUBSET References
<1>1. code \in Seq(Lowered(Known)) /\ created \in Nat
  BY DEF Shaped
<1>2. Known \in SUBSET References
  BY <1>1, NumberedAreReferences DEF Known
<1>3. Len(code) \in Nat
  BY <1>1
<1>4. Len(AbstractCode) = Len(code)
  BY <1>3 DEF AbstractCode, Abstraction, Positions
<1> QED
  BY <1>1, <1>2, <1>3, <1>4 DEF Positions

(* A function that the passes leave is one that the analysis is made for.   *)
LEMMA AbstractIsWellFormed ==
  ASSUME Shaped, Flows(code)
  PROVE  AbstractCode \in {c \in Seq(Instruction) : WellFormedFunction(c)}
<1>1. WellFormedFunction(AbstractCode)
  BY AbstractPositions, AbstractFlow DEF AbstractCode
<1> QED
  BY <1>1 DEF WellFormedFunction

(* StartAnalysis establishes the invariant of the analysis, ...             *)
LEMMA StartsAnalysis ==
  ASSUME PInv, AnalysisInPlace, StartAnalysis
  PROVE  AnalysisInPlace'
<1>1. /\ stage = "lowered" /\ stage' = "analyzing" /\ live' = [i \in Positions(code) |-> {}]
      /\ UNCHANGED <<arch, code, storage, created, pass, position, next, hasModifiedTheIR, status>>
  BY DEF StartAnalysis
<1>2. next' = 0 /\ hasModifiedTheIR' = TRUE /\ status' = "analyzing"
  BY <1>1 DEF AnalysisInPlace, BehindPasses
<1>3. AbstractCode' = AbstractCode
  BY <1>1 DEF AbstractCode
<1>4. AbstractCode \in {c \in Seq(Instruction) : WellFormedFunction(c)}
  BY AbstractIsWellFormed DEF PInv
<1>5. Positions(AbstractCode) = Positions(code)
  BY AbstractPositions DEF PInv
<1>6. (LP!Init)'
  BY <1>1, <1>2, <1>3, <1>4, <1>5, SameInstructions DEF LP!Init
<1>7. (LP!IInv)'
  BY <1>6, AnalysisStartsNext
<1> QED
  BY <1>1, <1>7 DEF AnalysisInPlace, BehindPasses, BehindAnalysis

(* ... which holds as long as nothing of it changes, ...                    *)
LEMMA AnalysisStays ==
  ASSUME LP!IInv, UNCHANGED <<code, analysisVars>>
  PROVE  LP!IInv'
<1>1. UNCHANGED <<AbstractCode, live, next, hasModifiedTheIR, status>>
  BY DEF AbstractCode, analysisVars
<1> QED
  BY <1>1, AnalysisStep

(* ... and every step of the analysis keeps.                                *)
LEMMA Analyzes ==
  ASSUME AnalysisInPlace, Analyze
  PROVE  AnalysisInPlace'
<1>1. stage = "analyzing" /\ UNCHANGED passVars /\ Liveness!Next
  BY DEF Analyze
<1>2. LP!IInv /\ stage' = "analyzing"
  BY <1>1 DEF AnalysisInPlace, BehindPasses, passVars
<1>3. LP!IInv'
  BY <1>1, <1>2, AnalysisStep
<1> QED
  BY <1>2, <1>3 DEF AnalysisInPlace, BehindPasses, BehindAnalysis

(* At first nothing has been analysed.                                      *)
LEMMA InitialAnalysis == Init => AnalysisInPlace
BY DEF Init, InitPasses, AnalysisInPlace, BehindPasses, BehindAnalysis

(* Every step of the pipeline keeps what is said of the analysis.           *)
LEMMA AnalysisInPlaceStep == PInv /\ AnalysisInPlace /\ [Next]_vars => AnalysisInPlace'
<1> SUFFICES ASSUME PInv, AnalysisInPlace, [Next]_vars PROVE AnalysisInPlace'
  OBVIOUS
<1>1. CASE Lower
  <2>1. stage = "lowering" /\ stage' \in {"lowering", "lowered", "fatal"} /\ UNCHANGED analysisVars
    BY <1>1 DEF Lower, LowerNext, SkipInstruction, RewriteInstruction, RefuseInstruction, NextPass, AtInstruction
  <2> QED
    BY <2>1 DEF AnalysisInPlace, BehindPasses, BehindAnalysis, analysisVars
<1>2. CASE StartAnalysis
  BY <1>2, StartsAnalysis
<1>3. CASE Analyze
  BY <1>3, Analyzes
<1>4. CASE StartColoring
  <2>1. /\ stage = "analyzing" /\ stage' = IF status = "accepted" THEN "coloring" ELSE "fatal"
        /\ UNCHANGED <<code, analysisVars>>
    BY <1>4 DEF StartColoring
  <2>2. LP!IInv'
    BY <2>1, AnalysisStays DEF AnalysisInPlace, BehindPasses
  <2> QED
    BY <2>1, <2>2 DEF AnalysisInPlace, BehindPasses, BehindAnalysis, analysisVars
<1>5. CASE Color \/ AssignStorage \/ Assemble \/ Execute
  <2>1. /\ BehindAnalysis /\ (BehindAnalysis' \/ stage' = "fatal")
        /\ UNCHANGED <<code, analysisVars>>
    BY <1>5 DEF Color, AssignStorage, Assemble, Execute, BehindAnalysis, passVars
  <2>2. LP!IInv'
    BY <2>1, AnalysisStays DEF AnalysisInPlace, BehindPasses, BehindAnalysis
  <2> QED
    BY <2>1, <2>2 DEF AnalysisInPlace, BehindPasses, BehindAnalysis, analysisVars
<1>6. CASE UNCHANGED vars
  <2>1. UNCHANGED <<code, analysisVars, stage>>
    BY <1>6 DEF vars, passVars
  <2>2. BehindPasses => LP!IInv'
    BY <2>1, AnalysisStays DEF AnalysisInPlace
  <2> QED
    BY <2>1, <2>2 DEF AnalysisInPlace, BehindPasses, BehindAnalysis, analysisVars
<1> QED
  BY <1>1, <1>2, <1>3, <1>4, <1>5, <1>6 DEF Next

(* When the analysis is done, its sets are the least solution.              *)
LEMMA ExactBehindAnalysis == AnalysisInPlace => AnalyzedExactly
<1> SUFFICES ASSUME AnalysisInPlace, BehindAnalysis
             PROVE  Liveness!AnalysisExact /\ live[1] = {}
  BY DEF AnalyzedExactly
<1>1. LP!IInv /\ status = "accepted"
  BY DEF AnalysisInPlace, BehindPasses, BehindAnalysis
<1>2. live[1] = {}
  BY <1>1 DEF LP!IInv, LP!Judged
<1>3. \A v \in References : LP!LivePositions(v) = LP!NeededPositions(v)
  <2> SUFFICES ASSUME NEW v \in References PROVE LP!LivePositions(v) = LP!NeededPositions(v)
    OBVIOUS
  <2>1. LP!LivePositions(v) \subseteq LP!NeededPositions(v)
    BY <1>1 DEF LP!IInv, LP!OnlyNeeded
  <2>2. LP!ClosedFor(v, LP!LivePositions(v))
    BY <1>1, LP!DoneIsClosed, InstanceFits DEF LP!Done
  <2>3. LP!NeededPositions(v) \subseteq LP!LivePositions(v)
    BY <2>2 DEF LP!NeededPositions, LP!LivePositions
  <2> QED
    BY <2>1, <2>3
<1>4. \A v \in References :
        Liveness!LivePositions(v) = LP!LivePositions(v) /\ Liveness!NeededPositions(v) = LP!NeededPositions(v)
  BY SameInstructions
  DEF Liveness!LivePositions, LP!LivePositions, Liveness!NeededPositions, LP!NeededPositions,
      Liveness!ClosedFor, LP!ClosedFor, Liveness!FlowsTo, LP!FlowsTo, Liveness!Positions, Positions,
      Liveness!Uses, Uses, Liveness!Defs, Defs, Liveness!JumpsTo, JumpsTo, Liveness!IsJump, IsJump
<1> QED
  BY <1>2, <1>3, <1>4 DEF Liveness!AnalysisExact

(* Of every function that the generator emits and the passes rewrite, the   *)
(* analysis finds exactly the least solution of the data-flow equations,    *)
(* and what it lets through needs nothing at its entry.                     *)
THEOREM LoweredIsAnalyzedExactly == Spec => []AnalyzedExactly
BY InitialPasses, PassesStep, InitialAnalysis, AnalysisInPlaceStep, ExactBehindAnalysis, PTL DEF Spec
=============================================================================
