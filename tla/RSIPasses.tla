------------------------------ MODULE RSIPasses ------------------------------
(****************************************************************************)
(* The RSI passes that rewrite single instructions before the liveness      *)
(* analysis (compiler/src/backend/RSIAnalysis.cpp) and RSIPass::operator()  *)
(* that drives them over one function (RSIPass.cpp), in the order of the    *)
(* list in main.cpp.  One action is one iteration of its loop.              *)
(*                                                                          *)
(* Here instructions keep their types and operands their kind.  An operand  *)
(* is a tuple that begins with its kind:                                    *)
(*   <<"ref", name, n>>   a reference        <<"const", n>>    a constant   *)
(*   <<"dyn", reference>> the stack offset   <<"label", name>> a label      *)
(*                        of a reference     <<"global", name>> a global    *)
(* and None for std::monostate.  AbstractCode forgets what RSI does not     *)
(* distinguish, so that the analyses apply.                                 *)
(****************************************************************************)
EXTENDS Architecture, SequencesExt

CONSTANTS
  Names,      \* what makeStringUnique is called with
  Labels,     \* see RSI
  None,
  Programs    \* functions as RSIGenerator emits them: [arch, code, slots]

ASSUME OperandShapes ==
  /\ \A l \in Labels : Len(l) = 2 /\ l[1] = "label"
  /\ None[1] \notin {"ref", "const", "dyn", "label", "global"}
  /\ {"divtmp", "divresult", "callresult", "param", "constant", "sp", "tmp"} \subseteq Names

(* makeStringUnique counts without end.  The references that RSIGenerator   *)
(* makes have the number 0 here, those of the passes the numbers from 1.    *)
Numbered(numbers) == {"ref"} \X Names \X numbers
References == Numbered(Nat)

INSTANCE RSI

VARIABLES
  arch,       \* the output architecture
  code,       \* function.instructions
  storage,    \* Reference::storageLocation, as far as it is set
  created,    \* how many references the passes may have created
  pass,       \* the number of the pass that runs
  position,   \* its variable i
  stage       \* "lowering", "lowered" or "fatal", and what RSIToAssembly adds

Arch == IF arch = "x86_64" THEN X86_64 ELSE AArch64

passVars == <<arch, code, storage, created, pass, position, stage>>

Move(result, op1) == Instr("MOVE", result, op1, None)

Unary  == {"NEGATE", "BINARY_NOT", "LOGICAL_NOT"}
Comparison ==
  {"EQUAL", "NOT_EQUAL", "LESS_THAN", "LESS_THAN_OR_EQUAL", "GREATER_THAN", "GREATER_THAN_OR_EQUAL"}
Binary == {"ADD", "SUBTRACT", "MULTIPLY", "DIVIDE", "MODULO"} \cup Comparison

IsConstant(x) == x[1] \in {"const", "dyn"}

-----------------------------------------------------------------------------
(****************************************************************************)
(* What RSIGenerator emits with references out of refs.  Nothing computes   *)
(* into one of its own operands: the result is a new reference.  Functions  *)
(* that use the value of a store, which has none (Differs of RSIGeneration),*)
(* are left out: an operand would be missing.                               *)
(****************************************************************************)
Constants        == {"const"} \X Nat
GlobalReferences == {"global"} \X STRING

Form(types, results, firsts, seconds) == [type : types, result : results, op1 : firsts, op2 : seconds]

Emitted(refs) ==
  LET values == refs \cup Constants
  IN Form({"MOVE", "LOAD_MEMORY"} \cup Unary, refs, values, {None})
     \cup Form(Binary, refs, values, values)
     \cup Form({"LOAD_GLOBAL"}, refs, GlobalReferences, {None})
     \cup Form({"STORE_GLOBAL"}, {None}, GlobalReferences, values)
     \cup Form({"STORE_MEMORY"}, {None}, values, values)
     \cup Form({"ADDRESS_OF"}, refs, refs \cup GlobalReferences, {None})
     \cup Form({"LOAD_PARAMETER"}, refs, Constants, {None})
     \cup Form({"CALL"}, refs, Labels, Constants)
     \cup Form({"STORE_PARAMETER", "RETURN"}, {None}, values, {None})
     \cup Form({"JUMP", "DEFINE_LABEL"}, {None}, Labels, {None})
     \cup Form({"JUMP_IF_ZERO"}, {None}, values, Labels)
     \cup Form({"NOP", "FUNCTION_BEGIN"}, {None}, {None}, {None})

IsGenerated(p) ==
  /\ p.arch \in {"x86_64", "AArch64"}
  /\ p.code \in Seq(Emitted(Numbered({0})))
  /\ \A i \in Positions(p.code) : p.code[i].type \in Binary => p.code[i].result # p.code[i].op2
  /\ p.slots \subseteq Numbered({0})
  /\ WellFormedFunction(Abstraction(p.code))

ASSUME ProgramsAreGenerated == \A p \in Programs : IsGenerated(p)

-----------------------------------------------------------------------------
(* Functions: f where it is defined, g elsewhere; and one value changed.    *)
Overlay(f, g) == [x \in DOMAIN f \cup DOMAIN g |-> IF x \in DOMAIN f THEN f[x] ELSE g[x]]
With(f, x, value) == Overlay([y \in {x} |-> value], f)

(* A storage location: <<"reg", register>>, <<"slot", number>> or none.     *)
Reg(r) == <<"reg", r>>
Location(x) == IF x \in DOMAIN storage THEN storage[x] ELSE <<"none">>

InSlot(x) == Location(x)[1] = "slot"

-----------------------------------------------------------------------------
(****************************************************************************)
(* The rewritings.  Each yields the instructions to put before and after    *)
(* the instruction, the instruction itself, and the storage locations it    *)
(* prescribes for new references.                                           *)
(****************************************************************************)
New(name, k) == <<"ref", name, created + k>>   \* RSIGenerator::getNewReference

Nowhere == [r \in {} |-> <<"none">>]

SeperateDivReferences(instr) ==
  LET dividend == New("divtmp", 1)
      divisor  == New("divtmp", 2)
      quotient == New("divresult", 3)
  IN [before |-> <<Move(dividend, instr.op1), Move(divisor, instr.op2)>>,
      instr  |-> Instr("DIVIDE", quotient, dividend, divisor),
      after  |-> <<Move(instr.result, quotient)>>,
      pins   |-> [r \in {dividend, quotient} |-> Reg("rax")]]

SeperateCallResults(instr) ==
  LET returned == New("callresult", 1)
  IN [before |-> <<>>,
      instr  |-> [instr EXCEPT !.result = returned],
      after  |-> <<Move(instr.result, returned)>>,
      pins   |-> [r \in {returned} |-> Reg(Arch.return)]]

SeparateLoadParameters(instr) ==
  LET param == New("param", 1)
  IN [before |-> <<>>,
      instr  |-> [instr EXCEPT !.result = param],
      after  |-> <<Move(instr.result, param)>>,
      pins   |-> [r \in {param} |-> Reg(Arch.parameters[instr.op1[2] + 1])]]

ResolveAddressOf(instr) ==
  LET stack_pointer == New("sp", 1)
  IN [before |-> <<Instr("SET_LIVE", stack_pointer, None, None)>>,
      instr  |-> Instr("ADD", instr.result, <<"dyn", instr.op1>>, stack_pointer),
      after  |-> <<>>,
      pins   |-> [r \in {stack_pointer} |-> Reg(Arch.sp)]]

MoveConstantsToReferences(instr) ==
  LET first  == IsConstant(instr.op1)
      second == IsConstant(instr.op2)
  IN [before |-> (IF first THEN <<Move(New("constant", 1), instr.op1)>> ELSE <<>>)
                 \o (IF second THEN <<Move(New("constant", 2), instr.op2)>> ELSE <<>>),
      instr  |-> [instr EXCEPT !.op1 = IF first THEN New("constant", 1) ELSE @,
                               !.op2 = IF second THEN New("constant", 2) ELSE @],
      after  |-> <<>>,
      pins   |-> Nowhere]

(* A slip, for mutation: the operand is not copied to the result first.     *)
MakeTwoOperandUncopied(instr) ==
  [before |-> <<>>,
   instr  |-> [instr EXCEPT !.op1 = instr.result],
   after  |-> <<>>,
   pins   |-> Nowhere]

MakeTwoOperandCompatible(instr) ==
  [before |-> <<Move(instr.result, instr.op1)>>,
   instr  |-> [instr EXCEPT !.op1 = instr.result],
   after  |-> <<>>,
   pins   |-> Nowhere]

ReplaceModWithDivMulSub(instr) ==
  LET quotient == New("tmp", 1)
      product  == New("tmp", 2)
  IN [before |-> <<>>,
      instr  |-> Instr("DIVIDE", quotient, instr.op1, instr.op2),
      after  |-> <<Instr("MULTIPLY", product, quotient, instr.op2),
                   Instr("SUBTRACT", instr.result, instr.op1, product)>>,
      pins   |-> Nowhere]

(* makeTwoOperandCompatible_prefilter                                       *)
NeedsTwoOperandForm(instr) ==
  \/ instr.type = "NEGATE"
  \/ {instr.result, instr.op1} \subseteq References /\ instr.op2 # None /\ instr.result # instr.op1

(****************************************************************************)
(* The pass list of main.cpp up to the liveness analysis, for the           *)
(* architectures that a pass names, and the instructions it looks at.       *)
(****************************************************************************)
(* A slip, for mutation: addresses are resolved after constants have been   *)
(* moved to references.                                                     *)
PassListAddressesLate ==
  IF arch = "x86_64"
  THEN <<"divisions", "calls", "parameters", "constants", "addresses", "two operands">>
  ELSE <<"calls", "parameters", "constants", "addresses", "modulo">>

PassList ==
  IF arch = "x86_64"
  THEN <<"divisions", "calls", "parameters", "addresses", "constants", "two operands">>
  ELSE <<"calls", "parameters", "addresses", "constants", "modulo">>

Applies(instr) ==
  CASE PassList[pass] = "divisions"    -> instr.type = "DIVIDE"
    [] PassList[pass] = "calls"        -> instr.type = "CALL"
    [] PassList[pass] = "parameters"   -> instr.type = "LOAD_PARAMETER"
    [] PassList[pass] = "addresses"    -> instr.type = "ADDRESS_OF"
    [] PassList[pass] = "constants"    -> instr.type \notin {"MOVE", "CALL", "LOAD_PARAMETER"}
    [] PassList[pass] = "two operands" -> /\ instr.type \notin {"JUMP", "JUMP_IF_ZERO", "DEFINE_LABEL"}
                                          /\ NeedsTwoOperandForm(instr)
    [] PassList[pass] = "modulo"       -> instr.type = "MODULO"

Rewritten(instr) ==
  CASE PassList[pass] = "divisions"    -> SeperateDivReferences(instr)
    [] PassList[pass] = "calls"        -> SeperateCallResults(instr)
    [] PassList[pass] = "parameters"   -> SeparateLoadParameters(instr)
    [] PassList[pass] = "addresses"    -> ResolveAddressOf(instr)
    [] PassList[pass] = "constants"    -> MoveConstantsToReferences(instr)
    [] PassList[pass] = "two operands" -> MakeTwoOperandCompatible(instr)
    [] PassList[pass] = "modulo"       -> ReplaceModWithDivMulSub(instr)

(* Where a rewriting calls Fatal: too many parameters, or the address of a  *)
(* reference that is not on the stack (a global).                           *)
Refuses(instr) ==
  \/ PassList[pass] = "parameters" /\ instr.op1[2] >= Len(Arch.parameters)
  \/ PassList[pass] = "addresses" /\ ~InSlot(instr.op1)

-----------------------------------------------------------------------------
InitPasses ==
  \E p \in Programs :
    /\ arch = p.arch
    /\ code = p.code
    /\ storage = [r \in p.slots |-> <<"slot", 0>>]
    /\ created = 0
    /\ pass = 1
    /\ position = 1
    /\ stage = "lowering"

AtInstruction == stage = "lowering" /\ position <= Len(code)

SkipInstruction ==
  /\ AtInstruction /\ ~Applies(code[position])
  /\ position' = position + 1
  /\ UNCHANGED <<arch, code, storage, created, pass, stage>>

RewriteInstruction ==
  /\ AtInstruction /\ Applies(code[position]) /\ ~Refuses(code[position])
  /\ LET r == Rewritten(code[position])
     IN /\ code' = SubSeq(code, 1, position - 1) \o r.before \o <<r.instr>> \o r.after
                   \o SubSeq(code, position + 1, Len(code))
        /\ storage' = Overlay(r.pins, storage)
        /\ position' = position + Len(r.before) + Len(r.after) + 1
  /\ created' = created + 3
  /\ UNCHANGED <<arch, pass, stage>>

RefuseInstruction ==
  /\ AtInstruction /\ Applies(code[position]) /\ Refuses(code[position])
  /\ stage' = "fatal"
  /\ UNCHANGED <<arch, code, storage, created, pass, position>>

NextPass ==
  /\ stage = "lowering" /\ position > Len(code)
  /\ IF pass < Len(PassList)
     THEN pass' = pass + 1 /\ position' = 1 /\ stage' = stage
     ELSE stage' = "lowered" /\ UNCHANGED <<pass, position>>
  /\ UNCHANGED <<arch, code, storage, created>>

LowerNext == SkipInstruction \/ RewriteInstruction \/ RefuseInstruction \/ NextPass

-----------------------------------------------------------------------------
(****************************************************************************)
(* What instructions mean, independent of any machine.  Values are terms:   *)
(* <<"in", x>> is what x held at first, <<"ADD", s, t>> a sum, <<"&", r>>   *)
(* the address of r.  A state s has the values of references, globals and   *)
(* memory, the arguments stored for calls to come, and the calls made so    *)
(* far, the return last.                                                    *)
(****************************************************************************)
Value(s, x) ==
  CASE x \in DOMAIN s.value -> s.value[x]
    [] x[1] = "const"       -> x
    [] x[1] = "dyn"         -> <<"offset of", x[2]>>
    [] OTHER                -> <<"in", x>>

Set(s, x, term) == [s EXCEPT !.value = With(@, x, term)]

(* The memory that an address names: a reference or something unknown.      *)
Cell(address) == IF address[1] = "&" THEN address[2] ELSE <<"cell", address>>

Product(x, y) == <<"MULTIPLY", {x, y}>>

Apply(type, x, y) ==
  CASE type = "MULTIPLY" -> Product(x, y)
    [] type = "MODULO"   -> <<"SUBTRACT", x, Product(<<"DIVIDE", x, y>>, y)>>
    [] type = "ADD" /\ x[1] = "offset of" /\ y = <<"stack">> -> <<"&", x[2]>>
    [] OTHER             -> <<type, x, y>>

(* A call takes the last n stored arguments.                                *)
Called(s, label, n) ==
  [s EXCEPT !.calls = Append(@, <<label, SubSeq(s.args, Len(s.args) - n + 1, Len(s.args))>>),
            !.args  = SubSeq(@, 1, Len(@) - n)]

Outcome(s) == <<"result", Len(s.calls)>>   \* what the last call returned

WithResult(s, x) == Set(s, x, Outcome(s))
WithArgument(s, term) == [s EXCEPT !.args = Append(@, term)]
Returned(s, term) == [s EXCEPT !.calls = Append(@, <<<<"label", "return">>, <<term>>>>)]

(* What an instruction computes, and what it does with that.                *)
Computes == {"MOVE", "LOAD_GLOBAL", "LOAD_MEMORY", "ADDRESS_OF", "SET_LIVE", "LOAD_PARAMETER"} \cup Unary \cup Binary

Computed(s, instr) ==
  CASE instr.type \in {"MOVE", "LOAD_GLOBAL"} -> Value(s, instr.op1)
    [] instr.type = "LOAD_MEMORY"    -> Value(s, Cell(Value(s, instr.op1)))
    [] instr.type = "ADDRESS_OF"     -> <<"&", instr.op1>>
    [] instr.type = "SET_LIVE"       -> <<"stack">>
    [] instr.type = "LOAD_PARAMETER" -> <<"parameter", instr.op1[2]>>
    [] instr.type \in Unary          -> <<instr.type, Value(s, instr.op1)>>
    [] instr.type \in Binary         -> Apply(instr.type, Value(s, instr.op1), Value(s, instr.op2))

Do(s, instr) ==
  CASE instr.type \in Computes        -> Set(s, instr.result, Computed(s, instr))
    [] instr.type = "STORE_GLOBAL"    -> Set(s, instr.op1, Value(s, instr.op2))
    [] instr.type = "STORE_MEMORY"    -> Set(s, Cell(Value(s, instr.op1)), Value(s, instr.op2))
    [] instr.type = "STORE_PARAMETER" -> WithArgument(s, Value(s, instr.op1))
    [] instr.type = "CALL"            -> WithResult(Called(s, instr.op1, instr.op2[2]), instr.result)
    [] instr.type = "RETURN"          -> Returned(s, Value(s, instr.op1))
    [] OTHER                          -> s   \* NOP, FUNCTION_BEGIN, labels and jumps

Meaning(s, instructions) == FoldLeft(Do, s, instructions)

(* Any state: nothing is known of it but that enough arguments are stored.  *)
Unknown == [value |-> Nowhere, args |-> [i \in 1 .. 6 |-> <<"argument", i>>], calls |-> <<>>]

(* The operands that the function had before the rewriting.                 *)
OldOperands == UNION {{code[i].result, code[i].op1, code[i].op2} : i \in Positions(code)} \ {None}

SameMeaning(instr, instructions) ==
  LET old == Meaning(Unknown, <<instr>>)
      new == Meaning(Unknown, instructions)
  IN /\ \A x \in OldOperands \cup DOMAIN old.value : Value(old, x) = Value(new, x)
     /\ old.args = new.args /\ old.calls = new.calls

AbstractCode == Abstraction(code)

-----------------------------------------------------------------------------
(* Safety, of steps: a pass puts, in place of an instruction, instructions  *)
(* that have the same effect on everything the function named before: they  *)
(* leave the same values, store the same arguments, make the same call. The *)
(* rest of the function is as it was, and the pass continues behind what it *)
(* inserted.                                                                *)
PassesKeepMeaning ==
  [][AtInstruction /\ stage' = stage =>
       /\ SubSeq(code', 1, position - 1) = SubSeq(code, 1, position - 1)
       /\ SameMeaning(code[position], SubSeq(code', position, position' - 1))
       /\ SubSeq(code', position', Len(code')) = SubSeq(code, position + 1, Len(code))]_passVars

(* The forms that rsiToNasm insists on.                                     *)
TwoOperandForm(instr) ==
  {instr.result, instr.op1} \subseteq References /\ instr.op2 # None => instr.result = instr.op1

DivisionForm(instr) ==
  instr.type = "DIVIDE" => Location(instr.result) = Reg("rax") /\ Location(instr.op1) = Reg("rax")

(* Safety: when the passes are through, the function is one that the        *)
(* analyses and the backends accept: it has the forms that the Fatals in    *)
(* rsiToNasm guard, no constant is where only a register may be, and        *)
(* RSILiveness finds the form it assumes.  The allocation can still take    *)
(* RAX away from a division, see DivisionsInRax in RSIToAssembly.           *)
BackendsAccept ==
  stage = "lowered" =>
    /\ WellFormedFunction(AbstractCode)
    /\ \A i \in Positions(code) :
         /\ code[i].type # "ADDRESS_OF"
         /\ code[i].type \notin {"MOVE", "CALL", "LOAD_PARAMETER"} =>
              ~IsConstant(code[i].op1) /\ ~IsConstant(code[i].op2)
         /\ arch = "x86_64" => TwoOperandForm(code[i]) /\ DivisionForm(code[i])
         /\ arch = "AArch64" => code[i].type # "MODULO"
==============================================================================
