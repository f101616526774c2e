---------------------------- MODULE RSIToAssembly ----------------------------
(****************************************************************************)
(* The RSI pipeline from the rewriting passes to the running program:       *)
(*                                                                          *)
(*   lowering    RSIPasses                                                  *)
(*   analyzing   RSILiveness                                                *)
(*   coloring    GraphColoring, which gives every reference a register or a *)
(*               slot                                                       *)
(*   running     the text that rsiToNasm or rsiToAarch64                    *)
(*               (compiler/src/backend/RSIToAssemply.cpp) prints for one    *)
(*               RSI instruction after the other runs on a processor with   *)
(*               registers and a stack, beside the meaning of the           *)
(*               instructions themselves                                    *)
(*                                                                          *)
(* The stack is a sequence with its top last; offsets count elements.  What *)
(* lies below the stack pointer is gone, as a signal or a callee may        *)
(* overwrite it.                                                            *)
(****************************************************************************)
EXTENDS RSIPasses

CONSTANT UsedRegisters   \* the general purpose registers that are handed out,
                         \* among them all that the passes prescribe

VARIABLES
  live, next, hasModifiedTheIR, status,                   \* see RSILiveness
  graph, color, removedAt, level, returning, highestID,   \* see GraphColoring
  at,         \* the instruction that runs next
  meaning,    \* what the instructions so far mean, see RSIPasses
  machine,    \* the processor: registers, stack, memory, calls made
  garbled     \* an instruction has run that is known to be printed wrong

analysisVars == <<live, next, hasModifiedTheIR, status>>
colorVars    == <<graph, color, removedAt, level, returning, highestID>>
runVars      == <<at, meaning, machine, garbled>>
vars         == <<passVars, analysisVars, colorVars, runVars>>

Liveness == INSTANCE RSILiveness WITH code <- AbstractCode, Functions <- {}
Coloring == INSTANCE GraphColoring WITH Vertices <- References, Graphs <- {}

CalleeSaved(r) == r \in ToSet(Arch.calleeSaved)

General == SelectSeq(Arch.general, LAMBDA r : r \in UsedRegisters)

(* enumerateRegisters: the registers and slots the function uses.           *)
Operands(i) == {code[i].result, code[i].op1, code[i].op2}
AllReferences == UNION {Operands(i) : i \in Positions(code)} \cap References
AllRegisters == {Location(r)[2] : r \in {s \in AllReferences : Location(s)[1] = "reg"}}
MaxStackUsage == Cardinality({r \in AllReferences : InSlot(r)})

(* What the prologue pushes, in this order.                                 *)
SavedByFunction == SelectSeq(Arch.calleeSaved, LAMBDA r : r \in AllRegisters)

-----------------------------------------------------------------------------
(****************************************************************************)
(* The processor.  An assembly operand is a location, a constant, a global, *)
(* or <<"mem", register>>, the memory a register points to.  An address     *)
(* into the stack is <<"at", height>>.  Below the frame lies one element    *)
(* that belongs to the caller.                                              *)
(****************************************************************************)
SpecialRegisters == IF arch = "x86_64" THEN {} ELSE {"x29", "x30"}   \* fp and lr
Registers == ToSet(General) \cup ToSet(Arch.parameters) \cup {Arch.return, Arch.sp} \cup SpecialRegisters

Entry(r) ==
  IF r \in ToSet(Arch.parameters) THEN <<"parameter", SelectInSeq(Arch.parameters, LAMBDA p : p = r) - 1>>
  ELSE <<"entry", r>>

Bottom == <<"caller">>

Boot == [reg |-> [r \in Registers |-> Entry(r)], stack |-> <<Bottom>>, memory |-> Nowhere, calls |-> <<>>]

Garbage == <<"garbage">>

StackAt(m, height) == IF height \in DOMAIN m.stack THEN m.stack[height] ELSE Garbage

Stored(m, x) == IF x \in DOMAIN m.memory THEN m.memory[x] ELSE <<"in", x>>

Register(m, r) == IF r = Arch.sp THEN <<"at", Len(m.stack)>> ELSE m.reg[r]

Read(m, x) ==
  CASE x[1] = "reg"    -> Register(m, x[2])
    [] x[1] = "slot"   -> StackAt(m, Len(m.stack) - x[2])
    [] x[1] = "mem"    -> LET a == Register(m, x[2])
                          IN IF a[1] = "at" THEN StackAt(m, a[2]) ELSE Stored(m, <<"cell", a>>)
    [] x[1] = "global" -> Stored(m, x)
    [] OTHER           -> x

WriteStack(m, height, term) ==
  IF height \in DOMAIN m.stack THEN [m EXCEPT !.stack[height] = term] ELSE m

Write(m, x, term) ==
  CASE x[1] = "reg"    -> [m EXCEPT !.reg[x[2]] = term]
    [] x[1] = "slot"   -> WriteStack(m, Len(m.stack) - x[2], term)
    [] x[1] = "mem"    -> LET a == Register(m, x[2])
                          IN IF a[1] = "at" THEN WriteStack(m, a[2], term)
                             ELSE [m EXCEPT !.memory = With(@, <<"cell", a>>, term)]
    [] x[1] = "global" -> [m EXCEPT !.memory = With(@, x, term)]

(* The sum of an offset and an address of the stack is an address of it.    *)
Compute(type, x, y) ==
  IF type = "ADD" /\ x[1] = "offset" /\ y[1] = "at" THEN <<"at", y[2] - x[2]>> ELSE Apply(type, x, y)

Drop(m, n) == [m EXCEPT !.stack = SubSeq(@, 1, Len(@) - n)]

(* A callee keeps the registers its own prologue saves, returns a result    *)
(* and may have changed every other register.                               *)
CallReturns(m, label, n) ==
  LET calls == Append(m.calls, <<label, [i \in 1 .. n |-> m.reg[Arch.parameters[i]]]>>)
  IN [m EXCEPT !.calls = calls,
               !.reg = [r \in Registers |->
                          IF r = Arch.return THEN <<"result", Len(calls)>>
                          ELSE IF CalleeSaved(r) /\ r # "x30" THEN @[r] ELSE Garbage]]

(* One assembly instruction a, a tuple that begins with its mnemonic.       *)
Step(m, a) ==
  CASE a[1] = "mov"     -> Write(m, a[2], Read(m, a[3]))
    [] a[1] = "unary"   -> Write(m, a[3], <<a[2], Read(m, a[4])>>)
    [] a[1] = "binary"  -> Write(m, a[3], Compute(a[2], Read(m, a[4]), Read(m, a[5])))
    [] a[1] = "push"    -> [m EXCEPT !.stack = Append(@, Read(m, a[2]))]
    [] a[1] = "pop"     -> LET top == StackAt(m, Len(m.stack))
                           IN IF a[2] = Reg(Arch.sp) THEN Drop(m, 1) ELSE Write(Drop(m, 1), a[2], top)
    [] a[1] = "reserve" -> [m EXCEPT !.stack = @ \o [i \in 1 .. a[2] |-> Garbage]]
    [] a[1] = "drop"    -> Drop(m, a[2])
    [] a[1] = "cqo"     -> Write(m, Reg("rdx"), <<"sign", m.reg["rax"]>>)
    [] a[1] = "idiv"    -> LET x == m.reg["rax"] y == Read(m, a[2])
                           IN [m EXCEPT !.reg["rax"] = Apply("DIVIDE", x, y), !.reg["rdx"] = Apply("MODULO", x, y)]
    [] a[1] = "imul"    -> LET p == Product(m.reg["rax"], Read(m, a[2]))
                           IN [m EXCEPT !.reg["rax"] = p, !.reg["rdx"] = <<"high", p>>]
    [] a[1] = "call"    -> CallReturns(m, a[2], a[3])
    [] a[1] = "ret"     -> [m EXCEPT !.calls = Append(@, <<<<"label", "return">>, <<m.reg[Arch.return]>>>>)]

-----------------------------------------------------------------------------
(* translateOperand: where the text of an operand points.                   *)
Translate(x) ==
  CASE x \in References -> Location(x)
    [] x[1] = "dyn"     -> <<"offset", Location(x[2])[2]>>
    [] OTHER            -> x

Mov(d, s) == <<<<"mov", d, s>>>>
Push(r) == <<"push", Reg(r)>>
Pop(r)  == <<"pop", Reg(r)>>

(* CALL: the references that are live behind the call are saved, but for    *)
(* those in registers that survive it; on AArch64 neither is what is in the *)
(* register of the result.                                                  *)
SurvivesCall(r) ==
  /\ Location(r)[1] = "reg"
  /\ CalleeSaved(Location(r)[2]) \/ (arch = "AArch64" /\ Location(r) = Reg(Arch.return))

(* A slip, for mutation: the result is kept from before the call, too.      *)
RegsToPreserveAndResult(i) ==
  IF code[i].type # "CALL" \/ i = Len(code) THEN {}
  ELSE {r \in live[i + 1] : ~SurvivesCall(r)}

RegsToPreserve(i) ==
  IF code[i].type # "CALL" \/ i = Len(code) THEN {}
  ELSE {r \in live[i + 1] \ {code[i].result} : ~SurvivesCall(r)}

(* Only registers are pushed, but every reference counts for the offset at  *)
(* which the stored arguments are found.  preserved is the set in the order *)
(* of its iterator.                                                         *)
PushesOf(preserved) ==
  [i \in DOMAIN SelectSeq(preserved, LAMBDA r : ~InSlot(r)) |->
     Push(Location(SelectSeq(preserved, LAMBDA r : ~InSlot(r))[i])[2])]
PopsOf(preserved) == Reverse([i \in DOMAIN PushesOf(preserved) |-> <<"pop", PushesOf(preserved)[i][2]>>])

LoadArguments(n, offset) ==
  [i \in 1 .. n |-> <<"mov", Reg(Arch.parameters[n - i + 1]), <<"slot", offset + i - 1>>>>]

(* On AArch64 fp and lr are kept below everything else.                     *)
BranchAndLink(label, n) ==
  IF arch = "x86_64" THEN <<<<"call", label, n>>>>
  ELSE <<Push("x29"), Push("x30"), <<"mov", Reg("x29"), Reg(Arch.sp)>>, <<"call", label, n>>, Pop("x30"), Pop("x29")>>

CallCode(instr, preserved) ==
  LET n == instr.op2[2]
  IN PushesOf(preserved) \o LoadArguments(n, Len(preserved)) \o BranchAndLink(instr.op1, n)
     \o PopsOf(preserved) \o <<<<"drop", n>>>>

FunctionBeginCode ==
  [i \in DOMAIN SavedByFunction |-> Push(SavedByFunction[i])] \o <<<<"reserve", MaxStackUsage>>>>

(* A slip, for mutation: saved registers are restored in the order in which *)
(* they were saved.                                                         *)
ReturnCodeInOrder(instr) ==
  Mov(Reg(Arch.return), Translate(instr.op1)) \o <<<<"drop", MaxStackUsage>>>>
  \o [i \in DOMAIN SavedByFunction |-> Pop(SavedByFunction[i])] \o <<<<"ret">>>>

ReturnCode(instr) ==
  Mov(Reg(Arch.return), Translate(instr.op1)) \o <<<<"drop", MaxStackUsage>>>>
  \o Reverse([i \in DOMAIN SavedByFunction |-> Pop(SavedByFunction[i])]) \o <<<<"ret">>>>

(****************************************************************************)
(* rsiToNasm.  Two operands: the text does not name op1 where the passes    *)
(* made it equal to the result.                                             *)
(****************************************************************************)
MultiplyCode(d, x, y) ==
  <<Push("rax"), Push("rdx")>>
  \o (IF y = Reg("rax") THEN <<<<"imul", x>>>> ELSE Mov(Reg("rax"), x) \o <<<<"imul", y>>>>)
  \o Mov(d, Reg("rax"))
  \o (IF d = Reg("rdx") THEN <<<<"drop", 1>>>> ELSE <<Pop("rdx")>>)
  \o (IF d = Reg("rax") THEN <<<<"drop", 1>>>> ELSE <<Pop("rax")>>)

ModuloCode(d, x, y) ==
  (IF d = Reg("rax") THEN <<>> ELSE <<Push("rax")>>) \o (IF d = Reg("rdx") THEN <<>> ELSE <<Push("rdx")>>)
  \o Mov(Reg("rax"), x) \o <<<<"cqo">>, <<"idiv", y>>>> \o Mov(d, Reg("rdx"))
  \o (IF d = Reg("rdx") THEN <<>> ELSE <<Pop("rdx")>>) \o (IF d = Reg("rax") THEN <<>> ELSE <<Pop("rax")>>)

DivideCode(y) == <<Push("rdx"), <<"cqo">>, <<"idiv", y>>, Pop("rdx")>>

MemoryAt(x) == <<"mem", Translate(x)[2]>>

(* Text that both architectures share up to mnemonics.                      *)
CommonCode(instr, preserved) ==
  CASE instr.type = "STORE_PARAMETER" -> <<<<"push", Translate(instr.op1)>>>>
    [] instr.type = "STORE_GLOBAL"    -> Mov(instr.op1, Translate(instr.op2))
    [] instr.type = "LOAD_GLOBAL"     -> Mov(Translate(instr.result), instr.op1)
    [] instr.type = "STORE_MEMORY"    -> Mov(MemoryAt(instr.op1), Translate(instr.op2))
    [] instr.type = "LOAD_MEMORY"     -> Mov(Translate(instr.result), MemoryAt(instr.op1))
    [] instr.type = "MOVE"            -> Mov(Translate(instr.result), Translate(instr.op1))
    [] instr.type = "CALL"            -> CallCode(instr, preserved)
    [] instr.type = "FUNCTION_BEGIN"  -> FunctionBeginCode
    [] instr.type = "RETURN"          -> ReturnCode(instr)
    [] OTHER                          -> <<>>   \* NOP, SET_LIVE, LOAD_PARAMETER, labels and jumps

NasmCode(instr, preserved) ==
  LET d == Translate(instr.result)
      x == Translate(instr.op1)
      y == Translate(instr.op2)
  IN CASE instr.type \in {"ADD", "SUBTRACT"}       -> <<<<"binary", instr.type, d, d, y>>>>
       [] instr.type = "MULTIPLY"                  -> MultiplyCode(d, x, y)
       [] instr.type = "DIVIDE"                    -> DivideCode(y)
       [] instr.type = "MODULO"                    -> ModuloCode(d, x, y)
       [] instr.type \in {"NEGATE", "BINARY_NOT"}  -> <<<<"unary", instr.type, d, d>>>>
       [] instr.type = "LOGICAL_NOT"               -> <<<<"unary", instr.type, d, x>>>>
       [] instr.type \in Comparison                -> <<<<"binary", instr.type, d, x, y>>>>
       [] OTHER                                    -> CommonCode(instr, preserved)

(* rsiToAarch64: results and operands are named separately.                 *)
Aarch64Code(instr, preserved) ==
  LET d == Translate(instr.result)
      x == Translate(instr.op1)
      y == Translate(instr.op2)
  IN CASE instr.type \in Unary  -> <<<<"unary", instr.type, d, x>>>>
       [] instr.type \in Binary -> <<<<"binary", instr.type, d, x, y>>>>
       [] OTHER                 -> CommonCode(instr, preserved)

Code(i, preserved) ==
  IF arch = "x86_64" THEN NasmCode(code[i], preserved) ELSE Aarch64Code(code[i], preserved)

(****************************************************************************)
(* Text that no assembler accepts: two operands in memory, memory of        *)
(* unknown size, a part of a register that is a slot (where                 *)
(* nasmRegisterSize.at throws); and on AArch64 any slot, since              *)
(* separateStackVariables runs behind the allocation and its new reference  *)
(* stays without a location.                                                *)
(****************************************************************************)
NasmAccepts(instr) ==
  LET d == InSlot(instr.result)
      x == InSlot(instr.op1)
      y == InSlot(instr.op2)
  IN CASE instr.type \in {"ADD", "SUBTRACT"} -> ~(d /\ y)
       [] instr.type = "MOVE"                -> ~(d /\ x)
       [] instr.type = "MULTIPLY"            -> ~y /\ (x => Location(instr.op2) # Reg("rax"))
       [] instr.type \in {"DIVIDE", "MODULO"} -> ~y
       [] instr.type \in Comparison          -> ~d /\ ~(x /\ y)
       [] instr.type \in {"RETURN", "CALL", "LOAD_PARAMETER", "SET_LIVE"} -> TRUE
       [] OTHER                              -> ~d /\ ~x /\ ~y

AArch64Accepts(i) == code[i].type # "STORE_GLOBAL" /\ \A x \in Operands(i) : ~InSlot(x)

AssemblerAccepts ==
  \A i \in Positions(code) : IF arch = "x86_64" THEN NasmAccepts(code[i]) ELSE AArch64Accepts(i)

(* Where rsiToNasm calls Fatal: a dividend or a quotient has not kept RAX.  *)
DivisionsInRax == arch = "x86_64" => \A i \in Positions(code) : DivisionForm(code[i])

-----------------------------------------------------------------------------
NoGraph == [vertices |-> {}, edges |-> {}, color |-> Nowhere, registers |-> 1, highestID |-> 2]

Init ==
  /\ InitPasses
  /\ live = <<>> /\ next = 0 /\ hasModifiedTheIR = TRUE /\ status = "analyzing"
  /\ Coloring!Start(NoGraph)
  /\ at = 1 /\ meaning = [Unknown EXCEPT !.args = <<>>] /\ garbled = FALSE
  /\ machine = [reg |-> Nowhere, stack |-> <<>>, memory |-> Nowhere, calls |-> <<>>]

Lower == LowerNext /\ UNCHANGED <<analysisVars, colorVars, runVars>>

StartAnalysis ==
  /\ stage = "lowered"
  /\ stage' = "analyzing"
  /\ live' = [i \in Positions(code) |-> {}]
  /\ UNCHANGED <<arch, code, storage, created, pass, position, next, hasModifiedTheIR, status, colorVars, runVars>>

Analyze ==
  /\ stage = "analyzing" /\ ~Liveness!Done
  /\ UNCHANGED <<passVars, colorVars, runVars>>
  /\ Liveness!Next

(****************************************************************************)
(* assignRegistersGraphColoring.  The graph is that of RegisterAllocation,  *)
(* here built at once.  Colours are the registers in order, then the stack  *)
(* pointer, then one for every reference that the generator put in a slot.  *)
(****************************************************************************)
StackPointer == Len(General) + 1

SlotsBefore == SetToSeq({r \in AllReferences : InSlot(r)})

ColorOf(r) ==
  CASE InSlot(r)                  -> StackPointer + SelectInSeq(SlotsBefore, LAMBDA s : s = r)
    [] Location(r) = Reg(Arch.sp) -> StackPointer
    [] OTHER                      -> SelectInSeq(General, LAMBDA g : Reg(g) = Location(r))   \* 0 if it has none

PairsOf(S) == {{u, v} : u, v \in S} \ {{u} : u \in S}

ResultBefore(i) == IF i = 1 THEN {} ELSE Defs(code[i - 1])

InterferenceAt(i) ==
  PairsOf(live[i]) \cup ({{u, v} : u \in ResultBefore(i), v \in live[i]} \ {{u} : u \in live[i]})

InterferenceGraph ==
  [vertices  |-> AllReferences,
   edges     |-> UNION {InterferenceAt(i) : i \in Positions(code)},
   color     |-> [r \in AllReferences |-> ColorOf(r)],
   registers |-> Len(General),
   highestID |-> StackPointer + Len(SlotsBefore) + 1]

StartColoring ==
  /\ stage = "analyzing" /\ Liveness!Done
  /\ IF status = "accepted"
     THEN /\ stage' = "coloring"
          /\ graph' = InterferenceGraph
          /\ color' = InterferenceGraph.color
          /\ removedAt' = [r \in AllReferences |-> 0]
          /\ highestID' = InterferenceGraph.highestID
          /\ UNCHANGED <<level, returning>>
     ELSE /\ stage' = "fatal"
          /\ UNCHANGED colorVars
  /\ UNCHANGED <<arch, code, storage, created, pass, position, analysisVars, runVars>>

(****************************************************************************)
(* std::sort leaves the order of equal keys open.  Every order counts, up   *)
(* to those that come to the same: as long as uncoloured vertices are equal,*)
(* none that is removed is a neighbour of another, so they neither change   *)
(* each other's keys nor see each other on their way back, and what goes    *)
(* first may be that one of them that is first or a neighbour of first.     *)
(* Vertices without neighbours see nobody.                                  *)
(****************************************************************************)
RemoveVertex ==
  LET equal   == {u \in Coloring!InGraph : Coloring!MayBeRemoved(u)}
      first   == CHOOSE u \in equal : TRUE
      noneSee == \A u \in equal : color[u] = Coloring!NoColor \/ Coloring!Neighbours(u) = {}
  IN \E v \in equal :
       /\ noneSee => v = first \/ Coloring!Adjacent(v, first)
       /\ Coloring!RemoveVertex(v)

Color ==
  /\ stage = "coloring"
  /\ \/ ~returning /\ RemoveVertex
     \/ Coloring!ColorLastVertex
     \/ \E v \in graph.vertices :
          Coloring!KeepColor(v) \/ Coloring!TakeFirstFreeColor(v) \/ Coloring!Fail(v)
  /\ UNCHANGED <<passVars, analysisVars, runVars>>

(* Behind colorIn: colours become registers, the stack pointer, or slots in *)
(* the order in which the vertices are visited, which is left open.         *)
SlotColors == {color[r] : r \in graph.vertices} \ (1 .. StackPointer)

LocationOf(c, slotOf) ==
  CASE c \in SlotColors  -> <<"slot", slotOf[c]>>
    [] c = StackPointer  -> Reg(Arch.sp)
    [] OTHER             -> Reg(General[c])

AssignStorage ==
  /\ stage = "coloring" /\ Coloring!Done
  /\ stage' = "assigned"
  /\ \E f \in Bijection(SlotColors, 1 .. Cardinality(SlotColors)) :
       storage' = [r \in graph.vertices |-> LocationOf(color[r], [c \in SlotColors |-> f[c] - 1])]
  /\ UNCHANGED <<arch, code, created, pass, position, analysisVars, colorVars, runVars>>

Assemble ==
  /\ stage = "assigned"
  /\ stage' = IF ~DivisionsInRax THEN "fatal" ELSE IF AssemblerAccepts THEN "running" ELSE "rejected"
  /\ machine' = Boot
  /\ UNCHANGED <<arch, code, storage, created, pass, position, analysisVars, colorVars, at, meaning, garbled>>

-----------------------------------------------------------------------------
(****************************************************************************)
(* Instructions of which the text is known to be wrong, see the README:     *)
(*  - not of a register other than the result's,                            *)
(*  - a divisor in rdx, which cqo overwrites, or for MODULO in rax,         *)
(*  - a slot in a text that has pushed something before,                    *)
(*  - an operand addressed by the stack pointer while arguments are stored, *)
(*  - a call with arguments while a slot is live,                           *)
(*  - no text at all for a parameter that arrives in a register which       *)
(*    colorIn has taken away from its reference,                            *)
(*  - a parameter whose register an instruction in front has overwritten.   *)
(****************************************************************************)
StoredArguments(i) ==
  FoldLeft(LAMBDA n, j : IF code[j].type = "STORE_PARAMETER" THEN n + 1
                         ELSE IF code[j].type = "CALL" THEN n - code[j].op2[2] ELSE n,
           0, [j \in 1 .. i - 1 |-> j])

OnStack(x) == InSlot(x) \/ Location(x) = Reg(Arch.sp)

Displaced(r) == color[r] # graph.color[r]

Misprinted(i) ==
  LET instr == code[i]
  IN \/ arch = "x86_64" /\ instr.type = "BINARY_NOT" /\ Location(instr.result) # Location(instr.op1)
     \/ arch = "x86_64" /\ instr.type = "DIVIDE" /\ Location(instr.op2) = Reg("rdx")
     \/ arch = "x86_64" /\ instr.type = "MODULO" /\ Location(instr.op2) \in {Reg("rdx"), Reg("rax")}
     \/ instr.type \in {"MULTIPLY", "MODULO"} /\ \E x \in Operands(i) : InSlot(x)
     \/ StoredArguments(i) > 0 /\ \E x \in Operands(i) : OnStack(x)
     \/ instr.type = "CALL" /\ instr.op2[2] > 0 /\ \E r \in RegsToPreserve(i) : InSlot(r)
     \/ instr.type = "LOAD_PARAMETER" /\ Displaced(instr.result)
     \/ instr.type = "LOAD_PARAMETER" /\ \E j \in 1 .. i - 1 : Location(code[j].result) = Location(instr.result)

(* A conditional jump may go either way: both sides see the same condition. *)
Execute ==
  /\ stage = "running"
  /\ \E preserved \in SetToSeqs(RegsToPreserve(at)) :
       machine' = FoldLeft(Step, machine, Code(at, preserved))
  /\ meaning' = Do(meaning, code[at])
  /\ garbled' = (garbled \/ Misprinted(at))
  /\ \/ \E j \in Successors(code, at) : at' = j /\ stage' = stage
     \/ code[at].type = "RETURN" /\ stage' = "returned" /\ at' = at
  /\ UNCHANGED <<arch, code, storage, created, pass, position, analysisVars, colorVars>>

Next ==
  \/ Lower \/ StartAnalysis \/ Analyze
  \/ StartColoring \/ Color \/ AssignStorage \/ Assemble
  \/ Execute

Spec == Init /\ [][Next]_vars

-----------------------------------------------------------------------------
(* A term of the meaning, as it appears in the machine.                     *)
FrameTop == 1 + Len(SavedByFunction) + MaxStackUsage

Concrete(t) ==
  CASE t[1] = "offset of" -> <<"offset", Location(t[2])[2]>>
    [] t[1] = "stack"     -> <<"at", FrameTop>>
    [] t[1] = "&"         -> <<"at", FrameTop - Location(t[2])[2]>>
    [] OTHER              -> t

(* Where a reference is, however far the stack has grown since.             *)
Home(r) == IF InSlot(r) THEN StackAt(machine, FrameTop - Location(r)[2]) ELSE Read(machine, Location(r))

ConcreteCalls ==
  [k \in DOMAIN meaning.calls |->
     <<meaning.calls[k][1], [i \in DOMAIN meaning.calls[k][2] |-> Concrete(meaning.calls[k][2][i])]>>]

-----------------------------------------------------------------------------
(* What every instruction promises: whenever an instruction runs, each      *)
(* reference that is live has, where it is kept, the value that the         *)
(* instructions so far give it.                                             *)
ValuesInPlace ==
  stage = "running" => \A r \in live[at] : Home(r) = Concrete(Value(meaning, r))

(* What the register table of the README says of the registers for          *)
(* arguments: every call finds its i-th argument in the i-th of them, in    *)
(* the order of the source, nested calls included; and the caller finds     *)
(* what the function returns in the register for results.                   *)
ArgumentsArrive == stage \in {"running", "returned"} => machine.calls = ConcreteCalls

(* Safety: so both are wherever the allocation puts the references, on both *)
(* architectures, across calls, divisions and multiplications, up to the    *)
(* first misprinted instruction that runs.                                  *)
RunsAsMeantUnlessMisprinted == garbled \/ (ValuesInPlace /\ ArgumentsArrive)

(* Safety: every return, early ones included, leaves the stack pointer and  *)
(* the registers that belong to the caller as they were, misprints or not.  *)
ReturnsCleanly ==
  stage = "returned" =>
    /\ machine.stack = <<Bottom>>
    /\ \A r \in Registers \ {Arch.sp} : CalleeSaved(r) => machine.reg[r] = Entry(r)
==============================================================================
