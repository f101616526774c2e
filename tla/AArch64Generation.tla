--------------------------- MODULE AArch64Generation ---------------------------
(****************************************************************************)
(* The code that AArch64Generator makes of a function, run on a processor   *)
(* beside the meaning of the syntax tree: registers of eight bytes, of      *)
(* which an instruction on the lower half clears the upper, a stack and     *)
(* byte-wise memory.  The processor does not mind a stack pointer that is   *)
(* not aligned when it is used, as the emulator that the tests use.         *)
(****************************************************************************)
EXTENDS AArch64Generator, Assembly, Bitwise

CONSTANT Sources   \* the functions

VARIABLES
  source,      \* the function
  generated,   \* what VisitFunctionDefinition returns
  at,          \* the instruction that runs next
  registers,
  compared,    \* the operands of the last cmp
  memory,      \* the bytes that have been written
  calls,       \* calls made, with their arguments
  outcome      \* <<>> while the function runs, then what it has returned

vars == <<source, generated, at, registers, compared, memory, calls, outcome>>

code == generated.code

Scratch == {<<"x", k>> : k \in 0 .. 9}
Names == Scratch \cup ToSet(CalleeSaved) \cup {FP.name, LR.name, SP.name}

AtEntry(function) ==
  [r \in Names |->
     CASE r = SP.name                          -> Bottom
       [] r[2] + 1 \in DOMAIN function.parameters -> Passed(function, r[2] + 1)
       [] OTHER                                -> Leftover - r[2]]

Init ==
  /\ source \in {s \in {Validated(f) : f \in Sources} : IsAccepted(s)}
  /\ generated = VisitFunctionDefinition(source)
  /\ at = 1
  /\ registers = AtEntry(source)
  /\ compared = <<0, 0>>
  /\ memory = GlobalData(source)
  /\ calls = <<>>
  /\ outcome = <<>>

-----------------------------------------------------------------------------
AddressOfOperand(operand) == (registers[operand.base] + operand.displacement) % Modulus

Read(operand) ==
  CASE operand.kind = "register" -> registers[operand.name] % Values(operand.size)
    [] operand.kind = "number"   -> operand.value % Modulus
    [] operand.kind = "memory"   -> Load(memory, AddressOfOperand(operand), operand.size)
    [] operand.kind = "data"     -> Address[operand.variable]

Holds(condition) ==
  LET a == compared[1]
      b == compared[2]
  IN CASE condition = "eq" -> a = b
       [] condition = "ne" -> a # b
       [] condition = "lt" -> a < b
       [] condition = "le" -> a <= b
       [] condition = "gt" -> a > b
       [] condition = "ge" -> a >= b

Arithmetic == [add |-> "ADD", sub |-> "SUBTRACT", mul |-> "MULTIPLY", sdiv |-> "DIVIDE", neg |-> "NEGATE", mvn |-> "BINARY_NOT"]
Extensions == [sxtb |-> 1, sxth |-> 2, sxtw |-> 4]

(* Sixteen bits of a register are replaced.                                 *)
MoveAndKeep(x, chunk, i) == x - ((x \div Values(2 * i)) % Values(2)) * Values(2 * i) + chunk * Values(2 * i)

Written(instr) ==
  LET m == Values(instr.to.size)
      a(i) == Read(instr.from[i])
  IN CASE instr.op \in {"mov", "movz"}       -> a(1)
       [] instr.op = "movk"                  -> MoveAndKeep(Read(instr.to), a(1), a(2))
       [] instr.op \in {"ldr", "ldr="}       -> Read(instr.from)
       [] instr.op \in DOMAIN Extensions     -> Signed(Values(Extensions[instr.op]), a(1) % Values(Extensions[instr.op])) % m
       [] instr.op = "and"                   -> a(1) & a(2)
       [] instr.op = "madd"                  -> (a(3) + Compute(m, "MULTIPLY", a(1), a(2))) % m
       [] instr.op = "msub"                  -> (a(3) - Compute(m, "MULTIPLY", a(1), a(2))) % m
       [] instr.op \in DOMAIN Arithmetic     -> Compute(m, Arithmetic[instr.op], a(1), IF Len(instr.from) = 2 THEN a(2) ELSE 0)
       [] instr.op = "cset"                  -> Truth(Holds(instr.from))

Running == outcome = <<>> /\ ~generated.refused
Advance == at' = at + 1 /\ UNCHANGED <<source, generated, calls, outcome>>

Control == {"cbz", "cbnz", "b", "bl", "label", "ret"}
Stores == {"str", "push", "pop", "stp", "ldp", "cmp"}

WriteToRegister ==
  /\ Running /\ code[at].op \notin Control \cup Stores
  /\ registers' = [registers EXCEPT ![code[at].to.name] = Written(code[at])]
  /\ Advance /\ UNCHANGED <<compared, memory>>

WriteToMemory ==
  /\ Running /\ code[at].op = "str"
  /\ memory' = Store(memory, AddressOfOperand(code[at].to), code[at].to.size, Read(code[at].from[1]))
  /\ Advance /\ UNCHANGED <<registers, compared>>

(* The macro push: a register takes sixteen bytes.                          *)
Push ==
  /\ Running /\ code[at].op = "push"
  /\ registers' = [registers EXCEPT ![SP.name] = @ - 16]
  /\ memory' = Store(memory, registers[SP.name] - 16, 8, Read(code[at].to))
  /\ Advance /\ UNCHANGED compared

Pop ==
  /\ Running /\ code[at].op = "pop"
  /\ registers' = [registers EXCEPT ![SP.name] = @ + 16, ![code[at].to.name] = Load(memory, registers[SP.name], 8)]
  /\ Advance /\ UNCHANGED <<compared, memory>>

StorePair ==
  /\ Running /\ code[at].op = "stp"
  /\ LET place == registers[SP.name] - 16
     IN /\ registers' = [registers EXCEPT ![SP.name] = place]
        /\ memory' = Store(Store(memory, place, 8, Read(code[at].from[1])), place + 8, 8, Read(code[at].from[2]))
  /\ Advance /\ UNCHANGED compared

LoadPair ==
  /\ Running /\ code[at].op = "ldp"
  /\ LET place == registers[SP.name]
     IN registers' = [registers EXCEPT ![SP.name] = place + 16, ![code[at].from[1].name] = Load(memory, place, 8),
                                       ![code[at].from[2].name] = Load(memory, place + 8, 8)]
  /\ Advance /\ UNCHANGED <<compared, memory>>

Compare ==
  /\ Running /\ code[at].op = "cmp"
  /\ compared' = [i \in 1 .. 2 |-> Signed(Modulus, Read(code[at].from[i]))]
  /\ Advance /\ UNCHANGED <<registers, memory>>

Jumps(instr) ==
  CASE instr.op = "b"    -> TRUE
    [] instr.op = "cbz"  -> Read(instr.from[1]) = 0
    [] instr.op = "cbnz" -> Read(instr.from[1]) # 0
    [] OTHER             -> FALSE

Branch ==
  /\ Running /\ code[at].op \in {"b", "cbz", "cbnz", "label"}
  /\ \E i \in DOMAIN code :
       /\ IF Jumps(code[at]) THEN code[i].op = "label" /\ code[i].to = code[at].to ELSE i = at + 1
       /\ at' = i
  /\ UNCHANGED <<source, generated, registers, compared, memory, calls, outcome>>

(* A callee may leave anything in the scratch registers, in the upper bytes *)
(* of x0, below sp, and, as it is compiled alike, in the frame pointer.     *)
Call ==
  /\ Running /\ code[at].op = "bl"
  /\ LET types == code[at].from
         passed == [i \in DOMAIN types |-> registers[<<"x", i - 1>>] % Values(SizeOfType(types[i]))]
         m == ValuesOf(code[at].to)
     IN /\ calls' = Append(calls, <<code[at].to.function, passed>>)
        /\ \E upper \in {0, m} :
             registers' = [r \in Names |->
               CASE r = X(0).name -> ((Answer(calls') % m) + upper) % Modulus
                 [] r \in Scratch \cup {FP.name, LR.name} -> Leftover
                 [] OTHER -> registers[r]]
  /\ memory' = AboveStackPointer(memory, registers[SP.name])
  /\ at' = at + 1
  /\ UNCHANGED <<source, generated, compared, outcome>>

Return ==
  /\ Running /\ code[at].op = "ret"
  /\ outcome' = <<registers[X(0).name] % Values(SizeOfType(source.returns))>>
  /\ UNCHANGED <<source, generated, at, registers, compared, memory, calls>>

Next ==
  \/ WriteToRegister \/ WriteToMemory \/ Push \/ Pop \/ StorePair \/ LoadPair
  \/ Compare \/ Branch \/ Call \/ Return

Spec == Init /\ [][Next]_vars

-----------------------------------------------------------------------------
(****************************************************************************)
(* Trees of which the code is known to differ, see the README:              *)
(*  - a value is tested for zero or equality whose upper bytes are not      *)
(*    clear,                                                                *)
(*  - values of less than eight bytes are put in order, or a remainder of   *)
(*    them is taken: their sign is not extended,                            *)
(*  - something is subtracted from a pointer to less than eight bytes,      *)
(*  - through a pointer goes a value of fewer bytes than it leads to.       *)
(****************************************************************************)
RECURSIVE UpperBytesInUse(_)
UpperBytesInUse(node) ==
  LET size == SizeOfType(node.semanticType)
  IN size < 8 /\
     CASE node.node = "AstUnary" -> node.type # "LOGICAL_NOT"
       [] node.node = "AstBinary" ->
            node.type \in {"ADD", "SUBTRACT", "MULTIPLY", "MODULO"} \/ (node.type = "DIVIDE" /\ size < 4)
       [] node.node = "AstFunctionCall"          -> TRUE
       [] node.node = "AstAssignment"            -> UpperBytesInUse(node.rvalue) \/ node.rvalue.semanticType # node.semanticType
       [] node.node = "AstConditionalExpression" -> UpperBytesInUse(node.trueExpression) \/ UpperBytesInUse(node.falseExpression)
       [] node.node = "AstTypeConversion" ->
            LET origin == SizeOfType(node.value.semanticType)
            IN origin <= size /\ size < 4 /\ (origin < size \/ UpperBytesInUse(node.value))
       [] OTHER -> FALSE

Compared(node) ==
  TestedForZero(node) \cup IF node.node = "AstBinary" /\ node.type \in {"EQUAL", "NOT_EQUAL"} THEN {node.left, node.right} ELSE {}

Differs(function) ==
  \E node \in Nodes(function.body) :
    \/ \E tested \in Compared(node) : IsExpression(tested) /\ UpperBytesInUse(tested)
    \/ /\ node.node = "AstBinary"
       /\ node.type \in {"LESS_THAN", "LESS_THAN_OR_EQUAL", "GREATER_THAN", "GREATER_THAN_OR_EQUAL", "MODULO"}
       /\ SizeOfType(node.left.semanticType) < 8
    \/ /\ node.node = "AstBinary" /\ node.type = "SUBTRACT"
       /\ IsPointer(node.left.semanticType) /\ SizeOfType(node.left.semanticType.subtype) < 8
    \/ /\ node.node = "AstAssignment"
       /\ SizeOfType(node.rvalue.semanticType) < SizeOfType(node.lvalue.semanticType)

-----------------------------------------------------------------------------
(* Safety: sp is aligned at every call, and when the function returns, sp,  *)
(* the return address and the registers that belong to the caller are what  *)
(* they were.  The frame pointer is not: every call of this generator saves *)
(* it itself.                                                               *)
FrameRestored ==
  /\ outcome = <<>> /\ code[at].op = "bl" => registers[SP.name] % 16 = 0
  /\ outcome # <<>> /\ (\A node \in Nodes(source.body) : ~LeavesScope(node)) =>
       \A r \in ToSet(CalleeSaved) \cup {LR.name, SP.name} : registers[r] = AtEntry(source)[r]

GlobalValue(v) == Load(memory, Address[v], 8)
===============================================================================
