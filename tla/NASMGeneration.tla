---------------------------- MODULE NASMGeneration ----------------------------
(****************************************************************************)
(* The code that NASMGenerator makes of a function, run on a processor      *)
(* beside the meaning of the syntax tree: registers of eight bytes, of      *)
(* which instructions read and write parts, a stack and byte-wise memory.   *)
(****************************************************************************)
EXTENDS NASMGenerator, Assembly, Bitwise

CONSTANT Sources   \* the functions

VARIABLES
  source,      \* the function
  generated,   \* what VisitFunctionDefinition returns
  at,          \* the instruction that runs next
  registers,
  compared,    \* the operands of the last cmp
  memory,      \* the bytes that have been written
  calls,       \* calls made, with their arguments
  outcome      \* <<>> while the function runs, then what it has returned

vars == <<source, generated, at, registers, compared, memory, calls, outcome>>

code == generated.code
Names == ToSet(CalleeSaved) \cup ToSet(ArgumentRegisters) \cup {"rax", "rsp"}
AtEntry(function) ==
  [r \in Names |->
     IF r = "rsp" THEN Bottom - 8
     ELSE LET i == SelectInSeq(ArgumentRegisters, LAMBDA name : name = r)
          IN IF i \in DOMAIN function.parameters THEN Passed(function, i)
             ELSE Leftover - SelectInSeq(CalleeSaved, LAMBDA name : name = r)]

Init ==
  /\ source \in {s \in {Validated(f) : f \in Sources} : IsAccepted(s)}
  /\ generated = VisitFunctionDefinition(source)
  /\ at = 1
  /\ registers = AtEntry(source)
  /\ compared = <<0, 0>>
  /\ memory = GlobalData(source)
  /\ calls = <<>>
  /\ outcome = <<>>

-----------------------------------------------------------------------------
AddressOfOperand(operand) ==
  IF operand.kind = "data" THEN Address[operand.variable]
  ELSE (registers[operand.base] + operand.displacement) % Modulus

Read(operand) ==
  CASE operand.kind = "register"          -> registers[operand.name] % Values(operand.size)
    [] operand.kind = "number"            -> operand.value % Modulus
    [] operand.kind \in {"memory", "data"} -> Load(memory, AddressOfOperand(operand), operand.size)
    [] OTHER                              -> 0

(* A write to four bytes clears the others, a write to less keeps them.     *)
WriteRegister(file, name, size, x) ==
  [file EXCEPT ![name] = IF size \in {4, 8} THEN x ELSE (@ - (@ % Values(size))) + x]

Holds(condition) ==
  LET a == compared[1]
      b == compared[2]
  IN CASE condition \in {"sete", "je"}   -> a = b
       [] condition \in {"setne", "jne"} -> a # b
       [] condition = "setl"             -> a < b
       [] condition = "setle"            -> a <= b
       [] condition = "setg"             -> a > b
       [] condition = "setge"            -> a >= b
       [] condition = "jmp"              -> TRUE

Arithmetic == [add |-> "ADD", sub |-> "SUBTRACT", imul |-> "MULTIPLY", neg |-> "NEGATE", not |-> "BINARY_NOT"]

Written(instr) ==
  CASE instr.op \in {"mov", "movzx"}     -> Read(instr.from)
    [] instr.op = "movsx"                -> Signed(Values(instr.from.size), Read(instr.from)) % Values(instr.to.size)
    [] instr.op = "lea"                  -> AddressOfOperand(instr.from)
    [] instr.op = "xor"                  -> 0
    [] instr.op = "and"                  -> Read(instr.to) & Read(instr.from)
    [] instr.op \in DOMAIN Arithmetic    -> Compute(Modulus, Arithmetic[instr.op], Read(instr.to), Read(instr.from))
    [] OTHER                             -> Truth(Holds(instr.op))

Running == outcome = <<>> /\ ~generated.refused
Advance == at' = at + 1 /\ UNCHANGED <<source, generated, calls, outcome>>

Moves == {"mov", "movzx", "movsx", "lea", "xor", "and"} \cup DOMAIN Arithmetic \cup {"sete", "setne", "setl", "setle", "setg", "setge"}

WriteToRegister ==
  /\ Running /\ code[at].op \in Moves /\ code[at].to.kind = "register"
  /\ registers' = WriteRegister(registers, code[at].to.name, code[at].to.size, Written(code[at]))
  /\ Advance /\ UNCHANGED <<compared, memory>>

WriteToMemory ==
  /\ Running /\ code[at].op = "mov" /\ code[at].to.kind # "register"
  /\ memory' = Store(memory, AddressOfOperand(code[at].to), code[at].to.size, Read(code[at].from))
  /\ Advance /\ UNCHANGED <<registers, compared>>

Push ==
  /\ Running /\ code[at].op = "push"
  /\ registers' = [registers EXCEPT !["rsp"] = @ - 8]
  /\ memory' = Store(memory, registers["rsp"] - 8, 8, Read(code[at].to))
  /\ Advance /\ UNCHANGED compared

Pop ==
  /\ Running /\ code[at].op = "pop"
  /\ registers' = [registers EXCEPT !["rsp"] = @ + 8, ![code[at].to.name] = Load(memory, registers["rsp"], 8)]
  /\ Advance /\ UNCHANGED <<compared, memory>>

Compare ==
  /\ Running /\ code[at].op = "cmp"
  /\ LET m == Values(code[at].to.size)
     IN compared' = <<Signed(m, Read(code[at].to)), Signed(m, Read(code[at].from))>>
  /\ Advance /\ UNCHANGED <<registers, memory>>

(* One byte is divided in ax, with the remainder in ah; more are divided in *)
(* rax, with the remainder in rdx.                                          *)
Divide ==
  /\ Running /\ code[at].op = "idiv"
  /\ LET size == code[at].to.size
         m == Values(size)
         q == Compute(m, "DIVIDE", registers["rax"] % m, Read(code[at].to))
         r == Compute(m, "MODULO", registers["rax"] % m, Read(code[at].to))
     IN registers' = IF size = 1 THEN WriteRegister(registers, "rax", 2, q + m * r)
                     ELSE WriteRegister(WriteRegister(registers, "rax", size, q), "rdx", size, r)
  /\ Advance /\ UNCHANGED <<compared, memory>>

Branch ==
  /\ Running /\ code[at].op \in {"jmp", "je", "jne", "label"}
  /\ \E i \in DOMAIN code :
       /\ IF code[at].op # "label" /\ Holds(code[at].op) THEN code[i] = Op1("label", code[at].to) ELSE i = at + 1
       /\ at' = i
  /\ UNCHANGED <<source, generated, registers, compared, memory, calls, outcome>>

(* A callee may leave anything in the registers that are not saved, in the  *)
(* upper bytes of rax, and below rsp.                                       *)
Call ==
  /\ Running /\ code[at].op = "call"
  /\ LET types == code[at].from
         passed == [i \in DOMAIN types |-> registers[ArgumentRegisters[i]] % Values(SizeOfType(types[i]))]
         m == ValuesOf(code[at].to)
     IN /\ calls' = Append(calls, <<code[at].to.function, passed>>)
        /\ \E upper \in {0, m} :
             registers' = [r \in Names |->
               CASE r = "rax" -> ((Answer(calls') % m) + upper) % Modulus
                 [] r \in ToSet(ArgumentRegisters) -> Leftover
                 [] OTHER -> registers[r]]
  /\ memory' = AboveStackPointer(memory, registers["rsp"])
  /\ at' = at + 1
  /\ UNCHANGED <<source, generated, compared, outcome>>

Return ==
  /\ Running /\ code[at].op = "ret"
  /\ outcome' = <<registers["rax"] % Values(SizeOfType(source.returns))>>
  /\ registers' = [registers EXCEPT !["rsp"] = @ + 8]
  /\ UNCHANGED <<source, generated, at, compared, memory, calls>>

Next ==
  \/ WriteToRegister \/ WriteToMemory \/ Push \/ Pop \/ Compare \/ Divide
  \/ Branch \/ Call \/ Return

Spec == Init /\ [][Next]_vars

-----------------------------------------------------------------------------
(****************************************************************************)
(* Trees of which the code is known to differ, see the README:              *)
(*  - a value is tested for zero whose upper bytes are not clear,           *)
(*  - something is subtracted from a pointer to less than eight bytes,      *)
(*  - the remainder of two i8,                                              *)
(*  - through a pointer goes a value of fewer bytes than it leads to.       *)
(****************************************************************************)
RECURSIVE UpperBytesInUse(_)
UpperBytesInUse(node) ==
  LET size == SizeOfType(node.semanticType)
  IN size < 8 /\
     CASE node.node = "AstUnary" -> node.type = "BINARY_NOT" \/ (node.type = "NEGATE" /\ UpperBytesInUse(node.value))
       [] node.node = "AstBinary" ->
            \/ node.type \in {"ADD", "SUBTRACT", "MULTIPLY"} \/ (node.type = "MODULO" /\ size < 4)
            \/ node.type = "DIVIDE" /\ (size = 1 \/ (size = 2 /\ UpperBytesInUse(node.left)))
       [] node.node = "AstFunctionCall"          -> TRUE
       [] node.node = "AstAssignment"            -> UpperBytesInUse(node.rvalue) \/ node.rvalue.semanticType # node.semanticType
       [] node.node = "AstConditionalExpression" -> UpperBytesInUse(node.trueExpression) \/ UpperBytesInUse(node.falseExpression)
       [] node.node = "AstTypeConversion" ->
            SizeOfType(node.value.semanticType) <= size /\ size < 4 /\ UpperBytesInUse(node.value)
       [] OTHER -> FALSE

Differs(function) ==
  \E node \in Nodes(function.body) :
    \/ \E tested \in TestedForZero(node) : IsExpression(tested) /\ UpperBytesInUse(tested)
    \/ /\ node.node = "AstBinary" /\ node.type = "SUBTRACT"
       /\ IsPointer(node.left.semanticType) /\ SizeOfType(node.left.semanticType.subtype) < 8
    \/ node.node = "AstBinary" /\ node.type = "MODULO" /\ SizeOfType(node.semanticType) = 1
    \/ /\ node.node = "AstAssignment"
       /\ SizeOfType(node.rvalue.semanticType) < SizeOfType(node.lvalue.semanticType)

-----------------------------------------------------------------------------
(* Safety: rsp is aligned at every call, and when the function returns, rsp *)
(* and the registers that belong to the caller are what they were.          *)
FrameRestored ==
  /\ outcome = <<>> /\ code[at].op = "call" => registers["rsp"] % 16 = 0
  /\ outcome # <<>> /\ (\A node \in Nodes(source.body) : ~LeavesScope(node)) =>
       registers["rsp"] = Bottom /\ \A r \in ToSet(CalleeSaved) : registers[r] = AtEntry(source)[r]

GlobalValue(v) == Load(memory, Address[v], 8)
===============================================================================
