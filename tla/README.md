# R-Sharp in TLA+

This directory specifies the R-Sharp compiler (`src/compiler`) and its test runner (`src/tests/compilerTester.cpp`) in
TLA+: what their parts keep in memory, what their steps do, and what has to hold for a compiled program to mean what its
source says. TLC checks every module on small instances; for seven of the modules TLAPS proves the main theorems for
every instance.

Source paths below are relative to `src/compiler`.

## The system

The compiler is one sequential program (`src/main.cpp`). A run is a pipeline:

    source file -> Tokenizer -> Parser (+ ParsingCache, one Parser per imported file)
      -> SemanticValidator -> one backend:
           NASMCodeGenerator | AArch64CodeGenerator | CCodeGenerator      (tree -> text)
           RSIGenerator -> RSI passes -> rsiToNasm | rsiToAarch64         (tree -> RSI -> text)
      -> gcc / nasm

The parts interact by calls and by shared, mutable data: all parsers of a compilation share one `ParsingCache`; the
validator writes loops, scopes and types into the syntax tree that the backends read; the RSI passes rewrite one
instruction list in place, keep liveness sets in its instructions and storage locations in shared `Reference` objects.
Nothing runs concurrently inside the compiler. What is hard is of another kind: fixpoint loops and recursions whose
result depends on visiting order, state that one traversal leaves for the next (flags, offsets, containers of scopes),
sets computed before a recursive call and used after it, attempts that are taken back, resource limits (registers, stack
slots), and the agreement of separate passes about one layout. The test runner is concurrent: two threads, a child
process, what the child starts, a pipe and a time limit.

| Component | State | Operations | What makes it correct |
|---|---|---|---|
| Tokenizer (`frontend/Tokenizer.cpp`) | position, error flag | read one token, comment or literal | the longest lexeme; it ends |
| Parser (`frontend/Parser.cpp`) | token position, calls that wait, `hasError`, `isRecovering` | parse an expression, a statement, an item; try, take back, recover | accepts exactly the language, gives every sentence its tree, keeps the errors, ends |
| Imports (`frontend/Parser.cpp`, `ParsingCache.cpp`) | running parsers, cache, error flags | parse item, recover, enter, skip and leave an import | every item once, nothing lost, errors reported, cycles end |
| Scopes and stack (`ast/SemanticValidator.cpp`, `ast/VariableSizeInserter.cpp`, `backend/NASMCodeGenerator.cpp`) | context stack, loop stack, frame offsets, rsp | push/pop contexts, break/skip/return, allocate and restore | rsp is right wherever control comes from; visible variables do not overlap |
| Types and names (`ast/SemanticValidator.cpp`) | contexts, functions, types of nodes | declare, look up, compare types, insert conversions | operands of one instruction have one size; a conversion keeps the value |
| NASM and AArch64 generators (`backend/NASMCodeGenerator.cpp`, `AArch64CodeGenerator.cpp`) | text, expected value type, labels | visit a node, print | what the processor does with it is what the tree means; stack and registers of the caller survive |
| RSI generator (`backend/RSIGenerator.cpp`) | instruction list, last result, expected value type | visit a node, emit | the code does what the tree means; labels, operands and results are as the analyses assume |
| RSI passes (`backend/RSIPass.cpp`, `RSIAnalysis.cpp`, `main.cpp`) | instruction list, position | rewrite one instruction | the instructions put in have the effect of the one taken out; the backend accepts the result |
| Liveness (`backend/RSIAnalysis.cpp`, `main.cpp`) | `liveVariablesBefore` of every instruction, a change flag | backward passes until nothing changes; sanity check | the sets are the least solution of the data-flow equations; the loop ends |
| Colouring (`backend/Graph.hpp`) | vertices with colours and neighbours, colour counter | `colorIn`, recursively | neighbours differ; needed registers are kept; spills are private and necessary |
| Register allocation (`backend/RSIAnalysis.cpp`) | interference graph, storage locations, frame size | build, colour, assign slots, enumerate | every read finds the value of the reference it names; slots lie in the frame |
| RSI to assembly (`backend/RSIToAssemply.cpp`, `Architecture.cpp`) | text | print one instruction, prologue, call, return | at every instruction each live value is where the allocation says; arguments arrive; registers of the caller survive |
| C generator (`backend/CCodeGeneror.cpp`) | text | print the tree | the C text means what the tree means |
| Test runner (`src/tests/compilerTester.cpp`) | child process, pipe, watchdog thread, result | start a command, read its output, kill it after a time limit, judge | kills nobody else; every test gets the verdict it deserves, and gets one |

`PROJECT.json` lists the hazards of all parts with their lines.

## Modules

    Tokenizer  <-  ExpressionParser  <-  Parser  <-  Frontend  <-  MCFrontend (INSTANCE Grammar)
    ImportResolution  <-  MCImportResolution, ImportResolutionProofs
    ScopeCleanup      <-  MCScopeCleanup;   ScopeCleanup, FiniteSums  <-  ScopeCleanupProofs
    SemanticTypes  <-  SyntaxTree  <-  CodeGenerator  <-  NASMGenerator, AArch64Generator, Assembly
    NASMGenerator, Assembly     <-  NASMGeneration
    AArch64Generator, Assembly  <-  AArch64Generation
    RSI, SemanticTypes  <-  RSIGenerator;   RSIGenerator, SyntaxTree  <-  RSIGeneration
    Assembly  <-  OutputFormats (INSTANCE RSIGeneration, NASMGeneration, AArch64Generation)  <-  MCOutputFormats
                  (INSTANCE MCRSISources, MCAssemblySources, which build on MCSyntaxTrees)
    RSI  <-  RSILiveness     <-  MCRSILiveness, RSILivenessProofs
             GraphColoring   <-  MCGraphColoring, GraphColoringProofs
    RSI  <-  RegisterAllocation (INSTANCE RSILiveness, GraphColoring)  <-  MCRegisterAllocation,
                  RegisterAllocationProofs (INSTANCE RSILivenessProofs, GraphColoringProofs)
    RSI, Architecture  <-  RSIPasses  <-  RSIToAssembly (INSTANCE RSILiveness, GraphColoring)  <-  MCRSIToAssembly
    RSIToAssembly, FiniteSums  <-  RSIToAssemblyProofs (INSTANCE RSILivenessProofs)
    TestRunner  <-  MCTestRunner, TestRunnerProofs

### The frontend

**Tokenizer** reads a source, a sequence of characters, one token (or comment, blank, error) per step, in the order in
which `nextToken` tries the spellings. A source that ends inside a comment makes the tokenizer run off (`RunOff`, phase
`crashed`): `consumeUntil` (line 112) does not look for the end of the file, and reads and appends until the process dies.

**ExpressionParser** is the recursive descent below statements. A parsing function takes the state of the parser (token,
whether it threw, `hasError`, the trees so far) and returns the one it leaves; `Try` goes back to where the attempt began
but keeps `hasError`, as `getTokenCheckpoint` does, which restores nothing but the token index. `Levels` is the chain of
binary operators.

**Parser** has the statements and program items as actions. Every call of `parseStatement` that waits for a part is a
frame of `stack`; a step parses up to where the next part begins or a statement ends, so that a bad part is caught where
the code catches it. `Recover` is the two `catch` blocks: the first error of a row consumes nothing, every later one a
token, and at the end of the file that is fatal.

**Grammar** is the language as sets of sentences with their trees, after `src/grammar.ebnf` and independent of the parser.
It departs from that file where the tests or the parser do, as its header lists: for instance `grammar.ebnf` allows a
declaration wherever a statement may stand, and the parser, with
`src/tests/invalid/conditional_statements/declare_statement.rs`, refuses it.

**Frontend** puts tokenizer and parser together, one after the other as in `main`, beside the sentences.

**ImportResolution** keeps a stack of parsers, one frame per `Parser` object that is running, and the two containers of
the cache. A file is a sequence of items, imports and unparsable stretches; an item in a program carries the file and
position it was read from, so that two copies of one item can be told from two items of one name. `Paths` and `FileOf`
separate a path as spelled from the file it leads to. The loop over `identifiersToImport` is unrolled: `SkipName`,
`TakeName` and `MissName` are one iteration each, `wanted` is what `remove_if` has left of the identifiers and `next` the
one the loop has come to; nothing else runs meanwhile, since the inner parser is at its end.

**ScopeCleanup** follows one function through three traversals of its tree, which is written as the sequence of tokens in
which a visitor enters and leaves its parts: the validator's context and loop stacks, the offsets of
`VariableSizeInserter`, and the emitted code as far as it moves `rsp` or jumps. `WellNested` says which sequences are
trees of the parser: every part is closed by its own word, an `else` divides an `if`, and a `for` with a declaration is
its variable and its loop and nothing else (`Parser.cpp:494`).

**SemanticTypes** has the syntax tree as records, the types of expressions and the conversions the validator puts into
the tree, one operator per visit (`TypedBinary`, ...). Children are validated first, as by `AstVisitor::visit`. What the
code reports as an error has `ErrorType` here; `IsAccepted` says that there is none. Comparing pointers follows the
code, in which no two pointer types are equal, so that a pointer is "converted" to its own type and `p == q` is refused
(`SemanticValidator.cpp:173`).

### From trees to code

**SyntaxTree** gives an accepted tree its meaning (`Run`, `Meaning`): what the C backend turns it into, with operands
evaluated from left to right as the assembly backends do, and with every operation done modulo the size of its type, where
C would first promote small integers to `int`. A type of `n` bytes has `ByteValues ^ n` values in two's complement. All
three generators are compared with it in everything a caller sees: the calls with their arguments, in order, the value
returned and the globals. `MCSyntaxTrees` has the constructors of trees.

**CodeGenerator** is what the two assembly generators share: operands, labels, frame offsets, `expectedValueType`, and the
scopes that `break`, `skip` and `return` give back. The offsets that `VariableSizeInserter` and the scopes that the
validator compute in passes of their own are computed on the way, which comes to the same because all passes visit
declarations in the same order. **NASMGenerator** and **AArch64Generator** are the text of a function, one operator per
`visit`; an instruction is a record of its mnemonic and operands.

**Assembly** is the memory and stack that such a text runs on; **NASMGeneration** and **AArch64Generation** are the
processors. On x86_64 an instruction may write one or two bytes of a register (the others stay), four (the others are
cleared) or all eight; on AArch64 four or eight. Below the stack pointer, and after a call in the registers of the
callee, nothing is certain. A function is entered with arguments whose unused bytes are in use, and a callee may leave
anything in the upper bytes of its result, as both calling conventions allow.

**RSIGenerator** is the translation of a function from its syntax tree to RSI. A visit takes the state of the generator
(the code so far, `lastResult`, `expectedValueType`, the counter behind unique names, the labels of the loop around) and
returns the state it leaves. **RSIGeneration** runs its code, one instruction per step. RSI has one size of integers, so
that its functions use `i64` and pointers only.

**OutputFormats** is the choice of `main`: one function goes through the generator that the format names, and whichever
that is, one set of properties holds.

Each `Differs` names the trees for which a generator is known to mean something else. Every clause was found by a
counterexample and is needed by the run. For RSI:

* the left operand is a local variable that the right operand assigns, as in `a + (a = 5)`: the generator remembers the
  reference, not its value (10 instead of `a + 5`, reproduced with the compiler);
* the value of an assignment to a global, or through a pointer, is used, as in `a = x = 5`: a store has no result, and the
  backend stops at the empty operand (reproduced with the compiler);
* a `skip` in a do-while loop goes to its beginning and not to its condition, where `continue` in C goes.

For NASM and AArch64:

* a value is tested for zero while its upper bytes are not clear: `cmp rax, 0` (lines 464, 618, 791, 799, 812, 821, 871)
  and `cmp x0, 0` or `cbz` look at eight bytes, whatever the type. The complement of an `i8` that holds -1 is 0 and still
  counts as true, and so does a sum that wraps around or the value of a function. On AArch64 `==` and `!=` compare
  whole registers, too;
* something is subtracted from a pointer: the number is multiplied by the size of the pointer, 8, and not by that of what
  it leads to, which addition does and which `src/tests/valid/pointers/arithmetic/sub.rs` needs to stay in its
  allocation;
* an assignment through a pointer inserts no conversion (`SemanticValidator.cpp:677`), so that an `i32` that goes to an
  `i64` is not extended;
* NASM: the remainder of two `i8` is read from `rdx` (line 722), while `idiv` with a byte leaves it in `ah`;
* AArch64: values of less than eight bytes are put in order, or a remainder of them is taken, without extending their
  sign (`AArch64CodeGenerator.cpp:534`).

A `skip` in a loop without a declaration leaves a scope on the stack on both machines, see `ScopeCleanup`; `FrameRestored`
excepts such functions, `CodeMeansSource` need not, since variables are found from the frame pointer. The frame pointer
itself is not restored for a caller compiled by something else: `FrameRestored` on AArch64 asks for the registers of
`generateFunctionProlouge` only.

### The RSI backend

**RSI** defines instructions, operands, and what a function is that reaches the analyses (`WellFormedFunction`). Only
what the analyses tell apart is kept: which references an instruction writes and reads, labels, jumps. All arithmetic is
`OPERATION`; `SET_LIVE` stands for the two instructions that emit no code.

**RSILiveness** is `analyzeLiveVariables` and the sanity check behind it. One step is one iteration of the inner loop:
`next` is the reverse iterator, `hasModifiedTheIR` the flag. `VisitLabel` also updates the jumps to that label.

**GraphColoring** is `colorIn`. Its recursion is unrolled: `removedAt[v]` is the depth at which `v` left the graph;
`returning` says whether the innermost call was reached. The number of registers belongs to the graph
(`graph.registers`), so that one specification serves functions for both processors. `Rank` and `KeyExceeds` are the order of the packed 64-bit
numbers that `getTriviallyColorableNumber` makes, with the effect of its mask; equal numbers may be sorted either way.

**RegisterAllocation** composes both by `INSTANCE` with the interference graph between them, the slots and frame size
behind them, and a run of the allocated function (`Execute`), in which `holds` remembers for every register and slot
whose value was written there last. A conditional jump goes either way. A `SET_LIVE` announces a value that comes from
outside (a parameter) and writes nothing: the value is there if the reference still has the location it arrived in and
nothing was put there since the function began. `lost` collects the references announced in vain; `ReadsOwnValue` does
not ask for their values, `ArrivalsFound` says that there are none.

**Architecture** lists the registers of both processors by their role.

**RSIPasses** has the rewriting passes in front of the analysis, one operator each (`SeperateDivReferences`, ...), and
`RSIPass::operator()`, of which one action is one iteration. Here instructions keep their types. `Emitted` lists the
instructions that `RSIGenerator` makes, and `IsGenerated` says what its functions are: among other things, that no
operation computes into its own second operand, since every operation asks for a new reference
(`RSIGenerator.cpp:417`, 441, 483, 534, 684, 696, 840, 955). New references carry a number, of which there are as many as
natural numbers, as `makeStringUnique` counts. `Do` gives each instruction a meaning on terms (`<<"ADD", s, t>>`),
independent of any machine, with which `PassesKeepMeaning` compares an instruction and what replaces it.
`BackendsAccept` is about the function that the passes leave; what the allocation can still undo of it is in the module
behind.

**RSIToAssembly** takes a function through the whole RSI backend: passes; liveness by `INSTANCE RSILiveness` over
`AbstractCode`, which forgets what the analysis does not look at; colouring by `INSTANCE GraphColoring` of the
`InterferenceGraph`; `AssignStorage`, which turns colours into registers and slots; and a run. The colouring is `colorIn`
itself: vertices go in the order of their keys and come back in the reverse one, any vertex may be spilled, and a
precoloured one may lose its register. Two orders are open in the code and in the model: that of vertices with equal keys,
and that in which slots are numbered (the graph is a set of pointers). `RemoveVertex` leaves out orders of equal keys that
come to the same. If all equal ones are without a colour, the removal of one lowers the keys of its neighbours and no
others, so that the next one removed is no neighbour: a maximal set of them goes in which no two are adjacent, who
therefore do not see each other on their way back either. Its order does not matter, and it contains any given vertex or
one of its neighbours, which may as well go first. With every order instead, seven of the families of functions in the run
got the same storages.

Behind the colouring, a division that did not keep `rax` is fatal (`DivisionsInRax`), and a function that an assembler
would refuse ends in `rejected`: two operands in memory, for instance, and on AArch64 every slot and every store to a
global, which prints `str x0, [name]` (`RSIToAssemply.cpp:147`). Of the others, `NasmCode` and `Aarch64Code` are the text of
one instruction, as a sequence of processor instructions; `Step` is the processor, with registers, a stack and memory. What
is below the stack pointer, and after a call every register the callee need not keep, is garbage. `Execute` runs the text
of an instruction beside its meaning.

`Misprinted` names the instructions of which the text is wrong, each clause found by a counterexample and needed by the
functions of the run: the complement of a register other than the result's; a divisor that is in `rdx` (or for `MODULO`
in `rax`); a `MULTIPLY` or `MODULO` of a slot, since the text pushes before it addresses it; slots and stack addresses
while arguments for a call are on the stack; a call with arguments while a slot is live; and for a parameter, one whose
reference has lost its register, since `LOAD_PARAMETER` prints nothing, and one whose register an instruction in front has
overwritten (findings 1 and 2). An instruction is misprinted or not for one allocation, so that the same function is
checked under the others. The first misprinted instruction that *runs* sets `garbled`, and up to there, on the same path
too, `RunsAsMeantUnlessMisprinted` must hold; `ReturnsCleanly` must hold behind it as well.

### The test runner

**TestRunner** is one test: `execute` for the library, the compiler and the program, each with a child process, the
process that child may start, the pipe, the main thread and the watchdog thread, and the verdict behind. Every step of
either thread and of every process is an action, so that the child may end between any two of them. `late` is the clock;
`KillGroup` does nothing before the child has called `setpgid` (line 223); a child that closed its output looks like one
that ended until it is waited for. An output is as much of it as has been read; what is beyond `MaxOutput`, in the code
1,000 characters (lines 369-372), is cut off before the comparison, and what the test expects is not (`Validates`).
`VerdictDeserved` is stated for what the runner compares: a program that writes the expected output and goes on beyond
`MaxOutput` passes where just `MaxOutput` is expected, a test that expects more can only fail, and a program that a signal ends
passes where zero is expected, since `WEXITSTATUS` is zero then (`ExitsWith`, line 297).

In every module the operators whose comment begins with "A slip, for mutation" are wrong variants of the operator below
them. No specification uses them; `PROJECT.json` names, for each property, the variant that breaks it.

## Runs

| Run | Bounds | Shows |
|---|---|---|
| `frontend` | 17,600 texts: all words of up to three tokens in an expression, all expressions of five tokens and statements of seven, programs of two items, conditionals nested once, all of these shorter ones with a token missing, added or replaced; all texts of four characters over those that begin or end comments, literals, operators and a keyword | the parser accepts the language and nothing else and builds its trees; errors are kept; lexemes are the longest; parsing ends |
| `imports` | three files, five paths, two imports in the main file and up to one (or two bad items) in the others, imports that list a name twice and files that define one twice | no duplicates, nothing lost or unasked, errors reported, termination |
| `imports_names` (violation) | as above | a second import by name from one file is skipped |
| `scopes` | two nested loops of all four kinds, braced or not, each left by break, skip, return or not at all | the stack pointer, acceptance of exits, disjoint variables |
| `scopes_skip` (violation) | one while loop with a skip | variables stay on the stack |
| `formats` | 9,700 functions. For RSI two operators around three operands, each of which may assign, store or call, nested calls, conditionals, pointers and loops; for NASM and AArch64 every operator on every pair of integer types, tests for zero, wherever they happen, of values made in nineteen ways, operands and arguments with calls and assignments in them, pointers, all kinds of loops with all exits, blocks left early | form of the RSI code; sizes of operands; the meaning of the code; stack and registers at calls and returns; the code ends |
| `liveness` | all functions of five instructions over two references and one label that jump; all textual orders of two labels and two conditional jumps | the analysis ends, never marks too much, and is exact |
| `coloring` | all graphs on four vertices, two registers, every vertex uncoloured, precoloured or the stack pointer | properness, private and necessary spills, kept registers, termination |
| `allocation` | functions with three parameters, division, call, loop, branch, address on eight registers, with both calling conventions; all functions of one shape with a loop on one register, with slot variables | each read finds its value; registers of the calling convention are kept; slots, frame and look-ups |
| `allocation_arrival` (violation) | one function that assigns to a parameter before it reads it, one with a slot variable, four parameters and a division | a later parameter is no longer, or not looked for, where it arrived |
| `assembly` | 137 functions of the shapes in `MCRSIToAssembly`: products, quotients and remainders combined in all ways, nested calls, branches, a loop, pointers, globals, slots of variables and of parameters beside arithmetic and calls, and more values than registers; on x86_64 or AArch64 with five general purpose registers each | values in place, arguments, returns, meaning of the passes, form of the result, wherever the colouring puts the references |
| `test_runner` | libraries, compilers and programs that end with various codes, by a signal or never, write more than the pipe holds, close their output, start a process they wait for or leave behind; programs that write up to three units, of which `MaxOutput`, two, are compared, and tests that expect one to three; tests that expect an exit code, a failure, or are skipped | nobody else is killed; verdicts are deserved; there always is one |

Why the bounds are enough to be interesting. Frontend: three tokens in an expression hold every pair of neighbours and
every unfinished operator, five the precedence of two operators and a conditional; seven tokens of statement are the least
for a do-while loop and a chain with `elif`, and a slip in a block of six is followed by enough tokens for a second error
in a row, the case in which recovery consumes. Numbers that do not fit are those of more than `MaxDigits` digits. Imports:
three files are the least in which a cycle does not go through the main file. Scopes: two loops are the least in which an
inner loop can disturb what the outer one remembers; sizes are powers of two, so that no two sets of scopes have the same
size. `StackLimit` bounds how far a wrong stack pointer is followed, since a leaking loop would go on forever; a correct
frame of these functions is smaller. Formats: three operands with two operators are the least in which a result is kept
across a short circuit. `RSIByteValues` 2 makes an `i64` of 256 values, which tells those of the operands apart; with
`ByteValues` 4 an `i8` is -2 .. 1, an `i64` has 65,536 values and TLC's arithmetic does not overflow; arguments are chosen
at both sides of zero and with a zero in their lowest byte only. The stack has 1,024 bytes, of which no function needs a
quarter; variables lie 80 bytes apart, so that no address arithmetic leads from one to the next. No terminating function
of the run needs more rounds than `Fuel` or more calls than `MaxCalls`, which only stop those that do not end. Liveness: five
instructions hold a loop with a use before its definition; the eight-instruction family holds nested, crossing and
reversed loops, which need several passes. Colouring: with two registers four vertices contain the complete graph, so
that two spills are forced, and every pattern in which a precoloured vertex is removed before or after its neighbours.
Assembly: five registers per processor: on x86_64 one callee-saved register, the two that division and multiplication take
and two parameter registers, on AArch64 three parameter registers, one of them that of the result, and two callee-saved
ones, so that every special case of the text occurs; among them are all registers that the passes prescribe for these functions, without which
`HWRegisterToColor.at` would throw, which the real lists of registers exclude. The functions reach misprinted
instructions of every kind, rejected functions, a division that lost `rax` and a parameter that lost its register. Test
runner: a pipe that holds one unit makes a child that writes two wait for its reader; outputs below, at and above
`MaxOutput` meet expectations of all three.

The passing runs restrict a property only where the code is known to fail it, and the restriction is part of the
property: `HWRegisterKeptWithoutSlots`, `ItemsOnce` (one spelling per file), `ImportsDeliver` (the names of an import from
whose file nothing else imports), `StackBalancedIfBraced`, `RunsAsMeantUnlessMisprinted`, those that ask for `~Differs`,
`ParsingEnds` (`CommentsAreClosed`), `VerdictDeserved` (`ExitsWith`, `Truncated`) and `RunnerEnds` (`OutOfReach`, a library that
hangs). The runs that expect a violation check the unrestricted statement that a comment in the code makes; each was
reproduced with the compiler itself.

Deadlock is checked in `frontend`, where `Ended` stutters in the three phases in which the frontend may stop; the other
systems have no such step and simply stop when they are done.

Fairness is weak: a sequential program that has a next step takes it. `Fairness` of `Frontend` says this of the tokenizer
by `WF` and of the parser in the form that needs no `ENABLED`: it does not stay in the phase `parsing` without steps of
`Parse`; no state of that phase is without one, or TLC would report a deadlock. In `OutputFormats` the processor runs on,
and `CodeEnds` asks only that the code ends where the tree does. In `TestRunner` the kernel schedules both threads and
every process and time passes, each with its own weak fairness; a process that hangs has no step to be fair to.
`ScopeCleanup`, `RegisterAllocation` and `RSIToAssembly` state no liveness: their functions may loop.

## Proofs

`RSILivenessProofs` proves for every well-formed function, over any sets of references and labels:

* `NeverTooMuch` and `Exact`: the sets are always below, and at the end equal to, the least solution. The equations need
  not hold in the middle of a pass, so the invariant says *where* they hold: as long as the flag is clear, at every
  instruction the current pass has visited (`Settled`). Each visit erases the result from a set that earlier passes
  filled, so `DefsExposed` is needed: a live result is also read by the same instruction, and erasing it takes nothing
  away that is not put back. `OnlyNeeded` is inductive by itself.
* `SetsOnlyGrow`: no step takes a reference out of a set. It follows from `DefsExposed`.
* `TypeCorrect`.

`GraphColoringProofs` proves for every finite interference graph and every number of registers:

* `Proper`, `PrivateSpills`, `PressureOnly`, `LoneKept`, `TypeCorrect`, from one inductive invariant. `Depths` says that
  every depth of the recursion belongs to one vertex, so that what comes back is what was removed; `Fresh` keeps the
  colour counter above all colours; `Surrounded` keeps the neighbours of a spilled vertex occupied while the rest of the
  graph returns; `LoneRemoved` says that a precoloured vertex leaves the graph only after all its neighbours, which is
  the effect of the mask in `getTriviallyColorableNumber` and the reason why it finds its colour free.

`TestRunnerProofs` proves for all commands a test may consist of, every size of the pipe and every `MaxOutput`:

* `NoStranger` and `Deserved`, from one inductive invariant. Neither property is inductive: that the watchdog never
  kills a child that was waited for rests on the order of `join`, `waitpid` and the return (`InOrder`). That a verdict is
  deserved needs that no output is lost between child, pipe and result (`NothingLost`), that a child that has ended came
  to its own end or was killed when the time was up (`EndsOrIsKilled`), and what the commands before the current one did
  (`Before`).

`RegisterAllocationProofs` proves for every set of well-formed functions, every number of registers, every storage that
references arrive with and every order in which slots are handed out:

* `OwnValuesRead`, `LookupsSucceed`, `SlotsFit`, `AddressesStay`, from one inductive invariant. It contains the
  invariants of the two algorithms (`RSILivenessProofs` and `GraphColoringProofs` by `INSTANCE`), so that nothing about
  them is proved twice: a step of the pipeline is a step of one of them or leaves its variables alone. Between them stand
  what the graph holds after `n` instructions (`Built`) and, while the function runs, `Own`: *every live* reference, not
  only those about to be read, is in its location. `Own` needs three facts of different phases: what an instruction
  writes interferes with everything live behind it (the graph), interfering references have different colours (the
  colouring), and what is live behind an instruction is live in front of it or written by it (the data-flow equations).
  `LookupsSucceed` needs the sanity check: live references occur earlier in the text. It does *not* follow from the
  equations alone.
* `RegistersKept`: where no two references interfere that arrive in registers or slots, each keeps its register. The
  condition is on the graph that was built; the run `allocation` checks for functions without slots that this and more
  holds (`HWRegisterKeptWithoutSlots`), which is no theorem for arbitrary functions, since a function may name two
  references that need one register at once.

`ImportResolutionProofs` proves for all projects, of any number of files, paths and names:

* `ItemsComeOnce`. Only names that the cache knows are skipped, so the invariant has to say why everything else is
  different: `Origin` (nothing in any program comes from a part of a file that is still to be read) makes a parsed item
  new; `Apart` says that two running parsers have an item in common only while the outer one takes names over, and then
  the cache knows the name, which is what the test in the loop (line 326) looks at. `Chain` (a waiting parser stands at
  the import of the next one, and no path is parsed by two) is why cycles do not disturb this.
* `ErrorsComeOut`: as long as no parser has an error, every unparsable statement of an opened file is still in front of
  a running parser (`ErrorsKnown`), and at the end there is nothing in front of the last one.
* `NothingElseComes`, from `Asked`.
* `ImportsBring`. For wildcard imports `ReadIsThere` (an item of an opened file is unread or in a program; an import is
  unread or its file is open) makes the set of opened files closed, hence all of `Reachable`; `Opened` is the other
  direction. For the only import from a file, `Delivering` follows the statement of the main file: before it the file is
  closed, at it the names wanted, known and taken agree, behind it all names are there.

`ScopeCleanupProofs` proves for every set of well nested function bodies, of any length and depth:

* `StackIsBalanced`, `BreaksAccepted`, `NoOverlap`, from one inductive invariant. The three passes meet the same tokens at
  different times, so the invariant relates each of them to what is open at its token, which depends on the function
  only: `Validated` says that the contexts list the open scopes and `loops` the loops around, from outer to inner, and
  that what has been noted at the exits is right; `Placed`, that the offset is what the visible variables take and every
  variable stands on top of those that were visible at its declaration; `Balanced`, that `rsp` is below by what the open
  scopes take. What a break finds is the innermost *marked* context. In braces, no two loops, one in the other, have
  the same innermost scope, so the context that the end of a loop unmarks is no other loop's (`ToldOfLeft`); without
  braces this is false, hence the condition `Braced` of two of the theorems. `NoOverlap` holds without it. A `skip` in a
  loop without a declaration is the finding of `scopes_skip`, hence `SkipsOnlyForDeclarations`.
* The first part has what is open where (`OpenNext`, `HeadsNext`), from the levels in `WellNested`. This and the sums
  are inductions. The induction theorems of the library take a predicate, which the provers cannot instantiate, but a set
  of counterexamples has a least element (`LeastNatural`) or a least part (`LeastPart`), and sets they can: `FiniteSums`
  proves in this way that the sums of `MapThenSumSet` do not depend on the order of adding (`SumTakesOut`), add up over
  sets that have nothing in common (`SumOfUnion`, `SumOfSums`) and do not shrink with the set (`SumOfPart`).

`RSIToAssemblyProofs` proves for every function that `RSIGenerator` emits, of any length, for both architectures and for
any number of new references:

* `PassesEstablishForms`: behind the passes no instruction has a form that the analyses or the backends refuse
  (`BackendsAccept`). The property speaks of the end only, so the inductive invariant (`PassesInvariant`) says for each
  pass what holds in the instructions it is *through* with, and that the passes behind it keep it (`PassesDone`, with
  `Establishes` and `Through`). Here the order of the list in `main.cpp` counts: `ResolveAddressOf` puts an offset, a
  constant, into an instruction, so it must come before `MoveConstantsToReferences`; what the passes in front of that one
  insert has no constants except in a `MOVE`, which may keep them; a division must have its registers before
  `MakeTwoOperandCompatible` replaces the first operand by the result, both of which are in `rax` by then. That replacement
  overwrites the result before the second operand is read, which is why `Shaped` has `ResultIsNew` and each pass must keep
  it. A rewriting is looked at twice: as an insertion into the list, which is the same for all passes (`Spliced`: what is
  in front stays, what is behind moves; labels stay unique, jumps find them, the return stays last), and as the few
  instructions that it inserts, pass by pass.
* `PassesPreserveMeaning`: every rewriting keeps the meaning of the instruction it replaces (`PassesKeepMeaning`). The
  instructions that a rewriting leaves, at most four, are carried out on terms one after the other. That a temporary does
  no harm is not visible in them: it rests on the invariant, by which no reference numbered beyond `created` occurs in the
  function (`Known`). What `FoldLeft` over one to four instructions comes to is proved from the definition of the fold,
  once more with a least counterexample (`Meaning` of n instructions is `Do` of the last on that of the others).
* The steps of `RSIToAssembly` behind the passes, those of `colorIn` among them, leave the instructions alone (`PassesStep`),
  so that both theorems hold of the whole pipeline. What the invariant says of storage locations it says up to the
  allocation only (`BeforeAllocation`), which may take registers away.
* `LoweredIsAnalyzedExactly`: what the passes leave is a function that `RSILivenessProofs` assumes (`Flows`, from the
  invariant), so its invariant holds of the analysis inside the pipeline (`AnalysisInPlace`, by `INSTANCE` with
  `AbstractCode` for the code): the sets that the allocation and the calls use are the least solution for the rewritten
  function, and a function that was let through needs nothing at its entry.

The assumptions are those of the modules: operands of different kinds are different, functions are well formed and, for
the passes, as the generator emits them (`ProgramsAreGenerated`); function bodies are well nested, the references of a
function are finitely many (not for the passes), there is at least one register, edges join different vertices of finite graphs, a pipe
holds something, exit codes, `Signal` and `Never` differ, paths lead to files, the main file exists and at most two
spellings lead to one file. TLC evaluates all of them. The inductive invariants of `ImportResolution`,
`ScopeCleanup` and the passes hold in all states of the runs `imports`, `scopes` and `assembly`, too.

Only model-checked, and why: all liveness (TLAPS does not prove liveness under fairness); `HWRegisterKeptWithoutSlots`
(above); of `RSIToAssembly` the runs of the text on the processor: `ReturnsCleanly`, for which what every
text does to the stack would have to be followed instruction by instruction, and of a store through a pointer also that
its address was not left in a register by another reference; and `RunsAsMeantUnlessMisprinted`, whose list of misprints
is what the functions of the run need and not known to be complete for all functions. `Tokenizer`
and the modules that extend it, `Grammar`, `SemanticTypes`, `SyntaxTree` and the generators follow texts and trees with
recursive operators, about which TLAPS proves nothing.

## Findings

1. `RSIAnalysis.cpp:339`: every parameter is copied out of its register right where it is announced, and before that the
   register counts as free, so that a function that assigns to a parameter before it reads it may overwrite another one
   (`allocation_arrival`). `f(n, m) { n = m; k = m; return n; }` on AArch64 moves `n` to `x1` before it reads `m` there.
2. `Graph.hpp:213`: a reference that arrives in a hardware register can lose it, if a variable's address is taken
   (`allocation_arrival`).
3. `Parser.cpp:14` and `278`: an import by name makes later imports by name from the same file void (`imports_names`).
4. `SemanticValidator.cpp:467`: `skip` leaves one scope too many on the stack (`scopes_skip`).

Known without a run of their own:

- the clauses of `Misprinted`. One is the complement of a value that is used again: `a = ~n; return a + n;` prints
  `not` of a register to which nothing has moved `n` (`RSIToAssemply.cpp:439`), because `RSIAnalysis.cpp:202` lets
  only `NEGATE` through. One is the divisor in `rdx`: `c / c + a * b` in a function of three parameters makes the
  compiler print `cqo` and then `idiv rdx`. One is a call while a variable lives in a stack slot:
  `RSIToAssemply.cpp:628` then loads every argument from one place too far;
- the trees that the three `Differs` name;
- `Tokenizer.cpp:112`: an unterminated comment is scanned until the memory is used up;
- an escaped quote passes the tokenizer and is refused by the parser, which does not know that escape sequence;
- expressions in nested parentheses take time that doubles with every level: `parseExpression` tries an assignment first,
  which parses the whole operand before it throws;
- a declaration with an error ends the block it is in (`Parser.cpp:425`): the `parseStatement` around catches it, and the
  rest of the block is read as if it came after;
- an error at the end of the file that follows another one consumes a token that does not exist, which is fatal;
- `compilerTester.cpp:297`: a program that a signal ends counts as one that returned 0, so that a test that expects 0
  may pass (`ExitsWith`; no comment or document says otherwise, so there is no run that expects a violation);
- `compilerTester.cpp:223` and `288`: a child that is to be killed before it is a group, or that hangs after it has closed
  its output, is never killed and waited for forever (`OutOfReach`); the library is compiled without a time limit;
- `ParsingCache.cpp:17`, where equivalent paths are computed and not used, so that a file imported under two spellings
  is there twice (`ItemsOnce` is restricted to one spelling);
- loops that are bodies of loops without braces, which share one `hasLoopCurrently` flag, so that a `break` behind the
  inner loop is rejected or cleans up too much;
- a `while` loop whose body is a bare `skip`, which makes the validator throw `std::length_error` (`VisitExitThrows`).

## Not modelled

How names are declared and looked up. Arrays, in every part behind the parser. Of the RSI generator: arithmetic with
pointers, where it stops with "Not implemented!", and conversions between sizes, for which it emits nothing. Of the
assembly generators: loops whose body is not a block, which `ScopeCleanup` has; divisions by zero; on AArch64 the alignment
of `sp` between calls, which qemu does not check and real hardware would (local variables are not padded to sixteen
bytes). Of the RSI backend: `separateStackVariables`, which runs on AArch64 behind the allocation and leaves a reference
without a location, so that a function with a slot never assembles there (`AssemblerAccepts`); alignment of the stack;
callees that change globals; calls with more arguments than there are argument registers (which `VisitFunctionCall` of the
assembly generators refuses, and the functions of `formats` do not make). Of the tokenizer and parser:
lines, columns and the wording of errors. Of the test runner: how it reads from comments what a test expects. File and process handling in `main`. The text of the C backend,
which prints the tree. Storage sizes other than as numbers of bytes.

## Plan

Done, the parts that decide most about a compiled program first: the RSI chain, with proofs of `RSIPasses`,
`RSILiveness`, `GraphColoring` and `RegisterAllocation`; `ImportResolution` and `ScopeCleanup`, with proofs; types, trees and the three
generators under `OutputFormats`; the frontend; the test runner, with proofs. Next:

1. Theorems: `ReturnsCleanly`; that copies which stay make
   `ArrivalsFound` true where arrivals are apart.
2. The functions that `RSIGenerator` makes in place of those of `MCRSIToAssembly`.
3. Names of the validator; arrays in types, trees and generators.
4. An abstract machine with one location per reference, which `RegisterAllocation` and `RSIToAssembly` implement.
