------------------------- MODULE RegisterAllocation --------------------------
(****************************************************************************)
(* The back half of the RSI pipeline as main.cpp runs it on one function:   *)
(* analyzeLiveVariables, the sanity check, assignRegistersGraphColoring and *)
(* enumerateRegisters, and then the allocated function itself.              *)
(*                                                                          *)
(*   analyze  RSILiveness, one instruction at a time                        *)
(*   build    the interference graph, one instruction at a time             *)
(*   color    GraphColoring, one recursive call at a time                   *)
(*   run      the instructions, on registers and stack slots                *)
(*                                                                          *)
(* The run remembers for every location whose value was written there last. *)
(* An instruction that reads a reference must find that reference's own     *)
(* value, on every path through the function; a value that comes from       *)
(* outside, a parameter for one, must still be where it arrived.            *)
(****************************************************************************)
EXTENDS RSI, FiniteSets, Functions

CONSTANT Programs   \* functions with the storage locations their references arrive
                    \* with and the number of registers they may use

(* A storage location is the id of the VertexColor that stands for it: 0 is *)
(* std::monostate, 1 .. k are the k general purpose registers, k + 1 is the *)
(* stack pointer, and every variable whose address is taken arrives in a    *)
(* stack slot, for which addVertexToGraph makes a colour of its own.        *)
StackPointer(k) == k + 1

ASSUME ReferencesFinite == IsFiniteSet(References)
ASSUME ProgramsWellFormed ==
  \A p \in Programs :
    /\ WellFormedFunction(p.code)
    /\ p.registers \in Nat \ {0}
    /\ p.firstFresh \in Nat /\ p.firstFresh > StackPointer(p.registers)
    /\ p.storage \in [References -> 0 .. p.firstFresh - 1]
    /\ \A r, s \in References :
         r # s /\ p.storage[r] > StackPointer(p.registers) => p.storage[r] # p.storage[s]

VARIABLES
  code, live, next, hasModifiedTheIR, status,               \* see RSILiveness
  graph, color, removedAt, level, returning, highestID,     \* see GraphColoring
  stage,
  at,              \* the instruction that is built into the graph, or executed
  storage,         \* Reference::storageLocation
  offset,          \* the byte offset of a spill colour's stack slot
  maxStackUsage,   \* function.meta.maxStackUsage
  holds,           \* whose value a location holds
  lost             \* references announced while their value was not in place

analysisVars == <<code, live, next, hasModifiedTheIR, status>>
colorVars    == <<graph, color, removedAt, level, returning, highestID>>
machineVars  == <<storage, offset, maxStackUsage, holds, lost>>
vars         == <<analysisVars, colorVars, stage, at, machineVars>>

Liveness == INSTANCE RSILiveness WITH Functions <- {p.code : p \in Programs}

(* Every interference graph over the references, as GraphColoring wants it. *)
InterferenceGraphs ==
  {g \in [vertices : SUBSET References, edges : SUBSET SUBSET References,
          color : UNION {[V -> Nat] : V \in SUBSET References},
          registers : Nat \ {0}, highestID : Nat] :
     /\ \A e \in g.edges : \E u, v \in g.vertices : u # v /\ e = {u, v}
     /\ g.highestID > g.registers
     /\ g.color \in [g.vertices -> 0 .. g.highestID - 1]}

Coloring == INSTANCE GraphColoring WITH Vertices <- References, Graphs <- InterferenceGraphs

EmptyGraph(p) ==
  [vertices |-> {}, edges |-> {}, color |-> [r \in {} |-> 0],
   registers |-> p.registers, highestID |-> p.firstFresh]

Init ==
  \E p \in Programs :
    /\ code = p.code
    /\ live = [i \in Positions(p.code) |-> {}]
    /\ next = 0 /\ hasModifiedTheIR = TRUE /\ status = "analyzing"
    /\ Coloring!Start(EmptyGraph(p))
    /\ stage = "analyze"
    /\ at = 1
    /\ storage = p.storage
    /\ offset = [c \in {} |-> 0]
    /\ maxStackUsage = 0
    /\ holds = [c \in {} |-> None]
    /\ lost = {}

-----------------------------------------------------------------------------
Analyze ==
  /\ stage = "analyze" /\ status = "analyzing"
  /\ Liveness!Next
  /\ UNCHANGED <<colorVars, stage, at, machineVars>>

(* A slip, for mutation: the sanity check reports but does not end the      *)
(* compiler.                                                                *)
StartBuildingUnchecked ==
  /\ stage = "analyze" /\ status # "analyzing"
  /\ stage' = "build"
  /\ UNCHANGED <<analysisVars, colorVars, at, machineVars>>

(* Fatal when the sanity check fails, else assignRegistersGraphColoring.    *)
StartBuilding ==
  /\ stage = "analyze" /\ status # "analyzing"
  /\ stage' = IF status = "accepted" THEN "build" ELSE "fatal"
  /\ UNCHANGED <<analysisVars, colorVars, at, machineVars>>

(* The interference that instruction i adds: everything live before it,     *)
(* pairwise, and the previous instruction's result with all of that.        *)
PairsOf(S) == {{u, v} : u, v \in S} \ {{u} : u \in S}

ResultBefore(i) == IF i = 1 THEN {} ELSE Defs(code[i - 1])

(* A slip, for mutation: the previous result is left out, so a result that  *)
(* is never used may overwrite a live value.                                *)
InterferenceOfLive(i) == PairsOf(live[i])

InterferenceAt(i) ==
  PairsOf(live[i]) \cup ({{u, v} : u \in ResultBefore(i), v \in live[i]} \ {{u} : u \in live[i]})

(* addVertexToGraph: the first time a reference occurs it becomes a vertex  *)
(* with the colour of the location it arrived with.                         *)
VerticesWith(i) == graph.vertices \cup Defs(code[i]) \cup Uses(code[i])

(* referenceToVertex.at() of a live reference that is no vertex throws.     *)
BuildInstruction ==
  /\ stage = "build" /\ at <= Len(code)
  /\ stage' = IF UNION InterferenceAt(at) \subseteq VerticesWith(at) THEN stage ELSE "exception"
  /\ graph' = [graph EXCEPT !.vertices = VerticesWith(at),
                            !.edges = @ \cup InterferenceAt(at),
                            !.color = [r \in VerticesWith(at) |-> storage[r]]]
  /\ at' = at + 1
  /\ UNCHANGED <<analysisVars, color, removedAt, level, returning, highestID, machineVars>>

(* interferenceGraph.colorIn(allAssignableColors)                           *)
StartColoring ==
  /\ stage = "build" /\ at > Len(code)
  /\ stage' = "color"
  /\ color' = graph.color
  /\ removedAt' = [r \in graph.vertices |-> 0]
  /\ UNCHANGED <<analysisVars, graph, level, returning, highestID, at, machineVars>>

Color ==
  /\ stage = "color"
  /\ Coloring!Next
  /\ UNCHANGED <<analysisVars, stage, at, machineVars>>

(* After colorIn: a colour that is no register becomes a stack slot, slots  *)
(* follow each other in the order in which the vertices are visited, which  *)
(* is unspecified here; then enumerateRegisters counts 8 bytes for every    *)
(* reference in a slot.                                                     *)
SlotColors == {color[r] : r \in graph.vertices} \ (1 .. StackPointer(graph.registers))

SlotReferences == {r \in graph.vertices : color[r] \in SlotColors}
(* A slip, for mutation: the offset of the last slot is taken for the size  *)
(* of the frame.                                                            *)
StackUsageButOne == 8 * (Cardinality(SlotReferences) - 1)
StackUsage == 8 * Cardinality(SlotReferences)

AssignStorage ==
  /\ stage = "color" /\ Coloring!Done
  /\ storage' = [r \in References |-> IF r \in graph.vertices THEN color[r] ELSE storage[r]]
  /\ \E f \in Bijection(SlotColors, 1 .. Cardinality(SlotColors)) :
       offset' = [c \in SlotColors |-> 8 * (f[c] - 1)]
  /\ maxStackUsage' = StackUsage
  /\ holds' = [c \in {color[r] : r \in graph.vertices} |-> None]
  /\ stage' = "run"
  /\ at' = 1
  /\ UNCHANGED <<analysisVars, colorVars, lost>>

(* The allocated function runs; a conditional jump may go either way.  A    *)
(* SET_LIVE writes nothing: its result is there only if the location is the *)
(* one the value arrives in and still holds what it held at function entry. *)
AsAtEntry(c) ==
  \/ holds[c] = None
  \/ \E i \in Positions(code) :
       code[i].type = "SET_LIVE" /\ holds[c] = code[i].result /\ graph.color[code[i].result] = c

InPlace(d) == storage[d] = graph.color[d] /\ AsAtEntry(storage[d])

Missed(instr)  == {d \in Defs(instr) : instr.type = "SET_LIVE" /\ ~InPlace(d)}
Written(instr) == {storage[d] : d \in Defs(instr) \ Missed(instr)}

Execute ==
  /\ stage = "run"
  /\ holds' = [c \in DOMAIN holds |->
                 IF c \in Written(code[at]) THEN code[at].result ELSE holds[c]]
  /\ lost' = (lost \ Defs(code[at])) \cup Missed(code[at])
  /\ \/ \E j \in Successors(code, at) : at' = j /\ stage' = stage
     \/ code[at].type = "RETURN" /\ stage' = "returned" /\ at' = at
  /\ UNCHANGED <<analysisVars, colorVars, storage, offset, maxStackUsage>>

Next ==
  \/ Analyze \/ StartBuilding \/ BuildInstruction
  \/ StartColoring \/ Color \/ AssignStorage
  \/ Execute

Spec == Init /\ [][Next]_vars

-----------------------------------------------------------------------------
(* Safety: an instruction that reads a reference finds the value last       *)
(* assigned to that reference in its location, whatever path control took:  *)
(* no undefined value is read and no register or slot is overwritten while  *)
(* it is needed.                                                            *)
ReadsOwnValue ==
  stage = "run" => \A r \in Uses(code[at]) \ lost : holds[storage[r]] = r

(* Safety: the sanity check protects the graph construction, whose lookups  *)
(* of live references throw when a reference has not occurred yet.          *)
NoLookupThrows == stage # "exception"

(* Safety: every stack slot lies inside the frame that RSIToAssembly        *)
(* reserves, and two slots never overlap.                                   *)
SlotsFitFrame ==
  stage = "run" =>
    \A c \in DOMAIN offset :
      /\ offset[c] + 8 <= maxStackUsage
      /\ \A d \in DOMAIN offset : c # d => offset[c] + 8 <= offset[d] \/ offset[d] + 8 <= offset[c]

(* Safety: a reference that arrives in a stack slot stays in memory, so     *)
(* that the address resolveAddressOf has taken remains valid.               *)
AddressTakenStaysInMemory ==
  stage = "run" =>
    \A r \in graph.vertices : graph.color[r] > StackPointer(graph.registers) => storage[r] \in DOMAIN offset

(* What the register tables of the README say of parameters, and the        *)
(* comment "keep the color/register" in addVertexToGraph of every reference *)
(* that arrives in a register: whenever one is announced, its value is      *)
(* there.                                                                   *)
ArrivalsFound == lost = {}

HWRegisterKept ==
  stage = "run" =>
    \A r \in graph.vertices : graph.color[r] \in 1 .. graph.registers => storage[r] = graph.color[r]

(* A reference that an announced one is copied into is assigned only there. *)
Announced == {code[i].result : i \in {j \in Positions(code) : code[j].type = "SET_LIVE"}}

CopiesStay ==
  \A i, j \in Positions(code) :
    code[i].op1 \in Announced /\ Defs(code[i]) # {} /\ Defs(code[i]) = Defs(code[j]) => i = j

(* Safety: in a function that takes no variable's address dividends and     *)
(* quotients stay in RAX, parameters and call results in the registers of   *)
(* the calling convention; and as long as no parameter is assigned to, each *)
(* one is still in its register when its LOAD_PARAMETER comes.              *)
HWRegisterKeptWithoutSlots ==
  (\A r \in graph.vertices : graph.color[r] <= StackPointer(graph.registers))
  => HWRegisterKept /\ (CopiesStay => ArrivalsFound)
==============================================================================
