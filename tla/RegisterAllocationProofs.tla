----------------------- MODULE RegisterAllocationProofs -----------------------
(****************************************************************************)
(* Proofs about RegisterAllocation, for every set of well-formed functions, *)
(* every number of registers and every storage the references arrive with.  *)
(* What RSILivenessProofs and GraphColoringProofs show of the two           *)
(* algorithms is carried over to the pipeline that runs them.               *)
(****************************************************************************)
EXTENDS RegisterAllocation, FiniteSetTheorems, TLAPS

LP == INSTANCE RSILivenessProofs WITH Functions <- {p.code : p \in Programs}
CP == INSTANCE GraphColoringProofs WITH Vertices <- References, Graphs <- InterferenceGraphs

-----------------------------------------------------------------------------
(* The vocabulary of the instances is that of the modules themselves.       *)
LEMMA SameFiniteSets ==
  /\ \A S : CP!IsFiniteSet(S) <=> IsFiniteSet(S)
  /\ \A S : CP!Cardinality(S) = Coloring!Cardinality(S)
<1>1. \A S : CP!IsFiniteSet(S) <=> IsFiniteSet(S)
  BY DEF CP!IsFiniteSet, IsFiniteSet
<1>2. \A S : CP!Cardinality(S) = Coloring!Cardinality(S)
  BY DEF CP!Cardinality, Coloring!Cardinality
<1>3. QED
  BY <1>1, <1>2

LEMMA SameColoring ==
  /\ CP!Next <=> Coloring!Next
  /\ CP!Done <=> Coloring!Done
  BY SameFiniteSets
  DEF CP!Next, Coloring!Next, CP!Done, Coloring!Done,
      CP!RemoveVertex, Coloring!RemoveVertex, CP!InGraph, Coloring!InGraph,
      CP!MayBeRemoved, Coloring!MayBeRemoved, CP!KeyExceeds, Coloring!KeyExceeds,
      CP!Rank, Coloring!Rank, CP!NoColor, Coloring!NoColor,
      CP!ColoredNeighbours, Coloring!ColoredNeighbours,
      CP!UncoloredNeighbours, Coloring!UncoloredNeighbours,
      CP!Neighbours, Coloring!Neighbours, CP!Adjacent, Coloring!Adjacent,
      CP!ColorLastVertex, Coloring!ColorLastVertex, CP!KeepColor, Coloring!KeepColor,
      CP!TakeFirstFreeColor, Coloring!TakeFirstFreeColor, CP!Fail, Coloring!Fail,
      CP!PutBack, Coloring!PutBack, CP!KeepsColor, Coloring!KeepsColor,
      CP!TakesColor, Coloring!TakesColor, CP!NeighbourColors, Coloring!NeighbourColors,
      CP!FreeColors, Coloring!FreeColors, CP!K, Coloring!K

LEMMA SameInstructions ==
  /\ \A c : LP!Positions(c) = Positions(c)
  /\ \A instr : LP!Uses(instr) = Uses(instr) /\ LP!Defs(instr) = Defs(instr)
  /\ \A x, y : LP!JumpsTo(x, y) <=> JumpsTo(x, y)
  /\ \A c : LP!WellFormedFunction(c) <=> WellFormedFunction(c)
<1>1. \A c : LP!Positions(c) = Positions(c)
  BY DEF LP!Positions, Positions
<1>2. \A instr : LP!Uses(instr) = Uses(instr) /\ LP!Defs(instr) = Defs(instr)
  BY DEF LP!Uses, Uses, LP!Defs, Defs
<1>3. \A x, y : LP!JumpsTo(x, y) <=> JumpsTo(x, y)
  BY DEF LP!JumpsTo, JumpsTo, LP!IsJump, IsJump
<1>4. \A x : (LP!IsJump(x) <=> IsJump(x)) /\ (LP!WellFormedInstruction(x) <=> WellFormedInstruction(x))
  BY DEF LP!IsJump, IsJump, LP!WellFormedInstruction, WellFormedInstruction
<1>5. LP!Instruction = Instruction
  BY DEF LP!Instruction, Instruction, LP!InstructionType, InstructionType, LP!Operand, Operand
<1>6. \A c : LP!WellFormedFunction(c) <=> WellFormedFunction(c)
  BY <1>1, <1>3, <1>4, <1>5 DEF LP!WellFormedFunction, WellFormedFunction
<1>7. QED
  BY <1>1, <1>2, <1>3, <1>6

LEMMA SameLiveness ==
  LP!Next <=> Liveness!Next
  BY DEF LP!Next, Liveness!Next,
     LP!StartPass, Liveness!StartPass, LP!SanityCheck, Liveness!SanityCheck,
     LP!VisitInstruction, Liveness!VisitInstruction, LP!VisitLabel, Liveness!VisitLabel,
     LP!Transfer, Liveness!Transfer, LP!LiveAfter, Liveness!LiveAfter,
     LP!Uses, Liveness!Uses, LP!Defs, Liveness!Defs, LP!JumpsTo, Liveness!JumpsTo,
     LP!IsJump, Liveness!IsJump, LP!Positions, Liveness!Positions

(* The instances' assumptions hold.                                         *)
LEMMA FunctionsAreWellFormed == \A c \in {p.code : p \in Programs} : LP!WellFormedFunction(c)
  BY SameInstructions, ProgramsWellFormed

LEMMA GraphsAreInterference == \A g \in InterferenceGraphs : CP!IsInterferenceGraph(g)
<1> SUFFICES ASSUME NEW g \in InterferenceGraphs PROVE CP!IsInterferenceGraph(g)
  OBVIOUS
<1>1. /\ g.vertices \subseteq References /\ g.edges \in SUBSET SUBSET References
      /\ g.registers \in Nat \ {0} /\ g.highestID \in Nat /\ g.highestID > g.registers
      /\ g.color \in [g.vertices -> 0 .. g.highestID - 1]
      /\ \A e \in g.edges : \E u, v \in g.vertices : u # v /\ e = {u, v}
  BY DEF InterferenceGraphs
<1>2. IsFiniteSet(g.vertices)
  BY <1>1, FS_Subset, ReferencesFinite
<1>3. g.edges \in SUBSET SUBSET g.vertices
  <2>1. \A e \in g.edges : e \subseteq g.vertices
    BY <1>1
  <2>2. QED
    BY <2>1
<1>4. QED
  BY <1>1, <1>2, <1>3, SameFiniteSets DEF CP!IsInterferenceGraph

-----------------------------------------------------------------------------
(* The two algorithms' invariants, in the words of this module.             *)
LEMMA AnalysisStep == LP!IInv /\ [Liveness!Next]_analysisVars => LP!IInv'
  BY LP!StepIInv, FunctionsAreWellFormed, OperandKinds, SameLiveness DEF analysisVars, LP!analysisVars

LEMMA ColoringStep == CP!IInv /\ [Coloring!Next]_colorVars => CP!IInv'
  BY CP!StepIInv, GraphsAreInterference, SameColoring DEF colorVars, CP!colorVars

LEMMA ColoringStarts == CP!Init => CP!IInv
  BY CP!InitIInv, GraphsAreInterference

LEMMA ColoringStartsNext == (CP!Init => CP!IInv)'
  BY ColoringStarts, PTL

LEMMA Analyzed ==
  ASSUME LP!IInv
  PROVE  /\ WellFormedFunction(code)
         /\ code \in Seq(Instruction) /\ Len(code) \in Nat \ {0}
         /\ live \in [Positions(code) -> SUBSET References]
         /\ \A i \in Positions(code) : /\ code[i] \in Instruction
                                       /\ IsJump(code[i]) => Defs(code[i]) = {}
<1>1. WellFormedFunction(code) /\ live \in [Positions(code) -> SUBSET References]
  BY SameInstructions DEF LP!IInv, LP!TypeOK
<1>2. /\ code \in Seq(Instruction) /\ Len(code) > 0
      /\ \A i \in Positions(code) : WellFormedInstruction(code[i])
  BY <1>1 DEF WellFormedFunction
<1>3. \A i \in Positions(code) : code[i] \in Instruction
  BY <1>2 DEF Positions
<1>4. \A i \in Positions(code) : IsJump(code[i]) => code[i].result = None
  BY <1>2, <1>3 DEF IsJump, WellFormedInstruction, Instruction, InstructionType
<1>5. QED
  BY <1>1, <1>2, <1>3, <1>4, OperandKinds DEF Defs

(* A function that was accepted needs nothing at its entry, and its sets    *)
(* solve the data-flow equations.                                           *)
LEMMA Accepted ==
  ASSUME LP!IInv, status = "accepted"
  PROVE  /\ live[1] = {}
         /\ \A i \in Positions(code) : Uses(code[i]) \subseteq live[i]
         /\ \A i \in Positions(code) : i # Len(code) => live[i + 1] \ Defs(code[i]) \subseteq live[i]
         /\ \A i, j \in Positions(code) : JumpsTo(code[i], code[j]) => live[j] \subseteq live[i]
<1>1. live[1] = {}
  BY DEF LP!IInv, LP!Judged
<1>2. \A i \in LP!Positions(code) : LP!EquationsHoldAt(i)
  BY LP!DoneEquations, FunctionsAreWellFormed, OperandKinds DEF LP!Done
<1>3. QED
  BY <1>1, <1>2, SameInstructions DEF LP!EquationsHoldAt, LP!LiveAfter

(* When the last call of colorIn has returned, adjacent vertices differ,    *)
(* every vertex has a colour, and none was moved from one register to       *)
(* another.                                                                 *)
LEMMA Colored ==
  ASSUME CP!IInv, Coloring!Done
  PROVE  /\ graph \in InterferenceGraphs /\ color \in [graph.vertices -> Nat]
         /\ \A v \in graph.vertices : color[v] # 0
         /\ \A u, v \in graph.vertices : {u, v} \in graph.edges => color[u] # color[v]
         /\ \A v \in graph.vertices :
              graph.color[v] # 0 => color[v] = graph.color[v] \/ color[v] >= graph.highestID
<1>1. returning /\ level = 0
  BY DEF Coloring!Done
<1>2. CP!InGraph = graph.vertices
  BY <1>1 DEF CP!IInv, CP!TypeOK, CP!Depths, CP!InGraph
<1>3. \A u \in graph.vertices :
        color[u] # CP!NoColor /\ \A v \in CP!Neighbours(u) : color[u] # color[v]
  BY <1>1, <1>2 DEF CP!IInv, CP!ProperColoring
<1>4. \A u, v \in graph.vertices : {u, v} \in graph.edges => v \in CP!Neighbours(u)
  <2>1. \A u, v : {u, v} = {v, u}
    OBVIOUS
  <2>2. QED
    BY <1>2, <2>1 DEF CP!Neighbours, CP!Adjacent
<1>5. QED
  BY <1>3, <1>4 DEF CP!IInv, CP!TypeOK, CP!NoColor, CP!KeptOrSpilled, CP!IsSpill

-----------------------------------------------------------------------------
(****************************************************************************)
(* The inductive invariant.                                                 *)
(*   StageType    : there is no lookup that throws, and only accepted       *)
(*                  functions get beyond the sanity check.                  *)
(*   GraphType    : the graph is one that colorIn may be given.             *)
(*   BeforeColors : the colouring has not begun, every location a reference *)
(*                  arrives in has been handed out already.                 *)
(*   GraphBuilt   : the instructions visited so far have contributed their  *)
(*                  references and their interference; whatever is live at  *)
(*                  the next one is a vertex already.                       *)
(*   Placed       : the run finds the references where colorIn put them.    *)
(*   Own          : a live reference's location holds its own value, unless *)
(*                  it was not there when the reference was announced.      *)
(****************************************************************************)
Finished == {"color", "run", "returned"}

StageType ==
  /\ stage \in {"analyze", "fatal", "build"} \cup Finished
  /\ stage \notin {"analyze", "fatal"} => status = "accepted"
  /\ stage = "build" => at \in 1 .. Len(code) + 1
  /\ stage = "run" => at \in Positions(code)

GraphType ==
  /\ graph \in InterferenceGraphs
  /\ graph.highestID > StackPointer(graph.registers)

BeforeColors ==
  stage \notin Finished =>
    /\ level = 0 /\ returning = FALSE /\ highestID = graph.highestID
    /\ storage \in [References -> 0 .. graph.highestID - 1]

Built(n) ==
  \A i \in Positions(code) :
    i <= n => /\ Defs(code[i]) \cup Uses(code[i]) \cup live[i] \subseteq graph.vertices
              /\ InterferenceAt(i) \subseteq graph.edges

GraphBuilt ==
  /\ stage = "analyze" => at = 1
  /\ stage = "build" => Built(at - 1) /\ (at <= Len(code) => live[at] \subseteq graph.vertices)
  /\ stage \in Finished => Built(Len(code)) /\ CP!IInv

Placed ==
  stage = "run" =>
    /\ Coloring!Done
    /\ \A r \in graph.vertices : storage[r] = color[r] /\ storage[r] \in DOMAIN holds

Own == stage = "run" => \A r \in live[at] \ lost : holds[storage[r]] = r

IInv ==
  /\ LP!IInv
  /\ StageType /\ GraphType /\ BeforeColors /\ GraphBuilt /\ Placed /\ Own
  /\ SlotsFitFrame /\ AddressTakenStaysInMemory

-----------------------------------------------------------------------------
LEMMA EmptyGraphFacts ==
  ASSUME NEW p \in Programs
  PROVE  /\ EmptyGraph(p) \in InterferenceGraphs
         /\ EmptyGraph(p).highestID = p.firstFresh /\ EmptyGraph(p).registers = p.registers
         /\ p.firstFresh > StackPointer(p.registers)
<1> DEFINE g == EmptyGraph(p)
<1>1. /\ p.registers \in Nat \ {0} /\ p.firstFresh \in Nat
      /\ p.firstFresh > StackPointer(p.registers)
  BY ProgramsWellFormed
<1>2. /\ g.vertices = {} /\ g.edges = {} /\ g.color = [r \in {} |-> 0]
      /\ g.registers = p.registers /\ g.highestID = p.firstFresh
  BY DEF EmptyGraph
<1>3. [r \in {} |-> 0] \in [{} -> Nat] /\ [r \in {} |-> 0] \in [{} -> 0 .. p.firstFresh - 1]
  OBVIOUS
<1>4. g \in [vertices : SUBSET References, edges : SUBSET SUBSET References,
             color : UNION {[V -> Nat] : V \in SUBSET References},
             registers : Nat \ {0}, highestID : Nat]
  BY <1>1, <1>3 DEF EmptyGraph
<1>5. p.firstFresh > p.registers
  BY <1>1 DEF StackPointer
<1>6. QED
  BY <1>1, <1>2, <1>3, <1>4, <1>5 DEF InterferenceGraphs

LEMMA InitIInv == Init => IInv
<1> SUFFICES ASSUME NEW p \in Programs,
                    code = p.code,
                    live = [i \in Positions(p.code) |-> {}],
                    next = 0, hasModifiedTheIR = TRUE, status = "analyzing",
                    Coloring!Start(EmptyGraph(p)),
                    stage = "analyze", at = 1, storage = p.storage
             PROVE  IInv
  BY DEF Init
<1>1. LP!IInv
  <2>1. LP!Init
    BY SameInstructions DEF LP!Init
  <2>2. QED
    BY <2>1, LP!InitIInv, FunctionsAreWellFormed, OperandKinds
<1>2. /\ graph = EmptyGraph(p) /\ level = 0 /\ returning = FALSE
      /\ highestID = graph.highestID
  BY DEF Coloring!Start
<1>3. StageType /\ GraphBuilt /\ Placed /\ Own /\ SlotsFitFrame /\ AddressTakenStaysInMemory
  BY DEF StageType, GraphBuilt, Placed, Own, SlotsFitFrame, AddressTakenStaysInMemory, Finished
<1>4. GraphType
  BY <1>2, EmptyGraphFacts DEF GraphType
<1>5. BeforeColors
  BY <1>2, EmptyGraphFacts, ProgramsWellFormed DEF BeforeColors
<1>6. QED
  BY <1>1, <1>3, <1>4, <1>5 DEF IInv

-----------------------------------------------------------------------------
LEMMA AnalyzeIInv ==
  ASSUME IInv, Analyze
  PROVE  IInv'
<1>1. /\ stage = "analyze" /\ stage' = stage /\ at' = at /\ graph' = graph /\ level' = level
      /\ returning' = returning /\ highestID' = highestID /\ storage' = storage
      /\ Liveness!Next
  BY DEF Analyze, colorVars, machineVars
<1>2. LP!IInv'
  BY <1>1, AnalysisStep DEF IInv
<1>3. StageType' /\ GraphType' /\ BeforeColors' /\ GraphBuilt'
  BY <1>1 DEF IInv, StageType, GraphType, BeforeColors, GraphBuilt, Finished
<1>4. Placed' /\ Own' /\ SlotsFitFrame' /\ AddressTakenStaysInMemory'
  BY <1>1 DEF Placed, Own, SlotsFitFrame, AddressTakenStaysInMemory
<1>5. QED
  BY <1>2, <1>3, <1>4 DEF IInv

(* The steps that leave the analysis' result alone.                         *)
LEMMA AnalysisKept ==
  ASSUME IInv, UNCHANGED analysisVars
  PROVE  /\ LP!IInv'
         /\ code' = code /\ live' = live /\ status' = status
         /\ \A i : InterferenceAt(i)' = InterferenceAt(i)
<1>1. LP!IInv'
  BY AnalysisStep DEF IInv
<1>2. code' = code /\ live' = live /\ status' = status
  BY DEF analysisVars
<1>3. QED
  BY <1>1, <1>2 DEF InterferenceAt, PairsOf, ResultBefore

LEMMA StartBuildingIInv ==
  ASSUME IInv, StartBuilding
  PROVE  IInv'
<1>1. /\ stage = "analyze" /\ status # "analyzing"
      /\ stage' = IF status = "accepted" THEN "build" ELSE "fatal"
      /\ UNCHANGED analysisVars
      /\ at' = at /\ graph' = graph /\ level' = level
      /\ returning' = returning /\ highestID' = highestID /\ storage' = storage
  BY DEF StartBuilding, colorVars, machineVars
<1>2. /\ LP!IInv' /\ code' = code /\ live' = live /\ status' = status
      /\ at = 1 /\ Len(code) \in Nat \ {0}
  BY <1>1, AnalysisKept, Analyzed DEF IInv, GraphBuilt
<1>3. status = "accepted" => live[1] = {}
  BY Accepted DEF IInv
<1>4. StageType' /\ GraphType' /\ BeforeColors'
  BY <1>1, <1>2 DEF IInv, StageType, GraphType, BeforeColors, Finished
<1>5. GraphBuilt'
  BY <1>1, <1>2, <1>3 DEF GraphBuilt, Built, Finished, Positions
<1>6. Placed' /\ Own' /\ SlotsFitFrame' /\ AddressTakenStaysInMemory'
  BY <1>1 DEF Placed, Own, SlotsFitFrame, AddressTakenStaysInMemory
<1>7. QED
  BY <1>2, <1>4, <1>5, <1>6 DEF IInv

-----------------------------------------------------------------------------
(* An edge joins different vertices, one of which is live.                  *)
LEMMA InterferencePairs ==
  ASSUME NEW i, NEW e \in InterferenceAt(i)
  PROVE  \E u \in live[i] \cup ResultBefore(i), v \in live[i] : u # v /\ e = {u, v}
  BY DEF InterferenceAt, PairsOf

LEMMA BuildInstructionIInv ==
  ASSUME IInv, BuildInstruction
  PROVE  IInv'
<1> DEFINE V == VerticesWith(at)
           E == InterferenceAt(at)
           c == [r \in V |-> storage[r]]
<1>1. /\ stage = "build" /\ at <= Len(code) /\ at' = at + 1
      /\ stage' = IF UNION E \subseteq V THEN stage ELSE "exception"
      /\ graph' = [graph EXCEPT !.vertices = V, !.edges = @ \cup E, !.color = c]
      /\ UNCHANGED analysisVars
      /\ level' = level /\ returning' = returning /\ highestID' = highestID /\ storage' = storage
  BY DEF BuildInstruction, machineVars
<1>2. /\ LP!IInv' /\ code' = code /\ live' = live /\ status' = status /\ status = "accepted"
      /\ \A i : InterferenceAt(i)' = InterferenceAt(i)
  BY <1>1, AnalysisKept DEF IInv, StageType
<1>3. /\ Len(code) \in Nat \ {0} /\ at \in Positions(code) /\ at \in Nat
      /\ live \in [Positions(code) -> SUBSET References]
  BY <1>1, Analyzed DEF IInv, StageType, Positions
<1>4. /\ graph \in InterferenceGraphs /\ graph.vertices \subseteq References
      /\ graph.highestID > StackPointer(graph.registers)
      /\ storage \in [References -> 0 .. graph.highestID - 1]
      /\ level = 0 /\ returning = FALSE /\ highestID = graph.highestID
  BY <1>1 DEF IInv, GraphType, BeforeColors, InterferenceGraphs, Finished
<1>5. /\ V \in SUBSET References /\ graph.vertices \subseteq V
      /\ Defs(code[at]) \cup Uses(code[at]) \subseteq V
      /\ c \in [V -> 0 .. graph.highestID - 1]
  BY <1>4 DEF VerticesWith, Defs, Uses
<1>6. Built(at - 1) /\ live[at] \subseteq graph.vertices
  BY <1>1 DEF IInv, GraphBuilt
<1>7. ResultBefore(at) \subseteq graph.vertices
  BY <1>3, <1>6 DEF ResultBefore, Built, Positions
<1>8. \A e \in E : \E u, v \in V : u # v /\ e = {u, v}
  BY <1>5, <1>6, <1>7, InterferencePairs
<1>9. /\ graph' \in InterferenceGraphs /\ graph'.vertices = V
      /\ graph'.edges = graph.edges \cup E
      /\ graph'.registers = graph.registers /\ graph'.highestID = graph.highestID
  <2> DEFINE Records == [vertices : SUBSET References, edges : SUBSET SUBSET References,
                         color : UNION {[W -> Nat] : W \in SUBSET References},
                         registers : Nat \ {0}, highestID : Nat]
  <2> HIDE DEF V, E, c
  <2>1. /\ graph \in Records /\ graph.highestID > graph.registers
        /\ \A e \in graph.edges : \E u, v \in graph.vertices : u # v /\ e = {u, v}
    BY <1>4 DEF InterferenceGraphs
  <2>2. /\ graph'.vertices = V /\ graph'.edges = graph.edges \cup E /\ graph'.color = c
        /\ graph'.registers = graph.registers /\ graph'.highestID = graph.highestID
        /\ graph' = [vertices |-> V, edges |-> graph.edges \cup E, color |-> c,
                     registers |-> graph.registers, highestID |-> graph.highestID]
    BY <1>1, <2>1
  <2>3. c \in [V -> Nat]
    BY <1>5, <2>1
  <2>4. c \in UNION {[W -> Nat] : W \in SUBSET References}
    BY <1>5, <2>3
  <2>5. graph.edges \cup E \in SUBSET SUBSET References
    <3>1. \A e \in E : e \subseteq References
      BY <1>5, <1>8
    <3>2. QED
      BY <2>1, <3>1
  <2>6. graph' \in Records
    BY <1>5, <2>1, <2>2, <2>4, <2>5
  <2>7. \A e \in graph'.edges : \E u, v \in graph'.vertices : u # v /\ e = {u, v}
    BY <1>5, <1>8, <2>1, <2>2
  <2>8. QED
    BY <1>5, <2>1, <2>2, <2>6, <2>7 DEF InterferenceGraphs
<1>10. stage' = "build"
  <2>1. UNION E \subseteq V
    BY <1>8
  <2>2. QED
    BY <1>1, <2>1
<1>11. StageType' /\ GraphType' /\ BeforeColors'
  BY <1>1, <1>2, <1>3, <1>4, <1>9, <1>10 DEF StageType, GraphType, BeforeColors, Finished
<1>12. GraphBuilt'
  <2>1. ASSUME NEW i \in Positions(code), i <= at
        PROVE  /\ Defs(code[i]) \cup Uses(code[i]) \cup live[i] \subseteq V
               /\ InterferenceAt(i) \subseteq graph.edges \cup E
    <3>1. CASE i = at
      BY <1>5, <1>6, <3>1
    <3>2. CASE i # at
      <4>1. i <= at - 1
        BY <1>3, <2>1, <3>2 DEF Positions
      <4>2. QED
        BY <1>5, <1>6, <4>1 DEF Built
    <3>3. QED
      BY <3>1, <3>2
  <2> HIDE DEF V, E
  <2>2. at + 1 <= Len(code) => live[at + 1] \subseteq V
    <3> SUFFICES ASSUME at + 1 <= Len(code) PROVE live[at + 1] \subseteq V
      OBVIOUS
    <3>1. live[at + 1] \ Defs(code[at]) \subseteq live[at]
      BY <1>2, <1>3, Accepted DEF IInv
    <3>2. QED
      BY <1>5, <1>6, <3>1
  <2>3. at' - 1 = at
    BY <1>1, <1>3
  <2>4. QED
    BY <1>1, <1>2, <1>9, <1>10, <2>1, <2>2, <2>3 DEF GraphBuilt, Built, Finished
<1>13. Placed' /\ Own' /\ SlotsFitFrame' /\ AddressTakenStaysInMemory'
  BY <1>10 DEF Placed, Own, SlotsFitFrame, AddressTakenStaysInMemory
<1>14. QED
  BY <1>2, <1>11, <1>12, <1>13 DEF IInv

LEMMA StartColoringIInv ==
  ASSUME IInv, StartColoring
  PROVE  IInv'
<1>1. /\ stage = "build" /\ at > Len(code) /\ stage' = "color"
      /\ color' = graph.color /\ removedAt' = [r \in graph.vertices |-> 0]
      /\ graph' = graph /\ level' = level /\ returning' = returning /\ highestID' = highestID
      /\ at' = at /\ storage' = storage /\ UNCHANGED analysisVars
  BY DEF StartColoring, machineVars
<1>2. /\ LP!IInv' /\ code' = code /\ live' = live /\ status' = status /\ status = "accepted"
      /\ \A i : InterferenceAt(i)' = InterferenceAt(i)
  BY <1>1, AnalysisKept DEF IInv, StageType
<1>3. Len(code) \in Nat \ {0} /\ at \in 1 .. Len(code) + 1
  BY <1>1, Analyzed DEF IInv, StageType
<1>4. /\ graph \in InterferenceGraphs
      /\ level = 0 /\ returning = FALSE /\ highestID = graph.highestID
  BY <1>1 DEF IInv, GraphType, BeforeColors, Finished
<1>5. CP!IInv'
  <2>1. CP!Init'
    BY <1>1, <1>4 DEF CP!Init, CP!Start
  <2>2. QED
    BY <2>1, ColoringStartsNext
<1>6. Built(Len(code))
  <2>1. at - 1 = Len(code)
    BY <1>1, <1>3
  <2>2. QED
    BY <1>1, <2>1 DEF IInv, GraphBuilt
<1>7. StageType' /\ GraphType' /\ BeforeColors'
  BY <1>1, <1>2 DEF IInv, StageType, GraphType, BeforeColors, Finished
<1>8. GraphBuilt'
  BY <1>1, <1>2, <1>5, <1>6 DEF GraphBuilt, Built, Finished
<1>9. Placed' /\ Own' /\ SlotsFitFrame' /\ AddressTakenStaysInMemory'
  BY <1>1 DEF Placed, Own, SlotsFitFrame, AddressTakenStaysInMemory
<1>10. QED
  BY <1>2, <1>7, <1>8, <1>9 DEF IInv

LEMMA ColorIInv ==
  ASSUME IInv, Color
  PROVE  IInv'
<1>1. /\ stage = "color" /\ stage' = stage /\ at' = at /\ storage' = storage
      /\ UNCHANGED analysisVars /\ Coloring!Next
  BY DEF Color, machineVars
<1>2. /\ LP!IInv' /\ code' = code /\ live' = live /\ status' = status
      /\ \A i : InterferenceAt(i)' = InterferenceAt(i)
  BY <1>1, AnalysisKept
<1>3. CP!IInv'
  BY <1>1, ColoringStep DEF IInv, GraphBuilt, Finished
<1>4. graph' = graph
  BY <1>1 DEF Coloring!Next, Coloring!RemoveVertex, Coloring!ColorLastVertex, Coloring!KeepColor,
              Coloring!TakeFirstFreeColor, Coloring!Fail, Coloring!PutBack
<1>5. StageType' /\ GraphType' /\ BeforeColors' /\ GraphBuilt'
  BY <1>1, <1>2, <1>3, <1>4
  DEF IInv, StageType, GraphType, BeforeColors, GraphBuilt, Built, Finished
<1>6. Placed' /\ Own' /\ SlotsFitFrame' /\ AddressTakenStaysInMemory'
  BY <1>1 DEF Placed, Own, SlotsFitFrame, AddressTakenStaysInMemory
<1>7. QED
  BY <1>2, <1>5, <1>6 DEF IInv

-----------------------------------------------------------------------------
(* There are no more slots than references in slots.                        *)
LEMMA SlotsCounted ==
  ASSUME CP!IInv, Coloring!Done
  PROVE  /\ Cardinality(SlotColors) \in Nat /\ Cardinality(SlotReferences) \in Nat
         /\ Cardinality(SlotColors) <= Cardinality(SlotReferences)
<1>1. IsFiniteSet(SlotReferences)
  <2>1. graph.vertices \subseteq References /\ SlotReferences \subseteq graph.vertices
    BY Colored DEF InterferenceGraphs, SlotReferences
  <2>2. QED
    BY <2>1, FS_Subset, ReferencesFinite
<1> DEFINE f == [r \in SlotReferences |-> color[r]]
<1>2. f \in Surjection(SlotReferences, SlotColors)
  BY DEF Surjection, SlotReferences, SlotColors
<1>3. IsFiniteSet(SlotColors) /\ Cardinality(SlotColors) <= Cardinality(SlotReferences)
  BY <1>1, <1>2, FS_Surjection
<1>4. QED
  BY <1>1, <1>3, FS_CardinalityType

LEMMA AssignStorageIInv ==
  ASSUME IInv, AssignStorage
  PROVE  IInv'
<1>1. /\ stage = "color" /\ Coloring!Done /\ stage' = "run" /\ at' = 1
      /\ storage' = [r \in References |-> IF r \in graph.vertices THEN color[r] ELSE storage[r]]
      /\ maxStackUsage' = 8 * Cardinality(SlotReferences)
      /\ holds' = [c \in {color[r] : r \in graph.vertices} |-> None]
      /\ UNCHANGED analysisVars /\ UNCHANGED colorVars
  BY DEF AssignStorage, StackUsage
<1>2. /\ LP!IInv' /\ code' = code /\ live' = live /\ status' = status /\ status = "accepted"
      /\ \A i : InterferenceAt(i)' = InterferenceAt(i)
  BY <1>1, AnalysisKept DEF IInv, StageType
<1>3. /\ graph' = graph /\ color' = color /\ removedAt' = removedAt /\ level' = level
      /\ returning' = returning /\ highestID' = highestID
  BY <1>1 DEF colorVars
<1>4. CP!IInv /\ CP!IInv'
  BY <1>1, ColoringStep DEF IInv, GraphBuilt, Finished
<1>5. 1 \in Positions(code) /\ live[1] = {}
  BY <1>2, Accepted, Analyzed DEF IInv, Positions
<1>6. graph.vertices \subseteq References
  BY <1>1, <1>4, Colored DEF InterferenceGraphs
<1>7. PICK f \in Bijection(SlotColors, 1 .. Cardinality(SlotColors)) :
        offset' = [c \in SlotColors |-> 8 * (f[c] - 1)]
  BY DEF AssignStorage
<1>8. StageType' /\ GraphType' /\ BeforeColors' /\ GraphBuilt'
  BY <1>1, <1>2, <1>3, <1>4, <1>5
  DEF IInv, StageType, GraphType, BeforeColors, GraphBuilt, Built, Finished
<1>9. Placed' /\ Own'
  BY <1>1, <1>2, <1>3, <1>5, <1>6 DEF Placed, Own, Coloring!Done
<1>10. SlotsFitFrame'
  <2>1. /\ \A c \in SlotColors : f[c] \in 1 .. Cardinality(SlotColors)
        /\ \A c, d \in SlotColors : c # d => f[c] # f[d]
    BY DEF Bijection, Injection, IsInjective
  <2>2. /\ Cardinality(SlotColors) \in Nat /\ Cardinality(SlotReferences) \in Nat
        /\ Cardinality(SlotColors) <= Cardinality(SlotReferences)
    BY <1>1, <1>4, SlotsCounted
  <2>3. \A c \in SlotColors : f[c] \in Nat /\ f[c] <= Cardinality(SlotReferences)
    BY <2>1, <2>2
  <2>4. \A c \in SlotColors : offset'[c] = 8 * (f[c] - 1)
    BY <1>7
  <2>5. \A c \in SlotColors : offset'[c] + 8 <= maxStackUsage'
    BY <1>1, <2>2, <2>3, <2>4
  <2>6. \A c, d \in SlotColors :
          c # d => offset'[c] + 8 <= offset'[d] \/ offset'[d] + 8 <= offset'[c]
    BY <2>1, <2>3, <2>4
  <2>7. DOMAIN offset' = SlotColors
    BY <1>7
  <2>8. QED
    BY <2>5, <2>6, <2>7 DEF SlotsFitFrame
<1>11. AddressTakenStaysInMemory'
  <2> SUFFICES ASSUME NEW r \in graph.vertices,
                      graph.color[r] > StackPointer(graph.registers)
               PROVE  color[r] \in SlotColors
    BY <1>1, <1>3, <1>6, <1>7 DEF AddressTakenStaysInMemory
  <2>1. /\ graph.registers \in Nat \ {0} /\ graph.highestID \in Nat /\ graph.color[r] \in Nat
        /\ graph.highestID > StackPointer(graph.registers)
    BY DEF IInv, GraphType, InterferenceGraphs
  <2>2. /\ color[r] \in Nat
        /\ graph.color[r] # 0 => color[r] = graph.color[r] \/ color[r] >= graph.highestID
    BY <1>1, <1>4, Colored
  <2>3. color[r] > StackPointer(graph.registers)
    BY <2>1, <2>2 DEF StackPointer
  <2>4. QED
    BY <2>1, <2>2, <2>3 DEF SlotColors, StackPointer
<1>12. QED
  BY <1>2, <1>8, <1>9, <1>10, <1>11 DEF IInv

-----------------------------------------------------------------------------
(* What is live at a successor was live before or is the result; and a      *)
(* result shares its location with nothing that is live behind it.          *)
LEMMA SuccessorFacts ==
  ASSUME IInv, stage = "run", NEW j \in Successors(code, at)
  PROVE  /\ j \in Positions(code)
         /\ live[j] \ Defs(code[at]) \subseteq live[at]
         /\ live[j] \cup Defs(code[at]) \subseteq graph.vertices
         /\ \A d \in Defs(code[at]), r \in live[j] : d # r => storage[d] # storage[r]
<1>1. /\ at \in Positions(code) /\ j \in Positions(code) /\ status = "accepted"
      /\ Len(code) \in Nat \ {0}
  BY Analyzed DEF IInv, StageType, Successors
<1>2. CP!IInv /\ Coloring!Done /\ Built(Len(code)) /\ \A r \in graph.vertices : storage[r] = color[r]
  BY DEF IInv, GraphBuilt, Placed, Finished
<1>3. live[j] \cup Defs(code[at]) \subseteq graph.vertices
  BY <1>1, <1>2 DEF Built, Positions
<1>4. CASE JumpsTo(code[at], code[j])
  <2>1. Defs(code[at]) = {} /\ live[j] \subseteq live[at]
    BY <1>1, <1>4, Accepted, Analyzed DEF IInv, JumpsTo
  <2>2. QED
    BY <1>1, <1>3, <2>1
<1>5. CASE j = at + 1
  <2>1. live[j] \ Defs(code[at]) \subseteq live[at]
    BY <1>1, <1>5, Accepted DEF IInv, Positions
  <2>2. ASSUME NEW d \in Defs(code[at]), NEW r \in live[j], d # r
        PROVE  storage[d] # storage[r]
    <3>1. d \in ResultBefore(j)
      BY <1>1, <1>5 DEF ResultBefore, Positions
    <3>2. {d, r} \in InterferenceAt(j)
      BY <2>2, <3>1 DEF InterferenceAt
    <3>3. {d, r} \in graph.edges
      BY <1>1, <1>2, <3>2 DEF Built, Positions
    <3>4. QED
      BY <1>2, <1>3, <3>3, Colored
  <2>3. QED
    BY <1>1, <1>3, <2>1, <2>2
<1>6. QED
  BY <1>4, <1>5 DEF Successors

LEMMA ExecuteIInv ==
  ASSUME IInv, Execute
  PROVE  IInv'
<1>1. /\ stage = "run"
      /\ holds' = [c \in DOMAIN holds |->
                     IF c \in Written(code[at]) THEN code[at].result ELSE holds[c]]
      /\ lost' = (lost \ Defs(code[at])) \cup Missed(code[at])
      /\ \/ \E j \in Successors(code, at) : at' = j /\ stage' = stage
         \/ code[at].type = "RETURN" /\ stage' = "returned" /\ at' = at
      /\ storage' = storage /\ offset' = offset /\ maxStackUsage' = maxStackUsage
      /\ UNCHANGED analysisVars /\ UNCHANGED colorVars
  BY DEF Execute
<1>2. /\ LP!IInv' /\ code' = code /\ live' = live /\ status' = status /\ status = "accepted"
      /\ \A i : InterferenceAt(i)' = InterferenceAt(i)
  BY <1>1, AnalysisKept DEF IInv, StageType
<1>3. /\ graph' = graph /\ color' = color /\ removedAt' = removedAt /\ level' = level
      /\ returning' = returning /\ highestID' = highestID
  BY <1>1 DEF colorVars
<1>4. CP!IInv'
  BY <1>1, ColoringStep DEF IInv, GraphBuilt, Finished
<1>5. stage' \in {"run", "returned"} /\ (stage' = "run" => at' \in Successors(code, at))
  BY <1>1
<1>6. GraphType' /\ BeforeColors' /\ GraphBuilt'
  BY <1>1, <1>2, <1>3, <1>4, <1>5 DEF IInv, GraphType, BeforeColors, GraphBuilt, Built, Finished
<1>7. StageType'
  BY <1>1, <1>2, <1>5, SuccessorFacts DEF StageType, Finished
<1>8. SlotsFitFrame' /\ AddressTakenStaysInMemory'
  BY <1>1, <1>3 DEF IInv, SlotsFitFrame, AddressTakenStaysInMemory
<1>9. DOMAIN holds' = DOMAIN holds
  BY <1>1
<1>10. Placed'
  BY <1>1, <1>3, <1>9 DEF IInv, Placed, Coloring!Done
<1>11. Own'
  <2> SUFFICES ASSUME stage' = "run", NEW r \in live[at'], r \notin lost'
               PROVE  holds'[storage[r]] = r
    BY <1>1, <1>2 DEF Own
  <2>1. /\ live[at'] \ Defs(code[at]) \subseteq live[at]
        /\ live[at'] \cup Defs(code[at]) \subseteq graph.vertices
        /\ \A d \in Defs(code[at]) : d # r => storage[d] # storage[r]
    BY <1>1, <1>5, SuccessorFacts
  <2>2. storage[r] \in DOMAIN holds
    BY <1>1, <2>1 DEF IInv, Placed
  <2>3. CASE r \in Defs(code[at])
    <3>1. r \notin Missed(code[at]) /\ r = code[at].result
      BY <1>1, <2>3 DEF Defs
    <3>2. storage[r] \in Written(code[at])
      BY <2>3, <3>1 DEF Written
    <3>3. QED
      BY <1>1, <2>2, <3>1, <3>2
  <2>4. CASE r \notin Defs(code[at])
    <3>1. r \in live[at] /\ r \notin lost
      BY <1>1, <2>1, <2>4
    <3>2. storage[r] \notin Written(code[at])
      BY <2>1, <2>4 DEF Written
    <3>3. holds[storage[r]] = r
      BY <1>1, <3>1 DEF IInv, Own
    <3>4. QED
      BY <1>1, <2>2, <3>2, <3>3
  <2>5. QED
    BY <2>3, <2>4
<1>12. QED
  BY <1>2, <1>6, <1>7, <1>8, <1>10, <1>11 DEF IInv

-----------------------------------------------------------------------------
LEMMA StepIInv == IInv /\ [Next]_vars => IInv'
<1> SUFFICES ASSUME IInv, [Next]_vars PROVE IInv'
  OBVIOUS
<1>1. CASE UNCHANGED vars
  <2>1. /\ UNCHANGED analysisVars /\ UNCHANGED colorVars
        /\ stage' = stage /\ at' = at /\ storage' = storage /\ offset' = offset
        /\ maxStackUsage' = maxStackUsage /\ holds' = holds /\ lost' = lost
    BY <1>1 DEF vars, machineVars
  <2>2. /\ LP!IInv' /\ code' = code /\ live' = live /\ status' = status
        /\ \A i : InterferenceAt(i)' = InterferenceAt(i)
    BY <2>1, AnalysisKept
  <2>3. /\ graph' = graph /\ color' = color /\ level' = level
        /\ returning' = returning /\ highestID' = highestID
    BY <2>1 DEF colorVars
  <2>4. CP!IInv => CP!IInv'
    BY <2>1, ColoringStep
  <2>5. StageType' /\ GraphType' /\ BeforeColors' /\ GraphBuilt'
    BY <2>1, <2>2, <2>3, <2>4
    DEF IInv, StageType, GraphType, BeforeColors, GraphBuilt, Built, Finished
  <2>6. Placed' /\ Own' /\ SlotsFitFrame' /\ AddressTakenStaysInMemory'
    BY <2>1, <2>2, <2>3
    DEF IInv, Placed, Coloring!Done, Own, SlotsFitFrame, AddressTakenStaysInMemory
  <2>7. QED
    BY <2>2, <2>5, <2>6 DEF IInv
<1>2. QED
  BY <1>1, AnalyzeIInv, StartBuildingIInv, BuildInstructionIInv, StartColoringIInv, ColorIInv,
     AssignStorageIInv, ExecuteIInv DEF Next

LEMMA InvariantHolds == Spec => []IInv
  BY InitIInv, StepIInv, PTL DEF Spec

-----------------------------------------------------------------------------
(* Every instruction of the allocated function finds the value of the       *)
(* reference it reads, whatever path control takes.                         *)
THEOREM OwnValuesRead == Spec => []ReadsOwnValue
<1>1. IInv => ReadsOwnValue
  <2> SUFFICES ASSUME IInv, stage = "run" PROVE Uses(code[at]) \subseteq live[at]
    BY DEF IInv, Own, ReadsOwnValue
  <2>1. at \in Positions(code) /\ status = "accepted"
    BY DEF IInv, StageType
  <2>2. QED
    BY <2>1, Accepted DEF IInv
<1>2. QED
  BY <1>1, InvariantHolds, PTL

(* Behind the sanity check every lookup of the graph construction finds its *)
(* reference.                                                               *)
THEOREM LookupsSucceed == Spec => []NoLookupThrows
<1>1. IInv => NoLookupThrows
  BY DEF IInv, StageType, NoLookupThrows, Finished
<1>2. QED
  BY <1>1, InvariantHolds, PTL

(* The frame has room for every stack slot, and no two slots overlap.       *)
THEOREM SlotsFit == Spec => []SlotsFitFrame
<1>1. IInv => SlotsFitFrame
  BY DEF IInv
<1>2. QED
  BY <1>1, InvariantHolds, PTL

(* What arrives in a stack slot stays in memory, where its address points.  *)
THEOREM AddressesStay == Spec => []AddressTakenStaysInMemory
<1>1. IInv => AddressTakenStaysInMemory
  BY DEF IInv
<1>2. QED
  BY <1>1, InvariantHolds, PTL

(* Where no two references that arrive in registers, the stack pointer or   *)
(* slots are live together, each register is kept.                          *)
KeptWhenApart == Coloring!PrecoloredApart => HWRegisterKept

THEOREM RegistersKept == Spec => []KeptWhenApart
<1>1. IInv => KeptWhenApart
  <2> SUFFICES ASSUME IInv, Coloring!PrecoloredApart, stage = "run",
                      NEW r \in graph.vertices, graph.color[r] \in 1 .. graph.registers
               PROVE  storage[r] = graph.color[r]
    BY DEF KeptWhenApart, HWRegisterKept
  <2>1. CP!PrecoloredApart
    BY DEF CP!PrecoloredApart, Coloring!PrecoloredApart, CP!NoColor, Coloring!NoColor,
           CP!Adjacent, Coloring!Adjacent
  <2>2. graph.color[r] # CP!NoColor
    BY DEF CP!NoColor
  <2>3. color[r] = graph.color[r]
    BY <2>1, <2>2 DEF IInv, GraphBuilt, Finished, CP!IInv, CP!LonePrecoloredKept
  <2>4. QED
    BY <2>3 DEF IInv, Placed
<1>2. QED
  BY <1>1, InvariantHolds, PTL
===============================================================================
