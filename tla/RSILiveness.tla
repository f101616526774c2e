----------------------------- MODULE RSILiveness -----------------------------
(****************************************************************************)
(* RSI::analyzeLiveVariables (compiler/src/backend/RSIAnalysis.cpp) and the *)
(* "Sanity check" pass that main.cpp runs right after it.                   *)
(*                                                                          *)
(* The analysis walks the instructions backwards, again and again, until a  *)
(* whole pass changes no liveVariablesBefore set.  The set of the textually *)
(* next instruction always flows in, even across a JUMP or a RETURN; the    *)
(* set of a label is pushed into the jumps that name it when the label is   *)
(* visited.  One action is one iteration of the inner loop.                 *)
(****************************************************************************)
EXTENDS RSI

CONSTANT Functions   \* the functions that may be analysed

ASSUME FunctionsWellFormed == \A code \in Functions : WellFormedFunction(code)

VARIABLES
  code,               \* function.instructions
  live,               \* meta.liveVariablesBefore of every instruction
  next,               \* the instruction the reverse iterator is at, 0 at rend()
  hasModifiedTheIR,   \* the flag that asks for another pass
  status              \* "analyzing", then what the sanity check says

analysisVars == <<code, live, next, hasModifiedTheIR, status>>

TypeOK ==
  /\ WellFormedFunction(code)
  /\ live \in [Positions(code) -> SUBSET References]
  /\ next \in 0 .. Len(code)
  /\ hasModifiedTheIR \in BOOLEAN
  /\ status \in {"analyzing", "accepted", "fatal"}

Init ==
  /\ code \in Functions
  /\ live = [i \in Positions(code) |-> {}]
  /\ next = 0
  /\ hasModifiedTheIR = TRUE
  /\ status = "analyzing"

-----------------------------------------------------------------------------
(* The set flowing in from below; nothing is live after the last            *)
(* instruction (virtualEndInstruction).                                     *)
LiveAfter(i) == IF i = Len(code) THEN {} ELSE live[i + 1]

(* Slips in the update of liveVariablesBefore, for mutation: the result is  *)
(* never erased, erased last, or the set is built without what labels put   *)
(* into it.                                                                 *)
TransferKeepingResult(i) == live[i] \cup LiveAfter(i) \cup Uses(code[i])
TransferErasingLast(i)   == (live[i] \cup LiveAfter(i) \cup Uses(code[i])) \ Defs(code[i])
TransferFromScratch(i)   == (LiveAfter(i) \ Defs(code[i])) \cup Uses(code[i])

(* The new liveVariablesBefore of instruction i.                            *)
Transfer(i) == ((live[i] \cup LiveAfter(i)) \ Defs(code[i])) \cup Uses(code[i])

(* A slip, for mutation: the pass starts one instruction too far down.      *)
StartPassOneTooFar ==
  /\ status = "analyzing" /\ next = 0 /\ hasModifiedTheIR
  /\ hasModifiedTheIR' = FALSE
  /\ next' = Len(code) + 1
  /\ UNCHANGED <<code, live, status>>

StartPass ==
  /\ status = "analyzing" /\ next = 0 /\ hasModifiedTheIR
  /\ hasModifiedTheIR' = FALSE
  /\ next' = Len(code)
  /\ UNCHANGED <<code, live, status>>

VisitInstruction ==
  /\ next # 0
  /\ code[next].type # "DEFINE_LABEL"
  /\ live' = [live EXCEPT ![next] = Transfer(next)]
  /\ hasModifiedTheIR' = (hasModifiedTheIR \/ live' # live)
  /\ next' = next - 1
  /\ UNCHANGED <<code, status>>

(* A label also hands its set to every jump that names it, wherever the     *)
(* jump is; a jump's set that grows asks for another pass.                  *)
VisitLabel ==
  /\ next # 0
  /\ code[next].type = "DEFINE_LABEL"
  /\ live' = [i \in Positions(code) |->
                IF i = next THEN Transfer(next)
                ELSE IF JumpsTo(code[i], code[next]) THEN live[i] \cup Transfer(next)
                ELSE live[i]]
  /\ hasModifiedTheIR' = (hasModifiedTheIR \/ live' # live)
  /\ next' = next - 1
  /\ UNCHANGED <<code, status>>

(* The pass after the analysis: no value may be needed at function entry.   *)
SanityCheck ==
  /\ status = "analyzing" /\ next = 0 /\ ~hasModifiedTheIR
  /\ status' = IF live[1] = {} THEN "accepted" ELSE "fatal"
  /\ UNCHANGED <<code, live, next, hasModifiedTheIR>>

Next == StartPass \/ VisitInstruction \/ VisitLabel \/ SanityCheck

Spec == Init /\ [][Next]_analysisVars /\ WF_analysisVars(Next)

-----------------------------------------------------------------------------
(****************************************************************************)
(* What the analysis should compute, defined without any iteration: the     *)
(* positions where v is live are the least set that contains the uses of v  *)
(* and is closed under stepping backwards over instructions that do not     *)
(* define v.                                                                *)
(****************************************************************************)
FlowsTo(i, j) == j = i + 1 \/ JumpsTo(code[i], code[j])

ClosedFor(v, S) ==
  /\ \A i \in Positions(code) : v \in Uses(code[i]) => i \in S
  /\ \A i \in Positions(code), j \in S :
       FlowsTo(i, j) /\ v \notin Defs(code[i]) => i \in S

LivePositions(v) == {i \in Positions(code) : v \in live[i]}

NeededPositions(v) ==
  {i \in Positions(code) : \A S \in SUBSET Positions(code) : ClosedFor(v, S) => i \in S}

Done == status # "analyzing"

(* Safety: no liveVariablesBefore set ever holds a reference that no later  *)
(* instruction needs, not even in the middle of a pass, so the analysis     *)
(* never invents interference.                                              *)
OnlyNeeded == \A v \in References : LivePositions(v) \subseteq NeededPositions(v)

(* Safety: when the loop stops, the sets are exactly the least solution of  *)
(* the data-flow equations, for loops and jumps in both directions.         *)
AnalysisExact == Done => \A v \in References : LivePositions(v) = NeededPositions(v)

(* Action property: a set never loses a reference; the loop's termination   *)
(* rests on this although each visit erases the result from the set.        *)
LiveOnlyGrows ==
  [][code' = code /\ \A i \in Positions(code) : live[i] \subseteq live'[i]]_analysisVars

(* Liveness: the while (hasModifiedTheIR) loop ends for every function.     *)
Termination == <>Done
==============================================================================
