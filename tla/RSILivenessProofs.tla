-------------------------- MODULE RSILivenessProofs --------------------------
(****************************************************************************)
(* Proofs about RSILiveness, for every set of references and labels and     *)
(* every well-formed function.                                              *)
(****************************************************************************)
EXTENDS RSILiveness, TLAPS

(* The facts about a function that the proofs use.                          *)
LEMMA FunctionFacts ==
  ASSUME NEW c, WellFormedFunction(c)
  PROVE  /\ c \in Seq(Instruction)
         /\ Len(c) \in Nat \ {0}
         /\ \A i \in Positions(c) : /\ c[i] \in Instruction
                                    /\ IsJump(c[i]) => Defs(c[i]) = {}
<1>1. /\ c \in Seq(Instruction)
      /\ Len(c) > 0
      /\ \A i \in Positions(c) : WellFormedInstruction(c[i])
  BY DEF WellFormedFunction
<1>2. Len(c) \in Nat \ {0}
  BY <1>1
<1>3. ASSUME NEW i \in Positions(c)
      PROVE  c[i] \in Instruction /\ (IsJump(c[i]) => Defs(c[i]) = {})
  <2>1. c[i] \in Instruction
    BY <1>1, <1>2 DEF Positions
  <2>2. WellFormedInstruction(c[i])
    BY <1>1
  <2>3. IsJump(c[i]) => c[i].result = None
    BY <2>1, <2>2 DEF IsJump, WellFormedInstruction, Instruction, InstructionType
  <2>4. QED
    BY <2>1, <2>3, OperandKinds DEF Defs
<1>4. QED
  BY <1>1, <1>2, <1>3

(****************************************************************************)
(* The inductive invariant.                                                 *)
(*   Settled     : if nothing changed so far in this pass, the data-flow    *)
(*                 equations hold at every instruction already visited.     *)
(*   DefsExposed : a live result is one that the instruction also reads.    *)
(*   StopsClean  : the loop is left only after a pass without a change.     *)
(*   Judged      : a function is accepted only if nothing is live at entry. *)
(****************************************************************************)
EquationsHoldAt(i) ==
  /\ Uses(code[i]) \subseteq live[i]
  /\ LiveAfter(i) \ Defs(code[i]) \subseteq live[i]
  /\ \A j \in Positions(code) : JumpsTo(code[j], code[i]) => live[i] \subseteq live[j]

Settled == ~hasModifiedTheIR => \A i \in Positions(code) : i > next => EquationsHoldAt(i)

DefsExposed == \A i \in Positions(code) : live[i] \cap Defs(code[i]) \subseteq Uses(code[i])

StopsClean == Done => next = 0 /\ ~hasModifiedTheIR

Judged == status = "accepted" => live[1] = {}

IInv == TypeOK /\ Settled /\ DefsExposed /\ StopsClean /\ Judged /\ OnlyNeeded

-----------------------------------------------------------------------------
(* What one visit does, for both kinds of visit.                            *)
Visit == VisitInstruction \/ VisitLabel

LEMMA TransferType ==
  ASSUME TypeOK, NEW i \in Positions(code)
  PROVE  Transfer(i) \in SUBSET References /\ LiveAfter(i) \in SUBSET References
<1>1. Len(code) \in Nat \ {0}
  BY FunctionFacts DEF TypeOK
<1>2. LiveAfter(i) \in SUBSET References
  BY <1>1 DEF TypeOK, LiveAfter, Positions
<1>3. Uses(code[i]) \subseteq References
  BY DEF Uses
<1>4. live[i] \in SUBSET References
  BY DEF TypeOK
<1>5. QED
  BY <1>2, <1>3, <1>4 DEF Transfer

LEMMA VisitFacts ==
  ASSUME TypeOK, Visit
  PROVE  /\ next \in Positions(code) /\ next' = next - 1
         /\ code' = code /\ status' = status
         /\ hasModifiedTheIR' = (hasModifiedTheIR \/ live' # live)
         /\ live' \in [Positions(code) -> SUBSET References]
         /\ live'[next] = Transfer(next)
         /\ \A i \in Positions(code) : i # next =>
              live'[i] \in {live[i], live[i] \cup Transfer(next)}
         /\ \A i \in Positions(code) :
              /\ i # next
              /\ live'[i] # live[i]
              => JumpsTo(code[i], code[next])
         /\ \A i \in Positions(code) : i # next =>
              (JumpsTo(code[i], code[next]) => live'[i] = live[i] \cup Transfer(next))
<1>1. Len(code) \in Nat \ {0}
  BY FunctionFacts DEF TypeOK
<1>2. next \in Positions(code)
  BY <1>1 DEF TypeOK, Visit, VisitInstruction, VisitLabel, Positions
<1>3. Transfer(next) \in SUBSET References
  BY <1>2, TransferType
<1>4. CASE VisitInstruction
  <2>1. \A i \in Positions(code) : ~JumpsTo(code[i], code[next])
    BY <1>4 DEF VisitInstruction, JumpsTo
  <2>2. live' = [live EXCEPT ![next] = Transfer(next)]
    BY <1>4 DEF VisitInstruction
  <2>3. QED
    BY <1>2, <1>3, <1>4, <2>1, <2>2 DEF VisitInstruction, TypeOK
<1>5. CASE VisitLabel
  <2>1. live' = [i \in Positions(code) |->
                IF i = next THEN Transfer(next)
                ELSE IF JumpsTo(code[i], code[next]) THEN live[i] \cup Transfer(next)
                ELSE live[i]]
    BY <1>5 DEF VisitLabel
  <2>2. live \in [Positions(code) -> SUBSET References]
    BY DEF TypeOK
  <2>3. live' \in [Positions(code) -> SUBSET References]
    BY <1>2, <1>3, <2>1, <2>2
  <2>4. QED
    BY <1>2, <1>3, <1>5, <2>1, <2>2, <2>3 DEF VisitLabel
<1>6. QED
  BY <1>4, <1>5 DEF Visit

(* A jump and its label are different instructions.                         *)
LEMMA JumpIsNoLabel == \A instr : ~JumpsTo(instr, instr)
  BY DEF JumpsTo, IsJump


-----------------------------------------------------------------------------
LEMMA InitIInv == Init => IInv
<1> SUFFICES ASSUME Init PROVE IInv
  OBVIOUS
<1>0. WellFormedFunction(code)
  BY FunctionsWellFormed DEF Init
<1>1. Len(code) \in Nat \ {0}
  BY <1>0, FunctionFacts
<1>2. TypeOK
  BY <1>0, <1>1 DEF Init, TypeOK
<1>3. Settled /\ DefsExposed /\ StopsClean /\ Judged
  BY DEF Init, Settled, DefsExposed, StopsClean, Judged, Done
<1>4. OnlyNeeded
  BY DEF Init, OnlyNeeded, LivePositions
<1>5. QED
  BY <1>2, <1>3, <1>4 DEF IInv

(* Settled survives a visit: either the visit changed a set and set the     *)
(* flag, or the equations of the visited instruction hold as it stands.     *)
LEMMA VisitSettled ==
  ASSUME TypeOK, Settled, Visit
  PROVE  Settled'
<1> SUFFICES ASSUME ~hasModifiedTheIR', NEW i \in Positions(code), i > next - 1
             PROVE  EquationsHoldAt(i)'
  BY VisitFacts DEF Settled
<1>1. /\ live' = live /\ code' = code /\ ~hasModifiedTheIR
      /\ next \in Positions(code)
  BY VisitFacts
<1>2. EquationsHoldAt(i)' <=> EquationsHoldAt(i)
  BY <1>1 DEF EquationsHoldAt, LiveAfter
<1>3. CASE i > next
  BY <1>1, <1>2, <1>3 DEF Settled
<1>4. CASE i = next
  <2>1. live[next] = Transfer(next)
    BY <1>1, VisitFacts
  <2>2. \A j \in Positions(code) : JumpsTo(code[j], code[next]) => live[next] \subseteq live[j]
    <3> SUFFICES ASSUME NEW j \in Positions(code), JumpsTo(code[j], code[next])
                 PROVE  live[next] \subseteq live[j]
      OBVIOUS
    <3>1. j # next
      BY JumpIsNoLabel
    <3>2. live[j] = live[j] \cup Transfer(next)
      BY <1>1, <3>1, VisitFacts
    <3>3. QED
      BY <2>1, <3>2
  <2>3. QED
    BY <1>2, <1>4, <2>1, <2>2 DEF EquationsHoldAt, Transfer
<1>5. next \in Nat /\ i \in Nat
  BY <1>1, FunctionFacts DEF TypeOK, Positions
<1>6. QED
  BY <1>3, <1>4, <1>5

LEMMA VisitDefsExposed ==
  ASSUME TypeOK, DefsExposed, Visit
  PROVE  DefsExposed'
<1> SUFFICES ASSUME NEW i \in Positions(code)
             PROVE  live'[i] \cap Defs(code[i]) \subseteq Uses(code[i])
  BY VisitFacts DEF DefsExposed
<1>1. CASE i = next
  BY <1>1, VisitFacts DEF Transfer
<1>2. CASE i # next /\ live'[i] # live[i]
  <2>1. JumpsTo(code[i], code[next])
    BY <1>2, VisitFacts
  <2>2. Defs(code[i]) = {}
    BY <2>1, FunctionFacts DEF TypeOK, JumpsTo
  <2>3. QED
    BY <2>2
<1>3. CASE live'[i] = live[i]
  BY <1>3 DEF DefsExposed
<1>4. QED
  BY <1>1, <1>2, <1>3

LEMMA VisitOnlyNeeded ==
  ASSUME TypeOK, OnlyNeeded, Visit
  PROVE  OnlyNeeded'
<1> SUFFICES ASSUME NEW v \in References, NEW i \in Positions(code), v \in live'[i],
                    NEW S \in SUBSET Positions(code), ClosedFor(v, S)
             PROVE  i \in S
  BY VisitFacts DEF OnlyNeeded, LivePositions, NeededPositions, ClosedFor, FlowsTo
<1>1. \A k \in Positions(code) : v \in live[k] => k \in S
  BY DEF OnlyNeeded, LivePositions, NeededPositions
<1>2. next \in Positions(code) /\ Len(code) \in Nat \ {0}
  BY VisitFacts, FunctionFacts DEF TypeOK
<1>3. v \in Transfer(next) => next \in S
  <2> SUFFICES ASSUME v \in Transfer(next) PROVE next \in S
    OBVIOUS
  <2>1. CASE v \in live[next] \/ v \in Uses(code[next])
    BY <1>1, <1>2, <2>1 DEF ClosedFor
  <2>2. CASE v \in LiveAfter(next) /\ v \notin Defs(code[next])
    <3>1. next # Len(code) /\ v \in live[next + 1]
      BY <2>2 DEF LiveAfter
    <3>2. next + 1 \in Positions(code)
      BY <1>2, <3>1 DEF Positions
    <3>3. next + 1 \in S /\ FlowsTo(next, next + 1)
      BY <1>1, <3>1, <3>2 DEF FlowsTo
    <3>4. QED
      BY <1>2, <2>2, <3>3 DEF ClosedFor
  <2>3. QED
    BY <2>1, <2>2 DEF Transfer
<1>4. CASE i = next
  BY <1>3, <1>4, VisitFacts
<1>5. CASE i # next /\ live'[i] # live[i]
  <2>1. JumpsTo(code[i], code[next]) /\ live'[i] = live[i] \cup Transfer(next)
    BY <1>5, VisitFacts
  <2>2. Defs(code[i]) = {}
    BY <2>1, FunctionFacts DEF TypeOK, JumpsTo
  <2>3. v \in Transfer(next) => i \in S
    BY <1>3, <2>1, <2>2 DEF ClosedFor, FlowsTo
  <2>4. QED
    BY <1>1, <2>1, <2>3
<1>6. CASE live'[i] = live[i]
  BY <1>1, <1>6
<1>7. QED
  BY <1>4, <1>5, <1>6

LEMMA StepIInv == IInv /\ [Next]_analysisVars => IInv'
<1> SUFFICES ASSUME IInv, [Next]_analysisVars PROVE IInv'
  OBVIOUS
<1> USE DEF IInv
<1>1. Len(code) \in Nat \ {0}
  BY FunctionFacts DEF TypeOK
<1>2. CASE StartPass
  <2>1. /\ code' = code /\ live' = live /\ status' = status /\ status = "analyzing"
        /\ next' = Len(code) /\ hasModifiedTheIR' = FALSE
    BY <1>2 DEF StartPass
  <2>2. TypeOK'
    <3>1. Len(code) \in 0 .. Len(code)
      BY <1>1
    <3>2. QED
      BY <2>1, <3>1 DEF TypeOK
  <2>3. Settled'
    BY <1>1, <2>1 DEF Settled, Positions
  <2>4. DefsExposed' /\ StopsClean' /\ Judged' /\ OnlyNeeded'
    BY <2>1 DEF DefsExposed, StopsClean, Judged, Done, OnlyNeeded, LivePositions, NeededPositions,
                ClosedFor, FlowsTo
  <2>5. QED
    BY <2>2, <2>3, <2>4
<1>3. CASE Visit
  <2>1. TypeOK'
    <3>1. next' \in 0 .. Len(code)
      BY <1>1, <1>3, VisitFacts DEF Positions
    <3>2. hasModifiedTheIR' \in BOOLEAN
      BY <1>3, VisitFacts DEF TypeOK
    <3>3. QED
      BY <1>3, <3>1, <3>2, VisitFacts DEF TypeOK
  <2>2. Settled' /\ DefsExposed' /\ OnlyNeeded'
    BY <1>3, VisitSettled, VisitDefsExposed, VisitOnlyNeeded
  <2>3. StopsClean' /\ Judged'
    BY <1>1, <1>3, VisitFacts DEF StopsClean, Judged, Done, Positions
  <2>4. QED
    BY <2>1, <2>2, <2>3
<1>4. CASE SanityCheck
  <2>1. /\ code' = code /\ live' = live /\ next' = next /\ next = 0
        /\ hasModifiedTheIR' = hasModifiedTheIR /\ ~hasModifiedTheIR
        /\ status' \in {"accepted", "fatal"} /\ (status' = "accepted" => live[1] = {})
    BY <1>4 DEF SanityCheck
  <2>2. QED
    BY <2>1 DEF TypeOK, Judged, Settled, EquationsHoldAt, LiveAfter, DefsExposed, StopsClean, Done,
                OnlyNeeded, LivePositions, NeededPositions, ClosedFor, FlowsTo
<1>5. CASE UNCHANGED analysisVars
  BY <1>5 DEF analysisVars, TypeOK, Judged, Settled, EquationsHoldAt, LiveAfter, DefsExposed, StopsClean,
              Done, OnlyNeeded, LivePositions, NeededPositions, ClosedFor, FlowsTo
<1>6. QED
  BY <1>2, <1>3, <1>4, <1>5 DEF Next, Visit

LEMMA InvariantHolds == Spec => []IInv
  BY InitIInv, StepIInv, PTL DEF Spec

-----------------------------------------------------------------------------
(* The state of the analysis is always well typed, in particular every      *)
(* liveVariablesBefore set belongs to an instruction of the function.       *)
THEOREM TypeCorrect == Spec => []TypeOK
<1>1. IInv => TypeOK
  BY DEF IInv
<1>2. QED
  BY <1>1, InvariantHolds, PTL

(* The analysis never marks a reference live where it is not needed.        *)
THEOREM NeverTooMuch == Spec => []OnlyNeeded
<1>1. IInv => OnlyNeeded
  BY DEF IInv
<1>2. QED
  BY <1>1, InvariantHolds, PTL

LEMMA DoneEquations ==
  ASSUME IInv, Done, NEW i \in Positions(code)
  PROVE  EquationsHoldAt(i)
<1>1. Len(code) \in Nat \ {0}
  BY FunctionFacts DEF IInv, TypeOK
<1>2. QED
  BY <1>1 DEF IInv, StopsClean, Settled, Positions

(* The sets the loop leaves behind solve the data-flow equations.           *)
LEMMA DoneIsClosed ==
  ASSUME IInv, Done, NEW v \in References
  PROVE  ClosedFor(v, LivePositions(v))
<1> USE DEF IInv
<1>1. Len(code) \in Nat \ {0}
  BY FunctionFacts DEF TypeOK
<1>2. \A i \in Positions(code) : EquationsHoldAt(i)
  BY DoneEquations
<1>3. \A i \in Positions(code) : v \in Uses(code[i]) => i \in LivePositions(v)
  BY <1>2 DEF EquationsHoldAt, LivePositions
<1>4. ASSUME NEW i \in Positions(code), NEW j \in LivePositions(v),
             FlowsTo(i, j), v \notin Defs(code[i])
      PROVE  i \in LivePositions(v)
  <2>1. j \in Positions(code) /\ v \in live[j]
    BY DEF LivePositions
  <2>2. CASE j = i + 1
    <3>1. LiveAfter(i) = live[j]
      BY <1>1, <2>1, <2>2 DEF LiveAfter, Positions
    <3>2. QED
      BY <1>2, <1>4, <2>1, <3>1 DEF EquationsHoldAt, LivePositions
  <2>3. CASE JumpsTo(code[i], code[j])
    BY <1>2, <2>1, <2>3 DEF EquationsHoldAt, LivePositions
  <2>4. QED
    BY <1>4, <2>2, <2>3 DEF FlowsTo
<1>5. QED
  BY <1>3, <1>4 DEF ClosedFor

(* When the loop stops, the sets are exactly the least solution.            *)
THEOREM Exact == Spec => []AnalysisExact
<1>1. IInv => AnalysisExact
  <2> SUFFICES ASSUME IInv, Done, NEW v \in References
               PROVE  LivePositions(v) = NeededPositions(v)
    BY DEF AnalysisExact
  <2>1. LivePositions(v) \subseteq NeededPositions(v)
    BY DEF IInv, OnlyNeeded
  <2>2. NeededPositions(v) \subseteq LivePositions(v)
    BY DoneIsClosed DEF NeededPositions, LivePositions
  <2>3. QED
    BY <2>1, <2>2
<1>2. QED
  BY <1>1, InvariantHolds, PTL

(* No visit ever takes a reference out of a set, although every visit       *)
(* erases the result of its instruction.                                    *)
THEOREM SetsOnlyGrow == Spec => LiveOnlyGrows
<1>1. IInv /\ [Next]_analysisVars
      => [code' = code /\ \A i \in Positions(code) : live[i] \subseteq live'[i]]_analysisVars
  <2> SUFFICES ASSUME IInv, [Next]_analysisVars
               PROVE  (code' = code /\ \A i \in Positions(code) : live[i] \subseteq live'[i])
                      \/ UNCHANGED analysisVars
    OBVIOUS
  <2>1. CASE Visit
    <3> SUFFICES ASSUME NEW i \in Positions(code)
                 PROVE  live[i] \subseteq live'[i]
      BY <2>1, VisitFacts DEF IInv
    <3>1. live[next] \subseteq Transfer(next)
      BY <2>1, VisitFacts DEF IInv, DefsExposed, Transfer
    <3>2. QED
      BY <2>1, <3>1, VisitFacts DEF IInv
  <2>2. CASE StartPass \/ SanityCheck
    BY <2>2 DEF StartPass, SanityCheck
  <2>3. QED
    BY <2>1, <2>2 DEF Next, Visit
<1>2. QED
  BY <1>1, InvariantHolds, PTL DEF Spec, LiveOnlyGrows
==============================================================================
