--------------------------- MODULE TestRunnerProofs ---------------------------
(****************************************************************************)
(* Proofs about TestRunner: for all tests and all sizes of the pipe, no     *)
(* stranger is killed and every verdict is deserved.                        *)
(****************************************************************************)
EXTENDS TestRunner, TLAPS

(* The order of join, waitpid and verdict.                                  *)
InOrder ==
  /\ child.state = "reaped" <=> runner = "returned"
  /\ runner \in {"waiting", "returned"} => watchdog = "done"
  /\ runner # "reading" => pipe = 0
  /\ verdict # "none" => runner = "returned"

(* What has been written is in the result, in the pipe, or still to come;   *)
(* nothing comes any more once the end of the output has been reached.      *)
NothingLost ==
  /\ result.output + pipe + child.unwritten = Command.writes
  /\ child.state \in {"forked", "running"} /\ ~child.hasOutput => child.unwritten = 0
  /\ runner # "reading" => ~child.hasOutput

(* A child that has ended has either come to its own end, with all of its   *)
(* output, or it has been killed, for which the time was up.                *)
EndsOrIsKilled ==
  /\ child.state \in {"zombie", "reaped"} =>
       \/ child.status = Command.ends /\ child.status # Never /\ child.unwritten = 0
       \/ child.status = Signal /\ result.wasKilled
  /\ watchdog \in {"expired", "killing"} \/ result.wasKilled => late
  /\ watchdog = "killing" => result.wasKilled
  /\ command = "library" => watchdog = "done" /\ ~result.wasKilled

(* What has been executed before ended well.                                *)
Before ==
  /\ command # "library" => ExitsWith("library", 0)
  /\ command = "program" => ExitsWith("compiler", 0)

IInv == TypeOK /\ InOrder /\ NothingLost /\ EndsOrIsKilled /\ Before /\ VerdictDeserved

USE EndsDiffer

(* All states of a process.                                                 *)
Children ==
  [state : {"forked", "running", "zombie", "reaped"}, grouped : BOOLEAN, unwritten : Nat,
   hasOutput : BOOLEAN, status : ExitCodes \cup {Signal, Never}]

(* What the constants give.                                                 *)
LEMMA TestFacts ==
  ASSUME TypeOK
  PROVE  /\ Command \in Commands
         /\ \A c \in {"library", "compiler", "program"} : test[c] \in Commands
         /\ test.compilation \in Int /\ test.execution \in Int
         /\ test.output \in Nat /\ test.skipped \in BOOLEAN
  BY TestsWellFormed DEF TypeOK, Command

(* How a child that has ended looks.                                        *)
LEMMA ChildTypes ==
  ASSUME NEW c \in Children, NEW status \in ExitCodes \cup {Signal, Never}
  PROVE  [c EXCEPT !.state = "zombie", !.hasOutput = FALSE, !.status = status] \in Children
  BY DEF Children

LEMMA Initially == Init => IInv
<1> SUFFICES ASSUME Init PROVE IInv
  OBVIOUS
<1>1. /\ test \in Tests /\ command = "library" /\ Command = test.library
      /\ test.library \in Commands
  BY TestsWellFormed DEF Init, Command
<1>2. TypeOK
  BY <1>1 DEF Init, TypeOK, Forked, NoResult, Commands
<1>3. InOrder /\ NothingLost /\ EndsOrIsKilled
  BY <1>1 DEF Init, InOrder, NothingLost, EndsOrIsKilled, Forked, NoResult, Commands
<1>4. Before /\ VerdictDeserved
  BY <1>1 DEF Init, Before, VerdictDeserved
<1>5. QED
  BY <1>2, <1>3, <1>4 DEF IInv

(* As long as the test and the command stay the same, so does what is said  *)
(* of them.                                                                 *)
LEMMA SameTest ==
  ASSUME IInv, UNCHANGED <<test, command>>
  PROVE  /\ Command' = Command
         /\ Before'
         /\ AsExpected' = AsExpected
  BY DEF IInv, Before, ExitsWith, CompilesAsExpected, RunsAsExpected, AsExpected, Command

(* Steps of the child and of the watchdog and the passing of time leave the *)
(* verdict alone and do not take the time back.                             *)
LEMMA SameVerdict ==
  ASSUME IInv, UNCHANGED <<test, command, verdict>>, late => late'
  PROVE  VerdictDeserved'
  BY SameTest DEF IInv, VerdictDeserved

LEMMA ChildSteps ==
  ASSUME IInv, ChildStep \/ HelperEnds
  PROVE  IInv'
<1>1. UNCHANGED <<test, command, runner, watchdog, stop, late, result, verdict>>
  BY DEF ChildStep, ChildOnly, BecomeCommand, Write, StartHelper, CloseOutput, Exit, HelperEnds
<1>2. Command \in Commands /\ Command' = Command
  BY <1>1, TestFacts, SameTest DEF IInv
<1> USE DEF IInv
<1>3. TypeOK' /\ InOrder' /\ NothingLost' /\ EndsOrIsKilled'
  <2>1. CASE BecomeCommand
    <3>1. TypeOK' /\ InOrder'
      BY <1>1, <1>2, <2>1 DEF BecomeCommand, TypeOK, InOrder
    <3>2. NothingLost' /\ EndsOrIsKilled'
      BY <1>1, <1>2, <2>1 DEF BecomeCommand, TypeOK, NothingLost, EndsOrIsKilled
    <3>3. QED
      BY <3>1, <3>2
  <2>2. CASE Write
    BY <1>1, <1>2, <2>2 DEF Write, Running, TypeOK, InOrder, NothingLost, EndsOrIsKilled
  <2>3. CASE StartHelper \/ HelperEnds
    BY <1>1, <1>2, <2>3 DEF StartHelper, HelperEnds, TypeOK, InOrder, NothingLost, EndsOrIsKilled
  <2>4. CASE CloseOutput
    BY <1>1, <1>2, <2>4 DEF CloseOutput, Running, TypeOK, InOrder, NothingLost, EndsOrIsKilled
  <2>5. CASE Exit
    <3>1. TypeOK'
      <4>1. /\ Command.ends \in ExitCodes \cup {Signal}
            /\ child' = [child EXCEPT !.state = "zombie", !.hasOutput = FALSE, !.status = Command.ends]
            /\ child \in Children
        BY <1>2, <2>5 DEF Exit, Commands, TypeOK, Children
      <4>2. UNCHANGED <<helper, pipe>>
        BY <2>5 DEF Exit
      <4>3. QED
        <5>1. child' \in Children
          BY <4>1, ChildTypes
        <5>2. QED
          BY <1>1, <4>2, <5>1 DEF TypeOK, Children
    <3>2. InOrder'
      BY <1>1, <2>5 DEF Exit, Running, TypeOK, InOrder
    <3>3. NothingLost' /\ EndsOrIsKilled'
      BY <1>1, <1>2, <2>5 DEF Exit, Running, Commands, TypeOK, NothingLost, EndsOrIsKilled
    <3>4. QED
      BY <3>1, <3>2, <3>3
  <2>6. QED
    BY <2>1, <2>2, <2>3, <2>4, <2>5 DEF ChildStep
<1>4. Before' /\ VerdictDeserved'
  BY <1>1, SameTest, SameVerdict
<1>5. QED
  BY <1>3, <1>4

LEMMA WatchdogSteps ==
  ASSUME IInv, WatchdogStep
  PROVE  IInv'
<1>1. UNCHANGED <<test, command, pipe, runner, stop, late, verdict>>
  BY DEF WatchdogStep, WatchdogOnly, WatchdogStops, WatchdogExpires, MarkKilled, Kill
<1>2. Command \in Commands /\ Command' = Command
  BY <1>1, TestFacts, SameTest DEF IInv
<1> USE DEF IInv
<1>3. TypeOK' /\ InOrder' /\ NothingLost' /\ EndsOrIsKilled'
  <2>1. CASE WatchdogStops \/ WatchdogExpires
    <3>1. TypeOK' /\ InOrder'
      BY <1>1, <1>2, <2>1 DEF WatchdogStops, WatchdogExpires, TypeOK, InOrder
    <3>2. NothingLost' /\ EndsOrIsKilled'
      BY <1>1, <1>2, <2>1 DEF WatchdogStops, WatchdogExpires, TypeOK, NothingLost, EndsOrIsKilled
    <3>3. QED
      BY <3>1, <3>2
  <2>2. CASE MarkKilled
    <3>1. TypeOK' /\ InOrder'
      <4>1. /\ result' = [result EXCEPT !.wasKilled = TRUE] /\ watchdog = "expired" /\ watchdog' = "killing"
            /\ UNCHANGED <<child, helper>>
        BY <2>2 DEF MarkKilled
      <4>2. TypeOK'
        <5>1. result' \in [output : Nat, wasKilled : BOOLEAN]
          BY <4>1 DEF TypeOK
        <5>2. QED
          BY <1>1, <4>1, <5>1 DEF TypeOK
      <4>3. InOrder'
        BY <1>1, <4>1 DEF InOrder
      <4>4. QED
        BY <4>2, <4>3
    <3>2. result'.output = result.output /\ result'.wasKilled /\ late /\ watchdog' = "killing"
      BY <2>2 DEF MarkKilled, TypeOK, EndsOrIsKilled
    <3>3. NothingLost' /\ EndsOrIsKilled'
      BY <1>1, <1>2, <2>2, <3>2 DEF MarkKilled, NothingLost, EndsOrIsKilled
    <3>4. QED
      BY <3>1, <3>3
  <2>3. CASE Kill
    <3>1. child' = child \/ (child.state = "running" /\ child' = Killed(child))
      BY <2>3 DEF Kill, KillGroup, Killed
    <3>2. CASE child' = child
      BY <1>1, <1>2, <2>3, <3>2 DEF Kill, KillGroup, TypeOK, InOrder, NothingLost, EndsOrIsKilled
    <3>3. CASE child.state = "running" /\ child' = Killed(child)
      <4>1. /\ child'.state = "zombie" /\ ~child'.hasOutput /\ child'.status = Signal
            /\ child'.grouped = child.grouped /\ child'.unwritten = child.unwritten
        BY <3>3 DEF Killed, TypeOK
      <4>2. TypeOK'
        BY <1>1, <2>3, <3>3 DEF Kill, KillGroup, Killed, TypeOK
      <4>3. result.wasKilled /\ result' = result /\ watchdog' = "done"
        BY <2>3 DEF Kill, EndsOrIsKilled
      <4>4. InOrder' /\ NothingLost' /\ EndsOrIsKilled'
        BY <1>1, <1>2, <3>3, <4>1, <4>3 DEF InOrder, NothingLost, EndsOrIsKilled
      <4>5. QED
        BY <4>2, <4>4
    <3>4. QED
      BY <3>1, <3>2, <3>3
  <2>4. QED
    BY <2>1, <2>2, <2>3 DEF WatchdogStep
<1>4. Before' /\ VerdictDeserved'
  BY <1>1, SameTest, SameVerdict
<1>5. QED
  BY <1>3, <1>4

LEMMA TimeStep ==
  ASSUME IInv, TimeUp
  PROVE  IInv'
<1>1. Command' = Command /\ Before' /\ VerdictDeserved'
  BY SameTest, SameVerdict DEF TimeUp
<1>2. TypeOK' /\ InOrder' /\ NothingLost' /\ EndsOrIsKilled'
  BY <1>1 DEF IInv, TimeUp, TypeOK, InOrder, NothingLost, EndsOrIsKilled
<1>3. QED
  BY <1>1, <1>2 DEF IInv

(* The main thread until the child has been waited for.                     *)
LEMMA ReadSteps ==
  ASSUME IInv, Read \/ ReachEnd \/ Join \/ Wait
  PROVE  IInv'
<1>1. UNCHANGED <<test, command, helper, watchdog, late, verdict>>
  BY DEF RunnerOnly, Read, ReachEnd, Join, Wait
<1>2. Command \in Commands /\ Command' = Command
  BY <1>1, TestFacts, SameTest DEF IInv
<1> USE DEF IInv
<1>3. TypeOK' /\ InOrder' /\ NothingLost' /\ EndsOrIsKilled'
  <2>1. CASE Read
    <3>1. TypeOK' /\ InOrder'
      BY <1>1, <1>2, <2>1 DEF Read, TypeOK, InOrder
    <3>2. NothingLost' /\ EndsOrIsKilled'
      BY <1>1, <1>2, <2>1 DEF Read, TypeOK, NothingLost, EndsOrIsKilled
    <3>3. QED
      BY <3>1, <3>2
  <2>2. CASE ReachEnd \/ Join
    BY <1>1, <1>2, <2>2 DEF ReachEnd, Join, TypeOK, InOrder, NothingLost, EndsOrIsKilled
  <2>3. CASE Wait
    <3>1. TypeOK' /\ InOrder'
      BY <1>1, <1>2, <2>3 DEF Wait, TypeOK, InOrder
    <3>2. NothingLost' /\ EndsOrIsKilled'
      BY <1>1, <1>2, <2>3 DEF Wait, TypeOK, NothingLost, EndsOrIsKilled
    <3>3. QED
      BY <3>1, <3>2
  <2>4. QED
    BY <2>1, <2>2, <2>3
<1>4. Before' /\ VerdictDeserved'
  BY <1>1, SameTest, SameVerdict
<1>5. QED
  BY <1>3, <1>4

-----------------------------------------------------------------------------
(* What is known of a command when it has been executed.                    *)
LEMMA Outcome ==
  ASSUME IInv, runner = "returned"
  PROVE  /\ child.state = "reaped" /\ watchdog = "done" /\ pipe = 0
         /\ result.wasKilled => late
         /\ ~result.wasKilled =>
              /\ Command.ends \in ExitCodes \cup {Signal}
              /\ ReturnCode = IF Command.ends = Signal THEN 0 ELSE Int8(Command.ends)
              /\ result.output = Command.writes
<1>1. /\ child.state = "reaped" /\ watchdog = "done" /\ pipe = 0
      /\ result.wasKilled => late
  BY DEF IInv, InOrder, EndsOrIsKilled
<1>2. Command \in Commands
  BY TestFacts DEF IInv
<1>3. ASSUME ~result.wasKilled
      PROVE  child.status = Command.ends /\ child.status # Never /\ child.unwritten = 0
  BY <1>1, <1>3 DEF IInv, EndsOrIsKilled
<1>4. ASSUME ~result.wasKilled
      PROVE  result.output = Command.writes
  BY <1>1, <1>2, <1>3, <1>4 DEF IInv, NothingLost, TypeOK, Commands
<1>5. QED
  BY <1>1, <1>2, <1>3, <1>4 DEF Commands, ReturnCode

(* The next command starts.                                                 *)
LEMMA ExecuteStep ==
  ASSUME IInv, NEW c \in {"compiler", "program"}, Execute(c), UNCHANGED <<test, verdict>>, verdict = "none",
         ExitsWith("library", 0), c = "program" => ExitsWith("compiler", 0)
  PROVE  IInv'
<1>1. test[c] \in Commands /\ Command' = test[c]
  BY TestFacts DEF IInv, Execute, Command
<1>2. TypeOK'
  BY <1>1 DEF IInv, TypeOK, Execute, Forked, NoResult, Commands
<1>3. InOrder' /\ NothingLost' /\ EndsOrIsKilled'
  BY <1>1 DEF InOrder, NothingLost, EndsOrIsKilled, Execute, Forked, NoResult, Commands
<1>4. Before'
  BY DEF Before, ExitsWith, Execute
<1>5. VerdictDeserved'
  BY DEF VerdictDeserved
<1>6. QED
  BY <1>2, <1>3, <1>4, <1>5 DEF IInv

(* A verdict is passed.                                                     *)
LEMMA JudgeStep ==
  ASSUME IInv, NEW passed \in BOOLEAN, Judge(passed), runner = "returned",
         passed => AsExpected,
         ~passed => ~AsExpected \/ late
  PROVE  IInv'
<1>1. UNCHANGED <<test, command>> /\ UNCHANGED <<child, helper, pipe, runner, watchdog, stop, late, result>>
  BY DEF Judge, executeVars
<1>2. verdict' = IF passed THEN "passed" ELSE "failed"
  BY DEF Judge
<1>3. Command' = Command /\ Before' /\ AsExpected' = AsExpected
  BY <1>1, SameTest
<1>4. VerdictDeserved'
  BY <1>1, <1>2, <1>3 DEF VerdictDeserved
<1>5. TypeOK' /\ InOrder' /\ NothingLost' /\ EndsOrIsKilled'
  BY <1>1, <1>2, <1>3 DEF IInv, TypeOK, InOrder, NothingLost, EndsOrIsKilled
<1>6. QED
  BY <1>3, <1>4, <1>5 DEF IInv

(* What the code of a command that has not been killed says.                *)
LEMMA CodeTells ==
  ASSUME IInv, NEW c \in {"library", "compiler", "program"}, command = c,
         runner = "returned", ~result.wasKilled, NEW code
  PROVE  ReturnCode = code <=> ExitsWith(c, code)
<1>1. Command = test[c]
  BY DEF Command
<1>2. Command.ends \in ExitCodes \cup {Signal} /\ Signal \notin ExitCodes
  BY Outcome DEF ExitCodes
<1>3. ReturnCode = IF Command.ends = Signal THEN 0 ELSE Int8(Command.ends)
  BY Outcome
<1>4. QED
  BY <1>1, <1>2, <1>3 DEF ExitsWith

(* A command does not end in two ways.                                      *)
LEMMA OneCode ==
  ASSUME NEW c, NEW x, NEW y, ExitsWith(c, x), ExitsWith(c, y)
  PROVE  x = y
  BY DEF ExitsWith, ExitCodes

LEMMA LibraryStep ==
  ASSUME IInv, LibraryCompiled
  PROVE  IInv'
<1>1. runner = "returned" /\ command = "library" /\ verdict = "none"
  BY DEF LibraryCompiled, Returned
<1>2. ~result.wasKilled
  BY <1>1 DEF IInv, EndsOrIsKilled
<1>3. ReturnCode = 0 <=> ExitsWith("library", 0)
  BY <1>1, <1>2, CodeTells
<1>4. CASE ReturnCode = 0
  <2>1. Execute("compiler") /\ UNCHANGED <<test, verdict>>
    BY <1>4 DEF LibraryCompiled
  <2>2. QED
    BY <1>1, <1>3, <1>4, <2>1, ExecuteStep
<1>5. CASE ReturnCode # 0
  <2>1. ~AsExpected
    BY <1>3, <1>5 DEF AsExpected
  <2>2. Judge(FALSE)
    BY <1>5 DEF LibraryCompiled
  <2>3. QED
    BY <1>1, <2>1, <2>2, JudgeStep
<1>6. QED
  BY <1>4, <1>5

LEMMA CompilerStep ==
  ASSUME IInv, Compiled
  PROVE  IInv'
<1>1. runner = "returned" /\ command = "compiler" /\ verdict = "none"
  BY DEF Compiled, Returned
<1>2. ExitsWith("library", 0)
  BY <1>1 DEF IInv, Before
<1>3. /\ result.wasKilled => late
      /\ ~result.wasKilled => \A code : ReturnCode = code <=> ExitsWith("compiler", code)
  BY <1>1, CodeTells, Outcome
<1>4. CASE ~result.wasKilled /\ ReturnCode = 0
  <2>1. ExitsWith("compiler", 0)
    BY <1>3, <1>4
  <2>2. Execute("program") /\ UNCHANGED <<test, verdict>>
    BY <1>4 DEF Compiled
  <2>3. QED
    BY <1>1, <1>2, <2>1, <2>2, ExecuteStep
<1>5. CASE ~(~result.wasKilled /\ ReturnCode = 0)
  <2> DEFINE passed == ~result.wasKilled /\ (ReturnCode = test.compilation \/ test.skipped)
  <2>1. Judge(passed)
    BY <1>5 DEF Compiled
  <2>2. passed \in BOOLEAN
    BY TestFacts DEF IInv
  <2>3. ASSUME passed PROVE AsExpected
    <3>1. ReturnCode # 0 /\ (test.skipped \/ ExitsWith("compiler", test.compilation))
      BY <1>3, <1>5, <2>3
    <3>2. test.skipped \/ test.compilation # 0
      BY <1>3, <1>5, <2>3
    <3>3. QED
      BY <1>2, <3>1, <3>2 DEF AsExpected, CompilesAsExpected
  <2>4. ASSUME ~passed, AsExpected PROVE late
    BY <1>3, <2>4 DEF AsExpected, CompilesAsExpected
  <2>5. QED
    BY <1>1, <2>1, <2>2, <2>3, <2>4, JudgeStep
<1>6. QED
  BY <1>4, <1>5

LEMMA ProgramStep ==
  ASSUME IInv, Executed
  PROVE  IInv'
<1>1. runner = "returned" /\ command = "program" /\ Command = test.program
  BY DEF Executed, Returned, Command
<1>2. ExitsWith("library", 0) /\ ExitsWith("compiler", 0)
  BY <1>1 DEF IInv, Before
<1>3. /\ result.wasKilled => late
      /\ ~result.wasKilled =>
           /\ \A code : ReturnCode = code <=> ExitsWith("program", code)
           /\ result.output = test.program.writes
  BY <1>1, CodeTells, Outcome
<1> DEFINE passed == ~result.wasKilled /\ (Validates \/ test.skipped)
<1>4. Judge(passed)
  BY DEF Executed
<1>5. passed \in BOOLEAN
  BY TestFacts DEF IInv, Validates
<1>6. ~result.wasKilled => (Validates <=> test.compilation = 0 /\ RunsAsExpected)
  BY <1>3 DEF Validates, RunsAsExpected
<1>7. ASSUME passed PROVE AsExpected
  BY <1>2, <1>6, <1>7 DEF AsExpected, CompilesAsExpected
<1>8. ASSUME ~passed, AsExpected PROVE late
  <2>1. test.skipped \/ test.compilation = 0
    BY <1>2, <1>8, OneCode DEF AsExpected, CompilesAsExpected
  <2>2. QED
    BY <1>3, <1>6, <1>8, <2>1 DEF AsExpected
<1>9. QED
  BY <1>1, <1>4, <1>5, <1>7, <1>8, JudgeStep

-----------------------------------------------------------------------------
LEMMA Inductive == IInv /\ [Next]_vars => IInv'
<1> SUFFICES ASSUME IInv, [Next]_vars PROVE IInv'
  OBVIOUS
<1>1. CASE ChildStep \/ HelperEnds
  BY <1>1, ChildSteps
<1>2. CASE WatchdogStep
  BY <1>2, WatchdogSteps
<1>3. CASE TimeUp
  BY <1>3, TimeStep
<1>4. CASE RunnerStep
  BY <1>4, ReadSteps, LibraryStep, CompilerStep, ProgramStep DEF RunnerStep
<1>5. CASE UNCHANGED vars
  <2>1. Command' = Command /\ Before' /\ VerdictDeserved'
    BY <1>5, SameTest, SameVerdict DEF vars
  <2>2. TypeOK' /\ InOrder' /\ NothingLost' /\ EndsOrIsKilled'
    BY <1>5, <2>1 DEF vars, IInv, TypeOK, InOrder, NothingLost, EndsOrIsKilled
  <2>3. QED
    BY <2>1, <2>2 DEF IInv
<1>6. QED
  BY <1>1, <1>2, <1>3, <1>4, <1>5 DEF Next

LEMMA InvariantHolds == Spec => []IInv
  BY Initially, Inductive, PTL DEF Spec

(* The process that the watchdog kills is the child that it watches, or has *)
(* been: nobody has waited for it, so that its number is not in other hands.*)
THEOREM NoStranger == Spec => []KillsNoStranger
<1>1. IInv => KillsNoStranger
  BY DEF IInv, InOrder, KillsNoStranger
<1>2. QED
  BY <1>1, InvariantHolds, PTL

(* For every test, every size of the pipe and wherever the output is cut, a *)
(* test passes only if its commands did what it expects, so far as it is    *)
(* compared, and fails only if they did not or the time was up.             *)
THEOREM Deserved == Spec => []VerdictDeserved
<1>1. IInv => VerdictDeserved
  BY DEF IInv
<1>2. QED
  BY <1>1, InvariantHolds, PTL
===============================================================================
