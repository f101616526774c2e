------------------------------ MODULE TestRunner ------------------------------
(****************************************************************************)
(* compilerTester (tests/compilerTester.cpp) runs one test: it compiles the *)
(* library of the tests, compiles the test, runs the program that comes of  *)
(* it, and passes its verdict.  Every command is a child process whose      *)
(* output the main thread reads from a pipe, while a second thread, the     *)
(* watchdog, waits for the time limit to kill the process group.            *)
(*                                                                          *)
(* A command is a record:                                                   *)
(*   writes   how many times it writes to its output                        *)
(*   closes   whether it then closes its output                             *)
(*   helper   "none", or whether it waits for the process it starts         *)
(*            ("awaited") or not ("left"), and helperEnds                   *)
(*   ends     its exit code, or Signal, or Never                            *)
(****************************************************************************)
EXTENDS Integers

CONSTANTS
  Tests,      \* the commands library, compiler and program, and what the
              \* test expects: compilation, execution, output, skipped
  PipeSize,   \* how much may be written before it is read
  MaxOutput,  \* how much of the output is compared
  Signal,     \* what a process ends by that has no exit code
  Never       \* a process that does not end, or has not ended

ExitCodes == 0 .. 255
Commands ==
  [writes : Nat, closes : BOOLEAN, helper : {"none", "awaited", "left"}, helperEnds : BOOLEAN,
   ends : ExitCodes \cup {Signal, Never}]

ASSUME EndsDiffer == Signal # Never /\ Signal \notin Int /\ Never \notin Int
ASSUME PipeHoldsSomething == PipeSize \in Nat \ {0}
ASSUME OutputIsCut == MaxOutput \in Nat
ASSUME TestsWellFormed ==
  Tests \subseteq [library : Commands, compiler : Commands, program : Commands,
                   compilation : Int, execution : Int, output : Nat, skipped : BOOLEAN]

VARIABLES
  test,
  command,     \* the command that runs: "library", "compiler" or "program"
  child,       \* its process: state, grouped, unwritten, hasOutput, status
  helper,      \* the process it started: "none", "running" or "ended"
  pipe,        \* what is in the pipe
  runner,      \* the main thread
  watchdog,    \* the other thread
  stop,        \* watchdog_stop
  late,        \* whether the time is up
  result,      \* the CommandResult: output and wasKilled
  verdict      \* the exit code of the test runner, as a word

vars == <<test, command, child, helper, pipe, runner, watchdog, stop, late, result, verdict>>
executeVars == <<child, helper, pipe, runner, watchdog, stop, late, result>>

Command == test[command]

Forked(c) == [state |-> "forked", grouped |-> FALSE, unwritten |-> c.writes, hasOutput |-> TRUE, status |-> Never]
NoResult == [output |-> 0, wasKilled |-> FALSE]

(* popen2 returns as soon as the child has been forked.  The library is     *)
(* compiled without a time limit.                                           *)
Execute(c) ==
  /\ command' = c
  /\ child' = Forked(test[c])
  /\ helper' = "none"
  /\ pipe' = 0
  /\ runner' = "reading"
  /\ watchdog' = IF c = "library" THEN "done" ELSE "waiting"
  /\ stop' = FALSE
  /\ late' = FALSE
  /\ result' = NoResult

Init ==
  /\ test \in Tests
  /\ command = "library"
  /\ child = Forked(test.library)
  /\ helper = "none"
  /\ pipe = 0
  /\ runner = "reading"
  /\ watchdog = "done"
  /\ stop = FALSE
  /\ late = FALSE
  /\ result = NoResult
  /\ verdict = "none"

-----------------------------------------------------------------------------
(* The child and what it starts.                                            *)
Running == child.state = "running"
ChildOnly == UNCHANGED <<test, command, runner, watchdog, stop, late, result, verdict>>

(* setpgid and execl.                                                       *)
BecomeCommand ==
  /\ child.state = "forked"
  /\ child' = [child EXCEPT !.state = "running", !.grouped = TRUE]
  /\ UNCHANGED <<helper, pipe>> /\ ChildOnly

Write ==
  /\ Running /\ child.unwritten > 0 /\ pipe < PipeSize
  /\ child' = [child EXCEPT !.unwritten = @ - 1]
  /\ pipe' = pipe + 1
  /\ UNCHANGED helper /\ ChildOnly

StartHelper ==
  /\ Running /\ helper = "none" /\ Command.helper # "none"
  /\ helper' = "running"
  /\ UNCHANGED <<child, pipe>> /\ ChildOnly

CloseOutput ==
  /\ Running /\ child.hasOutput /\ child.unwritten = 0 /\ Command.closes
  /\ child' = [child EXCEPT !.hasOutput = FALSE]
  /\ UNCHANGED <<helper, pipe>> /\ ChildOnly

Exit ==
  /\ Running /\ Command.ends # Never
  /\ child.unwritten = 0
  /\ Command.closes => ~child.hasOutput
  /\ helper \in CASE Command.helper = "none" -> {"none"}
                  [] Command.helper = "awaited" -> {"ended"}
                  [] Command.helper = "left" -> {"running", "ended"}
  /\ child' = [child EXCEPT !.state = "zombie", !.hasOutput = FALSE, !.status = Command.ends]
  /\ UNCHANGED <<helper, pipe>> /\ ChildOnly

HelperEnds ==
  /\ helper = "running" /\ Command.helperEnds
  /\ helper' = "ended"
  /\ UNCHANGED <<child, pipe>> /\ ChildOnly

ChildStep == BecomeCommand \/ Write \/ StartHelper \/ CloseOutput \/ Exit

-----------------------------------------------------------------------------
(* The watchdog.  Once the loop has ended it does not look at watchdog_stop *)
(* again.                                                                   *)
WatchdogOnly == UNCHANGED <<test, command, pipe, runner, stop, late, verdict>>

WatchdogStops ==
  /\ watchdog = "waiting" /\ stop
  /\ watchdog' = "done"
  /\ UNCHANGED <<child, helper, result>> /\ WatchdogOnly

WatchdogExpires ==
  /\ watchdog = "waiting" /\ late
  /\ watchdog' = "expired"
  /\ UNCHANGED <<child, helper, result>> /\ WatchdogOnly

MarkKilled ==
  /\ watchdog = "expired"
  /\ watchdog' = "killing"
  /\ result' = [result EXCEPT !.wasKilled = TRUE]
  /\ UNCHANGED <<child, helper>> /\ WatchdogOnly

(* A process that is killed; one that has ended stays as it is.             *)
Killed(process) ==
  IF process.state = "running"
  THEN [process EXCEPT !.state = "zombie", !.hasOutput = FALSE, !.status = Signal] ELSE process

(* A slip, for mutation: kill where killpg belongs.                         *)
KillChildOnly ==
  /\ child' = IF child.grouped THEN Killed(child) ELSE child
  /\ UNCHANGED helper

(* The group of the child does not exist before setpgid.                    *)
KillGroup ==
  /\ child' = IF child.grouped THEN Killed(child) ELSE child
  /\ helper' = IF child.grouped /\ helper = "running" THEN "ended" ELSE helper

Kill ==
  /\ watchdog = "killing"
  /\ watchdog' = "done"
  /\ KillGroup
  /\ UNCHANGED result /\ WatchdogOnly

WatchdogStep == WatchdogStops \/ WatchdogExpires \/ MarkKilled \/ Kill

TimeUp ==
  /\ ~late /\ runner # "returned" /\ verdict = "none"
  /\ late' = TRUE
  /\ UNCHANGED <<test, command, child, helper, pipe, runner, watchdog, stop, result, verdict>>

-----------------------------------------------------------------------------
(* The main thread.                                                         *)
RunnerOnly == UNCHANGED <<test, command, helper, watchdog, late, verdict>>

Read ==
  /\ runner = "reading" /\ pipe > 0
  /\ pipe' = pipe - 1
  /\ result' = [result EXCEPT !.output = @ + 1]
  /\ UNCHANGED <<child, runner, stop>> /\ RunnerOnly

(* The end of the file is reached when nobody is left who could write.      *)
ReachEnd ==
  /\ runner = "reading" /\ pipe = 0 /\ ~child.hasOutput /\ helper # "running"
  /\ stop' = TRUE
  /\ runner' = "joining"
  /\ UNCHANGED <<child, pipe, result>> /\ RunnerOnly

(* A slip, for mutation: the child is waited for before the watchdog.       *)
JoinLater ==
  /\ runner = "joining"
  /\ runner' = "waiting"
  /\ UNCHANGED <<child, pipe, stop, result>> /\ RunnerOnly

Join ==
  /\ runner = "joining" /\ watchdog = "done"
  /\ runner' = "waiting"
  /\ UNCHANGED <<child, pipe, stop, result>> /\ RunnerOnly

(* waitpid: from here on another process may get the number of the child.   *)
Wait ==
  /\ runner = "waiting" /\ child.state = "zombie"
  /\ child' = [child EXCEPT !.state = "reaped"]
  /\ runner' = "returned"
  /\ UNCHANGED <<pipe, stop, result>> /\ RunnerOnly

(* An exit code is taken for a signed byte; WEXITSTATUS of a process that a *)
(* signal has ended is zero.                                                *)
Int8(code) == IF code < 128 THEN code ELSE code - 256
ReturnCode == IF child.status = Signal THEN 0 ELSE Int8(child.status)

Returned(c) == runner = "returned" /\ command = c /\ verdict = "none"
Judge(passed) ==
  /\ verdict' = IF passed THEN "passed" ELSE "failed"
  /\ UNCHANGED <<test, command>> /\ UNCHANGED executeVars

LibraryCompiled ==
  /\ Returned("library")
  /\ IF ReturnCode = 0 THEN Execute("compiler") /\ UNCHANGED <<test, verdict>> ELSE Judge(FALSE)

(* A program is only run if the compilation ended well.                     *)
Compiled ==
  /\ Returned("compiler")
  /\ IF ~result.wasKilled /\ ReturnCode = 0 THEN Execute("program") /\ UNCHANGED <<test, verdict>>
     ELSE Judge(~result.wasKilled /\ (ReturnCode = test.compilation \/ test.skipped))

(* Whatever a program writes beyond MaxOutput is cut off before its output  *)
(* is compared; what the test expects is not cut.                           *)
Truncated(output) == IF output > MaxOutput THEN MaxOutput ELSE output

Validates ==
  /\ test.compilation = 0
  /\ ReturnCode = test.execution
  /\ Truncated(result.output) = test.output

(* A slip, for mutation: a program that had to be killed is judged by what  *)
(* it wrote.                                                                *)
ExecutedEvenIfKilled == Returned("program") /\ Judge(Validates \/ test.skipped)

Executed == Returned("program") /\ Judge(~result.wasKilled /\ (Validates \/ test.skipped))

RunnerStep == Read \/ ReachEnd \/ Join \/ Wait \/ LibraryCompiled \/ Compiled \/ Executed

-----------------------------------------------------------------------------
Next == ChildStep \/ HelperEnds \/ WatchdogStep \/ TimeUp \/ RunnerStep

(* Threads and processes are scheduled and time passes.                     *)
Spec ==
  /\ Init /\ [][Next]_vars
  /\ WF_vars(ChildStep) /\ WF_vars(HelperEnds) /\ WF_vars(WatchdogStep) /\ WF_vars(TimeUp) /\ WF_vars(RunnerStep)

-----------------------------------------------------------------------------
TypeOK ==
  /\ test \in Tests
  /\ command \in {"library", "compiler", "program"}
  /\ child \in [state : {"forked", "running", "zombie", "reaped"}, grouped : BOOLEAN, unwritten : Nat,
                hasOutput : BOOLEAN, status : ExitCodes \cup {Signal, Never}]
  /\ helper \in {"none", "running", "ended"}
  /\ pipe \in Nat
  /\ runner \in {"reading", "joining", "waiting", "returned"}
  /\ watchdog \in {"waiting", "expired", "killing", "done"}
  /\ stop \in BOOLEAN /\ late \in BOOLEAN
  /\ result \in [output : Nat, wasKilled : BOOLEAN]
  /\ verdict \in {"none", "passed", "failed"}

(* Safety: whoever is killed is a process of this test: while the watchdog  *)
(* may still kill, the number of the child belongs to the child, also when  *)
(* the child ends by itself at that very moment.                            *)
KillsNoStranger == watchdog \in {"expired", "killing"} => child.state # "reaped"

(* The commands do what the test expects, so far as it is compared: of the  *)
(* output the first MaxOutput, and a command that a signal ends will do     *)
(* wherever zero is expected.  A test that is skipped only needs its        *)
(* library.                                                                 *)
ExitsWith(c, code) ==
  \/ test[c].ends \in ExitCodes /\ Int8(test[c].ends) = code
  \/ test[c].ends = Signal /\ code = 0
CompilesAsExpected == ExitsWith("compiler", test.compilation)
RunsAsExpected == ExitsWith("program", test.execution) /\ Truncated(test.program.writes) = test.output
AsExpected ==
  /\ ExitsWith("library", 0)
  /\ test.skipped \/ (CompilesAsExpected /\ (test.compilation = 0 => RunsAsExpected))

(* Safety: a test passes only if its commands did what it expects, the      *)
(* program up to the first MaxOutput of its output, and fails only if they  *)
(* did not or the time was up: whatever the pipe still holds when a command *)
(* ends, and whenever it ends by itself while it is about to be killed.     *)
VerdictDeserved ==
  /\ verdict = "passed" => AsExpected
  /\ verdict = "failed" => ~AsExpected \/ late

(* The command is out of reach: it was not yet a group when it was to be    *)
(* killed, or it has closed its output, at which the watchdog goes away.    *)
Hangs == Command.ends = Never \/ (helper = "running" /\ ~Command.helperEnds)
OutOfReach == Hangs /\ child.status # Signal /\ watchdog = "done" /\ (result.wasKilled \/ stop)

(* Liveness: every test comes to a verdict, whatever hangs, unless the      *)
(* child gets out of reach or the library hangs, which has no time limit.   *)
RunnerEnds == <>(verdict # "none" \/ OutOfReach \/ test.library.ends = Never)
===============================================================================
