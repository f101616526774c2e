---------------------------- MODULE OutputFormats ----------------------------
(****************************************************************************)
(* What main.cpp does with a function that the validator has accepted: it   *)
(* goes through the generator that the output format names.  Whichever that *)
(* is, the code means what the tree means.                                  *)
(****************************************************************************)
EXTENDS Assembly

CONSTANTS
  Sources,        \* functions for the assembly generators
  RSISources,     \* functions with integers of one size
  RSIByteValues,  \* ByteValues for RSI, which does not look into integers
  References, Labels, None, MaxCalls   \* see RSI and RSIGeneration

ASSUME BytesAssumption == RSIByteValues \leq ByteValues

VARIABLES
  format,         \* outputFormat
  source, generated, at, memory, calls, outcome,
  registers, compared,   \* see NASMGeneration and AArch64Generation
  arguments              \* see RSIGeneration

vars == <<format, source, generated, at, memory, calls, outcome, registers, compared, arguments>>

RSI     == INSTANCE RSIGeneration WITH Sources <- RSISources, ByteValues <- RSIByteValues
NASM    == INSTANCE NASMGeneration
AArch64 == INSTANCE AArch64Generation

Init ==
  \/ format = "RSI"     /\ RSI!Init     /\ registers = <<>> /\ compared = <<>>
  \/ format = "NASM"    /\ NASM!Init    /\ arguments = <<>>
  \/ format = "AArch64" /\ AArch64!Init /\ arguments = <<>>

RunRSI     == format = "RSI"     /\ RSI!Next     /\ UNCHANGED <<format, registers, compared>>
RunNASM    == format = "NASM"    /\ NASM!Next    /\ UNCHANGED <<format, arguments>>
RunAArch64 == format = "AArch64" /\ AArch64!Next /\ UNCHANGED <<format, arguments>>

Next == RunRSI \/ RunNASM \/ RunAArch64

Spec == Init /\ [][Next]_vars /\ WF_vars(Next)

-----------------------------------------------------------------------------
(* Trees of which the code is known to differ, see the generators.          *)
Differs ==
  CASE format = "RSI"     -> RSI!Differs(source)
    [] format = "NASM"    -> NASM!Differs(source)
    [] format = "AArch64" -> AArch64!Differs(source)

MeaningOfSource == IF format = "RSI" THEN RSI!Meaning(source) ELSE Meaning(source)

(* Safety: the RSI code has the form that the passes and analyses assume.   *)
GeneratedIsAccepted == format = "RSI" => RSI!GeneratedIsAccepted

(* Safety: what an assembly instruction takes for operands of one size has  *)
(* that size: SemanticValidator has put a conversion wherever it is needed. *)
OperandsAgree == format # "RSI" /\ at = 1 => OperandsAgreeIn(source)

(* Safety: the stack pointer is aligned at every call, and when a function  *)
(* returns, the stack pointer and the registers of its caller are what they *)
(* were, unless a skip has left a scope on the stack.                       *)
FrameRestored == (format = "NASM" => NASM!FrameRestored) /\ (format = "AArch64" => AArch64!FrameRestored)

(* Safety: the code makes the calls that the tree means, in their order and *)
(* with their arguments, returns the same and leaves the same in globals.   *)
CodeMeansSource ==
  outcome # <<>> /\ ~Differs =>
    LET end == MeaningOfSource
    IN /\ end.flow # "stuck"
       /\ ~generated.refused
       /\ outcome = <<end.result>>
       /\ calls = end.calls
       /\ \A v \in DOMAIN source.globals :
            end.value[v] = IF format = "RSI" THEN RSI!GlobalValue(v) ELSE NASM!GlobalValue(v)

(* Liveness: where the tree comes to an end, so does the code.              *)
CodeEnds == at = 1 /\ ~Differs /\ MeaningOfSource.flow # "stuck" ~> outcome # <<>>
==============================================================================
