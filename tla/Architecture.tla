----------------------------- MODULE Architecture -----------------------------
(****************************************************************************)
(* What the backends know of a processor                                    *)
(* (compiler/src/backend/Architecture.cpp).  Registers are named as in      *)
(* registerTranslation; pushes of x86_64 move the stack pointer by 8 bytes, *)
(* those of AArch64 by 16, and both count as one here.                      *)
(****************************************************************************)
EXTENDS Naturals, Sequences

X86_64 ==
  [name        |-> "x86_64",
   calleeSaved |-> <<"rbx", "rbp", "rsp", "r12", "r13", "r14", "r15">>,
   general     |-> <<"rax", "rbx", "rcx", "rdx", "rsi", "rdi", "r8", "r9",
                     "r10", "r11", "r12", "r13", "r14", "r15">>,
   parameters  |-> <<"rdi", "rsi", "rdx", "rcx", "r8", "r9">>,
   return      |-> "rax",
   sp          |-> "rsp"]

X(first, last) == [i \in 1 .. last - first + 1 |->
  <<"x0", "x1", "x2", "x3", "x4", "x5", "x6", "x7", "x8", "x9", "x10", "x11", "x12", "x13", "x14", "x15",
    "x16", "x17", "x18", "x19", "x20", "x21", "x22", "x23", "x24", "x25", "x26", "x27", "x28", "x29",
    "x30">>[first + i]]

AArch64 ==
  [name        |-> "AArch64",
   calleeSaved |-> X(19, 30),
   general     |-> X(0, 17) \o X(19, 28),
   parameters  |-> X(0, 7),
   return      |-> "x0",
   sp          |-> "sp"]
==============================================================================
