---------------------------- MODULE ScopeCleanup -----------------------------
(****************************************************************************)
(* Scopes, loops and the stack pointer in the direct x86_64 backend.        *)
(*                                                                          *)
(*   validate  SemanticValidator keeps the open scopes and loops, and       *)
(*             notes at every break, skip and return which scopes it leaves *)
(*   insert    VariableSizeInserter gives every variable its frame offset   *)
(*   run       the code of NASMCodeGenerator, as far as it moves rsp        *)
(*                                                                          *)
(* A function is the sequence of tokens in which a visitor meets its parts: *)
(*   block, endblock                                                        *)
(*   loop, endloop     the start label and the jump back of any loop        *)
(*   init, endinit     around the loop of a for with a declaration: its     *)
(*                     initializationContext and its end label              *)
(*   if, else, endif   var   break, skip, return                            *)
(****************************************************************************)
EXTENDS Integers, Sequences, FiniteSets, FiniteSetsExt

CONSTANTS
  FunctionBodies,   \* the functions
  StackLimit        \* bound: no further from its start is rsp followed

ASSUME StackLimitIsNat == StackLimit \in Nat

LoopKind == {"while", "do", "for", "fordecl"}
Token == [op : {"block", "endblock", "init", "endinit", "endloop", "if", "else", "endif",
                "break", "skip", "return"}]
         \cup [op : {"loop"}, kind : LoopKind]
         \cup [op : {"var"}, size : Nat]

ClosedBy == [block |-> "endblock", init |-> "endinit", loop |-> "endloop", if |-> "endif"]
Opening == DOMAIN ClosedBy
Closing == {ClosedBy[op] : op \in Opening}
Scopes  == {"block", "init"}

Level(f, i) ==
  Cardinality({j \in 1 .. i : f[j].op \in Opening}) - Cardinality({j \in 1 .. i : f[j].op \in Closing})

(* The token that closes the part that token i opens.                       *)
MatchingEnd(f, i) ==
  CHOOSE j \in i + 1 .. Len(f) :
    Level(f, j) = Level(f, i) - 1 /\ \A k \in i .. j - 1 : Level(f, k) >= Level(f, i)

(* The else that divides the part of an if.                                 *)
ElseIn(f, i) ==
  {j \in i + 1 .. MatchingEnd(f, i) - 1 : f[j].op = "else" /\ Level(f, j) = Level(f, i)}

(* A for with a declaration is its variable and its loop, and nothing else. *)
IsForDeclaration(f, i) ==
  /\ i + 2 <= Len(f)
  /\ f[i + 1].op = "var" /\ f[i + 2].op = "loop"
  /\ MatchingEnd(f, i) = MatchingEnd(f, i + 2) + 1

WellNested(f) ==
  /\ f \in Seq(Token) /\ Len(f) > 1
  /\ f[1].op = "block" /\ Level(f, Len(f)) = 0
  /\ \A i \in 1 .. Len(f) - 1 : Level(f, i) > 0
  /\ \A i \in 1 .. Len(f) :
       /\ f[i].op \in Opening => f[MatchingEnd(f, i)].op = ClosedBy[f[i].op]
       /\ f[i].op = "init" => IsForDeclaration(f, i)
       /\ f[i].op = "loop" => (f[i].kind = "fordecl" <=> i > 2 /\ f[i - 2].op = "init")
       /\ f[i].op = "else" => \E h \in 1 .. i : f[h].op = "if" /\ i \in ElseIn(f, h)

ASSUME FunctionBodiesWellNested == \A f \in FunctionBodies : WellNested(f)

EndOf == [f \in FunctionBodies |->
            [i \in {j \in 1 .. Len(f) : f[j].op \in Opening} |-> MatchingEnd(f, i)]]

VARIABLES
  function,
  status,        \* "validate", "insert", "run"; "rejected", "crash", "returned"
  at,            \* the token that is visited or executed
  contexts,      \* SemanticValidator::variableContexts: the opening token, hasLoopCurrently
  loops,         \* SemanticValidator::loops
  exits,         \* containedScopes and loop of the break, skip and return nodes
  hasError,
  stackOffset,   \* VariableSizeInserter::stackOffset
  accessor,      \* variable->accessor of every var token
  rsp            \* how far rsp is below its value at the start of the body

vars == <<function, status, at, contexts, loops, exits, hasError, stackOffset, accessor, rsp>>

Context(scope) == [scope |-> scope, hasLoop |-> FALSE]
GlobalScope == 0

Init ==
  /\ function \in FunctionBodies
  /\ status = "validate" /\ at = 1
  /\ contexts = <<Context(GlobalScope)>>
  /\ loops = <<>>
  /\ exits = [i \in {} |-> <<>>]
  /\ hasError = FALSE
  /\ stackOffset = 0
  /\ accessor = [i \in {} |-> 0]
  /\ rsp = 0

-----------------------------------------------------------------------------
Op == function[at].op
KindOf(loop) == function[loop].kind
End(i) == EndOf[function][i]
Opener == CHOOSE i \in DOMAIN EndOf[function] : End(i) = at

Inside(i, outer) == outer < i /\ i < End(outer)

(* The variables of a scope: a declaration belongs to the innermost one.    *)
ScopeOf(i) == Max({s \in 1 .. i : function[s].op \in Scopes /\ Inside(i, s)})
VariablesOf(scope) ==
  {i \in 1 .. Len(function) : function[i].op = "var" /\ ScopeOf(i) = scope}
sizeOfLocalVariables(scope) == MapThenSumSet(LAMBDA i : function[i].size, VariablesOf(scope))

(****************************************************************************)
(* SemanticValidator                                                        *)
(****************************************************************************)
Top == Len(contexts)
Visited == at' = at + 1 /\ UNCHANGED <<function, status, stackOffset, accessor, rsp>>
Validating(ops) == status = "validate" /\ at <= Len(function) /\ Op \in ops

VisitScope ==
  /\ Validating({"block"})
  /\ contexts' = Append(contexts, Context(at))
  /\ Visited /\ UNCHANGED <<loops, exits, hasError>>

LeaveScope ==
  /\ Validating({"endblock"})
  /\ contexts' = SubSeq(contexts, 1, Top - 1)
  /\ Visited /\ UNCHANGED <<loops, exits, hasError>>

(* while, do-while and a for without declaration open no scope themselves;  *)
(* the loop of a for with one is announced by its init token.               *)
VisitLoop ==
  /\ Validating({"loop"}) /\ KindOf(at) # "fordecl"
  /\ loops' = Append(loops, at)
  /\ contexts' = [contexts EXCEPT ![Top].hasLoop = TRUE]
  /\ Visited /\ UNCHANGED <<exits, hasError>>

LeaveLoop ==
  /\ Validating({"endloop"}) /\ KindOf(Opener) # "fordecl"
  /\ loops' = SubSeq(loops, 1, Len(loops) - 1)
  /\ contexts' = [contexts EXCEPT ![Top].hasLoop = FALSE]
  /\ Visited /\ UNCHANGED <<exits, hasError>>

LoopIn(init) == CHOOSE i \in DOMAIN EndOf[function] : i > init /\ End(i) = End(init) - 1

VisitForDeclaration ==
  /\ Validating({"init"})
  /\ loops' = Append(loops, LoopIn(at))
  /\ contexts' = Append([contexts EXCEPT ![Top].hasLoop = TRUE], Context(at))
  /\ Visited /\ UNCHANGED <<exits, hasError>>

LeaveForDeclaration ==
  /\ Validating({"endinit"})
  /\ loops' = SubSeq(loops, 1, Len(loops) - 1)
  /\ contexts' = [SubSeq(contexts, 1, Top - 1) EXCEPT ![Top - 1].hasLoop = FALSE]
  /\ Visited /\ UNCHANGED <<exits, hasError>>

VisitOther ==
  /\ \/ Validating({"if", "else", "endif", "var"})
     \/ Validating({"loop"}) /\ KindOf(at) = "fordecl"
     \/ Validating({"endloop"}) /\ KindOf(Opener) = "fordecl"
  /\ Visited /\ UNCHANGED <<contexts, loops, exits, hasError>>

(* A slip, for mutation: only the innermost context is looked at.           *)
LoopContextAtTop == IF contexts[Top].hasLoop THEN Top ELSE 0

(* The innermost context that has a loop, 0 if there is none.               *)
LoopContext == Max({0} \cup {k \in 1 .. Top : contexts[k].hasLoop})

hasAdditionalCleanup == KindOf(loops[Len(loops)]) = "fordecl"

(* A slip, for mutation: the additional context is cleaned up, too.         *)
FirstContainedWithInit == LoopContext + 1

(* Where containedScopes begins.  A skip always advances by one, a break    *)
(* only if the loop has an additional context.                              *)
FirstContained == LoopContext + (IF Op = "skip" \/ hasAdditionalCleanup THEN 2 ELSE 1)

LeavesScopesFrom(first, loop) ==
  exits' = [i \in DOMAIN exits \cup {at} |->
              IF i = at THEN [scopes |-> {contexts[k].scope : k \in first .. Top}, loop |-> loop]
              ELSE exits[i]]

VisitExitOutsideLoop ==
  /\ Validating({"break", "skip"})
  /\ loops = <<>> \/ LoopContext = 0
  /\ hasError' = TRUE
  /\ Visited /\ UNCHANGED <<contexts, loops, exits>>

VisitExit ==
  /\ Validating({"break", "skip"})
  /\ loops # <<>> /\ LoopContext # 0 /\ FirstContained <= Top + 1
  /\ LeavesScopesFrom(FirstContained, loops[Len(loops)])
  /\ Visited /\ UNCHANGED <<contexts, loops, hasError>>

(* The iterators of containedScopes are past each other: std::length_error. *)
VisitExitThrows ==
  /\ Validating({"break", "skip"})
  /\ loops # <<>> /\ LoopContext # 0 /\ FirstContained > Top + 1
  /\ status' = "crash"
  /\ UNCHANGED <<function, at, contexts, loops, exits, hasError, stackOffset, accessor, rsp>>

(* A return leaves every scope but the global one.                          *)
VisitReturn ==
  /\ Validating({"return"})
  /\ LeavesScopesFrom(2, 0)
  /\ Visited /\ UNCHANGED <<contexts, loops, hasError>>

FinishValidation ==
  /\ status = "validate" /\ at > Len(function)
  /\ status' = IF hasError THEN "rejected" ELSE "insert"
  /\ at' = 1
  /\ UNCHANGED <<function, contexts, loops, exits, hasError, stackOffset, accessor, rsp>>

Validate ==
  \/ VisitScope \/ LeaveScope \/ VisitLoop \/ LeaveLoop
  \/ VisitForDeclaration \/ LeaveForDeclaration \/ VisitOther
  \/ VisitExitOutsideLoop \/ VisitExit \/ VisitExitThrows \/ VisitReturn
  \/ FinishValidation

-----------------------------------------------------------------------------
(****************************************************************************)
(* VariableSizeInserter                                                     *)
(****************************************************************************)
Inserting(ops) == status = "insert" /\ at <= Len(function) /\ Op \in ops
Inserted == at' = at + 1 /\ UNCHANGED <<function, status, contexts, loops, exits, hasError, rsp>>

(* A slip, for mutation: the offset is taken before it is advanced.         *)
InsertVariableBelow ==
  /\ Inserting({"var"})
  /\ stackOffset' = stackOffset + function[at].size
  /\ accessor' = [i \in DOMAIN accessor \cup {at} |-> IF i = at THEN stackOffset ELSE accessor[i]]
  /\ Inserted

InsertVariable ==
  /\ Inserting({"var"})
  /\ stackOffset' = stackOffset + function[at].size
  /\ accessor' = [i \in DOMAIN accessor \cup {at} |-> IF i = at THEN stackOffset' ELSE accessor[i]]
  /\ Inserted

InsertScopeEnd ==
  /\ Inserting({"endblock", "endinit"})
  /\ stackOffset' = stackOffset - sizeOfLocalVariables(Opener)
  /\ Inserted /\ UNCHANGED accessor

InsertNothing ==
  /\ status = "insert" /\ at <= Len(function) /\ ~Inserting({"var", "endblock", "endinit"})
  /\ Inserted /\ UNCHANGED <<stackOffset, accessor>>

FinishInsertion ==
  /\ status = "insert" /\ at > Len(function)
  /\ status' = "run" /\ at' = 1
  /\ UNCHANGED <<function, contexts, loops, exits, hasError, stackOffset, accessor, rsp>>

Insert == InsertVariable \/ InsertScopeEnd \/ InsertNothing \/ FinishInsertion

-----------------------------------------------------------------------------
(****************************************************************************)
(* The code of NASMCodeGenerator                                            *)
(****************************************************************************)
Running(ops) == status = "run" /\ rsp \in -StackLimit .. StackLimit /\ Op \in ops
Jump(target) == at' = target /\ UNCHANGED <<function, status, contexts, loops, exits, hasError,
                                            stackOffset, accessor>>

setupLocalVariables ==
  /\ Running(Scopes)
  /\ rsp' = rsp + sizeOfLocalVariables(at)
  /\ Jump(at + 1)

(* resetStackPointer at the end of a scope; the body's end is followed by   *)
(* the epilogue.                                                            *)
ResetStackPointer ==
  /\ Running({"endblock", "endinit"}) /\ at < Len(function)
  /\ rsp' = rsp - sizeOfLocalVariables(Opener)
  /\ Jump(at + 1)

FallOffEnd ==
  /\ Running({"endblock"}) /\ at = Len(function)
  /\ rsp' = rsp - sizeOfLocalVariables(Opener)
  /\ status' = "returned"
  /\ UNCHANGED <<function, at, contexts, loops, exits, hasError, stackOffset, accessor>>

(* The tokens control may reach next; a condition may go either way.        *)
BreakLabel(loop) == End(loop) + 1
SkipLabel(loop)  == IF KindOf(loop) \in {"while", "do"} THEN loop ELSE End(loop)

ElseOf(i) == ElseIn(function, i)
IfOf(else) == CHOOSE i \in 1 .. else : function[i].op = "if" /\ else \in ElseOf(i)

Targets ==
  CASE Op = "loop" /\ KindOf(at) # "do"      -> {at + 1, BreakLabel(at)}
    [] Op = "loop" /\ KindOf(at) = "do"      -> {at + 1}
    [] Op = "endloop" /\ KindOf(Opener) # "do" -> {Opener}
    [] Op = "endloop" /\ KindOf(Opener) = "do" -> {Opener, at + 1}
    [] Op = "if"                             -> {at + 1} \cup (IF ElseOf(at) = {} THEN {End(at)}
                                                               ELSE {j + 1 : j \in ElseOf(at)})
    [] Op = "else"                           -> {End(IfOf(at))}
    [] OTHER                                 -> {at + 1}

Proceed ==
  /\ Running({"loop", "endloop", "if", "else", "endif", "var"})
  /\ \E target \in Targets : Jump(target)
  /\ UNCHANGED rsp

(* Every contained scope is taken off the stack before the jump.            *)
ContainedSize == MapThenSumSet(LAMBDA s : sizeOfLocalVariables(s), exits[at].scopes)

Exit ==
  /\ Running({"break", "skip"})
  /\ rsp' = rsp - ContainedSize
  /\ Jump(IF Op = "break" THEN BreakLabel(exits[at].loop) ELSE SkipLabel(exits[at].loop))

Return ==
  /\ Running({"return"})
  /\ rsp' = rsp - ContainedSize
  /\ status' = "returned"
  /\ UNCHANGED <<function, at, contexts, loops, exits, hasError, stackOffset, accessor>>

Run == setupLocalVariables \/ ResetStackPointer \/ FallOffEnd \/ Proceed \/ Exit \/ Return

Next == Validate \/ Insert \/ Run

Spec == Init /\ [][Next]_vars

-----------------------------------------------------------------------------
(* The scopes that are open where token i stands.                           *)
OpenScopes(i) == {s \in 1 .. Len(function) : function[s].op \in Scopes /\ Inside(i, s)}
OpenAtClosing(i) == IF function[i].op \in {"endblock", "endinit"} THEN {Opener} ELSE {}
Frame(i) == MapThenSumSet(LAMBDA s : sizeOfLocalVariables(s), OpenScopes(i) \cup OpenAtClosing(i))

(* Safety: wherever control comes from, the stack pointer is below the      *)
(* variables of the open scopes and of no others, and a function returns    *)
(* with the stack pointer it was entered with.                              *)
StackBalanced ==
  /\ status = "run" => rsp = Frame(at)
  /\ status = "returned" => rsp = 0

(* Loops whose scopes the validator tells apart: no loop has another loop   *)
(* as its body without braces, and only a for with a declaration is skipped.*)
Header(loop) == IF KindOf(loop) = "fordecl"
              THEN CHOOSE h \in 1 .. loop : function[h].op = "init" /\ LoopIn(h) = loop
              ELSE loop
LoopTokens == {i \in 1 .. Len(function) : function[i].op = "loop"}
LoopsAround(i) == {l \in LoopTokens : Inside(i, l)}

Braced ==
  \A l, m \in LoopTokens :
    Inside(m, l) => \E s \in OpenScopes(Header(m)) : s >= Header(l)

SkipsOnlyForDeclarations ==
  \A i \in 1 .. Len(function) :
    function[i].op = "skip" => LoopsAround(i) # {} /\ KindOf(Max(LoopsAround(i))) = "fordecl"

StackBalancedIfBraced == Braced /\ SkipsOnlyForDeclarations => StackBalanced

(* Safety: break and skip are accepted exactly inside loops.                *)
ExitsAccepted ==
  Braced /\ status \in {"insert", "run", "rejected"} =>
    (hasError <=> \E i \in 1 .. Len(function) : function[i].op \in {"break", "skip"} /\ LoopsAround(i) = {})

(* Safety: variables that are visible together lie in the part of the stack *)
(* that is reserved at that point, and do not overlap.                      *)
VisibleVariables(i) == {v \in 1 .. i - 1 : function[v].op = "var" /\ ScopeOf(v) \in OpenScopes(i)}

VariablesDisjoint ==
  status = "run" =>
    \A v \in VisibleVariables(at) :
      /\ accessor[v] <= Frame(at)
      /\ \A w \in VisibleVariables(at) :
           v < w => accessor[v] <= accessor[w] - function[w].size
==============================================================================
