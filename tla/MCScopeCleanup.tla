---------------------------- MODULE MCScopeCleanup ----------------------------
(* Functions with two nested loops of every kind, with and without braces,  *)
(* left by break, skip and return from scopes of different depth.           *)
EXTENDS ScopeCleanup

Tok(op) == [op |-> op]
Var(size) == <<[op |-> "var", size |-> size]>>
Block(body) == <<Tok("block")>> \o body \o <<Tok("endblock")>>
If(body) == <<Tok("if")>> \o body \o <<Tok("endif")>>
IfElse(yes, no) == <<Tok("if")>> \o yes \o <<Tok("else")>> \o no \o <<Tok("endif")>>
Loop(kind, body) ==
  LET loop == <<[op |-> "loop", kind |-> kind]>> \o body \o <<Tok("endloop")>>
  IN  IF kind = "fordecl" THEN <<Tok("init")>> \o Var(2) \o loop \o <<Tok("endinit")>> ELSE loop

Exits == {<<Tok("break")>>, <<Tok("skip")>>, <<Tok("return")>>}

InnerBodies ==
  {Block(Var(1))} \cup Exits
  \cup {Block(Var(1) \o If(Block(Var(4) \o e)) \o Var(8)) : e \in Exits}
InnerLoops == {Loop(kind, body) : kind \in LoopKind, body \in InnerBodies}

OuterBodies ==
  {Block(Var(1) \o l \o If(e)) : l \in InnerLoops, e \in Exits}
  \cup {IfElse(l, <<Tok("break")>>) : l \in InnerLoops}
OuterLoops == {Loop(kind, body) : kind \in LoopKind, body \in OuterBodies}

Nested == {Block(Var(8) \o l) : l \in OuterLoops}
Loopless == {Block(Var(8) \o If(Block(Var(1) \o e))) : e \in Exits}

AllFunctions == Nested \cup Loopless

(* while (..) { x; if (..) { y; skip; } z; }                                *)
SkippedWhile == {Block(Var(8) \o Loop("while", Block(Var(1) \o If(Block(Var(4) \o <<Tok("skip")>>)) \o Var(2))))}
==============================================================================
