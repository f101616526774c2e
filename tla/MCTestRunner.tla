----------------------------- MODULE MCTestRunner -----------------------------
(* Tests whose commands end well or badly, hang, write, close their output  *)
(* and start processes.                                                     *)
EXTENDS TestRunner

Plain(writes, ends) == [writes |-> writes, closes |-> FALSE, helper |-> "none", helperEnds |-> TRUE, ends |-> ends]
Closing(ends) == [Plain(1, ends) EXCEPT !.closes = TRUE]
Starting(how, comesToEnd, ends) == [Plain(1, ends) EXCEPT !.helper = how, !.helperEnds = comesToEnd]

Libraries == {Plain(0, 0), Plain(1, 1), Plain(0, Never)}

(* The compiler starts gcc and waits for it.                                *)
Compilers ==
  {Plain(0, 3), Plain(2, 3), Plain(0, Signal), Plain(0, Never), Starting("awaited", TRUE, 0), Starting("awaited", FALSE, 0)}

Programs ==
  {Plain(w, e) : w \in 0 .. 3, e \in {0, 255, Signal, Never}}
  \cup {Closing(e) : e \in {0, Never}}
  \cup {Starting(h, e, 0) : h \in {"awaited", "left"}, e \in BOOLEAN}

Expectations ==
  {[compilation |-> 0, execution |-> e, output |-> o, skipped |-> s] : e \in {0, -1}, o \in {1, 2, 3}, s \in BOOLEAN}
  \cup {[compilation |-> 3, execution |-> 0, output |-> 0, skipped |-> FALSE]}

AllTests ==
  {[library |-> l, compiler |-> c, program |-> p, compilation |-> e.compilation, execution |-> e.execution,
    output |-> e.output, skipped |-> e.skipped] :
     l \in Libraries, c \in Compilers, p \in Programs, e \in Expectations}
===============================================================================
