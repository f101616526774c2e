--------------------------- MODULE MCGraphColoring ---------------------------
(* Every interference graph over four vertices, with two registers.         *)
EXTENDS GraphColoring

CONSTANTS v1, v2, v3, v4

FourVertices == {v1, v2, v3, v4}

Pairs == {e \in SUBSET FourVertices : Cardinality(e) = 2}

Registers == 2

(* Colours on arrival: none, a register, or the stack pointer, which         *)
(* several references may carry.                                             *)
Arrivals == [FourVertices -> 0 .. Registers + 1]

AllGraphs ==
  [vertices : {FourVertices}, edges : SUBSET Pairs, color : Arrivals,
   registers : {Registers}, highestID : {Registers + 2}]
==============================================================================
