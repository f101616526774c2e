---------------------------- MODULE GraphColoring ----------------------------
(****************************************************************************)
(* Graph<void>::colorIn (compiler/include/R-Sharp/backend/Graph.hpp), the   *)
(* register allocator's colouring of the interference graph.                *)
(*                                                                          *)
(* colorIn removes the vertex with the highest getTriviallyColorableNumber, *)
(* colours the rest recursively, puts the vertex back and colours it.  The  *)
(* recursion is a state machine: on the way down removedAt records at which *)
(* recursion depth a vertex left the graph, on the way up the vertex of the *)
(* current depth returns.                                                   *)
(*                                                                          *)
(* Colours are the ids of VertexColor: 1 .. K are availableColors, the      *)
(* argument of colorIn (the general purpose registers, in order), higher    *)
(* ids are the stack pointer, the slots of variables whose address is       *)
(* taken, and what VertexColor() hands out for a vertex without register.   *)
(****************************************************************************)
EXTENDS Naturals, Integers, FiniteSets

CONSTANTS
  Vertices,
  Graphs     \* the interference graphs that may be coloured, each with the
             \* number of registers it is coloured for

NoColor == 0   \* std::nullopt

(* Edges join different vertices of the graph; highestID has been handed    *)
(* out to nobody yet.                                                       *)
IsInterferenceGraph(g) ==
  /\ g.vertices \in SUBSET Vertices /\ IsFiniteSet(g.vertices)
  /\ g.edges \in SUBSET SUBSET g.vertices
  /\ \A e \in g.edges : \E u, v \in g.vertices : u # v /\ e = {u, v}
  /\ g.registers \in Nat \ {0}
  /\ g.highestID \in Nat /\ g.highestID > g.registers
  /\ g.color \in [g.vertices -> 0 .. g.highestID - 1]

ASSUME GraphsWellFormed == \A g \in Graphs : IsInterferenceGraph(g)

VARIABLES
  graph,       \* the interference graph and the colours it arrives with
  color,       \* Vertex::color
  removedAt,   \* the recursion depth at which a vertex was removed, 0 if it is in the graph
  level,       \* the current recursion depth
  returning,   \* FALSE on the way down, TRUE once the innermost call has returned
  highestID    \* VertexColor::highestID

colorVars == <<graph, color, removedAt, level, returning, highestID>>

K == graph.registers   \* availableColors.size()

TypeOK ==
  /\ graph \in Graphs
  /\ color \in [graph.vertices -> Nat]
  /\ removedAt \in [graph.vertices -> Nat]
  /\ level \in Nat
  /\ returning \in BOOLEAN
  /\ highestID \in Nat

Start(g) ==
  /\ graph = g
  /\ color = g.color
  /\ removedAt = [v \in g.vertices |-> 0]
  /\ level = 0
  /\ returning = FALSE
  /\ highestID = g.highestID

Init == \E g \in Graphs : Start(g)

-----------------------------------------------------------------------------
InGraph == {v \in graph.vertices : removedAt[v] = 0}

Adjacent(u, v) == {u, v} \in graph.edges

(* Vertex::neighbours, which addVertex and removeVertex keep restricted to  *)
(* the vertices in the graph.                                               *)
Neighbours(v) == {u \in InGraph : Adjacent(u, v)}

ColoredNeighbours(v)   == {u \in Neighbours(v) : color[u] # NoColor}
UncoloredNeighbours(v) == {u \in Neighbours(v) : color[u] = NoColor}

(* A slip, for mutation: the mask leaves bit 63 alone.                      *)
RankWithNarrowMask(v) == IF color[v] # NoColor THEN 1 ELSE 0

(****************************************************************************)
(* getTriviallyColorableNumber packs, from the highest bits down: whether   *)
(* the vertex is coloured (bit 63), minus the number c of its coloured      *)
(* neighbours masked with 0xEFFFFFFF (bits 32 to 63), and the number of its *)
(* uncoloured neighbours (bits 0 to 31).  For c = 0 the middle field is 0.  *)
(* For c > 0 it is 0xF0000000 - c, which has bit 31 set and so overwrites   *)
(* bit 63.  The packed numbers are therefore ordered by rank, then by fewer *)
(* coloured neighbours, then by more uncoloured neighbours.                 *)
(****************************************************************************)
Rank(v) == IF ColoredNeighbours(v) # {} THEN 2 ELSE IF color[v] # NoColor THEN 1 ELSE 0

KeyExceeds(u, v) ==
  LET c(w) == Cardinality(ColoredNeighbours(w))
      n(w) == Cardinality(UncoloredNeighbours(w))
  IN  \/ Rank(u) > Rank(v)
      \/ Rank(u) = Rank(v) /\ c(u) < c(v)
      \/ Rank(u) = Rank(v) /\ c(u) = c(v) /\ n(u) > n(v)

(* A slip, for mutation: ties leave no vertex to remove.                    *)
MayBeRemovedIfUnique(v) == \A u \in InGraph \ {v} : KeyExceeds(v, u)

(* std::sort leaves the order of equal keys open, so any vertex with the    *)
(* highest key may come first.                                              *)
MayBeRemoved(v) == \A u \in InGraph : ~KeyExceeds(u, v)

RemoveVertex(v) ==
  /\ ~returning
  /\ Cardinality(InGraph) > 1
  /\ MayBeRemoved(v)
  /\ removedAt' = [removedAt EXCEPT ![v] = level + 1]
  /\ level' = level + 1
  /\ UNCHANGED <<graph, color, returning, highestID>>

(* The innermost call: at most one vertex is left.                          *)
ColorLastVertex ==
  /\ ~returning
  /\ Cardinality(InGraph) <= 1
  /\ color' = [v \in graph.vertices |->
                 IF v \in InGraph /\ color[v] = NoColor THEN 1 ELSE color[v]]
  /\ returning' = TRUE
  /\ UNCHANGED <<graph, removedAt, level, highestID>>

-----------------------------------------------------------------------------
(* A slip, for mutation: a call returns below the innermost one.            *)
PutBackAtTop(v) ==
  /\ returning /\ removedAt[v] = level
  /\ removedAt' = [removedAt EXCEPT ![v] = 0]
  /\ level' = level - 1
  /\ UNCHANGED <<graph, returning>>

(* A call on its way back: addVertex, then one of three outcomes.           *)
PutBack(v) ==
  /\ returning /\ level > 0 /\ removedAt[v] = level
  /\ removedAt' = [removedAt EXCEPT ![v] = 0]
  /\ level' = level - 1
  /\ UNCHANGED <<graph, returning>>

NeighbourColors(v) == {color[u] : u \in Neighbours(v)}

(* Slips, for mutation: the neighbours are not looked at, a colour replaces *)
(* the one a vertex arrived with, the last free colour is not used.         *)
FreeColorsOfAll(v) == 1 .. K

FreeColors(v) == 1 .. K \ NeighbourColors(v)

TakesAnyway(v) == NoColor \notin NeighbourColors(v) /\ FreeColors(v) # {}
TakesButOne(v) == color[v] = NoColor /\ NoColor \notin NeighbourColors(v) /\ Cardinality(FreeColors(v)) > 1

KeepsColor(v)  == color[v] # NoColor /\ color[v] \notin NeighbourColors(v)
TakesColor(v)  == color[v] = NoColor /\ NoColor \notin NeighbourColors(v) /\ FreeColors(v) # {}

KeepColor(v) ==
  /\ PutBack(v)
  /\ KeepsColor(v)
  /\ UNCHANGED <<color, highestID>>

TakeFirstFreeColor(v) ==
  /\ PutBack(v)
  /\ TakesColor(v)
  /\ \E c \in FreeColors(v) :
       /\ \A d \in FreeColors(v) : c <= d
       /\ color' = [color EXCEPT ![v] = c]
  /\ UNCHANGED highestID

(* A slip, for mutation: VertexColor() does not count.                      *)
FailWithSharedColor(v) ==
  /\ PutBack(v)
  /\ ~KeepsColor(v) /\ ~TakesColor(v)
  /\ color' = [color EXCEPT ![v] = highestID]
  /\ UNCHANGED highestID

(* The label fail: the vertex gets a colour nobody else has, whether or not *)
(* it arrived with one.                                                     *)
Fail(v) ==
  /\ PutBack(v)
  /\ ~KeepsColor(v) /\ ~TakesColor(v)
  /\ color' = [color EXCEPT ![v] = highestID]
  /\ highestID' = highestID + 1

Next ==
  \/ \E v \in InGraph : RemoveVertex(v)
  \/ ColorLastVertex
  \/ \E v \in graph.vertices : KeepColor(v) \/ TakeFirstFreeColor(v) \/ Fail(v)

Spec == Init /\ [][Next]_colorVars /\ WF_colorVars(Next)

Done == returning /\ level = 0

-----------------------------------------------------------------------------
IsSpill(c) == c >= graph.highestID

(* Safety: from the innermost call on, the vertices back in the graph are   *)
(* coloured and no two adjacent ones share a colour; at the end this is the *)
(* whole graph, so values live at the same time never share a location.     *)
ProperColoring ==
  returning => \A u \in InGraph :
                 /\ color[u] # NoColor
                 /\ \A v \in Neighbours(u) : color[u] # color[v]

(* Safety: a stack slot made up for a spilled vertex belongs to it alone.   *)
SpillsArePrivate ==
  \A u, v \in graph.vertices : u # v /\ IsSpill(color[u]) => color[u] # color[v]

(* Safety: a vertex that needed no particular register is spilled only when *)
(* its neighbours occupy every available register.                          *)
SpillsOnlyUnderPressure ==
  Done => \A v \in graph.vertices :
            graph.color[v] = NoColor /\ IsSpill(color[v])
            => 1 .. K \subseteq {color[u] : u \in {w \in graph.vertices : Adjacent(v, w)}}

(* Safety: as long as no two vertices that arrive with a colour are         *)
(* adjacent, every one of them keeps it: divisions keep RAX, parameters and *)
(* call results the registers of the calling convention.  This rests on the *)
(* mask in getTriviallyColorableNumber reaching bit 63.                     *)
PrecoloredApart ==
  \A u, v \in graph.vertices :
    graph.color[u] # NoColor /\ graph.color[v] # NoColor => ~Adjacent(u, v)

LonePrecoloredKept ==
  PrecoloredApart =>
    \A v \in graph.vertices : graph.color[v] # NoColor => color[v] = graph.color[v]

(* Liveness: the recursion of colorIn comes back.                           *)
Termination == <>Done
==============================================================================
