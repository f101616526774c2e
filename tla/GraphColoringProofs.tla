------------------------- MODULE GraphColoringProofs -------------------------
(****************************************************************************)
(* Proofs about GraphColoring, for every set of interference graphs and     *)
(* every number of registers.                                               *)
(****************************************************************************)
EXTENDS GraphColoring, FiniteSetTheorems, TLAPS

LEMMA GraphFacts ==
  ASSUME NEW g \in Graphs
  PROVE  /\ g.vertices \in SUBSET Vertices /\ IsFiniteSet(g.vertices)
         /\ g.registers \in Nat \ {0} /\ g.highestID \in Nat /\ g.highestID > g.registers
         /\ g.color \in [g.vertices -> Nat]
         /\ \A v \in g.vertices : g.color[v] < g.highestID
         /\ \A v \in g.vertices : {v, v} \notin g.edges
<1>1. IsInterferenceGraph(g)
  BY GraphsWellFormed
<1>2. \A v \in g.vertices : g.color[v] \in Nat /\ g.color[v] < g.highestID
  BY <1>1 DEF IsInterferenceGraph
<1>3. g.color \in [g.vertices -> Nat]
  BY <1>1, <1>2 DEF IsInterferenceGraph
<1>4. \A v \in g.vertices : {v, v} \notin g.edges
  <2>1. \A e \in g.edges : \E u, w \in g.vertices : u # w /\ e = {u, w}
    BY <1>1 DEF IsInterferenceGraph
  <2>2. QED
    BY <2>1
<1>5. QED
  BY <1>1, <1>2, <1>3, <1>4 DEF IsInterferenceGraph

(* In a graph with at most one vertex no two are adjacent.                  *)
LEMMA AtMostOne ==
  ASSUME NEW S, IsFiniteSet(S), Cardinality(S) <= 1, NEW u \in S, NEW v \in S
  PROVE  u = v
<1> SUFFICES ASSUME u # v PROVE FALSE
  OBVIOUS
<1>1. IsFiniteSet({u}) /\ Cardinality({u}) = 1
  BY FS_Singleton
<1>2. Cardinality({u} \cup {v}) = 2
  BY <1>1, FS_AddElement
<1>3. Cardinality({u} \cup {v}) <= Cardinality(S)
  BY FS_Subset
<1>4. Cardinality(S) \in Nat
  BY FS_CardinalityType
<1>5. QED
  BY <1>2, <1>3, <1>4

(****************************************************************************)
(* The inductive invariant.                                                 *)
(*   Depths      : no two vertices left the graph at the same depth.        *)
(*   Fresh       : highestID is larger than every colour in use.            *)
(*   Untouched   : nothing is coloured on the way down, nor outside the     *)
(*                 graph.                                                   *)
(*   Surrounded  : a vertex spilled without need for a register of its own  *)
(*                 sees every register among its neighbours in the graph.   *)
(*   LoneRemoved : when coloured vertices are never adjacent, one that has  *)
(*                 left the graph has no neighbour among those that left    *)
(*                 later or not at all.                                     *)
(*   KeptOrSpilled : a vertex never changes from the colour it arrived with *)
(*                 to another register.                                     *)
(****************************************************************************)
Depths ==
  /\ \A v \in graph.vertices : removedAt[v] <= level
  /\ \A u, v \in graph.vertices : u # v /\ removedAt[u] = removedAt[v] => removedAt[u] = 0

Fresh ==
  /\ graph.highestID <= highestID
  /\ \A v \in graph.vertices : color[v] < highestID

Untouched ==
  /\ ~returning => color = graph.color
  /\ \A v \in graph.vertices : removedAt[v] > 0 => color[v] = graph.color[v]

Surrounded ==
  \A v \in graph.vertices :
    graph.color[v] = NoColor /\ IsSpill(color[v])
    => removedAt[v] = 0 /\ 1 .. K \subseteq NeighbourColors(v)

LoneRemoved ==
  PrecoloredApart =>
    \A p, u \in graph.vertices :
      /\ graph.color[p] # NoColor
      /\ removedAt[p] > 0
      /\ removedAt[u] = 0 \/ removedAt[u] > removedAt[p]
      => ~Adjacent(p, u)

KeptOrSpilled ==
  \A v \in graph.vertices :
    graph.color[v] # NoColor => color[v] = graph.color[v] \/ IsSpill(color[v])

IInv ==
  /\ TypeOK /\ Depths /\ Fresh /\ Untouched /\ Surrounded /\ LoneRemoved /\ KeptOrSpilled
  /\ ProperColoring /\ SpillsArePrivate /\ LonePrecoloredKept

-----------------------------------------------------------------------------
LEMMA InitIInv == Init => IInv
<1> SUFFICES ASSUME NEW g \in Graphs, Start(g) PROVE IInv
  BY DEF Init
<1>1. graph = g /\ color = g.color /\ highestID = g.highestID /\ returning = FALSE /\ level = 0
      /\ removedAt = [v \in g.vertices |-> 0]
  BY DEF Start
<1>2. \A v \in g.vertices : g.color[v] \in Nat /\ ~(g.color[v] >= g.highestID)
  BY GraphFacts
<1>3. TypeOK
  BY <1>1, GraphFacts DEF TypeOK
<1>4. Depths /\ Fresh /\ Untouched
  BY <1>1, GraphFacts DEF Depths, Fresh, Untouched
<1>5. Surrounded /\ SpillsArePrivate
  BY <1>1, <1>2 DEF Surrounded, SpillsArePrivate, IsSpill, K
<1>6. LoneRemoved /\ KeptOrSpilled /\ ProperColoring /\ LonePrecoloredKept
  BY <1>1 DEF LoneRemoved, KeptOrSpilled, ProperColoring, LonePrecoloredKept
<1>7. QED
  BY <1>3, <1>4, <1>5, <1>6 DEF IInv

-----------------------------------------------------------------------------
(* What the invariant says about the graph itself.                          *)
LEMMA Basics ==
  ASSUME IInv
  PROVE  /\ level \in Nat /\ highestID \in Nat /\ K \in Nat \ {0}
         /\ graph.highestID \in Nat /\ K < graph.highestID /\ graph.highestID <= highestID
         /\ IsFiniteSet(InGraph)
         /\ \A v \in graph.vertices : /\ removedAt[v] \in Nat /\ removedAt[v] <= level
                                      /\ color[v] \in Nat /\ color[v] < highestID
                                      /\ ~Adjacent(v, v)
         /\ \A u, v : Adjacent(u, v) <=> Adjacent(v, u)
<1>1. IsFiniteSet(graph.vertices) /\ InGraph \subseteq graph.vertices
  BY GraphFacts DEF IInv, TypeOK, InGraph
<1>2. IsFiniteSet(InGraph)
  BY <1>1, FS_Subset
<1>3. \A u, v : {u, v} = {v, u}
  OBVIOUS
<1>4. QED
  BY <1>2, <1>3, GraphFacts DEF IInv, TypeOK, Depths, Fresh, Adjacent, K

LEMMA RemoveIInv ==
  ASSUME IInv, NEW v \in InGraph, RemoveVertex(v)
  PROVE  IInv'
<1>1. /\ graph' = graph /\ color' = color /\ highestID' = highestID
      /\ returning' = returning /\ ~returning /\ level' = level + 1
      /\ removedAt' = [removedAt EXCEPT ![v] = level + 1]
      /\ MayBeRemoved(v)
  BY DEF RemoveVertex
<1>2. v \in graph.vertices /\ removedAt[v] = 0
  BY DEF InGraph
<1>3. \A u \in graph.vertices : removedAt'[u] = IF u = v THEN level + 1 ELSE removedAt[u]
  BY <1>1, <1>2 DEF IInv, TypeOK
<1>4. TypeOK'
  BY <1>1, <1>2, Basics DEF IInv, TypeOK
<1>5. Depths'
  BY <1>1, <1>3, Basics DEF IInv, Depths
<1>6. Fresh' /\ Untouched' /\ KeptOrSpilled' /\ ProperColoring' /\ SpillsArePrivate'
      /\ LonePrecoloredKept'
  BY <1>1, <1>2, <1>3 DEF IInv, Fresh, Untouched, KeptOrSpilled, ProperColoring, SpillsArePrivate,
              IsSpill, LonePrecoloredKept, PrecoloredApart, Adjacent
<1>7. Surrounded'
  <2>1. color = graph.color
    BY <1>1 DEF IInv, Untouched
  <2>2. \A u \in graph.vertices : ~IsSpill(color[u])
    BY <2>1, GraphFacts, Basics DEF IInv, TypeOK, IsSpill
  <2>3. QED
    BY <1>1, <2>2 DEF Surrounded, IsSpill, K
<1>8. LoneRemoved'
  <2> SUFFICES ASSUME PrecoloredApart,
                      NEW p \in graph.vertices, NEW u \in graph.vertices,
                      graph.color[p] # NoColor, removedAt'[p] > 0,
                      removedAt'[u] = 0 \/ removedAt'[u] > removedAt'[p],
                      Adjacent(p, u)
               PROVE  FALSE
    BY <1>1 DEF LoneRemoved, PrecoloredApart, Adjacent
  <2>1. CASE p # v
    BY <1>2, <1>3, <2>1, Basics DEF IInv, LoneRemoved
  <2>2. CASE p = v
    <3>1. u \in InGraph /\ u # v
      BY <1>3, <2>2, Basics DEF InGraph
    <3>2. color = graph.color
      BY <1>1 DEF IInv, Untouched
    <3>3. ColoredNeighbours(v) = {} /\ Rank(v) = 1
      BY <2>2, <3>2 DEF ColoredNeighbours, Neighbours, InGraph, PrecoloredApart, Rank, Adjacent
    <3>4. v \in ColoredNeighbours(u)
      BY <2>2, <3>2, Basics DEF ColoredNeighbours, Neighbours
    <3>5. Rank(u) = 2
      BY <3>4 DEF Rank
    <3>6. QED
      BY <1>1, <3>1, <3>3, <3>5 DEF MayBeRemoved, KeyExceeds
  <2>3. QED
    BY <2>1, <2>2
<1>9. QED
  BY <1>4, <1>5, <1>6, <1>7, <1>8 DEF IInv

LEMMA ColorLastIInv ==
  ASSUME IInv, ColorLastVertex
  PROVE  IInv'
<1>1. /\ graph' = graph /\ removedAt' = removedAt /\ level' = level /\ highestID' = highestID
      /\ returning' = TRUE /\ ~returning /\ Cardinality(InGraph) <= 1
      /\ color' = [v \in graph.vertices |->
                     IF v \in InGraph /\ color[v] = NoColor THEN 1 ELSE color[v]]
  BY DEF ColorLastVertex
<1>2. \A v \in graph.vertices :
        color'[v] = IF v \in InGraph /\ color[v] = NoColor THEN 1 ELSE color[v]
  BY <1>1
<1>3. color = graph.color /\ \A v \in graph.vertices : graph.color[v] < graph.highestID
  BY <1>1, GraphFacts DEF IInv, Untouched, TypeOK
<1>4. TypeOK'
  <2>1. color' \in [graph.vertices -> Nat]
    BY <1>1, Basics
  <2>2. QED
    BY <1>1, <2>1 DEF IInv, TypeOK
<1>5. Depths' /\ LoneRemoved'
  BY <1>1 DEF IInv, Depths, LoneRemoved, PrecoloredApart, Adjacent
<1>6. Fresh' /\ Untouched'
  BY <1>1, <1>2, <1>3, Basics DEF IInv, Fresh, Untouched, InGraph
<1>7. \A v \in graph.vertices : ~IsSpill(color'[v])
  BY <1>2, <1>3, Basics DEF IsSpill
<1>8. Surrounded' /\ SpillsArePrivate'
  BY <1>1, <1>7 DEF Surrounded, SpillsArePrivate, IsSpill, K
<1>9. ProperColoring'
  <2>1. InGraph' = InGraph
    BY <1>1 DEF InGraph
  <2>2. \A u, v \in InGraph : u = v
    BY <1>1, AtMostOne, Basics
  <2>3. \A u \in InGraph : color'[u] # NoColor
    BY <1>2 DEF InGraph, NoColor
  <2>4. \A u \in InGraph : Neighbours(u)' = {}
    BY <1>1, <2>1, <2>2, Basics DEF Neighbours, Adjacent, InGraph
  <2>5. QED
    BY <2>1, <2>3, <2>4 DEF ProperColoring
<1>10. LonePrecoloredKept' /\ KeptOrSpilled'
  BY <1>1, <1>2, <1>3 DEF LonePrecoloredKept, PrecoloredApart, Adjacent, KeptOrSpilled
<1>11. QED
  BY <1>4, <1>5, <1>6, <1>8, <1>9, <1>10 DEF IInv

-----------------------------------------------------------------------------
(* The vertex that returns joins the graph and becomes a neighbour of its   *)
(* neighbours there; nothing else about the graph changes.                  *)
LEMMA PutBackFlag ==
  ASSUME IInv, NEW v \in graph.vertices, PutBack(v)
  PROVE  returning /\ returning' /\ returning' \in BOOLEAN
  BY DEF PutBack, IInv, TypeOK

LEMMA PutBackStep ==
  ASSUME IInv, NEW v \in graph.vertices, PutBack(v)
  PROVE  /\ graph' = graph
         /\ level > 0 /\ level' = level - 1 /\ level' \in Nat
         /\ removedAt[v] = level
         /\ removedAt' \in [graph.vertices -> Nat]
         /\ \A u \in graph.vertices : removedAt'[u] = IF u = v THEN 0 ELSE removedAt[u]
<1>1. /\ graph' = graph
      /\ level > 0 /\ level' = level - 1 /\ removedAt[v] = level
      /\ removedAt' = [removedAt EXCEPT ![v] = 0]
  BY DEF PutBack
<1>2. removedAt \in [graph.vertices -> Nat] /\ level \in Nat
  BY DEF IInv, TypeOK
<1>3. removedAt' \in [graph.vertices -> Nat]
  BY <1>1, <1>2
<1>4. \A u \in graph.vertices : removedAt'[u] = IF u = v THEN 0 ELSE removedAt[u]
  BY <1>1, <1>2
<1>5. QED
  BY <1>1, <1>2, <1>3, <1>4

LEMMA PutBackNeighbours ==
  ASSUME IInv, NEW v \in graph.vertices, PutBack(v)
  PROVE  /\ v \notin InGraph
         /\ InGraph' = InGraph \cup {v}
         /\ \A u \in InGraph : /\ Neighbours(u) \subseteq Neighbours(u)'
                               /\ Neighbours(u)' \subseteq Neighbours(u) \cup {v}
         /\ Neighbours(v)' = Neighbours(v)
<1>1. v \notin InGraph
  BY PutBackStep, Basics DEF InGraph
<1>2. InGraph' = InGraph \cup {v}
  BY PutBackStep DEF InGraph
<1>3. \A u, w : Adjacent(u, w)' <=> Adjacent(u, w)
  BY PutBackStep DEF Adjacent
<1>4. \A u \in InGraph : /\ Neighbours(u) \subseteq Neighbours(u)'
                         /\ Neighbours(u)' \subseteq Neighbours(u) \cup {v}
  BY <1>2, <1>3 DEF Neighbours
<1>5. Neighbours(v)' = Neighbours(v)
  BY <1>2, <1>3, Basics DEF Neighbours
<1>6. QED
  BY <1>1, <1>2, <1>4, <1>5

(* The parts of the invariant that speak of the recursion only.             *)
LEMMA PutBackStructure ==
  ASSUME IInv, NEW v \in graph.vertices, PutBack(v)
  PROVE  Depths' /\ LoneRemoved'
<1>1. Depths'
  BY PutBackStep, PutBackNeighbours, Basics DEF IInv, Depths
<1>2. LoneRemoved'
  <2> SUFFICES ASSUME PrecoloredApart,
                      NEW p \in graph.vertices, NEW u \in graph.vertices,
                      graph.color[p] # NoColor, removedAt'[p] > 0,
                      removedAt'[u] = 0 \/ removedAt'[u] > removedAt'[p]
               PROVE  ~Adjacent(p, u)
    <3>1. graph' = graph
      BY PutBackStep
    <3>2. QED
      BY <3>1 DEF LoneRemoved, PrecoloredApart, Adjacent
  <2>0. /\ removedAt'[p] = IF p = v THEN 0 ELSE removedAt[p]
        /\ removedAt'[u] = IF u = v THEN 0 ELSE removedAt[u]
    BY PutBackStep, PutBackNeighbours
  <2>1. p # v /\ removedAt[p] > 0 /\ removedAt[p] = removedAt'[p]
    BY <2>0
  <2>2. u = v => removedAt[u] > removedAt[p]
    <3>1. removedAt[v] = level /\ removedAt[p] <= level /\ removedAt[p] # level
      BY <2>1, PutBackStep DEF IInv, Depths
    <3>2. removedAt[p] \in Nat /\ level \in Nat
      BY Basics
    <3>3. QED
      BY <3>1, <3>2
  <2>3. removedAt[u] = 0 \/ removedAt[u] > removedAt[p]
    BY <2>0, <2>1, <2>2
  <2>4. QED
    BY <2>1, <2>3 DEF IInv, LoneRemoved
<1>3. QED
  BY <1>1, <1>2

LEMMA PutBackUntouched ==
  ASSUME IInv, NEW v \in graph.vertices, PutBack(v),
         \A u \in graph.vertices : u # v => color'[u] = color[u]
  PROVE  Untouched'
<1> SUFFICES ASSUME NEW u \in graph.vertices, removedAt'[u] > 0
             PROVE  color'[u] = graph.color[u]
  BY PutBackStep, PutBackFlag DEF Untouched
<1>1. u # v /\ removedAt[u] > 0
  BY PutBackStep
<1>2. QED
  BY <1>1 DEF IInv, Untouched

(* The returning vertex gets colour c, which none of its neighbours has.    *)
LEMMA RecolorProper ==
  ASSUME IInv, NEW v \in graph.vertices, PutBack(v), NEW c \in Nat,
         c # NoColor, c \notin NeighbourColors(v),
         color' = [color EXCEPT ![v] = c]
  PROVE  /\ ProperColoring'
         /\ color' \in [graph.vertices -> Nat]
         /\ \A u \in graph.vertices : color'[u] = IF u = v THEN c ELSE color[u]
<1>1. color' \in [graph.vertices -> Nat]
  BY DEF IInv, TypeOK
<1>2. \A u \in graph.vertices : color'[u] = IF u = v THEN c ELSE color[u]
  BY DEF IInv, TypeOK
<1>3. InGraph \subseteq graph.vertices /\ \A u \in InGraph : Neighbours(u) \subseteq InGraph
  BY DEF InGraph, Neighbours
<1>4. ASSUME NEW u \in InGraph', NEW w \in Neighbours(u)'
      PROVE  color'[u] # NoColor /\ color'[u] # color'[w]
  <2>1. CASE u = v
    <3>1. w \in Neighbours(v)
      BY <1>4, <2>1, PutBackStep, PutBackNeighbours
    <3>2. w \in InGraph /\ w # v /\ color[w] \in NeighbourColors(v)
      BY <3>1, PutBackStep, PutBackNeighbours DEF NeighbourColors, Neighbours
    <3>3. QED
      BY <1>2, <1>3, <2>1, <3>2
  <2>2. CASE u # v /\ w = v
    <3>1. u \in Neighbours(v)
      <4>1. graph' = graph /\ u \in InGraph
        BY <1>4, <2>2, PutBackStep, PutBackNeighbours
      <4>2. Adjacent(u, v)
        BY <1>4, <2>2, <4>1 DEF Neighbours, Adjacent
      <4>3. QED
        BY <4>1, <4>2, Basics DEF Neighbours
    <3>2. color[u] \in NeighbourColors(v)
      BY <3>1 DEF NeighbourColors
    <3>3. color[u] # NoColor
      BY <1>4, <2>2, PutBackFlag, PutBackNeighbours DEF IInv, ProperColoring
    <3>4. QED
      BY <1>2, <1>3, <1>4, <2>2, <3>2, <3>3, PutBackStep, PutBackNeighbours
  <2>3. CASE u # v /\ w # v
    <3>1. u \in InGraph /\ w \in Neighbours(u)
      BY <1>4, <2>3, PutBackStep, PutBackNeighbours
    <3>2. color[u] # NoColor /\ color[u] # color[w]
      BY <3>1, PutBackFlag, PutBackNeighbours DEF IInv, ProperColoring
    <3>3. QED
      BY <1>2, <1>3, <2>3, <3>1, <3>2
  <2>4. QED
    BY <2>1, <2>2, <2>3
<1>5. \A u \in InGraph' : color'[u] # NoColor
  <2>1. \A u \in InGraph : color[u] # NoColor
    BY PutBackFlag, PutBackNeighbours DEF IInv, ProperColoring
  <2>2. InGraph' = InGraph \cup {v}
    BY PutBackStep, PutBackNeighbours
  <2>3. QED
    BY <1>2, <1>3, <2>1, <2>2
<1>6. QED
  BY <1>1, <1>2, <1>4, <1>5 DEF ProperColoring

LEMMA KeepIInv ==
  ASSUME IInv, NEW v \in graph.vertices, KeepColor(v)
  PROVE  IInv'
<1>1. PutBack(v) /\ KeepsColor(v) /\ color' = color /\ highestID' = highestID
  BY DEF KeepColor
<1>2. color' = [color EXCEPT ![v] = color[v]]
  BY <1>1 DEF IInv, TypeOK
<1>3. color[v] \in Nat /\ color[v] # NoColor /\ color[v] \notin NeighbourColors(v)
  BY <1>1, Basics DEF KeepsColor
<1>4. ProperColoring'
  BY <1>1, <1>2, <1>3, RecolorProper
<1>5. TypeOK'
  BY <1>1, PutBackStep, PutBackFlag DEF IInv, TypeOK
<1>6. Depths' /\ LoneRemoved'
  BY <1>1, PutBackStructure
<1>7. Fresh' /\ Untouched' /\ SpillsArePrivate' /\ LonePrecoloredKept' /\ KeptOrSpilled'
  <2>1. Fresh'
    BY <1>1, PutBackStep DEF IInv, Fresh
  <2>2. Untouched'
    BY <1>1, PutBackUntouched
  <2>3. SpillsArePrivate' /\ LonePrecoloredKept' /\ KeptOrSpilled'
    BY <1>1, PutBackStep DEF IInv, SpillsArePrivate, IsSpill, LonePrecoloredKept, KeptOrSpilled,
                             PrecoloredApart, Adjacent
  <2>4. QED
    BY <2>1, <2>2, <2>3
<1>8. Surrounded'
  <2> SUFFICES ASSUME NEW u \in graph.vertices, graph.color[u] = NoColor, IsSpill(color[u])
               PROVE  removedAt'[u] = 0 /\ 1 .. K \subseteq NeighbourColors(u)'
    BY <1>1, PutBackStep, PutBackNeighbours DEF Surrounded, IsSpill, K
  <2>1. removedAt[u] = 0 /\ 1 .. K \subseteq NeighbourColors(u)
    BY DEF IInv, Surrounded
  <2>2. u \in InGraph /\ u # v
    BY <1>1, <2>1, PutBackStep, PutBackNeighbours DEF InGraph
  <2>3. NeighbourColors(u) \subseteq NeighbourColors(u)'
    BY <1>1, <2>2, PutBackStep, PutBackNeighbours DEF NeighbourColors
  <2>4. QED
    BY <1>1, <2>1, <2>2, <2>3, PutBackStep, PutBackNeighbours
<1>9. QED
  BY <1>4, <1>5, <1>6, <1>7, <1>8 DEF IInv

(* Recolouring the returning vertex takes no colour away from another       *)
(* vertex's neighbours.                                                     *)
LEMMA StillSurrounded ==
  ASSUME IInv, NEW v \in graph.vertices, PutBack(v), NEW c \in Nat,
         color' = [color EXCEPT ![v] = c],
         NEW u \in graph.vertices, u # v, graph.color[u] = NoColor, IsSpill(color[u])
  PROVE  removedAt'[u] = 0 /\ 1 .. K \subseteq NeighbourColors(u)'
<1>1. removedAt[u] = 0 /\ 1 .. K \subseteq NeighbourColors(u)
  BY DEF IInv, Surrounded
<1>2. u \in InGraph /\ removedAt'[u] = 0
  BY <1>1, PutBackStep, PutBackNeighbours DEF InGraph
<1>3. \A w \in Neighbours(u) : w \in Neighbours(u)' /\ w # v /\ color'[w] = color[w]
  BY <1>2, PutBackStep, PutBackNeighbours DEF IInv, TypeOK, Neighbours, InGraph
<1>4. NeighbourColors(u) \subseteq NeighbourColors(u)'
  BY <1>3 DEF NeighbourColors
<1>5. QED
  BY <1>1, <1>2, <1>4

LEMMA TakeIInv ==
  ASSUME IInv, NEW v \in graph.vertices, TakeFirstFreeColor(v)
  PROVE  IInv'
<1>1. PutBack(v) /\ TakesColor(v) /\ highestID' = highestID
  BY DEF TakeFirstFreeColor
<1>2. PICK c \in FreeColors(v) : color' = [color EXCEPT ![v] = c]
  BY DEF TakeFirstFreeColor
<1>3. /\ c \in Nat /\ c # NoColor /\ c <= K /\ c \notin NeighbourColors(v)
      /\ c < graph.highestID /\ c < highestID
  BY <1>2, Basics DEF FreeColors, NoColor
<1>4. /\ ProperColoring'
      /\ color' \in [graph.vertices -> Nat]
      /\ \A u \in graph.vertices : color'[u] = IF u = v THEN c ELSE color[u]
  BY <1>1, <1>2, <1>3, RecolorProper
<1>5. TypeOK'
  BY <1>1, <1>4, PutBackStep, PutBackFlag DEF IInv, TypeOK
<1>6. Depths' /\ LoneRemoved'
  BY <1>1, PutBackStructure
<1>7. Fresh' /\ Untouched'
  <2>1. Fresh'
    BY <1>1, <1>3, <1>4, PutBackStep DEF IInv, Fresh
  <2>2. Untouched'
    BY <1>1, <1>4, PutBackUntouched
  <2>3. QED
    BY <2>1, <2>2
<1>8. ~IsSpill(c)
  BY <1>3, Basics DEF IsSpill
<1>9. SpillsArePrivate'
  <2> SUFFICES ASSUME NEW u \in graph.vertices, NEW w \in graph.vertices, u # w,
                      IsSpill(color'[u])
               PROVE  color'[u] # color'[w]
    BY <1>1, PutBackStep, PutBackNeighbours DEF SpillsArePrivate, IsSpill
  <2>1. u # v /\ color'[u] = color[u]
    BY <1>4, <1>8
  <2>2. QED
    BY <1>4, <1>8, <2>1 DEF IInv, SpillsArePrivate
<1>10. LonePrecoloredKept'
  <2>1. color[v] = NoColor
    BY <1>1 DEF TakesColor
  <2>2. PrecoloredApart => graph.color[v] = NoColor
    BY <2>1 DEF IInv, LonePrecoloredKept
  <2>3. QED
    BY <1>1, <1>4, <2>2, PutBackStep DEF IInv, LonePrecoloredKept, PrecoloredApart, Adjacent
<1>11. Surrounded'
  <2> SUFFICES ASSUME NEW u \in graph.vertices, graph.color[u] = NoColor, IsSpill(color'[u])
               PROVE  removedAt'[u] = 0 /\ 1 .. K \subseteq NeighbourColors(u)'
    BY <1>1, PutBackStep, PutBackNeighbours DEF Surrounded, IsSpill, K
  <2>1. u # v /\ color'[u] = color[u]
    BY <1>4, <1>8
  <2>2. QED
    BY <1>1, <1>2, <1>3, <2>1, StillSurrounded
<1>12. KeptOrSpilled'
  <2>1. graph.color[v] = NoColor
    BY <1>1, Basics DEF TakesColor, IInv, KeptOrSpilled, IsSpill, NoColor
  <2>2. QED
    BY <1>1, <1>4, <2>1, PutBackStep DEF IInv, KeptOrSpilled, IsSpill
<1>13. QED
  BY <1>4, <1>5, <1>6, <1>7, <1>9, <1>10, <1>11, <1>12 DEF IInv

LEMMA FailIInv ==
  ASSUME IInv, NEW v \in graph.vertices, Fail(v)
  PROVE  IInv'
<1>1. /\ PutBack(v) /\ ~KeepsColor(v) /\ ~TakesColor(v)
      /\ color' = [color EXCEPT ![v] = highestID] /\ highestID' = highestID + 1
  BY DEF Fail
<1>2. \A u \in graph.vertices : color[u] \in Nat /\ color[u] < highestID
  BY Basics
<1>3. highestID \in Nat /\ highestID # NoColor /\ IsSpill(highestID)
  BY Basics DEF NoColor, IsSpill
<1>4. highestID \notin NeighbourColors(v)
  BY <1>2, <1>3 DEF NeighbourColors, Neighbours, InGraph
<1>5. /\ ProperColoring'
      /\ color' \in [graph.vertices -> Nat]
      /\ \A u \in graph.vertices : color'[u] = IF u = v THEN highestID ELSE color[u]
  BY <1>1, <1>3, <1>4, RecolorProper
<1>6. TypeOK'
  <2>1. level' \in Nat /\ highestID' \in Nat
    BY <1>1, <1>3, PutBackStep
  <2>2. QED
    BY <1>1, <1>5, <2>1, PutBackStep, PutBackFlag DEF IInv, TypeOK
<1>7. Depths' /\ LoneRemoved'
  BY <1>1, PutBackStructure
<1>8. Fresh' /\ Untouched'
  <2>1. Fresh'
    <3>1. highestID' \in Nat /\ highestID < highestID' /\ graph.highestID <= highestID
      BY <1>1, Basics
    <3>2. \A u \in graph.vertices : color'[u] < highestID'
      BY <1>2, <1>3, <1>5, <3>1
    <3>3. QED
      BY <1>1, <1>3, <3>1, <3>2, PutBackStep, Basics DEF Fresh
  <2>2. Untouched'
    BY <1>1, <1>5, PutBackUntouched
  <2>3. QED
    BY <2>1, <2>2
<1>9. SpillsArePrivate'
  <2> SUFFICES ASSUME NEW u \in graph.vertices, NEW w \in graph.vertices, u # w,
                      IsSpill(color'[u])
               PROVE  color'[u] # color'[w]
    BY <1>1, PutBackStep, PutBackNeighbours DEF SpillsArePrivate, IsSpill
  <2>1. CASE u = v \/ w = v
    BY <1>2, <1>3, <1>5, <2>1
  <2>2. CASE u # v /\ w # v
    BY <1>5, <2>2 DEF IInv, SpillsArePrivate
  <2>3. QED
    BY <2>1, <2>2
<1>10. LonePrecoloredKept'
  <2> SUFFICES ASSUME PrecoloredApart PROVE graph.color[v] = NoColor
    BY <1>1, <1>5, PutBackStep DEF IInv, LonePrecoloredKept, PrecoloredApart, Adjacent
  <2> SUFFICES ASSUME graph.color[v] # NoColor PROVE FALSE
    OBVIOUS
  <2>1. color[v] # NoColor
    BY DEF IInv, LonePrecoloredKept
  <2>2. Neighbours(v) = {}
    <3>1. removedAt[v] > 0
      BY <1>1, PutBackStep, PutBackNeighbours
    <3>2. \A u \in InGraph : u \in graph.vertices /\ removedAt[u] = 0
      BY DEF InGraph
    <3>3. \A u \in InGraph : ~Adjacent(v, u)
      BY <3>1, <3>2 DEF IInv, LoneRemoved
    <3>4. QED
      BY <3>3, Basics DEF Neighbours
  <2>3. QED
    BY <1>1, <2>1, <2>2 DEF KeepsColor, NeighbourColors
<1>11. Surrounded'
  <2> SUFFICES ASSUME NEW u \in graph.vertices, graph.color[u] = NoColor, IsSpill(color'[u])
               PROVE  removedAt'[u] = 0 /\ 1 .. K \subseteq NeighbourColors(u)'
    BY <1>1, PutBackStep, PutBackNeighbours DEF Surrounded, IsSpill, K
  <2>1. CASE u # v
    BY <1>1, <1>3, <1>5, <2>1, StillSurrounded
  <2>2. CASE u = v
    <3>1. color[v] = NoColor
      <4>1. removedAt[v] > 0
        BY <1>1, PutBackStep, PutBackNeighbours
      <4>2. QED
        BY <2>2, <4>1 DEF IInv, Untouched
    <3>2. NoColor \notin NeighbourColors(v)
      BY <1>1, PutBackFlag, PutBackNeighbours DEF IInv, ProperColoring, NeighbourColors, Neighbours
    <3>3. 1 .. K \subseteq NeighbourColors(v)
      BY <1>1, <3>1, <3>2 DEF TakesColor, FreeColors
    <3>4. \A w \in Neighbours(v) : w \in Neighbours(v)' /\ color'[w] = color[w]
      <4>1. \A w \in Neighbours(v) : w \in InGraph /\ w \in graph.vertices
        BY DEF Neighbours, InGraph
      <4>2. v \notin InGraph /\ Neighbours(v)' = Neighbours(v)
        BY <1>1, PutBackStep, PutBackNeighbours
      <4>3. QED
        BY <1>5, <4>1, <4>2
    <3>5. NeighbourColors(v) \subseteq NeighbourColors(v)'
      BY <3>4 DEF NeighbourColors
    <3>6. QED
      BY <1>1, <2>2, <3>3, <3>5, PutBackStep, PutBackNeighbours
  <2>3. QED
    BY <2>1, <2>2
<1>12. KeptOrSpilled'
  BY <1>1, <1>3, <1>5, PutBackStep DEF IInv, KeptOrSpilled, IsSpill
<1>13. QED
  BY <1>5, <1>6, <1>7, <1>8, <1>9, <1>10, <1>11, <1>12 DEF IInv

-----------------------------------------------------------------------------
LEMMA StepIInv == IInv /\ [Next]_colorVars => IInv'
<1> SUFFICES ASSUME IInv, [Next]_colorVars PROVE IInv'
  OBVIOUS
<1>1. ASSUME NEW v \in InGraph, RemoveVertex(v) PROVE IInv'
  BY <1>1, RemoveIInv
<1>2. CASE ColorLastVertex
  BY <1>2, ColorLastIInv
<1>3. ASSUME NEW v \in graph.vertices, KeepColor(v) \/ TakeFirstFreeColor(v) \/ Fail(v)
      PROVE  IInv'
  BY <1>3, KeepIInv, TakeIInv, FailIInv
<1>4. CASE UNCHANGED colorVars
  <2>1. /\ graph' = graph /\ color' = color /\ removedAt' = removedAt
        /\ level' = level /\ returning' = returning /\ highestID' = highestID
    BY <1>4 DEF colorVars
  <2>2. InGraph' = InGraph
    BY <2>1 DEF InGraph
  <2>3. \A v : Neighbours(v)' = Neighbours(v)
    BY <2>1, <2>2 DEF Neighbours, Adjacent
  <2>4. TypeOK' /\ Depths' /\ Fresh' /\ Untouched' /\ LoneRemoved' /\ SpillsArePrivate'
        /\ LonePrecoloredKept' /\ KeptOrSpilled'
    BY <2>1 DEF IInv, TypeOK, KeptOrSpilled, Depths, Fresh, Untouched, LoneRemoved, SpillsArePrivate, IsSpill,
                LonePrecoloredKept, PrecoloredApart, Adjacent
  <2>5. Surrounded' /\ ProperColoring'
    BY <2>1, <2>2, <2>3 DEF IInv, Surrounded, NeighbourColors, ProperColoring, IsSpill, K
  <2>6. QED
    BY <2>4, <2>5 DEF IInv
<1>5. QED
  BY <1>1, <1>2, <1>3, <1>4 DEF Next

LEMMA InvariantHolds == Spec => []IInv
  BY InitIInv, StepIInv, PTL DEF Spec

(* The recursion's state is always well typed.                              *)
THEOREM TypeCorrect == Spec => []TypeOK
<1>1. IInv => TypeOK
  BY DEF IInv
<1>2. QED
  BY <1>1, InvariantHolds, PTL

(* Adjacent vertices of the graph never share a colour, for every           *)
(* interference graph and whatever order std::sort gives to equal keys.     *)
THEOREM Proper == Spec => []ProperColoring
<1>1. IInv => ProperColoring
  BY DEF IInv
<1>2. QED
  BY <1>1, InvariantHolds, PTL

(* A stack slot made up for a spilled vertex is never shared.               *)
THEOREM PrivateSpills == Spec => []SpillsArePrivate
<1>1. IInv => SpillsArePrivate
  BY DEF IInv
<1>2. QED
  BY <1>1, InvariantHolds, PTL

(* Coloured vertices that are never adjacent to each other keep their       *)
(* register.                                                                *)
THEOREM LoneKept == Spec => []LonePrecoloredKept
<1>1. IInv => LonePrecoloredKept
  BY DEF IInv
<1>2. QED
  BY <1>1, InvariantHolds, PTL

(* Nothing is spilled without register pressure.                            *)
THEOREM PressureOnly == Spec => []SpillsOnlyUnderPressure
<1>1. IInv => SpillsOnlyUnderPressure
  <2> SUFFICES ASSUME IInv, NEW v \in graph.vertices,
                      graph.color[v] = NoColor, IsSpill(color[v])
               PROVE  1 .. K \subseteq {color[u] : u \in {w \in graph.vertices : Adjacent(v, w)}}
    BY DEF SpillsOnlyUnderPressure
  <2>1. 1 .. K \subseteq NeighbourColors(v)
    BY DEF IInv, Surrounded
  <2>2. \A u \in Neighbours(v) : u \in graph.vertices /\ Adjacent(v, u)
    BY Basics DEF Neighbours, InGraph
  <2>3. QED
    BY <2>1, <2>2 DEF NeighbourColors
<1>2. QED
  BY <1>1, InvariantHolds, PTL
==============================================================================
