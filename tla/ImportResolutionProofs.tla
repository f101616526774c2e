----------------------- MODULE ImportResolutionProofs ------------------------
(****************************************************************************)
(* Proofs about ImportResolution: what holds of the items of every program, *)
(* for all projects, however the files import each other.                   *)
(*                                                                          *)
(* The inductive invariant IInv says of the chain of parsers that each one  *)
(* waits at an import of the next one (Chain) and that they only work on    *)
(* files that exist (Opened). From this follow, one after the other:        *)
(*   where items come from (ComesFromFiles, Origin), hence that none comes  *)
(*   twice (Once); that an error stays with somebody who returns it         *)
(*   (ErrorsKnown); that named imports bring nothing else (Asked); that     *)
(*   what was read is somewhere (ReadIsThere, OnlyImportDelivers).          *)
(* The steps of the loop over the names are abstracted to Turned, the two   *)
(* ways to return to ReturnsEverything and ReturnsNamed, and reading on to  *)
(* Advanced, so that each part of IInv has few cases.                       *)
(****************************************************************************)
EXTENDS ImportResolution, TLAPS

ItemType == [name : Names \cup {NoName}, file : Files \cup {NoFile}, at : Nat]

Frame ==
  [path : Paths, at : Nat \ {0}, items : Seq(ItemType), wanted : SUBSET Names, next : Nat \ {0},
   hasError : BOOLEAN, isRecovering : BOOLEAN]

TypeOK ==
  /\ project \in Projects
  /\ stack \in Seq(Frame) /\ Len(stack) > 0
  /\ wildcards \in SUBSET Paths
  /\ DOMAIN named \subseteq Paths /\ named \in [DOMAIN named -> SUBSET Names]
  /\ status \in {"parsing", "fatal", "syntax_error", "parsed"}

(* A parser that waits stands at the import that the next one works on; no  *)
(* path is parsed by two of them.                                           *)
Chain ==
  /\ stack[1].path = Main
  /\ \A k \in DOMAIN stack : stack[k].path \in wildcards /\ stack[k].at <= Len(Code(stack[k])) + 1
  /\ \A k \in 1 .. Len(stack) - 1 :
       /\ stack[k].at <= Len(Code(stack[k]))
       /\ Code(stack[k])[stack[k].at].kind = "import"
       /\ Code(stack[k])[stack[k].at].path = stack[k + 1].path
  /\ \A k, l \in DOMAIN stack : k # l => stack[k].path # stack[l].path

(* Only files that can be reached from the main file are opened, and names  *)
(* are only remembered for paths that are in the cache.                     *)
Opened ==
  /\ \A p \in wildcards : p \in UsedPaths /\ FileOf[p] # NoFile /\ FileOf[p] \in Reachable
  /\ DOMAIN named \subseteq wildcards

(* Everything is parsed when nobody waits and nothing went wrong.           *)
Finished == status = "parsed" => Len(stack) = 1 /\ AtEnd /\ ~Parser.hasError

(* Every item was read from a file that was opened.                         *)
ComesFromFiles ==
  \A k \in DOMAIN stack : \A i \in DOMAIN stack[k].items :
    stack[k].items[i] # ErrorItem => \E p \in wildcards : stack[k].items[i] \in Defined(FileOf[p])

(* Nothing comes from a part of a file that is still to be read.            *)
Origin ==
  SpelledAlike =>
    \A k, l \in DOMAIN stack : \A i \in DOMAIN stack[k].items :
      stack[k].items[i].file = FileOf[stack[l].path] => stack[k].items[i].at < stack[l].at

(* Two parsers have an item in common only while the outer one takes over   *)
(* names, and then the cache knows its name.                                *)
Apart ==
  \A k, l \in DOMAIN stack : k < l =>
    \A i \in DOMAIN stack[k].items, j \in DOMAIN stack[l].items :
      stack[k].items[i] = stack[l].items[j] /\ stack[k].items[i] # ErrorItem =>
        /\ ReturningNames
        /\ k = Len(stack) - 1 /\ l = Len(stack)
        /\ Parser.path \in DOMAIN named
        /\ stack[k].items[i].name \in named[Parser.path]

(* Within one parser no item is twice, and two parsers have none in common. *)
Once == SpelledAlike => NoItemTwice /\ Apart

(* As long as no parser has seen an error, there is no error among the      *)
(* items, and every statement that is wrong is still to be read.            *)
ErrorsKnown ==
  (\A k \in DOMAIN stack : ~stack[k].hasError) =>
    /\ \A k \in DOMAIN stack : NoName \notin NamesIn(stack[k].items)
    /\ \A p \in wildcards : \A i \in Positions(FileOf[p], "bad") :
         \E k \in DOMAIN stack : stack[k].path = p /\ stack[k].at <= i

(* The main file has its own items, and those that it names.                *)
Asked ==
  ~stack[1].hasError /\ (\A s \in Imports(FileOf[Main]) : ~Everything(s)) =>
    \A i \in DOMAIN Program :
      \/ Program[i] \in Defined(FileOf[Main])
      \/ \E s \in Imports(FileOf[Main]) : \E j \in DOMAIN s.names : s.names[j] = Program[i].name

(* With wildcard imports alone, what was read of a file is there.           *)
ReadIsThere ==
  OnlyWildcards => \A p \in wildcards :
    /\ \A i \in Positions(FileOf[p], "item") :
         \/ \E k \in DOMAIN stack : stack[k].path = p /\ stack[k].at <= i
         \/ \E k \in DOMAIN stack : \E j \in DOMAIN stack[k].items :
              stack[k].items[j] = Item(project[FileOf[p]][i].name, FileOf[p], i)
    /\ \A i \in Positions(FileOf[p], "import") :
         \/ \E k \in DOMAIN stack : stack[k].path = p /\ stack[k].at <= i
         \/ project[FileOf[p]][i].path \in wildcards

(* What the only import from a file has brought.                            *)
Delivering(i) ==
  LET s    == project[FileOf[Main]][i]
      main == stack[1]
  IN  /\ main.at < i \/ (main.at = i /\ Len(stack) = 1) =>
           \A p \in wildcards : FileOf[p] # FileOf[s.path]
      /\ main.at = i /\ Len(stack) > 1 /\ ~main.hasError =>
           /\ \A j \in DOMAIN s.names : s.names[j] \in main.wanted
           /\ \A p \in DOMAIN named : FileOf[p] = FileOf[s.path] => named[p] \subseteq NamesIn(main.items)
           /\ \A j \in DOMAIN s.names : j < main.next => s.names[j] \in NamesIn(main.items)
      /\ main.at > i /\ ~main.hasError => Delivered(s)

OnlyImportDelivers ==
  \A i \in Positions(FileOf[Main], "import") :
    OnlyImportOf(i) /\ ~Everything(project[FileOf[Main]][i]) => Delivering(i)

IInv ==
  /\ TypeOK /\ Chain /\ Opened /\ Finished
  /\ ComesFromFiles /\ Origin /\ Once /\ ErrorsKnown /\ Asked
  /\ ReadIsThere /\ OnlyImportDelivers
-----------------------------------------------------------------------------
LEMMA CodeTypes ==
  ASSUME NEW p \in Projects, NEW f \in Files
  PROVE  /\ p[f] \in Seq(Statement)
         /\ Len(p[f]) \in Nat
         /\ \A i \in DOMAIN p[f] : p[f][i] \in Statement
<1>1. p[f] \in Seq(Statement)
  BY ProjectsWellFormed
<1> QED
  BY <1>1

LEMMA Statements ==
  ASSUME NEW s \in Statement
  PROVE  /\ s.kind \in {"item", "import", "bad"}
         /\ s.kind = "item" => s.name \in Names
         /\ s.kind = "import" => s.path \in Paths /\ s.names \in Seq(Names)
BY DEF Statement

LEMMA Concatenation ==
  ASSUME NEW S, NEW s \in Seq(S), NEW t \in Seq(S)
  PROVE  /\ s \o t \in Seq(S)
         /\ Len(s \o t) = Len(s) + Len(t)
         /\ \A i \in 1 .. Len(s) : i \in DOMAIN (s \o t) /\ (s \o t)[i] = s[i]
         /\ \A i \in 1 .. Len(t) : i + Len(s) \in DOMAIN (s \o t) /\ (s \o t)[i + Len(s)] = t[i]
         /\ \A i \in DOMAIN (s \o t) : i > Len(s) => i - Len(s) \in 1 .. Len(t) /\ (s \o t)[i] = t[i - Len(s)]
OBVIOUS

Joined(u, s, t) == u = s \o t

LEMMA JoinedElements ==
  ASSUME NEW s \in Seq(ItemType), NEW t \in Seq(ItemType), NEW u, Joined(u, s, t)
  PROVE  /\ \A i \in DOMAIN u : (\E j \in DOMAIN s : s[j] = u[i]) \/ (\E j \in DOMAIN t : t[j] = u[i])
         /\ \A j \in DOMAIN s : \E i \in DOMAIN u : u[i] = s[j]
         /\ \A j \in DOMAIN t : \E i \in DOMAIN u : u[i] = t[j]
<1>1. ASSUME NEW i \in DOMAIN u
      PROVE  (\E j \in DOMAIN s : s[j] = u[i]) \/ (\E j \in DOMAIN t : t[j] = u[i])
  <2>1. CASE i \in DOMAIN s
    BY <2>1 DEF Joined
  <2>2. CASE i \notin DOMAIN s
    <3> DEFINE j == i - Len(s)
    <3>1. j \in DOMAIN t /\ t[j] = u[i]
      BY <2>2 DEF Joined
    <3> HIDE DEF j
    <3> QED
      BY <3>1
  <2> QED
    BY <2>1, <2>2
<1>2. ASSUME NEW j \in DOMAIN s PROVE j \in DOMAIN u /\ u[j] = s[j]
  BY DEF Joined
<1>3. ASSUME NEW j \in DOMAIN t PROVE j + Len(s) \in DOMAIN u /\ u[j + Len(s)] = t[j]
  BY DEF Joined
<1> QED
  BY <1>1, <1>2, <1>3

LEMMA ElementOfLonger ==
  ASSUME NEW S, NEW s \in Seq(S), NEW x \in S, NEW u, u = s \o <<x>>
  PROVE  /\ u \in Seq(S) /\ Len(u) = Len(s) + 1 /\ u[Len(s) + 1] = x
         /\ \A i \in DOMAIN s : i \in DOMAIN u /\ u[i] = s[i]
         /\ \A i \in DOMAIN u : i \in DOMAIN s \/ i = Len(s) + 1
<1> DEFINE t == <<x>>
<1>1. t \in Seq(S) /\ Len(t) = 1 /\ t[1] = x /\ u = s \o t
  OBVIOUS
<1> HIDE DEF t
<1> QED
  BY <1>1

LEMMA Replacement ==
  ASSUME NEW S, NEW s \in Seq(S), NEW i \in DOMAIN s, NEW x \in S
  PROVE  /\ [s EXCEPT ![i] = x] \in Seq(S)
         /\ Len([s EXCEPT ![i] = x]) = Len(s)
         /\ [s EXCEPT ![i] = x][i] = x
         /\ \A j \in DOMAIN s : j # i => [s EXCEPT ![i] = x][j] = s[j]
OBVIOUS

(* Every path on the stack leads to a file, whose statements are known.     *)
LEMMA Frames ==
  ASSUME TypeOK, Chain, Opened, NEW k \in DOMAIN stack
  PROVE  /\ stack[k] \in Frame
         /\ FileOf[stack[k].path] \in Files
         /\ Code(stack[k]) \in Seq(Statement)
         /\ \A i \in DOMAIN Code(stack[k]) : Code(stack[k])[i] \in Statement
<1>1. stack[k] \in Frame
  BY DEF TypeOK
<1>2. stack[k].path \in Paths /\ stack[k].path \in wildcards
  BY <1>1 DEF Frame, Chain
<1>3. FileOf[stack[k].path] \in Files
  BY <1>2, PathsLeadToFiles DEF Opened
<1> QED
  BY <1>1, <1>3, CodeTypes DEF TypeOK, Code

-----------------------------------------------------------------------------
(* How actions change the stack.                                            *)
Top == Len(stack)

Advanced(path, at, items) ==
  /\ stack' \in Seq(Frame) /\ Len(stack') = Top
  /\ \A k \in DOMAIN stack : k # Top => stack'[k] = stack[k]
  /\ stack'[Top].path = path /\ stack'[Top].at = at /\ stack'[Top].items = items

LEMMA Updates ==
  ASSUME NEW f \in Frame
  PROVE  /\ \A at \in Nat \ {0} : [f EXCEPT !.at = at] \in Frame
         /\ \A items \in Seq(ItemType) : [f EXCEPT !.items = items] \in Frame
         /\ \A wanted \in SUBSET Names : [f EXCEPT !.wanted = wanted] \in Frame
         /\ \A next \in Nat \ {0} : [f EXCEPT !.next = next] \in Frame
         /\ \A b \in BOOLEAN : [f EXCEPT !.hasError = b] \in Frame
         /\ \A b \in BOOLEAN : [f EXCEPT !.isRecovering = b] \in Frame
BY DEF Frame

LEMMA TopFrame ==
  ASSUME TypeOK, Chain, Opened
  PROVE  /\ Top \in DOMAIN stack /\ Top \in Nat \ {0} /\ Parser = stack[Top]
         /\ Parser \in Frame /\ FileOf[Parser.path] \in Files /\ Code(Parser) \in Seq(Statement)
         /\ ~AtEnd => Parser.at \in DOMAIN Code(Parser) /\ Current \in Statement
<1>1. Top \in DOMAIN stack /\ Top \in Nat \ {0} /\ Parser = stack[Top]
  BY DEF TypeOK, Parser, Top
<1>2. Parser \in Frame /\ FileOf[Parser.path] \in Files /\ Code(Parser) \in Seq(Statement)
  BY <1>1, Frames
<1>3. ~AtEnd => Parser.at \in DOMAIN Code(Parser) /\ Current \in Statement
  BY <1>2 DEF AtEnd, Current, Frame
<1> QED
  BY <1>1, <1>2, <1>3

LEMMA AdvancesTop ==
  ASSUME TypeOK, Chain, Opened, NEW f \in Frame, stack' = [stack EXCEPT ![Top] = f]
  PROVE  Advanced(f.path, f.at, f.items) /\ stack'[Top] = f
BY TopFrame, Replacement DEF Advanced, TypeOK, Top

LEMMA ParsesItem ==
  ASSUME TypeOK, Chain, Opened, ParseItem
  PROVE  /\ Parser.at \in DOMAIN Code(Parser) /\ Current \in Statement /\ Current.kind = "item"
         /\ Advanced(Parser.path, Parser.at + 1,
                     Append(Parser.items, Item(Current.name, FileOf[Parser.path], Parser.at)))
         /\ stack'[Top].hasError = Parser.hasError
<1> DEFINE item  == Item(Current.name, FileOf[Parser.path], Parser.at)
           items == Append(Parser.items, item)
           f     == [[Parser EXCEPT !.items = items, !.isRecovering = FALSE] EXCEPT !.at = Parser.at + 1]
<1>1. Parser.at \in DOMAIN Code(Parser) /\ Current \in Statement /\ Current.kind = "item"
  BY TopFrame DEF ParseItem, Parsing
<1>2. item \in ItemType
  BY <1>1, TopFrame, Statements DEF Item, ItemType, Frame
<1>3. stack' = [stack EXCEPT ![Top] = f]
  BY DEF ParseItem, Continue, Top
<1> HIDE DEF item
<1>4. items \in Seq(ItemType)
  BY <1>2, TopFrame DEF Frame
<1> HIDE DEF items
<1>5. f \in Frame
  <2>1. [Parser EXCEPT !.items = items] \in Frame
    BY <1>4, TopFrame, Updates
  <2>2. [Parser EXCEPT !.items = items, !.isRecovering = FALSE] \in Frame
    BY <2>1, Updates
  <2>3. Parser.at + 1 \in Nat \ {0}
    BY TopFrame DEF Frame
  <2> QED
    BY <2>2, <2>3, Updates
<1>6. f.path = Parser.path /\ f.at = Parser.at + 1 /\ f.items = items /\ f.hasError = Parser.hasError
  BY TopFrame DEF Frame
<1> HIDE DEF f
<1> QED
  BY <1>1, <1>3, <1>5, <1>6, AdvancesTop DEF item, items

LEMMA ParsesBadItem ==
  ASSUME TypeOK, Chain, Opened, ParseBadItem
  PROVE  /\ Parser.at \in DOMAIN Code(Parser) /\ Current \in Statement /\ Current.kind = "bad"
         /\ Advanced(Parser.path, Parser.at + 1,
                     IF Parser.isRecovering THEN Parser.items ELSE Append(Parser.items, ErrorItem))
         /\ stack'[Top].hasError = TRUE
<1> DEFINE items == IF Parser.isRecovering THEN Parser.items ELSE Append(Parser.items, ErrorItem)
           f     == [[Parser EXCEPT !.items = items, !.hasError = TRUE, !.isRecovering = TRUE]
                        EXCEPT !.at = Parser.at + 1]
<1>1. Parser.at \in DOMAIN Code(Parser) /\ Current \in Statement /\ Current.kind = "bad"
  BY TopFrame DEF ParseBadItem, Parsing
<1>2. ErrorItem \in ItemType
  BY DEF Item, ErrorItem, ItemType
<1>3. stack' = [stack EXCEPT ![Top] = f]
  BY DEF ParseBadItem, Continue, Top
<1>4. items \in Seq(ItemType)
  BY <1>2, TopFrame DEF Frame
<1> HIDE DEF items
<1>5. f \in Frame
  <2>1. [Parser EXCEPT !.items = items] \in Frame
    BY <1>4, TopFrame, Updates
  <2>2. [Parser EXCEPT !.items = items, !.hasError = TRUE] \in Frame
    BY <2>1, Updates
  <2>3. [Parser EXCEPT !.items = items, !.hasError = TRUE, !.isRecovering = TRUE] \in Frame
    BY <2>2, Updates
  <2>4. Parser.at + 1 \in Nat \ {0}
    BY TopFrame DEF Frame
  <2> QED
    BY <2>3, <2>4, Updates
<1>6. f.path = Parser.path /\ f.at = Parser.at + 1 /\ f.items = items /\ f.hasError = TRUE
  BY TopFrame DEF Frame
<1> HIDE DEF f
<1> QED
  BY <1>1, <1>3, <1>5, <1>6, AdvancesTop DEF items

LEMMA SkipsImport ==
  ASSUME TypeOK, Chain, Opened, SkipImport
  PROVE  /\ Parser.at \in DOMAIN Code(Parser) /\ Current \in Statement /\ Current.kind = "import"
         /\ Advanced(Parser.path, Parser.at + 1, Parser.items)
         /\ stack'[Top].hasError = Parser.hasError
<1> DEFINE f == [Parser EXCEPT !.at = Parser.at + 1]
<1>1. Parser.at \in DOMAIN Code(Parser) /\ Current \in Statement /\ Current.kind = "import"
  BY TopFrame DEF SkipImport, Parsing
<1>2. stack' = [stack EXCEPT ![Top] = f]
  BY DEF SkipImport, Continue, Top
<1>3. Parser.at + 1 \in Nat \ {0}
  BY TopFrame DEF Frame
<1>4. f \in Frame
  BY <1>3, TopFrame, Updates
<1>5. f.path = Parser.path /\ f.at = Parser.at + 1 /\ f.items = Parser.items /\ f.hasError = Parser.hasError
  BY TopFrame DEF Frame
<1> HIDE DEF f
<1> QED
  BY <1>1, <1>2, <1>4, <1>5, AdvancesTop

LEMMA EntersImport ==
  ASSUME TypeOK, Chain, Opened, EnterImport
  PROVE  /\ Parser.at \in DOMAIN Code(Parser) /\ Current \in Statement /\ Current.kind = "import"
         /\ stack' \in Seq(Frame) /\ Len(stack') = Top + 1
         /\ \A k \in DOMAIN stack : k # Top => stack'[k] = stack[k]
         /\ stack'[Top].path = Parser.path /\ stack'[Top].at = Parser.at
         /\ stack'[Top].items = Parser.items /\ stack'[Top].hasError = Parser.hasError
         /\ stack'[Top].wanted = Remaining(Current) /\ stack'[Top].next = 1
         /\ stack'[Top + 1].path = Current.path /\ stack'[Top + 1].at = 1
         /\ stack'[Top + 1].items = <<>> /\ stack'[Top + 1].hasError = FALSE
<1> DEFINE f     == [Parser EXCEPT !.wanted = Remaining(Current), !.next = 1]
           inner == NewParser(Current.path)
<1>1. Parser.at \in DOMAIN Code(Parser) /\ Current \in Statement /\ Current.kind = "import"
  BY TopFrame DEF EnterImport, Parsing
<1>2. stack' = Append([stack EXCEPT ![Top] = f], inner)
  BY DEF EnterImport, Top
<1>3. Current.path \in Paths /\ Current.names \in Seq(Names)
  BY <1>1, Statements
<1>4. Remaining(Current) \in SUBSET Names
  BY <1>3 DEF Remaining
<1>5. f \in Frame
  <2>1. [Parser EXCEPT !.wanted = Remaining(Current)] \in Frame
    BY <1>4, TopFrame, Updates
  <2>2. 1 \in Nat \ {0}
    OBVIOUS
  <2> QED
    BY <2>1, <2>2, Updates
<1>6. /\ f.path = Parser.path /\ f.at = Parser.at /\ f.items = Parser.items /\ f.hasError = Parser.hasError
      /\ f.wanted = Remaining(Current) /\ f.next = 1
  BY TopFrame DEF Frame
<1>7. /\ inner \in Frame
      /\ inner.path = Current.path /\ inner.at = 1 /\ inner.items = <<>> /\ inner.hasError = FALSE
  <2>1. <<>> \in Seq(ItemType) /\ {} \in SUBSET Names
    OBVIOUS
  <2> QED
    BY <2>1, <1>3 DEF NewParser, Frame
<1> HIDE DEF f, inner
<1> DEFINE outer == [stack EXCEPT ![Top] = f]
<1>8. /\ outer \in Seq(Frame) /\ Len(outer) = Top /\ outer[Top] = f
      /\ \A k \in DOMAIN stack : k # Top => outer[k] = stack[k]
  BY <1>5, TopFrame, Replacement DEF TypeOK, Top
<1>9. stack' = Append(outer, inner)
  BY <1>2
<1> HIDE DEF outer
<1>10. /\ stack' \in Seq(Frame) /\ Len(stack') = Top + 1 /\ stack'[Top + 1] = inner
       /\ \A k \in 1 .. Top : stack'[k] = outer[k]
  BY <1>7, <1>8, <1>9
<1>11. DOMAIN stack = 1 .. Top
  BY DEF TypeOK, Top
<1> QED
  BY <1>1, <1>6, <1>7, <1>8, <1>10, <1>11, TopFrame

-----------------------------------------------------------------------------
(* How the statement that waits goes on when the file is parsed.            *)
LEMMA Waiting ==
  ASSUME TypeOK, Chain, Opened, Returning
  PROVE  /\ Top - 1 \in DOMAIN stack /\ Top > 1 /\ Caller = stack[Top - 1] /\ Caller \in Frame
         /\ FileOf[Caller.path] \in Files
         /\ Caller.at \in DOMAIN Code(Caller) /\ Importing \in Statement /\ Importing.kind = "import"
         /\ Importing.path = Parser.path /\ Importing.names \in Seq(Names)
<1>1. Top - 1 \in DOMAIN stack /\ Top > 1 /\ Caller = stack[Top - 1]
  BY DEF TypeOK, Top, Caller, Returning
<1>2. Caller \in Frame /\ FileOf[Caller.path] \in Files /\ Code(Caller) \in Seq(Statement)
  BY <1>1, Frames
<1>3. /\ Caller.at \in DOMAIN Code(Caller) /\ Importing.kind = "import"
      /\ Importing.path = Parser.path
  <2>1. Top - 1 \in 1 .. Len(stack) - 1 /\ (Top - 1) + 1 = Top
    BY <1>1 DEF Top, TypeOK
  <2>2. /\ Caller.at <= Len(Code(Caller))
        /\ Code(Caller)[Caller.at].kind = "import"
        /\ Code(Caller)[Caller.at].path = stack[(Top - 1) + 1].path
    BY <1>1, <2>1 DEF Chain
  <2>3. Caller.at \in DOMAIN Code(Caller)
    BY <1>2, <2>2 DEF Frame
  <2> QED
    BY <2>1, <2>2, <2>3, TopFrame DEF Importing
<1>4. Importing \in Statement
  BY <1>2, <1>3 DEF Importing
<1> QED
  BY <1>1, <1>2, <1>3, <1>4, Statements

LEMMA TakesOver ==
  ASSUME TypeOK, Chain, Opened, Returning, NEW items \in Seq(ItemType), NEW hasError \in BOOLEAN
  PROVE  LET f == TakingOver(items, hasError) IN
         /\ f \in Frame /\ f.path = Caller.path /\ f.at = Caller.at /\ f.items = Caller.items \o items
         /\ f.hasError = (Caller.hasError \/ hasError) /\ f.wanted = Caller.wanted /\ f.next = Caller.next
<1>1. Caller.items \o items \in Seq(ItemType) /\ (Caller.hasError \/ hasError) \in BOOLEAN
  BY Waiting DEF Frame
<1>2. [Caller EXCEPT !.items = Caller.items \o items] \in Frame
  BY <1>1, Waiting, Updates
<1>3. [Caller EXCEPT !.items = Caller.items \o items, !.hasError = Caller.hasError \/ hasError] \in Frame
  <2> DEFINE g == [Caller EXCEPT !.items = Caller.items \o items]
             e == Caller.hasError \/ hasError
  <2>1. g \in Frame /\ e \in BOOLEAN
    BY <1>1, <1>2
  <2> HIDE DEF g, e
  <2>2. [g EXCEPT !.hasError = e] \in Frame
    BY <2>1, Updates
  <2> QED
    BY <2>2 DEF g, e
<1> QED
  BY <1>3, Waiting DEF TakingOver, Frame

LEMMA ReturnsTo ==
  ASSUME TypeOK, Chain, Opened, Returning, NEW f \in Frame, ReturnTo(f)
  PROVE  /\ stack' \in Seq(Frame) /\ Len(stack') = Top - 1
         /\ \A k \in 1 .. Top - 2 : stack'[k] = stack[k]
         /\ stack'[Top - 1].path = f.path /\ stack'[Top - 1].at = f.at + 1
         /\ stack'[Top - 1].items = f.items /\ stack'[Top - 1].hasError = f.hasError
<1> DEFINE g == [f EXCEPT !.at = f.at + 1]
<1>1. f.at + 1 \in Nat \ {0}
  BY DEF Frame
<1>2. g \in Frame
  BY <1>1, Updates
<1>3. g.path = f.path /\ g.at = f.at + 1 /\ g.items = f.items /\ g.hasError = f.hasError
  BY DEF Frame
<1>4. stack' = [i \in 1 .. Top - 1 |-> IF i = Top - 1 THEN g ELSE stack[i]]
  BY DEF ReturnTo, Top
<1> HIDE DEF g
<1>5. Top \in Nat /\ Top > 1 /\ \A k \in 1 .. Top : stack[k] \in Frame
  BY Waiting, TopFrame DEF TypeOK, Top
<1>6. \A i \in 1 .. Top - 1 : (IF i = Top - 1 THEN g ELSE stack[i]) \in Frame
  BY <1>2, <1>5
<1>7. stack' \in Seq(Frame) /\ Len(stack') = Top - 1
  BY <1>4, <1>5, <1>6
<1> QED
  BY <1>3, <1>4, <1>5, <1>7

LEMMA GoesOn ==
  ASSUME TypeOK, Chain, Opened, Returning, NEW f \in Frame, NextIdentifier(f)
  PROVE  /\ stack' \in Seq(Frame) /\ Len(stack') = Top
         /\ \A k \in DOMAIN stack : k # Top - 1 => stack'[k] = stack[k]
         /\ stack'[Top - 1].path = f.path /\ stack'[Top - 1].at = f.at
         /\ stack'[Top - 1].items = f.items /\ stack'[Top - 1].hasError = f.hasError
         /\ stack'[Top - 1].wanted = f.wanted /\ stack'[Top - 1].next = f.next + 1
<1> DEFINE g == [f EXCEPT !.next = f.next + 1]
<1>1. f.next + 1 \in Nat \ {0}
  BY DEF Frame
<1>2. g \in Frame
  BY <1>1, Updates
<1>3. /\ g.path = f.path /\ g.at = f.at /\ g.items = f.items /\ g.hasError = f.hasError
      /\ g.wanted = f.wanted /\ g.next = f.next + 1
  BY DEF Frame
<1>4. stack' = [stack EXCEPT ![Top - 1] = g]
  BY DEF NextIdentifier, Top
<1> HIDE DEF g
<1> QED
  BY <1>2, <1>3, <1>4, Waiting, Replacement DEF TypeOK, Top

(* What each of the actions brings to the statement that waits.             *)
LEMMA ReturnsEverything ==
  ASSUME TypeOK, Chain, Opened, ReturnEverything
  PROVE  /\ Returning /\ (Parser.hasError \/ Everything(Importing))
         /\ stack' \in Seq(Frame) /\ Len(stack') = Top - 1
         /\ \A k \in 1 .. Top - 2 : stack'[k] = stack[k]
         /\ stack'[Top - 1].path = Caller.path /\ stack'[Top - 1].at = Caller.at + 1
         /\ stack'[Top - 1].items = Caller.items \o Parser.items
         /\ stack'[Top - 1].hasError = (Caller.hasError \/ Parser.hasError)
<1>1. Returning /\ (Parser.hasError \/ Everything(Importing))
  BY DEF ReturnEverything, ReturningAll
<1>2. Parser.items \in Seq(ItemType) /\ Parser.hasError \in BOOLEAN
  BY TopFrame DEF Frame
<1> DEFINE f == TakingOver(Parser.items, Parser.hasError)
<1>3. /\ f \in Frame /\ f.path = Caller.path /\ f.at = Caller.at /\ f.items = Caller.items \o Parser.items
      /\ f.hasError = (Caller.hasError \/ Parser.hasError)
  BY <1>1, <1>2, TakesOver
<1>4. ReturnTo(f)
  BY DEF ReturnEverything
<1> HIDE DEF f
<1> QED
  BY <1>1, <1>3, <1>4, ReturnsTo

LEMMA ReturnsNamed ==
  ASSUME TypeOK, Chain, Opened, ReturnNamed
  PROVE  /\ Returning /\ ~Parser.hasError /\ ~Everything(Importing) /\ Caller.next > Len(Importing.names)
         /\ stack' \in Seq(Frame) /\ Len(stack') = Top - 1
         /\ \A k \in 1 .. Top - 2 : stack'[k] = stack[k]
         /\ stack'[Top - 1].path = Caller.path /\ stack'[Top - 1].at = Caller.at + 1
         /\ stack'[Top - 1].items = Caller.items /\ stack'[Top - 1].hasError = Caller.hasError
<1>1. Returning /\ ~Parser.hasError /\ ~Everything(Importing) /\ Caller.next > Len(Importing.names)
  BY DEF ReturnNamed, ReturningNames
<1>2. ReturnTo(Caller)
  BY DEF ReturnNamed
<1> QED
  BY <1>1, <1>2, Waiting, ReturnsTo

(* The waiting frame after one turn of the loop.                            *)
Turned(items, hasError) ==
  /\ stack' \in Seq(Frame) /\ Len(stack') = Top
  /\ \A k \in DOMAIN stack : k # Top - 1 => stack'[k] = stack[k]
  /\ stack'[Top - 1].path = Caller.path /\ stack'[Top - 1].at = Caller.at
  /\ stack'[Top - 1].items = items /\ stack'[Top - 1].hasError = hasError
  /\ stack'[Top - 1].wanted = Caller.wanted /\ stack'[Top - 1].next = Caller.next + 1

LEMMA Loops ==
  ASSUME TypeOK, Chain, Opened, Looping
  PROVE  /\ Returning /\ ~Parser.hasError /\ ~Everything(Importing)
         /\ Caller.next \in DOMAIN Importing.names /\ Identifier \in Names
<1>1. Returning /\ ~Parser.hasError /\ ~Everything(Importing) /\ Caller.next <= Len(Importing.names)
  BY DEF Looping, ReturningNames
<1> QED
  BY <1>1, Waiting DEF Frame, Identifier

LEMMA SkipsName ==
  ASSUME TypeOK, Chain, Opened, SkipName
  PROVE  Turned(Caller.items, Caller.hasError)
BY Loops, Waiting, GoesOn DEF SkipName, Turned

LEMMA TakesName ==
  ASSUME TypeOK, Chain, Opened, TakeName
  PROVE  \E i \in DOMAIN Parser.items :
           /\ Parser.items[i].name = Identifier
           /\ Turned(Caller.items \o <<Parser.items[i]>>, Caller.hasError)
<1>1. Returning
  BY Loops DEF TakeName
<1>2. PICK i \in DOMAIN Parser.items :
        /\ Parser.items[i].name = Identifier
        /\ NextIdentifier(TakingOver(<<Parser.items[i]>>, FALSE))
  BY DEF TakeName, IsFound
<1>3. <<Parser.items[i]>> \in Seq(ItemType) /\ Caller.hasError \in BOOLEAN
  BY <1>1, TopFrame, Waiting DEF Frame
<1> DEFINE f == TakingOver(<<Parser.items[i]>>, FALSE)
<1>4. /\ f \in Frame /\ f.path = Caller.path /\ f.at = Caller.at
      /\ f.items = Caller.items \o <<Parser.items[i]>>
      /\ f.hasError = Caller.hasError /\ f.wanted = Caller.wanted /\ f.next = Caller.next
  <2>1. FALSE \in BOOLEAN /\ (Caller.hasError \/ FALSE) = Caller.hasError
    BY <1>3
  <2> QED
    BY <1>1, <1>3, <2>1, TakesOver
<1> HIDE DEF f
<1>5. Turned(Caller.items \o <<Parser.items[i]>>, Caller.hasError)
  BY <1>1, <1>2, <1>4, GoesOn DEF Turned, f
<1> QED
  BY <1>2, <1>5

LEMMA MissesName ==
  ASSUME TypeOK, Chain, Opened, MissName
  PROVE  Turned(Caller.items \o <<ErrorItem>>, TRUE)
<1>1. Returning
  BY Loops DEF MissName
<1>2. <<ErrorItem>> \in Seq(ItemType) /\ TRUE \in BOOLEAN
  BY DEF ErrorItem, Item, ItemType
<1> DEFINE f == TakingOver(<<ErrorItem>>, TRUE)
<1>3. /\ f \in Frame /\ f.path = Caller.path /\ f.at = Caller.at /\ f.items = Caller.items \o <<ErrorItem>>
      /\ f.hasError = TRUE /\ f.wanted = Caller.wanted /\ f.next = Caller.next
  BY <1>1, <1>2, TakesOver
<1>4. NextIdentifier(f)
  BY DEF MissName
<1> HIDE DEF f
<1> QED
  BY <1>1, <1>3, <1>4, GoesOn DEF Turned

-----------------------------------------------------------------------------
(* What depends on the project alone stays.                                 *)
LEMMA ProjectStays ==
  ASSUME project' = project
  PROVE  /\ UsedPaths' = UsedPaths /\ Reachable' = Reachable /\ SpelledAlike' = SpelledAlike
         /\ OnlyWildcards' = OnlyWildcards
BY DEF UsedPaths, Reachable, SpelledAlike, OnlyWildcards, Imports, Positions, Everything

LEMMA NextKeepsProject == [Next]_vars => project' = project
BY DEF Next, vars, ParseItem, ParseBadItem, SkipImport, ImportMissingFile, EnterImport, ReturnEverything,
       SkipName, TakeName, MissName, ReturnNamed, Finish

LEMMA ReachesImports ==
  ASSUME NEW f \in Reachable, NEW s \in Imports(f), s.path \in Paths, FileOf[s.path] # NoFile
  PROVE  FileOf[s.path] \in Reachable
<1>1. FileOf[s.path] \in Files
  BY PathsLeadToFiles
<1>2. SUFFICES ASSUME NEW S \in SUBSET Files, FileOf[Main] \in S,
                      \A g \in S : \A t \in Imports(g) : FileOf[t.path] \in S \cup {NoFile}
               PROVE  FileOf[s.path] \in S
  BY <1>1 DEF Reachable
<1>3. f \in S
  BY <1>2 DEF Reachable
<1> QED
  BY <1>2, <1>3

LEMMA CurrentImport ==
  ASSUME TypeOK, Chain, Opened, ~AtEnd, Current.kind = "import"
  PROVE  /\ Current \in Imports(FileOf[Parser.path]) /\ Current.path \in Paths /\ Current.path \in UsedPaths
         /\ Parser.at \in Positions(FileOf[Parser.path], "import")
<1>1. Current \in Imports(FileOf[Parser.path]) /\ Parser.at \in Positions(FileOf[Parser.path], "import")
  BY TopFrame DEF Imports, Positions, Current, Code
<1>2. Current.path \in Paths
  BY TopFrame, Statements
<1> QED
  BY <1>1, <1>2, TopFrame DEF UsedPaths

Basics == TypeOK /\ Chain /\ Opened

(* The cases of Next, by what they do to the stack.                         *)
Advances == ParseItem \/ ParseBadItem \/ SkipImport
Turns == SkipName \/ TakeName \/ MissName
Returns == ReturnEverything \/ ReturnNamed
Stays == ImportMissingFile \/ Finish \/ UNCHANGED vars

LEMMA Cases == [Next]_vars <=> Advances \/ EnterImport \/ Turns \/ Returns \/ Stays
BY DEF Next, Advances, Turns, Returns, Stays

LEMMA OnAdvance ==
  ASSUME Basics, Advances
  PROVE  /\ ~AtEnd /\ status = "parsing" /\ UNCHANGED <<project, wildcards, named, status>>
         /\ stack' \in Seq(Frame) /\ Len(stack') = Top
         /\ \A k \in DOMAIN stack : k # Top => stack'[k] = stack[k]
         /\ stack'[Top].path = Parser.path /\ stack'[Top].at = Parser.at + 1
BY ParsesItem, ParsesBadItem, SkipsImport
   DEF Basics, Advances, Advanced, ParseItem, ParseBadItem, SkipImport, Parsing

LEMMA OnEnter ==
  ASSUME Basics, EnterImport
  PROVE  /\ ~AtEnd /\ status = "parsing" /\ Current.kind = "import"
         /\ UNCHANGED <<project, named, status>> /\ wildcards' = wildcards \cup {Current.path}
         /\ Current.path \notin wildcards /\ FileOf[Current.path] # NoFile
BY DEF Basics, EnterImport, Parsing, AlreadyImported, ContainsWildcard

LEMMA OnTurn ==
  ASSUME Basics, Turns
  PROVE  /\ Looping /\ ReturningNames /\ UNCHANGED <<project, wildcards, status>>
         /\ \E items \in Seq(ItemType), hasError \in BOOLEAN : Turned(items, hasError)
<1>1. Looping /\ ReturningNames /\ UNCHANGED <<project, wildcards, status>>
  BY DEF Turns, SkipName, TakeName, MissName, Looping
<1>2. Returning
  BY <1>1 DEF ReturningNames
<1>3. Caller.items \in Seq(ItemType) /\ Caller.hasError \in BOOLEAN /\ Parser.items \in Seq(ItemType)
  BY <1>2, Waiting, TopFrame DEF Basics, Frame
<1>4. CASE SkipName
  BY <1>1, <1>3, <1>4, SkipsName DEF Basics
<1>5. CASE TakeName
  <2>1. PICK i \in DOMAIN Parser.items : Turned(Caller.items \o <<Parser.items[i]>>, Caller.hasError)
    BY <1>5, TakesName DEF Basics
  <2>2. Caller.items \o <<Parser.items[i]>> \in Seq(ItemType)
    BY <1>3
  <2> QED
    BY <1>1, <1>3, <2>1, <2>2
<1>6. CASE MissName
  <2>1. Turned(Caller.items \o <<ErrorItem>>, TRUE)
    BY <1>6, MissesName DEF Basics
  <2>2. Caller.items \o <<ErrorItem>> \in Seq(ItemType)
    BY <1>3 DEF ErrorItem, Item, ItemType
  <2> QED
    BY <1>1, <2>1, <2>2
<1> QED
  BY <1>4, <1>5, <1>6 DEF Turns

LEMMA OnReturn ==
  ASSUME Basics, Returns
  PROVE  /\ Returning /\ UNCHANGED <<project, wildcards, named, status>>
         /\ stack' \in Seq(Frame) /\ Len(stack') = Top - 1
         /\ \A k \in 1 .. Top - 2 : stack'[k] = stack[k]
         /\ stack'[Top - 1].path = Caller.path /\ stack'[Top - 1].at = Caller.at + 1
BY ReturnsEverything, ReturnsNamed DEF Basics, Returns, ReturnEverything, ReturnNamed

LEMMA TypeStep == Basics /\ [Next]_vars => TypeOK'
<1> SUFFICES ASSUME Basics, [Next]_vars PROVE TypeOK'
  OBVIOUS
<1>1. project' = project /\ Len(stack) > 0 /\ Top \in Nat
  BY NextKeepsProject DEF Basics, TypeOK, Top
<1>2. CASE Advances
  BY <1>1, <1>2, OnAdvance DEF Basics, TypeOK, Top
<1>3. CASE EnterImport
  <2>1. stack' \in Seq(Frame) /\ Len(stack') = Top + 1
    BY <1>3, EntersImport DEF Basics
  <2>2. Current.path \in Paths
    BY <1>3, OnEnter, CurrentImport DEF Basics
  <2> QED
    BY <1>1, <1>3, <2>1, <2>2, OnEnter DEF Basics, TypeOK
<1>4. CASE Turns
  <2>1. stack' \in Seq(Frame) /\ Len(stack') = Len(stack)
    BY <1>4, OnTurn DEF Turned, Top
  <2>2. DOMAIN named' \subseteq Paths /\ named' \in [DOMAIN named' -> SUBSET Names]
    <3>1. CASE TakeName
      <4>1. Identifier \in Names /\ Parser.path \in Paths
        BY <1>4, OnTurn, Loops, TopFrame DEF Basics, Frame
      <4> QED
        BY <3>1, <4>1 DEF TakeName, Add, Basics, TypeOK
    <3>2. CASE ~TakeName
      BY <1>4, <3>2 DEF Turns, SkipName, MissName, Basics, TypeOK
    <3> QED
      BY <3>1, <3>2
  <2> QED
    BY <1>1, <1>4, <2>1, <2>2, OnTurn DEF Basics, TypeOK
<1>5. CASE Returns
  <2>1. Top > 1
    BY <1>5, OnReturn, Waiting DEF Basics
  <2> QED
    BY <1>1, <1>5, <2>1, OnReturn DEF Basics, TypeOK, Top
<1>6. CASE Stays
  BY <1>6 DEF Stays, ImportMissingFile, Finish, vars, Basics, TypeOK
<1> QED
  BY <1>2, <1>3, <1>4, <1>5, <1>6, Cases

LEMMA OpenedStep == Basics /\ [Next]_vars => Opened'
<1> SUFFICES ASSUME Basics, [Next]_vars PROVE Opened'
  OBVIOUS
<1>1. UsedPaths' = UsedPaths /\ Reachable' = Reachable
  BY NextKeepsProject, ProjectStays
<1>2. CASE EnterImport
  <2>1. FileOf[Parser.path] \in Reachable
    BY TopFrame DEF Basics, Chain, Opened
  <2>2. Current.path \in UsedPaths /\ Current.path \in Paths /\ FileOf[Current.path] # NoFile
        /\ Current \in Imports(FileOf[Parser.path])
    BY <1>2, OnEnter, CurrentImport DEF Basics
  <2>3. FileOf[Current.path] \in Reachable
    BY <2>1, <2>2, ReachesImports
  <2> QED
    BY <1>1, <1>2, <2>2, <2>3, OnEnter DEF Basics, Opened
<1>3. CASE Turns
  <2>1. DOMAIN named' \subseteq DOMAIN named \cup {Parser.path}
    BY <1>3 DEF Turns, SkipName, TakeName, MissName, Add
  <2>2. Parser.path \in wildcards
    BY TopFrame DEF Basics, Chain
  <2> QED
    BY <1>1, <1>3, <2>1, <2>2, OnTurn DEF Basics, Opened
<1>4. CASE Advances
  BY <1>1, <1>4, OnAdvance DEF Basics, Opened
<1>5. CASE Returns
  BY <1>1, <1>5, OnReturn DEF Basics, Opened
<1>6. CASE Stays
  BY <1>1, <1>6 DEF Stays, ImportMissingFile, Finish, vars, Basics, Opened
<1> QED
  BY <1>2, <1>3, <1>4, <1>5, <1>6, Cases

(* A stack that is not longer keeps its links.                              *)
LEMMA ShorterChain ==
  ASSUME Basics, UNCHANGED <<project, wildcards>>, NEW m \in 1 .. Top, DOMAIN stack' = 1 .. m, Len(stack') = m,
         \A k \in 1 .. m : stack'[k].path = stack[k].path,
         \A k \in 1 .. m - 1 : stack'[k].at = stack[k].at,
         stack'[m].at <= Len(Code(stack[m])) + 1
  PROVE  Chain'
<1>1. DOMAIN stack = 1 .. Top /\ Len(stack) = Top /\ Top \in Nat
  BY DEF Basics, TypeOK, Top
<1>2. stack'[1].path = Main
  BY <1>1 DEF Basics, Chain
<1>3. \A k \in 1 .. m : stack'[k].path \in wildcards /\ stack'[k].at <= Len(project[FileOf[stack'[k].path]]) + 1
  <2> SUFFICES ASSUME NEW k \in 1 .. m
               PROVE  stack[k].path \in wildcards /\ stack'[k].at <= Len(project[FileOf[stack[k].path]]) + 1
    OBVIOUS
  <2>1. k \in DOMAIN stack
    BY <1>1
  <2>2. stack[k].path \in wildcards /\ stack[k].at <= Len(project[FileOf[stack[k].path]]) + 1
    BY <2>1 DEF Basics, Chain, Code
  <2>3. CASE k = m
    BY <2>2, <2>3 DEF Code
  <2>4. CASE k # m
    <3>1. k \in 1 .. m - 1
      BY <1>1, <2>4
    <3> QED
      BY <2>2, <3>1
  <2> QED
    BY <2>3, <2>4
<1>4. \A k \in 1 .. m - 1 : /\ stack'[k].at <= Len(project[FileOf[stack'[k].path]])
                            /\ project[FileOf[stack'[k].path]][stack'[k].at].kind = "import"
                            /\ project[FileOf[stack'[k].path]][stack'[k].at].path = stack'[k + 1].path
  <2>1. \A k \in 1 .. m - 1 : k \in 1 .. m /\ k + 1 \in 1 .. m /\ k \in 1 .. Len(stack) - 1
    BY <1>1
  <2> SUFFICES ASSUME NEW k \in 1 .. m - 1
               PROVE  /\ stack[k].at <= Len(Code(stack[k]))
                      /\ Code(stack[k])[stack[k].at].kind = "import"
                      /\ Code(stack[k])[stack[k].at].path = stack[k + 1].path
    BY <2>1 DEF Code
  <2> QED
    BY <2>1 DEF Basics, Chain
<1>5. \A k, l \in 1 .. m : k # l => stack'[k].path # stack'[l].path
  <2>1. \A k \in 1 .. m : k \in DOMAIN stack
    BY <1>1
  <2> QED
    BY <2>1 DEF Basics, Chain
<1> QED
  BY <1>2, <1>3, <1>4, <1>5 DEF Chain, Code

LEMMA ChainStep == Basics /\ [Next]_vars => Chain'
<1> SUFFICES ASSUME Basics, [Next]_vars PROVE Chain'
  OBVIOUS
<1>1. project' = project /\ Top \in DOMAIN stack /\ Top \in Nat \ {0} /\ DOMAIN stack = 1 .. Top
  BY NextKeepsProject, TopFrame DEF Basics, TypeOK, Top
<1>2. CASE Advances
  <2>1. \A k \in 1 .. Top : stack'[k].path = stack[k].path
    BY <1>1, <1>2, OnAdvance, TopFrame DEF Basics
  <2>2. \A k \in 1 .. Top - 1 : stack'[k].at = stack[k].at
    BY <1>1, <1>2, OnAdvance
  <2>3. stack'[Top].at <= Len(Code(stack[Top])) + 1
    BY <1>2, OnAdvance, TopFrame DEF Basics
  <2>4. DOMAIN stack' = 1 .. Top /\ Len(stack') = Top /\ wildcards' = wildcards /\ Top \in 1 .. Top
    BY <1>1, <1>2, OnAdvance
  <2> QED
    BY <1>1, <2>1, <2>2, <2>3, <2>4, ShorterChain
<1>3. CASE EnterImport
  <2>1. /\ \A k \in 1 .. Top : stack'[k].path = stack[k].path /\ stack'[k].at = stack[k].at
        /\ DOMAIN stack' = 1 .. Top + 1 /\ Len(stack') = Top + 1
        /\ stack'[Top + 1].path = Current.path /\ stack'[Top + 1].at = 1
    BY <1>1, <1>3, EntersImport, TopFrame DEF Basics
  <2>2. wildcards' = wildcards \cup {Current.path} /\ Current.path \notin wildcards
    BY <1>3, OnEnter
  <2>3. /\ Parser = stack[Top] /\ Parser.at \in DOMAIN Code(Parser) /\ Current.kind = "import"
        /\ Code(Parser) \in Seq(Statement)
    BY <1>3, OnEnter, TopFrame DEF Basics
  <2>4. Len(project[FileOf[Current.path]]) \in Nat
    BY <1>1, <1>3, OnEnter, CurrentImport, CodeTypes, PathsLeadToFiles DEF Basics, TypeOK
  <2>5. stack'[1].path = Main
    BY <1>1, <2>1 DEF Basics, Chain
  <2>6. \A k \in 1 .. Top + 1 :
          stack'[k].path \in wildcards' /\ stack'[k].at <= Len(project[FileOf[stack'[k].path]]) + 1
    <3> SUFFICES ASSUME NEW k \in 1 .. Top + 1
                 PROVE  stack'[k].path \in wildcards' /\ stack'[k].at <= Len(project[FileOf[stack'[k].path]]) + 1
      OBVIOUS
    <3>1. CASE k = Top + 1
      BY <2>1, <2>2, <2>4, <3>1
    <3>2. CASE k # Top + 1
      <4>1. k \in DOMAIN stack /\ stack'[k].path = stack[k].path /\ stack'[k].at = stack[k].at
        BY <1>1, <2>1, <3>2
      <4>2. stack[k].path \in wildcards /\ stack[k].at <= Len(project[FileOf[stack[k].path]]) + 1
        BY <4>1 DEF Basics, Chain, Code
      <4> QED
        BY <2>2, <4>1, <4>2
    <3> QED
      BY <3>1, <3>2
  <2>7. \A k \in 1 .. Top : /\ stack'[k].at <= Len(project[FileOf[stack'[k].path]])
                            /\ project[FileOf[stack'[k].path]][stack'[k].at].kind = "import"
                            /\ project[FileOf[stack'[k].path]][stack'[k].at].path = stack'[k + 1].path
    <3> SUFFICES ASSUME NEW k \in 1 .. Top
                 PROVE  /\ stack[k].at <= Len(Code(stack[k]))
                        /\ Code(stack[k])[stack[k].at].kind = "import"
                        /\ Code(stack[k])[stack[k].at].path = stack'[k + 1].path
      BY <2>1 DEF Code
    <3>1. CASE k = Top
      <4>1. Parser.at <= Len(Code(Parser))
        BY <2>3
      <4>2. Code(Parser)[Parser.at] = Current
        BY DEF Current
      <4>3. stack[k] = Parser /\ stack'[k + 1].path = Current.path
        BY <2>1, <2>3, <3>1
      <4> QED
        BY <2>3, <4>1, <4>2, <4>3
    <3>2. CASE k # Top
      <4>1. k \in 1 .. Top - 1 /\ k + 1 \in 1 .. Top
        BY <1>1, <3>2
      <4>2. k \in 1 .. Len(stack) - 1
        BY <4>1 DEF Top
      <4> QED
        BY <2>1, <4>1, <4>2 DEF Basics, Chain
    <3> QED
      BY <3>1, <3>2
  <2>8. \A k, l \in 1 .. Top + 1 : k # l => stack'[k].path # stack'[l].path
    <3>1. \A k \in 1 .. Top : stack'[k].path \in wildcards /\ stack'[k].path # Current.path
      BY <1>1, <2>1, <2>2 DEF Basics, Chain
    <3>2. \A k, l \in 1 .. Top : k # l => stack'[k].path # stack'[l].path
      BY <1>1, <2>1 DEF Basics, Chain
    <3> QED
      BY <1>1, <2>1, <3>1, <3>2
  <2>9. Len(stack') - 1 = Top
    BY <1>1, <2>1
  <2> QED
    BY <1>1, <2>1, <2>5, <2>6, <2>7, <2>8, <2>9 DEF Chain, Code
<1>4. CASE Turns
  <2>1. \A k \in 1 .. Top : stack'[k].path = stack[k].path /\ stack'[k].at = stack[k].at
    BY <1>1, <1>4, OnTurn, Waiting DEF Turned, ReturningNames, Basics
  <2>2. DOMAIN stack' = 1 .. Top /\ Len(stack') = Top /\ wildcards' = wildcards /\ Top \in 1 .. Top
    BY <1>1, <1>4, OnTurn DEF Turned
  <2>3. stack'[Top].at <= Len(Code(stack[Top])) + 1
    BY <1>1, <2>1 DEF Basics, Chain
  <2> QED
    BY <1>1, <2>1, <2>2, <2>3, ShorterChain
<1>5. CASE Returns
  <2>1. Top > 1 /\ Top - 1 \in 1 .. Top /\ Caller = stack[Top - 1]
    BY <1>1, <1>5, OnReturn, Waiting DEF Basics
  <2>2. \A k \in 1 .. Top - 1 : stack'[k].path = stack[k].path
    BY <1>1, <1>5, <2>1, OnReturn
  <2>3. \A k \in 1 .. (Top - 1) - 1 : stack'[k].at = stack[k].at
    BY <1>1, <1>5, <2>1, OnReturn
  <2>4. DOMAIN stack' = 1 .. Top - 1 /\ Len(stack') = Top - 1 /\ wildcards' = wildcards
    BY <1>1, <1>5, <2>1, OnReturn
  <2>5. stack'[Top - 1].at <= Len(Code(stack[Top - 1])) + 1
    BY <1>5, <2>1, OnReturn, Waiting, Frames DEF Basics, Frame
  <2> QED
    BY <1>1, <2>1, <2>2, <2>3, <2>4, <2>5, ShorterChain
<1>6. CASE Stays
  BY <1>6 DEF Stays, ImportMissingFile, Finish, vars, Basics, Chain, Code
<1> QED
  BY <1>2, <1>3, <1>4, <1>5, <1>6, Cases

LEMMA FinishedStep == Basics /\ Finished /\ [Next]_vars => Finished'
<1> SUFFICES ASSUME Basics, Finished, [Next]_vars PROVE Finished'
  OBVIOUS
<1>1. CASE Finish
  BY <1>1 DEF Finish, Finished, AtEnd, Parser, Code
<1>2. CASE UNCHANGED vars
  BY <1>2 DEF vars, Finished, AtEnd, Parser, Code
<1>3. CASE ~Finish /\ Next
  BY <1>3 DEF Next, ParseItem, ParseBadItem, SkipImport, ImportMissingFile, EnterImport, ReturnEverything,
              ReturningAll, SkipName, TakeName, MissName, Looping, ReturnNamed, ReturningNames, Returning,
              Parsing, Finished
<1> QED
  BY <1>1, <1>2, <1>3

-----------------------------------------------------------------------------
(* Where items come from.                                                   *)
IsIn(item, k) == \E j \in DOMAIN stack[k].items : stack[k].items[j] = item

Fresh == Item(Current.name, FileOf[Parser.path], Parser.at)

LEMMA MergedItems ==
  ASSUME Basics, ReturnEverything
  PROVE  /\ Top \in DOMAIN stack /\ Top - 1 \in DOMAIN stack
         /\ \A i \in DOMAIN stack'[Top - 1].items :
              IsIn(stack'[Top - 1].items[i], Top - 1) \/ IsIn(stack'[Top - 1].items[i], Top)
<1>1. /\ stack[Top - 1].items \in Seq(ItemType) /\ stack[Top].items \in Seq(ItemType)
      /\ Joined(stack'[Top - 1].items, stack[Top - 1].items, stack[Top].items)
      /\ Top \in DOMAIN stack /\ Top - 1 \in DOMAIN stack
  BY ReturnsEverything, Waiting, TopFrame DEF Basics, Frame, Joined
<1>2. \A i \in DOMAIN stack'[Top - 1].items :
        \/ \E j \in DOMAIN stack[Top - 1].items : stack[Top - 1].items[j] = stack'[Top - 1].items[i]
        \/ \E j \in DOMAIN stack[Top].items : stack[Top].items[j] = stack'[Top - 1].items[i]
  BY <1>1, JoinedElements
<1> QED
  BY <1>1, <1>2 DEF IsIn

LEMMA ItemsCome ==
  ASSUME Basics, [Next]_vars, NEW k \in DOMAIN stack', NEW i \in DOMAIN stack'[k].items,
         stack'[k].items[i] = ErrorItem => ~ParseBadItem /\ ~MissName
  PROVE  \/ \E l \in DOMAIN stack : IsIn(stack'[k].items[i], l)
         \/ ParseItem /\ k = Top /\ stack'[k].items[i] = Fresh
<1>1. DOMAIN stack = 1 .. Top /\ Top \in Nat /\ Top \in DOMAIN stack /\ Parser = stack[Top]
      /\ Parser.items \in Seq(ItemType)
  BY TopFrame DEF Basics, TypeOK, Top, Frame
<1> DEFINE item == stack'[k].items[i]
<1>2. CASE Advances
  <2>1. DOMAIN stack' = 1 .. Top
    BY <1>1, <1>2, OnAdvance
  <2>2. CASE k # Top
    BY <1>1, <1>2, <2>1, <2>2, OnAdvance DEF IsIn
  <2>3. CASE k = Top /\ ParseItem
    <3>1. stack'[Top].items = Append(Parser.items, Fresh)
      BY <2>3, ParsesItem DEF Basics, Advanced, Fresh
    <3>2. i \in DOMAIN Parser.items \/ item = Fresh
      BY <1>1, <2>3, <3>1
    <3>3. i \in DOMAIN Parser.items => Parser.items[i] = item
      BY <1>1, <2>3, <3>1
    <3> QED
      BY <1>1, <2>3, <3>2, <3>3 DEF IsIn
  <2>4. CASE k = Top /\ ParseBadItem
    <3>1. stack'[Top].items = IF Parser.isRecovering THEN Parser.items ELSE Append(Parser.items, ErrorItem)
      BY <2>4, ParsesBadItem DEF Basics, Advanced
    <3>2. i \in DOMAIN Parser.items /\ Parser.items[i] = item
      BY <1>1, <2>4, <3>1
    <3> QED
      BY <1>1, <3>2 DEF IsIn
  <2>5. CASE k = Top /\ SkipImport
    BY <1>1, <2>5, SkipsImport DEF Basics, Advanced, IsIn
  <2> QED
    BY <1>2, <2>2, <2>3, <2>4, <2>5 DEF Advances
<1>3. CASE EnterImport
  BY <1>1, <1>3, EntersImport DEF Basics, IsIn
<1>4. CASE Turns
  <2>1. Returning /\ Top - 1 \in DOMAIN stack /\ Caller = stack[Top - 1] /\ Caller.items \in Seq(ItemType)
    BY <1>4, OnTurn, Waiting DEF ReturningNames, Basics, Frame
  <2>2. /\ DOMAIN stack' = 1 .. Top
        /\ \A l \in DOMAIN stack : l # Top - 1 => stack'[l] = stack[l]
    BY <1>1, <1>4, OnTurn DEF Turned
  <2>3. CASE k # Top - 1
    BY <1>1, <2>2, <2>3 DEF IsIn
  <2>4. CASE k = Top - 1 /\ SkipName
    BY <2>1, <2>4, SkipsName DEF Turned, Basics, IsIn
  <2>5. CASE k = Top - 1 /\ TakeName
    <3>1. PICK j \in DOMAIN Parser.items : stack'[Top - 1].items = Caller.items \o <<Parser.items[j]>>
      BY <2>5, TakesName DEF Turned, Basics
    <3>2. Parser.items[j] \in ItemType
      BY <1>1
    <3>3. (i \in DOMAIN Caller.items /\ Caller.items[i] = item) \/ item = Parser.items[j]
      BY <2>1, <2>5, <3>1, <3>2, ElementOfLonger
    <3> QED
      BY <1>1, <2>1, <3>3 DEF IsIn
  <2>6. CASE k = Top - 1 /\ MissName
    <3>1. stack'[Top - 1].items = Caller.items \o <<ErrorItem>>
      BY <2>6, MissesName DEF Turned, Basics
    <3>2. ErrorItem \in ItemType
      BY DEF ErrorItem, Item, ItemType
    <3>3. i \in DOMAIN Caller.items /\ Caller.items[i] = item
      BY <2>1, <2>6, <3>1, <3>2, ElementOfLonger
    <3> QED
      BY <2>1, <3>3 DEF IsIn
  <2> QED
    BY <1>4, <2>3, <2>4, <2>5, <2>6 DEF Turns
<1>5. CASE Returns
  <2>1. Returning /\ Top - 1 \in DOMAIN stack /\ Caller = stack[Top - 1] /\ Caller.items \in Seq(ItemType)
    BY <1>5, OnReturn, Waiting DEF Basics, Frame
  <2>2. DOMAIN stack' = 1 .. Top - 1 /\ \A l \in 1 .. Top - 2 : stack'[l] = stack[l]
    BY <1>1, <1>5, <2>1, OnReturn
  <2>3. CASE k # Top - 1
    BY <1>1, <2>2, <2>3 DEF IsIn
  <2>4. CASE k = Top - 1 /\ ReturnNamed
    BY <2>1, <2>4, ReturnsNamed DEF Basics, IsIn
  <2>5. CASE k = Top - 1 /\ ReturnEverything
    BY <1>1, <2>5, MergedItems
  <2> QED
    BY <1>5, <2>3, <2>4, <2>5 DEF Returns
<1>6. CASE Stays
  BY <1>6 DEF Stays, ImportMissingFile, Finish, vars, IsIn
<1> QED
  BY <1>2, <1>3, <1>4, <1>5, <1>6, Cases

LEMMA FreshIsDefined ==
  ASSUME Basics, ParseItem
  PROVE  Fresh \in Defined(FileOf[Parser.path]) /\ Fresh \in ItemType /\ Fresh # ErrorItem
<1>1. Parser.at \in Positions(FileOf[Parser.path], "item") /\ project[FileOf[Parser.path]][Parser.at] = Current
  BY ParsesItem DEF Basics, Positions, Current, Code
<1>2. Fresh \in Defined(FileOf[Parser.path])
  BY <1>1 DEF Defined, Fresh
<1>3. Current.name \in Names /\ Parser.at \in Nat \ {0} /\ FileOf[Parser.path] \in Files
  BY ParsesItem, Statements, TopFrame DEF Basics, Frame
<1> QED
  BY <1>2, <1>3 DEF Fresh, ItemType, Item, ErrorItem

LEMMA ComesFromStep == Basics /\ ComesFromFiles /\ [Next]_vars => ComesFromFiles'
<1> SUFFICES ASSUME Basics, ComesFromFiles, [Next]_vars,
                    NEW k \in DOMAIN stack', NEW i \in DOMAIN stack'[k].items,
                    stack'[k].items[i] # ErrorItem
             PROVE  \E p \in wildcards' : stack'[k].items[i] \in Defined(FileOf[p])'
  BY DEF ComesFromFiles, ErrorItem, Item
<1>1. \A f : Defined(f)' = Defined(f)
  BY NextKeepsProject DEF Defined, Positions
<1>2. wildcards \subseteq wildcards'
  BY DEF Next, vars, ParseItem, ParseBadItem, SkipImport, ImportMissingFile, EnterImport, ReturnEverything,
         SkipName, TakeName, MissName, ReturnNamed, Finish
<1>3. CASE \E l \in DOMAIN stack : IsIn(stack'[k].items[i], l)
  BY <1>1, <1>2, <1>3 DEF IsIn, ComesFromFiles
<1>4. CASE ParseItem /\ stack'[k].items[i] = Fresh
  BY <1>1, <1>2, <1>4, FreshIsDefined, TopFrame DEF Basics, Chain
<1> QED
  BY <1>3, <1>4, ItemsCome

LEMMA DefinedItems ==
  ASSUME NEW f, NEW x \in Defined(f)
  PROVE  x.file = f /\ x.at \in Positions(f, "item") /\ x = Item(project[f][x.at].name, f, x.at)
BY DEF Defined, Item

(* Frames go forward, but for the one that a new import puts on top.        *)
LEMMA FramesMove ==
  ASSUME Basics, [Next]_vars, NEW l \in DOMAIN stack'
  PROVE  \/ l \in DOMAIN stack /\ stack'[l].path = stack[l].path /\ stack'[l].at >= stack[l].at
         \/ EnterImport /\ l = Top + 1 /\ stack'[l].path = Current.path
<1>1. DOMAIN stack = 1 .. Top /\ Top \in Nat /\ \A k \in 1 .. Top : stack[k].at \in Nat
  <2>1. DOMAIN stack = 1 .. Top /\ Top \in Nat
    BY DEF Basics, TypeOK, Top
  <2> QED
    BY <2>1, Frames DEF Basics, Frame
<1>2. CASE Advances
  <2>1. DOMAIN stack' = 1 .. Top /\ Parser = stack[Top]
    BY <1>1, <1>2, OnAdvance, TopFrame DEF Basics
  <2>2. CASE l = Top
    BY <1>1, <1>2, <2>1, <2>2, OnAdvance
  <2>3. CASE l # Top
    BY <1>1, <1>2, <2>1, <2>3, OnAdvance
  <2> QED
    BY <2>2, <2>3
<1>3. CASE EnterImport
  <2>1. DOMAIN stack' = 1 .. Top + 1 /\ Parser = stack[Top]
    BY <1>1, <1>3, EntersImport, TopFrame DEF Basics
  <2>2. CASE l = Top \/ l = Top + 1
    BY <1>1, <1>3, <2>1, <2>2, EntersImport DEF Basics
  <2>3. CASE l # Top /\ l # Top + 1
    BY <1>1, <1>3, <2>1, <2>3, EntersImport DEF Basics
  <2> QED
    BY <2>2, <2>3
<1>4. CASE Turns
  BY <1>1, <1>4, OnTurn, Waiting DEF Turned, ReturningNames, Basics
<1>5. CASE Returns
  <2>1. Top > 1 /\ Top - 1 \in DOMAIN stack /\ Caller = stack[Top - 1]
    BY <1>5, OnReturn, Waiting DEF Basics
  <2>2. DOMAIN stack' = 1 .. Top - 1
    BY <1>1, <1>5, <2>1, OnReturn
  <2> QED
    BY <1>1, <1>5, <2>1, <2>2, OnReturn
<1>6. CASE Stays
  BY <1>1, <1>6 DEF Stays, ImportMissingFile, Finish, vars
<1> QED
  BY <1>2, <1>3, <1>4, <1>5, <1>6, Cases

LEMMA OneSpelling ==
  ASSUME Basics, SpelledAlike, NEW p \in UsedPaths, NEW q \in UsedPaths, FileOf[p] = FileOf[q]
  PROVE  p = q
BY DEF SpelledAlike

LEMMA OriginStep == Basics /\ ComesFromFiles /\ Origin /\ [Next]_vars => Origin'
<1> SUFFICES ASSUME Basics, ComesFromFiles, Origin, [Next]_vars, SpelledAlike,
                    NEW k \in DOMAIN stack', NEW l \in DOMAIN stack', NEW i \in DOMAIN stack'[k].items,
                    stack'[k].items[i].file = FileOf[stack'[l].path]
             PROVE  stack'[k].items[i].at < stack'[l].at
  BY NextKeepsProject, ProjectStays DEF Origin
<1> DEFINE x == stack'[k].items[i]
<1>1. \A m \in DOMAIN stack :
        stack[m].path \in wildcards /\ stack[m].path \in UsedPaths /\ FileOf[stack[m].path] \in Files
        /\ stack[m].at \in Nat /\ stack[m].items \in Seq(ItemType)
  BY Frames DEF Basics, Chain, Opened, Frame
<1>2. CASE l \in DOMAIN stack /\ stack'[l].path = stack[l].path /\ stack'[l].at >= stack[l].at
  <2>1. x # ErrorItem
    BY <1>1, <1>2, PathsLeadToFiles DEF ErrorItem, Item
  <2>2. CASE \E m \in DOMAIN stack : IsIn(x, m)
    <3>1. PICK m \in DOMAIN stack : \E j \in DOMAIN stack[m].items : stack[m].items[j] = x
      BY <2>2 DEF IsIn
    <3>2. PICK j \in DOMAIN stack[m].items : stack[m].items[j] = x
      BY <3>1
    <3>3. x.at < stack[l].at
      BY <1>2, <3>2 DEF Origin
    <3>4. x.at \in Nat /\ stack[l].at \in Nat /\ stack'[l].at \in Nat
      <4>1. x \in ItemType
        BY <1>1, <3>2
      <4>2. stack' \in Seq(Frame)
        BY TypeStep DEF TypeOK
      <4>3. stack'[l] \in Frame
        BY <4>2
      <4>4. x.at \in Nat
        BY <4>1 DEF ItemType
      <4>5. stack'[l].at \in Nat
        BY <4>3 DEF Frame
      <4> QED
        BY <1>1, <1>2, <4>4, <4>5
    <3> QED
      BY <1>2, <3>3, <3>4
  <2>3. CASE ParseItem /\ x = Fresh
    <3>1. x.file = FileOf[Parser.path] /\ x.at = Parser.at
      BY <2>3 DEF Fresh, Item
    <3>2. stack[l].path = Parser.path
      BY <1>1, <1>2, <3>1, TopFrame, OneSpelling DEF Basics
    <3>3. l = Top
      BY <1>2, <3>2, TopFrame DEF Basics, Chain
    <3>4. stack'[l].at = Parser.at + 1 /\ Parser.at \in Nat
      BY <2>3, <3>3, ParsesItem, <1>1, TopFrame DEF Basics, Advanced
    <3> QED
      BY <3>1, <3>4
  <2> QED
    BY <2>1, <2>2, <2>3, ItemsCome
<1>3. CASE EnterImport /\ l = Top + 1 /\ stack'[l].path = Current.path
  <2>1. FileOf[Current.path] # NoFile /\ Current.path \notin wildcards /\ Current.path \in UsedPaths
    BY <1>3, OnEnter, CurrentImport DEF Basics
  <2>2. x # ErrorItem
    BY <1>3, <2>1 DEF ErrorItem, Item
  <2>3. PICK m \in DOMAIN stack : IsIn(x, m)
    BY <1>3, <2>2, ItemsCome DEF EnterImport, ParseItem, Parsing
  <2>4. PICK p \in wildcards : x \in Defined(FileOf[p])
    BY <2>2, <2>3 DEF IsIn, ComesFromFiles
  <2>5. FileOf[p] = FileOf[Current.path] /\ p \in UsedPaths
    BY <1>3, <2>4, DefinedItems DEF Basics, Opened
  <2> QED
    BY <2>1, <2>4, <2>5, OneSpelling
<1> QED
  BY <1>2, <1>3, FramesMove

-----------------------------------------------------------------------------
(* No item gets in twice.                                                   *)
Distinct(s) == \A i, j \in DOMAIN s : i # j /\ s[i] # ErrorItem => s[i] # s[j]

Disjoint(s, t) == \A i \in DOMAIN s, j \in DOMAIN t : s[i] = t[j] => s[i] = ErrorItem

LEMMA JoinedDistinct ==
  ASSUME NEW s \in Seq(ItemType), NEW t \in Seq(ItemType), NEW u, Joined(u, s, t),
         Distinct(s), Distinct(t), Disjoint(s, t)
  PROVE  Distinct(u)
<1> SUFFICES ASSUME NEW i \in DOMAIN u, NEW j \in DOMAIN u, i # j, u[i] # ErrorItem, u[i] = u[j]
             PROVE  FALSE
  BY DEF Distinct
<1>1. \A k \in DOMAIN u : \/ k \in DOMAIN s /\ u[k] = s[k]
                          \/ /\ k - Len(s) \in DOMAIN t /\ u[k] = t[k - Len(s)] /\ k \in Nat
  BY DEF Joined
<1>2. CASE i \in DOMAIN s /\ j \in DOMAIN s
  BY <1>2 DEF Joined, Distinct
<1>3. CASE i \notin DOMAIN s /\ j \notin DOMAIN s
  <2>1. i - Len(s) # j - Len(s)
    BY <1>1, <1>3
  <2> QED
    BY <1>1, <1>3, <2>1 DEF Distinct
<1>4. CASE i \in DOMAIN s /\ j \notin DOMAIN s
  BY <1>1, <1>4 DEF Joined, Disjoint
<1>5. CASE i \notin DOMAIN s /\ j \in DOMAIN s
  BY <1>1, <1>5 DEF Joined, Disjoint
<1> QED
  BY <1>2, <1>3, <1>4, <1>5

LEMMA JoinedOne ==
  ASSUME NEW s \in Seq(ItemType), NEW x \in ItemType, NEW u, Joined(u, s, <<x>>)
  PROVE  /\ \A i \in DOMAIN u : u[i] = x \/ \E j \in DOMAIN s : s[j] = u[i]
         /\ Distinct(s) /\ (x # ErrorItem => \A i \in DOMAIN s : s[i] # x) => Distinct(u)
<1> DEFINE t == <<x>>
<1>1. t \in Seq(ItemType) /\ DOMAIN t = {1} /\ t[1] = x /\ Joined(u, s, t)
  OBVIOUS
<1> HIDE DEF t
<1>2. \A i \in DOMAIN u : u[i] = x \/ \E j \in DOMAIN s : s[j] = u[i]
  BY <1>1, JoinedElements
<1>3. ASSUME Distinct(s), x # ErrorItem => \A i \in DOMAIN s : s[i] # x PROVE Distinct(u)
  <2>1. Distinct(t) /\ Disjoint(s, t)
    BY <1>1, <1>3 DEF Distinct, Disjoint
  <2> QED
    BY <1>1, <1>3, <2>1, JoinedDistinct
<1> QED
  BY <1>2, <1>3

LEMMA AppendIsJoined ==
  ASSUME NEW s \in Seq(ItemType), NEW x \in ItemType
  PROVE  Joined(Append(s, x), s, <<x>>)
BY DEF Joined

(* Once, with the names used here.                                          *)
LEMMA OnceMeans ==
  ASSUME SpelledAlike
  PROVE  Once <=> /\ \A k \in DOMAIN stack : Distinct(stack[k].items)
                  /\ \A k, l \in DOMAIN stack : k < l =>
                       \A i \in DOMAIN stack[k].items, j \in DOMAIN stack[l].items :
                         stack[k].items[i] = stack[l].items[j] /\ stack[k].items[i] # ErrorItem =>
                           /\ ReturningNames
                           /\ k = Len(stack) - 1 /\ l = Len(stack)
                           /\ Parser.path \in DOMAIN named
                           /\ stack[k].items[i].name \in named[Parser.path]
BY DEF Once, NoItemTwice, Apart, Distinct

LEMMA NothingShared ==
  ASSUME SpelledAlike, Once, ~ReturningNames, NEW k \in DOMAIN stack, NEW l \in DOMAIN stack, k < l
  PROVE  Disjoint(stack[k].items, stack[l].items)
BY OnceMeans DEF Disjoint

LEMMA FreshIsNew ==
  ASSUME Basics, Origin, SpelledAlike, ParseItem, NEW k \in DOMAIN stack, NEW i \in DOMAIN stack[k].items
  PROVE  stack[k].items[i] # Fresh
<1> SUFFICES ASSUME stack[k].items[i] = Fresh PROVE FALSE
  OBVIOUS
<1>1. Top \in DOMAIN stack /\ Parser = stack[Top] /\ Parser.at \in Nat
  BY TopFrame DEF Basics, Frame
<1>2. stack[k].items[i].file = FileOf[stack[Top].path] /\ stack[k].items[i].at = Parser.at
  BY <1>1 DEF Fresh, Item
<1>3. stack[k].items[i].at < stack[Top].at
  BY <1>1, <1>2 DEF Origin
<1> QED
  BY <1>1, <1>2, <1>3

LEMMA OnceFollows ==
  ASSUME \A k \in DOMAIN stack' : Distinct(stack'[k].items),
         \A k, l \in DOMAIN stack' : k < l => Disjoint(stack'[k].items, stack'[l].items)
  PROVE  Once'
BY DEF Once, NoItemTwice, Apart, Distinct, Disjoint

(* While a parser reads, all that is there is distinct.                     *)
LEMMA OnceReading ==
  ASSUME Basics, Origin, Once, SpelledAlike, ~ReturningNames, DOMAIN stack' = DOMAIN stack,
         \A k \in DOMAIN stack : k # Top => stack'[k].items = stack[k].items,
         NEW x \in ItemType,
         stack'[Top].items = Parser.items \/ Joined(stack'[Top].items, Parser.items, <<x>>),
         x # ErrorItem => \A k \in DOMAIN stack : \A i \in DOMAIN stack[k].items : stack[k].items[i] # x
  PROVE  Once'
<1>1. /\ DOMAIN stack = 1 .. Top /\ Top \in DOMAIN stack /\ Top \in Nat /\ Parser = stack[Top]
      /\ Parser.items \in Seq(ItemType)
  BY TopFrame DEF Basics, TypeOK, Top, Frame
<1>2. \A k \in DOMAIN stack : Distinct(stack[k].items)
  BY OnceMeans
<1>3. \A k, l \in DOMAIN stack : k < l => Disjoint(stack[k].items, stack[l].items)
  BY NothingShared
<1>4. Distinct(stack'[Top].items)
  BY <1>1, <1>2, JoinedOne
<1>5. \A i \in DOMAIN stack'[Top].items :
        stack'[Top].items[i] = x \/ \E j \in DOMAIN Parser.items : Parser.items[j] = stack'[Top].items[i]
  BY <1>1, JoinedOne
<1>6. ASSUME NEW k \in DOMAIN stack, NEW l \in DOMAIN stack, k < l
      PROVE  Disjoint(stack'[k].items, stack'[l].items)
  <2>1. CASE l # Top
    BY <1>1, <1>3, <1>6, <2>1
  <2>2. CASE l = Top
    <3>1. k # Top /\ stack'[k].items = stack[k].items /\ Disjoint(stack[k].items, Parser.items)
      BY <1>1, <1>3, <1>6, <2>2
    <3> QED
      BY <1>5, <2>2, <3>1 DEF Disjoint
  <2> QED
    BY <2>1, <2>2
<1> QED
  BY <1>1, <1>2, <1>4, <1>6, OnceFollows

LEMMA OnceAdvances ==
  ASSUME Basics, Origin, Once, SpelledAlike, Advances
  PROVE  Once'
<1>1. /\ ~ReturningNames /\ DOMAIN stack' = DOMAIN stack
      /\ \A k \in DOMAIN stack : k # Top => stack'[k].items = stack[k].items
  BY OnAdvance DEF ReturningNames, Returning, Basics, TypeOK, Top
<1>2. Parser.items \in Seq(ItemType) /\ ErrorItem \in ItemType
  BY TopFrame DEF Basics, Frame, ErrorItem, Item, ItemType
<1>3. CASE ParseItem
  <2>1. stack'[Top].items = Append(Parser.items, Fresh) /\ Fresh \in ItemType
    BY <1>3, ParsesItem, FreshIsDefined DEF Basics, Advanced, Fresh
  <2>2. Joined(stack'[Top].items, Parser.items, <<Fresh>>)
    BY <1>2, <2>1, AppendIsJoined
  <2>3. \A k \in DOMAIN stack : \A i \in DOMAIN stack[k].items : stack[k].items[i] # Fresh
    BY <1>3, FreshIsNew
  <2> QED
    BY <1>1, <2>1, <2>2, <2>3, OnceReading
<1>4. CASE ParseBadItem
  <2>1. stack'[Top].items = Parser.items \/ stack'[Top].items = Append(Parser.items, ErrorItem)
    BY <1>4, ParsesBadItem DEF Basics, Advanced
  <2>2. stack'[Top].items = Parser.items \/ Joined(stack'[Top].items, Parser.items, <<ErrorItem>>)
    BY <1>2, <2>1, AppendIsJoined
  <2> QED
    BY <1>1, <1>2, <2>2, OnceReading
<1>5. CASE SkipImport
  <2>1. stack'[Top].items = Parser.items
    BY <1>5, SkipsImport DEF Basics, Advanced
  <2> QED
    BY <1>1, <1>2, <2>1, OnceReading
<1> QED
  BY <1>3, <1>4, <1>5 DEF Advances

LEMMA OnceEnters ==
  ASSUME Basics, Once, SpelledAlike, EnterImport
  PROVE  Once'
<1>1. /\ DOMAIN stack = 1 .. Top /\ Top \in Nat /\ DOMAIN stack' = 1 .. Top + 1 /\ ~ReturningNames
      /\ \A k \in 1 .. Top : stack'[k].items = stack[k].items
      /\ stack'[Top + 1].items = <<>>
  <2>1. DOMAIN stack = 1 .. Top /\ Top \in Nat
    BY DEF Basics, TypeOK, Top
  <2>2. ~ReturningNames
    BY OnEnter DEF ReturningNames, Returning
  <2>3. /\ stack' \in Seq(Frame) /\ Len(stack') = Top + 1 /\ stack'[Top + 1].items = <<>>
        /\ \A k \in DOMAIN stack : k # Top => stack'[k] = stack[k]
        /\ stack'[Top].items = Parser.items /\ Parser = stack[Top]
    BY EntersImport, TopFrame DEF Basics
  <2> QED
    BY <2>1, <2>2, <2>3
<1>2. \A k \in DOMAIN stack' : Distinct(stack'[k].items)
  <2>1. Distinct(<<>>)
    BY DEF Distinct
  <2>2. \A k \in DOMAIN stack : Distinct(stack[k].items)
    BY OnceMeans
  <2> QED
    BY <1>1, <2>1, <2>2
<1>3. \A k, l \in DOMAIN stack' : k < l => Disjoint(stack'[k].items, stack'[l].items)
  <2>1. \A s : Disjoint(s, <<>>)
    BY DEF Disjoint
  <2>2. \A k, l \in DOMAIN stack : k < l => Disjoint(stack[k].items, stack[l].items)
    BY <1>1, NothingShared
  <2> QED
    BY <1>1, <2>1, <2>2
<1> QED
  BY <1>2, <1>3, OnceFollows

LEMMA OnceReturns ==
  ASSUME Basics, Once, SpelledAlike, Returns
  PROVE  Once'
<1>1. /\ DOMAIN stack = 1 .. Top /\ Top \in Nat /\ Top > 1 /\ DOMAIN stack' = 1 .. Top - 1
      /\ \A k \in 1 .. Top - 2 : stack'[k].items = stack[k].items
      /\ Caller = stack[Top - 1] /\ Parser = stack[Top] /\ Top - 1 \in DOMAIN stack /\ Top \in DOMAIN stack
      /\ Caller.items \in Seq(ItemType) /\ Parser.items \in Seq(ItemType)
  <2>1. DOMAIN stack = 1 .. Top /\ Top \in Nat
    BY DEF Basics, TypeOK, Top
  <2>2. /\ Returning /\ stack' \in Seq(Frame) /\ Len(stack') = Top - 1
        /\ \A k \in 1 .. Top - 2 : stack'[k] = stack[k]
    BY OnReturn
  <2>3. /\ Top > 1 /\ Caller = stack[Top - 1] /\ Parser = stack[Top]
        /\ Top - 1 \in DOMAIN stack /\ Top \in DOMAIN stack
    BY <2>2, Waiting, TopFrame DEF Basics
  <2>4. Caller.items \in Seq(ItemType) /\ Parser.items \in Seq(ItemType)
    BY <2>2, Waiting, TopFrame DEF Basics, Frame
  <2> QED
    BY <2>1, <2>2, <2>3, <2>4
<1>2. \A k \in DOMAIN stack : Distinct(stack[k].items)
  BY OnceMeans
<1>3. CASE ReturnNamed
  <2>1. \A k \in DOMAIN stack' : stack'[k].items = stack[k].items
    BY <1>1, <1>3, ReturnsNamed DEF Basics
  <2>2. \A k, l \in DOMAIN stack' : k < l => Disjoint(stack[k].items, stack[l].items)
    BY <1>1, OnceMeans DEF Disjoint, Top
  <2> QED
    BY <1>1, <1>2, <2>1, <2>2, OnceFollows
<1>4. CASE ReturnEverything
  <2>1. Joined(stack'[Top - 1].items, stack[Top - 1].items, stack[Top].items) /\ ~ReturningNames
    BY <1>1, <1>4, ReturnsEverything DEF Basics, Joined, ReturningNames
  <2>2. \A k, l \in DOMAIN stack : k < l => Disjoint(stack[k].items, stack[l].items)
    BY <2>1, NothingShared
  <2>3. Distinct(stack'[Top - 1].items)
    BY <1>1, <1>2, <2>1, <2>2, JoinedDistinct
  <2>4. ASSUME NEW k \in DOMAIN stack', NEW l \in DOMAIN stack', k < l
        PROVE  Disjoint(stack'[k].items, stack'[l].items)
    <3>1. CASE l # Top - 1
      BY <1>1, <2>2, <2>4, <3>1
    <3>2. CASE l = Top - 1
      <4>1. /\ stack'[k].items = stack[k].items
            /\ Disjoint(stack[k].items, stack[Top - 1].items) /\ Disjoint(stack[k].items, stack[Top].items)
        BY <1>1, <2>2, <2>4, <3>2
      <4>2. \A i \in DOMAIN stack'[Top - 1].items :
              \/ \E j \in DOMAIN stack[Top - 1].items : stack[Top - 1].items[j] = stack'[Top - 1].items[i]
              \/ \E j \in DOMAIN stack[Top].items : stack[Top].items[j] = stack'[Top - 1].items[i]
        BY <1>1, <2>1, JoinedElements
      <4> QED
        BY <3>2, <4>1, <4>2 DEF Disjoint
    <3> QED
      BY <3>1, <3>2
  <2>5. \A k \in DOMAIN stack' : Distinct(stack'[k].items)
    BY <1>1, <1>2, <2>3
  <2> QED
    BY <2>4, <2>5, OnceFollows
<1> QED
  BY <1>3, <1>4 DEF Returns


(* The loop goes on for the same two parsers.                               *)
LEMMA TurnsStayReturning ==
  ASSUME Basics, Turns
  PROVE  /\ Returning /\ ReturningNames /\ ReturningNames' /\ Parser' = Parser /\ Len(stack') = Len(stack)
         /\ Importing' = Importing
<1>1. Looping /\ ReturningNames /\ Returning /\ project' = project /\ status' = status
  BY OnTurn DEF ReturningNames
<1>2. /\ Len(stack) = Top /\ Top \in Nat /\ Top > 1 /\ Top \in DOMAIN stack /\ Top - 1 \in DOMAIN stack
      /\ Caller = stack[Top - 1]
  BY <1>1, Waiting, TopFrame DEF Basics, Top
<1>3. /\ Len(stack') = Top /\ stack'[Top] = stack[Top]
      /\ stack'[Top - 1].path = Caller.path /\ stack'[Top - 1].at = Caller.at
  BY <1>2, OnTurn DEF Turned
<1>4. Parser' = Parser /\ Len(stack') = Len(stack)
  BY <1>2, <1>3 DEF Parser
<1>5. Importing' = Importing
  <2>1. Caller' = stack'[Top - 1]
    BY <1>2, <1>3 DEF Caller
  <2> QED
    BY <1>1, <1>3, <2>1 DEF Importing, Code
<1>6. Returning'
  BY <1>1, <1>4 DEF Returning, AtEnd, Code
<1>7. ReturningNames'
  BY <1>1, <1>4, <1>5, <1>6 DEF ReturningNames, Everything
<1> QED
  BY <1>1, <1>4, <1>5, <1>7

(* The cache knows the names that were taken over, and forgets none.        *)
LEMMA TurnsRemember ==
  ASSUME Basics, Turns, NEW name,
         \/ Parser.path \in DOMAIN named /\ name \in named[Parser.path]
         \/ TakeName /\ name = Identifier
  PROVE  Parser.path \in DOMAIN named' /\ name \in named'[Parser.path]
<1>1. CASE TakeName
  BY <1>1 DEF TakeName, Add
<1>2. CASE ~TakeName
  BY <1>2 DEF Turns, SkipName, MissName
<1> QED
  BY <1>1, <1>2

LEMMA OnceTurns ==
  ASSUME Basics, Once, SpelledAlike, Turns
  PROVE  Once'
<1>1. /\ DOMAIN stack = 1 .. Top /\ DOMAIN stack' = 1 .. Top /\ Top \in Nat /\ Top > 1 /\ Len(stack) = Top
      /\ Caller = stack[Top - 1] /\ Parser = stack[Top] /\ Top - 1 \in DOMAIN stack /\ Top \in DOMAIN stack
  <2>1. Returning /\ Len(stack') = Top /\ stack' \in Seq(Frame)
    BY OnTurn, TurnsStayReturning DEF Turned
  <2>2. DOMAIN stack = 1 .. Top /\ Len(stack) = Top
    BY DEF Basics, TypeOK, Top
  <2> QED
    BY <2>1, <2>2, Waiting, TopFrame DEF Basics
<1>2. \A k \in DOMAIN stack : k # Top - 1 => stack'[k].items = stack[k].items
  BY OnTurn DEF Turned
<1>3. Caller.items \in Seq(ItemType) /\ Parser.items \in Seq(ItemType) /\ ErrorItem \in ItemType
  BY TurnsStayReturning, Waiting, TopFrame DEF Basics, Frame, ErrorItem, Item, ItemType
<1>4. /\ \A k \in DOMAIN stack : Distinct(stack[k].items)
      /\ \A k, l \in DOMAIN stack : k < l =>
           \A i \in DOMAIN stack[k].items, j \in DOMAIN stack[l].items :
             stack[k].items[i] = stack[l].items[j] /\ stack[k].items[i] # ErrorItem =>
               /\ k = Top - 1 /\ l = Top
               /\ Parser.path \in DOMAIN named
               /\ stack[k].items[i].name \in named[Parser.path]
  BY <1>1, OnceMeans
(* One item is new, or none.                                                *)
<1>5. \E x \in ItemType :
        /\ stack'[Top - 1].items = Caller.items \/ Joined(stack'[Top - 1].items, Caller.items, <<x>>)
        /\ x # ErrorItem => /\ TakeName /\ x.name = Identifier
                            /\ \E j \in DOMAIN Parser.items : Parser.items[j] = x
  <2>1. CASE SkipName
    BY <1>3, <2>1, SkipsName DEF Basics, Turned
  <2>2. CASE TakeName
    <3>1. PICK j \in DOMAIN Parser.items :
            /\ Parser.items[j].name = Identifier
            /\ stack'[Top - 1].items = Caller.items \o <<Parser.items[j]>>
      BY <2>2, TakesName DEF Basics, Turned
    <3>2. Parser.items[j] \in ItemType
      BY <1>3
    <3>3. Joined(stack'[Top - 1].items, Caller.items, <<Parser.items[j]>>)
      BY <3>1 DEF Joined
    <3> QED
      BY <2>2, <3>1, <3>2, <3>3
  <2>3. CASE MissName
    BY <1>3, <2>3, MissesName DEF Basics, Turned, Joined
  <2> QED
    BY <2>1, <2>2, <2>3 DEF Turns
<1>6. PICK x \in ItemType :
        /\ stack'[Top - 1].items = Caller.items \/ Joined(stack'[Top - 1].items, Caller.items, <<x>>)
        /\ x # ErrorItem => /\ TakeName /\ x.name = Identifier
                            /\ \E j \in DOMAIN Parser.items : Parser.items[j] = x
  BY <1>5
(* What is new in the caller was in no other parser but the inner one.      *)
<1>7. ASSUME NEW k \in DOMAIN stack, k < Top, NEW i \in DOMAIN stack[k].items, x # ErrorItem
      PROVE  stack[k].items[i] # x
  <2>1. PICK j \in DOMAIN Parser.items : Parser.items[j] = x
    BY <1>6, <1>7
  <2>2. ~(Parser.path \in DOMAIN named /\ x.name \in named[Parser.path])
    BY <1>6, <1>7 DEF TakeName, Unwanted, ContainsNonWildcard
  <2> QED
    BY <1>1, <1>4, <1>7, <2>1, <2>2
<1>8. Distinct(stack'[Top - 1].items)
  BY <1>1, <1>3, <1>4, <1>6, <1>7, JoinedOne
<1>9. \A k \in DOMAIN stack' : Distinct(stack'[k].items)
  BY <1>1, <1>2, <1>4, <1>8
<1>10. ASSUME NEW i \in DOMAIN stack'[Top - 1].items
       PROVE  stack'[Top - 1].items[i] = x \/ \E j \in DOMAIN Caller.items : Caller.items[j] = stack'[Top - 1].items[i]
  BY <1>3, <1>6, JoinedOne
<1>11. ASSUME NEW k \in DOMAIN stack, NEW l \in DOMAIN stack, k < l,
              NEW i \in DOMAIN stack'[k].items, NEW j \in DOMAIN stack'[l].items,
              stack'[k].items[i] = stack'[l].items[j], stack'[k].items[i] # ErrorItem
       PROVE  /\ k = Top - 1 /\ l = Top
              /\ Parser.path \in DOMAIN named'
              /\ stack'[k].items[i].name \in named'[Parser.path]
  <2>1. CASE k # Top - 1 /\ l # Top - 1
    BY <1>1, <1>2, <1>4, <1>11, <2>1
  <2>2. CASE l = Top - 1
    <3>1. stack'[k].items = stack[k].items /\ k < Top - 1 /\ k # Top
      BY <1>1, <1>2, <1>11, <2>2
    <3>2. CASE stack'[l].items[j] = x
      BY <1>1, <1>7, <1>11, <3>1, <3>2
    <3>3. CASE \E m \in DOMAIN Caller.items : Caller.items[m] = stack'[l].items[j]
      BY <1>1, <1>4, <1>11, <3>1, <3>3
    <3> QED
      BY <1>10, <2>2, <3>2, <3>3
  <2>3. CASE k = Top - 1
    <3>1. l = Top /\ stack'[l].items = Parser.items
      BY <1>1, <1>2, <1>11, <2>3
    <3>2. CASE stack'[k].items[i] = x
      BY <1>6, <1>11, <2>3, <3>1, <3>2, TurnsRemember
    <3>3. CASE \E m \in DOMAIN Caller.items : Caller.items[m] = stack'[k].items[i]
      <4>1. PICK m \in DOMAIN Caller.items : Caller.items[m] = stack'[k].items[i]
        BY <3>3
      <4>2. Parser.path \in DOMAIN named /\ stack'[k].items[i].name \in named[Parser.path]
        BY <1>1, <1>4, <1>11, <2>3, <3>1, <4>1
      <4> QED
        BY <2>3, <3>1, <4>2, TurnsRemember
    <3> QED
      BY <1>10, <2>3, <3>2, <3>3
  <2> QED
    BY <2>1, <2>2, <2>3
<1>12. /\ ReturningNames' /\ Parser' = Parser /\ Len(stack') = Top
  BY <1>1, TurnsStayReturning
<1>13. NoItemTwice'
  BY <1>9 DEF NoItemTwice, Distinct
<1>14. Apart'
  BY <1>1, <1>11, <1>12 DEF Apart, ErrorItem, Item
<1> QED
  BY <1>13, <1>14 DEF Once

LEMMA OnceStep == Basics /\ Origin /\ Once /\ [Next]_vars => Once'
<1> SUFFICES ASSUME Basics, Origin, Once, [Next]_vars, SpelledAlike PROVE Once'
  BY NextKeepsProject, ProjectStays DEF Once
<1>1. CASE Stays
  <2>1. UNCHANGED <<project, stack, named>>
    BY <1>1 DEF Stays, ImportMissingFile, Finish, vars
  <2>2. NoItemTwice'
    BY <2>1 DEF Once, NoItemTwice
  <2>3. CASE ~ReturningNames
    <3>1. \A k, l \in DOMAIN stack : k < l => Disjoint(stack[k].items, stack[l].items)
      BY <2>3, NothingShared
    <3>2. \A k \in DOMAIN stack : Distinct(stack[k].items)
      BY OnceMeans
    <3> QED
      BY <2>1, <3>1, <3>2, OnceFollows
  <2>4. CASE ReturningNames
    <3>1. status' = status
      <4>1. AtEnd /\ Len(stack) > 1
        BY <2>4 DEF ReturningNames, Returning
      <4>2. ~ImportMissingFile
        BY <4>1 DEF ImportMissingFile, Parsing
      <4>3. ~Finish
        <5>1. Finish => Len(stack) = 1
          BY DEF Finish
        <5> QED
          BY <4>1, <5>1
      <4> QED
        BY <1>1, <4>2, <4>3 DEF Stays, vars
    <3>2. ReturningNames'
      BY <2>1, <2>4, <3>1 DEF ReturningNames, Returning, AtEnd, Parser, Caller, Code, Importing, Everything
    <3>3. Apart'
      BY <2>1, <3>2 DEF Once, Apart, Parser, ErrorItem, Item
    <3> QED
      BY <2>2, <3>3 DEF Once
  <2> QED
    BY <2>3, <2>4
<1> QED
  BY <1>1, OnceAdvances, OnceEnters, OnceTurns, OnceReturns, Cases

-----------------------------------------------------------------------------
(* What is read, and what stays.                                            *)
LEMMA PositionsAre ==
  ASSUME Basics, NEW p \in wildcards, NEW kind, NEW i \in Positions(FileOf[p], kind)
  PROVE  /\ i \in Nat \ {0} /\ i <= Len(project[FileOf[p]]) /\ project[FileOf[p]][i].kind = kind
         /\ project[FileOf[p]][i] \in Statement /\ FileOf[p] \in Files
<1>1. FileOf[p] \in Files
  BY PathsLeadToFiles DEF Basics, Opened, TypeOK
<1> QED
  BY <1>1, CodeTypes DEF Basics, TypeOK, Positions

Unread(p, i) == \E k \in DOMAIN stack : stack[k].path = p /\ stack[k].at <= i
StillUnread(p, i) == \E k \in DOMAIN stack' : stack'[k].path = p /\ stack'[k].at <= i

LEMMA WildcardsGrow ==
  ASSUME Basics, [Next]_vars
  PROVE  /\ wildcards \subseteq wildcards'
         /\ \A p \in wildcards' : p \notin wildcards => EnterImport /\ p = Current.path
BY DEF Next, vars, ParseItem, ParseBadItem, SkipImport, ImportMissingFile, EnterImport, ReturnEverything,
       SkipName, TakeName, MissName, ReturnNamed, Finish

(* A statement that is still to be read stays so, unless it is read now.    *)
LEMMA ReadingGoesOn ==
  ASSUME Basics, [Next]_vars, NEW p \in wildcards', NEW i \in Nat \ {0}, i <= Len(project[FileOf[p]]),
         p \in wildcards => Unread(p, i)
  PROVE  \/ StillUnread(p, i)
         \/ Advances /\ p = Parser.path /\ i = Parser.at
         \/ Returns /\ p = Caller.path /\ i = Caller.at
<1>1. /\ DOMAIN stack = 1 .. Top /\ Top \in Nat /\ Top \in DOMAIN stack /\ Parser = stack[Top]
      /\ \A k \in DOMAIN stack : stack[k].at \in Nat
  <2>1. DOMAIN stack = 1 .. Top
    BY DEF Basics, TypeOK, Top
  <2>2. \A k \in DOMAIN stack : stack[k].at \in Nat
    BY Frames DEF Basics, Frame
  <2> QED
    BY <2>1, <2>2, TopFrame DEF Basics
<1>2. CASE p \notin wildcards
  <2>1. EnterImport /\ p = Current.path
    BY <1>2, WildcardsGrow
  <2>2. stack' \in Seq(Frame) /\ Len(stack') = Top + 1 /\ stack'[Top + 1].path = p /\ stack'[Top + 1].at = 1
    BY <2>1, EntersImport DEF Basics
  <2>3. Top + 1 \in DOMAIN stack'
    BY <1>1, <2>2
  <2> QED
    BY <2>2, <2>3 DEF StillUnread
<1>3. CASE p \in wildcards
  <2>1. PICK k \in DOMAIN stack : stack[k].path = p /\ stack[k].at <= i
    BY <1>3 DEF Unread
  <2>2. CASE Advances
    <3>1. DOMAIN stack' = 1 .. Top
      BY <1>1, <2>2, OnAdvance
    <3>2. CASE k # Top
      BY <1>1, <2>1, <2>2, <3>1, <3>2, OnAdvance DEF StillUnread
    <3>3. CASE k = Top
      <4>1. stack'[Top].path = p /\ stack'[Top].at = Parser.at + 1
        BY <1>1, <2>1, <2>2, <3>3, OnAdvance
      <4> QED
        BY <1>1, <2>1, <2>2, <3>1, <3>3, <4>1 DEF StillUnread
    <3> QED
      BY <3>2, <3>3
  <2>3. CASE EnterImport
    <3>1. DOMAIN stack' = 1 .. Top + 1 /\ stack'[k].path = p /\ stack'[k].at <= i
      BY <1>1, <2>1, <2>3, EntersImport DEF Basics
    <3> QED
      BY <1>1, <3>1 DEF StillUnread
  <2>4. CASE Turns
    <3>1. DOMAIN stack' = 1 .. Top /\ Caller = stack[Top - 1]
      BY <1>1, <2>4, OnTurn, Waiting DEF Turned, ReturningNames, Basics
    <3>2. stack'[k].path = stack[k].path /\ stack'[k].at = stack[k].at
      BY <1>1, <2>4, <3>1, OnTurn DEF Turned
    <3> QED
      BY <1>1, <2>1, <3>1, <3>2 DEF StillUnread
  <2>5. CASE Returns
    <3>1. Returning /\ Top > 1 /\ Caller = stack[Top - 1] /\ Top - 1 \in DOMAIN stack
      BY <2>5, OnReturn, Waiting DEF Basics
    <3>2. DOMAIN stack' = 1 .. Top - 1
      BY <1>1, <2>5, <3>1, OnReturn
    <3>6. \A l \in 1 .. Top - 2 : stack'[l] = stack[l]
      BY <1>1, <2>5, <3>1, OnReturn
    <3>3. k # Top
      <4>1. Parser.at > Len(project[FileOf[Parser.path]])
        BY <3>1 DEF Returning, AtEnd, Code
      <4>2. Len(project[FileOf[Parser.path]]) \in Nat
        BY TopFrame DEF Basics, Code
      <4> QED
        BY <1>1, <2>1, <4>1, <4>2
    <3>4. CASE k = Top - 1
      <4>1. stack'[k].path = p /\ stack'[k].at = Caller.at + 1
        BY <2>1, <2>5, <3>1, <3>4, OnReturn
      <4> QED
        BY <1>1, <2>1, <2>5, <3>1, <3>2, <3>4, <4>1 DEF StillUnread
    <3>5. CASE k # Top - 1
      BY <1>1, <2>1, <3>1, <3>2, <3>6, <3>3, <3>5 DEF StillUnread
    <3> QED
      BY <3>4, <3>5
  <2>6. CASE Stays
    BY <2>1, <2>6 DEF Stays, ImportMissingFile, Finish, vars, StillUnread
  <2> QED
    BY <2>2, <2>3, <2>4, <2>5, <2>6, Cases
<1> QED
  BY <1>2, <1>3

IsStillIn(item, k) == \E j \in DOMAIN stack'[k].items : stack'[k].items[j] = item

(* The items of a parser stay with it, or go to the one that returns.       *)
LEMMA ItemsStay ==
  ASSUME Basics, [Next]_vars, NEW k \in DOMAIN stack, NEW item, IsIn(item, k)
  PROVE  \/ k \in DOMAIN stack' /\ IsStillIn(item, k)
         \/ ReturnEverything /\ k = Top /\ Top - 1 \in DOMAIN stack' /\ IsStillIn(item, Top - 1)
         \/ ReturnNamed /\ k = Top
<1>1. /\ DOMAIN stack = 1 .. Top /\ Top \in Nat /\ Top \in DOMAIN stack /\ Parser = stack[Top]
      /\ \A l \in DOMAIN stack : stack[l].items \in Seq(ItemType)
  <2>1. DOMAIN stack = 1 .. Top
    BY DEF Basics, TypeOK, Top
  <2>2. \A l \in DOMAIN stack : stack[l].items \in Seq(ItemType)
    BY Frames DEF Basics, Frame
  <2> QED
    BY <2>1, <2>2, TopFrame DEF Basics
<1>2. ErrorItem \in ItemType
  BY DEF ErrorItem, Item, ItemType
<1>3. ASSUME NEW x \in ItemType, Joined(stack'[k].items, stack[k].items, <<x>>)
      PROVE  IsStillIn(item, k)
  <2> DEFINE t == <<x>>
  <2>1. t \in Seq(ItemType)
    OBVIOUS
  <2>2. Joined(stack'[k].items, stack[k].items, t)
    BY <1>3
  <2> HIDE DEF t
  <2> QED
    BY <1>1, <2>1, <2>2, JoinedElements DEF IsIn, IsStillIn
<1>4. CASE Advances
  <2>1. DOMAIN stack' = 1 .. Top
    BY <1>1, <1>4, OnAdvance
  <2>2. CASE k # Top
    BY <1>1, <1>4, <2>1, <2>2, OnAdvance DEF IsIn, IsStillIn
  <2>3. CASE k = Top /\ ParseItem
    <3>1. stack'[Top].items = Append(Parser.items, Fresh) /\ Fresh \in ItemType
      BY <2>3, ParsesItem, FreshIsDefined DEF Basics, Advanced, Fresh
    <3> QED
      BY <1>1, <1>3, <2>1, <2>3, <3>1, AppendIsJoined
  <2>4. CASE k = Top /\ ParseBadItem
    <3>1. stack'[Top].items = Parser.items \/ stack'[Top].items = Append(Parser.items, ErrorItem)
      BY <2>4, ParsesBadItem DEF Basics, Advanced
    <3>2. CASE stack'[Top].items = Parser.items
      BY <1>1, <2>1, <2>4, <3>2 DEF IsIn, IsStillIn
    <3>3. CASE stack'[Top].items = Append(Parser.items, ErrorItem)
      BY <1>1, <1>2, <1>3, <2>1, <2>4, <3>3, AppendIsJoined
    <3> QED
      BY <3>1, <3>2, <3>3
  <2>5. CASE k = Top /\ SkipImport
    BY <1>1, <2>1, <2>5, SkipsImport DEF Basics, Advanced, IsIn, IsStillIn
  <2> QED
    BY <1>4, <2>2, <2>3, <2>4, <2>5 DEF Advances
<1>5. CASE EnterImport
  <2>1. k \in DOMAIN stack' /\ stack'[k].items = stack[k].items
    BY <1>1, <1>5, EntersImport DEF Basics
  <2> QED
    BY <2>1 DEF IsIn, IsStillIn
<1>6. CASE Turns
  <2>1. Returning /\ Top - 1 \in DOMAIN stack /\ Caller = stack[Top - 1]
    BY <1>6, OnTurn, Waiting DEF ReturningNames, Basics
  <2>2. DOMAIN stack' = 1 .. Top /\ \A l \in DOMAIN stack : l # Top - 1 => stack'[l] = stack[l]
    BY <1>1, <1>6, OnTurn DEF Turned
  <2>3. CASE k # Top - 1
    BY <1>1, <2>2, <2>3 DEF IsIn, IsStillIn
  <2>4. CASE k = Top - 1 /\ SkipName
    BY <1>1, <2>1, <2>2, <2>4, SkipsName DEF Turned, Basics, IsIn, IsStillIn
  <2>5. CASE k = Top - 1 /\ TakeName
    <3>1. PICK j \in DOMAIN Parser.items : stack'[Top - 1].items = Caller.items \o <<Parser.items[j]>>
      BY <2>5, TakesName DEF Turned, Basics
    <3>2. Parser.items[j] \in ItemType
      BY <1>1
    <3>3. Joined(stack'[k].items, stack[k].items, <<Parser.items[j]>>)
      BY <2>1, <2>5, <3>1 DEF Joined
    <3> QED
      BY <1>1, <1>3, <2>2, <3>2, <3>3
  <2>6. CASE k = Top - 1 /\ MissName
    <3>1. stack'[Top - 1].items = Caller.items \o <<ErrorItem>>
      BY <2>6, MissesName DEF Turned, Basics
    <3>2. Joined(stack'[k].items, stack[k].items, <<ErrorItem>>)
      BY <2>1, <2>6, <3>1 DEF Joined
    <3> QED
      BY <1>1, <1>2, <1>3, <2>2, <3>2
  <2> QED
    BY <1>6, <2>3, <2>4, <2>5, <2>6 DEF Turns
<1>7. CASE Returns
  <2>1. Returning /\ Top - 1 \in DOMAIN stack /\ Caller = stack[Top - 1]
    BY <1>7, OnReturn, Waiting DEF Basics
  <2>2. DOMAIN stack' = 1 .. Top - 1 /\ \A l \in 1 .. Top - 2 : stack'[l] = stack[l]
    BY <1>1, <1>7, <2>1, OnReturn
  <2>3. CASE k # Top - 1 /\ k # Top
    BY <1>1, <2>2, <2>3 DEF IsIn, IsStillIn
  <2>4. CASE ReturnNamed
    <3>1. stack'[Top - 1].items = stack[Top - 1].items
      BY <2>1, <2>4, ReturnsNamed DEF Basics
    <3> QED
      BY <1>1, <2>1, <2>2, <2>3, <2>4, <3>1 DEF IsIn, IsStillIn
  <2>5. CASE ReturnEverything
    <3>1. Joined(stack'[Top - 1].items, stack[Top - 1].items, stack[Top].items)
      BY <1>1, <2>1, <2>5, ReturnsEverything DEF Basics, Joined
    <3>2. /\ \A j \in DOMAIN stack[Top - 1].items :
               \E i \in DOMAIN stack'[Top - 1].items : stack'[Top - 1].items[i] = stack[Top - 1].items[j]
          /\ \A j \in DOMAIN stack[Top].items :
               \E i \in DOMAIN stack'[Top - 1].items : stack'[Top - 1].items[i] = stack[Top].items[j]
      BY <1>1, <2>1, <3>1, JoinedElements
    <3>3. Top - 1 \in DOMAIN stack'
      BY <1>1, <2>1, <2>2
    <3> QED
      BY <2>3, <2>5, <3>2, <3>3 DEF IsIn, IsStillIn
  <2> QED
    BY <1>7, <2>4, <2>5 DEF Returns
<1>8. CASE Stays
  BY <1>8 DEF Stays, ImportMissingFile, Finish, vars, IsIn, IsStillIn
<1> QED
  BY <1>4, <1>5, <1>6, <1>7, <1>8, Cases

LEMMA ErrorsStay ==
  ASSUME Basics, [Next]_vars, NEW k \in DOMAIN stack, stack[k].hasError
  PROVE  \/ k \in DOMAIN stack' /\ stack'[k].hasError
         \/ ReturnEverything /\ k = Top /\ Top - 1 \in DOMAIN stack' /\ stack'[Top - 1].hasError
<1>1. DOMAIN stack = 1 .. Top /\ Top \in Nat /\ Top \in DOMAIN stack /\ Parser = stack[Top]
  <2>1. DOMAIN stack = 1 .. Top
    BY DEF Basics, TypeOK, Top
  <2> QED
    BY <2>1, TopFrame DEF Basics
<1>2. CASE Advances
  <2>1. DOMAIN stack' = 1 .. Top
    BY <1>1, <1>2, OnAdvance
  <2>2. CASE k # Top
    BY <1>1, <1>2, <2>1, <2>2, OnAdvance
  <2>3. CASE k = Top
    BY <1>1, <1>2, <2>1, <2>3, ParsesItem, ParsesBadItem, SkipsImport DEF Basics, Advances
  <2> QED
    BY <2>2, <2>3
<1>3. CASE EnterImport
  BY <1>1, <1>3, EntersImport DEF Basics
<1>4. CASE Turns
  <2>1. Returning /\ Top - 1 \in DOMAIN stack /\ Caller = stack[Top - 1]
    BY <1>4, OnTurn, Waiting DEF ReturningNames, Basics
  <2>2. DOMAIN stack' = 1 .. Top /\ \A l \in DOMAIN stack : l # Top - 1 => stack'[l] = stack[l]
    BY <1>1, <1>4, OnTurn DEF Turned
  <2>3. stack[Top - 1].hasError => stack'[Top - 1].hasError
    BY <1>4, <2>1, SkipsName, TakesName, MissesName DEF Turns, Turned, Basics
  <2> QED
    BY <1>1, <2>2, <2>3
<1>5. CASE Returns
  <2>1. Returning /\ Top - 1 \in DOMAIN stack /\ Caller = stack[Top - 1]
    BY <1>5, OnReturn, Waiting DEF Basics
  <2>2. DOMAIN stack' = 1 .. Top - 1 /\ \A l \in 1 .. Top - 2 : stack'[l] = stack[l]
    BY <1>1, <1>5, <2>1, OnReturn
  <2>3. CASE ReturnNamed
    BY <1>1, <2>1, <2>2, <2>3, ReturnsNamed DEF Basics
  <2>4. CASE ReturnEverything
    <3>1. Caller.hasError \/ Parser.hasError => stack'[Top - 1].hasError
      BY <2>4, ReturnsEverything DEF Basics
    <3>2. Top - 1 \in DOMAIN stack' /\ \A l \in DOMAIN stack : l = Top \/ l = Top - 1 \/ l \in 1 .. Top - 2
      BY <1>1, <2>1, <2>2
    <3>3. CASE k = Top \/ k = Top - 1
      BY <1>1, <2>1, <2>4, <3>1, <3>2, <3>3
    <3>4. CASE k \in 1 .. Top - 2
      BY <1>1, <2>1, <2>2, <3>4
    <3> QED
      BY <3>2, <3>3, <3>4
  <2> QED
    BY <1>5, <2>3, <2>4 DEF Returns
<1>6. CASE Stays
  BY <1>6 DEF Stays, ImportMissingFile, Finish, vars
<1> QED
  BY <1>2, <1>3, <1>4, <1>5, <1>6, Cases

-----------------------------------------------------------------------------
(* The errors.                                                              *)
LEMMA NoNewErrors ==
  ASSUME Basics, [Next]_vars, \A k \in DOMAIN stack' : ~stack'[k].hasError
  PROVE  (\A k \in DOMAIN stack : ~stack[k].hasError) /\ ~ParseBadItem /\ ~MissName
<1>1. \A k \in DOMAIN stack : ~stack[k].hasError
  BY ErrorsStay
<1>2. Top \in DOMAIN stack /\ DOMAIN stack = 1 .. Top
  BY TopFrame DEF Basics, TypeOK, Top
<1>3. ~ParseBadItem
  <2> SUFFICES ASSUME ParseBadItem PROVE FALSE
    OBVIOUS
  <2>1. stack'[Top].hasError = TRUE
    BY ParsesBadItem DEF Basics
  <2>2. DOMAIN stack' = 1 .. Top
    BY <1>2, OnAdvance DEF Advances
  <2> QED
    BY <1>2, <2>1, <2>2
<1>4. ~MissName
  <2> SUFFICES ASSUME MissName PROVE FALSE
    OBVIOUS
  <2>1. stack'[Top - 1].hasError = TRUE /\ Len(stack') = Top /\ stack' \in Seq(Frame)
    BY MissesName DEF Turned, Basics
  <2>2. Top - 1 \in DOMAIN stack
    BY OnTurn, Waiting DEF Turns, ReturningNames, Basics
  <2> QED
    BY <1>2, <2>1, <2>2
<1> QED
  BY <1>1, <1>3, <1>4

LEMMA ReadingErrors ==
  ASSUME Basics, [Next]_vars, ~ParseBadItem, NEW p \in wildcards', NEW i \in Nat \ {0},
         i <= Len(project[FileOf[p]]), project[FileOf[p]][i].kind = "bad",
         p \in wildcards => Unread(p, i)
  PROVE  StillUnread(p, i)
<1>1. CASE Advances /\ p = Parser.path /\ i = Parser.at
  <2>1. Current.kind = "bad"
    BY <1>1 DEF Current, Code
  <2> QED
    BY <1>1, <2>1 DEF Advances, ParseItem, SkipImport, Parsing
<1>2. CASE Returns /\ p = Caller.path /\ i = Caller.at
  <2>1. Importing.kind = "bad"
    BY <1>2 DEF Importing, Code
  <2> QED
    BY <1>2, <2>1, OnReturn, Waiting DEF Basics
<1> QED
  BY <1>1, <1>2, ReadingGoesOn

LEMMA ErrorsStep == Basics /\ Opened' /\ TypeOK' /\ ErrorsKnown /\ [Next]_vars => ErrorsKnown'
<1> SUFFICES ASSUME Basics, Opened', TypeOK', ErrorsKnown, [Next]_vars,
                    \A k \in DOMAIN stack' : ~stack'[k].hasError
             PROVE  /\ \A k \in DOMAIN stack' : NoName \notin NamesIn(stack[k].items)'
                    /\ \A p \in wildcards' : \A i \in Positions(FileOf[p], "bad") : StillUnread(p, i)
  BY NextKeepsProject DEF ErrorsKnown, StillUnread, Positions, NamesIn
<1>1. (\A k \in DOMAIN stack : ~stack[k].hasError) /\ ~ParseBadItem /\ ~MissName
  BY NoNewErrors
<1>2. /\ \A k \in DOMAIN stack : NoName \notin NamesIn(stack[k].items)
      /\ \A p \in wildcards : \A i \in Positions(FileOf[p], "bad") : Unread(p, i)
  BY <1>1 DEF ErrorsKnown, Unread
<1>3. ASSUME NEW k \in DOMAIN stack', NEW i \in DOMAIN stack'[k].items
      PROVE  stack'[k].items[i].name # NoName
  <2>1. CASE \E l \in DOMAIN stack : IsIn(stack'[k].items[i], l)
    BY <1>2, <2>1 DEF IsIn, NamesIn
  <2>2. CASE ParseItem /\ stack'[k].items[i] = Fresh
    <3>1. Current.name \in Names
      BY <2>2, ParsesItem, Statements DEF Basics
    <3> QED
      BY <2>2, <3>1, NoNameIsNoName DEF Fresh, Item
  <2> QED
    BY <1>1, <2>1, <2>2, ItemsCome
<1>4. ASSUME NEW p \in wildcards', NEW i \in Positions(FileOf[p], "bad")
      PROVE  StillUnread(p, i)
  <2>1. p \in wildcards => Unread(p, i)
    BY <1>2, <1>4
  <2>2. /\ i \in Nat \ {0} /\ i <= Len(project[FileOf[p]]) /\ project[FileOf[p]][i].kind = "bad"
    <3>1. FileOf[p] \in Files
      BY PathsLeadToFiles DEF Opened, TypeOK
    <3> QED
      BY <3>1, CodeTypes DEF Basics, TypeOK, Positions
  <2> QED
    BY <1>1, <2>1, <2>2, ReadingErrors
<1>5. \A k \in DOMAIN stack' : NoName \notin NamesIn(stack[k].items)'
  BY <1>3 DEF NamesIn
<1> QED
  BY <1>4, <1>5

-----------------------------------------------------------------------------
(* What was named.                                                          *)
LEMMA AskedStep == Basics /\ Asked /\ [Next]_vars => Asked'
<1> SUFFICES ASSUME Basics, Asked, [Next]_vars, ~stack'[1].hasError,
                    \A s \in Imports(FileOf[Main]) : ~Everything(s),
                    NEW i \in DOMAIN stack'[1].items
             PROVE  \/ stack'[1].items[i] \in Defined(FileOf[Main])
                    \/ \E s \in Imports(FileOf[Main]) : \E j \in DOMAIN s.names : s.names[j] = stack'[1].items[i].name
  BY NextKeepsProject DEF Asked, Program, Imports, Positions, Everything, Defined
<1>1. /\ DOMAIN stack = 1 .. Top /\ Top \in Nat \ {0} /\ Top \in DOMAIN stack /\ Parser = stack[Top]
      /\ \A k \in DOMAIN stack : stack[k].items \in Seq(ItemType)
      /\ stack[1].path = Main
  <2>1. DOMAIN stack = 1 .. Top
    BY DEF Basics, TypeOK, Top
  <2>2. \A l \in DOMAIN stack : stack[l].items \in Seq(ItemType)
    BY Frames DEF Basics, Frame
  <2>3. stack[1].path = Main
    BY DEF Basics, Chain
  <2> QED
    BY <2>1, <2>2, <2>3, TopFrame DEF Basics
<1> DEFINE Fine(item) ==
             \/ item \in Defined(FileOf[Main])
             \/ \E s \in Imports(FileOf[Main]) : \E j \in DOMAIN s.names : s.names[j] = item.name
<1>2. ~ReturnEverything \/ Top > 2
  <2> SUFFICES ASSUME ReturnEverything, Top <= 2 PROVE FALSE
    BY <1>1
  <2>1. Top = 2 /\ Caller = stack[1]
    BY <1>1, ReturnsEverything, Waiting DEF Basics
  <2>2. ~Parser.hasError
    <3>1. stack'[Top - 1].hasError = (Caller.hasError \/ Parser.hasError)
      BY ReturnsEverything DEF Basics
    <3>2. stack'[1].hasError = (Caller.hasError \/ Parser.hasError)
      BY <2>1, <3>1
    <3> QED
      BY <3>2
  <2>3. Importing \in Imports(FileOf[Main])
    BY <1>1, <2>1, ReturnsEverything, Waiting DEF Basics, Imports, Positions, Importing, Code
  <2> QED
    BY <2>2, <2>3, ReturnsEverything DEF Basics
<1>3. ~stack[1].hasError
  <2>1. 1 \in DOMAIN stack
    BY <1>1
  <2>2. ReturnEverything => 1 # Top
    BY <1>1, <1>2
  <2> QED
    BY <2>1, <2>2, ErrorsStay
<1>4. \A j \in DOMAIN stack[1].items : Fine(stack[1].items[j])
  BY <1>3 DEF Asked, Program
<1> HIDE DEF Fine
<1>5. CASE stack'[1].items = stack[1].items
  BY <1>4, <1>5 DEF Fine
<1>6. CASE Advances
  <2>1. CASE Top # 1
    <3>1. stack'[1] = stack[1]
      BY <1>1, <1>6, <2>1, OnAdvance
    <3> QED
      BY <1>5, <3>1
  <2>2. CASE Top = 1 /\ ParseItem
    <3>1. stack'[1].items = Append(stack[1].items, Fresh)
      BY <1>1, <2>2, ParsesItem DEF Basics, Advanced, Fresh
    <3>2. Fresh \in Defined(FileOf[Main])
      BY <1>1, <2>2, FreshIsDefined
    <3>3. stack[1].items \in Seq(ItemType)
      BY <1>1
    <3>4. (i \in DOMAIN stack[1].items /\ stack'[1].items[i] = stack[1].items[i]) \/ stack'[1].items[i] = Fresh
      BY <3>1, <3>3
    <3> QED
      BY <1>4, <3>2, <3>4 DEF Fine
  <2>3. CASE Top = 1 /\ ParseBadItem
    BY <2>3, ParsesBadItem DEF Basics
  <2>4. CASE Top = 1 /\ SkipImport
    BY <1>1, <1>5, <2>4, SkipsImport DEF Basics, Advanced
  <2> QED
    BY <1>6, <2>1, <2>2, <2>3, <2>4 DEF Advances
<1>7. CASE EnterImport
  <2>1. stack'[1].items = stack[1].items
    BY <1>1, <1>7, EntersImport DEF Basics
  <2> QED
    BY <1>5, <2>1
<1>8. CASE Turns
  <2>1. Returning /\ Top > 1 /\ Caller = stack[Top - 1]
    BY <1>8, OnTurn, Waiting DEF ReturningNames, Basics
  <2>2. CASE Top # 2
    <3>1. stack'[1] = stack[1]
      BY <1>1, <1>8, <2>1, <2>2, OnTurn DEF Turned
    <3> QED
      BY <1>5, <3>1
  <2>3. CASE Top = 2 /\ SkipName
    BY <1>5, <2>1, <2>3, SkipsName DEF Turned, Basics
  <2>4. CASE Top = 2 /\ TakeName
    <3>1. PICK j \in DOMAIN Parser.items :
            /\ Parser.items[j].name = Identifier
            /\ stack'[1].items = stack[1].items \o <<Parser.items[j]>>
      BY <2>1, <2>4, TakesName DEF Turned, Basics
    <3>2. Parser.items[j] \in ItemType /\ stack[1].items \in Seq(ItemType)
      BY <1>1
    <3>3. Importing \in Imports(FileOf[Main])
      <4>1. /\ Caller.at \in DOMAIN Code(Caller) /\ Code(Caller)[Caller.at].kind = "import"
            /\ Caller = stack[1] /\ Caller.path = Main
        BY <2>1, <2>4, Waiting DEF Basics, Importing, Chain
      <4>2. Importing = project[FileOf[Main]][Caller.at]
        BY <4>1 DEF Importing, Code
      <4>3. Caller.at \in Positions(FileOf[Main], "import")
        BY <4>1 DEF Positions, Code
      <4> QED
        BY <4>2, <4>3 DEF Imports
    <3>4. Fine(Parser.items[j])
      <4>1. Caller.next \in DOMAIN Importing.names /\ Identifier = Importing.names[Caller.next]
        BY <2>4, Loops DEF TakeName, Basics, Identifier
      <4> QED
        BY <3>1, <3>3, <4>1 DEF Fine
    <3>5. (i \in DOMAIN stack[1].items /\ stack'[1].items[i] = stack[1].items[i])
          \/ stack'[1].items[i] = Parser.items[j]
      BY <3>1, <3>2, ElementOfLonger
    <3> QED
      BY <1>4, <3>4, <3>5 DEF Fine
  <2>5. CASE Top = 2 /\ MissName
    <3>1. stack'[Top - 1].hasError = TRUE
      BY <2>5, MissesName DEF Turned, Basics
    <3>2. stack'[1].hasError = TRUE
      BY <2>5, <3>1
    <3> QED
      BY <3>2
  <2> QED
    BY <1>8, <2>2, <2>3, <2>4, <2>5 DEF Turns
<1>9. CASE Returns
  <2>1. Top > 1 /\ Caller = stack[Top - 1]
    BY <1>9, OnReturn, Waiting DEF Basics
  <2>2. CASE Top = 2
    <3>1. ReturnNamed
      BY <1>2, <1>9, <2>2 DEF Returns
    <3>2. stack'[1].items = stack[1].items
      BY <2>1, <2>2, <3>1, ReturnsNamed DEF Basics
    <3> QED
      BY <1>5, <3>2
  <2>3. CASE Top # 2
    <3>1. stack'[1] = stack[1]
      BY <1>1, <1>9, <2>1, <2>3, OnReturn
    <3> QED
      BY <1>5, <3>1
  <2> QED
    BY <2>2, <2>3
<1>10. CASE Stays
  BY <1>5, <1>10 DEF Stays, ImportMissingFile, Finish, vars
<1> QED
  BY <1>6, <1>7, <1>8, <1>9, <1>10, Cases

-----------------------------------------------------------------------------
(* Wildcard imports alone.                                                  *)
LEMMA AllEverything ==
  ASSUME OnlyWildcards, NEW f \in Files, NEW s \in Imports(f)
  PROVE  Everything(s)
BY DEF OnlyWildcards

LEMMA NoNames ==
  ASSUME Basics, OnlyWildcards, Returning
  PROVE  ~ReturningNames
<1>1. Importing \in Imports(FileOf[Caller.path]) /\ FileOf[Caller.path] \in Files
  BY Waiting DEF Basics, Imports, Positions, Importing, Code
<1> QED
  BY <1>1, AllEverything DEF ReturningNames

LEMMA ReadIsThereStep == Basics /\ Opened' /\ TypeOK' /\ ReadIsThere /\ [Next]_vars => ReadIsThere'
<1> SUFFICES ASSUME Basics, Opened', TypeOK', ReadIsThere, [Next]_vars, OnlyWildcards, NEW p \in wildcards'
             PROVE  /\ \A i \in Positions(FileOf[p], "item") :
                         \/ StillUnread(p, i)
                         \/ \E k \in DOMAIN stack' : IsStillIn(Item(project[FileOf[p]][i].name, FileOf[p], i), k)
                    /\ \A i \in Positions(FileOf[p], "import") :
                         StillUnread(p, i) \/ project[FileOf[p]][i].path \in wildcards'
  BY NextKeepsProject, ProjectStays DEF ReadIsThere, StillUnread, IsStillIn, Positions
<1>1. /\ \A q \in wildcards : \A i \in Positions(FileOf[q], "item") :
           \/ Unread(q, i)
           \/ \E k \in DOMAIN stack : IsIn(Item(project[FileOf[q]][i].name, FileOf[q], i), k)
      /\ \A q \in wildcards : \A i \in Positions(FileOf[q], "import") :
           Unread(q, i) \/ project[FileOf[q]][i].path \in wildcards
  BY DEF ReadIsThere, Unread, IsIn
<1>2. FileOf[p] \in Files
  BY PathsLeadToFiles DEF Opened, TypeOK
<1>3. \A kind : \A i \in Positions(FileOf[p], kind) :
        i \in Nat \ {0} /\ i <= Len(project[FileOf[p]]) /\ project[FileOf[p]][i].kind = kind
  BY <1>2, CodeTypes DEF Basics, TypeOK, Positions
<1>4. wildcards \subseteq wildcards'
  BY WildcardsGrow
<1>5. ~ReturnNamed
  BY NoNames, ReturnsNamed DEF Basics, ReturnNamed
<1>6. ASSUME NEW i \in Positions(FileOf[p], "item")
      PROVE  \/ StillUnread(p, i)
             \/ \E k \in DOMAIN stack' : IsStillIn(Item(project[FileOf[p]][i].name, FileOf[p], i), k)
  <2> DEFINE item == Item(project[FileOf[p]][i].name, FileOf[p], i)
  <2>1. CASE p \in wildcards /\ \E k \in DOMAIN stack : IsIn(item, k)
    BY <1>5, <2>1, ItemsStay
  <2>2. CASE p \in wildcards => Unread(p, i)
    <3>1. CASE Advances /\ p = Parser.path /\ i = Parser.at
      <4>1. Current = project[FileOf[p]][i] /\ Current.kind = "item"
        BY <1>3, <3>1 DEF Current, Code
      <4>2. ParseItem
        BY <3>1, <4>1 DEF Advances, ParseBadItem, SkipImport, Parsing
      <4>3. stack'[Top].items = Append(Parser.items, Fresh) /\ Fresh = item
        BY <3>1, <4>1, <4>2, ParsesItem DEF Basics, Advanced, Fresh
      <4>4. Parser.items \in Seq(ItemType) /\ Top \in DOMAIN stack'
        BY <3>1, OnAdvance, TopFrame DEF Basics, Frame
      <4>5. Len(Parser.items) + 1 \in DOMAIN stack'[Top].items /\ stack'[Top].items[Len(Parser.items) + 1] = item
        BY <4>3, <4>4
      <4> QED
        BY <4>4, <4>5 DEF IsStillIn
    <3>2. CASE Returns /\ p = Caller.path /\ i = Caller.at
      <4>1. Importing.kind = "item"
        BY <1>3, <3>2 DEF Importing, Code
      <4> QED
        BY <3>2, <4>1, OnReturn, Waiting DEF Basics
    <3> QED
      BY <1>3, <2>2, <3>1, <3>2, ReadingGoesOn
  <2> QED
    BY <1>1, <2>1, <2>2
<1>7. ASSUME NEW i \in Positions(FileOf[p], "import")
      PROVE  StillUnread(p, i) \/ project[FileOf[p]][i].path \in wildcards'
  <2>1. CASE p \in wildcards /\ project[FileOf[p]][i].path \in wildcards
    BY <1>4, <2>1
  <2>2. CASE p \in wildcards => Unread(p, i)
    <3>1. CASE Advances /\ p = Parser.path /\ i = Parser.at
      <4>1. Current = project[FileOf[p]][i] /\ Current.kind = "import"
        BY <1>3, <3>1 DEF Current, Code
      <4>2. SkipImport
        BY <3>1, <4>1 DEF Advances, ParseItem, ParseBadItem, Parsing
      <4>3. Everything(Current)
        BY <1>2, <3>1, <4>1, OnAdvance, CurrentImport, AllEverything DEF Basics
      <4>4. Current.path \in wildcards
        BY <4>2, <4>3 DEF SkipImport, AlreadyImported, ContainsWildcard
      <4> QED
        BY <1>4, <4>1, <4>4
    <3>2. CASE Returns /\ p = Caller.path /\ i = Caller.at
      <4>1. Importing = project[FileOf[p]][i]
        BY <3>2 DEF Importing, Code
      <4>2. Importing.path \in wildcards
        BY <3>2, OnReturn, Waiting, TopFrame DEF Basics, Chain
      <4> QED
        BY <1>4, <4>1, <4>2
    <3> QED
      BY <1>3, <2>2, <3>1, <3>2, ReadingGoesOn
  <2> QED
    BY <1>1, <2>1, <2>2
<1> QED
  BY <1>6, <1>7

-----------------------------------------------------------------------------
(* The only import from a file.  The main file is parsed by the first frame *)
(* alone.                                                                   *)
LEMMA FirstMoves ==
  ASSUME Basics, [Next]_vars
  PROVE  /\ Len(stack) = Top /\ Top \in Nat \ {0} /\ stack[1].at \in Nat \ {0} /\ 1 \in DOMAIN stack
         /\ \/ Advances /\ Top = 1 /\ Len(stack') = 1 /\ stack'[1].at = stack[1].at + 1
            \/ EnterImport /\ Top = 1 /\ Len(stack') = 2 /\ stack'[1].at = stack[1].at
            \/ Turns /\ Top = 2 /\ Len(stack') = 2 /\ stack'[1].at = stack[1].at
            \/ Returns /\ Top = 2 /\ Len(stack') = 1 /\ stack'[1].at = stack[1].at + 1
            \/ stack'[1] = stack[1] /\ Top > 1 /\ Len(stack') # 1
            \/ stack'[1] = stack[1] /\ Top = 1 /\ Len(stack') = 1 /\ Stays
<1>1. /\ DOMAIN stack = 1 .. Top /\ Top \in Nat \ {0} /\ Parser = stack[Top] /\ stack[1].at \in Nat \ {0}
      /\ Len(stack) = Top
  <2>1. DOMAIN stack = 1 .. Top /\ Len(stack) = Top
    BY DEF Basics, TypeOK, Top
  <2>2. Top \in Nat \ {0} /\ Parser = stack[Top]
    BY TopFrame DEF Basics
  <2>3. 1 \in DOMAIN stack
    BY <2>1, <2>2
  <2> QED
    BY <2>1, <2>2, <2>3, Frames DEF Basics, Frame
<1>2. CASE Advances
  <2>1. CASE Top = 1
    <3>1. Len(stack') = Top /\ stack'[Top].at = Parser.at + 1
      BY <1>2, OnAdvance
    <3> QED
      BY <1>1, <1>2, <2>1, <3>1
  <2>2. CASE Top # 1
    BY <1>1, <1>2, <2>2, OnAdvance
  <2> QED
    BY <1>1, <2>1, <2>2
<1>3. CASE EnterImport
  <2>1. CASE Top = 1
    <3>1. Len(stack') = Top + 1 /\ stack'[Top].at = Parser.at
      BY <1>3, EntersImport DEF Basics
    <3> QED
      BY <1>1, <1>3, <2>1, <3>1
  <2>2. CASE Top # 1
    BY <1>1, <1>3, <2>2, EntersImport DEF Basics
  <2> QED
    BY <1>1, <2>1, <2>2
<1>4. CASE Turns
  <2>1. /\ Top > 1 /\ Caller = stack[Top - 1] /\ Len(stack') = Top
        /\ stack'[Top - 1].at = Caller.at /\ \A k \in DOMAIN stack : k # Top - 1 => stack'[k] = stack[k]
    BY <1>4, OnTurn, Waiting DEF Turned, ReturningNames, Basics
  <2>2. CASE Top = 2
    BY <1>1, <1>4, <2>1, <2>2
  <2>3. CASE Top # 2
    BY <1>1, <1>4, <2>1, <2>3
  <2> QED
    BY <1>1, <2>2, <2>3
<1>5. CASE Returns
  <2>1. /\ Top > 1 /\ Caller = stack[Top - 1] /\ Len(stack') = Top - 1
        /\ stack'[Top - 1].at = Caller.at + 1 /\ \A k \in 1 .. Top - 2 : stack'[k] = stack[k]
    BY <1>5, OnReturn, Waiting DEF Basics
  <2>2. CASE Top = 2
    BY <1>1, <1>5, <2>1, <2>2
  <2>3. CASE Top # 2
    BY <1>1, <1>5, <2>1, <2>3
  <2> QED
    BY <1>1, <2>2, <2>3
<1>6. CASE Stays
  <2>1. stack' = stack
    BY <1>6 DEF Stays, ImportMissingFile, Finish, vars
  <2> QED
    BY <1>1, <1>6, <2>1
<1> QED
  BY <1>1, <1>2, <1>3, <1>4, <1>5, <1>6, Cases

(* Whoever imports from the file stands at the statement in question.       *)
LEMMA OnlyImporter ==
  ASSUME Basics, NEW i, OnlyImportOf(i), NEW k \in DOMAIN stack,
         stack[k].at \in Positions(FileOf[stack[k].path], "import"),
         FileOf[Code(stack[k])[stack[k].at].path] = FileOf[project[FileOf[Main]][i].path]
  PROVE  k = 1 /\ stack[1].at = i
<1>1. FileOf[stack[k].path] \in Files /\ stack[k].path \in UsedPaths
  BY Frames DEF Basics, Chain, Opened
<1>2. FileOf[stack[k].path] = FileOf[Main] /\ stack[k].at = i
  BY <1>1 DEF OnlyImportOf, Code
<1>3. stack[k].path = Main
  BY <1>1, <1>2 DEF OnlyImportOf
<1>4. 1 \in DOMAIN stack /\ stack[1].path = Main
  BY DEF Basics, TypeOK, Chain
<1>5. k = 1
  BY <1>3, <1>4 DEF Basics, Chain
<1> QED
  BY <1>2, <1>5

LEMMA MainImport ==
  ASSUME Basics, NEW i \in Positions(FileOf[Main], "import")
  PROVE  LET s == project[FileOf[Main]][i] IN
         /\ i \in Nat \ {0} /\ s \in Statement /\ s.path \in Paths /\ s.names \in Seq(Names)
         /\ ~Everything(s) => \E j \in DOMAIN s.names : TRUE
<1> DEFINE s == project[FileOf[Main]][i]
<1>1. Main \in wildcards
  BY DEF Basics, TypeOK, Chain
<1>2. i \in Nat \ {0} /\ s \in Statement /\ s.kind = "import"
  BY <1>1, PositionsAre
<1>3. s.path \in Paths /\ s.names \in Seq(Names)
  BY <1>2, Statements
<1>4. ~Everything(s) => 1 \in DOMAIN s.names
  BY <1>3 DEF Everything
<1> QED
  BY <1>2, <1>3, <1>4

(* The three parts of what is said of one import.                           *)
Untouched(s) == \A p \in wildcards : FileOf[p] # FileOf[s.path]

Taking(s) ==
  /\ \A j \in DOMAIN s.names : s.names[j] \in stack[1].wanted
  /\ \A p \in DOMAIN named : FileOf[p] = FileOf[s.path] => named[p] \subseteq NamesIn(stack[1].items)
  /\ \A j \in DOMAIN s.names : j < stack[1].next => s.names[j] \in NamesIn(stack[1].items)

LEMMA DeliveringParts ==
  ASSUME NEW i
  PROVE  Delivering(i) <=>
           /\ stack[1].at < i \/ (stack[1].at = i /\ Len(stack) = 1) => Untouched(project[FileOf[Main]][i])
           /\ stack[1].at = i /\ Len(stack) > 1 /\ ~stack[1].hasError => Taking(project[FileOf[Main]][i])
           /\ stack[1].at > i /\ ~stack[1].hasError => Delivered(project[FileOf[Main]][i])
BY DEF Delivering, Untouched, Taking

LEMMA NothingContained ==
  ASSUME Basics, NEW s, Untouched(s), NEW name
  PROVE  ~Contains(s.path, name)
BY DEF Basics, Opened, Untouched, Contains, ContainsWildcard, ContainsNonWildcard

LEMMA UntouchedStep ==
  ASSUME Basics, [Next]_vars, NEW i \in Positions(FileOf[Main], "import"), OnlyImportOf(i),
         Delivering(i), stack'[1].at < i \/ (stack'[1].at = i /\ Len(stack') = 1)
  PROVE  \A p \in wildcards' : FileOf[p] # FileOf[project[FileOf[Main]][i].path]
<1>1. i \in Nat
  BY MainImport
<1>2. stack[1].at < i \/ (stack[1].at = i /\ Len(stack) = 1)
  <2>1. stack[1].at \in Nat /\ Len(stack) = Top
    BY FirstMoves
  <2>2. \/ stack'[1].at = stack[1].at + 1
        \/ stack'[1].at = stack[1].at /\ (Len(stack') = 1 => Top = 1)
    BY FirstMoves
  <2> QED
    BY <1>1, <2>1, <2>2
<1>3. \A p \in wildcards : FileOf[p] # FileOf[project[FileOf[Main]][i].path]
  BY <1>2, DeliveringParts DEF Untouched
<1>4. ASSUME EnterImport, FileOf[Current.path] = FileOf[project[FileOf[Main]][i].path]
      PROVE  FALSE
  <2>1. Top \in DOMAIN stack /\ Parser = stack[Top] /\ Parser.at \in Positions(FileOf[Parser.path], "import")
        /\ Code(Parser)[Parser.at] = Current
    BY <1>4, OnEnter, CurrentImport, TopFrame DEF Basics, Current
  <2>2. Top = 1 /\ stack[1].at = i
    BY <1>4, <2>1, OnlyImporter
  <2>3. Len(stack') = Top + 1 /\ stack'[Top].at = Parser.at
    BY <1>4, EntersImport DEF Basics
  <2> QED
    BY <1>1, <2>1, <2>2, <2>3
<1> QED
  BY <1>3, <1>4, WildcardsGrow


LEMMA FirstStays ==
  ASSUME Basics, [Next]_vars
  PROVE  /\ \A name \in NamesIn(stack[1].items) : name \in NamesIn(stack'[1].items)
         /\ stack[1].hasError => stack'[1].hasError
<1>1. 1 \in DOMAIN stack /\ (ReturnEverything \/ ReturnNamed => 1 # Top)
  <2>1. ReturnEverything \/ ReturnNamed => Top > 1
    BY ReturnsEverything, ReturnsNamed, Waiting DEF Basics
  <2> QED
    BY <2>1, FirstMoves
<1>2. ASSUME NEW i \in DOMAIN stack[1].items PROVE stack[1].items[i].name \in NamesIn(stack'[1].items)
  <2>1. IsIn(stack[1].items[i], 1)
    BY DEF IsIn
  <2>2. IsStillIn(stack[1].items[i], 1)
    BY <1>1, <2>1, ItemsStay
  <2> QED
    BY <2>2 DEF IsStillIn, NamesIn
<1>3. stack[1].hasError => stack'[1].hasError
  BY <1>1, ErrorsStay
<1> QED
  BY <1>2, <1>3 DEF NamesIn

(* The parser that stands at the statement, and the one it waits for.       *)
LEMMA AtTheImport ==
  ASSUME Basics, NEW i, stack[1].at = i
  PROVE  /\ Top = 1 => /\ Parser = stack[1] /\ Parser.at = i /\ Parser.path = Main
                       /\ Current = project[FileOf[Main]][i]
         /\ Top = 2 /\ Returning => Caller = stack[1] /\ Importing = project[FileOf[Main]][i]
<1>1. stack[1].path = Main /\ Parser = stack[Top]
  BY TopFrame DEF Basics, Chain
<1>2. ASSUME Top = 2, Returning PROVE Caller = stack[1]
  <2>1. Caller = stack[Top - 1]
    BY <1>2, Waiting DEF Basics
  <2> QED
    BY <1>2, <2>1
<1> QED
  BY <1>1, <1>2 DEF Current, Importing, Code

LEMMA TakingStep ==
  ASSUME Basics, [Next]_vars, NEW i \in Positions(FileOf[Main], "import"), OnlyImportOf(i),
         Delivering(i), stack'[1].at = i, Len(stack') # 1, ~stack'[1].hasError
  PROVE  LET s == project[FileOf[Main]][i] IN
         /\ \A j \in DOMAIN s.names : s.names[j] \in stack'[1].wanted
         /\ \A p \in DOMAIN named' : FileOf[p] = FileOf[s.path] => named'[p] \subseteq NamesIn(stack'[1].items)
         /\ \A j \in DOMAIN s.names : j < stack'[1].next => s.names[j] \in NamesIn(stack'[1].items)
<1> DEFINE s == project[FileOf[Main]][i]
<1>1. /\ s.names \in Seq(Names) /\ Top \in Nat \ {0} /\ Len(stack) = Top
      /\ 1 \in DOMAIN stack /\ 1 .. Top = DOMAIN stack
  BY MainImport, FirstMoves DEF Basics, TypeOK
<1>2. /\ stack[1].at = i
      /\ \/ EnterImport /\ Top = 1
         \/ Turns /\ Top = 2
         \/ stack'[1] = stack[1] /\ Top > 1 /\ ~(Turns /\ Top = 2)
  <2>1. \/ EnterImport /\ Top = 1 /\ stack'[1].at = stack[1].at
        \/ Turns /\ Top = 2 /\ stack'[1].at = stack[1].at
        \/ stack'[1] = stack[1] /\ Top > 1
    BY FirstMoves
  <2> QED
    BY <2>1
<1>3. CASE EnterImport /\ Top = 1
  <2>1. Untouched(s)
    BY <1>1, <1>2, <1>3, DeliveringParts
  <2>2. Current = s
    BY <1>2, <1>3, AtTheImport
  <2>3. stack'[1].wanted = Remaining(s) /\ stack'[1].next = 1 /\ named' = named
    BY <1>3, <2>2, EntersImport, OnEnter DEF Basics
  <2>4. \A j \in DOMAIN s.names : s.names[j] \in Remaining(s)
    BY <2>1, NothingContained DEF Remaining
  <2>5. \A p \in DOMAIN named : FileOf[p] # FileOf[s.path]
    BY <2>1 DEF Untouched, Basics, Opened
  <2>6. \A j \in DOMAIN s.names : ~(j < 1)
    BY <1>1
  <2> QED
    BY <2>3, <2>4, <2>5, <2>6
<1>4. ASSUME Top > 1
      PROVE  /\ \A j \in DOMAIN s.names : s.names[j] \in stack[1].wanted
             /\ \A p \in DOMAIN named : FileOf[p] = FileOf[s.path] => named[p] \subseteq NamesIn(stack'[1].items)
             /\ \A j \in DOMAIN s.names : j < stack[1].next => s.names[j] \in NamesIn(stack'[1].items)
  <2>1. ~stack[1].hasError
    BY FirstStays
  <2>2. Taking(s)
    BY <1>1, <1>2, <1>4, <2>1, DeliveringParts
  <2> QED
    BY <2>2, FirstStays DEF Taking
<1>5. CASE Turns /\ Top = 2
  <2>1. Returning /\ Looping
    BY <1>5, OnTurn DEF ReturningNames
  <2>2. /\ Caller = stack[1] /\ Importing = s /\ Parser.path = s.path
        /\ Caller.next \in DOMAIN s.names /\ Identifier = s.names[Caller.next] /\ Caller.next \in Nat
    <3>1. Caller = stack[1] /\ Importing = s
      BY <1>2, <1>5, <2>1, AtTheImport
    <3>2. Importing.path = Parser.path /\ Caller \in Frame
      BY <2>1, Waiting DEF Basics
    <3>3. Caller.next \in DOMAIN Importing.names /\ Identifier = Importing.names[Caller.next]
      BY <2>1, Loops DEF Basics, Identifier
    <3> QED
      BY <3>1, <3>2, <3>3 DEF Frame
  <2>3. stack'[1].wanted = stack[1].wanted /\ stack'[1].next = stack[1].next + 1
    BY <1>5, <2>2, OnTurn DEF Turned
  <2>4. ~MissName
    <3>1. MissName => stack'[Top - 1].hasError = TRUE
      BY MissesName DEF Turned, Basics
    <3>2. Top - 1 = 1
      BY <1>5
    <3> QED
      BY <3>1, <3>2
  <2>5. CASE SkipName
    <3>1. Identifier \in NamesIn(stack'[1].items)
      <4>1. Identifier \in Caller.wanted
        BY <1>4, <1>5, <2>2
      <4>2. ContainsNonWildcard(s.path, Identifier)
        BY <2>2, <2>5, <4>1 DEF SkipName, Unwanted
      <4> QED
        BY <1>4, <1>5, <4>2 DEF ContainsNonWildcard
    <3>2. named' = named
      BY <2>5 DEF SkipName
    <3> QED
      BY <1>1, <1>4, <1>5, <2>2, <2>3, <3>1, <3>2
  <2>6. CASE TakeName
    <3>1. Identifier \in NamesIn(stack'[1].items)
      <4>1. PICK m \in DOMAIN Parser.items :
              Parser.items[m].name = Identifier /\ stack'[Top - 1].items = Caller.items \o <<Parser.items[m]>>
        BY <2>6, TakesName DEF Basics, Turned
      <4>2. Parser.items[m] \in ItemType /\ Caller.items \in Seq(ItemType)
        BY <2>1, Waiting, TopFrame DEF Basics, Frame
      <4>3. stack'[1].items = Caller.items \o <<Parser.items[m]>>
        BY <1>5, <4>1
      <4>4. Len(Caller.items) + 1 \in DOMAIN stack'[1].items
            /\ stack'[1].items[Len(Caller.items) + 1] = Parser.items[m]
        BY <4>2, <4>3
      <4> QED
        BY <4>1, <4>4 DEF NamesIn
    <3>2. ASSUME NEW p \in DOMAIN named', NEW name \in named'[p]
          PROVE  (p \in DOMAIN named /\ name \in named[p]) \/ name = Identifier
      BY <2>6, <3>2 DEF TakeName, Add
    <3>3. \A p \in DOMAIN named' : FileOf[p] = FileOf[s.path] => named'[p] \subseteq NamesIn(stack'[1].items)
      BY <1>4, <1>5, <3>1, <3>2
    <3>4. \A j \in DOMAIN s.names : j < stack[1].next + 1 => s.names[j] \in NamesIn(stack'[1].items)
      BY <1>1, <1>4, <1>5, <2>2, <3>1
    <3> QED
      BY <1>4, <1>5, <2>3, <3>3, <3>4
  <2> QED
    BY <1>5, <2>4, <2>5, <2>6 DEF Turns
<1>6. CASE stack'[1] = stack[1] /\ Top > 1 /\ ~(Turns /\ Top = 2)
  <2>1. ASSUME NEW p \in DOMAIN named', FileOf[p] = FileOf[s.path]
        PROVE  p \in DOMAIN named /\ named'[p] = named[p]
    <3>1. CASE ~TakeName
      BY <3>1 DEF Next, vars, ParseItem, ParseBadItem, SkipImport, ImportMissingFile, EnterImport,
                  ReturnEverything, SkipName, MissName, ReturnNamed, Finish
    <3>2. CASE TakeName
      <4>1. Returning
        BY <3>2, Loops DEF TakeName, Basics
      <4>2. /\ Top - 1 \in DOMAIN stack /\ Caller = stack[Top - 1] /\ Code(Caller)[Caller.at].path = Parser.path
            /\ Caller.at \in Positions(FileOf[Caller.path], "import")
        BY <4>1, Waiting DEF Basics, Importing, Positions, Code
      <4>3. FileOf[Parser.path] = FileOf[s.path] => Top - 1 = 1
        BY <4>2, OnlyImporter
      <4>4. p # Parser.path
        BY <1>1, <1>6, <2>1, <3>2, <4>3 DEF Turns
      <4> QED
        BY <2>1, <3>2, <4>4 DEF TakeName, Add
    <3> QED
      BY <3>1, <3>2
  <2> QED
    BY <1>4, <1>6, <2>1
<1> QED
  BY <1>2, <1>3, <1>5, <1>6

LEMMA DeliveredStep ==
  ASSUME Basics, [Next]_vars, NEW i \in Positions(FileOf[Main], "import"), OnlyImportOf(i),
         ~Everything(project[FileOf[Main]][i]),
         Delivering(i), stack'[1].at > i, ~stack'[1].hasError
  PROVE  LET s == project[FileOf[Main]][i] IN
         \A j \in DOMAIN s.names : s.names[j] \in NamesIn(stack'[1].items)
<1> DEFINE s == project[FileOf[Main]][i]
<1>1. /\ s.names \in Seq(Names) /\ i \in Nat /\ Len(stack) = Top /\ stack[1].at \in Nat
      /\ ~stack[1].hasError
  BY MainImport, FirstMoves, FirstStays
<1>2. CASE stack[1].at > i
  BY <1>1, <1>2, DeliveringParts, FirstStays DEF Delivered, Program
<1>3. CASE ~(stack[1].at > i)
  <2>1. /\ stack[1].at = i
        /\ (Advances /\ Top = 1) \/ (Returns /\ Top = 2)
    <3>1. \/ Advances /\ Top = 1 /\ stack'[1].at = stack[1].at + 1
          \/ Returns /\ Top = 2 /\ stack'[1].at = stack[1].at + 1
          \/ stack'[1].at = stack[1].at
      BY FirstMoves
    <3> QED
      BY <1>1, <1>3, <3>1
  <2>2. CASE Advances /\ Top = 1
    <3>1. Untouched(s)
      BY <1>1, <2>1, <2>2, DeliveringParts
    <3>2. Current = s /\ s.kind = "import"
      BY <2>1, <2>2, AtTheImport DEF Positions
    <3>3. SkipImport
      BY <2>2, <3>2 DEF Advances, ParseItem, ParseBadItem, Parsing
    <3>4. s.path \notin wildcards
      BY <3>1 DEF Untouched
    <3>5. Remaining(s) = {}
      BY <3>2, <3>3, <3>4 DEF SkipImport, AlreadyImported, ContainsWildcard
    <3>6. PICK j \in DOMAIN s.names : TRUE
      BY MainImport
    <3>7. s.names[j] \in Remaining(s)
      BY <3>1, <3>6, NothingContained DEF Remaining
    <3> QED
      BY <3>5, <3>7
  <2>3. CASE Returns /\ Top = 2
    <3>1. Returning /\ Caller = stack[1] /\ Importing = s /\ Caller.next \in Nat
      BY <2>1, <2>3, OnReturn, AtTheImport, Waiting DEF Basics, Frame
    <3>2. Taking(s)
      BY <1>1, <2>1, <2>3, DeliveringParts
    <3>3. ~ReturnEverything
      <4>1. ReturnEverything => stack'[Top - 1].hasError = (Caller.hasError \/ Parser.hasError)
                                /\ (Parser.hasError \/ Everything(s))
        BY <3>1, ReturnsEverything DEF Basics
      <4>2. Top - 1 = 1
        BY <2>3
      <4> QED
        BY <4>1, <4>2
    <3>4. Caller.next > Len(s.names)
      BY <2>3, <3>1, <3>3, ReturnsNamed DEF Basics, Returns
    <3>5. \A j \in DOMAIN s.names : j < stack[1].next
      BY <1>1, <3>1, <3>4
    <3> QED
      BY <3>2, <3>5, FirstStays DEF Taking
  <2> QED
    BY <2>1, <2>2, <2>3
<1> QED
  BY <1>2, <1>3

LEMMA OnlyImportStep == Basics /\ OnlyImportDelivers /\ [Next]_vars => OnlyImportDelivers'
<1> SUFFICES ASSUME Basics, OnlyImportDelivers, [Next]_vars, NEW i \in Positions(FileOf[Main], "import"),
                    OnlyImportOf(i), ~Everything(project[FileOf[Main]][i])
             PROVE  Delivering(i)'
  BY NextKeepsProject DEF OnlyImportDelivers, OnlyImportOf, UsedPaths, Imports, Positions, Everything
<1>1. Delivering(i)
  BY DEF OnlyImportDelivers
<1>2. project' = project
  BY NextKeepsProject
<1> DEFINE s == project[FileOf[Main]][i]
<1>3. stack'[1].at < i \/ (stack'[1].at = i /\ Len(stack') = 1) => \A p \in wildcards' : FileOf[p] # FileOf[s.path]
  BY <1>1, UntouchedStep
<1>4. stack'[1].at = i /\ Len(stack') > 1 /\ ~stack'[1].hasError =>
        /\ \A j \in DOMAIN s.names : s.names[j] \in stack'[1].wanted
        /\ \A p \in DOMAIN named' : FileOf[p] = FileOf[s.path] => named'[p] \subseteq NamesIn(stack'[1].items)
        /\ \A j \in DOMAIN s.names : j < stack'[1].next => s.names[j] \in NamesIn(stack'[1].items)
  <2>1. Len(stack') \in Nat
    BY TypeStep DEF TypeOK
  <2> QED
    BY <1>1, <2>1, TakingStep
<1>5. stack'[1].at > i /\ ~stack'[1].hasError =>
        \A j \in DOMAIN s.names : s.names[j] \in NamesIn(stack'[1].items)
  BY <1>1, DeliveredStep
<1> QED
  BY <1>2, <1>3, <1>4, <1>5 DEF Delivering, Delivered, Program, NamesIn

-----------------------------------------------------------------------------
LEMMA Initial == Init => IInv
<1> SUFFICES ASSUME Init PROVE IInv
  OBVIOUS
<1> DEFINE f == NewParser(Main)
<1>1. /\ f \in Frame
      /\ f.path = Main /\ f.at = 1 /\ f.items = <<>> /\ f.hasError = FALSE
  <2>1. <<>> \in Seq(ItemType) /\ {} \in SUBSET Names
    OBVIOUS
  <2> QED
    BY <2>1, MainExists DEF NewParser, Frame
<1>2. stack = <<f>> /\ wildcards = {Main} /\ named = [p \in {} |-> {}] /\ status = "parsing" /\ project \in Projects
  BY DEF Init
<1> HIDE DEF f
<1>3. stack \in Seq(Frame) /\ Len(stack) = 1 /\ stack[1] = f /\ DOMAIN stack = {1}
  BY <1>1, <1>2
<1>4. TypeOK
  BY <1>2, <1>3, MainExists DEF TypeOK
<1>5. FileOf[Main] \in Files
  BY MainExists, PathsLeadToFiles
<1>6. Len(project[FileOf[Main]]) \in Nat
  BY <1>2, <1>5, CodeTypes
<1>7. Chain
  BY <1>1, <1>2, <1>3, <1>6 DEF Chain, Code
<1>8. Opened
  BY <1>2, <1>5, MainExists DEF Opened, UsedPaths, Reachable
<1>9. Finished
  BY <1>2 DEF Finished
<1>10. ComesFromFiles /\ Origin /\ Asked
  BY <1>1, <1>3 DEF ComesFromFiles, Origin, Asked, Program
<1>11. Once
  BY <1>1, <1>3 DEF Once, NoItemTwice, Apart
<1>12. \A kind : \A i \in Positions(FileOf[Main], kind) : i \in Nat \ {0}
  BY <1>2, <1>4, <1>7, <1>8, PositionsAre DEF Basics
<1>13. ErrorsKnown
  BY <1>1, <1>2, <1>3, <1>12 DEF ErrorsKnown, NamesIn
<1>14. ReadIsThere
  BY <1>1, <1>2, <1>3, <1>12 DEF ReadIsThere
<1>15. OnlyImportDelivers
  <2> SUFFICES ASSUME NEW i \in Positions(FileOf[Main], "import"), OnlyImportOf(i) PROVE Delivering(i)
    BY DEF OnlyImportDelivers
  <2>1. Untouched(project[FileOf[Main]][i])
    BY <1>2 DEF Untouched, OnlyImportOf
  <2>2. i \in Nat \ {0} /\ ~(stack[1].at > i)
    BY <1>1, <1>3, <1>12
  <2> QED
    BY <1>3, <2>1, <2>2, DeliveringParts
<1> QED
  BY <1>4, <1>7, <1>8, <1>9, <1>10, <1>11, <1>13, <1>14, <1>15 DEF IInv

LEMMA Step == IInv /\ [Next]_vars => IInv'
<1> SUFFICES ASSUME IInv, [Next]_vars PROVE IInv'
  OBVIOUS
<1>1. Basics
  BY DEF IInv, Basics
<1>2. TypeOK' /\ Chain' /\ Opened'
  BY <1>1, TypeStep, ChainStep, OpenedStep
<1>3. Finished' /\ ComesFromFiles' /\ Origin' /\ Once'
  BY <1>1, FinishedStep, ComesFromStep, OriginStep, OnceStep DEF IInv
<1>4. ErrorsKnown' /\ Asked' /\ ReadIsThere' /\ OnlyImportDelivers'
  BY <1>1, <1>2, ErrorsStep, AskedStep, ReadIsThereStep, OnlyImportStep DEF IInv
<1> QED
  BY <1>2, <1>3, <1>4 DEF IInv

(* Whatever the files import, all of IInv holds while they are parsed.      *)
THEOREM InvariantHolds == Spec => []IInv
BY Initial, Step, PTL DEF Spec

-----------------------------------------------------------------------------
(* When everything is parsed, nothing is left to be read.                   *)
LEMMA AllIsRead ==
  ASSUME IInv, status = "parsed"
  PROVE  /\ DOMAIN stack = {1} /\ ~stack[1].hasError
         /\ \A p \in wildcards : \A kind : \A i \in Positions(FileOf[p], kind) :
              ~ \E k \in DOMAIN stack : stack[k].path = p /\ stack[k].at <= i
         /\ \A i \in Positions(FileOf[Main], "import") : stack[1].at > i
<1>1. Basics /\ Len(stack) = 1 /\ AtEnd /\ ~Parser.hasError
  BY DEF IInv, Basics, Finished
<1>2. DOMAIN stack = {1} /\ Parser = stack[1] /\ stack[1].path = Main
  BY <1>1 DEF Basics, TypeOK, Parser, Chain
<1>3. Main \in wildcards /\ stack[1].at \in Nat
  BY <1>1, <1>2, Frames DEF Basics, Chain, Frame
<1>4. ASSUME NEW kind, NEW i \in Positions(FileOf[Main], kind) PROVE stack[1].at > i /\ ~(stack[1].at <= i)
  <2>1. stack[1].at > Len(project[FileOf[Main]])
    BY <1>1, <1>2 DEF AtEnd, Code
  <2>2. i \in Nat /\ i <= Len(project[FileOf[Main]])
    BY <1>1, <1>3, PositionsAre
  <2>3. Len(project[FileOf[Main]]) \in Nat
    BY <1>1, <1>2, TopFrame DEF Basics, Code
  <2> QED
    BY <1>3, <2>1, <2>2, <2>3
<1> QED
  BY <1>1, <1>2, <1>4

(* No program item gets into a program twice, whatever files import each    *)
(* other, in cycles, as a whole and by name: the items of two parsers are   *)
(* only the same where the cache knows their name.                          *)
THEOREM ItemsComeOnce == Spec => []ItemsOnce
<1>1. IInv => ItemsOnce
  BY DEF IInv, Once, ItemsOnce
<1> QED
  BY <1>1, InvariantHolds, PTL

(* An error in any file that was opened, or a name that cannot be found,    *)
(* makes the whole compilation fail.                                        *)
THEOREM ErrorsComeOut == Spec => []ErrorsAreReported
<1>1. ASSUME IInv PROVE ErrorsAreReported
  <2> SUFFICES ASSUME status = "parsed"
               PROVE  /\ NoName \notin NamesIn(Program)
                      /\ \A p \in wildcards : Positions(FileOf[p], "bad") = {}
    BY DEF ErrorsAreReported
  <2>1. DOMAIN stack = {1} /\ ~stack[1].hasError
    BY <1>1, AllIsRead
  <2>2. ErrorsKnown
    BY <1>1 DEF IInv
  <2> QED
    BY <1>1, <2>1, <2>2, AllIsRead DEF ErrorsKnown, Program
<1> QED
  BY <1>1, InvariantHolds, PTL

(* Named imports import nothing that was not named.                         *)
THEOREM NothingElseComes == Spec => []NothingUnasked
<1>1. ASSUME IInv PROVE NothingUnasked
  BY <1>1, AllIsRead DEF NothingUnasked, IInv, Asked
<1> QED
  BY <1>1, InvariantHolds, PTL

(* With wildcard imports alone, the program is exactly what the files that  *)
(* can be reached define.                                                   *)
LEMMA WildcardsDeliver ==
  ASSUME IInv, status = "parsed", OnlyWildcards
  PROVE  {Program[i] : i \in DOMAIN Program} = UNION {Defined(f) : f \in Reachable}
<1>1. Basics /\ DOMAIN stack = {1} /\ ErrorsKnown /\ ReadIsThere /\ ComesFromFiles
  BY AllIsRead DEF IInv, Basics
<1>2. ASSUME NEW i \in DOMAIN Program PROVE \E f \in Reachable : Program[i] \in Defined(f)
  <2>1. Program[i] # ErrorItem
    BY <1>1, AllIsRead DEF ErrorsKnown, Program, NamesIn, ErrorItem, Item
  <2>2. \E p \in wildcards : Program[i] \in Defined(FileOf[p])
    BY <1>1, <2>1 DEF ComesFromFiles, Program
  <2> QED
    BY <1>1, <2>2 DEF Basics, Opened
<1> DEFINE S == {FileOf[p] : p \in wildcards}
<1>3. \A p \in wildcards :
        /\ \A i \in Positions(FileOf[p], "item") : \E j \in DOMAIN Program :
             Program[j] = Item(project[FileOf[p]][i].name, FileOf[p], i)
        /\ \A i \in Positions(FileOf[p], "import") : project[FileOf[p]][i].path \in wildcards
  BY <1>1, AllIsRead DEF ReadIsThere, Program
<1>4. Reachable \subseteq S
  <2>1. S \in SUBSET Files /\ FileOf[Main] \in S
    BY <1>1, PathsLeadToFiles DEF Basics, Opened, TypeOK, Chain
  <2>2. ASSUME NEW g \in S, NEW s \in Imports(g) PROVE FileOf[s.path] \in S \cup {NoFile}
    BY <1>3, <2>2 DEF Imports
  <2> HIDE DEF S
  <2> QED
    BY <2>1, <2>2 DEF Reachable
<1>5. ASSUME NEW f \in Reachable, NEW x \in Defined(f) PROVE \E j \in DOMAIN Program : Program[j] = x
  <2>1. PICK p \in wildcards : f = FileOf[p]
    BY <1>4
  <2>2. PICK i \in Positions(FileOf[p], "item") : x = Item(project[FileOf[p]][i].name, FileOf[p], i)
    BY <2>1 DEF Defined
  <2> QED
    BY <1>3, <2>2
<1> QED
  BY <1>2, <1>5

(* With wildcard imports alone a program consists of exactly the items of   *)
(* all files that can be reached, also through cycles; the names in an      *)
(* import statement of the main file are there in the end, as long as no    *)
(* other statement imports from the same file.                              *)
THEOREM ImportsBring == Spec => []ImportsDeliver
<1>1. ASSUME IInv PROVE ImportsDeliver
  <2> SUFFICES ASSUME status = "parsed", NEW i \in Positions(FileOf[Main], "import"), OnlyImportOf(i)
               PROVE  Delivered(project[FileOf[Main]][i])
    BY <1>1, WildcardsDeliver DEF ImportsDeliver
  <2>1. CASE Everything(project[FileOf[Main]][i])
    BY <2>1 DEF Everything, Delivered
  <2>2. CASE ~Everything(project[FileOf[Main]][i])
    <3>1. Delivering(i)
      BY <1>1, <2>2 DEF IInv, OnlyImportDelivers
    <3> QED
      BY <1>1, <3>1, AllIsRead, DeliveringParts
  <2> QED
    BY <2>1, <2>2
<1> QED
  BY <1>1, InvariantHolds, PTL
=============================================================================
