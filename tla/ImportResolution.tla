-------------------------- MODULE ImportResolution ---------------------------
(****************************************************************************)
(* Imports: Parser::parse, parseProgram and parseImportStatement            *)
(* (compiler/src/frontend/Parser.cpp) and the ParsingCache they share.      *)
(*                                                                          *)
(* An import statement parses the file it names with a new Parser and takes *)
(* over all of its program items, or those it names.  All parsers share one *)
(* ParsingCache, which decides what was imported before and so also ends    *)
(* cycles.  The stack holds one frame for every parser that is running.     *)
(****************************************************************************)
EXTENDS Naturals, Sequences, FiniteSets

CONSTANTS
  Files,      \* the source files that exist
  Paths,      \* the absolute paths that imports resolve to, as strings
  FileOf,     \* the file a path leads to, NoFile if there is none
  NoFile,
  Names,
  NoName,     \* the name of an AstErrorProgramItem
  Main,       \* the path given on the command line
  Projects    \* for every file, its program items and imports in order

(* A statement is a definition, an import, or something unparsable.  An     *)
(* import lists names or everything (no names).                             *)
Statement ==
  [kind : {"item"}, name : Names]
  \cup [kind : {"import"}, path : Paths, names : Seq(Names)]
  \cup [kind : {"bad"}]

ASSUME PathsLeadToFiles == FileOf \in [Paths -> Files \cup {NoFile}] /\ NoFile \notin Files
ASSUME MainExists == Main \in Paths /\ FileOf[Main] # NoFile
ASSUME NoNameIsNoName == NoName \notin Names
ASSUME ProjectsWellFormed == Projects \subseteq [Files -> Seq(Statement)]
(* Of three spellings of one file the cache would consult an arbitrary one. *)
ASSUME AtMostTwoSpellings ==
  \A p, q, r \in Paths :
    FileOf[p] = FileOf[q] /\ FileOf[q] = FileOf[r] /\ FileOf[p] # NoFile => p = q \/ q = r \/ p = r

VARIABLES
  project,
  stack,       \* the running parsers, the innermost last
  wildcards,   \* ParsingCache::wildcardIncludedFiles
  named,       \* ParsingCache::filenamesToAlreadyImportedIdentifiers
  status

vars == <<project, stack, wildcards, named, status>>

(* A program item, and where it was defined.                                *)
Item(name, file, at) == [name |-> name, file |-> file, at |-> at]
ErrorItem == Item(NoName, NoFile, 0)

(* wanted is what the filter left of identifiersToImport while a file is    *)
(* imported, next the identifier that the loop over them has come to.       *)
NewParser(path) ==
  [path |-> path, at |-> 1, items |-> <<>>, wanted |-> {}, next |-> 1,
   hasError |-> FALSE, isRecovering |-> FALSE]

Init ==
  /\ project \in Projects
  /\ stack = <<NewParser(Main)>>
  /\ wildcards = {Main}
  /\ named = [p \in {} |-> {}]
  /\ status = "parsing"

-----------------------------------------------------------------------------
Parser   == stack[Len(stack)]
Caller   == stack[Len(stack) - 1]
Code(parser) == project[FileOf[parser.path]]
AtEnd    == Parser.at > Len(Code(Parser))
Current  == Code(Parser)[Parser.at]

Parsing(kind) == status = "parsing" /\ ~AtEnd /\ Current.kind = kind

Continue(parser) == stack' = [stack EXCEPT ![Len(stack)] = [parser EXCEPT !.at = @ + 1]]

ParseItem ==
  /\ Parsing("item")
  /\ Continue([Parser EXCEPT !.items = Append(@, Item(Current.name, FileOf[Parser.path], Parser.at)),
                             !.isRecovering = FALSE])
  /\ UNCHANGED <<project, wildcards, named, status>>

(* A slip, for mutation: error recovery consumes no token.                  *)
ParseBadItemWithoutConsuming ==
  /\ Parsing("bad")
  /\ stack' = [stack EXCEPT ![Len(stack)] =
                 [Parser EXCEPT !.items = IF Parser.isRecovering THEN @ ELSE Append(@, ErrorItem),
                                !.hasError = TRUE,
                                !.isRecovering = TRUE]]
  /\ UNCHANGED <<project, wildcards, named, status>>

(* Only the first error of a row of errors becomes an item.                 *)
ParseBadItem ==
  /\ Parsing("bad")
  /\ Continue([Parser EXCEPT !.items = IF Parser.isRecovering THEN @ ELSE Append(@, ErrorItem),
                             !.hasError = TRUE,
                             !.isRecovering = TRUE])
  /\ UNCHANGED <<project, wildcards, named, status>>

-----------------------------------------------------------------------------
(* A slip, for mutation: imports of everything are not remembered.          *)
ContainsNoWildcard(path) == FALSE

ContainsWildcard(path) == path \in wildcards

(* A path that has no entry of its own shares that of an equivalent path.   *)
ContainsNonWildcard(path, name) ==
  IF path \in DOMAIN named THEN name \in named[path]
  ELSE \E p \in DOMAIN named : FileOf[p] = FileOf[path] /\ name \in named[p]

Contains(path, name) == ContainsWildcard(path) \/ ContainsNonWildcard(path, name)

Add(path, name) ==
  named' = [p \in DOMAIN named \cup {path} |->
              (IF p \in DOMAIN named THEN named[p] ELSE {}) \cup (IF p = path THEN {name} ELSE {})]

Everything(statement) == statement.names = <<>>

(* identifiersToImport without what was imported before.                    *)
Remaining(statement) ==
  {name \in {statement.names[i] : i \in DOMAIN statement.names} : ~Contains(statement.path, name)}

AlreadyImported(statement) ==
  \/ ContainsWildcard(statement.path)
  \/ ~Everything(statement) /\ Remaining(statement) = {}

SkipImport ==
  /\ Parsing("import") /\ AlreadyImported(Current)
  /\ Continue(Parser)
  /\ UNCHANGED <<project, wildcards, named, status>>

(* The Tokenizer's constructor ends the compiler.                           *)
ImportMissingFile ==
  /\ Parsing("import") /\ ~AlreadyImported(Current)
  /\ FileOf[Current.path] = NoFile
  /\ status' = "fatal"
  /\ UNCHANGED <<project, stack, wildcards, named>>

(* Whether or not everything is imported, parser.parse() marks the file as  *)
(* if it were.                                                              *)
EnterImport ==
  /\ Parsing("import") /\ ~AlreadyImported(Current)
  /\ FileOf[Current.path] # NoFile
  /\ stack' = Append([stack EXCEPT ![Len(stack)] =
                        [Parser EXCEPT !.wanted = Remaining(Current), !.next = 1]],
                     NewParser(Current.path))
  /\ wildcards' = wildcards \cup {Current.path}
  /\ UNCHANGED <<project, named, status>>

-----------------------------------------------------------------------------
NamesIn(items) == {items[i].name : i \in DOMAIN items}

(* A slip, for mutation: whatever comes first is taken for the item that    *)
(* was named.                                                               *)
IsFirst(items, name, i) == i = 1

(* std::find_if: the first item that has the name.                          *)
IsFound(items, name, i) == items[i].name = name /\ \A j \in 1 .. i - 1 : items[j].name # name

Importing == Code(Caller)[Caller.at]

(* Slips, for mutation: the items of the caller are lost, the errors of the *)
(* imported file are.                                                       *)
TakingOverReplacing(items, hasError) ==
  [Caller EXCEPT !.items = items, !.hasError = @ \/ hasError]
TakingOverIgnoringErrors(items, hasError) == [Caller EXCEPT !.items = @ \o items]

TakingOver(items, hasError) == [Caller EXCEPT !.items = @ \o items, !.hasError = @ \/ hasError]

ReturnTo(caller) ==
  stack' = [i \in 1 .. Len(stack) - 1 |->
              IF i = Len(stack) - 1 THEN [caller EXCEPT !.at = @ + 1] ELSE stack[i]]

Returning == status = "parsing" /\ AtEnd /\ Len(stack) > 1
ReturningAll == Returning /\ (Parser.hasError \/ Everything(Importing))
ReturningNames == Returning /\ ~Parser.hasError /\ ~Everything(Importing)

(* An imported file with errors is taken over whole, and so is a wildcard.  *)
ReturnEverything ==
  /\ ReturningAll
  /\ ReturnTo(TakingOver(Parser.items, Parser.hasError))
  /\ UNCHANGED <<project, wildcards, named, status>>

(* Of the others one identifier after the other; the imported file may have *)
(* imported some of them meanwhile, through a cycle.                        *)
Identifier == Importing.names[Caller.next]
Looping == ReturningNames /\ Caller.next <= Len(Importing.names)
Unwanted == Identifier \notin Caller.wanted \/ ContainsNonWildcard(Parser.path, Identifier)

NextIdentifier(caller) == stack' = [stack EXCEPT ![Len(stack) - 1] = [caller EXCEPT !.next = @ + 1]]

SkipName ==
  /\ Looping /\ Unwanted
  /\ NextIdentifier(Caller)
  /\ UNCHANGED <<project, wildcards, named, status>>

TakeName ==
  /\ Looping /\ ~Unwanted
  /\ \E i \in DOMAIN Parser.items :
       /\ IsFound(Parser.items, Identifier, i)
       /\ NextIdentifier(TakingOver(<<Parser.items[i]>>, FALSE))
  /\ Add(Parser.path, Identifier)
  /\ UNCHANGED <<project, wildcards, status>>

MissName ==
  /\ Looping /\ ~Unwanted
  /\ Identifier \notin NamesIn(Parser.items)
  /\ NextIdentifier(TakingOver(<<ErrorItem>>, TRUE))
  /\ UNCHANGED <<project, wildcards, named, status>>

ReturnNamed ==
  /\ ReturningNames
  /\ Caller.next > Len(Importing.names)
  /\ ReturnTo(Caller)
  /\ UNCHANGED <<project, wildcards, named, status>>

Finish ==
  /\ status = "parsing" /\ AtEnd /\ Len(stack) = 1
  /\ status' = IF Parser.hasError THEN "syntax_error" ELSE "parsed"
  /\ UNCHANGED <<project, stack, wildcards, named>>

Next ==
  \/ ParseItem \/ ParseBadItem
  \/ SkipImport \/ ImportMissingFile \/ EnterImport
  \/ ReturnEverything \/ SkipName \/ TakeName \/ MissName \/ ReturnNamed
  \/ Finish

Spec == Init /\ [][Next]_vars /\ WF_vars(Next)

-----------------------------------------------------------------------------
Done == status # "parsing"

Program == stack[1].items

Positions(file, kind) == {i \in DOMAIN project[file] : project[file][i].kind = kind}

Imports(file) == {project[file][i] : i \in Positions(file, "import")}

Defined(file) == {Item(project[file][i].name, file, i) : i \in Positions(file, "item")}

(* Every import statement of the project names a file the same way.         *)
UsedPaths == {Main} \cup UNION {{s.path : s \in Imports(f)} : f \in Files}
SpelledAlike == \A p, q \in UsedPaths : FileOf[p] = FileOf[q] => p = q

(* Safety: no program item gets into a program twice, although every file   *)
(* is imported by several others, in cycles, as a whole and by name.        *)
NoItemTwice ==
  \A k \in DOMAIN stack : \A i, j \in DOMAIN stack[k].items :
    i # j /\ stack[k].items[i] # ErrorItem => stack[k].items[i] # stack[k].items[j]

ItemsOnce == SpelledAlike => NoItemTwice

(* Safety: an error in any file that was opened, or a name that cannot be   *)
(* found, makes the whole compilation fail.                                 *)
ErrorsAreReported ==
  status = "parsed" =>
    /\ NoName \notin NamesIn(Program)
    /\ \A p \in wildcards : Positions(FileOf[p], "bad") = {}

(* Safety: named imports import nothing that was not named.                 *)
NothingUnasked ==
  status = "parsed" /\ (\A s \in Imports(FileOf[Main]) : ~Everything(s))
  => \A i \in DOMAIN Program :
       \/ Program[i] \in Defined(FileOf[Main])
       \/ \E s \in Imports(FileOf[Main]) : \E j \in DOMAIN s.names : s.names[j] = Program[i].name

Reachable ==
  {f \in Files : \A S \in SUBSET Files :
     FileOf[Main] \in S /\ (\A g \in S : \A s \in Imports(g) : FileOf[s.path] \in S \cup {NoFile})
     => f \in S}

Delivered(s) == \A j \in DOMAIN s.names : s.names[j] \in NamesIn(Program)

(* The i-th statement of the main file is the only one that imports from    *)
(* the file it names, which is another one, and the main file is only       *)
(* parsed once.                                                             *)
OnlyImportOf(i) ==
  LET file == FileOf[project[FileOf[Main]][i].path] IN
  /\ file # FileOf[Main]
  /\ \A f \in Files : \A j \in Positions(f, "import") :
       FileOf[project[f][j].path] = file => f = FileOf[Main] /\ j = i
  /\ \A p \in UsedPaths : FileOf[p] = FileOf[Main] => p = Main

OnlyWildcards == \A f \in Files : \A s \in Imports(f) : Everything(s)

(* Safety: with wildcard imports alone a program consists of exactly the    *)
(* items of all files that can be reached, also through cycles; the names   *)
(* in an import statement of the main file are there in the end, as long as *)
(* no other statement imports from the same file.                           *)
ImportsDeliver ==
  status = "parsed" =>
    /\ OnlyWildcards => {Program[i] : i \in DOMAIN Program} = UNION {Defined(f) : f \in Reachable}
    /\ \A i \in Positions(FileOf[Main], "import") :
         OnlyImportOf(i) => Delivered(project[FileOf[Main]][i])

(* What the comment in parseImportStatement says of an import that is       *)
(* skipped because of containsWildcard: "this file was already fully        *)
(* imported".  Then no name that the statement lists can be missing.        *)
SkippedWasImported ==
  status = "parsed" => \A s \in Imports(FileOf[Main]) : Delivered(s)

(* Liveness: parsing ends, whatever cycles the imports form.                *)
Termination == <>Done
=============================================================================
