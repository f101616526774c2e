------------------------- MODULE MCImportResolution --------------------------
(* Projects of three files that import each other, one of them under two    *)
(* spellings of its path, and one path that leads nowhere.                  *)
EXTENDS ImportResolution

AllFiles == {"main", "m", "k"}
AllPaths == {"main", "m", "./m", "k", "gone"}
FileAt == [p \in AllPaths |-> CASE p = "./m" -> "m" [] p = "gone" -> NoFile [] OTHER -> p]
AllNames == {"x", "y", "z"}

Define(n) == [kind |-> "item", name |-> n]
Import(names, path) == [kind |-> "import", names |-> names, path |-> path]
Bad == [kind |-> "bad"]

(* Import statements in the main file, and in the two others.               *)
MainImports ==
  {Import(<<>>, "m"), Import(<<"x">>, "m"), Import(<<"y", "x">>, "m"), Import(<<"z">>, "m"),
   Import(<<>>, "k"), Import(<<"y">>, "k"), Import(<<"z">>, "k"), Import(<<"z">>, "main")}
MImports ==
  {Import(<<>>, "k"), Import(<<"z">>, "k"), Import(<<"y">>, "k"), Import(<<>>, "m"),
   Import(<<>>, "main"), Bad}
KImports ==
  {Import(<<>>, "m"), Import(<<"x">>, "m"), Import(<<"y">>, "m"), Import(<<"z">>, "main"), Bad}

Project(main, m, k) ==
  [f \in AllFiles |->
     CASE f = "main" -> main \o <<Define("z")>>
       [] f = "m" -> m \o <<Define("x"), Define("y")>>
       [] f = "k" -> k \o <<Define("z"), Define("y")>>]

Regular ==
  {Project(<<i, j>>, m, k) : i, j \in MainImports,
                             m \in {<<>>} \cup {<<s>> : s \in MImports},
                             k \in {<<>>} \cup {<<s>> : s \in KImports}}
Missing == {Project(<<i, Import(<<"x">>, "gone")>>, <<>>, <<>>) : i \in MainImports}
Spelled ==
  {Project(<<Import(n, "m"), Import(l, "./m")>>, <<>>, <<Import(l, "./m")>>) :
     n, l \in {<<>>, <<"x">>, <<"y", "x">>}}

(* Names that are listed twice, defined twice, or asked of the file itself. *)
Repeated ==
  {Project(<<Import(<<"x", "x", "y">>, "m"), i>>, m, <<>>) :
     i \in {Define("x"), Import(<<"x">>, "main"), Import(<<>>, "k")},
     m \in {<<>>, <<Define("y"), Define("x")>>, <<Import(<<"y">>, "k")>>}}

ErrorRow == {Project(<<i>>, <<Bad, Bad>>, <<>>) : i \in MainImports}

AllProjects == Regular \cup Missing \cup Spelled \cup Repeated \cup ErrorRow
=============================================================================
