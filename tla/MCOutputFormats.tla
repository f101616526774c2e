--------------------------- MODULE MCOutputFormats ---------------------------
(* The functions of MCRSISources and MCAssemblySources for OutputFormats.   *)
EXTENDS OutputFormats

RSIFunctions == INSTANCE MCRSISources
AssemblyFunctions == INSTANCE MCAssemblySources

MCRSISources == RSIFunctions!AllSources
MCSources == AssemblyFunctions!AllSources

MCAddress == [v \in {"m", "n", "a", "b", "p", "x", "y", "z", "i", "j"} |->
                CASE v = "m" -> 0 [] v = "n" -> 80 [] v = "a" -> 160 [] v = "b" -> 240 [] v = "p" -> 320
                  [] v = "x" -> 400 [] v = "y" -> 480 [] v = "z" -> 560 [] v = "i" -> 640 [] v = "j" -> 720]

MCReferences == {"ref"} \X {"n", "a", "b", "i", "j", "tmp", "result"} \X (0 .. 60)
MCLabels ==
  {"label"} \X {"else", "end", "start", "increment", "logical_or_end", "logical_or_right", "logical_and_end",
                "logical_and_right", "false_expression"} \X (0 .. 60)
  \cup {<<"label", f>> : f \in {"f"} \cup DOMAIN RSIFunctions!Parameters}
MCNone == <<"none">>
==============================================================================
