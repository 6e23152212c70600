---------------------------- MODULE MCToolsList ----------------------------
\* Model-checking instance of ToolsList: large tools, one or two to a page, one of
\* them for users only; a tool with many properties, which only the check of
\* the real sizes keeps off a page; and a name of 70 characters.
EXTENDS ToolsList

CONSTANTS move, turn, scan, halt, long

MCNameOf == Restrict((move :> "move") @@ (turn :> "turn") @@ (scan :> "scan")
                      @@ (halt :> "halt") @@ (long :> "long70"), Tools)
MCHashOf == [n \in Names |-> n]
MCNameLen == [n \in Names |-> IF n = "long70" THEN 70 ELSE 4]
MCDescLen == Restrict((move :> 3000) @@ (turn :> 4300) @@ (scan :> 1000)
                      @@ (halt :> 3000) @@ (long :> 100), Tools)
MCJsonLen == Restrict((move :> 3100) @@ (turn :> 4500) @@ (scan :> 6000)
                      @@ (halt :> 3200) @@ (long :> 270), Tools)
MCCut == [n \in Names |-> IF n = "long70" THEN "long63" ELSE n]
=============================================================================
