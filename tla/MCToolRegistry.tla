--------------------------- MODULE MCToolRegistry ---------------------------
\* Model-checking instance of ToolRegistry: six tools, enough to outgrow the
\* first allocation of four, two of them with one name, and three names in one
\* bucket.
EXTENDS ToolRegistry

CONSTANTS t1, t2, t3, t4, t5, t6

MCNameOf == (t1 :> "move") @@ (t2 :> "mute") @@ (t3 :> "stop")
            @@ (t4 :> "move") @@ (t5 :> "map") @@ (t6 :> "dance")
MCHashOf == ("move" :> "m") @@ ("mute" :> "m") @@ ("map" :> "m")
            @@ ("stop" :> "s") @@ ("dance" :> "d")
=============================================================================
