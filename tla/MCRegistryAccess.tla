-------------------------- MODULE MCRegistryAccess --------------------------
\* Model-checking instance of RegistryAccess: one thread that handles messages;
\* the array is outgrown by the fifth tool, three names share a bucket, and one
\* name comes twice.
EXTENDS RegistryAccess

CONSTANTS t1, t2, t3, t4, t5, t6

MCNameOf == (t1 :> "move") @@ (t2 :> "mute") @@ (t3 :> "stop")
            @@ (t4 :> "move") @@ (t5 :> "map") @@ (t6 :> "dance")
MCHashOf == ("move" :> "m") @@ ("mute" :> "m") @@ ("map" :> "m")
            @@ ("stop" :> "s") @@ ("dance" :> "d")
MCOrders == {<<t1, t2, t3, t4, t6, t5>>}
=============================================================================
