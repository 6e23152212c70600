---------------------------- MODULE MCMcpDispatch ----------------------------
\* Model-checking instance of McpDispatch: three tools in one hash bucket, two
\* with one name; integers of four bits; arguments that are missing, of another
\* type, out of range, fractional, given twice or in another case; ids that an int
\* holds, ids with a fraction and ids beyond int.
EXTENDS McpDispatch

CONSTANTS move, say, move2

MCNameOf == (move :> "move") @@ (say :> "mute") @@ (move2 :> "move")
MCHashOf == [n \in Names |-> "m"]
MCFold == [k \in Keys |-> IF k = "SPEED" THEN "speed" ELSE k]

Property(name, type, default) ==
    [name |-> name, type |-> type, value |-> default, min |-> IntMin, max |-> IntMax]
Speed(default) == [Property("speed", "integer", default) EXCEPT !.min = 0, !.max = 5]
MCSchema == (move :> <<Speed(Missing), Property("silent", "boolean", FALSE)>>)
            @@ (say :> <<Property("text", "string", "hi"), Property("turns", "integer", Missing)>>)
            @@ (move2 :> <<Speed(6)>>)

JsonValues == [type : {"integer"}, value : {-9, 40, 59, 990}]
              \cup [type : {"boolean"}, value : {TRUE}] \cup [type : {"string"}, value : {"ho"}]
\* Of each tool, what may be told apart: its keys, and numbers only where they go.
Entries(keys) == {e \in [key : keys, value : JsonValues] :
                    e.key \in {"text", "silent"} => e.value.type # "integer" \/ e.value.value = 40}
Arguments(keys) == {<<>>} \cup {<<e>> : e \in Entries(keys)}
                   \cup {<<e, f>> : e, f \in Entries(keys)}

Call(name, arguments) == [jsonrpc |-> TRUE, method |-> "tools/call", id |-> 10,
                          params |-> TRUE, name |-> name, arguments |-> arguments]
MCMessages ==
    {Call("move", a) : a \in Arguments({"speed", "SPEED", "silent"})}
    \cup {Call("mute", a) : a \in Arguments({"text", "turns"})}
    \cup {Call("fly", <<>>), Call(Missing, <<>>), Call("move", NotObject),
          [Call("move", <<>>) EXCEPT !.params = FALSE]}
    \cup {[Call("move", <<>>) EXCEPT !.jsonrpc = FALSE],
          [Call("move", <<>>) EXCEPT !.method = Missing],
          [Call("move", <<>>) EXCEPT !.id = Missing]}
    \cup {[Call("move", <<>>) EXCEPT !.method = m] : m \in {"initialize", "tools/list", "ping"}}
    \cup {[Call("fly", <<>>) EXCEPT !.id = i] : i \in {-990, -15, 15, 990}}
=============================================================================
