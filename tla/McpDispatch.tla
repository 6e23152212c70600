---------------------------- MODULE McpDispatch ----------------------------
(***************************************************************************)
(* How one message is handled: mcp_server_parse_message and tools/call     *)
(* (core/mcp/mcp_server_protocol.c, core/mcp/mcp_tool.c), over the tool    *)
(* table and the property lists, with the heap blocks they own.            *)
(*                                                                         *)
(* A message is one step up to its replies or to the callback of its tool, *)
(* and the callback's return is another: what is handled is kept in locals *)
(* and lookups only read the table.  Allocations fail where data is lost   *)
(* silently, or ownership decided: the strings and arrays of properties,   *)
(* tools, arguments and results.                                           *)
(***************************************************************************)
EXTENDS ToolRegistry, PropertyList, FiniteSets

CONSTANTS Schema,     \* tool -> the properties its application declares
          Fold,       \* key -> its lower case; cJSON_GetObjectItem ignores case
          Messages,   \* JSON documents a peer may send; an id is a number in tenths, and
                      \*   arguments are <<>> where there are none
          NotObject,  \* arguments that are no JSON object
          MaxFaults   \* bound: operations in which allocations failed

\* The errors that name no argument.
FixedErrors == {"Method not implemented", "Failed to generate tools list",
                "Missing params", "Missing tool name", "Invalid arguments",
                "Unknown tool", "Tool call failed"}

\* What an application may declare: typed properties, no two of one name.
IsProperty(p) ==
    /\ p.name \in Keys /\ p.type \in Types
    /\ p.value \in ValuesOf(p.type) \cup {Missing}
    /\ p.min \in IntMin..IntMax /\ p.max \in IntMin..IntMax
    /\ p = [name |-> p.name, type |-> p.type, value |-> p.value, min |-> p.min, max |-> p.max]
Declarable(schema) == /\ schema \in Seq(Range(schema))
                      /\ \A p \in Range(schema) : IsProperty(p)
                      /\ \A i, j \in DOMAIN schema : schema[i].name = schema[j].name => i = j

\* A value in a document; of another type, it may be anything.
IsJson(json) == /\ json # Missing
                /\ json.type \in Types => json.value \in ValuesOf(json.type)

ASSUME DispatchAssumption ==
    /\ Fold \in [Keys -> Keys]
    /\ MaxFaults \in Nat
    /\ DOMAIN Schema = Tools
    /\ \A t \in Tools : Declarable(Schema[t])
    /\ \A m \in Messages :
        /\ m.jsonrpc \in BOOLEAN /\ m.params \in BOOLEAN
        /\ m.id \in Int \cup {Missing}
        /\ m.name \in Names \cup {Missing}
        /\ m.arguments # NotObject =>
              /\ m.arguments \in Seq(Range(m.arguments))
              /\ \A e \in Range(m.arguments) : e.key \in Keys /\ IsJson(e.value)
    /\ Missing \notin Messages
    /\ (Keys \cup {Missing, Null}) \cap FixedErrors = {}

VARIABLES properties,  \* tool -> tool->properties
          handled,     \* the message in hand or Idle: its replies in order, the
                       \*   callbacks that ran for it with their arguments, and
                       \*   whether one is running
          heap,        \* history: blocks allocated and not freed
          faults       \* history: operations in which allocations failed

dispatchVars == <<properties, handled, heap, faults>>

Handled(m, replies, calls, running) ==
    [message |-> m, replies |-> replies, calls |-> calls, running |-> running]
Idle == Handled(Missing, <<>>, <<>>, FALSE)

\* mcp_server_reply_result and _error, whose id is an int, id->valueint.
Ok(m) == [id |-> ValueInt(m.id), error |-> Missing]
Error(m, what) == [id |-> ValueInt(m.id), error |-> what]

\* The blocks of a tool object: itself, its callback wrapper, name, description
\* and properties.
ToolBlocks(t) == 4 + ListBlocks(properties[t])

DispatchInit == /\ RegistryInit
                /\ properties = [t \in Tools |-> EmptyList]
                /\ handled = Idle
                /\ heap = 0 /\ faults = 0

\* At most MaxFaults operations fail.
Faulty(failed) == /\ faults' = faults + (IF failed THEN 1 ELSE 0)
                  /\ faults' <= MaxFaults

-----------------------------------------------------------------------------
\* mlink_tool_create and mcp_tool_create with the list the application declared:
\* a tool whose properties are a clone, or none when the wrapper, the object, its
\* name or its description cannot be had, after which everything is freed.
mcp_tool_create(list) ==
    {[list |-> c.list, ok |-> TRUE, live |-> 4 + c.live] : c \in mcp_property_list_clone(list)}
    \cup {[list |-> EmptyList, ok |-> FALSE, live |-> 0]}

\* An application registers a tool as register_motion_tool does: it declares the
\* properties, creates the tool, frees the list, and destroys a refused tool.
register_tool(t) ==
    \E declared \in Declared(Schema[t]) : \E made \in mcp_tool_create(declared.list) :
        /\ declared.ok /\ made.ok
        /\ mcp_server_add_tool(t)
        /\ properties' = [properties EXCEPT ![t] = made.list]
        /\ heap' = heap + declared.live + made.live - ListBlocks(declared.list)
        /\ Faulty(made.list.items # Schema[t] \/ unhashed' # unhashed)
        /\ UNCHANGED handled

register_tool_refused(t) ==
    \E declared \in Declared(Schema[t]) : \E made \in mcp_tool_create(declared.list) :
        /\ declared.ok /\ made.ok
        /\ \/ mcp_server_add_tool_duplicate(t) /\ Faulty(made.list.items # Schema[t])
           \/ mcp_server_add_tool_no_memory(t) /\ Faulty(TRUE)
        /\ heap' = heap + declared.live + made.live - ListBlocks(declared.list)
                   - 4 - ListBlocks(made.list)
        /\ UNCHANGED <<properties, handled>>

register_tool_gives_up(t) ==
    \E declared \in Declared(Schema[t]) : \E made \in mcp_tool_create(declared.list) :
        /\ Fresh(t) /\ ~(declared.ok /\ made.ok)
        /\ rejected' = rejected \cup {t}
        /\ heap' = heap + declared.live - ListBlocks(declared.list)
                   + (IF declared.ok THEN made.live ELSE 0)
        /\ Faulty(TRUE)
        /\ UNCHANGED <<tools, capacity, tool_hash, unhashed, properties, handled>>

-----------------------------------------------------------------------------
\* Faulty variant: a property without a default is not listed as required.
mcp_tool_to_json_optional(list) ==
    [offered |-> {p \in Range(list.items) : p.name # Null}, required |-> {}]

\* mcp_tool_to_json: the input schema that tools/list publishes; a property that
\* lost its name is in neither part.
mcp_tool_to_json(list) ==
    LET offered == {p \in Range(list.items) : p.name # Null}
    IN  [offered |-> offered, required |-> {p.name : p \in {q \in offered : q.value = Missing}}]

-----------------------------------------------------------------------------
\* External: the value of the first key that matches, whatever its case.
cJSON_GetObjectItem(arguments, key) ==
    LET at == SelectInSeq(arguments, LAMBDA e : key # Null /\ Fold[e.key] = Fold[key])
    IN  IF at = 0 THEN Missing ELSE arguments[at].value

\* One pass of the loop of mcp_server_parse_arguments over property p, from
\* acc: the list so far, ok, the last error_property and whether it left.
Parse(acc, p, arguments) ==
    LET json == cJSON_GetObjectItem(arguments, p.name)
        kept == [acc EXCEPT !.items = Append(@, p)]
    IN  IF acc.left \/ (json = Missing /\ p.value # Missing) THEN {kept}
        ELSE IF json = Missing THEN {[kept EXCEPT !.ok = FALSE, !.error_property = p.name]}
        ELSE {IF c.ok THEN [acc EXCEPT !.items = Append(@, c.property), !.live = @ + c.live]
              ELSE [acc EXCEPT !.items = Append(@, c.property), !.live = @ + c.live,
                               !.ok = FALSE, !.error_property = p.name, !.left = TRUE] :
              c \in mcp_property_copy_from_json(p, json)}

\* The loop over a list of live blocks, and mcp_server_parse_arguments, which takes it
\* over a clone of the tool's properties.
ParseAll(list, live, arguments) ==
    Outcomes(LAMBDA acc, p : Parse(acc, p, arguments),
             [items |-> <<>>, capacity |-> list.capacity, ok |-> TRUE,
              error_property |-> Missing, left |-> FALSE, live |-> live],
             list.items)
mcp_server_parse_arguments(list, arguments) ==
    UNION {ParseAll(c.list, c.live, arguments) : c \in mcp_property_list_clone(list)}

\* Whether some allocation failed on the way to these arguments.
Lost(parsed, list) == \/ Len(parsed.items) # Len(list.items)
                      \/ \E i \in DOMAIN parsed.items :
                            \/ parsed.items[i].name # list.items[i].name
                            \/ parsed.items[i].value = Null /\ list.items[i].value # Null

\* Faulty variants: no return after the reply "Invalid argument"; the arguments
\* are not freed with it; the error names the tool's last property.
mcp_server_do_tool_call_no_return(m) ==
    \E t \in {mcp_server_find_tool_by_hash(m.name)} \ {NoTool} :
    \E parsed \in mcp_server_parse_arguments(properties[t], m.arguments) :
        /\ Faulty(Lost(parsed, properties[t]))
        /\ heap' = heap + parsed.live
        /\ handled' = Handled(m, IF parsed.ok THEN <<>> ELSE <<Error(m, parsed.error_property)>>,
                              <<[tool |-> t, list |-> parsed]>>, TRUE)

mcp_server_do_tool_call_leaks(m) ==
    \E t \in {mcp_server_find_tool_by_hash(m.name)} \ {NoTool} :
    \E parsed \in mcp_server_parse_arguments(properties[t], m.arguments) :
        /\ Faulty(Lost(parsed, properties[t]))
        /\ heap' = heap + parsed.live
        /\ handled' = IF parsed.ok THEN Handled(m, <<>>, <<[tool |-> t, list |-> parsed]>>, TRUE)
                      ELSE Handled(m, <<Error(m, parsed.error_property)>>, <<>>, FALSE)

mcp_server_do_tool_call_last_name(m) ==
    \E t \in {mcp_server_find_tool_by_hash(m.name)} \ {NoTool} :
    \E parsed \in mcp_server_parse_arguments(properties[t], m.arguments) :
        /\ ~parsed.ok /\ UNCHANGED heap
        /\ Faulty(Lost(parsed, properties[t]))
        /\ handled' = Handled(m, <<Error(m, parsed.items[Len(parsed.items)].name)>>, <<>>, FALSE)

\* mcp_server_do_tool_call: unknown tool, bad argument, or the callback is called.
mcp_server_do_tool_call(m) ==
    LET t == mcp_server_find_tool_by_hash(m.name)
    IN  \/ /\ t = NoTool
           /\ handled' = Handled(m, <<Error(m, "Unknown tool")>>, <<>>, FALSE)
           /\ UNCHANGED <<heap, faults>>
        \/ /\ t # NoTool
           /\ \E parsed \in mcp_server_parse_arguments(properties[t], m.arguments) :
                /\ Faulty(Lost(parsed, properties[t]))
                /\ \/ /\ ~parsed.ok
                      /\ heap' = heap + parsed.live - ListBlocks(parsed)
                      /\ handled' = Handled(m, <<Error(m, parsed.error_property)>>, <<>>, FALSE)
                   \/ /\ parsed.ok
                      /\ heap' = heap + parsed.live
                      /\ handled' = Handled(m, <<>>, <<[tool |-> t, list |-> parsed]>>, TRUE)

\* What a callback may return, by mcp_return_bool to mcp_return_image, and the
\* blocks it hands over; a string may be NULL and an image may have no data.
ReturnValues == [type : {"bool", "int"}, blocks : {0}] \cup [type : {"string"}, blocks : 0..1]
                \cup [type : {"json"}, blocks : 0..1] \cup [type : {"image"}, blocks : 0..3]

\* mcp_return_value_free: the blocks it frees.
mcp_return_value_free(value) ==
    IF value.type \in {"string", "json", "image"} THEN value.blocks ELSE 0

\* mcp_build_content_from_return: the content of a reply, or NULL without memory.
mcp_build_content_from_return == {"built", Null}

\* mcp_tool_call and the end of mcp_server_do_tool_call: the callback returns, and
\* the reply is its content or, without memory for that, "Tool call failed".
mcp_tool_call ==
    /\ handled # Idle /\ handled.running
    /\ LET m == handled.message
           list == handled.calls[Len(handled.calls)].list
       IN  \E value \in ReturnValues : \E content \in mcp_build_content_from_return :
            /\ heap' = heap + value.blocks - mcp_return_value_free(value) - ListBlocks(list)
            /\ Faulty(content = Null)
            /\ handled' = [handled EXCEPT
                 !.running = FALSE,
                 !.replies = Append(@, IF content = Null THEN Error(m, "Tool call failed")
                                       ELSE Ok(m))]
    /\ UNCHANGED properties /\ UNCHANGED registryVars

-----------------------------------------------------------------------------
\* mcp_server_parse_message, up to the method: a document that is not JSON-RPC
\* 2.0, or has no method or no numeric id, is dropped without a reply.
Dropped(m) == ~m.jsonrpc \/ m.method = Missing \/ m.id = Missing

Replied(m, replies) == /\ handled' = Handled(m, replies, <<>>, FALSE)
                       /\ UNCHANGED <<heap, faults>>

parse_message_dropped(m) == Dropped(m) /\ Replied(m, <<>>)

\* initialize and tools/list have a result; what tools/list answers is ToolsList.
parse_message_result(m) == /\ ~Dropped(m) /\ m.method \in {"initialize", "tools/list"}
                           /\ Replied(m, <<Ok(m)>>)

\* The list cannot be printed without memory.
parse_message_no_list(m) ==
    /\ ~Dropped(m) /\ m.method = "tools/list"
    /\ handled' = Handled(m, <<Error(m, "Failed to generate tools list")>>, <<>>, FALSE)
    /\ Faulty(TRUE)
    /\ UNCHANGED heap

parse_message_not_implemented(m) ==
    /\ ~Dropped(m) /\ m.method \notin {"initialize", "tools/list", "tools/call"}
    /\ Replied(m, <<Error(m, "Method not implemented")>>)

\* tools/call: params, its name and its arguments are looked at in that order.
parse_message_bad_call(m) ==
    /\ ~Dropped(m) /\ m.method = "tools/call"
    /\ \/ ~m.params /\ Replied(m, <<Error(m, "Missing params")>>)
       \/ m.params /\ m.name = Missing /\ Replied(m, <<Error(m, "Missing tool name")>>)
       \/ /\ m.params /\ m.name # Missing /\ m.arguments = NotObject
          /\ Replied(m, <<Error(m, "Invalid arguments")>>)

parse_message_call(m) == /\ ~Dropped(m) /\ m.method = "tools/call"
                         /\ m.params /\ m.name # Missing /\ m.arguments # NotObject
                         /\ mcp_server_do_tool_call(m)

mcp_server_parse_message(m) ==
    /\ handled = Idle
    /\ \/ parse_message_dropped(m)
       \/ parse_message_result(m)
       \/ parse_message_no_list(m)
       \/ parse_message_not_implemented(m)
       \/ parse_message_bad_call(m)
       \/ parse_message_call(m)
    /\ UNCHANGED properties /\ UNCHANGED registryVars

\* The handler returns, having deleted the document.
parse_message_end == /\ handled # Idle /\ ~handled.running
                     /\ handled' = Idle
                     /\ UNCHANGED <<properties, heap, faults>> /\ UNCHANGED registryVars

DispatchNext == \/ \E t \in Tools : \/ register_tool(t)
                                    \/ register_tool_refused(t)
                                    \/ register_tool_gives_up(t)
                \/ \E m \in Messages : mcp_server_parse_message(m)
                \/ mcp_tool_call
                \/ parse_message_end

DispatchSpec == DispatchInit /\ [][DispatchNext]_<<registryVars, dispatchVars>>
-----------------------------------------------------------------------------
\* v is what an int makes of a number in tenths: of the ints between zero and the
\* number, itself included, the one farthest from zero.
IntOf(v, tenths) ==
    LET between == {w \in IntMin..IntMax : 10 * w \in (0..tenths) \cup (tenths..0)}
    IN  v \in between /\ \A w \in between : w \in (0..v) \cup (v..0)

\* A request is answered once, a message that cannot be answered not at all, and a
\* callback that ran is what a result or "Tool call failed" answers: an argument
\* error never comes with a call.  The answer has the request's id if that is an
\* int; a fraction is dropped, and an id beyond int becomes its largest or smallest.
OneOutcome ==
    handled # Idle =>
        LET m == handled.message
            replies == handled.replies
            answerable == m.jsonrpc /\ m.method # Missing /\ m.id # Missing
        IN  /\ Len(replies) = IF answerable /\ ~handled.running THEN 1 ELSE 0
            /\ \A i \in DOMAIN replies : IntOf(replies[i].id, m.id)
            /\ handled.calls # <<>> => /\ Len(handled.calls) = 1
                                       /\ \A i \in DOMAIN replies :
                                            replies[i].error \in {Missing, "Tool call failed"}

\* What is promised of an argument, read independently of the loop: the default if
\* none is given; else one that is given, of the type of its property, as it was
\* sent or, a number, what an int makes of it, in the range of its property.
Conforms(p, arguments, value) ==
    LET given == {i \in DOMAIN arguments : Fold[arguments[i].key] = Fold[p.name]}
    IN  IF given = {} THEN p.value # Missing /\ value = p.value
        ELSE \E i \in given :
                LET json == arguments[i].value
                IN  /\ json.type = p.type
                    /\ IF p.type = "integer"
                       THEN IntOf(value, json.value) /\ p.min <= value /\ value <= p.max
                       ELSE value = json.value

\* A callback that asks its arguments for a property that its application
\* declared gets a value that conforms to it, and never nothing unless an
\* allocation has failed.
CallConforms ==
    handled # Idle => \A i \in DOMAIN handled.calls :
        LET call == handled.calls[i]
        IN  \A p \in Range(Schema[call.tool]) :
                LET value == mcp_property_list_get(call.list, p.name, p.type)
                IN  IF value \in {Missing, Null} THEN faults > 0
                    ELSE Conforms(p, handled.message.arguments, value)

\* An argument error names a declared property of the tool whose argument is
\* missing without a default, or given and not acceptable; only failed allocations
\* leave it without a name ("unknown") or refuse a string.
ErrorNamesCulprit ==
    handled # Idle => \A i \in DOMAIN handled.replies :
        LET error == handled.replies[i].error
            arguments == handled.message.arguments
        IN  /\ error = Null => faults > 0
            /\ error \in Keys =>
                 \E t \in Range(tools) : \E p \in Range(Schema[t]) :
                    LET json == cJSON_GetObjectItem(arguments, p.name)
                    IN  /\ NameOf[t] = handled.message.name /\ p.name = error
                        /\ IF json = Missing THEN p.value = Missing
                           ELSE \E c \in mcp_property_copy_from_json(p, json) : ~c.ok
                        /\ json # Missing /\ json.type = "string" /\ p.type = "string" => faults > 0

\* Whether arguments satisfy a published input schema, as a client would check
\* that: no key twice (here in any case, as the device does not tell them apart),
\* each property spelled as published, what is required there, and each of its type
\* and in its range.
Satisfies(arguments, schema) ==
    /\ \A i, j \in DOMAIN arguments : Fold[arguments[i].key] = Fold[arguments[j].key] => i = j
    /\ \A i \in DOMAIN arguments : \A p \in schema.offered :
            Fold[arguments[i].key] = Fold[p.name] => arguments[i].key = p.name
    /\ schema.required \subseteq {arguments[i].key : i \in DOMAIN arguments}
    /\ \A i \in DOMAIN arguments : \A p \in {q \in schema.offered : q.name = arguments[i].key} :
        LET json == arguments[i].value
        IN  /\ json.type = p.type
            /\ p.type = "integer" => json.value % 10 = 0 /\ json.value \div 10 \in p.min..p.max

\* A call that satisfies the schema that tools/list publishes for its tool is not
\* refused for its arguments, unless an allocation has failed.
AcceptsWhatItPublishes ==
    handled # Idle => \A i \in DOMAIN handled.replies :
        handled.replies[i].error \in Keys \cup {Null} /\ faults = 0 =>
            LET t == mcp_server_find_tool_by_hash(handled.message.name)
            IN  ~Satisfies(handled.message.arguments, mcp_tool_to_json(properties[t]))

\* Every block that is live belongs to a registered tool or to the arguments of
\* the callback that is running: whatever failed, nothing leaks and nothing is
\* freed twice.
NothingLeaks ==
    heap = Total([i \in DOMAIN tools |-> ToolBlocks(tools[i])])
           + (IF handled # Idle /\ handled.running
              THEN ListBlocks(handled.calls[Len(handled.calls)].list) ELSE 0)
=============================================================================
