---------------------------- MODULE ToolRegistry ----------------------------
(***************************************************************************)
(* The tool table of struct mcp_server (core/mcp/mcp_server.c): the array  *)
(* tools with its count and capacity, in registration order, and the hash  *)
(* table over it.  Registration checks for duplicates and tools/call finds *)
(* its tool through the hash table only; tools/list reads the array.       *)
(***************************************************************************)
EXTENDS Naturals, Sequences, SequencesExt

CONSTANTS Tools,     \* tool objects made by mcp_tool_create
          Names,     \* what they are called
          NameOf,    \* tool -> name; two tools may have the same one
          Buckets,   \* first characters
          HashOf,    \* name -> bucket
          NoTool     \* NULL

ASSUME RegistryAssumption == /\ NameOf \in [Tools -> Names]
                             /\ HashOf \in [Names -> Buckets]
                             /\ NoTool \notin Tools

VARIABLES tools,      \* tools[0 .. count-1]
          capacity,   \* capacity
          tool_hash,  \* per bucket, tool_hash[h][0 .. tool_hash_count[h]-1]
          unhashed,   \* history: tools whose hash insertion failed
          rejected    \* history: tools whose registration was refused, and
                      \*   that their owner therefore destroyed

registryVars == <<tools, capacity, tool_hash, unhashed, rejected>>

RegistryInit == /\ tools = <<>>
                /\ capacity = 0
                /\ tool_hash = [h \in Buckets |-> <<>>]
                /\ unhashed = {}
                /\ rejected = {}

-----------------------------------------------------------------------------
\* mcp_server_find_tool_by_hash: the first tool of that name in its bucket.
mcp_server_find_tool_by_hash(name) ==
    LET bucket == tool_hash[HashOf[name]]
        named == {i \in DOMAIN bucket : NameOf[bucket[i]] = name}
    IN  IF named = {} THEN NoTool
        ELSE bucket[CHOOSE i \in named : \A j \in named : i <= j]

\* mcp_server_reserve_tools: the new capacity for one more tool.  The capacity is
\* doubled, starting at 4, and then doubled again until it is enough.
Reserved(required) ==
    LET grown == IF capacity = 0 THEN 4 ELSE capacity * 2
        Enough(k) == grown * 2^k >= required
    IN  IF required <= capacity THEN capacity
        ELSE grown * 2^(CHOOSE k \in 0..required : Enough(k) /\ \A j \in 0..k - 1 : ~Enough(j))

\* mcp_server_add_tool_to_hash, when its malloc or realloc succeeds.
Hashed(t) == [tool_hash EXCEPT ![HashOf[NameOf[t]]] = Append(@, t)]

\* A tool object that its owner has not yet tried to register.
Fresh(t) == t \notin Range(tools) \cup rejected

\* mcp_server_add_tool: a tool of that name is found.
mcp_server_add_tool_duplicate(t) ==
    /\ Fresh(t)
    /\ mcp_server_find_tool_by_hash(NameOf[t]) # NoTool
    /\ rejected' = rejected \cup {t}
    /\ UNCHANGED <<tools, capacity, tool_hash, unhashed>>

\* mcp_server_add_tool: realloc of the array fails.
mcp_server_add_tool_no_memory(t) ==
    /\ Fresh(t)
    /\ mcp_server_find_tool_by_hash(NameOf[t]) = NoTool
    /\ Len(tools) + 1 > capacity
    /\ rejected' = rejected \cup {t}
    /\ UNCHANGED <<tools, capacity, tool_hash, unhashed>>

\* mcp_server_add_tool: stored in the array; when the insertion into the hash
\* table fails the tool stays registered all the same.
mcp_server_add_tool(t) ==
    /\ Fresh(t)
    /\ mcp_server_find_tool_by_hash(NameOf[t]) = NoTool
    /\ capacity' = Reserved(Len(tools) + 1)
    /\ tools' = Append(tools, t)
    /\ \/ tool_hash' = Hashed(t) /\ UNCHANGED unhashed
       \/ unhashed' = unhashed \cup {t} /\ UNCHANGED tool_hash
    /\ UNCHANGED rejected

RegistryNext == \E t \in Tools : \/ mcp_server_add_tool(t)
                                 \/ mcp_server_add_tool_duplicate(t)
                                 \/ mcp_server_add_tool_no_memory(t)

RegistrySpec == RegistryInit /\ [][RegistryNext]_registryVars
-----------------------------------------------------------------------------
\* "A failed insertion into the hash table does not affect the main list, only
\* the speed of a search": every listed tool can be found.
ListedIsCallable ==
    \A t \in Range(tools) : mcp_server_find_tool_by_hash(NameOf[t]) # NoTool
=============================================================================
