--------------------------- MODULE RegistryAccess ---------------------------
(***************************************************************************)
(* The memory of the tool table while main registers tools and the thread  *)
(* that handles messages looks them up or lists them: mlink_server_init    *)
(* connects before any tool is added, and core/mcp/mcp_server.c has no     *)
(* lock.  The array of tools and each hash bucket are tables of one kind,  *)
(* a pointer to an allocation and a count.                                 *)
(*                                                                         *)
(* An insertion allocates and then makes up to four things visible to      *)
(* another thread: what realloc copied, the pointer, the slot and the      *)
(* count.  The accesses race, so any order of them is possible.            *)
(***************************************************************************)
EXTENDS Naturals, Sequences, SequencesExt

CONSTANTS Tools, Names, NameOf, Buckets, HashOf, NoTool,  \* as in ToolRegistry
          Array,    \* the table tools[]; the others are the buckets
          Wild,     \* what is read from memory that is freed, or was never set
          Readers,  \* threads that handle messages
          Orders    \* the sequences in which an application registers its tools

ASSUME AccessAssumption == /\ NameOf \in [Tools -> Names]
                           /\ HashOf \in [Names -> Buckets]
                           /\ Array \notin Buckets
                           /\ NoTool \notin Tools \cup Names
                           /\ Wild \notin Tools /\ Wild # NoTool
                           /\ Orders \subseteq Seq(Tools) /\ \A o \in Orders : IsInjective(o)

VARIABLES table,     \* per table: ptr and count as other threads see them; live,
                     \*   the number of the allocation in use (0 for NULL), and its
                     \*   slots; older allocations are freed
          capacity,  \* capacity, of the array
          op,        \* main's insertion: the tool, its table, the slot it goes to,
                     \*   what is not yet visible of it, whether it has allocated,
                     \*   and the capacity before this registration
          plan,      \* tools main has still to register, in that order
          unhashed,  \* history, as in ToolRegistry
          rejected,  \* history, as in ToolRegistry
          reader     \* reader -> its loop: where it is (pc), table and name (NoTool
                     \*   when it lists), index i, the pointer it loaded, the tools
                     \*   it took; history: what was there when it began (must) and
                     \*   whether its table was inserted into meanwhile (disturbed)

memory == <<table, capacity, op, plan, unhashed, rejected>>
accessVars == <<memory, reader>>

TableNames == Buckets \cup {Array}
NoOp == [tool |-> NoTool, table |-> Array, at |-> 0, pending |-> {}, allocated |-> FALSE,
         capacity |-> 0]
Idle == [pc |-> "idle", table |-> Array, name |-> NoTool, i |-> 1, ptr |-> 0, taken |-> <<>>,
         must |-> {}, disturbed |-> FALSE]

AccessInit == /\ table = [k \in TableNames |-> [ptr |-> 0, live |-> 0, count |-> 0, slots |-> <<>>]]
              /\ capacity = 0
              /\ op = NoOp
              /\ plan \in Orders
              /\ unhashed = {} /\ rejected = {}
              /\ reader = [r \in Readers |-> Idle]

-----------------------------------------------------------------------------
\* What a table holds, without the tool that main is still inserting.
Complete(k) == IF op = NoOp \/ k \notin {op.table, Array} THEN table[k].count
               ELSE IF k = op.table THEN op.at - 1 ELSE table[k].count - 1
Held(k) == SubSeq(table[k].slots, 1, Complete(k))

Registry == INSTANCE ToolRegistry WITH
    tools <- Held(Array),
    capacity <- IF op = NoOp THEN capacity ELSE op.capacity,
    tool_hash <- [h \in Buckets |-> Held(h)]

\* While main inserts into a table, whoever reads it is disturbed.
Disturb(k) == reader' = [r \in Readers |->
                            IF reader[r].pc # "idle" /\ reader[r].table = k
                            THEN [reader[r] EXCEPT !.disturbed = TRUE] ELSE reader[r]]

\* mcp_server_add_tool is called: main alone writes the tables, so its own search
\* for a duplicate sees them as they are.
mcp_server_add_tool(t) ==
    /\ op = NoOp /\ plan # <<>> /\ t = Head(plan)
    /\ Registry!mcp_server_find_tool_by_hash(NameOf[t]) = NoTool
    /\ op' = [NoOp EXCEPT !.tool = t, !.at = table[Array].count + 1, !.capacity = capacity]
    /\ plan' = Tail(plan)
    /\ Disturb(Array)
    /\ UNCHANGED <<table, capacity, unhashed, rejected>>

mcp_server_add_tool_duplicate(t) ==
    /\ op = NoOp /\ plan # <<>> /\ t = Head(plan)
    /\ Registry!mcp_server_find_tool_by_hash(NameOf[t]) # NoTool
    /\ plan' = Tail(plan)
    /\ rejected' = rejected \cup {t}
    /\ UNCHANGED <<table, capacity, op, unhashed, reader>>

\* Faulty variant: room for the tools there are.
Size_off_by_one == IF op.table # Array THEN op.at
                   ELSE IF capacity = 0 THEN 4
                   ELSE IF op.at <= capacity + 1 THEN capacity ELSE capacity * 2

\* How large the table must be: the array doubles from 4 (one doubling is enough
\* for one more tool), a bucket is as large as what is in it.
Size == IF op.table # Array THEN op.at
        ELSE IF op.at <= capacity THEN capacity
        ELSE IF capacity = 0 THEN 4 ELSE capacity * 2

\* What an allocation of that size starts with: the old slots, the rest never set.
Slots(old) == [i \in 1..Size |-> IF i <= Len(old) THEN old[i] ELSE Wild]

\* Faulty variant: malloc for every tool of a bucket, with what was in it lost.
grow_moves_empty ==
    /\ op # NoOp /\ ~op.allocated /\ Size > Len(table[op.table].slots)
    /\ table' = [table EXCEPT ![op.table].live = @ + 1, ![op.table].slots = [i \in 1..Size |-> Wild]]
    /\ capacity' = IF op.table = Array THEN Size ELSE capacity
    /\ op' = [op EXCEPT !.allocated = TRUE, !.pending = {"copy", "ptr", "slot", "count"}]
    /\ UNCHANGED <<plan, unhashed, rejected, reader>>

\* mcp_server_reserve_tools, or the malloc or realloc of mcp_server_add_tool_to_hash:
\* the table moves, and its old allocation is freed.
grow_moves ==
    /\ op # NoOp /\ ~op.allocated /\ Size > Len(table[op.table].slots)
    /\ table' = [table EXCEPT ![op.table].live = @ + 1, ![op.table].slots = Slots(@)]
    /\ capacity' = IF op.table = Array THEN Size ELSE capacity
    /\ op' = [op EXCEPT !.allocated = TRUE, !.pending = {"copy", "ptr", "slot", "count"}]
    /\ UNCHANGED <<plan, unhashed, rejected, reader>>

\* realloc grows it where it is, or it is large enough.
grow_in_place ==
    /\ op # NoOp /\ ~op.allocated
    /\ table[op.table].live > 0 \/ Size = Len(table[op.table].slots)
    /\ table' = [table EXCEPT ![op.table].slots = Slots(@)]
    /\ capacity' = IF op.table = Array THEN Size ELSE capacity
    /\ op' = [op EXCEPT !.allocated = TRUE, !.pending = {"slot", "count"}]
    /\ UNCHANGED <<plan, unhashed, rejected, reader>>

\* Faulty variant: the tool is refused, hence destroyed, but stays in the array.
grow_fails_hash_refused ==
    /\ op # NoOp /\ ~op.allocated /\ Size > Len(table[op.table].slots)
    /\ rejected' = rejected \cup {op.tool}
    /\ op' = NoOp
    /\ UNCHANGED <<table, capacity, plan, unhashed, reader>>

\* No memory: without a slot in the array the tool is refused; without one in its
\* bucket it stays in the array.
grow_fails ==
    /\ op # NoOp /\ ~op.allocated /\ Size > Len(table[op.table].slots)
    /\ IF op.table = Array THEN rejected' = rejected \cup {op.tool} /\ UNCHANGED unhashed
       ELSE unhashed' = unhashed \cup {op.tool} /\ UNCHANGED rejected
    /\ op' = NoOp
    /\ UNCHANGED <<table, capacity, plan, reader>>

\* One of the stores becomes visible.
store(x) ==
    /\ x \in op.pending
    /\ LET k == op.table
       IN  table' = CASE x = "copy"  -> table
                      [] x = "ptr"   -> [table EXCEPT ![k].ptr = table[k].live]
                      [] x = "slot"  -> [table EXCEPT ![k].slots =
                                            [i \in 1..Len(@) \cup {op.at} |->
                                                IF i = op.at THEN op.tool ELSE @[i]]]
                      [] x = "count" -> [table EXCEPT ![k].count = op.at]
    /\ op' = [op EXCEPT !.pending = @ \ {x}]
    /\ UNCHANGED <<capacity, plan, unhashed, rejected, reader>>

\* From the array to the hash table, and from there back to the caller.
hash_next ==
    /\ op # NoOp /\ op.allocated /\ op.pending = {} /\ op.table = Array
    /\ LET h == HashOf[NameOf[op.tool]]
       IN  /\ op' = [op EXCEPT !.table = h, !.at = table[h].count + 1, !.allocated = FALSE]
           /\ Disturb(h)
    /\ UNCHANGED <<table, capacity, plan, unhashed, rejected>>

add_tool_returns ==
    /\ op # NoOp /\ op.allocated /\ op.pending = {} /\ op.table # Array
    /\ op' = NoOp
    /\ UNCHANGED <<table, capacity, plan, unhashed, rejected, reader>>

Main == \/ \E t \in Tools : mcp_server_add_tool(t) \/ mcp_server_add_tool_duplicate(t)
        \/ grow_moves \/ grow_in_place \/ grow_fails
        \/ \E x \in {"copy", "ptr", "slot", "count"} : store(x)
        \/ hash_next \/ add_tool_returns

-----------------------------------------------------------------------------
\* A read of slot i of table k through pointer p.
Load(k, p, i) ==
    IF p = 0 \/ p # table[k].live \/ i > Len(table[k].slots) THEN Wild
    ELSE IF op.table = k /\ "copy" \in op.pending THEN Wild
    ELSE table[k].slots[i]

\* mcp_server_find_tool_by_hash is called with a name, or the loop of
\* mcp_server_build_tools_list is entered.
Begins(r, k, name, must) ==
    /\ reader[r].pc \in {"idle", "done"}
    /\ reader' = [reader EXCEPT ![r] =
                    [Idle EXCEPT !.pc = "count", !.table = k, !.name = name, !.must = must,
                                 !.disturbed = (op # NoOp /\ op.table = k)]]
    /\ UNCHANGED memory

find_begin(r, name) ==
    Begins(r, HashOf[name], name, {t \in Tools : NameOf[t] = name} \cap Range(Held(HashOf[name])))
list_begin(r) == Begins(r, Array, NoTool, Range(Held(Array)))

\* Faulty variant: the loop stops before the last tool.
load_count_stops_early(r) ==
    /\ reader[r].pc = "count"
    /\ reader' = [reader EXCEPT ![r].pc =
                    IF reader[r].i < table[reader[r].table].count THEN "ptr" ELSE "done"]
    /\ UNCHANGED memory

\* The loop condition: the count is loaded for every pass.
load_count(r) ==
    /\ reader[r].pc = "count"
    /\ reader' = [reader EXCEPT ![r].pc =
                    IF reader[r].i <= table[reader[r].table].count THEN "ptr" ELSE "done"]
    /\ UNCHANGED memory

load_ptr(r) ==
    /\ reader[r].pc = "ptr"
    /\ reader' = [reader EXCEPT ![r].pc = "slot", ![r].ptr = table[reader[r].table].ptr]
    /\ UNCHANGED memory

\* The slot, and the name of the tool in it: a lookup returns the first that
\* matches, the list takes all.  What comes of a wild pointer is anybody's
\* guess; here everything ends.
load_slot(r) ==
    /\ reader[r].pc = "slot"
    /\ LET loop == reader[r]
           t == Load(loop.table, loop.ptr, loop.i)
       IN  reader' = [reader EXCEPT ![r] =
             IF t = Wild THEN [loop EXCEPT !.pc = "wild"]
             ELSE IF loop.name = NoTool
                  THEN [loop EXCEPT !.pc = "count", !.i = @ + 1, !.taken = Append(@, t)]
             ELSE IF NameOf[t] = loop.name THEN [loop EXCEPT !.pc = "done", !.taken = <<t>>]
             ELSE [loop EXCEPT !.pc = "count", !.i = @ + 1]]
    /\ UNCHANGED memory

Reader(r) == load_count(r) \/ load_ptr(r) \/ load_slot(r)

AccessNext == /\ \A r \in Readers : reader[r].pc # "wild"
              /\ \/ Main
                 \/ \E r \in Readers : \/ Reader(r)
                                       \/ list_begin(r)
                                       \/ \E name \in Names : find_begin(r, name)

AccessSpec == AccessInit /\ [][AccessNext]_accessVars
-----------------------------------------------------------------------------
\* A thread that handles a message reads freed memory, NULL or a slot that was
\* never set only if main inserted into that very table meanwhile: a lookup is
\* safe from registrations of tools with another first character, and a table
\* that nobody writes is sound, whatever failed before.
WildOnlyIfDisturbed ==
    \A r \in Readers : reader[r].pc = "wild" => reader[r].disturbed

\* However registrations interleave with its loads, a lookup that does not go
\* wild finds a tool that was in the hash table when it began, and a listing
\* takes all that were in the array then, in order and once.
RegisteredIsSeen ==
    \A r \in Readers : reader[r].pc = "done" =>
        LET loop == reader[r]
        IN  /\ loop.must \subseteq Range(loop.taken)
            /\ IsInjective(loop.taken)
            /\ loop.name = NoTool => IsPrefix(loop.taken, table[Array].slots)
            /\ loop.name # NoTool => \A t \in Range(loop.taken) : NameOf[t] = loop.name

\* No slot is written beyond its allocation, and the count never runs ahead of
\* the slots that are set, except by the insertion that is going on.
NeverOverrun ==
    \A k \in TableNames :
        LET inserting == op # NoOp /\ op.table = k
        IN  /\ Len(table[k].slots) = IF k = Array THEN capacity
                                     ELSE IF inserting /\ op.allocated THEN op.at ELSE table[k].count
            /\ inserting => op.at <= table[k].count + 1
            /\ \A i \in 1..table[k].count : i <= Len(table[k].slots) /\
                  (table[k].slots[i] = Wild => inserting /\ i = op.at)

\* Store by store, registration implements the table of ToolRegistry: a tool is
\* registered, refused, or registered without its hash entry, as one step.
ImplementsRegistry == Registry!RegistrySpec
=============================================================================
