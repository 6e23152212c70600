------------------------ MODULE RegistryAccessProofs ------------------------
(***************************************************************************)
(* Proofs about RegistryAccess, for any tools, names, hash function, order *)
(* of registrations and number of threads that handle messages: no table   *)
(* is overrun, only a reader of the table that is being written can read   *)
(* what is not there, what is registered is seen, and registration         *)
(* implements the table of ToolRegistry.                                   *)
(***************************************************************************)
EXTENDS RegistryAccess, SequenceTheorems, TLAPS

Cells == Tools \cup {Wild}
Stores == {"copy", "ptr", "slot", "count"}
Tables == [ptr : Nat, live : Nat, count : Nat, slots : Seq(Cells)]
Insertions == [tool : Tools \cup {NoTool}, table : TableNames, at : Nat,
               pending : SUBSET Stores, allocated : BOOLEAN, capacity : Nat]
Loops == [pc : {"idle", "count", "ptr", "slot", "done", "wild"}, table : TableNames,
          name : Names \cup {NoTool}, i : Nat \ {0}, ptr : Nat, taken : Seq(Tools),
          must : SUBSET Tools, disturbed : BOOLEAN]

AccessTypeOK == /\ table \in [TableNames -> Tables]
                /\ capacity \in Nat
                /\ op \in Insertions
                /\ plan \in Seq(Tools)
                /\ unhashed \subseteq Tools /\ rejected \subseteq Tools
                /\ reader \in [Readers -> Loops]

Inserting(k) == op # NoOp /\ op.table = k
Stored == op.allocated /\ "slot" \notin op.pending

\* The slots of a table that are set: those it counts, and the one that main stores.
Filled(k) == IF Inserting(k) THEN IF Stored THEN op.at ELSE op.at - 1 ELSE table[k].count
Kept(k) == {table[k].slots[i] : i \in 1..Filled(k)}

\* How far the insertion is.
InsertionStage ==
    /\ op # NoOp => op.tool \in Tools /\ op.at > 0
    /\ ~op.allocated => op.pending = {}
    /\ op # NoOp => op.at = table[op.table].count
                            + (IF op.allocated /\ "count" \notin op.pending THEN 0 ELSE 1)
    /\ op # NoOp /\ op.table # Array => op.table = HashOf[NameOf[op.tool]]
    /\ op # NoOp /\ Stored => table[op.table].slots[op.at] = op.tool

\* The allocation of a table, whoever looks at it.
TableSound(k) ==
    LET t == table[k]
    IN  /\ Len(t.slots) = IF k = Array THEN capacity
                          ELSE IF Inserting(k) /\ op.allocated THEN op.at ELSE t.count
        /\ ~(Inserting(k) /\ "ptr" \in op.pending) => t.ptr = t.live
        /\ Len(t.slots) > 0 => t.live > 0
        /\ t.count <= Len(t.slots) /\ Filled(k) <= Len(t.slots)
        /\ Inserting(k) /\ op.allocated => op.at <= Len(t.slots)
        /\ \A i \in 1..Len(t.slots) : t.slots[i] = Wild <=> i > Filled(k)

TablesSound == \A k \in TableNames : TableSound(k)

\* A reader whose table nobody writes has a pointer and an index that are good.
ReaderSafe(r) ==
    LET loop == reader[r]
    IN  loop.pc # "idle" /\ ~loop.disturbed =>
            /\ loop.pc # "wild" /\ ~Inserting(loop.table)
            /\ loop.pc \in {"ptr", "slot"} => loop.i <= table[loop.table].count
            /\ loop.pc = "slot" => loop.ptr = table[loop.table].live

\* What keeps the memory of the tables safe.
MemoryInv == /\ AccessTypeOK
             /\ InsertionStage
             /\ TablesSound
             /\ \A r \in Readers : ReaderSafe(r)

\* No tool is in the array twice, nor two of a name in a bucket.
EntriesDistinct ==
    /\ \A i, j \in 1..Filled(Array) : table[Array].slots[i] = table[Array].slots[j] => i = j
    /\ \A h \in Buckets : \A i, j \in 1..Filled(h) :
          NameOf[table[h].slots[i]] = NameOf[table[h].slots[j]] => i = j

\* What main has still to register is neither in the array nor refused.
PlanFresh == IsInjective(plan) /\ Range(plan) \cap (Kept(Array) \cup rejected) = {}

\* Nor is the tool that main inserts, until it is stored; its bucket has none of its name;
\* and it is the last of the array once main has gone on to the bucket.
ToolFresh ==
    op # NoOp =>
        /\ op.tool \notin Range(plan) \cup rejected
        /\ op.table = Array /\ ~Stored => op.tool \notin Kept(Array)
        /\ op.table = Array \/ ~Stored =>
              \A t \in Kept(HashOf[NameOf[op.tool]]) : NameOf[t] # NameOf[op.tool]
        /\ op.table # Array => table[Array].count > 0 /\ table[Array].slots[table[Array].count] = op.tool

\* What a reader has taken so far, and that what it must find is still ahead of it.
Sees(loop) ==
    LET slots == table[loop.table].slots
    IN  /\ loop.pc # "idle" =>
             IF loop.name = NoTool
             THEN /\ loop.table = Array
                  /\ Len(loop.taken) <= Filled(Array)
                  /\ \A j \in 1..Len(loop.taken) : loop.taken[j] = slots[j]
             ELSE \A t \in Range(loop.taken) : NameOf[t] = loop.name
        /\ loop.pc \in {"count", "ptr", "slot"} =>
             /\ loop.i - 1 <= Filled(loop.table)
             /\ loop.must \subseteq Range(Held(loop.table))
             /\ IF loop.name = NoTool THEN Len(loop.taken) = loop.i - 1
                ELSE /\ loop.table \in Buckets
                     /\ loop.taken = <<>>
                     /\ \A t \in loop.must : NameOf[t] = loop.name
                     /\ \A j \in 1..loop.i - 1 : NameOf[slots[j]] # loop.name
        /\ loop.pc = "done" => /\ loop.must \subseteq Range(loop.taken)
                               /\ loop.name # NoTool => Len(loop.taken) <= 1

ReaderSees(r) == Sees(reader[r])

SightInv == MemoryInv /\ EntriesDistinct /\ PlanFresh /\ ToolFresh /\ \A r \in Readers : ReaderSees(r)

-----------------------------------------------------------------------------
\* What InsertionStage says of an insertion, and when there is one.
LEMMA OpKnown ==
    ASSUME AccessTypeOK, InsertionStage
    PROVE  /\ op = NoOp <=> op.tool = NoTool
           /\ op # NoOp => op.tool \in Tools /\ op.at \in Nat \ {0}
           /\ op.table \in TableNames /\ op.pending \subseteq Stores
<1>1. NoTool \notin Tools
  BY AccessAssumption
<1>2. op \in Insertions
  BY DEF AccessTypeOK
<1>3. NoOp.tool = NoTool
  BY DEF NoOp
<1>4. op # NoOp => op.tool \in Tools
  BY DEF InsertionStage
<1>5. op # NoOp => op.at \in Nat \ {0}
  BY <1>2 DEF InsertionStage, Insertions
<1> QED
  BY <1>1, <1>2, <1>3, <1>4, <1>5 DEF Insertions

\* The size asked for is enough for the new entry, and never smaller than the table.
LEMMA SizeEnough ==
    ASSUME AccessTypeOK, InsertionStage, TablesSound, op # NoOp, ~op.allocated
    PROVE  /\ Size \in Nat
           /\ op.at <= Size
           /\ Len(table[op.table].slots) <= Size
           /\ op.table = Array => Len(table[op.table].slots) = capacity
           /\ op.table # Array => Size = op.at
           /\ op.at = table[op.table].count + 1
           /\ Filled(op.table) = op.at - 1
<1>1. op \in Insertions /\ capacity \in Nat /\ op.table \in TableNames
  BY DEF AccessTypeOK, Insertions
<1>2. table[op.table] \in Tables
  BY <1>1 DEF AccessTypeOK
<1>3. op.at \in Nat /\ table[op.table].count \in Nat /\ table[op.table].slots \in Seq(Cells)
  BY <1>1, <1>2 DEF Insertions, Tables
<1>4. op.at = table[op.table].count + 1
  BY DEF InsertionStage
<1>5. /\ Len(table[op.table].slots) = IF op.table = Array THEN capacity ELSE table[op.table].count
      /\ table[op.table].count <= Len(table[op.table].slots)
  BY <1>1 DEF TablesSound, TableSound, Inserting
<1>6. Filled(op.table) = op.at - 1
  BY DEF Filled, Inserting, Stored
<1>7. CASE op.table # Array
  BY <1>7, <1>3, <1>4, <1>5, <1>6 DEF Size
<1>8. CASE op.table = Array
  BY <1>1, <1>8, <1>3, <1>4, <1>5, <1>6 DEF Size
<1> QED
  BY <1>7, <1>8

\* An allocation of that size: the old slots, and after them nothing that was set.
LEMMA SlotsAllocated ==
    ASSUME NEW old \in Seq(Cells), Size \in Nat, Len(old) <= Size
    PROVE  /\ Slots(old) \in Seq(Cells)
           /\ Len(Slots(old)) = Size
           /\ \A i \in 1..Size : Slots(old)[i] = IF i <= Len(old) THEN old[i] ELSE Wild
<1>1. \A i \in 1..Size : (IF i <= Len(old) THEN old[i] ELSE Wild) \in Cells
  BY DEF Cells
<1>2. Slots(old) \in [1..Size -> Cells]
  BY <1>1 DEF Slots
<1>3. Slots(old) \in Seq(Cells)
  BY <1>2
<1>4. Len(Slots(old)) = Size
  BY <1>2, <1>3
<1>5. \A i \in 1..Size : Slots(old)[i] = IF i <= Len(old) THEN old[i] ELSE Wild
  BY DEF Slots
<1> QED
  BY <1>3, <1>4, <1>5

\* A step of main leaves a reader of another table as it was; one of a table that is
\* newly inserted into is marked as disturbed.
LEMMA ReadersKept ==
    ASSUME MemoryInv,
           \A k \in TableNames : Inserting(k) \/ table'[k] = table[k],
           \/ reader' = reader /\ \A k \in TableNames : Inserting(k)' => Inserting(k)
           \/ \E k \in TableNames : /\ Disturb(k)
                                    /\ \A m \in TableNames : Inserting(m)' => m = k
    PROVE  reader' \in [Readers -> Loops] /\ \A r \in Readers : ReaderSafe(r)'
<1>1. reader \in [Readers -> Loops]
  BY DEF MemoryInv, AccessTypeOK
<1>2. ASSUME NEW r \in Readers
      PROVE  \/ /\ reader'[r] = reader[r]
                /\ reader[r].pc # "idle" /\ Inserting(reader[r].table)' => Inserting(reader[r].table)
             \/ reader'[r] = [reader[r] EXCEPT !.disturbed = TRUE]
  <2>1. reader[r] \in Loops
    BY <1>1
  <2>2. reader[r].table \in TableNames
    BY <2>1 DEF Loops
  <2> QED
    BY <2>1, <2>2 DEF Disturb
<1>3. DOMAIN reader' = Readers
  BY <1>1 DEF Disturb
<1>4. reader' = [r \in Readers |-> reader'[r]]
  BY <1>1 DEF Disturb
<1>5. ASSUME NEW r \in Readers
      PROVE  reader'[r] \in Loops /\ ReaderSafe(r)'
  <2>1. reader[r] \in Loops
    BY <1>1
  <2>2. ReaderSafe(r)
    BY DEF MemoryInv
  <2>3. reader[r].table \in TableNames
    BY <2>1 DEF Loops
  <2>4. CASE reader'[r] = [reader[r] EXCEPT !.disturbed = TRUE]
    BY <2>1, <2>4 DEF Loops, ReaderSafe
  <2>5. CASE /\ reader'[r] = reader[r]
             /\ reader[r].pc # "idle" /\ Inserting(reader[r].table)' => Inserting(reader[r].table)
    BY <2>1, <2>2, <2>3, <2>5 DEF ReaderSafe
  <2> QED
    BY <1>2, <2>4, <2>5
<1> QED
  BY <1>4, <1>5

\* A table that is not inserted into, before or after, is as sound as it was.
LEMMA OtherTable ==
    ASSUME NEW k \in TableNames, TableSound(k), table'[k] = table[k],
           ~Inserting(k), ~Inserting(k)', k = Array => capacity' = capacity
    PROVE  TableSound(k)'
BY DEF TableSound, Filled

\* mcp_server_add_tool begins an insertion into the array.
LEMMA AddToolKeepsMemory ==
    ASSUME MemoryInv, NEW t \in Tools, mcp_server_add_tool(t)
    PROVE  MemoryInv'
<1>1. /\ op = NoOp /\ plan # <<>>
      /\ op' = [NoOp EXCEPT !.tool = t, !.at = table[Array].count + 1, !.capacity = capacity]
      /\ plan' = Tail(plan) /\ Disturb(Array)
      /\ table' = table /\ capacity' = capacity /\ unhashed' = unhashed /\ rejected' = rejected
  BY DEF mcp_server_add_tool
<1>2. AccessTypeOK /\ InsertionStage /\ TablesSound
  BY DEF MemoryInv
<1>3. Array \in TableNames /\ table \in [TableNames -> Tables]
  BY <1>2 DEF TableNames, AccessTypeOK
<1>4. /\ op'.tool = t /\ op'.table = Array /\ op'.at = table[Array].count + 1
      /\ op'.pending = {} /\ op'.allocated = FALSE /\ op'.capacity = capacity
  BY <1>1 DEF NoOp
<1>5. op' # NoOp
  BY <1>4, AccessAssumption DEF NoOp
<1>6. op' \in Insertions
  <2>1. table[Array].count \in Nat /\ capacity \in Nat
    BY <1>2, <1>3 DEF Tables, AccessTypeOK
  <2>2. op' = [tool |-> t, table |-> Array, at |-> table[Array].count + 1, pending |-> {},
               allocated |-> FALSE, capacity |-> capacity]
    BY <1>1 DEF NoOp
  <2> QED
    BY <1>3, <2>1, <2>2 DEF Insertions
<1>7. InsertionStage'
  BY <1>1, <1>3, <1>4, <1>6 DEF InsertionStage, Stored, Insertions, Tables
<1>8. \A k \in TableNames : TableSound(k)'
  <2> SUFFICES ASSUME NEW k \in TableNames
               PROVE  TableSound(k)'
    OBVIOUS
  <2>1. ~Inserting(k) /\ TableSound(k)
    BY <1>1, <1>2 DEF Inserting, TablesSound
  <2>2. CASE k # Array
    BY <2>1, <2>2, <1>1, <1>4, OtherTable DEF Inserting
  <2>3. CASE k = Array
    <3>1. Inserting(k)' /\ ~op'.allocated /\ op'.pending = {}
      BY <2>3, <1>4, <1>5 DEF Inserting
    <3>2. Filled(k)' = Filled(k)
      BY <2>1, <2>3, <3>1, <1>3, <1>4 DEF Filled, Stored, Tables
    <3> QED
      BY <2>1, <2>3, <3>1, <3>2, <1>1 DEF TableSound
  <2> QED
    BY <2>2, <2>3
<1>9. reader' \in [Readers -> Loops] /\ \A r \in Readers : ReaderSafe(r)'
  BY <1>1, <1>3, <1>4, ReadersKept DEF Inserting
<1>10. plan' \in Seq(Tools)
  BY <1>1, <1>2 DEF AccessTypeOK
<1> QED
  BY <1>1, <1>2, <1>6, <1>7, <1>8, <1>9, <1>10 DEF MemoryInv, AccessTypeOK, TablesSound

\* A duplicate and an allocation that fails leave the tables alone and end the call.
LEMMA RefusalKeepsMemory ==
    ASSUME MemoryInv, grow_fails \/ \E t \in Tools : mcp_server_add_tool_duplicate(t)
    PROVE  MemoryInv'
<1>1. AccessTypeOK /\ InsertionStage /\ TablesSound
  BY DEF MemoryInv
<1>2. op \in Insertions /\ table \in [TableNames -> Tables] /\ plan \in Seq(Tools)
  BY <1>1 DEF AccessTypeOK
<1>3. table' = table /\ capacity' = capacity /\ reader' = reader /\ op' = NoOp
  BY DEF grow_fails, mcp_server_add_tool_duplicate
<1>4. ~op.allocated
  BY DEF grow_fails, mcp_server_add_tool_duplicate, NoOp
<1>5. NoOp \in Insertions
  BY DEF NoOp, Insertions, TableNames
<1>6. InsertionStage'
  BY <1>3 DEF InsertionStage, NoOp
<1>7. ASSUME NEW k \in TableNames
      PROVE  TableSound(k)'
  <2>1. TableSound(k) /\ ~Inserting(k)'
    BY <1>1, <1>3 DEF TablesSound, Inserting
  <2>2. Filled(k)' = Filled(k)
    <3>1. Inserting(k) => op.at = table[k].count + 1
      BY <1>1, <1>4 DEF InsertionStage, Inserting
    <3>2. table[k].count \in Nat
      BY <1>2 DEF Tables
    <3>3. Filled(k) = table[k].count
      BY <3>1, <3>2, <1>4 DEF Filled, Stored
    <3> QED
      BY <3>3, <2>1, <1>3 DEF Filled
  <2>3. "ptr" \notin op.pending
    BY <1>1, <1>4 DEF InsertionStage
  <2> QED
    BY <2>1, <2>2, <2>3, <1>3, <1>4 DEF TableSound
<1>8. reader' \in [Readers -> Loops] /\ \A r \in Readers : ReaderSafe(r)'
  BY <1>3, ReadersKept DEF Inserting
<1>9. plan' \in Seq(Tools) /\ unhashed' \subseteq Tools /\ rejected' \subseteq Tools
  <2>1. CASE grow_fails
    <3>1. op.tool \in Tools /\ unhashed \subseteq Tools /\ rejected \subseteq Tools
      BY <2>1, <1>1 DEF grow_fails, InsertionStage, AccessTypeOK
    <3>2. \/ rejected' = rejected \cup {op.tool} /\ unhashed' = unhashed
          \/ unhashed' = unhashed \cup {op.tool} /\ rejected' = rejected
      BY <2>1 DEF grow_fails
    <3> QED
      BY <2>1, <3>1, <3>2, <1>2 DEF grow_fails
  <2>2. CASE \E t \in Tools : mcp_server_add_tool_duplicate(t)
    <3>1. plan # <<>> /\ plan' = Tail(plan) /\ unhashed' = unhashed
      BY <2>2 DEF mcp_server_add_tool_duplicate
    <3>2. \E t \in Tools : rejected' = rejected \cup {t}
      BY <2>2 DEF mcp_server_add_tool_duplicate
    <3> QED
      BY <3>1, <3>2, <1>1, <1>2 DEF AccessTypeOK
  <2> QED
    BY <2>1, <2>2
<1> QED
  BY <1>1, <1>2, <1>3, <1>5, <1>6, <1>7, <1>8, <1>9 DEF MemoryInv, AccessTypeOK, TablesSound

\* The table of the insertion is allocated anew, where it is or elsewhere.
LEMMA GrowKeepsMemory ==
    ASSUME MemoryInv, grow_moves \/ grow_in_place, NEW m \in TableNames, m = op.table
    PROVE  MemoryInv'
<1> DEFINE old == table[m].slots
<1>1. AccessTypeOK /\ InsertionStage /\ TablesSound
  BY DEF MemoryInv
<1>2. op \in Insertions /\ table \in [TableNames -> Tables] /\ capacity \in Nat
  BY <1>1 DEF AccessTypeOK
<1>3. /\ op # NoOp /\ ~op.allocated
      /\ capacity' = IF m = Array THEN Size ELSE capacity
      /\ plan' = plan /\ unhashed' = unhashed /\ rejected' = rejected /\ reader' = reader
  BY DEF grow_moves, grow_in_place
<1>4. m \in TableNames /\ table[m] \in Tables /\ old \in Seq(Cells)
  BY <1>2 DEF Insertions, Tables
<1>5. /\ Size \in Nat /\ op.at <= Size /\ Len(old) <= Size
      /\ m # Array => Size = op.at
      /\ op.at = table[m].count + 1
      /\ Filled(m) = op.at - 1
  BY <1>1, <1>3, SizeEnough
<1>6. /\ Slots(old) \in Seq(Cells)
      /\ Len(Slots(old)) = Size
      /\ \A i \in 1..Size : Slots(old)[i] = IF i <= Len(old) THEN old[i] ELSE Wild
  BY <1>4, <1>5, SlotsAllocated
<1>7. TableSound(m) /\ op.pending = {}
  BY <1>1, <1>3, <1>4 DEF TablesSound, InsertionStage
<1>8. table[m].ptr = table[m].live /\ table[m].live \in Nat /\ table[m].count \in Nat
  BY <1>4, <1>7 DEF TableSound, Tables
<1>9. \E new \in Tables : \E pending \in SUBSET Stores :
          /\ table' = [table EXCEPT ![m] = new]
          /\ new.slots = Slots(old) /\ new.count = table[m].count /\ new.ptr = table[m].ptr
          /\ op' = [op EXCEPT !.allocated = TRUE, !.pending = pending]
          /\ "slot" \in pending /\ "count" \in pending
          /\ Size > 0 => new.live > 0
          /\ "ptr" \notin pending => new.live = table[m].live
  <2>1. CASE grow_moves
    <3> DEFINE new == [ptr |-> table[m].ptr, live |-> table[m].live + 1, count |-> table[m].count,
                       slots |-> Slots(old)]
               pending == {"copy", "ptr", "slot", "count"}
    <3>1. table' = [table EXCEPT ![m] = new]
      <4>1. table[m] = [ptr |-> table[m].ptr, live |-> table[m].live, count |-> table[m].count,
                        slots |-> old]
        BY <1>4 DEF Tables
      <4>2. table' = [table EXCEPT ![m].live = table[m].live + 1, ![m].slots = Slots(old)]
        BY <2>1, <1>2, <1>4 DEF grow_moves
      <4>3. table'[m] = new
        BY <4>1, <4>2, <1>2, <1>4
      <4>4. \A k \in TableNames : k # m => table'[k] = table[k]
        BY <4>2, <1>2
      <4>5. DOMAIN table' = TableNames /\ table' = [k \in TableNames |-> table'[k]]
        BY <4>2, <1>2
      <4> HIDE DEF new, old
      <4> QED
        BY <4>3, <4>4, <4>5, <1>2, <1>4
    <3>2. op' = [op EXCEPT !.allocated = TRUE, !.pending = pending]
      BY <2>1 DEF grow_moves
    <3>3. /\ new \in Tables /\ new.slots = Slots(old)
          /\ new.count = table[m].count /\ new.ptr = table[m].ptr /\ new.live > 0
      <4>1. table[m].ptr \in Nat /\ table[m].live + 1 \in Nat /\ table[m].live + 1 > 0
        BY <1>8
      <4> HIDE DEF old
      <4> QED
        BY <4>1, <1>6, <1>8 DEF Tables
    <3>4. pending \in SUBSET Stores /\ "slot" \in pending /\ "count" \in pending /\ "ptr" \in pending
      BY DEF Stores
    <3> HIDE DEF new, pending
    <3> QED
      BY <3>1, <3>2, <3>3, <3>4
  <2>2. CASE grow_in_place
    <3> DEFINE new == [table[m] EXCEPT !.slots = Slots(old)]
               pending == {"slot", "count"}
    <3>1. table' = [table EXCEPT ![m] = new]
      BY <2>2, <1>2, <1>4 DEF grow_in_place
    <3>2. op' = [op EXCEPT !.allocated = TRUE, !.pending = pending]
      BY <2>2 DEF grow_in_place
    <3>3. /\ new \in Tables /\ new.slots = Slots(old) /\ new.live = table[m].live
          /\ new.count = table[m].count /\ new.ptr = table[m].ptr
      BY <1>4, <1>6, <1>8 DEF Tables
    <3>4. pending \in SUBSET Stores /\ "slot" \in pending /\ "count" \in pending
      BY DEF Stores
    <3>5. Size > 0 => table[m].live > 0
      <4>1. table[m].live > 0 \/ Size = Len(old)
        BY <2>2 DEF grow_in_place
      <4> QED
        BY <4>1, <1>7 DEF TableSound
    <3> HIDE DEF new, pending
    <3> QED
      BY <3>1, <3>2, <3>3, <3>4, <3>5
  <2> QED
    BY <2>1, <2>2
<1>10. PICK new \in Tables, pending \in SUBSET Stores :
          /\ table' = [table EXCEPT ![m] = new]
          /\ new.slots = Slots(old) /\ new.count = table[m].count /\ new.ptr = table[m].ptr
          /\ op' = [op EXCEPT !.allocated = TRUE, !.pending = pending]
          /\ "slot" \in pending /\ "count" \in pending
          /\ Size > 0 => new.live > 0
          /\ "ptr" \notin pending => new.live = table[m].live
  BY <1>9
<1>11. /\ op' \in Insertions /\ op'.tool = op.tool /\ op'.table = m /\ op'.at = op.at
       /\ op'.allocated = TRUE /\ op'.pending = pending
  BY <1>2, <1>10 DEF Insertions
<1>12. op' # NoOp
  BY <1>11 DEF NoOp
<1>13. /\ table' \in [TableNames -> Tables]
       /\ table'[m] = new
       /\ \A k \in TableNames : k # m => table'[k] = table[k]
  BY <1>2, <1>10
<1>14. InsertionStage'
  <2>1. op.tool \in Tools /\ op.at > 0
    BY <1>1, <1>3 DEF InsertionStage
  <2>2. m # Array => m = HashOf[NameOf[op.tool]]
    BY <1>1, <1>3 DEF InsertionStage
  <2>3. ~Stored'
    BY <1>10, <1>11 DEF Stored
  <2> QED
    BY <2>1, <2>2, <2>3, <1>5, <1>10, <1>11, <1>13 DEF InsertionStage
<1>15. TableSound(m)'
  <2>1. Inserting(m)' /\ ~Stored'
    BY <1>10, <1>11, <1>12 DEF Inserting, Stored
  <2>2. Filled(m)' = op.at - 1
    BY <2>1, <1>11 DEF Filled
  <2>3. op.at \in Nat
    BY <1>2 DEF Insertions
  <2>4. ASSUME NEW i \in 1..Size
        PROVE  Slots(old)[i] = Wild <=> i > op.at - 1
    <3>1. i <= Len(old) => (old[i] = Wild <=> i > op.at - 1)
      BY <1>5, <1>7 DEF TableSound
    <3>2. i > Len(old) => i > op.at - 1
      BY <1>5, <1>7, <1>4, <2>3 DEF TableSound
    <3> QED
      BY <3>1, <3>2, <1>6
  <2>5. Len(table'[m].slots) = IF m = Array THEN capacity' ELSE op.at
    BY <1>3, <1>5, <1>6, <1>10, <1>13
  <2>6. table[m].count <= Size
    BY <1>5, <1>8, <2>3
  <2>7. "ptr" \notin pending => new.ptr = new.live
    BY <1>8, <1>10, <1>13
  <2> HIDE DEF old
  <2> QED
    BY <2>1, <2>2, <2>3, <2>4, <2>5, <2>6, <2>7, <1>5, <1>6, <1>10, <1>11, <1>13 DEF TableSound
<1>16. ASSUME NEW k \in TableNames, k # m
       PROVE  TableSound(k)'
  <2>1. TableSound(k) /\ ~Inserting(k) /\ ~Inserting(k)'
    BY <1>1, <1>11, <1>16 DEF TablesSound, Inserting
  <2>2. k = Array => capacity' = capacity
    BY <1>3, <1>16
  <2> QED
    BY <2>1, <2>2, <1>13, <1>16, OtherTable
<1>17. reader' \in [Readers -> Loops] /\ \A r \in Readers : ReaderSafe(r)'
  <2>1. \A k \in TableNames : Inserting(k) \/ table'[k] = table[k]
    BY <1>3, <1>13 DEF Inserting
  <2>2. \A k \in TableNames : Inserting(k)' => Inserting(k)
    BY <1>3, <1>11 DEF Inserting
  <2> QED
    BY <2>1, <2>2, <1>3, ReadersKept
<1>18. AccessTypeOK'
  BY <1>1, <1>3, <1>5, <1>11, <1>13, <1>17 DEF AccessTypeOK
<1> QED
  BY <1>14, <1>15, <1>16, <1>17, <1>18 DEF MemoryInv, TablesSound

\* One of the stores of an insertion becomes visible.
LEMMA StoreKeepsMemory ==
    ASSUME MemoryInv, NEW x \in Stores, store(x), NEW m \in TableNames, m = op.table
    PROVE  MemoryInv'
<1> DEFINE old == table[m].slots
<1>1. AccessTypeOK /\ InsertionStage /\ TablesSound
  BY DEF MemoryInv
<1>2. op \in Insertions /\ table \in [TableNames -> Tables] /\ capacity \in Nat
  BY <1>1 DEF AccessTypeOK
<1>3. /\ x \in op.pending
      /\ op' = [op EXCEPT !.pending = @ \ {x}]
      /\ capacity' = capacity /\ plan' = plan
      /\ unhashed' = unhashed /\ rejected' = rejected /\ reader' = reader
  BY DEF store
<1>4. op # NoOp /\ op.allocated
  BY <1>1, <1>3 DEF InsertionStage, NoOp
<1>5. m \in TableNames /\ table[m] \in Tables /\ old \in Seq(Cells) /\ op.at \in Nat
  BY <1>2 DEF Insertions, Tables
<1>6. op.tool \in Tools /\ op.at > 0 /\ TableSound(m) /\ Inserting(m)
  BY <1>1, <1>4, <1>5 DEF TablesSound, InsertionStage, Inserting
<1>7. /\ op' \in Insertions /\ op'.tool = op.tool /\ op'.table = m /\ op'.at = op.at
      /\ op'.allocated = TRUE /\ op'.pending = op.pending \ {x}
  BY <1>2, <1>3, <1>4 DEF Insertions
<1>8. op' # NoOp
  BY <1>7 DEF NoOp
<1>9. op.at \in 1..Len(old)
  BY <1>4, <1>5, <1>6 DEF TableSound
<1>10. \E new \in Tables :
          /\ table' = [table EXCEPT ![m] = new]
          /\ new.live = table[m].live
          /\ new.ptr = IF x = "ptr" THEN table[m].live ELSE table[m].ptr
          /\ new.count = IF x = "count" THEN op.at ELSE table[m].count
          /\ Len(new.slots) = Len(old)
          /\ \A i \in 1..Len(old) : new.slots[i] = IF x = "slot" /\ i = op.at THEN op.tool ELSE old[i]
  <2>1. CASE x = "copy"
    <3>1. table' = table
      BY <2>1 DEF store
    <3>2. table' = [table EXCEPT ![m] = table[m]]
      BY <3>1, <1>2
    <3> QED
      BY <2>1, <3>2, <1>5
  <2>2. CASE x = "ptr"
    <3> DEFINE new == [table[m] EXCEPT !.ptr = table[m].live]
    <3>1. table' = [table EXCEPT ![m] = new]
      BY <2>2, <1>2, <1>5 DEF store
    <3>2. /\ new \in Tables /\ new.live = table[m].live /\ new.ptr = table[m].live
          /\ new.count = table[m].count /\ new.slots = old
      BY <1>5 DEF Tables
    <3> HIDE DEF new
    <3> QED
      BY <2>2, <3>1, <3>2
  <2>3. CASE x = "slot"
    <3> DEFINE slots == [i \in 1..Len(old) \cup {op.at} |-> IF i = op.at THEN op.tool ELSE old[i]]
               new == [table[m] EXCEPT !.slots = slots]
    <3>1. table' = [table EXCEPT ![m] = new]
      BY <2>3, <1>2, <1>5 DEF store
    <3>2. /\ slots \in Seq(Cells) /\ Len(slots) = Len(old)
          /\ \A i \in 1..Len(old) : slots[i] = IF i = op.at THEN op.tool ELSE old[i]
      <4> HIDE DEF old
      <4>1. 1..Len(old) \cup {op.at} = 1..Len(old)
        BY <1>9
      <4>2. slots \in [1..Len(old) -> Cells]
        BY <4>1, <1>5, <1>6 DEF Cells
      <4>3. Len(old) \in Nat
        BY <1>5
      <4>4. slots \in Seq(Cells) /\ Len(slots) = Len(old)
        <5> HIDE DEF slots
        <5> QED
          BY <4>2, <4>3
      <4>5. \A i \in 1..Len(old) : slots[i] = IF i = op.at THEN op.tool ELSE old[i]
        BY <4>1
      <4> QED
        BY <4>4, <4>5
    <3> HIDE DEF slots
    <3>3. /\ new \in Tables /\ new.live = table[m].live /\ new.ptr = table[m].ptr
          /\ new.count = table[m].count /\ new.slots = slots
      BY <3>2, <1>5 DEF Tables
    <3> HIDE DEF new
    <3> QED
      BY <2>3, <3>1, <3>2, <3>3
  <2>4. CASE x = "count"
    <3> DEFINE new == [table[m] EXCEPT !.count = op.at]
    <3>1. table' = [table EXCEPT ![m] = new]
      BY <2>4, <1>2, <1>5 DEF store
    <3>2. /\ new \in Tables /\ new.live = table[m].live /\ new.ptr = table[m].ptr
          /\ new.count = op.at /\ new.slots = old
      BY <1>5 DEF Tables
    <3> HIDE DEF new
    <3> QED
      BY <2>4, <3>1, <3>2
  <2> QED
    BY <2>1, <2>2, <2>3, <2>4 DEF Stores
<1>11. PICK new \in Tables :
          /\ table' = [table EXCEPT ![m] = new]
          /\ new.live = table[m].live
          /\ new.ptr = IF x = "ptr" THEN table[m].live ELSE table[m].ptr
          /\ new.count = IF x = "count" THEN op.at ELSE table[m].count
          /\ Len(new.slots) = Len(old)
          /\ \A i \in 1..Len(old) : new.slots[i] = IF x = "slot" /\ i = op.at THEN op.tool ELSE old[i]
  BY <1>10
<1>12. /\ table' \in [TableNames -> Tables]
       /\ table'[m] = new
       /\ \A k \in TableNames : k # m => table'[k] = table[k]
  BY <1>2, <1>5, <1>11
<1>13. Stored' <=> Stored \/ x = "slot"
  BY <1>4, <1>7 DEF Stored
<1>14. InsertionStage'
  <2>1. m # Array => m = HashOf[NameOf[op.tool]]
    BY <1>1, <1>4 DEF InsertionStage
  <2>2. op.at = table[m].count + (IF "count" \notin op.pending THEN 0 ELSE 1)
    BY <1>1, <1>4 DEF InsertionStage
  <2>3. Stored' => new.slots[op.at] = op.tool
    <3>1. Stored => old[op.at] = op.tool
      BY <1>1, <1>4 DEF InsertionStage
    <3> QED
      BY <3>1, <1>9, <1>11, <1>13
  <2>4. op.at = new.count + (IF "count" \notin op.pending \ {x} THEN 0 ELSE 1)
    BY <2>2, <1>3, <1>5, <1>11 DEF Tables
  <2> HIDE DEF old
  <2> QED
    BY <2>1, <2>3, <2>4, <1>6, <1>7, <1>12 DEF InsertionStage
<1>15. TableSound(m)'
  <2>1. Inserting(m)'
    BY <1>7, <1>8 DEF Inserting
  <2>2. Filled(m)' = IF x = "slot" THEN op.at ELSE Filled(m)
    BY <2>1, <1>6, <1>7, <1>13 DEF Filled
  <2>3. \A i \in 1..Len(old) : new.slots[i] = Wild <=> i > Filled(m)'
    <3>1. \A i \in 1..Len(old) : old[i] = Wild <=> i > Filled(m)
      BY <1>6 DEF TableSound
    <3>2. x # "slot" => \A i \in 1..Len(old) : new.slots[i] = Wild <=> i > Filled(m)'
      BY <3>1, <2>2, <1>11
    <3>3. ASSUME x = "slot", NEW i \in 1..Len(old)
          PROVE  new.slots[i] = Wild <=> i > op.at
      <4>1. Wild # op.tool
        BY <1>6, AccessAssumption
      <4>2. "slot" \in op.pending
        BY <1>3, <3>3
      <4>3. Filled(m) = op.at - 1
        BY <4>2, <1>6 DEF Filled, Stored
      <4> QED
        BY <4>1, <4>3, <3>1, <3>3, <1>5, <1>9, <1>11
    <3> QED
      BY <3>2, <3>3, <2>2
  <2>4. ~(Inserting(m)' /\ "ptr" \in op.pending \ {x}) => new.ptr = new.live
    BY <2>1, <1>6, <1>11 DEF TableSound
  <2>5. Filled(m)' <= Len(old)
    BY <2>2, <1>6, <1>9 DEF TableSound
  <2>6. new.count <= Len(old)
    BY <1>6, <1>9, <1>11 DEF TableSound
  <2>7. Len(old) = IF m = Array THEN capacity ELSE op.at
    BY <1>4, <1>6 DEF TableSound
  <2>8. Len(old) > 0 => table[m].live > 0
    BY <1>6 DEF TableSound
  <2> HIDE DEF old
  <2> QED
    BY <2>1, <2>3, <2>4, <2>5, <2>6, <2>7, <2>8, <1>3, <1>7, <1>9, <1>11, <1>12 DEF TableSound
<1>16. ASSUME NEW k \in TableNames, k # m
       PROVE  TableSound(k)'
  <2>1. TableSound(k) /\ ~Inserting(k) /\ ~Inserting(k)'
    BY <1>1, <1>7, <1>16 DEF TablesSound, Inserting
  <2> QED
    BY <2>1, <1>3, <1>12, <1>16, OtherTable
<1>17. reader' \in [Readers -> Loops] /\ \A r \in Readers : ReaderSafe(r)'
  <2>1. \A k \in TableNames : Inserting(k) \/ table'[k] = table[k]
    BY <1>6, <1>12
  <2>2. \A k \in TableNames : Inserting(k)' => Inserting(k)
    BY <1>4, <1>7 DEF Inserting
  <2> QED
    BY <2>1, <2>2, <1>3, ReadersKept
<1>18. AccessTypeOK'
  BY <1>1, <1>3, <1>7, <1>12, <1>17 DEF AccessTypeOK
<1> QED
  BY <1>14, <1>15, <1>16, <1>17, <1>18 DEF MemoryInv, TablesSound

\* From the array on to the bucket, and back to the caller.
LEMMA HashNextKeepsMemory ==
    ASSUME MemoryInv, hash_next
    PROVE  MemoryInv'
<1>1. AccessTypeOK /\ InsertionStage /\ TablesSound
  BY DEF MemoryInv
<1>2. op \in Insertions /\ table \in [TableNames -> Tables]
  BY <1>1 DEF AccessTypeOK
<1>3. op # NoOp /\ op.allocated /\ op.pending = {} /\ op.table = Array
  BY DEF hash_next
<1>4. PICK h : h = HashOf[NameOf[op.tool]]
  OBVIOUS
<1>5. /\ op' = [op EXCEPT !.table = h, !.at = table[h].count + 1, !.allocated = FALSE]
      /\ Disturb(h)
      /\ table' = table /\ capacity' = capacity /\ plan' = plan
      /\ unhashed' = unhashed /\ rejected' = rejected
  BY <1>4 DEF hash_next
<1>6. op.tool \in Tools
  BY <1>1, <1>3 DEF InsertionStage
<1>7. h \in Buckets /\ h \in TableNames /\ Array \in TableNames /\ h # Array
  BY <1>4, <1>6, AccessAssumption DEF TableNames
<1>8. table[h] \in Tables /\ table[h].count \in Nat
  BY <1>2, <1>7 DEF Tables
<1>9. op' = [tool |-> op.tool, table |-> h, at |-> table[h].count + 1, pending |-> {},
             allocated |-> FALSE, capacity |-> op.capacity]
  BY <1>2, <1>3, <1>5 DEF Insertions
<1>10. op' \in Insertions /\ op' # NoOp
  BY <1>2, <1>6, <1>7, <1>8, <1>9, AccessAssumption DEF Insertions, NoOp
<1>11. InsertionStage'
  <2>1. /\ op'.tool = op.tool /\ op'.table = h /\ op'.at = table[h].count + 1
        /\ op'.pending = {} /\ op'.allocated = FALSE
    BY <1>9
  <2>2. op'.at > 0
    BY <2>1, <1>8
  <2> QED
    BY <2>1, <2>2, <1>4, <1>5, <1>6 DEF InsertionStage, Stored
<1>12. ASSUME NEW k \in TableNames
       PROVE  TableSound(k)'
  <2>1. TableSound(k)
    BY <1>1 DEF TablesSound
  <2>2. CASE k = h
    <3>1. ~Inserting(k) /\ Inserting(k)' /\ ~op'.allocated /\ ~Stored'
      BY <2>2, <1>3, <1>7, <1>9, <1>10 DEF Inserting, Stored
    <3>2. Filled(k)' = Filled(k)
      BY <2>2, <3>1, <1>8, <1>9 DEF Filled
    <3> QED
      BY <2>1, <3>1, <3>2, <1>5, <1>9 DEF TableSound
  <2>3. CASE k = Array
    <3>1. Inserting(k) /\ Stored /\ ~Inserting(k)'
      BY <2>3, <1>3, <1>7, <1>9 DEF Inserting, Stored
    <3>2. Filled(k)' = Filled(k)
      <4>1. op.at = table[Array].count
        BY <1>1, <1>2, <1>3, <1>7 DEF InsertionStage, Tables
      <4> QED
        BY <2>3, <3>1, <4>1, <1>5 DEF Filled
    <3> QED
      BY <2>1, <2>3, <3>1, <3>2, <1>3, <1>5 DEF TableSound
  <2>4. CASE k # h /\ k # Array
    BY <2>1, <2>4, <1>3, <1>5, <1>9, OtherTable DEF Inserting
  <2> QED
    BY <2>2, <2>3, <2>4
<1>13. reader' \in [Readers -> Loops] /\ \A r \in Readers : ReaderSafe(r)'
  <2>1. \A k \in TableNames : Inserting(k)' => k = h
    BY <1>9 DEF Inserting
  <2> QED
    BY <2>1, <1>5, <1>7, ReadersKept
<1> QED
  BY <1>1, <1>5, <1>10, <1>11, <1>12, <1>13 DEF MemoryInv, AccessTypeOK, TablesSound

\* mcp_server_add_tool returns after the bucket's insertion: the tables are as they were.
LEMMA ReturnKeepsMemory ==
    ASSUME MemoryInv, add_tool_returns
    PROVE  MemoryInv'
<1>1. AccessTypeOK /\ InsertionStage /\ TablesSound
  BY DEF MemoryInv
<1>2. op \in Insertions /\ table \in [TableNames -> Tables]
  BY <1>1 DEF AccessTypeOK
<1>3. /\ op # NoOp /\ op.allocated /\ op.pending = {} /\ op.table # Array
      /\ op' = NoOp
      /\ table' = table /\ capacity' = capacity /\ plan' = plan /\ reader' = reader
      /\ unhashed' = unhashed /\ rejected' = rejected
  BY DEF add_tool_returns
<1>4. NoOp \in Insertions
  BY DEF NoOp, Insertions, TableNames
<1>5. InsertionStage'
  BY <1>3 DEF InsertionStage, NoOp
<1>6. ASSUME NEW k \in TableNames
      PROVE  TableSound(k)'
  <2>1. TableSound(k) /\ ~Inserting(k)'
    BY <1>1, <1>3 DEF TablesSound, Inserting
  <2>2. CASE Inserting(k)
    <3>1. op.at = table[k].count /\ Stored
      BY <2>2, <1>1, <1>2, <1>3 DEF InsertionStage, Inserting, Stored, Tables
    <3>2. Filled(k)' = Filled(k)
      BY <2>1, <2>2, <3>1, <1>3 DEF Filled
    <3> QED
      BY <2>1, <2>2, <3>1, <3>2, <1>3 DEF TableSound, Inserting
  <2>3. CASE ~Inserting(k)
    BY <2>1, <2>3, <1>3, OtherTable
  <2> QED
    BY <2>2, <2>3
<1>7. reader' \in [Readers -> Loops] /\ \A r \in Readers : ReaderSafe(r)'
  BY <1>3, ReadersKept DEF Inserting
<1> QED
  BY <1>1, <1>3, <1>4, <1>5, <1>6, <1>7 DEF MemoryInv, AccessTypeOK, TablesSound

-----------------------------------------------------------------------------
\* A step of one reader: it is enough that this reader is well again.
LEMMA ReaderStep ==
    ASSUME MemoryInv, UNCHANGED memory, NEW r \in Readers, NEW loop \in Loops,
           reader' = [reader EXCEPT ![r] = loop],
           loop.pc # "idle" /\ ~loop.disturbed =>
                /\ loop.pc # "wild" /\ ~Inserting(loop.table)
                /\ loop.pc \in {"ptr", "slot"} => loop.i <= table[loop.table].count
                /\ loop.pc = "slot" => loop.ptr = table[loop.table].live
    PROVE  MemoryInv'
<1>1. AccessTypeOK /\ InsertionStage /\ TablesSound
  BY DEF MemoryInv
<1>2. reader \in [Readers -> Loops]
  BY <1>1 DEF AccessTypeOK
<1>3. /\ table' = table /\ capacity' = capacity /\ op' = op /\ plan' = plan
      /\ unhashed' = unhashed /\ rejected' = rejected
  BY DEF memory
<1>4. AccessTypeOK'
  BY <1>1, <1>2, <1>3 DEF AccessTypeOK
<1>5. InsertionStage'
  BY <1>1, <1>3 DEF InsertionStage, Stored
<1>6. ASSUME NEW k \in TableNames
      PROVE  TableSound(k)'
  <2>1. TableSound(k)
    BY <1>1 DEF TablesSound
  <2>2. Filled(k)' = Filled(k) /\ (Inserting(k)' <=> Inserting(k))
    BY <1>3 DEF Filled, Inserting, Stored
  <2> QED
    BY <2>1, <2>2, <1>3 DEF TableSound
<1>7. ASSUME NEW q \in Readers
      PROVE  ReaderSafe(q)'
  <2>1. CASE q = r
    BY <2>1, <1>2, <1>3 DEF ReaderSafe, Inserting
  <2>2. CASE q # r
    <3>1. reader'[q] = reader[q] /\ ReaderSafe(q)
      BY <2>2, <1>2 DEF MemoryInv
    <3> QED
      BY <3>1, <1>3 DEF ReaderSafe, Inserting
  <2> QED
    BY <2>1, <2>2
<1> QED
  BY <1>4, <1>5, <1>6, <1>7 DEF MemoryInv, TablesSound

\* The elements of the first n of a sequence.
LEMMA HeldRange ==
    ASSUME NEW s \in Seq(Cells), NEW n \in Int, n <= Len(s)
    PROVE  /\ SubSeq(s, 1, n) \in Seq(Cells)
           /\ Len(SubSeq(s, 1, n)) = IF n > 0 THEN n ELSE 0
           /\ \A i \in 1..n : SubSeq(s, 1, n)[i] = s[i]
           /\ Range(SubSeq(s, 1, n)) = {s[i] : i \in 1..n}
<1>1. \A i \in 1..n : s[i] \in Cells
  OBVIOUS
<1>2. SubSeq(s, 1, n) = [i \in 1..n |-> s[i]]
  <2>1. SubSeq(s, 1, n) = [i \in 1..(1 + n - 1) |-> s[1 + i - 1]]
    OBVIOUS
  <2> QED
    BY <2>1
<1>3. CASE n > 0
  <2>1. SubSeq(s, 1, n) \in Seq(Cells) /\ Len(SubSeq(s, 1, n)) = n
    BY <1>3
  <2> QED
    BY <2>1, <1>2, <1>3 DEF Range
<1>4. CASE ~(n > 0)
  <2>1. SubSeq(s, 1, n) = <<>> /\ 1..n = {}
    BY <1>4
  <2> QED
    BY <2>1, <1>4 DEF Range
<1> QED
  BY <1>3, <1>4

\* The tools a table is said to hold are tools.
LEMMA HeldAreTools ==
    ASSUME MemoryInv, NEW k \in TableNames
    PROVE  Range(Held(k)) \subseteq Tools
<1>1. AccessTypeOK /\ InsertionStage /\ TableSound(k)
  BY DEF MemoryInv, TablesSound
<1>2. table[k] \in Tables /\ op \in Insertions
  BY <1>1 DEF AccessTypeOK
<1>3. table[k].slots \in Seq(Cells) /\ table[k].count \in Nat
  BY <1>2 DEF Tables
<1>4. Complete(k) \in Int /\ Complete(k) <= Filled(k)
  <2>1. op # NoOp => op.at \in Nat \ {0}
    BY <1>1, OpKnown
  <2> QED
    BY <2>1, <1>3 DEF Complete, Filled, Inserting
<1>5. Filled(k) <= Len(table[k].slots)
  BY <1>1 DEF TableSound
<1>6. Complete(k) <= Len(table[k].slots)
  <2>1. Filled(k) \in Int /\ Len(table[k].slots) \in Nat
    BY <1>2, <1>3 DEF Filled, Insertions
  <2> QED
    BY <2>1, <1>4, <1>5
<1>7. \A i \in 1..Complete(k) : table[k].slots[i] \in Tools
  <2> SUFFICES ASSUME NEW i \in 1..Complete(k)
               PROVE  table[k].slots[i] \in Tools
    OBVIOUS
  <2>1. i \in 1..Len(table[k].slots) /\ ~(i > Filled(k))
    <3>1. Filled(k) \in Int /\ Len(table[k].slots) \in Nat
      BY <1>2, <1>3 DEF Filled, Insertions
    <3> QED
      BY <3>1, <1>4, <1>6
  <2>2. table[k].slots[i] # Wild
    BY <2>1, <1>1 DEF TableSound
  <2> QED
    BY <2>1, <2>2, <1>3 DEF Cells
<1>8. Range(Held(k)) = {table[k].slots[i] : i \in 1..Complete(k)}
  BY <1>3, <1>4, <1>6, HeldRange DEF Held
<1> QED
  BY <1>7, <1>8

\* A reader that enters its loop has loaded nothing yet.
LEMMA BeginsKeepsMemory ==
    ASSUME MemoryInv, NEW r \in Readers, NEW k \in TableNames, NEW name \in Names \cup {NoTool},
           NEW must \in SUBSET Tools, Begins(r, k, name, must)
    PROVE  MemoryInv'
<1> DEFINE loop == [Idle EXCEPT !.pc = "count", !.table = k, !.name = name, !.must = must,
                                !.disturbed = (op # NoOp /\ op.table = k)]
<1>1. reader' = [reader EXCEPT ![r] = loop] /\ UNCHANGED memory
  BY DEF Begins
<1>2. Idle \in Loops
  BY DEF Idle, Loops, TableNames
<1>3. loop \in Loops
  BY <1>2 DEF Loops
<1>4. loop.pc = "count" /\ loop.table = k /\ (loop.disturbed <=> Inserting(k))
  BY <1>2 DEF Inserting, Loops
<1> HIDE DEF loop
<1> QED
  BY <1>1, <1>3, <1>4, ReaderStep

\* No load of a reader writes to a table, and a reader stays safe while no insertion disturbs it.
LEMMA ReaderKeepsMemory ==
    ASSUME MemoryInv, NEW r \in Readers, Reader(r)
    PROVE  MemoryInv'
<1>1. AccessTypeOK /\ ReaderSafe(r) /\ InsertionStage
  BY DEF MemoryInv
<1>2. reader \in [Readers -> Loops] /\ reader[r] \in Loops /\ op \in Insertions
  BY <1>1 DEF AccessTypeOK
<1>3. PICK m \in TableNames : m = reader[r].table
  BY <1>2 DEF Loops
<1>4. table[m] \in Tables /\ TableSound(m)
  BY <1>1, <1>3 DEF MemoryInv, TablesSound, AccessTypeOK
<1>5. CASE load_count(r)
  <2> DEFINE loop == [reader[r] EXCEPT !.pc = IF reader[r].i <= table[m].count THEN "ptr" ELSE "done"]
  <2>1. reader' = [reader EXCEPT ![r] = loop] /\ UNCHANGED memory /\ reader[r].pc = "count"
    BY <1>2, <1>3, <1>5 DEF load_count
  <2>2. /\ loop \in Loops /\ loop.table = m /\ loop.disturbed = reader[r].disturbed
        /\ loop.pc = (IF reader[r].i <= table[m].count THEN "ptr" ELSE "done") /\ loop.i = reader[r].i
    BY <1>2, <1>3 DEF Loops
  <2> HIDE DEF loop
  <2>3. loop.pc # "slot" /\ loop.pc # "wild" /\ (loop.pc = "ptr" => loop.i <= table[m].count)
    BY <2>2
  <2>4. ~loop.disturbed => ~Inserting(m)
    BY <2>1, <2>2, <1>1, <1>3 DEF ReaderSafe
  <2> QED
    BY <2>1, <2>2, <2>3, <2>4, ReaderStep
<1>6. CASE load_ptr(r)
  <2> DEFINE loop == [reader[r] EXCEPT !.pc = "slot", !.ptr = table[m].ptr]
  <2>1. reader' = [reader EXCEPT ![r] = loop] /\ UNCHANGED memory /\ reader[r].pc = "ptr"
    BY <1>2, <1>3, <1>6 DEF load_ptr
  <2>2. table[m].ptr \in Nat
    BY <1>4 DEF Tables
  <2>3. loop \in Loops
    BY <2>2, <1>2 DEF Loops
  <2>4. /\ loop.table = m /\ loop.disturbed = reader[r].disturbed
        /\ loop.pc = "slot" /\ loop.i = reader[r].i /\ loop.ptr = table[m].ptr
    BY <1>2, <1>3 DEF Loops
  <2> HIDE DEF loop
  <2>5. ~loop.disturbed => ~Inserting(m) /\ loop.i <= table[m].count
    BY <2>1, <2>4, <1>1, <1>3 DEF ReaderSafe
  <2>6. ~loop.disturbed => loop.ptr = table[m].live
    BY <2>4, <2>5, <1>4 DEF TableSound
  <2> QED
    BY <2>1, <2>3, <2>4, <2>5, <2>6, ReaderStep
<1>7. CASE load_slot(r)
  <2> DEFINE t == Load(m, reader[r].ptr, reader[r].i)
  <2>1. reader[r].pc = "slot" /\ UNCHANGED memory
    BY <1>7 DEF load_slot
  <2>2. ~reader[r].disturbed => ~Inserting(m) /\ t # Wild
    <3> SUFFICES ASSUME ~reader[r].disturbed
                 PROVE  ~Inserting(m) /\ t # Wild
      OBVIOUS
    <3>1. /\ ~Inserting(m)
          /\ reader[r].i <= table[m].count
          /\ reader[r].ptr = table[m].live
      BY <2>1, <1>1, <1>3 DEF ReaderSafe
    <3>2. table[m].slots \in Seq(Cells) /\ table[m].count \in Nat /\ reader[r].i \in Nat \ {0}
      BY <1>2, <1>4 DEF Tables, Loops
    <3>3. reader[r].i \in 1..Len(table[m].slots) /\ Len(table[m].slots) > 0
      BY <3>1, <3>2, <1>4 DEF TableSound
    <3>4. table[m].live > 0 /\ table[m].live \in Nat
      BY <3>3, <1>4 DEF TableSound, Tables
    <3>5. table[m].slots[reader[r].i] # Wild
      <4>1. Filled(m) = table[m].count
        BY <3>1 DEF Filled
      <4> QED
        BY <3>1, <3>2, <3>3, <4>1, <1>4 DEF TableSound
    <3>6. ~(op.table = m /\ "copy" \in op.pending)
      BY <3>1, <1>1 DEF Inserting, InsertionStage, NoOp
    <3> QED
      BY <3>1, <3>2, <3>3, <3>4, <3>5, <3>6 DEF Load
  <2>3. t \in Cells
    <3>1. table[m].slots \in Seq(Cells) /\ reader[r].i \in Nat \ {0}
      BY <1>2, <1>4 DEF Tables, Loops
    <3>2. Wild \in Cells /\ Len(table[m].slots) \in Nat
      BY <3>1 DEF Cells
    <3>3. ~(reader[r].i > Len(table[m].slots)) => table[m].slots[reader[r].i] \in Cells
      BY <3>1, <3>2
    <3> QED
      BY <3>2, <3>3 DEF Load
  <2>4. \E loop \in Loops : /\ reader' = [reader EXCEPT ![r] = loop]
                            /\ loop.table = m /\ loop.disturbed = reader[r].disturbed
                            /\ loop.pc \in {"wild", "count", "done"}
                            /\ loop.pc = "wild" => t = Wild
    <3> DEFINE q == reader[r]
               a == [q EXCEPT !.pc = "wild"]
               b == [q EXCEPT !.pc = "count", !.i = @ + 1, !.taken = Append(@, t)]
               c == [q EXCEPT !.pc = "done", !.taken = <<t>>]
               d == [q EXCEPT !.pc = "count", !.i = @ + 1]
    <3>1. reader' = [reader EXCEPT ![r] = IF t = Wild THEN a
                                          ELSE IF q.name = NoTool THEN b
                                          ELSE IF NameOf[t] = q.name THEN c ELSE d]
      BY <1>3, <1>7 DEF load_slot
    <3>2. /\ q.taken \in Seq(Tools) /\ q.i \in Nat \ {0} /\ q.table = m /\ q \in Loops
      BY <1>2, <1>3 DEF Loops
    <3>3. a \in Loops /\ a.table = m /\ a.disturbed = q.disturbed /\ a.pc = "wild"
      BY <3>2 DEF Loops
    <3>4. ASSUME t # Wild
          PROVE  b \in Loops /\ b.table = m /\ b.disturbed = q.disturbed /\ b.pc = "count"
      <4>1. t \in Tools
        BY <2>3, <3>4 DEF Cells
      <4>2. Append(q.taken, t) \in Seq(Tools) /\ q.i + 1 \in Nat \ {0}
        BY <3>2, <4>1
      <4> HIDE DEF t
      <4> QED
        BY <3>2, <4>2 DEF Loops
    <3>5. ASSUME t # Wild
          PROVE  c \in Loops /\ c.table = m /\ c.disturbed = q.disturbed /\ c.pc = "done"
      <4>1. t \in Tools
        BY <2>3, <3>5 DEF Cells
      <4>2. <<t>> \in Seq(Tools)
        BY <4>1
      <4> HIDE DEF t
      <4> QED
        BY <3>2, <4>2 DEF Loops
    <3>6. d \in Loops /\ d.table = m /\ d.disturbed = q.disturbed /\ d.pc = "count"
      <4>1. q.i + 1 \in Nat \ {0}
        BY <3>2
      <4> QED
        BY <3>2, <4>1 DEF Loops
    <3> HIDE DEF a, b, c, d, t
    <3> QED
      BY <3>1, <3>3, <3>4, <3>5, <3>6
  <2>5. PICK loop \in Loops : /\ reader' = [reader EXCEPT ![r] = loop]
                              /\ loop.table = m /\ loop.disturbed = reader[r].disturbed
                              /\ loop.pc \in {"wild", "count", "done"}
                              /\ loop.pc = "wild" => t = Wild
    BY <2>4
  <2>6. loop.pc # "slot" /\ loop.pc # "ptr"
    BY <2>5
  <2> HIDE DEF t
  <2> QED
    BY <2>1, <2>2, <2>5, <2>6, ReaderStep
<1> QED
  BY <1>5, <1>6, <1>7 DEF Reader

\* Before the first registration there is no memory to misuse.
LEMMA MemoryInit ==
    ASSUME AccessInit
    PROVE  MemoryInv
<1>1. /\ table = [k \in TableNames |-> [ptr |-> 0, live |-> 0, count |-> 0, slots |-> <<>>]]
      /\ capacity = 0 /\ op = NoOp /\ plan \in Orders
      /\ unhashed = {} /\ rejected = {}
      /\ reader = [r \in Readers |-> Idle]
  BY DEF AccessInit
<1>2. [ptr |-> 0, live |-> 0, count |-> 0, slots |-> <<>>] \in Tables
  BY DEF Tables
<1>3. NoOp \in Insertions /\ Idle \in Loops
  BY DEF NoOp, Insertions, Idle, Loops, TableNames
<1>4. plan \in Seq(Tools)
  BY <1>1, AccessAssumption
<1>5. AccessTypeOK
  BY <1>1, <1>2, <1>3, <1>4 DEF AccessTypeOK
<1>6. InsertionStage
  BY <1>1 DEF InsertionStage, NoOp
<1>7. TablesSound
  BY <1>1 DEF TablesSound, TableSound, Filled, Inserting
<1>8. \A r \in Readers : ReaderSafe(r)
  BY <1>1 DEF ReaderSafe, Idle
<1> QED
  BY <1>5, <1>6, <1>7, <1>8 DEF MemoryInv

\* Every step of main and of the readers keeps the memory of the tables sound.
LEMMA MemoryStep ==
    ASSUME MemoryInv, [AccessNext]_accessVars
    PROVE  MemoryInv'
<1> PICK m \in TableNames : m = op.table
  BY DEF MemoryInv, AccessTypeOK, Insertions
<1>1. ASSUME NEW t \in Tools, mcp_server_add_tool(t)
      PROVE  MemoryInv'
  BY <1>1, AddToolKeepsMemory
<1>2. CASE grow_fails \/ \E t \in Tools : mcp_server_add_tool_duplicate(t)
  BY <1>2, RefusalKeepsMemory
<1>3. CASE grow_moves \/ grow_in_place
  BY <1>3, GrowKeepsMemory
<1>4. ASSUME NEW x \in Stores, store(x)
      PROVE  MemoryInv'
  BY <1>4, StoreKeepsMemory
<1>5. CASE hash_next
  BY <1>5, HashNextKeepsMemory
<1>6. CASE add_tool_returns
  BY <1>6, ReturnKeepsMemory
<1>7. ASSUME NEW r \in Readers, Reader(r)
      PROVE  MemoryInv'
  BY <1>7, ReaderKeepsMemory
<1>8. ASSUME NEW r \in Readers, list_begin(r)
      PROVE  MemoryInv'
  <2>1. Array \in TableNames
    BY DEF TableNames
  <2>2. Range(Held(Array)) \in SUBSET Tools
    BY <2>1, HeldAreTools
  <2> QED
    BY <1>8, <2>1, <2>2, BeginsKeepsMemory DEF list_begin
<1>9. ASSUME NEW r \in Readers, NEW name \in Names, find_begin(r, name)
      PROVE  MemoryInv'
  <2>1. HashOf[name] \in TableNames
    BY AccessAssumption DEF TableNames
  <2>2. {t \in Range(Held(HashOf[name])) : NameOf[t] = name} \in SUBSET Tools
    BY <2>1, HeldAreTools
  <2> QED
    BY <1>9, <2>1, <2>2, BeginsKeepsMemory DEF find_begin
<1>10. CASE UNCHANGED accessVars
  <2>1. /\ table' = table /\ capacity' = capacity /\ op' = op /\ plan' = plan
        /\ unhashed' = unhashed /\ rejected' = rejected /\ reader' = reader
    BY <1>10 DEF accessVars, memory
  <2> QED
    BY <2>1 DEF MemoryInv, AccessTypeOK, InsertionStage, TablesSound, TableSound, Filled, Inserting,
                Stored, ReaderSafe
<1> QED
  BY <1>1, <1>2, <1>3, <1>4, <1>5, <1>6, <1>7, <1>8, <1>9, <1>10 DEF AccessNext, Main, Stores

\* MemoryInv holds in every state, for any number of tools, buckets and readers.
THEOREM AccessMemory == AccessSpec => []MemoryInv
<1>1. AccessInit => MemoryInv
  BY MemoryInit
<1>2. MemoryInv /\ [AccessNext]_accessVars => MemoryInv'
  BY MemoryStep
<1> QED
  BY <1>1, <1>2, PTL DEF AccessSpec

\* NeverOverrun holds in every state: mcp_server_add_tool writes no slot beyond what
\* mcp_server_reserve_tools or the realloc of a bucket gave it, and no count covers a slot
\* that was not set, but for the insertion that is going on.
THEOREM AccessNeverOverrun == AccessSpec => []NeverOverrun
<1>1. MemoryInv => NeverOverrun
  <2> SUFFICES ASSUME MemoryInv, NEW k \in TableNames
               PROVE  LET inserting == op # NoOp /\ op.table = k
                      IN  /\ Len(table[k].slots) = IF k = Array THEN capacity
                                                   ELSE IF inserting /\ op.allocated THEN op.at
                                                   ELSE table[k].count
                          /\ inserting => op.at <= table[k].count + 1
                          /\ \A i \in 1..table[k].count : i <= Len(table[k].slots) /\
                                (table[k].slots[i] = Wild => inserting /\ i = op.at)
    BY DEF NeverOverrun
  <2>1. AccessTypeOK /\ InsertionStage /\ TableSound(k)
    BY DEF MemoryInv, TablesSound
  <2>2. table[k] \in Tables /\ op \in Insertions
    BY <2>1 DEF AccessTypeOK
  <2>3. table[k].count \in Nat /\ Len(table[k].slots) \in Nat /\ op.at \in Nat
    BY <2>2 DEF Tables, Insertions
  <2>4. Inserting(k) => op.at = table[k].count + 1 \/ op.at = table[k].count
    BY <2>1, <2>3 DEF InsertionStage, Inserting
  <2>5. ASSUME NEW i \in 1..table[k].count
        PROVE  i <= Len(table[k].slots) /\ (table[k].slots[i] = Wild => Inserting(k) /\ i = op.at)
    <3>1. i \in 1..Len(table[k].slots)
      BY <2>1, <2>3 DEF TableSound
    <3>2. table[k].slots[i] = Wild => i > Filled(k)
      BY <3>1, <2>1 DEF TableSound
    <3>3. i > Filled(k) => Inserting(k) /\ i = op.at
      BY <2>3, <2>4 DEF Filled
    <3> QED
      BY <3>1, <3>2, <3>3, <2>3
  <2>6. Len(table[k].slots) = IF k = Array THEN capacity
                              ELSE IF Inserting(k) /\ op.allocated THEN op.at ELSE table[k].count
    BY <2>1 DEF TableSound
  <2> QED
    BY <2>3, <2>4, <2>5, <2>6 DEF Inserting
<1> QED
  BY <1>1, AccessMemory, PTL

\* WildOnlyIfDisturbed holds in every state: a lookup or a listing reads freed or unset
\* memory only if main inserted into that very table while it ran.
THEOREM AccessWild == AccessSpec => []WildOnlyIfDisturbed
<1>1. MemoryInv => WildOnlyIfDisturbed
  BY DEF MemoryInv, ReaderSafe, WildOnlyIfDisturbed
<1> QED
  BY <1>1, AccessMemory, PTL
-----------------------------------------------------------------------------
\* The entries of a table stay where they are, and those that are complete stay complete.
Grows(k) == /\ Filled(k) <= Filled(k)' /\ Complete(k) <= Complete(k)'
            /\ \A i \in 1..Filled(k) : table'[k].slots[i] = table[k].slots[i]

\* Only the store of a slot adds an entry.
LEMMA EntriesStay ==
    ASSUME MemoryInv, NEW k \in TableNames, NEW m \in TableNames, m = op.table,
           \/ \E t \in Tools : mcp_server_add_tool(t) \/ mcp_server_add_tool_duplicate(t)
           \/ grow_moves \/ grow_in_place \/ grow_fails
           \/ \E x \in {"copy", "ptr", "count"} : store(x)
           \/ hash_next \/ add_tool_returns
    PROVE  /\ Filled(k)' = Filled(k) /\ Complete(k) <= Complete(k)'
           /\ op' # NoOp => Complete(k)' = Complete(k)
           /\ \A i \in 1..Filled(k) : table'[k].slots[i] = table[k].slots[i]
<1>1. AccessTypeOK /\ InsertionStage /\ TableSound(k) /\ TableSound(m) /\ TablesSound
  BY DEF MemoryInv, TablesSound
<1>2. op \in Insertions /\ table \in [TableNames -> Tables] /\ Array \in TableNames
  BY <1>1 DEF AccessTypeOK, TableNames
<1>3. /\ table[k].count \in Nat /\ table[m].count \in Nat /\ table[Array].count \in Nat
      /\ op.at \in Nat /\ Len(table[k].slots) \in Nat /\ table[m].slots \in Seq(Cells)
  BY <1>2 DEF Tables, Insertions
<1>4. Filled(k) \in Int /\ Filled(k) <= Len(table[k].slots)
  BY <1>1, <1>3 DEF Filled, TableSound
<1>5. ASSUME NEW t \in Tools, mcp_server_add_tool(t)
      PROVE  Filled(k)' = Filled(k) /\ Complete(k)' = Complete(k) /\ table' = table
  <2>1. /\ op = NoOp /\ table' = table
        /\ op' = [NoOp EXCEPT !.tool = t, !.at = table[Array].count + 1, !.capacity = capacity]
    BY <1>5 DEF mcp_server_add_tool
  <2>2. op'.tool = t /\ op'.table = Array /\ op'.at = table[Array].count + 1 /\ op'.allocated = FALSE
    BY <2>1 DEF NoOp
  <2>3. op' # NoOp
    BY <2>2, AccessAssumption DEF NoOp
  <2>4. Filled(k)' = Filled(k)
    BY <2>1, <2>2, <2>3, <1>3 DEF Filled, Inserting, Stored
  <2>5. Complete(k)' = Complete(k)
    BY <2>1, <2>2, <2>3, <1>3 DEF Complete
  <2> QED
    BY <2>1, <2>4, <2>5
<1>6. CASE grow_fails \/ \E t \in Tools : mcp_server_add_tool_duplicate(t)
  <2>1. op' = NoOp /\ table' = table /\ ~op.allocated
    BY <1>6 DEF grow_fails, mcp_server_add_tool_duplicate, NoOp
  <2>2. op # NoOp => op.at = table[m].count + 1
    BY <2>1, <1>1 DEF InsertionStage
  <2>3. Filled(k)' = Filled(k)
    BY <2>1, <2>2, <1>3 DEF Filled, Inserting, Stored
  <2>4. Complete(k) <= Complete(k)'
    BY <2>1, <2>2, <1>3 DEF Complete
  <2> QED
    BY <2>1, <2>3, <2>4
<1>7. CASE grow_moves \/ grow_in_place
  <2>1. op # NoOp /\ ~op.allocated
    BY <1>7 DEF grow_moves, grow_in_place
  <2>2. op'.tool = op.tool /\ op'.table = m /\ op'.at = op.at /\ op'.allocated = TRUE
        /\ "slot" \in op'.pending
    <3>1. CASE grow_moves
      BY <1>2, <3>1 DEF grow_moves, Insertions
    <3>2. CASE grow_in_place
      BY <1>2, <3>2 DEF grow_in_place, Insertions
    <3> QED
      BY <1>7, <3>1, <3>2
  <2>3. \A q \in TableNames : table'[q].count = table[q].count
    <3>1. CASE grow_moves
      <4>1. table' = [table EXCEPT ![m].live = @ + 1, ![m].slots = Slots(@)]
        BY <3>1 DEF grow_moves
      <4> QED
        BY <1>2, <4>1 DEF Tables
    <3>2. CASE grow_in_place
      <4>1. table' = [table EXCEPT ![m].slots = Slots(@)]
        BY <3>2 DEF grow_in_place
      <4> QED
        BY <1>2, <4>1 DEF Tables
    <3> QED
      BY <1>7, <3>1, <3>2
  <2>4. \A q \in TableNames : q # m => table'[q].slots = table[q].slots
    BY <1>2, <1>7 DEF grow_moves, grow_in_place
  <2>5. table'[m].slots = Slots(table[m].slots)
    BY <1>2, <1>7 DEF grow_moves, grow_in_place, Tables
  <2>6. op' # NoOp
    BY <2>2 DEF NoOp
  <2>7. Filled(k)' = Filled(k)
    BY <2>1, <2>2, <2>3, <2>6 DEF Filled, Inserting, Stored
  <2>8. Complete(k)' = Complete(k)
    BY <2>1, <2>2, <2>3, <2>6, <1>2 DEF Complete
  <2>9. \A i \in 1..Filled(k) : table'[k].slots[i] = table[k].slots[i]
    <3>1. Size \in Nat /\ Len(table[m].slots) <= Size
      BY <2>1, <1>1, SizeEnough
    <3>2. \A i \in 1..Size : Slots(table[m].slots)[i] = IF i <= Len(table[m].slots) THEN table[m].slots[i] ELSE Wild
      BY <3>1, <1>3, SlotsAllocated
    <3>3. k = m => \A i \in 1..Filled(k) : i \in 1..Size /\ i <= Len(table[m].slots)
      BY <3>1, <1>3, <1>4
    <3> QED
      BY <3>2, <3>3, <2>4, <2>5
  <2>10. Complete(k) \in Int
    BY <1>3 DEF Complete
  <2> QED
    BY <2>7, <2>8, <2>9, <2>10
<1>8. ASSUME NEW x \in {"copy", "ptr", "count"}, store(x)
      PROVE  /\ Filled(k)' = Filled(k) /\ Complete(k)' = Complete(k)
             /\ table'[k].slots = table[k].slots
  <2>1. x \in op.pending /\ op' = [op EXCEPT !.pending = @ \ {x}]
    BY <1>8 DEF store
  <2>2. op # NoOp /\ op.allocated
    BY <2>1, <1>1 DEF InsertionStage, NoOp
  <2>3. /\ op'.tool = op.tool /\ op'.table = m /\ op'.at = op.at /\ op'.allocated = TRUE
        /\ op'.pending = op.pending \ {x}
    BY <2>1, <2>2, <1>2 DEF Insertions
  <2>4. op' # NoOp
    BY <2>3 DEF NoOp
  <2>5. \A q \in TableNames : /\ q # m => table'[q].count = table[q].count
                              /\ table'[q].slots = table[q].slots
    BY <1>2, <1>8 DEF store, Tables
  <2>6. Filled(k)' = Filled(k)
    BY <2>2, <2>3, <2>4, <2>5 DEF Filled, Inserting, Stored
  <2>7. Complete(k)' = Complete(k)
    BY <2>2, <2>3, <2>4, <2>5, <1>2 DEF Complete
  <2> QED
    BY <2>5, <2>6, <2>7
<1>9. CASE hash_next
  <2>1. op # NoOp /\ op.allocated /\ op.pending = {} /\ op.table = Array /\ table' = table
    BY <1>9 DEF hash_next
  <2>2. PICK h : h = HashOf[NameOf[op.tool]]
    OBVIOUS
  <2>3. op.tool \in Tools /\ op.at = table[Array].count
    BY <2>1, <1>1, <1>2, <1>3 DEF InsertionStage
  <2>4. h # Array /\ h \in TableNames
    BY <2>2, <2>3, AccessAssumption DEF TableNames
  <2>5. op' = [op EXCEPT !.table = h, !.at = table[h].count + 1, !.allocated = FALSE]
    BY <1>9, <2>2 DEF hash_next
  <2>6. op'.tool = op.tool /\ op'.table = h /\ op'.at = table[h].count + 1 /\ op'.allocated = FALSE
    BY <2>5, <1>2 DEF Insertions
  <2>7. op' # NoOp
    BY <2>3, <2>6, AccessAssumption DEF NoOp
  <2>8. table[h].count \in Nat
    BY <2>4, <1>2 DEF Tables
  <2>9. Filled(k)' = Filled(k)
    BY <2>1, <2>3, <2>4, <2>6, <2>7, <2>8 DEF Filled, Inserting, Stored
  <2>10. Complete(k)' = Complete(k)
    BY <2>1, <2>3, <2>4, <2>6, <2>7, <2>8, <1>3 DEF Complete
  <2>11. Complete(k) \in Int
    BY <1>3 DEF Complete
  <2> QED
    BY <2>1, <2>9, <2>10, <2>11
<1>10. CASE add_tool_returns
  <2>1. op # NoOp /\ op.allocated /\ op.pending = {} /\ op' = NoOp /\ table' = table
    BY <1>10 DEF add_tool_returns
  <2>2. op.at = table[m].count
    BY <2>1, <1>1, <1>3 DEF InsertionStage
  <2>3. Filled(k)' = Filled(k)
    BY <2>1, <2>2 DEF Filled, Inserting, Stored
  <2>4. Complete(k) <= Complete(k)'
    BY <2>1, <2>2, <1>3 DEF Complete
  <2> QED
    BY <2>1, <2>3, <2>4
<1>11. Complete(k) \in Int
  BY <1>3 DEF Complete
<1> QED
  BY <1>5, <1>6, <1>7, <1>8, <1>9, <1>10, <1>11

\* The store of the slot adds the tool to the entries of its table.
LEMMA EntryAdded ==
    ASSUME MemoryInv, NEW m \in TableNames, m = op.table, store("slot")
    PROVE  /\ op # NoOp /\ op.allocated /\ ~Stored /\ Stored'
           /\ op.at = Filled(m) + 1 /\ Filled(m)' = op.at
           /\ table'[m].slots[op.at] = op.tool
           /\ \A i \in 1..Filled(m) : table'[m].slots[i] = table[m].slots[i]
           /\ \A k \in TableNames : /\ Complete(k)' = Complete(k)
                                    /\ table'[k].count = table[k].count
                                    /\ k # m => Filled(k)' = Filled(k) /\ table'[k] = table[k]
           /\ op'.tool = op.tool /\ op'.table = m /\ op'.at = op.at /\ op' # NoOp
<1>1. AccessTypeOK /\ InsertionStage /\ TableSound(m)
  BY DEF MemoryInv, TablesSound
<1>2. op \in Insertions /\ table \in [TableNames -> Tables] /\ table[m] \in Tables
  BY <1>1 DEF AccessTypeOK
<1>3. op.at \in Nat /\ table[m].slots \in Seq(Cells)
  BY <1>2 DEF Tables, Insertions
<1>4. "slot" \in op.pending /\ op' = [op EXCEPT !.pending = @ \ {"slot"}]
  BY DEF store
<1>5. op # NoOp /\ op.allocated /\ op.tool \in Tools /\ op.at > 0 /\ ~Stored
  BY <1>4, <1>1 DEF InsertionStage, NoOp, Stored
<1>6. /\ op'.tool = op.tool /\ op'.table = m /\ op'.at = op.at /\ op'.allocated = TRUE
      /\ op'.pending = op.pending \ {"slot"}
  BY <1>2, <1>4, <1>5 DEF Insertions
<1>7. op' # NoOp /\ Stored'
  BY <1>6 DEF NoOp, Stored
<1>8. table' = [table EXCEPT ![m].slots = [i \in 1..Len(@) \cup {op.at} |->
                                              IF i = op.at THEN op.tool ELSE @[i]]]
  BY DEF store
<1>9. /\ table'[m].slots = [i \in 1..Len(table[m].slots) \cup {op.at} |->
                               IF i = op.at THEN op.tool ELSE table[m].slots[i]]
      /\ table'[m].count = table[m].count
      /\ \A k \in TableNames : k # m => table'[k] = table[k]
  BY <1>2, <1>8 DEF Tables
<1>10. Filled(m) = op.at - 1 /\ Filled(m)' = op.at /\ op.at <= Len(table[m].slots)
  BY <1>1, <1>5, <1>6, <1>7 DEF Filled, Inserting, TableSound
<1>11. ASSUME NEW k \in TableNames
       PROVE  /\ Complete(k)' = Complete(k)
              /\ k # m => Filled(k)' = Filled(k)
  BY <1>5, <1>6, <1>7, <1>9 DEF Complete, Filled, Inserting, TableNames
<1>12. \A i \in 1..Filled(m) : table'[m].slots[i] = table[m].slots[i]
  BY <1>3, <1>9, <1>10
<1> QED
  BY <1>3, <1>5, <1>6, <1>7, <1>9, <1>10, <1>11, <1>12

\* The first of a sequence without repetition, and the rest.
LEMMA HeadAndTail ==
    ASSUME NEW s \in Seq(Tools), s # <<>>, IsInjective(s)
    PROVE  /\ Tail(s) \in Seq(Tools) /\ IsInjective(Tail(s))
           /\ Head(s) \in Range(s) /\ Head(s) \notin Range(Tail(s))
           /\ Range(Tail(s)) \subseteq Range(s)
<1>1. /\ Tail(s) \in Seq(Tools) /\ Len(s) \in Nat \ {0} /\ Len(Tail(s)) = Len(s) - 1
      /\ DOMAIN s = 1..Len(s) /\ DOMAIN Tail(s) = 1..Len(Tail(s))
      /\ Head(s) = s[1]
  OBVIOUS
<1>2. \A i \in DOMAIN Tail(s) : i + 1 \in DOMAIN s /\ i + 1 # 1 /\ Tail(s)[i] = s[i + 1]
  BY <1>1
<1>3. 1 \in DOMAIN s
  BY <1>1
<1>4. IsInjective(Tail(s))
  <2> SUFFICES ASSUME NEW i \in DOMAIN Tail(s), NEW j \in DOMAIN Tail(s), Tail(s)[i] = Tail(s)[j]
               PROVE  i = j
    BY DEF IsInjective
  <2>1. i + 1 = j + 1
    BY <1>2 DEF IsInjective
  <2> QED
    BY <2>1, <1>1
<1>5. Head(s) \notin Range(Tail(s))
  BY <1>1, <1>2, <1>3 DEF IsInjective, Range
<1>6. Range(Tail(s)) \subseteq Range(s)
  BY <1>2 DEF Range
<1> QED
  BY <1>1, <1>3, <1>4, <1>5, <1>6 DEF Range

\* Between two registrations, a name that the search does not find is not in its bucket:
\* at most one entry has it.
LEMMA NotFound ==
    ASSUME MemoryInv, EntriesDistinct, op = NoOp, NEW name \in Names,
           Registry!mcp_server_find_tool_by_hash(name) = NoTool
    PROVE  \A t \in Kept(HashOf[name]) : NameOf[t] # name
<1> PICK h \in Buckets : h = HashOf[name]
  BY AccessAssumption
<1> DEFINE bucket == Held(h)
           named == {i \in DOMAIN bucket : NameOf[bucket[i]] = name}
<1>1. h \in TableNames /\ AccessTypeOK /\ TableSound(h)
  BY DEF TableNames, MemoryInv, TablesSound
<1>2. table[h].slots \in Seq(Cells) /\ table[h].count \in Nat
  BY <1>1 DEF AccessTypeOK, Tables
<1>3. Complete(h) = table[h].count /\ Filled(h) = table[h].count /\ table[h].count <= Len(table[h].slots)
  BY <1>1 DEF Complete, Filled, Inserting, TableSound
<1>4. /\ bucket \in Seq(Cells) /\ DOMAIN bucket = 1..Filled(h)
      /\ \A i \in 1..Filled(h) : bucket[i] = table[h].slots[i]
  BY <1>2, <1>3, HeldRange DEF Held
<1>5. NoTool = IF named = {} THEN NoTool ELSE bucket[CHOOSE i \in named : \A j \in named : i <= j]
  BY DEF Registry!mcp_server_find_tool_by_hash
<1>6. Range(bucket) \subseteq Tools
  BY <1>1, HeldAreTools
<1>7. ASSUME NEW i \in named
      PROVE  FALSE
  <2>1. \A j \in named : j = i
    BY <1>4 DEF EntriesDistinct
  <2>2. i \in Nat
    BY <1>2, <1>3, <1>4
  <2>3. \A j \in named : i <= j
    BY <2>1, <2>2
  <2>4. (CHOOSE a \in named : \A j \in named : a <= j) = i
    <3> HIDE DEF named
    <3>1. (CHOOSE a \in named : \A j \in named : a <= j) \in named
      BY <1>7, <2>3
    <3> QED
      BY <3>1, <2>1
  <2>5. bucket[i] \in Tools
    BY <1>4, <1>6 DEF Range
  <2> HIDE DEF named, bucket
  <2> QED
    BY <1>5, <1>7, <2>4, <2>5, AccessAssumption
<1> QED
  BY <1>4, <1>7 DEF Kept

\* A step that adds no entry keeps the entries distinct.
LEMMA DistinctStays ==
    ASSUME MemoryInv, EntriesDistinct,
           \A k \in TableNames : /\ Filled(k)' = Filled(k)
                                 /\ \A i \in 1..Filled(k) : table'[k].slots[i] = table[k].slots[i]
    PROVE  EntriesDistinct' /\ \A k \in TableNames : Kept(k)' = Kept(k)
<1>1. Array \in TableNames /\ Buckets \subseteq TableNames
  BY DEF TableNames
<1>2. \A k \in TableNames : Kept(k)' = Kept(k)
  BY DEF Kept
<1>3. EntriesDistinct'
  BY <1>1 DEF EntriesDistinct
<1> QED
  BY <1>2, <1>3

\* The bucket of a tool is one.
LEMMA BucketOf ==
    ASSUME NEW t \in Tools
    PROVE  /\ HashOf[NameOf[t]] \in Buckets /\ HashOf[NameOf[t]] # Array
           /\ HashOf[NameOf[t]] \in TableNames /\ NameOf[t] \in Names /\ t # NoTool
BY AccessAssumption DEF TableNames

\* mcp_server_add_tool takes a tool that is in no table and begins its insertion.
LEMMA AddToolKeepsFresh ==
    ASSUME MemoryInv, EntriesDistinct, PlanFresh, ToolFresh,
           NEW t \in Tools, mcp_server_add_tool(t)
    PROVE  EntriesDistinct' /\ PlanFresh' /\ ToolFresh'
<1> PICK m \in TableNames : m = op.table
  BY DEF MemoryInv, AccessTypeOK, Insertions
<1>1. AccessTypeOK /\ plan \in Seq(Tools)
  BY DEF MemoryInv, AccessTypeOK
<1>2. /\ op = NoOp /\ plan # <<>> /\ t = Head(plan) /\ plan' = Tail(plan)
      /\ Registry!mcp_server_find_tool_by_hash(NameOf[t]) = NoTool
      /\ op' = [NoOp EXCEPT !.tool = t, !.at = table[Array].count + 1, !.capacity = capacity]
      /\ rejected' = rejected
  BY DEF mcp_server_add_tool
<1>3. op'.tool = t /\ op'.table = Array /\ op'.allocated = FALSE
  BY <1>2 DEF NoOp
<1>4. EntriesDistinct' /\ \A k \in TableNames : Kept(k)' = Kept(k)
  BY EntriesStay, DistinctStays
<1>5. /\ IsInjective(plan') /\ t \in Range(plan) /\ t \notin Range(plan')
      /\ Range(plan') \subseteq Range(plan)
  BY <1>1, <1>2, HeadAndTail DEF PlanFresh
<1>6. Array \in TableNames /\ HashOf[NameOf[t]] \in TableNames
  BY BucketOf DEF TableNames
<1>7. PlanFresh'
  BY <1>2, <1>4, <1>5, <1>6 DEF PlanFresh
<1>8. \A u \in Kept(HashOf[NameOf[t]]) : NameOf[u] # NameOf[t]
  BY <1>2, BucketOf, NotFound
<1>9. t \notin Kept(Array) \cup rejected
  BY <1>5 DEF PlanFresh
<1>10. ToolFresh'
  BY <1>2, <1>3, <1>4, <1>5, <1>6, <1>8, <1>9 DEF ToolFresh
<1> QED
  BY <1>4, <1>7, <1>10

\* Where the call ends and the tool is registered or not.
LEMMA EndKeepsFresh ==
    ASSUME MemoryInv, EntriesDistinct, PlanFresh, ToolFresh,
           \/ grow_fails \/ add_tool_returns
           \/ \E t \in Tools : mcp_server_add_tool_duplicate(t)
    PROVE  EntriesDistinct' /\ PlanFresh' /\ ToolFresh'
<1> PICK m \in TableNames : m = op.table
  BY DEF MemoryInv, AccessTypeOK, Insertions
<1>1. EntriesDistinct' /\ \A k \in TableNames : Kept(k)' = Kept(k)
  BY EntriesStay, DistinctStays
<1>2. Array \in TableNames
  BY DEF TableNames
<1>3. op' = NoOp
  BY DEF grow_fails, add_tool_returns, mcp_server_add_tool_duplicate
<1>4. ASSUME add_tool_returns
      PROVE  PlanFresh'
  BY <1>1, <1>2, <1>4 DEF add_tool_returns, PlanFresh
<1>5. ASSUME grow_fails
      PROVE  PlanFresh'
  <2>1. /\ op # NoOp /\ plan' = plan
        /\ rejected' = rejected \/ rejected' = rejected \cup {op.tool}
    BY <1>5 DEF grow_fails
  <2>2. op.tool \notin Range(plan)
    BY <2>1 DEF ToolFresh
  <2> QED
    BY <1>1, <1>2, <2>1, <2>2 DEF PlanFresh
<1>6. ASSUME \E t \in Tools : mcp_server_add_tool_duplicate(t)
      PROVE  PlanFresh'
  <2>1. plan # <<>> /\ plan' = Tail(plan) /\ rejected' = rejected \cup {Head(plan)}
    BY <1>6 DEF mcp_server_add_tool_duplicate
  <2>2. plan \in Seq(Tools)
    BY DEF MemoryInv, AccessTypeOK
  <2>3. /\ IsInjective(plan') /\ Head(plan) \notin Range(plan')
        /\ Range(plan') \subseteq Range(plan)
    BY <2>1, <2>2, HeadAndTail DEF PlanFresh
  <2> QED
    BY <1>1, <1>2, <2>1, <2>3 DEF PlanFresh
<1>7. ToolFresh'
  BY <1>3 DEF ToolFresh
<1> QED
  BY <1>1, <1>4, <1>5, <1>6, <1>7

\* The steps between, but for the store of the slot.
LEMMA MoveKeepsFresh ==
    ASSUME MemoryInv, EntriesDistinct, PlanFresh, ToolFresh,
           \/ grow_moves \/ grow_in_place
           \/ \E x \in {"copy", "ptr", "count"} : store(x)
    PROVE  EntriesDistinct' /\ PlanFresh' /\ ToolFresh'
<1> PICK m \in TableNames : m = op.table
  BY DEF MemoryInv, AccessTypeOK, Insertions
<1>1. AccessTypeOK /\ InsertionStage
  BY DEF MemoryInv
<1>2. op \in Insertions /\ table \in [TableNames -> Tables] /\ Array \in TableNames
  BY <1>1 DEF AccessTypeOK, TableNames
<1>3. EntriesDistinct' /\ \A k \in TableNames : Kept(k)' = Kept(k)
  BY EntriesStay, DistinctStays
<1>4. plan' = plan /\ rejected' = rejected
  BY DEF grow_moves, grow_in_place, store
<1>5. PlanFresh'
  BY <1>2, <1>3, <1>4 DEF PlanFresh
<1>6. op # NoOp
  BY <1>1 DEF grow_moves, grow_in_place, store, InsertionStage, NoOp
<1>7. op'.tool = op.tool /\ op'.table = m
  <2>1. CASE grow_moves
    BY <2>1, <1>2 DEF grow_moves, Insertions
  <2>2. CASE grow_in_place
    BY <2>2, <1>2 DEF grow_in_place, Insertions
  <2>3. CASE \E x \in {"copy", "ptr", "count"} : store(x)
    BY <2>3, <1>2 DEF store, Insertions
  <2> QED
    BY <2>1, <2>2, <2>3
<1>8. Stored' <=> Stored
  <2>1. CASE grow_moves \/ grow_in_place
    <3>1. ~op.allocated /\ "slot" \in op'.pending
      <4>1. CASE grow_moves
        BY <4>1, <1>2 DEF grow_moves, Insertions
      <4>2. CASE grow_in_place
        BY <4>2, <1>2 DEF grow_in_place, Insertions
      <4> QED
        BY <2>1, <4>1, <4>2
    <3> QED
      BY <3>1 DEF Stored
  <2>2. CASE \E x \in {"copy", "ptr", "count"} : store(x)
    <3>1. PICK x \in {"copy", "ptr", "count"} : op' = [op EXCEPT !.pending = @ \ {x}]
      BY <2>2 DEF store
    <3>2. op'.allocated = op.allocated /\ op'.pending = op.pending \ {x}
      BY <3>1, <1>2 DEF Insertions
    <3> QED
      BY <3>1, <3>2 DEF Stored
  <2> QED
    BY <2>1, <2>2
<1>9. ASSUME m # Array
      PROVE  table'[Array] = table[Array]
  BY <1>2, <1>9 DEF grow_moves, grow_in_place, store
<1>10. HashOf[NameOf[op.tool]] \in TableNames
  BY <1>1, <1>6, BucketOf DEF InsertionStage
<1>11. ToolFresh'
  BY <1>2, <1>3, <1>4, <1>6, <1>7, <1>8, <1>9, <1>10 DEF ToolFresh
<1> QED
  BY <1>3, <1>5, <1>11

\* When main goes on from the array to the bucket, the tool is the array's last and its name is new there.
LEMMA HashNextKeepsFresh ==
    ASSUME MemoryInv, EntriesDistinct, PlanFresh, ToolFresh, hash_next
    PROVE  EntriesDistinct' /\ PlanFresh' /\ ToolFresh'
<1> PICK m \in TableNames : m = op.table
  BY DEF MemoryInv, AccessTypeOK, Insertions
<1>1. AccessTypeOK /\ InsertionStage
  BY DEF MemoryInv
<1>2. op \in Insertions /\ table \in [TableNames -> Tables] /\ Array \in TableNames
  BY <1>1 DEF AccessTypeOK, TableNames
<1>3. EntriesDistinct' /\ \A k \in TableNames : Kept(k)' = Kept(k)
  BY EntriesStay, DistinctStays
<1>4. /\ op # NoOp /\ op.allocated /\ op.pending = {} /\ op.table = Array
      /\ table' = table /\ plan' = plan /\ rejected' = rejected
  BY DEF hash_next
<1>5. PICK h : h = HashOf[NameOf[op.tool]]
  OBVIOUS
<1>6. op' = [op EXCEPT !.table = h, !.at = table[h].count + 1, !.allocated = FALSE]
  BY <1>5 DEF hash_next
<1>7. op'.tool = op.tool
  BY <1>2, <1>6 DEF Insertions
<1>8. op.tool \in Tools /\ op.at > 0 /\ op.at = table[Array].count
  BY <1>1, <1>2, <1>4 DEF InsertionStage, Insertions, Tables
<1>9. table[Array].count > 0 /\ table[Array].slots[table[Array].count] = op.tool
  BY <1>1, <1>4, <1>8 DEF InsertionStage, Stored
<1>10. PlanFresh'
  BY <1>2, <1>3, <1>4 DEF PlanFresh
<1>11. h \in TableNames /\ op'.table # Array
  <2>1. op'.table = h
    BY <1>2, <1>6 DEF Insertions
  <2> QED
    BY <2>1, <1>5, <1>8, BucketOf
<1>12. ToolFresh'
  BY <1>3, <1>4, <1>5, <1>7, <1>9, <1>11 DEF ToolFresh
<1> QED
  BY <1>3, <1>10, <1>12

\* The tool is stored in the array, where it was not, or in its bucket, where none has
\* its name.
LEMMA StoreKeepsFresh ==
    ASSUME MemoryInv, EntriesDistinct, PlanFresh, ToolFresh, store("slot")
    PROVE  EntriesDistinct' /\ PlanFresh' /\ ToolFresh'
<1>0. PICK m \in TableNames : m = op.table
  BY DEF MemoryInv, AccessTypeOK, Insertions
<1>1. AccessTypeOK /\ InsertionStage /\ op.at \in Nat
  BY DEF MemoryInv, AccessTypeOK, Insertions
<1>2. /\ op # NoOp /\ op.allocated /\ ~Stored /\ Stored'
      /\ op.at = Filled(m) + 1 /\ Filled(m)' = op.at
      /\ table'[m].slots[op.at] = op.tool
      /\ \A i \in 1..Filled(m) : table'[m].slots[i] = table[m].slots[i]
      /\ \A k \in TableNames : /\ table'[k].count = table[k].count
                               /\ k # m => Filled(k)' = Filled(k) /\ table'[k] = table[k]
      /\ op'.tool = op.tool /\ op'.table = m
  BY <1>0, EntryAdded
<1>3. plan' = plan /\ rejected' = rejected
  BY DEF store
<1>4. Filled(m) \in Int
  <2>1. table[m].count \in Nat
    BY <1>0, <1>1 DEF AccessTypeOK, Tables
  <2> QED
    BY <2>1, <1>1 DEF Filled
<1>5. Kept(m)' = Kept(m) \cup {op.tool}
  <2>1. Kept(m)' = {table'[m].slots[i] : i \in 1..op.at}
    BY <1>2 DEF Kept
  <2>2. 1..op.at = 1..Filled(m) \cup {op.at}
    BY <1>1, <1>2, <1>4 DEF InsertionStage
  <2> QED
    BY <2>1, <2>2, <1>2 DEF Kept
<1>6. \A k \in TableNames : k # m => Kept(k)' = Kept(k)
  BY <1>2 DEF Kept
<1>7. op.tool \in Tools /\ (m # Array => m = HashOf[NameOf[op.tool]])
  BY <1>0, <1>1, <1>2 DEF InsertionStage
<1>8. PICK h \in Buckets : h = HashOf[NameOf[op.tool]]
  BY <1>7, BucketOf
<1>9. Array \in TableNames /\ h \in TableNames /\ h # Array
  BY <1>8, AccessAssumption DEF TableNames
<1>10. CASE m = Array
  <2>1. op.tool \notin Kept(Array)
    BY <1>0, <1>2, <1>10 DEF ToolFresh
  <2>2. \A i, j \in 1..op.at : table'[Array].slots[i] = table'[Array].slots[j] => i = j
    <3>1. \A i, j \in 1..Filled(Array) : table[Array].slots[i] = table[Array].slots[j] => i = j
      BY DEF EntriesDistinct
    <3>2. \A i \in 1..op.at : i \in 1..Filled(Array) \/ i = op.at
      BY <1>1, <1>2, <1>4, <1>10
    <3>3. \A i \in 1..Filled(Array) : table[Array].slots[i] # op.tool
      BY <2>1 DEF Kept
    <3> QED
      BY <3>1, <3>2, <3>3, <1>2, <1>10
  <2>3. \A q \in Buckets : q \in TableNames /\ q # m
    BY <1>10, AccessAssumption DEF TableNames
  <2>4. EntriesDistinct'
    BY <2>2, <2>3, <1>2, <1>10 DEF EntriesDistinct
  <2>5. op.tool \notin Range(plan)
    BY <1>2 DEF ToolFresh
  <2>6. PlanFresh'
    BY <2>5, <1>3, <1>5, <1>10 DEF PlanFresh
  <2>7. \A t \in Kept(h)' : NameOf[t] # NameOf[op.tool]
    BY <1>0, <1>2, <1>6, <1>8, <1>9, <1>10 DEF ToolFresh
  <2>8. ToolFresh'
    BY <2>7, <1>2, <1>3, <1>8, <1>10 DEF ToolFresh
  <2> QED
    BY <2>4, <2>6, <2>8
<1>11. CASE m # Array
  <2>1. m = h
    BY <1>7, <1>8, <1>11
  <2>2. \A t \in Kept(h) : NameOf[t] # NameOf[op.tool]
    BY <1>2, <1>8 DEF ToolFresh
  <2>3. \A i, j \in 1..op.at : NameOf[table'[h].slots[i]] = NameOf[table'[h].slots[j]] => i = j
    <3>1. \A i, j \in 1..Filled(h) : NameOf[table[h].slots[i]] = NameOf[table[h].slots[j]] => i = j
      BY <1>8 DEF EntriesDistinct
    <3>2. \A i \in 1..op.at : i \in 1..Filled(h) \/ i = op.at
      BY <1>1, <1>2, <1>4, <2>1
    <3>3. \A i \in 1..Filled(h) : NameOf[table[h].slots[i]] # NameOf[op.tool]
      BY <2>2 DEF Kept
    <3> QED
      BY <3>1, <3>2, <3>3, <1>2, <2>1
  <2>4. \A q \in Buckets : q \in TableNames
    BY DEF TableNames
  <2>5. EntriesDistinct'
    BY <2>1, <2>3, <2>4, <1>2, <1>9, <1>11 DEF EntriesDistinct
  <2>6. PlanFresh'
    BY <1>3, <1>6, <1>9, <1>11 DEF PlanFresh
  <2>7. table'[Array] = table[Array]
    BY <1>2, <1>9, <1>11
  <2>8. ToolFresh'
    BY <2>7, <1>0, <1>2, <1>3, <1>11 DEF ToolFresh
  <2> QED
    BY <2>5, <2>6, <2>8
<1> QED
  BY <1>10, <1>11
-----------------------------------------------------------------------------
\* The numbers of entries, and what a table holds of them.
LEMMA EntryCounts ==
    ASSUME MemoryInv, NEW k \in TableNames
    PROVE  /\ table[k].slots \in Seq(Cells) /\ table[k].count \in Nat
           /\ Filled(k) \in Nat /\ Complete(k) \in Int
           /\ Complete(k) <= Filled(k) /\ Complete(k) <= table[k].count
           /\ Filled(k) <= Len(table[k].slots)
           /\ Range(Held(k)) = {table[k].slots[i] : i \in 1..Complete(k)}
           /\ \A i \in 1..Filled(k) : table[k].slots[i] \in Tools
<1>1. AccessTypeOK /\ InsertionStage /\ TableSound(k)
  BY DEF MemoryInv, TablesSound
<1>2. table[k] \in Tables /\ op \in Insertions
  BY <1>1 DEF AccessTypeOK
<1>3. table[k].slots \in Seq(Cells) /\ table[k].count \in Nat /\ op.at \in Nat
  BY <1>2 DEF Tables, Insertions
<1>4. Filled(k) \in Nat /\ Complete(k) \in Int
  BY <1>1, <1>3 DEF Filled, Complete, Inserting, InsertionStage
<1>5. Inserting(k) => op.at = table[k].count \/ op.at = table[k].count + 1
  BY <1>1, <1>3 DEF InsertionStage, Inserting
<1>6. Complete(k) <= Filled(k) /\ Complete(k) <= table[k].count
  BY <1>3, <1>5 DEF Filled, Complete, Inserting
<1>7. Filled(k) <= Len(table[k].slots) /\ Len(table[k].slots) \in Nat
  BY <1>1, <1>3 DEF TableSound
<1>8. Range(Held(k)) = {table[k].slots[i] : i \in 1..Complete(k)}
  BY <1>3, <1>4, <1>6, <1>7, HeldRange DEF Held
<1>9. ASSUME NEW i \in 1..Filled(k)
      PROVE  table[k].slots[i] \in Tools
  <2>1. i \in 1..Len(table[k].slots) /\ ~(i > Filled(k))
    BY <1>4, <1>7
  <2>2. table[k].slots[i] # Wild
    BY <1>1, <2>1 DEF TableSound
  <2> QED
    BY <2>1, <2>2, <1>3 DEF Cells
<1> QED
  BY <1>3, <1>4, <1>6, <1>7, <1>8, <1>9

\* So they are after a step.
Counted(k) == /\ Filled(k) \in Nat /\ Complete(k) \in Int /\ Complete(k) <= Len(table[k].slots)
              /\ Range(Held(k)) = {table[k].slots[i] : i \in 1..Complete(k)}

\* The same of the next state.
LEMMA EntryCountsNext ==
    ASSUME NEW k \in TableNames
    PROVE  MemoryInv' => Counted(k)'
<1>1. ASSUME MemoryInv
      PROVE  Counted(k)
  <2>1. /\ Filled(k) \in Nat /\ Complete(k) \in Int
        /\ Complete(k) <= Filled(k) /\ Filled(k) <= Len(table[k].slots)
        /\ table[k].slots \in Seq(Cells)
        /\ Range(Held(k)) = {table[k].slots[i] : i \in 1..Complete(k)}
    BY <1>1, EntryCounts
  <2> QED
    BY <2>1 DEF Counted
<1>2. MemoryInv => Counted(k)
  BY <1>1
<1> QED
  BY <1>2, PTL

\* As tables only grow, a reader sees what it saw.
LEMMA SightStays ==
    ASSUME MemoryInv, MemoryInv', NEW r \in Readers, ReaderSees(r),
           \A k \in TableNames : Grows(k),
           reader'[r] = reader[r] \/ reader'[r] = [reader[r] EXCEPT !.disturbed = TRUE]
    PROVE  ReaderSees(r)'
<1> PICK loop : loop = reader[r]
  OBVIOUS
<1>1. loop \in Loops
  BY DEF MemoryInv, AccessTypeOK
<1>2. /\ reader'[r].pc = loop.pc /\ reader'[r].table = loop.table /\ reader'[r].name = loop.name
      /\ reader'[r].i = loop.i /\ reader'[r].taken = loop.taken /\ reader'[r].must = loop.must
  BY <1>1 DEF Loops
<1> PICK m \in TableNames : m = loop.table
  BY <1>1 DEF Loops
<1>3. /\ Filled(m) \in Nat /\ Complete(m) \in Int /\ Complete(m) <= Filled(m)
      /\ Range(Held(m)) = {table[m].slots[i] : i \in 1..Complete(m)}
  BY EntryCounts
<1>4. /\ Filled(m)' \in Nat /\ Complete(m)' \in Int
      /\ Range(Held(m))' = {table'[m].slots[i] : i \in 1..Complete(m)'}
  BY EntryCountsNext DEF Counted
<1>5. /\ Filled(m) <= Filled(m)' /\ Complete(m) <= Complete(m)'
      /\ \A i \in 1..Filled(m) : table'[m].slots[i] = table[m].slots[i]
  BY DEF Grows
<1>6. Range(Held(m)) \subseteq Range(Held(m))'
  <2> SUFFICES ASSUME NEW i \in 1..Complete(m)
               PROVE  table[m].slots[i] \in Range(Held(m))'
    BY <1>3
  <2>1. i \in 1..Filled(m) /\ i \in 1..Complete(m)'
    BY <1>3, <1>4, <1>5
  <2> QED
    BY <2>1, <1>4, <1>5
<1>7. loop.i \in Nat \ {0} /\ loop.taken \in Seq(Tools) /\ Len(loop.taken) \in Nat
  BY <1>1 DEF Loops
<1>8. ASSUME loop.pc # "idle", loop.name = NoTool
      PROVE  /\ loop.table = Array /\ Len(loop.taken) <= Filled(m)'
             /\ \A j \in 1..Len(loop.taken) : loop.taken[j] = table'[m].slots[j]
  <2>1. /\ loop.table = Array /\ Len(loop.taken) <= Filled(m)
        /\ \A j \in 1..Len(loop.taken) : loop.taken[j] = table[m].slots[j]
    BY <1>8 DEF ReaderSees, Sees
  <2>2. \A j \in 1..Len(loop.taken) : j \in 1..Filled(m)
    BY <2>1, <1>3, <1>7
  <2> QED
    BY <2>1, <2>2, <1>3, <1>4, <1>5, <1>7
<1>9. ASSUME loop.pc \in {"count", "ptr", "slot"}
      PROVE  /\ loop.i - 1 <= Filled(m)'
             /\ loop.must \subseteq Range(Held(m))'
             /\ IF loop.name = NoTool THEN Len(loop.taken) = loop.i - 1
                ELSE /\ m \in Buckets
                     /\ loop.taken = <<>>
                     /\ \A t \in loop.must : NameOf[t] = loop.name
                     /\ \A j \in 1..loop.i - 1 : NameOf[table'[m].slots[j]] # loop.name
  <2>1. /\ loop.i - 1 <= Filled(m)
        /\ loop.must \subseteq Range(Held(m))
        /\ IF loop.name = NoTool THEN Len(loop.taken) = loop.i - 1
           ELSE /\ m \in Buckets
                /\ loop.taken = <<>>
                /\ \A t \in loop.must : NameOf[t] = loop.name
                /\ \A j \in 1..loop.i - 1 : NameOf[table[m].slots[j]] # loop.name
    BY <1>9 DEF ReaderSees, Sees
  <2>2. \A j \in 1..loop.i - 1 : j \in 1..Filled(m)
    BY <2>1, <1>3, <1>7
  <2>3. loop.i - 1 <= Filled(m)'
    BY <2>1, <1>3, <1>4, <1>5, <1>7
  <2> QED
    BY <2>1, <2>2, <2>3, <1>5, <1>6
<1>10. loop.pc # "idle" /\ loop.name # NoTool => \A t \in Range(loop.taken) : NameOf[t] = loop.name
  BY DEF ReaderSees, Sees
<1>11. loop.pc = "done" => /\ loop.must \subseteq Range(loop.taken)
                           /\ loop.name # NoTool => Len(loop.taken) <= 1
  BY DEF ReaderSees, Sees
<1> QED
  BY <1>2, <1>8, <1>9, <1>10, <1>11 DEF ReaderSees, Sees

\* A step of one reader leaves what the others see.
LEMMA OthersSee ==
    ASSUME MemoryInv, UNCHANGED memory, NEW r \in Readers, NEW loop, Sees(loop),
           reader' = [reader EXCEPT ![r] = loop],
           \A q \in Readers : ReaderSees(q)
    PROVE  \A q \in Readers : ReaderSees(q)'
<1>1. reader \in [Readers -> Loops]
  BY DEF MemoryInv, AccessTypeOK
<1>2. table' = table /\ op' = op
  BY DEF memory
<1>3. \A k : /\ Filled(k)' = Filled(k)
             /\ Range(Held(k))' = Range(Held(k))
  BY <1>2 DEF Filled, Inserting, Stored, Held, Complete
<1>4. reader'[r] = loop /\ \A q \in Readers : q # r => reader'[q] = reader[q]
  BY <1>1
<1>5. ReaderSees(r)'
  BY <1>2, <1>3, <1>4 DEF ReaderSees, Sees
<1>6. ASSUME NEW q \in Readers, q # r
      PROVE  ReaderSees(q)'
  <2>1. Sees(reader[q]) /\ reader'[q] = reader[q]
    BY <1>4, <1>6 DEF ReaderSees
  <2> QED
    BY <2>1, <1>2, <1>3 DEF ReaderSees, Sees
<1> QED
  BY <1>5, <1>6

\* A reader that enters its loop has taken nothing, and what it must find is all ahead of it.
LEMMA BeginsSees ==
    ASSUME MemoryInv, \A q \in Readers : ReaderSees(q),
           NEW r \in Readers, NEW k \in TableNames, NEW name \in Names \cup {NoTool},
           NEW must \in SUBSET Range(Held(k)), Begins(r, k, name, must),
           IF name = NoTool THEN k = Array
           ELSE k \in Buckets /\ \A t \in must : NameOf[t] = name
    PROVE  \A q \in Readers : ReaderSees(q)'
<1> DEFINE loop == [Idle EXCEPT !.pc = "count", !.table = k, !.name = name, !.must = must,
                                !.disturbed = (op # NoOp /\ op.table = k)]
<1>1. reader' = [reader EXCEPT ![r] = loop] /\ UNCHANGED memory
  BY DEF Begins
<1>2. Idle \in Loops /\ must \in SUBSET Tools
  BY HeldAreTools DEF Idle, Loops, TableNames
<1>3. loop \in Loops
  BY <1>2 DEF Loops
<1>4. loop.pc = "count" /\ loop.table = k /\ loop.name = name /\ loop.must = must
  BY <1>2 DEF Loops
<1>5. loop.i = 1 /\ loop.taken = <<>>
  BY DEF Idle
<1>6. Filled(k) \in Nat
  BY EntryCounts
<1>7. Len(loop.taken) = 0 /\ loop.i - 1 = 0
  BY <1>5
<1> HIDE DEF loop
<1>8. Sees(loop)
  BY <1>4, <1>5, <1>6, <1>7 DEF Sees, Range
<1> QED
  BY <1>1, <1>8, OthersSee

\* The load of the count ends the loop only when nothing that must be found is left ahead.
LEMMA LoadCountSees ==
    ASSUME MemoryInv, \A q \in Readers : ReaderSees(q), NEW r \in Readers, load_count(r)
    PROVE  \A q \in Readers : ReaderSees(q)'
<1>1. reader[r] \in Loops /\ ReaderSees(r)
  BY DEF MemoryInv, AccessTypeOK
<1> PICK m \in TableNames : m = reader[r].table
  BY <1>1 DEF Loops
<1> DEFINE q == reader[r]
           loop == [q EXCEPT !.pc = IF q.i <= table[m].count THEN "ptr" ELSE "done"]
<1>2. q.pc = "count" /\ UNCHANGED memory /\ reader' = [reader EXCEPT ![r] = loop]
  BY DEF load_count
<1>3. loop \in Loops
  BY <1>1 DEF Loops
<1>4. /\ loop.table = m /\ loop.name = q.name /\ loop.must = q.must /\ loop.i = q.i
      /\ loop.taken = q.taken /\ loop.pc = IF q.i <= table[m].count THEN "ptr" ELSE "done"
  BY <1>1 DEF Loops
<1>5. /\ IF q.name = NoTool
         THEN /\ m = Array
              /\ Len(q.taken) <= Filled(Array)
              /\ \A j \in 1..Len(q.taken) : q.taken[j] = table[m].slots[j]
         ELSE \A t \in Range(q.taken) : NameOf[t] = q.name
      /\ q.i - 1 <= Filled(m)
      /\ q.must \subseteq Range(Held(m))
      /\ IF q.name = NoTool THEN Len(q.taken) = q.i - 1
         ELSE /\ m \in Buckets
              /\ q.taken = <<>>
              /\ \A t \in q.must : NameOf[t] = q.name
              /\ \A j \in 1..q.i - 1 : NameOf[table[m].slots[j]] # q.name
  BY <1>1, <1>2 DEF ReaderSees, Sees
<1>6. /\ table[m].count \in Nat /\ Complete(m) \in Int /\ Complete(m) <= table[m].count
      /\ Range(Held(m)) = {table[m].slots[i] : i \in 1..Complete(m)}
  BY EntryCounts
<1>7. q.i \in Nat \ {0} /\ q.taken \in Seq(Tools)
  BY <1>1 DEF Loops
<1>8. ASSUME ~(q.i <= table[m].count)
      PROVE  /\ q.must \subseteq Range(q.taken)
             /\ q.name # NoTool => Len(q.taken) <= 1
  <2>1. \A t \in q.must : \E j \in 1..q.i - 1 : t = table[m].slots[j]
    BY <1>5, <1>6, <1>7, <1>8
  <2>2. q.name = NoTool => \A j \in 1..q.i - 1 : table[m].slots[j] \in Range(q.taken)
    <3> SUFFICES ASSUME q.name = NoTool, NEW j \in 1..q.i - 1
                 PROVE  table[m].slots[j] \in Range(q.taken)
      OBVIOUS
    <3>1. j \in 1..Len(q.taken) /\ q.taken[j] = table[m].slots[j]
      BY <1>5, <1>7
    <3> QED
      BY <3>1, <1>7 DEF Range
  <2>3. q.name # NoTool => q.must = {} /\ Len(q.taken) = 0
    BY <2>1, <1>5
  <2> QED
    BY <2>1, <2>2, <2>3
<1> HIDE DEF q, loop
<1>9. Sees(loop)
  BY <1>4, <1>5, <1>8 DEF Sees
<1> QED
  BY <1>2, <1>9, OthersSee

\* The load of the pointer takes nothing.
LEMMA LoadPtrSees ==
    ASSUME MemoryInv, \A q \in Readers : ReaderSees(q), NEW r \in Readers, load_ptr(r)
    PROVE  \A q \in Readers : ReaderSees(q)'
<1>1. reader[r] \in Loops /\ ReaderSees(r)
  BY DEF MemoryInv, AccessTypeOK
<1> PICK m \in TableNames : m = reader[r].table
  BY <1>1 DEF Loops
<1> DEFINE q == reader[r]
           loop == [q EXCEPT !.pc = "slot", !.ptr = table[m].ptr]
<1>2. q.pc = "ptr" /\ UNCHANGED memory /\ reader' = [reader EXCEPT ![r] = loop]
  BY DEF load_ptr
<1>3. loop \in Loops
  <2>1. table[m].ptr \in Nat
    BY DEF MemoryInv, AccessTypeOK, Tables
  <2> QED
    BY <2>1, <1>1 DEF Loops
<1>4. /\ loop.table = m /\ loop.name = q.name /\ loop.must = q.must /\ loop.i = q.i
      /\ loop.taken = q.taken /\ loop.pc = "slot"
  BY <1>1 DEF Loops
<1>5. /\ IF q.name = NoTool
         THEN /\ m = Array
              /\ Len(q.taken) <= Filled(Array)
              /\ \A j \in 1..Len(q.taken) : q.taken[j] = table[m].slots[j]
         ELSE \A t \in Range(q.taken) : NameOf[t] = q.name
      /\ q.i - 1 <= Filled(m)
      /\ q.must \subseteq Range(Held(m))
      /\ IF q.name = NoTool THEN Len(q.taken) = q.i - 1
         ELSE /\ m \in Buckets
              /\ q.taken = <<>>
              /\ \A t \in q.must : NameOf[t] = q.name
              /\ \A j \in 1..q.i - 1 : NameOf[table[m].slots[j]] # q.name
  BY <1>1, <1>2 DEF ReaderSees, Sees
<1> HIDE DEF q, loop
<1>6. Sees(loop)
  BY <1>4, <1>5 DEF Sees
<1> QED
  BY <1>2, <1>6, OthersSee

\* A lookup or a listing takes the entry at its index, or goes on past it.
LEMMA LoadSlotSees ==
    ASSUME MemoryInv, EntriesDistinct, \A q \in Readers : ReaderSees(q),
           NEW r \in Readers, load_slot(r)
    PROVE  \A q \in Readers : ReaderSees(q)'
<1>1. reader[r] \in Loops /\ ReaderSees(r) /\ AccessTypeOK
  BY DEF MemoryInv, AccessTypeOK
<1> PICK m \in TableNames : m = reader[r].table
  BY <1>1 DEF Loops
<1> PICK q : q = reader[r]
  OBVIOUS
<1> PICK t : t = Load(m, q.ptr, q.i)
  OBVIOUS
<1> DEFINE loop == IF t = Wild THEN [q EXCEPT !.pc = "wild"]
                   ELSE IF q.name = NoTool
                        THEN [q EXCEPT !.pc = "count", !.i = @ + 1, !.taken = Append(@, t)]
                   ELSE IF NameOf[t] = q.name THEN [q EXCEPT !.pc = "done", !.taken = <<t>>]
                   ELSE [q EXCEPT !.pc = "count", !.i = @ + 1]
<1>2. q.pc = "slot" /\ UNCHANGED memory /\ reader' = [reader EXCEPT ![r] = loop]
  BY DEF load_slot
<1>3. /\ IF q.name = NoTool
         THEN /\ m = Array
              /\ Len(q.taken) <= Filled(Array)
              /\ \A j \in 1..Len(q.taken) : q.taken[j] = table[m].slots[j]
         ELSE \A u \in Range(q.taken) : NameOf[u] = q.name
      /\ q.i - 1 <= Filled(m)
      /\ q.must \subseteq Range(Held(m))
      /\ IF q.name = NoTool THEN Len(q.taken) = q.i - 1
         ELSE /\ m \in Buckets
              /\ q.taken = <<>>
              /\ \A u \in q.must : NameOf[u] = q.name
              /\ \A j \in 1..q.i - 1 : NameOf[table[m].slots[j]] # q.name
  BY <1>1, <1>2 DEF ReaderSees, Sees
<1>4. /\ table[m].slots \in Seq(Cells) /\ Filled(m) \in Nat
      /\ Complete(m) \in Int /\ Complete(m) <= Filled(m)
      /\ Range(Held(m)) = {table[m].slots[i] : i \in 1..Complete(m)}
      /\ \A i \in 1..Filled(m) : table[m].slots[i] \in Tools
  BY EntryCounts
<1>5. q \in Loops /\ q.i \in Nat \ {0} /\ q.taken \in Seq(Tools) /\ q.table = m
  BY <1>1 DEF Loops
<1>6. ASSUME t # Wild
      PROVE  q.i \in 1..Filled(m) /\ t = table[m].slots[q.i] /\ t \in Tools
  <2>1. ~(q.i > Len(table[m].slots)) /\ t = table[m].slots[q.i]
    BY <1>6 DEF Load
  <2>2. q.i \in 1..Len(table[m].slots) /\ Len(table[m].slots) \in Nat
    BY <2>1, <1>4, <1>5
  <2>3. TableSound(m)
    BY DEF MemoryInv, TablesSound
  <2>4. ~(q.i > Filled(m))
    BY <1>6, <2>1, <2>2, <2>3 DEF TableSound
  <2>5. q.i \in 1..Filled(m)
    BY <2>4, <1>4, <1>5
  <2> QED
    BY <2>1, <2>5, <1>4
<1>7. CASE t = Wild
  <2> DEFINE next == [q EXCEPT !.pc = "wild"]
  <2>1. /\ next.table = m /\ next.name = q.name /\ next.taken = q.taken /\ next.pc = "wild"
    BY <1>5 DEF Loops
  <2>2. loop = next
    BY <1>7
  <2> HIDE DEF next
  <2>3. Sees(next)
    BY <2>1, <1>3 DEF Sees
  <2> QED
    BY <2>2, <2>3, <1>2, OthersSee
<1>8. CASE t # Wild /\ q.name = NoTool
  <2> DEFINE next == [q EXCEPT !.pc = "count", !.i = @ + 1, !.taken = Append(@, t)]
  <2>1. /\ next.table = m /\ next.name = q.name /\ next.taken = Append(q.taken, t)
        /\ next.pc = "count" /\ next.must = q.must /\ next.i = q.i + 1
    BY <1>5 DEF Loops
  <2>2. loop = next
    BY <1>8
  <2> HIDE DEF next
  <2>3. /\ Len(next.taken) = q.i /\ m = Array
        /\ \A j \in 1..q.i - 1 : next.taken[j] = table[m].slots[j]
        /\ next.taken[q.i] = table[m].slots[q.i]
    BY <2>1, <1>3, <1>5, <1>6, <1>8
  <2>4. \A j \in 1..q.i : next.taken[j] = table[m].slots[j]
    <3>1. \A j \in 1..q.i : j \in 1..q.i - 1 \/ j = q.i
      BY <1>5
    <3> QED
      BY <2>3, <3>1
  <2>5. q.i <= Filled(m) /\ next.i - 1 = q.i
    BY <2>1, <1>4, <1>5, <1>6, <1>8
  <2>6. Sees(next)
    BY <2>1, <2>3, <2>4, <2>5, <1>3, <1>8 DEF Sees
  <2> QED
    BY <2>2, <2>6, <1>2, OthersSee
<1>9. CASE t # Wild /\ q.name # NoTool /\ NameOf[t] = q.name
  <2> DEFINE next == [q EXCEPT !.pc = "done", !.taken = <<t>>]
  <2>1. /\ next.table = m /\ next.name = q.name /\ next.taken = <<t>>
        /\ next.pc = "done" /\ next.must = q.must
    BY <1>5 DEF Loops
  <2>2. loop = next
    BY <1>9
  <2> HIDE DEF next
  <2>3. Range(next.taken) = {t} /\ Len(next.taken) = 1
    BY <2>1 DEF Range
  <2>4. ASSUME NEW u \in q.must
        PROVE  u = t
    <3>1. NameOf[u] = q.name /\ m \in Buckets
      BY <1>3, <1>9
    <3>2. PICK j \in 1..Complete(m) : u = table[m].slots[j]
      BY <1>3, <1>4
    <3>3. j \in 1..Filled(m)
      BY <1>4
    <3>4. NameOf[table[m].slots[j]] = NameOf[table[m].slots[q.i]]
      BY <3>1, <3>2, <1>6, <1>9
    <3>5. j = q.i
      BY <3>1, <3>3, <3>4, <1>6, <1>9 DEF EntriesDistinct
    <3> QED
      BY <3>2, <3>5, <1>6, <1>9
  <2>5. Sees(next)
    BY <2>1, <2>3, <2>4, <1>9 DEF Sees
  <2> QED
    BY <2>2, <2>5, <1>2, OthersSee
<1>10. CASE t # Wild /\ q.name # NoTool /\ NameOf[t] # q.name
  <2> DEFINE next == [q EXCEPT !.pc = "count", !.i = @ + 1]
  <2>1. /\ next.table = m /\ next.name = q.name /\ next.taken = q.taken
        /\ next.pc = "count" /\ next.must = q.must /\ next.i = q.i + 1
    BY <1>5 DEF Loops
  <2>2. loop = next
    BY <1>10
  <2> HIDE DEF next
  <2>3. \A j \in 1..q.i : NameOf[table[m].slots[j]] # q.name
    <3>1. \A j \in 1..q.i : j \in 1..q.i - 1 \/ j = q.i
      BY <1>5
    <3> QED
      BY <3>1, <1>3, <1>6, <1>10
  <2>4. q.i <= Filled(m) /\ next.i - 1 = q.i
    BY <2>1, <1>4, <1>5, <1>6, <1>10
  <2>5. Sees(next)
    BY <2>1, <2>3, <2>4, <1>3, <1>10 DEF Sees
  <2> QED
    BY <2>2, <2>5, <1>2, OthersSee
<1> QED
  BY <1>7, <1>8, <1>9, <1>10

\* A step of main: the tables grow, and readers are left alone or marked.
LEMMA MainSees ==
    ASSUME MemoryInv, MemoryInv', \A r \in Readers : ReaderSees(r), Main
    PROVE  \A r \in Readers : ReaderSees(r)'
<1> PICK m \in TableNames : m = op.table
  BY DEF MemoryInv, AccessTypeOK, Insertions
<1>1. ASSUME NEW k \in TableNames
      PROVE  Grows(k)
  <2>1. Filled(k) \in Nat /\ Complete(k) \in Int
    BY EntryCounts
  <2>2. CASE store("slot")
    BY <2>1, <2>2, EntryAdded DEF Grows
  <2>3. CASE ~store("slot")
    <3>1. /\ Filled(k)' = Filled(k) /\ Complete(k) <= Complete(k)'
          /\ \A i \in 1..Filled(k) : table'[k].slots[i] = table[k].slots[i]
      BY <2>3, EntriesStay DEF Main
    <3> QED
      BY <2>1, <3>1 DEF Grows
  <2> QED
    BY <2>2, <2>3
<1>2. ASSUME NEW r \in Readers
      PROVE  reader'[r] = reader[r] \/ reader'[r] = [reader[r] EXCEPT !.disturbed = TRUE]
  <2>1. reader' = reader \/ \E k : Disturb(k)
    BY DEF Main, mcp_server_add_tool, mcp_server_add_tool_duplicate, grow_moves, grow_in_place,
           grow_fails, store, hash_next, add_tool_returns
  <2> QED
    BY <2>1 DEF Disturb
<1> QED
  BY <1>1, <1>2, SightStays

\* Before the first registration there is nothing to see.
LEMMA SightInit ==
    ASSUME AccessInit
    PROVE  SightInv
<1>1. MemoryInv
  BY MemoryInit
<1>2. /\ table = [k \in TableNames |-> [ptr |-> 0, live |-> 0, count |-> 0, slots |-> <<>>]]
      /\ op = NoOp /\ plan \in Orders /\ rejected = {}
      /\ reader = [r \in Readers |-> Idle]
  BY DEF AccessInit
<1>3. \A k \in TableNames : Filled(k) = 0
  BY <1>2 DEF Filled, Inserting
<1>4. EntriesDistinct
  BY <1>3 DEF EntriesDistinct, TableNames
<1>5. PlanFresh
  <2>1. Kept(Array) = {}
    BY <1>3 DEF Kept, TableNames
  <2> QED
    BY <2>1, <1>2, AccessAssumption DEF PlanFresh
<1>6. ToolFresh
  BY <1>2 DEF ToolFresh
<1>7. \A r \in Readers : ReaderSees(r)
  BY <1>2 DEF ReaderSees, Sees, Idle
<1> QED
  BY <1>1, <1>4, <1>5, <1>6, <1>7 DEF SightInv

\* Every step of main and of the readers keeps what readers have seen and have still to see.
LEMMA SightStep ==
    ASSUME SightInv, [AccessNext]_accessVars
    PROVE  SightInv'
<1>1. MemoryInv /\ EntriesDistinct /\ PlanFresh /\ ToolFresh /\ \A r \in Readers : ReaderSees(r)
  BY DEF SightInv
<1>2. MemoryInv'
  BY <1>1, MemoryStep
<1>3. CASE Main
  <2>1. \A r \in Readers : ReaderSees(r)'
    BY <1>1, <1>2, <1>3, MainSees
  <2>2. EntriesDistinct' /\ PlanFresh' /\ ToolFresh'
    <3>1. ASSUME NEW t \in Tools, mcp_server_add_tool(t)
          PROVE  EntriesDistinct' /\ PlanFresh' /\ ToolFresh'
      BY <1>1, <3>1, AddToolKeepsFresh
    <3>2. CASE grow_fails \/ add_tool_returns \/ \E t \in Tools : mcp_server_add_tool_duplicate(t)
      BY <1>1, <3>2, EndKeepsFresh
    <3>3. CASE grow_moves \/ grow_in_place \/ \E x \in {"copy", "ptr", "count"} : store(x)
      BY <1>1, <3>3, MoveKeepsFresh
    <3>4. CASE hash_next
      BY <1>1, <3>4, HashNextKeepsFresh
    <3>5. CASE store("slot")
      BY <1>1, <3>5, StoreKeepsFresh
    <3> QED
      BY <1>3, <3>1, <3>2, <3>3, <3>4, <3>5 DEF Main
  <2> QED
    BY <1>2, <2>1, <2>2 DEF SightInv
<1>4. UNCHANGED memory => EntriesDistinct' /\ PlanFresh' /\ ToolFresh'
  BY <1>1 DEF memory, EntriesDistinct, PlanFresh, ToolFresh, Filled, Kept, Inserting, Stored
<1>5. ASSUME NEW r \in Readers, Reader(r)
      PROVE  SightInv'
  <2>1. UNCHANGED memory
    BY <1>5 DEF Reader, load_count, load_ptr, load_slot
  <2>2. \A q \in Readers : ReaderSees(q)'
    BY <1>1, <1>5, LoadCountSees, LoadPtrSees, LoadSlotSees DEF Reader
  <2> QED
    BY <1>2, <1>4, <2>1, <2>2 DEF SightInv
<1>6. ASSUME NEW r \in Readers, list_begin(r)
      PROVE  SightInv'
  <2>1. Begins(r, Array, NoTool, Range(Held(Array)))
    BY <1>6 DEF list_begin
  <2>2. Array \in TableNames /\ Range(Held(Array)) \in SUBSET Range(Held(Array))
    BY DEF TableNames
  <2>3. UNCHANGED memory
    BY <2>1 DEF Begins
  <2>4. \A q \in Readers : ReaderSees(q)'
    BY <1>1, <2>1, <2>2, BeginsSees
  <2> QED
    BY <1>2, <1>4, <2>3, <2>4 DEF SightInv
<1>7. ASSUME NEW r \in Readers, NEW name \in Names, find_begin(r, name)
      PROVE  SightInv'
  <2> DEFINE must == {t \in Tools : NameOf[t] = name} \cap Range(Held(HashOf[name]))
  <2>1. Begins(r, HashOf[name], name, must)
    BY <1>7 DEF find_begin
  <2>2. /\ HashOf[name] \in Buckets /\ HashOf[name] \in TableNames /\ name # NoTool
        /\ must \in SUBSET Range(Held(HashOf[name])) /\ \A t \in must : NameOf[t] = name
    BY AccessAssumption DEF TableNames
  <2>3. UNCHANGED memory
    BY <2>1 DEF Begins
  <2> HIDE DEF must
  <2>4. \A q \in Readers : ReaderSees(q)'
    BY <1>1, <2>1, <2>2, BeginsSees
  <2> QED
    BY <1>2, <1>4, <2>3, <2>4 DEF SightInv
<1>8. CASE UNCHANGED accessVars
  <2>1. UNCHANGED memory /\ reader' = reader /\ table' = table /\ op' = op
    BY <1>8 DEF accessVars, memory
  <2>2. \A q \in Readers : ReaderSees(q)'
    BY <1>1, <2>1 DEF ReaderSees, Sees, Filled, Held, Complete, Inserting, Stored
  <2> QED
    BY <1>2, <1>4, <2>1, <2>2 DEF SightInv
<1> QED
  BY <1>3, <1>5, <1>6, <1>7, <1>8 DEF AccessNext

\* SightInv holds in every state.
THEOREM AccessSight == AccessSpec => []SightInv
<1>1. AccessInit => SightInv
  BY SightInit
<1>2. SightInv /\ [AccessNext]_accessVars => SightInv'
  BY SightStep
<1> QED
  BY <1>1, <1>2, PTL DEF AccessSpec

\* RegisteredIsSeen holds in every state: mcp_server_find_tool_by_hash and the loop of
\* mcp_server_build_tools_list, unless they went wild, have seen every tool that was
\* registered when they began, once, in the order of the array.
THEOREM AccessRegisteredIsSeen == AccessSpec => []RegisteredIsSeen
<1>1. SightInv => RegisteredIsSeen
  <2> SUFFICES ASSUME SightInv, NEW r \in Readers, reader[r].pc = "done"
               PROVE  LET loop == reader[r]
                      IN  /\ loop.must \subseteq Range(loop.taken)
                          /\ IsInjective(loop.taken)
                          /\ loop.name = NoTool => IsPrefix(loop.taken, table[Array].slots)
                          /\ loop.name # NoTool => \A t \in Range(loop.taken) : NameOf[t] = loop.name
    BY DEF RegisteredIsSeen
  <2>1. MemoryInv /\ EntriesDistinct /\ Sees(reader[r]) /\ Array \in TableNames
    BY DEF SightInv, ReaderSees, TableNames
  <2>2. reader[r].taken \in Seq(Tools)
    BY <2>1 DEF MemoryInv, AccessTypeOK, Loops
  <2>3. /\ reader[r].must \subseteq Range(reader[r].taken)
        /\ reader[r].name # NoTool => /\ Len(reader[r].taken) <= 1
                                      /\ \A t \in Range(reader[r].taken) : NameOf[t] = reader[r].name
    BY <2>1 DEF Sees
  <2>4. reader[r].name # NoTool => IsInjective(reader[r].taken)
    BY <2>2, <2>3 DEF IsInjective
  <2>5. ASSUME reader[r].name = NoTool
        PROVE  IsInjective(reader[r].taken) /\ IsPrefix(reader[r].taken, table[Array].slots)
    <3>1. /\ Len(reader[r].taken) <= Filled(Array)
          /\ \A j \in 1..Len(reader[r].taken) : reader[r].taken[j] = table[Array].slots[j]
      BY <2>1, <2>5 DEF Sees
    <3>2. /\ Filled(Array) \in Nat /\ Filled(Array) <= Len(table[Array].slots)
          /\ table[Array].slots \in Seq(Cells)
      BY <2>1, EntryCounts
    <3>3. Len(reader[r].taken) \in Nat /\ DOMAIN reader[r].taken = 1..Len(reader[r].taken)
      BY <2>2
    <3>4. IsInjective(reader[r].taken)
      <4>1. \A j \in 1..Len(reader[r].taken) : j \in 1..Filled(Array)
        BY <3>1, <3>2, <3>3
      <4> QED
        BY <4>1, <3>1, <3>3, <2>1 DEF IsInjective, EntriesDistinct
    <3>5. IsPrefix(reader[r].taken, table[Array].slots)
      <4> PICK a : a = reader[r].taken
        OBVIOUS
      <4> PICK b : b = table[Array].slots
        OBVIOUS
      <4>1. Len(a) \in Nat /\ Len(b) \in Nat /\ Len(a) <= Len(b)
        BY <3>1, <3>2, <3>3
      <4>2. SubSeq(a, 1, Len(a)) = [i \in 1..Len(a) |-> a[i]]
        <5>1. SubSeq(a, 1, Len(a)) = [i \in 1..(1 + Len(a) - 1) |-> a[1 + i - 1]]
          BY <2>2
        <5> QED
          BY <5>1, <4>1
      <4>3. SubSeq(b, 1, Len(a)) = [i \in 1..Len(a) |-> b[i]]
        <5>1. SubSeq(b, 1, Len(a)) = [i \in 1..(1 + Len(a) - 1) |-> b[1 + i - 1]]
          BY <3>2
        <5> QED
          BY <5>1, <4>1
      <4> QED
        BY <3>1, <4>1, <4>2, <4>3 DEF IsPrefix
    <3> QED
      BY <3>4, <3>5
  <2> QED
    BY <2>3, <2>4, <2>5
<1> QED
  BY <1>1, AccessSight, PTL
-----------------------------------------------------------------------------
\* While a tool is registered, the capacity is the old one until the array is allocated,
\* and from then on what one doubling makes of it.
CapacityStage ==
    op # NoOp =>
        LET required == IF op.table = Array THEN op.at ELSE table[Array].count
        IN  capacity = IF (op.table = Array /\ ~op.allocated) \/ required <= op.capacity THEN op.capacity
                       ELSE IF op.capacity = 0 THEN 4 ELSE op.capacity * 2

\* CapacityStage holds in every state that SightInv allows.
LEMMA CapacityStep ==
    ASSUME SightInv, CapacityStage, [AccessNext]_accessVars
    PROVE  CapacityStage'
<1>1. MemoryInv /\ ToolFresh /\ AccessTypeOK /\ InsertionStage
  BY DEF SightInv, MemoryInv
<1>2. op \in Insertions /\ table \in [TableNames -> Tables] /\ Array \in TableNames
  BY <1>1 DEF AccessTypeOK, TableNames
<1> PICK m \in TableNames : m = op.table
  BY <1>2 DEF Insertions
<1>3. ASSUME NEW t \in Tools, mcp_server_add_tool(t)
      PROVE  CapacityStage'
  <2>1. op'.table = Array /\ op'.allocated = FALSE /\ op'.capacity = capacity /\ capacity' = capacity
    BY <1>3 DEF mcp_server_add_tool, NoOp
  <2> QED
    BY <2>1 DEF CapacityStage
<1>4. CASE grow_fails \/ add_tool_returns \/ \E t \in Tools : mcp_server_add_tool_duplicate(t)
  <2>1. op' = NoOp
    BY <1>4 DEF grow_fails, add_tool_returns, mcp_server_add_tool_duplicate
  <2> QED
    BY <2>1 DEF CapacityStage
<1>5. CASE grow_moves \/ grow_in_place
  <2>1. op # NoOp /\ ~op.allocated /\ capacity' = IF m = Array THEN Size ELSE capacity
    BY <1>5 DEF grow_moves, grow_in_place
  <2>2. op'.table = m /\ op'.allocated = TRUE /\ op'.capacity = op.capacity /\ op'.at = op.at
    <3>1. CASE grow_moves
      BY <1>2, <3>1 DEF grow_moves, Insertions
    <3>2. CASE grow_in_place
      BY <1>2, <3>2 DEF grow_in_place, Insertions
    <3> QED
      BY <1>5, <3>1, <3>2
  <2>3. m # Array => table'[Array] = table[Array]
    <3>1. CASE grow_moves
      BY <1>2, <3>1 DEF grow_moves
    <3>2. CASE grow_in_place
      BY <1>2, <3>2 DEF grow_in_place
    <3> QED
      BY <1>5, <3>1, <3>2
  <2>4. m = Array => capacity = op.capacity
    BY <2>1 DEF CapacityStage
  <2> QED
    BY <2>1, <2>2, <2>3, <2>4 DEF CapacityStage, Size
<1>6. ASSUME NEW x \in Stores, store(x)
      PROVE  CapacityStage'
  <2>1. op # NoOp /\ op.allocated
    BY <1>1, <1>6 DEF store, InsertionStage, NoOp
  <2>2. /\ op'.table = m /\ op'.allocated = op.allocated /\ op'.capacity = op.capacity
        /\ op'.at = op.at /\ capacity' = capacity
    BY <1>2, <1>6 DEF store, Insertions
  <2>3. m # Array => table'[Array] = table[Array]
    <3>1. x = "copy" => table' = table
      BY <1>6 DEF store
    <3>2. x = "ptr" => table' = [table EXCEPT ![m].ptr = table[m].live]
      BY <1>6 DEF store
    <3>3. x = "count" => table' = [table EXCEPT ![m].count = op.at]
      BY <1>6 DEF store
    <3>4. x = "slot" /\ m # Array => table'[Array] = table[Array]
      BY <1>2, <1>6 DEF store
    <3> QED
      BY <3>1, <3>2, <3>3, <3>4, <1>2 DEF Stores
  <2> QED
    BY <2>1, <2>2, <2>3 DEF CapacityStage
<1>7. CASE hash_next
  <2>1. /\ op # NoOp /\ op.allocated /\ op.pending = {} /\ m = Array
        /\ table' = table /\ capacity' = capacity
    BY <1>7 DEF hash_next
  <2>2. PICK h : h = HashOf[NameOf[op.tool]]
    OBVIOUS
  <2>3. op' = [op EXCEPT !.table = h, !.at = table[h].count + 1, !.allocated = FALSE]
    BY <1>7, <2>2 DEF hash_next
  <2>4. op'.table = h /\ op'.capacity = op.capacity
    BY <2>3, <1>2 DEF Insertions
  <2>5. h # Array
    BY <2>1, <2>2, <1>1, BucketOf DEF InsertionStage
  <2>6. op.at = table[Array].count
    BY <2>1, <1>1, <1>2 DEF InsertionStage, Tables
  <2> QED
    BY <2>1, <2>4, <2>5, <2>6 DEF CapacityStage
<1>8. CASE UNCHANGED memory
  BY <1>8 DEF memory, CapacityStage
<1>9. UNCHANGED accessVars => UNCHANGED memory
  BY DEF accessVars
<1>10. ASSUME NEW r \in Readers,
              Reader(r) \/ list_begin(r) \/ \E name \in Names : find_begin(r, name)
       PROVE  UNCHANGED memory
  BY <1>10 DEF Reader, load_count, load_ptr, load_slot, list_begin, find_begin, Begins
<1> QED
  BY <1>3, <1>4, <1>5, <1>6, <1>7, <1>8, <1>9, <1>10 DEF AccessNext, Main, Stores

\* What mcp_server_reserve_tools asks for one more tool: one doubling, or nothing.
LEMMA ReservedOnce ==
    ASSUME op # NoOp, op.capacity \in Nat, NEW n \in Nat, NEW size, n <= size,
           size = IF n <= op.capacity THEN op.capacity
                  ELSE IF op.capacity = 0 THEN 4 ELSE op.capacity * 2
    PROVE  Registry!Reserved(n) = size
<1> PICK c \in Nat : c = op.capacity
  OBVIOUS
<1>0. CASE n <= c
  BY <1>0 DEF Registry!Reserved
<1> SUFFICES ASSUME ~(n <= c)
             PROVE  Registry!Reserved(n) = size
  BY <1>0
<1> DEFINE grown == IF c = 0 THEN 4 ELSE c * 2
           Enough(k) == grown * 2^k >= n
           Least(k) == Enough(k) /\ \A j \in 0..k - 1 : ~Enough(j)
<1>1. Registry!Reserved(n) = IF n <= c THEN c ELSE grown * 2^(CHOOSE k \in 0..n : Least(k))
  BY DEF Registry!Reserved
<1>2. grown \in Nat /\ n <= grown
  BY DEF grown
<1>3. grown * 2^0 = grown
  <2>1. 2^0 = 1
    OBVIOUS
  <2> QED
    BY <2>1, <1>2
<1>4. Enough(0)
  BY <1>2, <1>3
<1>5. 0 \in 0..n /\ Least(0)
  BY <1>4
<1>6. ASSUME NEW k \in 0..n, Least(k)
      PROVE  k = 0
  <2>1. k # 0 => 0 \in 0..k - 1
    OBVIOUS
  <2> HIDE DEF Enough
  <2> QED
    BY <2>1, <1>4, <1>6
<1>7. (CHOOSE k \in 0..n : Least(k)) = 0
  <2> HIDE DEF Least
  <2> QED
    BY <1>5, <1>6
<1> HIDE DEF grown, Least
<1>8. Registry!Reserved(n) = IF n <= c THEN c ELSE grown
  BY <1>1, <1>3, <1>7
<1> QED
  BY <1>8 DEF grown

\* Sequences with the same first n elements, and one element more.
LEMMA SameStart ==
    ASSUME NEW a \in Seq(Cells), NEW b \in Seq(Cells), NEW n \in Int, n <= Len(a), n <= Len(b),
           \A i \in 1..n : a[i] = b[i]
    PROVE  SubSeq(a, 1, n) = SubSeq(b, 1, n)
<1>1. /\ SubSeq(a, 1, n) \in Seq(Cells) /\ Len(SubSeq(a, 1, n)) = IF n > 0 THEN n ELSE 0
      /\ \A i \in 1..n : SubSeq(a, 1, n)[i] = a[i]
  BY HeldRange
<1>2. /\ SubSeq(b, 1, n) \in Seq(Cells) /\ Len(SubSeq(b, 1, n)) = IF n > 0 THEN n ELSE 0
      /\ \A i \in 1..n : SubSeq(b, 1, n)[i] = b[i]
  BY HeldRange
<1>3. \A i \in 1..Len(SubSeq(a, 1, n)) : i \in 1..n
  BY <1>1
<1> QED
  BY <1>1, <1>2, <1>3, SeqEqual

\* A prefix that is one longer is the prefix with the next element appended.
LEMMA OneMore ==
    ASSUME NEW a \in Seq(Cells), NEW n \in Nat, n + 1 <= Len(a)
    PROVE  SubSeq(a, 1, n + 1) = Append(SubSeq(a, 1, n), a[n + 1])
<1> DEFINE b == SubSeq(a, 1, n)
           c == SubSeq(a, 1, n + 1)
           e == a[n + 1]
<1>1. b \in Seq(Cells) /\ Len(b) = n /\ \A i \in 1..n : b[i] = a[i]
  BY HeldRange
<1>2. c \in Seq(Cells) /\ Len(c) = n + 1 /\ \A i \in 1..n + 1 : c[i] = a[i]
  <2>1. n + 1 \in Int /\ n + 1 > 0
    OBVIOUS
  <2> QED
    BY <2>1, HeldRange
<1>3. e \in Cells
  OBVIOUS
<1> HIDE DEF b, c, e
<1>4. /\ Append(b, e) \in Seq(Cells) /\ Len(Append(b, e)) = n + 1
      /\ \A i \in 1..n : Append(b, e)[i] = b[i]
      /\ Append(b, e)[n + 1] = e
  BY <1>1, <1>3, AppendProperties
<1>5. \A i \in 1..n + 1 : i \in 1..n \/ i = n + 1
  OBVIOUS
<1>6. c[n + 1] = e
  BY <1>2 DEF e
<1>7. \A i \in 1..Len(c) : c[i] = Append(b, e)[i]
  BY <1>1, <1>2, <1>4, <1>5, <1>6
<1>8. c = Append(b, e)
  BY <1>2, <1>4, <1>7, SeqEqual
<1> QED
  BY <1>8 DEF b, c, e

\* What a table holds is the same as long as as many entries are complete.
LEMMA HeldStays ==
    ASSUME MemoryInv, MemoryInv', NEW k \in TableNames, Complete(k)' = Complete(k),
           \A i \in 1..Filled(k) : table'[k].slots[i] = table[k].slots[i]
    PROVE  Held(k)' = Held(k)
<1> PICK a : a = table[k].slots
  OBVIOUS
<1> PICK b : b = table'[k].slots
  OBVIOUS
<1> PICK n : n = Complete(k)
  OBVIOUS
<1>1. a \in Seq(Cells) /\ n \in Int /\ n <= Filled(k) /\ Filled(k) \in Nat /\ Filled(k) <= Len(a)
  BY EntryCounts
<1>2. b \in Seq(Cells)
  BY DEF MemoryInv, AccessTypeOK, Tables
<1>3. n <= Len(a) /\ n <= Len(b)
  BY <1>1, EntryCountsNext DEF Counted
<1>4. \A i \in 1..n : a[i] = b[i]
  BY <1>1
<1>5. SubSeq(a, 1, n) = SubSeq(b, 1, n)
  BY <1>1, <1>2, <1>3, <1>4, SameStart
<1> QED
  BY <1>5 DEF Held

\* The capacity as the registry has it.
Capacity == IF op = NoOp THEN capacity ELSE op.capacity

\* The steps of a registration that do not end it change nothing in the registry.
LEMMA BetweenStutters ==
    ASSUME MemoryInv, MemoryInv', NEW m \in TableNames, m = op.table,
           \/ \E t \in Tools : mcp_server_add_tool(t)
           \/ grow_moves \/ grow_in_place \/ hash_next
           \/ \E x \in Stores : store(x)
    PROVE  UNCHANGED Registry!registryVars
<1>1. op \in Insertions /\ op' \in Insertions /\ InsertionStage
  BY DEF MemoryInv, AccessTypeOK
<1>2. unhashed' = unhashed /\ rejected' = rejected
  BY DEF mcp_server_add_tool, grow_moves, grow_in_place, hash_next, store
<1>3. op' # NoOp /\ Capacity' = Capacity
  <2>1. CASE \E t \in Tools : mcp_server_add_tool(t)
    <3>1. PICK t \in Tools : mcp_server_add_tool(t)
      BY <2>1
    <3>2. op = NoOp /\ op'.tool = t /\ op'.capacity = capacity
      BY <3>1 DEF mcp_server_add_tool, NoOp
    <3>3. op' # NoOp
      BY <3>2, AccessAssumption DEF NoOp
    <3> QED
      BY <3>2, <3>3 DEF Capacity
  <2>2. CASE grow_moves \/ grow_in_place \/ hash_next \/ \E x \in Stores : store(x)
    <3>1. op # NoOp
      <4>1. ASSUME NEW x \in Stores, store(x)
            PROVE  op # NoOp
        BY <4>1 DEF store, NoOp
      <4> QED
        BY <2>2, <4>1 DEF grow_moves, grow_in_place, hash_next
    <3>2. op'.tool = op.tool /\ op'.capacity = op.capacity
      <4>1. CASE grow_moves
        BY <1>1, <4>1 DEF grow_moves, Insertions
      <4>2. CASE grow_in_place
        BY <1>1, <4>2 DEF grow_in_place, Insertions
      <4>3. CASE hash_next
        <5>1. \E h : op' = [op EXCEPT !.table = h, !.at = table[h].count + 1, !.allocated = FALSE]
          BY <4>3 DEF hash_next
        <5> QED
          BY <1>1, <5>1 DEF Insertions
      <4>4. CASE \E x \in Stores : store(x)
        BY <1>1, <4>4 DEF store, Insertions
      <4> QED
        BY <2>2, <4>1, <4>2, <4>3, <4>4
    <3>3. op' # NoOp
      BY <1>1, <3>1, <3>2, AccessAssumption DEF InsertionStage, NoOp
    <3> QED
      BY <3>1, <3>2, <3>3 DEF Capacity
  <2> QED
    BY <2>1, <2>2
<1>4. ASSUME NEW k \in TableNames
      PROVE  Held(k)' = Held(k)
  <2>1. /\ Complete(k)' = Complete(k)
        /\ \A i \in 1..Filled(k) : table'[k].slots[i] = table[k].slots[i]
    <3>1. CASE store("slot")
      <4>1. k # m => table'[k] = table[k]
        BY <3>1, EntryAdded
      <4> QED
        BY <3>1, <4>1, EntryAdded
    <3>2. CASE ~store("slot")
      BY <3>2, <1>3, EntriesStay DEF Stores
    <3> QED
      BY <3>1, <3>2
  <2> QED
    BY <2>1, HeldStays
<1>5. Held(Array)' = Held(Array) /\ \A h \in Buckets : Held(h)' = Held(h)
  BY <1>4 DEF TableNames
<1> QED
  BY <1>2, <1>3, <1>5 DEF Registry!registryVars, Capacity

\* A name that no complete entry of its bucket has is not found.
LEMMA NameIsFree ==
    ASSUME MemoryInv, NEW name \in Names, NEW h \in Buckets, h = HashOf[name],
           \A i \in 1..Complete(h) : NameOf[table[h].slots[i]] # name
    PROVE  Registry!mcp_server_find_tool_by_hash(name) = NoTool
<1> DEFINE bucket == Held(h)
           named == {i \in DOMAIN bucket : NameOf[bucket[i]] = name}
<1>1. /\ table[h].slots \in Seq(Cells) /\ Complete(h) \in Int /\ Complete(h) <= Filled(h)
      /\ Filled(h) <= Len(table[h].slots) /\ Filled(h) \in Nat
  BY EntryCounts DEF TableNames
<1>2. /\ bucket \in Seq(Cells) /\ Len(bucket) = IF Complete(h) > 0 THEN Complete(h) ELSE 0
      /\ \A i \in 1..Complete(h) : bucket[i] = table[h].slots[i]
  <2>1. Complete(h) <= Len(table[h].slots)
    BY <1>1
  <2> QED
    BY <1>1, <2>1, HeldRange DEF Held
<1>3. \A i \in DOMAIN bucket : i \in 1..Complete(h)
  BY <1>1, <1>2
<1>4. named = {}
  BY <1>2, <1>3
<1> QED
  BY <1>4 DEF Registry!mcp_server_find_tool_by_hash

\* So it is of the tool that main inserts, until its bucket holds it.
LEMMA ToolIsNew ==
    ASSUME SightInv, op # NoOp
    PROVE  /\ Registry!mcp_server_find_tool_by_hash(NameOf[op.tool]) = NoTool
           /\ op.tool \in Tools
           /\ op.table # Array \/ ~op.allocated => Registry!Fresh(op.tool)
<1>1. MemoryInv /\ EntriesDistinct /\ ToolFresh /\ InsertionStage /\ AccessTypeOK
  BY DEF SightInv, MemoryInv
<1>2. op.tool \in Tools
  BY <1>1 DEF InsertionStage
<1> PICK h \in Buckets : h = HashOf[NameOf[op.tool]]
  BY <1>2, BucketOf
<1>3. h \in TableNames /\ Array \in TableNames /\ h # Array /\ NameOf[op.tool] \in Names
  BY <1>2, BucketOf DEF TableNames
<1>4. /\ Filled(h) \in Nat /\ Complete(h) \in Int /\ Complete(h) <= Filled(h)
      /\ table[h].count \in Nat
  BY <1>1, <1>3, EntryCounts
<1>5. \A i \in 1..Complete(h) : NameOf[table[h].slots[i]] # NameOf[op.tool]
  <2> SUFFICES ASSUME NEW i \in 1..Complete(h)
               PROVE  NameOf[table[h].slots[i]] # NameOf[op.tool]
    OBVIOUS
  <2>1. i \in 1..Filled(h)
    BY <1>4
  <2>2. CASE op.table = Array \/ ~Stored
    BY <2>1, <2>2, <1>1 DEF ToolFresh, Kept
  <2>3. CASE op.table # Array /\ Stored
    <3>1. op.table = h /\ table[h].slots[op.at] = op.tool
      BY <2>3, <1>1 DEF InsertionStage
    <3>2. Filled(h) = op.at /\ Complete(h) = op.at - 1 /\ op.at \in Nat
      BY <3>1, <2>3, <1>1 DEF Filled, Complete, Inserting, AccessTypeOK, Insertions
    <3>3. op.at \in 1..Filled(h) /\ i # op.at
      BY <3>2, <1>1 DEF InsertionStage
    <3> QED
      BY <2>1, <3>1, <3>3, <1>1 DEF EntriesDistinct
  <2> QED
    BY <2>2, <2>3
<1>6. Registry!mcp_server_find_tool_by_hash(NameOf[op.tool]) = NoTool
  BY <1>1, <1>3, <1>5, NameIsFree
<1>7. ASSUME op.table # Array \/ ~op.allocated
      PROVE  op.tool \notin Range(Held(Array)) \cup rejected
  <2>1. op.tool \notin rejected
    BY <1>1 DEF ToolFresh
  <2>2. /\ Filled(Array) \in Nat /\ Complete(Array) \in Int /\ Complete(Array) <= Filled(Array)
        /\ Range(Held(Array)) = {table[Array].slots[i] : i \in 1..Complete(Array)}
    BY <1>1, <1>3, EntryCounts
  <2>3. CASE op.table = Array
    <3>1. op.tool \notin Kept(Array)
      BY <2>3, <1>1, <1>7 DEF ToolFresh, Stored
    <3>2. \A i \in 1..Complete(Array) : i \in 1..Filled(Array)
      BY <2>2
    <3> QED
      BY <2>1, <2>2, <3>1, <3>2 DEF Kept
  <2>4. CASE op.table # Array
    <3>1. table[Array].count > 0 /\ table[Array].slots[table[Array].count] = op.tool
      BY <2>4, <1>1 DEF ToolFresh
    <3>2. Filled(Array) = table[Array].count /\ Complete(Array) = table[Array].count - 1
      BY <2>4 DEF Filled, Complete, Inserting
    <3>3. table[Array].count \in 1..Filled(Array)
      BY <2>2, <3>1, <3>2
    <3>4. \A i \in 1..Complete(Array) : i \in 1..Filled(Array) /\ i # table[Array].count
      BY <2>2, <3>2
    <3>5. \A i \in 1..Complete(Array) : table[Array].slots[i] # op.tool
      BY <3>1, <3>3, <3>4, <1>1 DEF EntriesDistinct
    <3> QED
      BY <2>1, <2>2, <3>5
  <2> QED
    BY <2>3, <2>4
<1>8. Registry!Fresh(op.tool) <=> op.tool \notin Range(Held(Array)) \cup rejected
  BY DEF Registry!Fresh, Registry!Range, Range
<1> QED
  BY <1>2, <1>6, <1>7, <1>8

\* A name that is already there is refused in the registry as in the tables.
LEMMA DuplicateMaps ==
    ASSUME SightInv, SightInv', NEW t \in Tools, mcp_server_add_tool_duplicate(t)
    PROVE  Registry!mcp_server_add_tool_duplicate(t)
<1>1. MemoryInv /\ MemoryInv' /\ PlanFresh
  BY DEF SightInv
<1>2. /\ op = NoOp /\ plan # <<>> /\ t = Head(plan)
      /\ Registry!mcp_server_find_tool_by_hash(NameOf[t]) # NoTool
      /\ rejected' = rejected \cup {t}
      /\ table' = table /\ capacity' = capacity /\ op' = op /\ unhashed' = unhashed
  BY DEF mcp_server_add_tool_duplicate
<1>3. t \in Range(plan)
  <2>1. plan \in Seq(Tools)
    BY <1>1 DEF MemoryInv, AccessTypeOK
  <2> QED
    BY <2>1, <1>1, <1>2, HeadAndTail DEF PlanFresh
<1>4. t \notin Range(Held(Array)) \cup rejected
  <2>1. /\ Range(Held(Array)) = {table[Array].slots[i] : i \in 1..Complete(Array)}
        /\ Filled(Array) \in Nat /\ Complete(Array) \in Int /\ Complete(Array) <= Filled(Array)
    BY <1>1, EntryCounts DEF TableNames
  <2>2. Range(Held(Array)) \subseteq Kept(Array)
    BY <2>1 DEF Kept
  <2> QED
    BY <2>2, <1>1, <1>3 DEF PlanFresh
<1>5. Registry!Fresh(t)
  BY <1>4 DEF Registry!Fresh, Registry!Range, Range
<1>6. Held(Array)' = Held(Array) /\ \A h \in Buckets : Held(h)' = Held(h)
  BY <1>2 DEF Held, Complete
<1> QED
  BY <1>2, <1>5, <1>6 DEF Registry!mcp_server_add_tool_duplicate

\* The array that cannot grow is the registry's refusal for want of memory.
LEMMA NoMemoryMaps ==
    ASSUME SightInv, SightInv', CapacityStage, NEW t \in Tools, t = op.tool,
           grow_fails, op.table = Array
    PROVE  Registry!mcp_server_add_tool_no_memory(t)
<1>1. MemoryInv /\ MemoryInv' /\ AccessTypeOK /\ InsertionStage /\ TablesSound
  BY DEF SightInv, MemoryInv
<1>2. /\ op # NoOp /\ ~op.allocated /\ Size > Len(table[Array].slots)
      /\ op' = NoOp /\ rejected' = rejected \cup {t} /\ unhashed' = unhashed
      /\ table' = table /\ capacity' = capacity
  BY DEF grow_fails
<1>3. Registry!mcp_server_find_tool_by_hash(NameOf[t]) = NoTool /\ Registry!Fresh(t)
  BY <1>2, ToolIsNew
<1>4. capacity = op.capacity
  BY <1>2 DEF CapacityStage
<1>5. op.at \in Nat \ {0} /\ capacity \in Nat /\ table[Array].slots \in Seq(Cells)
  BY <1>1, <1>2, OpKnown DEF AccessTypeOK, Tables, TableNames
<1>6. Len(Held(Array)) + 1 = op.at
  <2>1. Complete(Array) = op.at - 1
    BY <1>2 DEF Complete
  <2>2. op.at - 1 <= Len(table[Array].slots) /\ op.at - 1 \in Int
    BY <1>1, <1>5, <2>1, EntryCounts DEF TableNames
  <2>3. Len(Held(Array)) = IF op.at - 1 > 0 THEN op.at - 1 ELSE 0
    BY <1>5, <2>1, <2>2, HeldRange DEF Held
  <2> QED
    BY <1>5, <2>3
<1>7. op.at > capacity
  <2>1. Len(table[Array].slots) = capacity
    BY <1>1, <1>2, SizeEnough
  <2>2. op.at <= capacity => Size = capacity
    BY DEF Size
  <2> QED
    BY <1>2, <1>5, <2>1, <2>2
<1>8. Held(Array)' = Held(Array) /\ \A h \in Buckets : Held(h)' = Held(h)
  <2>1. op.at = table[Array].count + 1 /\ table[Array].count \in Nat
    BY <1>1, <1>2, SizeEnough, EntryCounts DEF TableNames
  <2>2. \A k \in TableNames : Complete(k)' = Complete(k)
    BY <1>2, <2>1, AccessAssumption DEF Complete, TableNames
  <2>3. \A k \in TableNames : Held(k)' = Held(k)
    BY <1>2, <2>2 DEF Held
  <2> QED
    BY <2>3 DEF TableNames
<1> QED
  BY <1>2, <1>3, <1>4, <1>6, <1>7, <1>8 DEF Registry!mcp_server_add_tool_no_memory

\* The array when the call ends with the tool in it: the tool is the last of it.
LEMMA ArrayHasTool ==
    ASSUME SightInv, CapacityStage, NEW t \in Tools, t = op.tool,
           grow_fails \/ add_tool_returns, op.table # Array
    PROVE  /\ Held(Array)' = Append(Held(Array), t)
           /\ capacity' = Registry!Reserved(Len(Held(Array)) + 1)
<1>1. MemoryInv /\ ToolFresh /\ AccessTypeOK
  BY DEF SightInv, MemoryInv
<1>2. op # NoOp /\ op' = NoOp /\ table' = table /\ capacity' = capacity
  BY DEF grow_fails, add_tool_returns
<1> PICK n : n = table[Array].count - 1
  OBVIOUS
<1>3. /\ table[Array].slots \in Seq(Cells) /\ table[Array].count \in Nat
      /\ table[Array].count > 0 /\ table[Array].slots[table[Array].count] = t
  BY <1>1, <1>2, EntryCounts DEF ToolFresh, TableNames
<1>4. n \in Nat /\ n + 1 = table[Array].count
  BY <1>3
<1>5. Complete(Array) = n /\ Complete(Array)' = n + 1
  BY <1>2, <1>4 DEF Complete
<1>6. TableSound(Array)
  BY <1>1 DEF MemoryInv, TablesSound, TableNames
<1>7. n + 1 <= Len(table[Array].slots) /\ Len(table[Array].slots) = capacity
  BY <1>4, <1>6 DEF TableSound
<1>8. Held(Array)' = Append(Held(Array), t)
  <2>1. SubSeq(table[Array].slots, 1, n + 1) = Append(SubSeq(table[Array].slots, 1, n), table[Array].slots[n + 1])
    BY <1>3, <1>4, <1>7, OneMore
  <2> QED
    BY <2>1, <1>2, <1>3, <1>4, <1>5 DEF Held
<1>9. Len(Held(Array)) = n
  <2>1. n <= Len(table[Array].slots) /\ n \in Int
    BY <1>3, <1>4, <1>7
  <2>2. Len(Held(Array)) = IF n > 0 THEN n ELSE 0
    BY <2>1, <1>3, <1>5, HeldRange DEF Held
  <2> QED
    BY <2>2, <1>4
<1>10. /\ op.capacity \in Nat
       /\ capacity = IF n + 1 <= op.capacity THEN op.capacity
                     ELSE IF op.capacity = 0 THEN 4 ELSE op.capacity * 2
  BY <1>1, <1>2, <1>4 DEF CapacityStage, AccessTypeOK, Insertions
<1>11. capacity = Registry!Reserved(n + 1)
  <2>1. n + 1 \in Nat /\ n + 1 <= capacity
    BY <1>4, <1>7
  <2> QED
    BY <2>1, <1>2, <1>10, ReservedOnce
<1> QED
  BY <1>2, <1>8, <1>9, <1>11

\* The end of the second insertion, done or failed, is the registry's step that registers the tool.
LEMMA AddedMaps ==
    ASSUME SightInv, SightInv', CapacityStage, NEW t \in Tools, t = op.tool,
           grow_fails \/ add_tool_returns, op.table # Array
    PROVE  Registry!mcp_server_add_tool(t)
<1>1. MemoryInv /\ MemoryInv' /\ AccessTypeOK /\ InsertionStage
  BY DEF SightInv, MemoryInv
<1>2. op # NoOp /\ op' = NoOp /\ table' = table /\ capacity' = capacity /\ rejected' = rejected
  BY DEF grow_fails, add_tool_returns
<1>3. Registry!mcp_server_find_tool_by_hash(NameOf[t]) = NoTool /\ Registry!Fresh(t)
  BY <1>2, ToolIsNew
<1>4. /\ Held(Array)' = Append(Held(Array), t)
      /\ capacity' = Registry!Reserved(Len(Held(Array)) + 1)
  BY ArrayHasTool
<1> PICK h \in Buckets : h = HashOf[NameOf[t]]
  BY BucketOf
<1>5. op.table = h /\ h \in TableNames /\ h # Array
  BY <1>1, <1>2, AccessAssumption DEF InsertionStage, TableNames
<1>6. table[h].slots \in Seq(Cells) /\ table[h].count \in Nat /\ op.at \in Nat \ {0}
  BY <1>1, <1>2, <1>5, EntryCounts, OpKnown
<1>7. \A k \in Buckets : k # h => Held(k)' = Held(k)
  BY <1>2, <1>5, AccessAssumption DEF Held, Complete
<1>8. ASSUME grow_fails
      PROVE  unhashed' = unhashed \cup {t} /\ \A k \in Buckets : Held(k)' = Held(k)
  <2>1. unhashed' = unhashed \cup {t} /\ ~op.allocated
    BY <1>8 DEF grow_fails
  <2>2. op.at = table[h].count + 1
    BY <2>1, <1>1, <1>2, <1>5 DEF InsertionStage
  <2>3. Complete(h)' = Complete(h)
    BY <2>2, <1>2, <1>5, <1>6 DEF Complete
  <2>4. Held(h)' = Held(h)
    BY <2>3, <1>2 DEF Held
  <2> QED
    BY <2>1, <2>4, <1>7
<1>9. ASSUME add_tool_returns
      PROVE  unhashed' = unhashed /\ Held(h)' = Append(Held(h), t)
  <2>1. unhashed' = unhashed /\ op.allocated /\ op.pending = {}
    BY <1>9 DEF add_tool_returns
  <2>2. op.at = table[h].count /\ table[h].slots[op.at] = t
    BY <2>1, <1>1, <1>2, <1>5, <1>6 DEF InsertionStage, Stored
  <2> PICK n : n = op.at - 1
    OBVIOUS
  <2>3. n \in Nat /\ n + 1 = op.at
    BY <1>6
  <2>4. Complete(h) = n /\ Complete(h)' = n + 1
    BY <2>2, <2>3, <1>2, <1>5 DEF Complete
  <2>5. n + 1 <= Len(table[h].slots)
    <3>1. TableSound(h)
      BY <1>1, <1>5 DEF MemoryInv, TablesSound
    <3> QED
      BY <3>1, <2>2, <2>3 DEF TableSound
  <2>6. SubSeq(table[h].slots, 1, n + 1) = Append(SubSeq(table[h].slots, 1, n), table[h].slots[n + 1])
    BY <1>6, <2>3, <2>5, OneMore
  <2>7. Held(h)' = Append(Held(h), t)
    BY <2>2, <2>3, <2>4, <2>6, <1>2 DEF Held
  <2> QED
    BY <2>1, <2>7
<1>10. \/ [k \in Buckets |-> Held(k)]' = Registry!Hashed(t) /\ unhashed' = unhashed
       \/ unhashed' = unhashed \cup {t} /\ [k \in Buckets |-> Held(k)]' = [k \in Buckets |-> Held(k)]
  <2>1. CASE grow_fails
    BY <2>1, <1>8
  <2>2. CASE add_tool_returns
    BY <2>2, <1>7, <1>9 DEF Registry!Hashed
  <2> QED
    BY <2>1, <2>2
<1> QED
  BY <1>2, <1>3, <1>4, <1>10 DEF Registry!mcp_server_add_tool

\* Every step of the tables and of their readers is a step of the registry or leaves it alone.
LEMMA RegistryStep ==
    ASSUME SightInv, SightInv', CapacityStage, [AccessNext]_accessVars
    PROVE  [Registry!RegistryNext]_(Registry!registryVars)
<1>1. MemoryInv /\ MemoryInv' /\ InsertionStage /\ AccessTypeOK
  BY DEF SightInv, MemoryInv
<1> PICK m \in TableNames : m = op.table
  BY <1>1 DEF AccessTypeOK, Insertions
<1>2. CASE \/ \E t \in Tools : mcp_server_add_tool(t)
           \/ grow_moves \/ grow_in_place \/ hash_next
           \/ \E x \in Stores : store(x)
  BY <1>1, <1>2, BetweenStutters
<1>3. ASSUME NEW t \in Tools, mcp_server_add_tool_duplicate(t)
      PROVE  Registry!RegistryNext
  BY <1>3, DuplicateMaps DEF Registry!RegistryNext
<1>4. CASE grow_fails \/ add_tool_returns
  <2>1. op # NoOp
    BY <1>4 DEF grow_fails, add_tool_returns
  <2> PICK t \in Tools : t = op.tool
    BY <2>1, <1>1 DEF InsertionStage
  <2>2. CASE op.table = Array
    <3>1. grow_fails
      BY <2>2, <1>4 DEF add_tool_returns
    <3> QED
      BY <2>2, <3>1, NoMemoryMaps DEF Registry!RegistryNext
  <2>3. CASE op.table # Array
    BY <2>3, <1>4, AddedMaps DEF Registry!RegistryNext
  <2> QED
    BY <2>2, <2>3
<1>5. CASE UNCHANGED memory
  <2>1. /\ table' = table /\ capacity' = capacity /\ op' = op
        /\ unhashed' = unhashed /\ rejected' = rejected
    BY <1>5 DEF memory
  <2> QED
    BY <2>1 DEF Registry!registryVars, Held, Complete
<1>6. UNCHANGED accessVars => UNCHANGED memory
  BY DEF accessVars
<1>7. ASSUME NEW r \in Readers,
             Reader(r) \/ list_begin(r) \/ \E name \in Names : find_begin(r, name)
      PROVE  UNCHANGED memory
  BY <1>7 DEF Reader, load_count, load_ptr, load_slot, list_begin, find_begin, Begins
<1> QED
  BY <1>2, <1>3, <1>4, <1>5, <1>6, <1>7 DEF AccessNext, Main, Stores

\* The tables begin as the registry does, empty.
LEMMA RegistryStarts ==
    ASSUME AccessInit
    PROVE  Registry!RegistryInit /\ CapacityStage
<1>1. /\ table = [k \in TableNames |-> [ptr |-> 0, live |-> 0, count |-> 0, slots |-> <<>>]]
      /\ capacity = 0 /\ op = NoOp /\ unhashed = {} /\ rejected = {}
  BY DEF AccessInit
<1>2. ASSUME NEW k \in TableNames
      PROVE  Held(k) = <<>>
  <2>1. Complete(k) = 0 /\ table[k].slots = <<>>
    BY <1>1 DEF Complete
  <2>2. SubSeq(<<>>, 1, 0) = <<>>
    BY SubSeqEmpty
  <2> QED
    BY <2>1, <2>2 DEF Held
<1>3. Held(Array) = <<>> /\ [h \in Buckets |-> Held(h)] = [h \in Buckets |-> <<>>]
  BY <1>2 DEF TableNames
<1> QED
  BY <1>1, <1>3 DEF Registry!RegistryInit, CapacityStage

\* ImplementsRegistry: however its stores become visible, mcp_server_add_tool takes
\* effect on the table of ToolRegistry in one step, at its end, and for one doubling of the
\* capacity; the threads that read take no step of it.
THEOREM AccessImplementsRegistry == AccessSpec => ImplementsRegistry
<1>1. AccessInit => Registry!RegistryInit /\ CapacityStage
  BY RegistryStarts
<1>2. SightInv /\ CapacityStage /\ [AccessNext]_accessVars => CapacityStage'
  BY CapacityStep
<1>3. SightInv /\ SightInv' /\ CapacityStage /\ [AccessNext]_accessVars
         => [Registry!RegistryNext]_(Registry!registryVars)
  BY RegistryStep
<1> QED
  BY <1>1, <1>2, <1>3, AccessSight, PTL DEF AccessSpec, ImplementsRegistry, Registry!RegistrySpec
=============================================================================
