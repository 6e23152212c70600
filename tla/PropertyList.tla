---------------------------- MODULE PropertyList ----------------------------
(***************************************************************************)
(* The property lists of core/mcp/mcp_property.c, kept in the growable     *)
(* array of core/posix/list.c: what a tool declares and what its callback  *)
(* is given.  Names and string values are heap blocks of their own.        *)
(*                                                                         *)
(* Each allocation may fail, so an operation has a set of outcomes; live   *)
(* is what it allocated less what it freed, in blocks.  A property is its  *)
(* name, its type, its value (Missing without has_default) and its min and *)
(* max, IntMin and IntMax without has_min and has_max.                     *)
(***************************************************************************)
EXTENDS Integers, Sequences, SequencesExt

CONSTANTS Missing,  \* absent: no default, no such key, another JSON type
          Null,     \* a NULL pointer where a string should be
          Keys,     \* property names and argument keys
          Texts,    \* string values
          IntMax    \* INT_MAX

\* The values of a type; a number in a document is an integer, too.
Types == {"boolean", "integer", "string"}
ValuesOf(type) == CASE type = "boolean" -> BOOLEAN
                    [] type = "integer" -> Int
                    [] type = "string"  -> Texts

ASSUME PropertyAssumption ==
    /\ IntMax \in Nat /\ Missing # Null
    /\ {Missing, Null} \cap Keys = {}
    /\ \A type \in Types : Missing \notin ValuesOf(type) /\ Null \notin ValuesOf(type)

IntMin == -IntMax - 1

\* list_init: struct list with nothing allocated.
EmptyList == [items |-> <<>>, capacity |-> 0]

\* The sum of a sequence of numbers: of the first i, and of all.
Sums(numbers) ==
    LET sum[i \in 0..Len(numbers)] == IF i = 0 THEN 0 ELSE sum[i - 1] + numbers[i]
    IN  sum
Total(numbers) == Sums(numbers)[Len(numbers)]

\* The strings a property owns, and the blocks of a list: what property_free_func
\* and list_free free.
PropertyBlocks(p) == (IF p.name = Null THEN 0 ELSE 1)
                     + (IF p.type = "string" /\ p.value \notin {Missing, Null} THEN 1 ELSE 0)
ListBlocks(l) == (IF l.capacity = 0 THEN 0 ELSE 1)
                 + Total([i \in DOMAIN l.items |-> PropertyBlocks(l.items[i])])

\* Everything that a loop of fallible passes can come to.
Outcomes(Pass(_, _), start, inputs) ==
    LET after[i \in 0..Len(inputs)] ==
            IF i = 0 THEN {start} ELSE UNION {Pass(o, inputs[i]) : o \in after[i - 1]}
    IN  after[Len(inputs)]

-----------------------------------------------------------------------------
\* property_copy_func: utils_strdup of the name and of a string default may each
\* give NULL, and nobody is told.
property_copy_func(p) ==
    LET values == IF p.type = "string" /\ p.value # Missing THEN {p.value, Null} ELSE {p.value}
    IN  {[p EXCEPT !.name = got[1], !.value = got[2]] : got \in {p.name, Null} \X values}

\* list_reserve(count + 1): four elements, then twice as many.
Grown(l) == IF Len(l.items) < l.capacity THEN l.capacity
            ELSE IF l.capacity = 0 THEN 4 ELSE l.capacity * 2

\* list_add: a copy at the end, or false when the array cannot grow.
list_add(l, p) ==
    {[list |-> [items |-> Append(l.items, c), capacity |-> Grown(l)], ok |-> TRUE,
      live |-> PropertyBlocks(c) + (IF l.capacity = 0 THEN 1 ELSE 0)] :
        c \in property_copy_func(p)}
    \cup (IF Len(l.items) < l.capacity THEN {} ELSE {[list |-> l, ok |-> FALSE, live |-> 0]})

\* mcp_property_list_add_bool, _int and _string: when the strings of the property
\* on the stack cannot be had nothing is added, and they are freed in any case.
mcp_property_list_add(l, p) ==
    list_add(l, p) \cup {[list |-> l, ok |-> FALSE, live |-> 0]}

\* One pass of a loop that adds to the list of o: when a property is not added, the
\* list is freed and the loop left.
Added(o, adds) ==
    IF ~o.ok THEN {o}
    ELSE {IF a.ok THEN [list |-> a.list, ok |-> TRUE, live |-> o.live + a.live]
          ELSE [list |-> EmptyList, ok |-> FALSE, live |-> o.live + a.live - ListBlocks(a.list)] :
          a \in adds}

\* An application that adds the properties of a tool one after the other and
\* destroys the list when one of them is refused.
Declare(o, p) == Added(o, mcp_property_list_add(o.list, p))
Declared(schema) == Outcomes(Declare, [list |-> EmptyList, ok |-> TRUE, live |-> 0], schema)

\* mcp_property_list_clone: all of the list, or, when the array cannot grow, a
\* list with nothing in it.
Clone(o, p) == Added(o, list_add(o.list, p))
mcp_property_list_clone(l) ==
    Outcomes(Clone, [list |-> EmptyList, ok |-> TRUE, live |-> 0], l.items)

\* mcp_property_list_get_bool, _int and _string: the default or the argument of
\* the first property of that name.
mcp_property_list_get(l, name, type) ==
    LET at == SelectInSeq(l.items, LAMBDA p : p.name # Null /\ p.name = name)
    IN  IF at = 0 \/ l.items[at].type # type THEN Missing ELSE l.items[at].value

-----------------------------------------------------------------------------
\* External: valueint of a JSON number, here in tenths, is the number cut towards
\* zero and kept within int.
ValueInt(tenths) ==
    LET cut == IF tenths >= 0 THEN tenths \div 10 ELSE -((-tenths) \div 10)
    IN  IF cut > IntMax THEN IntMax ELSE IF cut < IntMin THEN IntMin ELSE cut

\* Faulty variant: an integer is taken without its range.
mcp_property_copy_from_json_unranged(p, json) ==
    IF json.type # p.type THEN {[property |-> p, ok |-> FALSE, live |-> 0]}
    ELSE {[property |-> [p EXCEPT !.value = IF p.type = "integer" THEN ValueInt(json.value)
                                            ELSE json.value],
           ok |-> TRUE, live |-> 0]}

\* mcp_property_copy_from_json with mcp_property_set_bool, _int and _string: the
\* property with the value, refused for another JSON type, a number out of range
\* and a string that cannot be copied, whose old value is lost all the same.
mcp_property_copy_from_json(p, json) ==
    LET refused == {[property |-> p, ok |-> FALSE, live |-> 0]}
        set(v) == LET q == [p EXCEPT !.value = v]
                  IN  [property |-> q, ok |-> v # Null,
                       live |-> PropertyBlocks(q) - PropertyBlocks(p)]
    IN  IF json.type # p.type THEN refused
        ELSE CASE p.type = "boolean" -> {set(json.value)}
               [] p.type = "string"  -> {set(json.value), set(Null)}
               [] p.type = "integer" -> IF ValueInt(json.value) \in p.min..p.max
                                        THEN {set(ValueInt(json.value))} ELSE refused
=============================================================================
