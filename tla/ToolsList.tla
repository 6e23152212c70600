----------------------------- MODULE ToolsList -----------------------------
(***************************************************************************)
(* tools/list (core/mcp/mcp_server_protocol.c): a page of the tool array   *)
(* bounded by a payload size, and a nextCursor that names the first tool   *)
(* of the next page.  A client walks the pages while tools are still being *)
(* registered: mlink_server_init connects before any tool is added.        *)
(*                                                                         *)
(* A page is one step: the pages of a walk interleave with registrations,  *)
(* the loads of one page with one registration do not.  Allocations inside *)
(* a page succeed.                                                         *)
(***************************************************************************)
EXTENDS ToolRegistry

CONSTANTS UserOnly,    \* tools with user_only
          NameLen,     \* name -> strlen(name)
          DescLen,     \* tool -> strlen(description)
          JsonLen,     \* tool -> strlen(mcp_tool_to_json(tool))
          Cut,         \* name -> the name in char next_cursor[64], 63 characters at most
          NoName,      \* "", no cursor; a tool may be called so
          MaxPayload,  \* MCP_SERVER_MAX_PAYLOAD
          MaxListed    \* bound: tools a client receives before it gives up

ASSUME ListAssumption ==
    /\ UserOnly \subseteq Tools
    /\ NameLen \in [Names -> Nat]
    /\ DescLen \in [Tools -> Nat]
    /\ JsonLen \in [Tools -> Nat \ {0}]
    /\ DOMAIN Cut = Names
    /\ \A n \in Names : NameLen[n] <= 63 => Cut[n] = n
    /\ NoName \in Names => NameLen[NoName] = 0
    /\ MaxPayload \in Nat /\ MaxListed \in Nat

VARIABLES walking,   \* the client still has pages to ask for
          include,   \* its withUserTools
          cursor,    \* the cursor of its next request
          got,       \* every tool it was sent in this walk
          listable,  \* history: what there was to list when the walk began
          page_len   \* length of the "tools" document of the last page

listVars == <<walking, include, cursor, got, listable, page_len>>

ListInit == /\ RegistryInit
            /\ walking = FALSE
            /\ include = FALSE
            /\ cursor = NoName
            /\ got = <<>>
            /\ listable = <<>>
            /\ page_len = 0

-----------------------------------------------------------------------------
\* The tools a request may see, in array order: of the first i tools of a sequence,
\* and of the array.
Seen(from, all) ==
    LET seen[i \in 0..Len(from)] ==
            IF i = 0 THEN <<>>
            ELSE IF all \/ from[i] \notin UserOnly THEN Append(seen[i - 1], from[i])
            ELSE seen[i - 1]
    IN  seen
Visible(all) == Seen(tools, all)[Len(tools)]

\* tool_size_estimate and, with the first i tools of a sequence on the page,
\* estimated_size: names and descriptions, 200 for each tool, 50 for the page.
\* A tool's properties are not counted.
SizeEstimate(t) == NameLen[NameOf[t]] + DescLen[t] + 200
EstimatedSize(from) ==
    LET size[i \in 0..Len(from)] == IF i = 0 THEN 50 ELSE size[i - 1] + SizeEstimate(from[i])
    IN  size

\* strlen of {"tools":[...]} printed with the first i tools on the page.
RootLen(from) ==
    LET len[i \in 0..Len(from)] ==
            IF i = 0 THEN 12 ELSE len[i - 1] + JsonLen[from[i]] + (IF i = 1 THEN 0 ELSE 1)
    IN  len

\* Whether tool i joins a page that already has the tools before it: the
\* estimate first, and the real sizes when the page is within a tenth of the
\* limit.
Fits(from, i) ==
    LET t == from[i]
        estimated_size == EstimatedSize(from)[i - 1]
    IN  /\ estimated_size + SizeEstimate(t) <= MaxPayload
        /\ 10 * (estimated_size + JsonLen[t]) > 9 * MaxPayload
             => JsonLen[t] + RootLen(from)[i - 1] <= MaxPayload

\* How many tools the page takes: those before the first that does not fit.
PageLength(from) ==
    CHOOSE n \in 0..Len(from) : /\ \A i \in 1..n : Fits(from, i)
                                /\ n < Len(from) => ~Fits(from, n + 1)

\* What is left to list from a cursor: all of it without one, nothing when no
\* tool of that name can be seen.
From(visible, c) ==
    LET at == {i \in DOMAIN visible : NameOf[visible[i]] = c}
    IN  IF c = NoName THEN visible
        ELSE IF at = {} THEN <<>>
        ELSE SubSeq(visible, CHOOSE i \in at : \A j \in at : i <= j, Len(visible))

\* Faulty variant: the next page starts after the tool its cursor names.
mcp_server_build_tools_list_skips(all, c) ==
    LET rest == From(Visible(all), c)
        from == IF c = NoName THEN rest ELSE Tail(rest)
        n == PageLength(from)
    IN  [shown |-> SubSeq(from, 1, n),
         next  |-> IF n < Len(from) THEN Cut[NameOf[from[n + 1]]] ELSE NoName]

\* Faulty variant: the cursor names the last tool shown.
mcp_server_build_tools_list_repeats(all, c) ==
    LET from == From(Visible(all), c)
        n == PageLength(from)
    IN  [shown |-> SubSeq(from, 1, n),
         next  |-> IF 0 < n /\ n < Len(from) THEN Cut[NameOf[from[n]]] ELSE NoName]

\* mcp_server_build_tools_list: a page and its nextCursor, the name of the
\* first tool that did not fit.
mcp_server_build_tools_list(all, c) ==
    LET from == From(Visible(all), c)
        n == PageLength(from)
    IN  [shown |-> SubSeq(from, 1, n),
         next  |-> IF n < Len(from) THEN Cut[NameOf[from[n + 1]]] ELSE NoName]

\* A page as the client takes it: it asks again while there is a nextCursor.
Answered(page, before) ==
    /\ got' = before \o page.shown
    /\ cursor' = page.next
    /\ walking' = (page.next # NoName)
    /\ page_len' = RootLen(page.shown)[Len(page.shown)]

\* tools/list without a cursor, with or without withUserTools.
tools_list_first(all) ==
    /\ ~walking /\ got = <<>>
    /\ include' = all
    /\ listable' = Visible(all)
    /\ \E page \in {mcp_server_build_tools_list(all, NoName)} : Answered(page, <<>>)
    /\ UNCHANGED registryVars

\* tools/list with the nextCursor of the previous page.
tools_list_next ==
    /\ walking /\ Len(got) < MaxListed
    /\ \E page \in {mcp_server_build_tools_list(include, cursor)} : Answered(page, got)
    /\ UNCHANGED <<include, listable>>
    /\ UNCHANGED registryVars

register == RegistryNext /\ UNCHANGED listVars

ListNext == \/ register
            \/ \E all \in BOOLEAN : tools_list_first(all)
            \/ tools_list_next

allVars == <<registryVars, listVars>>
ListSpec == ListInit /\ [][ListNext]_allVars

\* The client keeps asking; registration owes nothing.
ListFairSpec == ListSpec /\ WF_allVars(tools_list_next)
-----------------------------------------------------------------------------
\* What the list needs to be walked: no two registered tools share a name, every
\* name is non-empty and fits in a cursor, and every tool fits in an empty page.
Walkable == /\ \A i, j \in DOMAIN tools : NameOf[tools[i]] = NameOf[tools[j]] => i = j
            /\ \A t \in Range(tools) : /\ NameOf[t] # NoName
                                       /\ Cut[NameOf[t]] = NameOf[t]
                                       /\ Fits(<<t>>, 1)

\* However registrations interleave with its pages, a walk shows each tool once
\* and in registration order, and when it ends has shown all that were
\* registered when it began.
WalkExact == Walkable => /\ IsPrefix(got, Visible(include))
                         /\ ~walking /\ got # <<>> => IsPrefix(listable, got)

\* A walk of a walkable list ends.
WalkEnds == [](walking => <>(~walking \/ ~Walkable))

\* "check the actual size (only near the limit)": no page is longer than
\* MCP_SERVER_MAX_PAYLOAD.
PayloadBounded == page_len <= MaxPayload
=============================================================================
