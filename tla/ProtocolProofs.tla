--------------------------- MODULE ProtocolProofs ---------------------------
(***************************************************************************)
(* Proofs about tools/list (ToolsList) and the dispatch of messages        *)
(* (McpDispatch): a client that walks the pages sees every tool once and   *)
(* in order; a request is answered exactly once; and whatever allocations  *)
(* fail, arguments conform to what was declared, errors name the one that  *)
(* does not, and nothing leaks.                                            *)
(*                                                                         *)
(* Loops are recursive functions over the position reached; a fact about   *)
(* every pass is proved by LoopInduction, on the set of passes after which *)
(* it holds.                                                               *)
(***************************************************************************)
EXTENDS ToolsList, McpDispatch, SequenceTheorems, WellFoundedInduction, TLAPS

\* The least number of a set.
LEMMA LeastNumber ==
    ASSUME NEW T, T \subseteq Nat, T # {}
    PROVE  \E i \in T : \A j \in T : i <= j
<1>1. \E i \in T : \A j \in T : <<j, i>> \notin OpToRel(<, Nat)
  BY NatLessThanWellFounded, WFMin
<1>2. PICK i \in T : \A j \in T : <<j, i>> \notin OpToRel(<, Nat)
  BY <1>1
<1>3. \A j \in T : ~(j < i)
  BY <1>2 DEF OpToRel
<1>4. \A j \in T : i <= j
  BY <1>3
<1> QED
  BY <1>4

\* Induction over the passes of a loop, with a set in place of a predicate.
LEMMA LoopInduction ==
    ASSUME NEW n \in Nat, NEW Q, 0 \in Q, \A i \in 1..n : i - 1 \in Q => i \in Q
    PROVE  \A i \in 0..n : i \in Q
<1> SUFFICES ASSUME NEW k \in 0..n, k \notin Q PROVE FALSE
  OBVIOUS
<1> DEFINE T == {i \in 0..n : i \notin Q}
<1>1. T \subseteq Nat /\ T # {}
  OBVIOUS
<1>2. \E i \in T : \A j \in T : i <= j
  <2> HIDE DEF T
  <2> QED
    BY <1>1, LeastNumber
<1>3. PICK i \in T : \A j \in T : i <= j
  BY <1>2
<1>4. i \in 1..n /\ i - 1 \in 0..n
  OBVIOUS
<1>5. i - 1 \in T
  BY <1>4
<1> QED
  BY <1>3, <1>4, <1>5

\* A loop of n passes over values of U: from start, its i-th pass takes a value s to
\* next[i][s], and there is f[i] after i passes.
Passes(n, U) == [1..n -> [U -> U]]
Runs(f, n, U, start, next) == /\ f \in [0..n -> U] /\ f[0] = start
                              /\ \A i \in 1..n : f[i] = next[i][f[i - 1]]

\* Such a loop can be run: the recursive function over its passes exists.
LEMMA LoopExists ==
    ASSUME NEW n \in Nat, NEW U, NEW start \in U, NEW next \in Passes(n, U)
    PROVE  \E f : Runs(f, n, U, start, next)
<1> DEFINE Q == {k \in 0..n : \E f : Runs(f, k, U, start, next)}
<1>1. 0 \in Q
  <2> DEFINE e == [i \in 0..0 |-> start]
  <2>1. e \in [0..0 -> U] /\ e[0] = start /\ 1..0 = {}
    OBVIOUS
  <2> HIDE DEF e
  <2>2. Runs(e, 0, U, start, next)
    BY <2>1 DEF Runs
  <2> QED
    BY <2>2
<1>2. ASSUME NEW k \in 1..n, k - 1 \in Q
      PROVE  k \in Q
  <2>1. PICK f : Runs(f, k - 1, U, start, next)
    BY <1>2
  <2> DEFINE g == [i \in 0..k |-> IF i = k THEN next[k][f[k - 1]] ELSE f[i]]
  <2>2. f[k - 1] \in U /\ next[k][f[k - 1]] \in U
    BY <2>1 DEF Runs, Passes
  <2>3. g \in [0..k -> U] /\ g[0] = start
    BY <2>1, <2>2 DEF Runs
  <2>4. ASSUME NEW i \in 1..k
        PROVE  g[i] = next[i][g[i - 1]]
    <3>1. CASE i = k
      BY <3>1
    <3>2. CASE i \in 1..k - 1
      BY <2>1, <3>2 DEF Runs
    <3> QED
      BY <3>1, <3>2
  <2> HIDE DEF g
  <2>5. Runs(g, k, U, start, next)
    BY <2>3, <2>4 DEF Runs
  <2> QED
    BY <2>5
<1>3. \A k \in 0..n : k \in Q
  <2> HIDE DEF Q
  <2> QED
    BY <1>1, <1>2, LoopInduction
<1>4. n \in Q
  BY <1>3
<1> QED
  BY <1>4

\* The loop of mcp_server_build_tools_list over the array: what it sees in a pass.
LEMMA SeenPass ==
    ASSUME NEW from \in Seq(Tools), NEW all \in BOOLEAN
    PROVE  /\ Seen(from, all)[0] = <<>>
           /\ \A i \in 1..Len(from) :
                 Seen(from, all)[i] = IF all \/ from[i] \notin UserOnly
                                      THEN Append(Seen(from, all)[i - 1], from[i])
                                      ELSE Seen(from, all)[i - 1]
<1> DEFINE Pass(f, i) == IF i = 0 THEN <<>>
                         ELSE IF all \/ from[i] \notin UserOnly THEN Append(f[i - 1], from[i])
                         ELSE f[i - 1]
           next == [i \in 1..Len(from) |-> [s \in Seq(Tools) |->
                       IF all \/ from[i] \notin UserOnly THEN Append(s, from[i]) ELSE s]]
<1>1. Len(from) \in Nat /\ \A i \in 1..Len(from) : from[i] \in Tools
  BY LenProperties, ElementOfSeq
<1>2. <<>> \in Seq(Tools) /\ next \in Passes(Len(from), Seq(Tools))
  BY <1>1, EmptySeq, AppendProperties DEF Passes
<1>3. PICK f : Runs(f, Len(from), Seq(Tools), <<>>, next)
  <2> HIDE DEF next
  <2> QED
    BY <1>1, <1>2, LoopExists
<1>4. ASSUME NEW i \in 0..Len(from)
      PROVE  f[i] = Pass(f, i)
  <2>1. CASE i = 0
    BY <1>3, <2>1 DEF Runs
  <2>2. CASE i \in 1..Len(from)
    <3>1. i - 1 \in 0..Len(from)
      BY <1>1, <2>2
    <3>2. f[i] = next[i][f[i - 1]] /\ f[i - 1] \in Seq(Tools)
      <4> HIDE DEF next
      <4> QED
        BY <1>3, <2>2, <3>1 DEF Runs
    <3> QED
      BY <2>2, <3>2
  <2> QED
    BY <1>1, <2>1, <2>2
<1>5. f = [i \in 0..Len(from) |-> Pass(f, i)]
  <2> HIDE DEF Pass
  <2>1. f = [i \in 0..Len(from) |-> f[i]]
    BY <1>3 DEF Runs
  <2> QED
    BY <1>4, <2>1, Zenon
<1>6. Seen(from, all) = [i \in 0..Len(from) |-> Pass(Seen(from, all), i)]
  BY <1>5, Zenon DEF Seen
<1>7. ASSUME NEW i \in 0..Len(from)
      PROVE  Seen(from, all)[i] = Pass(Seen(from, all), i)
  BY <1>6, Zenon
<1> QED
  BY <1>1, <1>7

\* What the loop has seen after some passes are tools of the array, and so many at most.
LEMMA SeenTypes ==
    ASSUME NEW from \in Seq(Tools), NEW all \in BOOLEAN
    PROVE  \A i \in 0..Len(from) :
              /\ Seen(from, all)[i] \in Seq(Tools)
              /\ \A k \in 1..Len(Seen(from, all)[i]) : \E j \in 1..i : Seen(from, all)[i][k] = from[j]
<1> DEFINE s == Seen(from, all)
           Known(i) == /\ s[i] \in Seq(Tools)
                       /\ \A k \in 1..Len(s[i]) : \E j \in 1..i : s[i][k] = from[j]
           Q == {i \in 0..Len(from) : Known(i)}
<1>1. Len(from) \in Nat /\ \A i \in 1..Len(from) : from[i] \in Tools
  BY LenProperties, ElementOfSeq
<1>2. /\ s[0] = <<>>
      /\ \A i \in 1..Len(from) : s[i] = IF all \/ from[i] \notin UserOnly
                                        THEN Append(s[i - 1], from[i]) ELSE s[i - 1]
  BY SeenPass
<1> HIDE DEF s
<1>3. 0 \in Q
  <2>1. s[0] \in Seq(Tools) /\ Len(s[0]) = 0
    BY <1>2, EmptySeq
  <2> QED
    BY <1>1, <2>1
<1>4. ASSUME NEW i \in 1..Len(from), i - 1 \in Q
      PROVE  i \in Q
  <2>1. s[i - 1] \in Seq(Tools) /\ \A k \in 1..Len(s[i - 1]) : \E j \in 1..i - 1 : s[i - 1][k] = from[j]
    BY <1>4
  <2>2. CASE s[i] = s[i - 1]
    <3>1. \A j \in 1..i - 1 : j \in 1..i
      BY <1>1
    <3>2. Known(i)
      BY <2>1, <2>2, <3>1
    <3> QED
      BY <1>1, <3>2
  <2>3. CASE s[i] = Append(s[i - 1], from[i])
    <3>1. /\ s[i] \in Seq(Tools) /\ Len(s[i]) = Len(s[i - 1]) + 1 /\ Len(s[i - 1]) \in Nat
          /\ s[i][Len(s[i - 1]) + 1] = from[i]
          /\ \A k \in 1..Len(s[i - 1]) : s[i][k] = s[i - 1][k]
      BY <1>1, <2>1, <2>3, AppendProperties, LenProperties
    <3>2. ASSUME NEW k \in 1..Len(s[i])
          PROVE  \E j \in 1..i : s[i][k] = from[j]
      <4>1. CASE k \in 1..Len(s[i - 1])
        <5>1. PICK j \in 1..i - 1 : s[i - 1][k] = from[j]
          BY <2>1, <4>1
        <5>2. j \in 1..i /\ s[i][k] = from[j]
          BY <1>1, <3>1, <4>1, <5>1
        <5> QED
          BY <5>2
      <4>2. CASE k = Len(s[i - 1]) + 1
        <5>1. i \in 1..i /\ s[i][k] = from[i]
          BY <1>1, <3>1, <4>2
        <5> QED
          BY <5>1
      <4> QED
        BY <3>1, <4>1, <4>2
    <3>3. Known(i)
      BY <3>1, <3>2
    <3> QED
      BY <1>1, <3>3
  <2> QED
    BY <1>2, <2>2, <2>3
<1>5. \A i \in 0..Len(from) : i \in Q
  <2> HIDE DEF Q
  <2> QED
    BY <1>1, <1>3, <1>4, LoopInduction
<1> QED
  BY <1>5 DEF s

\* If no two tools of the array share a name, no two that are seen do.
LEMMA SeenDistinct ==
    ASSUME NEW from \in Seq(Tools), NEW all \in BOOLEAN,
           \A i, j \in 1..Len(from) : NameOf[from[i]] = NameOf[from[j]] => i = j
    PROVE  \A n \in 0..Len(from) : \A i, j \in 1..Len(Seen(from, all)[n]) :
              NameOf[Seen(from, all)[n][i]] = NameOf[Seen(from, all)[n][j]] => i = j
<1> DEFINE s == Seen(from, all)
           Distinct(n) == \A i, j \in 1..Len(s[n]) : NameOf[s[n][i]] = NameOf[s[n][j]] => i = j
           Q == {n \in 0..Len(from) : Distinct(n)}
<1>1. Len(from) \in Nat /\ \A i \in 1..Len(from) : from[i] \in Tools
  BY LenProperties, ElementOfSeq
<1>2. /\ s[0] = <<>>
      /\ \A n \in 1..Len(from) : s[n] = IF all \/ from[n] \notin UserOnly
                                        THEN Append(s[n - 1], from[n]) ELSE s[n - 1]
  BY SeenPass
<1>3. \A n \in 0..Len(from) : /\ s[n] \in Seq(Tools)
                              /\ \A k \in 1..Len(s[n]) : \E j \in 1..n : s[n][k] = from[j]
  BY SeenTypes
<1> HIDE DEF s
<1>4. 0 \in Q
  BY <1>1, <1>2
<1>5. ASSUME NEW n \in 1..Len(from), n - 1 \in Q
      PROVE  n \in Q
  <2>1. Distinct(n - 1) /\ n - 1 \in 0..Len(from)
    BY <1>5
  <2>2. s[n - 1] \in Seq(Tools) /\ \A k \in 1..Len(s[n - 1]) : \E j \in 1..n - 1 : s[n - 1][k] = from[j]
    BY <1>3, <2>1
  <2>3. CASE s[n] = s[n - 1]
    BY <1>1, <2>1, <2>3
  <2>4. CASE s[n] = Append(s[n - 1], from[n])
    <3>1. /\ Len(s[n]) = Len(s[n - 1]) + 1 /\ Len(s[n - 1]) \in Nat
          /\ s[n][Len(s[n - 1]) + 1] = from[n]
          /\ \A k \in 1..Len(s[n - 1]) : s[n][k] = s[n - 1][k]
      BY <1>1, <2>2, <2>4, AppendProperties, LenProperties
    <3>2. \A k \in 1..Len(s[n - 1]) : NameOf[s[n - 1][k]] # NameOf[from[n]]
      <4> SUFFICES ASSUME NEW k \in 1..Len(s[n - 1]), NameOf[s[n - 1][k]] = NameOf[from[n]]
                   PROVE  FALSE
        OBVIOUS
      <4>1. PICK j \in 1..n - 1 : s[n - 1][k] = from[j]
        BY <2>2
      <4>2. j \in 1..Len(from) /\ j # n
        BY <1>1
      <4> QED
        BY <4>1, <4>2
    <3>3. Distinct(n)
      <4> SUFFICES ASSUME NEW i \in 1..Len(s[n]), NEW j \in 1..Len(s[n]), i # j
                   PROVE  NameOf[s[n][i]] # NameOf[s[n][j]]
        OBVIOUS
      <4>1. CASE i \in 1..Len(s[n - 1]) /\ j \in 1..Len(s[n - 1])
        BY <2>1, <3>1, <4>1
      <4>2. CASE i = Len(s[n - 1]) + 1
        <5>1. j \in 1..Len(s[n - 1])
          BY <3>1, <4>2
        <5> QED
          BY <3>1, <3>2, <4>2, <5>1
      <4>3. CASE j = Len(s[n - 1]) + 1
        <5>1. i \in 1..Len(s[n - 1])
          BY <3>1, <4>3
        <5> QED
          BY <3>1, <3>2, <4>3, <5>1
      <4>4. \/ i \in 1..Len(s[n - 1]) /\ j \in 1..Len(s[n - 1])
            \/ i = Len(s[n - 1]) + 1 \/ j = Len(s[n - 1]) + 1
        BY <3>1
      <4> QED
        BY <4>1, <4>2, <4>3, <4>4
    <3> QED
      BY <1>1, <3>3
  <2> QED
    BY <1>2, <2>3, <2>4
<1>6. \A n \in 0..Len(from) : n \in Q
  <2> HIDE DEF Q
  <2> QED
    BY <1>1, <1>4, <1>5, LoopInduction
<1> QED
  BY <1>6 DEF s

\* A tool at the end of the array changes nothing about what was seen before.
LEMMA SeenGrows ==
    ASSUME NEW from \in Seq(Tools), NEW all \in BOOLEAN, NEW t \in Tools
    PROVE  LET longer == Append(from, t)
               old == Seen(from, all)[Len(from)]
           IN  Seen(longer, all)[Len(longer)] \in {old, Append(old, t)}
<1> DEFINE longer == Append(from, t)
           s == Seen(from, all)
           l == Seen(longer, all)
           Q == {n \in 0..Len(from) : l[n] = s[n]}
<1>1. /\ Len(from) \in Nat /\ longer \in Seq(Tools) /\ Len(longer) = Len(from) + 1
      /\ longer[Len(from) + 1] = t
      /\ \A i \in 1..Len(from) : longer[i] = from[i]
  BY LenProperties, AppendProperties
<1>2. /\ s[0] = <<>>
      /\ \A n \in 1..Len(from) : s[n] = IF all \/ from[n] \notin UserOnly
                                        THEN Append(s[n - 1], from[n]) ELSE s[n - 1]
  BY SeenPass
<1>3. /\ l[0] = <<>>
      /\ \A n \in 1..Len(longer) : l[n] = IF all \/ longer[n] \notin UserOnly
                                          THEN Append(l[n - 1], longer[n]) ELSE l[n - 1]
  <2> HIDE DEF longer
  <2> QED
    BY <1>1, SeenPass
<1> HIDE DEF s, l, longer
<1>4. 0 \in Q
  BY <1>1, <1>2, <1>3
<1>5. ASSUME NEW n \in 1..Len(from), n - 1 \in Q
      PROVE  n \in Q
  <2>1. l[n - 1] = s[n - 1] /\ n \in 1..Len(longer) /\ longer[n] = from[n]
    BY <1>1, <1>5
  <2> QED
    BY <1>1, <1>2, <1>3, <2>1
<1>6. \A n \in 0..Len(from) : n \in Q
  <2> HIDE DEF Q
  <2> QED
    BY <1>1, <1>4, <1>5, LoopInduction
<1>7. l[Len(from)] = s[Len(from)]
  BY <1>1, <1>6
<1>8. l[Len(longer)] \in {s[Len(from)], Append(s[Len(from)], t)}
  <2>1. Len(longer) \in 1..Len(longer) /\ Len(longer) - 1 = Len(from)
    BY <1>1
  <2>2. l[Len(longer)] = IF all \/ longer[Len(longer)] \notin UserOnly
                         THEN Append(l[Len(from)], longer[Len(longer)]) ELSE l[Len(from)]
    BY <1>3, <2>1
  <2> QED
    BY <1>1, <1>7, <2>2
<1> QED
  BY <1>8 DEF s, l, longer

\* A page takes as many tools as there are, or fewer.
LEMMA PageTakes ==
    ASSUME NEW from \in Seq(Tools)
    PROVE  PageLength(from) \in 0..Len(from)
<1> DEFINE T == {n \in 0..Len(from) : n < Len(from) => ~Fits(from, n + 1)}
<1>1. Len(from) \in Nat
  BY LenProperties
<1>2. T \subseteq Nat /\ Len(from) \in T
  BY <1>1
<1>3. \E n \in T : \A m \in T : n <= m
  <2> HIDE DEF T
  <2> QED
    BY <1>2, LeastNumber
<1>4. PICK n \in T : \A m \in T : n <= m
  BY <1>3
<1>5. ASSUME NEW i \in 1..n
      PROVE  Fits(from, i)
  <2>1. i - 1 \in 0..Len(from) /\ i - 1 < Len(from) /\ ~(n <= i - 1)
    BY <1>1, <1>4
  <2>2. i - 1 \notin T
    BY <1>4, <2>1
  <2>3. (i - 1) + 1 = i
    OBVIOUS
  <2> QED
    BY <2>1, <2>2, <2>3
<1>6. n \in 0..Len(from) /\ (n < Len(from) => ~Fits(from, n + 1))
  OBVIOUS
<1>7. \E m \in 0..Len(from) : /\ \A i \in 1..m : Fits(from, i)
                              /\ m < Len(from) => ~Fits(from, m + 1)
  BY <1>5, <1>6
<1> QED
  BY <1>7, Zenon DEF PageLength

-----------------------------------------------------------------------------
\* A sequence that another one begins with.
StartOf(s, t) == Len(s) <= Len(t) /\ \A i \in 1..Len(s) : s[i] = t[i]

ListTypeOK == /\ tools \in Seq(Tools)
              /\ walking \in BOOLEAN /\ include \in BOOLEAN
              /\ got \in Seq(Tools) /\ listable \in Seq(Tools)

\* How far a walk is: what it got is what the loop sees first, the cursor names the
\* tool after that, and at its end it has at least what there was at its beginning.
WalkStage ==
    LET all == Visible(include)
    IN  /\ StartOf(got, all) /\ StartOf(listable, all)
        /\ walking => /\ cursor # NoName /\ Len(got) < Len(all)
                      /\ NameOf[all[Len(got) + 1]] = cursor
        /\ ~walking /\ got # <<>> => Len(listable) <= Len(got)

\* The inductive invariant.
WalkInv == ListTypeOK /\ (Walkable => WalkStage)

\* IsPrefix, element by element.
LEMMA PrefixIs ==
    ASSUME NEW s \in Seq(Tools), NEW t \in Seq(Tools)
    PROVE  IsPrefix(s, t) <=> StartOf(s, t)
<1>1. Len(s) \in Nat /\ Len(t) \in Nat
  BY LenProperties
<1>2. /\ SubSeq(s, 1, Len(s)) \in Seq(Tools) /\ Len(SubSeq(s, 1, Len(s))) = Len(s)
      /\ \A i \in 1..Len(s) : SubSeq(s, 1, Len(s))[i] = s[i]
  BY <1>1
<1>3. ASSUME Len(s) <= Len(t)
      PROVE  /\ SubSeq(t, 1, Len(s)) \in Seq(Tools) /\ Len(SubSeq(t, 1, Len(s))) = Len(s)
             /\ \A i \in 1..Len(s) : SubSeq(t, 1, Len(s))[i] = t[i]
  BY <1>1, <1>3
<1>4. ASSUME StartOf(s, t)
      PROVE  IsPrefix(s, t)
  <2>1. Len(s) <= Len(t) /\ \A i \in 1..Len(s) : s[i] = t[i]
    BY <1>4 DEF StartOf
  <2>2. SubSeq(s, 1, Len(s)) = SubSeq(t, 1, Len(s))
    BY <2>1, <1>2, <1>3, SeqEqual
  <2> QED
    BY <2>1, <2>2 DEF IsPrefix
<1>5. ASSUME IsPrefix(s, t)
      PROVE  StartOf(s, t)
  <2>1. Len(s) <= Len(t) /\ SubSeq(s, 1, Len(s)) = SubSeq(t, 1, Len(s))
    BY <1>5 DEF IsPrefix
  <2> QED
    BY <2>1, <1>2, <1>3 DEF StartOf
<1> QED
  BY <1>4, <1>5

\* What can be seen of the array are tools of it, in a walkable list with names of their own.
LEMMA VisibleTools ==
    ASSUME tools \in Seq(Tools), NEW all \in BOOLEAN
    PROVE  /\ Visible(all) \in Seq(Tools)
           /\ \A k \in 1..Len(Visible(all)) : Visible(all)[k] \in Range(tools)
           /\ Walkable => \A i, j \in 1..Len(Visible(all)) :
                             NameOf[Visible(all)[i]] = NameOf[Visible(all)[j]] => i = j
<1>1. /\ Len(tools) \in 0..Len(tools)
      /\ DOMAIN tools = 1..Len(tools)
  BY LenProperties
<1>2. /\ Visible(all) \in Seq(Tools)
      /\ \A k \in 1..Len(Visible(all)) : \E j \in 1..Len(tools) : Visible(all)[k] = tools[j]
  BY <1>1, SeenTypes DEF Visible
<1>3. \A k \in 1..Len(Visible(all)) : Visible(all)[k] \in Range(tools)
  BY <1>1, <1>2 DEF Range
<1>4. ASSUME Walkable
      PROVE  \A i, j \in 1..Len(Visible(all)) :
                NameOf[Visible(all)[i]] = NameOf[Visible(all)[j]] => i = j
  <2>1. \A i, j \in 1..Len(tools) : NameOf[tools[i]] = NameOf[tools[j]] => i = j
    BY <1>1, <1>4 DEF Walkable
  <2> QED
    BY <1>1, <2>1, SeenDistinct DEF Visible
<1> QED
  BY <1>2, <1>3, <1>4

\* From a cursor, what is left is part of what can be seen.
LEMMA FromTypes ==
    ASSUME NEW visible \in Seq(Tools), NEW c
    PROVE  From(visible, c) \in Seq(Tools)
<1> DEFINE at == {i \in DOMAIN visible : NameOf[visible[i]] = c}
<1>1. DOMAIN visible = 1..Len(visible) /\ Len(visible) \in Nat
  BY LenProperties
<1>2. ASSUME at # {}
      PROVE  (CHOOSE i \in at : \A j \in at : i <= j) \in 1..Len(visible)
  <2>1. at \subseteq Nat
    BY <1>1
  <2>2. \E i \in at : \A j \in at : i <= j
    <3> HIDE DEF at
    <3> QED
      BY <1>2, <2>1, LeastNumber
  <2>3. (CHOOSE i \in at : \A j \in at : i <= j) \in at
    <3> HIDE DEF at
    <3> QED
      BY <2>2, Zenon
  <2> QED
    BY <1>1, <2>3
<1>3. ASSUME at # {}
      PROVE  SubSeq(visible, CHOOSE i \in at : \A j \in at : i <= j, Len(visible)) \in Seq(Tools)
  <2>1. PICK m \in 1..Len(visible) : m = CHOOSE i \in at : \A j \in at : i <= j
    BY <1>2, <1>3
  <2>2. SubSeq(visible, m, Len(visible)) \in Seq(Tools)
    BY <1>1
  <2> QED
    BY <2>1, <2>2
<1>4. <<>> \in Seq(Tools)
  BY EmptySeq
<1> QED
  BY <1>3, <1>4 DEF From

\* If names are distinct, what is left from the cursor begins with the tool it names.
LEMMA FromContinues ==
    ASSUME NEW visible \in Seq(Tools), NEW p \in 1..Len(visible), NEW c, c # NoName,
           NameOf[visible[p]] = c,
           \A i, j \in 1..Len(visible) : NameOf[visible[i]] = NameOf[visible[j]] => i = j
    PROVE  From(visible, c) = SubSeq(visible, p, Len(visible))
<1> DEFINE at == {i \in DOMAIN visible : NameOf[visible[i]] = c}
<1>1. DOMAIN visible = 1..Len(visible) /\ Len(visible) \in Nat
  BY LenProperties
<1>2. at = {p}
  BY <1>1
<1>3. (CHOOSE i \in at : \A j \in at : i <= j) = p
  BY <1>1, <1>2
<1> QED
  BY <1>2, <1>3 DEF From

\* Whatever the cursor, a page has the types of a page.
LEMMA PageTypes ==
    ASSUME tools \in Seq(Tools), NEW all \in BOOLEAN, NEW c, NEW before \in Seq(Tools),
           Answered(mcp_server_build_tools_list(all, c), before)
    PROVE  got' \in Seq(Tools) /\ walking' \in BOOLEAN
<1> DEFINE from == From(Visible(all), c)
           n == PageLength(from)
<1>1. from \in Seq(Tools)
  BY VisibleTools, FromTypes
<1>2. n \in 0..Len(from) /\ Len(from) \in Nat
  <2> HIDE DEF from
  <2> QED
    BY <1>1, PageTakes, LenProperties
<1>3. SubSeq(from, 1, n) \in Seq(Tools)
  <2> HIDE DEF from, n
  <2> QED
    BY <1>1, <1>2
<1>4. mcp_server_build_tools_list(all, c).shown = SubSeq(from, 1, n)
  BY DEF mcp_server_build_tools_list
<1>5. got' = before \o SubSeq(from, 1, n)
  BY <1>4, Zenon DEF Answered
<1> HIDE DEF from, n
<1>6. got' \in Seq(Tools)
  BY <1>3, <1>5, ConcatProperties
<1> QED
  BY <1>6 DEF Answered

\* A page of a walkable list goes on where the walk is, and its cursor says where it ends.
LEMMA PageContinues ==
    ASSUME tools \in Seq(Tools), Walkable, NEW all \in BOOLEAN, NEW c, NEW before \in Seq(Tools),
           StartOf(before, Visible(all)),
           \/ c = NoName /\ before = <<>>
           \/ /\ c # NoName /\ Len(before) < Len(Visible(all))
              /\ NameOf[Visible(all)[Len(before) + 1]] = c,
           Answered(mcp_server_build_tools_list(all, c), before)
    PROVE  /\ StartOf(got', Visible(all))
           /\ walking' => /\ cursor' # NoName /\ Len(got') < Len(Visible(all))
                          /\ NameOf[Visible(all)[Len(got') + 1]] = cursor'
           /\ ~walking' => Len(got') = Len(Visible(all))
<1> PICK v \in Seq(Tools) : v = Visible(all)
  BY VisibleTools
<1> PICK from \in Seq(Tools) : from = From(v, c)
  BY FromTypes
<1> PICK n \in 0..Len(from) : n = PageLength(from)
  BY PageTakes
<1> PICK b \in Nat : b = Len(before)
  BY LenProperties
<1>1. Len(v) \in Nat /\ b \in Nat /\ Len(from) \in Nat /\ b <= Len(v)
  BY LenProperties DEF StartOf
<1>2. n \in 0..Len(from) /\ n \in Nat
  BY <1>1
<1>3. Len(from) = Len(v) - b /\ \A i \in 1..Len(from) : from[i] = v[b + i]
  <2>1. CASE c = NoName /\ before = <<>>
    <3>1. from = v
      BY <2>1 DEF From
    <3>2. b = 0
      BY <2>1, EmptySeq
    <3> QED
      BY <1>1, <3>1, <3>2
  <2>2. CASE c # NoName /\ b < Len(v) /\ NameOf[v[b + 1]] = c
    <3>1. b + 1 \in 1..Len(v)
      BY <1>1, <2>2
    <3>2. \A i, j \in 1..Len(v) : NameOf[v[i]] = NameOf[v[j]] => i = j
      BY VisibleTools
    <3>3. from = SubSeq(v, b + 1, Len(v))
      <4>1. PICK p \in 1..Len(v) : p = b + 1
        BY <3>1
      <4>2. NameOf[v[p]] = c
        BY <2>2, <4>1
      <4>3. From(v, c) = SubSeq(v, p, Len(v))
        BY <2>2, <3>2, <4>2, FromContinues, Zenon
      <4> QED
        BY <4>1, <4>3
    <3> QED
      BY <1>1, <2>2, <3>1, <3>3
  <2> QED
    BY <2>1, <2>2
<1>4. /\ mcp_server_build_tools_list(all, c).shown = SubSeq(from, 1, n)
      /\ mcp_server_build_tools_list(all, c).next =
            IF n < Len(from) THEN Cut[NameOf[from[n + 1]]] ELSE NoName
  BY DEF mcp_server_build_tools_list
<1>5. /\ got' = before \o SubSeq(from, 1, n)
      /\ cursor' = IF n < Len(from) THEN Cut[NameOf[from[n + 1]]] ELSE NoName
      /\ walking' = (cursor' # NoName)
  BY <1>4, Zenon DEF Answered
<1>6. /\ SubSeq(from, 1, n) \in Seq(Tools) /\ Len(SubSeq(from, 1, n)) = n
      /\ \A i \in 1..n : SubSeq(from, 1, n)[i] = from[i]
  <2>1. \A i \in 1..n : from[i] \in Tools
    BY <1>1, <1>2, ElementOfSeq
  <2>2. /\ SubSeq(from, 1, n) \in Seq(Tools)
        /\ Len(SubSeq(from, 1, n)) = IF 1 <= n THEN n - 1 + 1 ELSE 0
        /\ \A i \in 1..n - 1 + 1 : SubSeq(from, 1, n)[i] = from[1 + i - 1]
    BY <1>2, <2>1, SubSeqProperties
  <2> QED
    BY <1>2, <2>2
<1>7. /\ Len(got') = b + n
      /\ \A i \in 1..b + n : got'[i] = IF i <= b THEN before[i] ELSE SubSeq(from, 1, n)[i - b]
  BY <1>5, <1>6, ConcatProperties
<1>8. StartOf(got', v)
  <2>1. \A i \in 1..b : before[i] = v[i]
    BY DEF StartOf
  <2>2. ASSUME NEW i \in 1..b + n
        PROVE  got'[i] = v[i]
    <3>1. CASE i <= b
      BY <1>1, <1>7, <2>1, <3>1
    <3>2. CASE i > b
      <4>0. i - b \in 1..n /\ b + (i - b) = i
        BY <1>1, <1>2, <3>2
      <4>1. PICK k \in 1..n : k = i - b /\ b + k = i
        BY <4>0
      <4>2. got'[i] = SubSeq(from, 1, n)[k]
        BY <1>1, <1>7, <3>2, <4>1
      <4>3. SubSeq(from, 1, n)[k] = from[k]
        BY <1>6
      <4>4. k \in 1..Len(from)
        BY <1>1, <1>2
      <4> QED
        BY <1>3, <4>1, <4>2, <4>3, <4>4
    <3> QED
      BY <1>1, <3>1, <3>2
  <2> QED
    BY <1>1, <1>2, <1>3, <1>7, <2>2 DEF StartOf
<1>9. CASE n < Len(from)
  <2>1. b + (n + 1) = (b + n) + 1 /\ n + 1 \in 1..Len(from) /\ (b + n) + 1 \in 1..Len(v)
    BY <1>1, <1>2, <1>3, <1>9
  <2>2. from[n + 1] = v[(b + n) + 1]
    BY <1>3, <2>1
  <2>3. v[(b + n) + 1] \in Range(tools)
    BY <2>1, VisibleTools
  <2>4. /\ NameOf[v[(b + n) + 1]] # NoName
        /\ Cut[NameOf[v[(b + n) + 1]]] = NameOf[v[(b + n) + 1]]
    BY <2>3 DEF Walkable
  <2>5. cursor' = NameOf[v[(b + n) + 1]]
    BY <1>5, <1>9, <2>2, <2>4
  <2>6. Len(got') = b + n /\ b + n < Len(v)
    BY <1>1, <1>2, <1>3, <1>7, <1>9
  <2>7. walking'
    BY <1>5, <2>4, <2>5
  <2>8. NameOf[v[Len(got') + 1]] = cursor'
    BY <2>5, <2>6
  <2> QED
    BY <1>8, <2>4, <2>5, <2>6, <2>7, <2>8
<1>10. CASE n = Len(from)
  <2>1. Len(got') = Len(v)
    BY <1>1, <1>3, <1>7, <1>10
  <2>2. cursor' = NoName
    BY <1>1, <1>5, <1>10
  <2>3. ~walking'
    BY <1>5, <2>2, Zenon
  <2> QED
    BY <1>8, <2>1, <2>3
<1>11. n < Len(from) \/ n = Len(from)
  BY <1>1, <1>2
<1> QED
  BY <1>9, <1>10, <1>11

\* The first request of a walk.
LEMMA FirstKeepsWalk ==
    ASSUME WalkInv, NEW all \in BOOLEAN, tools_list_first(all)
    PROVE  WalkInv'
<1>1. /\ ListTypeOK /\ tools' = tools /\ include' = all /\ listable' = Visible(all)
      /\ Answered(mcp_server_build_tools_list(all, NoName), <<>>)
  BY DEF WalkInv, tools_list_first, registryVars
<1>2. Visible(include)' = Visible(all) /\ (Walkable' <=> Walkable)
  BY <1>1 DEF Visible, Walkable
<1>3. tools \in Seq(Tools) /\ <<>> \in Seq(Tools)
  BY <1>1, EmptySeq DEF ListTypeOK
<1>4. Visible(all) \in Seq(Tools) /\ Len(Visible(all)) \in Nat
  BY <1>3, VisibleTools, LenProperties
<1>5. ListTypeOK'
  BY <1>1, <1>3, <1>4, PageTypes DEF ListTypeOK
<1>6. ASSUME Walkable
      PROVE  WalkStage'
  <2>1. StartOf(<<>>, Visible(all))
    BY <1>4 DEF StartOf
  <2>2. /\ StartOf(got', Visible(all))
        /\ walking' => /\ cursor' # NoName /\ Len(got') < Len(Visible(all))
                       /\ NameOf[Visible(all)[Len(got') + 1]] = cursor'
        /\ ~walking' => Len(got') = Len(Visible(all))
    BY <1>1, <1>3, <1>6, <2>1, PageContinues
  <2>3. StartOf(listable', Visible(all)) /\ Len(listable') = Len(Visible(all))
    BY <1>1, <1>4 DEF StartOf
  <2>4. ~walking' => Len(listable') <= Len(got')
    BY <1>4, <2>2, <2>3
  <2> QED
    BY <1>2, <2>2, <2>3, <2>4 DEF WalkStage, StartOf
<1> QED
  BY <1>2, <1>5, <1>6 DEF WalkInv

\* A further request.
LEMMA NextKeepsWalk ==
    ASSUME WalkInv, tools_list_next
    PROVE  WalkInv'
<1>1. /\ ListTypeOK /\ walking /\ tools' = tools /\ include' = include /\ listable' = listable
      /\ Answered(mcp_server_build_tools_list(include, cursor), got)
  BY DEF WalkInv, tools_list_next, registryVars
<1>2. Visible(include)' = Visible(include) /\ (Walkable' <=> Walkable)
  BY <1>1 DEF Visible, Walkable
<1>3. tools \in Seq(Tools) /\ include \in BOOLEAN /\ got \in Seq(Tools) /\ listable \in Seq(Tools)
  BY <1>1 DEF ListTypeOK
<1>4. Visible(include) \in Seq(Tools) /\ Len(Visible(include)) \in Nat /\ Len(listable) \in Nat
  BY <1>3, VisibleTools, LenProperties
<1>5. ListTypeOK'
  BY <1>1, <1>3, PageTypes DEF ListTypeOK
<1>6. ASSUME Walkable
      PROVE  WalkStage'
  <2>1. /\ StartOf(got, Visible(include)) /\ StartOf(listable, Visible(include))
        /\ cursor # NoName /\ Len(got) < Len(Visible(include))
        /\ NameOf[Visible(include)[Len(got) + 1]] = cursor
    BY <1>1, <1>6 DEF WalkInv, WalkStage
  <2>2. /\ StartOf(got', Visible(include))
        /\ walking' => /\ cursor' # NoName /\ Len(got') < Len(Visible(include))
                       /\ NameOf[Visible(include)[Len(got') + 1]] = cursor'
        /\ ~walking' => Len(got') = Len(Visible(include))
    BY <1>1, <1>3, <1>6, <2>1, PageContinues
  <2>3. StartOf(listable', Visible(include)) /\ Len(listable') <= Len(Visible(include))
    BY <1>1, <2>1 DEF StartOf
  <2>4. ~walking' => Len(listable') <= Len(got')
    BY <2>2, <2>3
  <2> QED
    BY <1>2, <2>2, <2>3, <2>4 DEF WalkStage, StartOf
<1> QED
  BY <1>2, <1>5, <1>6 DEF WalkInv

\* A tool that is registered between two pages comes after all that was seen.
LEMMA RegisterKeepsWalk ==
    ASSUME WalkInv, register
    PROVE  WalkInv'
<1>1. /\ ListTypeOK /\ walking' = walking /\ include' = include /\ cursor' = cursor
      /\ got' = got /\ listable' = listable
  BY DEF WalkInv, register, listVars
<1>2. tools' = tools \/ \E t \in Tools : tools' = Append(tools, t)
  BY DEF register, RegistryNext, mcp_server_add_tool, mcp_server_add_tool_duplicate,
     mcp_server_add_tool_no_memory
<1>3. tools \in Seq(Tools) /\ include \in BOOLEAN /\ got \in Seq(Tools) /\ listable \in Seq(Tools)
  BY <1>1 DEF ListTypeOK
<1>4. CASE tools' = tools
  <2>1. Visible(include)' = Visible(include) /\ (Walkable' <=> Walkable)
    BY <1>1, <1>4 DEF Visible, Walkable
  <2>2. WalkStage => WalkStage'
    BY <1>1, <2>1 DEF WalkStage, StartOf
  <2>3. ListTypeOK'
    BY <1>1, <1>4 DEF ListTypeOK
  <2> QED
    BY <2>1, <2>2, <2>3 DEF WalkInv
<1>5. ASSUME NEW t \in Tools, tools' = Append(tools, t)
      PROVE  WalkInv'
  <2>1. /\ Len(tools) \in Nat /\ tools' \in Seq(Tools) /\ Len(tools') = Len(tools) + 1
        /\ DOMAIN tools = 1..Len(tools) /\ DOMAIN tools' = 1..Len(tools) + 1
        /\ \A i \in 1..Len(tools) : tools'[i] = tools[i]
    BY <1>3, <1>5, LenProperties, AppendProperties
  <2>2. ListTypeOK'
    BY <1>1, <1>3, <2>1 DEF ListTypeOK
  <2>3. Walkable' => Walkable
    <3>1. Range(tools) \subseteq Range(tools')
      BY <2>1 DEF Range
    <3>2. \A i \in 1..Len(tools) : i \in 1..Len(tools) + 1
      BY <2>1
    <3> QED
      BY <2>1, <3>1, <3>2 DEF Walkable
  <2>4. /\ Visible(include) \in Seq(Tools)
        /\ Visible(include)' \in {Visible(include), Append(Visible(include), t)}
    BY <1>1, <1>3, <1>5, VisibleTools, SeenGrows DEF Visible
  <2> PICK v \in Seq(Tools) : v = Visible(include)
    BY <2>4
  <2>5. /\ Len(v) \in Nat /\ Len(Visible(include)') >= Len(v)
        /\ \A i \in 1..Len(v) : Visible(include)'[i] = v[i]
    BY <2>4, AppendProperties, LenProperties
  <2>6. ASSUME WalkStage
        PROVE  WalkStage'
    <3>1. Len(got) \in Nat /\ Len(listable) \in Nat
      BY <1>3, LenProperties
    <3>2. /\ StartOf(got, v) /\ StartOf(listable, v)
          /\ walking => /\ cursor # NoName /\ Len(got) < Len(v) /\ NameOf[v[Len(got) + 1]] = cursor
          /\ ~walking /\ got # <<>> => Len(listable) <= Len(got)
      BY <2>6 DEF WalkStage
    <3>3. StartOf(got, Visible(include)') /\ StartOf(listable, Visible(include)')
      <4> SUFFICES ASSUME NEW s, StartOf(s, v), Len(s) \in Nat
                   PROVE  StartOf(s, Visible(include)')
        BY <3>1, <3>2
      <4>1. Len(s) <= Len(Visible(include)')
        BY <2>4, <2>5, LenProperties DEF StartOf
      <4>2. \A i \in 1..Len(s) : s[i] = Visible(include)'[i]
        BY <2>5 DEF StartOf
      <4> QED
        BY <4>1, <4>2 DEF StartOf
    <3>4. walking => /\ cursor # NoName /\ Len(got) < Len(Visible(include)')
                     /\ NameOf[Visible(include)'[Len(got) + 1]] = cursor
      BY <2>5, <3>1, <3>2
    <3> QED
      BY <1>1, <3>2, <3>3, <3>4 DEF WalkStage, StartOf
  <2> QED
    BY <2>2, <2>3, <2>6 DEF WalkInv
<1> QED
  BY <1>2, <1>4, <1>5

\* WalkInv holds in every state of a walk, for tools of any size and any number of pages.
THEOREM ListWalk == ListSpec => []WalkInv
<1>1. ListInit => WalkInv
  <2> SUFFICES ASSUME ListInit PROVE WalkInv
    OBVIOUS
  <2>1. /\ tools = <<>> /\ walking = FALSE /\ include = FALSE /\ got = <<>> /\ listable = <<>>
    BY DEF ListInit, RegistryInit
  <2>2. Len(<<>>) = 0 /\ <<>> \in Seq(Tools)
    BY EmptySeq
  <2>3. Visible(include) = <<>>
    BY <2>1, <2>2, SeenPass DEF Visible
  <2>4. ListTypeOK
    BY <2>1, <2>2 DEF ListTypeOK
  <2>5. StartOf(<<>>, <<>>)
    BY <2>2 DEF StartOf
  <2>6. WalkStage
    BY <2>1, <2>3, <2>5 DEF WalkStage
  <2> QED
    BY <2>4, <2>6 DEF WalkInv
<1>2. WalkInv /\ [ListNext]_allVars => WalkInv'
  <2> SUFFICES ASSUME WalkInv, [ListNext]_allVars PROVE WalkInv'
    OBVIOUS
  <2>1. CASE UNCHANGED allVars
    <3>1. UNCHANGED <<tools, walking, include, cursor, got, listable>>
      BY <2>1 DEF allVars, registryVars, listVars
    <3>2. Visible(include)' = Visible(include) /\ (Walkable' <=> Walkable)
      BY <3>1 DEF Visible, Walkable
    <3> QED
      BY <3>1, <3>2 DEF WalkInv, ListTypeOK, WalkStage, StartOf
  <2> QED
    BY <2>1, RegisterKeepsWalk, FirstKeepsWalk, NextKeepsWalk DEF ListNext
<1> QED
  BY <1>1, <1>2, PTL DEF ListSpec

\* WalkExact holds in every state: however mcp_server_add_tool interleaves with its pages,
\* a walk of a walkable list shows each tool once and in the order of registration, and when
\* it ends it has shown all that were registered when it began.
THEOREM ListWalkExact == ListSpec => []WalkExact
<1>1. WalkInv => WalkExact
  <2> SUFFICES ASSUME WalkInv, Walkable
               PROVE  /\ IsPrefix(got, Visible(include))
                      /\ ~walking /\ got # <<>> => IsPrefix(listable, got)
    BY DEF WalkExact
  <2>1. ListTypeOK /\ WalkStage
    BY DEF WalkInv
  <2>2. /\ Visible(include) \in Seq(Tools) /\ got \in Seq(Tools) /\ listable \in Seq(Tools)
    BY <2>1, VisibleTools DEF ListTypeOK
  <2>3. StartOf(got, Visible(include)) /\ StartOf(listable, Visible(include))
    BY <2>1 DEF WalkStage
  <2>4. ASSUME ~walking /\ got # <<>>
        PROVE  StartOf(listable, got)
    <3>1. Len(listable) <= Len(got) /\ Len(listable) \in Nat /\ Len(got) \in Nat
      BY <2>1, <2>2, <2>4, LenProperties DEF WalkStage
    <3> QED
      BY <2>3, <3>1 DEF StartOf
  <2> QED
    BY <2>2, <2>3, <2>4, PrefixIs
<1> QED
  BY <1>1, ListWalk, PTL

-----------------------------------------------------------------------------
Answerable(m) == m.jsonrpc /\ m.method # Missing /\ m.id # Missing

\* The message in hand: a callback runs before anything is replied; a reply that comes
\* with no callback, or after its callback, is the only one.
HandledStage(h) ==
    LET m == h.message
    IN  /\ h = Handled(m, h.replies, h.calls, h.running)
        /\ m \in Messages /\ h.running \in BOOLEAN
        /\ h.running => Answerable(m) /\ h.replies = <<>> /\ \E call : h.calls = <<call>>
        /\ ~h.running /\ ~Answerable(m) => h.replies = <<>> /\ h.calls = <<>>
        /\ ~h.running /\ Answerable(m) =>
              \E error : /\ h.replies = <<Error(m, error)>>
                         /\ \/ h.calls = <<>>
                            \/ /\ error \in {Missing, "Tool call failed"}
                               /\ \E call : h.calls = <<call>>

\* The inductive invariant of OneOutcome.
OutcomeInv == handled # Idle => HandledStage(handled)

\* A message that is dropped cannot be answered, and the others can.
LEMMA DroppedOrAnswerable ==
    ASSUME NEW m \in Messages
    PROVE  Dropped(m) <=> ~Answerable(m)
  BY DispatchAssumption DEF Dropped, Answerable

\* A message that gets no reply, or one error or result without a callback.
LEMMA RepliedStage ==
    ASSUME NEW m \in Messages, NEW error
    PROVE  /\ Dropped(m) => HandledStage(Handled(m, <<>>, <<>>, FALSE))
           /\ ~Dropped(m) => HandledStage(Handled(m, <<Error(m, error)>>, <<>>, FALSE))
<1> DEFINE none == Handled(m, <<>>, <<>>, FALSE)
           one == Handled(m, <<Error(m, error)>>, <<>>, FALSE)
<1>1. /\ none.message = m /\ none.replies = <<>> /\ none.calls = <<>> /\ none.running = FALSE
      /\ one.message = m /\ one.replies = <<Error(m, error)>> /\ one.calls = <<>>
      /\ one.running = FALSE
  BY DEF Handled
<1>2. /\ none = Handled(none.message, none.replies, none.calls, none.running)
      /\ one = Handled(one.message, one.replies, one.calls, one.running)
  BY <1>1
<1>3. Dropped(m) <=> ~Answerable(m)
  BY DroppedOrAnswerable
<1> HIDE DEF none, one
<1>4. Dropped(m) => HandledStage(none)
  BY <1>1, <1>2, <1>3 DEF HandledStage
<1>5. ~Dropped(m) => HandledStage(one)
  BY <1>1, <1>2, <1>3 DEF HandledStage
<1> QED
  BY <1>4, <1>5 DEF none, one

\* A message whose callback begins.
LEMMA CallStage ==
    ASSUME NEW m \in Messages, NEW call, ~Dropped(m)
    PROVE  HandledStage(Handled(m, <<>>, <<call>>, TRUE))
<1> DEFINE h == Handled(m, <<>>, <<call>>, TRUE)
<1>1. h.message = m /\ h.replies = <<>> /\ h.calls = <<call>> /\ h.running = TRUE
  BY DEF Handled
<1>2. h = Handled(h.message, h.replies, h.calls, h.running)
  BY <1>1
<1>3. Answerable(m)
  BY DroppedOrAnswerable
<1> HIDE DEF h
<1>4. HandledStage(h)
  BY <1>1, <1>2, <1>3 DEF HandledStage
<1> QED
  BY <1>4 DEF h

\* mcp_server_parse_message replies at most once, and not at all if it calls a callback.
LEMMA ParseKeepsOutcome ==
    ASSUME NEW m \in Messages, mcp_server_parse_message(m)
    PROVE  HandledStage(handled')
<1>1. CASE parse_message_dropped(m)
  BY <1>1, RepliedStage DEF parse_message_dropped, Replied
<1>2. CASE parse_message_result(m)
  <2>1. handled' = Handled(m, <<Error(m, Missing)>>, <<>>, FALSE) /\ ~Dropped(m)
    BY <1>2 DEF parse_message_result, Replied, Ok, Error
  <2> QED
    BY <2>1, RepliedStage
<1>3. CASE parse_message_not_implemented(m)
  <2>1. handled' = Handled(m, <<Error(m, "Method not implemented")>>, <<>>, FALSE) /\ ~Dropped(m)
    BY <1>3 DEF parse_message_not_implemented, Replied
  <2> QED
    BY <2>1, RepliedStage
<1>4. CASE parse_message_bad_call(m)
  <2>1. ~Dropped(m) /\ \E error : handled' = Handled(m, <<Error(m, error)>>, <<>>, FALSE)
    BY <1>4 DEF parse_message_bad_call, Replied
  <2> QED
    BY <2>1, RepliedStage
<1>5. CASE parse_message_call(m)
  <2>1. ~Dropped(m) /\ mcp_server_do_tool_call(m)
    BY <1>5 DEF parse_message_call
  <2>2. \/ \E error : handled' = Handled(m, <<Error(m, error)>>, <<>>, FALSE)
        \/ \E call : handled' = Handled(m, <<>>, <<call>>, TRUE)
    <3> DEFINE t == mcp_server_find_tool_by_hash(m.name)
               outcomes == mcp_server_parse_arguments(properties[t], m.arguments)
    <3>1. \/ handled' = Handled(m, <<Error(m, "Unknown tool")>>, <<>>, FALSE)
          \/ \E parsed \in outcomes :
                \/ handled' = Handled(m, <<Error(m, parsed.error_property)>>, <<>>, FALSE)
                \/ handled' = Handled(m, <<>>, <<[tool |-> t, list |-> parsed]>>, TRUE)
      BY <2>1, Zenon DEF mcp_server_do_tool_call
    <3> HIDE DEF t, outcomes
    <3> QED
      BY <3>1, Zenon
  <2> QED
    BY <2>1, <2>2, RepliedStage, CallStage
<1>6. CASE parse_message_no_list(m)
  <2>1. /\ handled' = Handled(m, <<Error(m, "Failed to generate tools list")>>, <<>>, FALSE)
        /\ ~Dropped(m)
    BY <1>6 DEF parse_message_no_list
  <2> QED
    BY <2>1, RepliedStage
<1> QED
  BY <1>1, <1>2, <1>3, <1>4, <1>5, <1>6 DEF mcp_server_parse_message

\* When its callback has returned, the message gets its only reply.
LEMMA ReturnKeepsOutcome ==
    ASSUME OutcomeInv, mcp_tool_call
    PROVE  /\ HandledStage(handled')
           /\ \E error \in {Missing, "Tool call failed"} :
                 handled' = Handled(handled.message, <<Error(handled.message, error)>>,
                                    handled.calls, FALSE)
<1>1. HandledStage(handled) /\ handled.running
  BY DEF OutcomeInv, mcp_tool_call
<1> DEFINE m == handled.message
<1>2. /\ handled = Handled(m, handled.replies, handled.calls, handled.running)
      /\ m \in Messages /\ Answerable(m) /\ handled.replies = <<>>
      /\ \E call : handled.calls = <<call>>
  BY <1>1 DEF HandledStage
<1>3. PICK content \in mcp_build_content_from_return :
         handled' = [handled EXCEPT
                       !.running = FALSE,
                       !.replies = Append(@, IF content = Null THEN Error(m, "Tool call failed")
                                             ELSE Ok(m))]
  BY Zenon DEF mcp_tool_call
<1>4. PICK error : /\ error \in {Missing, "Tool call failed"}
                   /\ Error(m, error) = IF content = Null THEN Error(m, "Tool call failed") ELSE Ok(m)
  BY DEF Error, Ok
<1>5. handled' = [handled EXCEPT !.running = FALSE, !.replies = Append(@, Error(m, error))]
  BY <1>3, <1>4
<1> DEFINE h == [message |-> m, replies |-> <<Error(m, error)>>, calls |-> handled.calls,
                 running |-> FALSE]
<1>6. handled' = h
  <2>1. handled = [message |-> m, replies |-> <<>>, calls |-> handled.calls,
                   running |-> handled.running]
    BY <1>2 DEF Handled
  <2>2. PICK c, r, e : c = handled.calls /\ r = handled.running /\ e = Error(m, error)
    OBVIOUS
  <2>3. PICK n : n = m
    OBVIOUS
  <2> HIDE DEF m
  <2>4. handled = [message |-> n, replies |-> <<>>, calls |-> c, running |-> r]
    BY <2>1, <2>2, <2>3
  <2>5. handled' = [handled EXCEPT !.running = FALSE, !.replies = Append(@, e)]
    BY <1>5, <2>2
  <2>6. handled' = [message |-> n, replies |-> Append(<<>>, e), calls |-> c, running |-> FALSE]
    BY <2>4, <2>5
  <2>7. Append(<<>>, e) = <<e>>
    OBVIOUS
  <2> QED
    BY <2>2, <2>3, <2>6, <2>7
<1>7. h = Handled(h.message, h.replies, h.calls, h.running)
  BY DEF Handled
<1>8. HandledStage(h)
  BY <1>2, <1>4, <1>7, Zenon DEF HandledStage
<1> QED
  BY <1>4, <1>6, <1>8 DEF Handled

\* valueint of a number is the int nearest to it on the way from zero.
LEMMA ValueIntIsIntOf ==
    ASSUME NEW tenths \in Int
    PROVE  IntOf(ValueInt(tenths), tenths)
<1>1. IntMax \in Nat /\ IntMin = -IntMax - 1
  BY PropertyAssumption DEF IntMin
<1> DEFINE v == ValueInt(tenths)
           Between(w) == 10 * w \in (0..tenths) \cup (tenths..0)
<1>2. v \in IntMin..IntMax
  BY <1>1 DEF ValueInt
<1>3. Between(v) /\ \A w \in IntMin..IntMax : Between(w) => w \in (0..v) \cup (v..0)
  <2>1. CASE tenths >= 0
    <3>1. PICK q \in Nat : q = tenths \div 10 /\ 10 * q <= tenths /\ tenths < 10 * q + 10
      BY <2>1
    <3>2. v = IF q > IntMax THEN IntMax ELSE q
      BY <1>1, <2>1, <3>1 DEF ValueInt
    <3> HIDE DEF v
    <3> QED
      BY <1>1, <2>1, <3>1, <3>2
  <2>2. CASE tenths < 0
    <3>1. PICK q \in Nat : q = (-tenths) \div 10 /\ 10 * q <= -tenths /\ -tenths < 10 * q + 10
      BY <2>2
    <3>2. v = IF -q < IntMin THEN IntMin ELSE -q
      BY <1>1, <2>2, <3>1 DEF ValueInt
    <3> HIDE DEF v
    <3> QED
      BY <1>1, <2>2, <3>1, <3>2
  <2> QED
    BY <2>1, <2>2
<1> QED
  BY <1>2, <1>3 DEF IntOf

\* OutcomeInv holds in every state.
THEOREM DispatchOutcome == DispatchSpec => []OutcomeInv
<1>1. DispatchInit => OutcomeInv
  BY DEF DispatchInit, OutcomeInv
<1>2. OutcomeInv /\ [DispatchNext]_<<registryVars, dispatchVars>> => OutcomeInv'
  <2> SUFFICES ASSUME OutcomeInv, [DispatchNext]_<<registryVars, dispatchVars>>
               PROVE  OutcomeInv'
    OBVIOUS
  <2>1. CASE \E m \in Messages : mcp_server_parse_message(m)
    BY <2>1, ParseKeepsOutcome DEF OutcomeInv
  <2>2. CASE mcp_tool_call
    BY <2>2, ReturnKeepsOutcome DEF OutcomeInv
  <2>3. CASE parse_message_end
    BY <2>3 DEF parse_message_end, OutcomeInv
  <2>4. CASE \E t \in Tools : register_tool(t) \/ register_tool_refused(t) \/ register_tool_gives_up(t)
    <3>1. handled' = handled
      BY <2>4 DEF register_tool, register_tool_refused, register_tool_gives_up
    <3> QED
      BY <3>1 DEF OutcomeInv
  <2>5. CASE UNCHANGED <<registryVars, dispatchVars>>
    BY <2>5 DEF dispatchVars, OutcomeInv
  <2> QED
    BY <2>1, <2>2, <2>3, <2>4, <2>5 DEF DispatchNext
<1> QED
  BY <1>1, <1>2, PTL DEF DispatchSpec

\* OneOutcome holds in every state: mcp_server_parse_message answers a request once, under the
\* int that its id is read as, other messages not at all, and never both calls a tool and
\* refuses its arguments.
THEOREM DispatchOneOutcome == DispatchSpec => []OneOutcome
<1>1. OutcomeInv => OneOutcome
  <2> SUFFICES ASSUME handled # Idle, HandledStage(handled) PROVE OneOutcome
    BY DEF OutcomeInv, OneOutcome
  <2> DEFINE m == handled.message
  <2>1. handled.running \in BOOLEAN /\ m \in Messages
    BY DEF HandledStage
  <2>2. CASE handled.running
    <3>1. Answerable(m) /\ handled.replies = <<>> /\ \E call : handled.calls = <<call>>
      BY <2>2 DEF HandledStage
    <3> QED
      BY <2>2, <3>1 DEF OneOutcome
  <2>3. CASE ~handled.running /\ ~Answerable(m)
    <3>1. handled.replies = <<>> /\ handled.calls = <<>>
      BY <2>3 DEF HandledStage
    <3> QED
      BY <2>3, <3>1 DEF OneOutcome, Answerable
  <2>4. CASE ~handled.running /\ Answerable(m)
    <3>1. PICK error : /\ handled.replies = <<Error(m, error)>>
                       /\ \/ handled.calls = <<>>
                          \/ /\ error \in {Missing, "Tool call failed"}
                             /\ \E call : handled.calls = <<call>>
      BY <2>4 DEF HandledStage
    <3>2. IntOf(Error(m, error).id, m.id) /\ Error(m, error).error = error
      <4>1. m.id \in Int
        BY <2>1, <2>4, DispatchAssumption DEF Answerable
      <4>2. Error(m, error).id = ValueInt(m.id) /\ Error(m, error).error = error
        BY DEF Error
      <4> QED
        BY <4>1, <4>2, ValueIntIsIntOf
    <3>3. PICK e : e = Error(m, error)
      OBVIOUS
    <3>4. Len(handled.replies) = 1 /\ DOMAIN handled.replies = {1} /\ handled.replies[1] = e
      <4>1. handled.replies = <<e>>
        BY <3>1, <3>3
      <4>2. Len(<<e>>) = 1 /\ DOMAIN <<e>> = {1} /\ <<e>>[1] = e
        OBVIOUS
      <4> QED
        BY <4>1, <4>2
    <3>5. handled.calls # <<>> => /\ Len(handled.calls) = 1
                                  /\ error \in {Missing, "Tool call failed"}
      <4> SUFFICES ASSUME handled.calls # <<>>
                   PROVE  Len(handled.calls) = 1 /\ error \in {Missing, "Tool call failed"}
        OBVIOUS
      <4>1. error \in {Missing, "Tool call failed"} /\ \E call : handled.calls = <<call>>
        <5> HIDE DEF m
        <5> QED
          BY <3>1
      <4>3. PICK call : handled.calls = <<call>>
        BY <4>1
      <4>2. Len(<<call>>) = 1
        OBVIOUS
      <4> QED
        BY <4>1, <4>2, <4>3
    <3> HIDE DEF m
    <3>6. \A i \in DOMAIN handled.replies : /\ IntOf(handled.replies[i].id, m.id)
                                            /\ handled.replies[i].error = error
      BY <3>2, <3>3, <3>4
    <3> USE DEF m
    <3> QED
      BY <2>4, <3>4, <3>5, <3>6 DEF OneOutcome, Answerable
  <2> QED
    BY <2>1, <2>2, <2>3, <2>4
<1> QED
  BY <1>1, DispatchOutcome, PTL

-----------------------------------------------------------------------------
\* The sums of a sequence, from one position to the next.
LEMMA SumsPass ==
    ASSUME NEW w \in Seq(Int)
    PROVE  /\ Sums(w)[0] = 0
           /\ \A i \in 1..Len(w) : Sums(w)[i] = Sums(w)[i - 1] + w[i]
<1> DEFINE Pass(f, i) == IF i = 0 THEN 0 ELSE f[i - 1] + w[i]
           next == [i \in 1..Len(w) |-> [s \in Int |-> s + w[i]]]
<1>1. Len(w) \in Nat /\ \A i \in 1..Len(w) : w[i] \in Int
  BY LenProperties, ElementOfSeq
<1>2. 0 \in Int /\ next \in Passes(Len(w), Int)
  BY <1>1 DEF Passes
<1>3. PICK f : Runs(f, Len(w), Int, 0, next)
  <2> HIDE DEF next
  <2> QED
    BY <1>1, <1>2, LoopExists
<1>4. ASSUME NEW i \in 0..Len(w)
      PROVE  f[i] = Pass(f, i)
  <2>1. CASE i = 0
    BY <1>3, <2>1 DEF Runs
  <2>2. CASE i \in 1..Len(w)
    <3>1. i - 1 \in 0..Len(w)
      BY <1>1, <2>2
    <3>2. f[i] = next[i][f[i - 1]] /\ f[i - 1] \in Int
      <4> HIDE DEF next
      <4> QED
        BY <1>3, <2>2, <3>1 DEF Runs
    <3>3. next[i][f[i - 1]] = f[i - 1] + w[i]
      BY <2>2, <3>2
    <3>4. Pass(f, i) = f[i - 1] + w[i]
      BY <1>1, <2>2
    <3> QED
      BY <3>2, <3>3, <3>4
  <2> QED
    BY <1>1, <2>1, <2>2
<1>5. f = [i \in 0..Len(w) |-> Pass(f, i)]
  <2> HIDE DEF Pass
  <2>1. f = [i \in 0..Len(w) |-> f[i]]
    BY <1>3 DEF Runs
  <2> QED
    BY <1>4, <2>1, Zenon
<1>6. Sums(w) = [i \in 0..Len(w) |-> Pass(Sums(w), i)]
  BY <1>5, Zenon DEF Sums
<1>7. ASSUME NEW i \in 0..Len(w)
      PROVE  Sums(w)[i] = Pass(Sums(w), i)
  BY <1>6, Zenon
<1> QED
  BY <1>1, <1>7

\* They are numbers.
LEMMA SumsAreInt ==
    ASSUME NEW w \in Seq(Int)
    PROVE  \A i \in 0..Len(w) : Sums(w)[i] \in Int
<1> DEFINE Q == {i \in 0..Len(w) : Sums(w)[i] \in Int}
<1>1. Len(w) \in Nat /\ \A i \in 1..Len(w) : w[i] \in Int
  BY LenProperties, ElementOfSeq
<1>2. 0 \in Q /\ \A i \in 1..Len(w) : i - 1 \in Q => i \in Q
  <2>1. 0 \in Q
    BY <1>1, SumsPass
  <2>2. ASSUME NEW i \in 1..Len(w), Sums(w)[i - 1] \in Int
        PROVE  Sums(w)[i] \in Int
    <3>1. Sums(w)[i] = Sums(w)[i - 1] + w[i]
      BY SumsPass
    <3>2. w[i] \in Int
      BY <1>1
    <3> QED
      BY <2>2, <3>1, <3>2
  <2> QED
    BY <1>1, <2>1, <2>2
<1>3. \A i \in 0..Len(w) : i \in Q
  <2> HIDE DEF Q
  <2> QED
    BY <1>1, <1>2, LoopInduction
<1> QED
  BY <1>3

\* The total of a sequence of numbers is a number.
LEMMA TotalIsInt ==
    ASSUME NEW w \in Seq(Int)
    PROVE  Total(w) \in Int
<1>1. Len(w) \in Nat /\ Len(w) \in 0..Len(w)
  BY LenProperties
<1> QED
  BY <1>1, SumsAreInt DEF Total

\* One more number adds itself.
LEMMA TotalAppend ==
    ASSUME NEW w \in Seq(Int), NEW x \in Int
    PROVE  Total(Append(w, x)) = Total(w) + x
<1> DEFINE longer == Append(w, x)
           Q == {i \in 0..Len(w) : Sums(longer)[i] = Sums(w)[i]}
<1>1. /\ Len(w) \in Nat /\ longer \in Seq(Int) /\ Len(longer) = Len(w) + 1
      /\ longer[Len(w) + 1] = x
      /\ \A i \in 1..Len(w) : longer[i] = w[i]
  BY LenProperties, AppendProperties
<1> HIDE DEF longer
<1>2. Sums(w)[0] = 0 /\ \A i \in 1..Len(w) : Sums(w)[i] = Sums(w)[i - 1] + w[i]
  BY SumsPass
<1>3. /\ Sums(longer)[0] = 0
      /\ \A i \in 1..Len(longer) : Sums(longer)[i] = Sums(longer)[i - 1] + longer[i]
  BY <1>1, SumsPass
<1>4. 0 \in Q /\ \A i \in 1..Len(w) : i - 1 \in Q => i \in Q
  BY <1>1, <1>2, <1>3
<1>5. \A i \in 0..Len(w) : i \in Q
  <2> HIDE DEF Q
  <2> QED
    BY <1>1, <1>4, LoopInduction
<1>6. Sums(longer)[Len(w)] = Sums(w)[Len(w)]
  BY <1>1, <1>5
<1>7. Len(longer) \in 1..Len(longer) /\ Len(longer) - 1 = Len(w)
  BY <1>1
<1> QED
  BY <1>1, <1>3, <1>6, <1>7 DEF Total, longer

\* Of no numbers it is zero.
LEMMA TotalEmpty == Total(<<>>) = 0
<1>1. <<>> \in Seq(Int) /\ Len(<<>>) = 0
  BY EmptySeq
<1> QED
  BY <1>1, SumsPass DEF Total

-----------------------------------------------------------------------------
\* Properties and lists as the device keeps them; a name or a string may be lost.
Value == (UNION {ValuesOf(type) : type \in Types}) \cup {Missing, Null}
PropertyType == [name : Keys \cup {Null}, type : Types, value : Value, min : Int, max : Int]
ListType == [items : Seq(PropertyType), capacity : Nat]

\* What each property of a sequence owns.
Weights(items) == [i \in DOMAIN items |-> PropertyBlocks(items[i])]

\* A property that was copied: its name and its string may be lost.
CopyOf(q, p) == /\ q.type = p.type /\ q.min = p.min /\ q.max = p.max
                /\ q.name \in {p.name, Null}
                /\ \/ q.value = p.value
                   \/ q.value = Null /\ p.type = "string" /\ p.value # Missing
Copied(items, from, n) == Len(items) = n /\ \A i \in 1..n : CopyOf(items[i], from[i])

\* The blocks of a property are a number.
LEMMA PropertyBlocksIsInt ==
    ASSUME NEW p
    PROVE  PropertyBlocks(p) \in Int
  BY DEF PropertyBlocks

\* The weights of a sequence are numbers, and one more property adds its own.
LEMMA WeightsAppend ==
    ASSUME NEW items \in Seq(PropertyType), NEW p \in PropertyType
    PROVE  /\ Weights(items) \in Seq(Int)
           /\ Weights(Append(items, p)) = Append(Weights(items), PropertyBlocks(p))
<1> DEFINE longer == Append(items, p)
<1>1. /\ Len(items) \in Nat /\ DOMAIN items = 1..Len(items)
      /\ longer \in Seq(PropertyType) /\ Len(longer) = Len(items) + 1
      /\ DOMAIN longer = 1..Len(items) + 1
      /\ longer[Len(items) + 1] = p
      /\ \A i \in 1..Len(items) : longer[i] = items[i]
  BY LenProperties, AppendProperties
<1>2. \A i \in DOMAIN items : PropertyBlocks(items[i]) \in Int
  BY PropertyBlocksIsInt
<1>3. /\ Weights(items) \in [1..Len(items) -> Int]
      /\ \A i \in 1..Len(items) : Weights(items)[i] = PropertyBlocks(items[i])
  BY <1>1, <1>2 DEF Weights
<1>4. Weights(items) \in Seq(Int) /\ Len(Weights(items)) = Len(items)
  BY <1>1, <1>3, SeqDef
<1> DEFINE w == Append(Weights(items), PropertyBlocks(p))
<1>5. /\ w \in Seq(Int) /\ Len(w) = Len(items) + 1 /\ w[Len(items) + 1] = PropertyBlocks(p)
      /\ \A i \in 1..Len(items) : w[i] = PropertyBlocks(items[i])
  BY <1>3, <1>4, PropertyBlocksIsInt, AppendProperties
<1>6. w = [i \in 1..Len(items) + 1 |-> w[i]]
  <2>1. DOMAIN w = 1..Len(items) + 1 /\ w = [i \in DOMAIN w |-> w[i]]
    BY <1>5, LenProperties
  <2> QED
    BY <2>1
<1>7. \A i \in 1..Len(items) + 1 : w[i] = PropertyBlocks(longer[i])
  <2> HIDE DEF w, longer
  <2> SUFFICES ASSUME NEW i \in 1..Len(items) + 1 PROVE w[i] = PropertyBlocks(longer[i])
    OBVIOUS
  <2>1. CASE i = Len(items) + 1
    BY <1>1, <1>5, <2>1
  <2>2. CASE i \in 1..Len(items)
    BY <1>1, <1>5, <2>2
  <2> QED
    BY <1>1, <2>1, <2>2
<1>8. Weights(longer) = [i \in 1..Len(items) + 1 |-> PropertyBlocks(longer[i])]
  BY <1>1 DEF Weights
<1> HIDE DEF w, longer
<1>9. Weights(longer) = w
  BY <1>6, <1>7, <1>8, Zenon
<1> QED
  BY <1>4, <1>9 DEF w, longer

\* There are as many as properties.
LEMMA WeightsAreInt ==
    ASSUME NEW items \in Seq(PropertyType)
    PROVE  Weights(items) \in Seq(Int) /\ Len(Weights(items)) = Len(items)
<1>1. Len(items) \in Nat /\ DOMAIN items = 1..Len(items)
  BY LenProperties
<1>2. \A i \in DOMAIN items : PropertyBlocks(items[i]) \in Int
  BY PropertyBlocksIsInt
<1>3. Weights(items) \in [1..Len(items) -> Int]
  BY <1>1, <1>2 DEF Weights
<1> QED
  BY <1>1, <1>3, SeqDef

\* The blocks of a list are a number, and an empty list has none.
LEMMA ListBlocksIsInt ==
    /\ \A l \in ListType : ListBlocks(l) \in Int
    /\ EmptyList \in ListType /\ ListBlocks(EmptyList) = 0
<1>1. ASSUME NEW l \in ListType
      PROVE  ListBlocks(l) \in Int
  <2>1. l.items \in Seq(PropertyType)
    BY DEF ListType
  <2>2. Weights(l.items) \in Seq(Int)
    BY <2>1, WeightsAreInt
  <2>3. Total(Weights(l.items)) \in Int
    BY <2>2, TotalIsInt
  <2> QED
    BY <2>3 DEF ListBlocks, Weights
<1>2. EmptyList \in ListType /\ ListBlocks(EmptyList) = 0
  <2>1. EmptyList.items = <<>> /\ EmptyList.capacity = 0 /\ EmptyList \in ListType
    BY EmptySeq DEF EmptyList, ListType
  <2>2. Weights(<<>>) = <<>>
    BY DEF Weights
  <2>3. ListBlocks(EmptyList) = 0 + Total(Weights(EmptyList.items))
    BY <2>1 DEF ListBlocks, Weights
  <2> QED
    BY <2>1, <2>2, <2>3, TotalEmpty
<1> QED
  BY <1>1, <1>2

\* A list that grows by a property owns that property and, from then on, an array.
LEMMA ListGrows ==
    ASSUME NEW l \in ListType, NEW p \in PropertyType
    PROVE  LET longer == [items |-> Append(l.items, p), capacity |-> Grown(l)]
           IN  /\ longer \in ListType
               /\ ListBlocks(longer) = ListBlocks(l) + PropertyBlocks(p)
                                       + (IF l.capacity = 0 THEN 1 ELSE 0)
<1> DEFINE longer == [items |-> Append(l.items, p), capacity |-> Grown(l)]
           w == Weights(l.items)
<1>1. l.items \in Seq(PropertyType) /\ l.capacity \in Nat /\ Len(l.items) \in Nat
  BY LenProperties DEF ListType
<1>2. Append(l.items, p) \in Seq(PropertyType) /\ Grown(l) \in Nat /\ Grown(l) # 0
  BY <1>1, AppendProperties DEF Grown
<1>3. w \in Seq(Int) /\ Weights(Append(l.items, p)) = Append(w, PropertyBlocks(p))
  BY <1>1, WeightsAppend
<1>4. Total(w) \in Int /\ Total(Append(w, PropertyBlocks(p))) = Total(w) + PropertyBlocks(p)
  <2> HIDE DEF w
  <2> QED
    BY <1>3, PropertyBlocksIsInt, TotalIsInt, TotalAppend
<1>5. ListBlocks(l) = (IF l.capacity = 0 THEN 0 ELSE 1) + Total(w)
  BY DEF ListBlocks, Weights
<1>6. ListBlocks(longer) = 1 + Total(Weights(Append(l.items, p)))
  BY <1>2 DEF ListBlocks, Weights
<1>7. longer \in ListType
  BY <1>2 DEF ListType
<1> QED
  BY <1>3, <1>4, <1>5, <1>6, <1>7, PropertyBlocksIsInt

-----------------------------------------------------------------------------
OutcomeType == [list : ListType, ok : BOOLEAN, live : Int]

\* What a loop that adds the first n properties of a sequence may come to: copies of
\* them all, or nothing; and it holds what it owns.
Whole(o, from, n) == /\ o \in OutcomeType
                     /\ o.live = ListBlocks(o.list)
                     /\ o.ok => Copied(o.list.items, from, n)
                     /\ ~o.ok => o.list = EmptyList

\* property_copy_func makes copies.
LEMMA CopyFunc ==
    ASSUME NEW p \in PropertyType, NEW c \in property_copy_func(p)
    PROVE  c \in PropertyType /\ CopyOf(c, p)
<1> DEFINE values == IF p.type = "string" /\ p.value # Missing THEN {p.value, Null} ELSE {p.value}
<1>1. PICK n \in {p.name, Null}, v \in values : c = [p EXCEPT !.name = n, !.value = v]
  <2>1. PICK pair \in {p.name, Null} \X values : c = [p EXCEPT !.name = pair[1], !.value = pair[2]]
    BY Zenon DEF property_copy_func
  <2> HIDE DEF values
  <2>2. pair[1] \in {p.name, Null} /\ pair[2] \in values
    OBVIOUS
  <2> QED
    BY <2>1, <2>2
<1>2. p = [name |-> p.name, type |-> p.type, value |-> p.value, min |-> p.min, max |-> p.max]
  BY DEF PropertyType
<1>3. c = [name |-> n, type |-> p.type, value |-> v, min |-> p.min, max |-> p.max]
  BY <1>1, <1>2
<1>4. \/ v = p.value
      \/ v = Null /\ p.type = "string" /\ p.value # Missing
  BY <1>1
<1>5. n \in Keys \cup {Null} /\ v \in Value
  <2>1. Null \in Value
    BY DEF Value
  <2> QED
    BY <1>1, <1>4, <2>1 DEF PropertyType
<1> QED
  BY <1>1, <1>3, <1>4, <1>5 DEF PropertyType, CopyOf

\* A copy of a copy is a copy.
LEMMA CopyOfCopy ==
    ASSUME NEW p, NEW q, NEW r, CopyOf(q, p), CopyOf(r, q)
    PROVE  CopyOf(r, p)
  BY DEF CopyOf

\* What comes of adding a property: a copy at the end, or the list as it was.
LEMMA AddOutcome ==
    ASSUME NEW l \in ListType, NEW p \in PropertyType, NEW a \in mcp_property_list_add(l, p)
    PROVE  /\ a \in OutcomeType /\ a.live = ListBlocks(a.list) - ListBlocks(l)
           /\ a.ok => \E c \in PropertyType : CopyOf(c, p) /\ a.list.items = Append(l.items, c)
           /\ ~a.ok => a.list = l
<1>0. ListBlocks(l) \in Int
  BY ListBlocksIsInt
<1>1. CASE a = [list |-> l, ok |-> FALSE, live |-> 0]
  <2>1. a.list = l /\ a.ok = FALSE /\ a.live = 0 /\ a \in OutcomeType
    BY <1>1 DEF OutcomeType
  <2> QED
    BY <1>0, <2>1
<1>2. CASE \E c \in property_copy_func(p) :
              a = [list |-> [items |-> Append(l.items, c), capacity |-> Grown(l)], ok |-> TRUE,
                   live |-> PropertyBlocks(c) + (IF l.capacity = 0 THEN 1 ELSE 0)]
  <2>1. PICK c \in property_copy_func(p) :
              a = [list |-> [items |-> Append(l.items, c), capacity |-> Grown(l)], ok |-> TRUE,
                   live |-> PropertyBlocks(c) + (IF l.capacity = 0 THEN 1 ELSE 0)]
    BY <1>2
  <2> DEFINE longer == [items |-> Append(l.items, c), capacity |-> Grown(l)]
  <2>2. c \in PropertyType /\ CopyOf(c, p)
    BY CopyFunc
  <2>3. /\ longer \in ListType
        /\ ListBlocks(longer) = ListBlocks(l) + PropertyBlocks(c) + (IF l.capacity = 0 THEN 1 ELSE 0)
    BY <2>2, ListGrows
  <2>4. longer.items = Append(l.items, c)
    OBVIOUS
  <2> HIDE DEF longer
  <2>5. a.list = longer /\ a.ok = TRUE /\ a \in OutcomeType
        /\ a.live = PropertyBlocks(c) + (IF l.capacity = 0 THEN 1 ELSE 0)
    BY <2>1, <2>3, PropertyBlocksIsInt DEF OutcomeType, longer
  <2>6. a.live = ListBlocks(a.list) - ListBlocks(l)
    BY <1>0, <2>3, <2>5, PropertyBlocksIsInt
  <2> QED
    BY <2>2, <2>4, <2>5, <2>6
<1>3. \/ a = [list |-> l, ok |-> FALSE, live |-> 0]
      \/ \E c \in property_copy_func(p) :
            a = [list |-> [items |-> Append(l.items, c), capacity |-> Grown(l)], ok |-> TRUE,
                 live |-> PropertyBlocks(c) + (IF l.capacity = 0 THEN 1 ELSE 0)]
  <2>1. CASE a \in list_add(l, p)
    BY <2>1, Zenon DEF list_add
  <2>2. CASE a = [list |-> l, ok |-> FALSE, live |-> 0]
    BY <2>2
  <2> QED
    BY <2>1, <2>2 DEF mcp_property_list_add
<1> QED
  BY <1>1, <1>2, <1>3

\* A pass of such a loop, in types and in what it owns and holds.
LEMMA AddedOutcome ==
    ASSUME NEW o \in OutcomeType, NEW p \in PropertyType, NEW adds,
           adds \subseteq mcp_property_list_add(o.list, p), NEW q \in Added(o, adds)
    PROVE  /\ q \in OutcomeType
           /\ o.live = ListBlocks(o.list) => q.live = ListBlocks(q.list)
           /\ ~o.ok => q = o
           /\ o.ok /\ q.ok => \E c \in PropertyType : /\ CopyOf(c, p)
                                                      /\ q.list.items = Append(o.list.items, c)
           /\ o.ok /\ ~q.ok => q.list = EmptyList
<1>1. o.list \in ListType /\ o.live \in Int /\ o.ok \in BOOLEAN /\ ListBlocks(o.list) \in Int
  BY ListBlocksIsInt DEF OutcomeType
<1>2. CASE ~o.ok
  <2>1. q = o
    BY <1>2 DEF Added
  <2> QED
    BY <1>2, <2>1
<1>3. CASE o.ok
  <2>1. PICK a \in adds :
           q = IF a.ok THEN [list |-> a.list, ok |-> TRUE, live |-> o.live + a.live]
               ELSE [list |-> EmptyList, ok |-> FALSE, live |-> o.live + a.live - ListBlocks(a.list)]
    BY <1>3, Zenon DEF Added
  <2>2. /\ a \in OutcomeType /\ a.live = ListBlocks(a.list) - ListBlocks(o.list)
        /\ a.ok => \E c \in PropertyType : CopyOf(c, p) /\ a.list.items = Append(o.list.items, c)
        /\ ~a.ok => a.list = o.list
    BY <1>1, AddOutcome
  <2>3. a.list \in ListType /\ a.live \in Int /\ ListBlocks(a.list) \in Int
    BY <2>2, ListBlocksIsInt DEF OutcomeType
  <2>4. CASE a.ok
    <3>1. q.list = a.list /\ q.ok = TRUE /\ q.live = o.live + a.live /\ q \in OutcomeType
      BY <1>1, <2>1, <2>3, <2>4 DEF OutcomeType
    <3> QED
      BY <1>1, <1>3, <2>2, <2>3, <2>4, <3>1
  <2>5. CASE ~a.ok
    <3>1. /\ q.list = EmptyList /\ q.ok = FALSE /\ q \in OutcomeType
          /\ q.live = o.live + a.live - ListBlocks(a.list)
      BY <1>1, <2>1, <2>3, <2>5, ListBlocksIsInt DEF OutcomeType
    <3> QED
      BY <1>1, <1>3, <2>2, <2>3, <2>5, <3>1, ListBlocksIsInt
  <2> QED
    BY <2>4, <2>5
<1> QED
  BY <1>2, <1>3

-----------------------------------------------------------------------------
\* A pass of such a loop leads on from what it came to before.
LEMMA AddedWhole ==
    ASSUME NEW from \in Seq(PropertyType), NEW i \in 1..Len(from), NEW o, Whole(o, from, i - 1),
           NEW adds, adds \subseteq mcp_property_list_add(o.list, from[i]), NEW q \in Added(o, adds)
    PROVE  Whole(q, from, i)
<1>1. from[i] \in PropertyType /\ Len(from) \in Nat
  BY LenProperties, ElementOfSeq
<1>2. o \in OutcomeType /\ o.live = ListBlocks(o.list)
  BY DEF Whole
<1>3. /\ q \in OutcomeType /\ q.live = ListBlocks(q.list)
      /\ ~o.ok => q = o
      /\ o.ok /\ q.ok => \E c \in PropertyType : /\ CopyOf(c, from[i])
                                                 /\ q.list.items = Append(o.list.items, c)
      /\ o.ok /\ ~q.ok => q.list = EmptyList
  BY <1>1, <1>2, AddedOutcome
<1>4. q.ok => Copied(q.list.items, from, i)
  <2> SUFFICES ASSUME q.ok PROVE Copied(q.list.items, from, i)
    OBVIOUS
  <2>1. o.ok
    BY <1>3
  <2>2. PICK c \in PropertyType : CopyOf(c, from[i]) /\ q.list.items = Append(o.list.items, c)
    BY <1>3, <2>1
  <2>3. Copied(o.list.items, from, i - 1) /\ o.list.items \in Seq(PropertyType)
    BY <1>2, <2>1 DEF Whole, OutcomeType, ListType
  <2>4. /\ Len(q.list.items) = i /\ q.list.items[i] = c
        /\ \A k \in 1..i - 1 : q.list.items[k] = o.list.items[k]
    BY <1>1, <2>2, <2>3, AppendProperties, LenProperties DEF Copied
  <2>5. \A k \in 1..i : CopyOf(q.list.items[k], from[k])
    <3> SUFFICES ASSUME NEW k \in 1..i PROVE CopyOf(q.list.items[k], from[k])
      OBVIOUS
    <3>1. CASE k = i
      BY <2>2, <2>4, <3>1
    <3>2. CASE k \in 1..i - 1
      BY <2>3, <2>4, <3>2 DEF Copied
    <3> QED
      BY <1>1, <3>1, <3>2
  <2> QED
    BY <2>4, <2>5 DEF Copied
<1>5. ~q.ok => q.list = EmptyList
  BY <1>3 DEF Whole
<1> QED
  BY <1>3, <1>4, <1>5 DEF Whole

\* It begins with nothing added.
LEMMA WholeStart ==
    ASSUME NEW from
    PROVE  LET start == [list |-> EmptyList, ok |-> TRUE, live |-> 0]
           IN  start \in OutcomeType /\ Whole(start, from, 0)
<1> DEFINE start == [list |-> EmptyList, ok |-> TRUE, live |-> 0]
<1>1. EmptyList \in ListType /\ ListBlocks(EmptyList) = 0 /\ EmptyList.items = <<>>
  BY ListBlocksIsInt DEF EmptyList
<1>2. start \in OutcomeType /\ start.list = EmptyList /\ start.ok = TRUE /\ start.live = 0
  BY <1>1 DEF OutcomeType
<1>3. Copied(<<>>, from, 0)
  BY DEF Copied
<1> HIDE DEF start
<1>4. Whole(start, from, 0)
  BY <1>1, <1>2, <1>3 DEF Whole
<1> QED
  BY <1>2, <1>4 DEF start

\* mcp_property_list_clone copies a list or leaves nothing, and owns what it holds.
LEMMA CloneWhole ==
    ASSUME NEW from \in Seq(PropertyType),
           NEW o \in Outcomes(Clone, [list |-> EmptyList, ok |-> TRUE, live |-> 0], from)
    PROVE  Whole(o, from, Len(from))
<1> DEFINE start == [list |-> EmptyList, ok |-> TRUE, live |-> 0]
           Pass(f, i) == IF i = 0 THEN {start} ELSE UNION {Clone(q, from[i]) : q \in f[i - 1]}
           next == [i \in 1..Len(from) |-> [S \in SUBSET OutcomeType |->
                       UNION {Clone(q, from[i]) : q \in S}]]
           after == CHOOSE f : f = [i \in 0..Len(from) |-> Pass(f, i)]
           Q == {i \in 0..Len(from) : \A q \in after[i] : Whole(q, from, i)}
<1>1. /\ Len(from) \in Nat
      /\ \A i \in 1..Len(from) : from[i] \in PropertyType
  BY LenProperties, ElementOfSeq
<1>2. ASSUME NEW i \in 1..Len(from), NEW q \in OutcomeType, NEW r \in Clone(q, from[i])
      PROVE  r \in OutcomeType /\ (Whole(q, from, i - 1) => Whole(r, from, i))
  <2> DEFINE adds == list_add(q.list, from[i])
  <2>1. adds \subseteq mcp_property_list_add(q.list, from[i]) /\ r \in Added(q, adds)
    BY DEF Clone, mcp_property_list_add
  <2> HIDE DEF adds
  <2>2. r \in OutcomeType
    BY <1>1, <2>1, AddedOutcome
  <2>3. Whole(q, from, i - 1) => Whole(r, from, i)
    BY <1>1, <2>1, AddedWhole
  <2> QED
    BY <2>2, <2>3
<1>3. start \in OutcomeType /\ Whole(start, from, 0)
  BY WholeStart
<1> HIDE DEF start
<1>4. next \in Passes(Len(from), SUBSET OutcomeType)
  <2>1. ASSUME NEW i \in 1..Len(from), NEW S \in SUBSET OutcomeType
        PROVE  UNION {Clone(q, from[i]) : q \in S} \in SUBSET OutcomeType
    BY <1>2
  <2> QED
    BY <2>1 DEF Passes
<1>5. PICK f : Runs(f, Len(from), SUBSET OutcomeType, {start}, next)
  <2>1. {start} \in SUBSET OutcomeType
    BY <1>3
  <2> HIDE DEF next
  <2> QED
    BY <1>1, <1>4, <2>1, LoopExists
<1>6. ASSUME NEW i \in 0..Len(from)
      PROVE  f[i] = Pass(f, i) /\ f[i] \in SUBSET OutcomeType
  <2>1. f[i] \in SUBSET OutcomeType
    BY <1>5 DEF Runs
  <2>2. CASE i = 0
    BY <1>5, <2>1, <2>2 DEF Runs
  <2>3. CASE i \in 1..Len(from)
    <3>1. i - 1 \in 0..Len(from)
      BY <1>1, <2>3
    <3>2. f[i] = next[i][f[i - 1]] /\ f[i - 1] \in SUBSET OutcomeType
      <4> HIDE DEF next
      <4> QED
        BY <1>5, <2>3, <3>1 DEF Runs
    <3>3. next[i][f[i - 1]] = UNION {Clone(q, from[i]) : q \in f[i - 1]}
      BY <2>3, <3>2
    <3>4. i # 0
      BY <1>1, <2>3
    <3> QED
      BY <2>1, <3>2, <3>3, <3>4
  <2> QED
    BY <1>1, <2>2, <2>3
<1>7. f = [i \in 0..Len(from) |-> Pass(f, i)]
  <2> HIDE DEF Pass
  <2>1. f = [i \in 0..Len(from) |-> f[i]]
    BY <1>5 DEF Runs
  <2> QED
    BY <1>6, <2>1, Zenon
<1>8. after = [i \in 0..Len(from) |-> Pass(after, i)]
  <2> HIDE DEF Pass
  <2> QED
    BY <1>7, Zenon
<1>9. o \in after[Len(from)]
  BY Zenon DEF Outcomes, start
<1> HIDE DEF after
<1>10. ASSUME NEW i \in 0..Len(from)
       PROVE  after[i] = Pass(after, i)
  BY <1>8, Zenon
<1>11. 0 \in Q
  <2>1. 0 \in 0..Len(from)
    BY <1>1
  <2>2. after[0] = Pass(after, 0)
    BY <1>10, <2>1
  <2>3. Pass(after, 0) = {start}
    OBVIOUS
  <2> QED
    BY <1>3, <2>1, <2>2, <2>3
<1>12. ASSUME NEW i \in 1..Len(from), i - 1 \in Q
       PROVE  i \in Q
  <2>0. i \in 0..Len(from) /\ i # 0
    BY <1>1
  <2>1. after[i] = UNION {Clone(q, from[i]) : q \in after[i - 1]}
    <3>1. after[i] = Pass(after, i)
      BY <1>10, <2>0
    <3>2. Pass(after, i) = UNION {Clone(q, from[i]) : q \in after[i - 1]}
      BY <2>0
    <3> QED
      BY <3>1, <3>2
  <2>2. ASSUME NEW r \in after[i]
        PROVE  Whole(r, from, i)
    <3>1. PICK q \in after[i - 1] : r \in Clone(q, from[i])
      BY <2>1
    <3>2. Whole(q, from, i - 1) /\ q \in OutcomeType
      BY <1>12 DEF Whole
    <3> QED
      BY <1>2, <3>1, <3>2
  <2> QED
    BY <2>0, <2>2
<1>13. \A i \in 0..Len(from) : i \in Q
  <2> HIDE DEF Q
  <2> QED
    BY <1>1, <1>11, <1>12, LoopInduction
<1> QED
  BY <1>1, <1>9, <1>13

\* So does an application that declares the properties of a tool.
LEMMA DeclareWhole ==
    ASSUME NEW from \in Seq(PropertyType),
           NEW o \in Outcomes(Declare, [list |-> EmptyList, ok |-> TRUE, live |-> 0], from)
    PROVE  Whole(o, from, Len(from))
<1> DEFINE start == [list |-> EmptyList, ok |-> TRUE, live |-> 0]
           Pass(f, i) == IF i = 0 THEN {start} ELSE UNION {Declare(q, from[i]) : q \in f[i - 1]}
           next == [i \in 1..Len(from) |-> [S \in SUBSET OutcomeType |->
                       UNION {Declare(q, from[i]) : q \in S}]]
           after == CHOOSE f : f = [i \in 0..Len(from) |-> Pass(f, i)]
           Q == {i \in 0..Len(from) : \A q \in after[i] : Whole(q, from, i)}
<1>1. /\ Len(from) \in Nat
      /\ \A i \in 1..Len(from) : from[i] \in PropertyType
  BY LenProperties, ElementOfSeq
<1>2. ASSUME NEW i \in 1..Len(from), NEW q \in OutcomeType, NEW r \in Declare(q, from[i])
      PROVE  r \in OutcomeType /\ (Whole(q, from, i - 1) => Whole(r, from, i))
  <2> DEFINE adds == mcp_property_list_add(q.list, from[i])
  <2>1. adds \subseteq mcp_property_list_add(q.list, from[i]) /\ r \in Added(q, adds)
    BY DEF Declare, mcp_property_list_add
  <2> HIDE DEF adds
  <2>2. r \in OutcomeType
    BY <1>1, <2>1, AddedOutcome
  <2>3. Whole(q, from, i - 1) => Whole(r, from, i)
    BY <1>1, <2>1, AddedWhole
  <2> QED
    BY <2>2, <2>3
<1>3. start \in OutcomeType /\ Whole(start, from, 0)
  BY WholeStart
<1> HIDE DEF start
<1>4. next \in Passes(Len(from), SUBSET OutcomeType)
  <2>1. ASSUME NEW i \in 1..Len(from), NEW S \in SUBSET OutcomeType
        PROVE  UNION {Declare(q, from[i]) : q \in S} \in SUBSET OutcomeType
    BY <1>2
  <2> QED
    BY <2>1 DEF Passes
<1>5. PICK f : Runs(f, Len(from), SUBSET OutcomeType, {start}, next)
  <2>1. {start} \in SUBSET OutcomeType
    BY <1>3
  <2> HIDE DEF next
  <2> QED
    BY <1>1, <1>4, <2>1, LoopExists
<1>6. ASSUME NEW i \in 0..Len(from)
      PROVE  f[i] = Pass(f, i) /\ f[i] \in SUBSET OutcomeType
  <2>1. f[i] \in SUBSET OutcomeType
    BY <1>5 DEF Runs
  <2>2. CASE i = 0
    BY <1>5, <2>1, <2>2 DEF Runs
  <2>3. CASE i \in 1..Len(from)
    <3>1. i - 1 \in 0..Len(from)
      BY <1>1, <2>3
    <3>2. f[i] = next[i][f[i - 1]] /\ f[i - 1] \in SUBSET OutcomeType
      <4> HIDE DEF next
      <4> QED
        BY <1>5, <2>3, <3>1 DEF Runs
    <3>3. next[i][f[i - 1]] = UNION {Declare(q, from[i]) : q \in f[i - 1]}
      BY <2>3, <3>2
    <3>4. i # 0
      BY <1>1, <2>3
    <3> QED
      BY <2>1, <3>2, <3>3, <3>4
  <2> QED
    BY <1>1, <2>2, <2>3
<1>7. f = [i \in 0..Len(from) |-> Pass(f, i)]
  <2> HIDE DEF Pass
  <2>1. f = [i \in 0..Len(from) |-> f[i]]
    BY <1>5 DEF Runs
  <2> QED
    BY <1>6, <2>1, Zenon
<1>8. after = [i \in 0..Len(from) |-> Pass(after, i)]
  <2> HIDE DEF Pass
  <2> QED
    BY <1>7, Zenon
<1>9. o \in after[Len(from)]
  BY Zenon DEF Outcomes, start
<1> HIDE DEF after
<1>10. ASSUME NEW i \in 0..Len(from)
       PROVE  after[i] = Pass(after, i)
  BY <1>8, Zenon
<1>11. 0 \in Q
  <2>1. 0 \in 0..Len(from)
    BY <1>1
  <2>2. after[0] = Pass(after, 0)
    BY <1>10, <2>1
  <2>3. Pass(after, 0) = {start}
    OBVIOUS
  <2> QED
    BY <1>3, <2>1, <2>2, <2>3
<1>12. ASSUME NEW i \in 1..Len(from), i - 1 \in Q
       PROVE  i \in Q
  <2>0. i \in 0..Len(from) /\ i # 0
    BY <1>1
  <2>1. after[i] = UNION {Declare(q, from[i]) : q \in after[i - 1]}
    <3>1. after[i] = Pass(after, i)
      BY <1>10, <2>0
    <3>2. Pass(after, i) = UNION {Declare(q, from[i]) : q \in after[i - 1]}
      BY <2>0
    <3> QED
      BY <3>1, <3>2
  <2>2. ASSUME NEW r \in after[i]
        PROVE  Whole(r, from, i)
    <3>1. PICK q \in after[i - 1] : r \in Declare(q, from[i])
      BY <2>1
    <3>2. Whole(q, from, i - 1) /\ q \in OutcomeType
      BY <1>12 DEF Whole
    <3> QED
      BY <1>2, <3>1, <3>2
  <2> QED
    BY <2>0, <2>2
<1>13. \A i \in 0..Len(from) : i \in Q
  <2> HIDE DEF Q
  <2> QED
    BY <1>1, <1>11, <1>12, LoopInduction
<1> QED
  BY <1>1, <1>9, <1>13

-----------------------------------------------------------------------------
\* What cJSON_GetObjectItem finds: the value of the first entry whose key matches.
Given(arguments, key) == {i \in 1..Len(arguments) : key # Null /\ Fold[arguments[i].key] = Fold[key]}

\* It finds the first of them, and Missing only where there is none.
LEMMA LookupFinds ==
    ASSUME NEW arguments, NEW key
    PROVE  /\ Given(arguments, key) = {} => cJSON_GetObjectItem(arguments, key) = Missing
           /\ Given(arguments, key) # {} =>
                 \E i \in Given(arguments, key) :
                    /\ \A j \in Given(arguments, key) : i <= j
                    /\ cJSON_GetObjectItem(arguments, key) = arguments[i].value
<1> DEFINE g == Given(arguments, key)
           at == SelectInSeq(arguments, LAMBDA e : key # Null /\ Fold[e.key] = Fold[key])
<1>1. at = IF g # {} THEN Min(g) ELSE 0
  BY Zenon DEF SelectInSeq, Given
<1>2. cJSON_GetObjectItem(arguments, key) = IF at = 0 THEN Missing ELSE arguments[at].value
  BY Zenon DEF cJSON_GetObjectItem
<1> HIDE DEF at
<1>3. CASE g = {}
  BY <1>1, <1>2, <1>3
<1>4. CASE g # {}
  <2>1. g \subseteq Nat /\ 0 \notin g
    BY DEF Given
  <2> HIDE DEF g
  <2>2. \E i \in g : \A j \in g : i <= j
    BY <1>4, <2>1, LeastNumber
  <2>3. Min(g) \in g /\ \A j \in g : Min(g) <= j
    BY <2>2, Zenon DEF Min
  <2>4. at = Min(g) /\ at # 0
    BY <1>1, <1>4, <2>1, <2>3
  <2>5. cJSON_GetObjectItem(arguments, key) = arguments[Min(g)].value
    BY <1>2, <2>4
  <2> USE DEF g
  <2> QED
    BY <1>4, <2>3, <2>5
<1> QED
  BY <1>3, <1>4

\* The arguments of a call, as DispatchAssumption has them.
IsArguments(arguments) == /\ arguments \in Seq(Range(arguments))
                          /\ \A e \in Range(arguments) : e.key \in Keys /\ IsJson(e.value)

\* What is found among them is a value of a document.
LEMMA LookupIsJson ==
    ASSUME NEW arguments, IsArguments(arguments), NEW key
    PROVE  LET json == cJSON_GetObjectItem(arguments, key)
           IN  /\ json # Missing => IsJson(json)
               /\ json = Missing <=> Given(arguments, key) = {}
<1>1. ASSUME NEW i \in Given(arguments, key)
      PROVE  IsJson(arguments[i].value)
  <2>1. i \in 1..Len(arguments) /\ DOMAIN arguments = 1..Len(arguments)
    BY LenProperties DEF IsArguments, Given
  <2>2. arguments[i] \in Range(arguments)
    BY <2>1 DEF Range
  <2> QED
    BY <2>2 DEF IsArguments
<1>2. \A json : IsJson(json) => json # Missing
  BY DEF IsJson
<1> QED
  BY <1>1, <1>2, LookupFinds

\* mcp_property_copy_from_json: what a value of a document makes of a property.
Assigned(p, v) == [p EXCEPT !.value = v]

\* A value that is taken has the property's type and range; a string that is refused is lost.
LEMMA CopyFromJson ==
    ASSUME NEW p \in PropertyType, NEW json, IsJson(json),
           NEW c \in mcp_property_copy_from_json(p, json)
    PROVE  /\ c.property \in PropertyType
           /\ c.live = PropertyBlocks(c.property) - PropertyBlocks(p)
           /\ c.property.name = p.name
           /\ c.ok \in BOOLEAN
           /\ c.ok => /\ json.type = p.type
                      /\ \E v \in ValuesOf(p.type) :
                            /\ c.property = Assigned(p, v)
                            /\ IF p.type = "integer" THEN v = ValueInt(json.value) /\ v \in p.min..p.max
                               ELSE v = json.value
           /\ ~c.ok /\ p.type = "string" /\ json.type = "string" => c.property.value = Null
<1>1. p.type \in Types /\ PropertyBlocks(p) \in Int /\ p.min \in Int /\ p.max \in Int
  BY PropertyBlocksIsInt DEF PropertyType
<1> DEFINE set(v) == [property |-> Assigned(p, v), ok |-> v # Null,
                      live |-> PropertyBlocks(Assigned(p, v)) - PropertyBlocks(p)]
<1>2. CASE c = [property |-> p, ok |-> FALSE, live |-> 0] /\ ~(p.type = "string" /\ json.type = "string")
  BY <1>1, <1>2
<1>3. ASSUME NEW v \in ValuesOf(p.type) \cup {Null}, c = set(v), json.type = p.type,
             IF p.type = "integer" THEN v = ValueInt(json.value) /\ v \in p.min..p.max
             ELSE v \in {json.value, Null}
      PROVE  /\ c.property \in PropertyType
             /\ c.live = PropertyBlocks(c.property) - PropertyBlocks(p)
             /\ c.property.name = p.name
             /\ c.ok \in BOOLEAN
             /\ c.ok => \E w \in ValuesOf(p.type) :
                            /\ c.property = Assigned(p, w)
                            /\ IF p.type = "integer" THEN w = ValueInt(json.value) /\ w \in p.min..p.max
                               ELSE w = json.value
             /\ ~c.ok => c.property.value = Null
  <2>1. v \in Value
    BY <1>1 DEF Value
  <2>2. Assigned(p, v) \in PropertyType /\ Assigned(p, v).name = p.name /\ Assigned(p, v).value = v
    BY <2>1 DEF Assigned, PropertyType
  <2>3. /\ c.property = Assigned(p, v) /\ c.ok = (v # Null)
        /\ c.live = PropertyBlocks(Assigned(p, v)) - PropertyBlocks(p)
    BY <1>3
  <2> QED
    BY <1>3, <2>2, <2>3
<1>4. \/ c = [property |-> p, ok |-> FALSE, live |-> 0] /\ ~(p.type = "string" /\ json.type = "string")
      \/ \E v \in ValuesOf(p.type) \cup {Null} :
            /\ c = set(v) /\ json.type = p.type
            /\ IF p.type = "integer" THEN v = ValueInt(json.value) /\ v \in p.min..p.max
               ELSE v \in {json.value, Null}
  <2>1. CASE json.type # p.type
    <3>1. c = [property |-> p, ok |-> FALSE, live |-> 0]
      BY <2>1 DEF mcp_property_copy_from_json
    <3>2. ~(p.type = "string" /\ json.type = "string")
      BY <2>1
    <3> QED
      BY <3>1, <3>2
  <2>2. CASE json.type = p.type /\ p.type = "boolean"
    <3>1. c = set(json.value)
      BY <2>2, Zenon DEF mcp_property_copy_from_json, Assigned
    <3>2. json.value \in ValuesOf(p.type)
      BY <1>1, <2>2 DEF IsJson
    <3> QED
      BY <2>2, <3>1, <3>2
  <2>3. CASE json.type = p.type /\ p.type = "string"
    <3>1. c = set(json.value) \/ c = set(Null)
      BY <2>3 DEF mcp_property_copy_from_json, Assigned
    <3>2. json.value \in ValuesOf(p.type)
      BY <1>1, <2>3 DEF IsJson
    <3>3. PICK v \in ValuesOf(p.type) \cup {Null} : c = set(v) /\ v \in {json.value, Null}
      <4> HIDE DEF set
      <4>1. CASE c = set(json.value)
        BY <3>2, <4>1
      <4>2. CASE c = set(Null)
        BY <4>2
      <4> QED
        BY <3>1, <4>1, <4>2
    <3>4. p.type # "integer"
      BY <2>3
    <3> HIDE DEF set
    <3> QED
      BY <2>3, <3>3, <3>4
  <2>4. CASE json.type = p.type /\ p.type = "integer"
    <3>1. json.value \in Int
      BY <1>1, <2>4 DEF IsJson, ValuesOf
    <3>2. ValueInt(json.value) \in Int
      BY <3>1, PropertyAssumption DEF ValueInt, IntMin
    <3>3. CASE ValueInt(json.value) \in p.min..p.max
      <4>1. c = set(ValueInt(json.value))
        BY <2>4, <3>3 DEF mcp_property_copy_from_json, Assigned
      <4>2. ValueInt(json.value) \in ValuesOf(p.type)
        BY <2>4, <3>2 DEF ValuesOf
      <4> HIDE DEF set
      <4> QED
        BY <2>4, <3>3, <4>1, <4>2
    <3>4. CASE ValueInt(json.value) \notin p.min..p.max
      BY <2>4, <3>4 DEF mcp_property_copy_from_json
    <3> QED
      BY <3>3, <3>4
  <2> QED
    BY <1>1, <2>1, <2>2, <2>3, <2>4 DEF Types
<1> HIDE DEF set
<1>5. ASSUME ~(c = [property |-> p, ok |-> FALSE, live |-> 0] /\ ~(p.type = "string" /\ json.type = "string"))
      PROVE  \E v \in ValuesOf(p.type) \cup {Null} :
                /\ c = set(v) /\ json.type = p.type
                /\ IF p.type = "integer" THEN v = ValueInt(json.value) /\ v \in p.min..p.max
                   ELSE v \in {json.value, Null}
  BY <1>4, <1>5
<1> QED
  BY <1>2, <1>3, <1>5

-----------------------------------------------------------------------------
\* What mcp_server_parse_arguments holds between two passes.
AccType == {acc \in [items : Seq(PropertyType), capacity : Nat, ok : BOOLEAN,
                     error_property : Keys \cup {Null, Missing}, left : BOOLEAN, live : Int] :
               acc.left => ~acc.ok}

\* What a pass makes of a property that it takes, and of one for which it refuses the call.
Takes(x, p, arguments) ==
    LET json == cJSON_GetObjectItem(arguments, p.name)
    IN  IF json = Missing THEN p.value # Missing /\ x = p
        ELSE \E c \in mcp_property_copy_from_json(p, json) : c.ok /\ x = c.property
Refuses(x, p, arguments) ==
    LET json == cJSON_GetObjectItem(arguments, p.name)
    IN  IF json = Missing THEN p.value = Missing /\ x = p
        ELSE \E c \in mcp_property_copy_from_json(p, json) : ~c.ok /\ x = c.property

\* One pass over property p: what it appends, and what it concludes.
PassFrom(acc, q, x, p, arguments) ==
    /\ q \in AccType /\ q.capacity = acc.capacity
    /\ q.items = Append(acc.items, x) /\ x.name = p.name
    /\ q.live = acc.live + (PropertyBlocks(x) - PropertyBlocks(p))
    /\ q.ok => acc.ok /\ Takes(x, p, arguments)
    /\ ~q.ok => \/ ~acc.ok /\ q.error_property = acc.error_property
                \/ q.error_property = p.name /\ Refuses(x, p, arguments)

\* A pass of the loop of mcp_server_parse_arguments does what PassFrom says.
LEMMA ParsePass ==
    ASSUME NEW acc \in AccType, NEW p \in PropertyType, NEW arguments, IsArguments(arguments),
           NEW q \in Parse(acc, p, arguments)
    PROVE  \E x \in PropertyType : PassFrom(acc, q, x, p, arguments)
<1> DEFINE json == cJSON_GetObjectItem(arguments, p.name)
           kept == [acc EXCEPT !.items = Append(@, p)]
<1>1. /\ acc.items \in Seq(PropertyType) /\ acc.capacity \in Nat /\ acc.ok \in BOOLEAN
      /\ acc.error_property \in Keys \cup {Null, Missing} /\ acc.left \in BOOLEAN
      /\ acc.live \in Int /\ (acc.left => ~acc.ok)
      /\ acc = [items |-> acc.items, capacity |-> acc.capacity, ok |-> acc.ok,
                error_property |-> acc.error_property, left |-> acc.left, live |-> acc.live]
  BY DEF AccType
<1>2. p.name \in Keys \cup {Null} /\ PropertyBlocks(p) \in Int
  BY PropertyBlocksIsInt DEF PropertyType
<1>3. json # Missing => IsJson(json)
  BY LookupIsJson
<1>4. ASSUME NEW x \in PropertyType, NEW ok \in BOOLEAN, NEW error \in Keys \cup {Null, Missing},
             NEW left \in BOOLEAN, NEW live \in Int, left => ~ok,
             q = [items |-> Append(acc.items, x), capacity |-> acc.capacity, ok |-> ok,
                  error_property |-> error, left |-> left, live |-> live]
      PROVE  /\ q \in AccType /\ q.capacity = acc.capacity /\ q.items = Append(acc.items, x)
             /\ q.ok = ok /\ q.error_property = error /\ q.live = live
  <2>1. Append(acc.items, x) \in Seq(PropertyType)
    BY <1>1, AppendProperties
  <2> QED
    BY <1>1, <1>4, <2>1 DEF AccType
<1>5. CASE acc.left \/ (json = Missing /\ p.value # Missing)
  <2>1. q = kept
    BY <1>5, Zenon DEF Parse
  <2>2. q = [items |-> Append(acc.items, p), capacity |-> acc.capacity, ok |-> acc.ok,
             error_property |-> acc.error_property, left |-> acc.left, live |-> acc.live]
    BY <1>1, <2>1
  <2>3. /\ q \in AccType /\ q.capacity = acc.capacity /\ q.items = Append(acc.items, p)
        /\ q.ok = acc.ok /\ q.error_property = acc.error_property /\ q.live = acc.live
    BY <1>1, <1>4, <2>2
  <2>4. q.ok => Takes(p, p, arguments)
    BY <1>1, <1>5, <2>3 DEF Takes
  <2>5. PassFrom(acc, q, p, p, arguments)
    BY <1>1, <1>2, <2>3, <2>4 DEF PassFrom
  <2> QED
    BY <2>5
<1>6. CASE ~acc.left /\ json = Missing /\ p.value = Missing
  <2>1. q = [kept EXCEPT !.ok = FALSE, !.error_property = p.name]
    BY <1>6, Zenon DEF Parse
  <2>2. q = [items |-> Append(acc.items, p), capacity |-> acc.capacity, ok |-> FALSE,
             error_property |-> p.name, left |-> acc.left, live |-> acc.live]
    BY <1>1, <2>1
  <2>3. /\ q \in AccType /\ q.capacity = acc.capacity /\ q.items = Append(acc.items, p)
        /\ q.ok = FALSE /\ q.error_property = p.name /\ q.live = acc.live
    BY <1>1, <1>2, <1>4, <2>2
  <2>4. Refuses(p, p, arguments)
    BY <1>6 DEF Refuses
  <2>5. PassFrom(acc, q, p, p, arguments)
    BY <1>1, <1>2, <2>3, <2>4 DEF PassFrom
  <2> QED
    BY <2>5
<1>7. CASE ~acc.left /\ json # Missing
  <2>1. PICK c \in mcp_property_copy_from_json(p, json) :
           q = IF c.ok THEN [acc EXCEPT !.items = Append(@, c.property), !.live = @ + c.live]
               ELSE [acc EXCEPT !.items = Append(@, c.property), !.live = @ + c.live,
                                !.ok = FALSE, !.error_property = p.name, !.left = TRUE]
    <3> HIDE DEF json
    <3>1. Parse(acc, p, arguments) =
             {IF c.ok THEN [acc EXCEPT !.items = Append(@, c.property), !.live = @ + c.live]
              ELSE [acc EXCEPT !.items = Append(@, c.property), !.live = @ + c.live,
                               !.ok = FALSE, !.error_property = p.name, !.left = TRUE] :
              c \in mcp_property_copy_from_json(p, json)}
      BY <1>7, Zenon DEF Parse, json
    <3> QED
      BY <3>1
  <2> DEFINE x == c.property
  <2>2. /\ x \in PropertyType /\ c.live = PropertyBlocks(x) - PropertyBlocks(p)
        /\ x.name = p.name /\ c.ok \in BOOLEAN
    BY <1>3, <1>7, CopyFromJson
  <2>3. acc.live + c.live = acc.live + (PropertyBlocks(x) - PropertyBlocks(p))
        /\ acc.live + c.live \in Int
    BY <1>1, <1>2, <2>2, PropertyBlocksIsInt
  <2>4. CASE c.ok
    <3>1. q = [items |-> Append(acc.items, x), capacity |-> acc.capacity, ok |-> acc.ok,
               error_property |-> acc.error_property, left |-> acc.left, live |-> acc.live + c.live]
      BY <1>1, <2>1, <2>4
    <3> HIDE DEF x
    <3>2. /\ q \in AccType /\ q.capacity = acc.capacity /\ q.items = Append(acc.items, x)
          /\ q.ok = acc.ok /\ q.error_property = acc.error_property /\ q.live = acc.live + c.live
      BY <1>1, <1>4, <2>2, <2>3, <3>1
    <3>3. Takes(x, p, arguments)
      BY <1>7, <2>4 DEF Takes, x
    <3>4. PassFrom(acc, q, x, p, arguments)
      BY <1>1, <2>2, <2>3, <3>2, <3>3 DEF PassFrom
    <3> QED
      BY <2>2, <3>4
  <2>5. CASE ~c.ok
    <3>1. q = [items |-> Append(acc.items, x), capacity |-> acc.capacity, ok |-> FALSE,
               error_property |-> p.name, left |-> TRUE, live |-> acc.live + c.live]
      BY <1>1, <2>1, <2>5
    <3> HIDE DEF x
    <3>2. /\ q \in AccType /\ q.capacity = acc.capacity /\ q.items = Append(acc.items, x)
          /\ q.ok = FALSE /\ q.error_property = p.name /\ q.live = acc.live + c.live
      BY <1>1, <1>2, <1>4, <2>2, <2>3, <3>1
    <3>3. Refuses(x, p, arguments)
      BY <1>7, <2>5 DEF Refuses, x
    <3>4. PassFrom(acc, q, x, p, arguments)
      BY <1>1, <2>2, <2>3, <3>2, <3>3 DEF PassFrom
    <3> QED
      BY <2>2, <3>4
  <2> QED
    BY <2>4, <2>5
<1> QED
  BY <1>5, <1>6, <1>7

\* Where it is after i passes over a clone of the tool's properties: the blocks it holds, as
\* far as it has come, and what it has taken or refused.
Reached(acc, list, arguments, i) ==
    /\ acc \in AccType /\ acc.capacity = list.capacity /\ Len(acc.items) = i
    /\ acc.live - Total(Weights(acc.items)) = ListBlocks(list) - Sums(Weights(list.items))[i]
    /\ \A k \in 1..i : acc.items[k].name = list.items[k].name
    /\ acc.ok => \A k \in 1..i : Takes(acc.items[k], list.items[k], arguments)
    /\ ~acc.ok => \E k \in 1..i : /\ acc.error_property = list.items[k].name
                                  /\ Refuses(acc.items[k], list.items[k], arguments)

\* A pass leads from what is reached before property i to what is reached after it.
LEMMA ParseReaches ==
    ASSUME NEW list \in ListType, NEW arguments, IsArguments(arguments),
           NEW i \in 1..Len(list.items), NEW acc, Reached(acc, list, arguments, i - 1),
           NEW q \in Parse(acc, list.items[i], arguments)
    PROVE  Reached(q, list, arguments, i)
<1> DEFINE p == list.items[i]
           w == Weights(list.items)
<1>1. list.items \in Seq(PropertyType) /\ Len(list.items) \in Nat /\ p \in PropertyType
  BY LenProperties, ElementOfSeq DEF ListType
<1>2. PICK x \in PropertyType : PassFrom(acc, q, x, p, arguments)
  <2>1. acc \in AccType
    BY DEF Reached
  <2> HIDE DEF p
  <2>2. q \in Parse(acc, p, arguments)
    BY DEF p
  <2> QED
    BY <1>1, <2>1, <2>2, ParsePass
<1>3. /\ acc.items \in Seq(PropertyType) /\ Len(acc.items) = i - 1 /\ acc.live \in Int
      /\ acc.ok \in BOOLEAN /\ q.ok \in BOOLEAN
  BY <1>2 DEF Reached, AccType, PassFrom
<1>4. /\ q.items \in Seq(PropertyType) /\ Len(q.items) = i /\ q.items[i] = x
      /\ \A k \in 1..i - 1 : q.items[k] = acc.items[k]
  BY <1>2, <1>3, AppendProperties DEF PassFrom
<1>5. \A k \in 1..i : k = i \/ k \in 1..i - 1
  BY <1>1
<1>6. q.live - Total(Weights(q.items)) = ListBlocks(list) - Sums(w)[i]
  <2>1. /\ Weights(acc.items) \in Seq(Int)
        /\ Weights(q.items) = Append(Weights(acc.items), PropertyBlocks(x))
    BY <1>2, <1>3, WeightsAppend DEF PassFrom
  <2>2. /\ Total(Weights(acc.items)) \in Int
        /\ Total(Weights(q.items)) = Total(Weights(acc.items)) + PropertyBlocks(x)
    BY <2>1, PropertyBlocksIsInt, TotalIsInt, TotalAppend
  <2>3. w \in Seq(Int) /\ Len(w) = Len(list.items) /\ w[i] = PropertyBlocks(p)
    <3>1. w \in Seq(Int) /\ Len(w) = Len(list.items)
      BY <1>1, WeightsAreInt
    <3>2. DOMAIN list.items = 1..Len(list.items)
      BY <1>1, LenProperties
    <3>3. w[i] = PropertyBlocks(p)
      BY <3>2 DEF Weights
    <3> QED
      BY <3>1, <3>3
  <2> HIDE DEF w
  <2>4. Sums(w)[i] = Sums(w)[i - 1] + PropertyBlocks(p)
    BY <2>3, SumsPass
  <2>5. Sums(w)[i - 1] \in Int
    BY <1>1, <2>3, SumsAreInt
  <2>6. acc.live - Total(Weights(acc.items)) = ListBlocks(list) - Sums(w)[i - 1]
    BY DEF Reached, w
  <2>7. q.live = acc.live + (PropertyBlocks(x) - PropertyBlocks(p))
    BY <1>2 DEF PassFrom
  <2>8. ListBlocks(list) \in Int
    BY ListBlocksIsInt
  <2>9. PropertyBlocks(x) \in Int /\ PropertyBlocks(p) \in Int
    BY PropertyBlocksIsInt
  <2>10. acc.live \in Int
    BY <1>3
  <2>11. PICK a \in Int, t \in Int, b \in Int, r \in Int, x1 \in Int, p1 \in Int :
            /\ a = acc.live /\ t = Total(Weights(acc.items)) /\ b = ListBlocks(list)
            /\ r = Sums(w)[i - 1] /\ x1 = PropertyBlocks(x) /\ p1 = PropertyBlocks(p)
    BY <2>2, <2>5, <2>8, <2>9, <2>10
  <2>12. (a + (x1 - p1)) - (t + x1) = b - (r + p1)
    <3>1. a - t = b - r
      BY <2>6, <2>11
    <3> QED
      BY <3>1
  <2>13. q.live = a + (x1 - p1) /\ Total(Weights(q.items)) = t + x1 /\ Sums(w)[i] = r + p1
    BY <2>2, <2>4, <2>7, <2>11
  <2> QED
    BY <2>11, <2>12, <2>13
<1>7. \A k \in 1..i : q.items[k].name = list.items[k].name
  BY <1>2, <1>4, <1>5 DEF PassFrom, Reached
<1>8. q.ok => \A k \in 1..i : Takes(q.items[k], list.items[k], arguments)
  BY <1>2, <1>4, <1>5 DEF PassFrom, Reached
<1>9. ASSUME ~q.ok
      PROVE  \E k \in 1..i : /\ q.error_property = list.items[k].name
                             /\ Refuses(q.items[k], list.items[k], arguments)
  <2>1. CASE ~acc.ok /\ q.error_property = acc.error_property
    <3>1. PICK k \in 1..i - 1 : /\ acc.error_property = list.items[k].name
                                /\ Refuses(acc.items[k], list.items[k], arguments)
      BY <2>1 DEF Reached
    <3>2. k \in 1..i
      BY <1>1
    <3> QED
      BY <1>4, <2>1, <3>1, <3>2
  <2>2. CASE q.error_property = p.name /\ Refuses(x, p, arguments)
    <3>1. i \in 1..i
      BY <1>1
    <3> QED
      BY <1>4, <2>2, <3>1
  <2> QED
    BY <1>2, <1>9, <2>1, <2>2 DEF PassFrom
<1>10. q \in AccType /\ q.capacity = list.capacity
  BY <1>2 DEF PassFrom, Reached
<1> QED
  BY <1>4, <1>6, <1>7, <1>8, <1>9, <1>10 DEF Reached

\* So mcp_server_parse_arguments has been over all of them when its loop ends.
LEMMA ParseLoop ==
    ASSUME NEW list \in ListType, NEW arguments, IsArguments(arguments),
           NEW o \in ParseAll(list, ListBlocks(list), arguments)
    PROVE  Reached(o, list, arguments, Len(list.items))
<1> DEFINE from == list.items
           start == [items |-> <<>>, capacity |-> list.capacity, ok |-> TRUE,
                     error_property |-> Missing, left |-> FALSE, live |-> ListBlocks(list)]
           Pass(f, i) == IF i = 0 THEN {start} ELSE UNION {Parse(q, from[i], arguments) : q \in f[i - 1]}
           next == [i \in 1..Len(from) |-> [S \in SUBSET AccType |->
                       UNION {Parse(q, from[i], arguments) : q \in S}]]
           after == CHOOSE f : f = [i \in 0..Len(from) |-> Pass(f, i)]
           Q == {i \in 0..Len(from) : \A q \in after[i] : Reached(q, list, arguments, i)}
<1>1. /\ Len(from) \in Nat /\ from \in Seq(PropertyType)
      /\ \A i \in 1..Len(from) : from[i] \in PropertyType
  BY LenProperties, ElementOfSeq DEF ListType
<1>2. ASSUME NEW i \in 1..Len(from), NEW q \in AccType, NEW r \in Parse(q, from[i], arguments)
      PROVE  r \in AccType /\ (Reached(q, list, arguments, i - 1) => Reached(r, list, arguments, i))
  <2>1. r \in AccType
    <3> PICK p \in PropertyType : p = from[i]
      BY <1>1
    <3>1. \E x \in PropertyType : PassFrom(q, r, x, p, arguments)
      BY ParsePass
    <3> QED
      BY <3>1 DEF PassFrom
  <2>2. Reached(q, list, arguments, i - 1) => Reached(r, list, arguments, i)
    BY ParseReaches
  <2> QED
    BY <2>1, <2>2
<1>3. start \in AccType /\ Reached(start, list, arguments, 0)
  <2>1. /\ start.items = <<>> /\ start.capacity = list.capacity /\ start.ok = TRUE
        /\ start.live = ListBlocks(list)
    OBVIOUS
  <2>2. list.capacity \in Nat /\ ListBlocks(list) \in Int
    BY ListBlocksIsInt DEF ListType
  <2>3. start \in AccType
    BY <2>2, EmptySeq DEF AccType
  <2> HIDE DEF start
  <2>4. Weights(<<>>) = <<>> /\ Len(<<>>) = 0
    BY DEF Weights
  <2>5. Sums(Weights(list.items))[0] = 0
    BY <1>1, WeightsAreInt, SumsPass
  <2>6. start.live - Total(Weights(start.items)) = ListBlocks(list) - Sums(Weights(list.items))[0]
    BY <2>1, <2>2, <2>4, <2>5, TotalEmpty
  <2> QED
    BY <2>1, <2>3, <2>4, <2>6 DEF Reached
<1> HIDE DEF start
<1>4. next \in Passes(Len(from), SUBSET AccType)
  <2>1. ASSUME NEW i \in 1..Len(from), NEW S \in SUBSET AccType
        PROVE  UNION {Parse(q, from[i], arguments) : q \in S} \in SUBSET AccType
    BY <1>2
  <2> QED
    BY <2>1 DEF Passes
<1>5. PICK f : Runs(f, Len(from), SUBSET AccType, {start}, next)
  <2>1. {start} \in SUBSET AccType
    BY <1>3
  <2> HIDE DEF next
  <2> QED
    BY <1>1, <1>4, <2>1, LoopExists
<1>6. ASSUME NEW i \in 0..Len(from)
      PROVE  f[i] = Pass(f, i) /\ f[i] \in SUBSET AccType
  <2>1. f[i] \in SUBSET AccType
    BY <1>5 DEF Runs
  <2>2. CASE i = 0
    BY <1>5, <2>1, <2>2 DEF Runs
  <2>3. CASE i \in 1..Len(from)
    <3>1. i - 1 \in 0..Len(from)
      BY <1>1, <2>3
    <3>2. f[i] = next[i][f[i - 1]] /\ f[i - 1] \in SUBSET AccType
      <4> HIDE DEF next
      <4> QED
        BY <1>5, <2>3, <3>1 DEF Runs
    <3>3. next[i][f[i - 1]] = UNION {Parse(q, from[i], arguments) : q \in f[i - 1]}
      BY <2>3, <3>2
    <3>4. i # 0
      BY <1>1, <2>3
    <3> QED
      BY <2>1, <3>2, <3>3, <3>4
  <2> QED
    BY <1>1, <2>2, <2>3
<1>7. f = [i \in 0..Len(from) |-> Pass(f, i)]
  <2> HIDE DEF Pass
  <2>1. f = [i \in 0..Len(from) |-> f[i]]
    BY <1>5 DEF Runs
  <2> QED
    BY <1>6, <2>1, Zenon
<1>8. after = [i \in 0..Len(from) |-> Pass(after, i)]
  <2> HIDE DEF Pass
  <2> QED
    BY <1>7, Zenon
<1>9. o \in after[Len(from)]
  BY Zenon DEF ParseAll, Outcomes, start
<1> HIDE DEF after
<1>10. ASSUME NEW i \in 0..Len(from)
       PROVE  after[i] = Pass(after, i)
  BY <1>8, Zenon
<1>11. 0 \in Q
  <2>1. 0 \in 0..Len(from)
    BY <1>1
  <2>2. after[0] = Pass(after, 0)
    BY <1>10, <2>1
  <2>3. Pass(after, 0) = {start}
    OBVIOUS
  <2> QED
    BY <1>3, <2>1, <2>2, <2>3
<1>12. ASSUME NEW i \in 1..Len(from), i - 1 \in Q
       PROVE  i \in Q
  <2>0. i \in 0..Len(from) /\ i # 0
    BY <1>1
  <2>1. after[i] = UNION {Parse(q, from[i], arguments) : q \in after[i - 1]}
    <3>1. after[i] = Pass(after, i)
      BY <1>10, <2>0
    <3>2. Pass(after, i) = UNION {Parse(q, from[i], arguments) : q \in after[i - 1]}
      BY <2>0
    <3> QED
      BY <3>1, <3>2
  <2>2. ASSUME NEW r \in after[i]
        PROVE  Reached(r, list, arguments, i)
    <3>1. PICK q \in after[i - 1] : r \in Parse(q, from[i], arguments)
      BY <2>1
    <3>2. Reached(q, list, arguments, i - 1) /\ q \in AccType
      BY <1>12 DEF Reached
    <3> QED
      BY <1>2, <3>1, <3>2
  <2> QED
    BY <2>0, <2>2
<1>13. \A i \in 0..Len(from) : i \in Q
  <2> HIDE DEF Q
  <2> QED
    BY <1>1, <1>11, <1>12, LoopInduction
<1> QED
  BY <1>1, <1>9, <1>13

\* What mcp_server_parse_arguments comes to: it has been over all of a clone, which is a copy
\* of the tool's properties or empty, and holds the blocks of the list it leaves.
Parsed(o, l, arguments) ==
    /\ o.live = ListBlocks(o) /\ [items |-> o.items, capacity |-> o.capacity] \in ListType
    /\ \E list \in ListType : /\ Reached(o, list, arguments, Len(list.items))
                              /\ \/ Copied(list.items, l.items, Len(l.items))
                                 \/ list.items = <<>>

\* Every outcome of mcp_server_parse_arguments is of that kind.
LEMMA ArgumentsParsed ==
    ASSUME NEW l \in ListType, NEW arguments, IsArguments(arguments),
           NEW o \in mcp_server_parse_arguments(l, arguments)
    PROVE  Parsed(o, l, arguments)
<1>1. PICK c \in mcp_property_list_clone(l) : o \in ParseAll(c.list, c.live, arguments)
  BY Zenon DEF mcp_server_parse_arguments
<1>2. l.items \in Seq(PropertyType) /\ Whole(c, l.items, Len(l.items))
  <2>1. l.items \in Seq(PropertyType)
    BY DEF ListType
  <2> QED
    BY <2>1, CloneWhole DEF mcp_property_list_clone
<1>3. /\ c.list \in ListType /\ c.live = ListBlocks(c.list)
      /\ Copied(c.list.items, l.items, Len(l.items)) \/ c.list.items = <<>>
  BY <1>2 DEF Whole, OutcomeType, EmptyList
<1>4. Reached(o, c.list, arguments, Len(c.list.items))
  <2>1. o \in ParseAll(c.list, ListBlocks(c.list), arguments)
    BY <1>1, <1>3
  <2> QED
    BY <1>3, <2>1, ParseLoop
<1>5. o.items \in Seq(PropertyType) /\ o.capacity = c.list.capacity /\ o.capacity \in Nat /\ o.live \in Int
  BY <1>3, <1>4 DEF Reached, AccType
<1>6. o.live = ListBlocks(o)
  <2> DEFINE w == Weights(c.list.items)
  <2>1. o.live - Total(Weights(o.items)) = ListBlocks(c.list) - Sums(w)[Len(c.list.items)]
    BY <1>4 DEF Reached
  <2>2. ListBlocks(c.list) = (IF c.list.capacity = 0 THEN 0 ELSE 1) + Total(w)
    BY DEF ListBlocks, Weights
  <2>3. ListBlocks(o) = (IF o.capacity = 0 THEN 0 ELSE 1) + Total(Weights(o.items))
    BY DEF ListBlocks, Weights
  <2>4. Total(w) = Sums(w)[Len(c.list.items)] /\ Total(w) \in Int /\ Total(Weights(o.items)) \in Int
    <3>1. c.list.items \in Seq(PropertyType)
      BY <1>3 DEF ListType
    <3>2. w \in Seq(Int) /\ Len(w) = Len(c.list.items) /\ Weights(o.items) \in Seq(Int)
      BY <1>5, <3>1, WeightsAreInt
    <3> HIDE DEF w
    <3> QED
      BY <3>2, TotalIsInt DEF Total
  <2> HIDE DEF w
  <2> QED
    BY <1>5, <2>1, <2>2, <2>3, <2>4
<1>7. [items |-> o.items, capacity |-> o.capacity] \in ListType
  BY <1>5 DEF ListType
<1> QED
  BY <1>3, <1>4, <1>6, <1>7 DEF Parsed

-----------------------------------------------------------------------------
\* Where a bucket has tools of a name, and the first of them.
At(bucket, name) == {i \in DOMAIN bucket : NameOf[bucket[i]] = name}
FirstOf(bucket, name) == IF At(bucket, name) = {} THEN NoTool
                         ELSE bucket[CHOOSE i \in At(bucket, name) : \A j \in At(bucket, name) : i <= j]

\* The first of a bucket is an element of it, and NoTool stands for none.
LEMMA FirstIs ==
    ASSUME NEW bucket \in Seq(Tools), NEW name
    PROVE  /\ Len(bucket) \in Nat
           /\ At(bucket, name) = {i \in 1..Len(bucket) : NameOf[bucket[i]] = name}
           /\ FirstOf(bucket, name) # NoTool =>
                 \E i \in At(bucket, name) : /\ \A j \in At(bucket, name) : i <= j
                                             /\ FirstOf(bucket, name) = bucket[i]
           /\ FirstOf(bucket, name) = NoTool => At(bucket, name) = {}
<1> DEFINE named == At(bucket, name)
<1>1. /\ Len(bucket) \in Nat /\ DOMAIN bucket = 1..Len(bucket)
      /\ \A i \in 1..Len(bucket) : bucket[i] \in Tools
  BY LenProperties, ElementOfSeq
<1>2. named = {i \in 1..Len(bucket) : NameOf[bucket[i]] = name}
  BY <1>1 DEF At
<1>3. named \subseteq Nat /\ \A i \in named : bucket[i] # NoTool
  BY <1>1, <1>2, RegistryAssumption
<1>4. FirstOf(bucket, name) =
         IF named = {} THEN NoTool ELSE bucket[CHOOSE i \in named : \A j \in named : i <= j]
  BY Zenon DEF FirstOf
<1> HIDE DEF named
<1>5. ASSUME named # {}
      PROVE  \E i \in named : (\A j \in named : i <= j) /\ FirstOf(bucket, name) = bucket[i]
  <2>1. \E i \in named : \A j \in named : i <= j
    BY <1>3, <1>5, LeastNumber
  <2> DEFINE i == CHOOSE k \in named : \A j \in named : k <= j
  <2>2. i \in named /\ \A j \in named : i <= j
    BY <2>1, Zenon
  <2>3. FirstOf(bucket, name) = bucket[i]
    BY <1>4, <1>5, Zenon
  <2> HIDE DEF i
  <2> QED
    BY <2>2, <2>3
<1>6. named = {} => FirstOf(bucket, name) = NoTool
  BY <1>4
<1> QED
  BY <1>1, <1>2, <1>3, <1>5, <1>6 DEF named

\* The tool table: the hash table holds registered tools only.
TableOK == /\ tools \in Seq(Tools)
           /\ tool_hash \in [Buckets -> Seq(Tools)]
           /\ \A h \in Buckets : \A i \in 1..Len(tool_hash[h]) : tool_hash[h][i] \in Range(tools)

\* What mcp_server_find_tool_by_hash finds is a registered tool of that name.
LEMMA FoundIsRegistered ==
    ASSUME TableOK, NEW name \in Names, mcp_server_find_tool_by_hash(name) # NoTool
    PROVE  LET t == mcp_server_find_tool_by_hash(name)
           IN  t \in Range(tools) /\ t \in Tools /\ NameOf[t] = name
<1> PICK bucket \in Seq(Tools) : bucket = tool_hash[HashOf[name]]
  BY RegistryAssumption DEF TableOK
<1>1. mcp_server_find_tool_by_hash(name) = FirstOf(bucket, name)
  <2>1. mcp_server_find_tool_by_hash(name) = FirstOf(tool_hash[HashOf[name]], name)
    BY Zenon DEF mcp_server_find_tool_by_hash, FirstOf, At
  <2> QED
    BY <2>1
<1>2. PICK i \in At(bucket, name) : FirstOf(bucket, name) = bucket[i]
  BY <1>1, FirstIs
<1>3. i \in 1..Len(bucket) /\ NameOf[bucket[i]] = name
  BY <1>2, FirstIs
<1>4. bucket[i] \in Tools /\ bucket[i] \in Range(tools)
  <2>1. HashOf[name] \in Buckets
    BY RegistryAssumption
  <2> QED
    BY <1>3, <2>1, ElementOfSeq DEF TableOK
<1> QED
  BY <1>1, <1>2, <1>3, <1>4

\* It finds the same one while the table is the same.
LEMMA FoundSame ==
    ASSUME NEW name, tool_hash' = tool_hash
    PROVE  mcp_server_find_tool_by_hash(name)' = mcp_server_find_tool_by_hash(name)
  BY DEF mcp_server_find_tool_by_hash

\* And it finds the same one after another registration.
LEMMA FoundStays ==
    ASSUME TableOK, NEW name \in Names, mcp_server_find_tool_by_hash(name) # NoTool,
           NEW t \in Tools, tool_hash' = tool_hash \/ tool_hash' = Hashed(t)
    PROVE  mcp_server_find_tool_by_hash(name)' = mcp_server_find_tool_by_hash(name)
<1>0. HashOf[name] \in Buckets /\ HashOf[NameOf[t]] \in Buckets
  BY RegistryAssumption
<1> PICK bucket \in Seq(Tools) : bucket = tool_hash[HashOf[name]]
  BY <1>0 DEF TableOK
<1> PICK longer : longer = tool_hash'[HashOf[name]]
  OBVIOUS
<1>1. longer = bucket \/ longer = Append(bucket, t)
  BY <1>0 DEF Hashed, TableOK
<1>2. longer \in Seq(Tools)
  <2>1. Append(bucket, t) \in Seq(Tools)
    BY AppendProperties
  <2> QED
    BY <1>1, <2>1
<1>3. /\ Len(bucket) \in Nat /\ Len(longer) \in Nat /\ Len(bucket) <= Len(longer)
      /\ \A i \in 1..Len(bucket) : longer[i] = bucket[i]
  <2>1. Len(bucket) \in Nat
    BY LenProperties
  <2>2. CASE longer = bucket
    BY <2>1, <2>2
  <2>3. CASE longer = Append(bucket, t)
    BY <2>1, <2>3, AppendProperties
  <2> QED
    BY <1>1, <2>2, <2>3
<1>4. mcp_server_find_tool_by_hash(name) = FirstOf(bucket, name)
  <2>1. mcp_server_find_tool_by_hash(name) = FirstOf(tool_hash[HashOf[name]], name)
    BY Zenon DEF mcp_server_find_tool_by_hash, FirstOf, At
  <2> QED
    BY <2>1
<1>5. mcp_server_find_tool_by_hash(name)' = FirstOf(longer, name)
  <2>1. mcp_server_find_tool_by_hash(name)' = FirstOf(tool_hash'[HashOf[name]], name)
    BY Zenon DEF mcp_server_find_tool_by_hash, FirstOf, At
  <2> QED
    BY <2>1
<1>6. PICK i \in At(bucket, name) : /\ \A j \in At(bucket, name) : i <= j
                                    /\ FirstOf(bucket, name) = bucket[i]
  BY <1>4, FirstIs
<1>7. i \in 1..Len(bucket) /\ NameOf[bucket[i]] = name
  BY <1>6, FirstIs
<1>8. i \in At(longer, name)
  BY <1>2, <1>3, <1>7, FirstIs
<1>9. PICK k \in At(longer, name) : /\ \A j \in At(longer, name) : k <= j
                                    /\ FirstOf(longer, name) = longer[k]
  BY <1>2, <1>8, FirstIs
<1>10. k \in 1..Len(longer) /\ NameOf[longer[k]] = name /\ k <= i
  BY <1>2, <1>8, <1>9, FirstIs
<1>11. k \in 1..Len(bucket) /\ NameOf[bucket[k]] = name
  BY <1>3, <1>7, <1>10
<1>12. k \in At(bucket, name)
  BY <1>11, FirstIs
<1>13. k = i
  BY <1>3, <1>6, <1>7, <1>10, <1>12
<1> QED
  BY <1>3, <1>4, <1>5, <1>6, <1>7, <1>9, <1>13

-----------------------------------------------------------------------------
\* A tool offers copies of the properties that its application declared, or none; with
\* no failed allocation, those properties.
Offered(t) == LET items == properties[t].items
              IN  /\ Copied(items, Schema[t], Len(Schema[t])) \/ items = <<>>
                  /\ faults = 0 => items = Schema[t]

\* An outcome of mcp_server_parse_arguments for a message: with no failed allocation it
\* has every property of its tool by its name, and no string is lost.
Attempt(o, m) ==
    LET t == mcp_server_find_tool_by_hash(m.name)
    IN  /\ t # NoTool /\ m.name # Missing /\ m.arguments # NotObject
        /\ Parsed(o, properties[t], m.arguments)
        /\ faults = 0 => /\ Len(o.items) = Len(Schema[t])
                         /\ \A k \in 1..Len(Schema[t]) : /\ o.items[k].name = Schema[t][k].name
                                                         /\ o.items[k].value # Null

\* The message in hand: a callback has the arguments of a successful attempt, and an error
\* that names an argument is that of a failed one.
AttemptedCall(call, m) == /\ call.tool = mcp_server_find_tool_by_hash(m.name)
                          /\ call.list.ok /\ Attempt(call.list, m)
ReplyFrom(error, m) == \/ error \in FixedErrors \cup {Missing}
                       \/ \E o : ~o.ok /\ error = o.error_property /\ Attempt(o, m)
HandledFrom(h) == /\ \A i \in DOMAIN h.calls : AttemptedCall(h.calls[i], h.message)
                  /\ \A i \in DOMAIN h.replies : ReplyFrom(h.replies[i].error, h.message)

\* The inductive invariant of the other properties.
DispatchTypeOK == /\ TableOK
                  /\ properties \in [Tools -> ListType]
                  /\ heap \in Int /\ faults \in Nat
DispatchInv == /\ DispatchTypeOK
               /\ \A t \in Range(tools) : Offered(t)
               /\ handled # Idle => HandledStage(handled) /\ HandledFrom(handled)
               /\ NothingLeaks

\* The two sides of NothingLeaks.
OwnedBlocks == Total([i \in DOMAIN tools |-> ToolBlocks(tools[i])])
RunningBlocks == IF handled # Idle /\ handled.running
                 THEN ListBlocks(handled.calls[Len(handled.calls)].list) ELSE 0

\* The blocks of a list depend on its items and capacity only.
LEMMA BlocksOfParsed ==
    ASSUME NEW o, [items |-> o.items, capacity |-> o.capacity] \in ListType
    PROVE  ListBlocks(o) \in Int
<1> DEFINE l == [items |-> o.items, capacity |-> o.capacity]
<1>1. l.items = o.items /\ l.capacity = o.capacity
  OBVIOUS
<1>2. ListBlocks(l) \in Int
  BY ListBlocksIsInt
<1> HIDE DEF l
<1>3. ListBlocks(l) = ListBlocks(o)
  BY <1>1 DEF ListBlocks
<1> QED
  BY <1>2, <1>3

\* The tools' blocks are a number, and a tool that is registered adds its own.
LEMMA OwnedIsInt ==
    ASSUME DispatchTypeOK
    PROVE  /\ [i \in DOMAIN tools |-> ToolBlocks(tools[i])] \in Seq(Int)
           /\ OwnedBlocks \in Int
           /\ \A t \in Tools : ToolBlocks(t) = 4 + ListBlocks(properties[t]) /\ ToolBlocks(t) \in Int
<1>1. \A t \in Tools : ToolBlocks(t) = 4 + ListBlocks(properties[t]) /\ ToolBlocks(t) \in Int
  BY ListBlocksIsInt DEF ToolBlocks, DispatchTypeOK
<1>2. /\ Len(tools) \in Nat /\ DOMAIN tools = 1..Len(tools)
      /\ \A i \in 1..Len(tools) : tools[i] \in Tools
  BY LenProperties, ElementOfSeq DEF DispatchTypeOK, TableOK
<1> DEFINE w == [i \in DOMAIN tools |-> ToolBlocks(tools[i])]
<1>3. w \in [1..Len(tools) -> Int]
  BY <1>1, <1>2
<1> HIDE DEF w
<1>4. w \in Seq(Int)
  BY <1>2, <1>3, SeqDef
<1>5. Total(w) \in Int
  BY <1>4, TotalIsInt
<1> QED
  BY <1>1, <1>4, <1>5 DEF w, OwnedBlocks

\* A tool at the end of the table adds its blocks.
LEMMA OwnedGrows ==
    ASSUME DispatchTypeOK, NEW t \in Tools, t \notin Range(tools), NEW l \in ListType,
           tools' = Append(tools, t), properties' = [properties EXCEPT ![t] = l]
    PROVE  OwnedBlocks' = OwnedBlocks + (4 + ListBlocks(l))
<1> DEFINE w == [i \in DOMAIN tools |-> ToolBlocks(tools[i])]
           x == 4 + ListBlocks(l)
           longer == [i \in DOMAIN tools' |-> 4 + ListBlocks(properties'[tools'[i]])]
<1>1. w \in Seq(Int) /\ \A s \in Tools : ToolBlocks(s) = 4 + ListBlocks(properties[s])
  BY OwnedIsInt
<1>2. /\ Len(tools) \in Nat /\ DOMAIN tools = 1..Len(tools) /\ tools \in Seq(Tools)
      /\ \A i \in 1..Len(tools) : tools[i] \in Tools
      /\ properties \in [Tools -> ListType]
  BY LenProperties, ElementOfSeq DEF DispatchTypeOK, TableOK
<1>3. /\ DOMAIN tools' = 1..Len(tools) + 1 /\ tools'[Len(tools) + 1] = t
      /\ \A i \in 1..Len(tools) : tools'[i] = tools[i]
  BY <1>2, AppendProperties, LenProperties
<1>5. /\ DOMAIN w = 1..Len(tools) /\ Len(w) = Len(tools)
      /\ \A i \in 1..Len(tools) : w[i] = ToolBlocks(tools[i])
  <2>1. DOMAIN w = 1..Len(tools) /\ \A i \in 1..Len(tools) : w[i] = ToolBlocks(tools[i])
    BY <1>2
  <2> HIDE DEF w
  <2>2. Len(w) \in Nat /\ DOMAIN w = 1..Len(w)
    BY <1>1, LenProperties
  <2> QED
    BY <1>2, <2>1, <2>2
<1> HIDE DEF w
<1>6. x \in Int
  BY ListBlocksIsInt
<1> DEFINE v == Append(w, x)
<1>7. /\ v \in Seq(Int) /\ DOMAIN v = 1..Len(tools) + 1 /\ v[Len(tools) + 1] = x
      /\ \A i \in 1..Len(tools) : v[i] = w[i]
  <2> HIDE DEF x
  <2> QED
    BY <1>1, <1>2, <1>5, <1>6, AppendProperties, LenProperties
<1> HIDE DEF v
<1>8. v = [i \in 1..Len(tools) + 1 |-> v[i]]
  BY <1>7, SeqDef
<1>9. ASSUME NEW i \in 1..Len(tools) + 1
      PROVE  v[i] = 4 + ListBlocks(properties'[tools'[i]])
  <2>1. CASE i = Len(tools) + 1
    <3>1. properties'[t] = l
      BY <1>2
    <3> QED
      BY <1>3, <1>7, <2>1, <3>1
  <2>2. CASE i \in 1..Len(tools)
    <3>1. tools[i] # t
      BY <1>2, <2>2 DEF Range
    <3>2. properties'[tools[i]] = properties[tools[i]]
      BY <1>2, <2>2, <3>1
    <3> QED
      BY <1>1, <1>2, <1>3, <1>5, <1>7, <2>2, <3>2
  <2> QED
    BY <1>2, <2>1, <2>2
<1>10. longer = v
  <2>1. longer = [i \in 1..Len(tools) + 1 |-> 4 + ListBlocks(properties'[tools'[i]])]
    BY <1>3
  <2> HIDE DEF longer
  <2> QED
    BY <1>8, <1>9, <2>1, Zenon
<1>11. OwnedBlocks' = Total(longer)
  BY DEF OwnedBlocks, ToolBlocks
<1>12. Total(v) = Total(w) + x
  <2> HIDE DEF x
  <2> QED
    BY <1>1, <1>6, TotalAppend DEF v
<1> QED
  BY <1>10, <1>11, <1>12 DEF OwnedBlocks, w

-----------------------------------------------------------------------------
\* What an application declares has the types of properties.
LEMMA SchemaTypes ==
    ASSUME NEW t \in Tools
    PROVE  /\ Schema[t] \in Seq(PropertyType) /\ Len(Schema[t]) \in Nat
           /\ DOMAIN Schema[t] = 1..Len(Schema[t])
           /\ \A k \in 1..Len(Schema[t]) : Schema[t][k].name \in Keys /\ Schema[t][k].value # Null
           /\ \A i, j \in 1..Len(Schema[t]) : Schema[t][i].name = Schema[t][j].name => i = j
<1> PICK schema : schema = Schema[t]
  OBVIOUS
<1>1. /\ schema \in Seq(Range(schema))
      /\ \A p \in Range(schema) : IsProperty(p)
      /\ \A i, j \in DOMAIN schema : schema[i].name = schema[j].name => i = j
  BY DispatchAssumption DEF Declarable
<1>2. Len(schema) \in Nat /\ DOMAIN schema = 1..Len(schema) /\ schema \in [1..Len(schema) -> Range(schema)]
  BY <1>1, LenProperties
<1>3. ASSUME NEW p \in Range(schema)
      PROVE  p \in PropertyType /\ p.name \in Keys /\ p.value # Null
  <2>1. IsProperty(p)
    BY <1>1
  <2>2. p.value \in Value /\ p.value # Null
    BY <2>1, PropertyAssumption DEF IsProperty, Value
  <2>3. p.min \in Int /\ p.max \in Int
    BY <2>1, PropertyAssumption DEF IsProperty, IntMin
  <2>4. p = [name |-> p.name, type |-> p.type, value |-> p.value, min |-> p.min, max |-> p.max]
        /\ p.name \in Keys /\ p.type \in Types
    BY <2>1 DEF IsProperty
  <2> QED
    BY <2>2, <2>3, <2>4 DEF PropertyType
<1>4. \A k \in 1..Len(schema) : schema[k] \in Range(schema)
  BY <1>2
<1>5. schema \in [1..Len(schema) -> PropertyType]
  BY <1>2, <1>3, <1>4
<1>6. schema \in Seq(PropertyType)
  BY <1>2, <1>5, SeqDef
<1> QED
  BY <1>1, <1>2, <1>3, <1>4, <1>6

\* Copies of copies are copies.
LEMMA CopiedTwice ==
    ASSUME NEW a, NEW b, NEW c, NEW n \in Nat, Copied(b, c, n), Copied(a, b, Len(b))
    PROVE  Copied(a, c, n)
<1>1. Len(b) = n /\ Len(a) = n
  BY DEF Copied
<1>2. \A i \in 1..n : CopyOf(b[i], c[i]) /\ CopyOf(a[i], b[i])
  BY <1>1 DEF Copied
<1>3. \A i \in 1..n : CopyOf(a[i], c[i])
  BY <1>2, CopyOfCopy
<1> QED
  BY <1>1, <1>3 DEF Copied

\* An application that declares a tool's properties and creates it: what each owns.
LEMMA CreateTool ==
    ASSUME NEW t \in Tools, NEW declared \in Declared(Schema[t]),
           NEW made \in mcp_tool_create(declared.list)
    PROVE  /\ declared.list \in ListType /\ declared.live = ListBlocks(declared.list)
           /\ made.list \in ListType /\ made.ok \in BOOLEAN
           /\ made.live = IF made.ok THEN 4 + ListBlocks(made.list) ELSE 0
           /\ declared.ok => \/ Copied(made.list.items, Schema[t], Len(Schema[t]))
                             \/ made.list.items = <<>>
<1>1. Schema[t] \in Seq(PropertyType) /\ Len(Schema[t]) \in Nat
  BY SchemaTypes
<1>2. Whole(declared, Schema[t], Len(Schema[t]))
  BY <1>1, DeclareWhole DEF Declared
<1>3. /\ declared.list \in ListType /\ declared.live = ListBlocks(declared.list)
      /\ declared.ok => Copied(declared.list.items, Schema[t], Len(Schema[t]))
      /\ declared.list.items \in Seq(PropertyType)
  BY <1>2 DEF Whole, OutcomeType, ListType
<1>4. CASE made = [list |-> EmptyList, ok |-> FALSE, live |-> 0]
  <2>1. made.list = EmptyList /\ made.ok = FALSE /\ made.live = 0
    BY <1>4
  <2>2. EmptyList \in ListType /\ EmptyList.items = <<>>
    BY ListBlocksIsInt DEF EmptyList
  <2> QED
    BY <1>3, <2>1, <2>2
<1>5. CASE \E c \in mcp_property_list_clone(declared.list) :
              made = [list |-> c.list, ok |-> TRUE, live |-> 4 + c.live]
  <2>1. PICK c \in mcp_property_list_clone(declared.list) :
                made = [list |-> c.list, ok |-> TRUE, live |-> 4 + c.live]
    BY <1>5
  <2>2. Whole(c, declared.list.items, Len(declared.list.items))
    BY <1>3, CloneWhole DEF mcp_property_list_clone
  <2>3. /\ c.list \in ListType /\ c.live = ListBlocks(c.list)
        /\ Copied(c.list.items, declared.list.items, Len(declared.list.items)) \/ c.list.items = <<>>
    BY <2>2 DEF Whole, OutcomeType, EmptyList
  <2>4. made.list = c.list /\ made.ok = TRUE /\ made.live = 4 + c.live
    BY <2>1
  <2>5. declared.ok => \/ Copied(c.list.items, Schema[t], Len(Schema[t]))
                       \/ c.list.items = <<>>
    BY <1>1, <1>3, <2>3, CopiedTwice
  <2> QED
    BY <1>3, <2>3, <2>4, <2>5
<1> QED
  BY <1>4, <1>5 DEF mcp_tool_create

-----------------------------------------------------------------------------
\* A step after which what was found, offered and lost is as it was, or more is lost.
Keeps == /\ tool_hash' = tool_hash \/ \E t \in Tools : tool_hash' = Hashed(t)
         /\ \A s \in Range(tools) : properties'[s] = properties[s]
         /\ faults' = 0 => faults = 0

\* What was attempted for the message in hand stays true.
LEMMA AttemptStays ==
    ASSUME DispatchTypeOK, Keeps, NEW m \in Messages, NEW o, Attempt(o, m)
    PROVE  /\ Attempt(o, m)'
           /\ mcp_server_find_tool_by_hash(m.name)' = mcp_server_find_tool_by_hash(m.name)
<1>1. m.name \in Names /\ mcp_server_find_tool_by_hash(m.name) # NoTool
  BY DispatchAssumption DEF Attempt
<1>2. TableOK
  BY DEF DispatchTypeOK
<1>3. mcp_server_find_tool_by_hash(m.name)' = mcp_server_find_tool_by_hash(m.name)
  <2>1. CASE tool_hash' = tool_hash
    BY <2>1, FoundSame
  <2>2. CASE \E t \in Tools : tool_hash' = Hashed(t)
    BY <1>1, <1>2, <2>2, FoundStays
  <2> QED
    BY <2>1, <2>2 DEF Keeps
<1> DEFINE t == mcp_server_find_tool_by_hash(m.name)
<1>4. t \in Range(tools) /\ properties'[t] = properties[t]
  BY <1>1, <1>2, FoundIsRegistered DEF Keeps
<1> QED
  BY <1>3, <1>4 DEF Attempt, Keeps, Parsed

\* So does what the message in hand has come to.
LEMMA HandledStays ==
    ASSUME DispatchTypeOK, Keeps, NEW m \in Messages
    PROVE  /\ \A call : AttemptedCall(call, m) => AttemptedCall(call, m)'
           /\ \A error : ReplyFrom(error, m) => ReplyFrom(error, m)'
<1>1. ASSUME NEW call, AttemptedCall(call, m)
      PROVE  AttemptedCall(call, m)'
  <2> PICK o : o = call.list
    OBVIOUS
  <2>1. Attempt(o, m)
    BY <1>1 DEF AttemptedCall
  <2>2. /\ Attempt(o, m)'
        /\ mcp_server_find_tool_by_hash(m.name)' = mcp_server_find_tool_by_hash(m.name)
    BY <2>1, AttemptStays
  <2> QED
    BY <1>1, <2>2 DEF AttemptedCall
<1>2. ASSUME NEW error, ReplyFrom(error, m)
      PROVE  ReplyFrom(error, m)'
  <2>1. CASE error \in FixedErrors \cup {Missing}
    BY <2>1 DEF ReplyFrom, FixedErrors
  <2>2. CASE \E o : ~o.ok /\ error = o.error_property /\ Attempt(o, m)
    <3>1. PICK o : ~o.ok /\ error = o.error_property /\ Attempt(o, m)
      BY <2>2
    <3>2. Attempt(o, m)'
      BY <3>1, AttemptStays
    <3> QED
      BY <3>1, <3>2 DEF ReplyFrom
  <2> QED
    BY <1>2, <2>1, <2>2 DEF ReplyFrom
<1> QED
  BY <1>1, <1>2

-----------------------------------------------------------------------------
\* What the invariant says of blocks, and that these are numbers.
LEMMA Accounts ==
    ASSUME DispatchInv
    PROVE  heap = OwnedBlocks + RunningBlocks /\ OwnedBlocks \in Int /\ RunningBlocks \in Int
<1>1. DispatchTypeOK /\ heap = OwnedBlocks + RunningBlocks
  BY DEF DispatchInv, NothingLeaks, OwnedBlocks, RunningBlocks
<1>2. RunningBlocks \in Int
  <2>1. CASE handled # Idle /\ handled.running
    <3>1. HandledStage(handled) /\ HandledFrom(handled)
      BY <2>1 DEF DispatchInv
    <3>2. PICK call : handled.calls = <<call>>
      BY <2>1, <3>1 DEF HandledStage
    <3>3. Len(handled.calls) = 1 /\ 1 \in DOMAIN handled.calls /\ handled.calls[1] = call
      <4>1. Len(<<call>>) = 1 /\ 1 \in DOMAIN <<call>> /\ <<call>>[1] = call
        OBVIOUS
      <4> QED
        BY <3>2, <4>1
    <3>4. Attempt(call.list, handled.message)
      BY <3>1, <3>3 DEF HandledFrom, AttemptedCall
    <3>5. [items |-> call.list.items, capacity |-> call.list.capacity] \in ListType
      BY <3>4 DEF Attempt, Parsed
    <3>6. ListBlocks(call.list) \in Int
      BY <3>5, BlocksOfParsed
    <3> QED
      BY <2>1, <3>3, <3>6 DEF RunningBlocks
  <2>2. CASE ~(handled # Idle /\ handled.running)
    BY <2>2 DEF RunningBlocks
  <2> QED
    BY <2>1, <2>2
<1> QED
  BY <1>1, <1>2, OwnedIsInt

\* What was said of the message in hand stays true when tools are registered meanwhile.
LEMMA KeepsHandled ==
    ASSUME DispatchInv, Keeps, handled' = handled, handled # Idle
    PROVE  HandledStage(handled') /\ HandledFrom(handled)' /\ RunningBlocks' = RunningBlocks
<1>1. HandledStage(handled) /\ HandledFrom(handled) /\ DispatchTypeOK
  BY DEF DispatchInv
<1> PICK h : h = handled
  OBVIOUS
<1>2. h.message \in Messages /\ HandledStage(h) /\ h = handled'
  BY <1>1 DEF HandledStage
<1>3. /\ \A i \in DOMAIN h.calls : AttemptedCall(h.calls[i], h.message)
      /\ \A i \in DOMAIN h.replies : ReplyFrom(h.replies[i].error, h.message)
  BY <1>1 DEF HandledFrom
<1>4. /\ \A i \in DOMAIN h.calls : AttemptedCall(h.calls[i], h.message)'
      /\ \A i \in DOMAIN h.replies : ReplyFrom(h.replies[i].error, h.message)'
  BY <1>1, <1>2, <1>3, HandledStays
<1>5. HandledFrom(h)'
  BY <1>4 DEF HandledFrom
<1>6. HandledFrom(handled)'
  BY <1>2, <1>5
<1>7. RunningBlocks' = RunningBlocks
  BY DEF RunningBlocks
<1> QED
  BY <1>2, <1>6, <1>7

\* A tool is registered.
LEMMA RegisterKeepsDispatch ==
    ASSUME DispatchInv, NEW t \in Tools, register_tool(t)
    PROVE  DispatchInv'
<1> DEFINE Step(declared, made) ==
              /\ declared.ok /\ made.ok
              /\ mcp_server_add_tool(t)
              /\ properties' = [properties EXCEPT ![t] = made.list]
              /\ heap' = heap + declared.live + made.live - ListBlocks(declared.list)
              /\ Faulty(made.list.items # Schema[t] \/ unhashed' # unhashed)
              /\ UNCHANGED handled
<1>0. PICK declared \in Declared(Schema[t]) : \E made \in mcp_tool_create(declared.list) : Step(declared, made)
  BY Zenon DEF register_tool
<1>1. PICK made \in mcp_tool_create(declared.list) : Step(declared, made)
  BY <1>0
<1>2. /\ declared.list \in ListType /\ declared.live = ListBlocks(declared.list)
      /\ made.list \in ListType /\ made.live = 4 + ListBlocks(made.list)
      /\ Copied(made.list.items, Schema[t], Len(Schema[t])) \/ made.list.items = <<>>
  BY <1>1, CreateTool
<1>3. /\ TableOK /\ properties \in [Tools -> ListType] /\ heap \in Int /\ faults \in Nat
      /\ \A s \in Range(tools) : Offered(s)
  BY DEF DispatchInv, DispatchTypeOK
<1>4. /\ t \notin Range(tools) /\ tools' = Append(tools, t)
      /\ tool_hash' = Hashed(t) \/ tool_hash' = tool_hash
  BY <1>1 DEF mcp_server_add_tool, Fresh
<1>5. /\ faults' \in Nat /\ (faults' = 0 => faults = 0 /\ made.list.items = Schema[t])
  BY <1>1, <1>3 DEF Faulty
<1>6. /\ tools \in Seq(Tools) /\ tools' \in Seq(Tools) /\ Range(tools') = Range(tools) \cup {t}
      /\ Range(tools) \subseteq Tools
  <2>1. /\ tools \in Seq(Tools) /\ tools' \in Seq(Tools) /\ Len(tools) \in Nat
        /\ DOMAIN tools = 1..Len(tools) /\ DOMAIN tools' = 1..Len(tools) + 1
        /\ tools'[Len(tools) + 1] = t /\ \A i \in 1..Len(tools) : tools'[i] = tools[i]
        /\ \A i \in 1..Len(tools) : tools[i] \in Tools
    BY <1>3, <1>4, AppendProperties, LenProperties, ElementOfSeq DEF TableOK
  <2>2. \A i \in 1..Len(tools) + 1 : i \in 1..Len(tools) \/ i = Len(tools) + 1
    BY <2>1
  <2> QED
    BY <2>1, <2>2 DEF Range
<1>7. TableOK'
  <2>1. HashOf[NameOf[t]] \in Buckets
    BY RegistryAssumption
  <2>2. ASSUME NEW h \in Buckets
        PROVE  /\ tool_hash'[h] \in Seq(Tools)
               /\ \A i \in 1..Len(tool_hash'[h]) : tool_hash'[h][i] \in Range(tools')
    <3>1. tool_hash[h] \in Seq(Tools) /\ \A i \in 1..Len(tool_hash[h]) : tool_hash[h][i] \in Range(tools')
      BY <1>3, <1>6 DEF TableOK
    <3>2. CASE tool_hash'[h] = tool_hash[h]
      BY <3>1, <3>2
    <3>3. CASE tool_hash'[h] = Append(tool_hash[h], t)
      <4>1. Append(tool_hash[h], t) \in Seq(Tools)
        BY <3>1, AppendProperties
      <4>2. /\ Len(tool_hash'[h]) = Len(tool_hash[h]) + 1 /\ Len(tool_hash[h]) \in Nat
            /\ tool_hash'[h][Len(tool_hash[h]) + 1] = t
            /\ \A i \in 1..Len(tool_hash[h]) : tool_hash'[h][i] = tool_hash[h][i]
        BY <3>1, <3>3, AppendProperties, LenProperties
      <4>3. \A i \in 1..Len(tool_hash[h]) + 1 : i \in 1..Len(tool_hash[h]) \/ i = Len(tool_hash[h]) + 1
        BY <4>2
      <4>4. t \in Range(tools')
        BY <1>6
      <4> QED
        BY <3>1, <3>3, <4>1, <4>2, <4>3, <4>4
    <3>4. tool_hash'[h] = tool_hash[h] \/ tool_hash'[h] = Append(tool_hash[h], t)
      BY <1>3, <1>4, <2>1 DEF Hashed, TableOK
    <3> QED
      BY <3>2, <3>3, <3>4
  <2>3. DOMAIN tool_hash' = Buckets /\ tool_hash' = [h \in Buckets |-> tool_hash'[h]]
    BY <1>3, <1>4 DEF Hashed, TableOK
  <2>4. tool_hash' \in [Buckets -> Seq(Tools)]
    BY <2>2, <2>3
  <2> QED
    BY <1>6, <2>2, <2>4 DEF TableOK
<1>8. properties' \in [Tools -> ListType] /\ heap' \in Int
  <2>1. ListBlocks(declared.list) \in Int /\ ListBlocks(made.list) \in Int
    BY <1>2, ListBlocksIsInt
  <2> QED
    BY <1>1, <1>2, <1>3, <2>1
<1>9. DispatchTypeOK'
  BY <1>5, <1>7, <1>8 DEF DispatchTypeOK
<1>10. Keeps
  BY <1>1, <1>3, <1>4, <1>5, <1>6 DEF Keeps
<1>11. \A s \in Range(tools)' : Offered(s)'
  <2>1. properties'[t] = made.list
    BY <1>1, <1>3
  <2>2. Offered(t)'
    BY <1>2, <1>5, <2>1 DEF Offered
  <2>3. ASSUME NEW s \in Range(tools)
        PROVE  Offered(s)'
    BY <1>3, <1>10 DEF Offered, Keeps
  <2> QED
    BY <1>6, <2>2, <2>3 DEF Range
<1>12. handled' # Idle => HandledStage(handled)' /\ HandledFrom(handled)'
  <2> SUFFICES ASSUME handled # Idle
               PROVE  HandledStage(handled)' /\ HandledFrom(handled)'
    BY <1>1
  <2>1. HandledStage(handled') /\ HandledFrom(handled)'
    BY <1>1, <1>10, KeepsHandled
  <2> QED
    BY <2>1
<1>13. RunningBlocks' = RunningBlocks
  BY <1>1 DEF RunningBlocks
<1>14. heap' = OwnedBlocks' + RunningBlocks'
  <2>1. OwnedBlocks' = OwnedBlocks + (4 + ListBlocks(made.list))
    BY <1>1, <1>2, <1>4, OwnedGrows DEF DispatchInv
  <2>2. heap = OwnedBlocks + RunningBlocks /\ OwnedBlocks \in Int /\ RunningBlocks \in Int
    BY Accounts
  <2>3. ListBlocks(declared.list) \in Int /\ ListBlocks(made.list) \in Int
    BY <1>2, ListBlocksIsInt
  <2>4. heap' = heap + (4 + ListBlocks(made.list))
    BY <1>1, <1>2, <1>3, <2>3
  <2> QED
    BY <1>13, <2>1, <2>2, <2>3, <2>4
<1>15. NothingLeaks'
  BY <1>14 DEF NothingLeaks, OwnedBlocks, RunningBlocks
<1> QED
  BY <1>9, <1>11, <1>12, <1>15 DEF DispatchInv

\* A step that changes no tool, and neither the message in hand nor, in all, the heap.
LEMMA IdleKeepsDispatch ==
    ASSUME DispatchInv, tools' = tools, tool_hash' = tool_hash, properties' = properties,
           faults' \in Nat, faults' = 0 => faults = 0, handled' = handled, heap' = heap
    PROVE  DispatchInv'
<1>1. Keeps
  BY DEF Keeps
<1>2. DispatchTypeOK'
  BY DEF DispatchInv, DispatchTypeOK, TableOK
<1>3. \A s \in Range(tools)' : Offered(s)'
  <2>1. \A s \in Range(tools) : Offered(s)
    BY DEF DispatchInv
  <2> QED
    BY <2>1 DEF Offered
<1>4. handled' # Idle => HandledStage(handled)' /\ HandledFrom(handled)'
  <2> SUFFICES ASSUME handled # Idle
               PROVE  HandledStage(handled)' /\ HandledFrom(handled)'
    OBVIOUS
  <2>1. HandledStage(handled') /\ HandledFrom(handled)'
    BY <1>1, KeepsHandled
  <2> QED
    BY <2>1
<1>5. NothingLeaks'
  <2>1. OwnedBlocks' = OwnedBlocks /\ RunningBlocks' = RunningBlocks
    BY DEF OwnedBlocks, RunningBlocks, ToolBlocks
  <2> QED
    BY <2>1, Accounts DEF NothingLeaks, OwnedBlocks, RunningBlocks
<1> QED
  BY <1>2, <1>3, <1>4, <1>5 DEF DispatchInv

\* A registration that is refused, or that its application gives up, frees what it took.
LEMMA RefusedKeepsDispatch ==
    ASSUME DispatchInv, NEW t \in Tools, register_tool_refused(t) \/ register_tool_gives_up(t)
    PROVE  DispatchInv'
<1>1. heap \in Int /\ faults \in Nat
  BY DEF DispatchInv, DispatchTypeOK
<1>2. CASE register_tool_refused(t)
  <2> DEFINE Step(declared, made) ==
           /\ declared.ok /\ made.ok
           /\ \/ mcp_server_add_tool_duplicate(t) /\ Faulty(made.list.items # Schema[t])
              \/ mcp_server_add_tool_no_memory(t) /\ Faulty(TRUE)
           /\ heap' = heap + declared.live + made.live - ListBlocks(declared.list)
                      - 4 - ListBlocks(made.list)
           /\ UNCHANGED <<properties, handled>>
  <2>0. PICK declared \in Declared(Schema[t]) : \E made \in mcp_tool_create(declared.list) : Step(declared, made)
    BY <1>2, Zenon DEF register_tool_refused
  <2>1. PICK made \in mcp_tool_create(declared.list) : Step(declared, made)
    BY <2>0
  <2>2. /\ declared.live = ListBlocks(declared.list) /\ made.live = 4 + ListBlocks(made.list)
        /\ ListBlocks(declared.list) \in Int /\ ListBlocks(made.list) \in Int
    BY <2>1, CreateTool, ListBlocksIsInt
  <2>3. heap' = heap
    BY <1>1, <2>1, <2>2
  <2>4. tools' = tools /\ tool_hash' = tool_hash
    BY <2>1 DEF mcp_server_add_tool_duplicate, mcp_server_add_tool_no_memory
  <2>5. faults' \in Nat /\ (faults' = 0 => faults = 0)
    BY <1>1, <2>1 DEF Faulty
  <2> QED
    BY <2>1, <2>3, <2>4, <2>5, IdleKeepsDispatch
<1>3. CASE register_tool_gives_up(t)
  <2> DEFINE Step(declared, made) ==
           /\ Fresh(t) /\ ~(declared.ok /\ made.ok)
           /\ rejected' = rejected \cup {t}
           /\ heap' = heap + declared.live - ListBlocks(declared.list)
                      + (IF declared.ok THEN made.live ELSE 0)
           /\ Faulty(TRUE)
           /\ UNCHANGED <<tools, capacity, tool_hash, unhashed, properties, handled>>
  <2>0. PICK declared \in Declared(Schema[t]) : \E made \in mcp_tool_create(declared.list) : Step(declared, made)
    BY <1>3, Zenon DEF register_tool_gives_up
  <2>1. PICK made \in mcp_tool_create(declared.list) : Step(declared, made)
    BY <2>0
  <2>2. /\ declared.live = ListBlocks(declared.list) /\ ListBlocks(declared.list) \in Int
        /\ declared.ok => made.live = 0
    BY <2>1, CreateTool, ListBlocksIsInt
  <2>3. heap' = heap
    BY <1>1, <2>1, <2>2
  <2>4. faults' \in Nat /\ (faults' = 0 => faults = 0)
    BY <1>1, <2>1 DEF Faulty
  <2> QED
    BY <2>1, <2>3, <2>4, IdleKeepsDispatch
<1> QED
  BY <1>2, <1>3

-----------------------------------------------------------------------------
\* A message whose handling ends at once, with no reply or with an error or result.
LEMMA AnsweredKeepsDispatch ==
    ASSUME DispatchInv, handled = Idle, UNCHANGED registryVars, UNCHANGED properties,
           heap' = heap, faults' \in Nat, faults' = 0 => faults = 0,
           NEW m \in Messages, NEW replies, handled' = Handled(m, replies, <<>>, FALSE),
           HandledStage(handled'),
           \A i \in DOMAIN replies : ReplyFrom(replies[i].error, m)'
    PROVE  DispatchInv'
<1>1. tools' = tools /\ tool_hash' = tool_hash
  BY DEF registryVars
<1>2. DispatchTypeOK'
  BY <1>1 DEF DispatchInv, DispatchTypeOK, TableOK
<1>3. \A s \in Range(tools)' : Offered(s)'
  <2>1. \A s \in Range(tools) : Offered(s)
    BY DEF DispatchInv
  <2> QED
    BY <1>1, <2>1 DEF Offered
<1> PICK h : h = Handled(m, replies, <<>>, FALSE)
  OBVIOUS
<1>4. /\ h = handled' /\ h.message = m /\ h.replies = replies /\ h.calls = <<>> /\ h.running = FALSE
  BY DEF Handled
<1>5. HandledFrom(h)'
  <2>1. DOMAIN <<>> = {}
    OBVIOUS
  <2> QED
    BY <1>4, <2>1 DEF HandledFrom
<1>6. HandledStage(handled)' /\ HandledFrom(handled)'
  BY <1>4, <1>5
<1>7. NothingLeaks'
  <2>1. OwnedBlocks' = OwnedBlocks
    BY <1>1 DEF OwnedBlocks, ToolBlocks
  <2>2. RunningBlocks = 0
    BY DEF RunningBlocks
  <2>3. RunningBlocks' = 0
    BY <1>4 DEF RunningBlocks
  <2>4. heap' = OwnedBlocks' + RunningBlocks'
    BY <2>1, <2>2, <2>3, Accounts
  <2> QED
    BY <2>4 DEF NothingLeaks, OwnedBlocks, RunningBlocks
<1> QED
  BY <1>2, <1>3, <1>6, <1>7 DEF DispatchInv

\* The arguments of a call have been parsed.
LEMMA AttemptMade ==
    ASSUME DispatchInv, UNCHANGED registryVars, UNCHANGED properties, NEW m \in Messages,
           m.name # Missing, m.arguments # NotObject,
           mcp_server_find_tool_by_hash(m.name) # NoTool,
           NEW o \in mcp_server_parse_arguments(properties[mcp_server_find_tool_by_hash(m.name)],
                                                m.arguments),
           Faulty(Lost(o, properties[mcp_server_find_tool_by_hash(m.name)]))
    PROVE  /\ Attempt(o, m)'
           /\ mcp_server_find_tool_by_hash(m.name)' = mcp_server_find_tool_by_hash(m.name)
           /\ o.live = ListBlocks(o) /\ ListBlocks(o) \in Int
           /\ faults' \in Nat /\ (faults' = 0 => faults = 0)
<1> PICK t : t = mcp_server_find_tool_by_hash(m.name)
  OBVIOUS
<1>1. TableOK /\ properties \in [Tools -> ListType] /\ faults \in Nat /\ m.name \in Names
  BY DispatchAssumption DEF DispatchInv, DispatchTypeOK
<1>2. t \in Range(tools) /\ t \in Tools /\ properties[t] \in ListType /\ Offered(t)
  BY <1>1, FoundIsRegistered DEF DispatchInv
<1>3. IsArguments(m.arguments)
  BY DispatchAssumption DEF IsArguments
<1>4. Parsed(o, properties[t], m.arguments)
  BY <1>2, <1>3, ArgumentsParsed
<1>5. o.live = ListBlocks(o) /\ ListBlocks(o) \in Int
  BY <1>4, BlocksOfParsed DEF Parsed
<1>6. /\ faults' = faults + (IF Lost(o, properties[t]) THEN 1 ELSE 0)
      /\ faults' \in Nat /\ (faults' = 0 => faults = 0)
  BY <1>1 DEF Faulty
<1>7. ASSUME faults' = 0
      PROVE  /\ Len(o.items) = Len(Schema[t])
             /\ \A k \in 1..Len(Schema[t]) : /\ o.items[k].name = Schema[t][k].name
                                             /\ o.items[k].value # Null
  <2>1. ~Lost(o, properties[t]) /\ properties[t].items = Schema[t]
    BY <1>1, <1>2, <1>6, <1>7 DEF Offered
  <2>2. o.items \in Seq(PropertyType)
    BY <1>4 DEF Parsed, ListType
  <2>3. Len(o.items) = Len(Schema[t]) /\ DOMAIN o.items = 1..Len(Schema[t])
    BY <2>1, <2>2, LenProperties DEF Lost
  <2>4. \A k \in 1..Len(Schema[t]) : Schema[t][k].value # Null
    BY <1>2, SchemaTypes
  <2> QED
    BY <2>1, <2>3, <2>4 DEF Lost
<1>8. mcp_server_find_tool_by_hash(m.name)' = t
  <2>1. tool_hash' = tool_hash
    BY DEF registryVars
  <2>2. mcp_server_find_tool_by_hash(m.name)' = mcp_server_find_tool_by_hash(m.name)
    BY <2>1, FoundSame
  <2> QED
    BY <2>2
<1>9. Attempt(o, m)'
  BY <1>4, <1>7, <1>8 DEF Attempt, Parsed
<1> QED
  BY <1>5, <1>6, <1>8, <1>9

\* mcp_server_parse_message.
LEMMA ParseKeepsDispatch ==
    ASSUME DispatchInv, NEW m \in Messages, mcp_server_parse_message(m)
    PROVE  DispatchInv'
<1>1. handled = Idle /\ UNCHANGED registryVars /\ UNCHANGED properties
  BY DEF mcp_server_parse_message
<1>2. HandledStage(handled')
  BY ParseKeepsOutcome
<1>3. faults \in Nat /\ heap \in Int
  BY DEF DispatchInv, DispatchTypeOK
<1>4. ASSUME heap' = heap, faults' \in Nat, faults' = 0 => faults = 0, NEW error, ReplyFrom(error, m)',
             handled' = Handled(m, <<Error(m, error)>>, <<>>, FALSE)
      PROVE  DispatchInv'
  <2> PICK e : e = Error(m, error)
    OBVIOUS
  <2>1. e.error = error /\ DOMAIN <<e>> = {1} /\ <<e>>[1] = e
    BY DEF Error
  <2>2. \A i \in DOMAIN <<e>> : ReplyFrom(<<e>>[i].error, m)'
    BY <1>4, <2>1
  <2>3. handled' = Handled(m, <<e>>, <<>>, FALSE)
    BY <1>4
  <2> QED
    BY <1>1, <1>2, <1>4, <2>2, <2>3, AnsweredKeepsDispatch
<1>5. ASSUME heap' = heap, faults' = faults, NEW error \in FixedErrors \cup {Missing},
             handled' = Handled(m, <<Error(m, error)>>, <<>>, FALSE)
      PROVE  DispatchInv'
  <2>1. ReplyFrom(error, m)'
    BY <1>5 DEF ReplyFrom, FixedErrors
  <2> QED
    BY <1>3, <1>4, <1>5, <2>1
<1>6. CASE parse_message_dropped(m)
  <2>1. handled' = Handled(m, <<>>, <<>>, FALSE) /\ heap' = heap /\ faults' = faults
    BY <1>6 DEF parse_message_dropped, Replied
  <2>2. DOMAIN <<>> = {}
    OBVIOUS
  <2> QED
    BY <1>1, <1>2, <1>3, <2>1, <2>2, AnsweredKeepsDispatch
<1>7. CASE parse_message_result(m)
  <2>1. handled' = Handled(m, <<Error(m, Missing)>>, <<>>, FALSE) /\ heap' = heap /\ faults' = faults
    BY <1>7 DEF parse_message_result, Replied, Ok, Error
  <2> QED
    BY <1>5, <2>1
<1>8. CASE parse_message_not_implemented(m)
  <2>1. /\ handled' = Handled(m, <<Error(m, "Method not implemented")>>, <<>>, FALSE)
        /\ heap' = heap /\ faults' = faults
    BY <1>8 DEF parse_message_not_implemented, Replied
  <2>2. "Method not implemented" \in FixedErrors
    BY DEF FixedErrors
  <2> QED
    BY <1>5, <2>1, <2>2
<1>9. CASE parse_message_bad_call(m)
  <2>1. \E error \in {"Missing params", "Missing tool name", "Invalid arguments"} :
           handled' = Handled(m, <<Error(m, error)>>, <<>>, FALSE) /\ heap' = heap /\ faults' = faults
    BY <1>9 DEF parse_message_bad_call, Replied
  <2>2. {"Missing params", "Missing tool name", "Invalid arguments"} \subseteq FixedErrors
    BY DEF FixedErrors
  <2> QED
    BY <1>5, <2>1, <2>2
<1>10. CASE parse_message_call(m)
  <2>1. m.name # Missing /\ m.arguments # NotObject /\ mcp_server_do_tool_call(m)
    BY <1>10 DEF parse_message_call
  <2> PICK t : t = mcp_server_find_tool_by_hash(m.name)
    OBVIOUS
  <2>2. CASE t = NoTool
    <3>1. /\ handled' = Handled(m, <<Error(m, "Unknown tool")>>, <<>>, FALSE)
          /\ heap' = heap /\ faults' = faults
      BY <2>1, <2>2 DEF mcp_server_do_tool_call
    <3>2. "Unknown tool" \in FixedErrors
      BY DEF FixedErrors
    <3> QED
      BY <1>5, <3>1, <3>2
  <2>3. CASE t # NoTool
    <3> DEFINE Refused(o) == /\ ~o.ok
                             /\ heap' = heap + o.live - ListBlocks(o)
                             /\ handled' = Handled(m, <<Error(m, o.error_property)>>, <<>>, FALSE)
               Called(o) == /\ o.ok
                            /\ heap' = heap + o.live
                            /\ handled' = Handled(m, <<>>, <<[tool |-> t, list |-> o]>>, TRUE)
    <3>1. PICK o \in mcp_server_parse_arguments(properties[t], m.arguments) :
             Faulty(Lost(o, properties[t])) /\ (Refused(o) \/ Called(o))
      BY <2>1, <2>3, Zenon DEF mcp_server_do_tool_call
    <3>2. /\ Attempt(o, m)' /\ o.live = ListBlocks(o) /\ ListBlocks(o) \in Int
          /\ mcp_server_find_tool_by_hash(m.name)' = t
          /\ faults' \in Nat /\ (faults' = 0 => faults = 0)
      BY <1>1, <2>1, <2>3, <3>1, AttemptMade
    <3>3. CASE Refused(o)
      <4>1. ReplyFrom(o.error_property, m)'
        BY <3>2, <3>3 DEF ReplyFrom
      <4>2. heap' = heap
        BY <1>3, <3>2, <3>3
      <4> QED
        BY <1>4, <3>2, <3>3, <4>1, <4>2
    <3>4. CASE Called(o)
      <4> PICK call : call = [tool |-> t, list |-> o]
        OBVIOUS
      <4> PICK h : h = Handled(m, <<>>, <<call>>, TRUE)
        OBVIOUS
      <4>1. /\ h = handled' /\ h.message = m /\ h.replies = <<>> /\ h.calls = <<call>> /\ h.running = TRUE
            /\ call.tool = t /\ call.list = o
        BY <3>4 DEF Handled
      <4>2. /\ DOMAIN <<>> = {} /\ DOMAIN <<call>> = {1} /\ <<call>>[1] = call /\ Len(<<call>>) = 1
        OBVIOUS
      <4>3. tools' = tools /\ tool_hash' = tool_hash /\ properties' = properties
        BY <1>1 DEF registryVars
      <4>4. AttemptedCall(call, m)'
        BY <3>2, <3>4, <4>1 DEF AttemptedCall
      <4>5. HandledFrom(h)'
        BY <4>1, <4>2, <4>4 DEF HandledFrom
      <4>6. HandledStage(handled)' /\ HandledFrom(handled)'
        BY <1>2, <4>1, <4>5
      <4>7. DispatchTypeOK'
        BY <1>3, <3>2, <3>4, <4>3 DEF DispatchInv, DispatchTypeOK, TableOK
      <4>8. \A s \in Range(tools)' : Offered(s)'
        <5>1. \A s \in Range(tools) : Offered(s)
          BY DEF DispatchInv
        <5> QED
          BY <3>2, <4>3, <5>1 DEF Offered
      <4>9. NothingLeaks'
        <5>1. OwnedBlocks' = OwnedBlocks
          BY <4>3 DEF OwnedBlocks, ToolBlocks
        <5>2. RunningBlocks = 0
          BY <1>1 DEF RunningBlocks
        <5>3. RunningBlocks' = ListBlocks(o)
          <6>1. handled' # Idle
            BY <4>1, DispatchAssumption DEF Idle, Handled
          <6> QED
            BY <4>1, <4>2, <6>1 DEF RunningBlocks
        <5>4. heap' = OwnedBlocks' + RunningBlocks'
          BY <3>2, <3>4, <5>1, <5>2, <5>3, Accounts
        <5> QED
          BY <5>4 DEF NothingLeaks, OwnedBlocks, RunningBlocks
      <4> QED
        BY <4>6, <4>7, <4>8, <4>9 DEF DispatchInv
    <3> QED
      BY <3>1, <3>3, <3>4
  <2> QED
    BY <2>2, <2>3
<1>11. CASE parse_message_no_list(m)
  <2>1. /\ handled' = Handled(m, <<Error(m, "Failed to generate tools list")>>, <<>>, FALSE)
        /\ heap' = heap
    BY <1>11 DEF parse_message_no_list
  <2>2. ReplyFrom("Failed to generate tools list", m)'
    BY DEF ReplyFrom, FixedErrors
  <2>3. faults' \in Nat /\ faults' # 0
    <3>1. Faulty(TRUE)
      BY <1>11 DEF parse_message_no_list
    <3>2. faults' = faults + 1
      BY <3>1 DEF Faulty
    <3> QED
      BY <1>3, <3>2
  <2> QED
    BY <1>4, <2>1, <2>2, <2>3
<1> QED
  BY <1>6, <1>7, <1>8, <1>9, <1>10, <1>11 DEF mcp_server_parse_message

\* What mcp_return_value_free frees is what the callback handed over.
LEMMA ReturnFreed ==
    ASSUME NEW value \in ReturnValues
    PROVE  value.blocks \in Nat /\ mcp_return_value_free(value) = value.blocks
<1>1. CASE value \in [type : {"bool", "int"}, blocks : {0}]
  <2>1. value.blocks = 0 /\ value.type \in {"bool", "int"}
    BY <1>1
  <2> QED
    BY <2>1 DEF mcp_return_value_free
<1>2. CASE value \in [type : {"string"}, blocks : 0..1]
  <2>1. value.blocks \in 0..1 /\ value.type = "string"
    BY <1>2
  <2> QED
    BY <2>1 DEF mcp_return_value_free
<1>3. CASE value \in [type : {"json"}, blocks : 0..1]
  <2>1. value.blocks \in 0..1 /\ value.type = "json"
    BY <1>3
  <2> QED
    BY <2>1 DEF mcp_return_value_free
<1>4. CASE value \in [type : {"image"}, blocks : 0..3]
  <2>1. value.blocks \in 0..3 /\ value.type = "image"
    BY <1>4
  <2> QED
    BY <2>1 DEF mcp_return_value_free
<1> QED
  BY <1>1, <1>2, <1>3, <1>4 DEF ReturnValues

\* The callback's return frees the arguments, and an allocation may fail.
LEMMA ReturnHeap ==
    ASSUME heap \in Int, faults \in Nat, mcp_tool_call,
           NEW blocks \in Int, blocks = ListBlocks(handled.calls[Len(handled.calls)].list)
    PROVE  heap' = heap - blocks /\ faults' \in Nat /\ (faults' = 0 => faults = 0)
<1>1. \E value \in ReturnValues : \E lost \in BOOLEAN :
         heap' = heap + value.blocks - mcp_return_value_free(value) - blocks /\ Faulty(lost)
  BY Zenon DEF mcp_tool_call
<1>2. \E b \in Nat : \E lost \in BOOLEAN : heap' = heap + b - b - blocks /\ Faulty(lost)
  BY <1>1, ReturnFreed, Zenon
<1>3. heap' = heap - blocks
  BY <1>2
<1>4. faults' \in Nat /\ (faults' = 0 => faults = 0)
  BY <1>2 DEF Faulty
<1> QED
  BY <1>3, <1>4

\* A sequence of one element.
LEMMA OneReply == \A e : DOMAIN <<e>> = {1} /\ <<e>>[1] = e /\ Len(<<e>>) = 1
  OBVIOUS

\* The callback returns: its value and its arguments are freed.
LEMMA ReturnKeepsDispatch ==
    ASSUME DispatchInv, mcp_tool_call
    PROVE  DispatchInv'
<1>1. OutcomeInv /\ handled # Idle /\ handled.running /\ HandledStage(handled) /\ HandledFrom(handled)
  BY DEF DispatchInv, OutcomeInv, mcp_tool_call
<1>2. /\ heap \in Int /\ faults \in Nat /\ tools' = tools /\ tool_hash' = tool_hash
      /\ properties' = properties
  BY DEF DispatchInv, DispatchTypeOK, mcp_tool_call, registryVars
<1>3. RunningBlocks \in Int /\ RunningBlocks = ListBlocks(handled.calls[Len(handled.calls)].list)
  BY <1>1, Accounts DEF RunningBlocks
<1>4. heap' = heap - RunningBlocks /\ faults' \in Nat /\ (faults' = 0 => faults = 0)
  BY <1>2, <1>3, ReturnHeap
<1>5. heap' \in Int /\ heap' = OwnedBlocks + 0
  BY <1>2, <1>3, <1>4, Accounts
<1>6. PICK call : handled.calls = <<call>>
  BY <1>1 DEF HandledStage
<1>7. PICK m \in Messages : m = handled.message
  BY <1>1 DEF HandledStage
<1>8. DOMAIN <<call>> = {1} /\ <<call>>[1] = call /\ Len(<<call>>) = 1
  OBVIOUS
<1>9. PICK error \in {Missing, "Tool call failed"} :
         handled' = Handled(m, <<Error(m, error)>>, <<call>>, FALSE)
  BY <1>7, <1>1, <1>6, ReturnKeepsOutcome
<1>10. HandledStage(handled')
  BY <1>1, ReturnKeepsOutcome
<1>11. Keeps
  BY <1>2, <1>4 DEF Keeps
<1>12. PICK h : h = handled'
  OBVIOUS
<1>13. PICK e : e = Error(m, error)
  OBVIOUS
<1>14. /\ h.message = m /\ h.replies = <<e>> /\ h.calls = <<call>> /\ h.running = FALSE
       /\ e.error = error
  BY <1>9, <1>12, <1>13 DEF Handled, Error
<1>15. HandledFrom(h)'
  <2>1. AttemptedCall(call, m)
    BY <1>7, <1>1, <1>6, <1>8 DEF HandledFrom
  <2>2. AttemptedCall(call, m)'
    BY <1>11, <2>1, HandledStays DEF DispatchInv
  <2>3. ReplyFrom(e.error, m)'
    BY <1>14 DEF ReplyFrom, FixedErrors
  <2>4. \A i \in DOMAIN h.calls : h.calls[i] = call
    BY <1>8, <1>14
  <2>5. \A i \in DOMAIN h.replies : h.replies[i] = e
    BY <1>14, OneReply
  <2> QED
    BY <1>14, <2>2, <2>3, <2>4, <2>5 DEF HandledFrom
<1>16. HandledStage(handled)' /\ HandledFrom(handled)'
  BY <1>10, <1>12, <1>15
<1>17. DispatchTypeOK'
  BY <1>2, <1>4, <1>5 DEF DispatchInv, DispatchTypeOK, TableOK
<1>18. \A s \in Range(tools)' : Offered(s)'
  <2>1. \A s \in Range(tools) : Offered(s)
    BY DEF DispatchInv
  <2> QED
    BY <1>2, <1>4, <2>1 DEF Offered
<1>19. NothingLeaks'
  <2>1. OwnedBlocks' = OwnedBlocks
    BY <1>2 DEF OwnedBlocks, ToolBlocks
  <2>2. RunningBlocks' = 0
    BY <1>12, <1>14 DEF RunningBlocks
  <2>3. heap' = OwnedBlocks' + RunningBlocks'
    BY <1>5, <2>1, <2>2
  <2> QED
    BY <2>3 DEF NothingLeaks, OwnedBlocks, RunningBlocks
<1> QED
  BY <1>16, <1>17, <1>18, <1>19 DEF DispatchInv

\* The handler returns.
LEMMA EndKeepsDispatch ==
    ASSUME DispatchInv, parse_message_end
    PROVE  DispatchInv'
<1>1. /\ handled' = Idle /\ heap' = heap /\ faults' = faults /\ properties' = properties
      /\ tools' = tools /\ tool_hash' = tool_hash /\ ~handled.running
  BY DEF parse_message_end, registryVars
<1>2. DispatchTypeOK'
  BY <1>1 DEF DispatchInv, DispatchTypeOK, TableOK
<1>3. \A s \in Range(tools)' : Offered(s)'
  <2>1. \A s \in Range(tools) : Offered(s)
    BY DEF DispatchInv
  <2> QED
    BY <1>1, <2>1 DEF Offered
<1>4. NothingLeaks'
  <2>1. OwnedBlocks' = OwnedBlocks
    BY <1>1 DEF OwnedBlocks, ToolBlocks
  <2>2. RunningBlocks' = 0 /\ RunningBlocks = 0
    BY <1>1 DEF RunningBlocks
  <2>3. heap' = OwnedBlocks' + RunningBlocks'
    BY <1>1, <2>1, <2>2, Accounts
  <2> QED
    BY <2>3 DEF NothingLeaks, OwnedBlocks, RunningBlocks
<1> QED
  BY <1>1, <1>2, <1>3, <1>4 DEF DispatchInv

\* DispatchInv holds in every state, for schemas, messages and arguments of any size and
\* for any pattern of allocations that fail.
THEOREM DispatchInvariant == DispatchSpec => []DispatchInv
<1>1. DispatchInit => DispatchInv
  <2> SUFFICES ASSUME DispatchInit PROVE DispatchInv
    OBVIOUS
  <2>1. /\ tools = <<>> /\ tool_hash = [h \in Buckets |-> <<>>] /\ handled = Idle
        /\ properties = [t \in Tools |-> EmptyList] /\ heap = 0 /\ faults = 0
    BY DEF DispatchInit, RegistryInit
  <2>2. Len(<<>>) = 0 /\ DOMAIN <<>> = {} /\ <<>> \in Seq(Tools)
    BY EmptySeq
  <2>3. Range(tools) = {}
    BY <2>1, <2>2 DEF Range
  <2>4. DispatchTypeOK
    BY <2>1, <2>2, ListBlocksIsInt DEF DispatchTypeOK, TableOK
  <2>5. NothingLeaks
    <3>1. [i \in DOMAIN tools |-> ToolBlocks(tools[i])] = <<>>
      BY <2>1, <2>2
    <3>2. OwnedBlocks = 0
      BY <3>1, TotalEmpty DEF OwnedBlocks
    <3>3. RunningBlocks = 0
      BY <2>1 DEF RunningBlocks
    <3>4. heap = OwnedBlocks + RunningBlocks
      BY <2>1, <3>2, <3>3
    <3> QED
      BY <3>4 DEF NothingLeaks, OwnedBlocks, RunningBlocks
  <2> QED
    BY <2>1, <2>3, <2>4, <2>5 DEF DispatchInv
<1>2. DispatchInv /\ [DispatchNext]_<<registryVars, dispatchVars>> => DispatchInv'
  <2> SUFFICES ASSUME DispatchInv, [DispatchNext]_<<registryVars, dispatchVars>>
               PROVE  DispatchInv'
    OBVIOUS
  <2>1. CASE UNCHANGED <<registryVars, dispatchVars>>
    <3>1. /\ tools' = tools /\ tool_hash' = tool_hash /\ properties' = properties
          /\ faults' = faults /\ handled' = handled /\ heap' = heap /\ faults \in Nat
      BY <2>1 DEF registryVars, dispatchVars, DispatchInv, DispatchTypeOK
    <3> QED
      BY <3>1, IdleKeepsDispatch
  <2>2. CASE \E t \in Tools : register_tool(t) \/ register_tool_refused(t) \/ register_tool_gives_up(t)
    BY <2>2, RegisterKeepsDispatch, RefusedKeepsDispatch
  <2> QED
    BY <2>1, <2>2, ParseKeepsDispatch, ReturnKeepsDispatch, EndKeepsDispatch DEF DispatchNext
<1> QED
  BY <1>1, <1>2, PTL DEF DispatchSpec

\* NothingLeaks holds in every state: whatever allocations fail in mcp_server_parse_arguments,
\* mcp_property_list_clone, list_add or mcp_tool_create, every live block belongs to a
\* registered tool or to the arguments of the running callback.
THEOREM DispatchNothingLeaks == DispatchSpec => []NothingLeaks
<1>1. DispatchInv => NothingLeaks
  BY DEF DispatchInv
<1> QED
  BY <1>1, DispatchInvariant, PTL

-----------------------------------------------------------------------------
\* When mcp_property_copy_from_json may refuse a value: it depends on what a copy keeps.
Refusable(p, json) == \/ json.type # p.type
                      \/ p.type = "string"
                      \/ p.type = "integer" /\ ValueInt(json.value) \notin p.min..p.max

\* It refuses only then.
LEMMA RefusedWhy ==
    ASSUME NEW p \in PropertyType, NEW json, IsJson(json),
           NEW c \in mcp_property_copy_from_json(p, json), ~c.ok
    PROVE  Refusable(p, json)
<1> SUFFICES ASSUME json.type = p.type, p.type # "string",
                    p.type = "integer" => ValueInt(json.value) \in p.min..p.max
             PROVE  FALSE
  BY DEF Refusable
<1> DEFINE set(v) == [property |-> Assigned(p, v), ok |-> v # Null,
                      live |-> PropertyBlocks(Assigned(p, v)) - PropertyBlocks(p)]
<1>1. p.type \in {"boolean", "integer"}
  BY DEF PropertyType, Types
<1>2. json.value \in ValuesOf(p.type) /\ \A v : set(v).ok = (v # Null)
  BY <1>1 DEF IsJson, Types
<1>3. CASE p.type = "boolean"
  <2>1. c = set(json.value)
    BY <1>3, Zenon DEF mcp_property_copy_from_json, Assigned
  <2>2. json.value # Null
    BY <1>1, <1>2, PropertyAssumption DEF Types
  <2> HIDE DEF set
  <2> QED
    BY <1>2, <2>1, <2>2
<1>4. CASE p.type = "integer"
  <2>1. c = set(ValueInt(json.value))
    BY <1>4 DEF mcp_property_copy_from_json, Assigned
  <2>2. ValueInt(json.value) # Null
    <3>1. json.value \in Int
      BY <1>2, <1>4 DEF ValuesOf
    <3>2. ValueInt(json.value) \in Int
      BY <3>1, PropertyAssumption DEF ValueInt, IntMin
    <3>3. Null \notin Int
      <4>1. ValuesOf("integer") = Int /\ "integer" \in Types
        BY DEF ValuesOf, Types
      <4> QED
        BY <4>1, PropertyAssumption
    <3> QED
      BY <3>2, <3>3
  <2> HIDE DEF set
  <2> QED
    BY <1>2, <2>1, <2>2
<1> QED
  BY <1>1, <1>3, <1>4

\* And then it may.
LEMMA RefusedThen ==
    ASSUME NEW p \in PropertyType, NEW json, Refusable(p, json)
    PROVE  \E c \in mcp_property_copy_from_json(p, json) : ~c.ok
<1> DEFINE refused == [property |-> p, ok |-> FALSE, live |-> 0]
           lost == [property |-> Assigned(p, Null), ok |-> Null # Null,
                    live |-> PropertyBlocks(Assigned(p, Null)) - PropertyBlocks(p)]
<1>1. ~refused.ok /\ ~lost.ok
  OBVIOUS
<1>2. CASE json.type # p.type
  <2>1. refused \in mcp_property_copy_from_json(p, json)
    BY <1>2 DEF mcp_property_copy_from_json
  <2> HIDE DEF refused
  <2> QED
    BY <1>1, <2>1
<1>3. CASE json.type = p.type /\ p.type = "string"
  <2>1. lost \in mcp_property_copy_from_json(p, json)
    BY <1>3 DEF mcp_property_copy_from_json, Assigned
  <2> HIDE DEF lost
  <2> QED
    BY <1>1, <2>1
<1>4. CASE json.type = p.type /\ p.type = "integer" /\ ValueInt(json.value) \notin p.min..p.max
  <2>1. refused \in mcp_property_copy_from_json(p, json)
    BY <1>4 DEF mcp_property_copy_from_json
  <2> HIDE DEF refused
  <2> QED
    BY <1>1, <2>1
<1> QED
  BY <1>2, <1>3, <1>4 DEF Refusable

\* valueint of a number without a fraction that an int can hold is that number.
LEMMA ValueIntExact ==
    ASSUME NEW tenths \in Int, tenths % 10 = 0, tenths \div 10 \in IntMin..IntMax
    PROVE  ValueInt(tenths) = tenths \div 10
<1>1. tenths < 0 => -((-tenths) \div 10) = tenths \div 10
  OBVIOUS
<1>2. IntMax \in Int /\ IntMin \in Int
  BY PropertyAssumption DEF IntMin
<1> QED
  BY <1>1, <1>2 DEF ValueInt

\* What mcp_property_list_get finds: the value of the first property of that name.
NamedAt(items, name) == {i \in 1..Len(items) : items[i].name # Null /\ items[i].name = name}

\* It finds nothing only where there is nothing of that name.
LEMMA GetFinds ==
    ASSUME NEW l, NEW name, NEW type
    PROVE  \/ NamedAt(l.items, name) = {} /\ mcp_property_list_get(l, name, type) = Missing
           \/ \E i \in NamedAt(l.items, name) :
                 mcp_property_list_get(l, name, type) =
                    IF l.items[i].type # type THEN Missing ELSE l.items[i].value
<1> DEFINE g == NamedAt(l.items, name)
           at == SelectInSeq(l.items, LAMBDA p : p.name # Null /\ p.name = name)
<1>1. at = IF g # {} THEN Min(g) ELSE 0
  BY Zenon DEF SelectInSeq, NamedAt
<1>2. mcp_property_list_get(l, name, type) =
         IF at = 0 \/ l.items[at].type # type THEN Missing ELSE l.items[at].value
  BY Zenon DEF mcp_property_list_get
<1> HIDE DEF at
<1>3. CASE g = {}
  BY <1>1, <1>2, <1>3
<1>4. CASE g # {}
  <2>1. g \subseteq Nat /\ 0 \notin g
    BY DEF NamedAt
  <2> HIDE DEF g
  <2>2. \E i \in g : \A j \in g : i <= j
    BY <1>4, <2>1, LeastNumber
  <2>3. Min(g) \in g
    BY <2>2, Zenon DEF Min
  <2>4. at = Min(g) /\ at # 0
    BY <1>1, <1>4, <2>1, <2>3
  <2>5. mcp_property_list_get(l, name, type) =
           IF l.items[Min(g)].type # type THEN Missing ELSE l.items[Min(g)].value
    BY <1>2, <2>4
  <2> USE DEF g
  <2> QED
    BY <2>3, <2>5
<1> QED
  BY <1>3, <1>4

\* What an attempt says of each property: it was made of a copy of the declared one.
FromDeclared(o, m, t, k) ==
    \E p \in PropertyType : /\ CopyOf(p, Schema[t][k]) /\ o.items[k].name = p.name
                            /\ o.ok => Takes(o.items[k], p, m.arguments)
CulpritOf(o, m, t, k) ==
    \E p \in PropertyType : /\ CopyOf(p, Schema[t][k]) /\ o.items[k].name = p.name
                            /\ o.error_property = p.name
                            /\ Refuses(o.items[k], p, m.arguments)

\* An attempt has all the properties that its tool declared, or none; and when it failed,
\* one of them is to blame.
LEMMA AttemptItems ==
    ASSUME DispatchInv, NEW m \in Messages, NEW o, Attempt(o, m)
    PROVE  \E t \in Range(tools) :
              /\ t = mcp_server_find_tool_by_hash(m.name) /\ t \in Tools /\ NameOf[t] = m.name
              /\ IsArguments(m.arguments)
              /\ faults = 0 => properties[t].items = Schema[t]
              /\ faults = 0 => /\ Len(o.items) = Len(Schema[t])
                               /\ \A k \in 1..Len(Schema[t]) :
                                     /\ o.items[k].name = Schema[t][k].name
                                     /\ o.items[k].value # Null
              /\ Len(o.items) \in {0, Len(Schema[t])}
              /\ \A k \in 1..Len(o.items) : FromDeclared(o, m, t, k)
              /\ ~o.ok => \E k \in 1..Len(o.items) : CulpritOf(o, m, t, k)
<1>1. PICK t : t = mcp_server_find_tool_by_hash(m.name)
  OBVIOUS
<1>2. TableOK /\ properties \in [Tools -> ListType] /\ m.name \in Names
  BY DispatchAssumption DEF DispatchInv, DispatchTypeOK, Attempt
<1>3. t \in Range(tools) /\ t \in Tools /\ NameOf[t] = m.name /\ Offered(t)
  BY <1>1, <1>2, FoundIsRegistered DEF DispatchInv, Attempt
<1>4. IsArguments(m.arguments)
  BY DispatchAssumption DEF IsArguments, Attempt
<1>5. /\ Parsed(o, properties[t], m.arguments)
      /\ faults = 0 => /\ Len(o.items) = Len(Schema[t])
                       /\ \A k \in 1..Len(Schema[t]) : /\ o.items[k].name = Schema[t][k].name
                                                       /\ o.items[k].value # Null
  BY <1>1 DEF Attempt
<1>6. PICK list \in ListType : /\ Reached(o, list, m.arguments, Len(list.items))
                               /\ \/ Copied(list.items, properties[t].items, Len(properties[t].items))
                                  \/ list.items = <<>>
  BY <1>5 DEF Parsed
<1>7. Copied(list.items, Schema[t], Len(Schema[t])) \/ list.items = <<>>
  <2>1. CASE properties[t].items = <<>>
    <3>1. list.items \in Seq(PropertyType)
      BY DEF ListType
    <3>2. Len(properties[t].items) = 0
      BY <2>1
    <3>3. Copied(list.items, properties[t].items, Len(properties[t].items)) => Len(list.items) = 0
      BY <3>2 DEF Copied
    <3> QED
      BY <1>6, <3>1, <3>3, EmptySeq
  <2>2. CASE Copied(properties[t].items, Schema[t], Len(Schema[t]))
    <3>1. Len(Schema[t]) \in Nat
      BY <1>3, SchemaTypes
    <3> QED
      BY <1>6, <2>2, <3>1, CopiedTwice
  <2> QED
    BY <1>3, <2>1, <2>2 DEF Offered
<1>8. /\ Len(o.items) = Len(list.items)
      /\ \A k \in 1..Len(list.items) : o.items[k].name = list.items[k].name
      /\ o.ok => \A k \in 1..Len(list.items) : Takes(o.items[k], list.items[k], m.arguments)
      /\ ~o.ok => \E k \in 1..Len(list.items) :
                      /\ o.error_property = list.items[k].name
                      /\ Refuses(o.items[k], list.items[k], m.arguments)
  BY <1>6 DEF Reached
<1>9. Len(list.items) \in {0, Len(Schema[t])}
  BY <1>7, EmptySeq DEF Copied
<1>10. \A k \in 1..Len(list.items) : list.items[k] \in PropertyType /\ CopyOf(list.items[k], Schema[t][k])
  <2> SUFFICES ASSUME NEW k \in 1..Len(list.items)
               PROVE  list.items[k] \in PropertyType /\ CopyOf(list.items[k], Schema[t][k])
    OBVIOUS
  <2>1. list.items[k] \in PropertyType
    BY ElementOfSeq DEF ListType
  <2>2. list.items # <<>>
    BY EmptySeq
  <2> QED
    BY <1>7, <2>1, <2>2 DEF Copied
<1>11. \A k \in 1..Len(o.items) : FromDeclared(o, m, t, k)
  BY <1>8, <1>10 DEF FromDeclared
<1>12. ~o.ok => \E k \in 1..Len(o.items) : CulpritOf(o, m, t, k)
  BY <1>8, <1>10 DEF CulpritOf
<1> QED
  BY <1>1, <1>3, <1>4, <1>5, <1>8, <1>9, <1>11, <1>12 DEF Offered

\* What ErrorNamesCulprit says of one reply.
NamesCulprit(error, m) ==
    /\ error = Null => faults > 0
    /\ error \in Keys =>
         \E t \in Range(tools) : \E p \in Range(Schema[t]) :
            LET json == cJSON_GetObjectItem(m.arguments, p.name)
            IN  /\ NameOf[t] = m.name /\ p.name = error
                /\ IF json = Missing THEN p.value = Missing
                   ELSE \E c \in mcp_property_copy_from_json(p, json) : ~c.ok
                /\ json # Missing /\ json.type = "string" /\ p.type = "string" => faults > 0

\* ErrorNamesCulprit holds in every state: an argument error is that of a failed attempt,
\* and the copy that was refused has the type, range and default that were declared.
THEOREM DispatchErrorNamesCulprit == DispatchSpec => []ErrorNamesCulprit
<1>1. DispatchInv => ErrorNamesCulprit
  <2> SUFFICES ASSUME DispatchInv, handled # Idle, NEW i \in DOMAIN handled.replies
               PROVE  NamesCulprit(handled.replies[i].error, handled.message)
    BY Zenon DEF ErrorNamesCulprit, NamesCulprit
  <2>a. PICK error : error = handled.replies[i].error
    OBVIOUS
  <2>b. PICK m : m = handled.message
    OBVIOUS
  <2>1. m \in Messages /\ ReplyFrom(error, m) /\ faults \in Nat
    BY <2>a, <2>b DEF DispatchInv, DispatchTypeOK, HandledFrom, HandledStage
  <2>2. CASE error \in FixedErrors \cup {Missing}
    <3>1. error # Null /\ error \notin Keys
      BY <2>2, DispatchAssumption, PropertyAssumption
    <3> QED
      BY <3>1, <2>a, <2>b DEF NamesCulprit
  <2>3. CASE \E o : ~o.ok /\ error = o.error_property /\ Attempt(o, m)
    <3>1. PICK o : ~o.ok /\ error = o.error_property /\ Attempt(o, m)
      BY <2>3
    <3>2. PICK t \in Range(tools) :
              /\ t = mcp_server_find_tool_by_hash(m.name) /\ t \in Tools /\ NameOf[t] = m.name
              /\ IsArguments(m.arguments)
              /\ faults = 0 => /\ Len(o.items) = Len(Schema[t])
                               /\ \A k \in 1..Len(Schema[t]) :
                                     /\ o.items[k].name = Schema[t][k].name
                                     /\ o.items[k].value # Null
              /\ Len(o.items) \in {0, Len(Schema[t])}
              /\ \E k \in 1..Len(o.items) : CulpritOf(o, m, t, k)
      BY <2>1, <3>1, AttemptItems
    <3>3. PICK k \in 1..Len(o.items) : CulpritOf(o, m, t, k)
      BY <3>2
    <3>4. PICK p \in PropertyType : /\ CopyOf(p, Schema[t][k]) /\ o.items[k].name = p.name
                                    /\ o.error_property = p.name
                                    /\ Refuses(o.items[k], p, m.arguments)
      BY <3>3 DEF CulpritOf
    <3>5. /\ k \in 1..Len(Schema[t]) /\ Schema[t][k] \in PropertyType
          /\ Schema[t][k] \in Range(Schema[t])
          /\ Schema[t][k].name \in Keys /\ Schema[t][k].value # Null
      <4>1. k \in 1..Len(Schema[t])
        BY <3>2
      <4>2. Schema[t] \in Seq(PropertyType) /\ DOMAIN Schema[t] = 1..Len(Schema[t])
        BY <3>2, SchemaTypes
      <4>3. Schema[t][k] \in PropertyType /\ Schema[t][k] \in Range(Schema[t])
        BY <4>1, <4>2, ElementOfSeq DEF Range
      <4> QED
        BY <3>2, <4>1, <4>3, SchemaTypes
    <3>6. PICK s : s = Schema[t][k]
      OBVIOUS
    <3>7. Null \notin Keys /\ Missing # Null
      BY PropertyAssumption
    <3>8. error = p.name /\ p.name \in {s.name, Null}
      BY <3>1, <3>4, <3>6 DEF CopyOf
    <3>9. error = Null => faults > 0
      <4>1. faults = 0 => o.items[k].name = s.name
        BY <3>2, <3>5, <3>6
      <4> QED
        BY <2>1, <3>4, <3>5, <3>6, <3>7, <3>8, <4>1
    <3>10. ASSUME error \in Keys
           PROVE  LET json == cJSON_GetObjectItem(m.arguments, s.name)
                  IN  /\ s.name = error
                      /\ IF json = Missing THEN s.value = Missing
                         ELSE \E c \in mcp_property_copy_from_json(s, json) : ~c.ok
                      /\ json # Missing /\ json.type = "string" /\ s.type = "string" => faults > 0
      <4>1. s.name = error /\ p.name = s.name
        BY <3>7, <3>8, <3>10
      <4>2. PICK json : json = cJSON_GetObjectItem(m.arguments, s.name)
        OBVIOUS
      <4>3. CASE json = Missing
        <5>1. p.value = Missing
          BY <3>4, <4>1, <4>2, <4>3 DEF Refuses
        <5>2. s.value = Missing
          BY <3>4, <3>6, <3>7, <5>1 DEF CopyOf
        <5> QED
          BY <4>1, <4>2, <4>3, <5>2
      <4>4. CASE json # Missing
        <5>1. PICK c \in mcp_property_copy_from_json(p, json) : ~c.ok /\ o.items[k] = c.property
          BY <3>4, <4>1, <4>2, <4>4 DEF Refuses
        <5>2. IsJson(json)
          BY <3>2, <4>2, <4>4, LookupIsJson
        <5>3. Refusable(p, json)
          BY <5>1, <5>2, RefusedWhy
        <5>4. p.type = s.type /\ p.min = s.min /\ p.max = s.max
          BY <3>4, <3>6 DEF CopyOf
        <5>5. \E d \in mcp_property_copy_from_json(s, json) : ~d.ok
          <6>1. Refusable(s, json)
            BY <5>3, <5>4 DEF Refusable
          <6> QED
            BY <3>5, <3>6, <6>1, RefusedThen
        <5>6. ASSUME json.type = "string", s.type = "string"
              PROVE  faults > 0
          <6>1. o.items[k].value = Null
            BY <5>1, <5>2, <5>4, <5>6, CopyFromJson
          <6>2. faults # 0
            BY <3>2, <3>5, <6>1
          <6> QED
            BY <2>1, <6>2
        <5> QED
          BY <4>1, <4>2, <4>4, <5>5, <5>6
      <4> QED
        BY <4>3, <4>4
    <3> QED
      BY <2>a, <2>b, <3>2, <3>5, <3>6, <3>9, <3>10, Zenon DEF NamesCulprit
  <2> QED
    BY <2>1, <2>2, <2>3 DEF ReplyFrom
<1> QED
  BY <1>1, DispatchInvariant, PTL

\* CallConforms holds in every state: whatever arguments a callback was called with, and
\* whatever a clone has lost, what it asks for by name and type is what it may rely on.
THEOREM DispatchCallConforms == DispatchSpec => []CallConforms
<1>1. DispatchInv => CallConforms
  <2> SUFFICES ASSUME DispatchInv, handled # Idle, NEW i \in DOMAIN handled.calls,
                      NEW call, call = handled.calls[i],
                      NEW s \in Range(Schema[call.tool]),
                      NEW m, m = handled.message,
                      NEW value, value = mcp_property_list_get(call.list, s.name, s.type)
               PROVE  IF value \in {Missing, Null} THEN faults > 0
                      ELSE Conforms(s, m.arguments, value)
    BY Zenon DEF CallConforms
  <2>1. m \in Messages /\ AttemptedCall(call, m) /\ faults \in Nat
    BY DEF DispatchInv, DispatchTypeOK, HandledFrom, HandledStage
  <2>2. PICK o : o = call.list
    OBVIOUS
  <2>3. PICK t \in Range(tools) :
              /\ t = mcp_server_find_tool_by_hash(m.name) /\ t \in Tools
              /\ IsArguments(m.arguments)
              /\ faults = 0 => /\ Len(o.items) = Len(Schema[t])
                               /\ \A k \in 1..Len(Schema[t]) :
                                     /\ o.items[k].name = Schema[t][k].name
                                     /\ o.items[k].value # Null
              /\ Len(o.items) \in {0, Len(Schema[t])}
              /\ \A k \in 1..Len(o.items) : FromDeclared(o, m, t, k)
    <3>1. Attempt(o, m)
      BY <2>1, <2>2 DEF AttemptedCall
    <3> QED
      BY <2>1, <3>1, AttemptItems, SMTT(30)
  <2>4. call.tool = t /\ o.ok
    BY <2>1, <2>2, <2>3 DEF AttemptedCall
  <2>5. /\ Len(Schema[t]) \in Nat /\ Schema[t] \in Seq(PropertyType)
        /\ DOMAIN Schema[t] = 1..Len(Schema[t])
        /\ \A a, b \in 1..Len(Schema[t]) : Schema[t][a].name = Schema[t][b].name => a = b
    BY <2>3, SchemaTypes
  <2>6. PICK k \in 1..Len(Schema[t]) : s = Schema[t][k]
    BY <2>4, <2>5 DEF Range
  <2>7. /\ s \in PropertyType /\ s.name \in Keys /\ s.value # Null
        /\ s.type \in Types /\ s.min \in Int /\ s.max \in Int
    <3>1. s \in PropertyType
      BY <2>5, <2>6, ElementOfSeq
    <3> QED
      BY <2>3, <2>6, <3>1, SchemaTypes DEF PropertyType
  <2>8. Null \notin Keys /\ Missing # Null
    BY PropertyAssumption
  <2>9. CASE NamedAt(o.items, s.name) = {} /\ value = Missing
    <3>1. faults = 0 => k \in NamedAt(o.items, s.name)
      BY <2>3, <2>6, <2>7, <2>8 DEF NamedAt
    <3> QED
      BY <2>1, <2>9, <3>1
  <2>10. CASE \E j \in NamedAt(o.items, s.name) :
                 value = IF o.items[j].type # s.type THEN Missing ELSE o.items[j].value
    <3>1. PICK j \in 1..Len(o.items) : /\ o.items[j].name = s.name
                                       /\ value = IF o.items[j].type # s.type THEN Missing
                                                  ELSE o.items[j].value
      BY <2>10 DEF NamedAt
    <3>2. j \in 1..Len(Schema[t]) /\ FromDeclared(o, m, t, j)
      BY <2>3, <3>1
    <3>3. PICK p \in PropertyType : /\ CopyOf(p, Schema[t][j]) /\ o.items[j].name = p.name
                                    /\ Takes(o.items[j], p, m.arguments)
      BY <2>4, <3>2 DEF FromDeclared
    <3>4. j = k /\ p.name = s.name /\ CopyOf(p, s)
      <4>1. p.name = s.name /\ p.name # Null
        BY <2>7, <2>8, <3>1, <3>3
      <4>2. Schema[t][j].name = p.name
        BY <3>3, <4>1 DEF CopyOf
      <4>3. j = k
        BY <2>5, <2>6, <3>2, <4>1, <4>2
      <4> QED
        BY <2>6, <3>3, <4>1, <4>3
    <3>5. PICK x : x = o.items[j]
      OBVIOUS
    <3>6. x.value = Null => faults > 0
      <4>1. x = o.items[k]
        BY <3>4, <3>5
      <4>2. faults = 0 => o.items[k].value # Null
        BY <2>3
      <4> QED
        BY <2>1, <4>1, <4>2
    <3>7. PICK json : json = cJSON_GetObjectItem(m.arguments, s.name)
      OBVIOUS
    <3>8. CASE json = Missing
      <4>1. p.value # Missing /\ x = p
        BY <3>3, <3>4, <3>5, <3>7, <3>8 DEF Takes
      <4>2. value = p.value /\ p.value \in {s.value, Null}
        BY <3>1, <3>4, <3>5, <4>1 DEF CopyOf
      <4>3. Given(m.arguments, s.name) = {}
        BY <2>3, <3>7, <3>8, LookupIsJson
      <4>4. ASSUME value # Null
            PROVE  Conforms(s, m.arguments, value)
        <5>1. {a \in DOMAIN m.arguments : Fold[m.arguments[a].key] = Fold[s.name]} = {}
          BY <2>3, <2>7, <2>8, <4>3, LenProperties DEF Given, IsArguments
        <5>2. s.value # Missing /\ value = s.value
          BY <4>1, <4>2, <4>4
        <5> QED
          BY <5>1, <5>2 DEF Conforms
      <4> QED
        BY <3>6, <4>1, <4>2, <4>4
    <3>9. CASE json # Missing
      <4>1. PICK c \in mcp_property_copy_from_json(p, json) : c.ok /\ x = c.property
        BY <3>3, <3>4, <3>5, <3>7, <3>9 DEF Takes
      <4>2. IsJson(json)
        BY <2>3, <3>7, <3>9, LookupIsJson
      <4>3. PICK v \in ValuesOf(p.type) :
               /\ json.type = p.type /\ c.property = Assigned(p, v)
               /\ IF p.type = "integer" THEN v = ValueInt(json.value) /\ v \in p.min..p.max
                  ELSE v = json.value
        BY <4>1, <4>2, CopyFromJson
      <4>4. p.type = s.type /\ p.min = s.min /\ p.max = s.max
        BY <3>4 DEF CopyOf
      <4>5. x.type = s.type /\ x.value = v
        BY <4>1, <4>3, <4>4 DEF Assigned, PropertyType
      <4>6. value = v
        BY <3>1, <3>5, <4>5
      <4>7. value \notin {Missing, Null}
        BY <2>7, <4>3, <4>4, <4>6, PropertyAssumption
      <4>8. Conforms(s, m.arguments, value)
        <5>1. PICK a \in Given(m.arguments, s.name) : json = m.arguments[a].value
          BY <3>7, <3>9, LookupFinds
        <5>2. a \in DOMAIN m.arguments /\ Fold[m.arguments[a].key] = Fold[s.name]
          BY <2>3, <5>1, LenProperties DEF Given, IsArguments
        <5>3. json.type = s.type
          BY <4>3, <4>4
        <5>4. IF s.type = "integer"
              THEN IntOf(value, json.value) /\ s.min <= value /\ value <= s.max
              ELSE value = json.value
          <6>1. CASE s.type = "integer"
            <7>1. json.value \in Int
              BY <2>7, <4>2, <5>3, <6>1 DEF IsJson, ValuesOf
            <7>2. value = ValueInt(json.value) /\ value \in s.min..s.max
              BY <4>3, <4>4, <4>6, <6>1
            <7> QED
              BY <2>7, <6>1, <7>1, <7>2, ValueIntIsIntOf
          <6>2. CASE s.type # "integer"
            BY <4>3, <4>4, <4>6, <6>2
          <6> QED
            BY <6>1, <6>2
        <5> QED
          BY <5>1, <5>2, <5>3, <5>4, Zenon DEF Conforms
      <4> QED
        BY <4>7, <4>8
    <3> QED
      BY <3>8, <3>9
  <2> QED
    BY <2>2, <2>9, <2>10, GetFinds
<1> QED
  BY <1>1, DispatchInvariant, PTL

\* What is wrong with the argument of a property when no allocation has failed.
Blamed(p, json) == IF json = Missing THEN p.value = Missing
                   ELSE Refusable(p, json) /\ ~(p.type = "string" /\ json.type = "string")

\* Arguments that satisfy a published schema are not to blame: no property that was declared
\* is missing or refused.
LEMMA SatisfiedAccepts ==
    ASSUME NEW t \in Tools, NEW l, l.items = Schema[t],
           NEW arguments, IsArguments(arguments), Satisfies(arguments, mcp_tool_to_json(l)),
           NEW k \in 1..Len(Schema[t]), NEW p \in PropertyType, p = Schema[t][k],
           NEW json, json = cJSON_GetObjectItem(arguments, p.name),
           Blamed(p, json)
    PROVE  FALSE
<1>1. /\ Schema[t] \in Seq(PropertyType) /\ DOMAIN Schema[t] = 1..Len(Schema[t])
      /\ \A j \in 1..Len(Schema[t]) : Schema[t][j].name \in Keys
  BY SchemaTypes
<1>2. Null \notin Keys /\ Missing # Null
  BY PropertyAssumption
<1>3. p \in Range(Schema[t]) /\ p.name \in Keys /\ p.name # Null /\ IsProperty(p)
  <2>1. p \in Range(Schema[t]) /\ p.name \in Keys
    BY <1>1 DEF Range
  <2> QED
    BY <1>2, <2>1, DispatchAssumption DEF Declarable
<1>4. DOMAIN arguments = 1..Len(arguments)
  BY LenProperties DEF IsArguments
<1>5. PICK schema : schema = mcp_tool_to_json(l)
  OBVIOUS
<1>6. p \in schema.offered /\ (p.value = Missing => p.name \in schema.required)
  BY <1>3, <1>5 DEF mcp_tool_to_json
<1>7. /\ \A i \in DOMAIN arguments : \A q \in schema.offered :
            Fold[arguments[i].key] = Fold[q.name] => arguments[i].key = q.name
      /\ schema.required \subseteq {arguments[i].key : i \in DOMAIN arguments}
      /\ \A i \in DOMAIN arguments : \A q \in schema.offered : q.name = arguments[i].key =>
            /\ arguments[i].value.type = q.type
            /\ q.type = "integer" => /\ arguments[i].value.value % 10 = 0
                                     /\ arguments[i].value.value \div 10 \in q.min..q.max
  BY <1>5 DEF Satisfies
<1>9. CASE json = Missing
  <2>1. p.name \in schema.required
    BY <1>6, <1>9 DEF Blamed
  <2>2. PICK i \in DOMAIN arguments : arguments[i].key = p.name
    BY <1>7, <2>1
  <2>3. i \in Given(arguments, p.name)
    BY <1>3, <1>4, <2>2 DEF Given
  <2> QED
    BY <1>9, <2>3, LookupIsJson
<1>10. CASE json # Missing
  <2>1. PICK i \in Given(arguments, p.name) : json = arguments[i].value
    BY <1>10, LookupFinds
  <2>2. i \in DOMAIN arguments /\ arguments[i].key = p.name
    BY <1>4, <1>6, <1>7, <2>1 DEF Given
  <2>3. json.type = p.type
    BY <1>6, <1>7, <2>1, <2>2
  <2>4. IsJson(json)
    BY <1>10, LookupIsJson
  <2>6. Refusable(p, json)
    BY <1>10 DEF Blamed
  <2>7. p.type # "string"
    BY <1>10, <2>3 DEF Blamed
  <2>8. p.type # "integer"
    <3> SUFFICES ASSUME p.type = "integer" PROVE FALSE
      OBVIOUS
    <3>1. PICK tenths : tenths = json.value
      OBVIOUS
    <3>2. tenths \in Int
      BY <2>3, <2>4, <3>1 DEF IsJson, ValuesOf, Types
    <3>3. tenths % 10 = 0 /\ tenths \div 10 \in p.min..p.max
      BY <1>6, <1>7, <2>1, <2>2, <3>1
    <3>4. tenths \div 10 \in IntMin..IntMax
      <4>1. p.min \in IntMin..IntMax /\ p.max \in IntMin..IntMax /\ IntMin \in Int /\ IntMax \in Int
        BY <1>3, PropertyAssumption DEF IsProperty, IntMin
      <4>2. tenths \div 10 \in Int
        BY <3>2
      <4> QED
        BY <3>3, <4>1, <4>2
    <3>5. ValueInt(tenths) \in p.min..p.max
      BY <3>2, <3>3, <3>4, ValueIntExact
    <3> QED
      BY <2>3, <2>6, <2>7, <3>1, <3>5 DEF Refusable
  <2> QED
    BY <2>3, <2>6, <2>7, <2>8 DEF Refusable
<1> QED
  BY <1>9, <1>10

\* AcceptsWhatItPublishes holds in every state: while no allocation has failed, the parser
\* of arguments and the schema that tools/list publishes agree.
THEOREM DispatchAcceptsWhatItPublishes == DispatchSpec => []AcceptsWhatItPublishes
<1>1. DispatchInv => AcceptsWhatItPublishes
  <2> SUFFICES ASSUME DispatchInv, handled # Idle, NEW i \in DOMAIN handled.replies,
                      handled.replies[i].error \in Keys \cup {Null}, faults = 0,
                      Satisfies(handled.message.arguments,
                                mcp_tool_to_json(properties[mcp_server_find_tool_by_hash(handled.message.name)]))
               PROVE  FALSE
    BY Zenon DEF AcceptsWhatItPublishes
  <2>1. PICK error : error = handled.replies[i].error
    OBVIOUS
  <2>2. PICK m : m = handled.message
    OBVIOUS
  <2>3. m \in Messages /\ ReplyFrom(error, m)
    BY <2>1, <2>2 DEF DispatchInv, HandledFrom, HandledStage
  <2>4. error \notin FixedErrors \cup {Missing}
    <3>1. error \in Keys \cup {Null}
      BY <2>1
    <3> QED
      BY <3>1, DispatchAssumption, PropertyAssumption
  <2>5. PICK o : ~o.ok /\ error = o.error_property /\ Attempt(o, m)
    BY <2>3, <2>4 DEF ReplyFrom
  <2>6. PICK t \in Range(tools) :
              /\ t = mcp_server_find_tool_by_hash(m.name) /\ t \in Tools
              /\ IsArguments(m.arguments)
              /\ properties[t].items = Schema[t]
              /\ Len(o.items) = Len(Schema[t])
              /\ \A k \in 1..Len(Schema[t]) :
                    o.items[k].name = Schema[t][k].name /\ o.items[k].value # Null
              /\ \E k \in 1..Len(o.items) : CulpritOf(o, m, t, k)
    BY <2>3, <2>5, AttemptItems
  <2>7. PICK k \in 1..Len(Schema[t]) : CulpritOf(o, m, t, k)
    BY <2>6
  <2>8. PICK p \in PropertyType : /\ CopyOf(p, Schema[t][k]) /\ o.items[k].name = p.name
                                  /\ Refuses(o.items[k], p, m.arguments)
    BY <2>7 DEF CulpritOf
  <2>9. PICK s : s = Schema[t][k]
    OBVIOUS
  <2>10. s \in PropertyType
    BY <2>6, <2>9, SchemaTypes, ElementOfSeq
  <2>11. PICK json : json = cJSON_GetObjectItem(m.arguments, s.name)
    OBVIOUS
  <2>12. Blamed(s, json)
    <3>1. p.name = s.name /\ o.items[k].value # Null
      BY <2>6, <2>8, <2>9
    <3>3. CASE json = Missing
      <4>1. p.value = Missing /\ Missing # Null
        BY <2>8, <2>11, <3>1, <3>3, PropertyAssumption DEF Refuses
      <4>2. s.value = Missing
        BY <2>8, <2>9, <4>1 DEF CopyOf
      <4> QED
        BY <3>3, <4>2 DEF Blamed
    <3>4. CASE json # Missing
      <4>1. PICK c \in mcp_property_copy_from_json(p, json) : ~c.ok /\ o.items[k] = c.property
        BY <2>8, <2>11, <3>1, <3>4 DEF Refuses
      <4>2. IsJson(json)
        BY <2>6, <2>11, <3>4, LookupIsJson
      <4>3. Refusable(p, json)
        BY <4>1, <4>2, RefusedWhy
      <4>4. p.type = s.type /\ p.min = s.min /\ p.max = s.max
        BY <2>8, <2>9 DEF CopyOf
      <4>5. ~(p.type = "string" /\ json.type = "string")
        BY <3>1, <4>1, <4>2, CopyFromJson
      <4> QED
        BY <3>4, <4>3, <4>4, <4>5 DEF Blamed, Refusable
    <3> QED
      BY <3>3, <3>4
  <2> QED
    BY <2>2, <2>6, <2>7, <2>9, <2>10, <2>11, <2>12, SatisfiedAccepts
<1> QED
  BY <1>1, DispatchInvariant, PTL
=============================================================================
