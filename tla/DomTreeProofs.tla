---------------------------- MODULE DomTreeProofs ----------------------------
(***************************************************************************)
(* The walk of DomTree numbers the blocks so that two comparisons answer   *)
(* dominance, and the scan sorts the edges that run backwards by it, for   *)
(* every graph, every order a depth-first search may publish and the       *)
(* immediate dominators of that graph.                                     *)
(***************************************************************************)
EXTENDS DomTree, FlowGraphTheorems

-----------------------------------------------------------------------------
(* The inductive invariant *)

Listed == Elements(facts.rpo)

Dom(a, b) == Dominates(facts.succs, a, b)

\* dom_children
Kids(up, b) == Ascending({c \in Block : up[c] = b})

\* What the earlier steps of the build have found.
Given ==
    /\ facts.succs \in Adjacency
    /\ SearchOrder(facts.succs, facts.rpo)
    /\ RetreatsClose(facts.succs, facts.rpo)
    /\ ImmediateDominators(facts.succs, facts.rpo, facts.idom)

\* Numbers are handed out upwards, an opening number once only.
Numbers ==
    /\ pre \in [Block -> Nat]
    /\ post \in [Block -> Nat]
    /\ counter \in Nat
    /\ stack \in Seq([block : Block, next : Nat \ {0}])
    /\ pre[Entry] # 0
    /\ \A b \in Block : pre[b] <= counter /\ post[b] <= counter
    /\ \A b \in Block : pre[b] # 0 => b \in Listed
    /\ \A b \in Block : post[b] # 0 => pre[b] # 0 /\ pre[b] < post[b]
    /\ \A a, b \in Block : pre[a] = pre[b] /\ pre[a] # 0 => a = b

\* The stack holds the blocks with an opening and no closing number, each
\* once, and each dominates those above it.
StackOpen ==
    /\ \A b \in Block :
        pre[b] # 0 /\ post[b] = 0 <=> \E i \in DOMAIN stack : stack[i].block = b
    /\ \A i, j \in DOMAIN stack :
        i < j => /\ stack[i].block # stack[j].block
                 /\ Dom(stack[i].block, stack[j].block)

\* A frame's cursor stands after the children that have been numbered.
CursorsSplit ==
    \A i \in DOMAIN stack : \A k \in DOMAIN Kids(facts.idom, stack[i].block) :
        k < stack[i].next <=> pre[Kids(facts.idom, stack[i].block)[k]] # 0

\* All children of a closed block are numbered.
ClosedDone ==
    \A b, c \in Block : post[b] # 0 /\ facts.idom[c] = b => pre[c] # 0

\* A block is opened after what dominates it,
OpenedBelow ==
    \A a, b \in Block : pre[b] # 0 /\ Dom(a, b) => pre[a] # 0 /\ pre[a] <= pre[b]

\* and closed before it;
ClosedAbove ==
    \A a \in Block, b \in Listed :
        post[a] # 0 /\ Dom(a, b) => post[b] # 0 /\ post[b] <= post[a]

\* a block opened before another one dominates it or is closed before it opens.
Apart ==
    \A a, b \in Block :
        pre[a] # 0 /\ pre[a] < pre[b] => Dom(a, b) \/ (post[a] # 0 /\ post[a] < pre[b])

Numbering ==
    /\ Numbers /\ StackOpen /\ CursorsSplit /\ ClosedDone
    /\ OpenedBelow /\ ClosedAbove /\ Apart

\* The edge e stands before place n of the list of the m-th block.
SeenBefore(g, order, m, n, e) ==
    \E i \in DOMAIN order : \E j \in DOMAIN g[order[i]] :
        e = <<order[i], g[order[i]][j]>> /\ (i < m \/ (i = m /\ j < n))

Seen(e) == SeenBefore(facts.succs, facts.rpo, at, edge, e)

\* The scan has sorted the edges it has seen, each once.
Sorted ==
    /\ at \in 1 .. Len(facts.rpo) + 1
    /\ edge \in Nat \ {0}
    /\ back \in Seq(Edges)
    /\ irreducible \in Seq(Edges)
    /\ Elements(back) = {e \in Edges : Seen(e) /\ Dom(e[2], e[1])}
    /\ IsInjective(back)
    /\ Elements(irreducible) =
         {e \in Edges : Seen(e) /\ Retreats(e[1], e[2]) /\ ~Dom(e[2], e[1])}
    /\ stack # <<>> => at = 1 /\ edge = 1 /\ back = <<>> /\ irreducible = <<>>

TreeInv == Given /\ Numbering /\ Sorted

-----------------------------------------------------------------------------
(* The tree of immediate dominators *)

\* The idom of a listed block other than the entry is a listed block before
\* it, other than it, that dominates it.
LEMMA IdomAbove ==
    ASSUME Given, NEW b \in Block, facts.idom[b] # None
    PROVE  /\ b \in Listed /\ b # Entry
           /\ facts.idom[b] \in Listed
           /\ facts.idom[b] # b
           /\ Dom(facts.idom[b], b)
           /\ Pos(facts.rpo, facts.idom[b]) < Pos(facts.rpo, b)
           /\ \A d \in Block \ {b} : Dom(d, b) => Dom(d, facts.idom[b])
<1>1. b \in Listed \ {Entry} /\ facts.idom[b] \in Block
  BY DEF Given, ImmediateDominators, Listed
<1>2. /\ facts.idom[b] # b
      /\ Dom(facts.idom[b], b)
      /\ \A d \in Block \ {b} : Dom(d, b) => Dom(d, facts.idom[b])
  BY <1>1 DEF Given, ImmediateDominators, Listed, Dom
<1> QED
  BY <1>1, <1>2, DominatorEarlier DEF Given, Listed, Dom

\* Only the entry and unlisted blocks have none.
LEMMA IdomGiven ==
    ASSUME Given, NEW b \in Listed, b # Entry
    PROVE  facts.idom[b] # None
<1>1. b \in Block
  BY OrderPlaces DEF Given, Listed
<1> QED
  BY <1>1 DEF Given, ImmediateDominators, Listed

\* Dominance reads through, one way.
LEMMA DomOrder ==
    ASSUME Given
    PROVE  /\ Listed \subseteq Block
           /\ \A a : Dom(a, a)
           /\ \A a, b \in Block : \A c : Dom(a, b) /\ Dom(b, c) => Dom(a, c)
           /\ \A a, b \in Listed : Dom(a, b) /\ Dom(b, a) => a = b
<1>1. Listed \subseteq Block
  BY OrderPlaces DEF Given, Listed
<1>2. \A a : Dom(a, a)
  BY DEF Dom, Dominates
<1>3. \A a, b \in Block : \A c : Dom(a, b) /\ Dom(b, c) => Dom(a, c)
  BY DominatesThrough DEF Dom
<1>4. \A a, b \in Listed : Dom(a, b) /\ Dom(b, a) => a = b
  BY DominatesOneWay DEF Given, Dom, Listed
<1> QED
  BY <1>1, <1>2, <1>3, <1>4

\* Between a block and one it dominates there is a child of the first.
LEMMA ChildBetween ==
    ASSUME Given, NEW a \in Listed, NEW b \in Listed, a # b, Dom(a, b)
    PROVE  \E c \in Listed : facts.idom[c] = a /\ Dom(c, b)
<1> DEFINE S == {c \in Listed \ {a} : Dom(a, c) /\ Dom(c, b)}
<1>1. b \in S
  BY DomOrder
<1>2. PICK c \in S : \A d \in S : Pos(facts.rpo, c) <= Pos(facts.rpo, d)
  <2>1. S \in SUBSET Elements(facts.rpo) /\ S # {}
    BY <1>1 DEF Listed
  <2> QED
    BY <2>1, FirstListed DEF Given
<1>3. c \in Listed /\ c \in Block /\ a \in Block /\ c # a
  BY DomOrder
<1>4. c # Entry
  <2>1. Pos(facts.rpo, a) < Pos(facts.rpo, c)
    BY <1>2, <1>3, DominatorEarlier DEF Given, Dom, Listed
  <2>2. Pos(facts.rpo, Entry) = 1 /\ Pos(facts.rpo, a) \in 1 .. Len(facts.rpo)
    BY OrderPlaces DEF Given, Listed
  <2> QED
    BY <2>1, <2>2
<1>5. facts.idom[c] # None
  BY <1>3, <1>4, IdomGiven
<1> DEFINE i == facts.idom[c]
<1>6. /\ i \in Listed /\ i \in Block /\ Dom(i, c) /\ Dom(a, i)
      /\ Pos(facts.rpo, i) < Pos(facts.rpo, c)
  BY <1>2, <1>3, <1>5, IdomAbove, DomOrder
<1>7. Dom(i, b)
  BY <1>2, <1>3, <1>6, DomOrder
<1>8. Pos(facts.rpo, i) \in Nat /\ Pos(facts.rpo, c) \in Nat
  BY <1>3, <1>6, OrderPlaces DEF Given, Listed
<1>9. i = a
  BY <1>2, <1>6, <1>7, <1>8
<1> QED
  BY <1>2, <1>3, <1>9

\* The list of a block's children.
LEMMA Children ==
    ASSUME Given, NEW b \in Block
    PROVE  /\ DomChildren(b) = Kids(facts.idom, b)
           /\ Kids(facts.idom, b) \in Seq(Block)
           /\ DOMAIN Kids(facts.idom, b) = 1 .. Len(Kids(facts.idom, b))
           /\ Len(Kids(facts.idom, b)) \in Nat
           /\ \A k \in DOMAIN Kids(facts.idom, b) :
                 Kids(facts.idom, b)[k] \in Block /\ facts.idom[Kids(facts.idom, b)[k]] = b
           /\ \A c \in Block : facts.idom[c] = b =>
                 \E k \in DOMAIN Kids(facts.idom, b) : Kids(facts.idom, b)[k] = c
           /\ \A k, l \in DOMAIN Kids(facts.idom, b) :
                 Kids(facts.idom, b)[k] = Kids(facts.idom, b)[l] => k = l
<1> DEFINE S == {c \in Block : facts.idom[c] = b}
           n == Cardinality(S)
<1>1. S \in SUBSET Block
  OBVIOUS
<1>2. \A c : c \in S <=> c \in Block /\ facts.idom[c] = b
  OBVIOUS
<1>3. Kids(facts.idom, b) = Ascending(S)
  BY DEF Kids
<1> HIDE DEF S
<1>4. /\ Ascending(S) \in Seq(S)
      /\ Len(Ascending(S)) = n
      /\ n \in Nat
      /\ \A i \in 1 .. n : Ascending(S)[i] \in S
      /\ \A c \in S : \E i \in 1 .. n : Ascending(S)[i] = c
      /\ \A i, j \in 1 .. n : Ascending(S)[i] = Ascending(S)[j] => i = j
  BY <1>1, AscendingLists
<1>5. DOMAIN Ascending(S) = 1 .. n
  BY <1>4
<1>6. Ascending(S) \in Seq(Block)
  BY <1>1, <1>4
<1>7. DomChildren(b) = Kids(facts.idom, b)
  BY DEF DomChildren, Kids
<1> QED
  BY <1>2, <1>3, <1>4, <1>5, <1>6, <1>7

-----------------------------------------------------------------------------
(* The walk *)

\* The entry is opened first.
LEMMA NumberingBegins ==
    ASSUME Given, Begin
    PROVE  Numbering
<1> USE FlowGraphAssumption DEF Block
<1>1. /\ pre = [b \in Block |-> IF b = Entry THEN 1 ELSE 0]
      /\ post = [b \in Block |-> 0]
      /\ counter = 1
      /\ stack = <<[block |-> Entry, next |-> 1]>>
  BY DEF Begin
<1>2. Entry \in Listed
  BY OrderPlaces DEF Given, Listed
<1>3. /\ DOMAIN stack = {1} /\ stack[1].block = Entry /\ stack[1].next = 1
      /\ stack \in Seq([block : Block, next : Nat \ {0}])
  BY <1>1
<1>4. Numbers
  BY <1>1, <1>2, <1>3 DEF Numbers
<1>5. StackOpen
  BY <1>1, <1>3 DEF StackOpen
<1>6. \A b \in Block \ {Entry} : Dom(b, Entry) => FALSE
  <2> SUFFICES ASSUME NEW b \in Block \ {Entry}, Dom(b, Entry) PROVE FALSE
    OBVIOUS
  <2>1. b \in Listed /\ Pos(facts.rpo, b) < Pos(facts.rpo, Entry)
    BY <1>2, DominatorEarlier DEF Given, Dom, Listed
  <2>2. Pos(facts.rpo, Entry) = 1 /\ Pos(facts.rpo, b) \in 1 .. Len(facts.rpo)
    BY <2>1, OrderPlaces DEF Given, Listed
  <2> QED
    BY <2>1, <2>2
<1>7. CursorsSplit
  <2> SUFFICES ASSUME NEW k \in DOMAIN Kids(facts.idom, Entry)
               PROVE  ~(k < 1) /\ pre[Kids(facts.idom, Entry)[k]] = 0
    BY <1>3 DEF CursorsSplit
  <2>1. k \in Nat \ {0}
    BY Children
  <2>2. Kids(facts.idom, Entry)[k] \in Block /\ facts.idom[Kids(facts.idom, Entry)[k]] = Entry
    BY Children
  <2>3. Kids(facts.idom, Entry)[k] # Entry
    BY <2>2, IdomAbove DEF None
  <2> QED
    BY <1>1, <2>1, <2>2, <2>3
<1>8. ClosedDone /\ ClosedAbove /\ OpenedBelow /\ Apart
  <2>1. Listed \subseteq Block
    BY DomOrder
  <2>2. \A b \in Block : post[b] = 0 /\ pre[b] = IF b = Entry THEN 1 ELSE 0
    BY <1>1
  <2>3. ClosedDone /\ ClosedAbove
    BY <2>1, <2>2 DEF ClosedDone, ClosedAbove
  <2>4. OpenedBelow
    BY <1>6, <2>2 DEF OpenedBelow
  <2>5. Apart
    BY <2>2 DEF Apart
  <2> QED
    BY <2>3, <2>4, <2>5
<1> QED
  BY <1>4, <1>5, <1>7, <1>8 DEF Numbering

\* A child of the top block is opened: it comes after everything open, all of
\* which dominates it, and after everything closed.
LEMMA OpenNumbers ==
    ASSUME Given, Numbering, Open
    PROVE  Numbering'
<1>1. PICK n \in Nat : n = Len(stack)
  BY DEF Numbering, Numbers
<1>2. /\ n # 0 /\ DOMAIN stack = 1 .. n /\ n \in 1 .. n
      /\ stack[n] \in [block : Block, next : Nat \ {0}]
      /\ \A i \in 1 .. n : stack[i] \in [block : Block, next : Nat \ {0}]
  <2>1. stack \in Seq([block : Block, next : Nat \ {0}])
    BY DEF Numbering, Numbers
  <2>2. stack # <<>>
    BY DEF Open
  <2> DEFINE R == [block : Block, next : Nat \ {0}]
  <2> HIDE DEF R
  <2>3. \A s \in Seq(R) : s # <<>> =>
            /\ Len(s) # 0 /\ DOMAIN s = 1 .. Len(s) /\ Len(s) \in 1 .. Len(s)
            /\ \A i \in 1 .. Len(s) : s[i] \in R
    OBVIOUS
  <2>4. stack \in Seq(R)
    BY <2>1 DEF R
  <2>5. /\ n # 0 /\ DOMAIN stack = 1 .. n /\ n \in 1 .. n
        /\ \A i \in 1 .. n : stack[i] \in R
    BY <1>1, <2>2, <2>3, <2>4
  <2> QED
    BY <2>5 DEF R
<1>3. PICK top \in Block : top = stack[n].block
  BY <1>2
<1>4. PICK next \in Nat \ {0} : next = stack[n].next
  BY <1>2
<1>5. /\ next \in DOMAIN Kids(facts.idom, top)
      /\ DOMAIN Kids(facts.idom, top) = 1 .. Len(Kids(facts.idom, top))
  BY <1>1, <1>3, <1>4, Children DEF Open, Top
<1>6. PICK child \in Block : child = Kids(facts.idom, top)[next]
  BY <1>5, Children
<1>7. counter' = counter + 1 /\ post' = post /\ facts' = facts
  BY DEF Open
<1>7a. /\ pre' = [pre EXCEPT ![child] = counter + 1]
       /\ stack' = Append([stack EXCEPT ![n].next = @ + 1], [block |-> child, next |-> 1])
  BY <1>1, <1>3, <1>4, <1>6, Children DEF Open, Top
<1>8. facts.idom[child] = top
  BY <1>5, <1>6, Children
<1>9. facts.idom[child] # None
  BY <1>8, FlowGraphAssumption DEF Block, None
<1>10. /\ child \in Listed /\ child # top /\ Dom(top, child)
       /\ \A d \in Block \ {child} : Dom(d, child) => Dom(d, top)
  BY <1>8, <1>9, IdomAbove
<1>11. pre[child] = 0
  <2>1. ~(next < next)
    OBVIOUS
  <2> QED
    BY <1>2, <1>3, <1>4, <1>5, <1>6, <2>1 DEF Numbering, CursorsSplit
<1>12. /\ counter \in Nat
       /\ pre \in [Block -> Nat] /\ post \in [Block -> Nat]
       /\ \A b \in Block : pre[b] <= counter /\ post[b] <= counter
       /\ post[child] = 0
  BY <1>11 DEF Numbering, Numbers
<1>13. /\ pre' \in [Block -> Nat]
       /\ \A b \in Block : pre'[b] = IF b = child THEN counter + 1 ELSE pre[b]
  BY <1>7a, <1>12
<1>14. /\ DOMAIN stack' = 1 .. n + 1
       /\ \A i \in 1 .. n : stack'[i].block = stack[i].block
       /\ \A i \in 1 .. n : stack'[i].next = IF i = n THEN next + 1 ELSE stack[i].next
       /\ stack'[n + 1].block = child /\ stack'[n + 1].next = 1
       /\ stack' \in Seq([block : Block, next : Nat \ {0}])
  <2> DEFINE rest == [stack EXCEPT ![n].next = @ + 1]
  <2>1. stack \in Seq([block : Block, next : Nat \ {0}])
    BY DEF Numbering, Numbers
  <2>2. /\ rest \in Seq([block : Block, next : Nat \ {0}]) /\ Len(rest) = n
        /\ \A i \in 1 .. n : rest[i].block = stack[i].block
        /\ \A i \in 1 .. n : rest[i].next = IF i = n THEN next + 1 ELSE stack[i].next
    <3>1. rest \in Seq([block : Block, next : Nat \ {0}]) /\ Len(rest) = n
      BY <1>1, <1>2, <1>4, <2>1
    <3>2. \A i \in 1 .. n :
              rest[i] = IF i = n THEN [stack[n] EXCEPT !.next = next + 1] ELSE stack[i]
      BY <1>1, <1>2, <1>4, <2>1
    <3> QED
      BY <1>2, <3>1, <3>2
  <2>3. [block |-> child, next |-> 1] \in [block : Block, next : Nat \ {0}]
    OBVIOUS
  <2>4. stack' = Append(rest, [block |-> child, next |-> 1])
    BY <1>7a
  <2> HIDE DEF rest
  <2>5. /\ DOMAIN stack' = 1 .. n + 1
        /\ stack' \in Seq([block : Block, next : Nat \ {0}])
        /\ \A i \in 1 .. n : stack'[i] = rest[i]
        /\ stack'[n + 1] = [block |-> child, next |-> 1]
    BY <2>2, <2>3, <2>4
  <2> QED
    BY <2>2, <2>5
<1>15. top \in Listed /\ pre[top] # 0 /\ post[top] = 0
  BY <1>2, <1>3 DEF Numbering, Numbers, StackOpen
<1>16. \A i \in 1 .. n : stack[i].block \in Block /\ Dom(stack[i].block, top)
  <2> SUFFICES ASSUME NEW i \in 1 .. n PROVE Dom(stack[i].block, top)
    BY <1>2
  <2>1. CASE i = n
    BY <1>3, <2>1, DomOrder
  <2>2. CASE i < n
    BY <1>2, <1>3, <2>2 DEF Numbering, StackOpen
  <2> QED
    BY <2>1, <2>2
<1>17. \A i \in 1 .. n : Dom(stack[i].block, child)
  BY <1>10, <1>16, DomOrder
<1>18. \A i \in 1 .. n : stack[i].block # child
  BY <1>2, <1>11, <1>12 DEF Numbering, StackOpen
<1>19. 1 .. n + 1 = (1 .. n) \cup {n + 1}
  OBVIOUS
<1>20. Numbers'
  <2>1. \A b \in Block : post[b] # 0 => pre[b] # 0 /\ pre[b] < post[b]
    BY DEF Numbering, Numbers
  <2>2. \A b \in Block : pre[b] # 0 => b \in Listed
    BY DEF Numbering, Numbers
  <2>3. \A a, b \in Block : pre[a] = pre[b] /\ pre[a] # 0 => a = b
    BY DEF Numbering, Numbers
  <2>4. pre[Entry] # 0 /\ Entry # child /\ Entry \in Block
    BY <1>11, FlowGraphAssumption DEF Numbering, Numbers
  <2>5. \A a, b \in Block : pre'[a] = pre'[b] /\ pre'[a] # 0 => a = b
    BY <1>12, <1>13, <2>3
  <2>6. \A b \in Block : post'[b] # 0 => pre'[b] # 0 /\ pre'[b] < post'[b]
    BY <1>7, <1>12, <1>13, <2>1
  <2>7. \A b \in Block : pre'[b] # 0 => b \in Listed
    BY <1>10, <1>13, <2>2
  <2>8. \A b \in Block : pre'[b] <= counter + 1 /\ post[b] <= counter + 1
    BY <1>12, <1>13
  <2>9. Listed' = Listed
    BY <1>7 DEF Listed
  <2> QED
    BY SMTT(30), <1>7, <1>12, <1>13, <1>14, <2>4, <2>5, <2>6, <2>7, <2>8, <2>9 DEF Numbers
<1>21. StackOpen'
  <2>1. ASSUME NEW b \in Block
        PROVE  pre'[b] # 0 /\ post[b] = 0 <=> \E i \in 1 .. n + 1 : stack'[i].block = b
    <3>1. CASE b = child
      BY SMTT(30), <1>12, <1>13, <1>14, <3>1
    <3>2. CASE b # child
      <4>1. pre'[b] = pre[b]
        BY <1>13, <3>2
      <4>2. pre[b] # 0 /\ post[b] = 0 <=> \E i \in 1 .. n : stack[i].block = b
        BY <1>2 DEF Numbering, StackOpen
      <4> QED
        BY <1>14, <1>19, <3>2, <4>1, <4>2
    <3> QED
      BY <3>1, <3>2
  <2>2. ASSUME NEW i \in 1 .. n + 1, NEW j \in 1 .. n + 1, i < j
        PROVE  /\ stack'[i].block # stack'[j].block
               /\ Dom(stack'[i].block, stack'[j].block)
    <3>1. i \in 1 .. n
      BY <2>2
    <3>2. CASE j = n + 1
      BY <1>14, <1>17, <1>18, <3>1, <3>2
    <3>3. CASE j \in 1 .. n
      <4>1. stack[i].block # stack[j].block /\ Dom(stack[i].block, stack[j].block)
        BY <1>2, <2>2, <3>1, <3>3 DEF Numbering, StackOpen
      <4> QED
        BY <1>14, <3>1, <3>3, <4>1
    <3> QED
      BY <1>19, <3>2, <3>3
  <2> QED
    BY <1>7, <1>14, <2>1, <2>2 DEF StackOpen, Dom
<1>22. CursorsSplit'
  <2> SUFFICES ASSUME NEW i \in 1 .. n + 1,
                      NEW k \in DOMAIN Kids(facts.idom, stack'[i].block)
               PROVE  k < stack'[i].next <=>
                          pre'[Kids(facts.idom, stack'[i].block)[k]] # 0
    BY <1>7, <1>14 DEF CursorsSplit
  <2>1. PICK b \in Block : b = stack'[i].block
    BY <1>2, <1>14, <1>19
  <2>2. /\ k \in Nat \ {0} /\ Kids(facts.idom, b)[k] \in Block
        /\ facts.idom[Kids(facts.idom, b)[k]] = b
    BY <2>1, Children
  <2>3. CASE i = n + 1
    <3>1. b = child
      BY <1>14, <2>1, <2>3
    <3>2. Kids(facts.idom, b)[k] # child
      BY <1>8, <1>10, <2>2, <3>1
    <3>3. pre[Kids(facts.idom, b)[k]] = 0
      <4> SUFFICES ASSUME pre[Kids(facts.idom, b)[k]] # 0 PROVE FALSE
        OBVIOUS
      <4>1. Dom(child, Kids(facts.idom, b)[k])
        <5>1. facts.idom[Kids(facts.idom, b)[k]] # None
          BY <2>2, FlowGraphAssumption DEF Block, None
        <5> QED
          BY <2>2, <3>1, <5>1, IdomAbove
      <4>2. pre[child] # 0
        BY <2>2, <4>1 DEF Numbering, OpenedBelow
      <4> QED
        BY <1>11, <4>2
    <3> QED
      BY <1>13, <1>14, <2>1, <2>2, <2>3, <3>2, <3>3
  <2>4. CASE i \in 1 .. n
    <3>1. b = stack[i].block /\ k \in DOMAIN Kids(facts.idom, stack[i].block)
      BY <1>14, <2>1, <2>4
    <3>2. k < stack[i].next <=> pre[Kids(facts.idom, b)[k]] # 0
      BY <1>2, <2>4, <3>1 DEF Numbering, CursorsSplit
    <3>3. CASE i = n
      <4>1. b = top
        BY <1>3, <3>1, <3>3
      <4>2. Kids(facts.idom, b)[k] = child <=> k = next
        BY <1>5, <1>6, <2>1, <4>1, Children
      <4>3. k < next + 1 <=> k < next \/ k = next
        BY <2>2
      <4>4. stack'[i].next = next + 1 /\ stack[i].next = next
        BY <1>4, <1>14, <2>4, <3>3
      <4> QED
        BY <1>12, <1>13, <2>1, <2>2, <3>2, <4>2, <4>3, <4>4
    <3>4. CASE i # n
      <4>1. b # top
        <5>1. i < n
          BY <2>4, <3>4
        <5> QED
          BY <1>2, <1>3, <2>4, <3>1, <5>1 DEF Numbering, StackOpen
      <4>2. Kids(facts.idom, b)[k] # child
        BY <1>8, <2>2, <4>1
      <4> QED
        BY <1>13, <1>14, <2>1, <2>2, <2>4, <3>2, <3>4, <4>2
    <3> QED
      BY <3>3, <3>4
  <2> QED
    BY <1>19, <2>3, <2>4
<1>23. ClosedDone'
  BY <1>7, <1>12, <1>13 DEF Numbering, ClosedDone
<1>24. OpenedBelow'
  <2> SUFFICES ASSUME NEW a \in Block, NEW b \in Block, pre'[b] # 0, Dom(a, b)
               PROVE  pre'[a] # 0 /\ pre'[a] <= pre'[b]
    BY <1>7 DEF OpenedBelow, Dom
  <2>1. CASE b = child /\ a = child
    BY <1>12, <1>13, <2>1
  <2>2. CASE b = child /\ a # child
    <3>1. Dom(a, top)
      BY <1>10, <2>2
    <3>2. pre[a] # 0
      BY <1>15, <3>1 DEF Numbering, OpenedBelow
    <3> QED
      BY <1>12, <1>13, <2>2, <3>2
  <2>3. CASE b # child
    <3>1. pre[b] # 0
      BY <1>13, <2>3
    <3>2. pre[a] # 0 /\ pre[a] <= pre[b]
      BY <3>1 DEF Numbering, OpenedBelow
    <3> QED
      BY <1>11, <1>13, <2>3, <3>2
  <2> QED
    BY <2>1, <2>2, <2>3
<1>25. ClosedAbove'
  BY <1>7 DEF Numbering, ClosedAbove, Dom, Listed
<1>26. Apart'
  <2> SUFFICES ASSUME NEW a \in Block, NEW b \in Block, pre'[a] # 0, pre'[a] < pre'[b]
               PROVE  Dom(a, b) \/ (post[a] # 0 /\ post[a] < pre'[b])
    BY <1>7 DEF Apart, Dom
  <2>1. a # child
    BY <1>12, <1>13
  <2>2. pre'[a] = pre[a] /\ pre[a] # 0
    BY <1>13, <2>1
  <2>3. CASE b = child
    <3>1. CASE post[a] # 0
      BY <1>12, <1>13, <2>3, <3>1
    <3>2. CASE post[a] = 0
      <4>1. \E i \in 1 .. n : stack[i].block = a
        BY <1>2, <2>2, <3>2 DEF Numbering, StackOpen
      <4> QED
        BY <1>17, <2>3, <4>1
    <3> QED
      BY <3>1, <3>2
  <2>4. CASE b # child
    <3>1. pre'[b] = pre[b]
      BY <1>13, <2>4
    <3> QED
      BY <2>2, <3>1 DEF Numbering, Apart
  <2> QED
    BY <2>3, <2>4
<1> QED
  BY <1>20, <1>21, <1>22, <1>23, <1>24, <1>25, <1>26 DEF Numbering

\* The top block is closed when all of its children have been: what it
\* dominates lies under one of them.
LEMMA CloseNumbers ==
    ASSUME Given, Numbering, Close
    PROVE  Numbering'
<1>1. PICK n \in Nat : n = Len(stack)
  BY DEF Numbering, Numbers
<1> DEFINE R == [block : Block, next : Nat \ {0}]
<1>2. /\ n # 0 /\ DOMAIN stack = 1 .. n /\ n \in 1 .. n
      /\ \A i \in 1 .. n : stack[i].block \in Block /\ stack[i].next \in Nat
      /\ stack' \in Seq(R) /\ DOMAIN stack' = 1 .. n - 1
      /\ \A i \in 1 .. n - 1 : stack'[i] = stack[i]
  <2>1. stack \in Seq(R)
    BY DEF Numbering, Numbers
  <2>2. \A r \in R : r.block \in Block /\ r.next \in Nat
    OBVIOUS
  <2>3. stack # <<>> /\ stack' = SubSeq(stack, 1, n - 1)
    BY <1>1 DEF Close
  <2> HIDE DEF R
  <2>4. \A s \in Seq(R) : s # <<>> =>
            /\ Len(s) # 0 /\ DOMAIN s = 1 .. Len(s) /\ Len(s) \in 1 .. Len(s)
            /\ \A i \in 1 .. Len(s) : s[i] \in R
            /\ SubSeq(s, 1, Len(s) - 1) \in Seq(R)
            /\ DOMAIN SubSeq(s, 1, Len(s) - 1) = 1 .. Len(s) - 1
            /\ \A i \in 1 .. Len(s) - 1 : SubSeq(s, 1, Len(s) - 1)[i] = s[i]
    OBVIOUS
  <2> QED
    BY <1>1, <2>1, <2>2, <2>3, <2>4
<1>3. PICK top \in Block : top = stack[n].block
  BY <1>2
<1>4. /\ counter' = counter + 1 /\ pre' = pre /\ facts' = facts
      /\ post' = [post EXCEPT ![top] = counter + 1]
  BY <1>1, <1>3 DEF Close, Top
<1>5. /\ counter \in Nat
      /\ pre \in [Block -> Nat] /\ post \in [Block -> Nat]
      /\ \A b \in Block : pre[b] <= counter /\ post[b] <= counter
      /\ \A b \in Block : pre[b] # 0 => b \in Listed
  BY DEF Numbering, Numbers
<1>6. /\ post' \in [Block -> Nat]
      /\ \A b \in Block : post'[b] = IF b = top THEN counter + 1 ELSE post[b]
  BY <1>4, <1>5
<1>7. pre[top] # 0 /\ post[top] = 0 /\ top \in Listed
  BY <1>2, <1>3, <1>5 DEF Numbering, StackOpen
<1>8. \A b \in Block : pre[b] # 0 /\ post[b] = 0 <=> \E i \in 1 .. n : stack[i].block = b
  BY <1>2 DEF Numbering, StackOpen
<1>9. \A i, j \in 1 .. n :
        i < j => /\ stack[i].block # stack[j].block
                 /\ Dom(stack[i].block, stack[j].block)
  BY <1>2 DEF Numbering, StackOpen
<1>10. \A i \in 1 .. n : i \in 1 .. n - 1 \/ i = n
  OBVIOUS
<1>11. \A i \in 1 .. n - 1 : i \in 1 .. n /\ i < n
  OBVIOUS
<1>12. \A c \in Block : facts.idom[c] = top => pre[c] # 0
  <2> SUFFICES ASSUME NEW c \in Block, facts.idom[c] = top PROVE pre[c] # 0
    OBVIOUS
  <2>1. PICK k \in DOMAIN Kids(facts.idom, top) : Kids(facts.idom, top)[k] = c
    BY Children
  <2>2. /\ DomChildren(top) = Kids(facts.idom, top)
        /\ DOMAIN Kids(facts.idom, top) = 1 .. Len(Kids(facts.idom, top))
        /\ Len(Kids(facts.idom, top)) \in Nat
    BY Children
  <2>3. stack[n].next > Len(Kids(facts.idom, top)) /\ stack[n].next \in Nat
    <3>1. stack[n].next > Len(DomChildren(top))
      BY <1>1, <1>3 DEF Close, Top
    <3> QED
      BY <1>2, <2>2, <3>1
  <2>4. k < stack[n].next
    BY <2>2, <2>3
  <2> QED
    BY <1>2, <1>3, <2>1, <2>4 DEF Numbering, CursorsSplit
<1>13. Numbers'
  <2>1. \A b \in Block : post[b] # 0 => pre[b] # 0 /\ pre[b] < post[b]
    BY DEF Numbering, Numbers
  <2>2. \A b \in Block : post'[b] # 0 => pre[b] # 0 /\ pre[b] < post'[b]
    BY <1>5, <1>6, <1>7, <2>1
  <2>3. \A b \in Block : pre[b] <= counter + 1 /\ post'[b] <= counter + 1
    BY <1>5, <1>6
  <2>4. /\ pre[Entry] # 0
        /\ \A a, b \in Block : pre[a] = pre[b] /\ pre[a] # 0 => a = b
    BY DEF Numbering, Numbers
  <2>5. Listed' = Listed
    BY <1>4 DEF Listed
  <2>6. counter' \in Nat /\ counter' = counter + 1 /\ pre' = pre
    BY <1>4, <1>5
  <2>7. stack' \in Seq([block : Block, next : Nat \ {0}])
    BY <1>2
  <2> QED
    BY <1>5, <1>6, <2>2, <2>3, <2>4, <2>5, <2>6, <2>7 DEF Numbers
<1>14. StackOpen'
  <2>1. ASSUME NEW b \in Block
        PROVE  pre[b] # 0 /\ post'[b] = 0 <=> \E i \in 1 .. n - 1 : stack'[i].block = b
    <3>1. CASE b = top
      <4>1. post'[b] # 0
        BY <1>5, <1>6, <3>1
      <4>2. \A i \in 1 .. n - 1 : stack'[i].block # b
        BY <1>2, <1>3, <1>9, <1>11, <3>1
      <4> QED
        BY <4>1, <4>2
    <3>2. CASE b # top
      BY <1>2, <1>3, <1>6, <1>8, <1>10, <1>11, <3>2
    <3> QED
      BY <3>1, <3>2
  <2>2. \A i, j \in 1 .. n - 1 :
          i < j => /\ stack'[i].block # stack'[j].block
                   /\ Dom(stack'[i].block, stack'[j].block)
    BY <1>2, <1>9, <1>11
  <2> QED
    BY <1>2, <1>4, <2>1, <2>2 DEF StackOpen, Dom
<1>15. CursorsSplit'
  <2>1. \A i \in 1 .. n : \A k \in DOMAIN Kids(facts.idom, stack[i].block) :
            k < stack[i].next <=> pre[Kids(facts.idom, stack[i].block)[k]] # 0
    BY <1>2 DEF Numbering, CursorsSplit
  <2>2. \A i \in 1 .. n - 1 : \A k \in DOMAIN Kids(facts.idom, stack'[i].block) :
            k < stack'[i].next <=> pre[Kids(facts.idom, stack'[i].block)[k]] # 0
    BY <1>2, <1>11, <2>1
  <2> QED
    BY <1>2, <1>4, <2>2 DEF CursorsSplit
<1>16. ClosedDone'
  BY <1>4, <1>6, <1>12 DEF Numbering, ClosedDone
<1>17. OpenedBelow'
  BY <1>4 DEF Numbering, OpenedBelow, Dom
<1>18. ClosedAbove'
  <2> SUFFICES ASSUME NEW a \in Block, NEW b \in Listed, post'[a] # 0, Dom(a, b)
               PROVE  post'[b] # 0 /\ post'[b] <= post'[a]
    BY <1>4 DEF ClosedAbove, Dom, Listed
  <2>1. b \in Block
    BY DomOrder
  <2>2. CASE a # top
    <3>1. post[a] # 0
      BY <1>6, <2>2
    <3>2. post[b] # 0 /\ post[b] <= post[a]
      BY <3>1 DEF Numbering, ClosedAbove
    <3> QED
      BY <1>6, <1>7, <2>1, <2>2, <3>2
  <2>3. CASE a = top /\ b = top
    BY <1>5, <1>6, <2>3
  <2>4. CASE a = top /\ b # top
    <3>1. PICK c \in Listed : facts.idom[c] = top /\ Dom(c, b)
      BY <1>7, <2>4, ChildBetween
    <3>2. c \in Block /\ pre[c] # 0
      BY <1>12, <3>1, DomOrder
    <3>3. c # top /\ Dom(top, c)
      <4>1. facts.idom[c] # None
        BY <3>1, FlowGraphAssumption DEF Block, None
      <4> QED
        BY <3>1, <3>2, <4>1, IdomAbove
    <3>4. post[c] # 0
      <4> SUFFICES ASSUME post[c] = 0 PROVE FALSE
        OBVIOUS
      <4>1. PICK i \in 1 .. n : stack[i].block = c
        BY <1>8, <3>2
      <4>2. i \in 1 .. n - 1
        BY <1>3, <1>10, <3>3, <4>1
      <4>3. Dom(c, top)
        BY <1>2, <1>3, <1>9, <1>11, <4>1, <4>2
      <4> QED
        BY <1>7, <3>3, <4>3, DomOrder
    <3>5. post[b] # 0 /\ post[b] <= post[c]
      BY <3>1, <3>2, <3>4 DEF Numbering, ClosedAbove
    <3> QED
      BY <1>5, <1>6, <2>1, <2>4, <3>2, <3>5
  <2> QED
    BY <2>2, <2>3, <2>4
<1>19. Apart'
  <2> SUFFICES ASSUME NEW a \in Block, NEW b \in Block, pre[a] # 0, pre[a] < pre[b]
               PROVE  Dom(a, b) \/ (post'[a] # 0 /\ post'[a] < pre[b])
    BY <1>4 DEF Apart, Dom
  <2>1. Dom(a, b) \/ (post[a] # 0 /\ post[a] < pre[b])
    BY DEF Numbering, Apart
  <2> QED
    BY <1>6, <1>7, <2>1
<1> QED
  BY <1>13, <1>14, <1>15, <1>16, <1>17, <1>18, <1>19 DEF Numbering

\* When the walk is over, every listed block is numbered twice: an unnumbered
\* one would have a numbered and closed idom.
LEMMA AllNumbered ==
    ASSUME Given, Numbering, stack = <<>>
    PROVE  \A b \in Block : (pre[b] # 0 <=> b \in Listed) /\ (post[b] # 0 <=> b \in Listed)
<1>1. Listed \subseteq Block
  BY DomOrder
<1>2. \A b \in Block : pre[b] # 0 <=> post[b] # 0
  <2>1. DOMAIN stack = {}
    OBVIOUS
  <2>2. \A b \in Block : pre[b] # 0 => post[b] # 0
    BY <2>1 DEF Numbering, Numbers, StackOpen
  <2> QED
    BY <2>2 DEF Numbering, Numbers
<1>3. \A b \in Block : pre[b] # 0 => b \in Listed
  BY DEF Numbering, Numbers
<1> DEFINE S == {b \in Listed : pre[b] = 0}
<1>4. S = {}
  <2> SUFFICES ASSUME S # {} PROVE FALSE
    OBVIOUS
  <2>1. PICK b \in S : \A c \in S : Pos(facts.rpo, b) <= Pos(facts.rpo, c)
    <3>1. S \in SUBSET Elements(facts.rpo)
      BY DEF Listed
    <3> QED
      BY <3>1, FirstListed DEF Given
  <2>2. b \in Listed /\ b \in Block /\ b # Entry
    BY <1>1 DEF Numbering, Numbers
  <2>3. facts.idom[b] # None
    BY <2>2, IdomGiven
  <2>4. /\ facts.idom[b] \in Listed
        /\ Pos(facts.rpo, facts.idom[b]) < Pos(facts.rpo, b)
    BY <2>2, <2>3, IdomAbove
  <2>5. Pos(facts.rpo, b) \in Nat /\ Pos(facts.rpo, facts.idom[b]) \in Nat
    BY <2>2, <2>4, OrderPlaces DEF Given, Listed
  <2>6. pre[facts.idom[b]] # 0
    BY <2>1, <2>4, <2>5
  <2>7. post[facts.idom[b]] # 0
    BY <1>1, <1>2, <2>4, <2>6
  <2> QED
    BY <1>1, <2>1, <2>2, <2>4, <2>7 DEF Numbering, ClosedDone
<1> QED
  BY <1>1, <1>2, <1>3, <1>4

\* Then two comparisons answer dominance.
LEMMA QueryAnswers ==
    ASSUME Given, Numbering
    PROVE  QueryAnswersDominance
<1> SUFFICES ASSUME stack = <<>>, NEW a \in Block, NEW b \in Block,
                    a \in Listed, b \in Listed
             PROVE  pre[a] <= pre[b] /\ post[b] <= post[a] <=> Dom(a, b)
  BY DEF QueryAnswersDominance, DominatesQuery, Reachable, Listed, Dom
<1>1. pre[a] # 0 /\ pre[b] # 0 /\ post[a] # 0 /\ post[b] # 0
  BY AllNumbered
<1>2. pre[a] \in Nat /\ pre[b] \in Nat /\ post[a] \in Nat /\ post[b] \in Nat
  BY DEF Numbering, Numbers
<1>3. ASSUME Dom(a, b)
      PROVE  pre[a] <= pre[b] /\ post[b] <= post[a]
  BY <1>1, <1>3 DEF Numbering, OpenedBelow, ClosedAbove
<1>4. ASSUME pre[a] <= pre[b], post[b] <= post[a]
      PROVE  Dom(a, b)
  <2>1. CASE pre[a] = pre[b]
    <3>1. a = b
      BY <1>1, <2>1 DEF Numbering, Numbers
    <3> QED
      BY <3>1, DomOrder
  <2>2. CASE pre[a] < pre[b]
    <3>1. pre[b] < post[b]
      BY <1>1 DEF Numbering, Numbers
    <3>2. ~(post[a] < pre[b])
      BY <1>2, <1>4, <3>1
    <3> QED
      BY <1>1, <2>2, <3>2 DEF Numbering, Apart
  <2> QED
    BY <1>2, <1>4, <2>1, <2>2
<1> QED
  BY <1>3, <1>4

-----------------------------------------------------------------------------
(* The scan *)

\* Before the first edge nothing has been seen;
LEMMA SeenNone ==
    ASSUME NEW g, NEW order, SearchOrder(g, order), g \in Adjacency
    PROVE  \A e : ~SeenBefore(g, order, 1, 1, e)
<1>1. \A i \in DOMAIN order : i \in 1 .. Len(order) /\ order[i] \in Block
  BY OrderPlaces DEF SearchOrder
<1>2. \A i \in DOMAIN order : \A j \in DOMAIN g[order[i]] : j \in Nat /\ j >= 1
  BY <1>1, SuccsNamed
<1> QED
  BY <1>1, <1>2 DEF SeenBefore

\* an edge of the scan is seen then, and for the first time;
LEMMA SeenNext ==
    ASSUME NEW g \in Adjacency, NEW order, SearchOrder(g, order),
           NEW m \in 1 .. Len(order), NEW n \in Nat \ {0}, n <= Len(g[order[m]])
    PROVE  /\ \A e : SeenBefore(g, order, m, n + 1, e) <=>
                        SeenBefore(g, order, m, n, e) \/ e = <<order[m], g[order[m]][n]>>
           /\ ~SeenBefore(g, order, m, n, <<order[m], g[order[m]][n]>>)
<1>1. DOMAIN order = 1 .. Len(order) /\ Len(order) \in Nat
  BY OrderPlaces
<1>2. /\ \A i \in DOMAIN order : order[i] \in Block
      /\ \A i, j \in DOMAIN order : order[i] = order[j] => i = j
  BY DEF SearchOrder
<1>3. \A b \in Block : \A i, j \in DOMAIN g[b] : g[b][i] = g[b][j] => i = j
  BY DEF Adjacency
<1>4. \A b \in Block : DOMAIN g[b] = 1 .. Len(g[b]) /\ Len(g[b]) \in Nat
  BY SuccsNamed
<1>5. m \in DOMAIN order /\ n \in DOMAIN g[order[m]] /\ m \in Nat
  BY <1>1, <1>2, <1>4
<1>6. \A i \in DOMAIN order : i \in Nat /\ \A j \in DOMAIN g[order[i]] : j \in Nat
  BY <1>1, <1>2, <1>4
<1>7. \A i \in DOMAIN order : \A j \in DOMAIN g[order[i]] :
        (i < m \/ (i = m /\ j < n + 1)) <=>
          (i < m \/ (i = m /\ j < n)) \/ (i = m /\ j = n)
  BY <1>5, <1>6
<1>8. ASSUME NEW e
      PROVE  SeenBefore(g, order, m, n + 1, e) <=>
                 SeenBefore(g, order, m, n, e) \/ e = <<order[m], g[order[m]][n]>>
  BY <1>5, <1>7 DEF SeenBefore
<1>9. ~SeenBefore(g, order, m, n, <<order[m], g[order[m]][n]>>)
  <2> SUFFICES ASSUME NEW i \in DOMAIN order, NEW j \in DOMAIN g[order[i]],
                      <<order[m], g[order[m]][n]>> = <<order[i], g[order[i]][j]>>,
                      i < m \/ (i = m /\ j < n)
               PROVE  FALSE
    BY DEF SeenBefore
  <2>1. i = m
    BY <1>2, <1>5
  <2>2. j = n
    BY <1>2, <1>3, <1>5, <2>1
  <2> QED
    BY <1>5, <2>1, <2>2
<1> QED
  BY <1>8, <1>9

\* going on to the next block skips none,
LEMMA SeenTurn ==
    ASSUME NEW g \in Adjacency, NEW order, SearchOrder(g, order),
           NEW m \in 1 .. Len(order), NEW n \in Nat, n > Len(g[order[m]])
    PROVE  \A e : SeenBefore(g, order, m + 1, 1, e) <=> SeenBefore(g, order, m, n, e)
<1>1. DOMAIN order = 1 .. Len(order) /\ Len(order) \in Nat
  BY OrderPlaces
<1>2. \A i \in DOMAIN order : order[i] \in Block
  BY DEF SearchOrder
<1>3. \A b \in Block : DOMAIN g[b] = 1 .. Len(g[b]) /\ Len(g[b]) \in Nat
  BY SuccsNamed
<1>4. \A i \in DOMAIN order : \A j \in DOMAIN g[order[i]] :
        (i < m + 1 \/ (i = m + 1 /\ j < 1)) <=> (i < m \/ (i = m /\ j < n))
  <2> SUFFICES ASSUME NEW i \in DOMAIN order, NEW j \in DOMAIN g[order[i]]
               PROVE  (i < m + 1 \/ (i = m + 1 /\ j < 1)) <=> (i < m \/ (i = m /\ j < n))
    OBVIOUS
  <2>1. i \in Nat /\ m \in Nat /\ j \in 1 .. Len(g[order[i]]) /\ Len(g[order[i]]) \in Nat
    BY <1>1, <1>2, <1>3
  <2>2. i = m => j < n
    BY <2>1
  <2> QED
    BY <2>1, <2>2
<1> QED
  BY <1>4 DEF SeenBefore

\* and in the end all edges out of listed blocks have been seen.
LEMMA SeenAll ==
    ASSUME Given, NEW n
    PROVE  \A e \in Edges :
             SeenBefore(facts.succs, facts.rpo, Len(facts.rpo) + 1, n, e) <=> e[1] \in Listed
<1> DEFINE order == facts.rpo
           g == facts.succs
<1>1. DOMAIN order = 1 .. Len(order) /\ Len(order) \in Nat
  BY OrderPlaces DEF Given
<1>2. \A i \in DOMAIN order : i \in Nat /\ i < Len(order) + 1
  BY <1>1
<1>3. ASSUME NEW e \in Edges
      PROVE  SeenBefore(g, order, Len(order) + 1, n, e) <=> e[1] \in Listed
  <2>1. e \in Block \X Block /\ e[2] \in Succs(g, e[1])
    BY DEF Edges
  <2>2. e = <<e[1], e[2]>>
    BY <2>1
  <2>3. ASSUME SeenBefore(g, order, Len(order) + 1, n, e)
        PROVE  e[1] \in Listed
    BY <2>3 DEF SeenBefore, Listed, Elements
  <2>4. ASSUME e[1] \in Listed
        PROVE  SeenBefore(g, order, Len(order) + 1, n, e)
    <3>1. PICK i \in DOMAIN order : order[i] = e[1]
      BY <2>4 DEF Listed, Elements
    <3>2. PICK j \in DOMAIN g[order[i]] : g[order[i]][j] = e[2]
      BY <2>1, <3>1 DEF Succs
    <3> QED
      BY <1>2, <2>2, <3>1, <3>2 DEF SeenBefore
  <2> QED
    BY <2>3, <2>4
<1> QED
  BY <1>3

\* The scan starts with nothing sorted.
LEMMA SortedBegins ==
    ASSUME Given, Begin
    PROVE  Sorted
<1>1. at = 1 /\ edge = 1 /\ back = <<>> /\ irreducible = <<>>
  BY DEF Begin
<1>2. \A e : ~Seen(e)
  BY <1>1, SeenNone DEF Given, Seen
<1>3. Elements(back) = {} /\ Elements(irreducible) = {} /\ IsInjective(back)
  BY <1>1 DEF Elements, IsInjective
<1>4. Len(facts.rpo) \in Nat
  BY OrderPlaces DEF Given
<1>5. at \in 1 .. Len(facts.rpo) + 1 /\ edge \in Nat \ {0}
  BY <1>1, <1>4
<1>6. back \in Seq(Edges) /\ irreducible \in Seq(Edges)
  BY <1>1
<1> QED
  BY <1>1, <1>2, <1>3, <1>5, <1>6 DEF Sorted

\* The walk leaves it alone.
LEMMA WalkSorts ==
    ASSUME Given, Sorted, Open \/ Close
    PROVE  Sorted'
<1>1. /\ stack # <<>>
      /\ facts' = facts /\ at' = at /\ edge' = edge
      /\ back' = back /\ irreducible' = irreducible
  BY DEF Open, Close
<1>2. Edges' = Edges
  BY <1>1 DEF Edges
<1>3. \A e : Seen(e)' <=> Seen(e)
  BY <1>1 DEF Seen
<1> QED
  BY <1>1, <1>2 DEF Sorted, Seen, Dom, Retreats

\* An edge is sorted by the question the comparisons answer.
LEMMA ScanSorts ==
    ASSUME Given, Numbering, Sorted, Scan
    PROVE  Sorted'
<1>1. PICK from : from = facts.rpo[at]
  OBVIOUS
<1>2. PICK to : to = facts.succs[from][edge]
  OBVIOUS
<1>3. /\ stack = <<>> /\ at <= Len(facts.rpo) /\ edge <= Len(facts.succs[from])
      /\ edge' = edge + 1
      /\ facts' = facts /\ at' = at /\ stack' = stack
  BY <1>1 DEF Scan, Scanning
<1>4. /\ at \in 1 .. Len(facts.rpo) + 1 /\ edge \in Nat \ {0}
      /\ back \in Seq(Edges) /\ irreducible \in Seq(Edges) /\ IsInjective(back)
  BY DEF Sorted
<1>5. Len(facts.rpo) \in Nat /\ at \in 1 .. Len(facts.rpo)
  BY <1>3, <1>4, OrderPlaces DEF Given
<1>6. from \in Listed /\ from \in Block
  BY <1>1, <1>5, OrderPlaces DEF Given, Listed
<1>7. to \in Succs(facts.succs, from) /\ to \in Block
  BY <1>2, <1>3, <1>4, <1>6, SuccsNamed DEF Given
<1> DEFINE e == <<from, to>>
<1>8. e \in Edges /\ e[1] = from /\ e[2] = to
  BY <1>6, <1>7 DEF Edges
<1>9. Dom(to, from) => to \in Listed /\ Retreats(from, to)
  <2>1. Pos(facts.rpo, from) \in Nat
    BY <1>6, OrderPlaces DEF Given, Listed
  <2>2. CASE to = from
    BY <1>6, <2>1, <2>2 DEF Retreats
  <2>3. CASE to # from /\ Dom(to, from)
    <3>1. to \in Listed /\ Pos(facts.rpo, to) < Pos(facts.rpo, from)
      BY <1>6, <2>3, DominatorEarlier DEF Given, Dom, Listed
    <3>2. Pos(facts.rpo, to) \in Nat
      BY <3>1, OrderPlaces DEF Given, Listed
    <3> QED
      BY <2>1, <3>1, <3>2 DEF Retreats
  <2> QED
    BY <2>2, <2>3
<1>10. DominatesQuery(to, from) <=> Dom(to, from)
  BY <1>3, <1>6, <1>7, <1>9, QueryAnswers
       DEF QueryAnswersDominance, Reachable, Listed, Dom
<1>11. /\ back' = IF Dom(to, from) THEN Append(back, e) ELSE back
       /\ irreducible' = IF Retreats(from, to) /\ ~Dom(to, from)
                         THEN Append(irreducible, e) ELSE irreducible
  BY <1>1, <1>2, <1>9, <1>10 DEF Scan
<1>12. /\ ~Seen(e)
       /\ \A f : Seen(f)' <=> Seen(f) \/ f = e
  <2>1. facts.succs \in Adjacency /\ SearchOrder(facts.succs, facts.rpo)
    BY DEF Given
  <2>2. /\ \A f : SeenBefore(facts.succs, facts.rpo, at, edge + 1, f) <=>
                  SeenBefore(facts.succs, facts.rpo, at, edge, f) \/ f = e
        /\ ~SeenBefore(facts.succs, facts.rpo, at, edge, e)
    <3>1. PICK m \in 1 .. Len(facts.rpo) : m = at
      BY <1>5
    <3>2. PICK n \in Nat \ {0} : n = edge
      BY <1>4
    <3>3. n <= Len(facts.succs[facts.rpo[m]]) /\ e = <<facts.rpo[m], facts.succs[facts.rpo[m]][n]>>
      BY <1>1, <1>2, <1>3, <3>1, <3>2
    <3>4. /\ \A f : SeenBefore(facts.succs, facts.rpo, m, n + 1, f) <=>
                    SeenBefore(facts.succs, facts.rpo, m, n, f)
                      \/ f = <<facts.rpo[m], facts.succs[facts.rpo[m]][n]>>
          /\ ~SeenBefore(facts.succs, facts.rpo, m, n,
                          <<facts.rpo[m], facts.succs[facts.rpo[m]][n]>>)
      BY <2>1, <3>3, SeenNext
    <3> QED
      BY <3>1, <3>2, <3>3, <3>4
  <2>3. \A f : Seen(f)' <=> SeenBefore(facts.succs, facts.rpo, at, edge + 1, f)
    BY <1>3 DEF Seen
  <2> QED
    BY <2>2, <2>3 DEF Seen
<1>13. /\ Elements(back) = {f \in Edges : Seen(f) /\ Dom(f[2], f[1])}
       /\ Elements(irreducible) =
            {f \in Edges : Seen(f) /\ Retreats(f[1], f[2]) /\ ~Dom(f[2], f[1])}
  BY DEF Sorted
<1>14. e \notin Elements(back)
  BY <1>12, <1>13
<1>15. Edges' = Edges
  BY <1>3 DEF Edges
<1> HIDE DEF e
<1>16. /\ back' \in Seq(Edges) /\ IsInjective(back')
       /\ Elements(back') = Elements(back) \cup (IF Dom(to, from) THEN {e} ELSE {})
  BY <1>4, <1>8, <1>11, <1>14, ListGrows
<1>17. /\ irreducible' \in Seq(Edges)
       /\ Elements(irreducible') =
            Elements(irreducible) \cup
              (IF Retreats(from, to) /\ ~Dom(to, from) THEN {e} ELSE {})
  BY <1>4, <1>8, <1>11, ListGrows
<1>18. Elements(back') = {f \in Edges : (Seen(f) \/ f = e) /\ Dom(f[2], f[1])}
  BY <1>8, <1>13, <1>16
<1>19. Elements(irreducible') =
         {f \in Edges : (Seen(f) \/ f = e) /\ Retreats(f[1], f[2]) /\ ~Dom(f[2], f[1])}
  BY <1>8, <1>13, <1>17
<1>20. /\ \A a, b : Dom(a, b)' <=> Dom(a, b)
       /\ \A a, b : Retreats(a, b)' <=> Retreats(a, b)
  BY <1>3 DEF Dom, Retreats
<1>21. Elements(back') = {f \in Edges' : Seen(f)' /\ Dom(f[2], f[1])'}
  BY <1>12, <1>15, <1>18, <1>20
<1>22. Elements(irreducible') =
         {f \in Edges' : Seen(f)' /\ Retreats(f[1], f[2])' /\ ~Dom(f[2], f[1])'}
  BY <1>12, <1>15, <1>19, <1>20
<1>23. edge' \in Nat \ {0}
  BY <1>3, <1>4
<1> QED
  BY <1>3, <1>4, <1>15, <1>16, <1>17, <1>21, <1>22, <1>23 DEF Sorted

\* Going on to the next block sees no edge.
LEMMA NextSourceSorts ==
    ASSUME Given, Sorted, NextSource
    PROVE  Sorted'
<1>1. /\ stack = <<>> /\ at <= Len(facts.rpo)
      /\ edge > Len(facts.succs[facts.rpo[at]])
      /\ edge' = 1 /\ at' = at + 1
      /\ facts' = facts /\ stack' = stack /\ back' = back /\ irreducible' = irreducible
  BY DEF NextSource, Scanning
<1>2. /\ at \in 1 .. Len(facts.rpo) + 1 /\ edge \in Nat \ {0}
      /\ back \in Seq(Edges) /\ irreducible \in Seq(Edges) /\ IsInjective(back)
  BY DEF Sorted
<1>3. Len(facts.rpo) \in Nat /\ at \in 1 .. Len(facts.rpo)
  BY <1>1, <1>2, OrderPlaces DEF Given
<1>4. \A f : Seen(f)' <=> Seen(f)
  BY <1>1, <1>2, <1>3, SeenTurn DEF Given, Seen
<1>5. Edges' = Edges
  BY <1>1 DEF Edges
<1>6. /\ \A a, b : Dom(a, b)' <=> Dom(a, b)
      /\ \A a, b : Retreats(a, b)' <=> Retreats(a, b)
  BY <1>1 DEF Dom, Retreats
<1>7. /\ Elements(back) = {f \in Edges : Seen(f) /\ Dom(f[2], f[1])}
      /\ Elements(irreducible) =
           {f \in Edges : Seen(f) /\ Retreats(f[1], f[2]) /\ ~Dom(f[2], f[1])}
  BY DEF Sorted
<1>8. /\ Elements(back) = {f \in Edges : Seen(f)' /\ Dom(f[2], f[1])'}
      /\ Elements(irreducible) =
           {f \in Edges : Seen(f)' /\ Retreats(f[1], f[2])' /\ ~Dom(f[2], f[1])'}
  BY <1>4, <1>6, <1>7
<1>9. at' \in 1 .. Len(facts'.rpo) + 1 /\ edge' \in Nat \ {0}
  BY <1>1, <1>3
<1> QED
  BY <1>1, <1>2, <1>5, <1>8, <1>9 DEF Sorted

\* In the end the back edges are the edges into a dominator.
LEMMA BackEdgesFound ==
    ASSUME Given, Sorted
    PROVE  BackEdgesComplete
<1> SUFFICES ASSUME Built PROVE BackEdgesComplete
  BY DEF BackEdgesComplete
<1>1. at = Len(facts.rpo) + 1
  <2>1. Len(facts.rpo) \in Nat
    BY OrderPlaces DEF Given
  <2> QED
    BY <2>1 DEF Built, Sorted
<1>2. \A e \in Edges : Seen(e) <=> e[1] \in Listed
  BY <1>1, SeenAll DEF Seen
<1>3. Elements(back) = {e \in Edges : Seen(e) /\ Dom(e[2], e[1])} /\ IsInjective(back)
  BY DEF Sorted
<1>4. Elements(back) =
        {e \in Edges : Reachable(e[1]) /\ Dominates(facts.succs, e[2], e[1])}
  BY <1>2, <1>3 DEF Reachable, Listed, Dom
<1> QED
  BY <1>3, <1>4 DEF BackEdgesComplete

\* A witness closes a cycle without an edge into a dominator, and the last
\* block of such a cycle has a witness.
LEMMA EmptinessDecided ==
    ASSUME Given, Sorted
    PROVE  EmptinessCanonical
<1> DEFINE N == {e \in Edges : ~Dominates(facts.succs, e[2], e[1])}
<1> SUFFICES ASSUME Built PROVE irreducible = <<>> <=> ~HasCycle(N)
  BY DEF EmptinessCanonical
<1>1. at = Len(facts.rpo) + 1
  <2>1. Len(facts.rpo) \in Nat
    BY OrderPlaces DEF Given
  <2> QED
    BY <2>1 DEF Built, Sorted
<1>2. \A e \in Edges : Seen(e) <=> e[1] \in Listed
  BY <1>1, SeenAll DEF Seen
<1>3. Elements(irreducible) =
        {e \in Edges : Seen(e) /\ Retreats(e[1], e[2]) /\ ~Dom(e[2], e[1])}
  BY DEF Sorted
<1>4. /\ facts.succs \in Adjacency /\ SearchOrder(facts.succs, facts.rpo)
      /\ RetreatsClose(facts.succs, facts.rpo)
      /\ Listed \subseteq Block
  BY DomOrder DEF Given
<1>5. \A b \in Listed : Succs(facts.succs, b) \subseteq Listed
  BY <1>4 DEF SearchOrder, Listed, Elements
<1>6. ASSUME irreducible = <<>>, HasCycle(N)
      PROVE  FALSE
  <2>1. PICK S \in SUBSET Elements(facts.rpo) :
            S # {} /\ \A b \in S : \E c \in S : <<b, c>> \in N
    BY <1>6 DEF HasCycle
  <2>2. PICK b \in S : \A c \in S : Pos(facts.rpo, c) <= Pos(facts.rpo, b)
    BY <1>4, <2>1, LastListed
  <2>3. PICK c \in S : <<b, c>> \in N
    BY <2>1
  <2>4. b \in Listed /\ Retreats(b, c)
    BY <2>1, <2>2 DEF Listed, Retreats
  <2>5. <<b, c>> \in Elements(irreducible)
    BY <1>2, <1>3, <2>3, <2>4 DEF Dom
  <2> QED
    BY <1>6, <2>5 DEF Elements
<1>7. ASSUME irreducible # <<>>
      PROVE  HasCycle(N)
  <2>1. 1 \in DOMAIN irreducible
    BY <1>7 DEF Sorted
  <2>2. PICK e \in Elements(irreducible) : TRUE
    BY <2>1 DEF Elements
  <2>3. PICK from \in Block, to \in Block :
            <<from, to>> = e /\ to \in Succs(facts.succs, from)
    BY <1>3, <2>2 DEF Edges
  <2>4. from \in Listed /\ Retreats(from, to) /\ ~Dom(to, from) /\ <<from, to>> \in N
    BY <1>2, <1>3, <2>2, <2>3 DEF Dom
  <2>5. to \in Listed
    BY <1>5, <2>3, <2>4
  <2>6. Onward(facts.succs, to, from)
    <3>1. /\ Pos(facts.rpo, to) \in DOMAIN facts.rpo
          /\ Pos(facts.rpo, from) \in DOMAIN facts.rpo
          /\ facts.rpo[Pos(facts.rpo, to)] = to /\ facts.rpo[Pos(facts.rpo, from)] = from
      BY <2>4, <2>5, PosFinds DEF Listed
    <3> QED
      BY <1>4, <2>3, <2>4, <3>1 DEF RetreatsClose, Retreats
  <2> DEFINE S == {b \in Listed : Onward(facts.succs, to, b) /\ Onward(facts.succs, b, from)}
  <2>7. S \in SUBSET Elements(facts.rpo) /\ from \in S
    BY <2>4, <2>6, OnwardSelf DEF Listed
  <2>8. ASSUME NEW b \in S
        PROVE  \E c \in S : <<b, c>> \in N
    <3>1. CASE b = from
      BY <2>4, <2>5, <2>6, <3>1, OnwardSelf
    <3>2. CASE b # from
      <4>1. b \in Block
        BY <1>4
      <4>2. PICK c \in Succs(facts.succs, b) :
                /\ c \in Block /\ ~Dominates(facts.succs, c, b)
                /\ Onward(facts.succs, c, from)
        BY <1>4, <3>2, <4>1, OnwardFirst
      <4>3. Onward(facts.succs, to, c)
        BY <4>2, OnwardEdge, OnwardJoin
      <4>4. c \in S
        BY <1>5, <4>2, <4>3
      <4>5. <<b, c>> \in N
        BY <4>1, <4>2 DEF Edges
      <4> QED
        BY <4>4, <4>5
    <3> QED
      BY <3>1, <3>2
  <2> QED
    BY <2>7, <2>8 DEF HasCycle
<1> QED
  BY <1>6, <1>7

-----------------------------------------------------------------------------
(* The whole of the module *)

\* The invariant holds when the walk begins,
THEOREM TreeBegins ==
    ASSUME Given, Begin
    PROVE  TreeInv
BY NumberingBegins, SortedBegins DEF TreeInv

\* and every step keeps it.
THEOREM TreeKeeps == TreeInv /\ [Next]_vars => TreeInv'
<1> SUFFICES ASSUME TreeInv, [Next]_vars PROVE TreeInv'
  OBVIOUS
<1>1. Given /\ Numbering /\ Sorted
  BY DEF TreeInv
<1>2. facts' = facts
  BY DEF Next, Open, Close, Scan, NextSource, vars
<1>3. Given'
  BY <1>1, <1>2 DEF Given
<1>4. CASE Open
  BY <1>1, <1>3, <1>4, OpenNumbers, WalkSorts DEF TreeInv
<1>5. CASE Close
  BY <1>1, <1>3, <1>5, CloseNumbers, WalkSorts DEF TreeInv
<1>6. ASSUME Scan \/ NextSource \/ UNCHANGED vars
      PROVE  Numbering'
  <2>1. facts' = facts /\ pre' = pre /\ post' = post /\ counter' = counter /\ stack' = stack
    BY <1>6 DEF Scan, NextSource, vars
  <2> QED
    BY <1>1, <2>1
      DEF Numbering, Numbers, StackOpen, CursorsSplit, ClosedDone, OpenedBelow,
          ClosedAbove, Apart, Listed, Dom
<1>7. CASE Scan
  BY <1>1, <1>3, <1>6, <1>7, ScanSorts DEF TreeInv
<1>8. CASE NextSource
  BY <1>1, <1>3, <1>6, <1>8, NextSourceSorts DEF TreeInv
<1>9. CASE UNCHANGED vars
  <2>1. Sorted'
    BY <1>1, <1>9 DEF vars, Sorted, Edges, Seen, Dom, Retreats
  <2> QED
    BY <1>3, <1>6, <1>9, <2>1 DEF TreeInv
<1> QED
  BY <1>4, <1>5, <1>7, <1>8, <1>9 DEF Next

\* It gives the three properties of the numbering and the scan.
THEOREM TreeShows ==
    ASSUME TreeInv
    PROVE  QueryAnswersDominance /\ BackEdgesComplete /\ EmptinessCanonical
BY QueryAnswers, BackEdgesFound, EmptinessDecided DEF TreeInv
=============================================================================
