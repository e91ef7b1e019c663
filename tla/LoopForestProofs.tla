-------------------------- MODULE LoopForestProofs --------------------------
(***************************************************************************)
(* The loops LoopForest collects are the natural loops of the back edges,  *)
(* and its parents, depths and innermost loops describe how they are       *)
(* nested, for every graph, every order a depth-first search may publish   *)
(* and the back edges of that graph.                                       *)
(***************************************************************************)
EXTENDS LoopForest, FlowGraphTheorems, SequenceTheorems

-----------------------------------------------------------------------------
(* The inductive invariant *)

Listed == Elements(facts.rpo)

Dom(a, b) == Dominates(facts.succs, a, b)

\* The header and the blocks it dominates that reach a latch around it.
Natural(h) ==
    {h} \cup {b \in Listed \ {h} : Dom(h, b) /\ ReachesAround(b, LatchesOf(h), h)}

\* What CfgFacts::build has found.
Given ==
    /\ facts.succs \in Adjacency
    /\ SearchOrder(facts.succs, facts.rpo)
    /\ Elements(facts.back) =
         {e \in Block \X Block :
             e[1] \in Listed /\ e[2] \in Succs(facts.succs, e[1]) /\ Dom(e[2], e[1])}

\* The loops that have been collected are the natural loops of the first
\* headers.
Collected ==
    /\ loops \in Seq([header : Block, latches : SUBSET Block, blocks : SUBSET Block])
    /\ Len(loops) <= Len(Headers)
    /\ \A i \in DOMAIN loops :
        /\ loops[i].header = Headers[i]
        /\ loops[i].latches = LatchesOf(Headers[i])
        /\ loops[i].blocks = Natural(Headers[i])

\* The walk has marked blocks of the loop only, and the predecessors of those
\* that are off the worklist.
Walking ==
    phase = "walk" =>
        /\ Len(loops) < Len(Headers)
        /\ Header \in member
        /\ LatchesOf(Header) \subseteq member
        /\ member \subseteq Natural(Header)
        /\ worklist \in Seq(member \ {Header})
        /\ \A x \in member \ {Header} :
            x \notin Elements(worklist) => Preds(facts.succs, x) \cap Listed \subseteq member

\* Loops get their depths in the order of their size.
LargerFirst ==
    \A i, j \in DOMAIN loops : depth[i] # 0 /\ depth[j] = 0 => Before(i, j)

\* innermost, of the loops that have their depths.
InsideSoFar ==
    \A b \in Block :
        LET holding == {j \in DOMAIN loops : depth[j] # 0 /\ b \in loops[j].blocks}
        IN  IF holding = {} THEN innermost[b] = None
            ELSE /\ innermost[b] \in holding
                 /\ \A j \in holding : loops[innermost[b]].blocks \subseteq loops[j].blocks

Numbering ==
    IF phase \in {"depth", "built"}
    THEN /\ parent = [i \in DOMAIN loops |-> ParentOf(i)]
         /\ depth \in [DOMAIN loops -> Nat]
         /\ LargerFirst
         /\ DepthCounts
         /\ InsideSoFar
         /\ phase = "built" => \A i \in DOMAIN loops : depth[i] # 0
    ELSE /\ parent = <<>>
         /\ depth = <<>>
         /\ innermost = [b \in Block |-> None]

ForestInv == Given /\ phase \in Phase /\ Collected /\ Walking /\ Numbering

-----------------------------------------------------------------------------
(* Headers and latches *)

\* What the definitions of dominance and of the back edges give.
LEMMA DomOrder ==
    ASSUME Given
    PROVE  /\ Listed \subseteq Block
           /\ \A a : Dom(a, a)
           /\ \A a, b \in Block : \A c : Dom(a, b) /\ Dom(b, c) => Dom(a, c)
           /\ \A a, b \in Listed : Dom(a, b) /\ Dom(b, a) => a = b
           /\ \A b \in Listed : \A a, c : Dom(a, b) /\ Dom(c, b) => Dom(a, c) \/ Dom(c, a)
           /\ \A b \in Block : Succs(facts.succs, b) \subseteq Block
           /\ \A b \in Listed : Succs(facts.succs, b) \subseteq Listed
<1>1. Listed \subseteq Block
  BY OrderPlaces DEF Given, Listed
<1>2. \A a : Dom(a, a)
  BY DEF Dom, Dominates
<1>3. \A a, b \in Block : \A c : Dom(a, b) /\ Dom(b, c) => Dom(a, c)
  BY DominatesThrough DEF Dom
<1>4. \A a, b \in Listed : Dom(a, b) /\ Dom(b, a) => a = b
  BY DominatesOneWay DEF Given, Dom, Listed
<1>5. \A b \in Listed : \A a, c : Dom(a, b) /\ Dom(c, b) => Dom(a, c) \/ Dom(c, a)
  BY DominatorsChain DEF Given, Dom, Listed
<1>6. \A b \in Block : Succs(facts.succs, b) \subseteq Block
  BY SuccsNamed DEF Given
<1>7. \A b \in Listed : Succs(facts.succs, b) \subseteq Listed
  BY DEF Given, SearchOrder, Listed, Elements
<1> QED
  BY <1>1, <1>2, <1>3, <1>4, <1>5, <1>6, <1>7

\* A latch is a listed block that its header dominates.
LEMMA LatchGiven ==
    ASSUME Given, NEW h, NEW l \in LatchesOf(h)
    PROVE  l \in Listed /\ l \in Block /\ Dom(h, l) /\ h \in Succs(facts.succs, l)
<1>1. PICK e \in Elements(facts.back) : e[2] = h /\ e[1] = l
  BY DEF LatchesOf
<1> QED
  BY <1>1, DomOrder DEF Given

\* The headers are listed blocks, each taken once.
LEMMA HeadersListed ==
    ASSUME Given
    PROVE  /\ Len(Headers) \in Nat
           /\ DOMAIN Headers = 1 .. Len(Headers)
           /\ \A i \in DOMAIN Headers : Headers[i] \in Listed /\ Headers[i] \in Block
           /\ \A i, j \in DOMAIN Headers : Headers[i] = Headers[j] => i = j
<1> DEFINE T == {e[2] : e \in Elements(facts.back)}
           place == [b \in Elements(facts.rpo) |-> Pos(facts.rpo, b)]
<1>1. T \subseteq Listed
  <2>1. \A e \in Elements(facts.back) : e[2] \in Listed
    BY DomOrder DEF Given
  <2> QED
    BY <2>1
<1>2. Listed \subseteq Block
  BY DomOrder
<1>3. IsFiniteSet(T) /\ Cardinality(T) \in Nat
  BY <1>1, <1>2, FiniteBlocks
<1>4. \A b \in Listed : Pos(facts.rpo, b) \in Nat /\ facts.rpo[Pos(facts.rpo, b)] = b
  BY OrderPlaces DEF Given, Listed
<1>5. /\ \A b \in T : place[b] \in Nat
      /\ \A b, c \in T : place[b] = place[c] => b = c
  BY <1>1, <1>4 DEF Listed
<1> HIDE DEF place, T
<1>6. /\ InOrder(T, place) \in [1 .. Cardinality(T) -> T]
      /\ Len(InOrder(T, place)) = Cardinality(T)
      /\ \A i, j \in 1 .. Cardinality(T) :
            InOrder(T, place)[i] = InOrder(T, place)[j] => i = j
  BY <1>3, <1>5, InOrderLists
<1>7. Headers = InOrder(T, place)
  BY DEF Headers, T, place
<1> QED
  BY <1>1, <1>2, <1>3, <1>6, <1>7

\* A loop's blocks are listed blocks that its header dominates, the header
\* and the latches among them.
LEMMA NaturalGiven ==
    ASSUME Given, NEW h \in Listed
    PROVE  /\ h \in Natural(h)
           /\ \A b \in Natural(h) : b \in Listed /\ b \in Block /\ Dom(h, b)
           /\ LatchesOf(h) \subseteq Natural(h)
<1>1. /\ h \in Natural(h)
      /\ \A b \in Natural(h) : b \in Listed /\ b \in Block /\ Dom(h, b)
  BY DomOrder DEF Natural
<1>2. ASSUME NEW l \in LatchesOf(h)
      PROVE  l \in Natural(h)
  BY LatchGiven DEF Natural, ReachesAround
<1> QED
  BY <1>1, <1>2

-----------------------------------------------------------------------------
(* How natural loops lie *)

\* A header that shares a block with the loop of a header above it is in that
\* loop.
LEMMA HeaderInside ==
    ASSUME Given, NEW h \in Listed, NEW k \in Listed, h # k, Dom(h, k),
           NEW b \in Natural(h), b \in Natural(k)
    PROVE  k \in Natural(h)
<1>1. ~Dom(k, h)
  BY DomOrder
<1>2. b \in Listed /\ Dom(k, b) /\ b # h
  BY <1>1, NaturalGiven
<1>3. ReachesAround(b, LatchesOf(h), h)
  BY <1>2 DEF Natural
<1>4. ASSUME NEW S \in SUBSET Block, k \in S,
             ClosedWithin(facts.succs, Block \ {h}, S \ {h})
      PROVE  S \cap LatchesOf(h) # {}
  <2>1. b \in S
    BY <1>1, <1>2, <1>4, DomOrder, ReachedAround DEF Given, Dom, Listed
  <2> QED
    BY <1>3, <1>4, <2>1 DEF ReachesAround
<1> QED
  BY <1>4 DEF Natural, ReachesAround

\* The loop of a header inside a loop lies inside it: a block that reaches the
\* inner header's latches reaches the inner header, and then the outer one's.
LEMMA LoopInside ==
    ASSUME Given, NEW h \in Listed, NEW k \in Listed, h # k, k \in Natural(h)
    PROVE  Natural(k) \subseteq Natural(h) /\ h \notin Natural(k)
<1>1. Dom(h, k) /\ ~Dom(k, h)
  BY NaturalGiven, DomOrder
<1>2. h \notin Natural(k)
  BY <1>1, NaturalGiven
<1>3. ReachesAround(k, LatchesOf(h), h)
  BY DEF Natural
<1>4. ASSUME NEW c \in Natural(k)
      PROVE  c \in Natural(h)
  <2>1. c \in Listed /\ c \in Block /\ Dom(k, c) /\ c # h
    BY <1>2, NaturalGiven
  <2>2. Dom(h, c)
    BY <1>1, <2>1, DomOrder
  <2>3. ASSUME NEW S \in SUBSET Block, c \in S,
               ClosedWithin(facts.succs, Block \ {h}, S \ {h}),
               S \cap LatchesOf(h) = {}
        PROVE  FALSE
    <3>1. k \notin S
      BY <1>3, <2>3 DEF ReachesAround
    <3>2. ReachesAround(c, LatchesOf(k), k)
      BY <2>3, <3>1 DEF Natural
    <3> DEFINE W == S \cup {y \in Block : ~Dom(k, y)}
    <3>3. ASSUME NEW x \in W \ {k}, NEW y \in Succs(facts.succs, x), y \in Block, y # k
          PROVE  y \in W
      <4>1. CASE ~Dom(k, y)
        BY <3>3, <4>1
      <4>2. CASE Dom(k, y)
        <5>1. Dom(k, x)
          BY <3>3, <4>2, DominatesPredecessor DEF Dom
        <5>2. x \in S /\ x # h /\ y # h
          BY <1>1, <4>2, <5>1
        <5> QED
          BY <2>3, <3>3, <5>2 DEF ClosedWithin
      <4> QED
        BY <4>1, <4>2
    <3>4. ClosedWithin(facts.succs, Block \ {k}, W \ {k})
      BY <3>3 DEF ClosedWithin
    <3>5. PICK l \in LatchesOf(k) : l \in W
      BY <2>3, <3>2, <3>4 DEF ReachesAround
    <3>6. l \in S /\ l # h /\ k \in Succs(facts.succs, l) /\ k \in Block
      BY <1>1, <3>5, LatchGiven, DomOrder
    <3>7. k \in S
      BY <2>3, <3>6 DEF ClosedWithin
    <3> QED
      BY <3>1, <3>7
  <2> QED
    BY <2>1, <2>2, <2>3 DEF Natural, ReachesAround
<1> QED
  BY <1>2, <1>4

\* So natural loops that share a block are nested.
LEMMA LoopsNested ==
    ASSUME Given, NEW h \in Listed, NEW k \in Listed,
           NEW b \in Natural(h), b \in Natural(k), h # k
    PROVE  \/ k \in Natural(h) /\ Natural(k) \subseteq Natural(h) /\ h \notin Natural(k)
           \/ h \in Natural(k) /\ Natural(h) \subseteq Natural(k) /\ k \notin Natural(h)
<1>1. Dom(h, k) \/ Dom(k, h)
  BY NaturalGiven, DomOrder
<1>2. CASE Dom(h, k)
  BY <1>2, HeaderInside, LoopInside
<1>3. CASE Dom(k, h)
  BY <1>3, HeaderInside, LoopInside
<1> QED
  BY <1>1, <1>2, <1>3

-----------------------------------------------------------------------------
(* The walk *)

\* Marked blocks from which all predecessors have been followed are the loop.
LEMMA WalkedAll ==
    ASSUME Given, NEW h \in Listed, NEW M, h \in M, LatchesOf(h) \subseteq M,
           M \subseteq Natural(h),
           \A x \in M \ {h} : Preds(facts.succs, x) \cap Listed \subseteq M
    PROVE  M = Natural(h)
<1> SUFFICES ASSUME NEW b \in Natural(h), b \notin M PROVE FALSE
  OBVIOUS
<1>1. b \in Listed /\ b # h /\ ReachesAround(b, LatchesOf(h), h)
  BY NaturalGiven DEF Natural
<1> DEFINE S == Listed \ M
<1>2. S \in SUBSET Block /\ b \in S /\ h \notin S
  BY <1>1, DomOrder
<1>3. ASSUME NEW x \in S, NEW y \in Succs(facts.succs, x), y # h
      PROVE  y \in S
  <2>1. y \in Listed /\ x \in Block
    BY <1>3, DomOrder
  <2>2. y \in M => x \in M
    BY <1>3, <2>1 DEF Preds
  <2> QED
    BY <1>3, <2>1, <2>2
<1>4. ClosedWithin(facts.succs, Block \ {h}, S \ {h})
  BY <1>2, <1>3 DEF ClosedWithin
<1>5. S \cap LatchesOf(h) # {}
  BY <1>1, <1>2, <1>4 DEF ReachesAround
<1> QED
  BY <1>5

\* A predecessor of a block of the loop other than the header is in the loop.
LEMMA PredecessorInside ==
    ASSUME Given, NEW h \in Listed, NEW x \in Natural(h), x # h,
           NEW p \in Preds(facts.succs, x) \cap Listed
    PROVE  p \in Natural(h)
<1>1. x \in Succs(facts.succs, p) /\ p \in Block /\ x \in Block
  BY NaturalGiven DEF Preds
<1>2. Dom(h, p)
  BY <1>1, NaturalGiven, DominatesPredecessor DEF Dom
<1>3. ReachesAround(x, LatchesOf(h), h)
  BY DEF Natural
<1>4. ASSUME p # h
      PROVE  ReachesAround(p, LatchesOf(h), h)
  <2> SUFFICES ASSUME NEW S \in SUBSET Block, p \in S,
                      ClosedWithin(facts.succs, Block \ {h}, S \ {h})
               PROVE  S \cap LatchesOf(h) # {}
    BY DEF ReachesAround
  <2>1. x \in S
    BY <1>1, <1>4 DEF ClosedWithin
  <2> QED
    BY <1>3, <2>1 DEF ReachesAround
<1> QED
  BY <1>2, <1>4 DEF Natural

-----------------------------------------------------------------------------
(* Lists *)

LEMMA AscendingElements ==
    ASSUME NEW S \in SUBSET Block
    PROVE  Ascending(S) \in Seq(S) /\ Elements(Ascending(S)) = S
<1> PICK s, n : s = Ascending(S) /\ n = Cardinality(S)
  OBVIOUS
<1>1. /\ s \in Seq(S) /\ Len(s) = n /\ n \in Nat
      /\ \A i \in 1 .. n : s[i] \in S
      /\ \A b \in S : \E i \in 1 .. n : s[i] = b
  BY AscendingLists
<1>2. DOMAIN s = 1 .. n
  BY <1>1
<1> QED
  BY <1>1, <1>2 DEF Elements

\* What is left of a worklist when its last entry is taken off and others are
\* put on.
LEMMA ListReplaced ==
    ASSUME NEW E, NEW s \in Seq(E), s # <<>>, NEW t \in Seq(E)
    PROVE  /\ s[Len(s)] \in E
           /\ SubSeq(s, 1, Len(s) - 1) \o t \in Seq(E)
           /\ Elements(t) \subseteq Elements(SubSeq(s, 1, Len(s) - 1) \o t)
           /\ \A e \in Elements(s) :
                e = s[Len(s)] \/ e \in Elements(SubSeq(s, 1, Len(s) - 1) \o t)
<1>1. PICK n \in Nat : n = Len(s) /\ DOMAIN s = 1 .. n /\ n > 0
  OBVIOUS
<1>2. PICK k \in Nat : k = Len(t) /\ DOMAIN t = 1 .. k
  OBVIOUS
<1>3. PICK r : r = SubSeq(s, 1, n - 1)
  OBVIOUS
<1>4. r \in Seq(E) /\ Len(r) = n - 1 /\ \A i \in 1 .. n - 1 : r[i] = s[i]
  BY <1>1, <1>3
<1>5. PICK q : q = r \o t
  OBVIOUS
<1>6. /\ q \in Seq(E) /\ DOMAIN q = 1 .. n - 1 + k
      /\ \A i \in 1 .. n - 1 : q[i] = s[i]
      /\ \A i \in 1 .. k : q[n - 1 + i] = t[i]
  <2>1. PICK m \in Nat : m = n - 1
    BY <1>1
  <2>2. r \in Seq(E) /\ Len(r) = m /\ t \in Seq(E) /\ Len(t) = k
    BY <1>2, <1>4, <2>1
  <2>3. /\ q \in Seq(E) /\ Len(q) = m + k
        /\ \A i \in 1 .. m + k : q[i] = IF i <= m THEN r[i] ELSE t[i - m]
    BY <1>5, <2>2, ConcatProperties
  <2>4. ASSUME NEW i \in 1 .. k
        PROVE  q[m + i] = t[i]
    BY <2>3
  <2>5. \A i \in 1 .. m : q[i] = s[i]
    BY <1>4, <2>1, <2>3
  <2>6. DOMAIN q = 1 .. m + k
    BY <2>3
  <2> QED
    BY <2>1, <2>3, <2>4, <2>5, <2>6
<1>7. Elements(t) \subseteq Elements(q)
  <2> SUFFICES ASSUME NEW i \in 1 .. k PROVE t[i] \in Elements(q)
    BY <1>2 DEF Elements
  <2>1. n - 1 + i \in DOMAIN q /\ q[n - 1 + i] = t[i]
    BY <1>1, <1>6
  <2> QED
    BY <2>1 DEF Elements
<1>8. ASSUME NEW i \in 1 .. n, s[i] # s[n]
      PROVE  s[i] \in Elements(q)
  <2>1. i \in 1 .. n - 1
    BY <1>1, <1>8
  <2>2. i \in DOMAIN q /\ q[i] = s[i]
    BY <1>1, <1>6, <2>1
  <2> QED
    BY <2>2 DEF Elements
<1>9. s[n] \in E
  BY <1>1
<1>10. \A e \in Elements(s) : e = s[n] \/ e \in Elements(q)
  BY <1>1, <1>8 DEF Elements
<1> QED
  BY <1>1, <1>3, <1>5, <1>6, <1>7, <1>9, <1>10

-----------------------------------------------------------------------------
(* Collecting the loops keeps the invariant *)

LEMMA FactsFixed ==
    ASSUME UNCHANGED facts
    PROVE  /\ Listed' = Listed
           /\ Headers' = Headers
           /\ \A h : LatchesOf(h)' = LatchesOf(h)
           /\ \A h : Natural(h)' = Natural(h)
           /\ Given => Given'
<1>1. Listed' = Listed
  BY DEF Listed
<1>2. Headers' = Headers
  BY DEF Headers
<1>3. \A h : LatchesOf(h)' = LatchesOf(h)
  BY DEF LatchesOf
<1>4. \A h : Natural(h)' = Natural(h)
  BY <1>1, <1>3 DEF Natural, Dom, ReachesAround
<1>5. Given => Given'
  BY <1>1 DEF Given, Dom
<1> QED
  BY <1>1, <1>2, <1>3, <1>4, <1>5

\* The header of the loop that is being collected.
LEMMA HeaderListed ==
    ASSUME Given, Collected, Len(loops) < Len(Headers)
    PROVE  Header \in Listed /\ Header \in Block
<1>1. PICK n \in Nat : n = Len(loops)
  BY DEF Collected
<1>2. PICK k \in Nat : k = Len(Headers) /\ DOMAIN Headers = 1 .. k
  BY HeadersListed
<1>3. n + 1 \in DOMAIN Headers
  BY <1>1, <1>2
<1> QED
  BY <1>1, <1>3, HeadersListed DEF Header

LEMMA ForestBegins ==
    ASSUME Given, Begin
    PROVE  ForestInv
<1>1. loops = <<>> /\ DOMAIN loops = {} /\ Len(loops) = 0
  BY DEF Begin
<1>2. Collected
  BY <1>1, HeadersListed DEF Collected
<1>3. phase \in Phase /\ Walking /\ Numbering
  BY DEF Begin, Walking, Numbering, Phase
<1> QED
  BY <1>2, <1>3 DEF ForestInv

LEMMA StartKeeps ==
    ASSUME ForestInv, Start
    PROVE  ForestInv'
<1>1. Given /\ Collected /\ Numbering /\ phase = "start" /\ phase' = "walk"
  BY DEF ForestInv, Start
<1>2. UNCHANGED <<facts, loops, parent, depth, innermost>> /\ Len(loops) < Len(Headers)
  BY DEF Start
<1>3. PICK h \in Block : h = Header /\ h \in Listed
  BY <1>1, <1>2, HeaderListed
<1>4. Given' /\ Collected' /\ Header' = h /\ Len(loops') < Len(Headers')
  BY <1>1, <1>2, <1>3, FactsFixed DEF Collected, Header
<1>5. PICK L : L = LatchesOf(h)
  OBVIOUS
<1>6. LatchesOf(h)' = L /\ Natural(h)' = Natural(h)
  BY <1>2, <1>5, FactsFixed
<1>7. member' = L \cup {h} /\ worklist' = Ascending(L \ {h})
  BY <1>3, <1>5 DEF Start
<1>8. L \subseteq Natural(h) /\ h \in Natural(h) /\ L \subseteq Block
  BY <1>1, <1>3, <1>5, NaturalGiven
<1>9. worklist' \in Seq(L \ {h}) /\ Elements(worklist') = L \ {h}
  BY <1>7, <1>8, AscendingElements
<1>10. Elements(worklist)' = L \ {h} /\ L \ {h} = member' \ {h}
  BY <1>7, <1>9 DEF Elements
<1>11. Walking'
  BY <1>4, <1>6, <1>7, <1>8, <1>9, <1>10 DEF Walking
<1>12. Numbering' /\ phase' \in Phase
  BY <1>1, <1>2 DEF Numbering, Phase
<1> QED
  BY <1>4, <1>11, <1>12 DEF ForestInv

LEMMA WalkKeeps ==
    ASSUME ForestInv, Walk
    PROVE  ForestInv'
<1>1. Given /\ Collected /\ Walking /\ Numbering /\ phase = "walk"
  BY DEF ForestInv, Walk
<1>2. UNCHANGED <<facts, phase, loops, parent, depth, innermost>> /\ worklist # <<>>
  BY DEF Walk
<1>3. PICK h \in Block : h = Header /\ h \in Listed
  BY <1>1, HeaderListed DEF Walking
<1>4. Given' /\ Collected' /\ Header' = h /\ LatchesOf(h)' = LatchesOf(h)
      /\ Natural(h)' = Natural(h)
  BY <1>1, <1>2, <1>3, FactsFixed DEF Collected, Header
<1>5. /\ Len(loops) < Len(Headers)
      /\ h \in member /\ LatchesOf(h) \subseteq member /\ member \subseteq Natural(h)
      /\ worklist \in Seq(member \ {h})
      /\ \A y \in member \ {h} :
          y \notin Elements(worklist) => Preds(facts.succs, y) \cap Listed \subseteq member
  BY <1>1, <1>3 DEF Walking
<1>6. PICK x, new : x = worklist[Len(worklist)] /\ new = Unmarked(x)
  OBVIOUS
<1>7. PICK w : w = SubSeq(worklist, 1, Len(worklist) - 1) \o Ascending(new)
  OBVIOUS
<1>8. member' = member \cup new /\ worklist' = w
  BY <1>6, <1>7 DEF Walk
<1>9. new = (Preds(facts.succs, x) \cap Listed) \ member
  BY <1>6 DEF Unmarked, Listed
<1>10. new \subseteq Block /\ h \notin new
  BY <1>1, <1>5, <1>9, DomOrder
<1>11. /\ worklist \in Seq((member \cup new) \ {h})
       /\ Ascending(new) \in Seq((member \cup new) \ {h})
       /\ Elements(Ascending(new)) = new
  BY <1>5, <1>10, AscendingElements
<1>12. /\ w \in Seq((member \cup new) \ {h})
       /\ new \subseteq Elements(w)
       /\ \A y \in Elements(worklist) : y = x \/ y \in Elements(w)
  BY <1>2, <1>6, <1>7, <1>11, ListReplaced
<1>13. x \in member \ {h}
  BY <1>2, <1>5, <1>6, ListReplaced
<1>14. new \subseteq Natural(h)
  BY <1>1, <1>3, <1>5, <1>9, <1>13, PredecessorInside
<1>15. ASSUME NEW y \in (member \cup new) \ {h}, y \notin Elements(w)
       PROVE  Preds(facts.succs, y) \cap Listed \subseteq member \cup new
  <2>1. y \in member
    BY <1>12, <1>15
  <2>2. CASE y = x
    BY <1>9, <2>2
  <2>3. CASE y # x
    BY <1>5, <1>12, <1>15, <2>1, <2>3
  <2> QED
    BY <2>2, <2>3
<1>16. Elements(worklist)' = Elements(w) /\ Listed' = Listed /\ facts'.succs = facts.succs
  BY <1>2, <1>8, FactsFixed DEF Elements
<1>17. \A y : Preds(facts.succs, y)' = Preds(facts.succs, y)
  BY <1>16 DEF Preds, Succs
<1>18. Len(loops)' < Len(Headers)'
  BY <1>2, <1>5, FactsFixed
<1>19. \A y \in member' \ {h} :
          y \notin Elements(worklist)' => Preds(facts.succs, y)' \cap Listed' \subseteq member'
  BY <1>8, <1>15, <1>16, <1>17
<1>20. /\ h \in member' /\ LatchesOf(h) \subseteq member' /\ member' \subseteq Natural(h)
       /\ worklist' \in Seq(member' \ {h})
  BY <1>5, <1>8, <1>12, <1>14
<1>21. Walking'
  BY <1>4, <1>18, <1>19, <1>20 DEF Walking
<1>22. Numbering' /\ phase' \in Phase
  BY <1>1, <1>2 DEF Numbering, Phase
<1> QED
  BY <1>4, <1>21, <1>22 DEF ForestInv

LEMMA CollectKeeps ==
    ASSUME ForestInv, Collect
    PROVE  ForestInv'
<1>1. Given /\ Collected /\ Walking /\ Numbering /\ phase = "walk" /\ phase' = "start"
  BY DEF ForestInv, Collect
<1>2. UNCHANGED <<facts, parent, depth, innermost>> /\ worklist = <<>>
  BY DEF Collect
<1>3. PICK h \in Block : h = Header /\ h \in Listed
  BY <1>1, HeaderListed DEF Walking
<1>4. Elements(worklist) = {}
  BY <1>2 DEF Elements
<1>5. member = Natural(h)
  BY <1>1, <1>3, <1>4, WalkedAll DEF Walking
<1>6. PICK l : l = [header |-> h, latches |-> LatchesOf(h), blocks |-> Natural(h)]
  OBVIOUS
<1>7. loops' = Append(loops, l)
  BY <1>3, <1>5, <1>6 DEF Collect
<1> DEFINE R == [header : Block, latches : SUBSET Block, blocks : SUBSET Block]
<1>8. l \in R
  <2>1. LatchesOf(h) \subseteq Block /\ Natural(h) \subseteq Block
    BY <1>1, <1>3, NaturalGiven
  <2> QED
    BY <1>6, <2>1
<1>9. loops \in Seq(R)
  BY <1>1 DEF Collected
<1> HIDE DEF R
<1>10. PICK n \in Nat : n = Len(loops) /\ DOMAIN loops = 1 .. n
  BY <1>9
<1>11. /\ loops' \in Seq(R) /\ DOMAIN loops' = 1 .. n + 1 /\ Len(loops') = n + 1
       /\ \A i \in 1 .. n : loops'[i] = loops[i]
       /\ loops'[n + 1] = l
  BY <1>7, <1>8, <1>9, <1>10
<1>12. n + 1 <= Len(Headers)
  BY <1>1, <1>10, HeadersListed DEF Walking
<1>13. Headers[n + 1] = h
  BY <1>3, <1>10 DEF Header
<1>14. ASSUME NEW i \in 1 .. n + 1
       PROVE  /\ loops'[i].header = Headers[i]
              /\ loops'[i].latches = LatchesOf(Headers[i])
              /\ loops'[i].blocks = Natural(Headers[i])
  <2>1. CASE i = n + 1
    BY <1>6, <1>11, <1>13, <2>1
  <2>2. CASE i # n + 1
    BY <1>1, <1>10, <1>11, <2>2 DEF Collected
  <2> QED
    BY <2>1, <2>2
<1>15. Collected'
  BY <1>2, <1>11, <1>12, <1>14, FactsFixed DEF Collected, R
<1>16. Given' /\ Walking' /\ Numbering' /\ phase' \in Phase
  BY <1>1, <1>2, FactsFixed DEF Walking, Numbering, Phase
<1> QED
  BY <1>15, <1>16 DEF ForestInv

LEMMA AllCollectedKeeps ==
    ASSUME ForestInv, AllCollected
    PROVE  ForestInv'
<1>1. Given /\ Collected /\ Numbering /\ phase = "start" /\ phase' = "nest"
  BY DEF ForestInv, AllCollected
<1>2. UNCHANGED <<facts, loops, parent, depth, innermost>>
  BY DEF AllCollected
<1>3. Given' /\ Collected'
  BY <1>1, <1>2, FactsFixed DEF Collected
<1>4. Walking' /\ Numbering' /\ phase' \in Phase
  BY <1>1, <1>2 DEF Walking, Numbering, Phase
<1> QED
  BY <1>3, <1>4 DEF ForestInv

-----------------------------------------------------------------------------
(* How the collected loops are nested *)

Containing(i) == {j \in DOMAIN loops : loops[i].blocks \subseteq loops[j].blocks}

LEMMA LoopsFixed ==
    ASSUME UNCHANGED loops
    PROVE  /\ \A i : Size(i)' = Size(i)
           /\ \A i : Around(i)' = Around(i)
           /\ \A i : ParentOf(i)' = ParentOf(i)
           /\ \A i, j : Before(i, j)' = Before(i, j)
<1>1. \A i : Size(i)' = Size(i)
  BY DEF Size
<1>2. \A i : Around(i)' = Around(i)
  BY DEF Around
<1>3. \A i : ParentOf(i)' = ParentOf(i)
  BY DEF ParentOf, Size, Around
<1>4. \A i, j : Before(i, j)' = Before(i, j)
  BY <1>1 DEF Before
<1> QED
  BY <1>1, <1>2, <1>3, <1>4

\* Of two loops that share a block, one is around the other; and a loop around
\* another one holds its blocks, and its own header besides.
LEMMA LoopsLie ==
    ASSUME Given, Collected
    PROVE  /\ \A i \in DOMAIN loops :
                loops[i].header \in loops[i].blocks /\ loops[i].blocks \in SUBSET Block
           /\ \A i \in DOMAIN loops : \A j \in Around(i) :
                /\ loops[i].blocks \subseteq loops[j].blocks
                /\ loops[j].header \notin loops[i].blocks
           /\ \A i, j \in DOMAIN loops : \A b \in loops[i].blocks \cap loops[j].blocks :
                i = j \/ j \in Around(i) \/ i \in Around(j)
<1>1. PICK n \in Nat, k \in Nat :
          /\ DOMAIN loops = 1 .. n
          /\ DOMAIN Headers = 1 .. k
          /\ n <= k
  <2>1. PICK n \in Nat : n = Len(loops) /\ DOMAIN loops = 1 .. n
    BY DEF Collected
  <2>2. Len(loops) <= Len(Headers)
    BY DEF Collected
  <2> QED
    BY <2>1, <2>2, HeadersListed
<1>2. \A i \in DOMAIN loops :
          /\ i \in DOMAIN Headers
          /\ loops[i].header = Headers[i] /\ loops[i].blocks = Natural(Headers[i])
          /\ Headers[i] \in Listed
  BY <1>1, HeadersListed DEF Collected
<1>3. \A i, j \in DOMAIN loops : i # j => Headers[i] # Headers[j]
  BY <1>2, HeadersListed
<1>4. ASSUME NEW i \in DOMAIN loops
      PROVE  loops[i].header \in loops[i].blocks /\ loops[i].blocks \in SUBSET Block
  <2>1. PICK h \in Listed : h = Headers[i]
    BY <1>2
  <2> QED
    BY <1>2, <2>1, NaturalGiven
<1>5. ASSUME NEW i \in DOMAIN loops, NEW j \in Around(i)
      PROVE  loops[i].blocks \subseteq loops[j].blocks /\ loops[j].header \notin loops[i].blocks
  <2>1. j \in DOMAIN loops /\ j # i /\ loops[i].header \in loops[j].blocks
    BY DEF Around
  <2>2. PICK h \in Listed, l \in Listed : h = Headers[j] /\ l = Headers[i]
    BY <1>2, <2>1
  <2>3. h # l /\ l \in Natural(h)
    BY <1>2, <1>3, <2>1, <2>2
  <2> QED
    BY <1>2, <2>1, <2>2, <2>3, LoopInside
<1>6. ASSUME NEW i \in DOMAIN loops, NEW j \in DOMAIN loops,
             NEW b \in loops[i].blocks \cap loops[j].blocks, i # j
      PROVE  j \in Around(i) \/ i \in Around(j)
  <2>1. PICK h \in Listed, l \in Listed : h = Headers[j] /\ l = Headers[i]
    BY <1>2
  <2>2. h # l /\ b \in Natural(h) /\ b \in Natural(l)
    BY <1>2, <1>3, <1>6, <2>1
  <2>3. l \in Natural(h) \/ h \in Natural(l)
    BY <2>2, LoopsNested
  <2> QED
    BY <1>2, <1>6, <2>1, <2>3 DEF Around
<1> QED
  BY <1>4, <1>5, <1>6

\* Loops grow outwards.
LEMMA SizesGrow ==
    ASSUME Given, Collected, NEW i \in DOMAIN loops
    PROVE  /\ Size(i) \in Nat
           /\ \A j \in Around(i) : Size(i) < Size(j) /\ Size(j) \in Nat
<1>1. ASSUME NEW j \in DOMAIN loops
      PROVE  Size(j) \in Nat
  BY LoopsLie, FiniteBlocks DEF Size
<1>2. ASSUME NEW j \in Around(i)
      PROVE  Size(i) < Size(j)
  <2>1. j \in DOMAIN loops
    BY DEF Around
  <2>2. PICK A \in SUBSET Block, B \in SUBSET Block :
            A = loops[i].blocks /\ B = loops[j].blocks
    BY <2>1, LoopsLie
  <2>3. A \subseteq B /\ A # B
    BY <2>1, <2>2, LoopsLie
  <2>4. Cardinality(A) <= Cardinality(B) /\ Cardinality(A) # Cardinality(B)
    BY <2>3, FiniteBlocks, FS_Subset
  <2>5. Size(i) = Cardinality(A) /\ Size(j) = Cardinality(B)
    BY <2>2 DEF Size
  <2>6. Cardinality(A) \in Nat /\ Cardinality(B) \in Nat
    BY FiniteBlocks
  <2> QED
    BY <2>4, <2>5, <2>6
<1>3. Around(i) \subseteq DOMAIN loops
  BY DEF Around
<1> QED
  BY <1>1, <1>2, <1>3

\* The loops around a loop are its strict supersets.
LEMMA AroundContains ==
    ASSUME Given, Collected, NEW i \in DOMAIN loops
    PROVE  Containing(i) = Around(i) \cup {i}
<1>1. Around(i) \subseteq Containing(i)
  BY LoopsLie DEF Around, Containing
<1>2. Containing(i) \subseteq Around(i) \cup {i}
  BY LoopsLie DEF Around, Containing
<1> QED
  BY <1>1, <1>2 DEF Containing

\* The parent is the loop next around.
LEMMA ParentFound ==
    ASSUME Given, Collected, NEW i \in DOMAIN loops
    PROVE  IF Around(i) = {} THEN ParentOf(i) = None
           ELSE /\ ParentOf(i) \in Around(i)
                /\ ParentOf(i) # None
                /\ \A k \in Around(i) : k = ParentOf(i) \/ k \in Around(ParentOf(i))
<1>1. CASE Around(i) = {}
  BY <1>1 DEF ParentOf
<1>2. CASE Around(i) # {}
  <2> DEFINE First(j) == \A k \in Around(i) :
                Size(j) < Size(k) \/ (Size(j) = Size(k) /\ j <= k)
             Sizes == {Size(j) : j \in Around(i)}
  <2>1. DOMAIN loops \subseteq Nat \ {0}
    <3>1. PICK n \in Nat : DOMAIN loops = 1 .. n
      BY DEF Collected
    <3> QED
      BY <3>1
  <2>2. Around(i) \subseteq DOMAIN loops
    BY DEF Around
  <2>3. \A j \in Around(i) : Size(j) \in Nat
    BY SizesGrow
  <2>4. PICK x \in Sizes : \A y \in Sizes : x <= y
    BY <1>2, <2>3, LeastNumber
  <2>5. PICK j \in {k \in Around(i) : Size(k) = x} :
            \A k \in {l \in Around(i) : Size(l) = x} : j <= k
    BY <2>1, <2>2, LeastNumber
  <2>6. x \in Nat /\ \A k \in Around(i) : x <= Size(k)
    BY <2>3, <2>4
  <2>7. First(j)
    BY <2>3, <2>5, <2>6
  <2>8. \E p \in Around(i) : First(p)
    BY <2>5, <2>7
  <2>9. ParentOf(i) = CHOOSE p \in Around(i) : First(p)
    BY <1>2 DEF ParentOf
  <2> HIDE DEF First
  <2>10. PICK p \in Around(i) : p = ParentOf(i) /\ First(p)
    BY <2>8, <2>9
  <2>11. ASSUME NEW k \in Around(i), k # p
         PROVE  k \in Around(p)
    <3>1. p \in DOMAIN loops /\ k \in DOMAIN loops
      BY <2>2
    <3>2. loops[i].header \in loops[p].blocks \cap loops[k].blocks
      BY DEF Around
    <3>3. k \in Around(p) \/ p \in Around(k)
      BY <2>11, <3>1, <3>2, LoopsLie
    <3>4. ~(Size(k) < Size(p))
      BY <2>3, <2>10 DEF First
    <3> QED
      BY <3>1, <3>3, <3>4, SizesGrow
  <2> QED
    BY <1>2, <2>1, <2>2, <2>10, <2>11 DEF None
<1> QED
  BY <1>1, <1>2

\* The parent has one loop less around it.
LEMMA DepthOneMore ==
    ASSUME Given, Collected, NEW i \in DOMAIN loops
    PROVE  /\ Around(i) = {} => Cardinality(Containing(i)) = 1
           /\ Around(i) # {} =>
                /\ ParentOf(i) \in DOMAIN loops
                /\ Cardinality(Containing(i)) = Cardinality(Containing(ParentOf(i))) + 1
<1>1. ASSUME Around(i) = {}
      PROVE  Cardinality(Containing(i)) = 1
  BY <1>1, AroundContains, FS_Singleton
<1>2. ASSUME Around(i) # {}
      PROVE  /\ ParentOf(i) \in DOMAIN loops
             /\ Cardinality(Containing(i)) = Cardinality(Containing(ParentOf(i))) + 1
  <2>1. PICK p \in Around(i) :
            p = ParentOf(i) /\ \A k \in Around(i) : k = p \/ k \in Around(p)
    BY <1>2, ParentFound
  <2>2. p \in DOMAIN loops /\ p # i
    BY DEF Around
  <2>3. Containing(p) = Around(p) \cup {p} /\ Containing(i) = Around(i) \cup {i}
    BY <2>2, AroundContains
  <2>4. i \notin Containing(p)
    BY <2>2, LoopsLie DEF Containing
  <2>5. Containing(p) \subseteq Containing(i)
    BY <2>2, LoopsLie DEF Containing
  <2>6. Containing(i) = Containing(p) \cup {i}
    BY <2>1, <2>3, <2>4, <2>5
  <2>7. IsFiniteSet(Containing(p))
    <3>1. PICK n \in Nat : DOMAIN loops = 1 .. n
      BY DEF Collected
    <3>2. Containing(p) \in SUBSET (1 .. n)
      BY <3>1 DEF Containing
    <3>3. IsFiniteSet(1 .. n)
      BY FS_Interval
    <3> QED
      BY <3>2, <3>3, FS_Subset
  <2> QED
    BY <2>1, <2>2, <2>4, <2>6, <2>7, FS_AddElement
<1> QED
  BY <1>1, <1>2

-----------------------------------------------------------------------------
(* Nesting the loops keeps the invariant *)

LEMMA NestKeeps ==
    ASSUME ForestInv, Nest
    PROVE  ForestInv'
<1>1. Given /\ Collected /\ Numbering /\ phase = "nest" /\ phase' = "depth"
  BY DEF ForestInv, Nest
<1>2. UNCHANGED <<facts, loops, innermost>>
  BY DEF Nest
<1>3. Given' /\ Collected'
  BY <1>1, <1>2, FactsFixed DEF Collected
<1>4. parent' = [i \in DOMAIN loops' |-> ParentOf(i)']
  BY <1>2, LoopsFixed DEF Nest
<1>5. depth' = [i \in DOMAIN loops |-> 0]
  BY DEF Nest
<1>6. depth' \in [DOMAIN loops' -> Nat]
  BY <1>2, <1>5
<1>7. LargerFirst'
  BY <1>2, <1>5 DEF LargerFirst
<1>8. DepthCounts'
  BY <1>5 DEF DepthCounts
<1>9. innermost = [b \in Block |-> None]
  BY <1>1 DEF Numbering
<1>10. InsideSoFar'
  BY <1>2, <1>5, <1>9 DEF InsideSoFar
<1>11. Numbering'
  BY <1>1, <1>4, <1>6, <1>7, <1>8, <1>10 DEF Numbering
<1>12. Walking' /\ phase' \in Phase
  BY <1>1 DEF Walking, Phase
<1> QED
  BY <1>3, <1>11, <1>12 DEF ForestInv

LEMMA NumberKeeps ==
    ASSUME ForestInv, Number
    PROVE  ForestInv'
<1>1. Given /\ Collected /\ Numbering /\ phase \in Phase
  BY DEF ForestInv
<1>2. phase = "depth" /\ UNCHANGED <<facts, phase, loops, parent>>
  BY DEF Number
<1>3. /\ parent = [i \in DOMAIN loops |-> ParentOf(i)]
      /\ depth \in [DOMAIN loops -> Nat]
      /\ LargerFirst /\ DepthCounts /\ InsideSoFar
  BY <1>1, <1>2 DEF Numbering
<1>4. Given' /\ Collected'
  BY <1>1, <1>2, FactsFixed DEF Collected
<1>5. PICK i \in DOMAIN loops :
        /\ depth[i] = 0
        /\ \A j \in DOMAIN loops : depth[j] = 0 /\ j # i => Before(i, j)
        /\ depth' = [depth EXCEPT ![i] =
                        IF parent[i] = None THEN 1 ELSE depth[parent[i]] + 1]
        /\ innermost' = [b \in Block |->
                            IF b \in loops[i].blocks THEN i ELSE innermost[b]]
  BY DEF Number
<1>6. PICK d : d = IF parent[i] = None THEN 1 ELSE depth[parent[i]] + 1
  OBVIOUS
<1>7. \A j \in DOMAIN loops : depth'[j] = IF j = i THEN d ELSE depth[j]
  BY <1>3, <1>5, <1>6
<1>8. \A j \in DOMAIN loops : Size(j) \in Nat
  BY <1>1, SizesGrow
<1>9. d = Cardinality(Containing(i)) /\ d \in Nat \ {0}
  <2>1. CASE Around(i) = {}
    <3>1. parent[i] = None
      BY <1>1, <1>3, <2>1, ParentFound
    <3> QED
      BY <1>1, <1>6, <2>1, <3>1, DepthOneMore
  <2>2. CASE Around(i) # {}
    <3>1. PICK p \in Around(i) : p = parent[i] /\ p = ParentOf(i) /\ p # None
      BY <1>1, <1>3, <2>2, ParentFound
    <3>2. p \in DOMAIN loops /\ p # i /\ Size(i) < Size(p)
      BY <1>1, SizesGrow DEF Around
    <3>3. ~Before(i, p)
      BY <1>8, <3>2 DEF Before
    <3>4. depth[p] # 0 /\ depth[p] \in Nat
      BY <1>3, <1>5, <3>2, <3>3
    <3>5. depth[p] = Cardinality(Containing(p))
      BY <1>3, <3>2, <3>4 DEF DepthCounts, Containing
    <3>6. Cardinality(Containing(i)) = Cardinality(Containing(p)) + 1
      BY <1>1, <2>2, <3>1, DepthOneMore
    <3> QED
      BY <1>6, <3>1, <3>4, <3>5, <3>6
  <2> QED
    BY <2>1, <2>2
<1>10. parent' = [j \in DOMAIN loops' |-> ParentOf(j)']
  BY <1>2, <1>3, LoopsFixed
<1>11. depth' \in [DOMAIN loops' -> Nat]
  BY <1>2, <1>3, <1>5, <1>6, <1>9
<1>12. LargerFirst'
  <2>1. ASSUME NEW j \in DOMAIN loops, NEW k \in DOMAIN loops, depth'[j] # 0, depth'[k] = 0
        PROVE  Before(j, k)
    <3>1. k # i /\ depth[k] = 0
      BY <1>7, <1>9, <2>1
    <3>2. CASE j = i
      BY <1>5, <3>1, <3>2
    <3>3. CASE j # i
      BY <1>3, <1>7, <2>1, <3>1, <3>3 DEF LargerFirst
    <3> QED
      BY <3>2, <3>3
  <2> QED
    BY <1>2, <2>1, LoopsFixed DEF LargerFirst
<1>13. DepthCounts'
  <2>1. DOMAIN depth' = DOMAIN loops /\ DOMAIN depth = DOMAIN loops
    BY <1>3, <1>5
  <2>2. ASSUME NEW j \in DOMAIN loops, depth'[j] # 0
        PROVE  depth'[j] = Cardinality(Containing(j))
    <3>1. CASE j = i
      BY <1>7, <1>9, <3>1
    <3>2. CASE j # i
      BY <1>3, <1>7, <2>1, <2>2, <3>2 DEF DepthCounts, Containing
    <3> QED
      BY <3>1, <3>2
  <2> QED
    BY <1>2, <2>1, <2>2 DEF DepthCounts, Containing
<1>14. InsideSoFar'
  <2> SUFFICES ASSUME NEW b \in Block,
                      NEW T, T = {j \in DOMAIN loops : depth'[j] # 0 /\ b \in loops[j].blocks}
               PROVE  IF T = {} THEN innermost'[b] = None
                      ELSE /\ innermost'[b] \in T
                           /\ \A j \in T : loops[innermost'[b]].blocks \subseteq loops[j].blocks
    BY ZenonT(60), <1>2 DEF InsideSoFar
  <2>1. CASE b \in loops[i].blocks
    <3>1. innermost'[b] = i /\ i \in T
      BY <1>5, <1>7, <1>9, <2>1
    <3>2. ASSUME NEW j \in T, j # i
          PROVE  loops[i].blocks \subseteq loops[j].blocks
      <4>1. j \in DOMAIN loops /\ depth[j] # 0 /\ b \in loops[j].blocks
        BY <1>7, <3>2
      <4>2. Before(j, i)
        BY <1>3, <1>5, <4>1 DEF LargerFirst
      <4>3. ~(Size(j) < Size(i))
        BY <1>8, <4>1, <4>2 DEF Before
      <4>4. i \notin Around(j)
        BY <1>1, <4>1, <4>3, SizesGrow
      <4>5. j \in Around(i)
        BY <1>1, <2>1, <3>2, <4>1, <4>4, LoopsLie
      <4> QED
        BY <1>1, <4>5, LoopsLie
    <3> QED
      BY <3>1, <3>2
  <2>2. CASE b \notin loops[i].blocks
    <3>1. T = {j \in DOMAIN loops : depth[j] # 0 /\ b \in loops[j].blocks}
      BY <1>7, <2>2
    <3>2. innermost'[b] = innermost[b]
      BY <1>5, <2>2
    <3> QED
      BY <1>3, <3>1, <3>2 DEF InsideSoFar
  <2> QED
    BY <2>1, <2>2
<1>15. Numbering'
  BY <1>2, <1>10, <1>11, <1>12, <1>13, <1>14 DEF Numbering
<1>16. Walking' /\ phase' \in Phase
  BY <1>1, <1>2 DEF Walking
<1> QED
  BY <1>4, <1>15, <1>16 DEF ForestInv

LEMMA FinishKeeps ==
    ASSUME ForestInv, Finish
    PROVE  ForestInv'
<1>1. Given /\ Collected /\ Numbering /\ phase = "depth" /\ phase' = "built"
  BY DEF ForestInv, Finish
<1>2. UNCHANGED <<facts, loops, parent, depth, innermost>>
  BY DEF Finish
<1>3. Given' /\ Collected'
  BY <1>1, <1>2, FactsFixed DEF Collected
<1>4. parent' = [i \in DOMAIN loops' |-> ParentOf(i)']
  BY <1>1, <1>2, LoopsFixed DEF Numbering
<1>5. /\ depth' \in [DOMAIN loops' -> Nat]
      /\ LargerFirst' /\ DepthCounts' /\ InsideSoFar'
  BY <1>1, <1>2, LoopsFixed DEF Numbering, LargerFirst, DepthCounts, InsideSoFar
<1>6. \A i \in DOMAIN loops' : depth'[i] # 0
  BY <1>2 DEF Finish
<1>7. Numbering'
  BY <1>1, <1>4, <1>5, <1>6 DEF Numbering
<1>8. Walking' /\ phase' \in Phase
  BY <1>1 DEF Walking, Phase
<1> QED
  BY <1>3, <1>7, <1>8 DEF ForestInv

-----------------------------------------------------------------------------
(* The invariant and what it shows *)

\* Every step of LoopForest, and every step of anything else, keeps it.
THEOREM ForestKeeps == ForestInv /\ [Next]_vars => ForestInv'
<1> SUFFICES ASSUME ForestInv, [Next]_vars PROVE ForestInv'
  OBVIOUS
<1>1. CASE UNCHANGED vars
  <2>1. Given /\ Collected /\ Walking /\ Numbering /\ phase \in Phase
    BY DEF ForestInv
  <2>2. UNCHANGED <<facts, phase, member, worklist, loops, parent, depth, innermost>>
    BY <1>1 DEF vars
  <2>3. Given' /\ Collected'
    BY <2>1, <2>2, FactsFixed DEF Collected
  <2>4. Walking'
    BY <2>1, <2>2, FactsFixed DEF Walking, Header, Elements, Preds, Succs
  <2>5. Numbering'
    BY <2>1, <2>2, LoopsFixed DEF Numbering, LargerFirst, DepthCounts, InsideSoFar
  <2> QED
    BY <2>1, <2>2, <2>3, <2>4, <2>5 DEF ForestInv
<1> QED
  BY <1>1, StartKeeps, WalkKeeps, CollectKeeps, AllCollectedKeeps, NestKeeps,
     NumberKeeps, FinishKeeps DEF Next

\* The loops are the natural loops, at any time, and once there are parents,
\* depths and innermost loops they describe the nesting.
THEOREM ForestShows ==
    ForestInv => LoopsNatural /\ Laminar /\ DepthCounts /\ InnermostInside
<1> SUFFICES ASSUME ForestInv
             PROVE  LoopsNatural /\ Laminar /\ DepthCounts /\ InnermostInside
  OBVIOUS
<1>1. Given /\ Collected /\ Numbering /\ phase \in Phase
  BY DEF ForestInv
<1>2. LoopsNatural
  BY <1>1 DEF Collected, LoopsNatural, Natural, Listed, Dom
<1>3. Laminar
  <2>1. ASSUME NEW i \in DOMAIN loops, NEW j \in DOMAIN loops
        PROVE  \/ loops[i].blocks \cap loops[j].blocks = {}
               \/ loops[i].blocks \subseteq loops[j].blocks
               \/ loops[j].blocks \subseteq loops[i].blocks
    BY <1>1, LoopsLie
  <2>2. CASE phase \notin {"depth", "built"}
    BY <1>1, <2>1, <2>2 DEF Laminar, Numbering
  <2>3. CASE phase \in {"depth", "built"}
    <3>1. parent = [i \in DOMAIN loops |-> ParentOf(i)]
      BY <1>1, <2>3 DEF Numbering
    <3>2. ASSUME NEW i \in DOMAIN loops,
                 NEW T, T = {j \in DOMAIN loops :
                                j # i /\ loops[i].blocks \subseteq loops[j].blocks}
          PROVE  IF parent[i] = None THEN T = {}
                 ELSE /\ parent[i] \in T
                      /\ loops[parent[i]].blocks # loops[i].blocks
                      /\ \A j \in T : loops[parent[i]].blocks \subseteq loops[j].blocks
      <4>1. T = Around(i)
        <5>1. T = Containing(i) \ {i} /\ i \notin Around(i)
          BY <3>2 DEF Containing, Around
        <5> QED
          BY <1>1, <5>1, AroundContains
      <4>2. CASE Around(i) = {}
        BY <1>1, <3>1, <4>1, <4>2, ParentFound
      <4>3. CASE Around(i) # {}
        <5>1. PICK p \in Around(i) :
                  /\ p = parent[i] /\ p # None
                  /\ \A k \in Around(i) : k = p \/ k \in Around(p)
          BY <1>1, <3>1, <4>3, ParentFound
        <5>2. p \in DOMAIN loops
          BY DEF Around
        <5>3. loops[p].blocks # loops[i].blocks
          BY <1>1, <5>2, LoopsLie
        <5>4. \A k \in Around(i) : loops[p].blocks \subseteq loops[k].blocks
          BY <1>1, <5>1, <5>2, LoopsLie
        <5> QED
          BY <4>1, <5>1, <5>3, <5>4
      <4> QED
        BY <4>2, <4>3
    <3>3. DOMAIN parent = DOMAIN loops
      BY <3>1
    <3>4. ASSUME NEW i \in DOMAIN parent
          PROVE  LET supersets == {j \in DOMAIN loops :
                                     j # i /\ loops[i].blocks \subseteq loops[j].blocks}
                 IN  IF parent[i] = None THEN supersets = {}
                     ELSE /\ parent[i] \in supersets
                          /\ loops[parent[i]].blocks # loops[i].blocks
                          /\ \A j \in supersets :
                                loops[parent[i]].blocks \subseteq loops[j].blocks
      BY <3>2, <3>3
    <3> QED
      BY <2>1, <3>4 DEF Laminar
  <2> QED
    BY <2>2, <2>3
<1>4. DepthCounts
  BY <1>1 DEF Numbering, DepthCounts
<1>5. InnermostInside
  <2>1. CASE phase # "built"
    BY <2>1 DEF InnermostInside
  <2>2. CASE phase = "built"
    <3>1. InsideSoFar /\ \A i \in DOMAIN loops : depth[i] # 0
      BY <1>1, <2>2 DEF Numbering
    <3>2. \A b \in Block :
            {j \in DOMAIN loops : depth[j] # 0 /\ b \in loops[j].blocks}
                = {j \in DOMAIN loops : b \in loops[j].blocks}
      BY <3>1
    <3> QED
      BY <3>1, <3>2 DEF InsideSoFar, InnermostInside
  <2> QED
    BY <2>1, <2>2
<1> QED
  BY <1>2, <1>3, <1>4, <1>5
=============================================================================
