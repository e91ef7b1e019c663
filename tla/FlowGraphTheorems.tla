------------------------- MODULE FlowGraphTheorems -------------------------
(***************************************************************************)
(* Facts about the operators of FlowGraph that the proofs about the        *)
(* control-flow facts (sordec-passes, dataflow/cfg.rs) rest on.            *)
(***************************************************************************)
EXTENDS FlowGraph, FiniteSetTheorems, WellFoundedInduction, TLAPS

-----------------------------------------------------------------------------
(* Reachability *)

\* A block reached through P is reached through any P that holds more.
LEMMA ReachableMore ==
    ASSUME NEW g, NEW P, NEW Q, P \subseteq Q, NEW b, ReachableWithin(g, P, b)
    PROVE  ReachableWithin(g, Q, b)
BY DEF ReachableWithin, ClosedWithin

\* A successor of a reached block is reached as soon as both may be used.
LEMMA ReachableNext ==
    ASSUME NEW g, NEW P, NEW b \in P, ReachableWithin(g, P, b),
           NEW c \in Succs(g, b), c \in P
    PROVE  ReachableWithin(g, P, c)
BY DEF ReachableWithin, ClosedWithin

\* The entry is reached through any set.
LEMMA ReachableEntry == \A g, P : ReachableWithin(g, P, Entry)
BY DEF ReachableWithin

\* A set that holds the entry and every successor of its blocks holds every
\* reachable block.
LEMMA ReachableInClosed ==
    ASSUME NEW g, NEW S \in SUBSET Block, Entry \in S,
           \A x \in S : Succs(g, x) \subseteq S
    PROVE  ReachableBlocks(g) \subseteq S
BY DEF ReachableBlocks, ReachableWithin, ClosedWithin

\* A block's successors are the blocks its list names.
LEMMA SuccsNamed ==
    ASSUME NEW g \in Adjacency, NEW b \in Block
    PROVE  /\ g[b] \in Seq(Block)
           /\ Len(g[b]) \in Nat
           /\ Succs(g, b) = {g[b][i] : i \in 1 .. Len(g[b])}
           /\ Succs(g, b) \subseteq Block
<1>1. g[b] \in Seq(Block)
  BY DEF Adjacency
<1>2. Len(g[b]) \in Nat /\ DOMAIN g[b] = 1 .. Len(g[b])
  BY <1>1
<1>3. \A i \in 1 .. Len(g[b]) : g[b][i] \in Block
  BY <1>1
<1> QED
  BY <1>1, <1>2, <1>3 DEF Succs

-----------------------------------------------------------------------------
(* Orders *)

\* A block that is listed has a place, where it is found.
LEMMA PosFinds ==
    ASSUME NEW order, NEW b \in Elements(order)
    PROVE  Pos(order, b) \in DOMAIN order /\ order[Pos(order, b)] = b
<1>1. \E i \in DOMAIN order : order[i] = b
  BY DEF Elements
<1> QED
  BY <1>1 DEF Pos

\* The places of the blocks of a search order are the naturals up to its
\* length, one for each block.
LEMMA OrderPlaces ==
    ASSUME NEW g, NEW order, SearchOrder(g, order)
    PROVE  /\ Len(order) \in Nat \ {0}
           /\ DOMAIN order = 1 .. Len(order)
           /\ Elements(order) \subseteq Block
           /\ \A i \in 1 .. Len(order) :
                order[i] \in Elements(order) /\ Pos(order, order[i]) = i
           /\ \A b \in Elements(order) :
                Pos(order, b) \in 1 .. Len(order) /\ order[Pos(order, b)] = b
           /\ Entry \in Elements(order) /\ Pos(order, Entry) = 1
<1>1. /\ order \in Seq(Block) /\ order # <<>> /\ order[1] = Entry
      /\ \A i, j \in DOMAIN order : order[i] = order[j] => i = j
  BY DEF SearchOrder
<1>2. /\ Len(order) \in Nat \ {0} /\ DOMAIN order = 1 .. Len(order)
      /\ Elements(order) \subseteq Block
  BY <1>1 DEF Elements
<1>3. \A i \in 1 .. Len(order) : order[i] \in Elements(order)
  BY <1>2 DEF Elements
<1>4. \A b \in Elements(order) :
        Pos(order, b) \in 1 .. Len(order) /\ order[Pos(order, b)] = b
  BY <1>2, PosFinds
<1>5. \A i \in 1 .. Len(order) : Pos(order, order[i]) = i
  BY <1>1, <1>2, <1>3, <1>4
<1> QED
  BY <1>1, <1>2, <1>3, <1>4, <1>5

\* A block other than the first has a predecessor that is listed before it:
\* otherwise the blocks before it would be closed, and it would not be
\* reached through them.
LEMMA EarlierPredecessor ==
    ASSUME NEW g, NEW order, SearchOrder(g, order),
           NEW i \in 2 .. Len(order)
    PROVE  \E j \in 1 .. i - 1 : order[i] \in Succs(g, order[j])
<1> SUFFICES ASSUME \A j \in 1 .. i - 1 : order[i] \notin Succs(g, order[j])
             PROVE  FALSE
  OBVIOUS
<1>1. Len(order) \in Nat /\ DOMAIN order = 1 .. Len(order)
  BY OrderPlaces
<1>2. i \in Nat /\ i \in DOMAIN order
  BY <1>1
<1>3. /\ order[1] = Entry
      /\ \A k \in DOMAIN order : order[k] \in Block
      /\ \A j, k \in DOMAIN order : order[j] = order[k] => j = k
      /\ ReachableWithin(g, UpTo(order, i), order[i])
  BY <1>2 DEF SearchOrder
<1>4. UpTo(order, i - 1) \in SUBSET Block /\ Entry \in UpTo(order, i - 1)
  BY <1>1, <1>3 DEF UpTo
<1>5. order[i] \notin UpTo(order, i - 1)
  BY <1>1, <1>2, <1>3 DEF UpTo
<1>6. ClosedWithin(g, UpTo(order, i), UpTo(order, i - 1))
  <2>1. ASSUME NEW j \in 1 .. i - 1, NEW k \in 1 .. i,
               order[k] \in Succs(g, order[j])
        PROVE  k \in 1 .. i - 1
    BY <1>2, <2>1
  <2> QED
    BY <2>1 DEF ClosedWithin, UpTo
<1> QED
  BY <1>3, <1>4, <1>5, <1>6 DEF ReachableWithin

-----------------------------------------------------------------------------
(* Dominance *)

\* What strictly dominates a block dominates each of its predecessors.
LEMMA DominatesPredecessor ==
    ASSUME NEW g, NEW b, NEW d, d # b, Dominates(g, d, b),
           NEW p, b \in Succs(g, p)
    PROVE  Dominates(g, d, p)
BY DEF Dominates, CutBy

\* A block is reached through everything that strictly dominates it.
LEMMA DominatorsPassed ==
    ASSUME NEW g, NEW P, Entry \in P, NEW b, ReachableWithin(g, P, b),
           NEW d, d # b, d \notin P
    PROVE  ~Dominates(g, d, b)
<1> SUFFICES ASSUME NEW S \in SUBSET Block, CutBy(g, d, S), b \notin S
             PROVE  FALSE
  BY DEF Dominates
<1>1. Entry \in S /\ ClosedWithin(g, P, S)
  BY DEF CutBy, ClosedWithin
<1> QED
  BY <1>1 DEF ReachableWithin

\* What strictly dominates a listed block is listed before it.
LEMMA DominatorEarlier ==
    ASSUME NEW g, NEW order, SearchOrder(g, order),
           NEW b \in Elements(order), NEW d, d # b, Dominates(g, d, b)
    PROVE  d \in Elements(order) /\ Pos(order, d) < Pos(order, b)
<1>1. PICK i \in 1 .. Len(order) : order[i] = b /\ Pos(order, b) = i
  BY OrderPlaces
<1>2. PICK S \in SUBSET Block : CutBy(g, d, S) /\ b \notin S
  BY DEF Dominates
<1>3. Len(order) \in Nat /\ DOMAIN order = 1 .. Len(order) /\ order[1] = Entry
      /\ ReachableWithin(g, UpTo(order, i), b)
  BY <1>1, OrderPlaces DEF SearchOrder
<1>4. d \in UpTo(order, i)
  <2> SUFFICES ASSUME d \notin UpTo(order, i) PROVE FALSE
    OBVIOUS
  <2>1. Entry \in UpTo(order, i)
    BY <1>1, <1>3 DEF UpTo
  <2>2. Entry \in S
    BY <1>2, <2>1 DEF CutBy
  <2>3. ClosedWithin(g, UpTo(order, i), S)
    BY <1>2 DEF CutBy, ClosedWithin
  <2> QED
    BY <1>2, <1>3, <2>2, <2>3 DEF ReachableWithin
<1>5. PICK j \in 1 .. i : order[j] = d
  BY <1>4 DEF UpTo
<1>6. j # i
  BY <1>1, <1>5
<1>7. d \in Elements(order) /\ Pos(order, d) = j
  BY <1>1, <1>3, <1>5, OrderPlaces
<1> QED
  BY <1>1, <1>3, <1>5, <1>6, <1>7

\* Dominance is transitive: what cuts b off from the entry at c, together with
\* what cuts c off at d, cuts b off at d.
LEMMA DominatesThrough ==
    ASSUME NEW g, NEW d \in Block, NEW c \in Block, NEW b,
           Dominates(g, d, c), Dominates(g, c, b)
    PROVE  Dominates(g, d, b)
<1>1. CASE d = c \/ c = b
  BY <1>1
<1>2. CASE d # c /\ c # b
  <2>1. PICK S \in SUBSET Block : CutBy(g, d, S) /\ c \notin S
    BY <1>2 DEF Dominates
  <2>2. PICK T \in SUBSET Block : CutBy(g, c, T) /\ b \notin T
    BY <1>2 DEF Dominates
  <2>3. CutBy(g, d, S \cap T)
    BY <2>1, <2>2 DEF CutBy
  <2> QED
    BY <2>2, <2>3 DEF Dominates
<1> QED
  BY <1>1, <1>2

\* Two listed blocks that dominate each other are one block.
LEMMA DominatesOneWay ==
    ASSUME NEW g, NEW order, SearchOrder(g, order),
           NEW b \in Elements(order), NEW d \in Elements(order),
           Dominates(g, d, b), Dominates(g, b, d)
    PROVE  d = b
<1>1. Pos(order, b) \in Nat /\ Pos(order, d) \in Nat
  BY OrderPlaces
<1> QED
  BY <1>1, DominatorEarlier

\* A listed block is in every set that control enters and does not leave.
LEMMA ListedInClosed ==
    ASSUME NEW g, NEW order, SearchOrder(g, order), NEW b \in Elements(order),
           NEW V \in SUBSET Block, Entry \in V, \A x \in V : Succs(g, x) \subseteq V
    PROVE  b \in V
<1>1. PICK i \in DOMAIN order : order[i] = b
  BY DEF Elements
<1>2. ReachableWithin(g, UpTo(order, i), b)
  BY <1>1 DEF SearchOrder
<1> QED
  BY <1>2 DEF ReachableWithin, ClosedWithin

\* Of two blocks that dominate a listed block one dominates the other: the
\* sets that cut it off at the one and at the other hold, taken together, all
\* that is reached.
LEMMA DominatorsChain ==
    ASSUME NEW g, NEW order, SearchOrder(g, order), NEW b \in Elements(order),
           NEW a, NEW c, Dominates(g, a, b), Dominates(g, c, b)
    PROVE  Dominates(g, a, c) \/ Dominates(g, c, a)
<1> SUFFICES ASSUME ~Dominates(g, a, c), ~Dominates(g, c, a) PROVE FALSE
  OBVIOUS
<1>1. PICK A \in SUBSET Block : CutBy(g, a, A) /\ b \notin A
  BY DEF Dominates
<1>2. PICK C \in SUBSET Block : CutBy(g, c, C) /\ b \notin C
  BY DEF Dominates
<1>3. c \in A /\ a \in C
  BY <1>1, <1>2 DEF Dominates
<1>4. Entry \in A \cup C /\ \A x \in A \cup C : Succs(g, x) \subseteq A \cup C
  BY <1>1, <1>2, <1>3 DEF CutBy
<1> QED
  BY <1>1, <1>2, <1>4, ListedInClosed

\* What is reached from d whatever way control takes, h left out, is all that
\* d dominates, when d does not dominate h.
LEMMA ReachedAround ==
    ASSUME NEW g, NEW order, SearchOrder(g, order), NEW b \in Elements(order),
           NEW d, Dominates(g, d, b), NEW h, ~Dominates(g, d, h),
           NEW S \in SUBSET Block, d \in S,
           ClosedWithin(g, Block \ {h}, S \ {h}),
           \A x \in Block : Succs(g, x) \subseteq Block
    PROVE  b \in S
<1> SUFFICES ASSUME b \notin S PROVE FALSE
  OBVIOUS
<1>1. PICK U \in SUBSET Block : CutBy(g, d, U) /\ b \notin U
  BY DEF Dominates
<1>2. h \in U /\ h # d
  BY <1>1 DEF Dominates
<1> DEFINE V == U \cup (S \ {h})
<1>3. V \in SUBSET Block /\ d \in V /\ Entry \in V
  BY <1>1, <1>2 DEF CutBy
<1>4. ASSUME NEW x \in V, NEW y \in Succs(g, x)
      PROVE  y \in V
  <2>1. CASE x \in U
    BY <1>1, <1>3, <1>4, <2>1 DEF CutBy
  <2>2. CASE x \in S \ {h}
    BY <1>2, <1>4, <2>2 DEF ClosedWithin
  <2> QED
    BY <2>1, <2>2
<1>5. b \in V
  BY <1>3, <1>4, ListedInClosed
<1> QED
  BY <1>1, <1>5

-----------------------------------------------------------------------------
(* Least members *)

\* A set of naturals that is not empty has a least member.
LEMMA LeastNumber ==
    ASSUME NEW T \in SUBSET Nat, T # {}
    PROVE  \E x \in T : \A y \in T : x <= y
<1>1. PICK x \in T : \A y \in T : ~(<<y, x>> \in OpToRel(<, Nat))
  BY NatLessThanWellFounded, WFMin
<1>2. \A y \in T : ~(y < x)
  BY <1>1 DEF OpToRel
<1> QED
  BY <1>2

\* A set of listed blocks that is not empty has a first block,
LEMMA FirstListed ==
    ASSUME NEW g, NEW order, SearchOrder(g, order),
           NEW S \in SUBSET Elements(order), S # {}
    PROVE  \E b \in S : \A c \in S : Pos(order, b) <= Pos(order, c)
<1> DEFINE T == {Pos(order, b) : b \in S}
<1>1. T \in SUBSET Nat /\ T # {}
  BY OrderPlaces
<1>2. PICK x \in T : \A y \in T : x <= y
  BY <1>1, LeastNumber
<1> QED
  BY <1>2

\* and a last one.
LEMMA LastListed ==
    ASSUME NEW g, NEW order, SearchOrder(g, order),
           NEW S \in SUBSET Elements(order), S # {}
    PROVE  \E b \in S : \A c \in S : Pos(order, c) <= Pos(order, b)
<1> DEFINE T == {Len(order) - Pos(order, b) : b \in S}
<1>1. Len(order) \in Nat /\ \A b \in S : Pos(order, b) \in 1 .. Len(order)
  BY OrderPlaces
<1>2. T \in SUBSET Nat /\ T # {}
  BY <1>1
<1>3. PICK x \in T : \A y \in T : x <= y
  BY <1>2, LeastNumber
<1>4. PICK b \in S : x = Len(order) - Pos(order, b)
  OBVIOUS
<1>5. ASSUME NEW c \in S
      PROVE  Pos(order, c) <= Pos(order, b)
  <2>1. x <= Len(order) - Pos(order, c)
    BY <1>3
  <2> QED
    BY <1>1, <1>4, <2>1
<1> QED
  BY <1>5

-----------------------------------------------------------------------------
(* Lists in order *)

\* Blocks are finitely many.
LEMMA FiniteBlocks ==
    ASSUME NEW S \in SUBSET Block
    PROVE  IsFiniteSet(S) /\ Cardinality(S) \in Nat
<1>1. IsFiniteSet(Block)
  BY FlowGraphAssumption, FS_Interval DEF Block
<1>2. IsFiniteSet(S)
  BY <1>1, FS_Subset
<1> QED
  BY <1>2, FS_CardinalityType

\* InOrder lists every member once, in the order of the places.
LEMMA InOrderLists ==
    ASSUME NEW S, IsFiniteSet(S), NEW place,
           \A b \in S : place[b] \in Nat,
           \A b, c \in S : place[b] = place[c] => b = c
    PROVE  /\ InOrder(S, place) \in [1 .. Cardinality(S) -> S]
           /\ InOrder(S, place) \in Seq(S)
           /\ Len(InOrder(S, place)) = Cardinality(S)
           /\ Cardinality(S) \in Nat
           /\ \A b \in S : \E i \in 1 .. Cardinality(S) : InOrder(S, place)[i] = b
           /\ \A i, j \in 1 .. Cardinality(S) :
                 InOrder(S, place)[i] = InOrder(S, place)[j] => i = j
<1> DEFINE n == Cardinality(S)
           below(b) == {c \in S : place[c] < place[b]}
           rank == [b \in S |-> Cardinality(below(b)) + 1]
<1>1. n \in Nat
  BY FS_CardinalityType
<1>2. ASSUME NEW b \in S
      PROVE  /\ IsFiniteSet(below(b)) /\ Cardinality(below(b)) \in Nat
             /\ Cardinality(below(b)) + 1 <= n
  <2>1. below(b) \in SUBSET (S \ {b})
    OBVIOUS
  <2>2. IsFiniteSet(S \ {b}) /\ Cardinality(S \ {b}) = n - 1
    BY FS_RemoveElement
  <2>3. IsFiniteSet(below(b)) /\ Cardinality(below(b)) <= n - 1
    BY <2>1, <2>2, FS_Subset
  <2>4. Cardinality(below(b)) \in Nat
    BY <2>3, FS_CardinalityType
  <2> QED
    BY <1>1, <2>3, <2>4
<1>3. ASSUME NEW b \in S, NEW c \in S, place[b] < place[c]
      PROVE  rank[b] < rank[c]
  <2> DEFINE B == below(b)
             C == below(c)
  <2>1. B \cup {b} \in SUBSET C /\ b \notin B
    BY <1>3
  <2>2. /\ IsFiniteSet(B) /\ Cardinality(B) \in Nat
        /\ IsFiniteSet(C) /\ Cardinality(C) \in Nat
    BY <1>2
  <2>3. rank[b] = Cardinality(B) + 1 /\ rank[c] = Cardinality(C) + 1
    OBVIOUS
  <2> HIDE DEF B, C, rank
  <2>4. Cardinality(B \cup {b}) = Cardinality(B) + 1
    BY <2>1, <2>2, FS_AddElement
  <2>5. Cardinality(B \cup {b}) <= Cardinality(C)
    BY <2>1, <2>2, FS_Subset
  <2> QED
    BY <2>2, <2>3, <2>4, <2>5
<1>4. rank \in [S -> 1 .. n]
  <2>1. ASSUME NEW b \in S
        PROVE  Cardinality(below(b)) + 1 \in 1 .. n
    <3>1. \A k \in Nat : k + 1 <= n => k + 1 \in 1 .. n
      BY <1>1
    <3> HIDE DEF below
    <3> QED
      BY <1>2, <3>1
  <2> QED
    BY <2>1
<1>5. ASSUME NEW i \in 1 .. n
      PROVE  InOrder(S, place)[i] = CHOOSE b \in S : Cardinality(below(b)) = i - 1
  BY DEF InOrder
<1>6. ASSUME NEW i \in 1 .. n, NEW b \in S
      PROVE  rank[b] = i <=> Cardinality(below(b)) = i - 1
  <2>1. \A k \in Nat : k + 1 = i <=> k = i - 1
    BY <1>1
  <2>2. rank[b] = Cardinality(below(b)) + 1
    OBVIOUS
  <2> HIDE DEF below, rank
  <2> QED
    BY <1>2, <2>1, <2>2
<1> HIDE DEF rank, below
<1>7. ASSUME NEW b \in S, NEW c \in S, rank[b] = rank[c]
      PROVE  b = c
  <2>1. ~(place[b] < place[c]) /\ ~(place[c] < place[b])
    BY <1>3, <1>4, <1>7
  <2> QED
    BY <2>1
<1>8. rank \in Surjection(S, 1 .. n)
  <2>1. rank \in Injection(S, 1 .. n)
    BY <1>4, <1>7 DEF Injection, IsInjective
  <2>2. IsFiniteSet(1 .. n) /\ Cardinality(1 .. n) = n
    BY <1>1, FS_Interval
  <2> QED
    BY <2>1, <2>2, FS_Injection
<1>9. ASSUME NEW i \in 1 .. n
      PROVE  InOrder(S, place)[i] \in S /\ rank[InOrder(S, place)[i]] = i
  <2>1. PICK b \in S : rank[b] = i
    BY <1>8 DEF Surjection
  <2>2. Cardinality(below(b)) = i - 1
    BY <1>6, <2>1
  <2>3. /\ InOrder(S, place)[i] \in S
        /\ Cardinality(below(InOrder(S, place)[i])) = i - 1
    BY <1>5, <2>2
  <2> QED
    BY <1>6, <2>3
<1>10. InOrder(S, place) \in [1 .. n -> S]
  BY <1>9 DEF InOrder
<1>11. ASSUME NEW b \in S
       PROVE  \E i \in 1 .. n : InOrder(S, place)[i] = b
  <2>1. rank[b] \in 1 .. n
    BY <1>4
  <2> QED
    BY <1>7, <1>9, <2>1
<1>12. ASSUME NEW i \in 1 .. n, NEW j \in 1 .. n,
              InOrder(S, place)[i] = InOrder(S, place)[j]
       PROVE  i = j
  BY <1>9, <1>12
<1>13. InOrder(S, place) \in Seq(S) /\ Len(InOrder(S, place)) = n
  BY <1>1, <1>10
<1> QED
  BY <1>1, <1>10, <1>11, <1>12, <1>13

\* Ascending lists every block of a set once.
LEMMA AscendingLists ==
    ASSUME NEW S \in SUBSET Block
    PROVE  /\ Ascending(S) \in Seq(S)
           /\ Len(Ascending(S)) = Cardinality(S)
           /\ Cardinality(S) \in Nat
           /\ \A i \in 1 .. Cardinality(S) : Ascending(S)[i] \in S
           /\ \A b \in S : \E i \in 1 .. Cardinality(S) : Ascending(S)[i] = b
           /\ \A i, j \in 1 .. Cardinality(S) : Ascending(S)[i] = Ascending(S)[j] => i = j
<1> DEFINE place == [b \in Block |-> b]
<1>1. IsFiniteSet(S)
  BY FiniteBlocks
<1>2. \A b \in S : b \in Block /\ b \in Nat
  BY FlowGraphAssumption DEF Block
<1>3. /\ \A b \in S : place[b] \in Nat
      /\ \A b, c \in S : place[b] = place[c] => b = c
  BY <1>2
<1> HIDE DEF place
<1>4. /\ InOrder(S, place) \in [1 .. Cardinality(S) -> S]
      /\ InOrder(S, place) \in Seq(S)
      /\ Len(InOrder(S, place)) = Cardinality(S)
      /\ Cardinality(S) \in Nat
      /\ \A b \in S : \E i \in 1 .. Cardinality(S) : InOrder(S, place)[i] = b
      /\ \A i, j \in 1 .. Cardinality(S) :
            InOrder(S, place)[i] = InOrder(S, place)[j] => i = j
  BY <1>1, <1>3, InOrderLists
<1>5. Ascending(S) = InOrder(S, place)
  BY DEF Ascending, place
<1> QED
  BY <1>4, <1>5

\* What a list holds after it has grown by one.
LEMMA ListGrows ==
    ASSUME NEW E, NEW s \in Seq(E), NEW e \in E
    PROVE  /\ Append(s, e) \in Seq(E)
           /\ Elements(Append(s, e)) = Elements(s) \cup {e}
           /\ IsInjective(s) /\ e \notin Elements(s) => IsInjective(Append(s, e))
<1>1. PICK n \in Nat : n = Len(s) /\ DOMAIN s = 1 .. n
  OBVIOUS
<1>2. /\ Append(s, e) \in Seq(E)
      /\ DOMAIN Append(s, e) = 1 .. n + 1
      /\ \A i \in 1 .. n : Append(s, e)[i] = s[i]
      /\ Append(s, e)[n + 1] = e
  BY <1>1
<1>3. \A i \in 1 .. n + 1 : i \in 1 .. n \/ i = n + 1
  OBVIOUS
<1>4. \A i \in 1 .. n : i \in 1 .. n + 1
  OBVIOUS
<1>5. n + 1 \in 1 .. n + 1
  OBVIOUS
<1>6. Elements(Append(s, e)) = Elements(s) \cup {e}
  <2>1. Elements(Append(s, e)) \subseteq Elements(s) \cup {e}
    BY <1>1, <1>2, <1>3 DEF Elements
  <2>2. Elements(s) \cup {e} \subseteq Elements(Append(s, e))
    BY <1>1, <1>2, <1>4, <1>5 DEF Elements
  <2> QED
    BY <2>1, <2>2
<1>7. ASSUME IsInjective(s), e \notin Elements(s)
      PROVE  IsInjective(Append(s, e))
  BY <1>1, <1>2, <1>3, <1>7 DEF Elements, IsInjective
<1> QED
  BY <1>2, <1>6, <1>7

-----------------------------------------------------------------------------
(* Going onward, which the search tree does *)

\* Going onward starts anywhere,
LEMMA OnwardSelf == \A g, a : Onward(g, a, a)
BY DEF Onward

\* can be taken up,
LEMMA OnwardJoin ==
    ASSUME NEW g, NEW a, NEW b, NEW c, Onward(g, a, b), Onward(g, b, c)
    PROVE  Onward(g, a, c)
BY DEF Onward

\* and takes an edge that does not lead into a dominator.
LEMMA OnwardEdge ==
    ASSUME NEW g, NEW a, NEW b \in Succs(g, a), ~Dominates(g, b, a)
    PROVE  Onward(g, a, b)
BY DEF Onward, ClosedOnward

\* Going onward to another block begins with an edge.
LEMMA OnwardFirst ==
    ASSUME NEW g \in Adjacency, NEW a \in Block, NEW b \in Block, a # b,
           Onward(g, a, b)
    PROVE  \E c \in Succs(g, a) :
               c \in Block /\ ~Dominates(g, c, a) /\ Onward(g, c, b)
<1> SUFFICES ASSUME \A c \in Succs(g, a) : Dominates(g, c, a) \/ ~Onward(g, c, b)
             PROVE  FALSE
  BY SuccsNamed
<1> DEFINE S == {x \in Block : ~Onward(g, x, b)} \cup {a}
<1>1. ASSUME NEW x \in S, NEW y \in Succs(g, x), ~Dominates(g, y, x)
      PROVE  y \in S
  <2>1. y \in Block
    BY SuccsNamed
  <2>2. CASE x = a
    BY <1>1, <2>1, <2>2
  <2>3. CASE ~Onward(g, x, b)
    <3>1. Onward(g, x, y)
      BY <1>1, OnwardEdge
    <3>2. ~Onward(g, y, b)
      BY <2>3, <3>1, OnwardJoin
    <3> QED
      BY <2>1, <3>2
  <2> QED
    BY <2>2, <2>3
<1>2. ClosedOnward(g, S)
  BY <1>1 DEF ClosedOnward
<1>3. b \in S
  BY <1>2 DEF Onward
<1> QED
  BY <1>3, OnwardSelf
=============================================================================
