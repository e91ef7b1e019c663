-------------------------- MODULE DominatorsProofs --------------------------
(***************************************************************************)
(* The sweeps of Dominators keep their invariant over every order the      *)
(* search may publish, and the idoms they settle on are the immediate      *)
(* dominators, for every graph.                                            *)
(***************************************************************************)
EXTENDS Dominators, FlowGraphTheorems

-----------------------------------------------------------------------------
(* The inductive invariant *)

\* The idom chain of x goes through a: a is in every set of blocks that holds
\* x and the idoms of its blocks.
ChainClosed(up, T) == \A x \in T : up[x] # None => up[x] \in T

OnChain(up, a, x) ==
    \A T \in SUBSET Block : (x \in T /\ ChainClosed(up, T)) => a \in T

Typed ==
    /\ phase \in Phase
    /\ idom \in [Block -> Block \cup {None}]
    /\ at \in 2 .. Len(rpo) + 1
    /\ todo \subseteq Block
    /\ newIdom \in Block \cup {None}
    /\ finger \in Block \cup {None}
    /\ changed \in BOOLEAN

\* The blocks before the one being visited have an idom.
EarlierProcessed == \A i \in 1 .. at - 1 : idom[rpo[i]] # None

\* While a sweep has changed nothing, the idom of a block it has passed is on
\* the chain of each of the block's processed predecessors.
PassedAgree ==
    ~changed =>
        \A i \in 2 .. at - 1 :
            \A p \in Preds(succs, rpo[i]) \cap Elements(rpo) :
                idom[p] # None => OnChain(idom, idom[rpo[i]], p)

\* A finger is a processed block of the order, and what strictly dominates
\* the block being visited dominates it.
GoodFinger(f) ==
    /\ f \in Elements(rpo)
    /\ idom[f] # None
    /\ \A d \in Block \ {rpo[at]} :
        Dominates(succs, d, rpo[at]) => Dominates(succs, d, f)

\* One of the fingers is on the chain of every processed predecessor that has
\* been looked at.
LookedAtAgree ==
    \A p \in (Preds(succs, rpo[at]) \ todo) \cap Elements(rpo) :
        idom[p] # None =>
            \/ newIdom # None /\ OnChain(idom, newIdom, p)
            \/ finger # None /\ OnChain(idom, finger, p)

Visiting ==
    /\ at <= Len(rpo)
    /\ todo \subseteq Preds(succs, rpo[at])
    /\ newIdom # None => GoodFinger(newIdom)
    /\ finger # None => GoodFinger(finger)
    /\ LookedAtAgree

\* What holds of idom from the start to the end of the sweeps.
Standing ==
    /\ idom[Entry] = Entry
    /\ ChainsDescend
    /\ NoDominatorLost
    /\ EarlierProcessed
    /\ PassedAgree

SweepInv ==
    /\ succs \in Adjacency
    /\ SearchOrder(succs, rpo)
    /\ Typed
    /\ phase # "done" => Standing
    /\ phase \in {"preds", "intersect"} => Visiting
    /\ phase = "intersect" => newIdom # None /\ finger # None
    /\ phase # "intersect" => finger = None
    /\ IdomCorrect

-----------------------------------------------------------------------------
(* Chains *)

\* A chain starts at its block,
LEMMA ChainSelf == \A up, x : OnChain(up, x, x)
BY DEF OnChain

\* goes on with the block's idom,
LEMMA ChainUp ==
    ASSUME NEW up, NEW x, up[x] # None
    PROVE  OnChain(up, up[x], x)
BY DEF OnChain, ChainClosed

\* holds the chains of its blocks,
LEMMA ChainJoin ==
    ASSUME NEW up, NEW a, NEW y, NEW x, OnChain(up, a, y), OnChain(up, y, x)
    PROVE  OnChain(up, a, x)
BY DEF OnChain

\* and is the block with the chain of its idom.
LEMMA ChainRest ==
    ASSUME NEW up, NEW x \in Block, NEW a, OnChain(up, a, x), a # x
    PROVE  up[x] # None /\ OnChain(up, a, up[x])
<1>1. up[x] # None
  <2> SUFFICES ASSUME up[x] = None PROVE FALSE
    OBVIOUS
  <2>1. ChainClosed(up, {x})
    BY DEF ChainClosed
  <2> QED
    BY <2>1 DEF OnChain
<1>2. ASSUME NEW T \in SUBSET Block, up[x] \in T, ChainClosed(up, T)
      PROVE  a \in T
  <2>1. ChainClosed(up, T \cup {x})
    BY <1>2 DEF ChainClosed
  <2> QED
    BY <2>1 DEF OnChain
<1> QED
  BY <1>1, <1>2 DEF OnChain

\* The entry's chain is the entry.
LEMMA ChainEntry ==
    ASSUME NEW up, up[Entry] = Entry, NEW a, OnChain(up, a, Entry)
    PROVE  a = Entry
<1>1. ChainClosed(up, {Entry}) /\ {Entry} \in SUBSET Block
  BY FlowGraphAssumption DEF ChainClosed
<1> QED
  BY <1>1 DEF OnChain

\* A chain runs backwards in the order, over processed blocks.
LEMMA ChainDescends ==
    ASSUME SweepInv, phase # "done",
           NEW x \in Elements(rpo), idom[x] # None, NEW a, OnChain(idom, a, x)
    PROVE  /\ a \in Elements(rpo) /\ idom[a] # None
           /\ Pos(rpo, a) <= Pos(rpo, x)
<1> DEFINE T == {y \in Elements(rpo) : idom[y] # None /\ Pos(rpo, y) <= Pos(rpo, x)}
<1>1. SearchOrder(succs, rpo) /\ idom[Entry] = Entry /\ ChainsDescend
  BY DEF SweepInv, Standing
<1>2. \A y \in Elements(rpo) : y \in Block /\ Pos(rpo, y) \in Nat
  BY <1>1, OrderPlaces
<1>3. T \in SUBSET Block /\ x \in T
  BY <1>2
<1>4. ASSUME NEW y \in T
      PROVE  idom[y] \in T
  <2>1. CASE y = Entry
    BY <1>1, <2>1
  <2>2. CASE y # Entry
    <3>1. /\ idom[y] \in Elements(rpo) /\ Pos(rpo, idom[y]) < Pos(rpo, y)
          /\ idom[y] = Entry \/ idom[idom[y]] # None
      BY <1>1, <1>2, <2>2 DEF ChainsDescend
    <3>2. idom[idom[y]] # None
      BY <1>1, <3>1, FlowGraphAssumption DEF None
    <3>3. Pos(rpo, idom[y]) <= Pos(rpo, x)
      BY <1>2, <3>1
    <3> QED
      BY <3>1, <3>2, <3>3
  <2> QED
    BY <2>1, <2>2
<1>5. a \in T
  BY <1>3, <1>4 DEF OnChain, ChainClosed
<1> QED
  BY <1>5

-----------------------------------------------------------------------------
(* The invariant holds at the start and every step keeps it *)

\* The sweeps begin in the invariant.
LEMMA SweepsBegin ==
    ASSUME succs \in Adjacency, SearchOrder(succs, rpo), Begin
    PROVE  SweepInv
<1>1. Len(rpo) \in Nat \ {0} /\ rpo[1] = Entry
  BY OrderPlaces DEF SearchOrder
<1>2. Entry \in Block /\ Entry # None /\ \A b \in Block : b # None
  BY FlowGraphAssumption DEF Block, None
<1>3. idom \in [Block -> Block \cup {None}] /\ idom[Entry] = Entry
      /\ \A b \in Block \ {Entry} : idom[b] = None
  BY <1>2 DEF Begin
<1>4. Typed
  <2>1. changed \in BOOLEAN
    BY DEF Begin
  <2> QED
    BY <1>1, <1>3, <2>1 DEF Begin, Typed, Phase
<1>5. ChainsDescend /\ NoDominatorLost
  BY <1>3 DEF ChainsDescend, NoDominatorLost
<1>6. EarlierProcessed
  BY <1>1, <1>2, <1>3 DEF EarlierProcessed, Begin
<1>7. PassedAgree
  BY DEF PassedAgree, Begin
<1> QED
  BY <1>3, <1>4, <1>5, <1>6, <1>7 DEF SweepInv, Standing, IdomCorrect, Begin

\* While idom and the place of the sweep stay as they are, what holds of them
\* does.
LEMMA StandingKept ==
    ASSUME Standing, UNCHANGED <<succs, rpo, idom, at, changed>>
    PROVE  Standing'
<1>1. ChainsDescend' /\ NoDominatorLost'
  BY DEF Standing, ChainsDescend, NoDominatorLost
<1>2. EarlierProcessed' /\ PassedAgree'
  BY DEF Standing, EarlierProcessed, PassedAgree
<1> QED
  BY <1>1, <1>2 DEF Standing

\* A step inside the visit of a block keeps the invariant when it leaves two
\* good fingers that agree with the predecessors looked at.
LEMMA VisitKeeps ==
    ASSUME SweepInv, phase # "done",
           UNCHANGED <<succs, rpo, idom, at, changed>>,
           phase' \in {"preds", "intersect"},
           at <= Len(rpo),
           todo' \subseteq Preds(succs, rpo[at]),
           newIdom' \in Block \cup {None}, finger' \in Block \cup {None},
           newIdom' # None => GoodFinger(newIdom'),
           finger' # None => GoodFinger(finger'),
           phase' = "intersect" <=> finger' # None,
           finger' # None => newIdom' # None,
           LookedAtAgree'
    PROVE  SweepInv'
<1>1. Standing'
  BY StandingKept DEF SweepInv
<1>2. Typed'
  <2>1. todo' \subseteq Block
    BY DEF Preds
  <2>2. changed' \in BOOLEAN
    BY DEF SweepInv, Typed
  <2> QED
    BY <2>1, <2>2 DEF SweepInv, Typed, Phase
<1>3. Visiting'
  BY DEF Visiting, GoodFinger
<1>4. IdomCorrect'
  BY DEF IdomCorrect
<1> QED
  BY <1>1, <1>2, <1>3, <1>4 DEF SweepInv

\* A visit begins with every predecessor to look at.
LEMMA VisitStepKeeps ==
    ASSUME SweepInv, Visit
    PROVE  SweepInv'
<1>1. /\ phase # "done" /\ phase' = "preds" /\ at <= Len(rpo)
      /\ todo' = Preds(succs, rpo[at])
      /\ newIdom' = None /\ finger' = None
      /\ UNCHANGED <<succs, rpo, idom, at, changed>>
  BY DEF Visit, SweepInv
<1>2. LookedAtAgree'
  BY <1>1 DEF LookedAtAgree
<1> QED
  BY <1>1, <1>2, VisitKeeps

\* A predecessor that is unreachable or has no idom yet asks for nothing.
LEMMA IgnoreKeeps ==
    ASSUME SweepInv, Ignore
    PROVE  SweepInv'
<1>1. PICK p \in todo :
        /\ phase = "preds" /\ phase' = "preds"
        /\ p \notin Elements(rpo) \/ idom[p] = None
        /\ todo' = todo \ {p}
        /\ UNCHANGED <<succs, rpo, idom, at, newIdom, finger, changed>>
  BY DEF Ignore, Processed
<1>2. Visiting /\ Typed /\ finger = None
  BY <1>1 DEF SweepInv
<1>3. LookedAtAgree'
  BY <1>1, <1>2 DEF Visiting, LookedAtAgree
<1> QED
  BY <1>1, <1>2, <1>3, VisitKeeps DEF Visiting, Typed

\* A processed predecessor of the block being visited is a good finger: what
\* strictly dominates the block dominates each of its predecessors.
LEMMA PredecessorGood ==
    ASSUME SweepInv, Visiting, NEW p \in todo,
           p \in Elements(rpo), idom[p] # None
    PROVE  GoodFinger(p) /\ p \in Block /\ p # None
<1>1. p \in Preds(succs, rpo[at])
  BY DEF Visiting
<1>2. p \in Block /\ rpo[at] \in Succs(succs, p)
  BY <1>1 DEF Preds
<1> QED
  BY <1>2, DominatesPredecessor DEF GoodFinger, Block, None

\* The first processed predecessor is the first finger.
LEMMA TakeKeeps ==
    ASSUME SweepInv, Take
    PROVE  SweepInv'
<1>1. PICK p \in todo :
        /\ phase = "preds" /\ phase' = "preds"
        /\ p \in Elements(rpo) /\ idom[p] # None
        /\ newIdom = None /\ newIdom' = p
        /\ todo' = todo \ {p}
        /\ UNCHANGED <<succs, rpo, idom, at, finger, changed>>
  BY DEF Take, Processed
<1>2. Visiting /\ Typed /\ finger = None
  BY <1>1 DEF SweepInv
<1>3. GoodFinger(p) /\ p \in Block /\ p # None
  BY <1>1, <1>2, PredecessorGood
<1>4. LookedAtAgree'
  BY <1>1, <1>2, <1>3, ChainSelf DEF Visiting, LookedAtAgree
<1> QED
  BY <1>1, <1>2, <1>3, <1>4, VisitKeeps DEF Visiting

\* A later processed predecessor is the second finger.
LEMMA IntersectKeeps ==
    ASSUME SweepInv, Intersect
    PROVE  SweepInv'
<1>1. PICK p \in todo :
        /\ phase = "preds" /\ phase' = "intersect"
        /\ p \in Elements(rpo) /\ idom[p] # None
        /\ newIdom # None /\ finger' = p
        /\ todo' = todo \ {p}
        /\ UNCHANGED <<succs, rpo, idom, at, newIdom, changed>>
  BY DEF Intersect, Processed
<1>2. Visiting /\ Typed /\ finger = None
  BY <1>1 DEF SweepInv
<1>3. GoodFinger(p) /\ p \in Block /\ p # None
  BY <1>1, <1>2, PredecessorGood
<1>4. LookedAtAgree'
  BY <1>1, <1>2, <1>3, ChainSelf DEF Visiting, LookedAtAgree
<1> QED
  BY <1>1, <1>2, <1>3, <1>4, VisitKeeps DEF Visiting, Typed

\* The finger that is later in the order climbs to a good finger: it is not a
\* dominator of the block, since the finger it is behind would have to come
\* after it.
LEMMA ClimbGood ==
    ASSUME SweepInv, phase # "done",
           NEW f, GoodFinger(f), NEW h, GoodFinger(h),
           Pos(rpo, f) > Pos(rpo, h)
    PROVE  GoodFinger(idom[f]) /\ idom[f] \in Block /\ idom[f] # None
<1>1. SearchOrder(succs, rpo) /\ Standing /\ Typed
  BY DEF SweepInv
<1>2. /\ f \in Elements(rpo) /\ h \in Elements(rpo) /\ idom[f] # None
      /\ f \in Block /\ h \in Block
      /\ Pos(rpo, f) \in Nat \ {0} /\ Pos(rpo, h) \in Nat \ {0}
      /\ Pos(rpo, Entry) = 1
  BY <1>1, OrderPlaces DEF GoodFinger
<1>3. f # Entry
  BY <1>2
<1>4. idom[f] \in Elements(rpo) /\ (idom[f] = Entry \/ idom[idom[f]] # None)
  BY <1>1, <1>2, <1>3 DEF Standing, ChainsDescend
<1>5. Entry # None
  BY FlowGraphAssumption DEF Block, None
<1>6. ASSUME NEW d \in Block \ {rpo[at]}, Dominates(succs, d, rpo[at])
      PROVE  Dominates(succs, d, idom[f])
  <2>1. Dominates(succs, d, f) /\ Dominates(succs, d, h)
    BY <1>6 DEF GoodFinger
  <2>2. d # f
    <3> SUFFICES ASSUME d = f PROVE FALSE
      OBVIOUS
    <3>1. Pos(rpo, f) < Pos(rpo, h)
      BY <1>1, <1>2, <2>1, DominatorEarlier
    <3> QED
      BY <1>2, <3>1
  <2> QED
    BY <1>1, <1>2, <1>3, <2>1, <2>2 DEF Standing, NoDominatorLost
<1>7. idom[f] \in Block
  BY <1>1, <1>4, OrderPlaces
<1> QED
  BY <1>1, <1>2, <1>4, <1>5, <1>6, <1>7 DEF GoodFinger, Standing

\* The finger that climbs stays on the chains it stood for.
LEMMA ClimbAKeeps ==
    ASSUME SweepInv, ClimbA
    PROVE  SweepInv'
<1>1. /\ phase = "intersect" /\ phase' = "intersect"
      /\ Pos(rpo, newIdom) > Pos(rpo, finger)
      /\ newIdom' = idom[newIdom]
      /\ UNCHANGED <<succs, rpo, idom, at, todo, finger, changed>>
  BY DEF ClimbA
<1>2. Visiting /\ Typed /\ finger # None /\ newIdom # None
  BY <1>1 DEF SweepInv
<1>3. GoodFinger(newIdom) /\ GoodFinger(finger)
  BY <1>2 DEF Visiting
<1>4. GoodFinger(idom[newIdom]) /\ idom[newIdom] \in Block /\ idom[newIdom] # None
  BY <1>1, <1>3, ClimbGood
<1>5. LookedAtAgree'
  <2>1. OnChain(idom, idom[newIdom], newIdom)
    BY <1>4, ChainUp
  <2> QED
    BY <1>1, <1>2, <1>4, <2>1, ChainJoin DEF Visiting, LookedAtAgree
<1> QED
  BY <1>1, <1>2, <1>3, <1>4, <1>5, VisitKeeps DEF Visiting, Typed

\* The same for the other finger.
LEMMA ClimbBKeeps ==
    ASSUME SweepInv, ClimbB
    PROVE  SweepInv'
<1>1. /\ phase = "intersect" /\ phase' = "intersect"
      /\ Pos(rpo, finger) > Pos(rpo, newIdom)
      /\ finger' = idom[finger]
      /\ UNCHANGED <<succs, rpo, idom, at, todo, newIdom, changed>>
  BY DEF ClimbB
<1>2. Visiting /\ Typed /\ finger # None /\ newIdom # None
  BY <1>1 DEF SweepInv
<1>3. GoodFinger(newIdom) /\ GoodFinger(finger)
  BY <1>2 DEF Visiting
<1>4. GoodFinger(idom[finger]) /\ idom[finger] \in Block /\ idom[finger] # None
  BY <1>1, <1>3, ClimbGood
<1>5. LookedAtAgree'
  <2>1. OnChain(idom, idom[finger], finger)
    BY <1>4, ChainUp
  <2> QED
    BY <1>1, <1>2, <1>4, <2>1, ChainJoin DEF Visiting, LookedAtAgree
<1> QED
  BY <1>1, <1>2, <1>3, <1>4, <1>5, VisitKeeps DEF Visiting, Typed

\* Where the fingers meet, one of them is enough.
LEMMA MeetKeeps ==
    ASSUME SweepInv, Meet
    PROVE  SweepInv'
<1>1. /\ phase = "intersect" /\ phase' = "preds"
      /\ finger = newIdom /\ finger' = None
      /\ UNCHANGED <<succs, rpo, idom, at, todo, newIdom, changed>>
  BY DEF Meet
<1>2. Visiting /\ Typed /\ newIdom # None
  BY <1>1 DEF SweepInv
<1>3. LookedAtAgree'
  BY <1>1, <1>2 DEF Visiting, LookedAtAgree
<1> QED
  BY <1>1, <1>2, <1>3, VisitKeeps DEF Visiting, Typed

\* When all predecessors are in, there is a finger, it comes before the block
\* in the order, and it is on the chain of each processed predecessor: one of
\* these is the predecessor that comes before the block.
LEMMA FingerFound ==
    ASSUME SweepInv, phase = "preds", todo = {}
    PROVE  /\ newIdom # None /\ newIdom \in Block /\ GoodFinger(newIdom)
           /\ Pos(rpo, newIdom) < at
           /\ \A p \in Preds(succs, rpo[at]) \cap Elements(rpo) :
                idom[p] # None => OnChain(idom, newIdom, p)
<1>1. /\ SearchOrder(succs, rpo) /\ Typed /\ Standing /\ Visiting
      /\ finger = None /\ at \in 2 .. Len(rpo)
  <2>1. Typed /\ Standing /\ Visiting /\ finger = None /\ SearchOrder(succs, rpo)
    BY DEF SweepInv
  <2>2. Len(rpo) \in Nat
    BY <2>1, OrderPlaces
  <2> QED
    BY <2>1, <2>2 DEF Typed, Visiting
<1>2. \A p \in Preds(succs, rpo[at]) \cap Elements(rpo) :
        idom[p] # None => newIdom # None /\ OnChain(idom, newIdom, p)
  BY <1>1 DEF Visiting, LookedAtAgree
<1>3. PICK j \in 1 .. at - 1 : rpo[at] \in Succs(succs, rpo[j])
  BY <1>1, EarlierPredecessor
<1>4. /\ Len(rpo) \in Nat /\ j \in 1 .. Len(rpo)
      /\ rpo[j] \in Elements(rpo) /\ rpo[j] \in Block /\ Pos(rpo, rpo[j]) = j
  BY <1>1, <1>3, OrderPlaces
<1>5. idom[rpo[j]] # None
  BY <1>1, <1>3 DEF Standing, EarlierProcessed
<1>6. rpo[j] \in Preds(succs, rpo[at])
  BY <1>3, <1>4 DEF Preds
<1>7. newIdom # None /\ OnChain(idom, newIdom, rpo[j])
  BY <1>2, <1>4, <1>5, <1>6
<1>8. newIdom \in Block /\ GoodFinger(newIdom)
  BY <1>1, <1>7 DEF Visiting, Typed
<1>9. Pos(rpo, newIdom) <= j
  BY <1>4, <1>5, <1>7, ChainDescends
<1>10. Pos(rpo, newIdom) \in Nat
  BY <1>1, <1>8, OrderPlaces DEF GoodFinger
<1>11. Pos(rpo, newIdom) < at
  BY <1>1, <1>3, <1>9, <1>10
<1> QED
  BY <1>2, <1>7, <1>8, <1>11

\* Writing down what the predecessors agree on keeps the invariant.
LEMMA AssignKeeps ==
    ASSUME SweepInv, Assign
    PROVE  SweepInv'
<1> DEFINE b == rpo[at]
<1>1. /\ phase = "preds" /\ todo = {} /\ phase' = "sweep"
      /\ at' = at + 1
      /\ UNCHANGED <<succs, rpo, todo, newIdom, finger>>
  BY DEF Assign
<1>2. /\ newIdom # None /\ newIdom \in Block /\ GoodFinger(newIdom)
      /\ Pos(rpo, newIdom) < at
      /\ \A p \in Preds(succs, b) \cap Elements(rpo) :
            idom[p] # None => OnChain(idom, newIdom, p)
  BY <1>1, FingerFound
<1>3. SearchOrder(succs, rpo) /\ Typed /\ Standing /\ Visiting /\ finger = None
  BY <1>1 DEF SweepInv
<1>4. /\ Len(rpo) \in Nat /\ at \in 2 .. Len(rpo)
      /\ b \in Elements(rpo) /\ b \in Block /\ Pos(rpo, b) = at
      /\ \A i \in 1 .. Len(rpo) : rpo[i] \in Block
  <2>1. Len(rpo) \in Nat /\ at \in 2 .. Len(rpo)
    BY <1>3, OrderPlaces DEF Typed, Visiting
  <2> QED
    BY <1>3, <2>1, OrderPlaces
<1>5. b # Entry /\ newIdom # b
  BY <1>2, <1>3, <1>4, OrderPlaces
<1>6. idom' = [idom EXCEPT ![b] = newIdom]
  <2>1. CASE idom[b] = newIdom
    <3>1. idom' = idom
      BY <2>1 DEF Assign
    <3>2. [idom EXCEPT ![b] = newIdom] = idom
      BY <1>3, <1>4, <2>1 DEF Typed
    <3> QED
      BY <3>1, <3>2
  <2>2. CASE idom[b] # newIdom
    BY <1>2, <2>2 DEF Assign
  <2> QED
    BY <2>1, <2>2
<1>7. ~changed' => ~changed /\ idom' = idom /\ idom[b] = newIdom
  <2>1. CASE idom[b] = newIdom
    BY <2>1, Zenon DEF Assign
  <2>2. CASE idom[b] # newIdom
    BY <1>2, <2>2, Zenon DEF Assign
  <2> QED
    BY <2>1, <2>2
<1>8. /\ idom' \in [Block -> Block \cup {None}]
      /\ idom'[b] = newIdom
      /\ \A c \in Block \ {b} : idom'[c] = idom[c]
  BY <1>2, <1>3, <1>4, <1>6 DEF Typed
<1>9. Typed'
  <2>1. changed' \in BOOLEAN
    <3>1. changed \in BOOLEAN
      BY <1>3 DEF Typed
    <3> QED
      BY <3>1, Zenon DEF Assign
  <2> QED
    BY <1>1, <1>3, <1>4, <1>8, <2>1 DEF Typed, Phase
<1>10. idom'[Entry] = Entry
  BY <1>3, <1>5, <1>8, FlowGraphAssumption DEF Standing
<1>11. ChainsDescend'
  <2>1. ASSUME NEW c \in Block \ {Entry}, idom'[c] # None
        PROVE  /\ c \in Elements(rpo) /\ idom'[c] \in Elements(rpo)
               /\ idom'[c] = Entry \/ idom'[idom'[c]] # None
               /\ Pos(rpo, idom'[c]) < Pos(rpo, c)
    <3>1. CASE c = b
      BY <1>2, <1>4, <1>5, <1>8, <3>1 DEF GoodFinger
    <3>2. CASE c # b
      <4>1. /\ idom'[c] = idom[c]
            /\ c \in Elements(rpo) /\ idom[c] \in Elements(rpo)
            /\ idom[c] = Entry \/ idom[idom[c]] # None
            /\ Pos(rpo, idom[c]) < Pos(rpo, c)
        BY <1>3, <1>8, <2>1, <3>2 DEF Standing, ChainsDescend
      <4>2. idom[c] \in Block
        BY <1>3, <4>1, OrderPlaces
      <4>3. CASE idom[c] = b
        BY <1>2, <1>8, <4>1, <4>3
      <4>4. CASE idom[c] # b
        BY <1>8, <4>1, <4>2, <4>4
      <4> QED
        BY <4>3, <4>4
    <3> QED
      BY <3>1, <3>2
  <2> QED
    BY <1>1, <2>1 DEF ChainsDescend
<1>12. NoDominatorLost'
  <2>1. ASSUME NEW c \in Block \ {Entry}, idom'[c] # None,
               NEW d \in Block \ {c}, Dominates(succs, d, c)
        PROVE  Dominates(succs, d, idom'[c])
    <3>1. CASE c = b
      BY <1>2, <1>8, <2>1, <3>1 DEF GoodFinger
    <3>2. CASE c # b
      BY <1>3, <1>8, <2>1, <3>2 DEF Standing, NoDominatorLost
    <3> QED
      BY <3>1, <3>2
  <2> QED
    BY <1>1, <2>1 DEF NoDominatorLost
<1>13. EarlierProcessed'
  <2>1. ASSUME NEW i \in 1 .. at
        PROVE  idom'[rpo[i]] # None
    <3>1. CASE i = at
      BY <1>2, <1>8, <3>1
    <3>2. CASE i # at
      <4>1. i \in 1 .. at - 1 /\ i \in 1 .. Len(rpo)
        BY <1>4, <3>2
      <4>2. rpo[i] \in Block \ {b} /\ idom[rpo[i]] # None
        BY <1>3, <1>4, <3>2, <4>1, OrderPlaces DEF Standing, EarlierProcessed
      <4> QED
        BY <1>8, <4>2
    <3> QED
      BY <3>1, <3>2
  <2> QED
    BY <1>1, <1>4, <2>1 DEF EarlierProcessed
<1>14. PassedAgree'
  <2> SUFFICES ASSUME ~changed',
                      NEW i \in 2 .. at,
                      NEW p \in Preds(succs, rpo[i]) \cap Elements(rpo),
                      idom'[p] # None
               PROVE  OnChain(idom', idom'[rpo[i]], p)
    BY <1>1, <1>4 DEF PassedAgree
  <2>1. ~changed /\ idom' = idom /\ idom[b] = newIdom
    BY <1>7
  <2>2. CASE i = at
    BY <1>2, <2>1, <2>2
  <2>3. CASE i # at
    <3>1. i \in 2 .. at - 1
      BY <1>4, <2>3
    <3> QED
      BY <1>3, <2>1, <3>1 DEF Standing, PassedAgree
  <2> QED
    BY <2>2, <2>3
<1> QED
  BY <1>1, <1>3, <1>9, <1>10, <1>11, <1>12, <1>13, <1>14
  DEF SweepInv, Standing, IdomCorrect

\* Another sweep begins in the invariant.
LEMMA ResweepKeeps ==
    ASSUME SweepInv, Resweep
    PROVE  SweepInv'
<1>1. /\ phase = "sweep" /\ at' = 2 /\ changed' = FALSE
      /\ UNCHANGED <<succs, rpo, phase, idom, todo, newIdom, finger>>
  BY DEF Resweep
<1>2. SearchOrder(succs, rpo) /\ Typed /\ Standing /\ finger = None
  BY <1>1 DEF SweepInv
<1>3. Len(rpo) \in Nat \ {0} /\ rpo[1] = Entry /\ Entry # None
  BY <1>2, OrderPlaces, FlowGraphAssumption DEF SearchOrder, Block, None
<1>4. Typed'
  <2>1. changed' \in BOOLEAN
    BY <1>1
  <2> QED
    BY <1>1, <1>2, <1>3, <2>1 DEF Typed
<1>5. ChainsDescend' /\ NoDominatorLost'
  BY <1>1, <1>2 DEF Standing, ChainsDescend, NoDominatorLost
<1>6. EarlierProcessed'
  BY <1>1, <1>2, <1>3 DEF Standing, EarlierProcessed
<1>7. PassedAgree'
  BY <1>1 DEF PassedAgree
<1> QED
  BY <1>1, <1>2, <1>4, <1>5, <1>6, <1>7 DEF SweepInv, Standing, IdomCorrect

-----------------------------------------------------------------------------
(* What the sweeps establish *)

\* After a sweep that changed nothing, the blocks of a chain dominate the
\* block it starts from: control that has avoided a stays among the blocks
\* whose chains do not go through a, because the idom of a block is on the
\* chain of each of its predecessors.
LEMMA ChainDominates ==
    ASSUME SweepInv, phase = "sweep", at > Len(rpo), ~changed,
           NEW x \in Elements(rpo), NEW a, OnChain(idom, a, x)
    PROVE  Dominates(succs, a, x)
<1> SUFFICES ASSUME a # x PROVE Dominates(succs, a, x)
  BY DEF Dominates
<1> DEFINE S == {y \in Elements(rpo) : ~OnChain(idom, a, y)}
<1>1. SearchOrder(succs, rpo) /\ Typed /\ Standing
  BY DEF SweepInv
<1>2. /\ Elements(rpo) \subseteq Block /\ Entry \in Elements(rpo)
      /\ \A y \in Elements(rpo) : Succs(succs, y) \subseteq Elements(rpo)
  <2>1. ASSUME NEW y \in Elements(rpo)
        PROVE  Succs(succs, y) \subseteq Elements(rpo)
    <3>1. PICK i \in DOMAIN rpo : rpo[i] = y
      BY DEF Elements
    <3> QED
      BY <1>1, <3>1 DEF SearchOrder
  <2> QED
    BY <1>1, <2>1, OrderPlaces
<1>3. ASSUME NEW z \in Elements(rpo) \ {Entry},
             NEW p \in Elements(rpo), z \in Succs(succs, p)
      PROVE  OnChain(idom, idom[z], p)
  <2>1. PICK i \in 1 .. Len(rpo) : rpo[i] = z /\ i # 1
    <3>1. Pos(rpo, z) \in 1 .. Len(rpo) /\ rpo[Pos(rpo, z)] = z
      BY <1>1, OrderPlaces
    <3>2. rpo[1] = Entry
      BY <1>1 DEF SearchOrder
    <3> QED
      BY <3>1, <3>2
  <2>2. i \in 2 .. at - 1
    BY <1>1, <2>1, OrderPlaces DEF Typed
  <2>3. p \in Preds(succs, rpo[i]) \cap Elements(rpo)
    BY <1>2, <1>3, <2>1 DEF Preds
  <2>4. idom[p] # None
    <3>1. PICK j \in 1 .. Len(rpo) : rpo[j] = p
      BY <1>1, OrderPlaces
    <3>2. j \in 1 .. at - 1
      BY <1>1, <3>1, OrderPlaces DEF Typed
    <3> QED
      BY <1>1, <3>1, <3>2 DEF Standing, EarlierProcessed
  <2> QED
    BY <1>1, <2>1, <2>2, <2>3, <2>4 DEF Standing, PassedAgree
<1>4. Entry = a \/ Entry \in S
  BY <1>1, <1>2, ChainEntry DEF Standing
<1>5. ASSUME NEW y \in S, NEW z \in Succs(succs, y), z # a
      PROVE  z \in S
  <2> SUFFICES ASSUME OnChain(idom, a, z) PROVE FALSE
    BY <1>2
  <2>1. z \in Elements(rpo)
    BY <1>2
  <2>2. z # Entry
    BY <1>1, <1>5, ChainEntry DEF Standing
  <2>3. OnChain(idom, a, idom[z])
    BY <1>2, <1>5, <2>1, ChainRest
  <2>4. OnChain(idom, idom[z], y)
    BY <1>3, <2>1, <2>2
  <2> QED
    BY <2>3, <2>4, ChainJoin
<1>6. CutBy(succs, a, S)
  BY <1>4, <1>5 DEF CutBy
<1>7. S \in SUBSET Block /\ x \notin S
  BY <1>2
<1> QED
  BY <1>6, <1>7 DEF Dominates

\* What the sweeps settle on is the immediate dominators.
LEMMA SettleKeeps ==
    ASSUME SweepInv, Settle
    PROVE  SweepInv'
<1>1. /\ phase = "sweep" /\ at > Len(rpo) /\ ~changed /\ phase' = "done"
      /\ idom' = [idom EXCEPT ![Entry] = None]
      /\ UNCHANGED <<succs, rpo, at, todo, newIdom, finger, changed>>
  BY DEF Settle
<1>2. SearchOrder(succs, rpo) /\ Typed /\ Standing /\ finger = None
  BY <1>1 DEF SweepInv
<1>3. /\ idom' \in [Block -> Block \cup {None}]
      /\ idom'[Entry] = None
      /\ \A b \in Block \ {Entry} : idom'[b] = idom[b]
  BY <1>1, <1>2, FlowGraphAssumption DEF Typed
<1>4. Typed'
  <2>1. changed' \in BOOLEAN
    BY <1>1, <1>2 DEF Typed
  <2> QED
    BY <1>1, <1>2, <1>3, <2>1 DEF Typed, Phase
<1>5. \A b \in Elements(rpo) : b \in Block /\ idom[b] # None
  <2> TAKE b \in Elements(rpo)
  <2>1. PICK i \in 1 .. Len(rpo) : rpo[i] = b
    BY <1>2, OrderPlaces
  <2>2. i \in 1 .. at - 1
    BY <1>1, <1>2, <2>1, OrderPlaces DEF Typed
  <2> QED
    BY <1>2, <2>1, <2>2, OrderPlaces DEF Standing, EarlierProcessed
<1>6. \A b \in Block : idom'[b] = None <=> b \notin Elements(rpo) \ {Entry}
  BY <1>2, <1>3, <1>5 DEF Standing, ChainsDescend
<1>7. ASSUME NEW b \in Elements(rpo) \ {Entry}
      PROVE  /\ idom'[b] # b
             /\ Dominates(succs, idom'[b], b)
             /\ \A d \in Block \ {b} :
                    Dominates(succs, d, b) => Dominates(succs, d, idom'[b])
  <2>1. b \in Block \ {Entry} /\ idom'[b] = idom[b] /\ idom[b] # None
    BY <1>3, <1>5
  <2>2. Pos(rpo, idom[b]) < Pos(rpo, b) /\ Pos(rpo, b) \in Nat
    BY <1>2, <2>1, OrderPlaces DEF Standing, ChainsDescend
  <2>3. OnChain(idom, idom[b], b)
    BY <2>1, ChainUp
  <2>4. Dominates(succs, idom[b], b)
    BY <1>1, <2>3, ChainDominates
  <2>5. \A d \in Block \ {b} :
          Dominates(succs, d, b) => Dominates(succs, d, idom[b])
    BY <1>2, <2>1 DEF Standing, NoDominatorLost
  <2> QED
    BY <2>1, <2>2, <2>4, <2>5
<1>8. ImmediateDominators(succs, rpo, idom')
  BY <1>3, <1>6, <1>7 DEF ImmediateDominators
<1> QED
  BY <1>1, <1>2, <1>4, <1>8 DEF SweepInv, IdomCorrect

\* Every step of the sweeps keeps the invariant.
THEOREM SweepsKeep == SweepInv /\ [Next]_vars => SweepInv'
<1> SUFFICES ASSUME SweepInv, [Next]_vars PROVE SweepInv'
  OBVIOUS
<1>1. CASE UNCHANGED vars
  <2>1. /\ UNCHANGED <<succs, rpo, phase, idom, at, todo, newIdom, finger, changed>>
    BY <1>1 DEF vars
  <2>2. Typed'
    BY <2>1 DEF SweepInv, Typed
  <2>3. Standing => Standing'
    BY <2>1, StandingKept
  <2>4. Visiting => Visiting'
    BY <2>1 DEF Visiting, GoodFinger, LookedAtAgree
  <2>5. IdomCorrect'
    BY <2>1 DEF SweepInv, IdomCorrect
  <2> QED
    BY <2>1, <2>2, <2>3, <2>4, <2>5 DEF SweepInv
<1> QED
  BY <1>1, VisitStepKeeps, IgnoreKeeps, TakeKeeps, IntersectKeeps, ClimbAKeeps,
     ClimbBKeeps, MeetKeeps, AssignKeeps, ResweepKeeps, SettleKeeps
  DEF Next

\* In the invariant, the sweeps keep their promises.
THEOREM SweepPromises ==
    ASSUME SweepInv
    PROVE  /\ phase # "done" => FingersProcessed /\ ChainsDescend /\ NoDominatorLost
           /\ IdomCorrect
BY DEF SweepInv, Standing, Visiting, GoodFinger, FingersProcessed
=============================================================================
