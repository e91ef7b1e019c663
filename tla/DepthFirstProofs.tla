-------------------------- MODULE DepthFirstProofs --------------------------
(***************************************************************************)
(* The search of DepthFirst keeps its invariant, from which the promise to *)
(* the dominator computation follows, for every graph.                     *)
(***************************************************************************)
EXTENDS DepthFirst, FlowGraphTheorems, SequenceTheorems

-----------------------------------------------------------------------------
(* The inductive invariant *)

\* The blocks of the first i frames; the blocks finished from place k on.
StackUpTo(i) == {stack[j].block : j \in 1 .. i}

FinishedFrom(k) == {postorder[m] : m \in k .. Len(postorder)}

\* A block is on the stack once, or in the postorder once, never in both.
ListedOnce ==
    /\ \A i, j \in DOMAIN stack : stack[i].block = stack[j].block => i = j
    /\ \A i, j \in DOMAIN postorder : postorder[i] = postorder[j] => i = j
    /\ OnStack \cap Elements(postorder) = {}

\* A successor that has been looked at is marked.
LookedAtMarked ==
    /\ \A b \in Elements(postorder) : Succs(succs, b) \subseteq visited
    /\ \A i \in DOMAIN stack :
        \A k \in DOMAIN succs[stack[i].block] :
            k < stack[i].next => succs[stack[i].block][k] \in visited

\* The entry is discovered first and finished last.
EntryOutermost ==
    IF stack = <<>>
    THEN postorder # <<>> /\ postorder[Len(postorder)] = Entry
    ELSE stack[1].block = Entry

\* A block of the stack is reached through the blocks below it; a finished
\* block through the stack and the blocks finished after it.
ReachedThroughLater ==
    /\ \A i \in DOMAIN stack :
        ReachableWithin(succs, StackUpTo(i), stack[i].block)
    /\ \A k \in DOMAIN postorder :
        ReachableWithin(succs, OnStack \cup FinishedFrom(k), postorder[k])

\* The search goes from a block of the stack up to those above it without an
\* edge into a dominator,
StackOnward ==
    \A i, j \in DOMAIN stack :
        i <= j => Onward(succs, stack[i].block, stack[j].block)

\* and so a successor of a finished block that was not finished before it
\* leads back to it.
RetreatsOnward ==
    \A k \in DOMAIN postorder : \A y \in Succs(succs, postorder[k]) :
        y \in OnStack \cup FinishedFrom(k) => Onward(succs, y, postorder[k])

PublishedReversed ==
    rpo # <<>> => stack = <<>> /\ rpo = Reversed(postorder)

SearchInv ==
    /\ succs \in Adjacency
    /\ TypeOK
    /\ ListedOnce
    /\ LookedAtMarked
    /\ EntryOutermost
    /\ ReachedThroughLater
    /\ StackOnward
    /\ RetreatsOnward
    /\ PublishedReversed

-----------------------------------------------------------------------------
(* What a step does to the stack, place by place *)

\* The frame on top has a block and a next place.
LEMMA TopFrame ==
    ASSUME stack \in Seq(Frame), stack # <<>>
    PROVE  /\ Len(stack) \in Nat \ {0}
           /\ Len(stack) \in DOMAIN stack
           /\ Top \in Frame
           /\ Top.block \in OnStack
BY DEF Top, OnStack

\* Looking at a successor moves on the next place of the frame on top and
\* leaves every block where it is.
LEMMA AdvancedFrames ==
    ASSUME stack \in Seq(Frame), stack # <<>>
    PROVE  /\ Advanced \in Seq(Frame)
           /\ Len(Advanced) = Len(stack)
           /\ \A i \in DOMAIN stack : Advanced[i].block = stack[i].block
           /\ \A i \in 1 .. Len(stack) - 1 : Advanced[i] = stack[i]
           /\ Advanced[Len(stack)].next = Top.next + 1
<1> DEFINE n == Len(stack)
           moved == [Top EXCEPT !.next = @ + 1]
<1>1. n \in 1 .. Len(stack) /\ Top \in Frame /\ Top = stack[n]
  BY TopFrame DEF Top
<1>2. moved \in Frame /\ moved.block = Top.block /\ moved.next = Top.next + 1
  BY <1>1 DEF Frame
<1>3. Advanced = [stack EXCEPT ![n] = moved]
  BY <1>1 DEF Advanced, Top
<1> QED
  BY <1>1, <1>2, <1>3, ExceptSeq

\* A discovered block goes on top of the frames that are there.
LEMMA PushedFrames ==
    ASSUME stack \in Seq(Frame), stack # <<>>, NEW s \in Block,
           NEW n \in Nat, n = Len(stack)
    PROVE  LET pushed == Append(Advanced, [block |-> s, next |-> 1])
           IN  /\ pushed \in Seq(Frame)
               /\ Len(pushed) = n + 1
               /\ \A i \in 1 .. n : pushed[i].block = stack[i].block
               /\ \A i \in 1 .. n - 1 : pushed[i] = stack[i]
               /\ pushed[n].next = Top.next + 1
               /\ pushed[n + 1] = [block |-> s, next |-> 1]
<1>1. [block |-> s, next |-> 1] \in Frame
  BY DEF Frame
<1>2. n > 0 /\ DOMAIN stack = 1 .. n
  BY TopFrame
<1> QED
  BY <1>1, <1>2, AdvancedFrames, AppendProperties

\* A finished block leaves the frames below it as they are.
LEMMA PoppedFrames ==
    ASSUME stack \in Seq(Frame), stack # <<>>
    PROVE  /\ Pop \in Seq(Frame)
           /\ Len(Pop) = Len(stack) - 1
           /\ DOMAIN Pop = 1 .. Len(stack) - 1
           /\ \A i \in DOMAIN Pop : Pop[i] = stack[i]
<1>1. PICK n \in Nat : n = Len(stack) - 1
  BY TopFrame
<1>2. \A i \in 1 .. n : stack[i] \in Frame
  BY <1>1
<1>3. SubSeq(stack, 1, n) \in Seq(Frame) /\ Len(SubSeq(stack, 1, n)) = n
  BY <1>2, SubSeqProperties
<1>4. \A i \in 1 .. n : SubSeq(stack, 1, n)[i] = stack[i]
  BY <1>1
<1> QED
  BY <1>1, <1>3, <1>4 DEF Pop

-----------------------------------------------------------------------------
(* The invariant holds at the start and every step keeps it *)

\* The search begins in the invariant.
LEMMA SearchBegins ==
    ASSUME succs \in Adjacency, Begin
    PROVE  SearchInv
<1>1. Entry \in Block
  BY FlowGraphAssumption
<1>2. [block |-> Entry, next |-> 1] \in Frame
  BY <1>1 DEF Frame
<1>3. /\ stack \in Seq(Frame) /\ stack # <<>> /\ DOMAIN stack = {1}
      /\ stack[1].block = Entry /\ stack[1].next = 1
      /\ postorder = <<>> /\ DOMAIN postorder = {}
      /\ rpo = <<>> /\ visited = {Entry}
  BY <1>2 DEF Begin
<1>4. OnStack = {Entry} /\ Elements(postorder) = {}
  BY <1>3 DEF OnStack, Elements
<1>5. TypeOK
  BY <1>1, <1>3, <1>4 DEF TypeOK
<1>6. LookedAtMarked
  <2>1. DOMAIN succs[Entry] = 1 .. Len(succs[Entry])
    BY <1>1, SuccsNamed
  <2> QED
    BY <1>3, <1>4, <2>1 DEF LookedAtMarked
<1>7. ReachedThroughLater
  BY <1>3, ReachableEntry DEF ReachedThroughLater
<1>8. StackOnward /\ RetreatsOnward
  BY <1>3, OnwardSelf DEF StackOnward, RetreatsOnward
<1> QED
  BY <1>3, <1>4, <1>5, <1>6, <1>7, <1>8
  DEF SearchInv, ListedOnce, EntryOutermost, PublishedReversed

\* Marking a successor and searching it next keeps the invariant.
LEMMA DescendKeeps ==
    ASSUME SearchInv, Descend
    PROVE  SearchInv'
<1>1. PICK s \in Block :
        /\ Looks(s) /\ s \notin visited
        /\ visited' = visited \cup {s}
        /\ stack' = Append(Advanced, [block |-> s, next |-> 1])
        /\ UNCHANGED <<succs, postorder, rpo>>
  BY DEF Descend
<1>2. /\ succs \in Adjacency
      /\ visited \subseteq Block /\ visited = OnStack \cup Elements(postorder)
      /\ stack \in Seq(Frame) /\ stack # <<>>
      /\ postorder \in Seq(Block) /\ rpo \in Seq(Block)
  BY <1>1 DEF SearchInv, TypeOK, Looks
<1>3. PICK n \in Nat \ {0}, b \in OnStack :
        /\ n = Len(stack) /\ DOMAIN stack = 1 .. n
        /\ Top = stack[n] /\ Top.block = b /\ b \in Block /\ Top.next \in Nat \ {0}
  BY <1>2, TopFrame DEF Top, Frame
<1>4. /\ DOMAIN succs[b] = 1 .. Len(succs[b]) /\ Len(succs[b]) \in Nat
      /\ s = succs[b][Top.next] /\ s \in Succs(succs, b)
  BY <1>1, <1>2, <1>3, SuccsNamed DEF Looks
<1>5. /\ stack' \in Seq(Frame) /\ DOMAIN stack' = 1 .. n + 1 /\ stack' # <<>>
      /\ \A i \in 1 .. n : stack'[i].block = stack[i].block
      /\ \A i \in 1 .. n - 1 : stack'[i] = stack[i]
      /\ stack'[n].next = Top.next + 1
      /\ stack'[n + 1].block = s /\ stack'[n + 1].next = 1
  <2>1. /\ stack' \in Seq(Frame) /\ Len(stack') = n + 1
        /\ \A i \in 1 .. n : stack'[i].block = stack[i].block
        /\ \A i \in 1 .. n - 1 : stack'[i] = stack[i]
        /\ stack'[n].next = Top.next + 1
        /\ stack'[n + 1] = [block |-> s, next |-> 1]
    BY <1>1, <1>2, <1>3, PushedFrames
  <2> QED
    BY <1>3, <2>1
<1>6. OnStack' = OnStack \cup {s}
  <2>1. OnStack \cup {s} \subseteq OnStack'
    BY <1>3, <1>5 DEF OnStack
  <2>2. OnStack' \subseteq OnStack \cup {s}
    BY <1>3, <1>5 DEF OnStack
  <2> QED
    BY <2>1, <2>2
<1>7. Elements(postorder)' = Elements(postorder)
  BY <1>1 DEF Elements
<1>8. s \notin OnStack /\ s \notin Elements(postorder)
  BY <1>1, <1>2
<1>9. TypeOK'
  BY <1>1, <1>2, <1>5, <1>6, <1>7 DEF TypeOK
<1>10. ListedOnce'
  <2>1. \A i, j \in 1 .. n + 1 : stack'[i].block = stack'[j].block => i = j
    <3>1. \A i \in 1 .. n : stack'[i].block \in OnStack
      BY <1>3, <1>5 DEF OnStack
    <3>2. \A i, j \in 1 .. n : stack[i].block = stack[j].block => i = j
      BY <1>3 DEF SearchInv, ListedOnce
    <3> QED
      BY <1>3, <1>5, <1>8, <3>1, <3>2
  <2> QED
    BY <1>1, <1>5, <1>6, <1>7, <1>8, <2>1 DEF SearchInv, ListedOnce
<1>11. LookedAtMarked'
  <2>1. ASSUME NEW i \in 1 .. n + 1, NEW k \in DOMAIN succs[stack'[i].block],
               k < stack'[i].next
        PROVE  succs[stack'[i].block][k] \in visited'
    <3>1. CASE i = n + 1
      <4>1. k \in Nat \ {0}
        BY <1>1, <1>2, <1>5, <3>1, SuccsNamed
      <4> QED
        BY <1>5, <2>1, <3>1, <4>1
    <3>2. CASE i = n
      <4>1. stack'[i].block = b /\ stack[n].block = b /\ stack[n].next = Top.next
        BY <1>3, <1>5, <3>2
      <4>2. k = Top.next \/ k < Top.next
        BY <1>3, <1>4, <1>5, <2>1, <3>2, <4>1
      <4>3. k < Top.next => succs[b][k] \in visited
        BY <1>3, <2>1, <4>1 DEF SearchInv, LookedAtMarked
      <4> QED
        BY <1>1, <1>4, <4>1, <4>2, <4>3
    <3>3. CASE i < n
      <4>1. i \in DOMAIN stack /\ stack'[i] = stack[i]
        BY SMTT(30), <1>3, <1>5, <3>3
      <4>2. succs[stack[i].block][k] \in visited
        BY <2>1, <4>1 DEF SearchInv, LookedAtMarked
      <4> QED
        BY <1>1, <4>1, <4>2
    <3> QED
      BY <1>3, <3>1, <3>2, <3>3
  <2> QED
    BY <1>1, <1>5, <1>7, <2>1 DEF SearchInv, LookedAtMarked
<1>12. EntryOutermost'
  BY <1>2, <1>3, <1>5 DEF SearchInv, EntryOutermost
<1>13. ReachedThroughLater'
  <2>1. ASSUME NEW i \in 1 .. n
        PROVE  StackUpTo(i)' = StackUpTo(i)
    <3>1. \A j \in 1 .. i : stack'[j].block = stack[j].block
      BY <1>3, <1>5
    <3> QED
      BY <3>1 DEF StackUpTo
  <2>2. StackUpTo(n) = OnStack
    BY <1>3 DEF StackUpTo, OnStack
  <2>3. ReachableWithin(succs, OnStack', b)
    <3>1. ReachableWithin(succs, OnStack, b)
      BY <1>3, <2>2 DEF SearchInv, ReachedThroughLater
    <3> QED
      BY <1>6, <3>1, ReachableMore
  <2>4. ReachableWithin(succs, OnStack', s)
    BY <1>3, <1>4, <1>6, <2>3, ReachableNext
  <2>5. ASSUME NEW i \in 1 .. n + 1
        PROVE  ReachableWithin(succs, StackUpTo(i)', stack'[i].block)
    <3>1. CASE i \in 1 .. n
      <4>1. ReachableWithin(succs, StackUpTo(i), stack[i].block)
        BY <1>3, <3>1 DEF SearchInv, ReachedThroughLater
      <4> QED
        BY <1>5, <2>1, <3>1, <4>1
    <3>2. CASE i = n + 1
      <4>1. StackUpTo(i)' = OnStack'
        BY <1>5, <3>2 DEF StackUpTo, OnStack
      <4> QED
        BY <1>5, <2>4, <3>2, <4>1
    <3> QED
      BY <1>3, <3>1, <3>2
  <2>6. ASSUME NEW k \in DOMAIN postorder
        PROVE  ReachableWithin(succs, OnStack' \cup FinishedFrom(k)', postorder[k])
    <3>1. FinishedFrom(k)' = FinishedFrom(k)
      BY <1>1 DEF FinishedFrom
    <3>2. ReachableWithin(succs, OnStack \cup FinishedFrom(k), postorder[k])
      BY DEF SearchInv, ReachedThroughLater
    <3> QED
      BY <1>6, <3>1, <3>2, ReachableMore
  <2> QED
    BY <1>1, <1>5, <2>5, <2>6 DEF ReachedThroughLater
<1>14. PublishedReversed'
  BY <1>1, <1>2 DEF SearchInv, PublishedReversed
<1>15. StackOnward'
  <2>1. Onward(succs, b, s)
    <3>1. Entry \in OnStack
      BY <1>2, <1>3 DEF SearchInv, EntryOutermost, OnStack
    <3>2. StackUpTo(n) = OnStack
      BY <1>3 DEF StackUpTo, OnStack
    <3>3. ReachableWithin(succs, OnStack, b)
      BY <1>3, <3>2 DEF SearchInv, ReachedThroughLater
    <3>4. ~Dominates(succs, s, b)
      BY <1>3, <1>8, <3>1, <3>3, DominatorsPassed
    <3> QED
      BY <1>4, <3>4, OnwardEdge
  <2>2. \A i \in 1 .. n : Onward(succs, stack[i].block, s)
    <3>1. \A i \in 1 .. n : Onward(succs, stack[i].block, b)
      BY <1>3 DEF SearchInv, StackOnward
    <3> QED
      BY <2>1, <3>1, OnwardJoin
  <2>3. ASSUME NEW i \in 1 .. n + 1, NEW j \in 1 .. n + 1, i <= j
        PROVE  Onward(succs, stack'[i].block, stack'[j].block)
    <3>1. CASE i = n + 1
      BY <1>5, <2>3, <3>1, OnwardSelf
    <3>2. CASE i \in 1 .. n /\ j = n + 1
      BY <1>5, <2>2, <3>2
    <3>3. CASE i \in 1 .. n /\ j \in 1 .. n
      BY <1>3, <1>5, <2>3, <3>3 DEF SearchInv, StackOnward
    <3> QED
      BY <2>3, <3>1, <3>2, <3>3
  <2> QED
    BY <1>1, <1>5, <2>3 DEF StackOnward
<1>16. RetreatsOnward'
  <2>1. ASSUME NEW k \in DOMAIN postorder, NEW y \in Succs(succs, postorder[k]),
               y \in OnStack' \cup FinishedFrom(k)'
        PROVE  Onward(succs, y, postorder[k])
    <3>1. y # s
      BY <1>1 DEF SearchInv, LookedAtMarked, Elements
    <3>2. FinishedFrom(k)' = FinishedFrom(k)
      BY <1>1 DEF FinishedFrom
    <3> QED
      BY <1>6, <2>1, <3>1, <3>2 DEF SearchInv, RetreatsOnward
  <2> QED
    BY <1>1, <2>1 DEF RetreatsOnward
<1> QED
  BY <1>1, <1>2, <1>9, <1>10, <1>11, <1>12, <1>13, <1>14, <1>15, <1>16 DEF SearchInv

\* Passing over a successor that is marked keeps the invariant.
LEMMA SkipKeeps ==
    ASSUME SearchInv, Skip
    PROVE  SearchInv'
<1>1. PICK s \in Block :
        Looks(s) /\ s \in visited /\ stack' = Advanced
          /\ UNCHANGED <<succs, visited, postorder, rpo>>
  BY DEF Skip
<1>2. /\ succs \in Adjacency
      /\ visited \subseteq Block /\ visited = OnStack \cup Elements(postorder)
      /\ stack \in Seq(Frame) /\ stack # <<>>
      /\ postorder \in Seq(Block) /\ rpo \in Seq(Block)
  BY <1>1 DEF SearchInv, TypeOK, Looks
<1>3. PICK n \in Nat \ {0} : n = Len(stack) /\ DOMAIN stack = 1 .. n
  BY <1>2, TopFrame
<1>4. /\ Top = stack[n] /\ Top.block \in Block /\ Top.next \in Nat \ {0}
      /\ s = succs[Top.block][Top.next]
      /\ DOMAIN succs[Top.block] = 1 .. Len(succs[Top.block])
  BY <1>1, <1>2, <1>3, TopFrame, SuccsNamed DEF Top, Frame, Looks
<1>5. /\ stack' \in Seq(Frame) /\ DOMAIN stack' = 1 .. n /\ stack' # <<>>
      /\ \A i \in 1 .. n : stack'[i].block = stack[i].block
      /\ \A i \in 1 .. n - 1 : stack'[i] = stack[i]
      /\ stack'[n].next = Top.next + 1
  <2>1. /\ stack' \in Seq(Frame) /\ Len(stack') = n
        /\ \A i \in 1 .. n : stack'[i].block = stack[i].block
        /\ \A i \in 1 .. n - 1 : stack'[i] = stack[i]
        /\ stack'[n].next = Top.next + 1
    BY <1>1, <1>2, <1>3, AdvancedFrames, Zenon
  <2> QED
    BY <2>1
<1>6. OnStack' = OnStack /\ Elements(postorder)' = Elements(postorder)
  BY <1>1, <1>3, <1>5 DEF OnStack, Elements
<1>7. TypeOK'
  BY <1>1, <1>2, <1>5, <1>6 DEF TypeOK
<1>8. ListedOnce'
  BY <1>1, <1>3, <1>5, <1>6 DEF SearchInv, ListedOnce
<1>9. LookedAtMarked'
  <2>1. ASSUME NEW i \in 1 .. n, NEW k \in DOMAIN succs[stack'[i].block],
               k < stack'[i].next
        PROVE  succs[stack'[i].block][k] \in visited
    <3>1. stack'[i].block = stack[i].block
      BY <1>5
    <3>2. k < stack[i].next => succs[stack[i].block][k] \in visited
      BY <1>3, <2>1, <3>1 DEF SearchInv, LookedAtMarked
    <3>3. CASE i < n
      BY <1>3, <1>5, <2>1, <3>1, <3>2, <3>3
    <3>4. CASE i = n
      <4>1. k = Top.next \/ k < Top.next
        BY <1>4, <1>5, <2>1, <3>1, <3>4
      <4> QED
        BY <1>1, <1>4, <3>1, <3>2, <3>4, <4>1
    <3> QED
      BY <1>3, <3>3, <3>4
  <2> QED
    BY <1>1, <1>5, <1>6, <2>1 DEF SearchInv, LookedAtMarked
<1>10. EntryOutermost'
  BY <1>2, <1>3, <1>5 DEF SearchInv, EntryOutermost
<1>11. ReachedThroughLater'
  <2>1. ASSUME NEW i \in 1 .. n
        PROVE  StackUpTo(i)' = StackUpTo(i)
    <3>1. \A j \in 1 .. i : stack'[j].block = stack[j].block
      BY <1>3, <1>5
    <3> QED
      BY <3>1 DEF StackUpTo
  <2>2. \A k : FinishedFrom(k)' = FinishedFrom(k)
    BY <1>1 DEF FinishedFrom
  <2> QED
    BY <1>1, <1>3, <1>5, <1>6, <2>1, <2>2 DEF SearchInv, ReachedThroughLater
<1>12. PublishedReversed'
  BY <1>1, <1>2 DEF SearchInv, PublishedReversed
<1>13. StackOnward'
  BY <1>1, <1>3, <1>5 DEF SearchInv, StackOnward
<1>14. RetreatsOnward'
  <2>1. \A k : FinishedFrom(k)' = FinishedFrom(k)
    BY <1>1 DEF FinishedFrom
  <2> QED
    BY <1>1, <1>6, <2>1 DEF SearchInv, RetreatsOnward
<1> QED
  BY <1>1, <1>2, <1>7, <1>8, <1>9, <1>10, <1>11, <1>12, <1>13, <1>14 DEF SearchInv

\* Finishing a block keeps the invariant.
LEMMA RetreatKeeps ==
    ASSUME SearchInv, Retreat
    PROVE  SearchInv'
<1>1. /\ stack # <<>> /\ Top.next > Len(succs[Top.block])
      /\ postorder' = Append(postorder, Top.block)
      /\ stack' = Pop
      /\ UNCHANGED <<succs, visited, rpo>>
  BY DEF Retreat
<1>2. /\ succs \in Adjacency
      /\ visited \subseteq Block /\ visited = OnStack \cup Elements(postorder)
      /\ stack \in Seq(Frame)
      /\ postorder \in Seq(Block) /\ rpo \in Seq(Block)
  BY DEF SearchInv, TypeOK
<1>3. PICK n \in Nat \ {0}, b \in OnStack :
        /\ n = Len(stack) /\ DOMAIN stack = 1 .. n
        /\ Top = stack[n] /\ Top.block = b /\ b \in Block /\ Top.next \in Nat \ {0}
  BY <1>1, <1>2, TopFrame DEF Top, Frame
<1>4. PICK m \in Nat : m = Len(postorder) /\ DOMAIN postorder = 1 .. m
  BY <1>2
<1>5. /\ stack' \in Seq(Frame) /\ Len(stack') = n - 1 /\ DOMAIN stack' = 1 .. n - 1
      /\ \A i \in 1 .. n - 1 : stack'[i] = stack[i]
  BY <1>1, <1>2, <1>3, PoppedFrames
<1>6. /\ postorder' \in Seq(Block) /\ postorder' # <<>>
      /\ Len(postorder') = m + 1 /\ DOMAIN postorder' = 1 .. m + 1
      /\ \A k \in 1 .. m : postorder'[k] = postorder[k]
      /\ postorder'[m + 1] = b
  BY <1>1, <1>2, <1>3, <1>4, AppendProperties
<1>7. OnStack = OnStack' \cup {b} /\ b \notin OnStack'
  <2>1. \A i \in 1 .. n - 1 : stack[i].block # b
    BY <1>3 DEF SearchInv, ListedOnce
  <2> QED
    BY <1>3, <1>5, <2>1 DEF OnStack
<1>8. Elements(postorder)' = Elements(postorder) \cup {b}
  BY <1>4, <1>6 DEF Elements
<1>9. TypeOK'
  BY <1>1, <1>2, <1>5, <1>6, <1>7, <1>8 DEF TypeOK
<1>10. ListedOnce'
  <2>1. \A i, j \in 1 .. n - 1 : stack'[i].block = stack'[j].block => i = j
    <3>1. \A i, j \in 1 .. n : stack[i].block = stack[j].block => i = j
      BY <1>3 DEF SearchInv, ListedOnce
    <3> QED
      BY <1>5, <3>1
  <2>2. b \notin Elements(postorder)
    BY <1>3 DEF SearchInv, ListedOnce
  <2>3. \A k \in 1 .. m : postorder[k] # b
    BY <1>4, <2>2 DEF Elements
  <2>4. \A i, j \in 1 .. m + 1 : postorder'[i] = postorder'[j] => i = j
    <3>1. \A i, j \in 1 .. m : postorder[i] = postorder[j] => i = j
      BY <1>4 DEF SearchInv, ListedOnce
    <3> QED
      BY <1>6, <2>3, <3>1
  <2>5. OnStack' \cap Elements(postorder)' = {}
    BY <1>7, <1>8 DEF SearchInv, ListedOnce
  <2> QED
    BY <1>5, <1>6, <2>1, <2>4, <2>5 DEF ListedOnce
<1>11. LookedAtMarked'
  <2>1. Succs(succs, b) \subseteq visited
    <3>1. Succs(succs, b) = {succs[b][k] : k \in 1 .. Len(succs[b])}
          /\ Len(succs[b]) \in Nat /\ DOMAIN succs[b] = 1 .. Len(succs[b])
      BY <1>2, <1>3, SuccsNamed
    <3>2. \A k \in 1 .. Len(succs[b]) : k < stack[n].next
      BY <1>1, <1>3, <3>1
    <3>3. \A k \in 1 .. Len(succs[b]) : succs[b][k] \in visited
      BY <1>3, <3>1, <3>2 DEF SearchInv, LookedAtMarked
    <3> QED
      BY <3>1, <3>3
  <2>2. ASSUME NEW i \in 1 .. n - 1, NEW k \in DOMAIN succs[stack'[i].block],
               k < stack'[i].next
        PROVE  succs[stack'[i].block][k] \in visited
    <3>1. i \in DOMAIN stack /\ stack'[i] = stack[i]
      BY <1>3, <1>5
    <3> QED
      BY <2>2, <3>1 DEF SearchInv, LookedAtMarked
  <2> QED
    BY <1>1, <1>5, <1>8, <2>1, <2>2 DEF SearchInv, LookedAtMarked
<1>12. EntryOutermost'
  <2>1. stack[1].block = Entry
    BY <1>1 DEF SearchInv, EntryOutermost
  <2>2. CASE n = 1
    BY <1>3, <1>5, <1>6, <2>1, <2>2 DEF EntryOutermost
  <2>3. CASE n > 1
    BY <1>5, <2>1, <2>3 DEF EntryOutermost
  <2> QED
    BY <1>3, <2>2, <2>3
<1>13. ReachedThroughLater'
  <2>1. ASSUME NEW i \in 1 .. n - 1
        PROVE  ReachableWithin(succs, StackUpTo(i)', stack'[i].block)
    <3>1. \A j \in 1 .. i : stack'[j].block = stack[j].block
      BY <1>3, <1>5
    <3>2. StackUpTo(i)' = StackUpTo(i)
      BY <3>1 DEF StackUpTo
    <3> QED
      BY <1>3, <1>5, <3>2 DEF SearchInv, ReachedThroughLater
  <2>2. ASSUME NEW k \in 1 .. m
        PROVE  ReachableWithin(succs, OnStack' \cup FinishedFrom(k)', postorder'[k])
    <3>1. FinishedFrom(k)' = FinishedFrom(k) \cup {b}
      BY <1>4, <1>6 DEF FinishedFrom
    <3>2. OnStack' \cup FinishedFrom(k)' = OnStack \cup FinishedFrom(k)
      BY <1>7, <3>1
    <3> QED
      BY <1>4, <1>6, <3>2 DEF SearchInv, ReachedThroughLater
  <2>3. ASSUME NEW k \in {m + 1}
        PROVE  ReachableWithin(succs, OnStack' \cup FinishedFrom(k)', postorder'[k])
    <3>1. StackUpTo(n) = OnStack
      BY <1>3 DEF StackUpTo, OnStack
    <3>2. ReachableWithin(succs, OnStack, b)
      BY <1>3, <3>1 DEF SearchInv, ReachedThroughLater
    <3>3. b \in FinishedFrom(k)' /\ postorder'[k] = b
      BY <1>6 DEF FinishedFrom
    <3> QED
      BY <1>7, <3>2, <3>3, ReachableMore
  <2>4. \A k \in 1 .. m + 1 :
          ReachableWithin(succs, OnStack' \cup FinishedFrom(k)', postorder'[k])
    <3>1. \A k \in 1 .. m + 1 : k \in 1 .. m \/ k \in {m + 1}
      OBVIOUS
    <3> QED
      BY <2>2, <2>3, <3>1
  <2> QED
    BY <1>1, <1>5, <1>6, <2>1, <2>4 DEF ReachedThroughLater
<1>14. PublishedReversed'
  BY <1>1, <1>2 DEF SearchInv, PublishedReversed
<1>15. StackOnward'
  <2>1. \A i, j \in 1 .. n : i <= j => Onward(succs, stack[i].block, stack[j].block)
    BY <1>3 DEF SearchInv, StackOnward
  <2>2. \A i \in 1 .. n - 1 : i \in 1 .. n /\ stack'[i].block = stack[i].block
    BY <1>3, <1>5
  <2>3. \A i, j \in 1 .. n - 1 : i <= j => Onward(succs, stack'[i].block, stack'[j].block)
    BY <2>1, <2>2
  <2>4. succs' = succs /\ DOMAIN stack' = 1 .. n - 1
    BY <1>1, <1>5
  <2> QED
    BY <2>3, <2>4 DEF StackOnward
<1>16. RetreatsOnward'
  <2>1. ASSUME NEW k \in 1 .. m
        PROVE  OnStack' \cup FinishedFrom(k)' = OnStack \cup FinishedFrom(k)
    <3>1. FinishedFrom(k)' = FinishedFrom(k) \cup {b}
      BY <1>4, <1>6 DEF FinishedFrom
    <3> QED
      BY <1>7, <3>1
  <2>2. OnStack' \cup FinishedFrom(m + 1)' = OnStack
    <3>1. FinishedFrom(m + 1)' = {b}
      BY <1>6 DEF FinishedFrom
    <3> QED
      BY <1>7, <3>1
  <2>3. \A y \in OnStack : Onward(succs, y, b)
    BY <1>3 DEF SearchInv, StackOnward, OnStack
  <2>4. ASSUME NEW k \in 1 .. m + 1, NEW y \in Succs(succs, postorder'[k]),
               y \in OnStack' \cup FinishedFrom(k)'
        PROVE  Onward(succs, y, postorder'[k])
    <3>1. CASE k = m + 1
      BY <1>6, <2>2, <2>3, <2>4, <3>1
    <3>2. CASE k \in 1 .. m
      BY <1>4, <1>6, <2>1, <2>4, <3>2 DEF SearchInv, RetreatsOnward
    <3> QED
      BY <3>1, <3>2
  <2> QED
    BY <1>1, <1>6, <2>4 DEF RetreatsOnward
<1> QED
  BY <1>1, <1>2, <1>9, <1>10, <1>11, <1>12, <1>13, <1>14, <1>15, <1>16 DEF SearchInv

\* Publishing the order keeps the invariant.
LEMMA PublishKeeps ==
    ASSUME SearchInv, Publish
    PROVE  SearchInv'
<1>1. /\ stack = <<>> /\ rpo' = Reversed(postorder)
      /\ UNCHANGED <<succs, visited, stack, postorder>>
  BY DEF Publish
<1>2. rpo' \in Seq(Block)
  <2>1. postorder \in Seq(Block)
    BY DEF SearchInv, TypeOK
  <2> QED
    BY <1>1, <2>1 DEF Reversed
<1>3. OnStack' = OnStack /\ Elements(postorder)' = Elements(postorder)
      /\ Reversed(postorder)' = Reversed(postorder)
  BY <1>1 DEF OnStack, Elements, Reversed
<1>4. TypeOK'
  BY <1>1, <1>2, <1>3 DEF SearchInv, TypeOK
<1>5. ReachedThroughLater'
  BY <1>1, <1>3 DEF SearchInv, ReachedThroughLater, StackUpTo, FinishedFrom
<1>6. StackOnward' /\ RetreatsOnward'
  BY <1>1, <1>3 DEF SearchInv, StackOnward, RetreatsOnward, FinishedFrom
<1> QED
  BY <1>1, <1>3, <1>4, <1>5, <1>6
  DEF SearchInv, ListedOnce, LookedAtMarked, EntryOutermost, PublishedReversed

-----------------------------------------------------------------------------
(* What the search establishes *)

\* Every step of the search keeps the invariant.
THEOREM SearchKeeps == SearchInv /\ [Next]_vars => SearchInv'
<1> SUFFICES ASSUME SearchInv, [Next]_vars PROVE SearchInv'
  OBVIOUS
<1>1. CASE UNCHANGED vars
  <2>1. TypeOK'
    BY <1>1 DEF vars, SearchInv, TypeOK, OnStack, Elements
  <2>2. ListedOnce' /\ LookedAtMarked' /\ EntryOutermost'
    BY <1>1
    DEF vars, SearchInv, ListedOnce, LookedAtMarked, EntryOutermost, OnStack, Elements
  <2>3. ReachedThroughLater'
    BY <1>1 DEF vars, SearchInv, ReachedThroughLater, OnStack, StackUpTo, FinishedFrom
  <2>4. StackOnward' /\ RetreatsOnward'
    BY <1>1 DEF vars, SearchInv, StackOnward, RetreatsOnward, OnStack, FinishedFrom
  <2> QED
    BY <1>1, <2>1, <2>2, <2>3, <2>4 DEF vars, SearchInv, PublishedReversed, Reversed
<1> QED
  BY <1>1, DescendKeeps, SkipKeeps, RetreatKeeps, PublishKeeps DEF Next

\* In an order that is published an edge that runs backwards closes onward:
\* what it leads to was on the stack when its source was finished.
THEOREM SearchRetreats ==
    ASSUME SearchInv, rpo # <<>>
    PROVE  RetreatsClose(succs, rpo)
<1>1. /\ stack = <<>> /\ rpo = Reversed(postorder) /\ postorder \in Seq(Block)
  BY DEF SearchInv, TypeOK, PublishedReversed
<1>2. PICK n \in Nat \ {0} :
        /\ n = Len(postorder) /\ DOMAIN postorder = 1 .. n
        /\ DOMAIN rpo = 1 .. n
        /\ \A i \in 1 .. n : rpo[i] = postorder[n + 1 - i]
  BY <1>1 DEF SearchInv, EntryOutermost, Reversed
<1>3. ASSUME NEW i \in 1 .. n, NEW j \in 1 .. n, j <= i, rpo[j] \in Succs(succs, rpo[i])
      PROVE  Onward(succs, rpo[j], rpo[i])
  <2>1. PICK k \in 1 .. n : k = n + 1 - i
    OBVIOUS
  <2>2. n + 1 - j \in k .. n /\ rpo[j] = postorder[n + 1 - j] /\ rpo[i] = postorder[k]
    BY <1>2, <1>3, <2>1
  <2>3. rpo[j] \in FinishedFrom(k)
    BY <1>2, <2>2 DEF FinishedFrom
  <2> QED
    BY <1>2, <1>3, <2>2, <2>3 DEF SearchInv, RetreatsOnward
<1> QED
  BY <1>2, <1>3 DEF RetreatsClose

\* In the invariant, an order that is published keeps the promise: it lists
\* exactly the reachable blocks, each reached through earlier ones, and only an
\* edge that closes a cycle runs backwards.
THEOREM SearchPromise ==
    ASSUME SearchInv
    PROVE  OrderPromised
<1> SUFFICES ASSUME rpo # <<>>
             PROVE  SearchOrder(succs, rpo) /\ Elements(rpo) = ReachableBlocks(succs)
  BY SearchRetreats DEF OrderPromised
<1>1. /\ succs \in Adjacency /\ stack = <<>> /\ rpo = Reversed(postorder)
      /\ postorder \in Seq(Block) /\ rpo \in Seq(Block)
      /\ visited = OnStack \cup Elements(postorder)
  BY DEF SearchInv, TypeOK, PublishedReversed
<1>2. OnStack = {}
  BY <1>1 DEF OnStack
<1>3. PICK n \in Nat \ {0} :
        /\ n = Len(postorder) /\ DOMAIN postorder = 1 .. n
        /\ DOMAIN rpo = 1 .. n
        /\ \A i \in 1 .. n : rpo[i] = postorder[n + 1 - i]
  BY <1>1 DEF SearchInv, EntryOutermost, Reversed
<1>4. rpo[1] = Entry
  BY <1>1, <1>3 DEF SearchInv, EntryOutermost
<1>5. Elements(rpo) = visited
  <2>1. \A i \in 1 .. n : n + 1 - i \in 1 .. n /\ postorder[i] = rpo[n + 1 - i]
    BY <1>3
  <2>2. Elements(postorder) \subseteq Elements(rpo)
    BY <1>3, <2>1 DEF Elements
  <2>3. Elements(rpo) \subseteq Elements(postorder)
    BY <1>3, <2>1 DEF Elements
  <2> QED
    BY <1>1, <1>2, <2>2, <2>3
<1>6. \A i, j \in DOMAIN rpo : rpo[i] = rpo[j] => i = j
  <2>1. \A i, j \in 1 .. n : postorder[i] = postorder[j] => i = j
    BY <1>3 DEF SearchInv, ListedOnce
  <2> QED
    BY <1>3, <2>1
<1>7. \A b \in Elements(rpo) : Succs(succs, b) \subseteq Elements(rpo)
  BY <1>1, <1>2, <1>5 DEF SearchInv, LookedAtMarked
<1>8. ASSUME NEW i \in 1 .. n
      PROVE  ReachableWithin(succs, UpTo(rpo, i), rpo[i])
  <2> DEFINE k == n + 1 - i
  <2>1. k \in 1 .. n /\ rpo[i] = postorder[k]
    BY <1>3
  <2>2. FinishedFrom(k) \subseteq UpTo(rpo, i)
    <3>1. ASSUME NEW m \in k .. n
          PROVE  n + 1 - m \in 1 .. i /\ postorder[m] = rpo[n + 1 - m]
      BY <1>3
    <3> QED
      BY <1>3, <3>1 DEF FinishedFrom, UpTo
  <2>3. ReachableWithin(succs, OnStack \cup FinishedFrom(k), postorder[k])
    BY <1>3, <2>1 DEF SearchInv, ReachedThroughLater
  <2> QED
    BY <1>2, <2>1, <2>2, <2>3, ReachableMore
<1>9. SearchOrder(succs, rpo)
  <2>1. \A i \in DOMAIN rpo : rpo[i] \in Elements(rpo)
    BY DEF Elements
  <2> QED
    BY <1>1, <1>3, <1>4, <1>6, <1>7, <1>8, <2>1 DEF SearchOrder
<1>10. Elements(rpo) \subseteq ReachableBlocks(succs)
  <2>1. ASSUME NEW i \in 1 .. n
        PROVE  rpo[i] \in ReachableBlocks(succs)
    <3>1. UpTo(rpo, i) \subseteq Block /\ rpo[i] \in Block
      BY <1>1, <1>3 DEF UpTo
    <3> QED
      BY <1>8, <3>1, ReachableMore DEF ReachableBlocks
  <2> QED
    BY <1>3, <2>1 DEF Elements
<1>11. ReachableBlocks(succs) \subseteq Elements(rpo)
  <2>1. Elements(rpo) \subseteq Block /\ Entry \in Elements(rpo)
    BY <1>1, <1>3, <1>4 DEF Elements
  <2> QED
    BY <1>7, <2>1, ReachableInClosed
<1> QED
  BY <1>9, <1>10, <1>11
=============================================================================
