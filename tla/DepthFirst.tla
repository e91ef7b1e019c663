----------------------------- MODULE DepthFirst -----------------------------
(***************************************************************************)
(* The search of CfgFacts::build (sordec-passes, dataflow/cfg.rs, step 2): *)
(* an iterative depth-first search that marks a block when it discovers    *)
(* it, collects the blocks in postorder and publishes them reversed.  A    *)
(* step of the module is one turn of the while loop.                       *)
(***************************************************************************)
EXTENDS FlowGraph

VARIABLES
    succs,         \* succs, fixed
    visited,       \* the blocks whose mark is set
    stack,         \* stack: a block and the place of its next successor
    postorder,     \* postorder
    rpo            \* rpo, empty until the search is over

vars == <<succs, visited, stack, postorder, rpo>>

Frame == [block : Block, next : Nat \ {0}]

Top == stack[Len(stack)]

Pop == SubSeq(stack, 1, Len(stack) - 1)

Advanced == [stack EXCEPT ![Len(stack)].next = @ + 1]

Reversed(seq) == [i \in 1 .. Len(seq) |-> seq[Len(seq) + 1 - i]]

Begin ==
    /\ visited = {Entry}
    /\ stack = <<[block |-> Entry, next |-> 1]>>
    /\ postorder = <<>>
    /\ rpo = <<>>

\* The next successor of the block on top is the one to look at now.
Looks(s) ==
    /\ stack # <<>>
    /\ Top.next <= Len(succs[Top.block])
    /\ s = succs[Top.block][Top.next]

\* Faulty: all successors not seen before are marked and pushed at once.
Descend_PushesAll ==
    \E s \in Block :
        /\ Looks(s)
        /\ s \notin visited
        /\ LET new == Ascending(Succs(succs, Top.block) \ visited)
           IN  /\ visited' = visited \cup Elements(new)
               /\ stack' = Advanced \o [i \in DOMAIN new |-> [block |-> new[i], next |-> 1]]
        /\ UNCHANGED <<succs, postorder, rpo>>

\* A successor seen for the first time is marked and searched.
Descend ==
    \E s \in Block :
        /\ Looks(s)
        /\ s \notin visited
        /\ visited' = visited \cup {s}
        /\ stack' = Append(Advanced, [block |-> s, next |-> 1])
        /\ UNCHANGED <<succs, postorder, rpo>>

\* A successor seen before is passed over.
Skip ==
    \E s \in Block :
        /\ Looks(s)
        /\ s \in visited
        /\ stack' = Advanced
        /\ UNCHANGED <<succs, visited, postorder, rpo>>

\* All successors have been looked at: the block is finished.
Retreat ==
    /\ stack # <<>>
    /\ Top.next > Len(succs[Top.block])
    /\ postorder' = Append(postorder, Top.block)
    /\ stack' = Pop
    /\ UNCHANGED <<succs, visited, rpo>>

Publish ==
    /\ stack = <<>>
    /\ rpo = <<>>
    /\ rpo' = Reversed(postorder)
    /\ UNCHANGED <<succs, visited, stack, postorder>>

Next == Descend \/ Skip \/ Retreat \/ Publish

-----------------------------------------------------------------------------
(* Properties *)

OnStack == {stack[i].block : i \in DOMAIN stack}

TypeOK ==
    /\ visited \subseteq Block
    /\ stack \in Seq(Frame)
    /\ postorder \in Seq(Block)
    /\ rpo \in Seq(Block)
    /\ visited = OnStack \cup Elements(postorder)

\* The order the search publishes is one the dominator computation may rely
\* on: it lists exactly the reachable blocks, each reached through earlier
\* ones ("its DFS tree parent precedes it in RPO"), and an edge runs backwards
\* in it only where it closes a cycle.
OrderPromised ==
    rpo # <<>> =>
        /\ SearchOrder(succs, rpo)
        /\ Elements(rpo) = ReachableBlocks(succs)
        /\ RetreatsClose(succs, rpo)
=============================================================================
