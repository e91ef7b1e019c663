----------------------------- MODULE Dominators -----------------------------
(***************************************************************************)
(* The dominator computation of CfgFacts::build (sordec-passes, dataflow,  *)
(* cfg.rs, step 3, after Cooper, Harvey and Kennedy): sweep over the       *)
(* blocks in reverse postorder, intersecting the idom chains of each       *)
(* block's processed predecessors, until a sweep changes nothing.  A step  *)
(* of the module is one turn of the innermost loop that is running; the    *)
(* order is the one the search of DepthFirst publishes.                    *)
(***************************************************************************)
EXTENDS FlowGraph

VARIABLES
    succs, rpo,    \* the graph and its order, fixed
    phase,         \* the loop that is running
    idom,          \* idom_raw
    at,            \* the position in rpo of the block being visited, b
    todo,          \* its predecessors not yet looked at
    newIdom,       \* new_idom; inside intersect, the finger a
    finger,        \* inside intersect, the finger b
    changed        \* changed

vars == <<succs, rpo, phase, idom, at, todo, newIdom, finger, changed>>

Phase == {"sweep", "preds", "intersect", "done"}

Processed(p) == idom[p] # None

Begin ==
    /\ phase = "sweep"
    /\ idom = [b \in Block |-> IF b = Entry THEN Entry ELSE None]
    /\ at = 2
    /\ todo = {}
    /\ newIdom = None
    /\ finger = None
    /\ changed = FALSE

\* for &b in &rpo[1..]
Visit ==
    /\ phase = "sweep"
    /\ at <= Len(rpo)
    /\ phase' = "preds"
    /\ todo' = Preds(succs, rpo[at])
    /\ newIdom' = None
    /\ UNCHANGED <<succs, rpo, idom, at, finger, changed>>

\* Predecessors are looked at in ascending order.
IsNext(p) == p \in todo /\ \A q \in todo : p <= q

\* An unreachable or not yet processed predecessor says nothing.
Ignore ==
    \E p \in todo :
        /\ phase = "preds"
        /\ IsNext(p)
        /\ p \notin Elements(rpo) \/ ~Processed(p)
        /\ todo' = todo \ {p}
        /\ UNCHANGED <<succs, rpo, phase, idom, at, newIdom, finger, changed>>

Take ==
    \E p \in todo :
        /\ phase = "preds"
        /\ IsNext(p)
        /\ p \in Elements(rpo) /\ Processed(p)
        /\ newIdom = None
        /\ newIdom' = p
        /\ todo' = todo \ {p}
        /\ UNCHANGED <<succs, rpo, phase, idom, at, finger, changed>>

\* Faulty: a predecessor that has no idom yet becomes a finger.
Intersect_Unprocessed ==
    \E p \in todo :
        /\ phase = "preds"
        /\ IsNext(p)
        /\ p \in Elements(rpo)
        /\ newIdom # None
        /\ finger' = p
        /\ todo' = todo \ {p}
        /\ phase' = "intersect"
        /\ UNCHANGED <<succs, rpo, idom, at, newIdom, changed>>

\* intersect(idom_raw, rpo_pos, current, p)
Intersect ==
    \E p \in todo :
        /\ phase = "preds"
        /\ IsNext(p)
        /\ p \in Elements(rpo) /\ Processed(p)
        /\ newIdom # None
        /\ finger' = p
        /\ todo' = todo \ {p}
        /\ phase' = "intersect"
        /\ UNCHANGED <<succs, rpo, idom, at, newIdom, changed>>

\* Faulty: the finger climbs past the one it should meet.
ClimbA_PastFinger ==
    /\ phase = "intersect"
    /\ Pos(rpo, newIdom) >= Pos(rpo, finger)
    /\ newIdom' = idom[newIdom]
    /\ UNCHANGED <<succs, rpo, phase, idom, at, todo, finger, changed>>

ClimbA ==
    /\ phase = "intersect"
    /\ Pos(rpo, newIdom) > Pos(rpo, finger)
    /\ newIdom' = idom[newIdom]
    /\ UNCHANGED <<succs, rpo, phase, idom, at, todo, finger, changed>>

ClimbB ==
    /\ phase = "intersect"
    /\ Pos(rpo, finger) > Pos(rpo, newIdom)
    /\ finger' = idom[finger]
    /\ UNCHANGED <<succs, rpo, phase, idom, at, todo, newIdom, changed>>

Meet ==
    /\ phase = "intersect"
    /\ finger = newIdom
    /\ finger' = None
    /\ phase' = "preds"
    /\ UNCHANGED <<succs, rpo, idom, at, todo, newIdom, changed>>

\* Faulty: what a later sweep finds is not written back.
Assign_FirstOnly ==
    /\ phase = "preds"
    /\ todo = {}
    /\ LET b == rpo[at]
           found == newIdom # None /\ idom[b] = None
       IN  /\ idom' = IF found THEN [idom EXCEPT ![b] = newIdom] ELSE idom
           /\ changed' = (changed \/ found)
    /\ at' = at + 1
    /\ phase' = "sweep"
    /\ UNCHANGED <<succs, rpo, todo, newIdom, finger>>

\* All predecessors are in: b's idom is what they agree on.
Assign ==
    /\ phase = "preds"
    /\ todo = {}
    /\ LET b == rpo[at]
           found == newIdom # None /\ idom[b] # newIdom
       IN  /\ idom' = IF found THEN [idom EXCEPT ![b] = newIdom] ELSE idom
           /\ changed' = (changed \/ found)
    /\ at' = at + 1
    /\ phase' = "sweep"
    /\ UNCHANGED <<succs, rpo, todo, newIdom, finger>>

\* Faulty: the flag is not lowered before the next sweep.
Resweep_KeepsChanged ==
    /\ phase = "sweep"
    /\ at > Len(rpo)
    /\ changed
    /\ at' = 2
    /\ UNCHANGED <<succs, rpo, phase, idom, todo, newIdom, finger, changed>>

\* while changed
Resweep ==
    /\ phase = "sweep"
    /\ at > Len(rpo)
    /\ changed
    /\ at' = 2
    /\ changed' = FALSE
    /\ UNCHANGED <<succs, rpo, phase, idom, todo, newIdom, finger>>

\* A sweep changed nothing: the entry's own idom is published as None.
Settle ==
    /\ phase = "sweep"
    /\ at > Len(rpo)
    /\ ~changed
    /\ phase' = "done"
    /\ idom' = [idom EXCEPT ![Entry] = None]
    /\ UNCHANGED <<succs, rpo, at, todo, newIdom, finger, changed>>

Next ==
    \/ Visit \/ Ignore \/ Take \/ Intersect
    \/ ClimbA \/ ClimbB \/ Meet
    \/ Assign \/ Resweep \/ Settle

-----------------------------------------------------------------------------
(* Properties *)

TypeOK ==
    /\ phase \in Phase
    /\ idom \in [Block -> Block \cup {None}]
    /\ at \in 2 .. BlockCount + 1
    /\ todo \subseteq Block
    /\ newIdom \in Block \cup {None}
    /\ finger \in Block \cup {None}
    /\ changed \in BOOLEAN

\* The two expect()s of intersect: while it runs, both fingers are reachable
\* blocks that already have an idom.
FingersProcessed ==
    phase = "intersect" =>
        \A f \in {newIdom, finger} : f \in Elements(rpo) /\ idom[f] # None

\* At every moment an idom chain runs strictly backwards in the order, so
\* climbing it ends at the entry and intersect ends.
ChainsDescend ==
    \A b \in Block \ {Entry} :
        idom[b] # None =>
            /\ b \in Elements(rpo) /\ idom[b] \in Elements(rpo)
            /\ idom[b] = Entry \/ idom[idom[b]] # None
            /\ Pos(rpo, idom[b]) < Pos(rpo, b)

\* The sweeps approach the answer from below: at every moment, half-way
\* through a sweep too, what strictly dominates a processed block dominates
\* its idom.
NoDominatorLost ==
    \A b \in Block \ {Entry} :
        idom[b] # None =>
            \A d \in Block \ {b} :
                Dominates(succs, d, b) => Dominates(succs, d, idom[b])

\* When the sweeps stop, idom is the immediate dominator: it strictly
\* dominates the block, and every strict dominator of the block dominates it.
IdomCorrect == phase = "done" => ImmediateDominators(succs, rpo, idom)
=============================================================================
