------------------------------ MODULE CfgFacts ------------------------------
(***************************************************************************)
(* CfgFacts::build and LoopForest::build (sordec-passes, dataflow/cfg.rs)  *)
(* from end to end: the search, the dominator sweeps, the numbering of the *)
(* dominator tree with the scan of the edges, and the loop forest.  Each   *)
(* stage reads what the stages before it have computed, and nothing is     *)
(* assumed of it.                                                          *)
(***************************************************************************)
EXTENDS FlowGraph

CONSTANT Graph      \* the graphs the facts may be built of

ASSUME CfgFactsAssumption == Graph \subseteq Adjacency

VARIABLES
    succs,                                                 \* fixed
    visited, stack, postorder, rpo,                        \* DepthFirst
    phase, idom, at, todo, newIdom, finger, changed,       \* Dominators
    pre, post, counter, walk, source, edge, back, irreducible,    \* DomTree
    building, member, worklist, loops, parent, depth, innermost   \* LoopForest

searchVars == <<visited, stack, postorder, rpo>>
sweepVars == <<phase, idom, at, todo, newIdom, finger, changed>>
treeVars == <<pre, post, counter, walk, source, edge, back, irreducible>>
forestVars == <<building, member, worklist, loops, parent, depth, innermost>>

vars == <<succs, searchVars, sweepVars, treeVars, forestVars>>

Search == INSTANCE DepthFirst

Sweeps == INSTANCE Dominators

Tree == INSTANCE DomTree WITH
    facts <- [succs |-> succs, rpo |-> rpo, idom |-> idom],
    stack <- walk, at <- source

Forest == INSTANCE LoopForest WITH
    facts <- [succs |-> succs, rpo |-> rpo, back |-> back],
    phase <- building

Init ==
    /\ succs \in Graph
    /\ Search!Begin
    /\ Sweeps!Begin
    /\ Tree!Begin
    /\ Forest!Begin

Searched == rpo # <<>>

Swept == phase = "done"

RunSearch ==
    /\ ~Searched
    /\ UNCHANGED <<succs, sweepVars, treeVars, forestVars>>
    /\ Search!Next

RunSweeps ==
    /\ Searched
    /\ UNCHANGED <<succs, searchVars, treeVars, forestVars>>
    /\ Sweeps!Next

RunTree ==
    /\ Swept
    /\ UNCHANGED <<succs, searchVars, sweepVars, forestVars>>
    /\ Tree!Next

RunForest ==
    /\ Swept
    /\ Tree!Built
    /\ UNCHANGED <<succs, searchVars, sweepVars, treeVars>>
    /\ Forest!Next

Done == building = "built" /\ UNCHANGED vars

Next == RunSearch \/ RunSweeps \/ RunTree \/ RunForest \/ Done

\* Straight-line code in one thread: it does not stop half-way.
Spec == Init /\ [][Next]_vars /\ WF_vars(Next)

-----------------------------------------------------------------------------
(* Properties.  A stage is judged when it runs. *)

TypeOK ==
    /\ succs \in Adjacency
    /\ Search!TypeOK
    /\ Sweeps!TypeOK
    /\ Tree!TypeOK
    /\ Forest!TypeOK

\* The order the search publishes is one the later stages may rely on: it
\* lists exactly the reachable blocks, each reached through earlier ones, and
\* an edge runs backwards in it only where it closes a cycle.
OrderPromised == phase = "sweep" /\ at = 2 => Search!OrderPromised

\* The two expect()s of intersect, and why it ends: its fingers are reachable
\* blocks with an idom, and idom chains run strictly backwards in the order,
\* half-way through a sweep too.
ClimbsEnd ==
    Searched /\ ~Swept => Sweeps!FingersProcessed /\ Sweeps!ChainsDescend

\* At every moment, half-way through a sweep too, what strictly dominates a
\* processed block dominates its idom.
NoDominatorLost == phase = "sweep" => Sweeps!NoDominatorLost

\* When the sweeps stop, idom is the immediate dominator of every block.
IdomCorrect == Swept /\ counter = 1 => Sweeps!IdomCorrect

\* Once the tree is numbered, two comparisons answer dominance for every pair
\* of blocks, unreachable ones included.
QueryAnswersDominance ==
    Swept /\ source = 1 /\ edge = 1 => Tree!QueryAnswersDominance

\* The scan lists the edges into a dominator once each, and whether it finds
\* a witness of irreducibility does not depend on the order of the search.
EdgesSorted ==
    Swept /\ building = "start" /\ loops = <<>> =>
        Tree!BackEdgesComplete /\ Tree!EmptinessCanonical

\* A loop holds its header and the blocks that reach one of its latches
\* without passing through the header, and the header dominates them all.
LoopsNatural == building \in {"nest", "built"} => Forest!LoopsNatural

\* Loops that share a block are nested; parents, depths and the innermost
\* loop of a block all describe that one nesting.
LoopsNest ==
    building \in {"depth", "built"} =>
        Forest!Laminar /\ Forest!DepthCounts /\ Forest!InnermostInside

\* The facts of every graph get built: no search, climb, sweep or scan waits
\* or repeats for ever.
Terminates == <>(building = "built")
=============================================================================
