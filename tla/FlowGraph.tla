------------------------------ MODULE FlowGraph ------------------------------
(***************************************************************************)
(* A control-flow graph as CfgFacts sees it (sordec-passes, dataflow,      *)
(* cfg.rs): for each block the list of its successors, every successor     *)
(* listed once, in the order for_each_target names them.  Reachability and *)
(* dominance are stated here through the sets of blocks that are closed    *)
(* under the edges, without following a path: the algorithms are judged    *)
(* against these definitions, and proofs about them need no induction.     *)
(***************************************************************************)
EXTENDS Naturals, Sequences, FiniteSets

CONSTANTS
    BlockCount,    \* the size of the block arena
    Entry          \* func.entry

Block == 1 .. BlockCount

ASSUME FlowGraphAssumption == BlockCount \in Nat /\ Entry \in Block

\* No block, idom or position: the code's None.
None == 0

\* The successor lists a terminator can give a block.
Adjacency ==
    {g \in [Block -> Seq(Block)] :
        \A b \in Block : \A i, j \in DOMAIN g[b] : g[b][i] = g[b][j] => i = j}

Succs(g, b) == {g[b][i] : i \in DOMAIN g[b]}

Preds(g, b) == {p \in Block : b \in Succs(g, p)}

Elements(seq) == {seq[i] : i \in DOMAIN seq}

\* The members of S in the order of their places: the i-th is the one with
\* i - 1 members before it.  (The library's SetToSortSeq, in a form that can
\* be proved about: tlapm has no definition of TLC's SortSeq.)
InOrder(S, place) ==
    [i \in 1 .. Cardinality(S) |->
        CHOOSE b \in S : Cardinality({c \in S : place[c] < place[b]}) = i - 1]

\* In the order of the arena.
Ascending(S) == InOrder(S, [b \in Block |-> b])

-----------------------------------------------------------------------------
(* Reachability and dominance *)

\* Control that is in S stays in S as long as it keeps to the blocks of P.
ClosedWithin(g, P, S) == \A x \in S \cap P : Succs(g, x) \cap P \subseteq S

\* b is reached from the entry through blocks of P alone.
ReachableWithin(g, P, b) ==
    \A S \in SUBSET Block : (Entry \in S /\ ClosedWithin(g, P, S)) => b \in S

ReachableBlocks(g) == {b \in Block : ReachableWithin(g, Block, b)}

\* Starting from the entry, control can leave S only by entering d.
CutBy(g, d, S) ==
    /\ Entry = d \/ Entry \in S
    /\ \A x \in S : Succs(g, x) \subseteq S \cup {d}

\* d lies on every path from the entry to b: some set that only d leads out
\* of holds the entry and not b.
Dominates(g, d, b) ==
    d = b \/ \E S \in SUBSET Block : CutBy(g, d, S) /\ b \notin S

-----------------------------------------------------------------------------
(* What the depth-first search promises the dominator computation *)

\* The first k blocks of an order.
UpTo(order, k) == {order[i] : i \in 1 .. k}

\* The order lists blocks once each, starts with the entry, leaves out no
\* successor of a block it lists, and a block is reached through the blocks
\* up to it.
SearchOrder(g, order) ==
    /\ order \in Seq(Block)
    /\ order # <<>>
    /\ order[1] = Entry
    /\ \A i, j \in DOMAIN order : order[i] = order[j] => i = j
    /\ \A i \in DOMAIN order : Succs(g, order[i]) \subseteq Elements(order)
    /\ \A i \in DOMAIN order : ReachableWithin(g, UpTo(order, i), order[i])

\* Every edge out of S that does not lead into a dominator of its source
\* stays in S.
ClosedOnward(g, S) ==
    \A x \in S : \A y \in Succs(g, x) : Dominates(g, y, x) \/ y \in S

\* b is reached from a without an edge into a dominator of its source.
Onward(g, a, b) ==
    \A S \in SUBSET Block : (a \in S /\ ClosedOnward(g, S)) => b \in S

\* An edge that runs backwards in the order ends at a block its source is
\* reached from, onward: in the search tree it ends above its source.
RetreatsClose(g, order) ==
    \A i, j \in DOMAIN order :
        (j <= i /\ order[j] \in Succs(g, order[i])) => Onward(g, order[j], order[i])

\* A block's place in the order.
Pos(order, b) == CHOOSE i \in DOMAIN order : order[i] = b

-----------------------------------------------------------------------------
(* What the dominator computation promises the consumers of the facts *)

\* Each block of the order but the entry has its closest strict dominator;
\* the other blocks have None.
ImmediateDominators(g, order, idom) ==
    /\ idom \in [Block -> Block \cup {None}]
    /\ \A b \in Block : idom[b] = None <=> b \notin Elements(order) \ {Entry}
    /\ \A b \in Elements(order) \ {Entry} :
        /\ idom[b] # b
        /\ Dominates(g, idom[b], b)
        /\ \A d \in Block \ {b} : Dominates(g, d, b) => Dominates(g, d, idom[b])
=============================================================================
