------------------------------ MODULE DomTree ------------------------------
(***************************************************************************)
(* Steps 4 and 5 of CfgFacts::build (sordec-passes, dataflow/cfg.rs): a    *)
(* walk of the dominator tree that numbers each block when it is entered   *)
(* and when it is left, so that a dominance query is two comparisons; and  *)
(* the scan that sorts the edges running backwards in the order into loop  *)
(* back edges and witnesses of irreducibility.  A step of the module is    *)
(* one turn of the walk's or of the scan's loop.                           *)
(***************************************************************************)
EXTENDS FlowGraph, Functions

VARIABLES
    facts,         \* succs, rpo and idom: what the earlier steps found, fixed
    pre, post,     \* dom_pre, dom_post; 0 for a block not numbered
    counter,       \* counter
    stack,         \* stack: a block and the place of its next child
    at, edge,      \* the scan: a place in rpo and in that block's list
    back,          \* back_edges
    irreducible    \* irreducible_edges

vars == <<facts, pre, post, counter, stack, at, edge, back, irreducible>>

\* dom_children: ascending
DomChildren(b) == Ascending({c \in Block : facts.idom[c] = b})

Reachable(b) == b \in Elements(facts.rpo)

\* Faulty: two unreachable blocks, never numbered, compare equal.
DominatesQuery_Unguarded(a, b) == pre[a] <= pre[b] /\ post[b] <= post[a]

\* Faulty: only the opening numbers are compared.
DominatesQuery_OpeningOnly(a, b) ==
    /\ Reachable(a) /\ Reachable(b)
    /\ pre[a] <= pre[b]

\* CfgFacts::dominates
DominatesQuery(a, b) ==
    /\ Reachable(a) /\ Reachable(b)
    /\ pre[a] <= pre[b] /\ post[b] <= post[a]

Begin ==
    /\ pre = [b \in Block |-> IF b = Entry THEN 1 ELSE 0]
    /\ post = [b \in Block |-> 0]
    /\ counter = 1
    /\ stack = <<[block |-> Entry, next |-> 1]>>
    /\ at = 1 /\ edge = 1
    /\ back = <<>> /\ irreducible = <<>>

Top == stack[Len(stack)]

\* The next child is numbered and walked.
Open ==
    LET children == DomChildren(Top.block)
        child == children[Top.next]
    IN  /\ stack # <<>>
        /\ Top.next <= Len(children)
        /\ counter' = counter + 1
        /\ pre' = [pre EXCEPT ![child] = counter']
        /\ stack' = Append([stack EXCEPT ![Len(stack)].next = @ + 1],
                           [block |-> child, next |-> 1])
        /\ UNCHANGED <<facts, post, at, edge, back, irreducible>>

\* All children are walked: the block gets its closing number.
Close ==
    /\ stack # <<>>
    /\ Top.next > Len(DomChildren(Top.block))
    /\ counter' = counter + 1
    /\ post' = [post EXCEPT ![Top.block] = counter']
    /\ stack' = SubSeq(stack, 1, Len(stack) - 1)
    /\ UNCHANGED <<facts, pre, at, edge, back, irreducible>>

Scanning == stack = <<>> /\ at <= Len(facts.rpo)

Retreats(from, to) == Pos(facts.rpo, to) <= Pos(facts.rpo, from)

\* One edge of the scan.  A retreating edge whose target dominates its source
\* closes a loop.
Scan ==
    LET from == facts.rpo[at]
        to == facts.succs[from][edge]
        retreats == Retreats(from, to)
    IN  /\ Scanning
        /\ edge <= Len(facts.succs[from])
        /\ back' = IF retreats /\ DominatesQuery(to, from)
                   THEN Append(back, <<from, to>>) ELSE back
        /\ irreducible' = IF retreats /\ ~DominatesQuery(to, from)
                          THEN Append(irreducible, <<from, to>>) ELSE irreducible
        /\ edge' = edge + 1
        /\ UNCHANGED <<facts, pre, post, counter, stack, at>>

NextSource ==
    /\ Scanning
    /\ edge > Len(facts.succs[facts.rpo[at]])
    /\ at' = at + 1
    /\ edge' = 1
    /\ UNCHANGED <<facts, pre, post, counter, stack, back, irreducible>>

Built == stack = <<>> /\ at > Len(facts.rpo)

Next == Open \/ Close \/ Scan \/ NextSource

-----------------------------------------------------------------------------
(* Properties *)

Edges == {e \in Block \X Block : e[2] \in Succs(facts.succs, e[1])}

TypeOK ==
    /\ pre \in [Block -> 0 .. 2 * BlockCount]
    /\ post \in [Block -> 0 .. 2 * BlockCount]
    /\ counter \in 1 .. 2 * BlockCount
    /\ stack \in Seq([block : Block, next : 1 .. BlockCount + 1])
    /\ at \in 1 .. BlockCount + 1
    /\ edge \in 1 .. BlockCount + 1
    /\ Elements(back) \subseteq Edges
    /\ Elements(irreducible) \subseteq Edges

\* Once the walk is over, the two comparisons answer the question they stand
\* for, for every pair of blocks; where one is unreachable the answer is no.
QueryAnswersDominance ==
    stack = <<>> =>
        \A a, b \in Block :
            DominatesQuery(a, b) <=>
                Reachable(a) /\ Reachable(b) /\ Dominates(facts.succs, a, b)

\* A cycle of reachable blocks that keeps to the edges of E.
HasCycle(E) ==
    \E S \in SUBSET Elements(facts.rpo) :
        S # {} /\ \A b \in S : \E c \in S : <<b, c>> \in E

\* "Witness identity is DFS-order-dependent; only emptiness is canonical":
\* there is no witness exactly when every cycle has an edge into a block that
\* dominates the edge's source, whatever the order.
EmptinessCanonical ==
    Built =>
        (irreducible = <<>> <=>
            ~HasCycle({e \in Edges : ~Dominates(facts.succs, e[2], e[1])}))

\* The back edges are the edges into a dominator, each listed once.
BackEdgesComplete ==
    Built =>
        /\ Elements(back) =
             {e \in Edges : Reachable(e[1]) /\ Dominates(facts.succs, e[2], e[1])}
        /\ IsInjective(back)
=============================================================================
