----------------------------- MODULE LoopForest -----------------------------
(***************************************************************************)
(* LoopForest::build (sordec-passes, dataflow/cfg.rs): one natural loop    *)
(* for each target of a back edge, collected by a walk against the edges   *)
(* from its latches; then each loop's parent; then, larger loops first,    *)
(* the depths and the innermost loop of every block.  children and         *)
(* header_loop only restate parent and header and are left out.            *)
(***************************************************************************)
EXTENDS FlowGraph

VARIABLES
    facts,         \* succs, rpo and back of the CfgFacts it is built from, fixed
    phase,         \* the loop of the code that is running
    member,        \* member: the blocks marked so far
    worklist,      \* worklist
    loops,         \* loops: header, latches, blocks
    parent,        \* the parent field of each loop, None outside
    depth,         \* the depth field of each loop, 0 until it is set
    innermost      \* innermost

vars == <<facts, phase, member, worklist, loops, parent, depth, innermost>>

Phase == {"start", "walk", "nest", "depth", "built"}

\* by_header: the targets of the back edges, in the order of the search.
Headers ==
    InOrder({e[2] : e \in Elements(facts.back)},
            [b \in Elements(facts.rpo) |-> Pos(facts.rpo, b)])

LatchesOf(header) == {e[1] : e \in {d \in Elements(facts.back) : d[2] = header}}

\* The loop being collected.
Header == Headers[Len(loops) + 1]

Begin ==
    /\ phase = "start"
    /\ member = {}
    /\ worklist = <<>>
    /\ loops = <<>>
    /\ parent = <<>>
    /\ depth = <<>>
    /\ innermost = [b \in Block |-> None]

\* Faulty: the header is not marked, and does not stop the walk.
Start_OpenHeader ==
    /\ phase = "start"
    /\ Len(loops) < Len(Headers)
    /\ phase' = "walk"
    /\ member' = LatchesOf(Header)
    /\ worklist' = Ascending(LatchesOf(Header))
    /\ UNCHANGED <<facts, loops, parent, depth, innermost>>

\* The header stops the walk; its latches start it.
Start ==
    /\ phase = "start"
    /\ Len(loops) < Len(Headers)
    /\ phase' = "walk"
    /\ member' = LatchesOf(Header) \cup {Header}
    /\ worklist' = Ascending(LatchesOf(Header) \ {Header})
    /\ UNCHANGED <<facts, loops, parent, depth, innermost>>

Unmarked(b) == (Preds(facts.succs, b) \cap Elements(facts.rpo)) \ member

Walk ==
    LET n == Len(worklist)
        new == Unmarked(worklist[n])
    IN  /\ phase = "walk"
        /\ worklist # <<>>
        /\ member' = member \cup new
        /\ worklist' = SubSeq(worklist, 1, n - 1) \o Ascending(new)
        /\ UNCHANGED <<facts, phase, loops, parent, depth, innermost>>

Collect ==
    /\ phase = "walk"
    /\ worklist = <<>>
    /\ loops' = Append(loops,
                  [header |-> Header, latches |-> LatchesOf(Header), blocks |-> member])
    /\ phase' = "start"
    /\ UNCHANGED <<facts, member, worklist, parent, depth, innermost>>

AllCollected ==
    /\ phase = "start"
    /\ Len(loops) = Len(Headers)
    /\ phase' = "nest"
    /\ UNCHANGED <<facts, member, worklist, loops, parent, depth, innermost>>

Size(i) == Cardinality(loops[i].blocks)

\* The loops, other than i, that hold the header of i.
Around(i) == {j \in DOMAIN loops : j # i /\ loops[i].header \in loops[j].blocks}

\* Faulty: the first loop around it, not the smallest.
ParentOf_First(i) ==
    IF Around(i) = {} THEN None
    ELSE CHOOSE j \in Around(i) : \A k \in Around(i) : j <= k

\* min_by_key: the smallest, the first of equally small ones.
ParentOf(i) ==
    IF Around(i) = {} THEN None
    ELSE CHOOSE j \in Around(i) : \A k \in Around(i) :
            Size(j) < Size(k) \/ (Size(j) = Size(k) /\ j <= k)

Nest ==
    /\ phase = "nest"
    /\ parent' = [i \in DOMAIN loops |-> ParentOf(i)]
    /\ depth' = [i \in DOMAIN loops |-> 0]
    /\ phase' = "depth"
    /\ UNCHANGED <<facts, member, worklist, loops, innermost>>

\* by_size_desc, a stable sort
Before(i, j) == Size(i) > Size(j) \/ (Size(i) = Size(j) /\ i < j)

\* The next loop in that order gets its depth, and its blocks.
Number ==
    \E i \in DOMAIN loops :
        /\ phase = "depth"
        /\ depth[i] = 0
        /\ \A j \in DOMAIN loops : depth[j] = 0 /\ j # i => Before(i, j)
        /\ depth' = [depth EXCEPT ![i] =
                        IF parent[i] = None THEN 1 ELSE depth[parent[i]] + 1]
        /\ innermost' = [b \in Block |->
                            IF b \in loops[i].blocks THEN i ELSE innermost[b]]
        /\ UNCHANGED <<facts, phase, member, worklist, loops, parent>>

Finish ==
    /\ phase = "depth"
    /\ \A i \in DOMAIN loops : depth[i] # 0
    /\ phase' = "built"
    /\ UNCHANGED <<facts, member, worklist, loops, parent, depth, innermost>>

Next == Start \/ Walk \/ Collect \/ AllCollected \/ Nest \/ Number \/ Finish

-----------------------------------------------------------------------------
(* Properties *)

TypeOK ==
    /\ phase \in Phase
    /\ member \subseteq Elements(facts.rpo)
    /\ worklist \in Seq(member)
    /\ loops \in Seq([header : Block, latches : SUBSET Block, blocks : SUBSET Block])
    /\ parent \in Seq(0 .. Len(loops))
    /\ depth \in Seq(0 .. Len(loops))
    /\ innermost \in [Block -> 0 .. Len(loops)]

\* Control can get from b to a block of T without passing through h.
ReachesAround(b, T, h) ==
    \A S \in SUBSET Block :
        (b \in S /\ ClosedWithin(facts.succs, Block \ {h}, S \ {h})) => S \cap T # {}

\* "The header dominates every member" and every member other than it "reaches
\* one of the header's latches without passing through the header": the walk
\* collects these blocks and no others.
LoopsNatural ==
    \A i \in DOMAIN loops :
        loops[i].blocks =
            {loops[i].header} \cup
            {b \in Elements(facts.rpo) \ {loops[i].header} :
                /\ Dominates(facts.succs, loops[i].header, b)
                /\ ReachesAround(b, loops[i].latches, loops[i].header)}

\* "Loops containing a given block form a chain": loops that share a block
\* are nested, and the parent a loop is given is a strict superset of it with
\* no loop between them.
Laminar ==
    /\ \A i, j \in DOMAIN loops :
        \/ loops[i].blocks \cap loops[j].blocks = {}
        \/ loops[i].blocks \subseteq loops[j].blocks
        \/ loops[j].blocks \subseteq loops[i].blocks
    /\ \A i \in DOMAIN parent :
        LET supersets == {j \in DOMAIN loops :
                            j # i /\ loops[i].blocks \subseteq loops[j].blocks}
        IN  IF parent[i] = None THEN supersets = {}
            ELSE /\ parent[i] \in supersets
                 /\ loops[parent[i]].blocks # loops[i].blocks
                 /\ \A j \in supersets :
                        loops[parent[i]].blocks \subseteq loops[j].blocks

\* Outer loops are numbered first, so no loop builds on a depth that is not
\* set: the depth of a numbered loop is the number of loops around it.
DepthCounts ==
    \A i \in DOMAIN depth :
        depth[i] # 0 =>
            depth[i] = Cardinality({j \in DOMAIN loops :
                                      loops[i].blocks \subseteq loops[j].blocks})

\* The loop a block is told it is in lies inside every loop that holds the
\* block.
InnermostInside ==
    phase = "built" =>
        \A b \in Block :
            LET holding == {j \in DOMAIN loops : b \in loops[j].blocks}
            IN  IF holding = {} THEN innermost[b] = None
                ELSE /\ innermost[b] \in holding
                     /\ \A j \in holding :
                            loops[innermost[b]].blocks \subseteq loops[j].blocks
=============================================================================
