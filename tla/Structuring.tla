----------------------------- MODULE Structuring -----------------------------
(***************************************************************************)
(* The structurer (sordec-passes, structuring/): from a function and the   *)
(* facts of its graph to a region tree, after Ramsey's "Beyond Relooper",  *)
(* and the gate in front of it (lowering/lift_to_high.rs), which falls     *)
(* back to an unstructured listing.                                        *)
(***************************************************************************)
EXTENDS Regions

CONSTANT MaxDepth     \* MAX_DEPTH

ASSUME StructuringAssumption == MaxDepth \in Nat \ {0}

-----------------------------------------------------------------------------
(* Classification (classify.rs) *)

Pos(cfg, b) == CHOOSE i \in DOMAIN cfg.rpo : cfg.rpo[i] = b

ReachableEdges(f, cfg, b) == {e \in InEdges(f, b) : e[1] \in ToSet(cfg.rpo)}

\* The edges that do not go backwards in the order, a terminator slot each.
ForwardEdges(f, cfg, b) ==
    {e \in ReachableEdges(f, cfg, b) : Pos(cfg, e[1]) < Pos(cfg, b)}

\* Faulty: the predecessors are counted, not the slots.
MergeNodes_Predecessors(f, cfg) ==
    {b \in ToSet(cfg.rpo) : Cardinality({e[1] : e \in ForwardEdges(f, cfg, b)}) >= 2}

MergeNodes(f, cfg) ==
    {b \in ToSet(cfg.rpo) : Cardinality(ForwardEdges(f, cfg, b)) >= 2}

LoopHeaders(f, cfg) ==
    {b \in ToSet(cfg.rpo) : ReachableEdges(f, cfg, b) # ForwardEdges(f, cfg, b)}

-----------------------------------------------------------------------------
(* The walk (walk.rs).  w holds the function, its facts and the block roles. *)

\* A StructureError: the whole walk fails with it.
Failure == Region("failure", NoBlock, <<>>)

\* Faulty: the lowest merge block gets the outermost scope.
Outer_Lowest(w, b, c) == Pos(w, b) < Pos(w, c)

\* Of two merge blocks the one later in the order has the outer scope.
Outer(w, b, c) == Pos(w, b) > Pos(w, c)

\* Faulty: the bound is met one level early.
TooDeep_Early(depth) == depth >= MaxDepth

TooDeep(depth) == depth > MaxDepth

GoesBack(w, source, dest) == Pos(w, dest) <= Pos(w, source)

\* Faulty: switch slots share an arm whenever they name the same block.
SameArm_ByBlock(t, u) == t.block = u.block

SameArm(t, u) == t.block = u.block /\ t.args = u.args

Follows(scope, region) == Sequence(<<scope, region>>)

RECURSIVE DomSubtree(_, _, _), NodeWithin(_, _, _, _), Leaf(_, _, _),
          DoSwitch(_, _, _), DoBranch(_, _, _, _)

\* The region of b and of everything it dominates.
DomSubtree(w, b, depth) ==
    LET merges == SetToSortSeq({c \in w.merges : w.idom[c] = b},
                               LAMBDA c, d : Outer(w, c, d))
        inner == NodeWithin(w, b, merges, depth)
    IN  IF TooDeep(depth) THEN Failure
        ELSE IF b \in w.headers THEN Loop(b, inner)
        ELSE inner

\* One scope for each merge block that b immediately dominates.
NodeWithin(w, b, merges, depth) ==
    IF merges = <<>> THEN Leaf(w, b, depth)
    ELSE Follows(Scope(Head(merges), NodeWithin(w, b, Tail(merges), depth)),
                 DomSubtree(w, Head(merges), depth + 1))

\* b itself and its terminator.
Leaf(w, b, depth) ==
    LET exit == w.f.block[b].exit
        Arm(i) == DoBranch(w, b, exit.targets[i], depth)
    IN  Sequence(<<Basic(b),
            CASE exit.kind = "branch" -> Arm(1)
              [] exit.kind = "branch_if" ->
                     Select("if", b, exit.reads, <<{1}, {2}>>, <<Arm(1), Arm(2)>>)
              [] exit.kind = "switch" -> DoSwitch(w, b, depth)
              [] exit.kind \in {"return", "unreachable"} -> End(exit.kind, b, exit.reads)>>)

\* One arm for each destination with its arguments, in the order of its first
\* slot; the default, the last target, keeps an arm of its own.
DoSwitch(w, b, depth) ==
    LET ts == w.f.block[b].exit.targets
        slots == 1 .. Len(ts) - 1
        firsts == SetToSortSeq({i \in slots : \A j \in 1 .. i - 1 : ~SameArm(ts[j], ts[i])},
                               LAMBDA i, j : i < j)
        Sharing(i) == {j \in slots : SameArm(ts[j], ts[i])}
    IN  Select("switch", b, w.f.block[b].exit.reads,
               Append(Map(firsts, Sharing), {Len(ts)}),
               Map(Append(firsts, Len(ts)), LAMBDA i : DoBranch(w, b, ts[i], depth)))

\* An edge: back to a loop's header, out to a merge block, or into the one
\* place where its target's region goes.
DoBranch(w, source, t, depth) ==
    LET dest == t.block
        params == w.f.block[dest].params
        transfer == [i \in 1 .. Len(params) |-> <<params[i], t.args[i]>>]
        inlined == DomSubtree(w, dest, depth + 1)
    IN  IF Len(params) # Len(t.args) THEN Failure
        ELSE IF GoesBack(w, source, dest) THEN Edge("continue", dest, transfer)
        ELSE IF dest \in w.merges THEN Edge("break", dest, transfer)
        ELSE IF transfer = <<>> THEN inlined
        ELSE Sequence(<<Edge("transfer", dest, transfer), inlined>>)

Structure(f, cfg) ==
    DomSubtree([f |-> f, rpo |-> cfg.rpo, idom |-> cfg.idom,
                merges |-> MergeNodes(f, cfg), headers |-> LoopHeaders(f, cfg)],
               Entry, 1)

-----------------------------------------------------------------------------
(* The gate (lift_to_high.rs) *)

\* The facts hold no witness of irreducibility.
IsReducible(f, cfg) ==
    \A b \in ToSet(cfg.rpo) :
        \A e \in ReachableEdges(f, cfg, b) \ ForwardEdges(f, cfg, b) :
            Dominates(f, b, e[1])

RegionOf(f, cfg) ==
    LET r == Structure(f, cfg)
    IN  IF ~IsReducible(f, cfg) THEN Unstructured
        ELSE IF \E n \in ToSet(Nodes(r)) : n.kind = "failure" THEN Unstructured
        ELSE r
=============================================================================
