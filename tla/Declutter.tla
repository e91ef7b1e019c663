------------------------------ MODULE Declutter ------------------------------
(***************************************************************************)
(* The de-cluttering of one lifted function: default_lifted_pipeline       *)
(* (sordec-passes, lib.rs), run by Pipeline::run as a fixpoint group.  Of  *)
(* its twelve passes the two that change what functions pass one another,  *)
(* before StoreForward, are outside this module.                           *)
(***************************************************************************)
EXTENDS Memory

CONSTANT Function     \* the functions the lift hands over

ASSUME DeclutterAssumption == \A f \in Function : WellFormed(f)

VARIABLES
    phase,         \* "lifted", "group" or "converged"
    ir,            \* the function
    slot,          \* the pass whose turn it is, or PassCount + 1
    anyChanged,    \* any_changed of the current iteration
    lifted         \* history: the behaviour of the function as lifted

Phase == {"lifted", "group", "converged"}

vars == <<phase, ir, slot, anyChanged, lifted>>

Passes ==
    <<"resolve-aliases", "prune-trivial-phis", "prune-dead-params",
      "thread-jumps", "merge-chains", "sweep-dead",
      "memory-unroll-fill-loops", "memory-trap-tail",
      "memory-store-to-load-forward", "memory-slot-promotion">>

Init ==
    /\ phase = "lifted"
    /\ ir \in Function
    /\ slot = 1
    /\ anyChanged = FALSE
    /\ lifted = Behaviour(ir)

\* The pipeline enters the group.
Start ==
    /\ phase = "lifted"
    /\ phase' = "group"
    /\ UNCHANGED <<ir, slot, anyChanged, lifted>>

\* Faulty: a quiet pass takes back the flag an earlier one has raised.
Invoke_LastFlag(k, result) ==
    /\ phase = "group"
    /\ slot = k
    /\ ir' = result.ir
    /\ anyChanged' = result.changed
    /\ slot' = k + 1
    /\ UNCHANGED <<phase, lifted>>

\* The k-th pass of the group runs and returns `result`.
Invoke(k, result) ==
    /\ phase = "group"
    /\ slot = k
    /\ ir' = result.ir
    /\ anyChanged' = (anyChanged \/ result.changed)
    /\ slot' = k + 1
    /\ UNCHANGED <<phase, lifted>>

RunResolveAliases == Invoke(1, ResolveAliases(ir))
RunPruneTrivialPhis == Invoke(2, PruneTrivialPhis(ir))
RunPruneDeadParams == Invoke(3, PruneDeadParams(ir))
RunThreadTrivialJumps == Invoke(4, ThreadTrivialJumps(ir))
RunMergeBlockChains == Invoke(5, MergeBlockChains(ir))
RunSweepDead == Invoke(6, SweepDead(ir))
RunUnrollFillLoops == Invoke(7, UnrollFillLoops(ir))
RunTrapTail == Invoke(8, TrimTrapTails(ir))
RunStoreForward == Invoke(9, ForwardStores(ir))
RunSlotPromotion == Invoke(10, PromoteSlots(ir))

\* Faulty: slots count from zero.
NextIteration_FromZero ==
    /\ phase = "group"
    /\ slot = Len(Passes) + 1
    /\ anyChanged
    /\ slot' = 0
    /\ anyChanged' = FALSE
    /\ UNCHANGED <<phase, ir, lifted>>

\* Some pass of the group changed something: all of them run again.
NextIteration ==
    /\ phase = "group"
    /\ slot = Len(Passes) + 1
    /\ anyChanged
    /\ slot' = 1
    /\ anyChanged' = FALSE
    /\ UNCHANGED <<phase, ir, lifted>>

\* A full iteration changed nothing: the group is done.
Converge ==
    /\ phase = "group"
    /\ slot = Len(Passes) + 1
    /\ ~anyChanged
    /\ phase' = "converged"
    /\ UNCHANGED <<ir, slot, anyChanged, lifted>>

\* The function goes on to the lowering.
Done == phase = "converged" /\ UNCHANGED vars

Next ==
    \/ Start
    \/ RunResolveAliases
    \/ RunPruneTrivialPhis
    \/ RunPruneDeadParams
    \/ RunThreadTrivialJumps
    \/ RunMergeBlockChains
    \/ RunSweepDead
    \/ RunUnrollFillLoops
    \/ RunTrapTail
    \/ RunStoreForward
    \/ RunSlotPromotion
    \/ NextIteration
    \/ Converge
    \/ Done

\* One thread runs the loop and no pass blocks, so control moves on until the
\* group has converged.  (Every step but Done moves phase or slot: this is
\* WF_vars(Next), stated without what the passes compute.)
control == <<phase, slot>>

MoveOn == phase # "converged" /\ phase' \in Phase /\ slot' \in 1 .. Len(Passes) + 1

Spec == Init /\ [][Next]_vars /\ WF_control(MoveOn)

-----------------------------------------------------------------------------
(* Properties *)

\* The function stays one the post-lift validator accepts, and the loop's
\* variables stay in range.
TypeOK ==
    /\ IdsInArena(ir)
    /\ phase \in Phase
    /\ slot \in 1 .. Len(Passes) + 1
    /\ anyChanged \in BOOLEAN

\* Every pass keeps the positional contract between edges and parameters,
\* on edges from unreachable blocks too, which the next pass may still read.
ArityKept == EdgesMatchParams(ir)

\* Every value a reachable block reads is defined on every path to the
\* read, through aliases: no pass may leave a read of a parameter whose
\* block a rewritten edge now skips, nor of one pruned as dead.
SsaKept == DefinitionsReachUses(ir)

\* "... without moving or deleting anything observable": after any number of
\* passes the function makes the calls it made as lifted, in that order, and
\* returns, traps or runs on exactly where it did.
BehaviourKept == Behaviour(ir) = lifted

\* A pass that leaves another function behind raises its flag, also where the
\* flag comes from a counter or from one of several rewrites: or the group
\* could stop short of its fixpoint.
ChangesFlagged ==
    [][(phase = "group" /\ slot' = slot + 1 /\ ir' # ir) => anyChanged']_vars

\* "promoting one retires every load and store that made it promotable, so
\* discover cannot see it again" (declutter/mod.rs, of slot promotion): what
\* the pass leaves, whichever slots it took and in whatever order, holds
\* nothing it would take.  The group's termination rests on this.
PromotedOnce ==
    (phase = "group" /\ slot = Len(Passes) + 1) => ~PromoteSlots(ir).changed

\* A scheduled instruction or reachable terminator reads an alias.
ReadsAlias(f) ==
    \E b \in Reachable(f) :
        \/ \E v \in ExitReads(f.block[b].exit) : IsAlias(f, v)
        \/ \E i \in ToSet(f.block[b].insts) :
              \E v \in DefReads(f.def[i]) : IsAlias(f, v)

\* What f reads other than through the arguments for the slots in P.
ReadApartFrom(f, P) ==
    LET scheduled == UNION {ToSet(f.block[b].insts) : b \in Reachable(f)}
        targets == UNION {ToSet(f.block[b].exit.targets) : b \in Reachable(f)}
        kept(t) == {i \in DOMAIN t.args : <<t.block, i>> \notin P}
    IN  UNION ({DefReads(f.def[v]) : v \in scheduled}
               \cup {ToSet(f.block[b].exit.reads) : b \in Reachable(f)}
               \cup {{t.args[i] : i \in kept(t)} : t \in targets})

\* No set of parameters feeds only itself: "an unread cycle stays dead ... a
\* promoted slot crossing a loop produces exactly that" (prune_dead_params.rs).
\* One that survived would keep an argument on every edge into its block.
NoUnreadParams(f) ==
    \A P \in (SUBSET Slots(f)) \ {{}} :
        \E s \in P : ParamAt(f, s) \in ReadApartFrom(f, P)

\* b is on a ring of forwarders, round which a chase never gets anywhere.
OnRing(f, b) ==
    \E n \in 1 .. MaxHops : \E ring \in [0 .. n -> Block] :
        /\ ring[0] = b
        /\ ring[n] = b
        /\ \A i \in 0 .. n - 1 :
              Forwards(f, ring[i]) /\ ring[i + 1] = Successor(f, ring[i])

\* What the passes owe the structurer together, none of them alone: nothing
\* unreachable is left; no parameter is kept that nothing reads; and an edge
\* to an empty forwarder without parameters is left only on a ring of them,
\* for all that the chase is cut off after MaxHops.
Swept ==
    phase = "converged" =>
        /\ \A b \in Block \ Reachable(ir) : ir.block[b] = Tombstone(<<>>)
        /\ NoUnreadParams(ir)
        /\ \A b \in Block :
              InEdges(ir, b) # {} /\ Forwards(ir, b) /\ ir.block[b].params = <<>>
                => OnRing(ir, b)

\* "nothing downstream ever sees" an alias; a block with a single in-edge has
\* lost its parameters ("the trivial-phi pass guarantees single-edge blocks
\* lose theirs") and is not hanging off an unconditional branch.
Unified ==
    phase = "converged" =>
        /\ ~ReadsAlias(ir)
        /\ \A b \in Block \ {Entry} : \A e \in InEdges(ir, b) :
              InEdges(ir, b) = {e} =>
                  ir.block[b].params = <<>> /\ ExitKind(ir, e[1]) # "branch"

\* The group converges on every function: no two passes undo one another's
\* work and no flag is raised for nothing.
Terminates == <>(phase = "converged")

-----------------------------------------------------------------------------
(* What the group is for *)

\* The k-th pass, applied to f.
RunPass(k, f) ==
    CASE k = 1 -> ResolveAliases(f)
      [] k = 2 -> PruneTrivialPhis(f)
      [] k = 3 -> PruneDeadParams(f)
      [] k = 4 -> ThreadTrivialJumps(f)
      [] k = 5 -> MergeBlockChains(f)
      [] k = 6 -> SweepDead(f)
      [] k = 7 -> UnrollFillLoops(f)
      [] k = 8 -> TrimTrapTails(f)
      [] k = 9 -> ForwardStores(f)
      [] k = 10 -> PromoteSlots(f)

OneGroup ==
    [passes |-> [k \in DOMAIN Passes |-> k],
     groups |-> <<[first |-> 0, end |-> Len(Passes)]>>]

Abstract ==
    INSTANCE Convergence WITH
        PassName <- DOMAIN Passes, IR <- Function, Manifest <- {OneGroup}, Run <- RunPass,
        manifest <- OneGroup,
        outcome <- IF phase = "lifted" THEN "pending" ELSE "running",
        done <- IF phase = "converged" THEN Len(Passes) ELSE 0

\* With these passes, the loop does what Convergence promises: it transforms
\* the function by passes of the group alone, and what it hands on to the
\* lowering is a fixpoint of all ten.
Implements == Abstract!Spec

=============================================================================
