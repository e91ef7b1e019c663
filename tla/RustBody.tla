------------------------------ MODULE RustBody ------------------------------
(***************************************************************************)
(* Leaving SSA (sordec-backend, rust/body.rs): the emitted function        *)
(* declares a mutable local for every block parameter that an edge         *)
(* assigns, and a Break, Continue or Transfer becomes one assignment       *)
(* statement per pair of its transfer, in the order of the pairs.  The     *)
(* module runs a region tree on these locals beside the values that the    *)
(* lifted function binds on the same edges, all parameters of a block at   *)
(* once.                                                                   *)
(*                                                                         *)
(* Only the values that move are followed: a type conversion keeps what a  *)
(* source holds, and a rename prints as the value it renames, so the       *)
(* transfers are taken as they are printed.  The one case in which the     *)
(* code leaves an assignment out concerns a local nothing runs reads, and  *)
(* is left out here.                                                       *)
(***************************************************************************)
EXTENDS RegionRun

VARIABLES
    local,         \* what each local of the emitted body holds
    bound          \* what each value of the lifted function is bound to

\* `vP = <source>;`
Assign(env, pair) == [env EXCEPT ![pair[1]] = env[pair[2]]]

\* Faulty: the statements of an edge are printed last pair first.
EmitTransfers_Backwards(env, transfer) == FoldRight(LAMBDA p, e : Assign(e, p), transfer, env)

EmitTransfers(env, transfer) == FoldLeft(Assign, env, transfer)

\* A branch binds its arguments to the parameters of the block it goes to.
BindParams(env, transfer) ==
    [v \in DOMAIN env |->
        IF \E p \in ToSet(transfer) : p[1] = v
        THEN env[(CHOOSE p \in ToSet(transfer) : p[1] = v)[2]]
        ELSE env[v]]

\* Values start out distinct: what a run confuses, a comparison shows.
BodyInit ==
    /\ Init
    /\ local = [v \in Value |-> v]
    /\ bound = local

Moving == ended = "no" /\ Runs({"break", "continue", "transfer"})

BodyNext ==
    /\ Next
    /\ IF Moving
       THEN /\ local' = EmitTransfers(local, Now.transfer)
            /\ bound' = BindParams(bound, Now.transfer)
       ELSE UNCHANGED <<local, bound>>

BodySpec == BodyInit /\ [][BodyNext]_<<vars, local, bound>> /\ WF_<<vars, local, bound>>(BodyNext)

-----------------------------------------------------------------------------
(* Properties *)

\* The locals hold what the lifted function's values are bound to: its
\* "arguments are bound positionally to these parameter ids" (sordec-ir,
\* lifted/mod.rs), "the right side is the value this edge contributes"
\* (high/region.rs).
LocalsHoldValues == local = bound

\* No edge reads a parameter that an earlier pair of the same edge assigns.
ReadsBeforeWrites(f) ==
    \A b \in Block : \A t \in ToSet(f.block[b].exit.targets) :
        LET params == f.block[t.block].params
        IN  \A i \in DOMAIN params : \A j \in 1 .. i - 1 :
                t.args[i] = params[j] => t.args[j] = params[j]

\* Where no edge does, one statement after the other is as good as all at
\* once, whatever path of whatever loops the locals are carried around.
OrderedEdgesBind == ReadsBeforeWrites(func) => LocalsHoldValues
=============================================================================
