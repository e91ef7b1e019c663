----------------------------- MODULE Convergence -----------------------------
(***************************************************************************)
(* What a pipeline run promises the driver, with the loop that delivers it *)
(* left out: the manifest is worked off segment by segment, a segment      *)
(* being one fixpoint group or one pass outside every group.  While a      *)
(* group is being worked on, its passes transform the IR in any order and  *)
(* as often as they like, but the run moves past the group only when the   *)
(* IR is a fixpoint of all of them; a single pass is applied exactly once. *)
(* There are no cursors, flags or counters: Pipeline implements this       *)
(* module (PipelineProofs, and the pipeline run).                          *)
(***************************************************************************)
EXTENDS Naturals, Sequences

CONSTANTS PassName, IR, Manifest, Run(_, _)

VARIABLES manifest, outcome, ir, done

vars == <<manifest, outcome, ir, done>>

Pass(s) == manifest.passes[s + 1]

IsGroup(g) == \E k \in DOMAIN manifest.groups : manifest.groups[k] = g

Settled(g) ==
    \A s \in g.first .. g.end - 1 : Run(Pass(s), ir).ir = ir

Init ==
    /\ manifest \in Manifest
    /\ ir \in IR
    /\ outcome = "pending"
    /\ done = 0

\* The manifest is refused before any pass has run.
Refuse ==
    /\ outcome = "pending"
    /\ done = 0
    /\ outcome' = "panicked"
    /\ UNCHANGED <<manifest, ir, done>>

Accept ==
    /\ outcome = "pending"
    /\ outcome' = "running"
    /\ UNCHANGED <<manifest, ir, done>>

\* A pass of the group at the frontier transforms the IR.
Work ==
    /\ outcome = "running"
    /\ \E g \in [first : {done}, end : done + 1 .. Len(manifest.passes)] :
          /\ IsGroup(g)
          /\ \E s \in g.first .. g.end - 1 : ir' = Run(Pass(s), ir).ir
    /\ UNCHANGED <<manifest, outcome, done>>

\* The group at the frontier has converged.
Converge ==
    /\ outcome = "running"
    /\ \E g \in [first : {done}, end : done + 1 .. Len(manifest.passes)] :
          /\ IsGroup(g)
          /\ Settled(g)
          /\ done' = g.end
    /\ UNCHANGED <<manifest, outcome, ir>>

\* A pass no group starts at is applied once.
Apply ==
    /\ outcome = "running"
    /\ done < Len(manifest.passes)
    /\ ~ \E k \in DOMAIN manifest.groups : manifest.groups[k].first = done
    /\ ir' = Run(Pass(done), ir).ir
    /\ done' = done + 1
    /\ UNCHANGED <<manifest, outcome>>

Return ==
    /\ outcome = "running"
    /\ done = Len(manifest.passes)
    /\ outcome' = "returned"
    /\ UNCHANGED <<manifest, ir, done>>

Next == Refuse \/ Accept \/ Work \/ Converge \/ Apply \/ Return

Spec == Init /\ [][Next]_vars
=============================================================================
