------------------------------ MODULE Pipeline ------------------------------
(***************************************************************************)
(* The pass pipeline of sordec-passes (pipeline.rs, pass.rs): a manifest   *)
(* of named passes over one IR, some contiguous ranges of which are        *)
(* fixpoint groups, validated when the pipeline is built and then run to   *)
(* the end.  The passes themselves are abstract here: Run(p, ir) is what   *)
(* one invocation of pass p does.  Passes are stateless values             *)
(* (`Box<dyn Pass<Ir>>` with `run(&self, ..)`), so Run is a function of    *)
(* the pass and the IR alone.                                              *)
(*                                                                         *)
(* Slots are numbered from 0, as in the code: slot s runs pass             *)
(* manifest.passes[s + 1], and a group is the half-open range              *)
(* first .. end - 1.                                                       *)
(***************************************************************************)
EXTENDS Naturals, Sequences, FiniteSets

CONSTANTS
    PassName,      \* the names passes register under
    IR,            \* the states of the IR the pipeline works on
    Manifest,      \* the argument pairs Pipeline::new is called with
    Run(_, _)      \* Run(p, i): the PassResult and the IR pass p leaves

(***************************************************************************)
(* What a pass returns: the IR it leaves and its `changed` flag.  Notes,   *)
(* metrics and diagnostics never steer the loop and are left out.          *)
(***************************************************************************)
PassResult == [ir : IR, changed : BOOLEAN]

GroupRange == [first : Nat, end : Nat]

ASSUME RunAssumption ==
    \A p \in PassName, i \in IR : Run(p, i) \in PassResult

(***************************************************************************)
(* The contract of the `changed` flag (pass.rs, PassResult::changed): a    *)
(* pass that reports no change left the IR alone.  DeclutterProofs proves  *)
(* it of the passes of the lifted pipeline, Refine checks it of its own.   *)
(***************************************************************************)
ASSUME HonestAssumption ==
    \A p \in PassName, i \in IR : ~Run(p, i).changed => Run(p, i).ir = i

ASSUME ManifestAssumption ==
    \A m \in Manifest : m \in [passes : Seq(PassName), groups : Seq(GroupRange)]

VARIABLES
    manifest,             \* self.passes (by name) and self.fixpoint_groups
    phase,                \* where control is
    ir,                   \* *ir
    idx,                  \* the outer loop's cursor
    slot,                 \* the inner loop's cursor, inside a group
    anyChanged,           \* any_changed
    iterations,           \* iterations
    perPass,              \* report.per_pass
    fixpointIterations    \* report.fixpoint_iterations

vars == <<manifest, phase, ir, idx, slot, anyChanged, iterations, perPass,
          fixpointIterations>>

Phase == {"new", "panicked", "dispatch", "group", "finished"}

LogEntry == [pass : PassName, changed : BOOLEAN]

-----------------------------------------------------------------------------
(* The manifest *)

Slots(m) == 0 .. Len(m.passes) - 1

PassAt(m, s) == m.passes[s + 1]

SlotsOf(g) == g.first .. g.end - 1

Groups(m) == {m.groups[k] : k \in DOMAIN m.groups}

\* `seen.insert(pass.name())` succeeds for every pass.
NamesUnique(m) ==
    \A s, t \in Slots(m) : PassAt(m, s) = PassAt(m, t) => s = t

\* No group is empty, leaves the pass list, or covers a slot another covers.
GroupsDisjoint(m) ==
    \A k, l \in DOMAIN m.groups :
        SlotsOf(m.groups[k]) \cap SlotsOf(m.groups[l]) # {} => k = l

GroupsWellFormed(m) ==
    /\ \A g \in Groups(m) : g.first < g.end /\ g.end <= Len(m.passes)
    /\ GroupsDisjoint(m)

Accepted(m) == NamesUnique(m) /\ GroupsWellFormed(m)

\* `self.fixpoint_groups.iter().find(|g| g.start == idx)`
StartsGroup(m, i) == \E g \in Groups(m) : g.first = i

GroupAt(m, i) == CHOOSE g \in Groups(m) : g.first = i

-----------------------------------------------------------------------------
Init ==
    /\ manifest \in Manifest
    /\ ir \in IR
    /\ phase = "new"
    /\ idx = 0
    /\ slot = 0
    /\ anyChanged = FALSE
    /\ iterations = 0
    /\ perPass = <<>>
    /\ fixpointIterations = <<>>

\* Pipeline::new accepts the manifest; run() then starts.
New ==
    /\ phase = "new"
    /\ Accepted(manifest)
    /\ phase' = "dispatch"
    /\ UNCHANGED <<manifest, ir, idx, slot, anyChanged, iterations, perPass,
                   fixpointIterations>>

\* One of the assertions of Pipeline::new fails.
Panic ==
    /\ phase = "new"
    /\ ~Accepted(manifest)
    /\ phase' = "panicked"
    /\ UNCHANGED <<manifest, ir, idx, slot, anyChanged, iterations, perPass,
                   fixpointIterations>>

\* Run the pass in slot s on the IR and push its entry on the report.
Invoke(s) ==
    LET p == PassAt(manifest, s)
        result == Run(p, ir)
    IN  /\ ir' = result.ir
        /\ perPass' = Append(perPass, [pass |-> p, changed |-> result.changed])

\* A pass outside every group: invoked once.
RunOnce ==
    /\ phase = "dispatch"
    /\ idx < Len(manifest.passes)
    /\ ~StartsGroup(manifest, idx)
    /\ Invoke(idx)
    /\ idx' = idx + 1
    /\ UNCHANGED <<manifest, phase, slot, anyChanged, iterations,
                   fixpointIterations>>

\* A group starts here: its first iteration begins.
EnterGroup ==
    /\ phase = "dispatch"
    /\ idx < Len(manifest.passes)
    /\ StartsGroup(manifest, idx)
    /\ phase' = "group"
    /\ slot' = idx
    /\ anyChanged' = FALSE
    /\ iterations' = 1
    /\ UNCHANGED <<manifest, ir, idx, perPass, fixpointIterations>>

\* Faulty: the flag is assigned, so only the last pass of the group counts.
RunSlot_LastFlag ==
    /\ phase = "group"
    /\ slot < GroupAt(manifest, idx).end
    /\ Invoke(slot)
    /\ slot' = slot + 1
    /\ anyChanged' = Run(PassAt(manifest, slot), ir).changed
    /\ UNCHANGED <<manifest, phase, idx, iterations, fixpointIterations>>

\* The next pass of the current iteration.
RunSlot ==
    /\ phase = "group"
    /\ slot < GroupAt(manifest, idx).end
    /\ Invoke(slot)
    /\ slot' = slot + 1
    /\ anyChanged' = (anyChanged \/ Run(PassAt(manifest, slot), ir).changed)
    /\ UNCHANGED <<manifest, phase, idx, iterations, fixpointIterations>>

\* Faulty: the next iteration starts at the group's second pass.
Repeat_SkipsFirst ==
    /\ phase = "group"
    /\ slot >= GroupAt(manifest, idx).end
    /\ anyChanged
    /\ slot' = idx + 1
    /\ anyChanged' = FALSE
    /\ iterations' = iterations + 1
    /\ UNCHANGED <<manifest, phase, ir, idx, perPass, fixpointIterations>>

\* The iteration is over and changed something: go round again.
Repeat ==
    /\ phase = "group"
    /\ slot >= GroupAt(manifest, idx).end
    /\ anyChanged
    /\ slot' = idx
    /\ anyChanged' = FALSE
    /\ iterations' = iterations + 1
    /\ UNCHANGED <<manifest, phase, ir, idx, perPass, fixpointIterations>>

\* Faulty: the group's end is taken for its last slot.
LeaveGroup_InclusiveEnd ==
    /\ phase = "group"
    /\ slot >= GroupAt(manifest, idx).end
    /\ ~anyChanged
    /\ phase' = "dispatch"
    /\ idx' = GroupAt(manifest, idx).end + 1
    /\ fixpointIterations' = Append(fixpointIterations, iterations)
    /\ UNCHANGED <<manifest, ir, slot, anyChanged, iterations, perPass>>

\* The iteration is over and changed nothing: the group has converged.
LeaveGroup ==
    /\ phase = "group"
    /\ slot >= GroupAt(manifest, idx).end
    /\ ~anyChanged
    /\ phase' = "dispatch"
    /\ idx' = GroupAt(manifest, idx).end
    /\ fixpointIterations' = Append(fixpointIterations, iterations)
    /\ UNCHANGED <<manifest, ir, slot, anyChanged, iterations, perPass>>

Finish ==
    /\ phase = "dispatch"
    /\ idx >= Len(manifest.passes)
    /\ phase' = "finished"
    /\ UNCHANGED <<manifest, ir, idx, slot, anyChanged, iterations, perPass,
                   fixpointIterations>>

\* run() has returned, or new() has panicked.
Halted ==
    /\ phase \in {"finished", "panicked"}
    /\ UNCHANGED vars

Next ==
    \/ New
    \/ Panic
    \/ RunOnce
    \/ EnterGroup
    \/ RunSlot
    \/ Repeat
    \/ LeaveGroup
    \/ Finish
    \/ Halted

\* One thread executes the loop, and nothing blocks it.
Spec == Init /\ [][Next]_vars /\ WF_vars(Next)

-----------------------------------------------------------------------------
(* Properties *)

\* Every variable holds what the code's types let it hold, and the cursors
\* stay inside the manifest and, during a group, inside that group.
TypeOK ==
    /\ manifest \in Manifest
    /\ phase \in Phase
    /\ ir \in IR
    /\ idx \in 0 .. Len(manifest.passes)
    /\ slot \in 0 .. Len(manifest.passes)
    /\ anyChanged \in BOOLEAN
    /\ iterations \in Nat
    /\ perPass \in Seq(LogEntry)
    /\ fixpointIterations \in Seq(Nat)
    /\ phase = "new" => idx = 0
    /\ phase \in {"dispatch", "group", "finished"} => Accepted(manifest)
    /\ phase = "group" =>
          /\ StartsGroup(manifest, idx)
          /\ idx <= slot
          /\ slot <= GroupAt(manifest, idx).end

\* Pass p has nothing left to do on i.
Settled(p, i) == Run(p, i) = [ir |-> i, changed |-> FALSE]

\* While an iteration has changed nothing, every pass it has run so far is
\* settled on the IR as it is now: the state any_changed summarises.
QuietPrefix ==
    (phase = "group" /\ ~anyChanged) =>
        \A s \in idx .. slot - 1 : Settled(PassAt(manifest, s), ir)

\* A group is left only at a common fixpoint: no pass of it, whatever its
\* place in the group, would change the IR the loop breaks with.  (The
\* promise of Pipeline::run: "looping fixpoint groups to convergence".)
LeavesAtFixpoint ==
    [][(phase = "group" /\ phase' = "dispatch") =>
            \A s \in SlotsOf(GroupAt(manifest, idx)) :
                Settled(PassAt(manifest, s), ir')]_vars

\* How often slot s ran.
Runs(s) ==
    Cardinality({k \in DOMAIN perPass : perPass[k].pass = PassAt(manifest, s)})

Grouped(s) == \E g \in Groups(manifest) : s \in SlotsOf(g)

\* Every group the manifest declares runs and gets its entry in the report,
\* none is skipped over, cut short or run as single passes: the passes of one
\* group run equally often, at least once, and a pass outside every group
\* runs exactly once.  The entries count iterations and come in the order the
\* groups ran in, which need not be the order they were declared in.
EveryGroupRuns ==
    phase = "finished" =>
        /\ Len(fixpointIterations) = Len(manifest.groups)
        /\ \A g \in Groups(manifest) :
              LET upTo == {h \in Groups(manifest) : h.first <= g.first}
              IN  fixpointIterations[Cardinality(upTo)] = Runs(g.first)
        /\ \A s \in Slots(manifest) :
              /\ ~Grouped(s) => Runs(s) = 1
              /\ \A g \in Groups(manifest) :
                    s \in SlotsOf(g) => Runs(s) = Runs(g.first) /\ Runs(s) > 0

\* The place of log entry k in the manifest.
SlotOfEntry(k) ==
    CHOOSE s \in Slots(manifest) : PassAt(manifest, s) = perPass[k].pass

\* The log is a walk of the manifest: an entry is followed by the next slot,
\* or, at the end of a group, by the group's first slot, and then only if a
\* pass of the iteration just ended reported a change.
LogWalksManifest ==
    phase # "new" =>
        \A k \in 1 .. Len(perPass) - 1 :
            LET s == SlotOfEntry(k)
                t == SlotOfEntry(k + 1)
            IN  \/ t = s + 1
                \/ \E g \in Groups(manifest) :
                      /\ s = g.end - 1 /\ t = g.first
                      /\ \E l \in (k + 1) - (g.end - g.first) .. k :
                            perPass[l].changed

\* What ran is what the manifest says, no slot more and none less, in its
\* order: the "silent correctness bugs at runtime" new's assertions are for.
ManifestRuns == EveryGroupRuns /\ LogWalksManifest

-----------------------------------------------------------------------------
(* Refinement *)

Outcome ==
    CASE phase = "new" -> "pending"
      [] phase = "panicked" -> "panicked"
      [] phase \in {"dispatch", "group"} -> "running"
      [] phase = "finished" -> "returned"

Abstract == INSTANCE Convergence WITH outcome <- Outcome, done <- idx

\* Every run of the loop is a run of Convergence.
Implements == Abstract!Spec
=============================================================================
