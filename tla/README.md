# A TLA+ model of sordec

sordec decompiles Soroban contracts: it lifts WebAssembly to an SSA
control-flow graph, tidies that graph, turns it into a tree of structured
regions, rewrites the tree until it reads like source, and prints Rust. This
directory models the part of it that decides *whether the output still means
what the input meant*: the pass pipeline, the declutter passes, the passes
that free memory of stack slots, the control-flow facts, the structurer and the
lowering, the refinements of the region tree, the constant resolver, the step in
the emitter that leaves SSA, and the inference of the types it prints. It holds
TLA+ modules, TLC configurations that check them on small instances, and proofs,
checked by TLAPS for all instances, about the pipeline, about the control-flow
facts and about the group of declutter and memory passes.

File names below are relative to `src/crates/`. `PROJECT.json` gives, for each
definition of a module, the source lines it stands for.

    tlasany M.tla                              # parse a module
    tlc -workers 2 -config MCX.cfg MCX         # one run
    tlapm PipelineProofs.tla                   # the proofs of one module

## 1. The system

    wasm bytes
      -> frontend   (sordec-frontend)                 facts, metadata
      -> lifter     (sordec-passes/src/lift.rs)       LiftedIr
      -> lifted pipeline (pipeline.rs, lib.rs 181-206) LiftedIr, in place
      -> lowering   (lowering/, structuring/)         HighIr: region trees
      -> high pipeline (refine, recognizers, ...)     HighIr, in place
      -> backend    (sordec-backend)                  WAT, Rust, Cargo.toml

`Driver::run` (sordec-driver) makes these calls in this order, on one thread,
and returns at the first error. There are no messages and no shared state: one
IR is handed on. What is hard here is not concurrency but *long sequences of
rewrites, each of which assumes what an earlier one left behind*, fixpoint
loops without a bound, and graph algorithms on graphs nobody drew by hand.

| component | state it keeps | operations | what makes it correct | status |
|---|---|---|---|---|
| Pass pipeline (`pipeline.rs`, `pass.rs`) | passes, fixpoint groups; during a run a cursor, a flag, a report | `new`, `run` | a group is left only at a common fixpoint; every pass runs; the report can be read | modelled, proved |
| Declutter group (`declutter/`) | the lifted function | six passes, run with the memory passes | behaviour, SSA form and edge arity survive; changes are owned up to; the group ends, at a common fixpoint that is tidy | modelled, proved but for behaviour, SSA form and the ending |
| Memory passes (`memory/`) | frames, addresses, slots | six passes in the same group | loads see the last store; no pointer that cannot be followed reaches a promoted slot; what goes before a trap nobody can see | partly: four passes |
| Control-flow facts (`dataflow/cfg.rs`) | order, dominators, numbering, loops | `CfgFacts::build`, queries, `LoopForest::build` | they are what graph theory says, on unreachable and irreducible parts too | modelled, proved |
| Structuring (`structuring/`, `lowering/`) | frames, depth | `structure`, `lower_function` | the tree runs as the graph runs; it fails only where documented | modelled; of the lowering the functions, not the module around them |
| Region refinement (`refine/`) | the region tree, bindings minted on the way | the region passes, two groups | every intermediate tree is valid, defines before it reads and behaves as lowered; the groups end | partly: twelve passes |
| Inter-procedural passes (`interproc/`) | call graph | constant returns; inlining, specialisation, dead parameters | calls keep arity and meaning | partly: constant returns |
| Constant resolver (`dataflow/const_prop.rs`) | memo, path, depth | four kinds of query | an answer holds in every run and does not depend on the queries before it | partly: the walk and its queries |
| Lifted IR, region tree (`sordec-ir`) | blocks, values; trees, labels | construction, validation | branches enclosed, blocks once | partly |
| Rust body emitter (`rust/body.rs`) | locals, folds, names | `emit_region`, `emit_transfers` | the locals hold the values | partly: leaving SSA |
| Driver | the two pipelines | `run` | order, first error wins | not modelled |
| Type inference (`type_infer.rs`) | types of bindings, signature table | two nested fixpoints, run twice | no type nothing says; what is said gets everywhere; the order of calls does not matter | partly: both fixpoints, without some containers |
| Recognizers, marshalling, arithmetic | bindings | pattern rewrites | idiom tables | not modelled |
| Front end, WAT, CLI, scoring, signatures | - | decoding, printing, external tools | - | not modelled |

The hazards, with the line where each bites and the properties that would
show it, are listed in `PROJECT.json`.

## 2. The modules

    Convergence <--implements-- Pipeline <--proofs-- PipelineProofs
        ^
        +-----------implements (one group, real passes)------+
                                                             |
    Iteration -- LiftedIR -- DeclutterPasses -- Memory -- Declutter <--proofs-- DeclutterProofs
       |            |    \                       /
       |            |     \----- LiftedRun -----/
       |            |   FlowGraph -- DepthFirst -> Dominators -> DomTree -> LoopForest
       |            |       |        (CfgFacts: one after the other, on shared variables)
       |            +-------+-- Regions -- Structuring -- RegionRun --implements--> CfgRun
       |                                        |            |
       |                                        |         RustBody
       +-- HighExpr --------------------------- HighIR -- HighRun
             |                                   |           |
          Resolver      RefineEarly -- RefineFold -- RefineScope -- Refine

    Iteration -- Types -- Signatures -- TypeInfer

    FlowGraph <-- FlowGraphTheorems <-- DepthFirstProofs, DominatorsProofs,
                                        DomTreeProofs, LoopForestProofs
                                           (CfgFactsProofs: one after the other)

**Pipeline** is `Pipeline::new` and `Pipeline::run`. `New` and `Panic` are the
constructor's acceptance and its assertions (`NamesUnique`, `GroupsDisjoint`,
`GroupsWellFormed`). `RunOnce`, `EnterGroup`, `RunSlot`, `Repeat`, `LeaveGroup`
and `Finish` are the branches of the two nested loops, with the code's own
variables `idx`, `any_changed`, `iterations` and the report's two lists. The
passes are a constant operator `Run(p, ir)`: a pass takes `&self` and has no
state. Notes, metrics and diagnostics steer nothing and are left out.

**Convergence** is what the pipeline promises without its loop: a segment of
the manifest at a time, a group worked on in any order until it is settled, a
single pass applied once.

**LiftedIR** is a lifted function: blocks with parameters, scheduled values and
a terminator; values defined by an operator, as a parameter, or as an alias. It
has the helpers the passes share (`rewrite_uses`, `drop_params`, the edge walk)
and the well-formedness they rely on: `IdsInArena`, which is
`validate_lifted_function` with the shapes that the Rust types and the operators'
operand counts leave possible, `EdgesMatchParams` and `DefinitionsReachUses`. Operators are told apart by effect only:
constants and pure ones, calls of the host and of the module, accesses of one
word, of two or of a part of one, the prologue of a stack frame and what
publishes it. Numbers are taken modulo 8, addresses of the stack lie above them.
**LiftedRun** is what running such a function does; it models wasm and waffle,
which are outside the repository, and is the reference for "anything
observable" (`declutter/mod.rs`): the calls that reach the host with what they
are given, or what they find there if they are given a pointer, and with the
memory outside the stack; traps; and the results, with that memory and with the
stack pointer if the function has changed them. A trap throws the memory away. A
call that is given a pointer reads the frame from there on upwards and writes to
it. Which functions of the module call which, and which call the host, are the
constants `Callee` and `Table`. **DeclutterPasses** has one operator per declutter pass, each a
function from a function to the function and flag it leaves. **Memory** has the
four passes on memory: `ForwardStores` and `PromoteSlots`, with
the analyses they share: `Frames`, `CanonAddr`, `Addresses`, `Escapes` and
`EscapedWords`, the slots (`Slot`, `Overlap`, `Approved`) and `Thread`, which
makes a slot a variable. It also has the unrolling of counted loops (`FillLoop`
decides, `Unroll` pastes a trip at a time) and what is taken away before a trap (`QuietFunctions`,
the functions that never call the host, and `DoomedTail`).
**Declutter** runs the ten in the order of `default_lifted_pipeline`, one action
per pass, and says what the group is for by instantiating Convergence with these
passes (`Implements`). Three constants of the code are parameters: the alias cap (`MaxChain`),
the threading cap (`MaxHops`) and the longest loop unrolled (`MaxTrips`).

**DepthFirst**, **Dominators** and **DomTree** are the three phases of
`CfgFacts::build`; their variables are its locals and their actions the turns
of its loops: `Descend`, `Skip`, `Retreat`, `Publish`; `Visit`, `Ignore`,
`Take`, `Intersect`, `ClimbA`, `ClimbB`, `Meet`, `Assign`, `Resweep`, `Settle`;
`Open`, `Close`, `Scan`, `NextSource`. **LoopForest** is `LoopForest::build`.
**FlowGraph** holds what they share, and the textbook definitions they are
judged by, written with closed sets of blocks and without recursion. (Its
`InOrder`, the members of a set in the order of their places, is the library's
`SetToSortSeq` written out: tlapm has no definition of TLC's `SortSeq`.)
**CfgFacts** composes the four over their own variables: each stage starts on
what the stage before it delivered, so that nothing is assumed between them,
and a property of a stage is checked while that stage runs.

**Structuring** is `classify` and the walker: `DomSubtree`, `NodeWithin`,
`Leaf`, `DoSwitch`, `DoBranch`, with both of its errors, and `RegionOf`, the
choice the lowering makes between a tree and `Unstructured`. **Regions** are
the trees and the validator's label check. **RegionRun** executes a tree as the
backend prints it, with a stack of what remains to be done; **CfgRun** executes
the graph. **RustBody** adds the locals of the emitted function: `EmitTransfers`
runs the printed assignments, `BindParams` binds the arguments of the edge.
**MCFacts** hands the structurer the order of the search and the dominators that
the definitions of FlowGraph give; CfgFactsProofs shows that the code finds those.

**HighIR** is a module of structured functions and `lower_function`, which makes
one: bindings, the incoming edges of each phi, the region. **HighRun** is what
such a module does, calls between its functions included. The refinements are
operators from a module to a module and a flag, in three layers:
**RefineEarly** (polarity, guard clauses, trap inlining, trap-helper calls,
switch arms, `&&`), **RefineFold** (constant branches, trivial phis, branches
with one outcome, constant returns, returned selects) and **RefineScope** (tail
exits, scopes that become else branches). A pass threads the function through
the tree as the code's `&mut` does, because some mint bindings and move blocks
half-way. **Refine** runs them in the order of `default_high_pipeline`, in its
two fixpoint groups; what the passes between the groups do is one step,
`Recognize`, which gives the host calls the boolean type the second group looks
for.

**Resolver** is the constant walk: `Walk` with its memo, its path and its depth,
`Asks` and `Makes` for what a binding is resolved from, and one action per kind
of query. Its reference is not another walk but `Flows`, the literals a value
can hold in some run, and `Met`, the least fixpoint of the same rules without an
order of work. The code's 2^32 and tag bytes are constants, so that bit
patterns, signs, truncations and tags are computed rather than assumed.

**Types** is the certainty lattice: `Improved` (`improve`) for one value,
`Join` (`Slot::join_with`) for the witnesses of a signature slot. It also has
what one function tells: its own expressions (`Forward`), its uses
(`Backward`), and which values wait for a callee (`Awaiting`). **Signatures**
makes the module's table (`Recomputed`, which is `recompute_signatures`).
**TypeInfer** is the pass: `Enter` takes a snapshot of a function and seeds it,
`Propagate` is one round of its inner loop, `Write` puts what was found into the
IR and moves on to the next function, `Recompute` makes the table, ends or
repeats the module round, and lets the catalog speak in the second settling.
Inside a round evidence is heard in the order of the code, each piece seeing
what came of those before it. Its last part judges the result by another
reading of the module: values that are one value to the program form a class,
whatever function they are in, and declarations and the host's interface say
what a class is; there are no rounds, ranks or waits in it.

**Iteration** has what loops over data are written with: `Iterate` (a step repeated a
number of times) and `FoldOver` (a step for each item of a list), both recursive
*functions*, so that the modules which use them can be proved about.

The walkers and the rewrites of trees are recursive operators, so those modules carry
no theorems; the ones on types use folds, and carry none either. The modules proved
about (Pipeline, Convergence, FlowGraph, DepthFirst, Dominators, DomTree,
LoopForest, CfgFacts, Iteration, LiftedIR, LiftedRun, DeclutterPasses, Memory,
Declutter) use none.

The proofs stand beside the modules they are about: **PipelineProofs**;
**FlowGraphTheorems**, the lemmas about the operators of FlowGraph;
**DepthFirstProofs**, **DominatorsProofs**, **DomTreeProofs** and
**LoopForestProofs**, an inductive invariant per stage; **CfgFactsProofs**,
which puts the four together; and **DeclutterProofs**.

## 3. The runs

All runs are exhaustive over the instances given. Deadlock is checked in every
run: modules that end have a `Done` step.

| run | instance | what it shows |
|---|---|---|
| MCPipeline | every manifest of 2 lists of three passes and up to 2 ranges from 0..2 x 0..4, every choice of three passes that can only lower a value in 0..2 | what `new` accepts; every group runs, its passes equally often and in manifest order, and is counted when it ran (`ManifestRuns`); groups are left settled, as Convergence has it (`Implements`) |
| MCDeclutter | 36,496 functions of four blocks: merges, loops, forwarder cycles, residue with aliases and unreachable blocks, functions with a frame, whose slots are written and read in part, twice as wide, across branches and loops, or handed to a call, loops that fill a frame, and blocks that trap; 412,240 states | the ten passes keep edge arity (`ArityKept`), SSA form (`SsaKept`) and behaviour (`BehaviourKept`), promote a slot once (`PromotedOnce`) and end (`Terminates`) at a fixpoint of all ten (`Implements`), with nothing unreachable or unread left (`Swept`) and nothing left to unify or merge (`Unified`) |
| MCDeclutterUnroll | loops whose counter is passed out of them | finding 1 |
| MCDeclutterSelfStore | a frame that stores an address of its own into itself | finding 5 |
| MCCfgFacts | 12,716 graphs of four blocks, irreducible ones and unreachable blocks among them | the order is one the later stages can rely on, in which only edges that close a cycle run backwards (`OrderPromised`); climbs stay on processed blocks and descend (`ClimbsEnd`); no dominator is lost on the way (`NoDominatorLost`) and the result is the immediate dominators (`IdomCorrect`); `dominates` is right for all pairs (`QueryAnswersDominance`); the edges into dominators are found and reducibility is canonical (`EdgesSorted`); loops are natural (`LoopsNatural`), nested or disjoint, with right parents, depths and innermost loops (`LoopsNest`); all of it ends (`Terminates`) |
| MCStructuring | 10,152 functions of up to five blocks: shapes of returns, branches and two-way branches, switches with arguments, loops that carry two parameters, chains longer than the depth limit | the tree implements the graph (`Implements`); labels enclose (`BranchesEnclosed`); each block once, dominators first (`EmittedInOrder`); it fails exactly where documented (`GivesUpOnlyThen`); printed assignments bind correctly where no edge reads what it has assigned (`OrderedEdgesBind`) |
| MCRustBodySwap | the loops that carry two parameters | finding 2 |
| MCRefine | modules of one function (guards, tests, constant branches, common exits, loops, switches) or of a main function and a helper; 250,688 states | from the lowering on, each pass leaves trees that are valid (`StaysValid`), define before they read on every path (`DefinedBeforeRead`) and make the host calls, returns and traps of the module as lowered (`BehaviourKept`), which are those of the lifted function (`LoweredFaithfully`); flags are honest up to the nesting of sequences (`FlagHonest`); both groups end (`Terminates`) |
| MCRefineTrapHelper | helpers that return on one way and trap on the other | finding 3 |
| MCRefinePhiChain | a parameter passed on to another | finding 4 |
| MCResolver | phi chains with cycles and shared tails, symbols built in three ways, helpers called twice, recursive, exported or with a table about; all sequences of two queries, 446,204 states | an answer is the only value in any run (`Sound`), the meet over all paths unless the depth cap cuts it (`MeetOverPaths`), and nothing provisional is remembered (`MemoIsFinal`) |
| MCTypeInfer | 3,974 modules, nearly all of two entries and two helpers: numbers and objects handed on, handed back, merged, copied, counted to, added to constants, split into components, with recursion, and evidence from both ends; 304,802 states | no value is ever named a type that nothing says of it (`Sound`); what is said reaches every value it flows to, across calls and past the waits (`Resolved`); the order of the calls does not decide what a parameter is (`CallersInAnyOrder`) |

`TypeOK` is checked in MCPipeline, MCDeclutter, MCRefine and MCTypeInfer. In
CfgFacts, RegionRun and Resolver it documents the variables.

### Bounds, and why they are enough

*Three passes, two groups.* Two groups and a free slot are the least that can
overlap, touch, nest, be declared out of order or leave a gap; ranges reach one
past the list, so every refusal happens. Three values let one pass enable
another and that one a third.

*Four blocks.* The smallest irreducible graph has three blocks, a loop with a
merge inside and an exit has four; two back edges to one header, nested loops,
a block with three predecessors and an unreachable block with edges into the
rest all occur. The successor lists include repeated targets. In Declutter four
blocks give forwarder cycles, a switch naming a block twice, loop parameters
that feed one another, and chains three blocks long. The families of functions
are products of block shapes restricted to well-formed functions; `Block` 1 is
always the entry, as no pass treats it by number.

*Frames of two words.* Two slots are the least of which promoting one
can disturb the other, and a double-word access at the first covers the second.
A frame is written and read at its base, at its base plus one by an addition or
by the access's own offset, in a block, across a branch or around a loop. What
a word is given is a bit, so that runs on both inputs tell a stale load from a
right one; what was never written is `Undefined` and shows where it is used.

*`MaxTrips` 2, numbers modulo 8.* 16 in the code. Counted loops run to 2 or 3 in
steps of 1, 2 or -1, from 0, 1 or -1, so counts that are exact, too long, zero,
negative or not whole occur, and loops that are entered with two different values. In
MCDeclutter no function reads its counter after the loop (finding 1).

*Six other functions.* A leaf, two that call one another, one that calls the
host, one that calls that one, and one that calls through a table holding the
leaf and the function that calls the host.

*`MaxHops`, `MaxChain` 2.* Caps of the code, made small enough that chains
reach them. No function has aliases that form a circle.

*`MaxEvents` 4, `MaxSteps` 24.* A run is compared up to four calls, or to 24
blocks, after which it counts as running on: two runs that differ only later are
not told apart. Loops here have at most three blocks and carry at most two bits
that change, so they leave or repeat within a dozen blocks.

*`MaxDepth` 4 (MCStructuring).* 400 in the code. The shapes of four blocks stay within it; of
the chains, those in which five blocks dominate one another in a row exceed it.
Block 5 exists for them, and is an unreachable block in all other functions.

*Refine: five blocks, nine values, `MaxDepth` 8, `MaxDuplicated` 4, `MaxCalls`
3.* `MaxDuplicated` is the code's limit on bindings copied by trap inlining.
No tree here reaches the structurer's depth limit, whose fallback has nothing
to refine. Modules do not recurse, so three calls are never exceeded. Each
family has what one group of passes fires on, and the last blocks and values
vary what the pass must look at before it may.

*Resolver: `Word` 16, tags 4 and 14 of 16, `ResolveDepth` 4, `MaxQueries` 2.* 4
and 14 are the code's tags. A word of 16 has negative numbers, truncation and
both kinds of tagged values in range. Six phis in a row exceed a depth of 4, and
two queries are the least of which one can be harmed by what the other left in
the memo.

*Type inference: `AwaitDepth` 6 and `MaxModuleRounds` 16 as in the code,
`UseDepth` 3, `MaxRounds` 8.* In the code the last two are 128 and 64. No function
copies a copy; eight rounds are more than any
function here needs, except where two types take turns (section 5), and there
every round ends in the same state, so that 8 and 64 stop in the same one. The bases stand
for cases: one machine word of each width and sign, the `Val`, an object that
nothing refines (Address), bytes with and without a length, and a vector with
and without the name of its element. A chain of two helpers is the shortest in
which a type comes too late for the round that needs it, and the second entry
the least that can disagree with the first.

*What the type properties ask.* `Sound` and `Resolved` judge a class if exactly
one thing is said of it and no constant votes on it, since a constant that is
read alone stands for its wasm word; constants that only count or add to a
call's result do not vote and are included. `Resolved` leaves out classes in which a value
starts as a proven `Val` or `Vec<?>`, where the first note on types in section 5
bites, and those in which an untyped host result meets a merge or a copy, which pass a
name on in one direction only. `CallersInAnyOrder` leaves out parameters handed bytes
of two lengths: beside a `Bytes` the first two make a conflict or not
according to the order.

### Fairness

The program is one thread that runs to its end, so the modules assume weak fairness of its whole next-state relation and
nothing of any action in it. (In Declutter it is stated on the control
variables, and in Refine on the slot, with the same meaning, to spare TLC the
passes' results.) Resolver only answers queries and claims no liveness: its walk
is a recursion whose end is part of evaluating it. TypeInfer states no fairness
and claims safety only: `Resolved` says what holds once it is done. That it gets there
follows from its two caps; that it gets there before them is not shown, and does not
always hold (section 5).
`Terminates` then says that the loop ends. `Implements` of MCStructuring
includes the fairness of CfgRun: the tree goes on whenever the graph does.

## 4. What is proved

### The pipeline, for all passes and manifests

`PipelineProofs` proves, for every set of pass names, every set of IR states,
every list of manifests and every `Run` that satisfy three assumptions:

- `RunAssumption`: a pass returns an IR and a boolean;
- `HonestAssumption`: a pass that reports no change made none (the contract of
  `PassResult::changed`, `pass.rs` 98-128; proved of the ten declutter and memory
  passes, as `PassKeeps` of DeclutterProofs, and checked of the refine passes, as
  `FlagHonest` of MCRefine);
- `ManifestAssumption`: a manifest is a list of names and of ranges.

Theorems:

- `Typed`: `Spec => []TypeOK`. The cursors stay inside the group they work on,
  which needs that two accepted groups are equal or disjoint (`GroupFacts`).
- `Quiet`: `Spec => []QuietPrefix`, the strengthening the next two need. While the flag is down, each pass already
  run in this iteration is settled on the IR *as it is now*. A quiet pass
  leaves the IR alone, so what was settled stays settled; a pass that reports a
  change raises the flag and the claim is void. `TypeOK /\ QuietPrefix` is
  inductive; neither the flag nor the fixpoint alone is.
- `Converges`: `Spec => LeavesAtFixpoint`, an action property, which no run repeats as
  `Implements` covers it. At the end of an iteration with the
  flag down the prefix is the whole group (`GroupSettled`).
- `Refines`: `Spec => Implements`. The initial state maps to one of
  Convergence and each action to one of its steps or a stutter; the step that
  leaves a group needs `GroupSettled`.
- `RunsManifest`: `Spec => []ManifestRuns`. It speaks of the report of a finished
  run, so the invariant `LogInv` has to read a half-written one. `Counted` says how
  often each slot has run by now: in a group behind the cursor as often as was
  reported for the group, in the group being run once more before `slot` than from
  it on, ahead of the cursor never. `Walked` says that the log goes from one slot to
  the next, or from the end of a group back to its start if the iteration that ends
  there has reported a change, and `CursorFits` ties the end of the log to the
  cursors and to `any_changed`. The end of an iteration keeps them only because the
  cursors are inside one group (`TypeOK`).

### The control-flow facts, for all graphs

`CfgFactsProofs` proves every invariant of MCCfgFacts but `Terminates`, for every
block count, entry and set of graphs. It assumes `FlowGraphAssumption` (the entry
is one of finitely many blocks) and `CfgFactsAssumption` (an edge leads to a block
of the arena, and is listed once, which `CfgFacts::build` sees to when it collects
successors). A graph may have unreachable blocks, self-loops and irreducible
regions.

`FactsInv` is the composition: every stage either is still in its initial state or
has been handed what it needs and keeps an invariant of its own. Each of these
starts from the promise of the stage before it, and the promises are all there is
between them.

- *Search* (`DepthFirstProofs`, `SearchInv`). A block of the stack is reached
  through the blocks below it, a finished one through the stack and the blocks
  finished after it; a finished block's successors are discovered. So the order
  lists exactly the reachable blocks, each reached through earlier ones. The
  invariant also carries that the search goes up its stack without an edge into a
  dominator, hence that an edge against the order closes a cycle
  (`SearchRetreats`), which the scan of the edges needs. Both are the promise
  (`SearchKeepsPromise`). It says what the later stages need of a reverse
  postorder, not which one the search finds: that depends on the order of the
  successors, and no later result does.
- *Sweeps* (`DominatorsProofs`, `SweepInv`). Idom chains descend in the order and
  lose no strict dominator, whatever the order in which predecessors are met;
  both fingers of `intersect` are processed and dominated by what dominates the
  block being visited (`ClimbsAreSafe`, `DominatorsKept`). While a sweep has
  changed nothing, the idom of every block it has passed is on the chains of all
  its processed predecessors. When it ends that way, the blocks whose chains miss
  a given block are closed under the edges, so that being on every chain is
  dominating (`DominatorsFound`). The chains are stated through closed sets
  (`OnChain`), not by following them, as that would be induction over data.
- *Tree* (`DomTreeProofs`, `TreeInv`). Opening and closing numbers nest: a block
  opens after and closes before what dominates it, and of two blocks apart one is
  closed before the other opens. A frame's cursor splits its children into
  numbered and unnumbered ones, so a block is closed only when all of its children
  are. With every listed block numbered, comparing numbers is asking for dominance
  (`QueriesAnswered`). During the scan the two lists hold the retreating edges seen
  so far, each once, split by dominance. That there is no witness exactly if every
  cycle has an edge into a dominator (`EdgesSortedRight`) takes both directions of
  the search's promise: a cycle has a retreating edge, at its block that is first
  in the order, and a retreating edge that enters no dominator lies on a cycle
  without such edges.
- *Loops* (`LoopForestProofs`, `ForestInv`). The walk has marked blocks of the
  natural loop only, and the predecessors of those that are off the worklist, so
  that an empty worklist leaves the whole loop (`LoopsAreNatural`). The header
  dominates the loop, the dominators of a block form a chain (`DominatorsChain`),
  so of two loops that share a block one holds the other with its header, and is
  larger. Depths are given in the order of size: the parent has its depth already,
  and the last loop to be written over a block lies inside the others
  (`LoopsAreNested`).

`FlowGraphTheorems` has what these share: reachability and dominance through
closed sets, positions in an order, least elements, finite sets listed in order.

Each invariant was also checked by TLC, on the instances of MCPipeline (`LogInv`:
710,151 states) and MCCfgFacts (605,978 states).

### The declutter group, for all functions

`DeclutterProofs` proves four of the nine properties of MCDeclutter, a fifth where
`SsaKept` holds, and an action property, for functions with any number of blocks,
values and parameters and for all values of the caps. It assumes

- `DeclutterAssumption`: the functions handed over are `WellFormed`, which is what the
  lift's validator checks and what SSA form says;
- `LiftedIRAssumption`: the entry is a block;
- `DeclutterPassesAssumption`, `MemoryAssumption`: the caps are positive, and the one on
  alias chains at least 2 (128 in the code).

Theorems:

- `StaysTyped`: `Spec => []TypeOK`; `KeepsArity`: `Spec => []ArityKept`. One lemma per
  pass says that it takes a valid function (`Valid`: ids in their arenas, shapes,
  arities) to a valid one (`ResolveAliasesKeeps`, ..., `UnrollFillLoopsKeeps`). SSA form
  is not needed for it: the passes test, on the way, all that validity depends on. That
  took stating validity as the code has it, with the shape of every terminator and the
  operand count of every operator whose operands a pass indexes, since slot promotion
  reads "argument 2" of a store and threading the only target of a branch. The delicate
  ones are `DropParams`, where edges from unreachable blocks are cut as well and the
  definitions of the parameters that stay are renumbered; `Thread`, where the new
  parameters are numbered by rank among the reachable blocks; and `Paste`, where a copy
  refers to values pushed along with it.
- `FlagsChanges`: `Spec => ChangesFlagged`. The same lemmas say that a pass which raises
  no flag returns the very function it was given, also where the flag is a count.
- `HandsOnFixpoint`: `Spec => Implements`. The invariant is `ValidInv /\ QuietSoFar`:
  the function is valid, and while nothing has changed in this iteration each pass that
  has run rests on the function as it is now. `ValidInv` alone does not show that the
  last step ends at a fixpoint; `QuietSoFar` alone is not inductive, as only on a valid
  function is a pass known to own up. When the loop ends the passes that have run are
  all ten. (TLC finds `QuietSoFar` to hold in the 412,240 states of MCDeclutter.)
- `SweptClean`: `Spec => []Swept`. What each resting pass implies: `NothingToClear` of
  the sweep; `NothingUnread` of dead parameters, because live slots are the *least* fixpoint, so a
  set of parameters that reads only itself would be outside it; `ChaseOfRing` of
  threading. The last shows that the cap costs nothing: a chase that leaves an edge into
  a forwarder where it is has followed forwarders back to the one it started from, in
  at most `MaxHops` hops, and a chain that is merely too long is shortened at each turn.
- `UnifiedInSsa`: `Spec => [](SsaKept => Unified)`. A resting unification has no trivial
  parameter (`NothingTrivial`), a resting merge no mergeable pair (`NothingMergeable`),
  and a resting resolution no alias whose terminal differs (`NothingResolved`). From
  there to `Unified` takes dominance: an alias that reads itself round a circle, a
  parameter that is its own only argument, and a block whose only in-edge is its own are
  all at rest, and in a function in SSA form none of them is read by a reachable block
  (`NoAliasRead`, `NotItsOwnArgument`, `EdgeEntersFromOutside`). Hence the condition,
  which `SsaKept` of the same run says always holds. It is no weaker than what the run
  shows on its instances; what is missing is the proof of `SsaKept` itself.

A loop over data is an `Iterate` or a `FoldOver`, a recursive function on an interval.
What holds all along such a run is proved once, in `Induct` and `Stays`: the set of
places where it fails would have a least member, which the library's well-foundedness
of the numbers gives (`LeastNumber`). So no induction theorem with an operator for a parameter is
needed, and the value of a run is never spelled out: the lemmas say what it stays in
(`Stays`, `StaysFrom`), and that a growing set has stopped growing after as many turns
as it has room for (`Saturates`, from which `ReachableClosed` and `ReachableLeast`).

### What is only model-checked, and why

- *Liveness*: `Terminates` of Declutter, CfgFacts and Refine, and the fairness part
  of `Implements` in MCStructuring. The provers know neither fairness nor ENABLED.
  A group of the pipeline ends only if its passes run out of work, which is the
  passes' matter, so nothing is proved of termination there either.
- *Recursive operators*: everything of Structuring, RegionRun, RustBody, HighIR,
  HighRun, Refine and Resolver, whose trees and walks are recursive. Their modules
  are out of the provers' reach as a whole.
- *SSA form* (`SsaKept` of Declutter): dominance has to be carried through ten
  rewritings of the graph, in each of which paths of the new graph are to be mapped to
  paths of the old. For slot promotion that needs, on top, that a threaded value
  dominates its new readers, and for store forwarding the same of the value stored. It
  is stated, checked, and used as a condition by `UnifiedInSsa`.
- *Behaviour* (`BehaviourKept` of Declutter): two executions are compared up to a bound
  on blocks and events, and the loops of both are data. It is also not a theorem for all
  functions: findings 1 and 5 are counterexamples outside the families of MCDeclutter.
- *`PromotedOnce`*: whether what the pass leaves can be promoted again depends on the
  addresses a load of the frame brings back (finding 5), which no assumption excludes.
- *That no flag is raised for nothing*: resolving aliases raises one whenever it retargets a
  dead alias; with aliases that form a circle in the residue, which `WellFormed` does not
  exclude, it may do so for ever. No function the lift makes has one, and `Terminates`
  checks that on the rest the flags die down.
- *Type inference*: the rounds of TypeInfer are folds over evidence. What
  one fold stays in could be proved as it is for Declutter; `Sound`, `Resolved` and
  `CallersInAnyOrder` are about what all of them find together and remain to be done.

## 5. Findings

1. **Counters read after the loop** (`memory/unroll.rs` 250). The gate asks that
   "the exit edge passes no argument that depends on the induction variable"
   (52-53), and asks nobody else. The lift passes every live value along every edge
   (`declutter/mod.rs` 3-5), but `prune-trivial-phis`, earlier in the same group, takes
   that argument away: the exit's parameter has one incoming value, so its readers
   read the induction variable itself. The loop is then unrolled, nothing steps
   the variable any more, and they get its initial value instead of the bound.
2. **Parallel bindings printed one by one** (`rust/body.rs` 1243). Arguments
   "are bound positionally" (`lifted/mod.rs` 119-121) when the edge is taken;
   the emitter prints one assignment per pair. An edge that hands a header's
   first parameter on to its second (`v3 = v2; v4 = v3;`), or swaps two, reads
   the overwritten local. `OrderedEdgesBind` shows the condition under which the order
   is harmless: no pair reads what an earlier pair of its edge assigns.
3. **Helpers that "always" trap** (`refine/trap_call.rs` 191). "Every path
   through it reaches `Panic` or `Unreachable`" (33-34); a sequence counts as
   soon as *any* of its items does. Once the guard-clause pass has made
   `if c { return }; unreachable` of a helper, its calls are replaced by a trap.
4. **Parameters retired together** (`refine/trivial_phi.rs` 155). "A parameter
   every remaining transfer assigns the same value is replaced by that value at
   every read" (22-24). If that value is itself a parameter retired in the same
   round, the readers are left with it, and nothing assigns it any more.
   (In MCRefine no parameter's only source is another such parameter.)
5. **Frame addresses stored into the frame** (`memory/slots.rs` 203). "Anything
   else — passed to a call, stored *as a value*, returned, branched on —
   declines the **whole frame**" (`memory/promote.rs` 37-41). `frame_escapes`
   passes over every access of the frame, also where the value stored is an
   address. Store forwarding turns the load that brings it back into an alias
   no block schedules, which `address_closure` leaves out, so that the store
   through it is no access of the frame: `store [fp+1] x; store [fp] fp+1;
   p = load [fp]; store [p] 1; return load [fp+1]` returns `x` once the slots
   are promoted.

Noted while reading, and not among the findings: `structuring/mod.rs` says that
structuring always succeeds on reducible input, and names the depth limit that
is the exception in the same file; `resolve_aliases.rs` 14-17 says the pass
runs once, outside the group, where `lib.rs` has it inside and says why.
`pipeline.rs` 169-171 documents `fixpoint_iterations` as "One entry per fixpoint
group, in declaration order", while entries are pushed in slot order (143) and
groups may be declared in any; the pipelines of `lib.rs` declare theirs in slot
order. `declutter/mod.rs` 28-30 says that every pass there decreases (reachable
blocks, edges, scheduled instructions, parameters) or reports no change; sweep-dead
reports the clearing of an unreachable block that holds only a `return`, which
decreases none of them, once. Lines 31-60 extend the measure by the promotable slots and
the uses of aliases; store forwarding descends neither (it makes aliases, and
retiring the load of a conflicting width can make a slot promotable), and the
group ends all the same (`Terminates`).

Noted while modelling type inference, and for want of a property in no run:

- `refines_val` says that a proven `Val` "must not outrank a specific type the
  module proved" (`type_infer.rs` 2514-2516), but `improve` compares ranks first
  (2615). A helper's proven `Val`, or a copy of one, displaces an
  inferred Address, and a use puts the Address back: the two take turns, and the inner
  loop runs to `MAX_ROUNDS`, "never the reason a run stops in practice" (the
  comment on the constant, 314-316). The state after each round is the same.
- Return slots do not only ascend (57-60, and 1930-1933,
  where nothing talks a conflict back into a type): the table is made from
  scratch, and a slot in conflict, because a constant `0` stood beside a value
  not yet typed while callers took it for a `u64`, becomes `u64` a round later.
- A sign corrected, or a conflict found, in a later module round is not written
  back, as a write asks for a higher rank (500). In `MergedCall` of MCTypeInfer
  the merge of a call's `u64` with a constant stays the `i64` of round one.
- Where the first settling never ends its waits, the catalog begins to speak in
  the round in which the waits are given up, not after it.

## 6. What is left out

- **Two memory passes of the declutter group**: argument promotion and
  out-parameters, which change what functions pass one another. `Terminates`
  speaks of the ten others only. A frame handed to a call declines or, in part, is
  out of reach; the footprints the code computes of callees of the module, and
  the pointers tagged for the host, would only let more frames through. `Step`
  takes an indirect call in the function itself for one of the host, at which
  the walk stops likewise.
  Floats are left out, so two accesses of one width have one type.
- **Provenance, diagnostics, metrics**, and, outside TypeInfer, types: they
  steer nothing modelled.
- **Refine** leaves out loop classification, which only tags loops, and the
  equality of host objects in `select_return.rs` 80-107. A panic is an
  unreachable. The recognizers between the groups are the one step `Recognize`;
  inlining, specialisation and dead parameters are among the passes it stands for
  and are not modelled.
- **Resolver** leaves out data segments that overlap, float conversions, the
  narrowing of table calls, and passes that change the module while a resolver
  is alive. Queries for bytes are asked about the operand pairs of host
  operations only, as the recognizers do.
- **Type inference** leaves out options, maps, tuples and results (they are
  refined as vectors are, or not at all), vectors built from elements, declared
  structs and enums, encoder helpers, loads, wide numbers, unwraps, and the
  metrics. The lattice's laws are a matter of a finite set of slots, which
  `CallersInAnyOrder` covers as far as the pass uses them; they are not proved.
- **RustBody** leaves out type conversions, which keep the value, renames,
  which print the renamed value, and the assignments skipped because only a
  hole reads the local. Which values the body declares up front is not
  modelled.
- **The region validator** beyond labels: dangling ids hold by construction of
  the model; its dominance walk is covered by `EmittedInOrder` and
  `DefinedBeforeRead`.
- Decoding, printing, tables and external tools (see the components in
  `PROJECT.json`).

## 7. The plan

Done: Pipeline, the control-flow facts and Declutter (with store forwarding and slot
promotion, unrolling and trap tails) with their proofs, structuring, leaving SSA, the region refinements with constant returns, the
constant resolver, type inference. Next, in this order:

1. **Memory**: a module of several
   lifted functions for argument promotion, out-parameters and footprints.
2. **Interproc**: inlining, specialisation and removal of dead parameters, on
   HighIR with HighRun as the reference.
3. **Decompile**: the driver's stages with their errors, composing Pipeline.
4. **Proofs**: `SsaKept`, one pass at a time, beginning with those that leave the graph
   alone (aliases, phis, dead parameters), so that `Unified` holds outright.
