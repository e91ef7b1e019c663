------------------------------ MODULE RegionRun ------------------------------
(***************************************************************************)
(* What a region tree does when it runs (the meaning sordec-ir's           *)
(* high/region.rs gives each region), for the trees the structurer emits:  *)
(* every path through such a tree ends in a branch, a return or a trap,    *)
(* and never by falling off the end of a scope, of a loop or of the tree.  *)
(***************************************************************************)
EXTENDS Structuring

CONSTANTS
    ValueCount,    \* the values the functions pass on along their edges
    Program        \* functions with the facts of their graphs, [f, cfg]

Value == 1 .. ValueCount

VARIABLES
    func,          \* the function, fixed
    cfg,           \* the facts of its graph, fixed
    region,        \* the region tree made of it, fixed
    todo,          \* the regions left to run, the next one first
    at,            \* the block run last, 0 before the first
    taken,         \* what the last selector chose, <<>> if none since `at`
    carried,       \* the transfer since `at`
    received,      \* the transfer with which control came to `at`
    ended          \* "no", "return", "unreachable"; "not_run" without a tree

fixed == <<func, cfg, region>>
vars == <<fixed, todo, at, taken, carried, received, ended>>

Now == todo[1]

Rest == Tail(todo)

\* What is left to run once the scope or the loop is over is under a mark
\* that bears its label.
Mark(r) == [r EXCEPT !.kind = IF r.kind = "scope" THEN "in_scope" ELSE "in_loop"]

\* The place of the innermost mark of this kind and label.
MarkAt(kind, label) ==
    CHOOSE i \in DOMAIN todo :
        /\ todo[i].kind = kind /\ todo[i].label = label
        /\ \A j \in 1 .. i - 1 : ~(todo[j].kind = kind /\ todo[j].label = label)

HasMark(kind, label) ==
    \E i \in DOMAIN todo : todo[i].kind = kind /\ todo[i].label = label

Init ==
    /\ \E p \in Program :
          func = p.f /\ cfg = p.cfg /\ region = RegionOf(p.f, p.cfg)
    /\ todo = IF region = Unstructured THEN <<>> ELSE <<region>>
    /\ at = 0
    /\ taken = <<>>
    /\ carried = <<>>
    /\ received = <<>>
    /\ ended = IF region = Unstructured THEN "not_run" ELSE "no"

Runs(kinds) == todo # <<>> /\ Now.kind \in kinds

RunBasic ==
    /\ Runs({"basic"})
    /\ at' = Now.label
    /\ received' = carried
    /\ carried' = <<>>
    /\ taken' = <<>>
    /\ todo' = Rest
    /\ UNCHANGED <<fixed, ended>>

RunSequence ==
    /\ Runs({"sequence"})
    /\ todo' = Now.parts \o Rest
    /\ UNCHANGED <<fixed, at, taken, carried, received, ended>>

Open ==
    /\ Runs({"scope", "loop"})
    /\ todo' = Now.parts \o <<Mark(Now)>> \o Rest
    /\ UNCHANGED <<fixed, at, taken, carried, received, ended>>

\* The selector chooses a slot; the part that holds the slot runs.
RunSelect ==
    /\ Runs({"if", "switch"})
    /\ \E i \in DOMAIN Now.parts : \E slot \in Now.cases[i] :
        /\ taken' = <<Now.label, slot>>
        /\ todo' = <<Now.parts[i]>> \o Rest
    /\ UNCHANGED <<fixed, at, carried, received, ended>>

RunTransfer ==
    /\ Runs({"transfer"})
    /\ carried' = carried \o Now.transfer
    /\ todo' = Rest
    /\ UNCHANGED <<fixed, at, taken, received, ended>>

RunBreak ==
    /\ Runs({"break"})
    /\ HasMark("in_scope", Now.label)
    /\ carried' = carried \o Now.transfer
    /\ todo' = SubSeq(todo, MarkAt("in_scope", Now.label) + 1, Len(todo))
    /\ UNCHANGED <<fixed, at, taken, received, ended>>

RunContinue ==
    /\ Runs({"continue"})
    /\ HasMark("in_loop", Now.label)
    /\ carried' = carried \o Now.transfer
    /\ LET i == MarkAt("in_loop", Now.label)
       IN  todo' = todo[i].parts \o SubSeq(todo, i, Len(todo))
    /\ UNCHANGED <<fixed, at, taken, received, ended>>

RunEnd ==
    /\ Runs({"return", "unreachable"})
    /\ ended' = Now.kind
    /\ todo' = <<>>
    /\ UNCHANGED <<fixed, at, taken, carried, received>>

Done == ended # "no" /\ UNCHANGED vars

Next ==
    \/ RunBasic \/ RunSequence \/ Open \/ RunSelect \/ RunTransfer
    \/ RunBreak \/ RunContinue \/ RunEnd \/ Done

Spec == Init /\ [][Next]_vars /\ WF_vars(Next)

-----------------------------------------------------------------------------
(* Properties *)

\* A mark on `todo` is a construct that is open; no label is open twice, so
\* a branch cannot miss the construct it names.
TypeOK ==
    /\ at \in Block \cup {0}
    /\ ToSet(carried) \cup ToSet(received) \subseteq Value \X Value
    /\ ended \in {"no", "return", "unreachable", "not_run"}
    /\ \A i, j \in DOMAIN todo :
           /\ i # j
           /\ todo[i].kind \in {"in_scope", "in_loop"}
           /\ todo[i].kind = todo[j].kind
           => todo[i].label # todo[j].label

\* The tree does what the graph does: it runs the same blocks in the same
\* order, takes the slot its block's selector has chosen, brings the slot's
\* arguments to the target's parameters, ends as the graph does, and never
\* gets lost between two blocks.
Flow == INSTANCE CfgRun

Implements == Flow!CfgSpec

\* The properties of the tree itself are judged before it runs.
Fresh == at = 0 /\ region # Unstructured

\* Every Break and Continue is inside the construct it names
\* (check_region_structure; the debug assertions of do_branch).
BranchesEnclosed == Fresh => LabelsEnclosed(region, {})

\* "No code is duplicated", and none is lost: the tree holds each reachable
\* block once.
EmittedOnce ==
    Fresh => /\ IsInjective(Emitted(region))
             /\ ToSet(Emitted(region)) = Reachable(func)

\* "The structurer linearizes blocks in dominator order": what dominates a
\* block is emitted before it, so that a value defined on every path to a use
\* is also defined above it.
DominatorsEmittedFirst ==
    Fresh =>
        LET order == Emitted(region)
        IN  \A i, j \in DOMAIN order :
                i # j /\ Dominates(func, order[i], order[j]) => i < j

\* The tree lists the reachable blocks, once each, in an order in which
\* definitions come before their uses.
EmittedInOrder == EmittedOnce /\ DominatorsEmittedFirst

\* The number of blocks that dominate b.
DominatorDepth(b) == Cardinality({d \in Reachable(func) : Dominates(func, d, b)})

\* The structurer gives up on a function exactly when some cycle has no entry
\* that dominates it, or when the dominator chain is longer than MaxDepth.
GivesUpOnlyThen ==
    region = Unstructured <=>
        \/ ~IsReducible(func, cfg)
        \/ \E b \in Reachable(func) : DominatorDepth(b) > MaxDepth
=============================================================================
