------------------------------- MODULE Refine -------------------------------
(***************************************************************************)
(* From a module of lifted functions to its refined region trees: the      *)
(* lowering, then the refinement passes where default_high_pipeline        *)
(* (sordec-passes, lib.rs) has them.  Two fixpoint groups, and two passes  *)
(* after the second; the recognizers, typing and elision passes around     *)
(* them are outside this module, but for what the group after them sees of *)
(* the recognizers.                                                        *)
(***************************************************************************)
EXTENDS RefineScope, HighRun

CONSTANT Program    \* the modules handed over: <<[f, cfg, exported], ...>>

VARIABLES
    source,        \* the module as lifted
    ir,            \* the module as lowered and refined
    slot,          \* the step whose turn it is
    anyChanged,    \* any_changed of the group's current iteration
    lowered        \* history: the behaviour of the module as lowered

vars == <<source, ir, slot, anyChanged, lowered>>

EarlyGroup ==
    <<"polarity", "guard-clause", "trap-inline", "trap-call-inline",
      "switch-dedup", "and-merge">>

\* The late group, between whose two halves the elision passes run.
FoldPasses == <<"const-branch", "trivial-phi", "same-exit", "const-return">>

ScopePasses == <<"polarity-again", "scope-fallthrough", "scope-if-else">>

Steps ==
    <<"lower">> \o EarlyGroup \o <<"judge-early", "recognize">>
    \o FoldPasses \o ScopePasses \o <<"judge-late">>
    \o <<"const-branch-again", "select-return", "done">>

Place(step) == CHOOSE i \in DOMAIN Steps : Steps[i] = step

GroupStart == [early |-> Place("polarity"), late |-> Place("const-branch")]

Init ==
    /\ source \in Program
    /\ ir = <<>>
    /\ slot = 1
    /\ anyChanged = FALSE
    /\ lowered = <<>>

At(step) == Steps[slot] = step

\* The structurer's trees are lowered (lower_function, for each function).
LowerModule ==
    /\ At("lower")
    /\ ir' = Map(source, LAMBDA g : Lower(g.f, g.cfg, g.exported))
    /\ lowered' = Behaviour(ir')
    /\ slot' = slot + 1
    /\ UNCHANGED <<source, anyChanged>>

\* A pass runs and returns `result`.
Invoke(step, result) ==
    /\ At(step)
    /\ ir' = result.ir
    /\ anyChanged' = (anyChanged \/ result.changed)
    /\ slot' = slot + 1
    /\ UNCHANGED <<source, lowered>>

RunPolarity == Invoke("polarity", Polarity(ir))
RunGuardClause == Invoke("guard-clause", GuardClause(ir))
RunTrapInline == Invoke("trap-inline", TrapInline(ir))
RunTrapCallInline == Invoke("trap-call-inline", TrapCallInline(ir))
RunSwitchDedup == Invoke("switch-dedup", SwitchDedup(ir))
RunAndMerge == Invoke("and-merge", AndMerge(ir))
RunConstBranch == Invoke("const-branch", ConstBranch(ir))
RunTrivialPhi == Invoke("trivial-phi", TrivialPhi(ir))
RunSameExit == Invoke("same-exit", SameExit(ir))
RunConstReturn == Invoke("const-return", ConstReturn(ir))
RerunPolarity == Invoke("polarity-again", Polarity(ir))
RunScopeFallthrough == Invoke("scope-fallthrough", ScopeFallthrough(ir))
RunScopeIfElse == Invoke("scope-if-else", ScopeIfElse(ir))
RerunConstBranch == Invoke("const-branch-again", ConstBranch(ir))
RunSelectReturn == Invoke("select-return", SelectReturn(ir))

\* The recognizers name every host call, as one whose result is a bool.
Recognize ==
    /\ At("recognize")
    /\ ir' = Map(ir, LAMBDA f :
                [f EXCEPT !.def = Map(@, LAMBDA d :
                    [d EXCEPT !.op = IF @ = "call" THEN "known" ELSE @])])
    /\ slot' = slot + 1
    /\ UNCHANGED <<source, anyChanged, lowered>>

\* The end of a group: again from its start, or on.
Judge(step, first) ==
    /\ At(step)
    /\ slot' = IF anyChanged THEN first ELSE slot + 1
    /\ anyChanged' = FALSE
    /\ UNCHANGED <<source, ir, lowered>>

JudgeEarly == Judge("judge-early", GroupStart.early)
JudgeLate == Judge("judge-late", GroupStart.late)

\* The module goes on to the rest of the pipeline.
Done == At("done") /\ UNCHANGED vars

Next ==
    \/ LowerModule
    \/ RunPolarity
    \/ RunGuardClause
    \/ RunTrapInline
    \/ RunTrapCallInline
    \/ RunSwitchDedup
    \/ RunAndMerge
    \/ JudgeEarly
    \/ Recognize
    \/ RunConstBranch
    \/ RunTrivialPhi
    \/ RunSameExit
    \/ RunConstReturn
    \/ RerunPolarity
    \/ RunScopeFallthrough
    \/ RunScopeIfElse
    \/ JudgeLate
    \/ RerunConstBranch
    \/ RunSelectReturn
    \/ Done

\* One thread runs the passes and none blocks.  (Every step but Done moves
\* the slot: this is WF_vars(Next), stated without what the passes compute.)
MoveOn == slot < Len(Steps) /\ slot' \in DOMAIN Steps

Spec == Init /\ [][Next]_vars /\ WF_slot(MoveOn)

-----------------------------------------------------------------------------
(* Properties *)

\* The arenas only hold ids of their own, whatever the passes minted
\* (validate_high: no dangling value, no dangling block), and the loop's
\* variables stay in range.
TypeOK ==
    /\ slot \in DOMAIN Steps
    /\ anyChanged \in BOOLEAN
    /\ \A f \in ToSet(ir) :
          /\ \A v \in ValuesOf(f) : ToSet(f.def[v].args) \subseteq ValuesOf(f)
          /\ \A b \in BlocksOf(f) : ToSet(f.block[b]) \subseteq ValuesOf(f)
          /\ ToSet(RegionReads(f.region)) \subseteq ValuesOf(f)
          /\ ToSet(Emitted(f.region)) \subseteq BlocksOf(f)

\* check_region_structure, which debug builds run after each pass: every
\* Break and Continue stays inside the construct it names, though scopes
\* dissolve and code moves into and out of branches around it, and no block
\* is emitted twice, though traps are copied to where they are reached from.
StaysValid ==
    \A f \in ToSet(ir) :
        /\ LabelsEnclosed(f.region, {})
        /\ IsInjective(Emitted(f.region))

\* Paths that end the same way are one, with the values that all define.
Joined(paths, ways, as) ==
    LET these == {p \in paths : p[1] \in ways}
        shared == {v \in UNION {p[2] : p \in these} : \A p \in these : v \in p[2]}
    IN  {p \in paths : p[1] \notin ways}
            \cup (IF these = {} THEN {} ELSE {<<as, shared>>})

ReadsUndefined == {<<<<"undefined">>, {}>>}

\* The ways out of region r, with the values defined on every path that takes
\* them, when those in S are defined on the way in.
RECURSIVE Flow(_, _, _)
Flow(f, r, S) ==
    LET Known(vs, T) == {ResolveUse(f, v) : v \in ToSet(vs)} \subseteq T
        assigned == S \cup {t[1] : t \in ToSet(r.transfer)}
        After(paths, Step(_)) ==
            LET on == {p \in paths : p[1] = <<>>}
            IN  Joined((paths \ on) \cup UNION {Step(p[2]) : p \in on}, {<<>>}, <<>>)
        Bind(T, v) == IF Known(f.def[v].args, T) THEN {<<<<>>, T \cup {v}>>} ELSE ReadsUndefined
        start == {<<<<>>, S>>}
        arms == UNION {Flow(f, q, S) : q \in ToSet(r.parts)}
    IN  IF ~Known(NodeReads(r), S) THEN ReadsUndefined
        ELSE CASE r.kind = "basic" ->
                      FoldLeft(LAMBDA ps, v : After(ps, LAMBDA T : Bind(T, v)),
                               start, f.block[r.label])
               [] r.kind = "sequence" ->
                      FoldLeft(LAMBDA ps, q : After(ps, LAMBDA T : Flow(f, q, T)),
                               start, r.parts)
               [] r.kind = "scope" -> Joined(arms, {<<>>, <<"break", r.label>>}, <<>>)
               [] r.kind = "loop" -> {p \in arms : p[1] \notin {<<>>, <<"continue", r.label>>}}
               [] r.kind \in {"if", "switch"} ->
                      Joined(arms \cup (IF Len(r.parts) = 1 /\ r.kind = "if" THEN start ELSE {}),
                             {<<>>}, <<>>)
               [] r.kind = "transfer" -> {<<<<>>, assigned>>}
               [] r.kind \in {"break", "continue"} -> {<<<<r.kind, r.label>>, assigned>>}
               [] r.kind = "return" -> {<<<<"return">>, S>>}
               [] r.kind = "unreachable" -> {}

\* On every path through the tree, a value is computed and a parameter
\* assigned before anything reads it ("emission-order dominance", and what
\* rustc asks of the `let`s the parameters become), though passes drop
\* assignments, copy bindings and delete the branches they stood in.
DefinedBeforeRead ==
    \A f \in ToSet(ir) :
        ~\E p \in Flow(f, f.region, ToSet(f.params)) : p[1] = <<"undefined">>

\* No refinement can be observed: after any number of passes the module makes
\* the host calls it made as lowered, in that order and with those arguments,
\* and returns, traps or runs on exactly where it did.
BehaviourKept == ir # <<>> => Behaviour(ir) = lowered

\* What trap_call.rs says of the helpers whose calls it deletes: "It diverges.
\* Every path through it reaches `Panic` or `Unreachable`".  (It is violated:
\* a sequence that ends in a trap counts as one that always reaches it.)
PureTrapsDiverge ==
    At("trap-call-inline") =>
        \A k \in PureTraps(ir), x \in Bit :
            RunFunction(ir, k, Map(ir[k].params, LAMBDA v : x), Outside).way = <<"trap">>

\* The structured form does what the graph did: a lone function as lowered
\* behaves as it did as lifted, though its parameters are now assigned along
\* the edges of a tree.
LoweredFaithfully ==
    ir # <<>> /\ Len(source) = 1 => lowered = Lifted!Behaviour(source[1].f)

RECURSIVE Flat(_)
Flat(r) == Canonical([r EXCEPT !.parts = Map(@, Flat)])

\* A module up to the nesting of its sequences, which the passes straighten
\* without a word.
Content(p) == Map(p, LAMBDA f : [f EXCEPT !.region = Flat(@)])

\* The changed flag tells the truth both ways, or a group would stop short of
\* its fixpoint, or never.
FlagHonest ==
    [][slot' = slot + 1 /\ ~At("lower") /\ ~At("recognize") /\ ~At("judge-early")
            /\ ~At("judge-late") =>
        IF Content(ir') = Content(ir) THEN anyChanged' = anyChanged ELSE anyChanged']_vars

\* Neither group runs forever, although GuardClause and ScopeIfElse undo each
\* other's work, and Polarity turns branches around that others turn back.
Terminates == <>At("done")
=============================================================================
