----------------------------- MODULE RefineFold -----------------------------
(***************************************************************************)
(* The refinements that follow what values are known to be                 *)
(* (sordec-passes, refine/ and interproc/const_return.rs).  All run late,  *)
(* on trees whose calls the recognizers have named; SelectReturn last.     *)
(*                                                                         *)
(* Unlike the first group, they leave sequences as they fall, nested or of *)
(* one item.                                                               *)
(***************************************************************************)
EXTENDS RefineEarly

\* An optional value is a set of at most one member.
None == {}

\* Nested sequences are spliced in, and the result is a sequence whatever it
\* holds.
Spliced(items) ==
    FlattenSeq(Map(items, LAMBDA q : IF q.kind = "sequence" THEN q.parts ELSE <<q>>))

Row(items) == Region("sequence", NoBlock, items)

-----------------------------------------------------------------------------
(* const_branch.rs *)

FoldDepth == 4    \* INT_FOLD_DEPTH

\* int_value
RECURSIVE IntValue(_, _, _)
IntValue(f, v, depth) ==
    LET d == f.def[ResolveUse(f, v)]
        Operand(i) == IntValue(f, d.args[i], depth - 1)
    IN  CASE d.op \in {"zero", "one"} -> {Compute(d.op, <<>>)}
          [] d.op = "not" /\ depth > 0 -> {1 - n : n \in Operand(1)}
          [] d.op \in {"eq", "ne", "and"} /\ depth > 0 ->
                 {Compute(d.op, <<m, n>>) : m \in Operand(1), n \in Operand(2)}
          [] OTHER -> None

\* `constant`: negations are followed to any depth.
RECURSIVE Constant(_, _)
Constant(f, v) ==
    LET d == f.def[ResolveUse(f, v)]
    IN  IF d.op = "not" THEN {1 - n : n \in Constant(f, d.args[1])}
        ELSE IntValue(f, v, FoldDepth)

\* may_fall_through: control can go on after r.
RECURSIVE MayFallThrough(_)
MayFallThrough(r) ==
    CASE r.kind = "sequence" -> \A q \in ToSet(r.parts) : MayFallThrough(q)
      [] r.kind = "scope" -> MayFallThrough(r.parts[1]) \/ BreaksTo(r.label, r.parts[1]) > 0
      [] r.kind = "if" -> Len(r.parts) = 1 \/ \E q \in ToSet(r.parts) : MayFallThrough(q)
      [] r.kind = "switch" -> \E q \in ToSet(r.parts) : MayFallThrough(q)
      [] OTHER -> ~Terminal(r)

\* Nothing after this scope runs.
NeverLeft(q) == q.kind = "scope" /\ ~MayFallThrough(q)

\* A sequence ends at its first terminal, and at its first scope that is
\* never left, which gives way to its body (dead_scope_tail).
Truncate(s) ==
    LET items == s.r.parts
        ends == {i \in DOMAIN items : Terminal(items[i])}
        cut == IF ends = {} THEN items ELSE SubSeq(items, 1, Min(ends))
        first == Min({i \in DOMAIN cut : NeverLeft(cut[i])} \cup {Len(cut)})
        unwrapped == SubSeq(cut, 1, first - 1) \o Spliced(cut[first].parts)
        t == IF cut = items THEN s ELSE Rewritten(s, Row(cut))
    IN  IF first < Len(cut) THEN Rewritten(t, Row(unwrapped)) ELSE t

\* fold: a branch on a constant is the arm it takes.
RECURSIVE Fold(_)
Fold(s) ==
    LET arms == s.r.parts
        c == IF s.r.kind = "if" THEN Constant(s.f, s.r.reads[1]) ELSE None
        t == OnParts(Fold, s)
    IN  CASE c = {1} -> Fold(Rewritten(s, arms[1]))
          [] c = {0} -> IF Len(arms) = 2 THEN Fold(Rewritten(s, arms[2]))
                        ELSE Rewritten(s, Row(<<>>))
          [] c = None /\ s.r.kind = "sequence" -> Truncate(Kept(t, Row(Spliced(t.r.parts))))
          [] OTHER -> t

\* prune_merges: of what a merge's edges carry, what is still assigned.
PruneMerges(f) ==
    LET assigned(v) == {t[2] : t \in {u \in Transfers(f.region) : u[1] = v}}
        unstructured == \E n \in ToSet(Nodes(f.region)) : n.kind = "unstructured"
    IN  IF unstructured THEN f
        ELSE [f EXCEPT !.def = [v \in ValuesOf(f) |->
                IF @[v].op # "phi" \/ assigned(v) = {} THEN @[v]
                ELSE [@[v] EXCEPT !.args = SelectSeq(@, LAMBDA u : u \in assigned(v))]]]

ConstBranch(p) ==
    OnFunctions(p, LAMBDA f :
        LET done == Refined(f, Fold)
        IN  IF done.n = 0 THEN done ELSE [done EXCEPT !.f = PruneMerges(@)])

-----------------------------------------------------------------------------
(* trivial_phi.rs *)

\* drop_assignments and substitute: a pair whose parameter is in `drop` goes,
\* and reads of v become reads of new[v].
RECURSIVE MapTransfers(_, _)
MapTransfers(r, change) ==
    LET new == change.new
    IN  [r EXCEPT
            !.reads = Map(@, LAMBDA v : new[v]),
            !.transfer = Map(SelectSeq(@, LAMBDA t : t[1] \notin change.drop),
                             LAMBDA t : <<t[1], new[t[2]]>>),
            !.parts = Map(@, LAMBDA q : MapTransfers(q, change))]

\* unread_phis
UnreadPhis(f) ==
    LET reads == UNION {ToSet(f.def[v].args) : v \in ValuesOf(f)} \cup ToSet(RegionReads(f.region))
    IN  {v \in ValuesOf(f) :
            /\ f.def[v].op = "phi" /\ f.def[v].args # <<>>
            /\ v \notin reads /\ v \notin {ResolveUse(f, u) : u \in reads}}

\* A parameter nothing reads is not assigned.
DropUnread(f) ==
    LET unread == UnreadPhis(f)
    IN  [f EXCEPT
            !.region = MapTransfers(@, [drop |-> unread, new |-> [v \in ValuesOf(f) |-> v]]),
            !.def = [v \in ValuesOf(f) |-> IF v \in unread THEN Expr("phi", <<>>) ELSE @[v]]]

\* What the remaining transfers assign to the parameter v, itself aside.
SourcesOf(f, v) ==
    {ResolveUse(f, t[2]) : t \in {u \in Transfers(f.region) : u[1] = v}} \ {v}

\* plan: the parameters that hold one value only.
Retired(f) ==
    {v \in ValuesOf(f) : f.def[v].op = "phi" /\ Cardinality(SourcesOf(f, v)) = 1}

\* Their reads name that value, which may be a parameter retired with them.
RetirePhis(f) ==
    LET retired == Retired(f)
        new == [v \in ValuesOf(f) |->
                   IF v \in retired THEN CHOOSE u \in SourcesOf(f, v) : TRUE ELSE v]
    IN  [f EXCEPT
            !.region = MapTransfers(@, [drop |-> retired, new |-> new]),
            !.def = [v \in ValuesOf(f) |->
                        IF @[v].op = "phi" THEN @[v]
                        ELSE [@[v] EXCEPT !.args = Map(@, LAMBDA u : new[u])]],
            !.returns = Map(@, LAMBDA vs : Map(vs, LAMBDA u : new[u]))]

\* Faulty: only retired parameters count as a change.
TrivialPhi_SilentDrop(p) ==
    OnFunctions(p, LAMBDA f :
        LET g == DropUnread(f) IN [f |-> RetirePhis(g), n |-> Cardinality(Retired(g))])

TrivialPhi(p) ==
    OnFunctions(p, LAMBDA f :
        LET g == DropUnread(f)
        IN  [f |-> RetirePhis(g),
             n |-> Cardinality(UnreadPhis(f)) + Cardinality(Retired(g))])

-----------------------------------------------------------------------------
(* same_exit.rs *)

\* Where code leads that does nothing: on, or to a return of these values.
\* (None: it does something, or leads elsewhere.)
Falls == <<"falls">>

\* reads_of: what the region and the blocks in it read.
ReadsOf(f, r) ==
    FlattenSeq(Map(FlattenSeq(Map(Emitted(r), LAMBDA b : f.block[b])),
                   LAMBDA v : f.def[v].args))
    \o RegionReads(r)

Counts(f, reads) ==
    [v \in ValuesOf(f) |-> Cardinality({i \in DOMAIN reads : reads[i] = v})]

\* way: `after` is where the code after the items leads, and `join` the block
\* it begins with.
RECURSIVE Way(_, _, _, _)
Way(f, items, after, join) ==
    LET item == Head(items)
        On == Way(f, Tail(items), after, join)
        inner == Way(f, item.parts, Falls, join)
    IN  CASE items = <<>> -> after
          [] item.kind = "basic" /\ PureBlock(f, item.label) -> On
          [] item.kind = "sequence" -> IF inner = Falls THEN On ELSE inner
          [] item.kind = "return" ->
                 <<"returns", Map(item.reads, LAMBDA v : ResolveUse(f, v))>>
          [] item.kind = "transfer" /\ item.transfer = <<>> /\ item.label = join -> after
          [] OTHER -> <<>>

\* first_block
RECURSIVE FirstBlock(_)
FirstBlock(items) ==
    CASE items = <<>> -> NoBlock
      [] items[1].kind = "basic" -> items[1].label
      [] items[1].kind = "sequence" -> FirstBlock(items[1].parts)
      [] OTHER -> NoBlock

\* No value the arms bind is read outside them, nor by what replaces them.
Unscheduled(f, uses, arms, replacement) ==
    LET inside == UNION {ToSet(f.block[b]) : b \in ToSet(Emitted(Row(arms)))}
        inner == Counts(f, ReadsOf(f, Row(arms)))
    IN  \A v \in inside : uses[v] <= inner[v] /\ v \notin ToSet(replacement.reads)

\* What a branch on nothing is: both ways lead to the same place (decide).
Replacements(f, arms, after, join) ==
    LET then == Way(f, <<arms[1]>>, Falls, join)
        else == IF Len(arms) = 2 THEN Way(f, <<arms[2]>>, Falls, join) ELSE Falls
    IN  CASE then = <<>> \/ else = <<>> -> None
          [] then = Falls /\ else = Falls -> {Row(<<>>)}
          [] then = else -> {End("return", NoBlock, then[2])}
          [] {then, else} = {Falls, after} -> {Row(<<>>)}
          [] OTHER -> None

\* simplify, where s.uses counts the reads of each value in the tree as it
\* stands: a sequence is simplified from its end.
RECURSIVE Simplify(_, _, _)
Simplify(s, after, join) ==
    LET Item(rest, q) ==
            LET next == IF rest.r.parts = <<>> THEN join ELSE FirstBlock(rest.r.parts)
                u == Simplify(Kept(rest, q), Way(s.f, rest.r.parts, after, join), next)
            IN  Kept(u, Row(Spliced(<<u.r>>) \o rest.r.parts))
        t == IF s.r.kind = "if" THEN OnParts(LAMBDA u : Simplify(u, after, join), s)
             ELSE OnParts(LAMBDA u : Simplify(u, <<>>, NoBlock), s)
        found == Replacements(s.f, t.r.parts, after, join)
        new == CHOOSE r \in found : TRUE
        lost == Counts(s.f, ReadsOf(s.f, t.r))
        gained == Counts(s.f, new.reads)
    IN  CASE s.r.kind = "sequence" ->
                 FoldRight(LAMBDA q, rest : Item(rest, q), s.r.parts, Kept(s, Row(<<>>)))
          [] s.r.kind = "if" /\ found # None ->
                 IF Unscheduled(s.f, t.uses, t.r.parts, new)
                 THEN [Rewritten(t, new) EXCEPT
                          !.uses = [v \in DOMAIN @ |->
                              (IF @[v] < lost[v] THEN 0 ELSE @[v] - lost[v]) + gained[v]]]
                 ELSE t
          [] OTHER -> t

SameExit(p) ==
    OnFunctions(p, LAMBDA f :
        LET s == Simplify([f |-> f, n |-> 0, r |-> f.region,
                           uses |-> Counts(f, ReadsOf(f, f.region))], <<>>, NoBlock)
        IN  [f |-> [f EXCEPT !.region = s.r], n |-> s.n])

-----------------------------------------------------------------------------
(* interproc/const_return.rs *)

\* constant_returns: the literal every return names in the i-th place.
ConstantReturn(f, i) ==
    LET rows == {n.reads : n \in {q \in ToSet(Nodes(f.region)) : q.kind = "return"}}
        ops == {f.def[ResolveUse(f, row[i])].op : row \in rows}
    IN  IF \/ rows = {}
           \/ \E x, y \in rows : Len(x) # Len(y)
           \/ \E row \in rows : i \notin DOMAIN row
           \/ Cardinality(ops) > 1
        THEN None ELSE ops \cap {"zero", "one"}

\* Results picked of calls that return a constant there.
ConstReturn(p) ==
    LET Known(f, v) ==
            LET d == f.def[v]
                call == f.def[ResolveUse(f, d.args[1])]
            IN  IF d.op = "pick" /\ call.op = "invoke"
                THEN ConstantReturn(p[call.n], d.n) ELSE None
        folded(f) == {v \in ValuesOf(f) : f.def[v].op = "pick" /\ Known(f, v) # None}
    IN  OnFunctions(p, LAMBDA f :
            [f |-> [f EXCEPT !.def = [v \in ValuesOf(f) |->
                        IF v \in folded(f) THEN Expr(CHOOSE op \in Known(f, v) : TRUE, <<>>)
                        ELSE @[v]]],
             n |-> Cardinality(folded(f))])

-----------------------------------------------------------------------------
(* select_return.rs *)

\* returned_selects: those with one reader, by whatever name it reads them.
ReturnedSelects(f) ==
    LET reads == FlattenSeq(Map(f.def, LAMBDA d : d.args)) \o RegionReads(f.region)
        readers == Counts(f, Map(reads, LAMBDA v : ResolveUse(f, v)))
    IN  {v \in ValuesOf(f) : f.def[v].op = "select" /\ readers[v] = 1}

\* branch_returns: a returned select is a branch that returns either.
RECURSIVE BranchReturns(_, _)
BranchReturns(selects, s) ==
    LET v == ResolveUse(s.f, s.r.reads[1])
        args == s.f.def[v].args
        Returns(u) == End("return", NoBlock, <<u>>)
    IN  IF s.r.kind = "return" /\ Len(s.r.reads) = 1 /\ v \in selects
        THEN Rewritten(s, [Region("if", NoBlock, <<Returns(args[1]), Returns(args[2])>>)
                              EXCEPT !.reads = <<args[3]>>])
        ELSE OnParts(LAMBDA u : BranchReturns(selects, u), s)

SelectReturn(p) ==
    OnFunctions(p, LAMBDA f :
        LET selects == ReturnedSelects(f)
        IN  Refined(f, LAMBDA s : BranchReturns(selects, s)))
=============================================================================
