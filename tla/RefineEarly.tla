----------------------------- MODULE RefineEarly -----------------------------
(***************************************************************************)
(* The first group of region refinements (sordec-passes, refine/): the     *)
(* passes that run on trees as the structurer made them.                   *)
(*                                                                         *)
(* A rewrite in progress is s = [f, n, r]: the function, the rewrites made *)
(* so far, and the region being rewritten.  Each pass maps it, children    *)
(* first, with whatever it did to the function on the way.                 *)
(***************************************************************************)
EXTENDS HighIR

CONSTANT MaxDuplicated    \* MAX_DUPLICATED_BINDINGS

ASSUME RefineAssumption == MaxDuplicated \in Nat \ {0}

Kept(s, r) == [s EXCEPT !.r = r]

Rewritten(s, r) == [s EXCEPT !.r = r, !.n = @ + 1]

\* Pass applied to each part in turn.
OnParts(Pass(_), s) ==
    FoldLeft(LAMBDA t, q : LET u == Pass(Kept(t, q))
                           IN  Kept(u, [t.r EXCEPT !.parts = Append(@, u.r)]),
             Kept(s, [s.r EXCEPT !.parts = <<>>]), s.r.parts)

\* A sequence in canonical form (walk.rs, seq).
Canonical(r) == IF r.kind = "sequence" THEN Sequence(r.parts) ELSE r

\* What a pass makes of one function, and whether it says so.
Refined(f, Pass(_)) ==
    LET s == Pass([f |-> f, n |-> 0, r |-> f.region])
    IN  [f |-> [s.f EXCEPT !.region = s.r], n |-> s.n]

\* A pass over all functions; `changed` is raised if any was rewritten.
OnFunctions(p, Pass(_)) ==
    LET done == Map(p, Pass)
    IN  [ir |-> Map(done, LAMBDA d : d.f), changed |-> \E d \in ToSet(done) : d.n > 0]

-----------------------------------------------------------------------------
(* polarity.rs *)

\* Every value something emitted reads, however indirectly (inline_plan.rs,
\* liveness).
Live(f) ==
    LET roots == UNION {ToSet(f.block[b]) : b \in BlocksOf(f)}
                 \cup UNION {ToSet(vs) : vs \in ToSet(f.returns)}
                 \cup ToSet(RegionReads(f.region))
    IN  Iterate(LAMBDA S : S \cup UNION {ToSet(f.def[v].args) : v \in S}, roots, Len(f.def))

\* The values of class Inline(RegionUse) (InlinePlan::build): pure, not a
\* phi, and read once, by the region.  A returned value is read twice: the
\* table of returns counts too.
RegionOnly(f) ==
    LET reads == RegionReads(f.region)
        Times(v, seq) == Cardinality({i \in DOMAIN seq : seq[i] = v})
    IN  {v \in ToSet(reads) :
            /\ f.def[v].op # "phi" /\ PureBinding(f, v)
            /\ Times(v, reads) = 1
            /\ \A vs \in ToSet(f.returns) : v \notin ToSet(vs)
            /\ \A u \in Live(f) : v \notin ToSet(f.def[u].args)}

\* empty_arm: nothing happens in it.
RECURSIVE EmptyArm(_, _)
EmptyArm(f, r) ==
    CASE r.kind = "sequence" -> \A q \in ToSet(r.parts) : EmptyArm(f, q)
      [] r.kind = "basic" -> f.block[r.label] = <<>>
      [] r.kind = "transfer" -> r.transfer = <<>>
      [] OTHER -> FALSE

\* negates: a "not" whose operand is typed as a bool, as the condition the
\* and-merge mints and a recognized host call are.
IsNegation(f, v) ==
    f.def[v].op = "not" /\ f.def[f.def[v].args[1]].op \in {"and", "known"}

\* `inverted` succeeds on these.
Invertible(f, v) == f.def[v].op \in {"eq", "ne"} \/ IsNegation(f, v)

\* The branch on the opposite condition: what a negation negates, or the
\* comparison inverted where it is bound.
Inverted(s, parts) ==
    LET c == s.r.reads[1]
        r == [s.r EXCEPT !.parts = parts]
    IN  IF IsNegation(s.f, c)
        THEN Rewritten(s, [r EXCEPT !.reads = s.f.def[c].args])
        ELSE Rewritten([s EXCEPT !.f.def[c].op = IF @ = "eq" THEN "ne" ELSE "eq"], r)

\* normalize: an empty arm goes, and a bare exit belongs in the first arm.
RECURSIVE Normalize(_, _)
Normalize(only, s) ==
    LET t == OnParts(LAMBDA q : Normalize(only, q), s)
        then == t.r.parts[1]
        else == t.r.parts[2]
        Empty(arm) == EmptyArm(t.f, arm)
        flips == t.r.reads[1] \in only /\ Invertible(t.f, t.r.reads[1])
    IN  IF t.r.kind # "if" \/ Len(t.r.parts) = 1 THEN t
        ELSE IF Empty(else) /\ ~Empty(then)
        THEN Rewritten(t, [t.r EXCEPT !.parts = <<then>>])
        ELSE IF Empty(then) /\ flips THEN Inverted(t, <<else>>)
        ELSE IF BareExit(else) /\ ~BareExit(then) /\ flips THEN Inverted(t, <<else, then>>)
        ELSE t

Polarity(p) ==
    OnFunctions(p, LAMBDA f :
        LET only == RegionOnly(f) IN Refined(f, LAMBDA s : Normalize(only, s)))

-----------------------------------------------------------------------------
(* guard_clause.rs *)

CanHoist(then, else) == Terminating(then) /\ ~(BareExit(else) /\ ~BareExit(then))

\* hoist: an else whose `if` never falls through follows it instead.
RECURSIVE Hoist(_)
Hoist(s) ==
    LET t == OnParts(Hoist, s)
        r == t.r
    IN  IF r.kind = "if" /\ Len(r.parts) = 2 /\ CanHoist(r.parts[1], r.parts[2])
        THEN Rewritten(t, Sequence(<<[r EXCEPT !.parts = <<Head(@)>>], r.parts[2]>>))
        ELSE Kept(t, Canonical(r))

GuardClause(p) == OnFunctions(p, LAMBDA f : Refined(f, Hoist))

-----------------------------------------------------------------------------
(* trap_inline.rs *)

\* duplication_gates_hold: small, and no binding of the block reads another.
CanDuplicate(f, b) ==
    /\ Len(f.block[b]) <= MaxDuplicated
    /\ \A v \in ToSet(f.block[b]) : ToSet(f.def[v].args) \cap ToSet(f.block[b]) = {}

\* Faulty: the copy returns the values of the block it copies.
DuplicateBlock_SharedReads(s, b, terminator) ==
    LET old == s.f.block[b]
    IN  Rewritten([s EXCEPT
                      !.f.def = @ \o Map(old, LAMBDA v : s.f.def[v]),
                      !.f.block = Append(@, Map([i \in DOMAIN old |-> i],
                                                LAMBDA i : Len(s.f.def) + i))],
                  Sequence(<<Basic(Len(s.f.block) + 1), terminator>>))

\* Faulty: the copied bindings are not added to the function.
DuplicateBlock_NoBindings(s, b, terminator) ==
    LET old == s.f.block[b]
    IN  Rewritten([s EXCEPT !.f.block = Append(@, Map([i \in DOMAIN old |-> i],
                                                     LAMBDA i : Len(s.f.def) + i))],
                  Sequence(<<Basic(Len(s.f.block) + 1), terminator>>))

\* duplicate_trap_block: a copy of block b under fresh names, and the
\* terminator with them.
DuplicateBlock(s, b, terminator) ==
    LET old == s.f.block[b]
        fresh(v) == IF v \in ToSet(old)
                    THEN Len(s.f.def) + (CHOOSE i \in DOMAIN old : old[i] = v) ELSE v
    IN  Rewritten([s EXCEPT
                      !.f.def = @ \o Map(old, LAMBDA v : s.f.def[v]),
                      !.f.block = Append(@, Map(old, fresh))],
                  Sequence(<<Basic(Len(s.f.block) + 1),
                             [terminator EXCEPT !.reads = Map(@, fresh)]>>))

\* substitute_breaks: each Break to b gives way to the trap it leads to; the
\* first gets the block itself and the others copies, unless it is empty.
\* `first` is the count of rewrites before the first.
RECURSIVE Substitute(_, _, _, _)
Substitute(b, terminator, first, s) ==
    LET t == OnParts(LAMBDA q : Substitute(b, terminator, first, q), s)
    IN  IF s.r.kind # "break" \/ s.r.label # b THEN Kept(t, Canonical(t.r))
        ELSE IF s.f.block[b] = <<>> THEN Rewritten(s, terminator)
        ELSE IF s.n = first THEN Rewritten(s, Sequence(<<Basic(b), terminator>>))
        ELSE DuplicateBlock(s, b, terminator)

\* Every Break to b carries nothing.
BreaksBare(b, r) ==
    \A n \in ToSet(Nodes(r)) : n.kind = "break" /\ n.label = b => n.transfer = <<>>

\* rewrite_tail: a scope, its merge block and a trap or return at the end of
\* a sequence; the scope dissolves.
RewriteTail(s) ==
    LET items == s.r.parts
        n == Len(items)
        scope == items[n - 2]
        b == scope.label
        body == Substitute(b, items[n], s.n, Kept(s, scope.parts[1]))
    IN  IF /\ n >= 3
           /\ items[n].kind \in {"unreachable", "return"}
           /\ scope.kind = "scope" /\ items[n - 1] = Basic(b)
           /\ BreaksBare(b, scope.parts[1])
           /\ CanDuplicate(s.f, b)
        THEN Kept(body, Sequence(Append(SubSeq(items, 1, n - 3), body.r)))
        ELSE Kept(s, Sequence(items))

RECURSIVE InlineTraps(_)
InlineTraps(s) ==
    LET t == OnParts(InlineTraps, s)
    IN  IF t.r.kind = "sequence" THEN RewriteTail(t) ELSE t

TrapInline(p) == OnFunctions(p, LAMBDA f : Refined(f, InlineTraps))

-----------------------------------------------------------------------------
(* trap_call.rs *)

CallsTrap(f, traps, v) == f.def[v].op = "invoke" /\ f.def[v].n \in traps

\* always_traps.  A sequence traps if any item does: an item before it that
\* leaves some other way is not looked for.
RECURSIVE AlwaysTraps(_, _, _)
AlwaysTraps(f, traps, r) ==
    CASE r.kind = "unreachable" -> TRUE
      [] r.kind = "basic" -> \E v \in ToSet(f.block[r.label]) : CallsTrap(f, traps, v)
      [] r.kind = "sequence" -> \E q \in ToSet(r.parts) : AlwaysTraps(f, traps, q)
      [] r.kind = "scope" -> AlwaysTraps(f, traps, r.parts[1])
      [] r.kind = "if" -> Len(r.parts) = 2 /\ \A q \in ToSet(r.parts) : AlwaysTraps(f, traps, q)
      [] r.kind = "switch" -> \A q \in ToSet(r.parts) : AlwaysTraps(f, traps, q)
      [] OTHER -> FALSE

\* body_is_only_trap_calls: nothing any block schedules can be observed.
OnlyTrapCalls(f, traps) ==
    \A b \in BlocksOf(f) : \A v \in ToSet(f.block[b]) :
        IF f.def[v].op = "invoke" THEN f.def[v].n \in traps ELSE PureBinding(f, v)

\* pure_traps: the helpers that do nothing but die.
PureTraps(p) ==
    Iterate(LAMBDA traps :
                traps \cup {k \in DOMAIN p :
                    /\ ~p[k].exported
                    /\ OnlyTrapCalls(p[k], traps)
                    /\ AlwaysTraps(p[k], traps, p[k].region)},
            {}, Len(p))

\* `inline`: a block of nothing but calls of such helpers becomes the trap,
\* and of consecutive traps one is kept.
RECURSIVE InlineTrapCalls(_, _)
InlineTrapCalls(traps, s) ==
    LET t == OnParts(LAMBDA q : InlineTrapCalls(traps, q), s)
        items == t.r.parts
        Doubled(i) == i > 1 /\ items[i].kind = "unreachable" /\ items[i - 1].kind = "unreachable"
        b == s.r.label
        calls == {v \in ToSet(s.f.block[b]) : CallsTrap(s.f, traps, v)}
    IN  IF s.r.kind = "sequence"
        THEN Kept(t, Sequence(Retain(items, {i \in DOMAIN items : ~Doubled(i)})))
        ELSE IF s.r.kind = "basic" /\ calls # {} /\ calls = ToSet(s.f.block[b])
        THEN Rewritten([s EXCEPT !.f.block[b] = <<>>], Region("unreachable", NoBlock, <<>>))
        ELSE t

\* Without such a helper nothing is touched.
TrapCallInline(p) ==
    LET traps == PureTraps(p)
        done == [k \in DOMAIN p |->
                    IF k \in traps THEN [f |-> p[k], n |-> 0]
                    ELSE Refined(p[k], LAMBDA s : InlineTrapCalls(traps, s))]
    IN  IF traps = {} THEN [ir |-> p, changed |-> FALSE]
        ELSE [ir |-> [k \in DOMAIN p |-> done[k].f],
              changed |-> \E k \in DOMAIN p : done[k].n > 0]

-----------------------------------------------------------------------------
(* switch_dedup.rs *)

SameAsDefault(r, i) == r.parts[i] = Last(r.parts)

\* dedup: the arms that do what the default does go.
RECURSIVE Dedup(_)
Dedup(s) ==
    LET t == OnParts(Dedup, s)
        stay == {i \in DOMAIN t.r.cases : ~SameAsDefault(t.r, i)}
    IN  IF t.r.kind = "switch" /\ stay # DOMAIN t.r.cases
        THEN Rewritten(t, [t.r EXCEPT !.cases = Retain(@, stay),
                                      !.parts = Append(Retain(Front(@), stay), Last(@))])
        ELSE t

SwitchDedup(p) == OnFunctions(p, LAMBDA f : Refined(f, Dedup))

-----------------------------------------------------------------------------
(* and_merge.rs *)

\* The block between the two tests runs whatever the first one says, merged.
CanMergeAt(f, b) == PureBlock(f, b)

\* is_boolean
IsComparison(f, v) == f.def[v].op \in {"eq", "ne"}

\* try_merge_diamond: `if a { M; if b { X } else { Y } } else { Y }` becomes
\* `M; if a && b { X } else { Y }`.
MergeDiamond(s) ==
    LET r == s.r
        items == r.parts[1].parts
        inner == items[2]
        b == items[1].label
        both == Len(s.f.def) + 1
        and == Expr("and", <<r.reads[1], inner.reads[1]>>)
    IN  IF /\ r.kind = "if" /\ Len(r.parts) = 2
           /\ r.parts[1].kind = "sequence" /\ Len(items) = 2
           /\ items[1].kind = "basic"
           /\ inner.kind = "if" /\ Len(inner.parts) = 2
           /\ inner.parts[2] = r.parts[2]
           /\ CanMergeAt(s.f, b)
           /\ IsComparison(s.f, r.reads[1]) /\ IsComparison(s.f, inner.reads[1])
        THEN Rewritten([s EXCEPT !.f.def = Append(@, and),
                                 !.f.block[b] = Append(@, both)],
                       Sequence(<<Basic(b), [inner EXCEPT !.reads = <<both>>]>>))
        ELSE Kept(s, Canonical(r))

RECURSIVE MergeDiamonds(_)
MergeDiamonds(s) == MergeDiamond(OnParts(MergeDiamonds, s))

AndMerge(p) == OnFunctions(p, LAMBDA f : Refined(f, MergeDiamonds))
=============================================================================
