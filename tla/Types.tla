------------------------------- MODULE Types --------------------------------
(***************************************************************************)
(* The certainty lattice of type inference (sordec-passes, type_infer.rs). *)
(*                                                                         *)
(* The type of a binding is [rank, base]: nothing is said of it (0), it is *)
(* inferred (1), or known (2) to be `base`.  A signature slot is the base  *)
(* its witnesses agree on, Nothing while there is none, or Conflict.  The  *)
(* bases stand for the cases the rules tell apart: the machine words, the  *)
(* Val every object travels as, the byte strings, which a call may widen,  *)
(* and the vectors, whose element may be unnamed ("vec" is Vec<?>, "vecOf" *)
(* names its element; options, maps and tuples behave as they do).         *)
(*                                                                         *)
(* A function, as the rules read it, is [spec, params, def, start, returns, *)
(* tests]: the declared signature, a set of at most one [inputs, outputs]; *)
(* the parameters; the expression and the type each value comes with; the  *)
(* value lists of the return sites; and the values its regions test.  An   *)
(* expression is [op, args, n, as]: n is a constant's value, a call's target *)
(* or a component's index, `as` the type an encode names.                  *)
(*                                                                         *)
(* "host" is a recognized host call without typed operands, "auth" asks    *)
(* for an Address, "encode" wraps a scalar, "verify" takes a key, a        *)
(* message and a signature, "hash" and "length" are the crypto and buffer  *)
(* calls the host's catalog types, and "push" is a vector operation that   *)
(* hands its receiver back.                                                *)
(***************************************************************************)
EXTENDS Integers, FiniteSets, Iteration

CONSTANTS
    UseDepth,      \* DEFAULT_USE_DEPTH
    AwaitDepth     \* AWAIT_DEPTH

ASSUME TypeRulesAssumption == {UseDepth, AwaitDepth} \subseteq Nat \ {0}

-----------------------------------------------------------------------------
(* The lattice *)

Words == {"i32", "i64", "u32", "u64"}

FixedBytes == {"bytes32", "bytes64"}

\* crosses_only_as_val
Objects == {"address", "bytes", "vec", "vecOf"} \cup FixedBytes

Bases == Words \cup Objects \cup {"bool", "val"}

Nothing == "?"

Conflict == "conflict"

Slots == Bases \cup {Nothing, Conflict}

Unknown == [rank |-> 0, base |-> Nothing]
Inferred(b) == [rank |-> 1, base |-> b]
Known(b) == [rank |-> 2, base |-> b]

IrTypes == {Unknown} \cup {Inferred(b) : b \in Bases} \cup {Known(b) : b \in Bases}

\* Faulty: a slot whose witnesses disagree is applied as well.
ToIr_Fault(slot) == IF slot = Nothing THEN Unknown ELSE Inferred(slot)

\* The type a slot applies to a binding, if any (Slot::to_ir).
ToIr(slot) ==
    IF slot \in {Nothing, Conflict} THEN Unknown ELSE Inferred(slot)

-----------------------------------------------------------------------------
(* One value *)

\* Whether a type leaves its element unnamed.
Partial(b) == b = "vec"

\* merge_partial_with: what both say of one type, Nothing if they disagree.
Merge(a, b, vecs) ==
    IF a = b THEN a
    ELSE IF vecs /\ {a, b} = {"vec", "vecOf"} THEN "vecOf" ELSE Nothing

\* A named type says more of a Val.
RefinesVal(have, got) == have = "val" /\ got \notin {Nothing, "val"}

\* A vector's element gets its name.
RefinesElement(have, got) == have = "vec" /\ got = "vecOf"

\* The 32-bit word is signed only until something says it is not.
UnsignedWord(a, b) == {a, b} = {"i32", "u32"}

\* improve: the type `have` after the evidence `cand`.  Two types of one
\* rank that disagree leave nothing.
Improved(have, cand) ==
    IF cand.rank > have.rank THEN cand
    ELSE IF RefinesElement(have.base, cand.base) THEN [have EXCEPT !.base = cand.base]
    ELSE IF RefinesVal(have.base, cand.base) THEN cand
    ELSE IF \/ RefinesVal(cand.base, have.base) \/ RefinesElement(cand.base, have.base)
            \/ cand.rank # have.rank \/ cand.base = have.base THEN have
    ELSE IF UnsignedWord(have.base, cand.base) THEN [have EXCEPT !.base = "u32"]
    ELSE Unknown

\* What a settled candidate leaves in the IR (the end of infer_function).
Written(have, cand) ==
    IF cand.rank > have.rank \/ RefinesVal(have.base, cand.base) THEN cand
    ELSE IF RefinesElement(have.base, cand.base)
         THEN [have EXCEPT !.base = cand.base]
         ELSE have

\* numeric_base
NumericBase(a, b) ==
    IF UnsignedWord(a, b) THEN "u32"
    ELSE IF a \in Words THEN a
    ELSE IF b \in Words THEN b ELSE Nothing

-----------------------------------------------------------------------------
(* Several witnesses *)

\* A call widens bytes of a fixed length.
Widened(a, b, callers) ==
    callers /\ "bytes" \in {a, b} /\ {a, b} \cap FixedBytes # {}

\* Faulty: witnesses that disagree are forgotten when another speaks.
Join_Fault(a, b, callers) ==
    IF Widened(a, b, callers) THEN "bytes"
    ELSE IF a \in {Nothing, Conflict} \/ (a = "val" /\ b \in Bases) THEN b
    ELSE IF b \in {Nothing, Conflict, "val"} THEN a
    ELSE IF Merge(a, b, ~callers) = Nothing THEN Conflict
    ELSE Merge(a, b, ~callers)

\* Slot::join_with, the values of one variable or those of several callers.
Join(a, b, callers) ==
    IF Widened(a, b, callers) THEN "bytes"
    ELSE IF Conflict \in {a, b} THEN Conflict
    ELSE IF a = Nothing \/ (a = "val" /\ b # Nothing) THEN b
    ELSE IF b \in {Nothing, "val"} THEN a
    ELSE IF Merge(a, b, ~callers) = Nothing THEN Conflict
    ELSE Merge(a, b, ~callers)

JoinAll(slots, start, callers) ==
    FoldLeft(LAMBDA a, b : Join(a, b, callers), start, slots)

\* join_own: the parameter is one variable, its callers agreed.
JoinOwn(own, callers) ==
    LET vecs == {"vec", "vecOf"}
    IN  Join(own, callers, ~({own, callers} \subseteq vecs))

\* fits_constant: whether the constant n, loaded as a `word`, may be a `b`.
Fits(b, n, word) ==
    CASE b \in {"i32", "i64"} -> TRUE
      [] b \in {"u32", "u64"} -> n >= 0
      [] b = "bool" -> n \in {0, 1} /\ word \in {"i32", "u32", Nothing}
      [] OTHER -> FALSE

\* The constants vote last: they agree with what the others settled on when
\* they fit it, and else count as the words they were loaded as.
ConstantsAgree(slot, constants) ==
    /\ slot \notin {Nothing, Conflict}
    /\ \A i \in DOMAIN constants : Fits(slot, constants[i].n, constants[i].word)

-----------------------------------------------------------------------------
(* What is read off one function *)

Values(f) == DOMAIN f.def

Is(f, v, op) == f.def[v].op = op

Arithmetic == {"add", "mask"}

\* What a binding that nothing reads may be and still speak (is_pure_total).
Pure == {"param", "literal", "use", "phi", "part", "equal", "encode"} \cup Arithmetic

\* The common length of the sites that return something, or 0.
SiteLength(lengths) ==
    IF Cardinality(lengths \ {0}) = 1 THEN CHOOSE n \in lengths \ {0} : TRUE ELSE 0

\* return_arity
ReturnArity(f) == SiteLength({Len(f.returns[i]) : i \in DOMAIN f.returns})

SitesOf(f) == SelectSeq(f.returns, LAMBDA site : Len(site) = ReturnArity(f))

-----------------------------------------------------------------------------
(* The shape of a function does not change, and is read once: what copies  *)
(* stand for, what is read, what loops count.                              *)

\* resolve_use
RootOf(f, v) ==
    Iterate(LAMBDA u : IF Is(f, u, "use") THEN f.def[u].args[1] ELSE u, v, UseDepth)

\* HighUseIndex, as far as whether a value is read.
ReadIn(f) ==
    UNION {ToSet(f.def[u].args) : u \in Values(f)} \cup
    UNION {ToSet(f.returns[i]) : i \in DOMAIN f.returns} \cup f.tests

\* The operands of v, through copies.
Sides(f, root, v) == Map(f.def[v].args, LAMBDA u : root[u])

\* The values phi is compared with.
PartnersOf(f, root, phi) ==
    UNION {IF Sides(f, root, e)[1] = phi THEN {Sides(f, root, e)[2]}
           ELSE {p \in {Sides(f, root, e)[1]} : Sides(f, root, e)[2] = phi} :
           e \in {v \in Values(f) : Is(f, v, "equal")}}

\* The constants by which the sum v steps phi.
Increments(f, root, phi, v) ==
    LET sides == Sides(f, root, v)
    IN  {f.def[sides[3 - i]] : i \in
            {i \in 1 .. 2 : /\ sides[i] = phi /\ Is(f, sides[3 - i], "literal")
                           /\ f.def[sides[3 - i]].n > 0}}

\* counter_of, on the constants a merge starts from and the increments of
\* its other arms.
Counter(partners, starts, increments) ==
    LET counts == /\ starts # {} /\ partners # {} /\ {} \notin increments
                  /\ \A c \in starts : c.n >= 0
    IN  [partners |-> IF counts THEN partners ELSE {},
         wide |-> \A c \in starts \cup UNION increments : c.as \in {"i64", "u64"}]

CounterOf(f, root, phi, arms) ==
    Counter(PartnersOf(f, root, phi),
            {f.def[u] : u \in {u \in arms : Is(f, u, "literal")}},
            {IF Is(f, u, "add") THEN Increments(f, root, phi, u) ELSE {} :
                u \in {u \in arms : ~Is(f, u, "literal")}})

Indexed(f, root) ==
    [spec |-> f.spec, params |-> f.params, def |-> f.def, start |-> f.start,
     returns |-> f.returns, root |-> root, read |-> ReadIn(f),
     counter |-> [v \in Values(f) |->
        IF Is(f, v, "phi")
        THEN CounterOf(f, root, v, {root[u] : u \in ToSet(f.def[v].args)})
        ELSE [partners |-> {}, wide |-> FALSE]]]

\* A function as the rules read it.
Function(f) == Indexed(f, [v \in Values(f) |-> RootOf(f, v)])

Root(f, v) == f.root[v]

IsCounter(f, v) == f.counter[v].partners # {}

\* counter_bounded
CounterBound(counter, types) ==
    LET bounds == {types[p].base : p \in counter.partners}
    IN  IF "u32" \in bounds THEN "u32"
        ELSE IF counter.wide /\ "u64" \in bounds THEN "u64" ELSE Nothing

\* The call a value is the result of, through copies, if it is one.
CallOf(f, v) == {c \in {Root(f, v)} : Is(f, c, "call")}

\* The component of a call that v is, a set of at most one <<call, index>>.
Component(f, v) ==
    IF Is(f, v, "call") THEN {<<v, 1>>}
    ELSE IF Is(f, v, "part") THEN {<<c, f.def[v].n>> : c \in CallOf(f, f.def[v].args[1])}
    ELSE {}

\* from_call
FromCall(f, v) == Component(f, Root(f, v)) # {}

-----------------------------------------------------------------------------
(* Waiting for a callee *)

\* beside_literal: the operand a literal stands beside, if exactly one is.
BesideLiteral(f, v) ==
    {p[1] : p \in {q \in {<<Root(f, f.def[v].args[i]), Root(f, f.def[v].args[3 - i])>> : i \in 1 .. 2} :
                      ~Is(f, q[1], "literal") /\ Is(f, q[2], "literal")}}

\* The callee's return component has said nothing yet, or only the outside.
ReturnPending(sig, index, whole) ==
    /\ sig.declared.base = Nothing \/ Partial(sig.declared.base)
    /\ whole => Len(sig.returns) = 1
    /\ index \in DOMAIN sig.returns
    /\ sig.returns[index] = Nothing \/ Partial(sig.returns[index])

CallPending(f, v, sigs) ==
    \E c \in Component(f, v) : ReturnPending(sigs[f.def[c[1]].n], c[2], c[1] = v)

\* Whether v awaits what one of `found` awaits.
AwaitsOne(f, v, found) ==
    \/ f.def[v].op \in Arithmetic /\ BesideLiteral(f, v) \cap found # {}
    \/ f.counter[v].partners \cap found # {}

Open(f, types) ==
    {v \in Values(f) :
        ~Is(f, v, "use") /\ (types[v].base = Nothing \/ Partial(types[v].base))}

AwaitingIn(f, open, sigs) ==
    Iterate(LAMBDA found : {v \in open : CallPending(f, v, sigs) \/ AwaitsOne(f, v, found)},
            {}, AwaitDepth)

\* Faulty: nothing waits.
Awaiting_Fault(f, types, sigs, catalog) == {}

\* awaits_callee, as the set of values that do; none once the catalog speaks.
Awaiting(f, types, sigs, catalog) ==
    IF catalog THEN {} ELSE AwaitingIn(f, Open(f, types), sigs)

-----------------------------------------------------------------------------
(* A value from its own expression *)

\* phi_join: what the arms that have a type agree on.
PhiJoin(bases) ==
    FoldLeft(LAMBDA a, b : IF a = Nothing THEN b
                           ELSE IF b = Nothing THEN a
                           ELSE IF Merge(a, b, TRUE) = Nothing THEN Conflict
                           ELSE Merge(a, b, TRUE),
             Nothing, bases)

\* Once the arms conflict they stay so: no base merges with Conflict.
Decided(others, all, constants, waits) ==
    IF ConstantsAgree(others, constants) THEN others
    ELSE IF others \notin Bases /\ waits THEN Nothing ELSE all

Constants(f, values, types) ==
    Map(SelectSeq(values, LAMBDA v : Is(f, v, "literal")),
        LAMBDA v : [n |-> f.def[v].n, word |-> types[v].base])

Computed(f, values) == SelectSeq(values, LAMBDA v : ~Is(f, v, "literal"))

BasesOf(values, types) == Map(values, LAMBDA v : types[v].base)

\* phi_join_with_constants: the constants take the type of the other arms
\* where they fit it.  A parameter has no type before its callers are read.
MergeOf(f, arms, types, awaitingCallers) ==
    Decided(PhiJoin(BasesOf(Computed(f, arms), types)),
            PhiJoin(BasesOf(arms, types)),
            Constants(f, arms, types),
            /\ awaitingCallers /\ f.spec = {}
            /\ \E v \in ToSet(arms) : Is(f, v, "literal")
            /\ \E v \in ToSet(arms) : Root(f, v) \in ToSet(f.params))

\* Where the counter's partners or the merge's arms have spoken.
PhiType(bound, merge) ==
    IF bound # Nothing THEN Inferred(bound) ELSE ToIr(merge)

\* offset_of_known, or the numeric type of the operands: a literal takes
\* the type of the proven number it is added to.
SumType(f, op, args, types) ==
    LET proven == {i \in 1 .. 2 : /\ op = "add" /\ types[args[i]].rank = 2
                                  /\ types[args[i]].base \in Words
                                  /\ ~Is(f, Root(f, args[i]), "literal")
                                  /\ Is(f, Root(f, args[3 - i]), "literal")}
    IN  IF proven # {} THEN types[args[CHOOSE i \in proven : TRUE]]
        ELSE ToIr(NumericBase(types[args[1]].base, types[args[2]].base))

\* infer_expr and the rules infer_function puts before it.
Forward(f, v, d, types, awaiting, awaitingCallers) ==
    CASE d.op = "literal" -> Known(d.as)
      [] d.op = "use" -> types[d.args[1]]
      [] d.op = "equal" -> Inferred("bool")
      [] d.op \in Arithmetic /\ BesideLiteral(f, v) \cap awaiting = {} ->
            SumType(f, d.op, d.args, types)
      [] d.op = "phi" /\ f.counter[v].partners \cap awaiting = {} ->
            PhiType(CounterBound(f.counter[v], types), MergeOf(f, d.args, types, awaitingCallers))
      [] d.op = "push" /\ types[d.args[1]].base \in {"vec", "vecOf"} ->
            Inferred(types[d.args[1]].base)
      [] OTHER -> Unknown

\* infer_call_result: a lone result as the callee declares it, or the
\* component that is read.
ResultType(sig, index, whole) ==
    IF index \notin DOMAIN sig.returns \/ (whole /\ Len(sig.returns) # 1) THEN Unknown
    ELSE IF whole /\ sig.declared # Unknown THEN sig.declared
    ELSE ToIr(sig.returns[index])

CallResult(f, v, sigs) ==
    FoldSet(LAMBDA c, none : ResultType(sigs[f.def[c[1]].n], c[2], c[1] = v),
            Unknown, Component(f, v))

-----------------------------------------------------------------------------
(* A value from its uses *)

\* semantic_arg_types
Pinned(d) ==
    CASE d.op = "auth" -> <<<<d.args[1], Known("address")>>>>
      [] d.op = "encode" -> <<<<d.args[1], Known(d.as)>>>>
      [] d.op = "verify" -> <<<<d.args[1], Known("bytes32")>>, <<d.args[3], Known("bytes64")>>>>
      [] OTHER -> <<>>

\* catalog_object_args, with what backward asks of the operand: it is not one
\* the call pins.  A buffer call's operand keeps the name Val.
CatalogArgs(d, types) ==
    LET arg == IF d.op = "verify" THEN d.args[2] ELSE d.args[1]
        pinned == \E p \in ToSet(Pinned(d)) : p[1] = arg
        unnamed == types[arg].base \in {Nothing} \cup (IF d.op = "length" THEN {} ELSE {"val"})
    IN  IF d.op \in {"verify", "hash", "length"} /\ ~pinned /\ unnamed
        THEN <<<<arg, Known("bytes")>>>> ELSE <<>>

\* Whether a copy's type says more of what it copies.
CopyTells(base, source) ==
    /\ base \notin {Nothing, "val"}
    /\ \/ source = Nothing /\ base \in Words
       \/ source = "val"
       \/ RefinesElement(source, base)
       \/ UnsignedWord(source, base)

\* Each of the values is a b, where that is a type.
All(values, b) == Map(values, LAMBDA v : <<v, ToIr(b)>>)

\* A number is not forced onto a test.
Operands(d, types) ==
    IF d.op = "equal"
    THEN All(d.args, IF types[d.args[1]].base # Nothing
                     THEN types[d.args[1]].base ELSE types[d.args[2]].base)
    ELSE All(SelectSeq(d.args, LAMBDA u : types[u].base # "bool"),
             NumericBase(types[d.args[1]].base, types[d.args[2]].base))

\* backward, for one binding: what it says of its operands.
Backward(f, v, d, types, awaiting, catalog) ==
    IF v \notin f.read /\ d.op \in Pure THEN <<>>
    ELSE CASE d.op \in Arithmetic \cup {"equal"} ->
            IF BesideLiteral(f, v) \cap awaiting = {} THEN Operands(d, types) ELSE <<>>
      [] d.op = "use" ->
            IF CopyTells(types[v].base, types[d.args[1]].base)
            THEN All(d.args, types[v].base) ELSE <<>>
      [] d.op = "phi" ->
            All(SelectSeq(d.args, LAMBDA u : RefinesElement(types[u].base, types[v].base)),
                types[v].base)
      [] OTHER -> Pinned(d) \o (IF catalog THEN CatalogArgs(d, types) ELSE <<>>)

\* copy_of_another_type
CopyOfAnother(f, arg, want, types) ==
    LET source == types[Root(f, arg)].base
    IN  /\ Is(f, arg, "use")
        /\ source \in Objects /\ want \in Bases
        /\ Merge(source, want, TRUE) = Nothing

\* backward_calls, for the i-th argument of a call.
ArgumentType(f, call, i, types, sigs) ==
    LET arg == f.def[call].args[i]
        slot == sigs[f.def[call].n].params[i]
    IN  IF \/ slot = "bytes" /\ types[arg].base \in FixedBytes
           \/ CopyOfAnother(f, arg, slot, types)
        THEN <<>> ELSE <<<<arg, ToIr(slot)>>>>
=============================================================================
