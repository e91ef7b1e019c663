----------------------------- MODULE Signatures -----------------------------
(***************************************************************************)
(* The inter-procedural signature table of type inference (sordec-passes,  *)
(* type_infer.rs): per function [params, returns, declared], the slot of   *)
(* every parameter and returned component, and the proven type of what a   *)
(* helper hands back.  It is made anew from the types in the IR, typed[f], *)
(* by joining everything that witnesses a slot.                            *)
(***************************************************************************)
EXTENDS Types

Helper(ir, f) == ir[f].spec = {}

\* seed_signatures: the declared types, and nothing elsewhere.
SeedSignatures(ir) ==
    LET Declared(types, n) ==
            [i \in 1 .. n |-> IF i \in DOMAIN types THEN types[i] ELSE Nothing]
        Spec(f) == IF Helper(ir, f) THEN [inputs |-> <<>>, outputs |-> <<>>]
                   ELSE CHOOSE s \in ir[f].spec : TRUE
    IN  [f \in DOMAIN ir |->
            [params |-> Declared(Spec(f).inputs, Len(ir[f].params)),
             returns |-> Declared(Spec(f).outputs, ReturnArity(ir[f])),
             declared |-> Unknown]]

\* declared_return, of the sites that return more than constants.
DeclaredReturn(types, sites) ==
    IF sites # <<>> /\ Len(sites[1]) = 1 /\ types[sites[1][1]].rank = 2
    THEN types[sites[1][1]] ELSE Unknown

\* The calls to g in the module, in order, as <<caller, value>>.
CallsTo(ir, g) ==
    FlattenSeq([f \in DOMAIN ir |->
        Map(SelectSeq([v \in Values(ir[f]) |-> v],
                      LAMBDA v : Is(ir[f], v, "call") /\ ir[f].def[v].n = g),
            LAMBDA v : <<f, v>>)])

\* result_uses: what the callers take the i-th component of g's result for.
UsesOf(f, call, arity, i) ==
    IF arity = 1 THEN <<call>>
    ELSE SelectSeq([v \in Values(f) |-> v],
                   LAMBDA v : Is(f, v, "part") /\ f.def[v].args[1] = call /\ f.def[v].n = i)

ResultUses(ir, typed, g, i) ==
    FlattenSeq(Map(CallsTo(ir, g), LAMBDA c :
        BasesOf(UsesOf(ir[c[1]], c[2], ReturnArity(ir[g]), i), typed[c[1]])))

\* The constants vote last, unless a call is yet to be typed and nothing
\* else has spoken.
Voted(slot, constants, pending) ==
    IF ConstantsAgree(slot, constants) \/ (pending /\ slot = Nothing) THEN slot
    ELSE JoinAll(Map(constants, LAMBDA c : c.word), slot, FALSE)

ReturnVote(f, values, types) ==
    Voted(JoinAll(BasesOf(Computed(f, values), types), Nothing, FALSE),
          Constants(f, values, types),
          \E v \in ToSet(values) : types[v].base = Nothing /\ Is(f, Root(f, v), "call"))

\* The i-th return slot of helper g: its sites, then its callers.
ReturnSlot(ir, typed, g, i) ==
    JoinAll(ResultUses(ir, typed, g, i),
            ReturnVote(ir[g], Map(SitesOf(ir[g]), LAMBDA site : site[i]), typed[g]),
            FALSE)

\* What callers that disagree pass is a Val, if one of them can pass nothing
\* else.  With `wait`, a slot does not agree while a call's result that is
\* handed on is untyped.
ParamSettled(slot, valOnly, waits) ==
    CASE slot = Conflict /\ valOnly -> IF waits THEN Nothing ELSE "val"
      [] slot \in Bases /\ waits -> Nothing
      [] OTHER -> slot

\* The arguments, as [base, constant, n, fromCall].
ArgumentOf(f, types, v) ==
    [base |-> types[v].base, constant |-> Is(f, v, "literal"),
     n |-> f.def[v].n, fromCall |-> FromCall(f, v)]

ArgumentsFor(ir, typed, calls, i) ==
    Map(SelectSeq(calls, LAMBDA c : i \in DOMAIN ir[c[1]].def[c[2]].args),
        LAMBDA c : ArgumentOf(ir[c[1]], typed[c[1]], ir[c[1]].def[c[2]].args[i]))

\* A parameter slot: what the callers pass, then what the helper's own body
\* proved, then the constants.
ParamSlot(own, args, wait) ==
    ParamSettled(
        Voted(JoinOwn(own, JoinAll(Map(SelectSeq(args, LAMBDA a : ~a.constant), LAMBDA a : a.base),
                                   Nothing, TRUE)),
              Map(SelectSeq(args, LAMBDA a : a.constant), LAMBDA a : [n |-> a.n, word |-> a.base]),
              FALSE),
        \E a \in ToSet(args) : a.base \in Objects,
        wait /\ \E a \in ToSet(args) : a.base = Nothing /\ a.fromCall)

ParamSlots(ir, typed, g, calls, wait) ==
    [i \in DOMAIN ir[g].params |->
        ParamSlot(typed[g][ir[g].params[i]].base, ArgumentsFor(ir, typed, calls, i), wait)]

\* recompute_signatures
Recomputed(ir, typed, seed, wait) ==
    [g \in DOMAIN ir |->
        IF ~Helper(ir, g) THEN seed[g]
        ELSE [params |-> ParamSlots(ir, typed, g, CallsTo(ir, g), wait),
              returns |-> [i \in DOMAIN seed[g].returns |-> ReturnSlot(ir, typed, g, i)],
              declared |-> IF seed[g].returns = <<>> THEN Unknown
                           ELSE DeclaredReturn(typed[g], SelectSeq(ir[g].returns, LAMBDA site :
                                    Computed(ir[g], site) # <<>>))]]
=============================================================================
