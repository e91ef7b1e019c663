----------------------------- MODULE TypeInfer -----------------------------
(***************************************************************************)
(* Type inference (sordec-passes, type_infer.rs): a fixpoint inside every  *)
(* function, inside a fixpoint over the module's signature table, settled  *)
(* twice, first without and then with what the host's catalog says of its  *)
(* operands.  The evidence about a value and its uses is in Types, the     *)
(* table in Signatures.                                                    *)
(***************************************************************************)
EXTENDS Signatures

CONSTANTS
    Programs,           \* the modules looked at
    MaxRounds,          \* MAX_ROUNDS
    MaxModuleRounds     \* MAX_MODULE_ROUNDS

ASSUME TypeInferAssumption == {MaxRounds, MaxModuleRounds} \subseteq Nat \ {0}

VARIABLES
    ir,          \* the module, a sequence of functions
    typed,       \* binding.ty, per function and value
    sigs,        \* the signature table
    catalog,     \* whether the catalog speaks: the second settling
    round,       \* round_index
    moved,       \* whether this module round changed anything
    pc,          \* "enter", "propagate", "write", "table" or "done"
    at,          \* the function being inferred
    found,       \* its types so far, and the values whose evidence conflicted
    inner        \* the rounds it took

vars == <<ir, typed, sigs, catalog, round, moved, pc, at, found, inner>>

func == ir[at]

-----------------------------------------------------------------------------
(* Evidence is heard in order, and what is heard later sees what came of    *)
(* what was heard before.  An offer is a value with a type.                 *)

\* improve, on [types, conflicted, moved].
Improve(e, offer) ==
    LET v == offer[1]
        now == Improved(e.types[v], offer[2])
    IN  IF v \in e.conflicted \/ now = e.types[v] THEN e
        ELSE [types |-> [e.types EXCEPT ![v] = now],
              conflicted |-> e.conflicted \cup (IF now = Unknown THEN {v} ELSE {}),
              moved |-> TRUE]

\* The offers that each of the sources makes in its turn.
Hear(e, sources, Offers(_, _)) ==
    FoldLeft(LAMBDA x, s : FoldLeft(Improve, x, Offers(x, s)), e, sources)

Order == [v \in Values(func) |-> v]

\* The values one by one against as many types; the longer list is cut.
Paired(values, Type(_), types) ==
    [i \in 1 .. IF Len(values) < Len(types) THEN Len(values) ELSE Len(types) |->
        <<values[i], IF types[i] \in Bases THEN Type(types[i]) ELSE Unknown>>]

\* seed_abi
Abi(e, spec) ==
    Paired(func.params, Known, spec.inputs) \o
    FlattenSeq(Map(func.returns, LAMBDA site : Paired(site, Inferred, spec.outputs)))

\* seed_returned_merges: the copy a return encode collapsed onto names the
\* merge it reads, while nothing else has.
ReturnedMerge(e, v) ==
    LET ty == typed[at][v]
        source == func.def[v].args[1]
    IN  IF /\ func.spec # {} /\ Is(func, v, "use") /\ ty.rank = 2 /\ ty.base \in Words
           /\ Is(func, source, "phi") /\ e.types[source] = Unknown
        THEN <<<<source, ty>>>> ELSE <<>>

\* seed_params
Callers(e, sig) == Paired(func.params, Inferred, sig.params)

\* seed_tests
Test(e, v) == IF Is(func, v, "equal") THEN <<<<v, Inferred("bool")>>>> ELSE <<>>

\* infer_function up to its rounds: a snapshot, and the seeds.
Seeded ==
    LET fresh == [types |-> typed[at], conflicted |-> {}, moved |-> FALSE]
        abi == Hear(fresh, SetToSeq(func.spec), Abi)
        merges == Hear(abi, Order, ReturnedMerge)
    IN  Hear(Hear(merges, <<sigs[at]>>, Callers), Order, Test)

\* Until one round has run, no parameter has been read from its callers.
AwaitingCallers == ~catalog /\ round = 0

OwnExpression(e, v) ==
    <<<<v, Forward(func, v, func.def[v], e.types,
                   Awaiting(func, e.types, sigs, catalog), AwaitingCallers)>>,
      <<v, CallResult(func, v, sigs)>>>>

\* Faulty: whatever nothing reads is passed over, also what has an effect.
Uses_Fault(e, v) ==
    IF v \in func.read
    THEN Backward(func, v, func.def[v], e.types, Awaiting(func, e.types, sigs, catalog), catalog)
    ELSE <<>>

Uses(e, v) ==
    Backward(func, v, func.def[v], e.types, Awaiting(func, e.types, sigs, catalog), catalog)

\* backward_calls
Arguments ==
    FlattenSeq([v \in Values(func) |->
        IF Is(func, v, "call") THEN [i \in DOMAIN func.def[v].args |-> <<v, i>>] ELSE <<>>])

Argument(e, a) == ArgumentType(func, a[1], a[2], e.types, sigs)

\* backward_returns
ReturnSite(e, site) == Paired(site, Inferred, sigs[at].returns)

\* One round of infer_function.
Propagated(e) ==
    LET fresh == [e EXCEPT !.moved = FALSE]
        forward == Hear(fresh, Order, OwnExpression)
        backward == Hear(forward, Order, Uses)
        calls == Hear(backward, Arguments, Argument)
    IN  Hear(calls, SitesOf(func), ReturnSite)

-----------------------------------------------------------------------------
(* The pass *)

TypeOK ==
    /\ \A f \in DOMAIN ir : typed[f] \in [Values(ir[f]) -> IrTypes]
    /\ \A f \in DOMAIN ir :
          /\ sigs[f].params \in [DOMAIN ir[f].params -> Slots]
          /\ \A i \in DOMAIN sigs[f].returns : sigs[f].returns[i] \in Slots
          /\ sigs[f].declared \in {Unknown} \cup {Known(b) : b \in Bases}
    /\ catalog \in BOOLEAN /\ moved \in BOOLEAN
    /\ round \in 0 .. MaxModuleRounds - 1
    /\ pc \in {"enter", "propagate", "write", "table", "done"}
    /\ at \in DOMAIN ir
    /\ found.conflicted \subseteq Values(func)
    /\ found.types \in [Values(func) -> IrTypes]
    /\ inner \in 0 .. MaxRounds

Init ==
    /\ ir \in Programs
    /\ typed = [f \in DOMAIN ir |-> ir[f].start]
    /\ sigs = SeedSignatures(ir)
    /\ catalog = FALSE
    /\ round = 0
    /\ moved = FALSE
    /\ pc = "enter"
    /\ at = 1
    /\ found = [types |-> ir[1].start, conflicted |-> {}, moved |-> FALSE]
    /\ inner = 0

Enter ==
    /\ pc = "enter"
    /\ found' = Seeded
    /\ inner' = 0
    /\ pc' = "propagate"
    /\ UNCHANGED <<ir, typed, sigs, catalog, round, moved, at>>

Propagate ==
    /\ pc = "propagate"
    /\ LET e == Propagated(found)
       IN  /\ found' = e
           /\ pc' = IF e.moved /\ inner + 1 < MaxRounds THEN "propagate" ELSE "write"
    /\ inner' = inner + 1
    /\ UNCHANGED <<ir, typed, sigs, catalog, round, moved, at>>

\* What the rounds found goes into the IR, and the next function is entered.
Write ==
    /\ pc = "write"
    /\ LET now == [v \in Values(func) |-> Written(typed[at][v], found.types[v])]
       IN  /\ typed' = [typed EXCEPT ![at] = now]
           /\ moved' = (moved \/ now # typed[at])
    /\ IF at < Len(ir)
       THEN /\ pc' = "enter" /\ at' = at + 1
            /\ found' = [types |-> typed[at + 1], conflicted |-> {}, moved |-> FALSE]
       ELSE pc' = "table" /\ UNCHANGED <<at, found>>
    /\ inner' = 0
    /\ UNCHANGED <<ir, sigs, catalog, round>>

\* The table is made anew.  A settling ends with a round that changed
\* nothing, or after MaxModuleRounds.
Recompute ==
    /\ pc = "table"
    /\ sigs' = Recomputed(ir, typed, SeedSignatures(ir), ~catalog)
    /\ LET again == (moved \/ sigs' # sigs) /\ round + 1 < MaxModuleRounds
       IN  IF ~again /\ catalog
           THEN /\ pc' = "done"
                /\ moved' = (moved \/ sigs' # sigs)
                /\ UNCHANGED <<catalog, round, at, found>>
           ELSE /\ pc' = "enter" /\ at' = 1
                /\ found' = [types |-> typed[1], conflicted |-> {}, moved |-> FALSE]
                /\ moved' = FALSE
                /\ catalog' = (catalog \/ ~again)
                /\ round' = IF again THEN round + 1 ELSE 0
    /\ UNCHANGED <<ir, typed, inner>>

Done == pc = "done" /\ UNCHANGED vars

Next == Enter \/ Propagate \/ Write \/ Recompute \/ Done

Spec == Init /\ [][Next]_vars

-----------------------------------------------------------------------------
(* What is promised, judged against a reading of the module that has no     *)
(* rounds, no order and no ranks.  Values that are one value to the program  *)
(* (a copy and what it copies, a merge and its arms, an argument and the     *)
(* parameter it becomes, a result and what the callee returns, the sides of  *)
(* a comparison) form a class, and the declarations and the host's ABI say   *)
(* what a class is.                                                          *)

Sites(p) == UNION {{<<f, v>> : v \in Values(p[f])} : f \in DOMAIN p}

Literal(p, s) == Is(p[s[1]], s[2], "literal")

\* What the sites of g return as their i-th component.
Returned(g, i) == {site[i] : site \in {x \in ToSet(SitesOf(g)) : i <= Len(x)}}

\* The pairs that are one value by the expression of s.
Ties(p, s) ==
    LET f == s[1]
        d == p[f].def[s[2]]
        With(g, us) == {{s, <<g, u>>} : u \in us}
    IN  CASE d.op \in {"use", "phi", "push", "add"} -> With(f, ToSet(d.args))
          [] d.op = "equal" -> {{<<f, d.args[1]>>, <<f, d.args[2]>>}}
          [] d.op = "part" ->
                UNION {With(p[f].def[c].n, Returned(p[p[f].def[c].n], d.n)) :
                          c \in CallOf(p[f], d.args[1])}
          [] d.op = "call" ->
                {{<<f, d.args[i]>>, <<d.n, p[d.n].params[i]>>} : i \in DOMAIN d.args} \cup
                (IF ReturnArity(p[d.n]) = 1 THEN With(d.n, Returned(p[d.n], 1)) ELSE {})
          [] OTHER -> {}

Classes(p) ==
    LET variables == {s \in Sites(p) : ~Literal(p, s)}
        ties == {t \cap variables : t \in UNION {Ties(p, s) : s \in variables}}
        Tie(t, classes) ==
            {UNION {c \in classes : c \cap t # {}}} \cup {c \in classes : c \cap t = {}}
    IN  FoldSet(Tie, {{s} : s \in variables}, ties \ {{}})

\* A constant that waits for a call's result speaks for nothing: it is added
\* to the result, or a counter compared with the result starts at it.
CountsToResult(f, v) == \E u \in f.counter[v].partners : Component(f, u) # {}

Deferred(p, s) ==
    LET f == p[s[1]]
        v == s[2]
    IN  \/ CountsToResult(f, v)
        \/ /\ Is(f, v, "add")
           /\ \E u \in BesideLiteral(f, v) : Component(f, u) # {} \/ CountsToResult(f, u)

\* The values that the constants vote on.
BesideConstants(p) ==
    UNION {t \in UNION {Ties(p, s) : s \in {x \in Sites(p) : ~Deferred(p, x)}} :
              \E s \in t : Literal(p, s)}

\* What the host and the declarations name a value of f, as <<value, type>>.
Named(f) ==
    UNION {ToSet(Pinned(f.def[v])) : v \in Values(f)} \cup
    {<<v, f.start[v]>> : v \in {u \in Values(f) : f.start[u].rank = 2}} \cup
    {<<f.def[v].args[IF Is(f, v, "verify") THEN 2 ELSE 1], Known("bytes")>> :
        v \in {u \in Values(f) : f.def[u].op \in {"verify", "hash", "length"}}} \cup
    UNION {{<<f.params[i], Known(x.inputs[i])>> : i \in DOMAIN x.inputs} \cup
           UNION {{<<site[i], Known(x.outputs[i])>> : i \in DOMAIN x.outputs} :
                     site \in ToSet(SitesOf(f))} : x \in f.spec}

\* What is said of a class.  Val says nothing, and Vec<?> nothing beside a
\* vector whose element is named.
Said(p, class) ==
    LET says == UNION {{n[2].base : n \in {m \in Named(p[s[1]]) : m[1] = s[2]}} : s \in class}
    IN  says \ ({"val"} \cup (IF "vecOf" \in says THEN {"vec"} ELSE {}))

\* The classes without constants of which one thing is said.
Truth == [p \in Programs |->
    {[sites |-> c, says |-> Said(p, c)] :
        c \in {x \in Classes(p) : /\ x \cap BesideConstants(p) = {}
                                  /\ Cardinality(Said(p, x)) = 1}}]

TypeOf(s) == typed[s[1]][s[2]].base

-----------------------------------------------------------------------------

\* No value is typed as something else than what everything that names its
\* class says, after any function in any round: what comes through calls in
\* either direction, by position and component, and the constants that are
\* read before the callee they stand beside is typed, plant no other type.
Sound ==
    pc \in {"enter", "done"} =>
        \A c \in Truth[ir] : \A s \in c.sites :
            TypeOf(s) \in {Nothing, "val", "vec"} \cup c.says

\* Untyped values say nothing, and neither a merge nor a copy of an object
\* says what it was made of.
Opaque(s) == Is(ir[s[1]], s[2], "host") /\ ir[s[1]].start[s[2]] = Unknown

Directed(c) ==
    \/ \A s \in c.sites : ~Opaque(s)
    \/ \A s \in c.sites : ir[s[1]].def[s[2]].op \notin {"use", "phi"}

\* In the end the one thing said of a class has reached all its values, in
\* whatever function they are: across calls, results and components, past
\* the waits, which all have to end.
Resolved ==
    pc = "done" =>
        \A c \in Truth[ir] :
            /\ Directed(c)
            /\ \A s \in c.sites : ir[s[1]].start[s[2]] \notin {Known("val"), Known("vec")}
            => \A s \in c.sites : TypeOf(s) \in c.says

\* What separate callers hand a parameter is joined in the order the calls
\* come in, and any other order of them gives the same slot - unless two
\* widths of bytes are handed over.
CallersInAnyOrder ==
    pc = "table" =>
        \A g \in DOMAIN ir : Helper(ir, g) =>
            LET calls == CallsTo(ir, g)
                Widths(i) ==
                    {a.base : a \in ToSet(ArgumentsFor(ir, typed, calls, i))} \cap FixedBytes
            IN  (\A i \in DOMAIN ir[g].params : Cardinality(Widths(i)) < 2) =>
                    \A order \in Permutations(DOMAIN calls) :
                        ParamSlots(ir, typed, g, [k \in DOMAIN calls |-> calls[order[k]]], ~catalog)
                            = ParamSlots(ir, typed, g, calls, ~catalog)
=============================================================================
