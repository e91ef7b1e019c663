------------------------------- MODULE HighRun -------------------------------
(***************************************************************************)
(* What a HighIr does when it runs: the meaning sordec-ir's high/region.rs *)
(* gives each region and the emitter's Rust gives its text.  A scope is a  *)
(* labelled block; a loop is Rust's `loop`, which starts over when its     *)
(* body ends; an "if" may have no else.  A transfer assigns the merge's    *)
(* parameters all at once and then goes on, breaks or continues.           *)
(*                                                                         *)
(* A value is a sequence of words, so that a call may return several.      *)
(***************************************************************************)
EXTENDS HighIR

CONSTANTS
    MaxEvents,    \* host calls observed before the comparison stops
    MaxSteps,     \* turns of loops before a silent run counts as endless
    MaxCalls      \* how deep functions may call one another

Word(f, s, v) ==
    LET x == s.env[ResolveUse(f, v)] IN IF x = <<>> THEN Undefined ELSE x[1]

Words(f, s, vs) == Map(vs, LAMBDA v : Word(f, s, v))

\* A run goes on while nothing has sent it elsewhere.
GoingOn(s) == s.way = <<>>

Assign(f, s, transfer) ==
    LET assigned == {t[1] : t \in ToSet(transfer)}
        source(v) == transfer[Max({i \in DOMAIN transfer : transfer[i][1] = v})][2]
    IN  [s EXCEPT !.env = [v \in DOMAIN @ |->
            IF v \in assigned THEN s.env[ResolveUse(f, source(v))] ELSE @[v]]]

RECURSIVE RunRegion(_, _, _, _), RunFunction(_, _, _, _), Turns(_, _, _, _)

\* The scheduled value v of f is computed.
RunBinding(p, f, s, v) ==
    LET d == f.def[v]
        xs == Words(f, s, d.args)
        Bound(x) == [s EXCEPT !.env[v] = <<x>>]
        called == RunFunction(p, d.n, xs, s)
        trace == Append(s.trace, <<xs[1], Untouched>>)
    IN  IF ~GoingOn(s) \/ d.op = "phi" THEN s
        ELSE CASE d.op = "use" -> [s EXCEPT !.env[v] = s.env[ResolveUse(f, v)]]
               [] d.op = "pick" -> [s EXCEPT !.env[v] =
                      IF d.n \in DOMAIN s.env[ResolveUse(f, d.args[1])]
                      THEN <<s.env[ResolveUse(f, d.args[1])][d.n]>> ELSE <<>>]
               [] d.op \in {"call", "known"} ->
                      [Bound(Negate(xs[1])) EXCEPT
                          !.trace = trace,
                          !.way = IF Len(trace) >= MaxEvents THEN <<"more">> ELSE @]
               [] d.op = "load" ->
                      IF xs[1] = 0 THEN Bound(1) ELSE [s EXCEPT !.way = <<"trap">>]
               [] d.op = "invoke" ->
                      [s EXCEPT !.trace = called.trace, !.turns = called.turns,
                                !.env[v] = IF called.way[1] = "return"
                                           THEN called.way[2] ELSE <<>>,
                                !.way = IF called.way[1] = "return"
                                        THEN <<>> ELSE called.way]
               [] PureTotal(d.op) /\ d.op # "pick" -> Bound(Compute(d.op, xs))

\* The body runs until something other than its own end or a `continue` of
\* this loop happens in it.
Turns(p, f, s, r) ==
    LET t == RunRegion(p, f, [s EXCEPT !.turns = @ + 1], r.parts[1])
    IN  IF s.turns >= MaxSteps THEN [s EXCEPT !.way = <<"endless">>]
        ELSE IF t.way \in {<<>>, <<"continue", r.label>>}
        THEN Turns(p, f, [t EXCEPT !.way = <<>>], r)
        ELSE t

RunRegion(p, f, s, r) ==
    LET moved == Assign(f, s, r.transfer)
        x == IF r.kind \in {"if", "switch"} THEN Word(f, s, r.reads[1]) ELSE Undefined
        arms == {i \in DOMAIN r.cases : x + 1 \in r.cases[i]}
        part == CASE r.kind = "if" -> 2 - x
                  [] r.kind = "switch" ->
                         IF arms = {} THEN Len(r.parts) ELSE CHOOSE i \in arms : TRUE
        inner == RunRegion(p, f, s, r.parts[1])
    IN  IF ~GoingOn(s) THEN s
        ELSE CASE r.kind = "basic" ->
                      FoldLeft(LAMBDA t, v : RunBinding(p, f, t, v), s, f.block[r.label])
               [] r.kind = "sequence" ->
                      FoldLeft(LAMBDA t, q : RunRegion(p, f, t, q), s, r.parts)
               [] r.kind = "scope" ->
                      IF inner.way = <<"break", r.label>>
                      THEN [inner EXCEPT !.way = <<>>] ELSE inner
               [] r.kind = "loop" -> Turns(p, f, s, r)
               [] r.kind \in {"if", "switch"} ->
                      IF x = Undefined THEN [s EXCEPT !.way = <<"undefined">>]
                      ELSE IF part > Len(r.parts) THEN s
                      ELSE RunRegion(p, f, s, r.parts[part])
               [] r.kind = "transfer" -> moved
               [] r.kind \in {"break", "continue"} ->
                      [moved EXCEPT !.way = <<r.kind, r.label>>]
               [] r.kind = "return" ->
                      [s EXCEPT !.way = <<"return", Words(f, s, r.reads)>>]
               [] r.kind = "unreachable" -> [s EXCEPT !.way = <<"trap">>]

\* The k-th function runs on these arguments: the calls made so far, and its
\* way out.  One that ends without a return returns nothing.
RunFunction(p, k, args, s) ==
    LET f == p[k]
        place(v) == CHOOSE i \in DOMAIN f.params : f.params[i] = v
        start == [env |-> [v \in ValuesOf(f) |->
                              IF v \in ToSet(f.params) /\ place(v) \in DOMAIN args
                              THEN <<args[place(v)]>> ELSE <<>>],
                  trace |-> s.trace, turns |-> s.turns, way |-> <<>>,
                  depth |-> s.depth + 1]
        t == RunRegion(p, f, start, f.region)
    IN  IF s.depth >= MaxCalls THEN [s EXCEPT !.way = <<"endless">>]
        ELSE IF GoingOn(t) THEN [t EXCEPT !.way = <<"return", <<>>>>]
        ELSE t

Outside == [env |-> <<>>, trace |-> <<>>, turns |-> 0, way |-> <<>>, depth |-> 0]

\* The calls the first function makes and how it ends, for each input, in the
\* terms of LiftedRun.
Behaviour(p) ==
    [x \in Bit |->
        LET s == RunFunction(p, 1, Map(p[1].params, LAMBDA v : x), Outside)
        IN  [calls |-> s.trace,
             end |-> IF s.way = <<"endless">> THEN <<>> ELSE s.way]]

Lifted == INSTANCE LiftedRun WITH Callee <- <<>>, Table <- {}
=============================================================================
