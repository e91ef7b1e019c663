------------------------------ MODULE LiftedRun ------------------------------
(***************************************************************************)
(* What a lifted function does when it runs: the meaning waffle and wasm   *)
(* give the IR, against which passes that promise not to touch "anything   *)
(* observable" (declutter/mod.rs) are judged.  A call of the host is       *)
(* observable, by its argument, by what it finds there if that is a        *)
(* pointer, and by the memory outside the stack; a return, by its results, *)
(* that memory and the stack pointer.  A trap throws the memory away.  A   *)
(* block's arguments reach its parameters all at once.                     *)
(***************************************************************************)
EXTENDS LiftedIR

CONSTANTS
    MaxEvents,    \* calls observed before the comparison stops
    MaxSteps,     \* blocks executed before a silent run counts as endless
    Callee,       \* the other functions of the module, by number: which of
                  \* them each calls, and whether it calls the host or a
                  \* function of the table
    Table         \* those in the table

-----------------------------------------------------------------------------
(* Linear memory, a cell a word *)

\* What the global holds when the function is called: the stack is below it.
Top == Wrap + 4

Stack == Wrap .. Top - 1

\* The cells that exist: besides the stack the one other code looks at.
Cell == {0} \cup Stack

\* Callees(k): what a call of k can call in turn, itself included.
Callees(k) ==
    Iterate(LAMBDA S : S \cup UNION {Callee[j].calls \cup
                          IF Callee[j].indirect THEN Table ELSE {} : j \in S},
            {k}, Len(Callee))

ReachesHost(k) == \E j \in Callees(k) : Callee[j].host

-----------------------------------------------------------------------------

Read(f, s, v) == s.env[Root(f, v)]

Bind(s, v, x) == [s EXCEPT !.env[v] = x]

\* An access at address a; y is what a store writes.  A bit takes up the
\* lower word of a wide one.
Access(s, v, op, a, y) ==
    LET span == a .. a + Width(op) - 1
        upper == span \ {a}
    IN  IF ~(span \subseteq Cell) THEN [s EXCEPT !.end = <<"trap">>]
        ELSE IF Stores(op)
        THEN [s EXCEPT
                 !.mem = [c \in Cell |-> IF c = a THEN y
                                         ELSE IF c \in upper THEN 0 ELSE @[c]]]
        ELSE Bind(s, v, IF \A c \in upper : s.mem[c] = 0 THEN s.mem[a] ELSE Undefined)

\* A call is given x: a value, which it negates, or a pointer into the stack
\* to one.  It can reach what is above a pointer too, and negates it all.
CallWith(s, v, x, observed) ==
    LET seen == IF x \in Stack THEN s.mem[x] ELSE x
    IN  [Bind(s, v, Negate(seen)) EXCEPT
            !.trace = IF observed THEN Append(@, <<seen, s.mem[0]>>) ELSE @,
            !.mem = [c \in Cell |-> IF x \in Stack /\ c >= x THEN Negate(@[c]) ELSE @[c]]]

\* Execute the scheduled value v.
ExecuteValue(f, s, v) ==
    LET d == f.def[v]
        xs == IF d.kind = "param" THEN <<>> ELSE Map(d.args, LAMBDA u : Read(f, s, u))
    IN  IF s.end # <<>> \/ d.kind = "param" THEN s
        ELSE IF d.kind = "alias" THEN Bind(s, v, xs[1])
        ELSE IF d.op \in ScalarOp \cup SubWordOp
        THEN IF xs[1] = Undefined THEN [s EXCEPT !.end = <<"undefined">>]
             ELSE Access(s, v, d.op, xs[1] + d.n, xs[Len(xs)])
        ELSE CASE d.op = "call" -> CallWith(s, v, xs[1], TRUE)
               [] d.op = "invoke" -> CallWith(s, v, xs[1], ReachesHost(d.n))
               [] d.op = "const" -> Bind(s, v, d.n)
               [] d.op = "frame" -> Bind(s, v, s.top - d.n)
               [] d.op = "publish" -> [s EXCEPT !.top = xs[1]]
               [] PureTotal(d.op) /\ d.op \notin {"frame", "const"} ->
                      Bind(s, v, Compute(d.op, xs))

\* Arguments are read before any parameter is written.
Jump(f, s, t) ==
    LET params == f.block[t.block].params
        place(v) == CHOOSE i \in DOMAIN params : params[i] = v
    IN  [s EXCEPT
            !.at = t.block,
            !.env = [v \in Arena(f) |->
                        IF v \in ToSet(params) /\ place(v) \in DOMAIN t.args
                        THEN Read(f, s, t.args[place(v)])
                        ELSE s.env[v]]]

TakeExit(f, s, exit) ==
    LET x == IF exit.kind \in {"branch_if", "switch"}
             THEN Read(f, s, exit.reads[1]) ELSE Undefined
        n == Len(exit.targets)
    IN  CASE s.end # <<>> -> s
          [] s.end = <<>> /\ exit.kind = "return" ->
                 [s EXCEPT !.end =
                     <<"return", Map(exit.reads, LAMBDA v : Read(f, s, v))>>
                     \o IF <<s.top, s.mem[0]>> = <<Top, Untouched>> THEN <<>>
                        ELSE <<s.top, s.mem[0]>>]
          [] s.end = <<>> /\ exit.kind = "unreachable" ->
                 [s EXCEPT !.end = <<"trap">>]
          [] s.end = <<>> /\ exit.kind = "branch" -> Jump(f, s, exit.targets[1])
          [] s.end = <<>> /\ exit.kind = "branch_if" ->
                 IF x = Undefined THEN [s EXCEPT !.end = <<"undefined">>]
                 ELSE Jump(f, s, exit.targets[IF x = 0 THEN 2 ELSE 1])
          [] s.end = <<>> /\ exit.kind = "switch" ->
                 IF x = Undefined THEN [s EXCEPT !.end = <<"undefined">>]
                 ELSE Jump(f, s, exit.targets[IF x < n - 1 THEN x + 1 ELSE n])

Finished(s) == s.end # <<>> \/ Len(s.trace) >= MaxEvents

ExecuteBlock(f, s) ==
    LET b == f.block[s.at]
        t == FoldLeft(LAMBDA u, v : ExecuteValue(f, u, v), s, b.insts)
    IN  IF Finished(s) THEN s ELSE TakeExit(f, t, b.exit)

\* The state a call of f with every parameter equal to x starts in.
Called(f, x) ==
    [at |-> Entry, trace |-> <<>>, end |-> <<>>, top |-> Top,
     mem |-> [c \in Cell |-> IF c = 0 THEN Untouched ELSE Undefined],
     env |-> [v \in Arena(f) |->
                 IF v \in ToSet(f.block[Entry].params) THEN x ELSE Undefined]]

\* The calls f makes and how it ends, for each input: by returning, by
\* trapping, or not at all as far as MaxEvents and MaxSteps tell.
Behaviour(f) ==
    [x \in Bit |->
        LET s == Iterate(LAMBDA t : ExecuteBlock(f, t), Called(f, x), MaxSteps)
            calls == IF Len(s.trace) > MaxEvents
                     THEN SubSeq(s.trace, 1, MaxEvents) ELSE s.trace
        IN  [calls |-> calls,
             end |-> IF Len(s.trace) >= MaxEvents THEN <<"more">> ELSE s.end]]
=============================================================================
