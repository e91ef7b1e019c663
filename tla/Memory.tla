------------------------------- MODULE Memory -------------------------------
(***************************************************************************)
(* The memory passes of the lifted fixpoint group (sordec-passes,          *)
(* memory/): store-to-load forwarding within a block, the promotion of     *)
(* shadow-stack slots to SSA values, the unrolling of counted loops, and   *)
(* the removal of what leads to a trap unseen; with the analyses they      *)
(* share (slots.rs, frame.rs). Offsets and widths count words, so a part   *)
(* of a word has the word's offset. A call leads out of the module, so     *)
(* that a frame it is handed declines: the footprints of local callees and *)
(* the pointers tagged for the host are left out.                          *)
(***************************************************************************)
EXTENDS DeclutterPasses, LiftedRun

CONSTANT MaxTrips    \* MAX_TRIPS, the longest loop unrolled

ASSUME MemoryAssumption == MaxTrips \in Nat \ {0}

Op(f, v) == IF f.def[v].kind = "op" THEN f.def[v].op ELSE ""

Arg(f, v, i) == f.def[v].args[i]

\* The values a reachable block schedules, and its parameters.
Scheduled(f) ==
    UNION {ToSet(f.block[b].insts) \cup ToSet(f.block[b].params) : b \in Reachable(f)}

-----------------------------------------------------------------------------
(* Addresses *)

IsConst(f, v) == Op(f, Root(f, v)) \in ConstOp

Literal(d) == CASE d.op = "zero" -> 0 [] d.op = "one" -> 1 [] d.op = "const" -> d.n

Const(f, v) == Literal(f.def[Root(f, v)])

\* The operand canon_addr takes for the displacement: the second, where both
\* are constant.
Displacement(f, v) == IF IsConst(f, Arg(f, v, 2)) THEN 2 ELSE 1

\* One step of canon_addr: an alias followed, or a constant taken off.
Peel(f, at) ==
    LET v == at.base
        i == Displacement(f, v)
    IN  IF IsAlias(f, v) THEN [at EXCEPT !.base = Arg(f, v, 1)]
        ELSE IF Op(f, v) = "add" /\ IsConst(f, Arg(f, v, i))
        THEN [base |-> Arg(f, v, 3 - i), offset |-> at.offset + Const(f, Arg(f, v, i))]
        ELSE at

\* canon_addr: additions of constants folded, aliases followed.
CanonAddr(f, addr) ==
    Iterate(LAMBDA at : Peel(f, at), [base |-> addr, offset |-> 0],
            Cardinality({v \in Arena(f) : IsAlias(f, v) \/ Op(f, v) = "add"}))

\* Where the access v goes: its address, displaced by its own offset.
Place(f, v) ==
    LET at == CanonAddr(f, Arg(f, v, 1)) IN [at EXCEPT !.offset = @ + f.def[v].n]

\* detect: the frame bases that are published; with two of them, none counts.
Frames(f) ==
    {v \in Arena(f) :
        /\ Op(f, v) = "frame"
        /\ \E u \in Arena(f) : Op(f, u) = "publish" /\ Arg(f, u, 1) = v}

\* address_closure: the scheduled values that are an address derived from
\* base.  An alias counts if what it names precedes it in the arena.
Addresses(f, base) ==
    LET live == Scheduled(f)
        derived(A, v) == \/ IsAlias(f, v) /\ Arg(f, v, 1) \in A
                         \/ Op(f, v) # "" /\ CanonAddr(f, v).base = base
        grow(A, v) == IF v \in live /\ derived(A, v) THEN A \cup {v} ELSE A
    IN  FoldOver(grow, {base}, [v \in Arena(f) |-> v])

\* The scalar accesses at one of the addresses A.
Accessors(f, A) ==
    {v \in Scheduled(f) : Op(f, v) \in ScalarOp /\ Arg(f, v, 1) \in A}

-----------------------------------------------------------------------------
(* Escapes *)

\* What else reads an address: neither a scalar access at it, nor an address
\* itself, nor the frame bracket.
Consumers(f, A) ==
    {v \in Scheduled(f) \ (Accessors(f, A) \cup A) :
        Op(f, v) # "publish" /\ DefReads(f.def[v]) \cap A # {}}

\* A terminator, of an unreachable block too, passes an address on.
LeavesByExit(f, A) ==
    \E b \in Block :
        LET exit == f.block[b].exit
        IN  \/ \E t \in ToSet(exit.targets) : ToSet(t.args) \cap A # {}
            \/ exit.kind = "return" /\ ToSet(exit.reads) \cap A # {}

\* frame_escapes is unbounded: an address goes where it cannot be followed.
Escapes(f, A) ==
    \/ \E v \in Consumers(f, A) : Op(f, v) \notin SubWordOp \/ Arg(f, v, 1) \notin A
    \/ LeavesByExit(f, A)

\* The words out of reach when it is bounded: those accessed in part.
EscapedWords(f, A) == {Place(f, v).offset : v \in Consumers(f, A)}

-----------------------------------------------------------------------------
(* memory-slot-promotion: discovering the slots *)

\* A slot is the accesses at one offset.
Slot(f, all, offset) ==
    LET widths == {Width(Op(f, v)) : v \in all}
    IN  [stores |-> {v \in all : Stores(Op(f, v))},
         loads |-> {v \in all : ~Stores(Op(f, v))},
         conflicted |-> Cardinality(widths) > 1,
         words |-> offset .. offset + Max(widths) - 1]

\* The slots of a frame with the addresses A, by their offsets.
SlotsAt(f, A) ==
    LET offset == [v \in Accessors(f, A) |-> Place(f, v).offset]
    IN  [o \in Range(offset) |-> Slot(f, {v \in DOMAIN offset : offset[v] = o}, o)]

\* Two slots share a word, and the whole frame declines.
Overlap(slots) ==
    \E o \in DOMAIN slots : (slots[o].words \ {o}) \cap DOMAIN slots # {}

\* <<block, position>> of a scheduled value.
Position(f, v) == CHOOSE s \in DefSites(f, v) : TRUE

\* Faulty: some store anywhere will do.
EveryLoadIsWrittenFirst_Somewhere(f, slot) == slot.stores # {}

\* The position s comes before the position t, on every path to t.
Precedes(f, s, t) ==
    IF s[1] = t[1] THEN s[2] < t[2] ELSE Dominates(f, s[1], t[1])

\* Every load is preceded, on every path, by one and the same store.
EveryLoadIsWrittenFirst(f, slot) ==
    \A v \in slot.loads : \E u \in slot.stores :
        Precedes(f, Position(f, u), Position(f, v))

\* discover keeps the slots whose accesses agree, that are stored to, and of
\* which no word escapes.  Approved are those no load of which reads what
\* the caller left.
Approved(f, slots, escaped) ==
    {o \in DOMAIN slots :
        /\ ~slots[o].conflicted
        /\ slots[o].stores # {}
        /\ slots[o].words \cap escaped = {}
        /\ EveryLoadIsWrittenFirst(f, slots[o])}

-----------------------------------------------------------------------------
(* memory-slot-promotion: promoting one *)

\* Faulty: the stores of a slot with loads stay.
Retired_LoadsOnly(slot) == IF slot.loads = {} THEN slot.stores ELSE slot.loads

\* The accesses a promotion takes off the schedule.
Retired(slot) == slot.stores \cup slot.loads

\* A slot nothing loads just loses its stores.
DropStores(f, slot) ==
    [f EXCEPT !.block = [b \in Block |->
        [f.block[b] EXCEPT !.insts = Unschedule(@, Retired(slot))]]]

\* The slot becomes a variable: zero at the entry, a parameter of every other
\* reachable block.  Stores set it; loads become aliases of what it then is.
\* An edge from an unreachable block carries the zero.
Thread(f, slot) ==
    LET reached == Reachable(f)
        inner == reached \ {Entry}
        zero == Len(f.def) + 1
        param(b) == zero + Cardinality({c \in inner : c <= b})
        at(b, seq) == {i \in DOMAIN f.block[b].insts : f.block[b].insts[i] \in seq}
        \* The slot's value before position i of block b.
        value(b, i) ==
            LET before == {j \in at(b, slot.stores) : j < i}
            IN  IF before # {} THEN Arg(f, f.block[b].insts[Max(before)], 2)
                ELSE IF b = Entry THEN zero ELSE param(b)
        outgoing(b) == IF b \in reached THEN value(b, Len(f.block[b].insts) + 1) ELSE zero
        wire(b, t) ==
            IF t.block \in inner THEN Target(t.block, Append(t.args, outgoing(b))) ELSE t
        kept(b) == Unschedule(f.block[b].insts, Retired(slot))
        reads(v) == UNION {{b} \X at(b, slot.loads \cap {v}) : b \in reached}
    IN  [block |-> [b \in Block |->
            [params |-> f.block[b].params \o IF b \in inner THEN <<param(b)>> ELSE <<>>,
             insts |-> (IF b = Entry THEN <<zero>> ELSE <<>>) \o kept(b),
             exit |-> [f.block[b].exit EXCEPT
                          !.targets = Map(@, LAMBDA t : wire(b, t))]]],
         def |-> [v \in 1 .. zero + Cardinality(inner) |->
            IF v = zero THEN Operator("zero", <<>>)
            ELSE IF v > zero
            THEN LET b == Nth(inner, v - zero)
                 IN  BlockParam(b, Len(f.block[b].params) + 1)
            ELSE IF reads(v) # {}
            THEN LET s == CHOOSE s \in reads(v) : TRUE IN Alias(value(s[1], s[2]))
            ELSE f.def[v]]]

Promote(f, slot) == IF slot.loads = {} THEN DropStores(f, slot) ELSE Thread(f, slot)

\* All slots are approved before the first is promoted.
PromoteEach(f, slots, approved) ==
    Result(FoldOver(LAMBDA g, o : Promote(g, slots[o]), f, InOrder(approved)),
           approved # {})

\* A frame with the addresses A.
PromoteFrame(f, A, slots) ==
    IF Escapes(f, A) \/ Overlap(slots) THEN Result(f, FALSE)
    ELSE PromoteEach(f, slots, Approved(f, slots, EscapedWords(f, A)))

PromoteAt(f, A) == PromoteFrame(f, A, SlotsAt(f, A))

PromoteSlots(f) ==
    IF Cardinality(Frames(f)) # 1 THEN Result(f, FALSE)
    ELSE PromoteAt(f, Addresses(f, CHOOSE v \in Frames(f) : TRUE))

-----------------------------------------------------------------------------
(* memory-store-to-load-forward *)

\* An operator, other than a scalar access, not known to leave memory alone.
ClobbersMemory(f, v) == Op(f, v) \in SubWordOp \cup {"call", "invoke"}

\* invalidate: what is known to be at e outlives a store of `width` words at
\* `at` only under the same base, where the words can be told apart.
Survives(e, at, width) ==
    /\ e.base = at.base
    /\ e.offset + e.width <= at.offset \/ at.offset + width <= e.offset

\* One scalar access to `width` words at `at`: w.known is what stores of this
\* block left in memory, and w.bound pairs the loads that can be forwarded
\* with the values they read.
ForwardAccess(f, w, v, at, width) ==
    IF Stores(Op(f, v))
    THEN [w EXCEPT !.known = {e \in @ : Survives(e, at, width)} \cup
             {[base |-> at.base, offset |-> at.offset, width |-> width,
               value |-> Arg(f, v, 2)]}]
    ELSE [w EXCEPT !.bound = @ \cup
             {<<v, e.value>> : e \in {e \in w.known : /\ e.base = at.base
                                                      /\ e.offset = at.offset
                                                      /\ e.width = width}}]

ForwardOver(f, w, v) ==
    IF ClobbersMemory(f, v) THEN [w EXCEPT !.known = {}]
    ELSE IF Op(f, v) \in ScalarOp
    THEN ForwardAccess(f, w, v, Place(f, v), Width(Op(f, v)))
    ELSE w

\* The loads in `bound` become aliases and leave their block.
BindLoads(f, b, bound, loads) ==
    [block |-> [f.block EXCEPT ![b].insts = Unschedule(@, loads)],
     def |-> [v \in Arena(f) |->
                 IF v \in loads THEN Alias((CHOOSE x \in bound : x[1] = v)[2])
                 ELSE f.def[v]]]

ForwardInBlock(f, b) ==
    LET bound == FoldOver(LAMBDA w, v : ForwardOver(f, w, v),
                      [known |-> {}, bound |-> {}], f.block[b].insts).bound
    IN  BindLoads(f, b, bound, {x[1] : x \in bound})

\* Every block starts knowing nothing of memory.
ForwardStores(f) ==
    LET forwarded == FoldOver(ForwardInBlock, f, InOrder(Reachable(f)))
    IN  Result(forwarded, forwarded.def # f.def)

-----------------------------------------------------------------------------
(* memory-unroll-fill-loops (unroll.rs): a loop that counts through the words *)
(* of a frame is pasted out, so that the memory passes meet constant addresses. *)

\* An i32 constant as the signed number it is compared and stepped by.
ConstI32(f, v) ==
    LET n == Const(f, v) IN IF n >= Wrap \div 2 THEN n - Wrap ELSE n

\* The operand that a binary operator d combines with v, if it is constant.
StepFrom(f, d, v) ==
    {ConstI32(f, d.args[3 - i]) :
        i \in {j \in 1 .. 2 : Root(f, d.args[j]) = v /\ IsConst(f, d.args[3 - j])}}

\* Which of the two edges of a header stays in the loop: a "ne" goes on when
\* it is true.
Continuing(op) == IF op = "ne" THEN 1 ELSE 2

\* What a header and what a body may hold.
HeaderOp == ConstOp \cup {"ne", "eq"}

BodyOp == ConstOp \cup {"add"} \cup ScalarOp \cup SubWordOp

HoldsOnly(f, b, ops) == \A v \in ToSet(f.block[b].insts) : Op(f, v) \in ops

\* classify: the counted loop with the header h and the body b, if it is one.
\* Every edge into the header counts, but for the body's.
FillLoop(f, h, b) ==
    LET exit == f.block[h].exit
        induction == f.block[h].params[1]
        cond == f.def[Root(f, exit.reads[1])]
        stay == Continuing(cond.op)
        back == f.block[b].exit
        stepped == f.def[Root(f, back.targets[1].args[1])]
        entries == {e \in InEdges(f, h) : e[1] # b}
        starts == {ConstI32(f, EdgeArgs(f, e)[1]) : e \in entries}
        leaving == exit.targets[3 - stay]
    IN  IF \/ Len(f.block[h].params) # 1
           \/ exit.kind # "branch_if"
           \/ cond.kind # "op" \/ cond.op \notin {"ne", "eq"}
           \/ b = h
           \/ exit.targets[stay] # Target(b, <<>>)
           \/ Cardinality(InEdges(f, b)) # 1
           \/ back.kind # "branch" \/ back.targets[1].block # h
           \/ stepped.kind # "op" \/ stepped.op # "add"
           \/ ~HoldsOnly(f, h, HeaderOp) \/ ~HoldsOnly(f, b, BodyOp)
           \/ \E e \in entries : ~IsConst(f, EdgeArgs(f, e)[1])
           \/ Cardinality(starts) # 1
           \/ \E v \in ToSet(leaving.args) : Root(f, v) = induction
        THEN {}
        ELSE {[header |-> h, body |-> b, exit |-> leaving, induction |-> induction,
               init |-> c.init, step |-> c.step, trips |-> (c.bound - c.init) \div c.step] :
              c \in {c \in [init : starts, bound : StepFrom(f, cond, induction),
                           step : StepFrom(f, stepped, induction)] :
                      /\ c.step > 0
                      /\ (c.bound - c.init) % c.step = 0
                      /\ (c.bound - c.init) \div c.step \in 1 .. MaxTrips}}

\* Trip k of the loop l, pasted behind what its header holds: a constant for
\* the induction variable, then a copy of the body.
Paste(f, l, k) ==
    LET body == f.block[l.body].insts
        const == Len(f.def) + 1
        new(v) ==
            LET r == Root(f, v)
            IN  IF r = l.induction THEN const
                ELSE IF r \in ToSet(body)
                THEN const + CHOOSE j \in DOMAIN body : body[j] = r ELSE v
        copy(d) == IF d.kind = "op" THEN [d EXCEPT !.args = Map(@, new)] ELSE d
    IN  [block |-> [f.block EXCEPT
            ![l.header].insts = @ \o [i \in 1 .. Len(body) + 1 |-> Len(f.def) + i]],
         def |-> Append(f.def, Numbered("const", (l.init + k * l.step) % Wrap, <<>>))
                 \o Map(body, LAMBDA v : copy(f.def[v]))]

\* unroll: the header gets a copy of the body for each trip, with the number
\* of the trip for the induction variable, and goes on to the exit.
Unroll(f, l) ==
    LET pasted == FoldOver(LAMBDA g, k : Paste(g, l, k - 1), f, [k \in 1 .. l.trips |-> k])
    IN  [pasted EXCEPT !.block[l.header].exit = Branch(l.exit)]

\* Every loop is classified before the first is unrolled.
UnrollFillLoops(f) ==
    LET at(h) == UNION {FillLoop(f, h, b) : b \in Succ(f, h)}
        headers == {h \in Block : at(h) # {}}
        loop(h) == CHOOSE l \in at(h) : TRUE
        unrolled == FoldOver(LAMBDA g, h : Unroll(g, loop(h)), f, InOrder(headers))
    IN  Result(unrolled, headers # {})

-----------------------------------------------------------------------------
(* memory-trap-tail (trap_tail.rs): what a block does on the way to a trap, and *)
(* nobody can see, is removed. *)

\* quiet_functions: those that never call the host, however they run, the
\* greatest set whose members call only one another.
QuietFunctions ==
    LET stays(Q, k) ==
            /\ ~Callee[k].host
            /\ Callee[k].calls \subseteq Q
            /\ Callee[k].indirect => Table \subseteq Q
    IN  Iterate(LAMBDA Q : {k \in Q : stays(Q, k)}, DOMAIN Callee, Len(Callee))

\* classify: what becomes of an instruction before a trap.  A quiet call that
\* is handed only constants stays, as the evidence of which panic this is.
Step(f, v) ==
    CASE f.def[v].kind = "param" \/ Op(f, v) \in {"call", "publish"} -> "stop"
      [] Op(f, v) = "invoke" ->
             IF f.def[v].n \notin QuietFunctions THEN "stop"
             ELSE IF \A a \in DefReads(f.def[v]) : Op(f, a) \in ConstOp THEN "over"
             ELSE "remove"
      [] Stores(Op(f, v)) -> "remove"
      [] OTHER -> "over"

\* doomed_tail: behind the last instruction that stops the walk, what is
\* removed, and what reads something that goes.
DoomedTail(f, insts) ==
    LET stops == {i \in DOMAIN insts : Step(f, insts[i]) = "stop"}
        tail == SubSeq(insts, Max(stops \cup {0}) + 1, Len(insts))
        removed == {v \in ToSet(tail) : Step(f, v) = "remove"}
        spread(D, v) == IF DefReads(f.def[v]) \cap D # {} THEN D \cup {v} ELSE D
    IN  IF removed = {} THEN {} ELSE FoldOver(spread, removed, tail)

TrimTrapTails(f) ==
    LET doomed(b) == IF b \in Reachable(f) /\ f.block[b].exit.kind = "unreachable"
                     THEN DoomedTail(f, f.block[b].insts) ELSE {}
    IN  Result([f EXCEPT !.block = [b \in Block |->
                   [f.block[b] EXCEPT !.insts = Unschedule(@, doomed(b))]]],
               \E b \in Block : doomed(b) # {})
=============================================================================
