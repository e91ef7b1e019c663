----------------------------- MODULE MCDeclutter -----------------------------
(***************************************************************************)
(* Families of small lifted functions for Declutter.  The value arena has  *)
(* the same layout in all of them:                                         *)
(*                                                                         *)
(*   1  the entry's parameter         2  an instruction of the entry       *)
(*   3  the parameter of block 2      4  an instruction of block 2         *)
(*   5  the parameter of block 3      6  an instruction of block 3         *)
(*   7  the parameter of block 4      8  an alias, or a second parameter   *)
(*   9  a second parameter of block 3                                      *)
(*                                                                         *)
(* A family is the set of well-formed functions whose parts are drawn from *)
(* the sets a run names; waffle gives the entry no in-edges.               *)
(***************************************************************************)
EXTENDS Declutter

To(b) == {Target(b, <<>>)}
ToWith(b, vs) == {Target(b, <<v>>) : v \in vs}

Branches(ts) == {Branch(t) : t \in ts}
Forks(vs, ts, es) ==
    {BranchIf(v, t, e) : v \in vs, t \in ts, e \in es}
Returns(vs) == {Return(<<v>>) : v \in vs}

Blocks(params, insts, exits) ==
    {[params |-> p, insts |-> i, exit |-> x] : p \in params, i \in insts, x \in exits}

\* The definitions, given the operators and operands of 2, 4, 6 and the
\* meaning of values 8 and 9.
Defs(op2, op4, op6, v8, v9) ==
    {<<BlockParam(1, 1), o2, BlockParam(2, 1), o4, BlockParam(3, 1), o6,
       BlockParam(4, 1), d8, d9>> :
        o2 \in op2, o4 \in op4, o6 \in op6, d8 \in v8, d9 \in v9}

Family(b1, b2, b3, b4, defs) ==
    {f \in [block : {<<x1, x2, x3, x4>> : x1 \in b1, x2 \in b2, x3 \in b3, x4 \in b4},
            def : defs] : WellFormed(f)}

Call(v) == Operator("call", <<v>>)
Load(v) == Operator("load", <<v>>)
Not(v) == Operator("not", <<v>>)
One == Operator("one", <<>>)
Helper(k, v) == Numbered("invoke", k, <<v>>)

\* Diamonds and chains: the entry forks to 2 and 3 (or a switch names 2
\* twice), which pass values on to 4 or to one another, return or trap.
Merges ==
    Family(
        Blocks({<<1>>}, {<<2>>},
            Forks({1}, ToWith(2, {1, 2}), ToWith(3, {1, 2}))
            \cup {Switch(1, <<Target(2, <<a>>), Target(3, <<b>>)>>, Target(2, <<c>>)) :
                     a \in {1, 2}, b \in {1}, c \in {1, 2}}),
        Blocks({<<3>>}, {<<>>, <<4>>},
            Branches(ToWith(4, {1, 3, 4}) \cup ToWith(3, {2, 3})) \cup Returns({3, 4})),
        Blocks({<<5>>}, {<<>>, <<6>>},
            Branches(ToWith(4, {1, 5, 6})) \cup Returns({5, 6}) \cup {Unreachable}),
        Blocks({<<7>>}, {<<>>}, Returns({2, 7}) \cup {Unreachable}),
        Defs({Call(1), One}, {Call(3), Load(1)}, {Not(5)}, {Alias(1)}, {Alias(1)}))

\* Loops: 2 is a loop header or loops on itself, 3 goes back to it, on to
\* itself or out to 4, which reads its own parameter or that of 2.
Loops ==
    Family(
        Blocks({<<1>>}, {<<2>>}, Branches(ToWith(2, {1, 2}))),
        Blocks({<<3>>}, {<<>>, <<4>>},
            Forks({1, 3}, ToWith(3, {1, 3, 4}), ToWith(4, {3, 4}) \cup ToWith(2, {3}))
            \cup Branches(ToWith(3, {1, 3}))),
        Blocks({<<5>>}, {<<>>, <<6>>},
            Branches(ToWith(2, {1, 3, 5, 6}) \cup ToWith(3, {5}))
            \cup Forks({5}, ToWith(2, {3, 6}), ToWith(4, {5}))),
        Blocks({<<7>>}, {<<>>}, Returns({3, 7})),
        Defs({One}, {Call(3), Not(3)}, {Call(5), Not(3)}, {Alias(1)}, {Alias(1)}))

\* Two forwarders with two parameters each that pass them back and forth in
\* some order, for ever, or until the second leaves for 4.
Cycles ==
    LET Pairs == {<<a, b>> : a \in {1, 2}, b \in {1, 2}}
        Onto3 == {<<a, b>> : a \in {1, 3, 8}, b \in {3, 8}}
        Onto2 == {<<a, b>> : a \in {3, 5, 9}, b \in {5, 9}}
    IN  Family(
            Blocks({<<1>>}, {<<2>>},
                Branches({Target(2, p) : p \in Pairs})),
            Blocks({<<3, 8>>}, {<<>>}, Branches({Target(3, p) : p \in Onto3})),
            Blocks({<<5, 9>>}, {<<>>, <<6>>},
                Branches({Target(2, p) : p \in Onto2})
                \cup {BranchIf(v, Target(2, p), Target(4, <<w>>)) :
                         v \in {1, 5}, w \in {5, 9}, p \in Onto2}),
            Blocks({<<7>>}, {<<>>}, Returns({7})),
            Defs({One, Call(1)}, {One}, {Call(9)}, {BlockParam(2, 2)}, {BlockParam(3, 2)}))

\* Aliases, one of them of the other, used and unused, and a block 4 that
\* nothing reaches but that still has edges into 2 or 3.
Residue ==
    Family(
        Blocks({<<1>>}, {<<2>>},
            Forks({9}, ToWith(2, {1, 8}), ToWith(3, {2, 9})) \cup Branches(ToWith(2, {9}))),
        Blocks({<<3>>}, {<<>>, <<4>>},
            Branches(ToWith(3, {3, 9})) \cup Returns({3, 8})),
        Blocks({<<5>>}, {<<>>, <<6>>}, Returns({5, 9}) \cup {Unreachable}),
        Blocks({<<7>>}, {<<>>, <<8>>},
            Branches(ToWith(2, {2}) \cup ToWith(3, {7, 5})) \cup Returns({3})),
        Defs({Call(1)}, {Call(9), Not(8)}, {Call(9)},
             {Alias(1), Alias(2), Alias(3)}, {Alias(8)}))

-----------------------------------------------------------------------------
(* Functions with a frame of two words: value 2 is its base and 3 publishes *)
(* it, 4 is the address of its upper word, 5 a constant, and the rest are   *)
(* what the blocks do; values 6 and 7 restore the global.                   *)

Store(a, n, v) == Numbered("store", n, <<a, v>>)
LoadAt(a, n) == Numbered("load", n, <<a>>)
Wide(op, args) == Numbered(op, 0, args)
Part(op, n, args) == Numbered(op, n, args)

Add(a, b) == Operator("add", <<a, b>>)
Number(n) == Numbered("const", n, <<>>)

Framed(defs) ==
    {<<BlockParam(1, 1), Numbered("frame", 2, <<>>), Operator("publish", <<2>>),
       Add(2, 5), One, Add(4, 5),
       Operator("publish", <<6>>)>> \o d : d \in defs}

\* Paths that store, load or call on the way to a load in 3 and in 4: values
\* 8 and 9 in the entry, 10 in block 2, 11 and 12 in block 3, 13 in block 4.
Slotted ==
    Family(
        Blocks({<<1>>}, {<<2, 3, 5, 4, 8>>, <<2, 3, 5, 4, 8, 9>>},
            Forks({1}, To(2), To(3)) \cup Branches(To(2))),
        Blocks({<<>>}, {<<10>>},
            Branches(To(3) \cup To(4)) \cup Forks({1}, To(2), To(4))),
        Blocks({<<>>}, {<<11>>, <<11, 12>>},
            Branches(To(4)) \cup Forks({11}, To(2), To(4))),
        Blocks({<<>>}, {<<13, 6, 7>>}, Returns({13})),
        Framed({<<a, b, c, d, Store(2, 0, 11), e>> :
            a \in {Store(2, 0, 1), Wide("store2", <<2, 1>>)},
            b \in {Store(4, 0, 5)},
            c \in {Store(2, 0, 5), Store(2, 1, 1), Call(2), Part("store8", 0, <<4, 1>>)},
            d \in {LoadAt(2, 0), LoadAt(4, 0), Wide("load2", <<2>>)},
            e \in {LoadAt(2, 0), LoadAt(2, 1), Part("load8", 1, <<2>>)}}))

\* A loop that moves the two words about: 10 and 11 load them and 12 and 13
\* store into them, before 14 loads one in block 3.
Crossings ==
    Family(
        Blocks({<<1>>}, {<<2, 3, 5, 4, 8, 9>>}, Branches(To(2))),
        Blocks({<<>>},
            {<<10, 11, 12, 13>>, <<10, 12, 11, 13>>, <<12, 11, 10, 13>>},
            Forks({1, 10, 11}, To(2), To(3)) \cup Branches(To(3))),
        Blocks({<<>>}, {<<14, 6, 7>>}, Returns({14})),
        Blocks({<<>>}, {<<>>}, {Unreachable}),
        Framed({<<Store(2, 0, 1), Store(4, 0, 5), LoadAt(2, 0), LoadAt(2, 1),
                  Store(2, 0, a), Store(4, 0, b), c>> :
            a \in {5, 10, 11}, b \in {5, 10, 11}, c \in {LoadAt(2, 0), LoadAt(4, 0)}}))

\* Block 2 is given a pointer 8, which may be the frame's, its upper word's
\* or the function's own argument, and works on both: 9 stores, 10 stores or
\* calls and 11 and 12 load; 13 is in block 3.
Pointers ==
    Family(
        Blocks({<<1>>}, {<<2, 3, 5, 4>>},
            Branches(ToWith(2, {2, 4})) \cup Forks({1}, ToWith(2, {2}), ToWith(2, {1, 4}))),
        Blocks({<<8>>}, {<<9, 10, 11, 12>>, <<9, 11, 10, 12>>},
            Returns({11, 12}) \cup Branches(To(3))),
        Blocks({<<>>}, {<<13>>}, Returns({13})),
        Blocks({<<>>}, {<<>>}, {Unreachable}),
        Framed({<<BlockParam(2, 1), a, b, c, d, LoadAt(2, 0)>> :
            a \in {Store(2, 0, 5), Wide("store2", <<2, 5>>), Store(8, 0, 5)},
            b \in {Store(8, 0, 1), Store(4, 0, 1), Call(2), Part("store8", 0, <<2, 1>>)},
            c \in {LoadAt(2, 0), Wide("load2", <<2>>), LoadAt(8, 0)},
            d \in {LoadAt(4, 0), Load(1), Call(11)}}))

\* A loop that fills the frame: 8 counts in block 2, up to 9, which 10
\* compares, and in steps of 13; the body, 3, stores at 11.  Block 4 loads.
\* (Code that leaves its frame is not what a compiler makes.)
Fills ==
    {f \in Family(
        Blocks({<<1>>}, {<<2, 3, 5, 4, 9, 13, 15>>},
            Branches(ToWith(2, {1, 5, 15}))
            \cup Forks({1}, ToWith(2, {15}), ToWith(2, {5, 15}))),
        Blocks({<<8>>}, {<<10>>}, Forks({10}, To(3), To(4)) \cup Forks({10}, To(4), To(3))),
        Blocks({<<>>}, {<<11, 12, 14>>}, Branches(ToWith(2, {14}))),
        Blocks({<<>>}, {<<16, 6, 7>>}, Returns({16})),
        Framed({<<BlockParam(2, 1), b, c, a, d, e, Add(8, 13), z, LoadAt(4, 0)>> :
            b \in {Number(2), Number(3)},
            c \in {Operator("ne", <<8, 9>>), Operator("eq", <<9, 8>>)},
            a \in {Add(2, 8), Add(8, 4)},
            d \in {Store(11, 0, 1), Store(4, 0, 8), LoadAt(11, 0), Call(11)},
            e \in {One, Number(2), Number(7)},
            z \in {Operator("zero", <<>>), Number(7)}})) :
        \A x \in Bit : Behaviour(f)[x].end # <<"trap">>}

\* The counter is passed out of the loop.
Counted ==
    Family(
        Blocks({<<1>>}, {<<2, 3, 5, 4, 9, 13>>}, Branches(ToWith(2, {13}))),
        Blocks({<<8>>}, {<<10>>}, {BranchIf(10, Target(3, <<>>), Target(4, <<15>>)),
                                   BranchIf(10, Target(3, <<>>), Target(4, <<8>>))}),
        Blocks({<<>>}, {<<11, 12, 14>>}, Branches(ToWith(2, {14}))),
        Blocks({<<15>>}, {<<6, 7>>}, Returns({15})),
        Framed({<<BlockParam(2, 1), Number(2), Operator("ne", <<8, 9>>), Add(2, 8),
                  Store(11, 0, 1), Operator("zero", <<>>), Add(8, 5), BlockParam(4, 1)>>}))

\* Blocks 2 and 3 trap, after storing and calling what is quiet or is not.
Traps ==
    Family(
        Blocks({<<1>>}, {<<2, 3, 5, 4, 8>>}, Forks({1}, To(2), To(4))),
        Blocks({<<>>}, {<<9, 10, 11, 12>>, <<9, 11, 12, 10>>, <<10, 12, 9, 11>>},
            {Unreachable} \cup Branches(To(3)) \cup Returns({1})),
        Blocks({<<>>}, {<<13>>}, {Unreachable}),
        Blocks({<<>>}, {<<14, 6, 7>>}, Returns({14})),
        Framed({<<Store(2, 0, 1), a, b, c, d, Helper(k, 2), LoadAt(2, 0)>> :
            a \in {Helper(1, 2), Helper(3, 2), Helper(2, 5)},
            b \in {Store(5, 0, 1), Store(12, 0, 5), Operator("publish", <<4>>)},
            c \in {Call(2), Call(9), Not(9)},
            d \in {LoadAt(2, 0), Add(2, 9)}, k \in {2, 5, 6}}))

\* The other functions: 1 is a leaf, 2 and 3 call one another, 4 calls the
\* host, 5 calls 4, and 6 calls one of the table.
MCCallee ==
    <<[calls |-> {}, host |-> FALSE, indirect |-> FALSE],
      [calls |-> {1, 3}, host |-> FALSE, indirect |-> FALSE],
      [calls |-> {2}, host |-> FALSE, indirect |-> FALSE],
      [calls |-> {}, host |-> TRUE, indirect |-> FALSE],
      [calls |-> {2, 4}, host |-> FALSE, indirect |-> FALSE],
      [calls |-> {}, host |-> FALSE, indirect |-> TRUE]>>

\* A frame that keeps an address of itself: 8 and 10 store into the upper
\* word, 10 through the pointer to it that 9 stored in the lower, 11 loads.
SelfStored ==
    Family(
        Blocks({<<1>>}, {<<2, 3, 5, 4, 8, 9, 10, 11, 12, 6, 7>>}, Returns({12})),
        Blocks({<<>>}, {<<>>}, {Unreachable}),
        Blocks({<<>>}, {<<>>}, {Unreachable}),
        Blocks({<<>>}, {<<>>}, {Unreachable}),
        Framed({<<Store(4, 0, 1), Store(2, 0, 4), LoadAt(2, 0), Store(10, 0, 5),
                  LoadAt(4, 0)>>}))

Functions ==
    Merges \cup Loops \cup Cycles \cup Residue \cup Slotted \cup Crossings \cup Pointers
    \cup Fills \cup Traps

=============================================================================
