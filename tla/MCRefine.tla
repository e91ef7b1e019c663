------------------------------ MODULE MCRefine ------------------------------
(***************************************************************************)
(* Small modules for Refine.  The value arena of every function has the    *)
(* same layout:                                                            *)
(*                                                                         *)
(*   1        the entry's parameter    2, 3   instructions of the entry    *)
(*   4        the parameter of the block where ways meet, or of the loop   *)
(*   5 .. 8   instructions of the blocks 2 to 5                            *)
(*   9        one more, in a block of the family's choice                  *)
(***************************************************************************)
EXTENDS Refine, MCFacts

To(b) == Target(b, <<>>)
With(b, v) == Target(b, <<v>>)

Call(v) == Operator("call", <<v>>)
Not(v) == Operator("not", <<v>>)
Eq(v, w) == Operator("eq", <<v, w>>)
Ne(v, w) == Operator("ne", <<v, w>>)
One == Operator("one", <<>>)
Zero == Operator("zero", <<>>)
Chosen(v, w, c) == Operator("select", <<v, w, c>>)
Invoke1(v) == Numbered("invoke", 2, <<v>>)
Pick(n, v) == Numbered("pick", n, <<v>>)

Blocks(params, insts, exits) ==
    {[params |-> p, insts |-> i, exit |-> x] : p \in params, i \in insts, x \in exits}

\* All well-formed functions of these blocks and instructions that the
\* structurer can structure; value 4 is the parameter of block `meet`.
Family(meet, b1, b2, b3, b4, b5, op2, op3, op5, op6, op7, op8, op9) ==
    LET functions ==
            [block : {<<x1, x2, x3, x4, x5>> :
                         x1 \in b1, x2 \in b2, x3 \in b3, x4 \in b4, x5 \in b5},
             def : {<<BlockParam(1, 1), d2, d3,
                      IF meet = NoBlock THEN Zero ELSE BlockParam(meet, 1),
                      d5, d6, d7, d8, d9>> :
                        d2 \in op2, d3 \in op3, d5 \in op5, d6 \in op6, d7 \in op7,
                        d8 \in op8, d9 \in op9}]
    IN  {g \in WithFacts({f \in functions : WellFormed(f)}) :
            RegionOf(g.f, g.cfg).kind # "unstructured"}

Ends == Blocks({<<>>}, {<<>>}, {Unreachable})
Unused == {Zero}

-----------------------------------------------------------------------------
(* Functions that call no others *)

\* Tests and their arms: blocks 2 and 3 may return, trap, or meet in 4 or 5.
Guards ==
    Family(NoBlock,
        Blocks({<<1>>}, {<<2, 3>>}, {BranchIf(c, To(2), To(3)) : c \in {1, 3}}),
        Blocks({<<>>}, {<<>>, <<5>>},
            {Branch(To(4)), Return(<<2>>), Unreachable, BranchIf(3, To(4), To(5))}),
        Blocks({<<>>}, {<<>>, <<6>>},
            {Branch(To(4)), Return(<<2>>), Unreachable, BranchIf(1, To(5), To(4))}),
        Blocks({<<>>}, {<<7>>}, {Return(<<7>>), Branch(To(5))}),
        Blocks({<<>>}, {<<8>>}, {Unreachable, Return(<<8>>)}),
        {Call(1)}, {Not(2), Eq(1, 2)}, {Call(1)}, {Not(1)}, {Call(2)}, {Call(1)}, Unused)

\* Two comparisons, read once or more, whose other arms may be the same.
Tests ==
    Family(NoBlock,
        Blocks({<<1>>}, {<<2, 3>>}, {BranchIf(3, To(2), To(4))}),
        Blocks({<<>>}, {<<5>>, <<5, 9>>}, {BranchIf(5, To(3), To(4)), BranchIf(5, To(4), To(3))}),
        Blocks({<<>>}, {<<6>>}, {Branch(To(4)), Return(<<5>>)}),
        Blocks({<<>>}, {<<>>, <<7>>}, {Return(<<1>>), Unreachable}),
        Ends,
        {One}, {Eq(1, 2), Ne(1, 2)}, {Eq(1, 2), Ne(3, 2)}, {Call(3), Call(1)},
        {Call(3)}, Unused, {Call(1), Eq(1, 5)})

\* Branches on constants, and a parameter that may be left with one value,
\* or none, or with no reader.
Folds ==
    Family(4,
        Blocks({<<1>>}, {<<2, 3>>}, {BranchIf(3, To(2), To(3)), BranchIf(1, To(2), With(4, 2))}),
        Blocks({<<>>}, {<<>>, <<5>>},
            {BranchIf(5, With(4, 5), To(3)), BranchIf(2, With(4, 1), To(3)),
             BranchIf(3, With(4, 3), To(5)), BranchIf(3, To(3), To(5))}),
        Blocks({<<>>}, {<<6>>},
            {Branch(With(4, 2)), Branch(With(4, 1)), Unreachable, Branch(To(5))}),
        Blocks({<<4>>}, {<<7>>}, {Return(<<1>>), Return(<<4>>), Branch(To(5))}),
        Blocks({<<>>}, {<<8>>}, {Return(<<2>>), Unreachable}),
        {One, Zero}, {Not(2), Call(1)}, {Call(1)}, {Call(2)}, {Call(4)}, {Call(1)}, Unused)

\* Branches both of whose ways lead to the same end, and returned selects.
Exits ==
    Family(NoBlock,
        Blocks({<<1>>}, {<<2, 3>>}, {BranchIf(1, To(2), To(3)), BranchIf(3, To(2), To(4))}),
        Blocks({<<>>}, {<<5>>},
            {Return(<<3>>), Return(<<5>>), Branch(To(4)), BranchIf(3, To(3), To(4))}),
        Blocks({<<>>}, {<<>>, <<6>>}, {Return(<<3>>), Branch(To(4))}),
        Blocks({<<>>}, {<<7>>}, {Return(<<3>>), Return(<<7>>), Return(<<7, 7>>)}),
        Ends,
        {Call(1)}, {Not(2), Chosen(1, 2, 2)}, {Call(2), Not(3), Chosen(3, 2, 1)}, {Not(3)},
        {Chosen(2, 3, 1), Chosen(1, 2, 3)}, Unused, Unused)

\* A loop at block 2 that carries value 4 and is left to 5, or from its body.
Loops ==
    Family(2,
        Blocks({<<1>>}, {<<2, 3>>}, {Branch(With(2, 3)), BranchIf(2, With(2, 1), To(5))}),
        Blocks({<<4>>}, {<<5>>},
            {BranchIf(4, To(3), To(5)), BranchIf(1, To(3), To(4)), Branch(To(3))}),
        Blocks({<<>>}, {<<6>>},
            {BranchIf(6, To(4), With(2, 4)), Branch(With(2, 6)), BranchIf(6, To(4), To(5))}),
        Blocks({<<>>}, {<<>>, <<7>>},
            {Branch(With(2, 6)), Return(<<4>>), Unreachable, BranchIf(2, With(2, 1), To(5))}),
        Blocks({<<>>}, {<<8>>}, {Return(<<2>>), Unreachable}),
        {Call(1), Zero}, {Not(2)}, {Call(4)}, {Not(4), Call(4)}, {Call(6)}, {Call(1)}, Unused)

\* Switches, some of whose arms do what others or the default do.
Switches ==
    Family(4,
        Blocks({<<1>>}, {<<2>>},
            {Switch(2, <<s, t>>, d) :
                s \in {To(2), With(4, 1), With(4, 2)}, t \in {To(3), With(4, 2), With(4, 1)},
                d \in {To(5), With(4, 1), With(4, 2)}}),
        Blocks({<<>>}, {<<5>>}, {Branch(With(4, 2)), Branch(To(5)), Return(<<1>>)}),
        Blocks({<<>>}, {<<>>}, {Branch(With(4, 2)), Branch(To(5)), Unreachable}),
        Blocks({<<4>>}, {<<7>>}, {Return(<<7>>)}),
        Blocks({<<>>}, {<<8>>}, {Return(<<8>>), Unreachable}),
        {Call(1), Zero}, {Zero}, {Call(1)}, {Zero}, {Call(4)}, {Call(1)}, Unused)

Alone(fs) == {<<[f |-> g.f, cfg |-> g.cfg, exported |-> TRUE]>> : g \in fs}

-----------------------------------------------------------------------------
(* Modules of two functions *)

\* A main function that calls a helper in some of its blocks ...
Mains ==
    Family(NoBlock,
        Blocks({<<1>>}, {<<2>>, <<2, 3>>}, {BranchIf(1, To(2), To(3))}),
        Blocks({<<>>}, {<<5>>}, {Unreachable}),
        Blocks({<<>>}, {<<6>>, <<6, 9>>},
            {Return(<<6>>), BranchIf(6, To(4), To(5)), Return(<<9>>)}),
        Blocks({<<>>}, {<<7>>}, {Return(<<7>>)}),
        Ends,
        {Call(1), Invoke1(1)}, {Pick(1, 2)}, {Invoke1(1)}, {Invoke1(1), Call(1)}, {Call(1)},
        Unused, {Pick(2, 6)})

\* ... which always traps, at once or after a call or on either of two ways,
\* or always returns, constants or something else.
Helpers ==
    Family(NoBlock,
        Blocks({<<1>>}, {<<>>, <<2>>}, {Unreachable, BranchIf(1, To(2), To(3))}),
        Blocks({<<>>}, {<<5>>}, {Unreachable}), Ends, Ends, Ends,
        {Call(1), Not(1)}, Unused, {Call(1), Not(1)}, Unused, Unused, Unused, Unused)
    \cup Family(NoBlock,
        Blocks({<<1>>}, {<<2, 3>>}, {Return(<<2, 3>>), BranchIf(1, To(2), To(3))}),
        Blocks({<<>>}, {<<>>}, {Return(<<2, 3>>), Return(<<2, 2>>), Return(<<2>>)}),
        Blocks({<<>>}, {<<>>}, {Return(<<2, 3>>), Return(<<3, 3>>)}), Ends, Ends,
        {One}, {Zero, Call(1)}, Unused, Unused, Unused, Unused, Unused)

WithHelper(mains, helpers) ==
    {<<[f |-> m.f, cfg |-> m.cfg, exported |-> TRUE],
       [f |-> h.f, cfg |-> h.cfg, exported |-> FALSE]>> : m \in mains, h \in helpers}

Programs ==
    Alone(Guards \cup Tests \cup Folds \cup Exits \cup Loops \cup Switches)
    \cup WithHelper(Mains, Helpers)

-----------------------------------------------------------------------------
(* For the violations *)

\* Helpers that return on one way and trap on the other.
HalfHelpers ==
    Family(NoBlock,
        Blocks({<<1>>}, {<<2>>}, {BranchIf(c, To(2), To(3)) : c \in {1, 2}}),
        Blocks({<<>>}, {<<>>, <<5>>}, {Return(<<2>>)}),
        Ends, Ends, Ends,
        {Not(1)}, Unused, {Not(2)}, Unused, Unused, Unused, Unused)

TrapHelperPrograms == WithHelper(Mains, HalfHelpers)

\* The parameter 9 of block 5 is passed the parameter 4 of block 4 or 1, and
\* 4 is passed 3 or 1: which, constants tell.
PhiChains ==
    {f \in [block : {<<x1, x2, x3, x4, x5>> :
                x1 \in Blocks({<<1>>}, {<<2, 3>>}, {BranchIf(c, To(2), With(5, 1)) : c \in {1, 2}}),
                x2 \in Blocks({<<>>}, {<<>>}, {BranchIf(c, With(4, 3), To(3)) : c \in {1, 2}}),
                x3 \in Blocks({<<>>}, {<<6>>}, {Branch(With(4, 1)), Branch(With(5, 6))}),
                x4 \in Blocks({<<4>>}, {<<>>, <<7>>}, {Branch(With(5, 4)), Branch(With(5, 3))}),
                x5 \in Blocks({<<9>>}, {<<8>>}, {Return(<<9>>), Unreachable})},
            def : {<<BlockParam(1, 1), One, Call(1), BlockParam(4, 1), Zero, Not(1), Call(4),
                     Call(9), BlockParam(5, 1)>>}] : WellFormed(f)}

PhiChainPrograms == Alone(WithFacts(PhiChains))
=============================================================================
