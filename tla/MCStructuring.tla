---------------------------- MODULE MCStructuring ----------------------------
(***************************************************************************)
(* The structurer and what is printed of its trees, on small functions:    *)
(* every shape of four blocks that ends in returns, branches and two-way   *)
(* branches, from three entries; functions with a switch, whose edges      *)
(* carry arguments; loops that carry two parameters; and chains one block  *)
(* longer than the depth limit.  Block 5 is reached in the chains only.    *)
(***************************************************************************)
EXTENDS RustBody, MCFacts

\* To block b, without arguments.
To(b) == Target(b, <<>>)

\* All functions with these parameters, of blocks 1 and 2, and one of these
\* exits per block; block 5 returns.
Family(p1, p2, w, x, y, z) ==
    LET BlockOf(params, exit) == [params |-> params, insts |-> <<>>, exit |-> exit]
    IN  {[block |-> <<BlockOf(p1, e1), BlockOf(p2, e2), BlockOf(<<>>, e3),
                      BlockOf(<<>>, e4), BlockOf(<<>>, Return(<<>>))>>] :
            e1 \in w, e2 \in x, e3 \in y, e4 \in z}

-----------------------------------------------------------------------------
(* Shapes *)

AnyExits ==
    {Return(<<>>)} \cup {Branch(To(b)) : b \in 1 .. 4}
    \cup {BranchIf(1, To(p[1]), To(p[2])) : p \in (1 .. 4) \X (1 .. 4)}

Shapes ==
    Family(<<>>, <<>>,
        {Branch(To(2)), BranchIf(1, To(2), To(3)), BranchIf(1, To(2), To(2))},
        {Return(<<>>)} \cup {Branch(To(b)) : b \in 1 .. 4}
            \cup {BranchIf(1, To(p[1]), To(p[2])) :
                     p \in {q \in (1 .. 4) \X (1 .. 4) : q[1] <= q[2]}},
        AnyExits,
        {Unreachable, BranchIf(1, To(2), To(3)), BranchIf(1, To(4), To(1))}
            \cup {Branch(To(b)) : b \in 1 .. 4})

\* 1 to 5 in a row, with ways back and ways around: with all of them taken
\* in a row, deeper than a limit of 4.
Chains ==
    Family(<<>>, <<>>,
        {Branch(To(2)), BranchIf(1, To(2), To(5))},
        {Branch(To(3)), BranchIf(1, To(3), To(2))},
        {Branch(To(4)), BranchIf(1, To(4), To(2)), BranchIf(1, To(4), To(5))},
        {Branch(To(5)), BranchIf(1, To(3), To(5))})

-----------------------------------------------------------------------------
(* Arguments *)

\* Block 2 has the parameter 1, the values 2 and 3 are passed.
Into == {Target(2, <<2>>), Target(2, <<3>>), To(3)}

ArgumentExits ==
    {Return(<<1>>), Unreachable, Branch(To(3)), Branch(To(4)),
     Branch(Target(2, <<1>>)), BranchIf(1, Target(2, <<1>>), To(4)),
     BranchIf(1, To(3), Target(2, <<3>>))}

Arguments ==
    Family(<<>>, <<1>>,
        {Switch(1, <<t[1], t[2]>>, t[3]) : t \in Into \X Into \X Into},
        ArgumentExits, ArgumentExits,
        {Return(<<>>), Branch(To(3))})

\* A loop at block 2 carries the values 3 and 4.  It is entered with the
\* function's parameters, 1 and 2, and run again from itself or from block
\* 4, with any arguments; block 3 leaves it, or starts it over.
Around == {Target(2, <<x, y>>) : x \in 1 .. 4, y \in 1 .. 4}

Carried ==
    Family(<<1, 2>>, <<3, 4>>,
        {Branch(Target(2, <<1, 2>>))},
        {BranchIf(1, To(4), To(3))} \cup {BranchIf(3, t, To(3)) : t \in Around},
        {Return(<<4, 3>>), Branch(To(4)), Branch(Target(2, <<2, 2>>))},
        {Return(<<3, 4>>)} \cup {Branch(t) : t \in Around})

Programs == WithFacts(Shapes \cup Chains \cup Arguments \cup Carried)

CarriedPrograms == WithFacts(Carried)
=============================================================================
