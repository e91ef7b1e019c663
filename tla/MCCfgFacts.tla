----------------------------- MODULE MCCfgFacts -----------------------------
(***************************************************************************)
(* The control-flow facts of every graph of four blocks that end in a      *)
(* return, a branch or a two-way branch: loops, loops with two entries and *)
(* unreachable blocks included.  The entry's successors are numbered       *)
(* lowest: other choices only rename blocks.  Blocks 2 and 3 list two      *)
(* successors in either order, block 4 in one.                             *)
(***************************************************************************)
EXTENDS CfgFacts

Singles == {<<>>} \cup {<<b>> : b \in Block}

Pairs == {<<p[1], p[2]>> : p \in {q \in Block \X Block : q[1] # q[2]}}

MCGraph ==
    {<<e, x, y, z>> : e \in {<<>>, <<2>>, <<1, 2>>, <<2, 3>>},
                      x \in Singles \cup Pairs,
                      y \in Singles \cup Pairs,
                      z \in Singles \cup {p \in Pairs : p[1] < p[2]}}
=============================================================================
