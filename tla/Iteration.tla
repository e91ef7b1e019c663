----------------------------- MODULE Iteration -----------------------------
(***************************************************************************)
(* Sequences and loops, for the modules about the two IRs.                 *)
(***************************************************************************)
EXTENDS Naturals, SequencesExt

Map(seq, Op(_)) == <<>> \o [i \in DOMAIN seq |-> Op(seq[i])]

\* Step applied n times to x.  Loops that grow a set or a map "until nothing
\* changes" are written with it: n is then the number of times they can grow.
Iterate(Step(_), x, n) ==
    LET it[k \in 0 .. n] ==
            IF k = 0 THEN x ELSE LET y == it[k - 1] IN Step(y)
    IN  it[n]

\* x worked over with Op by each item of seq in turn.  (The library's FoldLeft,
\* in a form that can be proved about.)
FoldOver(Op(_, _), x, seq) ==
    LET it[k \in 0 .. Len(seq)] ==
            IF k = 0 THEN x ELSE LET y == it[k - 1] IN Op(y, seq[k])
    IN  it[Len(seq)]

\* The k-th smallest of a set of numbers, and all of them in order.
Nth(S, k) == CHOOSE i \in S : Cardinality({j \in S : j <= i}) = k

InOrder(S) == <<>> \o [k \in 1 .. Cardinality(S) |-> Nth(S, k)]

\* The items of seq at the positions in `keep`.
Retain(seq, keep) == Map(InOrder(keep \cap DOMAIN seq), LAMBDA i : seq[i])
=============================================================================
