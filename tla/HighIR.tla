------------------------------- MODULE HighIR -------------------------------
(***************************************************************************)
(* The structured IR (sordec-ir, high/) and the lowering that makes it     *)
(* (sordec-passes, lowering/lift_to_high.rs).  A HighIr is a sequence of   *)
(* functions that call one another by position; a function is              *)
(*                                                                         *)
(*   [block, def, params, region, returns, exported]                       *)
(*                                                                         *)
(* block[b] lists the values scheduled in b and def[v] is the expression   *)
(* bound to v; passes may add to both.  `returns` is the table of returned *)
(* values taken at lowering, and `exported` stands for a name or a         *)
(* signature.  An expression is [op, args, n]: the operators of LiftedIR,  *)
(* "use", "phi" (a block's parameter with what its edges carry), and       *)
(* "known", a host call the recognizers between the two groups of passes   *)
(* have named, whose result is typed as a bool.                            *)
(***************************************************************************)
EXTENDS Structuring, HighExpr

BlocksOf(f) == DOMAIN f.block

-----------------------------------------------------------------------------
(* The lowering *)

\* What the edges into block b carry for its i-th parameter, in the order of
\* the blocks they leave, reachable or not (build_phi_edges).
Incoming(f, b, i) ==
    FlattenSeq([p \in Block |->
        Map(SelectSeq(f.block[p].exit.targets, LAMBDA t : t.block = b),
            LAMBDA t : t.args[i])])

LowerValue(f, v) ==
    LET d == f.def[v]
    IN  CASE d.kind = "alias" -> Expr("use", d.args)
          [] d.kind = "param" -> Expr("phi", Incoming(f, d.block, d.index))
          [] d.kind = "op" -> [op |-> d.op, args |-> d.args, n |-> d.n]

\* A region knows its selector and its returned values by now, not the block
\* they come from, and a switch's default has no slots.
RECURSIVE Settled(_)
Settled(r) ==
    LET anonymous == r.kind \in {"if", "switch", "return", "unreachable"}
    IN  [r EXCEPT
            !.label = IF anonymous THEN NoBlock ELSE @,
            !.cases = IF r.kind = "switch" THEN Front(@) ELSE <<>>,
            !.parts = Map(@, Settled)]

\* lower_function.  The terminators stay behind in the region and in the
\* table of returned values.
Lower(f, cfg, exported) ==
    [block |-> Map(f.block, LAMBDA b : b.insts),
     def |-> [v \in Arena(f) |-> LowerValue(f, v)],
     params |-> f.block[Entry].params,
     region |-> Settled(RegionOf(f, cfg)),
     returns |-> Map(SelectSeq(f.block, LAMBDA b : b.exit.kind = "return"),
                     LAMBDA b : b.exit.reads),
     exported |-> exported]

-----------------------------------------------------------------------------
(* Reading the IR *)

\* Whether dropping the binding goes unseen (effects.rs, expr_effects).
PureBinding(f, v) ==
    f.def[v].op \in {"use", "phi"} \/ PureTotal(f.def[v].op)

PureBlock(f, b) == \A v \in ToSet(f.block[b]) : PureBinding(f, v)

\* What a region reads itself, apart from its parts: a transfer's target is
\* assigned, not read.
NodeReads(n) == n.reads \o Map(n.transfer, LAMBDA t : t[2])

\* for_each_value_use: a value as often as the region reads it.
RegionReads(r) == FlattenSeq(Map(Nodes(r), NodeReads))

\* The regions that assign block parameters.
Transfers(r) == UNION {ToSet(n.transfer) : n \in ToSet(Nodes(r))}

BreaksTo(out, r) ==
    Len(SelectSeq(Nodes(r), LAMBDA n : n.kind = "break" /\ n.label = out))

\* is_bare_exit: it leaves, and carries nothing.
BareExit(r) ==
    \/ r.kind \in {"return", "unreachable"}
    \/ r.kind \in {"break", "continue"} /\ r.transfer = <<>>

\* is_terminal: control never goes on after it.
Terminal(r) == r.kind \in {"return", "unreachable", "break", "continue"}

\* is_terminating: control never falls out of r, as far as its shape tells.
RECURSIVE Terminating(_)
Terminating(r) ==
    CASE Terminal(r) -> TRUE
      [] r.kind = "sequence" -> r.parts # <<>> /\ Terminating(Last(r.parts))
      [] r.kind = "if" -> Len(r.parts) = 2 /\ \A p \in ToSet(r.parts) : Terminating(p)
      [] r.kind = "switch" -> \A p \in ToSet(r.parts) : Terminating(p)
      [] r.kind = "loop" -> Terminating(r.parts[1])
      [] OTHER -> FALSE
=============================================================================
