------------------------------ MODULE HighExpr ------------------------------
(***************************************************************************)
(* The expressions of the structured IR (sordec-ir, high/expr.rs):         *)
(* f.def[v] = [op, args, n] is what is bound to the value v of f.          *)
(***************************************************************************)
EXTENDS Iteration

Expr(op, args) == [op |-> op, args |-> args, n |-> 0]

ValuesOf(f) == DOMAIN f.def

\* resolve_use: the first value on the chain of uses that is not a use.
ResolveUse(f, v) ==
    IF f.def[v].op # "use" THEN v
    ELSE Iterate(LAMBDA u : IF f.def[u].op = "use" THEN f.def[u].args[1] ELSE u,
                 v, Len(f.def))
=============================================================================
