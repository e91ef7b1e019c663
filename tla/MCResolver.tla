----------------------------- MODULE MCResolver -----------------------------
(***************************************************************************)
(* Small modules for Resolver: an exported main and one or two helpers.    *)
(* Word and Tags are 16, so that n * 16 + 4 is the U32Val of n and         *)
(* n * 16 + 14 a small symbol.                                             *)
(***************************************************************************)
EXTENDS Resolver

Lit(kind, n) == [op |-> kind, args |-> <<>>, n |-> n]
I32(n) == Lit("i32", n)
I64(n) == Lit("i64", n)
U32Val(n) == I64(n * Word + U32Tag)
SmallSymbol(n) == I64(n * Tags + SymbolTag)
Phi(args) == Expr("phi", args)
Use(v) == Expr("use", <<v>>)
Call(f, args) == [op |-> "call", args |-> args, n |-> f]
Param == Phi(<<>>)

Function(exported, params, returns, def) ==
    [exported |-> exported, params |-> params, returns |-> returns, def |-> def]

Image == <<[offset |-> 2, bytes |-> <<1, 2, 3>>], [offset |-> 5, bytes |-> <<2>>]>>

Module(functions) == [functions |-> functions, image |-> Image]

\* A helper called twice, whose parameter and result pass through phis, a
\* recursive call and width moves, and which may be exported or sit in a table.
Helpers ==
    {Module(<<Function(TRUE, <<1>>, <<<<4>>>>,
                       <<Param, I32(3), k, Call(2, <<ab[1]>>), Call(2, <<ab[2]>>), g[1]>>),
              Function(g[2], <<1>>, returns, <<Param, x, y>>)>>) :
        k \in {U32Val(3), I32(15)}, ab \in {<<1, 2>>, <<3, 2>>},
        g \in {<<Phi(<<4, 5>>), FALSE>>, <<Phi(<<4, 5>>), TRUE>>,
               <<Expr("call_indirect", <<2>>), FALSE>>},
        returns \in {<<<<3>>>>, <<<<2>>, <<3>>>>},
        x \in {Use(1), Expr("conversion", <<1>>), Expr("val_encode_u32", <<1>>),
               Phi(<<1, 3>>)},
        y \in {Phi(<<1, 2>>), Phi(<<2, 3>>), Call(2, <<2>>),
               Expr("extend_s32", <<2>>)}}

\* Phis in a chain longer than the cap, shared tails and cycles among them.
Chains ==
    {Module(<<Function(TRUE, <<>>, <<<<1>>>>,
                       <<Phi(<<2>>), Phi(<<3, a>>), Phi(<<4, b>>), Phi(<<5>>), Phi(<<c>>),
                         end>>)>>) :
        a \in 2 .. 6, b \in {1, 4, 5, 6}, c \in {3, 6},
        end \in {I32(3), Expr("load", <<>>)}}

\* A symbol built in one of three ways, passed to a helper.
Symbols ==
    {Module(<<Function(TRUE, <<>>, <<<<7>>>>,
                       <<pos, len, Expr("symbol_new", <<1, 2>>), other, Phi(<<3, 4>>),
                         Call(2, <<s, 1>>), Expr("bytes_new", <<1, 4>>)>>),
              Function(FALSE, <<1, 2>>, <<<<1>>>>, <<Param, entry>>)>>) :
        pos \in {I32(5), U32Val(5), I32(15), Phi(<<1, 2>>)}, len \in {I32(1), U32Val(2)},
        other \in {SmallSymbol(2), SmallSymbol(1), Lit("symbol", 2), U32Val(1),
                   I32(14)},
        s \in {3, 4, 5}, entry \in {Param, Phi(<<1>>)}}

Programs == Chains \cup Symbols \cup Helpers
=============================================================================
