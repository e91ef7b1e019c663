----------------------------- MODULE MCPipeline -----------------------------
(***************************************************************************)
(* Pipeline on small instances.  An IR state carries a value and the table *)
(* saying what each pass does to it, so that one run covers every choice   *)
(* of passes that can only lower the value: the monotone passes pass.rs    *)
(* asks for, in every combination of which pass enables which.             *)
(***************************************************************************)
EXTENDS Pipeline

CONSTANTS
    MaxValue,      \* the largest value of the IR: the height of the descent
    NameLists,     \* the pass lists a manifest may register
    MaxGroups      \* the number of groups a manifest may declare

Value == 0 .. MaxValue

Behaviour == {b \in [Value -> Value] : \A v \in Value : b[v] <= v}

MCIR == [table : [PassName -> Behaviour], value : Value]

MCRun(p, i) ==
    LET v == i.table[p][i.value]
    IN  [ir |-> [i EXCEPT !.value = v], changed |-> v # i.value]

MCRange == [first : 0 .. 2, end : 0 .. 4]

MCManifest ==
    [passes : NameLists,
     groups : UNION {[1 .. n -> MCRange] : n \in 0 .. MaxGroups}]

\* Two lists of three passes, one of them with a repeated name.
ThreePasses == {<<"a", "b", "c">>, <<"a", "b", "a">>}
=============================================================================
