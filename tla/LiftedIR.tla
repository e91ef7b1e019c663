------------------------------ MODULE LiftedIR ------------------------------
(***************************************************************************)
(* One lifted function (sordec-ir, lifted/): an SSA control-flow graph     *)
(* whose phis are block parameters.  Blocks and values live in push-only   *)
(* arenas, so their ids are fixed intervals and nothing is ever removed:   *)
(* what a pass deletes stays behind as unscheduled residue.                *)
(*                                                                         *)
(*   f.block[b] = [params, insts, exit]    a LiftedBlock                   *)
(*   f.def[v]                              the LiftedValueDef of v         *)
(*                                                                         *)
(* All terminators have one shape, [kind, reads, targets]: `reads` holds   *)
(* the condition, the switch index or the returned values, and `targets`   *)
(* the successors with their arguments (a switch's default comes last).    *)
(* A PickOutput is an operator with one argument, "pick", and a call of    *)
(* another function of the module the operator "invoke"; `n` names the     *)
(* result picked and the function called.                                  *)
(*                                                                         *)
(* "frame" stands for the prologue of a shadow stack, global.get less a    *)
(* constant n, and "publish" for global.set.  An access reads or writes at *)
(* its first argument plus the offset n: one word, two ("load2",           *)
(* "store2"), or a part of one ("load8", "store8").                        *)
(***************************************************************************)
EXTENDS Iteration

CONSTANTS
    BlockCount,    \* the size of the block arena
    Entry          \* func.entry

Block == 1 .. BlockCount

\* The ids of f's values: passes may push more.
Arena(f) == DOMAIN f.def

ASSUME LiftedIRAssumption ==
    /\ BlockCount \in Nat \ {0}
    /\ Entry \in Block

-----------------------------------------------------------------------------
(* Terminators *)

Target(b, args) == [block |-> b, args |-> args]

Branch(t) == [kind |-> "branch", reads |-> <<>>, targets |-> <<t>>]

BranchIf(cond, t, e) ==
    [kind |-> "branch_if", reads |-> <<cond>>, targets |-> <<t, e>>]

Switch(index, ts, default) ==
    [kind |-> "switch", reads |-> <<index>>, targets |-> Append(ts, default)]

Return(vs) == [kind |-> "return", reads |-> vs, targets |-> <<>>]

Unreachable == [kind |-> "unreachable", reads |-> <<>>, targets |-> <<>>]

ExitName == {"branch", "branch_if", "switch", "return", "unreachable"}

\* Every value a terminator reads.
ExitReads(exit) ==
    ToSet(exit.reads) \cup UNION {ToSet(t.args) : t \in ToSet(exit.targets)}

-----------------------------------------------------------------------------
(* Value definitions *)

Operator(op, args) == [kind |-> "op", op |-> op, args |-> args, n |-> 0]

Numbered(op, n, args) == [kind |-> "op", op |-> op, args |-> args, n |-> n]

BlockParam(b, i) == [kind |-> "param", block |-> b, index |-> i]

Alias(v) == [kind |-> "alias", args |-> <<v>>]

IsAlias(f, v) == f.def[v].kind = "alias"

\* The values a definition reads; a block parameter reads none.
DefReads(d) == IF d.kind = "param" THEN {} ELSE ToSet(d.args)

\* The operators told apart by their effects (effects.rs): these can be
\* dropped unseen, a "load" may trap, a "call" is observable.
PureOp ==
    {"zero", "one", "not", "eq", "ne", "and", "select", "pick", "frame", "add", "const"}

PureTotal(op) == op \in PureOp

\* The constants, the last of them with the number n.
ConstOp == {"zero", "one", "const"}

\* access_shape: the accesses of one scalar, and its width in words.
ScalarOp == {"load", "store", "load2", "store2"}

Width(op) == IF op \in {"load2", "store2"} THEN 2 ELSE 1

\* sub_word_access: the accesses of a part of one.
SubWordOp == {"load8", "store8"}

Stores(op) == op \in {"store", "store2", "store8"}

OpName == PureOp \cup ScalarOp \cup SubWordOp \cup {"call", "invoke", "publish"}

-----------------------------------------------------------------------------
(* Values are numbers modulo Wrap, and addresses above them *)

Wrap == 8

\* The numbers a function is called with.
Bit == {0, 1}

Undefined == -1

\* What the memory outside the stack holds at first.
Untouched == 1

Negate(x) == IF x \in Bit THEN 1 - x ELSE Undefined

Truth(b) == IF b THEN 1 ELSE 0

\* Numbers wrap, an address is displaced by a number.
Sum(x, y) ==
    CASE x < Wrap /\ y < Wrap -> (x + y) % Wrap
      [] (x < Wrap) # (y < Wrap) -> x + y
      [] x >= Wrap /\ y >= Wrap -> Undefined

\* What a pure operator makes of its operands.
Compute(op, xs) ==
    IF Undefined \in ToSet(xs) THEN Undefined
    ELSE CASE op = "zero" -> 0
           [] op = "one" -> 1
           [] op = "not" -> Truth(xs[1] = 0)
           [] op = "eq" -> Truth(xs[1] = xs[2])
           [] op = "ne" -> Truth(xs[1] # xs[2])
           [] op = "and" -> xs[1] * xs[2]
           [] op = "add" -> Sum(xs[1], xs[2])
           [] op = "select" -> IF xs[3] = 1 THEN xs[1] ELSE xs[2]

-----------------------------------------------------------------------------
(* The graph *)

Succ(f, b) == {t.block : t \in ToSet(f.block[b].exit.targets)}

Reachable(f) ==
    Iterate(LAMBDA S : S \cup UNION {Succ(f, b) : b \in S}, {Entry}, BlockCount)

\* The edges into b, a terminator slot each: a switch that names b twice
\* contributes two.
InEdges(f, b) ==
    UNION {{p} \X {i \in DOMAIN f.block[p].exit.targets :
                      f.block[p].exit.targets[i].block = b} : p \in Block}

EdgeArgs(f, e) == f.block[e[1]].exit.targets[e[2]].args

\* d dominates b: every path from the entry to b passes through d.
Dominates(f, d, b) ==
    LET avoiding ==
            Iterate(LAMBDA S : S \cup ((UNION {Succ(f, p) : p \in S}) \ {d}),
                    {Entry} \ {d}, BlockCount)
    IN  b \notin avoiding

-----------------------------------------------------------------------------
(* Rewriting uses (declutter/mod.rs) *)

RewriteDef(d, new) ==
    IF d.kind = "param" THEN d
    ELSE [d EXCEPT !.args = Map(d.args, LAMBDA v : new[v])]

\* Faulty: the arguments of edges are not rewritten.
RewriteExit_ReadsOnly(exit, new) ==
    [exit EXCEPT !.reads = Map(exit.reads, LAMBDA v : new[v])]

RewriteExit(exit, new) ==
    [exit EXCEPT
        !.reads = Map(exit.reads, LAMBDA v : new[v]),
        !.targets = Map(exit.targets, LAMBDA t :
            Target(t.block, Map(t.args, LAMBDA v : new[v])))]

\* rewrite_uses: replace every use of v by new[v], in every definition,
\* scheduled or not, and in every terminator, reachable or not.
RewriteUses(f, new) ==
    [block |-> [b \in Block |->
                   [f.block[b] EXCEPT !.exit = RewriteExit(f.block[b].exit, new)]],
     def |-> [v \in Arena(f) |-> RewriteDef(f.def[v], new)]]

\* The schedule `insts` without the values in `gone`.
Unschedule(insts, gone) == Retain(insts, {i \in DOMAIN insts : insts[i] \notin gone})

\* Faulty: what no path reaches keeps its arguments.
DropParams_ReachedOnly(f, dead) ==
    LET keep == [b \in Block |->
                    {i \in DOMAIN f.block[b].params : f.block[b].params[i] \notin dead}]
        cut(b, t) == IF b \in Reachable(f)
                     THEN Target(t.block, Retain(t.args, keep[t.block])) ELSE t
        block == [b \in Block |->
                     [params |-> Retain(f.block[b].params, keep[b]),
                      insts |-> f.block[b].insts,
                      exit |-> [f.block[b].exit EXCEPT
                                   !.targets = Map(f.block[b].exit.targets,
                                                   LAMBDA t : cut(b, t))]]]
        place(v) == {s \in UNION {{b} \X DOMAIN block[b].params : b \in Block} :
                        block[s[1]].params[s[2]] = v}
    IN  [block |-> block,
         def |-> [v \in Arena(f) |->
                     IF place(v) = {} THEN f.def[v]
                     ELSE LET s == CHOOSE s \in place(v) : TRUE
                          IN  BlockParam(s[1], s[2])]]

\* drop_params: remove the parameters in `dead` from their blocks and the
\* matching argument from every edge, those of unreachable blocks included;
\* the definitions of the parameters that stay are renumbered.
DropParams(f, dead) ==
    LET keep == [b \in Block |->
                    {i \in DOMAIN f.block[b].params : f.block[b].params[i] \notin dead}]
        cut(t) == Target(t.block, Retain(t.args, keep[t.block]))
        block == [b \in Block |->
                     [params |-> Retain(f.block[b].params, keep[b]),
                      insts |-> f.block[b].insts,
                      exit |-> [f.block[b].exit EXCEPT
                                   !.targets = Map(f.block[b].exit.targets, cut)]]]
        masked == {b \in Block : block[b].params # f.block[b].params}
        slots == UNION {{b} \X DOMAIN block[b].params : b \in masked}
    IN  [block |-> block,
         def |-> [v \in Arena(f) |->
                     IF \E s \in slots : block[s[1]].params[s[2]] = v
                     THEN LET s == CHOOSE s \in slots : block[s[1]].params[s[2]] = v
                          IN  BlockParam(s[1], s[2])
                     ELSE f.def[v]]]

-----------------------------------------------------------------------------
(* Well-formedness *)

\* How many values a terminator reads and how many successors it names.
ExitShaped(x) ==
    CASE x.kind = "branch" -> Len(x.reads) = 0 /\ Len(x.targets) = 1
      [] x.kind = "branch_if" -> Len(x.reads) = 1 /\ Len(x.targets) = 2
      [] x.kind = "switch" -> Len(x.reads) = 1 /\ Len(x.targets) > 0
      [] x.kind = "return" -> Len(x.targets) = 0
      [] x.kind = "unreachable" -> Len(x.reads) = 0 /\ Len(x.targets) = 0
      [] OTHER -> FALSE

Terminators(V) ==
    {x \in [kind : ExitName, reads : Seq(V), targets : Seq([block : Block, args : Seq(V)])] :
        ExitShaped(x)}

\* The operands waffle gives the operators whose operands are looked at.
Operands(op) ==
    CASE op \in {"load", "load2", "load8"} -> {1}
      [] Stores(op) \/ op \in {"add", "eq", "ne"} -> {2}
      [] OTHER -> Nat

Definitions(V) ==
    [kind : {"param"}, block : Block, index : Nat]
    \cup {d \in [kind : {"alias"}, args : Seq(V)] : Len(d.args) = 1}
    \cup {d \in [kind : {"op"}, op : OpName, args : Seq(V), n : Nat] :
             Len(d.args) \in Operands(d.op)}

\* What validate_lifted_function checks, that every id is in its arena; with
\* what the types of the IR and of the operators leave possible.
IdsInArena(f) ==
    LET V == Arena(f)
    IN  f \in [block : [Block -> [params : Seq(V), insts : Seq(V), exit : Terminators(V)]],
               def : Seq(Definitions(V))]

\* Edges carry one argument per parameter, from unreachable blocks too, and
\* a parameter's definition names its block and position.
EdgesMatchParams(f) ==
    \A b \in Block :
        LET params == f.block[b].params
        IN  /\ \A e \in InEdges(f, b) : Len(EdgeArgs(f, e)) = Len(params)
            /\ \A i \in DOMAIN params : f.def[params[i]] = BlockParam(b, i)

\* Where v is defined: <<block, position>>, parameters at position 0.
DefSites(f, v) ==
    LET scheduled(b) == {i \in DOMAIN f.block[b].insts : f.block[b].insts[i] = v}
    IN  (UNION {{b} \X scheduled(b) : b \in Block})
        \cup ({b \in Block : v \in ToSet(f.block[b].params)} \X {0})

\* The value an alias chain ends in.
Root(f, v) ==
    IF ~IsAlias(f, v) THEN v
    ELSE Iterate(LAMBDA u : IF IsAlias(f, u) THEN f.def[u].args[1] ELSE u,
                 v, Cardinality({u \in Arena(f) : IsAlias(f, u)}))

\* v, or what it is an alias of, has its one definition on every path to
\* position i of block b.
AvailableAt(f, v, b, i) ==
    LET sites == DefSites(f, Root(f, v))
    IN  /\ ~IsAlias(f, Root(f, v))
        /\ Cardinality(sites) = 1
        /\ \A s \in sites :
              IF s[1] = b THEN s[2] < i ELSE Dominates(f, s[1], b)

\* Every value a reachable block reads is defined before, on every path.
DefinitionsReachUses(f) ==
    \A b \in Reachable(f) :
        LET insts == f.block[b].insts
        IN  /\ \A i \in DOMAIN insts : \A v \in DefReads(f.def[insts[i]]) :
                  AvailableAt(f, v, b, i)
            /\ \A v \in ExitReads(f.block[b].exit) :
                  AvailableAt(f, v, b, Len(insts) + 1)

WellFormed(f) ==
    IdsInArena(f) /\ EdgesMatchParams(f) /\ DefinitionsReachUses(f)
=============================================================================
