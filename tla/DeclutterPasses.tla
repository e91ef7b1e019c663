--------------------------- MODULE DeclutterPasses ---------------------------
(***************************************************************************)
(* The six de-cluttering passes (sordec-passes, declutter/) as functions   *)
(* of one lifted function.  Each returns [ir, changed]: the function it    *)
(* leaves and the flag its PassResult carries, derived from the counters   *)
(* the code derives it from and not from a comparison of the two IRs.      *)
(***************************************************************************)
EXTENDS LiftedIR

CONSTANTS
    MaxChain,    \* resolve_aliases.rs, MAX_CHAIN: hops along an alias chain
    MaxHops      \* thread_jumps.rs, MAX_HOPS: forwarders one edge is chased over

ASSUME DeclutterPassesAssumption == MaxChain \in Nat \ {0, 1} /\ MaxHops \in Nat \ {0}

Result(f, changed) == [ir |-> f, changed |-> changed]

-----------------------------------------------------------------------------
(* resolve-aliases *)

\* terminal_map: where each alias chain ends, or where the capped chase did.
TerminalMap(f) ==
    [v \in Arena(f) |->
        Iterate(LAMBDA u : IF IsAlias(f, u) THEN f.def[u].args[1] ELSE u,
                v, MaxChain)]

ResolveAliases(f) ==
    LET terminal == TerminalMap(f)
        rewired == RewriteUses(f, terminal)
        stale == {v \in Arena(f) : /\ IsAlias(rewired, v)
                                /\ terminal[v] # rewired.def[v].args[1]
                                /\ terminal[v] # v}
        flat == [rewired EXCEPT
                    !.def = [v \in Arena(f) |-> IF v \in stale THEN Alias(terminal[v])
                                             ELSE rewired.def[v]]]
    IN  IF \A v \in Arena(f) : terminal[v] = v THEN Result(f, FALSE)
        ELSE Result(flat, rewired # f \/ stale # {})

-----------------------------------------------------------------------------
(* prune-trivial-phis *)

\* The parameters a pass may remove: reachable blocks', never the entry's.
Slots(f) ==
    UNION {{b} \X DOMAIN f.block[b].params : b \in Reachable(f) \ {Entry}}

ParamAt(f, s) == f.block[s[1]].params[s[2]]

LiveInEdges(f, b) == {e \in InEdges(f, b) : e[1] \in Reachable(f)}

\* A parent map sends a parameter found trivial to its replacement and
\* every other value to itself.
Resolve(parent, v) == Iterate(LAMBDA u : parent[u], v, Len(parent))

\* What the in-edges pass to slot s, other than its own parameter.
Incoming(f, parent, s) ==
    {Resolve(parent, EdgeArgs(f, e)[s[2]]) : e \in LiveInEdges(f, s[1])}
        \ {ParamAt(f, s)}

\* Slot s is trivial: all in-edges pass one value, or its own parameter.
Unify(f, parent, s) ==
    LET vs == Incoming(f, parent, s)
    IN  IF parent[ParamAt(f, s)] = ParamAt(f, s) /\ Cardinality(vs) = 1
        THEN [parent EXCEPT ![ParamAt(f, s)] = CHOOSE v \in vs : TRUE]
        ELSE parent

\* One scan of all slots in arena order; a replacement found is seen by the
\* slots after it.
UnifyBlock(f, parent, b) ==
    IF b \in Reachable(f) \ {Entry}
    THEN FoldOver(LAMBDA m, i : Unify(f, m, <<b, i>>), parent,
             [i \in DOMAIN f.block[b].params |-> i])
    ELSE parent

UnifyAll(f, parent) ==
    FoldOver(LAMBDA m, b : UnifyBlock(f, m, b), parent, [b \in Block |-> b])

PruneTrivialPhis(f) ==
    LET parent == Iterate(LAMBDA m : UnifyAll(f, m), [v \in Arena(f) |-> v],
                          Cardinality(Slots(f)))
        pruned == {v \in Arena(f) : parent[v] # v}
        replacement == [v \in Arena(f) |-> Resolve(parent, v)]
        dropped == DropParams(RewriteUses(f, replacement), pruned)
        tombstoned == [dropped EXCEPT
            !.def = [v \in Arena(f) |-> IF v \in pruned THEN Alias(replacement[v])
                                     ELSE dropped.def[v]]]
    IN  IF pruned = {} THEN Result(f, FALSE) ELSE Result(tombstoned, TRUE)

-----------------------------------------------------------------------------
(* prune-dead-params *)

\* Values read other than through an argument for a removable slot: by
\* scheduled definitions, by conditions, indices and returns, and by
\* arguments into parameters that always stay.
ReadDirectly(f) ==
    LET reached == Reachable(f)
        byValues == UNION {DefReads(f.def[v]) :
                              v \in UNION {ToSet(f.block[b].insts) : b \in reached}}
        byExits == UNION {ToSet(f.block[b].exit.reads) : b \in reached}
        targets == UNION {ToSet(f.block[b].exit.targets) : b \in reached}
        byArgs == UNION {{t.args[i] : i \in {j \in DOMAIN t.args :
                                                <<t.block, j>> \notin Slots(f)}} :
                            t \in targets}
    IN  byValues \cup byExits \cup byArgs

\* The slots whose parameter feeds slot s along some edge.
Feeders(f, s) ==
    LET args == {EdgeArgs(f, e)[s[2]] : e \in LiveInEdges(f, s[1])}
    IN  {r \in Slots(f) : ParamAt(f, r) \in args}

\* Faulty: the greatest fixpoint, where a cycle keeps itself alive.
LiveSlots_Greatest(f) ==
    Iterate(LAMBDA live : {s \in live :
                \/ ParamAt(f, s) \in ReadDirectly(f)
                \/ \E r \in live : s \in Feeders(f, r)},
            Slots(f), Cardinality(Slots(f)))

\* The least fixpoint: an unread cycle of parameters stays dead.
LiveSlots(f) ==
    Iterate(LAMBDA live : live \cup UNION {Feeders(f, s) : s \in live},
            {s \in Slots(f) : ParamAt(f, s) \in ReadDirectly(f)},
            Cardinality(Slots(f)))

PruneDeadParams(f) ==
    LET dead == {ParamAt(f, s) : s \in Slots(f) \ LiveSlots(f)}
    IN  IF dead = {} THEN Result(f, FALSE) ELSE Result(DropParams(f, dead), TRUE)

-----------------------------------------------------------------------------
(* thread-jumps *)

\* Faulty: readers of the parameters elsewhere do not matter.
Private_Always(f, b) == TRUE

\* The parameters of b are read by nothing but b's own terminator.  Residue
\* counts as a reader: DefUseIndex looks at every definition in the arena.
Private(f, b) ==
    \A p \in ToSet(f.block[b].params) :
        /\ \A v \in Arena(f) : p \notin DefReads(f.def[v])
        /\ \A c \in Block \ {b} : p \notin ExitReads(f.block[c].exit)

Empty(f, b) == f.block[b].insts = <<>>

ExitKind(f, b) == f.block[b].exit.kind

Forwards(f, b) == Empty(f, b) /\ ExitKind(f, b) = "branch" /\ Private(f, b)

Substitute(params, args, v) ==
    IF v \in ToSet(params)
    THEN args[CHOOSE i \in DOMAIN params : params[i] = v] ELSE v

\* One hop of the chase: from the forwarder c.at names to where it goes.
Hop(f, c) ==
    LET b == c.at.block
        params == f.block[b].params
        next == f.block[b].exit.targets[1]
    IN  IF c.stopped \/ b \in c.visited THEN [c EXCEPT !.stopped = TRUE]
        ELSE IF /\ Forwards(f, b)
                /\ Len(params) = Len(c.at.args)
                /\ next.block # b
             THEN [c EXCEPT
                     !.visited = @ \cup {b},
                     !.at = Target(next.block,
                              Map(next.args, LAMBDA v : Substitute(params, c.at.args, v)))]
             ELSE [c EXCEPT !.stopped = TRUE]

\* Where an edge ends up when it skips every forwarder on its way.
Chase(f, t) ==
    Iterate(LAMBDA c : Hop(f, c), [at |-> t, visited |-> {}, stopped |-> FALSE],
            MaxHops).at

\* An unconditional branch to an empty exit block takes over its exit.
InlineExit(f, exit) ==
    LET t == exit.targets[1]
        params == f.block[t.block].params
    IN  IF exit.kind # "branch" \/ ~Empty(f, t.block) THEN exit
        ELSE IF ExitKind(f, t.block) = "return" /\ Len(params) = Len(t.args)
             THEN Return(Map(f.block[t.block].exit.reads,
                             LAMBDA v : Substitute(params, t.args, v)))
        ELSE IF ExitKind(f, t.block) = "unreachable" THEN Unreachable
        ELSE exit

\* Every edge is chased through, and every exit inlined from, the function
\* as it was before the pass.
ThreadTrivialJumps(f) ==
    LET skip(exit) == [exit EXCEPT !.targets = Map(exit.targets, LAMBDA t : Chase(f, t))]
        threaded == [b \in Block |-> skip(f.block[b].exit)]
        inlined == [b \in Block |-> InlineExit(f, threaded[b])]
        jumped == {b \in Block : threaded[b].targets # f.block[b].exit.targets}
        ended == {b \in Block : inlined[b].kind # threaded[b].kind}
    IN  Result([f EXCEPT !.block = [b \in Block |->
                                       [f.block[b] EXCEPT !.exit = inlined[b]]]],
               jumped \cup ended # {})

-----------------------------------------------------------------------------
(* merge-chains *)

InCount(f) == [b \in Block |-> Cardinality(InEdges(f, b))]

Successor(f, a) == f.block[a].exit.targets[1].block

\* a ends in the only edge into its successor, which has no parameters.
Mergeable(s, a) ==
    /\ ExitKind(s.ir, a) = "branch"
    /\ LET b == Successor(s.ir, a)
       IN  /\ b \notin {a, Entry}
           /\ s.count[b] = 1
           /\ s.ir.block[b].params = <<>>

Tombstone(params) == [params |-> params, insts |-> <<>>, exit |-> Unreachable]

\* Splice the successor of a onto a, leaving an empty block behind.
Splice(s, a) ==
    LET b == Successor(s.ir, a)
        A == s.ir.block[a]
        B == s.ir.block[b]
        spliced == [params |-> A.params, insts |-> A.insts \o B.insts, exit |-> B.exit]
    IN  [ir |-> [s.ir EXCEPT !.block[a] = spliced, !.block[b] = Tombstone(B.params)],
         count |-> [s.count EXCEPT ![b] = 0],
         merged |-> s.merged + 1]

\* The whole chain hanging off a collapses before the next block is tried.
MergeFrom(s, a) ==
    Iterate(LAMBDA t : IF Mergeable(t, a) THEN Splice(t, a) ELSE t, s, BlockCount)

MergeBlockChains(f) ==
    LET s == FoldOver(MergeFrom, [ir |-> f, count |-> InCount(f), merged |-> 0],
                  [b \in Block |-> b])
    IN  Result(s.ir, s.merged > 0)

-----------------------------------------------------------------------------
(* sweep-dead *)

\* Faulty: a block is cleared, and counted, whether or not it already was.
ToClear_Recounts(f) == Block \ Reachable(f)

\* The unreachable blocks that still hold something.
ToClear(f) == {b \in Block \ Reachable(f) : f.block[b] # Tombstone(<<>>)}

\* ~is_pure_total: what may not be unscheduled even when nothing reads it.
MustStay(f, v) ==
    CASE f.def[v].kind = "op" -> ~PureTotal(f.def[v].op)
      [] f.def[v].kind = "alias" -> FALSE
      [] f.def[v].kind = "param" -> TRUE

\* Marked by the worklist: read by a reachable terminator, or must stay, or
\* an operand of a marked value.
Marked(f) ==
    LET reached == Reachable(f)
        roots == (UNION {ExitReads(f.block[b].exit) : b \in reached})
            \cup {v \in UNION {ToSet(f.block[b].insts) : b \in reached} : MustStay(f, v)}
    IN  Iterate(LAMBDA S : S \cup UNION {DefReads(f.def[v]) : v \in S},
                roots, Len(f.def))

SweepDead(f) ==
    LET cleared == ToClear(f)
        idle == [b \in Block |-> ToSet(f.block[b].insts) \ Marked(f)]
        swept == {b \in Reachable(f) : idle[b] # {}}
        block == [b \in Block |->
                     CASE b \in cleared -> Tombstone(<<>>)
                       [] b \in swept -> [f.block[b] EXCEPT !.insts = Unschedule(@, idle[b])]
                       [] OTHER -> f.block[b]]
    IN  Result([f EXCEPT !.block = block], cleared # {} \/ swept # {})
=============================================================================
