--------------------------- MODULE DeclutterProofs ---------------------------
(***************************************************************************)
(* Proofs about the declutter fixpoint group: that all ten passes keep a   *)
(* function valid and own up to every change, so that the loop hands on a  *)
(* fixpoint of them, and what such a fixpoint looks like.                  *)
(***************************************************************************)
EXTENDS Declutter, FiniteSetTheorems, SequenceTheorems, WellFoundedInduction, TLAPS

-----------------------------------------------------------------------------
(* Induction, over sets of numbers                                         *)

\* A set of numbers has a least one.
LEMMA LeastNumber ==
    ASSUME NEW T \in SUBSET Nat, T # {}
    PROVE  \E x \in T : \A y \in T : x <= y
<1>1. PICK x \in T : \A y \in T : ~(<<y, x>> \in OpToRel(<, Nat))
  BY NatLessThanWellFounded, WFMin
<1>2. \A y \in T : ~(y < x)
  BY <1>1 DEF OpToRel
<1> QED
  BY <1>2

\* What holds of 0 and passes from each k < n to k + 1 holds up to n.
LEMMA Induct ==
    ASSUME NEW n \in Nat, NEW T, 0 \in T, \A k \in 0 .. n - 1 : k \in T => k + 1 \in T
    PROVE  \A k \in 0 .. n : k \in T
<1> SUFFICES ASSUME NEW m \in 0 .. n, m \notin T PROVE FALSE
  OBVIOUS
<1> DEFINE U == {k \in 0 .. n : k \notin T}
<1>1. PICK x \in U : \A y \in U : x <= y
  <2>1. U \in SUBSET Nat /\ U # {}
    OBVIOUS
  <2> QED BY <2>1, LeastNumber
<1>2. x # 0 /\ x - 1 \in 0 .. n - 1 /\ x - 1 \notin U
  BY <1>1
<1> QED
  BY <1>1, <1>2

\* A run that starts in A and never leaves it.
LEMMA Stays ==
    ASSUME NEW n \in Nat, NEW it, NEW A, it[0] \in A,
           \A k \in 0 .. n - 1 : it[k] \in A => it[k + 1] \in A
    PROVE  \A k \in 0 .. n : it[k] \in A
<1> DEFINE T == {k \in 0 .. n : it[k] \in A}
<1>1. 0 \in T /\ \A k \in 0 .. n - 1 : k \in T => k + 1 \in T
  OBVIOUS
<1>2. \A k \in 0 .. n : k \in T
  <2> HIDE DEF T
  <2> QED BY <1>1, Induct
<1> QED
  BY <1>2

\* A function on A, and a function of A and of the position, can be applied
\* over and over.
Steps(A, n) == [1 .. n -> [A -> A]]

\* A run of the steps F from x, within A.
Runs(A, x, n, F) ==
    \E it \in [0 .. n -> A] : it[0] = x /\ \A k \in 1 .. n : it[k] = F[k][it[k - 1]]

\* The steps F, taken one after another from x, make a run.
LEMMA Iterated ==
    ASSUME NEW A, NEW x \in A, NEW n \in Nat, NEW F \in Steps(A, n)
    PROVE  Runs(A, x, n, F)
<1> USE DEF Steps, Runs
<1> DEFINE P(m) == \E it \in [0 .. m -> A] :
                       it[0] = x /\ \A k \in 1 .. m : it[k] = F[k][it[k - 1]]
           T == {m \in 0 .. n : P(m)}
<1>1. P(0)
  <2> DEFINE start == [k \in 0 .. 0 |-> x]
  <2>1. start \in [0 .. 0 -> A] /\ start[0] = x /\ \A k \in 1 .. 0 : FALSE
    OBVIOUS
  <2> HIDE DEF start
  <2> QED BY <2>1
<1>2. ASSUME NEW m \in 0 .. n - 1, P(m) PROVE P(m + 1)
  <2>1. PICK it \in [0 .. m -> A] :
               it[0] = x /\ \A k \in 1 .. m : it[k] = F[k][it[k - 1]]
    BY <1>2
  <2> DEFINE new == [k \in 0 .. m + 1 |-> IF k <= m THEN it[k] ELSE F[m + 1][it[m]]]
  <2>2. new \in [0 .. m + 1 -> A]
    <3>1. it[m] \in A /\ F[m + 1] \in [A -> A]
      OBVIOUS
    <3>2. F[m + 1][it[m]] \in A
      BY <3>1
    <3> QED BY <3>2
  <2>3. new[0] = x /\ \A k \in 1 .. m + 1 : new[k] = F[k][new[k - 1]]
    <3>1. new[0] = it[0] /\ (\A k \in 1 .. m : new[k] = it[k] /\ new[k - 1] = it[k - 1])
          /\ new[m + 1] = F[m + 1][it[m]] /\ new[m] = it[m]
      OBVIOUS
    <3> QED BY <2>1, <3>1
  <2> HIDE DEF new
  <2> QED BY <2>2, <2>3
<1>3. 0 \in T /\ \A k \in 0 .. n - 1 : k \in T => k + 1 \in T
  <2> HIDE DEF P
  <2> QED BY <1>1, <1>2
<1>4. \A k \in 0 .. n : k \in T
  <2> HIDE DEF T
  <2> QED BY <1>3, Induct
<1>5. n \in 0 .. n
  OBVIOUS
<1>6. n \in T
  <2> HIDE DEF T
  <2> QED BY <1>4, <1>5
<1> QED
  <2> HIDE DEF P
  <2>1. P(n)
    BY <1>6
  <2> QED BY <2>1 DEF P
-----------------------------------------------------------------------------
(* The order of a finite set of numbers                                    *)

\* How many members of S come up to i.
Rank(S, i) == Cardinality({j \in S : j <= i})

\* The members of S are ranked from 1 on, the greater the higher.
LEMMA RanksAscend ==
    ASSUME NEW S \in SUBSET Int, IsFiniteSet(S)
    PROVE  /\ Cardinality(S) \in Nat
           /\ \A i \in S : Rank(S, i) \in 1 .. Cardinality(S)
           /\ \A i, j \in S : i < j => Rank(S, i) < Rank(S, j)
<1> DEFINE Upto(i) == {j \in S : j <= i}
<1>1. Cardinality(S) \in Nat
  BY FS_CardinalityType
<1>2. \A i \in Int : /\ IsFiniteSet(Upto(i))
                     /\ Cardinality(Upto(i)) \in Nat
                     /\ Cardinality(Upto(i)) <= Cardinality(S)
  <2> SUFFICES ASSUME NEW i \in Int
               PROVE  /\ IsFiniteSet(Upto(i))
                      /\ Cardinality(Upto(i)) \in Nat
                      /\ Cardinality(Upto(i)) <= Cardinality(S)
    OBVIOUS
  <2>1. Upto(i) \in SUBSET S
    OBVIOUS
  <2> HIDE DEF Upto
  <2> QED BY <2>1, FS_Subset, FS_CardinalityType
<1>3. ASSUME NEW i \in S PROVE Rank(S, i) \in 1 .. Cardinality(S)
  <2>1. i \in Upto(i) /\ Rank(S, i) = Cardinality(Upto(i))
    BY DEF Rank
  <2> HIDE DEF Upto
  <2>2. Cardinality(Upto(i)) # 0
    BY <2>1, <1>2, FS_EmptySet
  <2> QED BY <1>1, <1>2, <2>1, <2>2
<1>4. ASSUME NEW i \in S, NEW j \in S, i < j PROVE Rank(S, i) < Rank(S, j)
  <2>1. Upto(i) \subseteq Upto(j) /\ j \in Upto(j) /\ j \notin Upto(i)
    <3>1. (\A x \in S : x <= i => x <= j) /\ j <= j /\ ~(j <= i)
      BY <1>4
    <3> QED BY <3>1, Zenon
  <2>2. Rank(S, i) = Cardinality(Upto(i)) /\ Rank(S, j) = Cardinality(Upto(j))
    BY DEF Rank
  <2> HIDE DEF Upto
  <2>3. Cardinality(Upto(i)) <= Cardinality(Upto(j))
        /\ Cardinality(Upto(j)) # Cardinality(Upto(i))
    <3>1. IsFiniteSet(Upto(j))
      BY <1>2
    <3>2. Upto(i) \in SUBSET Upto(j)
      BY <2>1
    <3> QED BY <3>1, <3>2, <2>1, FS_Subset
  <2>4. i \in Int /\ j \in Int
    OBVIOUS
  <2> QED BY <1>2, <2>2, <2>3, <2>4
<1> QED
  BY <1>1, <1>3, <1>4

\* Nth runs through the members of S in ascending order, and misses none.
LEMMA NthAscends ==
    ASSUME NEW S \in SUBSET Int, IsFiniteSet(S)
    PROVE  /\ Cardinality(S) \in Nat
           /\ \A k \in 1 .. Cardinality(S) : Nth(S, k) \in S /\ Rank(S, Nth(S, k)) = k
           /\ \A k, l \in 1 .. Cardinality(S) : k < l => Nth(S, k) < Nth(S, l)
           /\ \A i \in S : Rank(S, i) \in 1 .. Cardinality(S) /\ Nth(S, Rank(S, i)) = i
<1> DEFINE n == Cardinality(S)
           R == [i \in S |-> Rank(S, i)]
<1>1. n \in Nat /\ (\A i \in S : Rank(S, i) \in 1 .. n)
      /\ \A i, j \in S : i < j => Rank(S, i) < Rank(S, j)
  BY RanksAscend
<1>2. \A i, j \in S : Rank(S, i) = Rank(S, j) => i = j
  <2> SUFFICES ASSUME NEW i \in S, NEW j \in S, i # j PROVE Rank(S, i) # Rank(S, j)
    OBVIOUS
  <2>1. i < j \/ j < i
    OBVIOUS
  <2>2. Rank(S, i) \in Int /\ Rank(S, j) \in Int
    BY <1>1
  <2> QED BY <1>1, <2>1, <2>2
<1>3. R \in Injection(S, 1 .. n)
  BY <1>1, <1>2 DEF Injection, IsInjective
<1>4. R \in Surjection(S, 1 .. n)
  <2>1. IsFiniteSet(1 .. n) /\ Cardinality(1 .. n) = n
    BY <1>1, FS_Interval
  <2> HIDE DEF R
  <2> QED BY <1>3, <2>1, FS_Injection
<1>5. ASSUME NEW k \in 1 .. n PROVE Nth(S, k) \in S /\ Rank(S, Nth(S, k)) = k
  <2>1. \E i \in S : Rank(S, i) = k
    BY <1>4 DEF Surjection
  <2> QED BY <2>1 DEF Nth, Rank
<1>6. ASSUME NEW k \in 1 .. n, NEW l \in 1 .. n, k < l PROVE Nth(S, k) < Nth(S, l)
  <2>1. Nth(S, k) \in S /\ Rank(S, Nth(S, k)) = k /\ Nth(S, l) \in S /\ Rank(S, Nth(S, l)) = l
    BY <1>5
  <2>2. Nth(S, k) \in Int /\ Nth(S, l) \in Int
    BY <2>1
  <2>3. CASE Nth(S, l) < Nth(S, k)
    <3>1. Rank(S, Nth(S, l)) < Rank(S, Nth(S, k))
      BY <2>1, <2>3, <1>1
    <3> QED BY <2>1, <3>1, <1>1, <1>6
  <2>4. CASE Nth(S, l) = Nth(S, k)
    BY <2>1, <2>4, <1>6
  <2> QED BY <2>2, <2>3, <2>4
<1>7. ASSUME NEW i \in S PROVE Rank(S, i) \in 1 .. n /\ Nth(S, Rank(S, i)) = i
  BY <1>1, <1>2, <1>5
<1> QED
  BY <1>1, <1>5, <1>6, <1>7

\* An interval is in order as it stands.
LEMMA NthOfInterval ==
    ASSUME NEW n \in Nat
    PROVE  IsFiniteSet(1 .. n) /\ Cardinality(1 .. n) = n /\ \A k \in 1 .. n : Nth(1 .. n, k) = k
<1>1. IsFiniteSet(1 .. n) /\ Cardinality(1 .. n) = n
  BY FS_Interval
<1>2. ASSUME NEW k \in 1 .. n PROVE Rank(1 .. n, k) = k
  <2>1. {j \in 1 .. n : j <= k} = 1 .. k
    OBVIOUS
  <2>2. Cardinality(1 .. k) = k
    BY FS_Interval
  <2> QED BY <2>1, <2>2 DEF Rank
<1>3. 1 .. n \in SUBSET Int
  OBVIOUS
<1> QED
  BY <1>1, <1>2, <1>3, NthAscends

-----------------------------------------------------------------------------
(* Sequences                                                               *)

\* Putting nothing in front changes nothing.
LEMMA EmptyFront ==
    ASSUME NEW n \in Nat, NEW s, s = [i \in 1 .. n |-> s[i]]
    PROVE  <<>> \o s = s /\ Len(s) = n /\ DOMAIN s = 1 .. n
<1>1. s \in Seq({s[i] : i \in 1 .. n})
  BY IsASeq
<1> QED BY <1>1

\* What InOrder lists.
LEMMA InOrderLists ==
    ASSUME NEW S \in SUBSET Int, IsFiniteSet(S)
    PROVE  /\ Cardinality(S) \in Nat
           /\ InOrder(S) \in Seq(S)
           /\ Len(InOrder(S)) = Cardinality(S)
           /\ DOMAIN InOrder(S) = 1 .. Cardinality(S)
           /\ \A k \in 1 .. Cardinality(S) : InOrder(S)[k] = Nth(S, k)
<1> DEFINE n == Cardinality(S)
           s == [k \in 1 .. n |-> Nth(S, k)]
<1>1. n \in Nat /\ \A k \in 1 .. n : Nth(S, k) \in S
  BY NthAscends
<1>2. s = [k \in 1 .. n |-> s[k]]
  OBVIOUS
<1>3. InOrder(S) = s /\ Len(s) = n /\ DOMAIN s = 1 .. n
  <2>1. InOrder(S) = <<>> \o s
    BY DEF InOrder
  <2> HIDE DEF s
  <2> QED BY <1>1, <1>2, <2>1, EmptyFront
<1>4. s \in Seq(S)
  BY <1>1
<1> QED
  BY <1>1, <1>3, <1>4

\* The positions Retain keeps: which, and that they come in order.
Kept(seq, keep) == InOrder(keep \cap DOMAIN seq)

\* Retaining makes a sequence over the same values, no longer than it was.
LEMMA RetainKeeps ==
    ASSUME NEW A, NEW seq \in Seq(A), NEW keep
    PROVE  LET K == keep \cap DOMAIN seq
           IN  /\ Cardinality(K) \in Nat
               /\ Retain(seq, keep) \in Seq(A)
               /\ Len(Retain(seq, keep)) = Cardinality(K)
               /\ \A k \in 1 .. Cardinality(K) :
                     /\ Nth(K, k) \in K
                     /\ Retain(seq, keep)[k] = seq[Nth(K, k)]
               /\ \A k, l \in 1 .. Cardinality(K) : k < l => Nth(K, k) < Nth(K, l)
<1> DEFINE K == keep \cap DOMAIN seq
           n == Cardinality(K)
           r == [k \in 1 .. n |-> seq[Nth(K, k)]]
<1>1. K \in SUBSET Int /\ IsFiniteSet(K)
  <2>1. IsFiniteSet(1 .. Len(seq))
    BY FS_Interval
  <2>2. K \in SUBSET (1 .. Len(seq))
    OBVIOUS
  <2> QED BY <2>1, <2>2, FS_Subset
<1>2. /\ n \in Nat
      /\ \A k \in 1 .. n : Nth(K, k) \in K
      /\ \A k, l \in 1 .. n : k < l => Nth(K, k) < Nth(K, l)
  <2> HIDE DEF K
  <2> QED BY <1>1, NthAscends
<1>3. Retain(seq, keep) = <<>> \o r
  <2>1. DOMAIN InOrder(K) = 1 .. n /\ \A k \in 1 .. n : InOrder(K)[k] = Nth(K, k)
    <3> HIDE DEF K
    <3> QED BY <1>1, InOrderLists
  <2>2. Retain(seq, keep) = <<>> \o [k \in DOMAIN InOrder(K) |-> seq[InOrder(K)[k]]]
    BY DEF Retain, Map
  <2> HIDE DEF K
  <2>3. [k \in DOMAIN InOrder(K) |-> seq[InOrder(K)[k]]] = r
    BY <2>1
  <2> QED BY <2>2, <2>3
<1>4. r = [k \in 1 .. n |-> r[k]] /\ r \in Seq(A)
  <2>1. \A k \in 1 .. n : seq[Nth(K, k)] \in A
    <3>1. \A k \in 1 .. n : Nth(K, k) \in DOMAIN seq
      BY <1>2, Zenon
    <3>2. \A i \in DOMAIN seq : seq[i] \in A
      OBVIOUS
    <3> QED BY <3>1, <3>2, Zenon
  <2> HIDE DEF K
  <2> QED BY <1>2, <2>1
<1>5. <<>> \o r = r /\ Len(r) = n
  <2> HIDE DEF r
  <2> QED BY <1>2, <1>4, EmptyFront
<1> QED
  BY <1>2, <1>3, <1>4, <1>5

\* Nothing goes when every position is kept.
LEMMA RetainAll ==
    ASSUME NEW A, NEW seq \in Seq(A), NEW keep, DOMAIN seq \subseteq keep
    PROVE  Retain(seq, keep) = seq
<1>1. keep \cap DOMAIN seq = 1 .. Len(seq)
  OBVIOUS
<1>2. /\ Retain(seq, keep) \in Seq(A)
      /\ Len(Retain(seq, keep)) = Cardinality(1 .. Len(seq))
      /\ \A k \in 1 .. Cardinality(1 .. Len(seq)) :
            Retain(seq, keep)[k] = seq[Nth(1 .. Len(seq), k)]
  BY <1>1, RetainKeeps
<1>3. /\ Cardinality(1 .. Len(seq)) = Len(seq)
      /\ \A k \in 1 .. Len(seq) : Nth(1 .. Len(seq), k) = k
  BY NthOfInterval
<1>4. Len(Retain(seq, keep)) = Len(seq) /\ \A k \in 1 .. Len(seq) : Retain(seq, keep)[k] = seq[k]
  BY <1>2, <1>3
<1> QED
  BY <1>2, <1>4, SeqEqual
-----------------------------------------------------------------------------
(* The parts of a function                                                 *)

\* An edge, with arguments in V.
TargetOf(V) == [block : Block, args : Seq(V)]

\* What a terminator is made of.
LEMMA TerminatorParts ==
    ASSUME NEW V, NEW x \in Terminators(V)
    PROVE  /\ x.reads \in Seq(V)
           /\ x.targets \in Seq(TargetOf(V))
           /\ x = [kind |-> x.kind, reads |-> x.reads, targets |-> x.targets]
           /\ x.kind \in ExitName
           /\ ExitShaped(x)
BY DEF Terminators, TargetOf

\* What each target of a terminator is made of.
LEMMA TargetParts ==
    ASSUME NEW V, NEW x \in Terminators(V), NEW i \in DOMAIN x.targets
    PROVE  /\ x.targets[i] \in TargetOf(V)
           /\ x.targets[i].block \in Block
           /\ x.targets[i].args \in Seq(V)
           /\ x.targets[i] = Target(x.targets[i].block, x.targets[i].args)
<1>1. x.targets[i] \in TargetOf(V)
  BY TerminatorParts
<1> QED
  BY <1>1 DEF TargetOf, Target

\* How many successors each kind of terminator has.
LEMMA TerminatorKinds ==
    ASSUME NEW x, ExitShaped(x)
    PROVE  /\ x.kind \in {"branch", "branch_if", "switch", "return", "unreachable"}
           /\ x.kind = "branch" => Len(x.reads) = 0 /\ Len(x.targets) = 1
           /\ x.kind = "branch_if" => Len(x.reads) = 1 /\ Len(x.targets) = 2
           /\ x.kind = "switch" => Len(x.reads) = 1 /\ Len(x.targets) > 0
           /\ x.kind = "return" => Len(x.targets) = 0
           /\ x.kind = "unreachable" => Len(x.reads) = 0 /\ Len(x.targets) = 0
BY DEF ExitShaped

\* The parts of a function whose ids are in their arenas.
LEMMA FunctionParts ==
    ASSUME NEW f, IdsInArena(f)
    PROVE  /\ f.def \in Seq(Definitions(Arena(f)))
           /\ Len(f.def) \in Nat
           /\ Arena(f) = 1 .. Len(f.def)
           /\ \A v \in Arena(f) : f.def[v] \in Definitions(Arena(f))
           /\ f.def = [v \in Arena(f) |-> f.def[v]]
           /\ f = [block |-> f.block, def |-> f.def]
           /\ f.block = [b \in Block |-> f.block[b]]
           /\ \A b \in Block :
                 /\ f.block[b].params \in Seq(Arena(f))
                 /\ f.block[b].insts \in Seq(Arena(f))
                 /\ f.block[b].exit \in Terminators(Arena(f))
                 /\ f.block[b] = [params |-> f.block[b].params, insts |-> f.block[b].insts,
                                  exit |-> f.block[b].exit]
<1>1. f.def \in Seq(Definitions(Arena(f)))
  BY DEF IdsInArena
<1>2. Len(f.def) \in Nat /\ Arena(f) = 1 .. Len(f.def)
      /\ f.def = [v \in Arena(f) |-> f.def[v]]
      /\ \A v \in Arena(f) : f.def[v] \in Definitions(Arena(f))
  BY <1>1 DEF Arena
<1>3. /\ f.block \in [Block -> [params : Seq(Arena(f)), insts : Seq(Arena(f)),
                               exit : Terminators(Arena(f))]]
      /\ f = [block |-> f.block, def |-> f.def]
  BY DEF IdsInArena
<1> QED
  BY <1>1, <1>2, <1>3

\* And the other way round.
LEMMA FunctionBuilt ==
    ASSUME NEW f, NEW V, NEW block, NEW def,
           f = [block |-> block, def |-> def],
           V = DOMAIN def,
           def \in Seq(Definitions(V)),
           block = [b \in Block |-> block[b]],
           \A b \in Block : /\ block[b] = [params |-> block[b].params,
                                insts |-> block[b].insts, exit |-> block[b].exit]
                            /\ block[b].params \in Seq(V)
                            /\ block[b].insts \in Seq(V)
                            /\ block[b].exit \in Terminators(V)
    PROVE  IdsInArena(f) /\ Arena(f) = V
<1>1. Arena(f) = V
  BY DEF Arena
<1>2. \A b \in Block : block[b] \in [params : Seq(V), insts : Seq(V), exit : Terminators(V)]
  OBVIOUS
<1>3. block \in [Block -> [params : Seq(V), insts : Seq(V), exit : Terminators(V)]]
  BY <1>2
<1> QED
  BY <1>1, <1>3 DEF IdsInArena

\* The three kinds of definition.
LEMMA DefinitionKinds ==
    ASSUME NEW V, NEW d \in Definitions(V)
    PROVE  /\ d.kind \in {"param", "alias", "op"}
           /\ d.kind = "param" => d.block \in Block /\ d.index \in Nat
                                  /\ d = BlockParam(d.block, d.index)
           /\ d.kind = "alias" => d.args \in Seq(V) /\ Len(d.args) = 1 /\ d.args[1] \in V
                                  /\ d = Alias(d.args[1])
           /\ d.kind = "op" => d.args \in Seq(V) /\ Len(d.args) \in Operands(d.op)
                               /\ d.n \in Nat /\ d.op \in OpName
                               /\ d = Numbered(d.op, d.n, d.args)
<1>1. CASE d \in [kind : {"param"}, block : Block, index : Nat]
  BY <1>1 DEF BlockParam
<1>2. CASE d \in {x \in [kind : {"alias"}, args : Seq(V)] : Len(x.args) = 1}
  <2>1. d.args \in Seq(V) /\ Len(d.args) = 1 /\ d.kind = "alias"
        /\ d = [kind |-> "alias", args |-> d.args]
    BY <1>2
  <2>2. d.args[1] \in V /\ d.args = <<d.args[1]>>
    BY <2>1
  <2> QED BY <2>1, <2>2 DEF Alias
<1>3. CASE d \in {x \in [kind : {"op"}, op : OpName, args : Seq(V), n : Nat] :
                     Len(x.args) \in Operands(x.op)}
  BY <1>3 DEF Numbered
<1> QED
  BY <1>1, <1>2, <1>3 DEF Definitions

\* The definitions the passes make.
LEMMA DefinitionsMade ==
    ASSUME NEW V
    PROVE  /\ \A b \in Block, i \in Nat : BlockParam(b, i) \in Definitions(V)
           /\ \A v \in V : Alias(v) \in Definitions(V)
           /\ \A op \in OpName, n \in Nat, args \in Seq(V) :
                 Len(args) \in Operands(op) => Numbered(op, n, args) \in Definitions(V)
<1>1. \A b \in Block, i \in Nat : BlockParam(b, i) \in Definitions(V)
  BY DEF BlockParam, Definitions
<1>2. ASSUME NEW v \in V PROVE Alias(v) \in Definitions(V)
  BY DEF Alias, Definitions
<1>3. ASSUME NEW op \in OpName, NEW n \in Nat, NEW args \in Seq(V),
             Len(args) \in Operands(op)
      PROVE  Numbered(op, n, args) \in Definitions(V)
  BY <1>3 DEF Numbered, Definitions
<1> QED
  BY <1>1, <1>2, <1>3

\* A larger arena takes what a smaller one does.
LEMMA Larger ==
    ASSUME NEW V, NEW W, V \subseteq W
    PROVE  /\ Seq(V) \subseteq Seq(W)
           /\ Terminators(V) \subseteq Terminators(W)
           /\ Definitions(V) \subseteq Definitions(W)
<1>1. \A s \in Seq(V) : s \in Seq(W)
  OBVIOUS
<1>2. ASSUME NEW x \in Terminators(V) PROVE x \in Terminators(W)
  <2>1. x.targets \in Seq(TargetOf(W))
    <3>1. \A t \in TargetOf(V) : t \in TargetOf(W)
      BY <1>1 DEF TargetOf
    <3>2. x.targets \in Seq(TargetOf(V))
      BY TerminatorParts
    <3> QED BY <3>1, <3>2
  <2> QED BY <1>1, <2>1 DEF Terminators, TargetOf
<1>3. ASSUME NEW d \in Definitions(V) PROVE d \in Definitions(W)
  <2>1. CASE d.kind = "param"
    BY <2>1, DefinitionKinds, DefinitionsMade
  <2>2. CASE d.kind = "alias"
    BY <2>2, DefinitionKinds, DefinitionsMade
  <2>3. CASE d.kind = "op"
    <3>1. /\ d.args \in Seq(V) /\ Len(d.args) \in Operands(d.op)
          /\ d.n \in Nat /\ d.op \in OpName
          /\ d = Numbered(d.op, d.n, d.args)
      BY <2>3, DefinitionKinds
    <3>2. d.args \in Seq(W)
      BY <1>1, <3>1
    <3> QED BY <3>1, <3>2, DefinitionsMade
  <2> QED BY <2>1, <2>2, <2>3, DefinitionKinds
<1> QED
  BY <1>1, <1>2, <1>3
-----------------------------------------------------------------------------
(* The graph                                                               *)

\* A set that can only grow within U has stopped growing after as many
\* rounds as U has members.
Grows(U, n, F, it) ==
    /\ F \in [SUBSET U -> SUBSET U]
    /\ \A S \in SUBSET U : S \subseteq F[S]
    /\ it \in [0 .. n -> SUBSET U]
    /\ \A k \in 0 .. n - 1 : it[k + 1] = F[it[k]]

\* A set that grows inside U until it rests has come to rest after |U| steps.
LEMMA Saturates ==
    ASSUME NEW U, IsFiniteSet(U), NEW n \in Nat, Cardinality(U) <= n,
           NEW F, NEW it, Grows(U, n, F, it)
    PROVE  F[it[n]] = it[n]
<1> USE DEF Grows
<1> DEFINE T == {k \in 0 .. n : Cardinality(it[k]) >= k \/ F[it[k]] = it[k]}
<1>1. \A S \in SUBSET U : IsFiniteSet(S) /\ Cardinality(S) \in Nat
                          /\ (Cardinality(S) >= Cardinality(U) => S = U)
  <2> SUFFICES ASSUME NEW S \in SUBSET U
               PROVE  IsFiniteSet(S) /\ Cardinality(S) \in Nat
                      /\ (Cardinality(S) >= Cardinality(U) => S = U)
    OBVIOUS
  <2>1. IsFiniteSet(S) /\ Cardinality(S) <= Cardinality(U)
        /\ (Cardinality(U) = Cardinality(S) => U = S)
    BY FS_Subset
  <2>2. Cardinality(S) \in Nat /\ Cardinality(U) \in Nat
    BY <2>1, FS_CardinalityType
  <2> QED BY <2>1, <2>2
<1>2. 0 \in T
  <2>1. it[0] \in SUBSET U
    OBVIOUS
  <2> QED BY <1>1, <2>1
<1>3. ASSUME NEW k \in 0 .. n - 1, k \in T PROVE k + 1 \in T
  <2>1. it[k] \in SUBSET U /\ it[k + 1] \in SUBSET U /\ it[k + 1] = F[it[k]]
        /\ k + 1 \in 0 .. n
    OBVIOUS
  <2>2. CASE F[it[k]] = it[k]
    BY <2>1, <2>2
  <2>3. CASE F[it[k]] # it[k]
    <3>1. Cardinality(it[k]) >= k
      BY <1>3, <2>3
    <3>2. it[k] \subseteq it[k + 1] /\ it[k] # it[k + 1]
      BY <2>1, <2>3
    <3>3. Cardinality(it[k]) <= Cardinality(it[k + 1])
          /\ Cardinality(it[k + 1]) # Cardinality(it[k])
      <4>1. IsFiniteSet(it[k + 1]) /\ it[k] \in SUBSET it[k + 1]
        BY <1>1, <2>1, <3>2
      <4> QED BY <3>2, <4>1, FS_Subset
    <3>4. Cardinality(it[k]) \in Nat /\ Cardinality(it[k + 1]) \in Nat
      BY <1>1, <2>1
    <3> QED BY <2>1, <3>1, <3>3, <3>4
  <2> QED BY <2>2, <2>3
<1>4. \A k \in 0 .. n : k \in T
  <2> HIDE DEF T
  <2> QED BY <1>2, <1>3, Induct
<1>5. n \in T
  BY <1>4
<1>6. it[n] \in SUBSET U
  OBVIOUS
<1>7. CASE Cardinality(it[n]) >= n
  <2>1. it[n] = U
    <3>1. Cardinality(it[n]) \in Nat /\ Cardinality(U) \in Nat
      BY <1>1, <1>6, FS_CardinalityType
    <3>2. Cardinality(it[n]) >= Cardinality(U)
      BY <3>1, <1>7
    <3> QED BY <1>1, <1>6, <3>2
  <2>2. F[U] \in SUBSET U /\ U \subseteq F[U]
    BY <1>6
  <2> QED BY <2>1, <2>2
<1> QED
  BY <1>5, <1>7

\* The blocks are finitely many.
LEMMA BlocksFinite == /\ IsFiniteSet(Block) /\ Cardinality(Block) = BlockCount
                 /\ BlockCount \in Nat \ {0} /\ Entry \in Block
                 /\ Block \in SUBSET Int
<1>1. BlockCount \in Nat \ {0} /\ Entry \in Block
  BY LiftedIRAssumption
<1> QED
  BY <1>1, FS_Interval DEF Block

\* The successors of a block are blocks.
LEMMA SuccBlocks ==
    ASSUME NEW f, IdsInArena(f), NEW b \in Block
    PROVE  /\ Succ(f, b) \subseteq Block
           /\ Succ(f, b) = {f.block[b].exit.targets[i].block :
                               i \in DOMAIN f.block[b].exit.targets}
<1>1. f.block[b].exit \in Terminators(Arena(f))
  BY FunctionParts
<1>2. \A i \in DOMAIN f.block[b].exit.targets : f.block[b].exit.targets[i].block \in Block
  BY <1>1, TargetParts
<1>3. Succ(f, b) = {f.block[b].exit.targets[i].block : i \in DOMAIN f.block[b].exit.targets}
  BY DEF Succ, ToSet
<1> QED
  BY <1>2, <1>3

\* The indices of a sequence, and the elements at them.
LEMMA Indices ==
    /\ \A S : \A s \in Seq(S) : DOMAIN s = 1 .. Len(s)
    /\ \A S : \A s \in Seq(S) : Len(s) = 1 => DOMAIN s = {1}
    /\ \A s : \A i \in DOMAIN s : s[i] \in ToSet(s)
<1>1. \A S : \A s \in Seq(S) : DOMAIN s = 1 .. Len(s)
  OBVIOUS
<1>2. \A s : \A i \in DOMAIN s : s[i] \in ToSet(s)
  BY DEF ToSet
<1>3. 1 .. 1 = {1}
  OBVIOUS
<1> QED
  BY <1>1, <1>2, <1>3

\* An edge into b is a slot of a terminator that names b.
LEMMA InEdgesAre ==
    ASSUME NEW f, NEW b
    PROVE  \A e : e \in InEdges(f, b) <=>
               \E p \in Block : \E i \in DOMAIN f.block[p].exit.targets :
                   e = <<p, i>> /\ f.block[p].exit.targets[i].block = b
BY DEF InEdges

\* Arity, edge by edge.
LEMMA ArityMeans ==
    ASSUME NEW f, IdsInArena(f)
    PROVE  EdgesMatchParams(f) <=>
           /\ \A p \in Block : \A i \in DOMAIN f.block[p].exit.targets :
                 Len(f.block[p].exit.targets[i].args)
                   = Len(f.block[f.block[p].exit.targets[i].block].params)
           /\ \A b \in Block : \A i \in DOMAIN f.block[b].params :
                 f.def[f.block[b].params[i]] = BlockParam(b, i)
<1>1. \A p \in Block : \A i \in DOMAIN f.block[p].exit.targets :
          f.block[p].exit.targets[i].block \in Block
  BY FunctionParts, TargetParts
<1>2. ASSUME NEW b \in Block
      PROVE  (\A e \in InEdges(f, b) : Len(EdgeArgs(f, e)) = Len(f.block[b].params)) <=>
             \A p \in Block : \A i \in DOMAIN f.block[p].exit.targets :
                 f.block[p].exit.targets[i].block = b =>
                     Len(f.block[p].exit.targets[i].args) = Len(f.block[b].params)
  <2>1. \A p \in Block : \A i \in DOMAIN f.block[p].exit.targets :
            EdgeArgs(f, <<p, i>>) = f.block[p].exit.targets[i].args
    BY DEF EdgeArgs
  <2>2. ASSUME \A e \in InEdges(f, b) : Len(EdgeArgs(f, e)) = Len(f.block[b].params),
               NEW p \in Block, NEW i \in DOMAIN f.block[p].exit.targets,
               f.block[p].exit.targets[i].block = b
        PROVE  Len(f.block[p].exit.targets[i].args) = Len(f.block[b].params)
    <3>1. <<p, i>> \in InEdges(f, b)
      BY <2>2, InEdgesAre
    <3> QED BY <2>1, <2>2, <3>1
  <2>3. ASSUME NEW e \in InEdges(f, b),
               \A p \in Block : \A i \in DOMAIN f.block[p].exit.targets :
                   f.block[p].exit.targets[i].block = b =>
                       Len(f.block[p].exit.targets[i].args) = Len(f.block[b].params)
        PROVE  Len(EdgeArgs(f, e)) = Len(f.block[b].params)
    <3>1. PICK p \in Block : \E i \in DOMAIN f.block[p].exit.targets :
                   e = <<p, i>> /\ f.block[p].exit.targets[i].block = b
      BY InEdgesAre
    <3>2. PICK i \in DOMAIN f.block[p].exit.targets :
              e = <<p, i>> /\ f.block[p].exit.targets[i].block = b
      BY <3>1
    <3>3. EdgeArgs(f, e) = f.block[p].exit.targets[i].args
      BY <2>1, <3>2
    <3>4. Len(f.block[p].exit.targets[i].args) = Len(f.block[b].params)
      BY <2>3, <3>2
    <3> QED BY <3>3, <3>4
  <2> QED BY <2>2, <2>3
<1>3. (\A b \in Block : \A e \in InEdges(f, b) : Len(EdgeArgs(f, e)) = Len(f.block[b].params)) <=>
      \A p \in Block : \A i \in DOMAIN f.block[p].exit.targets :
          Len(f.block[p].exit.targets[i].args)
            = Len(f.block[f.block[p].exit.targets[i].block].params)
  <2> DEFINE from(b) == \A e \in InEdges(f, b) : Len(EdgeArgs(f, e)) = Len(f.block[b].params)
             aimed(p, i) == f.block[p].exit.targets[i].block
             given(p, i) == Len(f.block[p].exit.targets[i].args)
             wanted(b) == Len(f.block[b].params)
  <2>1. \A p \in Block : \A i \in DOMAIN f.block[p].exit.targets : aimed(p, i) \in Block
    BY <1>1
  <2>2. \A b \in Block : from(b) <=>
            \A p \in Block : \A i \in DOMAIN f.block[p].exit.targets :
                aimed(p, i) = b => given(p, i) = wanted(b)
    BY <1>2
  <2> HIDE DEF from, aimed, given, wanted
  <2>3. (\A b \in Block : from(b)) <=>
        \A p \in Block : \A i \in DOMAIN f.block[p].exit.targets :
            given(p, i) = wanted(aimed(p, i))
    BY <2>1, <2>2
  <2> QED BY <2>3 DEF from, aimed, given, wanted
<1>4. EdgesMatchParams(f) <=>
      /\ \A b \in Block : \A e \in InEdges(f, b) : Len(EdgeArgs(f, e)) = Len(f.block[b].params)
      /\ \A b \in Block : \A i \in DOMAIN f.block[b].params :
            f.def[f.block[b].params[i]] = BlockParam(b, i)
  BY DEF EdgesMatchParams
<1> QED
  BY <1>3, <1>4

\* The rounds in which Reachable is computed.
LEMMA ReachableRun ==
    ASSUME NEW f, IdsInArena(f)
    PROVE  \E it \in [0 .. BlockCount -> SUBSET Block] :
               /\ it[0] = {Entry}
               /\ \A k \in 0 .. BlockCount - 1 :
                     it[k + 1] = it[k] \cup UNION {Succ(f, b) : b \in it[k]}
               /\ Reachable(f) = it[BlockCount]
<1> DEFINE n == BlockCount
           A == SUBSET Block
           x == {Entry}
           Onward(S) == S \cup UNION {Succ(f, b) : b \in S}
           Q(it) == it = [k \in 0 .. n |-> IF k = 0 THEN x ELSE Onward(it[k - 1])]
           F == [k \in 1 .. n |-> [S \in A |-> Onward(S)]]
<1>1. n \in Nat /\ x \in A
  BY BlocksFinite
<1>2. \A S \in A : Onward(S) \in A
  BY SuccBlocks
<1>3. \E it : Q(it)
  <2> HIDE DEF A, x, n, Onward
  <2>1. F \in Steps(A, n)
    BY <1>2 DEF Steps
  <2>2. PICK it \in [0 .. n -> A] : it[0] = x /\ \A k \in 1 .. n : it[k] = F[k][it[k - 1]]
    <3> HIDE DEF F
    <3>1. Runs(A, x, n, F)
      BY <1>1, <2>1, Iterated
    <3> QED BY <3>1 DEF Runs
  <2>3. \A k \in 0 .. n : it[k] = IF k = 0 THEN x ELSE Onward(it[k - 1])
    <3>1. \A k \in 1 .. n : it[k - 1] \in A
      BY <1>1
    <3>2. \A k \in 1 .. n : F[k][it[k - 1]] = Onward(it[k - 1])
      BY <3>1
    <3> HIDE DEF F
    <3> QED BY <1>1, <2>2, <3>2
  <2>4. Q(it)
    <3> HIDE DEF F
    <3> QED BY <2>2, <2>3, Zenon
  <2> QED BY <2>4
<1> DEFINE it == CHOOSE it : Q(it)
<1>4. Q(it)
  <2> HIDE DEF Q
  <2> QED BY <1>3
<1>5. Reachable(f) = it[n]
  BY DEF Reachable, Iterate
<1> HIDE DEF it
<1>6. it[0] = x /\ \A k \in 0 .. n - 1 : it[k + 1] = Onward(it[k])
  BY <1>1, <1>4
<1>7. \A k \in 0 .. n : it[k] \in A
  <2> HIDE DEF Onward, A, x
  <2>1. it[0] \in A /\ \A k \in 0 .. n - 1 : it[k] \in A => it[k + 1] \in A
    BY <1>1, <1>2, <1>6
  <2> QED BY <1>1, <2>1, Stays
<1>8. it \in [0 .. n -> A]
  BY <1>4, <1>7
<1> QED
  BY <1>5, <1>6, <1>8
-----------------------------------------------------------------------------
(* Functions that keep the ids and the arities in order *)

\* IdsInArena and EdgesMatchParams, as one set.
Valid ==
    {f \in [block : [Block -> [params : Seq(Nat), insts : Seq(Nat), exit : Terminators(Nat)]],
            def : Seq(Definitions(Nat))] : IdsInArena(f) /\ EdgesMatchParams(f)}

\* Valid functions are those that keep their ids in the arena and their arities.
LEMMA ValidMeans ==
    ASSUME NEW f
    PROVE  f \in Valid <=> IdsInArena(f) /\ EdgesMatchParams(f)
<1> SUFFICES ASSUME IdsInArena(f)
             PROVE  f \in [block : [Block -> [params : Seq(Nat), insts : Seq(Nat),
                                              exit : Terminators(Nat)]],
                           def : Seq(Definitions(Nat))]
  BY DEF Valid
<1>1. Arena(f) \subseteq Nat
  <2>1. Arena(f) = 1 .. Len(f.def) /\ Len(f.def) \in Nat
    BY FunctionParts
  <2> QED BY <2>1
<1>2. /\ Seq(Arena(f)) \subseteq Seq(Nat)
      /\ Terminators(Arena(f)) \subseteq Terminators(Nat)
      /\ Definitions(Arena(f)) \subseteq Definitions(Nat)
  BY <1>1, Larger
<1>3. f.def \in Seq(Definitions(Nat))
  <2>1. f.def \in Seq(Definitions(Arena(f)))
    BY FunctionParts
  <2>2. Seq(Definitions(Arena(f))) \subseteq Seq(Definitions(Nat))
    <3> DEFINE A == Definitions(Arena(f))
               B == Definitions(Nat)
    <3>1. A \subseteq B
      BY <1>2
    <3> HIDE DEF A, B
    <3>2. \A s \in Seq(A) : s \in Seq(B)
      BY <3>1
    <3> QED BY <3>2 DEF A, B
  <2> QED BY <2>1, <2>2
<1>4. \A b \in Block : f.block[b] \in [params : Seq(Nat), insts : Seq(Nat),
                                       exit : Terminators(Nat)]
  <2> SUFFICES ASSUME NEW b \in Block
               PROVE  f.block[b] \in [params : Seq(Nat), insts : Seq(Nat),
                                      exit : Terminators(Nat)]
    OBVIOUS
  <2>1. /\ f.block[b].params \in Seq(Arena(f))
        /\ f.block[b].insts \in Seq(Arena(f))
        /\ f.block[b].exit \in Terminators(Arena(f))
        /\ f.block[b] = [params |-> f.block[b].params, insts |-> f.block[b].insts,
                         exit |-> f.block[b].exit]
    BY FunctionParts
  <2>2. /\ f.block[b].params \in Seq(Nat)
        /\ f.block[b].insts \in Seq(Nat)
        /\ f.block[b].exit \in Terminators(Nat)
    BY <1>2, <2>1
  <2> HIDE DEF Terminators
  <2> QED BY <2>1, <2>2
<1>5. f = [block |-> f.block, def |-> f.def] /\ f.block = [b \in Block |-> f.block[b]]
  BY FunctionParts
<1> QED
  BY <1>3, <1>4, <1>5

\* What Map makes of a sequence.
LEMMA Mapped ==
    ASSUME NEW A, NEW B, NEW seq \in Seq(A), NEW F, F = [i \in DOMAIN seq |-> F[i]],
           \A i \in DOMAIN seq : F[i] \in B
    PROVE  /\ <<>> \o F = F
           /\ F \in Seq(B)
           /\ Len(F) = Len(seq)
           /\ DOMAIN F = DOMAIN seq
<1>1. Len(seq) \in Nat /\ DOMAIN seq = 1 .. Len(seq)
  OBVIOUS
<1>2. F = [i \in 1 .. Len(seq) |-> F[i]] /\ \A i \in 1 .. Len(seq) : F[i] \in B
  BY <1>1
<1>3. <<>> \o F = F /\ Len(F) = Len(seq) /\ DOMAIN F = 1 .. Len(seq)
  BY <1>1, <1>2, EmptyFront
<1>4. F \in Seq(B)
  BY <1>1, <1>2, IsASeq
<1> QED
  BY <1>1, <1>3, <1>4

\* A schedule that lost some values is a schedule.
LEMMA Unscheduled ==
    ASSUME NEW A, NEW insts \in Seq(A), NEW gone
    PROVE  Unschedule(insts, gone) \in Seq(A)
BY RetainKeeps DEF Unschedule

\* A terminator of one of the known shapes.
LEMMA Terminator ==
    ASSUME NEW V, NEW kind \in ExitName, NEW reads \in Seq(V), NEW targets \in Seq(TargetOf(V)),
           NEW x, x = [kind |-> kind, reads |-> reads, targets |-> targets], ExitShaped(x)
    PROVE  x \in Terminators(V)
BY DEF Terminators, TargetOf

\* A list of values renamed.
LEMMA Renamed ==
    ASSUME NEW V, NEW W, NEW seq \in Seq(V), NEW new \in [V -> W]
    PROVE  LET s == [j \in DOMAIN seq |-> new[seq[j]]]
           IN  <<>> \o s = s /\ s \in Seq(W) /\ Len(s) = Len(seq) /\ DOMAIN s = DOMAIN seq
<1> DEFINE s == [j \in DOMAIN seq |-> new[seq[j]]]
<1>1. s = [j \in DOMAIN seq |-> s[j]] /\ \A j \in DOMAIN seq : s[j] \in W
  <2>1. \A j \in DOMAIN seq : seq[j] \in V
    OBVIOUS
  <2> QED BY <2>1
<1> HIDE DEF s
<1> QED
  BY <1>1, Mapped

\* A terminator renamed.
LEMMA Rewired ==
    ASSUME NEW V, NEW x \in Terminators(V), NEW new \in [V -> V]
    PROVE  /\ RewriteExit(x, new) \in Terminators(V)
           /\ RewriteExit(x, new).kind = x.kind
           /\ Len(RewriteExit(x, new).targets) = Len(x.targets)
           /\ \A i \in DOMAIN x.targets :
                 /\ RewriteExit(x, new).targets[i].block = x.targets[i].block
                 /\ Len(RewriteExit(x, new).targets[i].args) = Len(x.targets[i].args)
                 /\ \A j \in DOMAIN x.targets[i].args :
                       RewriteExit(x, new).targets[i].args[j] = new[x.targets[i].args[j]]
<1> DEFINE reads == [i \in DOMAIN x.reads |-> new[x.reads[i]]]
           args(i) == [j \in DOMAIN x.targets[i].args |-> new[x.targets[i].args[j]]]
           targets == [i \in DOMAIN x.targets |->
                          Target(x.targets[i].block, <<>> \o args(i))]
           y == RewriteExit(x, new)
<1>1. /\ x.reads \in Seq(V) /\ x.targets \in Seq(TargetOf(V)) /\ x.kind \in ExitName
      /\ x = [kind |-> x.kind, reads |-> x.reads, targets |-> x.targets] /\ ExitShaped(x)
  BY TerminatorParts
<1>2. <<>> \o reads = reads /\ reads \in Seq(V) /\ Len(reads) = Len(x.reads)
  BY <1>1, Renamed
<1>3. ASSUME NEW i \in DOMAIN x.targets
      PROVE  /\ <<>> \o args(i) = args(i) /\ args(i) \in Seq(V)
             /\ Len(args(i)) = Len(x.targets[i].args)
  <2>1. x.targets[i].args \in Seq(V)
    BY TargetParts
  <2> QED BY <2>1, Renamed
<1>4. /\ <<>> \o targets = targets /\ targets \in Seq(TargetOf(V))
      /\ Len(targets) = Len(x.targets)
  <2>1. \A i \in DOMAIN x.targets : targets[i] \in TargetOf(V)
    <3> SUFFICES ASSUME NEW i \in DOMAIN x.targets PROVE targets[i] \in TargetOf(V)
      OBVIOUS
    <3>1. x.targets[i].block \in Block
      BY TargetParts
    <3>2. <<>> \o args(i) \in Seq(V)
      <4> HIDE DEF args
      <4> QED BY <1>3
    <3> HIDE DEF args
    <3> QED BY <3>1, <3>2 DEF Target, TargetOf
  <2>2. targets = [i \in DOMAIN x.targets |-> targets[i]]
    OBVIOUS
  <2> HIDE DEF targets
  <2> QED BY <1>1, <2>1, <2>2, Mapped
<1>5. y = [kind |-> x.kind, reads |-> <<>> \o reads, targets |-> <<>> \o targets]
  <2>1. y = [x EXCEPT !.reads = <<>> \o reads, !.targets = <<>> \o targets]
    BY DEF RewriteExit, Map
  <2> HIDE DEF reads, targets, y
  <2> QED BY <1>1, <2>1
<1>6. y = [kind |-> x.kind, reads |-> reads, targets |-> targets]
  <2> HIDE DEF reads, targets, y
  <2> QED BY <1>2, <1>4, <1>5
<1>7. ExitShaped(y)
  <2> HIDE DEF reads, targets, y
  <2>1. y.kind = x.kind /\ Len(y.reads) = Len(x.reads) /\ Len(y.targets) = Len(x.targets)
    BY <1>2, <1>4, <1>6
  <2> QED BY <1>1, <2>1 DEF ExitShaped
<1>8. \A i \in DOMAIN x.targets :
        /\ y.targets[i].block = x.targets[i].block
        /\ Len(y.targets[i].args) = Len(x.targets[i].args)
        /\ \A j \in DOMAIN x.targets[i].args :
              y.targets[i].args[j] = new[x.targets[i].args[j]]
  <2> SUFFICES ASSUME NEW i \in DOMAIN x.targets
               PROVE  /\ y.targets[i].block = x.targets[i].block
                      /\ Len(y.targets[i].args) = Len(x.targets[i].args)
                      /\ \A j \in DOMAIN x.targets[i].args :
                            y.targets[i].args[j] = new[x.targets[i].args[j]]
    OBVIOUS
  <2>1. y.targets[i] = targets[i]
    <3> HIDE DEF targets, y
    <3> QED BY <1>6
  <2>2. targets[i].block = x.targets[i].block /\ targets[i].args = <<>> \o args(i)
    <3> HIDE DEF args
    <3> QED BY DEF Target
  <2>3. targets[i].args = args(i)
    <3> HIDE DEF args, targets
    <3> QED BY <2>2, <1>3
  <2>4. Len(args(i)) = Len(x.targets[i].args)
        /\ \A j \in DOMAIN x.targets[i].args : args(i)[j] = new[x.targets[i].args[j]]
    <3>1. Len(args(i)) = Len(x.targets[i].args)
      <4> HIDE DEF args
      <4> QED BY <1>3
    <3> QED BY <3>1
  <2> HIDE DEF args, targets, y
  <2> QED BY <2>1, <2>2, <2>3, <2>4
<1>9. y \in Terminators(V) /\ y.kind = x.kind /\ Len(y.targets) = Len(x.targets)
  <2> HIDE DEF reads, targets, y
  <2> QED BY <1>1, <1>2, <1>4, <1>6, <1>7, Terminator
<1> QED
  BY <1>8, <1>9
-----------------------------------------------------------------------------
\* What a block holds, over the values V.
BlockOf(V) == [params : Seq(V), insts : Seq(V), exit : Terminators(V)]

\* What a block is made of.
LEMMA BlockParts ==
    ASSUME NEW V, NEW b \in BlockOf(V)
    PROVE  /\ b.params \in Seq(V) /\ b.insts \in Seq(V) /\ b.exit \in Terminators(V)
           /\ b = [params |-> b.params, insts |-> b.insts, exit |-> b.exit]
BY DEF BlockOf

\* How a block is made.
LEMMA BlockMade ==
    ASSUME NEW V, NEW p \in Seq(V), NEW s \in Seq(V), NEW x \in Terminators(V)
    PROVE  [params |-> p, insts |-> s, exit |-> x] \in BlockOf(V)
BY DEF BlockOf

\* The targets of x pass as many arguments as the blocks have parameters.
Fits(block, x) ==
    \A i \in DOMAIN x.targets :
        Len(x.targets[i].args) = Len(block[x.targets[i].block].params)

\* The parameters of b are defined as such.
Numbers(block, def, b) ==
    \A i \in DOMAIN block[b].params : def[block[b].params[i]] = BlockParam(b, i)

\* The parts of a valid function.
LEMMA ValidParts ==
    ASSUME NEW f \in Valid
    PROVE  /\ f = [block |-> f.block, def |-> f.def]
           /\ f.block \in [Block -> BlockOf(Arena(f))]
           /\ f.def \in Seq(Definitions(Arena(f)))
           /\ f.def \in [Arena(f) -> Definitions(Arena(f))]
           /\ Len(f.def) \in Nat
           /\ Arena(f) = 1 .. Len(f.def)
           /\ \A b \in Block : Fits(f.block, f.block[b].exit)
           /\ \A b \in Block : Numbers(f.block, f.def, b)
<1>1. IdsInArena(f) /\ EdgesMatchParams(f)
  BY ValidMeans
<1>2. /\ \A b \in Block : Fits(f.block, f.block[b].exit)
      /\ \A b \in Block : Numbers(f.block, f.def, b)
  BY <1>1, ArityMeans DEF Fits, Numbers
<1>3. f = [block |-> f.block, def |-> f.def] /\ f.block \in [Block -> BlockOf(Arena(f))]
  BY <1>1 DEF IdsInArena, BlockOf
<1>4. /\ f.def \in Seq(Definitions(Arena(f)))
      /\ f.def \in [Arena(f) -> Definitions(Arena(f))]
      /\ Len(f.def) \in Nat
      /\ Arena(f) = 1 .. Len(f.def)
  BY <1>1, FunctionParts
<1> QED
  BY <1>2, <1>3, <1>4

\* The blocks of a valid function.
LEMMA ValidBlock ==
    ASSUME NEW f \in Valid, NEW b \in Block
    PROVE  /\ f.block[b] \in BlockOf(Arena(f))
           /\ f.block[b].params \in Seq(Arena(f))
           /\ f.block[b].insts \in Seq(Arena(f))
           /\ f.block[b].exit \in Terminators(Arena(f))
           /\ f.block[b] = [params |-> f.block[b].params, insts |-> f.block[b].insts,
                            exit |-> f.block[b].exit]
           /\ Fits(f.block, f.block[b].exit)
           /\ Numbers(f.block, f.def, b)
<1>1. f.block[b] \in BlockOf(Arena(f))
  BY ValidParts
<1> QED
  BY <1>1, BlockParts, ValidParts

\* And what makes a valid function.
LEMMA ValidBuilt ==
    ASSUME NEW V, NEW block \in [Block -> BlockOf(V)], NEW def \in Seq(Definitions(V)),
           V = DOMAIN def,
           \A b \in Block : Fits(block, block[b].exit),
           \A b \in Block : Numbers(block, def, b)
    PROVE  LET f == [block |-> block, def |-> def] IN f \in Valid /\ Arena(f) = V
<1> DEFINE f == [block |-> block, def |-> def]
<1>1. Arena(f) = V
  BY DEF Arena
<1>2. IdsInArena(f)
  BY <1>1 DEF IdsInArena, BlockOf
<1>3. f.block = block /\ f.def = def
  OBVIOUS
<1> HIDE DEF f
<1>4. EdgesMatchParams(f)
  BY <1>2, <1>3, ArityMeans DEF Fits, Numbers
<1> QED
  BY <1>1, <1>2, <1>4, ValidMeans DEF f

\* A function on an initial segment is a sequence.
LEMMA Listed ==
    ASSUME NEW n \in Nat, NEW D, NEW s \in [1 .. n -> D]
    PROVE  s \in Seq(D) /\ DOMAIN s = 1 .. n /\ Len(s) = n
OBVIOUS

\* Other blocks, with as many parameters, of the same values.
LEMMA Reblocked ==
    ASSUME NEW f \in Valid, NEW block \in [Block -> BlockOf(Arena(f))],
           \A b \in Block : block[b].params = f.block[b].params,
           \A b \in Block : Fits(f.block, block[b].exit)
    PROVE  LET g == [block |-> block, def |-> f.def] IN g \in Valid /\ Arena(g) = Arena(f)
<1>1. \A b \in Block : Numbers(block, f.def, b)
  BY ValidParts DEF Numbers
<1>2. ASSUME NEW b \in Block PROVE Fits(block, block[b].exit)
  <2>1. block[b].exit \in Terminators(Arena(f))
    BY BlockParts
  <2>2. \A i \in DOMAIN block[b].exit.targets : block[b].exit.targets[i].block \in Block
    BY <2>1, TargetParts
  <2> QED BY <2>2 DEF Fits
<1>3. f.def \in Seq(Definitions(Arena(f))) /\ Arena(f) = DOMAIN f.def
  BY ValidParts DEF Arena
<1> QED
  BY <1>1, <1>2, <1>3, ValidBuilt

\* Other definitions, for values that are no block's parameters.
LEMMA Redefined ==
    ASSUME NEW f \in Valid, NEW def \in [Arena(f) -> Definitions(Arena(f))],
           \A v \in Arena(f) : f.def[v].kind = "param" => def[v] = f.def[v]
    PROVE  LET g == [block |-> f.block, def |-> def] IN g \in Valid /\ Arena(g) = Arena(f)
<1>1. ASSUME NEW b \in Block PROVE Numbers(f.block, def, b)
  <2>1. f.block[b].params \in Seq(Arena(f)) /\ Numbers(f.block, f.def, b)
    BY ValidBlock
  <2> SUFFICES ASSUME NEW i \in DOMAIN f.block[b].params
               PROVE  def[f.block[b].params[i]] = BlockParam(b, i)
    BY DEF Numbers
  <2>2. f.block[b].params[i] \in Arena(f)
    BY <2>1
  <2>3. f.def[f.block[b].params[i]] = BlockParam(b, i)
    BY <2>1 DEF Numbers
  <2>4. BlockParam(b, i).kind = "param"
    BY DEF BlockParam
  <2> QED BY <2>2, <2>3, <2>4
<1>2. /\ Arena(f) = 1 .. Len(f.def) /\ Len(f.def) \in Nat
      /\ f.block \in [Block -> BlockOf(Arena(f))]
      /\ \A b \in Block : Fits(f.block, f.block[b].exit)
  BY ValidParts
<1>3. def \in Seq(Definitions(Arena(f))) /\ DOMAIN def = Arena(f)
  <2> DEFINE D == Definitions(Arena(f))
  <2>1. def \in [1 .. Len(f.def) -> D]
    BY <1>2
  <2> HIDE DEF D
  <2>2. def \in Seq(D) /\ DOMAIN def = 1 .. Len(f.def)
    BY <1>2, <2>1, Listed
  <2> QED BY <1>2, <2>2 DEF D
<1> QED
  BY <1>1, <1>2, <1>3, ValidBuilt

\* Definitions are renamed by kind.
LEMMA RewrittenDef ==
    ASSUME NEW V, NEW W, NEW d \in Definitions(V), NEW new \in [V -> W]
    PROVE  /\ RewriteDef(d, new) \in Definitions(W)
           /\ RewriteDef(d, new).kind = d.kind
           /\ d.kind = "param" => RewriteDef(d, new) = d
           /\ d.kind = "alias" => RewriteDef(d, new) = Alias(new[d.args[1]])
           /\ d.kind = "op" => /\ RewriteDef(d, new).op = d.op
                               /\ RewriteDef(d, new).n = d.n
                               /\ Len(RewriteDef(d, new).args) = Len(d.args)
                               /\ \A j \in DOMAIN d.args :
                                     RewriteDef(d, new).args[j] = new[d.args[j]]
<1> DEFINE args == [j \in DOMAIN d.args |-> new[d.args[j]]]
<1>1. CASE d.kind = "param"
  <2>1. RewriteDef(d, new) = d
    BY <1>1 DEF RewriteDef
  <2> QED BY <1>1, <2>1, DefinitionKinds, DefinitionsMade
<1>2. CASE d.kind # "param"
  <2>1. d.args \in Seq(V)
    BY <1>2, DefinitionKinds
  <2>2. <<>> \o args = args /\ args \in Seq(W) /\ Len(args) = Len(d.args)
    <3> DEFINE seq == d.args
    <3>1. seq \in Seq(V)
      BY <2>1
    <3> HIDE DEF seq
    <3>2. LET s == [j \in DOMAIN seq |-> new[seq[j]]]
          IN  <<>> \o s = s /\ s \in Seq(W) /\ Len(s) = Len(seq)
      BY <3>1, Renamed
    <3> QED BY <3>2 DEF seq
  <2>3. RewriteDef(d, new) = [d EXCEPT !.args = <<>> \o args]
    BY <1>2 DEF RewriteDef, Map
  <2>4. CASE d.kind = "alias"
    <3>1. Len(d.args) = 1 /\ d.args[1] \in V /\ d = Alias(d.args[1])
      BY <2>4, DefinitionKinds
    <3>2. args = <<new[d.args[1]]>>
      <4>1. DOMAIN d.args = 1 .. 1
        BY <2>1, <3>1
      <4> QED BY <4>1
    <3>3. RewriteDef(d, new) = Alias(new[d.args[1]])
      <4> HIDE DEF args
      <4> QED BY <2>2, <2>3, <3>1, <3>2 DEF Alias
    <3>4. Alias(new[d.args[1]]) \in Definitions(W)
      BY <3>1, DefinitionsMade
    <3> QED BY <2>4, <3>3, <3>4 DEF Alias
  <2>5. CASE d.kind = "op"
    <3>1. Len(d.args) \in Operands(d.op) /\ d.n \in Nat /\ d.op \in OpName
          /\ d = Numbered(d.op, d.n, d.args)
      BY <2>5, DefinitionKinds
    <3>2. RewriteDef(d, new) = Numbered(d.op, d.n, args)
      <4> HIDE DEF args
      <4> QED BY <2>2, <2>3, <3>1 DEF Numbered
    <3>3. Numbered(d.op, d.n, args) \in Definitions(W)
      <4> HIDE DEF args
      <4> QED BY <2>2, <3>1, DefinitionsMade
    <3>4. \A j \in DOMAIN d.args : args[j] = new[d.args[j]]
      OBVIOUS
    <3> HIDE DEF args
    <3> QED BY <2>2, <2>5, <3>2, <3>3, <3>4 DEF Numbered
  <2> QED BY <1>2, <2>4, <2>5, DefinitionKinds
<1> QED
  BY <1>1, <1>2

\* rewrite_uses keeps a function valid, whatever stands in for whatever.
LEMMA RewriteUsesKeeps ==
    ASSUME NEW f \in Valid, NEW new \in [Arena(f) -> Arena(f)]
    PROVE  LET g == RewriteUses(f, new)
           IN  /\ g \in Valid
               /\ Arena(g) = Arena(f)
               /\ g = [block |-> g.block, def |-> g.def]
               /\ \A b \in Block : /\ g.block[b].params = f.block[b].params
                                   /\ g.block[b].insts = f.block[b].insts
                                   /\ g.block[b].exit = RewriteExit(f.block[b].exit, new)
               /\ \A v \in Arena(f) : g.def[v] = RewriteDef(f.def[v], new)
<1> DEFINE g == RewriteUses(f, new)
           V == Arena(f)
           block == [b \in Block |->
                        [f.block[b] EXCEPT !.exit = RewriteExit(f.block[b].exit, new)]]
           def == [v \in V |-> RewriteDef(f.def[v], new)]
<1>1. g = [block |-> block, def |-> def]
  BY DEF RewriteUses
<1>2. ASSUME NEW b \in Block
      PROVE  /\ block[b] = [params |-> f.block[b].params, insts |-> f.block[b].insts,
                            exit |-> RewriteExit(f.block[b].exit, new)]
             /\ block[b] \in BlockOf(V)
             /\ Fits(f.block, block[b].exit)
             /\ block[b].params = f.block[b].params
             /\ block[b].insts = f.block[b].insts
             /\ block[b].exit = RewriteExit(f.block[b].exit, new)
  <2>1. /\ f.block[b].params \in Seq(V) /\ f.block[b].insts \in Seq(V)
        /\ f.block[b].exit \in Terminators(V)
        /\ f.block[b] = [params |-> f.block[b].params, insts |-> f.block[b].insts,
                         exit |-> f.block[b].exit]
        /\ Fits(f.block, f.block[b].exit)
    BY ValidBlock
  <2>2. block[b] = [params |-> f.block[b].params, insts |-> f.block[b].insts,
                    exit |-> RewriteExit(f.block[b].exit, new)]
    BY <2>1
  <2> DEFINE x == f.block[b].exit
             y == RewriteExit(x, new)
  <2>3. y \in Terminators(V) /\ Len(y.targets) = Len(x.targets)
        /\ \A i \in DOMAIN x.targets : y.targets[i].block = x.targets[i].block
              /\ Len(y.targets[i].args) = Len(x.targets[i].args)
    <3>1. x \in Terminators(V)
      BY <2>1
    <3> HIDE DEF x, g, block, def
    <3> QED BY <3>1, Rewired
  <2>4. y.targets \in Seq(TargetOf(V)) /\ x.targets \in Seq(TargetOf(V))
    BY <2>1, <2>3, TerminatorParts
  <2>5. DOMAIN y.targets = DOMAIN x.targets
    <3> HIDE DEF x, y
    <3> QED BY <2>3, <2>4
  <2>6. Fits(f.block, y)
    <3>1. Fits(f.block, x)
      BY <2>1
    <3> HIDE DEF x, y
    <3> QED BY <2>3, <2>5, <3>1 DEF Fits
  <2>7. [params |-> f.block[b].params, insts |-> f.block[b].insts, exit |-> y] \in BlockOf(V)
    BY <2>1, <2>3, BlockMade
  <2> QED BY <2>2, <2>6, <2>7
<1>3. def \in [V -> Definitions(V)]
      /\ \A v \in V : f.def[v].kind = "param" => def[v] = f.def[v]
  <2>1. \A v \in V : f.def[v] \in Definitions(V)
    BY ValidParts
  <2> QED BY <2>1, RewrittenDef
<1> DEFINE h == [block |-> f.block, def |-> def]
<1>4. h \in Valid /\ Arena(h) = V
  <2> HIDE DEF def, V
  <2> QED BY <1>3, Redefined DEF V
<1>5. g \in Valid /\ Arena(g) = V
  <2>1. block \in [Block -> BlockOf(V)]
    <3>1. \A b \in Block : block[b] \in BlockOf(V)
      <4> HIDE DEF block, V
      <4> QED BY <1>2
    <3>2. block = [b \in Block |-> block[b]]
      OBVIOUS
    <3> HIDE DEF block, V
    <3> QED BY <3>1, <3>2
  <2>2. \A b \in Block : block[b].params = h.block[b].params
    <3> HIDE DEF block, V, def
    <3> QED BY <1>2
  <2>3. \A b \in Block : Fits(h.block, block[b].exit)
    <3> HIDE DEF block, V, def
    <3> QED BY <1>2
  <2>4. h.def = def
    OBVIOUS
  <2> HIDE DEF block, V, def, h, g
  <2> QED BY <1>1, <1>4, <2>1, <2>2, <2>3, <2>4, Reblocked
<1> QED
  <2> HIDE DEF block, g
  <2>1. g.block = block /\ g.def = def
    BY <1>1
  <2>2. \A b \in Block : /\ g.block[b].params = f.block[b].params
                         /\ g.block[b].insts = f.block[b].insts
                         /\ g.block[b].exit = RewriteExit(f.block[b].exit, new)
    BY <1>2, <2>1
  <2>3. \A v \in Arena(f) : g.def[v] = RewriteDef(f.def[v], new)
    BY <2>1
  <2>4. g = [block |-> g.block, def |-> g.def]
    BY <1>1, <2>1
  <2> HIDE DEF def
  <2> QED BY <1>5, <2>2, <2>3, <2>4 DEF g
-----------------------------------------------------------------------------
(* Dropping parameters *)

\* A value is a parameter at one place at most.
LEMMA PlacedOnce ==
    ASSUME NEW f \in Valid, NEW b \in Block, NEW c \in Block,
           NEW i \in DOMAIN f.block[b].params, NEW j \in DOMAIN f.block[c].params,
           f.block[b].params[i] = f.block[c].params[j]
    PROVE  b = c /\ i = j
<1>1. Numbers(f.block, f.def, b) /\ Numbers(f.block, f.def, c)
  BY ValidBlock
<1>2. BlockParam(b, i) = BlockParam(c, j)
  BY <1>1 DEF Numbers
<1>3. BlockParam(b, i).block = b /\ BlockParam(b, i).index = i
      /\ BlockParam(c, j).block = c /\ BlockParam(c, j).index = j
  BY DEF BlockParam
<1> QED
  BY <1>2, <1>3, Zenon

\* Positions that two lists of one length keep, they keep alike.
LEMMA RetainAlike ==
    ASSUME NEW A, NEW B, NEW s \in Seq(A), NEW t \in Seq(B), Len(s) = Len(t), NEW keep
    PROVE  Len(Retain(s, keep)) = Len(Retain(t, keep))
<1>1. DOMAIN s = DOMAIN t
  OBVIOUS
<1>2. Len(Retain(s, keep)) = Cardinality(keep \cap DOMAIN s)
      /\ Len(Retain(t, keep)) = Cardinality(keep \cap DOMAIN t)
  BY RetainKeeps
<1> QED
  BY <1>1, <1>2

\* The arguments of a target at the positions that keep gives for its block.
Cut(keep, t) == Target(t.block, Retain(t.args, keep[t.block]))

\* A terminator whose arguments were cut.
LEMMA CutExit ==
    ASSUME NEW V, NEW x \in Terminators(V), NEW keep, NEW y,
           y = [x EXCEPT !.targets = <<>> \o [i \in DOMAIN x.targets |-> Cut(keep, x.targets[i])]]
    PROVE  /\ y \in Terminators(V)
           /\ y.kind = x.kind
           /\ y.reads = x.reads
           /\ Len(y.targets) = Len(x.targets)
           /\ DOMAIN y.targets = DOMAIN x.targets
           /\ \A i \in DOMAIN x.targets : y.targets[i] = Cut(keep, x.targets[i])
<1> DEFINE targets == [i \in DOMAIN x.targets |-> Cut(keep, x.targets[i])]
<1>1. /\ x.reads \in Seq(V) /\ x.targets \in Seq(TargetOf(V)) /\ x.kind \in ExitName
      /\ x = [kind |-> x.kind, reads |-> x.reads, targets |-> x.targets] /\ ExitShaped(x)
  BY TerminatorParts
<1>2. ASSUME NEW i \in DOMAIN x.targets PROVE targets[i] \in TargetOf(V)
  <2>1. x.targets[i].block \in Block /\ x.targets[i].args \in Seq(V)
    BY TargetParts
  <2>2. Retain(x.targets[i].args, keep[x.targets[i].block]) \in Seq(V)
    BY <2>1, RetainKeeps
  <2> QED BY <2>1, <2>2 DEF Cut, Target, TargetOf
<1>3. /\ <<>> \o targets = targets /\ targets \in Seq(TargetOf(V))
      /\ Len(targets) = Len(x.targets) /\ DOMAIN targets = DOMAIN x.targets
  <2>1. targets = [i \in DOMAIN x.targets |-> targets[i]]
    OBVIOUS
  <2> HIDE DEF targets
  <2> QED BY <1>1, <1>2, <2>1, Mapped
<1>4. y = [kind |-> x.kind, reads |-> x.reads, targets |-> targets]
  <2>1. y = [x EXCEPT !.targets = <<>> \o targets]
    OBVIOUS
  <2> HIDE DEF targets
  <2> QED BY <1>1, <1>3, <2>1
<1>5. ExitShaped(y)
  <2> HIDE DEF targets
  <2>1. y.kind = x.kind /\ Len(y.reads) = Len(x.reads) /\ Len(y.targets) = Len(x.targets)
    BY <1>3, <1>4
  <2> QED BY <1>1, <2>1 DEF ExitShaped
<1>6. y \in Terminators(V)
  <2> HIDE DEF targets
  <2> QED BY <1>1, <1>3, <1>4, <1>5, Terminator
<1>7. \A i \in DOMAIN x.targets : targets[i] = Cut(keep, x.targets[i])
  OBVIOUS
<1> HIDE DEF targets
<1>8. y.kind = x.kind /\ y.reads = x.reads /\ y.targets = targets
  BY <1>4
<1> QED
  BY <1>3, <1>6, <1>7, <1>8

\* drop_params keeps a function valid, whichever parameters it removes, and
\* removes them.
LEMMA DropParamsKeeps ==
    ASSUME NEW f \in Valid, NEW dead
    PROVE  LET g == DropParams(f, dead)
           IN  /\ g \in Valid
               /\ Arena(g) = Arena(f)
               /\ \A v \in Arena(f) : f.def[v].kind # "param" => g.def[v] = f.def[v]
               /\ \A b \in Block : /\ g.block[b].insts = f.block[b].insts
                                   /\ \A i \in DOMAIN g.block[b].params :
                                         g.block[b].params[i] \notin dead
<1> DEFINE V == Arena(f)
           g == DropParams(f, dead)
           keep == [b \in Block |->
                       {i \in DOMAIN f.block[b].params : f.block[b].params[i] \notin dead}]
           exit(b) == [f.block[b].exit EXCEPT
                          !.targets = <<>> \o [i \in DOMAIN f.block[b].exit.targets |->
                                         Cut(keep, f.block[b].exit.targets[i])]]
           block == [b \in Block |-> [params |-> Retain(f.block[b].params, keep[b]),
                                     insts |-> f.block[b].insts, exit |-> exit(b)]]
           masked == {b \in Block : block[b].params # f.block[b].params}
           slots == UNION {{b} \X DOMAIN block[b].params : b \in masked}
           def == [v \in V |->
                     IF \E s \in slots : block[s[1]].params[s[2]] = v
                     THEN LET s == CHOOSE s \in slots : block[s[1]].params[s[2]] = v
                          IN  BlockParam(s[1], s[2])
                     ELSE f.def[v]]
<1>1. g = [block |-> block, def |-> def]
  BY DEF DropParams, Cut, Map
<1>2. ASSUME NEW b \in Block
      PROVE  /\ block[b] = [params |-> Retain(f.block[b].params, keep[b]),
                            insts |-> f.block[b].insts, exit |-> exit(b)]
             /\ block[b].params = Retain(f.block[b].params, keep[b])
             /\ block[b].insts = f.block[b].insts
             /\ block[b].exit = exit(b)
  <2> HIDE DEF exit, keep
  <2> QED OBVIOUS
<1>11. block = [b \in Block |-> block[b]]
  OBVIOUS
<1>12. def = [v \in V |->
                     IF \E s \in slots : block[s[1]].params[s[2]] = v
                     THEN LET s == CHOOSE s \in slots : block[s[1]].params[s[2]] = v
                          IN  BlockParam(s[1], s[2])
                     ELSE f.def[v]]
  OBVIOUS
<1> HIDE DEF g, block, def
<1>3. ASSUME NEW b \in Block
      PROVE  /\ block[b] \in BlockOf(V)
             /\ Fits(block, block[b].exit)
  <2>1. /\ f.block[b].params \in Seq(V) /\ f.block[b].insts \in Seq(V)
        /\ f.block[b].exit \in Terminators(V)
        /\ Fits(f.block, f.block[b].exit)
    BY ValidBlock
  <2>2. /\ exit(b) \in Terminators(V)
        /\ DOMAIN exit(b).targets = DOMAIN f.block[b].exit.targets
        /\ \A i \in DOMAIN f.block[b].exit.targets :
              exit(b).targets[i] = Cut(keep, f.block[b].exit.targets[i])
    <3> DEFINE x == f.block[b].exit
               y == exit(b)
    <3>1. y = [x EXCEPT !.targets = <<>> \o [i \in DOMAIN x.targets |-> Cut(keep, x.targets[i])]]
      OBVIOUS
    <3>2. x \in Terminators(V)
      BY <2>1
    <3> HIDE DEF keep, x, y
    <3>3. /\ y \in Terminators(V)
          /\ DOMAIN y.targets = DOMAIN x.targets
          /\ \A i \in DOMAIN x.targets : y.targets[i] = Cut(keep, x.targets[i])
      BY <3>1, <3>2, CutExit
    <3> QED BY <3>3 DEF x, y
  <2>3. Retain(f.block[b].params, keep[b]) \in Seq(V)
    <3> HIDE DEF keep
    <3> QED BY <2>1, RetainKeeps
  <2>4. block[b] \in BlockOf(V)
    <3>1. block[b] = [params |-> Retain(f.block[b].params, keep[b]),
                      insts |-> f.block[b].insts, exit |-> exit(b)]
      <4> HIDE DEF keep, exit
      <4> QED BY <1>2
    <3> HIDE DEF keep, exit
    <3> QED BY <2>1, <2>2, <2>3, <3>1, BlockMade
  <2>5. ASSUME NEW i \in DOMAIN exit(b).targets
        PROVE  Len(exit(b).targets[i].args) = Len(block[exit(b).targets[i].block].params)
    <3> DEFINE t == f.block[b].exit.targets[i]
    <3>1. i \in DOMAIN f.block[b].exit.targets /\ exit(b).targets[i] = Cut(keep, t)
      <4> HIDE DEF keep, exit
      <4> QED BY <2>2, <2>5
    <3>2. t.block \in Block /\ t.args \in Seq(V)
      BY <2>1, <3>1, TargetParts
    <3>3. f.block[t.block].params \in Seq(V)
      <4> HIDE DEF t
      <4> QED BY <3>2, ValidBlock
    <3>4. Len(t.args) = Len(f.block[t.block].params)
      BY <2>1, <3>1 DEF Fits
    <3>5. exit(b).targets[i].block = t.block
          /\ exit(b).targets[i].args = Retain(t.args, keep[t.block])
      <4> HIDE DEF keep, exit, t
      <4> QED BY <3>1 DEF Cut, Target
    <3>6. block[t.block].params = Retain(f.block[t.block].params, keep[t.block])
      <4> HIDE DEF keep, exit, t
      <4> QED BY <1>2, <3>2
    <3> HIDE DEF keep, exit, t
    <3> QED BY <3>2, <3>3, <3>4, <3>5, <3>6, RetainAlike
  <2>6. Fits(block, exit(b))
    <3> HIDE DEF keep, exit
    <3> QED BY <2>5 DEF Fits
  <2> HIDE DEF keep, exit
  <2> QED BY <1>2, <2>4, <2>6
\* Where a parameter that stays was.
<1>4. ASSUME NEW b \in Block, NEW i \in DOMAIN block[b].params
      PROVE  \E j \in DOMAIN f.block[b].params :
                 /\ block[b].params[i] = f.block[b].params[j]
                 /\ f.block[b].params[j] \notin dead
  <2>1. f.block[b].params \in Seq(V)
    BY ValidBlock
  <2> DEFINE K == keep[b] \cap DOMAIN f.block[b].params
             r == Retain(f.block[b].params, keep[b])
  <2>2. /\ Cardinality(K) \in Nat /\ r \in Seq(V) /\ Len(r) = Cardinality(K)
        /\ \A k \in 1 .. Cardinality(K) : Nth(K, k) \in K
                                          /\ r[k] = f.block[b].params[Nth(K, k)]
    <3> HIDE DEF keep
    <3> QED BY <2>1, RetainKeeps
  <2>3. i \in 1 .. Cardinality(K) /\ block[b].params = r
    <3>1. block[b].params = r
      <4> HIDE DEF keep
      <4> QED BY <1>2
    <3>2. DOMAIN r = 1 .. Cardinality(K)
      <4> HIDE DEF r, K
      <4> QED BY <2>2
    <3> HIDE DEF K, r
    <3> QED BY <1>4, <3>1, <3>2
  <2>4. Nth(K, i) \in K /\ block[b].params[i] = f.block[b].params[Nth(K, i)]
    <3> HIDE DEF K, r
    <3> QED BY <2>2, <2>3
  <2>5. \A j \in K : j \in DOMAIN f.block[b].params /\ f.block[b].params[j] \notin dead
    OBVIOUS
  <2> HIDE DEF K
  <2> QED BY <2>4, <2>5
\* Those that stay are told apart.
<1>5. ASSUME NEW b \in Block, NEW i \in DOMAIN block[b].params,
             NEW c \in Block, NEW j \in DOMAIN block[c].params,
             block[b].params[i] = block[c].params[j]
      PROVE  b = c /\ i = j
  <2>1. b = c
    BY <1>4, <1>5, PlacedOnce
  <2>2. f.block[b].params \in Seq(V)
    BY ValidBlock
  <2> DEFINE K == keep[b] \cap DOMAIN f.block[b].params
             r == Retain(f.block[b].params, keep[b])
  <2>3. /\ Cardinality(K) \in Nat /\ r \in Seq(V) /\ Len(r) = Cardinality(K)
        /\ \A k \in 1 .. Cardinality(K) : Nth(K, k) \in K
                                          /\ r[k] = f.block[b].params[Nth(K, k)]
        /\ \A k, l \in 1 .. Cardinality(K) : k < l => Nth(K, k) < Nth(K, l)
    <3> HIDE DEF keep
    <3> QED BY <2>2, RetainKeeps
  <2>4. i \in 1 .. Cardinality(K) /\ j \in 1 .. Cardinality(K) /\ block[b].params = r
    <3>1. block[b].params = r
      <4> HIDE DEF keep
      <4> QED BY <1>2
    <3>2. DOMAIN r = 1 .. Cardinality(K)
      <4> HIDE DEF r, K
      <4> QED BY <2>3
    <3> HIDE DEF K, r
    <3> QED BY <1>5, <2>1, <3>1, <3>2
  <2>5. Nth(K, i) \in DOMAIN f.block[b].params /\ Nth(K, j) \in DOMAIN f.block[b].params
        /\ f.block[b].params[Nth(K, i)] = f.block[b].params[Nth(K, j)]
    <3>1. \A x \in K : x \in DOMAIN f.block[b].params
      OBVIOUS
    <3>2. r[i] = r[j]
      <4> HIDE DEF r
      <4> QED BY <1>5, <2>1, <2>4
    <3> HIDE DEF K, r
    <3> QED BY <2>3, <2>4, <3>1, <3>2
  <2>6. Nth(K, i) = Nth(K, j)
    <3> HIDE DEF K
    <3> QED BY <2>5, PlacedOnce
  <2>7. Nth(K, i) \in Int
    <3>1. DOMAIN f.block[b].params \subseteq Int
      BY <2>2
    <3> QED BY <2>5, <3>1
  <2>8. ~(i < j) /\ ~(j < i)
    <3> HIDE DEF K
    <3>1. (i < j => Nth(K, i) < Nth(K, j)) /\ (j < i => Nth(K, j) < Nth(K, i))
      BY <2>3, <2>4
    <3>2. ~(Nth(K, i) < Nth(K, j)) /\ ~(Nth(K, j) < Nth(K, i))
      BY <2>6, <2>7
    <3> QED BY <3>1, <3>2
  <2> HIDE DEF K
  <2>9. i \in Int /\ j \in Int
    BY <2>3, <2>4
  <2>10. i = j
    BY <2>8, <2>9
  <2> QED BY <2>1, <2>10
<1>6. ASSUME NEW s \in slots
      PROVE  s[1] \in Block /\ s[2] \in DOMAIN block[s[1]].params
  OBVIOUS
<1>7. ASSUME NEW b \in Block, NEW i \in DOMAIN block[b].params
      PROVE  def[block[b].params[i]] = BlockParam(b, i)
  <2> DEFINE v == block[b].params[i]
             At(s) == block[s[1]].params[s[2]] = v
  <2>1. v \in V
    <3>1. block[b].params \in Seq(V)
      BY <1>3, BlockParts
    <3> QED BY <3>1
  <2>2. def[v] = IF \E s \in slots : At(s)
                 THEN LET s == CHOOSE s \in slots : At(s) IN BlockParam(s[1], s[2])
                 ELSE f.def[v]
    <3> HIDE DEF slots, v
    <3> QED BY <1>12, <2>1
  <2>3. \A s \in slots : At(s) => s[1] = b /\ s[2] = i
    <3> HIDE DEF slots
    <3> QED BY <1>5, <1>6
  <2>4. CASE \E s \in slots : At(s)
    <3> DEFINE s == CHOOSE s \in slots : At(s)
    <3>1. s \in slots /\ At(s)
      <4> HIDE DEF slots, At
      <4> QED BY <2>4
    <3>2. s[1] = b /\ s[2] = i
      <4> HIDE DEF slots, At, s
      <4> QED BY <2>3, <3>1
    <3>3. def[v] = BlockParam(s[1], s[2])
      <4> HIDE DEF slots, At, v
      <4> QED BY <2>2, <2>4
    <3> HIDE DEF s, slots
    <3> QED BY <3>2, <3>3
  <2>5. CASE ~ \E s \in slots : At(s)
    <3>1. b \notin masked
      <4> SUFFICES ASSUME b \in masked PROVE FALSE
        OBVIOUS
      <4>1. <<b, i>> \in slots
        OBVIOUS
      <4>2. At(<<b, i>>)
        OBVIOUS
      <4> HIDE DEF slots, At
      <4> QED BY <2>5, <4>1, <4>2
    <3>2. block[b].params = f.block[b].params
      BY <3>1
    <3>3. f.def[v] = BlockParam(b, i)
      <4>1. Numbers(f.block, f.def, b)
        BY ValidBlock
      <4> QED BY <3>2, <4>1 DEF Numbers
    <3>4. def[v] = f.def[v]
      <4> HIDE DEF slots, At, v
      <4> QED BY <2>2, <2>5
    <3> QED BY <3>3, <3>4
  <2> QED BY <2>4, <2>5
<1>8. ASSUME NEW v \in V
      PROVE  /\ def[v] \in Definitions(V)
             /\ f.def[v].kind # "param" => def[v] = f.def[v]
  <2> DEFINE At(s) == block[s[1]].params[s[2]] = v
  <2>1. def[v] = IF \E s \in slots : At(s)
                 THEN LET s == CHOOSE s \in slots : At(s) IN BlockParam(s[1], s[2])
                 ELSE f.def[v]
    <3> HIDE DEF slots
    <3> QED BY <1>12
  <2>2. CASE \E s \in slots : At(s)
    <3>1. PICK s \in slots : At(s)
      <4> HIDE DEF slots, At
      <4> QED BY <2>2
    <3>2. s[1] \in Block /\ s[2] \in DOMAIN block[s[1]].params
      <4> HIDE DEF slots
      <4> QED BY <1>6
    <3>3. def[v] = BlockParam(s[1], s[2])
      <4> HIDE DEF slots
      <4> QED BY <1>7, <3>1, <3>2
    <3>4. s[2] \in Nat
      <4>1. block[s[1]].params \in Seq(V)
        <5> HIDE DEF slots
        <5> QED BY <1>3, <3>2, BlockParts
      <4> HIDE DEF slots
      <4> QED BY <3>2, <4>1
    <3>5. f.def[v].kind = "param"
      <4>1. PICK j \in DOMAIN f.block[s[1]].params : f.block[s[1]].params[j] = v
        <5> HIDE DEF slots
        <5> QED BY <1>4, <3>1, <3>2
      <4>2. Numbers(f.block, f.def, s[1])
        <5> HIDE DEF slots
        <5> QED BY <3>2, ValidBlock
      <4>3. f.def[v] = BlockParam(s[1], j)
        <5> HIDE DEF slots
        <5> QED BY <4>1, <4>2 DEF Numbers
      <4> HIDE DEF slots
      <4> QED BY <4>3 DEF BlockParam
    <3>6. BlockParam(s[1], s[2]) \in Definitions(V)
      <4> HIDE DEF slots
      <4> QED BY <3>2, <3>4, DefinitionsMade
    <3> HIDE DEF slots
    <3> QED BY <3>3, <3>5, <3>6
  <2>3. CASE ~ \E s \in slots : At(s)
    <3>1. def[v] = f.def[v]
      <4> HIDE DEF slots, At
      <4> QED BY <2>1, <2>3
    <3>2. f.def[v] \in Definitions(V)
      BY ValidParts
    <3> QED BY <3>1, <3>2
  <2> QED BY <2>2, <2>3
<1>9. g \in Valid /\ Arena(g) = V
  <2>1. block \in [Block -> BlockOf(V)]
    <3>1. block = [b \in Block |-> block[b]]
      BY <1>11
    <3> QED BY <1>3, <3>1
  <2>2. \A b \in Block : Numbers(block, def, b)
    BY <1>7 DEF Numbers
  <2>3. def \in Seq(Definitions(V)) /\ DOMAIN def = V
    <3> DEFINE D == Definitions(V)
    <3>1. V = 1 .. Len(f.def) /\ Len(f.def) \in Nat
      BY ValidParts
    <3>2. def = [v \in V |-> def[v]]
      BY <1>12
    <3>3. \A v \in V : def[v] \in D
      BY <1>8
    <3>4. def \in [1 .. Len(f.def) -> D]
      <4> HIDE DEF D, V
      <4> QED BY <3>1, <3>2, <3>3
    <3> HIDE DEF D
    <3>5. def \in Seq(D) /\ DOMAIN def = 1 .. Len(f.def)
      BY <3>1, <3>4, Listed
    <3> QED BY <3>1, <3>5 DEF D
  <2>4. \A b \in Block : Fits(block, block[b].exit)
    BY <1>3
  <2> HIDE DEF V
  <2>5. LET h == [block |-> block, def |-> def] IN h \in Valid /\ Arena(h) = V
    BY <2>1, <2>2, <2>3, <2>4, ValidBuilt
  <2> QED BY <1>1, <2>5
<1>10. \A b \in Block : \A i \in DOMAIN block[b].params : block[b].params[i] \notin dead
  BY <1>4
<1>13. g.block = block /\ g.def = def
  BY <1>1
<1> QED
  BY <1>2, <1>8, <1>9, <1>10, <1>13 DEF g
-----------------------------------------------------------------------------
(* Reachability, aliases and replacements *)

\* The entry is reachable, and so are the successors of what is.
LEMMA ReachableClosed ==
    ASSUME NEW f, IdsInArena(f)
    PROVE  /\ Reachable(f) \subseteq Block
           /\ Entry \in Reachable(f)
           /\ \A b \in Reachable(f) : Succ(f, b) \subseteq Reachable(f)
<1> DEFINE Onward(S) == S \cup UNION {Succ(f, b) : b \in S}
           F == [S \in SUBSET Block |-> Onward(S)]
<1>1. PICK it \in [0 .. BlockCount -> SUBSET Block] :
               /\ it[0] = {Entry}
               /\ \A k \in 0 .. BlockCount - 1 : it[k + 1] = Onward(it[k])
               /\ Reachable(f) = it[BlockCount]
  BY ReachableRun
<1>2. BlockCount \in Nat
  BY BlocksFinite
<1>3. F \in [SUBSET Block -> SUBSET Block] /\ \A S \in SUBSET Block : S \subseteq F[S]
  BY SuccBlocks
<1>4. \A k \in 0 .. BlockCount - 1 : it[k + 1] = F[it[k]]
  <2>1. \A k \in 0 .. BlockCount - 1 : it[k] \in SUBSET Block
    BY <1>2
  <2> HIDE DEF Onward
  <2> QED BY <1>1, <2>1
<1>5. F[it[BlockCount]] = it[BlockCount]
  <2> HIDE DEF F, Onward
  <2>1. Cardinality(Block) <= BlockCount /\ IsFiniteSet(Block)
    BY <1>2, BlocksFinite
  <2>2. Grows(Block, BlockCount, F, it)
    BY <1>3, <1>4 DEF Grows
  <2> QED BY <1>2, <2>1, <2>2, Saturates
<1>6. it[BlockCount] \in SUBSET Block /\ Onward(it[BlockCount]) = it[BlockCount]
  BY <1>2, <1>5
<1>7. Entry \in Reachable(f)
  <2>1. \A k \in 0 .. BlockCount - 1 : Entry \in it[k] => Entry \in it[k + 1]
    BY <1>1
  <2> DEFINE T == {S \in SUBSET Block : Entry \in S}
  <2>2. it[0] \in T /\ \A k \in 0 .. BlockCount - 1 : it[k] \in T => it[k + 1] \in T
    <3>1. \A k \in 0 .. BlockCount : it[k] \in SUBSET Block
      OBVIOUS
    <3> QED BY <1>1, <1>2, <2>1, <3>1
  <2>3. it[BlockCount] \in T
    <3> HIDE DEF T, Onward
    <3>1. \A k \in 0 .. BlockCount : it[k] \in T
      BY <1>2, <2>2, Stays
    <3> QED BY <1>2, <3>1
  <2> QED BY <1>1, <2>3
<1> QED
  BY <1>1, <1>6, <1>7

\* Whatever holds the entry and is closed under successors holds all that is
\* reachable.
LEMMA ReachableLeast ==
    ASSUME NEW f, IdsInArena(f), NEW R, Entry \in R,
           \A b \in R \cap Block : Succ(f, b) \subseteq R
    PROVE  Reachable(f) \subseteq R
<1> DEFINE Onward(S) == S \cup UNION {Succ(f, b) : b \in S}
           T == {S \in SUBSET Block : S \subseteq R}
<1>1. PICK it \in [0 .. BlockCount -> SUBSET Block] :
               /\ it[0] = {Entry}
               /\ \A k \in 0 .. BlockCount - 1 : it[k + 1] = Onward(it[k])
               /\ Reachable(f) = it[BlockCount]
  BY ReachableRun
<1>2. BlockCount \in Nat
  BY BlocksFinite
<1>3. \A S \in T : Onward(S) \in T
  <2> SUFFICES ASSUME NEW S \in T PROVE Onward(S) \in T
    OBVIOUS
  <2>1. \A b \in S : Succ(f, b) \subseteq R /\ Succ(f, b) \subseteq Block
    BY SuccBlocks
  <2> QED BY <2>1
<1>4. it[0] \in T
  BY <1>1, <1>2
<1>5. \A k \in 0 .. BlockCount : it[k] \in T
  <2> HIDE DEF T, Onward
  <2>1. \A k \in 0 .. BlockCount - 1 : it[k] \in T => it[k + 1] \in T
    BY <1>1, <1>3
  <2> QED BY <1>2, <1>4, <2>1, Stays
<1> QED
  BY <1>1, <1>2, <1>5

\* Following a map round stays among its keys.
LEMMA ResolveStays ==
    ASSUME NEW Keys, NEW parent \in [Keys -> Keys], Len(parent) \in Nat, NEW v \in Keys
    PROVE  Resolve(parent, v) \in Keys
<1> DEFINE A == Keys
           x == v
           n == Len(parent)
           Onward(u) == parent[u]
           Q(it) == it = [k \in 0 .. n |-> IF k = 0 THEN x ELSE Onward(it[k - 1])]
<1>1. n \in Nat /\ x \in A
  OBVIOUS
<1>2. \A k \in 1 .. n : \A u \in A : Onward(u) \in A
  OBVIOUS
<1>3. \E it : Q(it)
  <2> DEFINE F == [k \in 1 .. n |-> [u \in A |-> Onward(u)]]
  <2> HIDE DEF A, x, n, Onward
  <2>1. F \in Steps(A, n)
    BY <1>2 DEF Steps
  <2>2. PICK it \in [0 .. n -> A] : it[0] = x /\ \A k \in 1 .. n : it[k] = F[k][it[k - 1]]
    <3> HIDE DEF F
    <3>1. Runs(A, x, n, F)
      BY <1>1, <2>1, Iterated
    <3> QED BY <3>1 DEF Runs
  <2>3. \A k \in 0 .. n : it[k] = IF k = 0 THEN x ELSE Onward(it[k - 1])
    <3>1. \A k \in 1 .. n : it[k - 1] \in A
      BY <1>1
    <3>2. \A k \in 1 .. n : F[k][it[k - 1]] = Onward(it[k - 1])
      BY <3>1
    <3> HIDE DEF F
    <3> QED BY <1>1, <2>2, <3>2
  <2>4. Q(it)
    <3> HIDE DEF F
    <3> QED BY <2>2, <2>3, Zenon
  <2> QED BY <2>4
<1> DEFINE it == CHOOSE it : Q(it)
<1>4. Q(it)
  <2> HIDE DEF Q
  <2> QED BY <1>3
<1>5. Resolve(parent, v) = it[n]
  BY DEF Resolve, Iterate
<1> HIDE DEF it
<1>6. it[0] = x /\ \A k \in 1 .. n : it[k] = Onward(it[k - 1])
  <2> HIDE DEF A, x, n, Onward
  <2> QED BY <1>1, <1>4
<1>7. \A k \in 0 .. n : it[k] \in A
  <2> HIDE DEF Onward, A, x
  <2>1. it[0] \in A /\ \A k \in 0 .. n - 1 : it[k] \in A => it[k + 1] \in A
    <3>1. \A k \in 0 .. n - 1 : k + 1 \in 1 .. n /\ (k + 1) - 1 = k
      BY <1>1
    <3> QED BY <1>1, <1>2, <1>6, <3>1
  <2> HIDE DEF n
  <2> QED BY <1>1, <2>1, Stays
<1> QED
  BY <1>1, <1>5, <1>7

\* Where the value of an alias is.
AliasStep(f, u) == IF IsAlias(f, u) THEN f.def[u].args[1] ELSE u

\* One step along the aliases stays in the arena.
LEMMA AliasSteps ==
    ASSUME NEW f \in Valid, NEW u \in Arena(f)
    PROVE  AliasStep(f, u) \in Arena(f)
<1>1. f.def[u] \in Definitions(Arena(f))
  BY ValidParts
<1> QED
  BY <1>1, DefinitionKinds DEF AliasStep, IsAlias

\* The end of a chase is a value.
LEMMA TerminalTyped ==
    ASSUME NEW f \in Valid
    PROVE  TerminalMap(f) \in [Arena(f) -> Arena(f)]
<1> SUFFICES ASSUME NEW v \in Arena(f) PROVE TerminalMap(f)[v] \in Arena(f)
  BY DEF TerminalMap
<1> DEFINE A == Arena(f)
           x == v
           n == MaxChain
           Onward(u) == IF IsAlias(f, u) THEN f.def[u].args[1] ELSE u
           Q(it) == it = [k \in 0 .. n |-> IF k = 0 THEN x ELSE Onward(it[k - 1])]
<1>1. n \in Nat /\ x \in A
  BY DeclutterPassesAssumption
<1>2. \A k \in 1 .. n : \A u \in A : Onward(u) \in A
  BY AliasSteps DEF AliasStep
<1>3. \E it : Q(it)
  <2> DEFINE F == [k \in 1 .. n |-> [u \in A |-> Onward(u)]]
  <2> HIDE DEF A, x, n, Onward
  <2>1. F \in Steps(A, n)
    BY <1>2 DEF Steps
  <2>2. PICK it \in [0 .. n -> A] : it[0] = x /\ \A k \in 1 .. n : it[k] = F[k][it[k - 1]]
    <3> HIDE DEF F
    <3>1. Runs(A, x, n, F)
      BY <1>1, <2>1, Iterated
    <3> QED BY <3>1 DEF Runs
  <2>3. \A k \in 0 .. n : it[k] = IF k = 0 THEN x ELSE Onward(it[k - 1])
    <3>1. \A k \in 1 .. n : it[k - 1] \in A
      BY <1>1
    <3>2. \A k \in 1 .. n : F[k][it[k - 1]] = Onward(it[k - 1])
      BY <3>1
    <3> HIDE DEF F
    <3> QED BY <1>1, <2>2, <3>2
  <2>4. Q(it)
    <3> HIDE DEF F
    <3> QED BY <2>2, <2>3, Zenon
  <2> QED BY <2>4
<1> DEFINE it == CHOOSE it : Q(it)
<1>4. Q(it)
  <2> HIDE DEF Q
  <2> QED BY <1>3
<1>5. TerminalMap(f)[v] = it[n]
  BY DEF TerminalMap, Iterate
<1> HIDE DEF it
<1>6. it[0] = x /\ \A k \in 1 .. n : it[k] = Onward(it[k - 1])
  <2> HIDE DEF A, x, n, Onward
  <2> QED BY <1>1, <1>4
<1>7. \A k \in 0 .. n : it[k] \in A
  <2> HIDE DEF Onward, A, x
  <2>1. it[0] \in A /\ \A k \in 0 .. n - 1 : it[k] \in A => it[k + 1] \in A
    <3>1. \A k \in 0 .. n - 1 : k + 1 \in 1 .. n /\ (k + 1) - 1 = k
      BY <1>1
    <3> QED BY <1>1, <1>2, <1>6, <3>1
  <2> HIDE DEF n
  <2> QED BY <1>1, <2>1, Stays
<1> QED
  BY <1>1, <1>5, <1>7

\* So does the whole chase.
LEMMA RootTyped ==
    ASSUME NEW f \in Valid, NEW v \in Arena(f)
    PROVE  Root(f, v) \in Arena(f)
<1>0. CASE ~IsAlias(f, v)
  BY <1>0 DEF Root
<1>10. CASE IsAlias(f, v)
  <2> DEFINE A == Arena(f)
             x == v
             n == Cardinality({u \in Arena(f) : IsAlias(f, u)})
             Onward(u) == IF IsAlias(f, u) THEN f.def[u].args[1] ELSE u
             Q(it) == it = [k \in 0 .. n |-> IF k = 0 THEN x ELSE Onward(it[k - 1])]
  <2>1. n \in Nat /\ x \in A
    <3>1. IsFiniteSet(Arena(f))
      <4>1. Arena(f) = 1 .. Len(f.def) /\ Len(f.def) \in Nat
        BY ValidParts
      <4> QED BY <4>1, FS_Interval
    <3>2. IsFiniteSet({u \in Arena(f) : IsAlias(f, u)})
      <4>1. {u \in Arena(f) : IsAlias(f, u)} \in SUBSET Arena(f)
        OBVIOUS
      <4> QED BY <3>1, <4>1, FS_Subset
    <3> QED BY <3>2, FS_CardinalityType
  <2>2. \A k \in 1 .. n : \A u \in A : Onward(u) \in A
    BY AliasSteps DEF AliasStep
  <2>3. \E it : Q(it)
    <3> DEFINE F == [k \in 1 .. n |-> [u \in A |-> Onward(u)]]
    <3> HIDE DEF A, x, n, Onward
    <3>1. F \in Steps(A, n)
      BY <2>2 DEF Steps
    <3>2. PICK it \in [0 .. n -> A] : it[0] = x /\ \A k \in 1 .. n : it[k] = F[k][it[k - 1]]
      <4> HIDE DEF F
      <4>1. Runs(A, x, n, F)
        BY <2>1, <3>1, Iterated
      <4> QED BY <4>1 DEF Runs
    <3>3. \A k \in 0 .. n : it[k] = IF k = 0 THEN x ELSE Onward(it[k - 1])
      <4>1. \A k \in 1 .. n : it[k - 1] \in A
        BY <2>1
      <4>2. \A k \in 1 .. n : F[k][it[k - 1]] = Onward(it[k - 1])
        BY <4>1
      <4> HIDE DEF F
      <4> QED BY <2>1, <3>2, <4>2
    <3>4. Q(it)
      <4> HIDE DEF F
      <4> QED BY <3>2, <3>3, Zenon
    <3> QED BY <3>4
  <2> DEFINE it == CHOOSE it : Q(it)
  <2>4. Q(it)
    <3> HIDE DEF Q
    <3> QED BY <2>3
  <2>5. Root(f, v) = it[n]
    BY <1>10 DEF Root, Iterate
  <2> HIDE DEF it
  <2>6. it[0] = x /\ \A k \in 1 .. n : it[k] = Onward(it[k - 1])
    <3> HIDE DEF A, x, n, Onward
    <3> QED BY <2>1, <2>4
  <2>7. \A k \in 0 .. n : it[k] \in A
    <3> HIDE DEF Onward, A, x
    <3>1. it[0] \in A /\ \A k \in 0 .. n - 1 : it[k] \in A => it[k + 1] \in A
      <4>1. \A k \in 0 .. n - 1 : k + 1 \in 1 .. n /\ (k + 1) - 1 = k
        BY <2>1
      <4> QED BY <2>1, <2>2, <2>6, <4>1
    <3> HIDE DEF n
    <3> QED BY <2>1, <3>1, Stays
  <2> QED BY <2>1, <2>5, <2>7
<1> QED
  BY <1>0, <1>10
-----------------------------------------------------------------------------
(* The passes keep a function valid *)

\* What a pass answers.
LEMMA ResultParts == \A f, c : Result(f, c).ir = f /\ Result(f, c).changed = c
BY DEF Result

\* Other definitions, where the parameters' are the same.
LEMMA Retold ==
    ASSUME NEW f \in Valid, NEW def \in [Arena(f) -> Definitions(Arena(f))],
           \A b \in Block : \A i \in DOMAIN f.block[b].params :
               def[f.block[b].params[i]] = f.def[f.block[b].params[i]]
    PROVE  LET g == [block |-> f.block, def |-> def] IN g \in Valid /\ Arena(g) = Arena(f)
<1>1. \A b \in Block : Numbers(f.block, def, b)
  BY ValidParts DEF Numbers
<1>2. /\ Arena(f) = 1 .. Len(f.def) /\ Len(f.def) \in Nat
      /\ f.block \in [Block -> BlockOf(Arena(f))]
      /\ \A b \in Block : Fits(f.block, f.block[b].exit)
  BY ValidParts
<1>3. def \in Seq(Definitions(Arena(f))) /\ DOMAIN def = Arena(f)
  <2> DEFINE D == Definitions(Arena(f))
  <2>1. def \in [1 .. Len(f.def) -> D]
    BY <1>2
  <2> HIDE DEF D
  <2>2. def \in Seq(D) /\ DOMAIN def = 1 .. Len(f.def)
    BY <1>2, <2>1, Listed
  <2> QED BY <1>2, <2>2 DEF D
<1> QED
  BY <1>1, <1>2, <1>3, ValidBuilt

\* resolve-aliases keeps functions valid, and says so when it changes one.
LEMMA ResolveAliasesKeeps ==
    ASSUME NEW f \in Valid
    PROVE  /\ ResolveAliases(f).ir \in Valid
           /\ ~ResolveAliases(f).changed => ResolveAliases(f).ir = f
<1> DEFINE terminal == TerminalMap(f)
           rewired == RewriteUses(f, terminal)
           stale == {v \in Arena(f) : /\ IsAlias(rewired, v)
                                   /\ terminal[v] # rewired.def[v].args[1]
                                   /\ terminal[v] # v}
           def == [v \in Arena(f) |-> IF v \in stale THEN Alias(terminal[v])
                                     ELSE rewired.def[v]]
           flat == [rewired EXCEPT !.def = def]
<1>1. ResolveAliases(f) =
          IF \A v \in Arena(f) : terminal[v] = v THEN Result(f, FALSE)
          ELSE Result(flat, rewired # f \/ stale # {})
  BY DEF ResolveAliases
<1>2. terminal \in [Arena(f) -> Arena(f)]
  BY TerminalTyped
<1>3. rewired \in Valid /\ Arena(rewired) = Arena(f)
      /\ rewired = [block |-> rewired.block, def |-> rewired.def]
  <2> HIDE DEF terminal
  <2> QED BY <1>2, RewriteUsesKeeps
<1> HIDE DEF rewired, terminal
<1>4. \A v \in Arena(f) : /\ def[v] \in Definitions(Arena(f))
                          /\ rewired.def[v].kind = "param" => def[v] = rewired.def[v]
  <2> SUFFICES ASSUME NEW v \in Arena(f)
               PROVE  /\ def[v] \in Definitions(Arena(f))
                      /\ rewired.def[v].kind = "param" => def[v] = rewired.def[v]
    OBVIOUS
  <2>1. rewired.def[v] \in Definitions(Arena(f))
    BY <1>3, ValidParts
  <2>2. Alias(terminal[v]) \in Definitions(Arena(f))
    BY <1>2, DefinitionsMade
  <2>3. v \in stale => rewired.def[v].kind # "param"
    BY DEF IsAlias
  <2> HIDE DEF stale
  <2> QED BY <2>1, <2>2, <2>3
<1>5. flat = [block |-> rewired.block, def |-> def]
  <2> HIDE DEF def
  <2> QED BY <1>3
<1>6. flat \in Valid
  <2>1. def \in [Arena(rewired) -> Definitions(Arena(rewired))]
    <3>1. def = [v \in Arena(f) |-> def[v]]
      OBVIOUS
    <3> HIDE DEF def
    <3> QED BY <1>3, <1>4, <3>1
  <2> HIDE DEF def, flat
  <2> QED BY <1>3, <1>4, <1>5, <2>1, Redefined
<1>7. rewired = f /\ stale = {} => flat = f
  <2>1. stale = {} => def = [v \in Arena(f) |-> rewired.def[v]]
    OBVIOUS
  <2>2. f.def = [v \in Arena(f) |-> f.def[v]] /\ f = [block |-> f.block, def |-> f.def]
    BY ValidParts
  <2> HIDE DEF def, flat, stale
  <2> QED BY <1>5, <2>1, <2>2
<1>8. CASE \A v \in Arena(f) : terminal[v] = v
  <2>1. ResolveAliases(f) = Result(f, FALSE)
    BY <1>1, <1>8
  <2> QED BY <2>1, ResultParts
<1>9. CASE ~ \A v \in Arena(f) : terminal[v] = v
  <2> HIDE DEF flat, stale
  <2>1. ResolveAliases(f) = Result(flat, rewired # f \/ stale # {})
    BY <1>1, <1>9
  <2>2. ResolveAliases(f).ir = flat /\ (ResolveAliases(f).changed = (rewired # f \/ stale # {}))
    BY <2>1, ResultParts
  <2> QED BY <1>6, <1>7, <2>2
<1> QED
  BY <1>8, <1>9

\* Any slot of a reachable block has a parameter.
LEMMA SlotPlaces ==
    ASSUME NEW f \in Valid
    PROVE  \A s \in Slots(f) : /\ s[1] \in Reachable(f) \ {Entry}
                               /\ s[1] \in Block
                               /\ s[2] \in DOMAIN f.block[s[1]].params
                               /\ s = <<s[1], s[2]>>
<1>1. Reachable(f) \subseteq Block
  BY ReachableClosed, ValidMeans
<1> QED
  BY <1>1 DEF Slots

\* What an edge passes to a parameter is a value.
LEMMA ArgTyped ==
    ASSUME NEW f \in Valid, NEW b \in Block, NEW e \in InEdges(f, b)
    PROVE  /\ EdgeArgs(f, e) \in Seq(Arena(f))
           /\ Len(EdgeArgs(f, e)) = Len(f.block[b].params)
           /\ \A i \in DOMAIN f.block[b].params : EdgeArgs(f, e)[i] \in Arena(f)
<1>1. PICK p \in Block : \E i \in DOMAIN f.block[p].exit.targets :
          e = <<p, i>> /\ f.block[p].exit.targets[i].block = b
  BY InEdgesAre
<1>2. PICK i \in DOMAIN f.block[p].exit.targets :
          e = <<p, i>> /\ f.block[p].exit.targets[i].block = b
  BY <1>1
<1>3. EdgeArgs(f, e) = f.block[p].exit.targets[i].args
  BY <1>2 DEF EdgeArgs
<1>4. f.block[p].exit \in Terminators(Arena(f)) /\ Fits(f.block, f.block[p].exit)
      /\ f.block[b].params \in Seq(Arena(f))
  BY ValidBlock
<1>5. f.block[p].exit.targets[i].args \in Seq(Arena(f))
  BY <1>4, TargetParts
<1>6. Len(f.block[p].exit.targets[i].args) = Len(f.block[b].params)
  BY <1>2, <1>4 DEF Fits
<1>7. DOMAIN f.block[b].params = DOMAIN EdgeArgs(f, e)
  BY <1>3, <1>4, <1>5, <1>6
<1>8. \A place \in DOMAIN EdgeArgs(f, e) : EdgeArgs(f, e)[place] \in Arena(f)
  BY <1>3, <1>5
<1> QED
  BY <1>3, <1>5, <1>6, <1>7, <1>8

\* The union-find parents of a function.
Parents(f) == [Arena(f) -> Arena(f)]

\* Unifying one slot keeps the parents in the arena.
LEMMA UnifyTyped ==
    ASSUME NEW f \in Valid, NEW parent \in Parents(f), NEW b \in Block,
           NEW i \in DOMAIN f.block[b].params
    PROVE  Unify(f, parent, <<b, i>>) \in Parents(f)
<1> DEFINE vs == Incoming(f, parent, <<b, i>>)
           p == ParamAt(f, <<b, i>>)
<1>1. vs \subseteq Arena(f)
  <2>1. Len(parent) \in Nat
    <3>1. Arena(f) = 1 .. Len(f.def) /\ Len(f.def) \in Nat
      BY ValidParts
    <3>2. parent \in [1 .. Len(f.def) -> Arena(f)]
      BY <3>1 DEF Parents
    <3> QED BY <3>1, <3>2, Listed
  <2>2. ASSUME NEW e \in InEdges(f, b) PROVE Resolve(parent, EdgeArgs(f, e)[i]) \in Arena(f)
    <3>1. EdgeArgs(f, e)[i] \in Arena(f)
      BY ArgTyped
    <3> QED BY <2>1, <3>1, ResolveStays DEF Parents
  <2> QED BY <2>2 DEF Incoming, LiveInEdges
<1>2. Cardinality(vs) = 1 => (CHOOSE v \in vs : TRUE) \in vs
  <2>1. Cardinality(vs) = 1 => vs # {}
    BY FS_EmptySet
  <2> HIDE DEF vs
  <2> QED BY <2>1
<1>3. Unify(f, parent, <<b, i>>) =
          IF parent[p] = p /\ Cardinality(vs) = 1
          THEN [parent EXCEPT ![p] = CHOOSE v \in vs : TRUE] ELSE parent
  BY DEF Unify
<1> HIDE DEF vs, p
<1> QED
  BY <1>1, <1>2, <1>3 DEF Parents

\* So does a block of them.
LEMMA UnifyBlockTyped ==
    ASSUME NEW f \in Valid, NEW parent \in Parents(f), NEW b \in Block
    PROVE  UnifyBlock(f, parent, b) \in Parents(f)
<1> DEFINE seq == [i \in DOMAIN f.block[b].params |-> i]
       folded == FoldOver(LAMBDA m, i : Unify(f, m, <<b, i>>), parent, seq)
<1>0. Len(seq) \in Nat /\ \A i \in 1 .. Len(seq) : seq[i] \in DOMAIN f.block[b].params
  <2>1. f.block[b].params \in Seq(Arena(f))
    BY ValidBlock
  <2> QED BY <2>1
<1> DEFINE A == Parents(f)
           x == parent
           n == Len(seq)
           Onward(k, u) == Unify(f, u, <<b, seq[k]>>)
           Q(it) == it = [k \in 0 .. n |-> IF k = 0 THEN x ELSE Onward(k, it[k - 1])]
<1>1. n \in Nat /\ x \in A
  BY <1>0
<1>2. \A k \in 1 .. n : \A u \in A : Onward(k, u) \in A
  BY <1>0, UnifyTyped
<1>3. \E it : Q(it)
  <2> DEFINE F == [k \in 1 .. n |-> [u \in A |-> Onward(k, u)]]
  <2> HIDE DEF A, x, n, Onward
  <2>1. F \in Steps(A, n)
    BY <1>2 DEF Steps
  <2>2. PICK it \in [0 .. n -> A] : it[0] = x /\ \A k \in 1 .. n : it[k] = F[k][it[k - 1]]
    <3> HIDE DEF F
    <3>1. Runs(A, x, n, F)
      BY <1>1, <2>1, Iterated
    <3> QED BY <3>1 DEF Runs
  <2>3. \A k \in 0 .. n : it[k] = IF k = 0 THEN x ELSE Onward(k, it[k - 1])
    <3>1. \A k \in 1 .. n : it[k - 1] \in A
      BY <1>1
    <3>2. \A k \in 1 .. n : F[k][it[k - 1]] = Onward(k, it[k - 1])
      BY <3>1
    <3> HIDE DEF F
    <3> QED BY <1>1, <2>2, <3>2
  <2>4. Q(it)
    <3> HIDE DEF F
    <3> QED BY <2>2, <2>3, Zenon
  <2> QED BY <2>4
<1> DEFINE it == CHOOSE it : Q(it)
<1>4. Q(it)
  <2> HIDE DEF Q
  <2> QED BY <1>3
<1>5. folded = it[n]
  BY DEF FoldOver
<1> HIDE DEF it
<1>6. it[0] = x /\ \A k \in 1 .. n : it[k] = Onward(k, it[k - 1])
  <2> HIDE DEF A, x, n, Onward
  <2> QED BY <1>1, <1>4
<1>7. \A k \in 0 .. n : it[k] \in A
  <2> HIDE DEF Onward, A, x
  <2>1. it[0] \in A /\ \A k \in 0 .. n - 1 : it[k] \in A => it[k + 1] \in A
    <3>1. \A k \in 0 .. n - 1 : k + 1 \in 1 .. n /\ (k + 1) - 1 = k
      BY <1>1
    <3> QED BY <1>1, <1>2, <1>6, <3>1
  <2> HIDE DEF n
  <2> QED BY <1>1, <2>1, Stays
<1> QED
  <2>1. UnifyBlock(f, parent, b) = IF b \in Reachable(f) \ {Entry} THEN folded ELSE parent
    BY DEF UnifyBlock
  <2> HIDE DEF folded, seq, n
  <2>2. folded \in Parents(f)
    BY <1>1, <1>5, <1>7
  <2> QED BY <2>1, <2>2

\* So does a round.
LEMMA UnifyAllTyped ==
    ASSUME NEW f \in Valid, NEW parent \in Parents(f)
    PROVE  UnifyAll(f, parent) \in Parents(f)
<1> DEFINE seq == [b \in Block |-> b]
<1>0. Len(seq) = BlockCount /\ BlockCount \in Nat /\ \A b \in 1 .. Len(seq) : seq[b] \in Block
  BY BlocksFinite DEF Block
<1> DEFINE A == Parents(f)
           x == parent
           n == Len(seq)
           Onward(k, u) == UnifyBlock(f, u, seq[k])
           Q(it) == it = [k \in 0 .. n |-> IF k = 0 THEN x ELSE Onward(k, it[k - 1])]
<1>1. n \in Nat /\ x \in A
  BY <1>0
<1>2. \A k \in 1 .. n : \A u \in A : Onward(k, u) \in A
  BY <1>0, UnifyBlockTyped
<1>3. \E it : Q(it)
  <2> DEFINE F == [k \in 1 .. n |-> [u \in A |-> Onward(k, u)]]
  <2> HIDE DEF A, x, n, Onward
  <2>1. F \in Steps(A, n)
    BY <1>2 DEF Steps
  <2>2. PICK it \in [0 .. n -> A] : it[0] = x /\ \A k \in 1 .. n : it[k] = F[k][it[k - 1]]
    <3> HIDE DEF F
    <3>1. Runs(A, x, n, F)
      BY <1>1, <2>1, Iterated
    <3> QED BY <3>1 DEF Runs
  <2>3. \A k \in 0 .. n : it[k] = IF k = 0 THEN x ELSE Onward(k, it[k - 1])
    <3>1. \A k \in 1 .. n : it[k - 1] \in A
      BY <1>1
    <3>2. \A k \in 1 .. n : F[k][it[k - 1]] = Onward(k, it[k - 1])
      BY <3>1
    <3> HIDE DEF F
    <3> QED BY <1>1, <2>2, <3>2
  <2>4. Q(it)
    <3> HIDE DEF F
    <3> QED BY <2>2, <2>3, Zenon
  <2> QED BY <2>4
<1> DEFINE it == CHOOSE it : Q(it)
<1>4. Q(it)
  <2> HIDE DEF Q
  <2> QED BY <1>3
<1>5. UnifyAll(f, parent) = it[n]
  BY DEF UnifyAll, FoldOver
<1> HIDE DEF it
<1>6. it[0] = x /\ \A k \in 1 .. n : it[k] = Onward(k, it[k - 1])
  <2> HIDE DEF A, x, n, Onward
  <2> QED BY <1>1, <1>4
<1>7. \A k \in 0 .. n : it[k] \in A
  <2> HIDE DEF Onward, A, x
  <2>1. it[0] \in A /\ \A k \in 0 .. n - 1 : it[k] \in A => it[k + 1] \in A
    <3>1. \A k \in 0 .. n - 1 : k + 1 \in 1 .. n /\ (k + 1) - 1 = k
      BY <1>1
    <3> QED BY <1>1, <1>2, <1>6, <3>1
  <2> HIDE DEF n
  <2> QED BY <1>1, <2>1, Stays
<1> QED
  BY <1>1, <1>5, <1>7

\* The parents found in the end.
LastParents(f) ==
    Iterate(LAMBDA m : UnifyAll(f, m), [v \in Arena(f) |-> v], Cardinality(Slots(f)))

\* The parameter slots are finitely many.
LEMMA SlotsFinite ==
    ASSUME NEW f \in Valid
    PROVE  IsFiniteSet(Slots(f)) /\ Cardinality(Slots(f)) \in Nat
<1> DEFINE h == [s \in Slots(f) |-> ParamAt(f, s)]
<1>1. ASSUME NEW s \in Slots(f)
      PROVE  ParamAt(f, s) \in Arena(f)
  <2>1. s[1] \in Block /\ s[2] \in DOMAIN f.block[s[1]].params
    BY SlotPlaces
  <2>2. f.block[s[1]].params \in Seq(Arena(f))
    BY <2>1, ValidBlock
  <2> QED BY <2>1, <2>2 DEF ParamAt
<1>2. ASSUME NEW s \in Slots(f), NEW r \in Slots(f), ParamAt(f, s) = ParamAt(f, r)
      PROVE  s = r
  <2>1. s[1] \in Block /\ s[2] \in DOMAIN f.block[s[1]].params /\ s = <<s[1], s[2]>>
        /\ r[1] \in Block /\ r[2] \in DOMAIN f.block[r[1]].params /\ r = <<r[1], r[2]>>
    BY SlotPlaces
  <2>2. s[1] = r[1] /\ s[2] = r[2]
    BY <1>2, <2>1, PlacedOnce DEF ParamAt
  <2> QED BY <2>1, <2>2
<1>3. h \in Injection(Slots(f), Arena(f))
  BY <1>1, <1>2 DEF Injection, IsInjective
<1>4. IsFiniteSet(Arena(f))
  <2>1. Arena(f) = 1 .. Len(f.def) /\ Len(f.def) \in Nat
    BY ValidParts
  <2> QED BY <2>1, FS_Interval
<1>5. IsFiniteSet(Slots(f))
  <2> HIDE DEF h
  <2> QED BY <1>3, <1>4, FS_Injection
<1> QED
  BY <1>5, FS_CardinalityType

\* The parents the unification ends with.
LEMMA LastParentsTyped ==
    ASSUME NEW f \in Valid
    PROVE  LastParents(f) \in Parents(f)
<1>0. [v \in Arena(f) |-> v] \in Parents(f)
  BY DEF Parents
<1> DEFINE A == Parents(f)
           x == [v \in Arena(f) |-> v]
           n == Cardinality(Slots(f))
           Onward(u) == UnifyAll(f, u)
           Q(it) == it = [k \in 0 .. n |-> IF k = 0 THEN x ELSE Onward(it[k - 1])]
<1>1. n \in Nat /\ x \in A
  BY <1>0, SlotsFinite
<1>2. \A k \in 1 .. n : \A u \in A : Onward(u) \in A
  BY UnifyAllTyped
<1>3. \E it : Q(it)
  <2> DEFINE F == [k \in 1 .. n |-> [u \in A |-> Onward(u)]]
  <2> HIDE DEF A, x, n, Onward
  <2>1. F \in Steps(A, n)
    BY <1>2 DEF Steps
  <2>2. PICK it \in [0 .. n -> A] : it[0] = x /\ \A k \in 1 .. n : it[k] = F[k][it[k - 1]]
    <3> HIDE DEF F
    <3>1. Runs(A, x, n, F)
      BY <1>1, <2>1, Iterated
    <3> QED BY <3>1 DEF Runs
  <2>3. \A k \in 0 .. n : it[k] = IF k = 0 THEN x ELSE Onward(it[k - 1])
    <3>1. \A k \in 1 .. n : it[k - 1] \in A
      BY <1>1
    <3>2. \A k \in 1 .. n : F[k][it[k - 1]] = Onward(it[k - 1])
      BY <3>1
    <3> HIDE DEF F
    <3> QED BY <1>1, <2>2, <3>2
  <2>4. Q(it)
    <3> HIDE DEF F
    <3> QED BY <2>2, <2>3, Zenon
  <2> QED BY <2>4
<1> DEFINE it == CHOOSE it : Q(it)
<1>4. Q(it)
  <2> HIDE DEF Q
  <2> QED BY <1>3
<1>5. LastParents(f) = it[n]
  BY DEF LastParents, Iterate
<1> HIDE DEF it
<1>6. it[0] = x /\ \A k \in 1 .. n : it[k] = Onward(it[k - 1])
  <2> HIDE DEF A, x, n, Onward
  <2> QED BY <1>1, <1>4
<1>7. \A k \in 0 .. n : it[k] \in A
  <2> HIDE DEF Onward, A, x
  <2>1. it[0] \in A /\ \A k \in 0 .. n - 1 : it[k] \in A => it[k + 1] \in A
    <3>1. \A k \in 0 .. n - 1 : k + 1 \in 1 .. n /\ (k + 1) - 1 = k
      BY <1>1
    <3> QED BY <1>1, <1>2, <1>6, <3>1
  <2> HIDE DEF n
  <2> QED BY <1>1, <2>1, Stays
<1> QED
  BY <1>1, <1>5, <1>7

\* prune-trivial-phis keeps functions valid, and says so when it changes one.
LEMMA PruneTrivialPhisKeeps ==
    ASSUME NEW f \in Valid
    PROVE  /\ PruneTrivialPhis(f).ir \in Valid
           /\ ~PruneTrivialPhis(f).changed => PruneTrivialPhis(f).ir = f
<1> DEFINE parent == LastParents(f)
           pruned == {v \in Arena(f) : parent[v] # v}
           replacement == [v \in Arena(f) |-> Resolve(parent, v)]
           rewired == RewriteUses(f, replacement)
           dropped == DropParams(rewired, pruned)
           def == [v \in Arena(f) |-> IF v \in pruned THEN Alias(replacement[v])
                                   ELSE dropped.def[v]]
           tombstoned == [dropped EXCEPT !.def = def]
<1>1. PruneTrivialPhis(f) =
          IF pruned = {} THEN Result(f, FALSE) ELSE Result(tombstoned, TRUE)
  BY DEF PruneTrivialPhis, LastParents
<1>2. replacement \in [Arena(f) -> Arena(f)]
  <2>1. parent \in [Arena(f) -> Arena(f)]
    BY LastParentsTyped DEF Parents
  <2>2. Len(parent) \in Nat
    <3>1. Arena(f) = 1 .. Len(f.def) /\ Len(f.def) \in Nat
      BY ValidParts
    <3> HIDE DEF parent
    <3> QED BY <2>1, <3>1, Listed
  <2> HIDE DEF parent
  <2> QED BY <2>1, <2>2, ResolveStays
<1>3. rewired \in Valid /\ Arena(rewired) = Arena(f)
  <2> HIDE DEF replacement
  <2> QED BY <1>2, RewriteUsesKeeps
<1> HIDE DEF rewired, replacement
<1>4. /\ dropped \in Valid /\ Arena(dropped) = Arena(f)
      /\ \A b \in Block : \A i \in DOMAIN dropped.block[b].params :
            dropped.block[b].params[i] \notin pruned
  <2> HIDE DEF pruned
  <2> QED BY <1>3, DropParamsKeeps
<1>5. dropped = [block |-> dropped.block, def |-> dropped.def]
  BY <1>4, ValidParts
<1> HIDE DEF dropped, pruned
<1>6. def \in [Arena(dropped) -> Definitions(Arena(dropped))]
  <2>1. \A v \in Arena(f) : def[v] \in Definitions(Arena(f))
    <3> SUFFICES ASSUME NEW v \in Arena(f) PROVE def[v] \in Definitions(Arena(f))
      OBVIOUS
    <3>1. dropped.def[v] \in Definitions(Arena(f))
      BY <1>4, ValidParts
    <3>2. Alias(replacement[v]) \in Definitions(Arena(f))
      BY <1>2, DefinitionsMade
    <3> QED BY <3>1, <3>2
  <2>2. def = [v \in Arena(f) |-> def[v]]
    OBVIOUS
  <2> HIDE DEF def
  <2> QED BY <1>4, <2>1, <2>2
<1>7. ASSUME NEW b \in Block, NEW i \in DOMAIN dropped.block[b].params
      PROVE  def[dropped.block[b].params[i]] = dropped.def[dropped.block[b].params[i]]
  <2>1. dropped.block[b].params \in Seq(Arena(f))
    BY <1>4, ValidBlock
  <2>2. dropped.block[b].params[i] \in Arena(f) /\ dropped.block[b].params[i] \notin pruned
    BY <1>4, <2>1
  <2> QED BY <2>2
<1>8. tombstoned = [block |-> dropped.block, def |-> def]
  <2> HIDE DEF def
  <2> QED BY <1>5
<1>9. tombstoned \in Valid
  <2> HIDE DEF def, tombstoned
  <2> QED BY <1>4, <1>6, <1>7, <1>8, Retold
<1> HIDE DEF tombstoned
<1> QED
  BY <1>1, <1>9, ResultParts

\* So does prune-dead-params.
LEMMA PruneDeadParamsKeeps ==
    ASSUME NEW f \in Valid
    PROVE  /\ PruneDeadParams(f).ir \in Valid
           /\ ~PruneDeadParams(f).changed => PruneDeadParams(f).ir = f
<1> DEFINE dead == {ParamAt(f, s) : s \in Slots(f) \ LiveSlots(f)}
<1>1. PruneDeadParams(f) =
          IF dead = {} THEN Result(f, FALSE) ELSE Result(DropParams(f, dead), TRUE)
  BY DEF PruneDeadParams
<1> HIDE DEF dead
<1>2. DropParams(f, dead) \in Valid
  BY DropParamsKeeps
<1> QED
  BY <1>1, <1>2, ResultParts
-----------------------------------------------------------------------------
(* thread-jumps keeps a function valid *)

\* A terminator with other targets.
LEMMA Retargeted ==
    ASSUME NEW V, NEW x \in Terminators(V), NEW F, F = [i \in DOMAIN x.targets |-> F[i]],
           \A i \in DOMAIN x.targets : F[i] \in TargetOf(V),
           NEW y, y = [x EXCEPT !.targets = <<>> \o F]
    PROVE  /\ y \in Terminators(V)
           /\ y.kind = x.kind
           /\ y.reads = x.reads
           /\ y.targets = F
<1>1. /\ x.reads \in Seq(V) /\ x.targets \in Seq(TargetOf(V)) /\ x.kind \in ExitName
      /\ x = [kind |-> x.kind, reads |-> x.reads, targets |-> x.targets] /\ ExitShaped(x)
  BY TerminatorParts
<1>2. <<>> \o F = F /\ F \in Seq(TargetOf(V)) /\ Len(F) = Len(x.targets)
  BY <1>1, Mapped
<1>3. y = [kind |-> x.kind, reads |-> x.reads, targets |-> F]
  BY <1>1, <1>2
<1>4. y.kind = x.kind /\ y.reads = x.reads /\ y.targets = F
  BY <1>3
<1>5. ExitShaped(y)
  BY <1>1, <1>2, <1>4 DEF ExitShaped
<1>6. y \in Terminators(V)
  BY <1>1, <1>2, <1>3, <1>5, Terminator
<1> QED
  BY <1>4, <1>6

\* A terminator, from its fields.
LEMMA TerminatorMade ==
    ASSUME NEW V, NEW x, ExitShaped(x), x.reads \in Seq(V), x.targets \in Seq(TargetOf(V)),
           x.kind \in ExitName, x = [kind |-> x.kind, reads |-> x.reads, targets |-> x.targets]
    PROVE  x \in Terminators(V)
BY Terminator

\* The terminators the passes make.
LEMMA ExitsMade ==
    ASSUME NEW V
    PROVE  /\ Unreachable \in Terminators(V)
           /\ \A vs \in Seq(V) : Return(vs) \in Terminators(V)
           /\ \A t \in TargetOf(V) : Branch(t) \in Terminators(V)
<1>1. <<>> \in Seq(V) /\ <<>> \in Seq(TargetOf(V)) /\ Len(<<>>) = 0
  OBVIOUS
<1>2. Unreachable \in Terminators(V)
  <2>1. Unreachable = [kind |-> "unreachable", reads |-> <<>>, targets |-> <<>>]
    BY DEF Unreachable
  <2>2. ExitShaped(Unreachable)
    BY <1>1, <2>1 DEF ExitShaped
  <2>5. "unreachable" \in ExitName
    BY DEF ExitName
  <2>4. Unreachable.kind = "unreachable" /\ Unreachable.reads = <<>> /\ Unreachable.targets = <<>>
    BY <2>1
  <2> QED BY <1>1, <2>1, <2>2, <2>4, <2>5, TerminatorMade
<1>3. ASSUME NEW vs \in Seq(V) PROVE Return(vs) \in Terminators(V)
  <2>1. Return(vs) = [kind |-> "return", reads |-> vs, targets |-> <<>>]
    BY DEF Return
  <2>2. ExitShaped(Return(vs))
    BY <1>1, <2>1 DEF ExitShaped
  <2>5. "return" \in ExitName
    BY DEF ExitName
  <2>4. Return(vs).kind = "return" /\ Return(vs).reads = vs /\ Return(vs).targets = <<>>
    BY <2>1
  <2> QED BY <1>1, <2>1, <2>2, <2>4, <2>5, TerminatorMade
<1>4. ASSUME NEW t \in TargetOf(V) PROVE Branch(t) \in Terminators(V)
  <2>1. Branch(t) = [kind |-> "branch", reads |-> <<>>, targets |-> <<t>>]
    BY DEF Branch
  <2>2. <<t>> \in Seq(TargetOf(V)) /\ Len(<<t>>) = 1
    OBVIOUS
  <2>3. ExitShaped(Branch(t))
    BY <1>1, <2>1, <2>2 DEF ExitShaped
  <2>5. "branch" \in ExitName
    BY DEF ExitName
  <2>4. Branch(t).kind = "branch" /\ Branch(t).reads = <<>> /\ Branch(t).targets = <<t>>
    BY <2>1
  <2> QED BY <1>1, <2>1, <2>2, <2>3, <2>4, <2>5, TerminatorMade
<1> QED
  BY <1>2, <1>3, <1>4

\* The targets an edge of f may have.
Fitting(f) == {t \in TargetOf(Arena(f)) : Len(t.args) = Len(f.block[t.block].params)}

\* What a fitting edge is made of.
LEMMA FittingParts ==
    ASSUME NEW f, NEW t \in Fitting(f)
    PROVE  /\ t.block \in Block /\ t.args \in Seq(Arena(f))
           /\ Len(t.args) = Len(f.block[t.block].params)
           /\ t \in TargetOf(Arena(f))
BY DEF Fitting, TargetOf

\* How a fitting edge is made.
LEMMA FittingMade ==
    ASSUME NEW f, NEW b \in Block, NEW args \in Seq(Arena(f)),
           Len(args) = Len(f.block[b].params)
    PROVE  Target(b, args) \in Fitting(f)
BY DEF Fitting, TargetOf, Target

\* The edges of a fitting terminator fit.
LEMMA FittingTargets ==
    ASSUME NEW f, NEW x \in Terminators(Arena(f))
    PROVE  Fits(f.block, x) <=> \A i \in DOMAIN x.targets : x.targets[i] \in Fitting(f)
<1>1. \A i \in DOMAIN x.targets : x.targets[i] \in TargetOf(Arena(f))
  BY TargetParts
<1> QED
  BY <1>1 DEF Fitting, Fits

\* Arguments stand in for parameters.
LEMMA Substituted ==
    ASSUME NEW V, NEW params \in Seq(V), NEW args \in Seq(V), Len(params) = Len(args),
           NEW v \in V
    PROVE  Substitute(params, args, v) \in V
<1>1. DOMAIN params = DOMAIN args
  OBVIOUS
<1>2. CASE v \in ToSet(params)
  <2> DEFINE i == CHOOSE i \in DOMAIN params : params[i] = v
  <2>1. \E j \in DOMAIN params : params[j] = v
    BY <1>2 DEF ToSet
  <2>2. i \in DOMAIN args
    BY <1>1, <2>1
  <2>3. Substitute(params, args, v) = args[i]
    BY <1>2 DEF Substitute
  <2> HIDE DEF i
  <2> QED BY <2>2, <2>3
<1>3. CASE v \notin ToSet(params)
  BY <1>3 DEF Substitute
<1> QED
  BY <1>2, <1>3

\* All of a list.
LEMMA SubstitutedAll ==
    ASSUME NEW V, NEW params \in Seq(V), NEW args \in Seq(V), Len(params) = Len(args),
           NEW seq \in Seq(V),
           NEW s, s = <<>> \o [i \in DOMAIN seq |-> Substitute(params, args, seq[i])]
    PROVE  s \in Seq(V) /\ Len(s) = Len(seq)
<1> DEFINE F == [i \in DOMAIN seq |-> Substitute(params, args, seq[i])]
<1>1. \A i \in DOMAIN seq : F[i] \in V
  <2>1. \A i \in DOMAIN seq : seq[i] \in V
    OBVIOUS
  <2> QED BY <2>1, Substituted
<1>2. F = [i \in DOMAIN seq |-> F[i]] /\ s = <<>> \o F
  OBVIOUS
<1> HIDE DEF F
<1> QED
  BY <1>1, <1>2, Mapped

\* A block that ends in a branch has one target.
LEMMA BranchTarget ==
    ASSUME NEW V, NEW x \in Terminators(V), x.kind = "branch"
    PROVE  1 \in DOMAIN x.targets /\ DOMAIN x.targets = {1}
<1>1. Len(x.targets) = 1 /\ x.targets \in Seq(TargetOf(V))
  BY TerminatorParts, TerminatorKinds
<1> QED
  BY <1>1

\* Where a chase may be.
Chases(f) == [at : Fitting(f), visited : SUBSET Block, stopped : BOOLEAN]

\* A hop keeps a chase among the fitting edges.
LEMMA HopTyped ==
    ASSUME NEW f \in Valid, NEW c \in Chases(f)
    PROVE  Hop(f, c) \in Chases(f)
<1> DEFINE b == c.at.block
           params == f.block[b].params
           next == f.block[b].exit.targets[1]
           args == <<>> \o [i \in DOMAIN next.args |-> Substitute(params, c.at.args, next.args[i])]
           onward == Target(next.block, args)
<1>1. c = [at |-> c.at, visited |-> c.visited, stopped |-> c.stopped]
      /\ c.at \in Fitting(f) /\ c.visited \in SUBSET Block /\ c.stopped \in BOOLEAN
  BY DEF Chases
<1>2. b \in Block /\ c.at.args \in Seq(Arena(f))
  BY <1>1, FittingParts
<1>3. CASE c.stopped \/ b \in c.visited
  <2>1. Hop(f, c) = [c EXCEPT !.stopped = TRUE]
    BY <1>3 DEF Hop
  <2> QED BY <1>1, <2>1 DEF Chases
<1>4. CASE ~(c.stopped \/ b \in c.visited)
  <2>1. CASE Forwards(f, b) /\ Len(params) = Len(c.at.args) /\ next.block # b
    <3>1. Hop(f, c) = [c EXCEPT !.visited = @ \cup {b}, !.at = onward]
      BY <1>4, <2>1 DEF Hop, Map
    <3>2. f.block[b].exit \in Terminators(Arena(f)) /\ params \in Seq(Arena(f))
          /\ Fits(f.block, f.block[b].exit)
      BY <1>2, ValidBlock
    <3>3. 1 \in DOMAIN f.block[b].exit.targets
      BY <2>1, <3>2, BranchTarget DEF Forwards, ExitKind
    <3>4. next \in Fitting(f)
      BY <3>2, <3>3, FittingTargets
    <3>5. next.block \in Block /\ next.args \in Seq(Arena(f))
          /\ Len(next.args) = Len(f.block[next.block].params)
      <4> HIDE DEF next
      <4> QED BY <3>4, FittingParts
    <3>6. args \in Seq(Arena(f)) /\ Len(args) = Len(next.args)
      <4> HIDE DEF next, params
      <4> QED BY <1>2, <2>1, <3>2, <3>5, SubstitutedAll
    <3>7. onward \in Fitting(f)
      <4> HIDE DEF args, next
      <4> QED BY <3>5, <3>6, FittingMade
    <3> HIDE DEF onward, b
    <3> QED BY <1>1, <1>2, <3>1, <3>7 DEF Chases
  <2>2. CASE ~(Forwards(f, b) /\ Len(params) = Len(c.at.args) /\ next.block # b)
    <3>1. Hop(f, c) = [c EXCEPT !.stopped = TRUE]
      BY <1>4, <2>2 DEF Hop
    <3> QED BY <1>1, <3>1 DEF Chases
  <2> QED BY <2>1, <2>2
<1> QED
  BY <1>3, <1>4

\* A chase leads to where an edge may lead.
Chased(f, t) ==
    Iterate(LAMBDA c : Hop(f, c), [at |-> t, visited |-> {}, stopped |-> FALSE], MaxHops)

\* A chase ends at a fitting edge.
LEMMA ChaseFits ==
    ASSUME NEW f \in Valid, NEW t \in Fitting(f)
    PROVE  Chase(f, t) \in Fitting(f)
<1>0. [at |-> t, visited |-> {}, stopped |-> FALSE] \in Chases(f)
  BY DEF Chases
<1> DEFINE A == Chases(f)
           x == [at |-> t, visited |-> {}, stopped |-> FALSE]
           n == MaxHops
           Onward(u) == Hop(f, u)
           Q(it) == it = [k \in 0 .. n |-> IF k = 0 THEN x ELSE Onward(it[k - 1])]
<1>1. n \in Nat /\ x \in A
  BY <1>0, DeclutterPassesAssumption
<1>2. \A k \in 1 .. n : \A u \in A : Onward(u) \in A
  BY HopTyped
<1>3. \E it : Q(it)
  <2> DEFINE F == [k \in 1 .. n |-> [u \in A |-> Onward(u)]]
  <2> HIDE DEF A, x, n, Onward
  <2>1. F \in Steps(A, n)
    BY <1>2 DEF Steps
  <2>2. PICK it \in [0 .. n -> A] : it[0] = x /\ \A k \in 1 .. n : it[k] = F[k][it[k - 1]]
    <3> HIDE DEF F
    <3>1. Runs(A, x, n, F)
      BY <1>1, <2>1, Iterated
    <3> QED BY <3>1 DEF Runs
  <2>3. \A k \in 0 .. n : it[k] = IF k = 0 THEN x ELSE Onward(it[k - 1])
    <3>1. \A k \in 1 .. n : it[k - 1] \in A
      BY <1>1
    <3>2. \A k \in 1 .. n : F[k][it[k - 1]] = Onward(it[k - 1])
      BY <3>1
    <3> HIDE DEF F
    <3> QED BY <1>1, <2>2, <3>2
  <2>4. Q(it)
    <3> HIDE DEF F
    <3> QED BY <2>2, <2>3, Zenon
  <2> QED BY <2>4
<1> DEFINE it == CHOOSE it : Q(it)
<1>4. Q(it)
  <2> HIDE DEF Q
  <2> QED BY <1>3
<1>5. Chased(f, t) = it[n]
  BY DEF Chased, Iterate
<1> HIDE DEF it
<1>6. it[0] = x /\ \A k \in 1 .. n : it[k] = Onward(it[k - 1])
  <2> HIDE DEF A, x, n, Onward
  <2> QED BY <1>1, <1>4
<1>7. \A k \in 0 .. n : it[k] \in A
  <2> HIDE DEF Onward, A, x
  <2>1. it[0] \in A /\ \A k \in 0 .. n - 1 : it[k] \in A => it[k + 1] \in A
    <3>1. \A k \in 0 .. n - 1 : k + 1 \in 1 .. n /\ (k + 1) - 1 = k
      BY <1>1
    <3> QED BY <1>1, <1>2, <1>6, <3>1
  <2> HIDE DEF n
  <2> QED BY <1>1, <2>1, Stays
<1>8. Chased(f, t) \in Chases(f)
  <2> HIDE DEF x
  <2> QED BY <1>1, <1>5, <1>7
<1> QED
  BY <1>8 DEF Chase, Chased, Chases

\* The exit of a block that another may take over.
LEMMA InlineFits ==
    ASSUME NEW f \in Valid, NEW x \in Terminators(Arena(f)), Fits(f.block, x)
    PROVE  /\ InlineExit(f, x) \in Terminators(Arena(f))
           /\ Fits(f.block, InlineExit(f, x))
           /\ InlineExit(f, x).kind = x.kind => InlineExit(f, x) = x
<1> DEFINE t == x.targets[1]
           params == f.block[t.block].params
           reads == f.block[t.block].exit.reads
           vs == <<>> \o [i \in DOMAIN reads |-> Substitute(params, t.args, reads[i])]
<1>1. CASE x.kind # "branch" \/ ~Empty(f, t.block)
  BY <1>1 DEF InlineExit
<1>2. CASE x.kind = "branch" /\ Empty(f, t.block)
  <2>1. t \in Fitting(f)
    BY <1>2, BranchTarget, FittingTargets
  <2>2. t.block \in Block /\ t.args \in Seq(Arena(f)) /\ Len(t.args) = Len(params)
    <3> HIDE DEF t
    <3> QED BY <2>1, FittingParts
  <2>3. params \in Seq(Arena(f)) /\ f.block[t.block].exit \in Terminators(Arena(f))
    <3> HIDE DEF t
    <3> QED BY <2>2, ValidBlock
  <2>4. reads \in Seq(Arena(f))
    BY <2>3, TerminatorParts
  <2>5. CASE ExitKind(f, t.block) = "return"
    <3>1. InlineExit(f, x) = Return(vs)
      BY <1>2, <2>2, <2>5 DEF InlineExit, Map
    <3>2. vs \in Seq(Arena(f))
      <4> HIDE DEF t, params, reads
      <4> QED BY <2>2, <2>3, <2>4, SubstitutedAll
    <3> HIDE DEF vs
    <3>5. Return(vs) \in Terminators(Arena(f))
      BY <3>2, ExitsMade
    <3>6. Fits(f.block, Return(vs))
      BY DEF Fits, Return
    <3>7. Return(vs).kind = "return"
      BY DEF Return
    <3> QED BY <1>2, <3>1, <3>5, <3>6, <3>7
  <2>6. CASE ExitKind(f, t.block) = "unreachable"
    <3>1. InlineExit(f, x) = Unreachable
      BY <1>2, <2>6 DEF InlineExit
    <3>5. Unreachable \in Terminators(Arena(f))
      BY ExitsMade
    <3>6. Fits(f.block, Unreachable)
      BY DEF Fits, Unreachable
    <3>7. Unreachable.kind = "unreachable"
      BY DEF Unreachable
    <3> QED BY <1>2, <3>1, <3>5, <3>6, <3>7
  <2>7. CASE ExitKind(f, t.block) \notin {"return", "unreachable"}
    BY <1>2, <2>7 DEF InlineExit
  <2> QED BY <2>5, <2>6, <2>7
<1> QED
  BY <1>1, <1>2

\* What threading makes of an exit.
Threaded(f, b) ==
    [f.block[b].exit EXCEPT
        !.targets = <<>> \o [i \in DOMAIN f.block[b].exit.targets |->
                                Chase(f, f.block[b].exit.targets[i])]]

\* Threading keeps a terminator fitting.
LEMMA ThreadedFits ==
    ASSUME NEW f \in Valid, NEW b \in Block
    PROVE  /\ Threaded(f, b) \in Terminators(Arena(f))
           /\ Fits(f.block, Threaded(f, b))
           /\ Threaded(f, b).kind = f.block[b].exit.kind
           /\ Threaded(f, b).targets = [i \in DOMAIN f.block[b].exit.targets |->
                                           Chase(f, f.block[b].exit.targets[i])]
           /\ Threaded(f, b).targets = f.block[b].exit.targets
                => Threaded(f, b) = f.block[b].exit
<1> DEFINE x == f.block[b].exit
           y == Threaded(f, b)
           F == [i \in DOMAIN x.targets |-> Chase(f, x.targets[i])]
<1>1. x \in Terminators(Arena(f)) /\ Fits(f.block, x)
  BY ValidBlock
<1>2. \A i \in DOMAIN x.targets : F[i] \in Fitting(f)
  <2> HIDE DEF x
  <2> QED BY <1>1, FittingTargets, ChaseFits
<1>3. F = [i \in DOMAIN x.targets |-> F[i]]
  OBVIOUS
<1>4. y = [x EXCEPT !.targets = <<>> \o F]
  BY DEF Threaded
<1> HIDE DEF x, y, F
<1>5. y \in Terminators(Arena(f)) /\ y.kind = x.kind /\ y.reads = x.reads /\ y.targets = F
  BY <1>1, <1>2, <1>3, <1>4, Retargeted, FittingParts
<1>6. Fits(f.block, y)
  BY <1>2, <1>3, <1>5, FittingTargets
<1>7. y.targets = x.targets => y = x
  <2>1. x = [kind |-> x.kind, reads |-> x.reads, targets |-> x.targets]
        /\ y = [kind |-> y.kind, reads |-> y.reads, targets |-> y.targets]
    BY <1>1, <1>5, TerminatorParts
  <2> QED BY <1>5, <2>1
<1> QED
  BY <1>5, <1>6, <1>7 DEF x, y, F

\* thread-trivial-jumps keeps functions valid, and says so when it changes one.
LEMMA ThreadTrivialJumpsKeeps ==
    ASSUME NEW f \in Valid
    PROVE  /\ ThreadTrivialJumps(f).ir \in Valid
           /\ ~ThreadTrivialJumps(f).changed => ThreadTrivialJumps(f).ir = f
<1> DEFINE threaded == [b \in Block |-> Threaded(f, b)]
           inlined == [b \in Block |-> InlineExit(f, threaded[b])]
           jumped == {b \in Block : threaded[b].targets # f.block[b].exit.targets}
           ended == {b \in Block : inlined[b].kind # threaded[b].kind}
           block == [b \in Block |-> [f.block[b] EXCEPT !.exit = inlined[b]]]
           g == [f EXCEPT !.block = block]
<1>1. ThreadTrivialJumps(f) = Result(g, jumped \cup ended # {})
  BY DEF ThreadTrivialJumps, Map, Threaded
<1>2. ASSUME NEW b \in Block
      PROVE  /\ inlined[b] \in Terminators(Arena(f)) /\ Fits(f.block, inlined[b])
             /\ b \notin jumped /\ b \notin ended => inlined[b] = f.block[b].exit
  <2>1. threaded[b] = Threaded(f, b) /\ inlined[b] = InlineExit(f, Threaded(f, b))
    OBVIOUS
  <2>2. inlined[b] \in Terminators(Arena(f)) /\ Fits(f.block, inlined[b])
        /\ (inlined[b].kind = Threaded(f, b).kind => inlined[b] = Threaded(f, b))
    <3> HIDE DEF inlined, threaded, jumped, ended, block, g
    <3> DEFINE y == Threaded(f, b)
    <3>1. y \in Terminators(Arena(f)) /\ Fits(f.block, y)
      BY ThreadedFits
    <3> HIDE DEF y
    <3>2. /\ InlineExit(f, y) \in Terminators(Arena(f)) /\ Fits(f.block, InlineExit(f, y))
          /\ InlineExit(f, y).kind = y.kind => InlineExit(f, y) = y
      BY <3>1, InlineFits
    <3>3. inlined[b] = InlineExit(f, y)
      BY <2>1 DEF y
    <3> QED BY <3>2, <3>3 DEF y
  <2>3. b \notin jumped /\ b \notin ended =>
            Threaded(f, b).targets = f.block[b].exit.targets
            /\ inlined[b].kind = Threaded(f, b).kind
    <3> HIDE DEF inlined
    <3> QED BY <2>1
  <2> HIDE DEF inlined, jumped, ended, threaded
  <2> QED BY <2>2, <2>3, ThreadedFits
<1> HIDE DEF inlined
<1>3. ASSUME NEW b \in Block
      PROVE  /\ block[b] \in BlockOf(Arena(f))
             /\ block[b].params = f.block[b].params
             /\ block[b].exit = inlined[b]
             /\ inlined[b] = f.block[b].exit => block[b] = f.block[b]
  <2>1. /\ f.block[b].params \in Seq(Arena(f)) /\ f.block[b].insts \in Seq(Arena(f))
        /\ f.block[b] = [params |-> f.block[b].params, insts |-> f.block[b].insts,
                         exit |-> f.block[b].exit]
    BY ValidBlock
  <2>2. block[b] = [params |-> f.block[b].params, insts |-> f.block[b].insts,
                    exit |-> inlined[b]]
    BY <2>1
  <2>3. [params |-> f.block[b].params, insts |-> f.block[b].insts, exit |-> inlined[b]]
            \in BlockOf(Arena(f))
    BY <1>2, <2>1, BlockMade
  <2> HIDE DEF block
  <2> QED BY <2>1, <2>2, <2>3
<1>4. g = [block |-> block, def |-> f.def] /\ f = [block |-> f.block, def |-> f.def]
      /\ f.block = [b \in Block |-> f.block[b]]
  <2> HIDE DEF block
  <2> QED BY ValidParts
<1>5. block = [b \in Block |-> block[b]]
  OBVIOUS
<1>6. g \in Valid
  <2>1. block \in [Block -> BlockOf(Arena(f))]
    <3> HIDE DEF block
    <3> QED BY <1>3, <1>5
  <2>2. \A b \in Block : Fits(f.block, block[b].exit)
    <3> HIDE DEF block
    <3> QED BY <1>2, <1>3
  <2> HIDE DEF block, g
  <2> QED BY <1>3, <1>4, <2>1, <2>2, Reblocked
<1>7. jumped \cup ended = {} => g = f
  <2> HIDE DEF block, g, jumped, ended
  <2> SUFFICES ASSUME jumped \cup ended = {} PROVE g = f
    OBVIOUS
  <2>1. \A b \in Block : block[b] = f.block[b]
    BY <1>2, <1>3
  <2>2. block = f.block
    BY <1>4, <1>5, <2>1
  <2> QED BY <1>4, <2>2
<1> HIDE DEF g, jumped, ended
<1>8. ThreadTrivialJumps(f).ir = g /\ (ThreadTrivialJumps(f).changed = (jumped \cup ended # {}))
  BY <1>1, ResultParts
<1> QED
  BY <1>6, <1>7, <1>8
-----------------------------------------------------------------------------
(* merge-chains, sweep-dead and memory-trap-tail keep a function valid *)

\* How far a merge of f may have come.
Merges(f) ==
    {s \in [ir : Valid, count : [Block -> {0} \cup {InCount(f)[b] : b \in Block}],
            merged : Nat] :
        s.merged = 0 => s.ir = f}

\* What a merge in progress is made of.
LEMMA MergesParts ==
    ASSUME NEW f, NEW s \in Merges(f)
    PROVE  /\ s.ir \in Valid
           /\ s.count \in [Block -> {0} \cup {InCount(f)[b] : b \in Block}]
           /\ s.merged \in Nat
           /\ s.merged = 0 => s.ir = f
BY DEF Merges

\* How one is made.
LEMMA MergesMade ==
    ASSUME NEW f, NEW g \in Valid,
           NEW count \in [Block -> {0} \cup {InCount(f)[b] : b \in Block}], NEW n \in Nat,
           n = 0 => g = f
    PROVE  [ir |-> g, count |-> count, merged |-> n] \in Merges(f)
BY DEF Merges

\* Two blocks of a function exchanged for others with the same parameters.
LEMMA TwoReblocked ==
    ASSUME NEW f \in Valid, NEW a \in Block, NEW b \in Block, a # b,
           NEW A \in BlockOf(Arena(f)), NEW B \in BlockOf(Arena(f)),
           A.params = f.block[a].params, B.params = f.block[b].params,
           Fits(f.block, A.exit), Fits(f.block, B.exit)
    PROVE  [f EXCEPT !.block[a] = A, !.block[b] = B] \in Valid
<1> DEFINE block == [c \in Block |-> IF c = a THEN A ELSE IF c = b THEN B ELSE f.block[c]]
           g == [block |-> block, def |-> f.def]
<1>1. f = [block |-> f.block, def |-> f.def] /\ f.block \in [Block -> BlockOf(Arena(f))]
  BY ValidParts
<1>2. [f EXCEPT !.block[a] = A, !.block[b] = B] = g
  <2>1. [f.block EXCEPT ![a] = A, ![b] = B] = block
    BY <1>1
  <2>2. [f EXCEPT !.block[a] = A, !.block[b] = B]
            = [block |-> [f.block EXCEPT ![a] = A, ![b] = B], def |-> f.def]
    <3> DEFINE h == [f EXCEPT !.block[a] = A]
    <3>1. h = [block |-> [f.block EXCEPT ![a] = A], def |-> f.def]
      BY <1>1
    <3> HIDE DEF h
    <3>2. [h EXCEPT !.block[b] = B] = [block |-> [h.block EXCEPT ![b] = B], def |-> h.def]
      BY <3>1
    <3> QED BY <3>1, <3>2 DEF h
  <2> QED BY <2>1, <2>2
<1>3. block \in [Block -> BlockOf(Arena(f))]
  BY <1>1
<1>4. \A c \in Block : block[c].params = f.block[c].params
  OBVIOUS
<1>5. \A c \in Block : Fits(f.block, block[c].exit)
  <2>1. \A c \in Block : Fits(f.block, f.block[c].exit)
    BY ValidParts
  <2> QED BY <2>1
<1>6. g \in Valid
  <2> HIDE DEF block
  <2> QED BY <1>3, <1>4, <1>5, Reblocked
<1> QED
  BY <1>2, <1>6

\* A splice goes on with it.
LEMMA MergeStep ==
    ASSUME NEW f \in Valid, NEW s \in Merges(f), NEW a \in Block, Mergeable(s, a)
    PROVE  Splice(s, a) \in Merges(f)
<1> DEFINE b == Successor(s.ir, a)
           A == s.ir.block[a]
           B == s.ir.block[b]
           spliced == [params |-> A.params, insts |-> A.insts \o B.insts, exit |-> B.exit]
           g == [s.ir EXCEPT !.block[a] = spliced, !.block[b] = Tombstone(B.params)]
           count == [s.count EXCEPT ![b] = 0]
           V == Arena(s.ir)
<1>1. Splice(s, a) = [ir |-> g, count |-> count, merged |-> s.merged + 1]
  BY DEF Splice
<1>2. s.ir \in Valid /\ s.merged \in Nat
      /\ s.count \in [Block -> {0} \cup {InCount(f)[c] : c \in Block}]
  BY MergesParts
<1>3. b \in Block /\ a # b
  <2>1. A.exit \in Terminators(V) /\ A.exit.kind = "branch" /\ b # a
    BY <1>2, ValidBlock DEF Mergeable, ExitKind
  <2>2. A.exit.targets[1].block \in Block
    <3> DEFINE x == A.exit
    <3> HIDE DEF x, V
    <3>1. x \in Terminators(V) /\ x.kind = "branch"
      BY <2>1 DEF x
    <3>2. 1 \in DOMAIN x.targets
      BY <3>1, BranchTarget
    <3> QED BY <3>1, <3>2, TargetParts DEF x
  <2> QED BY <2>1, <2>2 DEF Successor
<1> HIDE DEF b
<1>4. /\ A.params \in Seq(V) /\ A.insts \in Seq(V)
      /\ B.params \in Seq(V) /\ B.insts \in Seq(V) /\ B.exit \in Terminators(V)
      /\ Fits(s.ir.block, B.exit)
  BY <1>2, <1>3, ValidBlock
<1>5. spliced \in BlockOf(V) /\ spliced.params = A.params /\ spliced.exit = B.exit
  <2>1. A.insts \o B.insts \in Seq(V)
    BY <1>4
  <2> HIDE DEF V, A, B
  <2> QED BY <1>4, <2>1, BlockMade
<1>6. /\ Tombstone(B.params) \in BlockOf(V)
      /\ Tombstone(B.params).params = B.params
      /\ Tombstone(B.params).exit = Unreachable
  <2>1. Unreachable \in Terminators(V) /\ <<>> \in Seq(V)
    BY ExitsMade
  <2> HIDE DEF V, A, B
  <2> QED BY <1>4, <2>1, BlockMade DEF Tombstone
<1>7. Fits(s.ir.block, Unreachable)
  BY DEF Fits, Unreachable
<1>8. g \in Valid
  <2> HIDE DEF spliced
  <2> QED BY <1>2, <1>3, <1>4, <1>5, <1>6, <1>7, TwoReblocked
<1>9. count \in [Block -> {0} \cup {InCount(f)[c] : c \in Block}]
  <2> DEFINE C == {0} \cup {InCount(f)[c] : c \in Block}
  <2>1. 0 \in C /\ s.count \in [Block -> C]
    BY <1>2
  <2>2. count \in [Block -> C]
    <3> HIDE DEF C
    <3> QED BY <2>1
  <2> QED BY <2>2
<1> HIDE DEF g, count
<1>10. s.merged + 1 \in Nat /\ s.merged + 1 # 0
  BY <1>2
<1> QED
  BY <1>1, <1>8, <1>9, <1>10, MergesMade

\* So do the splices from one block on.
LEMMA MergeFromStays ==
    ASSUME NEW f \in Valid, NEW s \in Merges(f), NEW a \in Block
    PROVE  MergeFrom(s, a) \in Merges(f)
<1> DEFINE A == Merges(f)
           x == s
           n == BlockCount
           Onward(u) == IF Mergeable(u, a) THEN Splice(u, a) ELSE u
           Q(it) == it = [k \in 0 .. n |-> IF k = 0 THEN x ELSE Onward(it[k - 1])]
<1>1. n \in Nat /\ x \in A
  BY BlocksFinite
<1>2. \A k \in 1 .. n : \A u \in A : Onward(u) \in A
  <2> SUFFICES ASSUME NEW u \in A PROVE Onward(u) \in A
    OBVIOUS
  <2> QED BY MergeStep
<1>3. \E it : Q(it)
  <2> DEFINE F == [k \in 1 .. n |-> [u \in A |-> Onward(u)]]
  <2> HIDE DEF A, x, n, Onward
  <2>1. F \in Steps(A, n)
    BY <1>2 DEF Steps
  <2>2. PICK it \in [0 .. n -> A] : it[0] = x /\ \A k \in 1 .. n : it[k] = F[k][it[k - 1]]
    <3> HIDE DEF F
    <3>1. Runs(A, x, n, F)
      BY <1>1, <2>1, Iterated
    <3> QED BY <3>1 DEF Runs
  <2>3. \A k \in 0 .. n : it[k] = IF k = 0 THEN x ELSE Onward(it[k - 1])
    <3>1. \A k \in 1 .. n : it[k - 1] \in A
      BY <1>1
    <3>2. \A k \in 1 .. n : F[k][it[k - 1]] = Onward(it[k - 1])
      BY <3>1
    <3> HIDE DEF F
    <3> QED BY <1>1, <2>2, <3>2
  <2>4. Q(it)
    <3> HIDE DEF F
    <3> QED BY <2>2, <2>3, Zenon
  <2> QED BY <2>4
<1> DEFINE it == CHOOSE it : Q(it)
<1>4. Q(it)
  <2> HIDE DEF Q
  <2> QED BY <1>3
<1>5. MergeFrom(s, a) = it[n]
  BY DEF MergeFrom, Iterate
<1> HIDE DEF it
<1>6. it[0] = x /\ \A k \in 1 .. n : it[k] = Onward(it[k - 1])
  <2> HIDE DEF A, x, n, Onward
  <2> QED BY <1>1, <1>4
<1>7. \A k \in 0 .. n : it[k] \in A
  <2> HIDE DEF Onward, A, x
  <2>1. it[0] \in A /\ \A k \in 0 .. n - 1 : it[k] \in A => it[k + 1] \in A
    <3>1. \A k \in 0 .. n - 1 : k + 1 \in 1 .. n /\ (k + 1) - 1 = k
      BY <1>1
    <3> QED BY <1>1, <1>2, <1>6, <3>1
  <2> HIDE DEF n
  <2> QED BY <1>1, <2>1, Stays
<1> QED
  BY <1>1, <1>5, <1>7

\* The state merge-chains ends in.
Merged(f) ==
    FoldOver(MergeFrom, [ir |-> f, count |-> InCount(f), merged |-> 0], [b \in Block |-> b])

\* merge-block-chains keeps functions valid, and says so when it changes one.
LEMMA MergeBlockChainsKeeps ==
    ASSUME NEW f \in Valid
    PROVE  /\ MergeBlockChains(f).ir \in Valid
           /\ ~MergeBlockChains(f).changed => MergeBlockChains(f).ir = f
<1> DEFINE seq == [b \in Block |-> b]
           start == [ir |-> f, count |-> InCount(f), merged |-> 0]
<1>0. Len(seq) = BlockCount /\ BlockCount \in Nat /\ \A b \in 1 .. Len(seq) : seq[b] \in Block
  BY BlocksFinite DEF Block
<1>9. start \in Merges(f)
  <2>1. InCount(f) \in [Block -> {0} \cup {InCount(f)[b] : b \in Block}]
    BY DEF InCount
  <2> QED BY <2>1, MergesMade
<1> DEFINE A == Merges(f)
           x == start
           n == Len(seq)
           Onward(k, u) == MergeFrom(u, seq[k])
           Q(it) == it = [k \in 0 .. n |-> IF k = 0 THEN x ELSE Onward(k, it[k - 1])]
<1>1. n \in Nat /\ x \in A
  BY <1>0, <1>9
<1>2. \A k \in 1 .. n : \A u \in A : Onward(k, u) \in A
  BY <1>0, MergeFromStays
<1>3. \E it : Q(it)
  <2> DEFINE F == [k \in 1 .. n |-> [u \in A |-> Onward(k, u)]]
  <2> HIDE DEF A, x, n, Onward
  <2>1. F \in Steps(A, n)
    BY <1>2 DEF Steps
  <2>2. PICK it \in [0 .. n -> A] : it[0] = x /\ \A k \in 1 .. n : it[k] = F[k][it[k - 1]]
    <3> HIDE DEF F
    <3>1. Runs(A, x, n, F)
      BY <1>1, <2>1, Iterated
    <3> QED BY <3>1 DEF Runs
  <2>3. \A k \in 0 .. n : it[k] = IF k = 0 THEN x ELSE Onward(k, it[k - 1])
    <3>1. \A k \in 1 .. n : it[k - 1] \in A
      BY <1>1
    <3>2. \A k \in 1 .. n : F[k][it[k - 1]] = Onward(k, it[k - 1])
      BY <3>1
    <3> HIDE DEF F
    <3> QED BY <1>1, <2>2, <3>2
  <2>4. Q(it)
    <3> HIDE DEF F
    <3> QED BY <2>2, <2>3, Zenon
  <2> QED BY <2>4
<1> DEFINE it == CHOOSE it : Q(it)
<1>4. Q(it)
  <2> HIDE DEF Q
  <2> QED BY <1>3
<1>5. Merged(f) = it[n]
  BY DEF Merged, FoldOver
<1> HIDE DEF it
<1>6. it[0] = x /\ \A k \in 1 .. n : it[k] = Onward(k, it[k - 1])
  <2> HIDE DEF A, x, n, Onward
  <2> QED BY <1>1, <1>4
<1>7. \A k \in 0 .. n : it[k] \in A
  <2> HIDE DEF Onward, A, x
  <2>1. it[0] \in A /\ \A k \in 0 .. n - 1 : it[k] \in A => it[k + 1] \in A
    <3>1. \A k \in 0 .. n - 1 : k + 1 \in 1 .. n /\ (k + 1) - 1 = k
      BY <1>1
    <3> QED BY <1>1, <1>2, <1>6, <3>1
  <2> HIDE DEF n
  <2> QED BY <1>1, <2>1, Stays
<1>8. Merged(f) \in Merges(f)
  <2> HIDE DEF start, seq
  <2> QED BY <1>1, <1>5, <1>7
<1>10. MergeBlockChains(f) = Result(Merged(f).ir, Merged(f).merged > 0)
  BY DEF MergeBlockChains, Merged
<1>11. Merged(f).ir \in Valid /\ Merged(f).merged \in Nat
       /\ (Merged(f).merged = 0 => Merged(f).ir = f)
  BY <1>8, MergesParts
<1>12. MergeBlockChains(f).ir = Merged(f).ir
  BY <1>10, ResultParts
<1>13. Merged(f).merged > 0 => MergeBlockChains(f).changed = TRUE
  <2>1. ASSUME Merged(f).merged > 0 PROVE MergeBlockChains(f) = Result(Merged(f).ir, TRUE)
    BY <1>10, <2>1
  <2> QED BY <2>1, ResultParts
<1> QED
  BY <1>11, <1>12, <1>13

\* What is left of a function when the blocks in `cleared` are emptied and
\* others lose instructions.
LEMMA Emptied ==
    ASSUME NEW f \in Valid, NEW cleared, NEW block \in [Block -> BlockOf(Arena(f))],
           cleared \subseteq Block \ Reachable(f),
           \A b \in cleared : block[b] = Tombstone(<<>>),
           \A b \in Block \ cleared : block[b].params = f.block[b].params
                                      /\ block[b].exit = f.block[b].exit,
           \A b \in Block \ (cleared \cup Reachable(f)) : f.block[b] = Tombstone(<<>>)
    PROVE  [block |-> block, def |-> f.def] \in Valid
<1>1. IdsInArena(f)
  BY ValidMeans
<1>2. ASSUME NEW b \in Block PROVE Numbers(block, f.def, b)
  <2>1. CASE b \in cleared
    <3>1. block[b].params = <<>>
      BY <2>1 DEF Tombstone
    <3> QED BY <3>1 DEF Numbers
  <2>2. CASE b \notin cleared
    <3>1. Numbers(f.block, f.def, b) /\ block[b].params = f.block[b].params
      BY <2>2, ValidBlock
    <3> QED BY <3>1 DEF Numbers
  <2> QED BY <2>1, <2>2
<1>3. ASSUME NEW b \in Block PROVE Fits(block, block[b].exit)
  <2>1. CASE b \in Reachable(f)
    <3>1. block[b].exit = f.block[b].exit /\ Fits(f.block, f.block[b].exit)
      BY <2>1, ValidBlock
    <3>2. \A i \in DOMAIN f.block[b].exit.targets :
              f.block[b].exit.targets[i].block \in Reachable(f)
      BY <1>1, <2>1, ReachableClosed, SuccBlocks
    <3>3. \A i \in DOMAIN f.block[b].exit.targets :
              block[f.block[b].exit.targets[i].block].params
                = f.block[f.block[b].exit.targets[i].block].params
      <4>1. Reachable(f) \subseteq Block \ cleared
        BY <1>1, ReachableClosed
      <4> QED BY <3>2, <4>1
    <3> DEFINE x == f.block[b].exit
    <3>4. /\ \A i \in DOMAIN x.targets :
                Len(x.targets[i].args) = Len(f.block[x.targets[i].block].params)
          /\ \A i \in DOMAIN x.targets :
                block[x.targets[i].block].params = f.block[x.targets[i].block].params
      BY <3>1, <3>3 DEF Fits
    <3> HIDE DEF x
    <3>5. Fits(block, x)
      BY <3>4 DEF Fits
    <3> QED BY <3>1, <3>5 DEF x
  <2>2. CASE b \notin Reachable(f)
    <3>1. block[b].exit = Unreachable
      <4>1. Tombstone(<<>>).exit = Unreachable
        BY DEF Tombstone
      <4> QED BY <2>2, <4>1
    <3> QED BY <3>1 DEF Fits, Unreachable
  <2> QED BY <2>1, <2>2
<1>4. f.def \in Seq(Definitions(Arena(f))) /\ Arena(f) = DOMAIN f.def
  BY ValidParts DEF Arena
<1> QED
  BY <1>2, <1>3, <1>4, ValidBuilt

\* sweep-dead keeps functions valid, and says so when it changes one.
LEMMA SweepDeadKeeps ==
    ASSUME NEW f \in Valid
    PROVE  /\ SweepDead(f).ir \in Valid
           /\ ~SweepDead(f).changed => SweepDead(f).ir = f
<1> DEFINE cleared == ToClear(f)
           idle == [b \in Block |-> ToSet(f.block[b].insts) \ Marked(f)]
           swept == {b \in Reachable(f) : idle[b] # {}}
           insts(b) == Unschedule(f.block[b].insts, idle[b])
           block == [b \in Block |->
                        CASE b \in cleared -> Tombstone(<<>>)
                          [] b \in swept -> [f.block[b] EXCEPT !.insts = insts(b)]
                          [] OTHER -> f.block[b]]
           g == [f EXCEPT !.block = block]
<1>1. SweepDead(f) = Result(g, cleared # {} \/ swept # {})
  BY DEF SweepDead
<1>2. cleared \subseteq Block \ Reachable(f) /\ swept \subseteq Reachable(f)
      /\ \A b \in Block \ (cleared \cup Reachable(f)) : f.block[b] = Tombstone(<<>>)
  BY DEF ToClear
<1> HIDE DEF cleared, swept, idle
<1>3. ASSUME NEW b \in cleared PROVE block[b] = Tombstone(<<>>)
  BY <1>2
<1>4. ASSUME NEW b \in swept, NEW c \in Block, c = b
      PROVE  block[c] = [f.block[b] EXCEPT !.insts = insts(b)]
  BY <1>2, <1>4
<1>5. ASSUME NEW b \in Block, b \notin cleared, b \notin swept PROVE block[b] = f.block[b]
  BY <1>5
<1>6. f = [block |-> f.block, def |-> f.def] /\ f.block = [b \in Block |-> f.block[b]]
  BY ValidParts
<1>7. g = [block |-> block, def |-> f.def] /\ block = [b \in Block |-> block[b]]
  <2>1. block = [b \in Block |-> block[b]]
    OBVIOUS
  <2> HIDE DEF block
  <2> QED BY <1>6, <2>1
<1> HIDE DEF block, g
<1>8. ASSUME NEW b \in Block
      PROVE  /\ block[b] \in BlockOf(Arena(f))
             /\ b \notin cleared => /\ block[b].params = f.block[b].params
                                    /\ block[b].exit = f.block[b].exit
  <2>1. /\ f.block[b].params \in Seq(Arena(f)) /\ f.block[b].insts \in Seq(Arena(f))
        /\ f.block[b].exit \in Terminators(Arena(f)) /\ f.block[b] \in BlockOf(Arena(f))
        /\ f.block[b] = [params |-> f.block[b].params, insts |-> f.block[b].insts,
                         exit |-> f.block[b].exit]
    BY ValidBlock
  <2>2. CASE b \in cleared
    <3>1. Unreachable \in Terminators(Arena(f)) /\ <<>> \in Seq(Arena(f))
      BY ExitsMade
    <3> QED BY <1>3, <2>2, <3>1, BlockMade DEF Tombstone
  <2>3. CASE b \in swept
    <3>1. insts(b) \in Seq(Arena(f))
      BY <2>1, Unscheduled
    <3> HIDE DEF insts
    <3>2. block[b] = [params |-> f.block[b].params, insts |-> insts(b),
                      exit |-> f.block[b].exit]
      BY <1>4, <2>1, <2>3
    <3>3. [params |-> f.block[b].params, insts |-> insts(b), exit |-> f.block[b].exit]
              \in BlockOf(Arena(f))
      BY <2>1, <3>1, BlockMade
    <3> QED BY <3>2, <3>3
  <2>4. CASE b \notin cleared /\ b \notin swept
    BY <1>5, <2>1, <2>4
  <2> QED BY <2>2, <2>3, <2>4
<1>9. g \in Valid
  <2>1. block \in [Block -> BlockOf(Arena(f))]
    BY <1>7, <1>8
  <2>2. \A b \in Block \ cleared : block[b].params = f.block[b].params
                                   /\ block[b].exit = f.block[b].exit
    BY <1>8
  <2> QED BY <1>2, <1>3, <1>7, <2>1, <2>2, Emptied
<1>10. cleared = {} /\ swept = {} => g = f
  <2> SUFFICES ASSUME cleared = {}, swept = {} PROVE g = f
    OBVIOUS
  <2>1. \A b \in Block : block[b] = f.block[b]
    BY <1>5
  <2> QED BY <1>6, <1>7, <2>1
<1>11. SweepDead(f).ir = g /\ (SweepDead(f).changed = (cleared # {} \/ swept # {}))
  BY <1>1, ResultParts
<1> QED
  BY <1>9, <1>10, <1>11

\* Instructions taken off the schedule, of every block.
LEMMA Thinned ==
    ASSUME NEW f \in Valid, NEW gone
    PROVE  LET g == [f EXCEPT !.block = [b \in Block |->
                        [f.block[b] EXCEPT !.insts = Unschedule(f.block[b].insts, gone[b])]]]
           IN  /\ g \in Valid
               /\ Arena(g) = Arena(f)
               /\ g.def = f.def
               /\ (\A b \in Block : gone[b] = {}) => g = f
<1> DEFINE insts(b) == Unschedule(f.block[b].insts, gone[b])
           block == [b \in Block |->
                        [f.block[b] EXCEPT !.insts = Unschedule(f.block[b].insts, gone[b])]]
           g == [f EXCEPT !.block = block]
<1>0. block = [b \in Block |-> block[b]]
      /\ \A b \in Block : block[b] = [f.block[b] EXCEPT !.insts = insts(b)]
  OBVIOUS
<1> HIDE DEF block
<1>1. f = [block |-> f.block, def |-> f.def] /\ f.block = [b \in Block |-> f.block[b]]
  BY ValidParts
<1>2. g = [block |-> block, def |-> f.def]
  BY <1>1
<1>3. ASSUME NEW b \in Block
      PROVE  /\ block[b] \in BlockOf(Arena(f))
             /\ block[b].params = f.block[b].params
             /\ Fits(f.block, block[b].exit)
             /\ gone[b] = {} => block[b] = f.block[b]
  <2>1. /\ f.block[b].params \in Seq(Arena(f)) /\ f.block[b].insts \in Seq(Arena(f))
        /\ f.block[b].exit \in Terminators(Arena(f)) /\ Fits(f.block, f.block[b].exit)
        /\ f.block[b] = [params |-> f.block[b].params, insts |-> f.block[b].insts,
                         exit |-> f.block[b].exit]
    BY ValidBlock
  <2>2. insts(b) \in Seq(Arena(f))
    BY <2>1, Unscheduled
  <2>3. block[b] = [params |-> f.block[b].params, insts |-> insts(b), exit |-> f.block[b].exit]
    <3>1. block[b] = [f.block[b] EXCEPT !.insts = insts(b)]
      BY <1>0
    <3> HIDE DEF insts
    <3> QED BY <2>1, <3>1
  <2>4. [params |-> f.block[b].params, insts |-> insts(b), exit |-> f.block[b].exit]
            \in BlockOf(Arena(f))
    <3> HIDE DEF insts
    <3> QED BY <2>1, <2>2, BlockMade
  <2>5. ASSUME gone[b] = {} PROVE insts(b) = f.block[b].insts
    <3>1. DOMAIN f.block[b].insts
              \subseteq {i \in DOMAIN f.block[b].insts : f.block[b].insts[i] \notin gone[b]}
      BY <2>5
    <3> QED BY <2>1, <3>1, RetainAll DEF Unschedule
  <2> HIDE DEF insts
  <2> QED BY <2>1, <2>3, <2>4, <2>5
<1>4. block \in [Block -> BlockOf(Arena(f))]
  BY <1>0, <1>3
<1>5. g \in Valid /\ Arena(g) = Arena(f)
  <2>1. LET h == [block |-> block, def |-> f.def] IN h \in Valid /\ Arena(h) = Arena(f)
    BY <1>3, <1>4, Reblocked
  <2> QED BY <1>2, <2>1
<1>6. (\A b \in Block : gone[b] = {}) => g = f
  <2> SUFFICES ASSUME \A b \in Block : gone[b] = {} PROVE g = f
    OBVIOUS
  <2>1. \A b \in Block : block[b] = f.block[b]
    BY <1>3
  <2>2. block = f.block
    BY <1>1, <1>4, <2>1
  <2> QED BY <1>1, <1>2, <2>2
<1>7. g.def = f.def
  BY <1>2
<1> HIDE DEF g
<1> QED
  BY <1>5, <1>6, <1>7 DEF g, block

\* So does the trap-tail pass.
LEMMA TrimTrapTailsKeeps ==
    ASSUME NEW f \in Valid
    PROVE  /\ TrimTrapTails(f).ir \in Valid
           /\ ~TrimTrapTails(f).changed => TrimTrapTails(f).ir = f
<1> DEFINE doomed == [b \in Block |->
                         IF b \in Reachable(f) /\ f.block[b].exit.kind = "unreachable"
                         THEN DoomedTail(f, f.block[b].insts) ELSE {}]
           block == [b \in Block |->
                        [f.block[b] EXCEPT !.insts = Unschedule(f.block[b].insts, doomed[b])]]
           g == [f EXCEPT !.block = block]
<1>1. TrimTrapTails(f) = Result(g, \E b \in Block : doomed[b] # {})
  BY DEF TrimTrapTails
<1> HIDE DEF doomed
<1>2. g \in Valid /\ ((\A b \in Block : doomed[b] = {}) => g = f)
  BY Thinned
<1> HIDE DEF g
<1>3. CASE \E b \in Block : doomed[b] # {}
  <2>1. TrimTrapTails(f) = Result(g, TRUE)
    BY <1>1, <1>3
  <2>2. TrimTrapTails(f).ir = g /\ TrimTrapTails(f).changed
    BY <2>1, ResultParts
  <2> QED BY <1>2, <2>2
<1>4. CASE \A b \in Block : doomed[b] = {}
  <2>1. TrimTrapTails(f) = Result(g, FALSE)
    BY <1>1, <1>4
  <2>2. g \in Valid /\ g = f
    BY <1>2, <1>4
  <2>3. TrimTrapTails(f).ir = g
    BY <2>1, ResultParts
  <2> QED BY <2>2, <2>3
<1> QED
  BY <1>3, <1>4
-----------------------------------------------------------------------------
(* Addresses, and the forwarding of stores *)

\* An operator and its operands.
LEMMA Operated ==
    ASSUME NEW f \in Valid, NEW v \in Arena(f), Op(f, v) # ""
    PROVE  /\ f.def[v].kind = "op"
           /\ Op(f, v) = f.def[v].op
           /\ f.def[v].n \in Nat
           /\ f.def[v].args \in Seq(Arena(f))
           /\ Len(f.def[v].args) \in Operands(Op(f, v))
<1>1. f.def[v].kind = "op" /\ Op(f, v) = f.def[v].op
  BY DEF Op
<1>2. f.def[v] \in Definitions(Arena(f))
  BY ValidParts
<1> QED
  BY <1>1, <1>2, DefinitionKinds

\* The two members of a pair.
LEMMA Pair ==
    ASSUME NEW V, NEW s \in Seq(V), Len(s) = 2
    PROVE  s[1] \in V /\ s[2] \in V
<1>1. \A i \in 1 .. Len(s) : s[i] \in V
  OBVIOUS
<1>2. 1 \in 1 .. Len(s) /\ 2 \in 1 .. Len(s)
  OBVIOUS
<1> QED
  BY <1>1, <1>2

\* The operands of a scalar access.
LEMMA Accessed ==
    ASSUME NEW f \in Valid, NEW v \in Arena(f), Op(f, v) \in ScalarOp \cup SubWordOp
    PROVE  /\ f.def[v].kind = "op"
           /\ f.def[v].n \in Nat
           /\ Arg(f, v, 1) \in Arena(f)
           /\ Stores(Op(f, v)) => Arg(f, v, 2) \in Arena(f)
<1>1. Op(f, v) \in {"load", "load2", "store", "store2", "load8", "store8"}
  BY DEF ScalarOp, SubWordOp
<1>2. /\ f.def[v].kind = "op" /\ f.def[v].n \in Nat
      /\ f.def[v].args \in Seq(Arena(f))
      /\ Len(f.def[v].args) \in Operands(Op(f, v))
  BY <1>1, Operated
<1>3. Len(f.def[v].args) \in {1, 2} /\ (Stores(Op(f, v)) => Len(f.def[v].args) = 2)
  BY <1>1, <1>2 DEF Operands, Stores
<1> DEFINE args == f.def[v].args
<1>4. args[1] \in Arena(f) /\ (Len(args) = 2 => args[2] \in Arena(f))
  BY <1>2, <1>3
<1> QED
  BY <1>2, <1>3, <1>4 DEF Arg

\* A constant is a number.
LEMMA ConstTyped ==
    ASSUME NEW f \in Valid, NEW v \in Arena(f), IsConst(f, v)
    PROVE  Const(f, v) \in Nat
<1> DEFINE r == Root(f, v)
<1>1. r \in Arena(f)
  BY RootTyped
<1>2. Op(f, r) \in {"zero", "one", "const"}
  BY DEF IsConst, ConstOp
<1> HIDE DEF r
<1>3. f.def[r].op \in {"zero", "one", "const"} /\ f.def[r].n \in Nat
  BY <1>1, <1>2, Operated
<1>4. Const(f, v) = Literal(f.def[r])
  BY DEF Const, r
<1> QED
  BY <1>3, <1>4 DEF Literal

\* Where an address may be.
Places(f) == [base : Arena(f), offset : Nat]

\* What a place is made of.
LEMMA PlacesParts ==
    ASSUME NEW f, NEW at \in Places(f)
    PROVE  at.base \in Arena(f) /\ at.offset \in Nat /\ at = [base |-> at.base, offset |-> at.offset]
BY DEF Places

\* How a place is made.
LEMMA PlacesMade ==
    ASSUME NEW f, NEW v \in Arena(f), NEW n \in Nat
    PROVE  [base |-> v, offset |-> n] \in Places(f)
BY DEF Places

\* Peeling an addition off an address leaves a place.
LEMMA PeelTyped ==
    ASSUME NEW f \in Valid, NEW at \in Places(f)
    PROVE  Peel(f, at) \in Places(f)
<1> DEFINE v == at.base
           i == Displacement(f, v)
<1>1. v \in Arena(f) /\ at.offset \in Nat /\ at = [base |-> v, offset |-> at.offset]
  BY PlacesParts
<1> HIDE DEF v
<1>2. i \in {1, 2}
  BY DEF Displacement
<1>3. Peel(f, at) =
          IF IsAlias(f, v) THEN [at EXCEPT !.base = Arg(f, v, 1)]
          ELSE IF Op(f, v) = "add" /\ IsConst(f, Arg(f, v, i))
          THEN [base |-> Arg(f, v, 3 - i), offset |-> at.offset + Const(f, Arg(f, v, i))]
          ELSE at
  BY DEF Peel, v
<1> HIDE DEF i
<1>4. CASE IsAlias(f, v)
  <2>1. Arg(f, v, 1) \in Arena(f)
    <3>1. f.def[v] \in Definitions(Arena(f)) /\ f.def[v].kind = "alias"
      BY <1>1, <1>4, ValidParts DEF IsAlias
    <3> QED BY <3>1, DefinitionKinds DEF Arg
  <2>2. Peel(f, at) = [base |-> Arg(f, v, 1), offset |-> at.offset]
    BY <1>1, <1>3, <1>4
  <2> QED BY <1>1, <2>1, <2>2, PlacesMade
<1>5. CASE ~IsAlias(f, v) /\ Op(f, v) = "add" /\ IsConst(f, Arg(f, v, i))
  <2>1. f.def[v].args \in Seq(Arena(f)) /\ Len(f.def[v].args) = 2
    <3>1. f.def[v].args \in Seq(Arena(f)) /\ Len(f.def[v].args) \in Operands(Op(f, v))
      BY <1>1, <1>5, Operated
    <3>2. Operands("add") = {2}
      BY DEF Operands, Stores
    <3> QED BY <1>5, <3>1, <3>2
  <2>2. 3 - i \in {1, 2}
    BY <1>2
  <2>3. Arg(f, v, i) \in Arena(f) /\ Arg(f, v, 3 - i) \in Arena(f)
    <3> DEFINE args == f.def[v].args
               j == 3 - i
    <3>1. args \in Seq(Arena(f)) /\ Len(args) = 2 /\ j \in {1, 2}
      BY <2>1, <2>2
    <3> HIDE DEF args, j
    <3>2. args[1] \in Arena(f) /\ args[2] \in Arena(f)
      BY <3>1, Pair
    <3>3. args[i] \in Arena(f) /\ args[j] \in Arena(f)
      BY <1>2, <3>1, <3>2
    <3> QED BY <3>3 DEF args, j, Arg
  <2>4. Const(f, Arg(f, v, i)) \in Nat
    BY <1>5, <2>3, ConstTyped
  <2> QED BY <1>1, <1>3, <1>5, <2>3, <2>4, PlacesMade
<1> QED
  BY <1>3, <1>4, <1>5

\* An address comes down to a place.
LEMMA CanonTyped ==
    ASSUME NEW f \in Valid, NEW addr \in Arena(f)
    PROVE  CanonAddr(f, addr) \in Places(f)
<1> DEFINE adds == {v \in Arena(f) : IsAlias(f, v) \/ Op(f, v) = "add"}
<1>0. Cardinality(adds) \in Nat
  <2>1. Arena(f) = 1 .. Len(f.def) /\ Len(f.def) \in Nat
    BY ValidParts
  <2>2. IsFiniteSet(Arena(f)) /\ adds \in SUBSET Arena(f)
    BY <2>1, FS_Interval
  <2> HIDE DEF adds
  <2> QED BY <2>2, FS_Subset, FS_CardinalityType
<1> DEFINE A == Places(f)
           x == [base |-> addr, offset |-> 0]
           n == Cardinality(adds)
           Onward(u) == Peel(f, u)
           Q(it) == it = [k \in 0 .. n |-> IF k = 0 THEN x ELSE Onward(it[k - 1])]
<1>1. n \in Nat /\ x \in A
  BY <1>0, PlacesMade
<1>2. \A k \in 1 .. n : \A u \in A : Onward(u) \in A
  BY PeelTyped
<1>3. \E it : Q(it)
  <2> DEFINE F == [k \in 1 .. n |-> [u \in A |-> Onward(u)]]
  <2> HIDE DEF A, x, n, Onward
  <2>1. F \in Steps(A, n)
    BY <1>2 DEF Steps
  <2>2. PICK it \in [0 .. n -> A] : it[0] = x /\ \A k \in 1 .. n : it[k] = F[k][it[k - 1]]
    <3> HIDE DEF F
    <3>1. Runs(A, x, n, F)
      BY <1>1, <2>1, Iterated
    <3> QED BY <3>1 DEF Runs
  <2>3. \A k \in 0 .. n : it[k] = IF k = 0 THEN x ELSE Onward(it[k - 1])
    <3>1. \A k \in 1 .. n : it[k - 1] \in A
      BY <1>1
    <3>2. \A k \in 1 .. n : F[k][it[k - 1]] = Onward(it[k - 1])
      BY <3>1
    <3> HIDE DEF F
    <3> QED BY <1>1, <2>2, <3>2
  <2>4. Q(it)
    <3> HIDE DEF F
    <3> QED BY <2>2, <2>3, Zenon
  <2> QED BY <2>4
<1> DEFINE it == CHOOSE it : Q(it)
<1>4. Q(it)
  <2> HIDE DEF Q
  <2> QED BY <1>3
<1>5. CanonAddr(f, addr) = it[n]
  BY DEF CanonAddr, Iterate
<1> HIDE DEF it
<1>6. it[0] = x /\ \A k \in 1 .. n : it[k] = Onward(it[k - 1])
  <2> HIDE DEF A, x, n, Onward
  <2> QED BY <1>1, <1>4
<1>7. \A k \in 0 .. n : it[k] \in A
  <2> HIDE DEF Onward, A, x
  <2>1. it[0] \in A /\ \A k \in 0 .. n - 1 : it[k] \in A => it[k + 1] \in A
    <3>1. \A k \in 0 .. n - 1 : k + 1 \in 1 .. n /\ (k + 1) - 1 = k
      BY <1>1
    <3> QED BY <1>1, <1>2, <1>6, <3>1
  <2> HIDE DEF n
  <2> QED BY <1>1, <2>1, Stays
<1> QED
  BY <1>1, <1>5, <1>7

\* Where an access goes.
LEMMA PlaceTyped ==
    ASSUME NEW f \in Valid, NEW v \in Arena(f), Op(f, v) \in ScalarOp \cup SubWordOp
    PROVE  Place(f, v) \in Places(f)
<1> DEFINE at == CanonAddr(f, Arg(f, v, 1))
<1>1. at \in Places(f) /\ f.def[v].n \in Nat
  BY Accessed, CanonTyped
<1>2. Place(f, v) = [at EXCEPT !.offset = @ + f.def[v].n]
  BY DEF Place
<1> HIDE DEF at
<1>3. Place(f, v) = [base |-> at.base, offset |-> at.offset + f.def[v].n]
  BY <1>1, <1>2, PlacesParts
<1> QED
  BY <1>1, <1>3, PlacesParts, PlacesMade

\* What a walk over a block can know: of memory, and of the loads it binds.
Knows(f) ==
    [known : SUBSET [base : Arena(f), offset : Nat, width : Nat, value : Arena(f)],
     bound : SUBSET ({v \in Arena(f) : f.def[v].kind = "op"} \X Arena(f))]

\* What is known of memory goes on being about the arena, over one instruction.
LEMMA ForwardTyped ==
    ASSUME NEW f \in Valid, NEW w \in Knows(f), NEW v \in Arena(f)
    PROVE  ForwardOver(f, w, v) \in Knows(f)
<1> DEFINE K == [base : Arena(f), offset : Nat, width : Nat, value : Arena(f)]
           B == {u \in Arena(f) : f.def[u].kind = "op"} \X Arena(f)
<1>1. w.known \subseteq K /\ w.bound \subseteq B /\ w = [known |-> w.known, bound |-> w.bound]
  BY DEF Knows
<1>2. ASSUME NEW known, known \subseteq K, NEW bound, bound \subseteq B
      PROVE  [known |-> known, bound |-> bound] \in Knows(f)
  BY <1>2 DEF Knows
<1>3. CASE ClobbersMemory(f, v)
  <2>1. ForwardOver(f, w, v) = [w EXCEPT !.known = {}]
    BY <1>3 DEF ForwardOver
  <2>2. ForwardOver(f, w, v) = [known |-> {}, bound |-> w.bound]
    BY <1>1, <2>1
  <2> HIDE DEF K, B
  <2> QED BY <1>1, <1>2, <2>2
<1>4. CASE ~ClobbersMemory(f, v) /\ Op(f, v) \in ScalarOp
  <2> DEFINE at == Place(f, v)
             width == Width(Op(f, v))
  <2>1. ForwardOver(f, w, v) = ForwardAccess(f, w, v, at, width)
    BY <1>4 DEF ForwardOver
  <2>2. at.base \in Arena(f) /\ at.offset \in Nat /\ width \in Nat
    <3>1. Place(f, v) \in Places(f)
      BY <1>4, PlaceTyped
    <3> QED BY <3>1, PlacesParts DEF Width
  <2>3. f.def[v].kind = "op" /\ (Stores(Op(f, v)) => Arg(f, v, 2) \in Arena(f))
    BY <1>4, Accessed
  <2> HIDE DEF at, width
  <2>4. CASE Stores(Op(f, v))
    <3> DEFINE left == {e \in w.known : Survives(e, at, width)}
               new == [base |-> at.base, offset |-> at.offset, width |-> width,
                       value |-> Arg(f, v, 2)]
    <3>1. ForwardOver(f, w, v) = [known |-> left \cup {new}, bound |-> w.bound]
      <4>1. ForwardOver(f, w, v) = [w EXCEPT !.known = left \cup {new}]
        BY <2>1, <2>4 DEF ForwardAccess
      <4> HIDE DEF left, new
      <4> QED BY <1>1, <4>1
    <3>2. left \subseteq K /\ new \in K
      BY <1>1, <2>2, <2>3, <2>4
    <3> HIDE DEF left, new, K, B
    <3>3. left \cup {new} \subseteq K
      BY <3>2
    <3> QED BY <1>1, <1>2, <3>1, <3>3
  <2>5. CASE ~Stores(Op(f, v))
    <3> DEFINE same == {e \in w.known : /\ e.base = at.base
                                        /\ e.offset = at.offset
                                        /\ e.width = width}
               new == {<<v, e.value>> : e \in same}
    <3>1. ForwardOver(f, w, v) = [known |-> w.known, bound |-> w.bound \cup new]
      <4>1. ForwardOver(f, w, v) = [w EXCEPT !.bound = w.bound \cup new]
        BY <2>1, <2>5 DEF ForwardAccess
      <4> HIDE DEF new
      <4> QED BY <1>1, <4>1
    <3>2. new \subseteq B
      <4>1. \A e \in same : e.value \in Arena(f)
        BY <1>1
      <4> HIDE DEF same
      <4> QED BY <2>3, <4>1
    <3> HIDE DEF new, K, B
    <3>3. w.bound \cup new \subseteq B
      BY <1>1, <3>2
    <3> QED BY <1>1, <1>2, <3>1, <3>3
  <2> QED BY <2>4, <2>5
<1>5. CASE ~ClobbersMemory(f, v) /\ Op(f, v) \notin ScalarOp
  BY <1>5 DEF ForwardOver
<1> QED
  BY <1>3, <1>4, <1>5

\* The loads a block binds.
Bound(f, b) ==
    FoldOver(LAMBDA w, v : ForwardOver(f, w, v), [known |-> {}, bound |-> {}],
             f.block[b].insts).bound

\* Only operations are bound to a known value, in the arena.
LEMMA BoundTyped ==
    ASSUME NEW f \in Valid, NEW b \in Block
    PROVE  Bound(f, b) \subseteq {v \in Arena(f) : f.def[v].kind = "op"} \X Arena(f)
<1> DEFINE seq == f.block[b].insts
           folded == FoldOver(LAMBDA w, v : ForwardOver(f, w, v),
                              [known |-> {}, bound |-> {}], seq)
<1>0. Len(seq) \in Nat /\ (\A k \in 1 .. Len(seq) : seq[k] \in Arena(f))
      /\ [known |-> {}, bound |-> {}] \in Knows(f)
  <2>1. f.block[b].insts \in Seq(Arena(f))
    BY ValidBlock
  <2> QED BY <2>1 DEF Knows
<1> DEFINE A == Knows(f)
           x == [known |-> {}, bound |-> {}]
           n == Len(seq)
           Onward(k, u) == ForwardOver(f, u, seq[k])
           Q(it) == it = [k \in 0 .. n |-> IF k = 0 THEN x ELSE Onward(k, it[k - 1])]
<1>1. n \in Nat /\ x \in A
  BY <1>0
<1>2. \A k \in 1 .. n : \A u \in A : Onward(k, u) \in A
  BY <1>0, ForwardTyped
<1>3. \E it : Q(it)
  <2> DEFINE F == [k \in 1 .. n |-> [u \in A |-> Onward(k, u)]]
  <2> HIDE DEF A, x, n, Onward
  <2>1. F \in Steps(A, n)
    BY <1>2 DEF Steps
  <2>2. PICK it \in [0 .. n -> A] : it[0] = x /\ \A k \in 1 .. n : it[k] = F[k][it[k - 1]]
    <3> HIDE DEF F
    <3>1. Runs(A, x, n, F)
      BY <1>1, <2>1, Iterated
    <3> QED BY <3>1 DEF Runs
  <2>3. \A k \in 0 .. n : it[k] = IF k = 0 THEN x ELSE Onward(k, it[k - 1])
    <3>1. \A k \in 1 .. n : it[k - 1] \in A
      BY <1>1
    <3>2. \A k \in 1 .. n : F[k][it[k - 1]] = Onward(k, it[k - 1])
      BY <3>1
    <3> HIDE DEF F
    <3> QED BY <1>1, <2>2, <3>2
  <2>4. Q(it)
    <3> HIDE DEF F
    <3> QED BY <2>2, <2>3, Zenon
  <2> QED BY <2>4
<1> DEFINE it == CHOOSE it : Q(it)
<1>4. Q(it)
  <2> HIDE DEF Q
  <2> QED BY <1>3
<1>5. folded = it[n]
  BY DEF FoldOver
<1> HIDE DEF it
<1>6. it[0] = x /\ \A k \in 1 .. n : it[k] = Onward(k, it[k - 1])
  <2> HIDE DEF A, x, n, Onward
  <2> QED BY <1>1, <1>4
<1>7. \A k \in 0 .. n : it[k] \in A
  <2> HIDE DEF Onward, A, x
  <2>1. it[0] \in A /\ \A k \in 0 .. n - 1 : it[k] \in A => it[k + 1] \in A
    <3>1. \A k \in 0 .. n - 1 : k + 1 \in 1 .. n /\ (k + 1) - 1 = k
      BY <1>1
    <3> QED BY <1>1, <1>2, <1>6, <3>1
  <2> HIDE DEF n
  <2> QED BY <1>1, <2>1, Stays
<1>8. folded \in Knows(f)
  <2> HIDE DEF x, seq, folded
  <2> QED BY <1>1, <1>5, <1>7
<1> QED
  BY <1>8 DEF Bound, Knows

\* How far the forwarding of f may have come: some loads are aliases.
Forwarding(f) ==
    {g \in Valid :
        /\ Arena(g) = Arena(f)
        /\ \A v \in Arena(f) :
              g.def[v] = f.def[v] \/ (g.def[v].kind = "alias" /\ f.def[v].kind = "op")
        /\ g = f \/ \E v \in Arena(f) : g.def[v].kind = "alias" /\ f.def[v].kind = "op"}

\* What a block can bind, and the loads it does.
Bindings(f) == SUBSET ({v \in Arena(f) : f.def[v].kind = "op"} \X Arena(f))

\* The loads that were bound.
Heads(bound) == {x[1] : x \in bound}

\* Binding loads to the values they read keeps a function valid.
LEMMA BindLoadsKeeps ==
    ASSUME NEW f \in Valid, NEW b \in Block, NEW bound \in Bindings(f),
           NEW loads, loads = Heads(bound)
    PROVE  LET g == BindLoads(f, b, bound, loads)
           IN  /\ g \in Valid
               /\ Arena(g) = Arena(f)
               /\ loads \subseteq {v \in Arena(f) : f.def[v].kind = "op"}
               /\ \A v \in loads : g.def[v].kind = "alias"
               /\ \A v \in Arena(f) \ loads : g.def[v] = f.def[v]
               /\ loads = {} => g = f
<1> DEFINE V == Arena(f)
           read(v) == (CHOOSE x \in bound : x[1] = v)[2]
           def == [v \in V |-> IF v \in loads THEN Alias(read(v)) ELSE f.def[v]]
           gone == [c \in Block |-> IF c = b THEN loads ELSE {}]
           block == [c \in Block |->
                        [f.block[c] EXCEPT !.insts = Unschedule(f.block[c].insts, gone[c])]]
           h == [f EXCEPT !.block = block]
           g == BindLoads(f, b, bound, loads)
<1>1. ASSUME NEW v \in loads PROVE v \in V /\ f.def[v].kind = "op" /\ read(v) \in V
  <2>1. PICK y \in bound : y[1] = v
    BY DEF Heads
  <2>2. (CHOOSE x \in bound : x[1] = v) \in bound /\ (CHOOSE x \in bound : x[1] = v)[1] = v
    BY <2>1
  <2> QED BY <2>2 DEF Bindings
<1> HIDE DEF read
<1>2. f = [block |-> f.block, def |-> f.def] /\ f.block = [c \in Block |-> f.block[c]]
      /\ f.def \in [V -> Definitions(V)]
  BY ValidParts
<1>3. /\ h \in Valid /\ Arena(h) = V /\ h.def = f.def
      /\ (\A c \in Block : gone[c] = {}) => h = f
  <2> HIDE DEF gone
  <2>1. /\ h \in Valid /\ Arena(h) = Arena(f) /\ h.def = f.def
        /\ (\A c \in Block : gone[c] = {}) => h = f
    BY Thinned
  <2> HIDE DEF h
  <2> QED BY <2>1
<1>4. h = [block |-> block, def |-> f.def]
  <2> HIDE DEF block
  <2> QED BY <1>2
<1>5. block = [f.block EXCEPT ![b].insts = Unschedule(@, loads)]
  <2>1. ASSUME NEW c \in Block
        PROVE  block[c] = [f.block EXCEPT ![b].insts = Unschedule(@, loads)][c]
    <3>1. CASE c = b
      BY <1>2, <3>1
    <3>2. CASE c # b
      <4>1. block[c] = [f.block[c] EXCEPT !.insts = Unschedule(f.block[c].insts, {})]
        BY <3>2
      <4>2. f.block[c].insts \in Seq(V)
            /\ f.block[c] = [params |-> f.block[c].params, insts |-> f.block[c].insts,
                             exit |-> f.block[c].exit]
        BY ValidBlock
      <4>3. Unschedule(f.block[c].insts, {}) = f.block[c].insts
        <5>1. DOMAIN f.block[c].insts
                  \subseteq {i \in DOMAIN f.block[c].insts : f.block[c].insts[i] \notin {}}
          OBVIOUS
        <5> QED BY <4>2, <5>1, RetainAll DEF Unschedule
      <4>4. block[c] = f.block[c]
        <5> HIDE DEF block
        <5> QED BY <4>1, <4>2, <4>3
      <4> HIDE DEF block
      <4> QED BY <1>2, <3>2, <4>4
    <3> QED BY <3>1, <3>2
  <2>2. block = [c \in Block |-> block[c]]
    OBVIOUS
  <2> HIDE DEF block
  <2> QED BY <1>2, <2>1, <2>2
<1>6. g = [block |-> block, def |-> def]
  BY <1>5 DEF BindLoads, read
<1>7. def \in [V -> Definitions(V)]
  <2>1. \A v \in V : def[v] \in Definitions(V)
    <3>1. \A v \in loads : Alias(read(v)) \in Definitions(V)
      BY <1>1, DefinitionsMade
    <3> QED BY <1>2, <3>1
  <2>2. def = [v \in V |-> def[v]]
    OBVIOUS
  <2> HIDE DEF def, V
  <2> QED BY <2>1, <2>2
<1>8. (\A v \in loads : def[v] = Alias(read(v))) /\ \A v \in V \ loads : def[v] = f.def[v]
  BY <1>1
<1> HIDE DEF def, V, block
<1>9. g \in Valid /\ Arena(g) = V
  <2>1. \A v \in Arena(h) : h.def[v].kind = "param" => def[v] = h.def[v]
    BY <1>1, <1>3, <1>8
  <2>2. def \in [Arena(h) -> Definitions(Arena(h))]
    BY <1>3, <1>7
  <2>3. LET k == [block |-> h.block, def |-> def] IN k \in Valid /\ Arena(k) = Arena(h)
    <3> HIDE DEF h
    <3> QED BY <1>3, <2>1, <2>2, Redefined
  <2> QED BY <1>3, <1>4, <1>6, <2>3
<1>10. loads = {} => g = f
  <2> SUFFICES ASSUME loads = {} PROVE g = f
    OBVIOUS
  <2>1. \A v \in V : def[v] = f.def[v]
    BY <1>8
  <2>2. def = f.def
    BY <1>2, <1>7, <2>1
  <2>3. \A c \in Block : gone[c] = {}
    OBVIOUS
  <2> HIDE DEF h, gone
  <2> QED BY <1>3, <1>4, <1>6, <2>2, <2>3
<1>11. g.def = def
  BY <1>6
<1>12. \A v \in loads : def[v].kind = "alias"
  <2>1. \A u : Alias(u).kind = "alias"
    BY DEF Alias
  <2> QED BY <1>8, <2>1
<1> HIDE DEF g
<1> QED
  <2>1. loads \subseteq {v \in Arena(f) : f.def[v].kind = "op"}
    BY <1>1 DEF V
  <2> QED BY <1>8, <1>9, <1>10, <1>11, <1>12, <2>1 DEF g, V

\* Forwarding in one block goes on with the forwarding.
LEMMA ForwardStep ==
    ASSUME NEW f \in Valid, NEW g \in Forwarding(f), NEW b \in Block
    PROVE  ForwardInBlock(g, b) \in Forwarding(f)
<1> DEFINE bound == Bound(g, b)
           loads == Heads(bound)
           h == BindLoads(g, b, bound, loads)
<1>1. ForwardInBlock(g, b) = h
  BY DEF ForwardInBlock, Bound, Heads
<1>2. /\ g \in Valid
      /\ Arena(g) = Arena(f)
      /\ \A v \in Arena(f) :
            g.def[v] = f.def[v] \/ (g.def[v].kind = "alias" /\ f.def[v].kind = "op")
      /\ g = f \/ \E v \in Arena(f) : g.def[v].kind = "alias" /\ f.def[v].kind = "op"
  BY DEF Forwarding
<1>3. bound \in Bindings(g)
  BY <1>2, BoundTyped DEF Bindings
<1> HIDE DEF bound
<1>4. /\ h \in Valid /\ Arena(h) = Arena(g)
      /\ loads \subseteq {v \in Arena(g) : g.def[v].kind = "op"}
      /\ \A v \in loads : h.def[v].kind = "alias"
      /\ \A v \in Arena(g) \ loads : h.def[v] = g.def[v]
      /\ loads = {} => h = g
  <2>1. loads = Heads(bound)
    OBVIOUS
  <2> HIDE DEF loads
  <2> QED BY <1>2, <1>3, <2>1, BindLoadsKeeps
<1> HIDE DEF loads, h
<1>5. \A v \in loads : v \in Arena(f) /\ f.def[v].kind = "op" /\ h.def[v].kind = "alias"
  BY <1>2, <1>4
<1>6. \A v \in Arena(f) : h.def[v] = f.def[v] \/ (h.def[v].kind = "alias" /\ f.def[v].kind = "op")
  BY <1>2, <1>4, <1>5
<1>7. h = f \/ \E v \in Arena(f) : h.def[v].kind = "alias" /\ f.def[v].kind = "op"
  <2>1. CASE loads = {}
    BY <1>2, <1>4, <2>1
  <2>2. CASE loads # {}
    BY <1>5, <2>2
  <2> QED BY <2>1, <2>2
<1> QED
  BY <1>1, <1>2, <1>4, <1>6, <1>7 DEF Forwarding

\* The function after all its blocks were forwarded in.
Forwarded(f) == FoldOver(ForwardInBlock, f, InOrder(Reachable(f)))

\* store-forward keeps functions valid, and says so when it changes one.
LEMMA ForwardStoresKeeps ==
    ASSUME NEW f \in Valid
    PROVE  /\ ForwardStores(f).ir \in Valid
           /\ ~ForwardStores(f).changed => ForwardStores(f).ir = f
<1> DEFINE seq == InOrder(Reachable(f))
<1>0. Len(seq) \in Nat /\ (\A k \in 1 .. Len(seq) : seq[k] \in Block) /\ f \in Forwarding(f)
  <2>1. Reachable(f) \in SUBSET Block /\ IsFiniteSet(Block) /\ Block \in SUBSET Int
    BY ValidMeans, ReachableClosed, BlocksFinite
  <2>2. Reachable(f) \in SUBSET Int /\ IsFiniteSet(Reachable(f))
    BY <2>1, FS_Subset
  <2>3. seq \in Seq(Reachable(f))
    BY <2>2, InOrderLists
  <2>4. f \in Forwarding(f)
    BY DEF Forwarding
  <2> HIDE DEF seq
  <2> QED BY <2>1, <2>3, <2>4
<1> DEFINE A == Forwarding(f)
           x == f
           n == Len(seq)
           Onward(k, u) == ForwardInBlock(u, seq[k])
           Q(it) == it = [k \in 0 .. n |-> IF k = 0 THEN x ELSE Onward(k, it[k - 1])]
<1>1. n \in Nat /\ x \in A
  BY <1>0
<1>2. \A k \in 1 .. n : \A u \in A : Onward(k, u) \in A
  BY <1>0, ForwardStep
<1>3. \E it : Q(it)
  <2> DEFINE F == [k \in 1 .. n |-> [u \in A |-> Onward(k, u)]]
  <2> HIDE DEF A, x, n, Onward
  <2>1. F \in Steps(A, n)
    BY <1>2 DEF Steps
  <2>2. PICK it \in [0 .. n -> A] : it[0] = x /\ \A k \in 1 .. n : it[k] = F[k][it[k - 1]]
    <3> HIDE DEF F
    <3>1. Runs(A, x, n, F)
      BY <1>1, <2>1, Iterated
    <3> QED BY <3>1 DEF Runs
  <2>3. \A k \in 0 .. n : it[k] = IF k = 0 THEN x ELSE Onward(k, it[k - 1])
    <3>1. \A k \in 1 .. n : it[k - 1] \in A
      BY <1>1
    <3>2. \A k \in 1 .. n : F[k][it[k - 1]] = Onward(k, it[k - 1])
      BY <3>1
    <3> HIDE DEF F
    <3> QED BY <1>1, <2>2, <3>2
  <2>4. Q(it)
    <3> HIDE DEF F
    <3> QED BY <2>2, <2>3, Zenon
  <2> QED BY <2>4
<1> DEFINE it == CHOOSE it : Q(it)
<1>4. Q(it)
  <2> HIDE DEF Q
  <2> QED BY <1>3
<1>5. Forwarded(f) = it[n]
  BY DEF Forwarded, FoldOver
<1> HIDE DEF it
<1>6. it[0] = x /\ \A k \in 1 .. n : it[k] = Onward(k, it[k - 1])
  <2> HIDE DEF A, x, n, Onward
  <2> QED BY <1>1, <1>4
<1>7. \A k \in 0 .. n : it[k] \in A
  <2> HIDE DEF Onward, A, x
  <2>1. it[0] \in A /\ \A k \in 0 .. n - 1 : it[k] \in A => it[k + 1] \in A
    <3>1. \A k \in 0 .. n - 1 : k + 1 \in 1 .. n /\ (k + 1) - 1 = k
      BY <1>1
    <3> QED BY <1>1, <1>2, <1>6, <3>1
  <2> HIDE DEF n
  <2> QED BY <1>1, <2>1, Stays
<1>8. Forwarded(f) \in Forwarding(f)
  <2> HIDE DEF seq
  <2> QED BY <1>1, <1>5, <1>7
<1>9. ForwardStores(f) = Result(Forwarded(f), Forwarded(f).def # f.def)
  BY DEF ForwardStores, Forwarded
<1>10. Forwarded(f) \in Valid /\ (Forwarded(f).def = f.def => Forwarded(f) = f)
  BY <1>8 DEF Forwarding
<1>11. CASE Forwarded(f).def = f.def
  <2>1. ForwardStores(f) = Result(f, FALSE)
    BY <1>9, <1>10, <1>11
  <2>2. ForwardStores(f).ir = f
    BY <2>1, ResultParts
  <2> QED BY <2>2
<1>12. CASE Forwarded(f).def # f.def
  <2>1. ForwardStores(f) = Result(Forwarded(f), TRUE)
    BY <1>9, <1>12
  <2>2. ForwardStores(f).ir = Forwarded(f) /\ ForwardStores(f).changed
    BY <2>1, ResultParts
  <2> QED BY <1>10, <2>2
<1> QED
  BY <1>11, <1>12
-----------------------------------------------------------------------------
(* The promotion of slots *)

\* A finite set of numbers has a greatest.
LEMMA Greatest ==
    ASSUME NEW n \in Nat, NEW S \in SUBSET (1 .. n), S # {}
    PROVE  Max(S) \in S
<1> DEFINE T == {m \in Nat : \A i \in S : i <= m}
<1>1. n \in T
  OBVIOUS
<1>2. PICK x \in T : \A y \in T : x <= y
  BY <1>1, LeastNumber
<1>3. x \in S
  <2> SUFFICES ASSUME x \notin S PROVE FALSE
    OBVIOUS
  <2>1. \A i \in S : i <= x - 1
    BY <1>2
  <2>2. x - 1 \in Nat
    <3>1. PICK i \in S : TRUE
      OBVIOUS
    <3>2. i \in Nat /\ i >= 1 /\ i <= x - 1 /\ x \in Nat
      BY <1>2, <2>1
    <3> QED BY <3>2
  <2>3. x - 1 \in T
    BY <2>1, <2>2
  <2> QED BY <1>2, <2>3
<1>4. \E y \in S : \A z \in S : y >= z
  BY <1>2, <1>3
<1> QED
  BY <1>4 DEF Max

\* The stores and the loads a slot of f may have.
StoreOf(f) == {v \in Arena(f) : f.def[v].kind = "op" /\ Stores(f.def[v].op)}

\* The operations that do not store.
LoadOf(f) == {v \in Arena(f) : f.def[v].kind = "op" /\ ~Stores(f.def[v].op)}

\* A slot can be threaded through f.
Threadable(f, stacked) ==
    /\ \A v \in stacked.stores : v \in StoreOf(f)
    /\ \A v \in stacked.loads : v \in Arena(f) /\ f.def[v].kind # "param"

\* A block with one parameter more, or with one argument more on its edges.
LEMMA Longer ==
    ASSUME NEW V, NEW W, V \subseteq W, NEW s \in Seq(V), NEW x \in W
    PROVE  /\ s \o <<x>> \in Seq(W)
           /\ Append(s, x) \in Seq(W)
           /\ Len(s \o <<x>>) = Len(s) + 1
           /\ Len(Append(s, x)) = Len(s) + 1
           /\ DOMAIN (s \o <<x>>) = 1 .. Len(s) + 1
           /\ (s \o <<x>>)[Len(s) + 1] = x
           /\ \A i \in 1 .. Len(s) : (s \o <<x>>)[i] = s[i]
           /\ s \o <<>> = s
<1>1. s \in Seq(W)
  OBVIOUS
<1> QED
  BY <1>1

\* What a stored stacked holds.
LEMMA StoreTyped ==
    ASSUME NEW f \in Valid, NEW v \in StoreOf(f)
    PROVE  Arg(f, v, 2) \in Arena(f)
<1>1. v \in Arena(f) /\ f.def[v].kind = "op" /\ Stores(f.def[v].op)
  BY DEF StoreOf
<1>2. f.def[v].args \in Seq(Arena(f)) /\ Len(f.def[v].args) \in Operands(f.def[v].op)
  BY <1>1, ValidParts, DefinitionKinds
<1>3. Operands(f.def[v].op) = {2}
  BY <1>1 DEF Operands, Stores
<1>4. Len(f.def[v].args) = 2
  BY <1>2, <1>3
<1> QED
  BY <1>2, <1>4, Pair DEF Arg

\* The arena with the slot's zero and its parameters, one for each of the
\* blocks in `inner`.
Wider(f, inner) == 1 .. Len(f.def) + 1 + Cardinality(inner)

\* The arena grows by one value per block that gets a parameter.
LEMMA Widened ==
    ASSUME NEW f \in Valid
    PROVE  LET inner == Reachable(f) \ {Entry}
           IN  /\ Cardinality(inner) \in Nat
               /\ Arena(f) \subseteq Wider(f, inner)
               /\ Len(f.def) + 1 \in Wider(f, inner)
               /\ Len(f.def) \in Nat
               /\ \A b \in inner :
                     /\ Rank(inner, b) \in 1 .. Cardinality(inner)
                     /\ Nth(inner, Rank(inner, b)) = b
                     /\ Len(f.def) + 1 + Rank(inner, b) \in Wider(f, inner)
               /\ \A k \in 1 .. Cardinality(inner) : Nth(inner, k) \in inner
               /\ inner \subseteq Block
               /\ Reachable(f) \subseteq Block
<1> DEFINE inner == Reachable(f) \ {Entry}
<1>1. Reachable(f) \subseteq Block
  BY ValidMeans, ReachableClosed
<1>2. inner \in SUBSET Int /\ IsFiniteSet(inner) /\ inner \subseteq Block
  BY <1>1, BlocksFinite, FS_Subset
<1> HIDE DEF inner
<1>3. /\ Cardinality(inner) \in Nat
      /\ \A k \in 1 .. Cardinality(inner) : Nth(inner, k) \in inner
      /\ \A b \in inner : Rank(inner, b) \in 1 .. Cardinality(inner)
                          /\ Nth(inner, Rank(inner, b)) = b
  BY <1>2, NthAscends
<1>4. Arena(f) = 1 .. Len(f.def) /\ Len(f.def) \in Nat
  BY ValidParts
<1>5. /\ Arena(f) \subseteq Wider(f, inner)
      /\ Len(f.def) + 1 \in Wider(f, inner)
      /\ \A b \in inner : Len(f.def) + 1 + Rank(inner, b) \in Wider(f, inner)
  BY <1>3, <1>4 DEF Wider
<1> QED
  BY <1>1, <1>2, <1>3, <1>4, <1>5 DEF inner

\* Threading a slot keeps a function valid, and leaves every value that is
\* not loaded from the slot as it was.
LEMMA ThreadKeeps ==
    ASSUME NEW f \in Valid, NEW stacked, Threadable(f, stacked)
    PROVE  LET g == Thread(f, stacked)
           IN  /\ g \in Valid
               /\ Arena(f) \subseteq Arena(g)
               /\ \A v \in Arena(f) :
                     g.def[v] = f.def[v] \/ (v \in stacked.loads /\ g.def[v].kind = "alias")
<1> DEFINE reached == Reachable(f)
           inner == reached \ {Entry}
           zero == Len(f.def) + 1
           W == Wider(f, inner)
           param(b) == zero + Cardinality({c \in inner : c <= b})
           at(b, seq) == {i \in DOMAIN f.block[b].insts : f.block[b].insts[i] \in seq}
           before(b, i) == {j \in at(b, stacked.stores) : j < i}
           value(b, i) ==
               IF before(b, i) # {} THEN Arg(f, f.block[b].insts[Max(before(b, i))], 2)
               ELSE IF b = Entry THEN zero ELSE param(b)
           outgoing(b) ==
               IF b \in reached THEN value(b, Len(f.block[b].insts) + 1) ELSE zero
           wire(b, t) ==
               IF t.block \in inner THEN Target(t.block, Append(t.args, outgoing(b))) ELSE t
           kept(b) == Unschedule(f.block[b].insts, Retired(stacked))
           reads(v) == UNION {{b} \X at(b, stacked.loads \cap {v}) : b \in reached}
           params(b) == f.block[b].params \o IF b \in inner THEN <<param(b)>> ELSE <<>>
           insts(b) == (IF b = Entry THEN <<zero>> ELSE <<>>) \o kept(b)
           targets(b) == <<>> \o [i \in DOMAIN f.block[b].exit.targets |->
                                     wire(b, f.block[b].exit.targets[i])]
           exit(b) == [f.block[b].exit EXCEPT !.targets = targets(b)]
           block == [b \in Block |-> [params |-> params(b), insts |-> insts(b),
                                      exit |-> exit(b)]]
           entry(v) ==
               IF v = zero THEN Operator("zero", <<>>)
               ELSE IF v > zero
               THEN LET b == Nth(inner, v - zero)
                    IN  BlockParam(b, Len(f.block[b].params) + 1)
               ELSE IF reads(v) # {}
               THEN LET s == CHOOSE s \in reads(v) : TRUE IN Alias(value(s[1], s[2]))
               ELSE f.def[v]
           def == [v \in 1 .. zero + Cardinality(inner) |-> entry(v)]
           g == Thread(f, stacked)
<1>1. g = [block |-> block, def |-> def]
  BY DEF Thread, Map
<1> HIDE DEF g
<1>2. /\ Cardinality(inner) \in Nat /\ Len(f.def) \in Nat
      /\ Arena(f) \subseteq W /\ zero \in W
      /\ \A b \in inner : Rank(inner, b) \in 1 .. Cardinality(inner)
                          /\ Nth(inner, Rank(inner, b)) = b
                          /\ zero + Rank(inner, b) \in W
      /\ \A k \in 1 .. Cardinality(inner) : Nth(inner, k) \in inner
      /\ inner \subseteq Block /\ reached \subseteq Block
  BY Widened
<1>3. Arena(f) = 1 .. Len(f.def) /\ W = 1 .. zero + Cardinality(inner)
  BY ValidParts DEF Wider
<1>4. \A b : param(b) = zero + Rank(inner, b)
  BY DEF Rank
<1>5. \A b \in reached : b # Entry => b \in inner
  OBVIOUS
<1> HIDE DEF reached, inner, W, param
<1>6. ASSUME NEW b \in reached, NEW i PROVE value(b, i) \in W
  <2>1. CASE before(b, i) # {}
    <3> DEFINE S == before(b, i)
               s == f.block[b].insts
    <3>1. s \in Seq(Arena(f))
      BY <1>2, ValidBlock
    <3>2. S \in SUBSET (1 .. Len(s)) /\ Len(s) \in Nat /\ \A j \in S : s[j] \in stacked.stores
      BY <3>1
    <3>3. Max(S) \in S
      <4> HIDE DEF S, s
      <4> QED BY <2>1, <3>2, Greatest DEF S
    <3>4. s[Max(S)] \in StoreOf(f)
      <4> HIDE DEF S, s
      <4> QED BY <3>2, <3>3 DEF Threadable
    <3>5. Arg(f, s[Max(S)], 2) \in Arena(f)
      BY <3>4, StoreTyped
    <3>6. value(b, i) = Arg(f, s[Max(S)], 2)
      BY <2>1
    <3> HIDE DEF S, s, value
    <3> QED BY <1>2, <3>5, <3>6
  <2>2. CASE before(b, i) = {}
    <3>1. value(b, i) = IF b = Entry THEN zero ELSE param(b)
      BY <2>2
    <3> HIDE DEF value, zero
    <3> QED BY <1>2, <1>4, <1>5, <3>1
  <2> QED BY <2>1, <2>2
<1> HIDE DEF value
<1>7. \A b \in Block : outgoing(b) \in W
  BY <1>2, <1>6
<1> HIDE DEF outgoing
<1>8. ASSUME NEW b \in Block
      PROVE  /\ params(b) \in Seq(W)
             /\ b \in inner => /\ Len(params(b)) = Len(f.block[b].params) + 1
                               /\ params(b)[Len(f.block[b].params) + 1] = param(b)
             /\ b \notin inner => params(b) = f.block[b].params
             /\ \A i \in 1 .. Len(f.block[b].params) : params(b)[i] = f.block[b].params[i]
             /\ f.block[b].params \in Seq(Arena(f))
  <2> DEFINE old == f.block[b].params
  <2>1. old \in Seq(Arena(f))
    BY ValidBlock
  <2>2. CASE b \in inner
    <3>1. params(b) = old \o <<param(b)>> /\ param(b) \in W
      BY <1>2, <1>4, <2>2
    <3> HIDE DEF params, old, param
    <3> DEFINE x == param(b)
               new == old \o <<x>>
    <3>2. x \in W /\ params(b) = new
      BY <3>1
    <3> HIDE DEF x
    <3>3. /\ new \in Seq(W)
          /\ Len(new) = Len(old) + 1
          /\ new[Len(old) + 1] = x
          /\ \A i \in 1 .. Len(old) : new[i] = old[i]
      BY <1>2, <2>1, <3>2, Longer
    <3> HIDE DEF new
    <3>4. /\ params(b) \in Seq(W)
          /\ Len(params(b)) = Len(old) + 1
          /\ params(b)[Len(old) + 1] = param(b)
          /\ \A i \in 1 .. Len(old) : params(b)[i] = old[i]
      BY <3>2, <3>3 DEF x
    <3> QED BY <2>1, <2>2, <3>4 DEF old
  <2>3. CASE b \notin inner
    <3>1. params(b) = old \o <<>>
      BY <2>3
    <3> HIDE DEF params, old
    <3>2. params(b) = old /\ old \in Seq(W)
      BY <1>2, <2>1, <3>1
    <3> QED BY <2>1, <2>3, <3>2 DEF old
  <2> QED BY <2>2, <2>3
<1> HIDE DEF params
<1>9. ASSUME NEW b \in Block PROVE insts(b) \in Seq(W)
  <2>1. kept(b) \in Seq(Arena(f))
    <3>1. f.block[b].insts \in Seq(Arena(f))
      BY ValidBlock
    <3> QED BY <3>1, Unscheduled
  <2> HIDE DEF kept, zero
  <2>2. kept(b) \in Seq(W)
    BY <1>2, <2>1
  <2>3. (IF b = Entry THEN <<zero>> ELSE <<>>) \in Seq(W)
    BY <1>2
  <2> QED BY <2>2, <2>3
<1> HIDE DEF insts
<1>10. ASSUME NEW b \in Block
       PROVE  /\ exit(b) \in Terminators(W)
              /\ \A i \in DOMAIN exit(b).targets :
                    Len(exit(b).targets[i].args) = Len(params(exit(b).targets[i].block))
  <2> DEFINE x == f.block[b].exit
             F == [i \in DOMAIN x.targets |-> wire(b, x.targets[i])]
  <2>1. x \in Terminators(Arena(f)) /\ Fits(f.block, x)
    BY ValidBlock
  <2>2. x \in Terminators(W)
    BY <1>2, <2>1, Larger
  <2>3. ASSUME NEW i \in DOMAIN x.targets
        PROVE  F[i] \in TargetOf(W) /\ Len(F[i].args) = Len(params(F[i].block))
    <3> DEFINE t == x.targets[i]
    <3>1. /\ t.block \in Block /\ t.args \in Seq(Arena(f)) /\ t \in TargetOf(W)
          /\ Len(t.args) = Len(f.block[t.block].params)
      <4>1. t.block \in Block /\ t.args \in Seq(Arena(f))
        BY <2>1, TargetParts
      <4>2. t \in TargetOf(W)
        BY <2>2, TargetParts
      <4> QED BY <2>1, <4>1, <4>2 DEF Fits
    <3>2. F[i] = wire(b, t)
      OBVIOUS
    <3> HIDE DEF t, F, x
    <3>3. CASE t.block \in inner
      <4>1. F[i] = Target(t.block, Append(t.args, outgoing(b)))
        BY <3>2, <3>3
      <4>2. Append(t.args, outgoing(b)) \in Seq(W)
            /\ Len(Append(t.args, outgoing(b))) = Len(t.args) + 1
        <5> DEFINE a == t.args
                   x0 == outgoing(b)
        <5>1. a \in Seq(Arena(f)) /\ x0 \in W /\ Arena(f) \subseteq W
          BY <1>2, <1>7, <3>1
        <5> HIDE DEF a, x0
        <5>2. Append(a, x0) \in Seq(W) /\ Len(Append(a, x0)) = Len(a) + 1
          BY <5>1, Longer
        <5> QED BY <5>2 DEF a, x0
      <4>3. F[i].block = t.block /\ F[i].args = Append(t.args, outgoing(b))
        BY <4>1 DEF Target
      <4>4. F[i] \in TargetOf(W)
        <5> HIDE DEF wire
        <5> QED BY <3>1, <4>1, <4>2 DEF Target, TargetOf
      <4> QED BY <1>8, <3>1, <3>3, <4>2, <4>3, <4>4
    <3>4. CASE t.block \notin inner
      BY <1>8, <3>1, <3>2, <3>4
    <3> QED BY <3>3, <3>4
  <2>4. F = [i \in DOMAIN x.targets |-> F[i]]
    OBVIOUS
  <2>5. exit(b) = [x EXCEPT !.targets = <<>> \o F]
    OBVIOUS
  <2> HIDE DEF F, exit, x
  <2>6. exit(b) \in Terminators(W) /\ exit(b).targets = F
    BY <2>2, <2>3, <2>4, <2>5, Retargeted
  <2> QED BY <2>3, <2>4, <2>6
<1> HIDE DEF exit
<1>11. ASSUME NEW b \in Block
       PROVE  /\ block[b] \in BlockOf(W)
              /\ block[b].params = params(b)
              /\ block[b].exit = exit(b)
  <2>1. block[b] = [params |-> params(b), insts |-> insts(b), exit |-> exit(b)]
    OBVIOUS
  <2> HIDE DEF block
  <2> QED BY <1>8, <1>9, <1>10, <2>1, BlockMade
<1>12. block \in [Block -> BlockOf(W)]
  <2>1. block = [b \in Block |-> block[b]]
    OBVIOUS
  <2> HIDE DEF block
  <2> QED BY <1>11, <2>1
<1> HIDE DEF block
<1>13. \A v : reads(v) # {} => v \in stacked.loads
  OBVIOUS
<1>14. ASSUME NEW v, reads(v) # {}
       PROVE  LET s == CHOOSE s \in reads(v) : TRUE IN value(s[1], s[2]) \in W
  <2> DEFINE s == CHOOSE s \in reads(v) : TRUE
  <2>1. s \in reads(v)
    <3> HIDE DEF reads
    <3> QED BY <1>14
  <2>2. s[1] \in reached
    <3> HIDE DEF s
    <3> QED BY <2>1
  <2> HIDE DEF s, reads
  <2> QED BY <1>6, <2>2 DEF s
<1> HIDE DEF reads
<1>15. ASSUME NEW v \in Arena(f)
       PROVE  /\ def[v] \in Definitions(W)
              /\ def[v] = f.def[v] \/ (v \in stacked.loads /\ def[v].kind = "alias")
  <2> DEFINE s == CHOOSE s \in reads(v) : TRUE
  <2>1. v \in 1 .. zero + Cardinality(inner) /\ v # zero /\ ~(v > zero)
    BY <1>2, <1>3
  <2>2. def[v] = IF reads(v) # {} THEN Alias(value(s[1], s[2])) ELSE f.def[v]
    <3> HIDE DEF zero
    <3> QED BY <2>1
  <2>3. reads(v) # {} => value(s[1], s[2]) \in W
    BY <1>14
  <2> HIDE DEF s, def
  <2>4. f.def[v] \in Definitions(W)
    <3>1. f.def[v] \in Definitions(Arena(f))
      BY ValidParts
    <3>2. Definitions(Arena(f)) \subseteq Definitions(W)
      BY <1>2, Larger
    <3> QED BY <3>1, <3>2
  <2>5. \A u : Alias(u).kind = "alias"
    BY DEF Alias
  <2> QED BY <1>13, <2>2, <2>3, <2>4, <2>5, DefinitionsMade
<1>16. def[zero] \in Definitions(W)
  <2>1. zero \in 1 .. zero + Cardinality(inner)
    BY <1>2
  <2>2. def[zero] = Operator("zero", <<>>)
    <3> HIDE DEF zero
    <3> QED BY <2>1
  <2>3. Operator("zero", <<>>) = Numbered("zero", 0, <<>>)
    BY DEF Operator, Numbered
  <2>4. "zero" \in OpName /\ Operands("zero") = Nat
    BY DEF OpName, PureOp, Operands, Stores
  <2>5. <<>> \in Seq(W) /\ Len(<<>>) = 0 /\ 0 \in Nat
    OBVIOUS
  <2> HIDE DEF def, zero, W
  <2> QED BY <2>2, <2>3, <2>4, <2>5, DefinitionsMade
<1>17. ASSUME NEW k \in 1 .. Cardinality(inner)
       PROVE  /\ def[zero + k] = BlockParam(Nth(inner, k), Len(f.block[Nth(inner, k)].params) + 1)
              /\ def[zero + k] \in Definitions(W)
  <2>1. zero + k \in 1 .. zero + Cardinality(inner) /\ zero + k # zero /\ zero + k > zero
        /\ (zero + k) - zero = k
    BY <1>2
  <2>2. def[zero + k] = BlockParam(Nth(inner, k), Len(f.block[Nth(inner, k)].params) + 1)
    <3> HIDE DEF zero
    <3> QED BY <2>1
  <2>3. Nth(inner, k) \in Block /\ Len(f.block[Nth(inner, k)].params) + 1 \in Nat
    <3>1. Nth(inner, k) \in Block
      BY <1>2
    <3>2. f.block[Nth(inner, k)].params \in Seq(Arena(f))
      BY <3>1, ValidBlock
    <3> QED BY <3>1, <3>2
  <2> HIDE DEF def
  <2> QED BY <2>2, <2>3, DefinitionsMade
<1>18. def \in [W -> Definitions(W)]
  <2> DEFINE n == zero + Cardinality(inner)
  <2>3. def = [v \in 1 .. n |-> def[v]]
    <3> HIDE DEF entry
    <3> QED OBVIOUS
  <2> HIDE DEF def
  <2>1. def = [v \in W |-> def[v]]
    BY <1>3, <2>3
  <2>2. ASSUME NEW v \in W PROVE def[v] \in Definitions(W)
    <3>1. v \in Arena(f) \/ v = zero \/ (v - zero \in 1 .. Cardinality(inner)
                                         /\ v = zero + (v - zero))
      <4> DEFINE m == Len(f.def)
                 c == Cardinality(inner)
      <4>1. m \in Nat /\ c \in Nat /\ v \in 1 .. m + 1 + c /\ Arena(f) = 1 .. m
        BY <1>2, <1>3
      <4> HIDE DEF m, c
      <4>2. v \in 1 .. m \/ v = m + 1 \/ (v - (m + 1) \in 1 .. c
                                           /\ v = (m + 1) + (v - (m + 1)))
        BY <4>1
      <4> QED BY <4>1, <4>2 DEF m, c
    <3> HIDE DEF zero
    <3> QED BY <1>15, <1>16, <1>17, <3>1
  <2> QED BY <2>1, <2>2
<1> HIDE DEF def
<1>19. def \in Seq(Definitions(W)) /\ DOMAIN def = W
  <2> DEFINE D == Definitions(W)
             n == zero + Cardinality(inner)
  <2>1. n \in Nat /\ def \in [1 .. n -> D]
    BY <1>2, <1>3, <1>18
  <2> HIDE DEF D, n
  <2>2. def \in Seq(D) /\ DOMAIN def = 1 .. n
    BY <2>1, Listed
  <2> QED BY <1>3, <2>2 DEF D, n
<1>20. ASSUME NEW b \in Block PROVE Numbers(block, def, b)
  <2> DEFINE old == f.block[b].params
  <2>1. old \in Seq(Arena(f)) /\ Numbers(f.block, f.def, b)
    BY ValidBlock
  <2>2. ASSUME NEW i \in 1 .. Len(old) PROVE def[params(b)[i]] = BlockParam(b, i)
    <3>1. params(b)[i] = old[i] /\ old[i] \in Arena(f) /\ f.def[old[i]] = BlockParam(b, i)
      BY <1>8, <2>1 DEF Numbers
    <3>2. f.def[old[i]].kind = "param"
      BY <3>1 DEF BlockParam
    <3>3. old[i] \notin stacked.loads
      BY <3>2 DEF Threadable
    <3> HIDE DEF old
    <3> QED BY <1>15, <3>1, <3>3
  <2>3. ASSUME b \in inner PROVE def[params(b)[Len(old) + 1]] = BlockParam(b, Len(old) + 1)
    <3>1. params(b)[Len(old) + 1] = zero + Rank(inner, b)
      BY <1>4, <1>8, <2>3
    <3>2. Rank(inner, b) \in 1 .. Cardinality(inner) /\ Nth(inner, Rank(inner, b)) = b
      BY <1>2, <2>3
    <3> QED BY <1>17, <3>1, <3>2
  <2>4. \A i \in DOMAIN params(b) : i \in 1 .. Len(old) \/ (b \in inner /\ i = Len(old) + 1)
    <3>1. params(b) \in Seq(W) /\ Len(old) \in Nat
      BY <1>8, <2>1
    <3>2. DOMAIN params(b) = 1 .. Len(params(b))
      BY <3>1
    <3>3. CASE b \in inner
      BY <1>8, <3>1, <3>2, <3>3
    <3>4. CASE b \notin inner
      BY <1>8, <3>1, <3>2, <3>4
    <3> QED BY <3>3, <3>4
  <2> HIDE DEF old
  <2>5. \A i \in DOMAIN params(b) : def[params(b)[i]] = BlockParam(b, i)
    BY <2>2, <2>3, <2>4
  <2> QED BY <1>11, <2>5 DEF Numbers
<1>21. ASSUME NEW b \in Block PROVE Fits(block, block[b].exit)
  <2>1. \A i \in DOMAIN exit(b).targets : exit(b).targets[i].block \in Block
    BY <1>10, TargetParts
  <2> QED BY <1>10, <1>11, <2>1 DEF Fits
<1>22. g \in Valid /\ Arena(g) = W
  <2>1. LET h == [block |-> block, def |-> def] IN h \in Valid /\ Arena(h) = W
    BY <1>12, <1>19, <1>20, <1>21, ValidBuilt
  <2> QED BY <1>1, <2>1
<1>23. g.def = def
  BY <1>1
<1> QED
  BY <1>2, <1>15, <1>22, <1>23 DEF g

-----------------------------------------------------------------------------
\* How far the promotion of the slots of f may have come.
Promoting(f) ==
    {g \in Valid :
        /\ Arena(f) \subseteq Arena(g)
        /\ \A v \in StoreOf(f) : g.def[v] = f.def[v]
        /\ \A v \in LoadOf(f) : g.def[v].kind # "param"}

\* A slot of f.
SlotOf(f, stacked) == stacked.stores \subseteq StoreOf(f) /\ stacked.loads \subseteq LoadOf(f)

\* Dropping the stores of a slot keeps a function valid.
LEMMA DropStoresKeeps ==
    ASSUME NEW f \in Valid, NEW stacked
    PROVE  /\ DropStores(f, stacked) \in Valid
           /\ Arena(DropStores(f, stacked)) = Arena(f)
           /\ DropStores(f, stacked).def = f.def
<1> DEFINE gone == [b \in Block |-> Retired(stacked)]
           block == [b \in Block |->
                        [f.block[b] EXCEPT !.insts = Unschedule(f.block[b].insts, gone[b])]]
           h == [f EXCEPT !.block = block]
<1>1. DropStores(f, stacked) = h
  BY DEF DropStores
<1>2. block = [b \in Block |->
                   [f.block[b] EXCEPT !.insts = Unschedule(f.block[b].insts, gone[b])]]
  OBVIOUS
<1> HIDE DEF block, gone
<1>3. h \in Valid /\ Arena(h) = Arena(f) /\ h.def = f.def
  BY <1>2, Thinned
<1> QED
  BY <1>1, <1>3

\* Promoting one slot goes on with the promotion.
LEMMA PromoteStep ==
    ASSUME NEW f \in Valid, NEW g \in Promoting(f), NEW stacked, SlotOf(f, stacked)
    PROVE  Promote(g, stacked) \in Promoting(f)
<1>1. /\ g \in Valid
      /\ Arena(f) \subseteq Arena(g)
      /\ \A v \in StoreOf(f) : g.def[v] = f.def[v]
      /\ \A v \in LoadOf(f) : g.def[v].kind # "param"
  BY DEF Promoting
<1>2. CASE stacked.loads = {}
  <2> DEFINE h == DropStores(g, stacked)
  <2>1. Promote(g, stacked) = h
    BY <1>2 DEF Promote
  <2>2. h \in Valid /\ Arena(h) = Arena(g) /\ h.def = g.def
    BY <1>1, DropStoresKeeps
  <2> HIDE DEF h
  <2> QED BY <1>1, <2>1, <2>2 DEF Promoting
<1>3. CASE stacked.loads # {}
  <2> DEFINE h == Thread(g, stacked)
  <2>1. Promote(g, stacked) = h
    BY <1>3 DEF Promote
  <2>2. Threadable(g, stacked)
    BY <1>1 DEF Threadable, SlotOf, StoreOf, LoadOf
  <2>3. /\ h \in Valid
        /\ Arena(g) \subseteq Arena(h)
        /\ \A v \in Arena(g) :
              h.def[v] = g.def[v] \/ (v \in stacked.loads /\ h.def[v].kind = "alias")
    BY <1>1, <2>2, ThreadKeeps
  <2> HIDE DEF h
  <2>4. \A v \in StoreOf(f) : v \in Arena(g) /\ v \notin stacked.loads
    BY <1>1 DEF StoreOf, LoadOf, SlotOf
  <2>5. \A v \in LoadOf(f) : v \in Arena(g)
    BY <1>1 DEF LoadOf
  <2>6. \A v \in StoreOf(f) : h.def[v] = f.def[v]
    BY <1>1, <2>3, <2>4
  <2>7. \A v \in LoadOf(f) : h.def[v].kind # "param"
    BY <1>1, <2>3, <2>5
  <2>8. Arena(f) \subseteq Arena(h)
    BY <1>1, <2>3
  <2> QED BY <2>1, <2>3, <2>6, <2>7, <2>8 DEF Promoting
<1> QED
  BY <1>2, <1>3

\* The function after the approved slots of a frame were promoted.
Promoted(f, slots, approved) ==
    FoldOver(LAMBDA g, o : Promote(g, slots[o]), f, InOrder(approved))

\* Promoting slot after slot keeps functions valid.
LEMMA PromoteEachKeeps ==
    ASSUME NEW f \in Valid, NEW slots, NEW approved \in SUBSET Int, IsFiniteSet(approved),
           \A o \in approved : SlotOf(f, slots[o])
    PROVE  /\ PromoteEach(f, slots, approved).ir \in Valid
           /\ ~PromoteEach(f, slots, approved).changed
                => PromoteEach(f, slots, approved).ir = f
<1> DEFINE seq == InOrder(approved)
<1>0. /\ Len(seq) \in Nat
      /\ \A k \in 1 .. Len(seq) : seq[k] \in approved
      /\ approved = {} => Len(seq) = 0
  <2>1. seq \in Seq(approved) /\ Len(seq) = Cardinality(approved)
    BY InOrderLists
  <2>2. approved = {} => Cardinality(approved) = 0
    BY FS_EmptySet
  <2> HIDE DEF seq
  <2> QED BY <2>1, <2>2
<1>8. f \in Promoting(f)
  BY DEF Promoting, LoadOf
<1> DEFINE A == Promoting(f)
           x == f
           n == Len(seq)
           Onward(k, u) == Promote(u, slots[seq[k]])
           Q(it) == it = [k \in 0 .. n |-> IF k = 0 THEN x ELSE Onward(k, it[k - 1])]
<1>1. n \in Nat /\ x \in A
  BY <1>0, <1>8
<1>2. \A k \in 1 .. n : \A u \in A : Onward(k, u) \in A
  BY <1>0, PromoteStep
<1>3. \E it : Q(it)
  <2> DEFINE F == [k \in 1 .. n |-> [u \in A |-> Onward(k, u)]]
  <2> HIDE DEF A, x, n, Onward
  <2>1. F \in Steps(A, n)
    BY <1>2 DEF Steps
  <2>2. PICK it \in [0 .. n -> A] : it[0] = x /\ \A k \in 1 .. n : it[k] = F[k][it[k - 1]]
    <3> HIDE DEF F
    <3>1. Runs(A, x, n, F)
      BY <1>1, <2>1, Iterated
    <3> QED BY <3>1 DEF Runs
  <2>3. \A k \in 0 .. n : it[k] = IF k = 0 THEN x ELSE Onward(k, it[k - 1])
    <3>1. \A k \in 1 .. n : it[k - 1] \in A
      BY <1>1
    <3>2. \A k \in 1 .. n : F[k][it[k - 1]] = Onward(k, it[k - 1])
      BY <3>1
    <3> HIDE DEF F
    <3> QED BY <1>1, <2>2, <3>2
  <2>4. Q(it)
    <3> HIDE DEF F
    <3> QED BY <2>2, <2>3, Zenon
  <2> QED BY <2>4
<1> DEFINE it == CHOOSE it : Q(it)
<1>4. Q(it)
  <2> HIDE DEF Q
  <2> QED BY <1>3
<1>5. Promoted(f, slots, approved) = it[n]
  BY DEF Promoted, FoldOver
<1> HIDE DEF it
<1>6. it[0] = x /\ \A k \in 1 .. n : it[k] = Onward(k, it[k - 1])
  <2> HIDE DEF A, x, n, Onward
  <2> QED BY <1>1, <1>4
<1>7. \A k \in 0 .. n : it[k] \in A
  <2> HIDE DEF Onward, A, x
  <2>1. it[0] \in A /\ \A k \in 0 .. n - 1 : it[k] \in A => it[k + 1] \in A
    <3>1. \A k \in 0 .. n - 1 : k + 1 \in 1 .. n /\ (k + 1) - 1 = k
      BY <1>1
    <3> QED BY <1>1, <1>2, <1>6, <3>1
  <2> HIDE DEF n
  <2> QED BY <1>1, <2>1, Stays
<1>9. Promoted(f, slots, approved) \in Valid
  <2>1. Promoted(f, slots, approved) \in Promoting(f)
    <3> HIDE DEF seq
    <3> QED BY <1>1, <1>5, <1>7
  <2> QED BY <2>1 DEF Promoting
<1>10. approved = {} => Promoted(f, slots, approved) = f
  <2> HIDE DEF seq
  <2> QED BY <1>0, <1>5, <1>6
<1>11. PromoteEach(f, slots, approved) = Result(Promoted(f, slots, approved), approved # {})
  BY DEF PromoteEach, Promoted
<1>12. CASE approved = {}
  <2>1. PromoteEach(f, slots, approved) = Result(f, FALSE)
    BY <1>10, <1>11, <1>12
  <2> QED BY <2>1, ResultParts
<1>13. CASE approved # {}
  <2>1. PromoteEach(f, slots, approved) = Result(Promoted(f, slots, approved), TRUE)
    BY <1>11, <1>13
  <2>2. PromoteEach(f, slots, approved).ir = Promoted(f, slots, approved)
        /\ PromoteEach(f, slots, approved).changed = TRUE
    BY <2>1, ResultParts
  <2> QED BY <1>9, <2>2
<1> QED
  BY <1>12, <1>13

\* What a block schedules is in the arena.
LEMMA ScheduledTyped ==
    ASSUME NEW f \in Valid
    PROVE  Scheduled(f) \subseteq Arena(f)
<1>1. ASSUME NEW b \in Reachable(f)
      PROVE  ToSet(f.block[b].insts) \cup ToSet(f.block[b].params) \subseteq Arena(f)
  <2>1. b \in Block
    BY ValidMeans, ReachableClosed
  <2>2. f.block[b].insts \in Seq(Arena(f)) /\ f.block[b].params \in Seq(Arena(f))
    BY <2>1, ValidBlock
  <2> QED BY <2>2 DEF ToSet
<1> QED
  BY <1>1 DEF Scheduled

\* The slots found are slots, at finitely many offsets.
LEMMA SlotsTyped ==
    ASSUME NEW f \in Valid, NEW A
    PROVE  /\ DOMAIN SlotsAt(f, A) \in SUBSET Int
           /\ IsFiniteSet(DOMAIN SlotsAt(f, A))
           /\ \A o \in DOMAIN SlotsAt(f, A) : SlotOf(f, SlotsAt(f, A)[o])
<1> DEFINE offset == [v \in Accessors(f, A) |-> Place(f, v).offset]
<1>1. /\ \A v \in Accessors(f, A) : v \in Arena(f) /\ Op(f, v) \in ScalarOp
      /\ Accessors(f, A) \in SUBSET Arena(f)
  BY ScheduledTyped DEF Accessors
<1>2. \A v \in Accessors(f, A) : offset[v] \in Nat
  <2>1. \A v \in Accessors(f, A) : Place(f, v) \in Places(f)
    BY <1>1, PlaceTyped
  <2> QED BY <2>1, PlacesParts
<1>3. IsFiniteSet(Accessors(f, A))
  <2>1. Arena(f) = 1 .. Len(f.def) /\ Len(f.def) \in Nat
    BY ValidParts
  <2>2. IsFiniteSet(Arena(f))
    BY <2>1, FS_Interval
  <2> QED BY <1>1, <2>2, FS_Subset
<1>4. Range(offset) = {offset[v] : v \in Accessors(f, A)}
  BY DEF Range
<1>5. IsFiniteSet(Range(offset))
  <2> DEFINE R == {offset[v] : v \in Accessors(f, A)}
  <2>1. offset \in Surjection(Accessors(f, A), R)
    <3>1. offset \in [Accessors(f, A) -> R]
      OBVIOUS
    <3> HIDE DEF offset
    <3> QED BY <3>1 DEF Surjection
  <2> HIDE DEF offset
  <2> QED BY <1>3, <1>4, <2>1, FS_Surjection
<1>6. SlotsAt(f, A) = [o \in Range(offset) |->
                          Slot(f, {v \in DOMAIN offset : offset[v] = o}, o)]
  BY DEF SlotsAt
<1>7. ASSUME NEW all, all \subseteq Accessors(f, A), NEW o PROVE SlotOf(f, Slot(f, all, o))
  <2>1. ASSUME NEW v \in all
        PROVE  v \in Arena(f) /\ f.def[v].kind = "op" /\ Op(f, v) = f.def[v].op
    <3>1. v \in Arena(f) /\ Op(f, v) # ""
      BY <1>1, <1>7 DEF ScalarOp
    <3> QED BY <3>1, Operated
  <2>2. /\ Slot(f, all, o).stores = {v \in all : Stores(Op(f, v))}
        /\ Slot(f, all, o).loads = {v \in all : ~Stores(Op(f, v))}
    BY DEF Slot
  <2>3. \A v \in all : (Stores(Op(f, v)) => v \in StoreOf(f))
                       /\ (~Stores(Op(f, v)) => v \in LoadOf(f))
    BY <2>1 DEF StoreOf, LoadOf
  <2> QED BY <2>2, <2>3 DEF SlotOf
<1>8. DOMAIN offset = Accessors(f, A)
  OBVIOUS
<1> HIDE DEF offset
<1>9. ASSUME NEW o \in DOMAIN SlotsAt(f, A) PROVE SlotOf(f, SlotsAt(f, A)[o])
  <2>1. SlotsAt(f, A)[o] = Slot(f, {v \in DOMAIN offset : offset[v] = o}, o)
    BY <1>6
  <2>2. {v \in DOMAIN offset : offset[v] = o} \subseteq Accessors(f, A)
    BY <1>8
  <2> QED BY <1>7, <2>1, <2>2
<1>10. DOMAIN SlotsAt(f, A) = Range(offset)
  BY <1>6
<1> QED
  BY <1>2, <1>4, <1>5, <1>9, <1>10

\* So does promoting the slots of one frame.
LEMMA PromoteAtKeeps ==
    ASSUME NEW f \in Valid, NEW A
    PROVE  /\ PromoteAt(f, A).ir \in Valid
           /\ ~PromoteAt(f, A).changed => PromoteAt(f, A).ir = f
<1> DEFINE slots == SlotsAt(f, A)
           approved == Approved(f, slots, EscapedWords(f, A))
<1>1. PromoteAt(f, A) = IF Escapes(f, A) \/ Overlap(slots) THEN Result(f, FALSE)
                        ELSE PromoteEach(f, slots, approved)
  BY DEF PromoteAt, PromoteFrame
<1>2. /\ DOMAIN slots \in SUBSET Int /\ IsFiniteSet(DOMAIN slots)
      /\ \A o \in DOMAIN slots : SlotOf(f, slots[o])
  BY SlotsTyped
<1>3. approved \subseteq DOMAIN slots
  BY DEF Approved
<1> HIDE DEF slots, approved
<1>4. approved \in SUBSET Int /\ IsFiniteSet(approved) /\ \A o \in approved : SlotOf(f, slots[o])
  BY <1>2, <1>3, FS_Subset
<1>5. /\ PromoteEach(f, slots, approved).ir \in Valid
      /\ ~PromoteEach(f, slots, approved).changed => PromoteEach(f, slots, approved).ir = f
  BY <1>4, PromoteEachKeeps
<1>6. CASE Escapes(f, A) \/ Overlap(slots)
  BY <1>1, <1>6, ResultParts
<1>7. CASE ~(Escapes(f, A) \/ Overlap(slots))
  BY <1>1, <1>5, <1>7
<1> QED
  BY <1>6, <1>7

\* slot-promotion keeps functions valid, and says so when it changes one.
LEMMA PromoteSlotsKeeps ==
    ASSUME NEW f \in Valid
    PROVE  /\ PromoteSlots(f).ir \in Valid
           /\ ~PromoteSlots(f).changed => PromoteSlots(f).ir = f
<1> DEFINE A == Addresses(f, CHOOSE v \in Frames(f) : TRUE)
<1>1. PromoteSlots(f) = IF Cardinality(Frames(f)) # 1 THEN Result(f, FALSE)
                        ELSE PromoteAt(f, A)
  BY DEF PromoteSlots
<1> HIDE DEF A
<1>2. CASE Cardinality(Frames(f)) # 1
  BY <1>1, <1>2, ResultParts
<1>3. CASE Cardinality(Frames(f)) = 1
  BY <1>1, <1>3, PromoteAtKeeps
<1> QED
  BY <1>2, <1>3
-----------------------------------------------------------------------------
(* The unrolling of loops *)

\* What an unrolling needs of a loop of f.
LoopOf(f, l) ==
    /\ l.header \in Block
    /\ l.body \in Block
    /\ l.exit \in Fitting(f)
    /\ l.init \in Int
    /\ l.step \in Int
    /\ l.trips \in Nat

\* The ids a paste of c instructions uses, in an arena of m.
LEMMA Room ==
    ASSUME NEW m \in Nat, NEW c \in Nat
    PROVE  /\ 1 .. m \subseteq 1 .. m + 1 + c
           /\ m + 1 \in 1 .. m + 1 + c
           /\ \A j \in 1 .. c : m + 1 + j \in 1 .. m + 1 + c
           /\ \A i \in 1 .. c + 1 : m + i \in 1 .. m + 1 + c
OBVIOUS

\* A longer sequence of definitions.
LEMMA Joined ==
    ASSUME NEW D, NEW s \in Seq(D), NEW x \in D, NEW t \in Seq(D)
    PROVE  /\ Append(s, x) \o t \in Seq(D)
           /\ Len(Append(s, x) \o t) = Len(s) + 1 + Len(t)
           /\ DOMAIN (Append(s, x) \o t) = 1 .. Len(s) + 1 + Len(t)
           /\ \A i \in 1 .. Len(s) : (Append(s, x) \o t)[i] = s[i]
<1> DEFINE u == Append(s, x)
<1>1. u \in Seq(D) /\ Len(u) = Len(s) + 1 /\ Len(s) \in Nat /\ Len(t) \in Nat
      /\ \A i \in 1 .. Len(s) : u[i] = s[i]
  OBVIOUS
<1> HIDE DEF u
<1>2. /\ u \o t \in Seq(D) /\ Len(u \o t) = Len(u) + Len(t)
      /\ \A i \in 1 .. Len(u) : (u \o t)[i] = u[i]
  BY <1>1
<1>3. DOMAIN (u \o t) = 1 .. Len(u) + Len(t)
  BY <1>2
<1>4. \A i \in 1 .. Len(s) : i \in 1 .. Len(u)
  BY <1>1
<1> QED
  BY <1>1, <1>2, <1>3, <1>4 DEF u

\* A definition copied with other operands.
Fills(F, seq, W) == F = [i \in DOMAIN seq |-> F[i]] /\ \A i \in DOMAIN seq : F[i] \in W

\* A copied definition, its arguments redirected.
LEMMA CopiedDef ==
    ASSUME NEW V, NEW W, V \subseteq W, NEW d \in Definitions(V), NEW F,
           Fills(F, d.args, W), d.kind = "op"
    PROVE  [d EXCEPT !.args = <<>> \o F] \in Definitions(W)
<1>1. /\ d.args \in Seq(V) /\ Len(d.args) \in Operands(d.op) /\ d.n \in Nat /\ d.op \in OpName
      /\ d = Numbered(d.op, d.n, d.args)
  BY DefinitionKinds
<1>2. <<>> \o F = F /\ F \in Seq(W) /\ Len(F) = Len(d.args)
  <2> DEFINE seq == d.args
  <2>1. seq \in Seq(V) /\ F = [i \in DOMAIN seq |-> F[i]] /\ \A i \in DOMAIN seq : F[i] \in W
    BY <1>1 DEF Fills
  <2> HIDE DEF seq
  <2>2. <<>> \o F = F /\ F \in Seq(W) /\ Len(F) = Len(seq)
    BY <2>1, Mapped
  <2> QED BY <2>2 DEF seq
<1>3. [d EXCEPT !.args = F] = Numbered(d.op, d.n, F)
  BY <1>1 DEF Numbered
<1>4. Numbered(d.op, d.n, F) \in Definitions(W)
  BY <1>1, <1>2, DefinitionsMade
<1> QED
  BY <1>2, <1>3, <1>4

\* A trip pasted behind a header keeps a function valid.
LEMMA PasteKeeps ==
    ASSUME NEW f \in Valid, NEW l, l.header \in Block, l.body \in Block,
           l.init \in Int, l.step \in Int, NEW k \in Int
    PROVE  LET g == Paste(f, l, k)
           IN  /\ g \in Valid
               /\ Arena(f) \subseteq Arena(g)
               /\ \A b \in Block : g.block[b].params = f.block[b].params
<1> DEFINE body == f.block[l.body].insts
           size == Len(f.def)
           const == size + 1
           W == 1 .. size + 1 + Len(body)
           place(r) == CHOOSE j \in DOMAIN body : body[j] = r
           new(v) ==
               LET r == Root(f, v)
               IN  IF r = l.induction THEN const
                   ELSE IF r \in ToSet(body) THEN const + place(r) ELSE v
           copy(d) == IF d.kind = "op"
                      THEN [d EXCEPT !.args = <<>> \o [i \in DOMAIN d.args |-> new(d.args[i])]]
                      ELSE d
           fresh == [i \in 1 .. Len(body) + 1 |-> size + i]
           block == [f.block EXCEPT ![l.header].insts = @ \o fresh]
           trip == Numbered("const", (l.init + k * l.step) % Wrap, <<>>)
           copies == [i \in DOMAIN body |-> copy(f.def[body[i]])]
           def == Append(f.def, trip) \o (<<>> \o copies)
           g == Paste(f, l, k)
<1>1. g = [block |-> block, def |-> def]
  BY DEF Paste, Map
<1> HIDE DEF g
<1>2. /\ f.block \in [Block -> BlockOf(Arena(f))]
      /\ f.def \in Seq(Definitions(Arena(f))) /\ Len(f.def) \in Nat
      /\ Arena(f) = 1 .. Len(f.def)
      /\ \A b \in Block : Numbers(f.block, f.def, b)
  BY ValidParts
<1>3. body \in Seq(Arena(f)) /\ Len(body) \in Nat /\ DOMAIN body = 1 .. Len(body)
  <2>1. body \in Seq(Arena(f))
    BY ValidBlock
  <2> QED BY <2>1
<1>4. /\ Arena(f) \subseteq W
      /\ size + 1 \in W
      /\ \A j \in 1 .. Len(body) : size + 1 + j \in W
      /\ \A i \in 1 .. Len(body) + 1 : size + i \in W
  <2> DEFINE c == Len(body)
  <2>1. size \in Nat /\ c \in Nat /\ Arena(f) = 1 .. size
    BY <1>2, <1>3
  <2> HIDE DEF c, size
  <2> QED BY <2>1, Room DEF c
<1>5. ASSUME NEW v \in Arena(f) PROVE new(v) \in W
  <2> DEFINE r == Root(f, v)
  <2>1. ASSUME r \in ToSet(body) PROVE place(r) \in 1 .. Len(body)
    <3>1. \E j \in DOMAIN body : body[j] = r
      BY <2>1 DEF ToSet
    <3> QED BY <1>3, <3>1
  <2>2. new(v) = IF r = l.induction THEN size + 1
                 ELSE IF r \in ToSet(body) THEN size + 1 + place(r) ELSE v
    OBVIOUS
  <2> HIDE DEF new, r, place, W, size, body
  <2> QED BY <1>4, <2>1, <2>2
<1> HIDE DEF new
<1>6. ASSUME NEW d \in Definitions(Arena(f)) PROVE copy(d) \in Definitions(W)
  <2>1. CASE d.kind = "op"
    <3> DEFINE F == [i \in DOMAIN d.args |-> new(d.args[i])]
    <3>1. copy(d) = [d EXCEPT !.args = <<>> \o F]
      BY <2>1
    <3>2. \A i \in DOMAIN d.args : F[i] \in W
      <4> DEFINE args == d.args
      <4>1. args \in Seq(Arena(f))
        BY <2>1, DefinitionKinds
      <4>2. \A i \in DOMAIN args : args[i] \in Arena(f)
        <5> HIDE DEF args
        <5> QED BY <4>1
      <4> HIDE DEF W
      <4> QED BY <1>5, <4>2
    <3>3. F = [i \in DOMAIN d.args |-> F[i]]
      OBVIOUS
    <3> HIDE DEF F, copy, W
    <3>4. Fills(F, d.args, W)
      BY <3>2, <3>3 DEF Fills
    <3>5. [d EXCEPT !.args = <<>> \o F] \in Definitions(W)
      BY <1>4, <2>1, <3>4, CopiedDef
    <3> QED BY <3>1, <3>5
  <2>2. CASE d.kind # "op"
    <3>1. copy(d) = d
      BY <2>2
    <3>2. Definitions(Arena(f)) \subseteq Definitions(W)
      <4> HIDE DEF W
      <4> QED BY <1>4, Larger
    <3> QED BY <3>1, <3>2
  <2> QED BY <2>1, <2>2
<1> HIDE DEF copy
<1>7. trip \in Definitions(W)
  <2> DEFINE n == (l.init + k * l.step) % Wrap
  <2>1. n \in Nat
    <3> DEFINE m == l.init + k * l.step
    <3>1. m \in Int
      OBVIOUS
    <3> HIDE DEF m
    <3>2. m % 8 \in Nat
      BY <3>1
    <3> QED BY <3>2 DEF m, Wrap
  <2>2. "const" \in OpName /\ Operands("const") = Nat
    BY DEF OpName, PureOp, Operands, Stores
  <2>3. <<>> \in Seq(W) /\ Len(<<>>) \in Nat
    OBVIOUS
  <2>4. trip = Numbered("const", n, <<>>)
    OBVIOUS
  <2> HIDE DEF n, W, trip
  <2> QED BY <2>1, <2>2, <2>3, <2>4, DefinitionsMade
<1>8. <<>> \o copies \in Seq(Definitions(W)) /\ Len(<<>> \o copies) = Len(body)
  <2>1. \A i \in DOMAIN body : copies[i] \in Definitions(W)
    <3>1. \A i \in DOMAIN body : f.def[body[i]] \in Definitions(Arena(f))
      <4>1. \A i \in DOMAIN body : body[i] \in Arena(f)
        <5> HIDE DEF body
        <5> QED BY <1>3
      <4> QED BY <4>1, ValidParts
    <3> HIDE DEF W
    <3> QED BY <1>6, <3>1
  <2>2. copies = [i \in DOMAIN body |-> copies[i]]
    OBVIOUS
  <2> HIDE DEF copies, body, W
  <2> QED BY <1>3, <2>1, <2>2, Mapped
<1> HIDE DEF trip
<1>9. /\ def \in Seq(Definitions(W)) /\ DOMAIN def = W
      /\ \A v \in Arena(f) : def[v] = f.def[v]
  <2> DEFINE D == Definitions(W)
             t == <<>> \o copies
  <2>1. f.def \in Seq(D) /\ trip \in D /\ t \in Seq(D) /\ Len(t) = Len(body)
    <3>1. Definitions(Arena(f)) \subseteq D
      <4> HIDE DEF W
      <4> QED BY <1>4, Larger
    <3> HIDE DEF D, copies
    <3>2. f.def \in Seq(D)
      BY <1>2, <3>1
    <3> QED BY <1>7, <1>8, <3>2 DEF D
  <2> DEFINE s == f.def
  <2> HIDE DEF D, t
  <2>2. /\ Append(s, trip) \o t \in Seq(D)
        /\ DOMAIN (Append(s, trip) \o t) = 1 .. Len(s) + 1 + Len(t)
        /\ \A i \in 1 .. Len(s) : (Append(s, trip) \o t)[i] = s[i]
    <3>1. s \in Seq(D) /\ trip \in D /\ t \in Seq(D)
      BY <2>1
    <3> HIDE DEF s
    <3> QED BY <3>1, Joined
  <2> QED BY <1>2, <2>1, <2>2 DEF D, t
<1> HIDE DEF def, copies
<1>10. fresh \in Seq(W)
  <2>1. \A i \in 1 .. Len(body) + 1 : size + i \in W
    BY <1>4
  <2> HIDE DEF W, size
  <2>2. fresh \in [1 .. Len(body) + 1 -> W]
    BY <2>1
  <2>3. Len(body) + 1 \in Nat
    BY <1>3
  <2> HIDE DEF fresh
  <2> QED BY <2>2, <2>3
<1> HIDE DEF fresh
<1>11. ASSUME NEW b \in Block
       PROVE  /\ block[b] \in BlockOf(W)
              /\ block[b].params = f.block[b].params
              /\ block[b].exit = f.block[b].exit
  <2> DEFINE old == f.block[b]
  <2>1. /\ old.params \in Seq(Arena(f)) /\ old.insts \in Seq(Arena(f))
        /\ old.exit \in Terminators(Arena(f))
        /\ old = [params |-> old.params, insts |-> old.insts, exit |-> old.exit]
    BY ValidBlock
  <2>2. block[b] = IF b = l.header THEN [old EXCEPT !.insts = old.insts \o fresh] ELSE old
    BY <1>2
  <2> HIDE DEF old, block, W
  <2>3. /\ old.params \in Seq(W) /\ old.insts \in Seq(W) /\ old.exit \in Terminators(W)
    BY <1>4, <2>1, Larger
  <2>4. CASE b = l.header
    <3>1. block[b] = [params |-> old.params, insts |-> old.insts \o fresh, exit |-> old.exit]
      BY <2>1, <2>2, <2>4
    <3>2. old.insts \o fresh \in Seq(W)
      BY <1>10, <2>3
    <3>3. block[b] \in BlockOf(W)
      BY <2>3, <3>1, <3>2, BlockMade
    <3> QED BY <3>1, <3>3 DEF old
  <2>5. CASE b # l.header
    <3>1. old \in BlockOf(W)
      BY <2>1, <2>3, BlockMade
    <3> QED BY <2>2, <2>5, <3>1 DEF old
  <2> QED BY <2>4, <2>5
<1>12. block \in [Block -> BlockOf(W)]
  <2>1. block = [b \in Block |-> block[b]]
    BY <1>2
  <2> HIDE DEF block, W
  <2> QED BY <1>11, <2>1
<1> HIDE DEF block
<1>13. ASSUME NEW b \in Block PROVE Numbers(block, def, b)
  <2>1. f.block[b].params \in Seq(Arena(f)) /\ Numbers(f.block, f.def, b)
    BY ValidBlock
  <2>2. \A i \in DOMAIN f.block[b].params : f.block[b].params[i] \in Arena(f)
    BY <2>1
  <2>3. \A i \in DOMAIN f.block[b].params : def[f.block[b].params[i]] = BlockParam(b, i)
    BY <1>9, <2>1, <2>2 DEF Numbers
  <2> QED BY <1>11, <2>3 DEF Numbers
<1>14. ASSUME NEW b \in Block PROVE Fits(block, block[b].exit)
  <2>1. f.block[b].exit \in Terminators(Arena(f)) /\ Fits(f.block, f.block[b].exit)
    BY ValidBlock
  <2>2. \A i \in DOMAIN f.block[b].exit.targets : f.block[b].exit.targets[i].block \in Block
    BY <2>1, TargetParts
  <2> QED BY <1>11, <2>1, <2>2 DEF Fits
<1> HIDE DEF W
<1>15. g \in Valid /\ Arena(g) = W
  <2>1. LET h == [block |-> block, def |-> def] IN h \in Valid /\ Arena(h) = W
    BY <1>9, <1>12, <1>13, <1>14, ValidBuilt
  <2> QED BY <1>1, <2>1
<1>16. g.block = block
  BY <1>1
<1> QED
  BY <1>4, <1>11, <1>15, <1>16 DEF g

\* How far the unrolling of f may have come.
Unrolling(f) ==
    {g \in Valid : /\ Arena(f) \subseteq Arena(g)
                   /\ \A b \in Block : g.block[b].params = f.block[b].params}

\* Another exit for one block.
LEMMA Redirected ==
    ASSUME NEW f \in Valid, NEW h \in Block, NEW x \in Terminators(Arena(f)), Fits(f.block, x)
    PROVE  LET g == [f EXCEPT !.block[h].exit = x]
           IN  /\ g \in Valid
               /\ Arena(g) = Arena(f)
               /\ \A b \in Block : g.block[b].params = f.block[b].params
<1> DEFINE g == [f EXCEPT !.block[h].exit = x]
           block == [b \in Block |-> IF b = h THEN [f.block[b] EXCEPT !.exit = x]
                                     ELSE f.block[b]]
<1>1. f = [block |-> f.block, def |-> f.def] /\ f.block \in [Block -> BlockOf(Arena(f))]
  BY ValidParts
<1>2. g = [block |-> block, def |-> f.def]
  <2>1. [f.block EXCEPT ![h].exit = x] = block
    BY <1>1
  <2>2. g = [block |-> [f.block EXCEPT ![h].exit = x], def |-> f.def]
    BY <1>1
  <2> QED BY <2>1, <2>2
<1>3. ASSUME NEW b \in Block
      PROVE  /\ block[b] \in BlockOf(Arena(f))
             /\ block[b].params = f.block[b].params
             /\ Fits(f.block, block[b].exit)
  <2> DEFINE old == f.block[b]
  <2>1. /\ old.params \in Seq(Arena(f)) /\ old.insts \in Seq(Arena(f))
        /\ old = [params |-> old.params, insts |-> old.insts, exit |-> old.exit]
        /\ old \in BlockOf(Arena(f)) /\ Fits(f.block, old.exit)
    BY ValidBlock
  <2>2. block[b] = IF b = h THEN [old EXCEPT !.exit = x] ELSE old
    OBVIOUS
  <2> HIDE DEF old, block
  <2>3. CASE b = h
    <3>1. block[b] = [params |-> old.params, insts |-> old.insts, exit |-> x]
      BY <2>1, <2>2, <2>3
    <3>2. [params |-> old.params, insts |-> old.insts, exit |-> x] \in BlockOf(Arena(f))
      BY <2>1, BlockMade
    <3> QED BY <3>1, <3>2 DEF old
  <2>4. CASE b # h
    BY <2>1, <2>2, <2>4 DEF old
  <2> QED BY <2>3, <2>4
<1>4. block \in [Block -> BlockOf(Arena(f))]
  <2>1. block = [b \in Block |-> block[b]]
    OBVIOUS
  <2> HIDE DEF block
  <2> QED BY <1>3, <2>1
<1> HIDE DEF block, g
<1>5. LET k == [block |-> block, def |-> f.def] IN k \in Valid /\ Arena(k) = Arena(f)
  BY <1>3, <1>4, Reblocked
<1> QED
  BY <1>2, <1>3, <1>5 DEF g

\* Pasting one round of a loop goes on with the unrolling.
LEMMA PasteStep ==
    ASSUME NEW f \in Valid, NEW l, LoopOf(f, l), NEW g \in Unrolling(f), NEW k \in Int
    PROVE  Paste(g, l, k) \in Unrolling(f)
<1> DEFINE h == Paste(g, l, k)
<1>1. g \in Valid /\ Arena(f) \subseteq Arena(g)
      /\ \A b \in Block : g.block[b].params = f.block[b].params
  BY DEF Unrolling
<1>2. l.header \in Block /\ l.body \in Block /\ l.init \in Int /\ l.step \in Int
  BY DEF LoopOf
<1>3. h \in Valid /\ Arena(g) \subseteq Arena(h)
      /\ \A b \in Block : h.block[b].params = g.block[b].params
  BY <1>1, <1>2, PasteKeeps
<1> HIDE DEF h
<1>4. Arena(f) \subseteq Arena(h) /\ \A b \in Block : h.block[b].params = f.block[b].params
  BY <1>1, <1>3
<1>5. h \in Unrolling(f)
  BY <1>3, <1>4 DEF Unrolling
<1> QED
  BY <1>5 DEF h

\* So does unrolling the whole loop.
LEMMA UnrollStep ==
    ASSUME NEW f \in Valid, NEW l, LoopOf(f, l), NEW g \in Unrolling(f)
    PROVE  Unroll(g, l) \in Unrolling(f)
<1> DEFINE seq == [k \in 1 .. l.trips |-> k]
           pasted == FoldOver(LAMBDA h, k : Paste(h, l, k - 1), g, seq)
<1>0. Len(seq) \in Nat /\ \A k \in 1 .. Len(seq) : seq[k] - 1 \in Int
  <2>1. l.trips \in Nat
    BY DEF LoopOf
  <2> QED BY <2>1
<1> HIDE DEF seq
<1> DEFINE A == Unrolling(f)
           x == g
           n == Len(seq)
           Onward(k, u) == Paste(u, l, seq[k] - 1)
           Q(it) == it = [k \in 0 .. n |-> IF k = 0 THEN x ELSE Onward(k, it[k - 1])]
<1>1. n \in Nat /\ x \in A
  BY <1>0
<1>2. \A k \in 1 .. n : \A u \in A : Onward(k, u) \in A
  BY <1>0, PasteStep
<1>3. \E it : Q(it)
  <2> DEFINE F == [k \in 1 .. n |-> [u \in A |-> Onward(k, u)]]
  <2> HIDE DEF A, x, n, Onward
  <2>1. F \in Steps(A, n)
    BY <1>2 DEF Steps
  <2>2. PICK it \in [0 .. n -> A] : it[0] = x /\ \A k \in 1 .. n : it[k] = F[k][it[k - 1]]
    <3> HIDE DEF F
    <3>1. Runs(A, x, n, F)
      BY <1>1, <2>1, Iterated
    <3> QED BY <3>1 DEF Runs
  <2>3. \A k \in 0 .. n : it[k] = IF k = 0 THEN x ELSE Onward(k, it[k - 1])
    <3>1. \A k \in 1 .. n : it[k - 1] \in A
      BY <1>1
    <3>2. \A k \in 1 .. n : F[k][it[k - 1]] = Onward(k, it[k - 1])
      BY <3>1
    <3> HIDE DEF F
    <3> QED BY <1>1, <2>2, <3>2
  <2>4. Q(it)
    <3> HIDE DEF F
    <3> QED BY <2>2, <2>3, Zenon
  <2> QED BY <2>4
<1> DEFINE it == CHOOSE it : Q(it)
<1>4. Q(it)
  <2> HIDE DEF Q
  <2> QED BY <1>3
<1>5. pasted = it[n]
  BY DEF FoldOver
<1> HIDE DEF it
<1>6. it[0] = x /\ \A k \in 1 .. n : it[k] = Onward(k, it[k - 1])
  <2> HIDE DEF A, x, n, Onward
  <2> QED BY <1>1, <1>4
<1>7. \A k \in 0 .. n : it[k] \in A
  <2> HIDE DEF Onward, A, x
  <2>1. it[0] \in A /\ \A k \in 0 .. n - 1 : it[k] \in A => it[k + 1] \in A
    <3>1. \A k \in 0 .. n - 1 : k + 1 \in 1 .. n /\ (k + 1) - 1 = k
      BY <1>1
    <3> QED BY <1>1, <1>2, <1>6, <3>1
  <2> HIDE DEF n
  <2> QED BY <1>1, <2>1, Stays
<1>8. pasted \in Unrolling(f)
  <2> HIDE DEF seq, pasted
  <2> QED BY <1>1, <1>5, <1>7
<1>9. Unroll(g, l) = [pasted EXCEPT !.block[l.header].exit = Branch(l.exit)]
  BY DEF Unroll, seq
<1> HIDE DEF pasted
<1>10. pasted \in Valid /\ Arena(f) \subseteq Arena(pasted)
       /\ \A b \in Block : pasted.block[b].params = f.block[b].params
  BY <1>8 DEF Unrolling
<1>11. l.header \in Block /\ l.exit \in Fitting(f)
  BY DEF LoopOf
<1>12. /\ l.exit.block \in Block /\ l.exit.args \in Seq(Arena(f))
       /\ Len(l.exit.args) = Len(f.block[l.exit.block].params) /\ l.exit \in TargetOf(Arena(f))
  BY <1>11, FittingParts
<1>13. l.exit \in TargetOf(Arena(pasted))
       /\ Len(l.exit.args) = Len(pasted.block[l.exit.block].params)
  <2>1. \A t \in TargetOf(Arena(f)) : t \in TargetOf(Arena(pasted))
    <3>1. Seq(Arena(f)) \subseteq Seq(Arena(pasted))
      BY <1>10, Larger
    <3> QED BY <3>1 DEF TargetOf
  <2> QED BY <1>10, <1>12, <2>1
<1>14. Branch(l.exit) \in Terminators(Arena(pasted)) /\ Fits(pasted.block, Branch(l.exit))
  <2>1. Branch(l.exit) \in Terminators(Arena(pasted))
    BY <1>13, ExitsMade
  <2>2. Branch(l.exit).targets = <<l.exit>>
    BY DEF Branch
  <2>3. \A i \in DOMAIN <<l.exit>> : <<l.exit>>[i] = l.exit
    OBVIOUS
  <2> QED BY <1>13, <2>1, <2>2, <2>3 DEF Fits
<1>15. LET h == [pasted EXCEPT !.block[l.header].exit = Branch(l.exit)]
       IN  /\ h \in Valid
           /\ Arena(h) = Arena(pasted)
           /\ \A b \in Block : h.block[b].params = pasted.block[b].params
  BY <1>10, <1>11, <1>14, Redirected
<1> DEFINE h == Unroll(g, l)
<1>16. /\ h \in Valid /\ Arena(h) = Arena(pasted)
       /\ \A b \in Block : h.block[b].params = pasted.block[b].params
  BY <1>9, <1>15
<1> HIDE DEF h
<1>17. h \in Unrolling(f)
  BY <1>10, <1>16 DEF Unrolling
<1> QED
  BY <1>17 DEF h
-----------------------------------------------------------------------------
\* A signed constant.
LEMMA SignedTyped ==
    ASSUME NEW f \in Valid, NEW v \in Arena(f), IsConst(f, v)
    PROVE  ConstI32(f, v) \in Int
<1>1. Const(f, v) \in Nat
  BY ConstTyped
<1> QED
  BY <1>1 DEF ConstI32, Wrap

\* The edge of a conditional branch that is not the k-th.
LEMMA OtherEdge == \A k \in {1, 2} : 3 - k \in 1 .. 2
OBVIOUS

\* What an addition steps by.
LEMMA StepTyped ==
    ASSUME NEW f \in Valid, NEW d \in Definitions(Arena(f)), d.kind = "op", d.op = "add",
           NEW v
    PROVE  StepFrom(f, d, v) \subseteq Int
<1>1. d.args \in Seq(Arena(f)) /\ Len(d.args) \in Operands(d.op)
  BY DefinitionKinds
<1>2. Len(d.args) = 2
  BY <1>1 DEF Operands, Stores
<1>3. d.args[1] \in Arena(f) /\ d.args[2] \in Arena(f)
  BY <1>1, <1>2, Pair
<1>4. \A i \in 1 .. 2 : d.args[3 - i] \in Arena(f)
  <2>1. \A i \in 1 .. 2 : 3 - i = 1 \/ 3 - i = 2
    OBVIOUS
  <2> QED BY <1>3, <2>1
<1> QED
  BY <1>4, SignedTyped DEF StepFrom

\* The one item of a sequence.
LEMMA Single ==
    ASSUME NEW V, NEW s \in Seq(V), Len(s) = 1
    PROVE  s[1] \in V
OBVIOUS

\* What is classified is a loop that can be unrolled.
LEMMA FillLoopTyped ==
    ASSUME NEW f \in Valid, NEW h \in Block, NEW b \in Block, NEW l \in FillLoop(f, h, b)
    PROVE  LoopOf(f, l)
<1> DEFINE exit == f.block[h].exit
           induction == f.block[h].params[1]
           cond == f.def[Root(f, exit.reads[1])]
           stay == Continuing(cond.op)
           back == f.block[b].exit
           stepped == f.def[Root(f, back.targets[1].args[1])]
           entries == {e \in InEdges(f, h) : e[1] # b}
           starts == {ConstI32(f, EdgeArgs(f, e)[1]) : e \in entries}
           leaving == exit.targets[3 - stay]
           steps == StepFrom(f, stepped, induction)
           bounds == StepFrom(f, cond, induction)
           refused == \/ Len(f.block[h].params) # 1
                      \/ exit.kind # "branch_if"
                      \/ cond.kind # "op" \/ cond.op \notin {"ne", "eq"}
                      \/ b = h
                      \/ exit.targets[stay] # Target(b, <<>>)
                      \/ Cardinality(InEdges(f, b)) # 1
                      \/ back.kind # "branch" \/ back.targets[1].block # h
                      \/ stepped.kind # "op" \/ stepped.op # "add"
                      \/ ~HoldsOnly(f, h, HeaderOp) \/ ~HoldsOnly(f, b, BodyOp)
                      \/ \E e \in entries : ~IsConst(f, EdgeArgs(f, e)[1])
                      \/ Cardinality(starts) # 1
                      \/ \E v \in ToSet(leaving.args) : Root(f, v) = induction
           trips(c) == (c.bound - c.init) \div c.step
           counts == {c \in [init : starts, bound : bounds, step : steps] :
                         /\ c.step > 0
                         /\ (c.bound - c.init) % c.step = 0
                         /\ trips(c) \in 1 .. MaxTrips}
           loop(c) == [header |-> h, body |-> b, exit |-> leaving, induction |-> induction,
                       init |-> c.init, step |-> c.step, trips |-> trips(c)]
<1>1. FillLoop(f, h, b) = IF refused THEN {} ELSE {loop(c) : c \in counts}
  BY DEF FillLoop
<1>2. /\ Len(f.block[h].params) = 1
      /\ exit.kind = "branch_if"
      /\ back.kind = "branch" /\ back.targets[1].block = h
      /\ stepped.kind = "op" /\ stepped.op = "add"
      /\ \A e \in entries : IsConst(f, EdgeArgs(f, e)[1])
  <2>1. ~refused
    <3> HIDE DEF refused, counts, loop
    <3> QED BY <1>1
  <2> HIDE DEF exit, back, stepped, entries, induction, cond, stay, starts, leaving
  <2> QED BY <2>1
<1>3. PICK c \in counts : l = loop(c)
  <2>1. ~refused
    <3> HIDE DEF refused, counts, loop
    <3> QED BY <1>1
  <2> HIDE DEF refused, counts, loop
  <2> QED BY <1>1, <2>1
<1> HIDE DEF refused
<1>4. /\ exit \in Terminators(Arena(f)) /\ Fits(f.block, exit)
      /\ back \in Terminators(Arena(f)) /\ Fits(f.block, back)
      /\ f.block[h].params \in Seq(Arena(f))
  BY ValidBlock
<1>5. DOMAIN f.block[h].params = {1}
  <2>1. Len(f.block[h].params) = 1 /\ f.block[h].params \in Seq(Arena(f))
    BY <1>2, <1>4
  <2> QED BY <2>1, Indices
<1>6. starts \subseteq Int
  <2>1. ASSUME NEW e \in entries PROVE ConstI32(f, EdgeArgs(f, e)[1]) \in Int
    <3>1. EdgeArgs(f, e)[1] \in Arena(f)
      BY <1>5, ArgTyped
    <3> QED BY <1>2, <3>1, SignedTyped
  <2> QED BY <2>1
<1>7. steps \subseteq Int
  <2>1. back.targets[1] \in Fitting(f)
    <3>1. 1 \in DOMAIN back.targets
      <4> HIDE DEF back
      <4> QED BY <1>2, <1>4, BranchTarget
    <3> QED BY <1>4, <3>1, FittingTargets
  <2>2. /\ back.targets[1].args \in Seq(Arena(f))
        /\ Len(back.targets[1].args) = 1
    BY <1>2, <2>1, FittingParts
  <2>3. back.targets[1].args[1] \in Arena(f)
    BY <2>2, Single
  <2>4. stepped \in Definitions(Arena(f))
    BY <2>3, RootTyped, ValidParts
  <2> HIDE DEF stepped
  <2> QED BY <1>2, <2>4, StepTyped
<1>8. leaving \in Fitting(f)
  <2>1. stay \in {1, 2}
    BY DEF Continuing
  <2> HIDE DEF stay, exit
  <2>2. Len(exit.targets) = 2 /\ exit.targets \in Seq(TargetOf(Arena(f)))
    BY <1>2, <1>4, TerminatorParts, TerminatorKinds
  <2>3. 3 - stay \in DOMAIN exit.targets
    <3>1. DOMAIN exit.targets = 1 .. 2
      BY <2>2, Indices
    <3> QED BY <2>1, <3>1, OtherEdge
  <2> QED BY <1>4, <2>3, FittingTargets
<1> HIDE DEF starts, steps, bounds, leaving, induction
<1>9. c.init \in Int /\ c.step \in Int /\ trips(c) \in Nat
  <2>1. c \in [init : starts, bound : bounds, step : steps] /\ trips(c) \in 1 .. MaxTrips
    OBVIOUS
  <2> HIDE DEF counts, trips
  <2>2. MaxTrips \in Nat
    BY MemoryAssumption
  <2>3. c.init \in starts /\ c.step \in steps
    BY <2>1
  <2>4. \A t \in 1 .. MaxTrips : t \in Nat
    BY <2>2
  <2> QED BY <1>6, <1>7, <2>1, <2>3, <2>4
<1>10. /\ l.header = h /\ l.body = b /\ l.exit = leaving
       /\ l.init = c.init /\ l.step = c.step /\ l.trips = trips(c)
  <2> HIDE DEF trips, counts
  <2> QED BY <1>3
<1> QED
  <2> HIDE DEF trips, counts, loop
  <2> QED BY <1>8, <1>9, <1>10 DEF LoopOf

\* The loops headed by h, and what unrolling one of each headers leaves.
LoopsAt(f, h) == UNION {FillLoop(f, h, b) : b \in Succ(f, h)}

\* The fill loop the pass picks at a header.
LoopAt(f, h) == CHOOSE l \in LoopsAt(f, h) : TRUE

\* The function after its fill loops were unrolled.
Unrolled(f, headers) == FoldOver(LAMBDA g, h : Unroll(g, LoopAt(f, h)), f, InOrder(headers))

\* unroll-fill-loops keeps functions valid, and says so when it changes one.
LEMMA UnrollFillLoopsKeeps ==
    ASSUME NEW f \in Valid
    PROVE  /\ UnrollFillLoops(f).ir \in Valid
           /\ ~UnrollFillLoops(f).changed => UnrollFillLoops(f).ir = f
<1> DEFINE headers == {h \in Block : LoopsAt(f, h) # {}}
           seq == InOrder(headers)
<1>0. /\ Len(seq) \in Nat
      /\ \A k \in 1 .. Len(seq) : seq[k] \in headers
      /\ headers = {} => Len(seq) = 0
  <2>1. headers \in SUBSET Int /\ IsFiniteSet(headers)
    BY BlocksFinite, FS_Subset
  <2> HIDE DEF headers
  <2>2. seq \in Seq(headers) /\ Len(seq) = Cardinality(headers)
    BY <2>1, InOrderLists
  <2>3. headers = {} => Cardinality(headers) = 0
    BY FS_EmptySet
  <2> HIDE DEF seq
  <2> QED BY <2>2, <2>3
<1>8. f \in Unrolling(f)
  BY DEF Unrolling
<1>14. ASSUME NEW h \in headers PROVE LoopOf(f, LoopAt(f, h))
  <2>1. LoopAt(f, h) \in LoopsAt(f, h)
    BY DEF LoopAt
  <2>2. \A b \in Succ(f, h) : b \in Block
    BY ValidMeans, SuccBlocks
  <2> QED BY <2>1, <2>2, FillLoopTyped DEF LoopsAt
<1> HIDE DEF headers
<1> DEFINE A == Unrolling(f)
           x == f
           n == Len(seq)
           Onward(k, u) == Unroll(u, LoopAt(f, seq[k]))
           Q(it) == it = [k \in 0 .. n |-> IF k = 0 THEN x ELSE Onward(k, it[k - 1])]
<1>1. n \in Nat /\ x \in A
  BY <1>0, <1>8
<1>2. \A k \in 1 .. n : \A u \in A : Onward(k, u) \in A
  BY <1>0, <1>14, UnrollStep
<1>3. \E it : Q(it)
  <2> DEFINE F == [k \in 1 .. n |-> [u \in A |-> Onward(k, u)]]
  <2> HIDE DEF A, x, n, Onward
  <2>1. F \in Steps(A, n)
    BY <1>2 DEF Steps
  <2>2. PICK it \in [0 .. n -> A] : it[0] = x /\ \A k \in 1 .. n : it[k] = F[k][it[k - 1]]
    <3> HIDE DEF F
    <3>1. Runs(A, x, n, F)
      BY <1>1, <2>1, Iterated
    <3> QED BY <3>1 DEF Runs
  <2>3. \A k \in 0 .. n : it[k] = IF k = 0 THEN x ELSE Onward(k, it[k - 1])
    <3>1. \A k \in 1 .. n : it[k - 1] \in A
      BY <1>1
    <3>2. \A k \in 1 .. n : F[k][it[k - 1]] = Onward(k, it[k - 1])
      BY <3>1
    <3> HIDE DEF F
    <3> QED BY <1>1, <2>2, <3>2
  <2>4. Q(it)
    <3> HIDE DEF F
    <3> QED BY <2>2, <2>3, Zenon
  <2> QED BY <2>4
<1> DEFINE it == CHOOSE it : Q(it)
<1>4. Q(it)
  <2> HIDE DEF Q
  <2> QED BY <1>3
<1>5. Unrolled(f, headers) = it[n]
  BY DEF Unrolled, FoldOver
<1> HIDE DEF it
<1>6. it[0] = x /\ \A k \in 1 .. n : it[k] = Onward(k, it[k - 1])
  <2> HIDE DEF A, x, n, Onward
  <2> QED BY <1>1, <1>4
<1>7. \A k \in 0 .. n : it[k] \in A
  <2> HIDE DEF Onward, A, x
  <2>1. it[0] \in A /\ \A k \in 0 .. n - 1 : it[k] \in A => it[k + 1] \in A
    <3>1. \A k \in 0 .. n - 1 : k + 1 \in 1 .. n /\ (k + 1) - 1 = k
      BY <1>1
    <3> QED BY <1>1, <1>2, <1>6, <3>1
  <2> HIDE DEF n
  <2> QED BY <1>1, <2>1, Stays
<1>9. Unrolled(f, headers) \in Valid
  <2>1. Unrolled(f, headers) \in Unrolling(f)
    <3> HIDE DEF seq
    <3> QED BY <1>1, <1>5, <1>7
  <2> QED BY <2>1 DEF Unrolling
<1>10. headers = {} => Unrolled(f, headers) = f
  <2> HIDE DEF seq
  <2> QED BY <1>0, <1>5, <1>6
<1>11. UnrollFillLoops(f) = Result(Unrolled(f, headers), headers # {})
  BY DEF UnrollFillLoops, Unrolled, LoopAt, LoopsAt, headers
<1>12. CASE headers = {}
  <2>1. UnrollFillLoops(f) = Result(f, FALSE)
    BY <1>10, <1>11, <1>12
  <2> QED BY <2>1, ResultParts
<1>13. CASE headers # {}
  <2>1. UnrollFillLoops(f) = Result(Unrolled(f, headers), TRUE)
    BY <1>11, <1>13
  <2>2. UnrollFillLoops(f).ir = Unrolled(f, headers) /\ UnrollFillLoops(f).changed = TRUE
    BY <2>1, ResultParts
  <2> QED BY <1>9, <2>2
<1> QED
  BY <1>12, <1>13
-----------------------------------------------------------------------------
(* The group *)

\* The k-th pass, by its name.
LEMMA Passed ==
    /\ DOMAIN Passes = 1 .. 10
    /\ Len(Passes) = 10
    /\ \A f : /\ RunPass(1, f) = ResolveAliases(f)
              /\ RunPass(2, f) = PruneTrivialPhis(f)
              /\ RunPass(3, f) = PruneDeadParams(f)
              /\ RunPass(4, f) = ThreadTrivialJumps(f)
              /\ RunPass(5, f) = MergeBlockChains(f)
              /\ RunPass(6, f) = SweepDead(f)
              /\ RunPass(7, f) = UnrollFillLoops(f)
              /\ RunPass(8, f) = TrimTrapTails(f)
              /\ RunPass(9, f) = ForwardStores(f)
              /\ RunPass(10, f) = PromoteSlots(f)
<1>1. DOMAIN Passes = 1 .. 10 /\ Len(Passes) = 10
  BY DEF Passes
<1> QED
  BY <1>1 DEF RunPass

\* Every pass keeps a function valid, and says so when it changes it.
LEMMA PassKeeps ==
    ASSUME NEW f \in Valid, NEW k \in 1 .. 10
    PROVE  /\ RunPass(k, f).ir \in Valid
           /\ ~RunPass(k, f).changed => RunPass(k, f).ir = f
<1> DEFINE Keeps(r) == r.ir \in Valid /\ (~r.changed => r.ir = f)
<1>1. /\ Keeps(ResolveAliases(f)) /\ Keeps(PruneTrivialPhis(f)) /\ Keeps(PruneDeadParams(f))
      /\ Keeps(ThreadTrivialJumps(f)) /\ Keeps(MergeBlockChains(f)) /\ Keeps(SweepDead(f))
      /\ Keeps(UnrollFillLoops(f)) /\ Keeps(TrimTrapTails(f)) /\ Keeps(ForwardStores(f))
      /\ Keeps(PromoteSlots(f))
  BY ResolveAliasesKeeps, PruneTrivialPhisKeeps, PruneDeadParamsKeeps,
     ThreadTrivialJumpsKeeps, MergeBlockChainsKeeps, SweepDeadKeeps,
     UnrollFillLoopsKeeps, TrimTrapTailsKeeps, ForwardStoresKeeps, PromoteSlotsKeeps
<1> HIDE DEF Keeps
<1>2. k = 1 \/ k = 2 \/ k = 3 \/ k = 4 \/ k = 5 \/ k = 6 \/ k = 7 \/ k = 8 \/ k = 9 \/ k = 10
  OBVIOUS
<1>3. Keeps(RunPass(k, f))
  BY <1>1, <1>2, Passed
<1> QED
  BY <1>3 DEF Keeps

\* A step of a pass.
PassStep(k) == Invoke(k, RunPass(k, ir))

\* The steps of the group: its start, ten passes, and how an iteration ends.
LEMMA NextSteps ==
    Next <=> \/ Start
             \/ \E k \in 1 .. 10 : PassStep(k)
             \/ NextIteration
             \/ Converge
             \/ Done
<1>1. /\ PassStep(1) <=> RunResolveAliases
      /\ PassStep(2) <=> RunPruneTrivialPhis
      /\ PassStep(3) <=> RunPruneDeadParams
      /\ PassStep(4) <=> RunThreadTrivialJumps
      /\ PassStep(5) <=> RunMergeBlockChains
      /\ PassStep(6) <=> RunSweepDead
      /\ PassStep(7) <=> RunUnrollFillLoops
      /\ PassStep(8) <=> RunTrapTail
      /\ PassStep(9) <=> RunStoreForward
      /\ PassStep(10) <=> RunSlotPromotion
  BY Passed DEF PassStep, RunResolveAliases, RunPruneTrivialPhis, RunPruneDeadParams,
     RunThreadTrivialJumps, RunMergeBlockChains, RunSweepDead, RunUnrollFillLoops,
     RunTrapTail, RunStoreForward, RunSlotPromotion
<1>2. \A k \in 1 .. 10 :
          k = 1 \/ k = 2 \/ k = 3 \/ k = 4 \/ k = 5 \/ k = 6 \/ k = 7 \/ k = 8 \/ k = 9 \/ k = 10
  OBVIOUS
<1>3. /\ 1 \in 1 .. 10 /\ 2 \in 1 .. 10 /\ 3 \in 1 .. 10 /\ 4 \in 1 .. 10 /\ 5 \in 1 .. 10
      /\ 6 \in 1 .. 10 /\ 7 \in 1 .. 10 /\ 8 \in 1 .. 10 /\ 9 \in 1 .. 10 /\ 10 \in 1 .. 10
  OBVIOUS
<1>4. (\E k \in 1 .. 10 : PassStep(k)) <=>
         \/ PassStep(1) \/ PassStep(2) \/ PassStep(3) \/ PassStep(4) \/ PassStep(5)
         \/ PassStep(6) \/ PassStep(7) \/ PassStep(8) \/ PassStep(9) \/ PassStep(10)
  BY <1>2, <1>3, Zenon
<1> QED
  BY <1>1, <1>4 DEF Next

\* The invariant the properties rest on: the function stays valid, and while
\* nothing has changed in an iteration the passes that ran leave it alone.
ValidInv ==
    /\ ir \in Valid
    /\ phase \in Phase
    /\ slot \in 1 .. 11
    /\ anyChanged \in BOOLEAN

\* Pass k leaves f alone, and says so.
Rests(k, f) == ~RunPass(k, f).changed /\ RunPass(k, f).ir = f

\* While nothing has changed in an iteration, the passes that ran rest;
\* where the loop has converged all of them do.
QuietSoFar ==
    /\ phase = "lifted" => slot = 1
    /\ (phase = "group" /\ ~anyChanged)
         => \A k \in 1 .. 10 : k < slot => Rests(k, ir)
    /\ phase = "converged" => \A k \in 1 .. 10 : Rests(k, ir)

\* The lifted function is valid.
LEMMA ValidInit == Init => ValidInv /\ QuietSoFar
<1> SUFFICES ASSUME Init PROVE ValidInv /\ QuietSoFar
  OBVIOUS
<1>1. ir \in Function /\ phase = "lifted" /\ slot = 1 /\ anyChanged = FALSE
  BY DEF Init
<1>2. WellFormed(ir)
  BY <1>1, DeclutterAssumption
<1>3. ir \in Valid
  BY <1>2, ValidMeans DEF WellFormed
<1>4. anyChanged \in BOOLEAN
  BY <1>1
<1>5. ValidInv
  BY <1>1, <1>3, <1>4 DEF ValidInv, Phase
<1>6. QuietSoFar
  BY <1>1, Zenon DEF QuietSoFar
<1> QED
  BY <1>5, <1>6

\* Every step keeps it valid.
LEMMA ValidNext == ValidInv /\ [Next]_vars => ValidInv'
<1> SUFFICES ASSUME ValidInv, [Next]_vars PROVE ValidInv'
  OBVIOUS
<1>1. ir \in Valid /\ phase \in Phase /\ slot \in 1 .. 11 /\ anyChanged \in BOOLEAN
  BY DEF ValidInv
<1>2. CASE Start
  BY <1>1, <1>2 DEF Start, ValidInv, Phase
<1>3. ASSUME NEW k \in 1 .. 10, PassStep(k) PROVE ValidInv'
  <2> DEFINE r == RunPass(k, ir)
  <2>1. r.ir \in Valid
    BY <1>1, PassKeeps
  <2> HIDE DEF r
  <2>2. ir' = r.ir /\ slot' = k + 1 /\ phase' = phase /\ anyChanged' = (anyChanged \/ r.changed)
    BY <1>3 DEF PassStep, Invoke, r
  <2>3. slot' \in 1 .. 11
    BY <2>2
  <2>4. anyChanged' \in BOOLEAN
    BY <2>2
  <2> QED BY <1>1, <2>1, <2>2, <2>3, <2>4 DEF ValidInv
<1>4. CASE NextIteration
  <2>1. ir' = ir /\ phase' = phase /\ slot' = 1 /\ anyChanged' = FALSE
    BY <1>4 DEF NextIteration
  <2>2. anyChanged' \in BOOLEAN
    BY <2>1
  <2> QED BY <1>1, <2>1, <2>2 DEF ValidInv
<1>5. CASE Converge
  BY <1>1, <1>5 DEF Converge, ValidInv, Phase
<1>6. CASE Done \/ UNCHANGED vars
  BY <1>1, <1>6 DEF Done, vars, ValidInv
<1> QED
  BY <1>2, <1>3, <1>4, <1>5, <1>6, NextSteps

\* Every step keeps the account of the passes at rest.
LEMMA QuietNext == ValidInv /\ QuietSoFar /\ [Next]_vars => QuietSoFar'
<1> SUFFICES ASSUME ValidInv, QuietSoFar, [Next]_vars PROVE QuietSoFar'
  OBVIOUS
<1>1. ir \in Valid /\ phase \in Phase /\ slot \in 1 .. 11
  BY DEF ValidInv
<1>2. CASE Start
  <2>1. phase' = "group" /\ slot' = 1
    BY <1>2 DEF Start, QuietSoFar
  <2>2. \A k \in 1 .. 10 : ~(k < slot')
    BY <2>1
  <2> QED BY <2>1, <2>2 DEF QuietSoFar
<1>3. ASSUME NEW k \in 1 .. 10, PassStep(k) PROVE QuietSoFar'
  <2> DEFINE r == RunPass(k, ir)
  <2>1. ~r.changed => r.ir = ir
    BY <1>1, PassKeeps
  <2> HIDE DEF r
  <2>2. /\ phase = "group" /\ slot = k /\ ir' = r.ir /\ slot' = k + 1 /\ phase' = phase
        /\ anyChanged' = (anyChanged \/ r.changed)
    BY <1>3 DEF PassStep, Invoke, r
  <2>3. ASSUME ~anyChanged' PROVE \A j \in 1 .. 10 : j < slot' => Rests(j, ir')
    <3>1. ~anyChanged /\ ~r.changed
      BY <2>2, <2>3
    <3>2. ir' = ir /\ r.ir = ir
      BY <2>1, <2>2, <3>1
    <3>3. \A j \in 1 .. 10 : j < k => Rests(j, ir)
      BY <2>2, <3>1 DEF QuietSoFar
    <3>4. \A j \in 1 .. 10 : j < k + 1 => j < k \/ j = k
      OBVIOUS
    <3>5. Rests(k, ir)
      BY <3>1, <3>2 DEF Rests, r
    <3> QED BY <2>2, <3>2, <3>3, <3>4, <3>5
  <2> QED BY <2>2, <2>3 DEF QuietSoFar
<1>4. CASE NextIteration
  <2>1. slot' = 1 /\ phase' = "group"
    BY <1>4 DEF NextIteration
  <2>2. \A k \in 1 .. 10 : ~(k < slot')
    BY <2>1
  <2> QED BY <2>1, <2>2 DEF QuietSoFar
<1>5. CASE Converge
  <2>1. phase = "group" /\ ~anyChanged /\ slot = 11 /\ phase' = "converged" /\ ir' = ir
    BY <1>5, Passed DEF Converge
  <2>2. \A k \in 1 .. 10 : k < slot
    BY <2>1
  <2>3. \A k \in 1 .. 10 : Rests(k, ir')
    BY <2>1, <2>2 DEF QuietSoFar
  <2> QED BY <2>1, <2>3 DEF QuietSoFar
<1>6. CASE Done \/ UNCHANGED vars
  BY <1>6 DEF Done, vars, QuietSoFar
<1> QED
  BY <1>2, <1>3, <1>4, <1>5, <1>6, NextSteps

\* The inductive invariant.
LEMMA AlwaysValid == Spec => [](ValidInv /\ QuietSoFar)
<1>1. ValidInv /\ QuietSoFar /\ [Next]_vars => (ValidInv /\ QuietSoFar)'
  BY ValidNext, QuietNext
<1> QED
  BY <1>1, ValidInit, PTL DEF Spec

\* The function stays one the post-lift validator accepts (TypeOK).
THEOREM StaysTyped == Spec => []TypeOK
<1>1. ValidInv => TypeOK
  <2>1. ir \in Valid => IdsInArena(ir)
    BY ValidMeans
  <2> QED BY <2>1, Passed DEF ValidInv, TypeOK
<1> QED
  BY <1>1, AlwaysValid, PTL

\* Edges go on carrying one argument per parameter (ArityKept).
THEOREM KeepsArity == Spec => []ArityKept
<1>1. ValidInv => ArityKept
  BY ValidMeans DEF ValidInv, ArityKept
<1> QED
  BY <1>1, AlwaysValid, PTL

\* A pass that changes the function raises the flag (ChangesFlagged).
THEOREM FlagsChanges == Spec => ChangesFlagged
<1> DEFINE Flagged == (phase = "group" /\ slot' = slot + 1 /\ ir' # ir) => anyChanged'
<1>1. ValidInv /\ [Next]_vars => [Flagged]_vars
  <2> SUFFICES ASSUME ValidInv, [Next]_vars, ir' # ir PROVE anyChanged'
    OBVIOUS
  <2>1. PICK k \in 1 .. 10 : PassStep(k)
    BY NextSteps DEF Start, NextIteration, Converge, Done, vars
  <2> DEFINE r == RunPass(k, ir)
  <2>2. ~r.changed => r.ir = ir
    BY PassKeeps DEF ValidInv
  <2> HIDE DEF r
  <2>3. ir' = r.ir /\ anyChanged' = (anyChanged \/ r.changed)
    BY <2>1 DEF PassStep, Invoke, r
  <2> QED BY <2>2, <2>3
<1> QED
  BY <1>1, AlwaysValid, PTL DEF Spec, ChangesFlagged

\* The loop converges only where all ten passes leave the function alone.
LEMMA Fixpoint == ValidInv /\ QuietSoFar /\ Converge => \A k \in 1 .. 10 : RunPass(k, ir).ir = ir
<1> SUFFICES ASSUME QuietSoFar, Converge, NEW k \in 1 .. 10 PROVE Rests(k, ir)
  BY DEF Rests
<1>1. phase = "group" /\ ~anyChanged /\ slot = 11
  BY Passed DEF Converge
<1>2. k < slot
  BY <1>1
<1> QED
  BY <1>1, <1>2 DEF QuietSoFar

\* The initial states are initial states of the loop of pipeline groups.
LEMMA StartMaps == Init => Abstract!Init
<1> SUFFICES ASSUME Init PROVE Abstract!Init
  OBVIOUS
<1>1. ir \in Function /\ phase = "lifted"
  BY DEF Init
<1> QED
  BY <1>1 DEF Abstract!Init

\* The group of the ten passes, as the pipeline has it.
LEMMA GroupIs ==
    LET g == [first |-> 0, end |-> 10]
    IN  /\ g \in [first : {0}, end : 1 .. 10]
        /\ OneGroup.groups[1] = g
        /\ DOMAIN OneGroup.groups = {1}
        /\ \A s \in 0 .. 9 : OneGroup.passes[s + 1] = s + 1
        /\ Len(OneGroup.passes) = 10
<1>1. OneGroup.groups = <<[first |-> 0, end |-> 10]>>
  BY Passed DEF OneGroup
<1>2. OneGroup.passes = [k \in 1 .. 10 |-> k]
  BY Passed DEF OneGroup
<1>3. Len(OneGroup.passes) = 10
  <2> DEFINE s == [k \in 1 .. 10 |-> k]
  <2>1. s \in [1 .. 10 -> Nat]
    OBVIOUS
  <2> HIDE DEF s
  <2>2. Len(s) = 10
    BY <2>1
  <2> QED BY <1>2, <2>2 DEF s
<1>4. \A s \in 0 .. 9 : OneGroup.passes[s + 1] = s + 1
  <2>1. \A s \in 0 .. 9 : s + 1 \in 1 .. 10
    OBVIOUS
  <2> QED BY <1>2, <2>1
<1> QED
  BY <1>1, <1>3, <1>4

\* A step is a step of that loop, or a stutter.
LEMMA StepMaps ==
    ValidInv /\ QuietSoFar /\ [Next]_vars => [Abstract!Next]_(Abstract!vars)
<1> SUFFICES ASSUME ValidInv, QuietSoFar, [Next]_vars
             PROVE  [Abstract!Next]_(Abstract!vars)
  OBVIOUS
<1> DEFINE g == [first |-> 0, end |-> 10]
<1>1. g \in [first : {0}, end : 1 .. Len(OneGroup.passes)] /\ Abstract!IsGroup(g)
  <2>1. 1 \in DOMAIN OneGroup.groups /\ OneGroup.groups[1] = g
    BY GroupIs
  <2> QED BY <2>1, GroupIs DEF Abstract!IsGroup
<1>2. CASE Start
  <2>1. phase = "lifted" /\ phase' = "group" /\ ir' = ir
    BY <1>2 DEF Start
  <2> QED BY <2>1 DEF Abstract!Next, Abstract!Accept
<1>3. ASSUME NEW k \in 1 .. 10, PassStep(k) PROVE Abstract!Next
  <2>1. phase = "group" /\ phase' = phase /\ ir' = RunPass(k, ir).ir
    BY <1>3 DEF PassStep, Invoke
  <2>2. k - 1 \in g.first .. g.end - 1 /\ Abstract!Pass(k - 1) = k
    <3>1. k - 1 \in 0 .. 9 /\ (k - 1) + 1 = k
      OBVIOUS
    <3>2. OneGroup.passes[(k - 1) + 1] = (k - 1) + 1
      BY <3>1, GroupIs
    <3>3. Abstract!Pass(k - 1) = OneGroup.passes[(k - 1) + 1]
      BY DEF Abstract!Pass
    <3> QED BY <3>1, <3>2, <3>3
  <2>3. Abstract!Work
    BY <1>1, <2>1, <2>2 DEF Abstract!Work
  <2> QED BY <2>3 DEF Abstract!Next
<1>4. CASE NextIteration
  <2>1. phase = "group" /\ phase' = phase /\ ir' = ir
    BY <1>4 DEF NextIteration
  <2> QED BY <2>1 DEF Abstract!vars
<1>5. CASE Converge
  <2>1. phase = "group" /\ phase' = "converged" /\ ir' = ir
    BY <1>5 DEF Converge
  <2>2. Abstract!Settled(g)
    <3>1. \A k \in 1 .. 10 : RunPass(k, ir).ir = ir
      BY <1>5, Fixpoint
    <3>2. ASSUME NEW s \in 0 .. 9 PROVE RunPass(Abstract!Pass(s), ir).ir = ir
      <4>1. s + 1 \in 1 .. 10
        OBVIOUS
      <4>2. Abstract!Pass(s) = s + 1
        BY GroupIs DEF Abstract!Pass
      <4> QED BY <3>1, <4>1, <4>2
    <3>3. g.first .. g.end - 1 = 0 .. 9
      OBVIOUS
    <3> QED BY <3>2, <3>3 DEF Abstract!Settled
  <2>3. g.end = Len(Passes)
    BY Passed
  <2>4. Abstract!Converge
    BY <1>1, <2>1, <2>2, <2>3 DEF Abstract!Converge
  <2> QED BY <2>4 DEF Abstract!Next
<1>6. CASE Done \/ UNCHANGED vars
  BY <1>6 DEF Done, vars, Abstract!vars
<1> QED
  BY <1>2, <1>3, <1>4, <1>5, <1>6, NextSteps

\* The loop hands on a fixpoint of all ten passes, reached by these alone
\* (Implements).
THEOREM HandsOnFixpoint == Spec => Implements
BY StartMaps, StepMaps, AlwaysValid, PTL DEF Spec, Implements, Abstract!Spec
-----------------------------------------------------------------------------
(* What a function at rest looks like *)

\* What sweep-dead leaves alone has nothing unreachable in it.
LEMMA NothingToClear ==
    ASSUME NEW f, ~SweepDead(f).changed
    PROVE  \A b \in Block \ Reachable(f) : f.block[b] = Tombstone(<<>>)
<1> DEFINE idle == [b \in Block |-> ToSet(f.block[b].insts) \ Marked(f)]
           swept == {b \in Reachable(f) : idle[b] # {}}
           block == [b \in Block |->
                        CASE b \in ToClear(f) -> Tombstone(<<>>)
                          [] b \in swept -> [f.block[b] EXCEPT !.insts = Unschedule(@, idle[b])]
                          [] OTHER -> f.block[b]]
           g == [f EXCEPT !.block = block]
<1>1. SweepDead(f) = Result(g, ToClear(f) # {} \/ swept # {})
  BY DEF SweepDead
<1>2. ToClear(f) = {}
  <2> HIDE DEF g, swept
  <2> QED BY <1>1, ResultParts
<1> QED
  BY <1>2 DEF ToClear

\* What is read apart from the slots in P, part by part.
LEMMA ReadApart ==
    ASSUME NEW f, NEW P
    PROVE  /\ \A v \in UNION {ToSet(f.block[b].insts) : b \in Reachable(f)} :
                 DefReads(f.def[v]) \subseteq ReadApartFrom(f, P)
           /\ \A b \in Reachable(f) : ToSet(f.block[b].exit.reads) \subseteq ReadApartFrom(f, P)
           /\ \A t \in UNION {ToSet(f.block[b].exit.targets) : b \in Reachable(f)} :
                 \A j \in DOMAIN t.args :
                    <<t.block, j>> \notin P => t.args[j] \in ReadApartFrom(f, P)
<1> DEFINE scheduled == UNION {ToSet(f.block[b].insts) : b \in Reachable(f)}
           targets == UNION {ToSet(f.block[b].exit.targets) : b \in Reachable(f)}
           kept(t) == {i \in DOMAIN t.args : <<t.block, i>> \notin P}
           A == {DefReads(f.def[v]) : v \in scheduled}
           B == {ToSet(f.block[b].exit.reads) : b \in Reachable(f)}
           C == {{t.args[i] : i \in kept(t)} : t \in targets}
<1>1. ReadApartFrom(f, P) = UNION (A \cup B \cup C)
  BY DEF ReadApartFrom
<1>2. \A S \in A \cup B \cup C : S \subseteq ReadApartFrom(f, P)
  <2> HIDE DEF A, B, C
  <2> QED BY <1>1
<1>3. \A v \in scheduled : DefReads(f.def[v]) \in A
  <2> HIDE DEF scheduled
  <2> QED OBVIOUS
<1>4. \A b \in Reachable(f) : ToSet(f.block[b].exit.reads) \in B
  OBVIOUS
<1>5. ASSUME NEW t \in targets, NEW j \in DOMAIN t.args, <<t.block, j>> \notin P
      PROVE  t.args[j] \in ReadApartFrom(f, P)
  <2>1. {t.args[i] : i \in kept(t)} \in C
    <3> HIDE DEF targets, kept
    <3> QED OBVIOUS
  <2>2. j \in kept(t)
    BY <1>5
  <2> HIDE DEF C, targets, kept
  <2> QED BY <1>2, <2>1, <2>2
<1> HIDE DEF A, B, C, scheduled, targets
<1>6. \A v \in scheduled : DefReads(f.def[v]) \subseteq ReadApartFrom(f, P)
  BY <1>2, <1>3
<1>7. \A b \in Reachable(f) : ToSet(f.block[b].exit.reads) \subseteq ReadApartFrom(f, P)
  BY <1>2, <1>4
<1> QED
  BY <1>5, <1>6, <1>7 DEF scheduled, targets

\* A parameter nobody reads apart from its own slot is not read directly.
LEMMA DirectlyApart ==
    ASSUME NEW f, NEW P \in SUBSET Slots(f)
    PROVE  ReadDirectly(f) \subseteq ReadApartFrom(f, P)
<1> DEFINE scheduled == UNION {ToSet(f.block[b].insts) : b \in Reachable(f)}
           targets == UNION {ToSet(f.block[b].exit.targets) : b \in Reachable(f)}
           byValues == UNION {DefReads(f.def[v]) : v \in scheduled}
           byExits == UNION {ToSet(f.block[b].exit.reads) : b \in Reachable(f)}
           others(t) == {j \in DOMAIN t.args : <<t.block, j>> \notin Slots(f)}
           byArgs == UNION {{t.args[i] : i \in others(t)} : t \in targets}
<1>1. ReadDirectly(f) = byValues \cup byExits \cup byArgs
  BY DEF ReadDirectly
<1>2. \A v \in scheduled : DefReads(f.def[v]) \subseteq ReadApartFrom(f, P)
  BY ReadApart
<1>3. \A b \in Reachable(f) : ToSet(f.block[b].exit.reads) \subseteq ReadApartFrom(f, P)
  BY ReadApart
<1>4. \A t \in targets : \A j \in others(t) : t.args[j] \in ReadApartFrom(f, P)
  BY ReadApart
<1> HIDE DEF scheduled, targets, others
<1>5. byValues \subseteq ReadApartFrom(f, P)
  BY <1>2
<1>6. byExits \subseteq ReadApartFrom(f, P)
  BY <1>3
<1>7. byArgs \subseteq ReadApartFrom(f, P)
  BY <1>4
<1> HIDE DEF byValues, byExits, byArgs
<1> QED
  BY <1>1, <1>5, <1>6, <1>7

\* What a path reads is read apart from the slots it does not belong to.
LEMMA UnreadStays ==
    ASSUME NEW f \in Valid, NEW P \in SUBSET Slots(f),
           \A s \in P : ParamAt(f, s) \notin ReadApartFrom(f, P),
           NEW live \in SUBSET (Slots(f) \ P)
    PROVE  live \cup UNION {Feeders(f, s) : s \in live} \in SUBSET (Slots(f) \ P)
<1>1. ASSUME NEW s \in live, NEW r \in Feeders(f, s), r \in P PROVE FALSE
  <2>1. PICK e \in LiveInEdges(f, s[1]) : ParamAt(f, r) = EdgeArgs(f, e)[s[2]]
    BY DEF Feeders
  <2>2. e \in InEdges(f, s[1]) /\ e[1] \in Reachable(f)
    BY DEF LiveInEdges
  <2>3. s \in Slots(f) /\ s \notin P
    OBVIOUS
  <2>4. s[1] \in Block /\ s[2] \in DOMAIN f.block[s[1]].params /\ s = <<s[1], s[2]>>
    BY <2>3, SlotPlaces
  <2>11. PICK p \in Block : \E i \in DOMAIN f.block[p].exit.targets :
             e = <<p, i>> /\ f.block[p].exit.targets[i].block = s[1]
    BY <2>2, InEdgesAre
  <2>5. PICK i \in DOMAIN f.block[p].exit.targets :
            e = <<p, i>> /\ f.block[p].exit.targets[i].block = s[1]
    BY <2>11
  <2> DEFINE t == f.block[p].exit.targets[i]
  <2>6. p \in Reachable(f) /\ EdgeArgs(f, e) = t.args /\ t.block = s[1]
    BY <2>2, <2>5 DEF EdgeArgs
  <2>7. s[2] \in DOMAIN t.args
    <3>1. EdgeArgs(f, e) \in Seq(Arena(f)) /\ Len(EdgeArgs(f, e)) = Len(f.block[s[1]].params)
      BY <2>2, <2>4, ArgTyped
    <3>2. f.block[s[1]].params \in Seq(Arena(f))
      BY <2>4, ValidBlock
    <3> HIDE DEF t
    <3> QED BY <2>4, <2>6, <3>1, <3>2
  <2>8. t \in UNION {ToSet(f.block[b].exit.targets) : b \in Reachable(f)}
    <3>1. t \in ToSet(f.block[p].exit.targets)
      BY Indices
    <3> HIDE DEF t
    <3> QED BY <2>6, <3>1
  <2>9. <<t.block, s[2]>> \notin P
    <3>1. <<t.block, s[2]>> = s
      BY <2>4, <2>6
    <3> QED BY <2>3, <3>1
  <2> HIDE DEF t
  <2>10. t.args[s[2]] \in ReadApartFrom(f, P)
    BY <2>7, <2>8, <2>9, ReadApart
  <2> QED BY <1>1, <2>1, <2>6, <2>10
<1>2. \A s \in live : Feeders(f, s) \subseteq Slots(f)
  BY DEF Feeders
<1> QED
  BY <1>1, <1>2

\* What prune-dead-params leaves alone has no parameters that feed only
\* themselves.
LEMMA NothingUnread ==
    ASSUME NEW f \in Valid, ~PruneDeadParams(f).changed
    PROVE  NoUnreadParams(f)
<1> SUFFICES ASSUME NEW P \in SUBSET Slots(f), P # {},
                    \A s \in P : ParamAt(f, s) \notin ReadApartFrom(f, P)
             PROVE  FALSE
  BY DEF NoUnreadParams
<1> DEFINE roots == {s \in Slots(f) : ParamAt(f, s) \in ReadDirectly(f)}
<1>0. roots \in SUBSET (Slots(f) \ P)
  <2>1. ReadDirectly(f) \subseteq ReadApartFrom(f, P)
    BY DirectlyApart
  <2> QED BY <2>1
<1> HIDE DEF roots
<1> DEFINE A == SUBSET (Slots(f) \ P)
           x == roots
           n == Cardinality(Slots(f))
           Onward(u) == u \cup UNION {Feeders(f, s) : s \in u}
           Q(it) == it = [k \in 0 .. n |-> IF k = 0 THEN x ELSE Onward(it[k - 1])]
<1>1. n \in Nat /\ x \in A
  BY <1>0, SlotsFinite
<1>2. \A k \in 1 .. n : \A u \in A : Onward(u) \in A
  BY UnreadStays
<1>3. \E it : Q(it)
  <2> DEFINE F == [k \in 1 .. n |-> [u \in A |-> Onward(u)]]
  <2> HIDE DEF A, x, n, Onward
  <2>1. F \in Steps(A, n)
    BY <1>2 DEF Steps
  <2>2. PICK it \in [0 .. n -> A] : it[0] = x /\ \A k \in 1 .. n : it[k] = F[k][it[k - 1]]
    <3> HIDE DEF F
    <3>1. Runs(A, x, n, F)
      BY <1>1, <2>1, Iterated
    <3> QED BY <3>1 DEF Runs
  <2>3. \A k \in 0 .. n : it[k] = IF k = 0 THEN x ELSE Onward(it[k - 1])
    <3>1. \A k \in 1 .. n : it[k - 1] \in A
      BY <1>1
    <3>2. \A k \in 1 .. n : F[k][it[k - 1]] = Onward(it[k - 1])
      BY <3>1
    <3> HIDE DEF F
    <3> QED BY <1>1, <2>2, <3>2
  <2>4. Q(it)
    <3> HIDE DEF F
    <3> QED BY <2>2, <2>3, Zenon
  <2> QED BY <2>4
<1> DEFINE it == CHOOSE it : Q(it)
<1>4. Q(it)
  <2> HIDE DEF Q
  <2> QED BY <1>3
<1>5. LiveSlots(f) = it[n]
  BY DEF LiveSlots, Iterate, roots
<1> HIDE DEF it
<1>6. it[0] = x /\ \A k \in 1 .. n : it[k] = Onward(it[k - 1])
  <2> HIDE DEF A, x, n, Onward
  <2> QED BY <1>1, <1>4
<1>7. \A k \in 0 .. n : it[k] \in A
  <2> HIDE DEF Onward, A, x
  <2>1. it[0] \in A /\ \A k \in 0 .. n - 1 : it[k] \in A => it[k + 1] \in A
    <3>1. \A k \in 0 .. n - 1 : k + 1 \in 1 .. n /\ (k + 1) - 1 = k
      BY <1>1
    <3> QED BY <1>1, <1>2, <1>6, <3>1
  <2> HIDE DEF n
  <2> QED BY <1>1, <2>1, Stays
<1>8. LiveSlots(f) \in SUBSET (Slots(f) \ P)
  BY <1>1, <1>5, <1>7
<1> DEFINE dead == {ParamAt(f, s) : s \in Slots(f) \ LiveSlots(f)}
<1>9. PruneDeadParams(f) = IF dead = {} THEN Result(f, FALSE)
                           ELSE Result(DropParams(f, dead), TRUE)
  BY DEF PruneDeadParams
<1>10. dead # {}
  BY <1>8
<1> HIDE DEF dead
<1> QED
  BY <1>9, <1>10, ResultParts

\* What thread-jumps leaves alone has no edge it can chase any further.
LEMMA NothingToThread ==
    ASSUME NEW f \in Valid, ~ThreadTrivialJumps(f).changed, NEW b \in Block,
           NEW i \in DOMAIN f.block[b].exit.targets
    PROVE  Chase(f, f.block[b].exit.targets[i]) = f.block[b].exit.targets[i]
<1> DEFINE threaded == [c \in Block |-> Threaded(f, c)]
           inlined == [c \in Block |-> InlineExit(f, threaded[c])]
           jumped == {c \in Block : threaded[c].targets # f.block[c].exit.targets}
           ended == {c \in Block : inlined[c].kind # threaded[c].kind}
           g == [f EXCEPT !.block = [c \in Block |-> [f.block[c] EXCEPT !.exit = inlined[c]]]]
<1>1. ThreadTrivialJumps(f) = Result(g, jumped \cup ended # {})
  BY DEF ThreadTrivialJumps, Map, Threaded
<1>2. b \notin jumped
  <2> HIDE DEF g, jumped, ended
  <2> QED BY <1>1, ResultParts
<1>3. Threaded(f, b).targets = f.block[b].exit.targets
  BY <1>2
<1>4. Threaded(f, b).targets = [j \in DOMAIN f.block[b].exit.targets |->
                                   Chase(f, f.block[b].exit.targets[j])]
  BY ThreadedFits
<1>5. Threaded(f, b).targets[i] = Chase(f, f.block[b].exit.targets[i])
  BY <1>4
<1> QED
  BY <1>3, <1>5

\* A route of n forwarders from a to b.
Route(f, n, a, b) ==
    \E ring \in [0 .. n -> Block] :
        /\ ring[0] = a
        /\ ring[n] = b
        /\ \A i \in 0 .. n - 1 :
              Forwards(f, ring[i]) /\ ring[i + 1] = Successor(f, ring[i])

\* A route followed one block further is a route.
LEMMA RouteGrows ==
    ASSUME NEW f, NEW a \in Block, NEW b \in Block, NEW n \in Nat, Route(f, n, a, b),
           Forwards(f, b), NEW c \in Block, c = Successor(f, b)
    PROVE  Route(f, n + 1, a, c)
<1>1. PICK ring \in [0 .. n -> Block] :
          /\ ring[0] = a
          /\ ring[n] = b
          /\ \A i \in 0 .. n - 1 :
                Forwards(f, ring[i]) /\ ring[i + 1] = Successor(f, ring[i])
  BY DEF Route
<1> DEFINE new == [i \in 0 .. n + 1 |-> IF i <= n THEN ring[i] ELSE c]
<1>2. new \in [0 .. n + 1 -> Block]
  OBVIOUS
<1>3. /\ \A i \in 0 .. n : new[i] = ring[i]
      /\ new[n + 1] = c
  OBVIOUS
<1> HIDE DEF new
<1>4. ASSUME NEW i \in 0 .. n PROVE Forwards(f, new[i]) /\ new[i + 1] = Successor(f, new[i])
  <2>1. CASE i = n
    BY <1>1, <1>3, <2>1
  <2>2. CASE i # n
    <3>1. i \in 0 .. n - 1 /\ i + 1 \in 0 .. n
      BY <2>2
    <3> QED BY <1>1, <1>3, <3>1
  <2> QED BY <2>1, <2>2
<1>5. new[0] = a /\ (n + 1) - 1 = n
  BY <1>1, <1>3
<1> QED
  BY <1>2, <1>3, <1>4, <1>5 DEF Route

\* Where a chase from a may be after up to k hops: there is a route.
Routed(f, a, k, c) ==
    \E m \in 0 .. k : Route(f, m, a, c.at.block) /\ (k > 0 => m > 0)

\* A hop stays where it is or follows a forwarder.
LEMMA HopEither ==
    ASSUME NEW f, NEW c, Hop(f, c).at.block # c.at.block
    PROVE  Forwards(f, c.at.block) /\ Hop(f, c).at.block = Successor(f, c.at.block)
<1> DEFINE b == c.at.block
           params == f.block[b].params
           next == f.block[b].exit.targets[1]
           onward == Target(next.block,
                            Map(next.args, LAMBDA v : Substitute(params, c.at.args, v)))
<1>1. CASE ~c.stopped /\ b \notin c.visited /\ Forwards(f, b)
           /\ Len(params) = Len(c.at.args) /\ next.block # b
  <2>1. Hop(f, c) = [c EXCEPT !.visited = @ \cup {b}, !.at = onward]
    BY <1>1 DEF Hop
  <2>2. onward.block = Successor(f, b)
    BY DEF Target, Successor
  <2> HIDE DEF onward
  <2>3. Hop(f, c).at = onward \/ Hop(f, c).at = c.at
    BY <2>1
  <2>4. Hop(f, c).at = onward
    BY <2>3
  <2> QED BY <1>1, <2>2, <2>4
<1>2. CASE ~(~c.stopped /\ b \notin c.visited /\ Forwards(f, b)
             /\ Len(params) = Len(c.at.args) /\ next.block # b)
  <2>1. Hop(f, c) = [c EXCEPT !.stopped = TRUE]
    BY <1>2 DEF Hop
  <2> QED BY <2>1
<1> QED
  BY <1>1, <1>2

\* A hop follows the route.
LEMMA HopRoutes ==
    ASSUME NEW f \in Valid, NEW c \in Chases(f), NEW a \in Block, NEW k \in Nat,
           Routed(f, a, k, c), k > 0
    PROVE  Routed(f, a, k + 1, Hop(f, c))
<1>1. PICK m \in 0 .. k : Route(f, m, a, c.at.block) /\ m > 0
  BY DEF Routed
<1>2. c.at.block \in Block
  <2>1. c.at \in Fitting(f)
    BY DEF Chases
  <2> QED BY <2>1, FittingParts
<1>3. CASE Hop(f, c).at.block = c.at.block
  <2>1. m \in 0 .. k + 1
    OBVIOUS
  <2> QED BY <1>1, <1>3, <2>1 DEF Routed
<1>4. CASE Hop(f, c).at.block # c.at.block
  <2>1. Forwards(f, c.at.block) /\ Hop(f, c).at.block = Successor(f, c.at.block)
    BY <1>4, HopEither
  <2>2. Hop(f, c).at.block \in Block
    <3>1. Hop(f, c).at \in Fitting(f)
      BY HopTyped DEF Chases
    <3> QED BY <3>1, FittingParts
  <2>3. Route(f, m + 1, a, Hop(f, c).at.block)
    BY <1>1, <1>2, <2>1, <2>2, RouteGrows
  <2>4. m + 1 \in 0 .. k + 1 /\ m + 1 > 0
    BY <1>1
  <2> QED BY <2>3, <2>4 DEF Routed
<1> QED
  BY <1>3, <1>4

\* When a chase moves on.
LEMMA HopMoves ==
    ASSUME NEW f, NEW c, c = [at |-> c.at, visited |-> c.visited, stopped |-> c.stopped],
           ~c.stopped, c.at.block \notin c.visited,
           Forwards(f, c.at.block), Len(f.block[c.at.block].params) = Len(c.at.args),
           Successor(f, c.at.block) # c.at.block
    PROVE  Hop(f, c).at.block = Successor(f, c.at.block)
<1> DEFINE b == c.at.block
           params == f.block[b].params
           next == f.block[b].exit.targets[1]
           onward == Target(next.block,
                            Map(next.args, LAMBDA v : Substitute(params, c.at.args, v)))
<1>1. next.block # b
  BY DEF Successor
<1>2. Hop(f, c) = [c EXCEPT !.visited = @ \cup {b}, !.at = onward]
  BY <1>1 DEF Hop
<1>3. onward.block = Successor(f, b)
  BY DEF Target, Successor
<1>4. Hop(f, c).at = onward
  <2> HIDE DEF onward
  <2> QED BY <1>2
<1> QED
  BY <1>3, <1>4

\* The first hop over a forwarder without parameters that does not name itself.
LEMMA FirstHop ==
    ASSUME NEW f \in Valid, NEW t \in Fitting(f), Forwards(f, t.block),
           f.block[t.block].params = <<>>, Successor(f, t.block) # t.block
    PROVE  Routed(f, t.block, 1, Hop(f, [at |-> t, visited |-> {}, stopped |-> FALSE]))
<1> DEFINE c == [at |-> t, visited |-> {}, stopped |-> FALSE]
           a == t.block
<1>1. a \in Block /\ t.args \in Seq(Arena(f)) /\ Len(t.args) = Len(f.block[a].params)
  BY FittingParts
<1>2. /\ c.at = t /\ ~c.stopped /\ c.visited = {}
      /\ Len(f.block[a].params) = Len(t.args)
      /\ c = [at |-> c.at, visited |-> c.visited, stopped |-> c.stopped]
  BY <1>1
<1>3. Hop(f, c).at.block = Successor(f, a)
  <2> HIDE DEF c
  <2> QED BY <1>2, HopMoves
<1>4. Successor(f, a) \in Block
  <2>1. Hop(f, c).at \in Fitting(f)
    <3>1. c \in Chases(f)
      BY DEF Chases
    <3> HIDE DEF c
    <3>2. Hop(f, c) \in Chases(f)
      BY <3>1, HopTyped
    <3> QED BY <3>2 DEF Chases
  <2> HIDE DEF c
  <2> QED BY <1>3, <2>1, FittingParts
<1>5. Route(f, 0, a, a)
  <2> DEFINE ring == [i \in 0 .. 0 |-> a]
  <2>1. ring \in [0 .. 0 -> Block] /\ ring[0] = a /\ 0 .. 0 - 1 = {}
    BY <1>1
  <2> HIDE DEF ring
  <2> QED BY <2>1 DEF Route
<1>6. Route(f, 0 + 1, a, Successor(f, a))
  BY <1>1, <1>4, <1>5, RouteGrows
<1>7. 1 \in 0 .. 1 /\ 0 + 1 = 1 /\ 1 > 0
  OBVIOUS
<1> HIDE DEF c
<1>8. Routed(f, a, 1, Hop(f, c))
  BY <1>3, <1>6, <1>7 DEF Routed
<1> QED
  BY <1>8 DEF c

\* Where a chase ends, a route leads.
LEMMA ChaseRoutes ==
    ASSUME NEW f \in Valid, NEW t \in Fitting(f), Forwards(f, t.block),
           f.block[t.block].params = <<>>, Successor(f, t.block) # t.block
    PROVE  Routed(f, t.block, MaxHops, [at |-> Chase(f, t)])
<1>0. [at |-> t, visited |-> {}, stopped |-> FALSE] \in Chases(f)
  BY DEF Chases
<1> DEFINE A == Chases(f)
           x == [at |-> t, visited |-> {}, stopped |-> FALSE]
           n == MaxHops
           Onward(u) == Hop(f, u)
           Q(it) == it = [k \in 0 .. n |-> IF k = 0 THEN x ELSE Onward(it[k - 1])]
<1>1. n \in Nat /\ x \in A
  BY <1>0, DeclutterPassesAssumption
<1>2. \A k \in 1 .. n : \A u \in A : Onward(u) \in A
  BY HopTyped
<1>3. \E it : Q(it)
  <2> DEFINE F == [k \in 1 .. n |-> [u \in A |-> Onward(u)]]
  <2> HIDE DEF A, x, n, Onward
  <2>1. F \in Steps(A, n)
    BY <1>2 DEF Steps
  <2>2. PICK it \in [0 .. n -> A] : it[0] = x /\ \A k \in 1 .. n : it[k] = F[k][it[k - 1]]
    <3> HIDE DEF F
    <3>1. Runs(A, x, n, F)
      BY <1>1, <2>1, Iterated
    <3> QED BY <3>1 DEF Runs
  <2>3. \A k \in 0 .. n : it[k] = IF k = 0 THEN x ELSE Onward(it[k - 1])
    <3>1. \A k \in 1 .. n : it[k - 1] \in A
      BY <1>1
    <3>2. \A k \in 1 .. n : F[k][it[k - 1]] = Onward(it[k - 1])
      BY <3>1
    <3> HIDE DEF F
    <3> QED BY <1>1, <2>2, <3>2
  <2>4. Q(it)
    <3> HIDE DEF F
    <3> QED BY <2>2, <2>3, Zenon
  <2> QED BY <2>4
<1> DEFINE it == CHOOSE it : Q(it)
<1>4. Q(it)
  <2> HIDE DEF Q
  <2> QED BY <1>3
<1>5. Chased(f, t) = it[n]
  BY DEF Chased, Iterate
<1> HIDE DEF it
<1>6. it[0] = x /\ \A k \in 1 .. n : it[k] = Onward(it[k - 1])
  <2> HIDE DEF A, x, n, Onward
  <2> QED BY <1>1, <1>4
<1>7. \A k \in 0 .. n : it[k] \in A
  <2> HIDE DEF Onward, A, x
  <2>1. it[0] \in A /\ \A k \in 0 .. n - 1 : it[k] \in A => it[k + 1] \in A
    <3>1. \A k \in 0 .. n - 1 : k + 1 \in 1 .. n /\ (k + 1) - 1 = k
      BY <1>1
    <3> QED BY <1>1, <1>2, <1>6, <3>1
  <2> HIDE DEF n
  <2> QED BY <1>1, <2>1, Stays
<1>8. n \in Nat \ {0}
  BY DeclutterPassesAssumption
<1>9. Routed(f, t.block, 1, it[1])
  <2>1. 1 \in 1 .. n /\ 1 - 1 = 0
    BY <1>8
  <2>2. it[1] = Hop(f, it[0]) /\ it[0] = [at |-> t, visited |-> {}, stopped |-> FALSE]
    BY <1>6, <2>1
  <2> HIDE DEF x, n, A, Onward
  <2> QED BY <2>2, FirstHop
<1> DEFINE T == {k \in 0 .. n - 1 : Routed(f, t.block, k + 1, it[k + 1])}
<1>10. 0 \in T
  <2>1. 0 \in 0 .. n - 1 /\ 0 + 1 = 1
    BY <1>8
  <2> HIDE DEF n
  <2> QED BY <1>9, <2>1
<1>11. ASSUME NEW k \in 0 .. (n - 1) - 1, k \in T PROVE k + 1 \in T
  <2>1. k + 1 \in 1 .. n /\ k + 1 \in 0 .. n /\ (k + 1) + 1 \in 1 .. n /\ k + 1 \in 0 .. n - 1
        /\ ((k + 1) + 1) - 1 = k + 1 /\ k + 1 \in Nat /\ k + 1 > 0
    BY <1>8
  <2>2. it[(k + 1) + 1] = Hop(f, it[k + 1]) /\ it[k + 1] \in Chases(f)
    BY <1>6, <1>7, <2>1
  <2>3. Routed(f, t.block, k + 1, it[k + 1])
    BY <1>11
  <2>4. t.block \in Block
    BY FittingParts
  <2> HIDE DEF x, n, A, Onward
  <2>5. Routed(f, t.block, (k + 1) + 1, Hop(f, it[k + 1]))
    BY <2>1, <2>2, <2>3, <2>4, HopRoutes
  <2> QED BY <2>1, <2>2, <2>5
<1>12. Routed(f, t.block, n, it[n])
  <2>1. n - 1 \in Nat /\ n - 1 \in 0 .. n - 1 /\ (n - 1) + 1 = n
    BY <1>8
  <2> HIDE DEF T, n
  <2>2. \A k \in 0 .. n - 1 : k \in T
    BY <1>10, <1>11, <2>1, Induct
  <2>3. Routed(f, t.block, (n - 1) + 1, it[(n - 1) + 1])
    BY <2>1, <2>2 DEF T
  <2> QED BY <2>1, <2>3
<1>13. Chase(f, t) = it[n].at
  BY <1>5 DEF Chase, Chased
<1> HIDE DEF x, A, Onward
<1> QED
  BY <1>12, <1>13 DEF Routed

\* A chase that comes back to a forwarder without parameters went round a ring.
LEMMA ChaseOfRing ==
    ASSUME NEW f \in Valid, NEW t \in Fitting(f), Chase(f, t) = t,
           Forwards(f, t.block), f.block[t.block].params = <<>>
    PROVE  OnRing(f, t.block)
<1> DEFINE a == t.block
<1>8. a \in Block /\ t.args \in Seq(Arena(f)) /\ Len(t.args) = Len(f.block[a].params)
  BY FittingParts
<1>9. MaxHops \in Nat \ {0}
  BY DeclutterPassesAssumption
<1>10. CASE Successor(f, a) = a
  <2> DEFINE ring == [i \in 0 .. 1 |-> a]
  <2>1. ring \in [0 .. 1 -> Block] /\ ring[0] = a /\ ring[1] = a
    BY <1>8
  <2>2. \A i \in 0 .. 1 - 1 : ring[i] = a /\ ring[i + 1] = a
    OBVIOUS
  <2>3. 1 \in 1 .. MaxHops
    BY <1>9
  <2> HIDE DEF ring
  <2> QED BY <1>10, <2>1, <2>2, <2>3 DEF OnRing
<1>11. CASE Successor(f, a) # a
  <2>1. Routed(f, a, MaxHops, [at |-> Chase(f, t)])
    BY <1>11, ChaseRoutes
  <2>2. PICK m \in 0 .. MaxHops : Route(f, m, a, a) /\ m > 0
    BY <1>9, <2>1 DEF Routed
  <2>3. m \in 1 .. MaxHops
    BY <2>2
  <2> QED BY <2>2, <2>3 DEF Route, OnRing
<1> QED
  BY <1>10, <1>11

\* What the loop converges to has no code out of reach, no parameters that feed
\* only one another, and no edge to a block that only jumps on but on a ring of
\* such blocks (Swept).
THEOREM SweptClean == Spec => []Swept
<1>1. ValidInv /\ QuietSoFar => Swept
  <2> SUFFICES ASSUME ValidInv, QuietSoFar, phase = "converged"
               PROVE  /\ \A b \in Block \ Reachable(ir) : ir.block[b] = Tombstone(<<>>)
                      /\ NoUnreadParams(ir)
                      /\ \A b \in Block :
                            InEdges(ir, b) # {} /\ Forwards(ir, b) /\ ir.block[b].params = <<>>
                              => OnRing(ir, b)
    BY DEF Swept
  <2>1. ir \in Valid
    BY DEF ValidInv
  <2>2. \A k \in 1 .. 10 : ~RunPass(k, ir).changed
    BY DEF QuietSoFar, Rests
  <2>3. ~PruneDeadParams(ir).changed /\ ~ThreadTrivialJumps(ir).changed /\ ~SweepDead(ir).changed
    <3>1. 3 \in 1 .. 10 /\ 4 \in 1 .. 10 /\ 6 \in 1 .. 10
      OBVIOUS
    <3> QED BY <2>2, <3>1, Passed
  <2>4. ASSUME NEW b \in Block, InEdges(ir, b) # {}, Forwards(ir, b), ir.block[b].params = <<>>
        PROVE  OnRing(ir, b)
    <3>1. PICK p \in Block : \E i \in DOMAIN ir.block[p].exit.targets :
              ir.block[p].exit.targets[i].block = b
      BY <2>4, InEdgesAre
    <3>2. PICK i \in DOMAIN ir.block[p].exit.targets : ir.block[p].exit.targets[i].block = b
      BY <3>1
    <3> DEFINE t == ir.block[p].exit.targets[i]
    <3>3. t \in Fitting(ir)
      <4>1. ir.block[p].exit \in Terminators(Arena(ir)) /\ Fits(ir.block, ir.block[p].exit)
        BY <2>1, ValidBlock
      <4> QED BY <4>1, FittingTargets
    <3>4. Chase(ir, t) = t
      BY <2>1, <2>3, NothingToThread
    <3>5. t.block = b
      BY <3>2
    <3> HIDE DEF t
    <3> QED BY <2>1, <2>4, <3>3, <3>4, <3>5, ChaseOfRing
  <2> QED BY <2>1, <2>3, <2>4, NothingToClear, NothingUnread
<1> QED
  BY <1>1, AlwaysValid, PTL
-----------------------------------------------------------------------------
(* What a function at rest looks like: its edges and aliases *)

\* A run that gets into B at some step, and never leaves it, ends there.
LEMMA StaysFrom ==
    ASSUME NEW n \in Nat, NEW j \in 1 .. n, NEW it, NEW B, it[j] \in B,
           \A k \in j .. n - 1 : it[k] \in B => it[k + 1] \in B
    PROVE  it[n] \in B
<1> DEFINE T == {k \in 0 .. n - j : it[k + j] \in B}
<1>1. 0 \in T
  <2>1. 0 + j = j /\ 0 \in 0 .. n - j
    OBVIOUS
  <2> QED BY <2>1
<1>2. ASSUME NEW k \in 0 .. (n - j) - 1, k \in T PROVE k + 1 \in T
  <2>1. k + j \in j .. n - 1 /\ (k + 1) + j = (k + j) + 1 /\ k + 1 \in 0 .. n - j
    OBVIOUS
  <2>2. it[k + j] \in B
    BY <1>2
  <2> QED BY <2>1, <2>2
<1>3. n - j \in Nat /\ n - j \in 0 .. n - j /\ (n - j) + j = n
  OBVIOUS
<1> HIDE DEF T
<1>4. n - j \in T
  BY <1>1, <1>2, <1>3, Induct
<1> QED
  BY <1>3, <1>4 DEF T

-----------------------------------------------------------------------------
(* prune-trivial-phis *)

\* The parents under which some parameter is trivial.
Unifying(f) == {m \in Parents(f) : \E v \in Arena(f) : m[v] # v}

\* All edges into b that count are one, and it passes something else for b's
\* i-th parameter.
Trivial(f, b, i, e) ==
    /\ b \in Reachable(f) \ {Entry}
    /\ b \in Block
    /\ InEdges(f, b) = {e}
    /\ e[1] \in Reachable(f)
    /\ i \in DOMAIN f.block[b].params
    /\ EdgeArgs(f, e)[i] # f.block[b].params[i]

\* Where nothing is replaced yet a value is its own replacement.
LEMMA ResolveOwn ==
    ASSUME NEW V, NEW parent, Len(parent) \in Nat, NEW v \in V, \A u \in V : parent[u] = u
    PROVE  Resolve(parent, v) = v
<1> DEFINE A == {v}
           x == v
           n == Len(parent)
           Onward(u) == parent[u]
           Q(it) == it = [k \in 0 .. n |-> IF k = 0 THEN x ELSE Onward(it[k - 1])]
<1>1. n \in Nat /\ x \in A
  OBVIOUS
<1>2. \A k \in 1 .. n : \A u \in A : Onward(u) \in A
  OBVIOUS
<1>3. \E it : Q(it)
  <2> DEFINE F == [k \in 1 .. n |-> [u \in A |-> Onward(u)]]
  <2> HIDE DEF A, x, n, Onward
  <2>1. F \in Steps(A, n)
    BY <1>2 DEF Steps
  <2>2. PICK it \in [0 .. n -> A] : it[0] = x /\ \A k \in 1 .. n : it[k] = F[k][it[k - 1]]
    <3> HIDE DEF F
    <3>1. Runs(A, x, n, F)
      BY <1>1, <2>1, Iterated
    <3> QED BY <3>1 DEF Runs
  <2>3. \A k \in 0 .. n : it[k] = IF k = 0 THEN x ELSE Onward(it[k - 1])
    <3>1. \A k \in 1 .. n : it[k - 1] \in A
      BY <1>1
    <3>2. \A k \in 1 .. n : F[k][it[k - 1]] = Onward(it[k - 1])
      BY <3>1
    <3> HIDE DEF F
    <3> QED BY <1>1, <2>2, <3>2
  <2>4. Q(it)
    <3> HIDE DEF F
    <3> QED BY <2>2, <2>3, Zenon
  <2> QED BY <2>4
<1> DEFINE it == CHOOSE it : Q(it)
<1>4. Q(it)
  <2> HIDE DEF Q
  <2> QED BY <1>3
<1>5. Resolve(parent, v) = it[n]
  BY DEF Resolve, Iterate
<1> HIDE DEF it
<1>6. it[0] = x /\ \A k \in 1 .. n : it[k] = Onward(it[k - 1])
  <2> HIDE DEF A, x, n, Onward
  <2> QED BY <1>1, <1>4
<1>7. \A k \in 0 .. n : it[k] \in A
  <2> HIDE DEF Onward, A, x
  <2>1. it[0] \in A /\ \A k \in 0 .. n - 1 : it[k] \in A => it[k + 1] \in A
    <3>1. \A k \in 0 .. n - 1 : k + 1 \in 1 .. n /\ (k + 1) - 1 = k
      BY <1>1
    <3> QED BY <1>1, <1>2, <1>6, <3>1
  <2> HIDE DEF n
  <2> QED BY <1>1, <2>1, Stays
<1> QED
  BY <1>1, <1>5, <1>7

\* A trivial parameter found trivial stays found.
LEMMA UnifyingStays ==
    ASSUME NEW f \in Valid, NEW m \in Unifying(f), NEW b \in Block,
           NEW i \in DOMAIN f.block[b].params
    PROVE  Unify(f, m, <<b, i>>) \in Unifying(f)
<1> DEFINE vs == Incoming(f, m, <<b, i>>)
           p == ParamAt(f, <<b, i>>)
           w == CHOOSE v \in vs : TRUE
<1>1. m \in Parents(f) /\ m \in [Arena(f) -> Arena(f)]
  BY DEF Unifying, Parents
<1>2. PICK u \in Arena(f) : m[u] # u
  BY DEF Unifying
<1>3. Unify(f, m, <<b, i>>) =
          IF m[p] = p /\ Cardinality(vs) = 1 THEN [m EXCEPT ![p] = w] ELSE m
  BY DEF Unify
<1>4. Unify(f, m, <<b, i>>) \in Parents(f)
  BY <1>1, UnifyTyped
<1> HIDE DEF vs, p, w
<1>5. CASE m[p] = p
  <2>1. u # p
    BY <1>2, <1>5
  <2>2. Unify(f, m, <<b, i>>)[u] = m[u]
    BY <1>1, <1>3, <2>1
  <2> QED BY <1>2, <1>4, <2>2 DEF Unifying
<1>6. CASE m[p] # p
  BY <1>3, <1>6
<1> QED
  BY <1>5, <1>6

\* A trivial parameter is found.
LEMMA TrivialFound ==
    ASSUME NEW f \in Valid, NEW m \in Parents(f), NEW b, NEW i, NEW e, Trivial(f, b, i, e)
    PROVE  Unify(f, m, <<b, i>>) \in Unifying(f)
<1>1. /\ b \in Block /\ InEdges(f, b) = {e} /\ e[1] \in Reachable(f)
      /\ i \in DOMAIN f.block[b].params
      /\ EdgeArgs(f, e)[i] # f.block[b].params[i]
  BY DEF Trivial
<1>2. CASE m \in Unifying(f)
  BY <1>1, <1>2, UnifyingStays
<1>3. CASE m \notin Unifying(f)
  <2> DEFINE p == f.block[b].params[i]
             arg == EdgeArgs(f, e)[i]
             vs == Incoming(f, m, <<b, i>>)
             w == CHOOSE v \in vs : TRUE
  <2>1. \A v \in Arena(f) : m[v] = v
    BY <1>3 DEF Unifying
  <2>2. arg \in Arena(f) /\ p \in Arena(f) /\ arg # p
    <3>1. f.block[b].params \in Seq(Arena(f))
      BY <1>1, ValidBlock
    <3>2. e \in InEdges(f, b)
      BY <1>1
    <3>3. arg \in Arena(f)
      BY <1>1, <3>2, ArgTyped
    <3> QED BY <1>1, <3>1, <3>3
  <2>3. Resolve(m, arg) = arg
    <3>1. Len(m) \in Nat
      <4>1. Arena(f) = 1 .. Len(f.def) /\ Len(f.def) \in Nat
        BY ValidParts
      <4>2. m \in [1 .. Len(f.def) -> Arena(f)]
        BY <4>1 DEF Parents
      <4> QED BY <4>1, <4>2, Listed
    <3> HIDE DEF arg
    <3> QED BY <2>1, <2>2, <3>1, ResolveOwn
  <2>4. LiveInEdges(f, b) = {e}
    BY <1>1 DEF LiveInEdges
  <2>5. vs = {arg}
    <3>1. vs = {Resolve(m, EdgeArgs(f, d)[i]) : d \in LiveInEdges(f, b)} \ {p}
      BY DEF Incoming, ParamAt
    <3>2. vs = {Resolve(m, arg)} \ {p}
      <4> HIDE DEF vs, p
      <4> QED BY <2>4, <3>1
    <3> HIDE DEF arg, p, vs
    <3> QED BY <2>2, <2>3, <3>2
  <2>6. Unify(f, m, <<b, i>>) = IF m[p] = p /\ Cardinality(vs) = 1 THEN [m EXCEPT ![p] = w] ELSE m
    BY DEF Unify, ParamAt
  <2>7. w = arg
    <3> HIDE DEF arg
    <3> QED BY <2>5
  <2>8. Cardinality(vs) = 1
    <3> HIDE DEF arg, vs
    <3> QED BY <2>5, FS_Singleton
  <2>9. m \in [Arena(f) -> Arena(f)]
    BY DEF Parents
  <2> HIDE DEF arg, vs, p, w
  <2>10. Unify(f, m, <<b, i>>) = [m EXCEPT ![p] = arg]
    BY <2>1, <2>2, <2>6, <2>7, <2>8
  <2>11. Unify(f, m, <<b, i>>)[p] = arg /\ Unify(f, m, <<b, i>>) \in Parents(f)
    BY <2>2, <2>9, <2>10 DEF Parents
  <2> QED BY <2>2, <2>11 DEF Unifying
<1> QED
  BY <1>2, <1>3

\* Scanning a block loses no trivial parameter.
LEMMA UnifyBlockStays ==
    ASSUME NEW f \in Valid, NEW parent \in Unifying(f), NEW b \in Block
    PROVE  UnifyBlock(f, parent, b) \in Unifying(f)
<1> DEFINE seq == [i \in DOMAIN f.block[b].params |-> i]
       folded == FoldOver(LAMBDA m, i : Unify(f, m, <<b, i>>), parent, seq)
<1>0. Len(seq) \in Nat /\ \A i \in 1 .. Len(seq) : seq[i] \in DOMAIN f.block[b].params
  <2>1. f.block[b].params \in Seq(Arena(f))
    BY ValidBlock
  <2> QED BY <2>1
<1> DEFINE A == Unifying(f)
           x == parent
           n == Len(seq)
           Onward(k, u) == Unify(f, u, <<b, seq[k]>>)
           Q(it) == it = [k \in 0 .. n |-> IF k = 0 THEN x ELSE Onward(k, it[k - 1])]
<1>1. n \in Nat /\ x \in A
  BY <1>0
<1>2. \A k \in 1 .. n : \A u \in A : Onward(k, u) \in A
  BY <1>0, UnifyingStays
<1>3. \E it : Q(it)
  <2> DEFINE F == [k \in 1 .. n |-> [u \in A |-> Onward(k, u)]]
  <2> HIDE DEF A, x, n, Onward
  <2>1. F \in Steps(A, n)
    BY <1>2 DEF Steps
  <2>2. PICK it \in [0 .. n -> A] : it[0] = x /\ \A k \in 1 .. n : it[k] = F[k][it[k - 1]]
    <3> HIDE DEF F
    <3>1. Runs(A, x, n, F)
      BY <1>1, <2>1, Iterated
    <3> QED BY <3>1 DEF Runs
  <2>3. \A k \in 0 .. n : it[k] = IF k = 0 THEN x ELSE Onward(k, it[k - 1])
    <3>1. \A k \in 1 .. n : it[k - 1] \in A
      BY <1>1
    <3>2. \A k \in 1 .. n : F[k][it[k - 1]] = Onward(k, it[k - 1])
      BY <3>1
    <3> HIDE DEF F
    <3> QED BY <1>1, <2>2, <3>2
  <2>4. Q(it)
    <3> HIDE DEF F
    <3> QED BY <2>2, <2>3, Zenon
  <2> QED BY <2>4
<1> DEFINE it == CHOOSE it : Q(it)
<1>4. Q(it)
  <2> HIDE DEF Q
  <2> QED BY <1>3
<1>5. folded = it[n]
  BY DEF FoldOver
<1> HIDE DEF it
<1>6. it[0] = x /\ \A k \in 1 .. n : it[k] = Onward(k, it[k - 1])
  <2> HIDE DEF A, x, n, Onward
  <2> QED BY <1>1, <1>4
<1>7. \A k \in 0 .. n : it[k] \in A
  <2> HIDE DEF Onward, A, x
  <2>1. it[0] \in A /\ \A k \in 0 .. n - 1 : it[k] \in A => it[k + 1] \in A
    <3>1. \A k \in 0 .. n - 1 : k + 1 \in 1 .. n /\ (k + 1) - 1 = k
      BY <1>1
    <3> QED BY <1>1, <1>2, <1>6, <3>1
  <2> HIDE DEF n
  <2> QED BY <1>1, <2>1, Stays
<1> QED
  <2>1. UnifyBlock(f, parent, b) = IF b \in Reachable(f) \ {Entry} THEN folded ELSE parent
    BY DEF UnifyBlock
  <2> HIDE DEF folded, seq, n
  <2>2. folded \in Unifying(f)
    BY <1>1, <1>5, <1>7
  <2> QED BY <2>1, <2>2

\* Scanning the block of a trivial parameter finds one.
LEMMA UnifyBlockFinds ==
    ASSUME NEW f \in Valid, NEW parent \in Parents(f), NEW b \in Block, NEW t, NEW e,
           Trivial(f, b, t, e)
    PROVE  UnifyBlock(f, parent, b) \in Unifying(f)
<1> DEFINE seq == [i \in DOMAIN f.block[b].params |-> i]
       folded == FoldOver(LAMBDA m, i : Unify(f, m, <<b, i>>), parent, seq)
<1>0. /\ Len(seq) \in Nat
      /\ \A i \in 1 .. Len(seq) : seq[i] = i /\ i \in DOMAIN f.block[b].params
      /\ t \in 1 .. Len(seq)
  <2>1. f.block[b].params \in Seq(Arena(f))
    BY ValidBlock
  <2>2. t \in DOMAIN f.block[b].params
    BY DEF Trivial
  <2> QED BY <2>1, <2>2
<1> DEFINE A == Parents(f)
           x == parent
           n == Len(seq)
           Onward(k, u) == Unify(f, u, <<b, seq[k]>>)
           Q(it) == it = [k \in 0 .. n |-> IF k = 0 THEN x ELSE Onward(k, it[k - 1])]
<1>1. n \in Nat /\ x \in A
  BY <1>0
<1>2. \A k \in 1 .. n : \A u \in A : Onward(k, u) \in A
  BY <1>0, UnifyTyped
<1>3. \E it : Q(it)
  <2> DEFINE F == [k \in 1 .. n |-> [u \in A |-> Onward(k, u)]]
  <2> HIDE DEF A, x, n, Onward
  <2>1. F \in Steps(A, n)
    BY <1>2 DEF Steps
  <2>2. PICK it \in [0 .. n -> A] : it[0] = x /\ \A k \in 1 .. n : it[k] = F[k][it[k - 1]]
    <3> HIDE DEF F
    <3>1. Runs(A, x, n, F)
      BY <1>1, <2>1, Iterated
    <3> QED BY <3>1 DEF Runs
  <2>3. \A k \in 0 .. n : it[k] = IF k = 0 THEN x ELSE Onward(k, it[k - 1])
    <3>1. \A k \in 1 .. n : it[k - 1] \in A
      BY <1>1
    <3>2. \A k \in 1 .. n : F[k][it[k - 1]] = Onward(k, it[k - 1])
      BY <3>1
    <3> HIDE DEF F
    <3> QED BY <1>1, <2>2, <3>2
  <2>4. Q(it)
    <3> HIDE DEF F
    <3> QED BY <2>2, <2>3, Zenon
  <2> QED BY <2>4
<1> DEFINE it == CHOOSE it : Q(it)
<1>4. Q(it)
  <2> HIDE DEF Q
  <2> QED BY <1>3
<1>5. folded = it[n]
  BY DEF FoldOver
<1> HIDE DEF it
<1>6. it[0] = x /\ \A k \in 1 .. n : it[k] = Onward(k, it[k - 1])
  <2> HIDE DEF A, x, n, Onward
  <2> QED BY <1>1, <1>4
<1>7. \A k \in 0 .. n : it[k] \in A
  <2> HIDE DEF Onward, A, x
  <2>1. it[0] \in A /\ \A k \in 0 .. n - 1 : it[k] \in A => it[k + 1] \in A
    <3>1. \A k \in 0 .. n - 1 : k + 1 \in 1 .. n /\ (k + 1) - 1 = k
      BY <1>1
    <3> QED BY <1>1, <1>2, <1>6, <3>1
  <2> HIDE DEF n
  <2> QED BY <1>1, <2>1, Stays
<1>8. it[t] \in Unifying(f)
  <2>1. t - 1 \in 0 .. n /\ t \in 1 .. n
    BY <1>0
  <2>2. it[t] = Unify(f, it[t - 1], <<b, t>>) /\ it[t - 1] \in Parents(f)
    <3>1. it[t] = Onward(t, it[t - 1]) /\ it[t - 1] \in A /\ seq[t] = t
      BY <1>0, <1>6, <1>7, <2>1
    <3> QED BY <3>1
  <2> HIDE DEF n, x, A, seq, Onward
  <2> QED BY <2>2, TrivialFound
<1>9. ASSUME NEW k \in t .. n - 1, it[k] \in Unifying(f) PROVE it[k + 1] \in Unifying(f)
  <2>1. k + 1 \in 1 .. n /\ (k + 1) - 1 = k
    BY <1>0
  <2>2. seq[k + 1] = k + 1 /\ k + 1 \in DOMAIN f.block[b].params
    BY <1>0, <2>1
  <2>3. it[k + 1] = Unify(f, it[k], <<b, k + 1>>)
    <3>1. it[k + 1] = Onward(k + 1, it[(k + 1) - 1])
      BY <1>6, <2>1
    <3> QED BY <2>1, <2>2, <3>1
  <2> QED BY <1>9, <2>2, <2>3, UnifyingStays
<1>10. it[n] \in Unifying(f)
  <2>1. n \in Nat /\ t \in 1 .. n
    BY <1>0
  <2> HIDE DEF n, x, A, seq, Onward
  <2> QED BY <1>8, <1>9, <2>1, StaysFrom
<1> QED
  <2>1. UnifyBlock(f, parent, b) = IF b \in Reachable(f) \ {Entry} THEN folded ELSE parent
    BY DEF UnifyBlock
  <2>2. b \in Reachable(f) \ {Entry}
    BY DEF Trivial
  <2> HIDE DEF folded, seq, n
  <2> QED BY <1>5, <1>10, <2>1, <2>2

\* So does scanning all blocks.
LEMMA UnifyAllFinds ==
    ASSUME NEW f \in Valid, NEW parent \in Parents(f), NEW b, NEW t, NEW e, Trivial(f, b, t, e)
    PROVE  UnifyAll(f, parent) \in Unifying(f)
<1> DEFINE seq == [c \in Block |-> c]
<1>0. /\ Len(seq) = BlockCount /\ BlockCount \in Nat
      /\ \A c \in 1 .. Len(seq) : seq[c] = c /\ c \in Block
      /\ b \in 1 .. Len(seq)
  BY BlocksFinite DEF Block, Trivial
<1> DEFINE A == Parents(f)
           x == parent
           n == Len(seq)
           Onward(k, u) == UnifyBlock(f, u, seq[k])
           Q(it) == it = [k \in 0 .. n |-> IF k = 0 THEN x ELSE Onward(k, it[k - 1])]
<1>1. n \in Nat /\ x \in A
  BY <1>0
<1>2. \A k \in 1 .. n : \A u \in A : Onward(k, u) \in A
  BY <1>0, UnifyBlockTyped
<1>3. \E it : Q(it)
  <2> DEFINE F == [k \in 1 .. n |-> [u \in A |-> Onward(k, u)]]
  <2> HIDE DEF A, x, n, Onward
  <2>1. F \in Steps(A, n)
    BY <1>2 DEF Steps
  <2>2. PICK it \in [0 .. n -> A] : it[0] = x /\ \A k \in 1 .. n : it[k] = F[k][it[k - 1]]
    <3> HIDE DEF F
    <3>1. Runs(A, x, n, F)
      BY <1>1, <2>1, Iterated
    <3> QED BY <3>1 DEF Runs
  <2>3. \A k \in 0 .. n : it[k] = IF k = 0 THEN x ELSE Onward(k, it[k - 1])
    <3>1. \A k \in 1 .. n : it[k - 1] \in A
      BY <1>1
    <3>2. \A k \in 1 .. n : F[k][it[k - 1]] = Onward(k, it[k - 1])
      BY <3>1
    <3> HIDE DEF F
    <3> QED BY <1>1, <2>2, <3>2
  <2>4. Q(it)
    <3> HIDE DEF F
    <3> QED BY <2>2, <2>3, Zenon
  <2> QED BY <2>4
<1> DEFINE it == CHOOSE it : Q(it)
<1>4. Q(it)
  <2> HIDE DEF Q
  <2> QED BY <1>3
<1>5. UnifyAll(f, parent) = it[n]
  BY DEF UnifyAll, FoldOver
<1> HIDE DEF it
<1>6. it[0] = x /\ \A k \in 1 .. n : it[k] = Onward(k, it[k - 1])
  <2> HIDE DEF A, x, n, Onward
  <2> QED BY <1>1, <1>4
<1>7. \A k \in 0 .. n : it[k] \in A
  <2> HIDE DEF Onward, A, x
  <2>1. it[0] \in A /\ \A k \in 0 .. n - 1 : it[k] \in A => it[k + 1] \in A
    <3>1. \A k \in 0 .. n - 1 : k + 1 \in 1 .. n /\ (k + 1) - 1 = k
      BY <1>1
    <3> QED BY <1>1, <1>2, <1>6, <3>1
  <2> HIDE DEF n
  <2> QED BY <1>1, <2>1, Stays
<1>8. it[b] \in Unifying(f)
  <2>1. b - 1 \in 0 .. n /\ b \in 1 .. n
    BY <1>0
  <2>2. it[b] = UnifyBlock(f, it[b - 1], b) /\ it[b - 1] \in Parents(f) /\ b \in Block
    <3>1. it[b] = Onward(b, it[b - 1]) /\ it[b - 1] \in A /\ seq[b] = b
      BY <1>0, <1>6, <1>7, <2>1
    <3> QED BY <1>0, <3>1
  <2> HIDE DEF n, x, A, seq, Onward
  <2> QED BY <2>2, UnifyBlockFinds
<1>9. ASSUME NEW k \in b .. n - 1, it[k] \in Unifying(f) PROVE it[k + 1] \in Unifying(f)
  <2>1. k + 1 \in 1 .. n /\ (k + 1) - 1 = k
    BY <1>0
  <2>2. seq[k + 1] = k + 1 /\ k + 1 \in Block
    BY <1>0, <2>1
  <2>3. it[k + 1] = UnifyBlock(f, it[k], k + 1)
    <3>1. it[k + 1] = Onward(k + 1, it[(k + 1) - 1])
      BY <1>6, <2>1
    <3> QED BY <2>1, <2>2, <3>1
  <2> QED BY <1>9, <2>2, <2>3, UnifyBlockStays
<1>10. it[n] \in Unifying(f)
  <2>1. n \in Nat /\ b \in 1 .. n
    BY <1>0
  <2> HIDE DEF n, x, A, seq, Onward
  <2> QED BY <1>8, <1>9, <2>1, StaysFrom
<1> QED
  BY <1>5, <1>10

\* prune-trivial-phis leaves no parameter whose one edge passes something else.
LEMMA NothingTrivial ==
    ASSUME NEW f \in Valid, ~PruneTrivialPhis(f).changed, NEW b, NEW t, NEW e
    PROVE  ~Trivial(f, b, t, e)
<1> SUFFICES ASSUME Trivial(f, b, t, e) PROVE FALSE
  OBVIOUS
<1> DEFINE A == Parents(f)
           x == [v \in Arena(f) |-> v]
           n == Cardinality(Slots(f))
           Onward(u) == UnifyAll(f, u)
           Q(it) == it = [k \in 0 .. n |-> IF k = 0 THEN x ELSE Onward(it[k - 1])]
<1>1. n \in Nat /\ x \in A
  BY SlotsFinite DEF Parents
<1>2. \A k \in 1 .. n : \A u \in A : Onward(u) \in A
  BY UnifyAllTyped
<1>3. \E it : Q(it)
  <2> DEFINE F == [k \in 1 .. n |-> [u \in A |-> Onward(u)]]
  <2> HIDE DEF A, x, n, Onward
  <2>1. F \in Steps(A, n)
    BY <1>2 DEF Steps
  <2>2. PICK it \in [0 .. n -> A] : it[0] = x /\ \A k \in 1 .. n : it[k] = F[k][it[k - 1]]
    <3> HIDE DEF F
    <3>1. Runs(A, x, n, F)
      BY <1>1, <2>1, Iterated
    <3> QED BY <3>1 DEF Runs
  <2>3. \A k \in 0 .. n : it[k] = IF k = 0 THEN x ELSE Onward(it[k - 1])
    <3>1. \A k \in 1 .. n : it[k - 1] \in A
      BY <1>1
    <3>2. \A k \in 1 .. n : F[k][it[k - 1]] = Onward(it[k - 1])
      BY <3>1
    <3> HIDE DEF F
    <3> QED BY <1>1, <2>2, <3>2
  <2>4. Q(it)
    <3> HIDE DEF F
    <3> QED BY <2>2, <2>3, Zenon
  <2> QED BY <2>4
<1> DEFINE it == CHOOSE it : Q(it)
<1>4. Q(it)
  <2> HIDE DEF Q
  <2> QED BY <1>3
<1>5. LastParents(f) = it[n]
  BY DEF LastParents, Iterate
<1> HIDE DEF it
<1>6. it[0] = x /\ \A k \in 1 .. n : it[k] = Onward(it[k - 1])
  <2> HIDE DEF A, x, n, Onward
  <2> QED BY <1>1, <1>4
<1>7. \A k \in 0 .. n : it[k] \in A
  <2> HIDE DEF Onward, A, x
  <2>1. it[0] \in A /\ \A k \in 0 .. n - 1 : it[k] \in A => it[k + 1] \in A
    <3>1. \A k \in 0 .. n - 1 : k + 1 \in 1 .. n /\ (k + 1) - 1 = k
      BY <1>1
    <3> QED BY <1>1, <1>2, <1>6, <3>1
  <2> HIDE DEF n
  <2> QED BY <1>1, <2>1, Stays
<1>8. n \in Nat /\ n # 0
  <2>1. <<b, t>> \in Slots(f)
    BY DEF Slots, Trivial
  <2>2. IsFiniteSet(Slots(f)) /\ Cardinality(Slots(f)) \in Nat
    BY SlotsFinite
  <2> QED BY <2>1, <2>2, FS_EmptySet
<1>9. it[n] \in Unifying(f)
  <2>1. n - 1 \in 0 .. n /\ n \in 1 .. n
    BY <1>8
  <2>2. it[n] = UnifyAll(f, it[n - 1]) /\ it[n - 1] \in Parents(f)
    <3>1. it[n] = Onward(it[n - 1]) /\ it[n - 1] \in A
      <4> HIDE DEF n, x, A, Onward
      <4> QED BY <1>6, <1>7, <2>1
    <3> QED BY <3>1
  <2> HIDE DEF n, x, A, Onward
  <2> QED BY <2>2, UnifyAllFinds
<1>10. LastParents(f) \in Unifying(f)
  BY <1>5, <1>9
<1> HIDE DEF n, x, A, Onward
<1> DEFINE parent == LastParents(f)
           pruned == {v \in Arena(f) : parent[v] # v}
           replacement == [v \in Arena(f) |-> Resolve(parent, v)]
           dropped == DropParams(RewriteUses(f, replacement), pruned)
           tombstoned == [dropped EXCEPT
               !.def = [v \in Arena(f) |-> IF v \in pruned THEN Alias(replacement[v])
                                        ELSE dropped.def[v]]]
<1>11. PruneTrivialPhis(f) =
          IF pruned = {} THEN Result(f, FALSE) ELSE Result(tombstoned, TRUE)
  BY DEF PruneTrivialPhis, LastParents
<1>12. pruned # {}
  BY <1>10 DEF Unifying
<1> HIDE DEF pruned, tombstoned
<1>13. PruneTrivialPhis(f) = Result(tombstoned, TRUE)
  BY <1>11, <1>12
<1> QED
  BY <1>13, ResultParts
-----------------------------------------------------------------------------
(* merge-chains *)

\* The merges in progress that merged something.
Merging(f) == {s \in Merges(f) : s.merged > 0}

\* A splice counts, and once something is merged it stays merged.
LEMMA MergingStep ==
    ASSUME NEW f \in Valid, NEW s \in Merges(f), NEW a \in Block
    PROVE  /\ Mergeable(s, a) => Splice(s, a) \in Merging(f)
           /\ s \in Merging(f) => (IF Mergeable(s, a) THEN Splice(s, a) ELSE s) \in Merging(f)
<1>1. ASSUME Mergeable(s, a) PROVE Splice(s, a) \in Merging(f)
  <2>1. Splice(s, a) \in Merges(f)
    BY <1>1, MergeStep
  <2>2. Splice(s, a).merged = s.merged + 1
    BY DEF Splice
  <2>3. s.merged \in Nat
    BY MergesParts
  <2> QED BY <2>1, <2>2, <2>3 DEF Merging
<1> QED
  BY <1>1

\* What was merged stays merged while a's chain collapses.
LEMMA MergingStays ==
    ASSUME NEW f \in Valid, NEW s \in Merging(f), NEW a \in Block
    PROVE  MergeFrom(s, a) \in Merging(f)
<1> DEFINE A == Merging(f)
           x == s
           n == BlockCount
           Onward(u) == IF Mergeable(u, a) THEN Splice(u, a) ELSE u
           Q(it) == it = [k \in 0 .. n |-> IF k = 0 THEN x ELSE Onward(it[k - 1])]
<1>1. n \in Nat /\ x \in A
  BY BlocksFinite
<1>2. \A k \in 1 .. n : \A u \in A : Onward(u) \in A
  BY MergingStep DEF Merging
<1>3. \E it : Q(it)
  <2> DEFINE F == [k \in 1 .. n |-> [u \in A |-> Onward(u)]]
  <2> HIDE DEF A, x, n, Onward
  <2>1. F \in Steps(A, n)
    BY <1>2 DEF Steps
  <2>2. PICK it \in [0 .. n -> A] : it[0] = x /\ \A k \in 1 .. n : it[k] = F[k][it[k - 1]]
    <3> HIDE DEF F
    <3>1. Runs(A, x, n, F)
      BY <1>1, <2>1, Iterated
    <3> QED BY <3>1 DEF Runs
  <2>3. \A k \in 0 .. n : it[k] = IF k = 0 THEN x ELSE Onward(it[k - 1])
    <3>1. \A k \in 1 .. n : it[k - 1] \in A
      BY <1>1
    <3>2. \A k \in 1 .. n : F[k][it[k - 1]] = Onward(it[k - 1])
      BY <3>1
    <3> HIDE DEF F
    <3> QED BY <1>1, <2>2, <3>2
  <2>4. Q(it)
    <3> HIDE DEF F
    <3> QED BY <2>2, <2>3, Zenon
  <2> QED BY <2>4
<1> DEFINE it == CHOOSE it : Q(it)
<1>4. Q(it)
  <2> HIDE DEF Q
  <2> QED BY <1>3
<1>5. MergeFrom(s, a) = it[n]
  BY DEF MergeFrom, Iterate
<1> HIDE DEF it
<1>6. it[0] = x /\ \A k \in 1 .. n : it[k] = Onward(it[k - 1])
  <2> HIDE DEF A, x, n, Onward
  <2> QED BY <1>1, <1>4
<1>7. \A k \in 0 .. n : it[k] \in A
  <2> HIDE DEF Onward, A, x
  <2>1. it[0] \in A /\ \A k \in 0 .. n - 1 : it[k] \in A => it[k + 1] \in A
    <3>1. \A k \in 0 .. n - 1 : k + 1 \in 1 .. n /\ (k + 1) - 1 = k
      BY <1>1
    <3> QED BY <1>1, <1>2, <1>6, <3>1
  <2> HIDE DEF n
  <2> QED BY <1>1, <2>1, Stays
<1> QED
  BY <1>1, <1>5, <1>7

\* Where nothing can be spliced onto a, a stays as it is.
LEMMA MergeFromRests ==
    ASSUME NEW s, NEW a, ~Mergeable(s, a)
    PROVE  MergeFrom(s, a) = s
<1> DEFINE A == {s}
           x == s
           n == BlockCount
           Onward(u) == IF Mergeable(u, a) THEN Splice(u, a) ELSE u
           Q(it) == it = [k \in 0 .. n |-> IF k = 0 THEN x ELSE Onward(it[k - 1])]
<1>1. n \in Nat /\ x \in A
  BY BlocksFinite
<1>2. \A k \in 1 .. n : \A u \in A : Onward(u) \in A
  OBVIOUS
<1>3. \E it : Q(it)
  <2> DEFINE F == [k \in 1 .. n |-> [u \in A |-> Onward(u)]]
  <2> HIDE DEF A, x, n, Onward
  <2>1. F \in Steps(A, n)
    BY <1>2 DEF Steps
  <2>2. PICK it \in [0 .. n -> A] : it[0] = x /\ \A k \in 1 .. n : it[k] = F[k][it[k - 1]]
    <3> HIDE DEF F
    <3>1. Runs(A, x, n, F)
      BY <1>1, <2>1, Iterated
    <3> QED BY <3>1 DEF Runs
  <2>3. \A k \in 0 .. n : it[k] = IF k = 0 THEN x ELSE Onward(it[k - 1])
    <3>1. \A k \in 1 .. n : it[k - 1] \in A
      BY <1>1
    <3>2. \A k \in 1 .. n : F[k][it[k - 1]] = Onward(it[k - 1])
      BY <3>1
    <3> HIDE DEF F
    <3> QED BY <1>1, <2>2, <3>2
  <2>4. Q(it)
    <3> HIDE DEF F
    <3> QED BY <2>2, <2>3, Zenon
  <2> QED BY <2>4
<1> DEFINE it == CHOOSE it : Q(it)
<1>4. Q(it)
  <2> HIDE DEF Q
  <2> QED BY <1>3
<1>5. MergeFrom(s, a) = it[n]
  BY DEF MergeFrom, Iterate
<1> HIDE DEF it
<1>6. it[0] = x /\ \A k \in 1 .. n : it[k] = Onward(it[k - 1])
  <2> HIDE DEF A, x, n, Onward
  <2> QED BY <1>1, <1>4
<1>7. \A k \in 0 .. n : it[k] \in A
  <2> HIDE DEF Onward, A, x
  <2>1. it[0] \in A /\ \A k \in 0 .. n - 1 : it[k] \in A => it[k + 1] \in A
    <3>1. \A k \in 0 .. n - 1 : k + 1 \in 1 .. n /\ (k + 1) - 1 = k
      BY <1>1
    <3> QED BY <1>1, <1>2, <1>6, <3>1
  <2> HIDE DEF n
  <2> QED BY <1>1, <2>1, Stays
<1> QED
  BY <1>1, <1>5, <1>7

\* A chain that can collapse does.
LEMMA MergingStarts ==
    ASSUME NEW f \in Valid, NEW s \in Merges(f), NEW a \in Block, Mergeable(s, a)
    PROVE  MergeFrom(s, a) \in Merging(f)
<1> DEFINE A == Merges(f)
           x == s
           n == BlockCount
           Onward(u) == IF Mergeable(u, a) THEN Splice(u, a) ELSE u
           Q(it) == it = [k \in 0 .. n |-> IF k = 0 THEN x ELSE Onward(it[k - 1])]
<1>1. n \in Nat /\ x \in A
  BY BlocksFinite
<1>2. \A k \in 1 .. n : \A u \in A : Onward(u) \in A
  BY MergeStep
<1>3. \E it : Q(it)
  <2> DEFINE F == [k \in 1 .. n |-> [u \in A |-> Onward(u)]]
  <2> HIDE DEF A, x, n, Onward
  <2>1. F \in Steps(A, n)
    BY <1>2 DEF Steps
  <2>2. PICK it \in [0 .. n -> A] : it[0] = x /\ \A k \in 1 .. n : it[k] = F[k][it[k - 1]]
    <3> HIDE DEF F
    <3>1. Runs(A, x, n, F)
      BY <1>1, <2>1, Iterated
    <3> QED BY <3>1 DEF Runs
  <2>3. \A k \in 0 .. n : it[k] = IF k = 0 THEN x ELSE Onward(it[k - 1])
    <3>1. \A k \in 1 .. n : it[k - 1] \in A
      BY <1>1
    <3>2. \A k \in 1 .. n : F[k][it[k - 1]] = Onward(it[k - 1])
      BY <3>1
    <3> HIDE DEF F
    <3> QED BY <1>1, <2>2, <3>2
  <2>4. Q(it)
    <3> HIDE DEF F
    <3> QED BY <2>2, <2>3, Zenon
  <2> QED BY <2>4
<1> DEFINE it == CHOOSE it : Q(it)
<1>4. Q(it)
  <2> HIDE DEF Q
  <2> QED BY <1>3
<1>5. MergeFrom(s, a) = it[n]
  BY DEF MergeFrom, Iterate
<1> HIDE DEF it
<1>6. it[0] = x /\ \A k \in 1 .. n : it[k] = Onward(it[k - 1])
  <2> HIDE DEF A, x, n, Onward
  <2> QED BY <1>1, <1>4
<1>7. \A k \in 0 .. n : it[k] \in A
  <2> HIDE DEF Onward, A, x
  <2>1. it[0] \in A /\ \A k \in 0 .. n - 1 : it[k] \in A => it[k + 1] \in A
    <3>1. \A k \in 0 .. n - 1 : k + 1 \in 1 .. n /\ (k + 1) - 1 = k
      BY <1>1
    <3> QED BY <1>1, <1>2, <1>6, <3>1
  <2> HIDE DEF n
  <2> QED BY <1>1, <2>1, Stays
<1>8. n \in Nat /\ 1 \in 1 .. n /\ 1 - 1 = 0 /\ 0 \in 0 .. n
  BY LiftedIRAssumption
<1>9. it[1] \in Merging(f)
  <2>1. it[1] = Splice(s, a)
    BY <1>6, <1>8
  <2> QED BY <2>1, MergingStep
<1>10. ASSUME NEW k \in 1 .. n - 1, it[k] \in Merging(f) PROVE it[k + 1] \in Merging(f)
  <2>1. k + 1 \in 1 .. n /\ (k + 1) - 1 = k
    BY <1>8
  <2>2. it[k + 1] = IF Mergeable(it[k], a) THEN Splice(it[k], a) ELSE it[k]
    BY <1>6, <2>1
  <2>3. it[k] \in Merges(f)
    BY <1>10 DEF Merging
  <2> QED BY <1>10, <2>2, <2>3, MergingStep
<1> HIDE DEF n, x, A, Onward
<1>11. it[n] \in Merging(f)
  BY <1>8, <1>9, <1>10, StaysFrom
<1> QED
  BY <1>5, <1>11

\* merge-chains leaves no block whose successor could be spliced onto it.
LEMMA NothingMergeable ==
    ASSUME NEW f \in Valid, ~MergeBlockChains(f).changed, NEW a \in Block
    PROVE  ~Mergeable([ir |-> f, count |-> InCount(f), merged |-> 0], a)
<1> DEFINE seq == [b \in Block |-> b]
           start == [ir |-> f, count |-> InCount(f), merged |-> 0]
<1> SUFFICES ASSUME Mergeable(start, a) PROVE FALSE
  OBVIOUS
<1>0. /\ Len(seq) = BlockCount /\ BlockCount \in Nat
      /\ \A c \in 1 .. Len(seq) : seq[c] = c /\ c \in Block
      /\ a \in 1 .. Len(seq)
  BY BlocksFinite DEF Block
<1>21. start \in Merges(f)
  <2>1. InCount(f) \in [Block -> {0} \cup {InCount(f)[b] : b \in Block}]
    BY DEF InCount
  <2> QED BY <2>1, MergesMade
<1>22. ASSUME NEW s \in {start} \cup Merging(f), NEW c \in Block
       PROVE  MergeFrom(s, c) \in {start} \cup Merging(f)
  <2>1. CASE s \in Merging(f)
    BY <2>1, MergingStays
  <2>2. CASE s = start /\ Mergeable(start, c)
    <3> HIDE DEF start
    <3> QED BY <1>21, <2>2, MergingStarts
  <2>3. CASE s = start /\ ~Mergeable(start, c)
    <3> HIDE DEF start
    <3> QED BY <2>3, MergeFromRests
  <2> QED BY <2>1, <2>2, <2>3
<1> HIDE DEF start
<1> DEFINE A == {start} \cup Merging(f)
           x == start
           n == Len(seq)
           Onward(k, u) == MergeFrom(u, seq[k])
           Q(it) == it = [k \in 0 .. n |-> IF k = 0 THEN x ELSE Onward(k, it[k - 1])]
<1>1. n \in Nat /\ x \in A
  BY <1>0
<1>2. \A k \in 1 .. n : \A u \in A : Onward(k, u) \in A
  BY <1>0, <1>22
<1>3. \E it : Q(it)
  <2> DEFINE F == [k \in 1 .. n |-> [u \in A |-> Onward(k, u)]]
  <2> HIDE DEF A, x, n, Onward
  <2>1. F \in Steps(A, n)
    BY <1>2 DEF Steps
  <2>2. PICK it \in [0 .. n -> A] : it[0] = x /\ \A k \in 1 .. n : it[k] = F[k][it[k - 1]]
    <3> HIDE DEF F
    <3>1. Runs(A, x, n, F)
      BY <1>1, <2>1, Iterated
    <3> QED BY <3>1 DEF Runs
  <2>3. \A k \in 0 .. n : it[k] = IF k = 0 THEN x ELSE Onward(k, it[k - 1])
    <3>1. \A k \in 1 .. n : it[k - 1] \in A
      BY <1>1
    <3>2. \A k \in 1 .. n : F[k][it[k - 1]] = Onward(k, it[k - 1])
      BY <3>1
    <3> HIDE DEF F
    <3> QED BY <1>1, <2>2, <3>2
  <2>4. Q(it)
    <3> HIDE DEF F
    <3> QED BY <2>2, <2>3, Zenon
  <2> QED BY <2>4
<1> DEFINE it == CHOOSE it : Q(it)
<1>4. Q(it)
  <2> HIDE DEF Q
  <2> QED BY <1>3
<1>5. Merged(f) = it[n]
  BY DEF Merged, FoldOver, start
<1> HIDE DEF it
<1>6. it[0] = x /\ \A k \in 1 .. n : it[k] = Onward(k, it[k - 1])
  <2> HIDE DEF A, x, n, Onward
  <2> QED BY <1>1, <1>4
<1>7. \A k \in 0 .. n : it[k] \in A
  <2> HIDE DEF Onward, A, x
  <2>1. it[0] \in A /\ \A k \in 0 .. n - 1 : it[k] \in A => it[k + 1] \in A
    <3>1. \A k \in 0 .. n - 1 : k + 1 \in 1 .. n /\ (k + 1) - 1 = k
      BY <1>1
    <3> QED BY <1>1, <1>2, <1>6, <3>1
  <2> HIDE DEF n
  <2> QED BY <1>1, <2>1, Stays
<1>8. it[a] \in Merging(f)
  <2>1. a - 1 \in 0 .. n /\ a \in 1 .. n
    BY <1>0
  <2>2. it[a] = MergeFrom(it[a - 1], a) /\ it[a - 1] \in {start} \cup Merging(f)
    <3>1. it[a] = Onward(a, it[a - 1]) /\ it[a - 1] \in A /\ seq[a] = a
      BY <1>0, <1>6, <1>7, <2>1
    <3> QED BY <3>1
  <2>3. MergeFrom(start, a) \in Merging(f)
    BY <1>21, MergingStarts
  <2> HIDE DEF n, x, A, seq, Onward
  <2> QED BY <2>2, <2>3, MergingStays
<1>9. ASSUME NEW k \in a .. n - 1, it[k] \in Merging(f) PROVE it[k + 1] \in Merging(f)
  <2>1. k + 1 \in 1 .. n /\ (k + 1) - 1 = k
    BY <1>0
  <2>2. seq[k + 1] = k + 1 /\ k + 1 \in Block
    BY <1>0, <2>1
  <2>3. it[k + 1] = MergeFrom(it[k], k + 1)
    <3>1. it[k + 1] = Onward(k + 1, it[(k + 1) - 1])
      BY <1>6, <2>1
    <3> QED BY <2>1, <2>2, <3>1
  <2> QED BY <1>9, <2>2, <2>3, MergingStays
<1>10. it[n] \in Merging(f)
  <2>1. n \in Nat /\ a \in 1 .. n
    BY <1>0
  <2> HIDE DEF n, x, A, seq, Onward
  <2> QED BY <1>8, <1>9, <2>1, StaysFrom
<1>11. Merged(f).merged > 0
  BY <1>5, <1>10 DEF Merging
<1>12. MergeBlockChains(f) = Result(Merged(f).ir, Merged(f).merged > 0)
  BY DEF MergeBlockChains, Merged
<1>13. MergeBlockChains(f) = Result(Merged(f).ir, TRUE)
  BY <1>11, <1>12
<1> QED
  BY <1>13, ResultParts

-----------------------------------------------------------------------------
(* resolve-aliases *)

\* A set of aliases that the chase never leaves.
Cycle(f, C) == \A u \in C : u \in Arena(f) /\ IsAlias(f, u) /\ AliasStep(f, u) \in C

\* A chase that ends where it began, at an alias, went round a cycle of them.
LEMMA AliasCycle ==
    ASSUME NEW f \in Valid, NEW v \in Arena(f), IsAlias(f, v), TerminalMap(f)[v] = v
    PROVE  \E C : v \in C /\ Cycle(f, C)
<1> DEFINE A == Arena(f)
           x == v
           n == MaxChain
           Onward(u) == IF IsAlias(f, u) THEN f.def[u].args[1] ELSE u
           Q(it) == it = [k \in 0 .. n |-> IF k = 0 THEN x ELSE Onward(it[k - 1])]
<1>1. n \in Nat /\ x \in A
  BY DeclutterPassesAssumption
<1>2. \A k \in 1 .. n : \A u \in A : Onward(u) \in A
  BY AliasSteps DEF AliasStep
<1>3. \E it : Q(it)
  <2> DEFINE F == [k \in 1 .. n |-> [u \in A |-> Onward(u)]]
  <2> HIDE DEF A, x, n, Onward
  <2>1. F \in Steps(A, n)
    BY <1>2 DEF Steps
  <2>2. PICK it \in [0 .. n -> A] : it[0] = x /\ \A k \in 1 .. n : it[k] = F[k][it[k - 1]]
    <3> HIDE DEF F
    <3>1. Runs(A, x, n, F)
      BY <1>1, <2>1, Iterated
    <3> QED BY <3>1 DEF Runs
  <2>3. \A k \in 0 .. n : it[k] = IF k = 0 THEN x ELSE Onward(it[k - 1])
    <3>1. \A k \in 1 .. n : it[k - 1] \in A
      BY <1>1
    <3>2. \A k \in 1 .. n : F[k][it[k - 1]] = Onward(it[k - 1])
      BY <3>1
    <3> HIDE DEF F
    <3> QED BY <1>1, <2>2, <3>2
  <2>4. Q(it)
    <3> HIDE DEF F
    <3> QED BY <2>2, <2>3, Zenon
  <2> QED BY <2>4
<1> DEFINE it == CHOOSE it : Q(it)
<1>4. Q(it)
  <2> HIDE DEF Q
  <2> QED BY <1>3
<1>5. TerminalMap(f)[v] = it[n]
  BY DEF TerminalMap, Iterate
<1> HIDE DEF it
<1>6. it[0] = x /\ \A k \in 1 .. n : it[k] = Onward(it[k - 1])
  <2> HIDE DEF A, x, n, Onward
  <2> QED BY <1>1, <1>4
<1>7. \A k \in 0 .. n : it[k] \in A
  <2> HIDE DEF Onward, A, x
  <2>1. it[0] \in A /\ \A k \in 0 .. n - 1 : it[k] \in A => it[k + 1] \in A
    <3>1. \A k \in 0 .. n - 1 : k + 1 \in 1 .. n /\ (k + 1) - 1 = k
      BY <1>1
    <3> QED BY <1>1, <1>2, <1>6, <3>1
  <2> HIDE DEF n
  <2> QED BY <1>1, <2>1, Stays
<1> DEFINE C == {it[k] : k \in 0 .. n}
<1>8. n \in Nat \ {0} /\ it[n] = v /\ it[0] = v
      /\ \A k \in 1 .. n : it[k] = AliasStep(f, it[k - 1])
  BY <1>5, <1>6, DeclutterPassesAssumption DEF AliasStep
<1>9. \A k \in 0 .. n : it[k] \in Arena(f)
  BY <1>7
<1> HIDE DEF n, x, A, Onward
<1>10. ASSUME NEW k \in 0 .. n, ~IsAlias(f, it[k]) PROVE FALSE
  <2> DEFINE B == {u \in Arena(f) : ~IsAlias(f, u)}
  <2>1. k # 0
    BY <1>8, <1>10
  <2>2. k \in 1 .. n
    BY <1>8, <2>1
  <2>3. it[k] \in B
    BY <1>9, <1>10
  <2>4. ASSUME NEW j \in k .. n - 1, it[j] \in B PROVE it[j + 1] \in B
    <3>1. j + 1 \in 1 .. n /\ (j + 1) - 1 = j
      BY <1>8, <2>2
    <3>2. it[j + 1] = AliasStep(f, it[j])
      BY <1>8, <3>1
    <3>3. AliasStep(f, it[j]) = it[j]
      BY <2>4 DEF AliasStep
    <3> QED BY <2>4, <3>2, <3>3
  <2>5. it[n] \in B
    <3> HIDE DEF B
    <3> QED BY <1>8, <2>2, <2>3, <2>4, StaysFrom
  <2> QED BY <1>8, <2>5
<1>11. ASSUME NEW k \in 0 .. n PROVE AliasStep(f, it[k]) \in C
  <2>1. CASE k < n
    <3>1. k + 1 \in 1 .. n /\ (k + 1) - 1 = k /\ k + 1 \in 0 .. n
      BY <1>8, <2>1
    <3> QED BY <1>8, <3>1
  <2>2. CASE k = n
    <3>1. 1 \in 1 .. n /\ 1 - 1 = 0 /\ 1 \in 0 .. n
      BY <1>8
    <3>2. it[1] = AliasStep(f, it[k])
      BY <1>8, <2>2, <3>1
    <3> QED BY <3>1, <3>2
  <2> QED BY <1>8, <2>1, <2>2
<1>12. v \in C
  <2>1. 0 \in 0 .. n
    BY <1>8
  <2> QED BY <1>8, <2>1
<1>13. Cycle(f, C)
  BY <1>9, <1>10, <1>11 DEF Cycle
<1> QED
  BY <1>12, <1>13

\* The root of a value on a cycle of aliases is on it.
LEMMA RootOnCycle ==
    ASSUME NEW f \in Valid, NEW C, Cycle(f, C), NEW v \in C
    PROVE  IsAlias(f, Root(f, v))
<1> DEFINE A == C
           x == v
           n == Cardinality({u \in Arena(f) : IsAlias(f, u)})
           Onward(u) == IF IsAlias(f, u) THEN f.def[u].args[1] ELSE u
           Q(it) == it = [k \in 0 .. n |-> IF k = 0 THEN x ELSE Onward(it[k - 1])]
<1>1. n \in Nat /\ x \in A
  <2>1. IsFiniteSet(Arena(f))
    <3>1. Arena(f) = 1 .. Len(f.def) /\ Len(f.def) \in Nat
      BY ValidParts
    <3> QED BY <3>1, FS_Interval
  <2>2. IsFiniteSet({u \in Arena(f) : IsAlias(f, u)})
    <3>1. {u \in Arena(f) : IsAlias(f, u)} \in SUBSET Arena(f)
      OBVIOUS
    <3> QED BY <2>1, <3>1, FS_Subset
  <2> QED BY <2>2, FS_CardinalityType
<1>2. \A k \in 1 .. n : \A u \in A : Onward(u) \in A
  BY DEF Cycle, AliasStep
<1>3. \E it : Q(it)
  <2> DEFINE F == [k \in 1 .. n |-> [u \in A |-> Onward(u)]]
  <2> HIDE DEF A, x, n, Onward
  <2>1. F \in Steps(A, n)
    BY <1>2 DEF Steps
  <2>2. PICK it \in [0 .. n -> A] : it[0] = x /\ \A k \in 1 .. n : it[k] = F[k][it[k - 1]]
    <3> HIDE DEF F
    <3>1. Runs(A, x, n, F)
      BY <1>1, <2>1, Iterated
    <3> QED BY <3>1 DEF Runs
  <2>3. \A k \in 0 .. n : it[k] = IF k = 0 THEN x ELSE Onward(it[k - 1])
    <3>1. \A k \in 1 .. n : it[k - 1] \in A
      BY <1>1
    <3>2. \A k \in 1 .. n : F[k][it[k - 1]] = Onward(it[k - 1])
      BY <3>1
    <3> HIDE DEF F
    <3> QED BY <1>1, <2>2, <3>2
  <2>4. Q(it)
    <3> HIDE DEF F
    <3> QED BY <2>2, <2>3, Zenon
  <2> QED BY <2>4
<1> DEFINE it == CHOOSE it : Q(it)
<1>4. Q(it)
  <2> HIDE DEF Q
  <2> QED BY <1>3
<1>5. Root(f, v) = it[n]
  BY DEF Root, Iterate, Cycle
<1> HIDE DEF it
<1>6. it[0] = x /\ \A k \in 1 .. n : it[k] = Onward(it[k - 1])
  <2> HIDE DEF A, x, n, Onward
  <2> QED BY <1>1, <1>4
<1>7. \A k \in 0 .. n : it[k] \in A
  <2> HIDE DEF Onward, A, x
  <2>1. it[0] \in A /\ \A k \in 0 .. n - 1 : it[k] \in A => it[k + 1] \in A
    <3>1. \A k \in 0 .. n - 1 : k + 1 \in 1 .. n /\ (k + 1) - 1 = k
      BY <1>1
    <3> QED BY <1>1, <1>2, <1>6, <3>1
  <2> HIDE DEF n
  <2> QED BY <1>1, <2>1, Stays
<1>8. Root(f, v) \in C
  BY <1>1, <1>5, <1>7
<1> QED
  BY <1>8 DEF Cycle

\* What a terminator reads, renamed.
LEMMA RewiredReads ==
    ASSUME NEW V, NEW x \in Terminators(V), NEW new \in [V -> V]
    PROVE  \A j \in DOMAIN x.reads : RewriteExit(x, new).reads[j] = new[x.reads[j]]
<1> DEFINE reads == [j \in DOMAIN x.reads |-> new[x.reads[j]]]
           targets == Map(x.targets, LAMBDA t :
                              Target(t.block, Map(t.args, LAMBDA v : new[v])))
<1>1. x.reads \in Seq(V) /\ x = [kind |-> x.kind, reads |-> x.reads, targets |-> x.targets]
  BY TerminatorParts
<1>2. <<>> \o reads = reads
  BY <1>1, Renamed
<1>3. RewriteExit(x, new) = [x EXCEPT !.reads = <<>> \o reads, !.targets = targets]
  BY DEF RewriteExit, Map
<1>4. RewriteExit(x, new).reads = reads
  <2> HIDE DEF reads, targets
  <2> QED BY <1>1, <1>2, <1>3
<1> QED
  BY <1>4

\* Renaming that changes nothing maps everything that is read to itself.
LEMMA NothingRenamed ==
    ASSUME NEW f \in Valid, NEW new \in [Arena(f) -> Arena(f)], RewriteUses(f, new) = f
    PROVE  /\ \A v \in Arena(f) : \A u \in DefReads(f.def[v]) : new[u] = u
           /\ \A b \in Block : \A u \in ExitReads(f.block[b].exit) : new[u] = u
<1>0. /\ \A b \in Block : f.block[b].exit = RewriteExit(f.block[b].exit, new)
      /\ \A v \in Arena(f) : f.def[v] = RewriteDef(f.def[v], new)
  BY RewriteUsesKeeps
<1>1. ASSUME NEW v \in Arena(f), NEW u \in DefReads(f.def[v]) PROVE new[u] = u
  <2> DEFINE d == f.def[v]
             m == [j \in DOMAIN d.args |-> new[d.args[j]]]
  <2>1. d = RewriteDef(d, new) /\ d \in Definitions(Arena(f))
    BY <1>0, ValidParts
  <2>2. d.kind # "param" /\ u \in ToSet(d.args)
    BY <1>1 DEF DefReads
  <2> HIDE DEF d
  <2>3. d.args \in Seq(Arena(f))
    BY <2>1, <2>2, DefinitionKinds
  <2>4. d = [d EXCEPT !.args = <<>> \o m]
    BY <2>1, <2>2 DEF RewriteDef, Map
  <2>5. <<>> \o m = m
    BY <2>3, Renamed
  <2> HIDE DEF m
  <2>6. d.args = m
    <3>1. CASE d.kind = "alias"
      <4>1. d = [kind |-> "alias", args |-> <<d.args[1]>>]
        BY <2>1, <3>1, DefinitionKinds DEF Alias
      <4>2. [d EXCEPT !.args = m].args = m
        BY <4>1
      <4> QED BY <2>4, <2>5, <4>2
    <3>2. CASE d.kind = "op"
      <4>1. d = [kind |-> "op", op |-> d.op, args |-> d.args, n |-> d.n]
        BY <2>1, <3>2, DefinitionKinds DEF Numbered
      <4>2. [d EXCEPT !.args = m].args = m
        BY <4>1
      <4> QED BY <2>4, <2>5, <4>2
    <3> QED BY <2>1, <2>2, <3>1, <3>2, DefinitionKinds
  <2>7. PICK j \in DOMAIN d.args : u = d.args[j]
    BY <2>2 DEF ToSet
  <2>8. m[j] = new[d.args[j]]
    BY DEF m
  <2> QED BY <2>6, <2>7, <2>8
<1>2. ASSUME NEW b \in Block, NEW u \in ExitReads(f.block[b].exit) PROVE new[u] = u
  <2> DEFINE x == f.block[b].exit
  <2>1. x \in Terminators(Arena(f)) /\ x = RewriteExit(x, new)
    BY <1>0, ValidBlock
  <2> HIDE DEF x
  <2>2. CASE u \in ToSet(x.reads)
    <3>1. PICK j \in DOMAIN x.reads : u = x.reads[j]
      BY <2>2 DEF ToSet
    <3> QED BY <2>1, <3>1, RewiredReads
  <2>3. CASE u \in UNION {ToSet(t.args) : t \in ToSet(x.targets)}
    <3>1. PICK i \in DOMAIN x.targets : u \in ToSet(x.targets[i].args)
      BY <2>3 DEF ToSet
    <3>2. PICK j \in DOMAIN x.targets[i].args : u = x.targets[i].args[j]
      BY <3>1 DEF ToSet
    <3> QED BY <2>1, <3>2, Rewired
  <2> QED BY <1>2, <2>2, <2>3 DEF ExitReads, x
<1> QED
  BY <1>1, <1>2

\* What a valid function reads is in its arena.
LEMMA ReadsInArena ==
    ASSUME NEW f \in Valid
    PROVE  /\ \A v \in Arena(f) : DefReads(f.def[v]) \subseteq Arena(f)
           /\ \A b \in Block : ExitReads(f.block[b].exit) \subseteq Arena(f)
<1>1. ASSUME NEW v \in Arena(f) PROVE DefReads(f.def[v]) \subseteq Arena(f)
  <2>1. f.def[v] \in Definitions(Arena(f))
    BY ValidParts
  <2>2. f.def[v].kind = "param" \/ f.def[v].args \in Seq(Arena(f))
    BY <2>1, DefinitionKinds
  <2> QED BY <2>2 DEF DefReads, ToSet
<1>2. ASSUME NEW b \in Block PROVE ExitReads(f.block[b].exit) \subseteq Arena(f)
  <2> DEFINE x == f.block[b].exit
  <2>1. x \in Terminators(Arena(f))
    BY ValidBlock
  <2> HIDE DEF x
  <2>2. ToSet(x.reads) \subseteq Arena(f)
    <3>1. x.reads \in Seq(Arena(f))
      BY <2>1, TerminatorParts
    <3> QED BY <3>1 DEF ToSet
  <2>3. \A i \in DOMAIN x.targets : ToSet(x.targets[i].args) \subseteq Arena(f)
    <3> SUFFICES ASSUME NEW i \in DOMAIN x.targets
                 PROVE  ToSet(x.targets[i].args) \subseteq Arena(f)
      OBVIOUS
    <3>1. x.targets[i].args \in Seq(Arena(f))
      BY <2>1, TargetParts
    <3> QED BY <3>1 DEF ToSet
  <2>4. UNION {ToSet(t.args) : t \in ToSet(x.targets)} \subseteq Arena(f)
    BY <2>3 DEF ToSet
  <2> QED BY <2>2, <2>4 DEF ExitReads, x
<1> QED
  BY <1>1, <1>2

\* What resolve-aliases leaves alone reads an alias only on a cycle of them.
LEMMA NothingResolved ==
    ASSUME NEW f \in Valid, ~ResolveAliases(f).changed
    PROVE  /\ \A v \in Arena(f) : \A u \in DefReads(f.def[v]) : TerminalMap(f)[u] = u
           /\ \A b \in Block : \A u \in ExitReads(f.block[b].exit) : TerminalMap(f)[u] = u
<1> DEFINE terminal == TerminalMap(f)
           rewired == RewriteUses(f, terminal)
           stale == {v \in Arena(f) : /\ IsAlias(rewired, v)
                                   /\ terminal[v] # rewired.def[v].args[1]
                                   /\ terminal[v] # v}
           flat == [rewired EXCEPT
                       !.def = [v \in Arena(f) |-> IF v \in stale THEN Alias(terminal[v])
                                                ELSE rewired.def[v]]]
<1>1. ResolveAliases(f) =
          IF \A v \in Arena(f) : terminal[v] = v THEN Result(f, FALSE)
          ELSE Result(flat, rewired # f \/ stale # {})
  BY DEF ResolveAliases
<1>2. terminal \in [Arena(f) -> Arena(f)]
  BY TerminalTyped
<1>3. CASE \A v \in Arena(f) : terminal[v] = v
  <2>1. \A v \in Arena(f) : DefReads(f.def[v]) \subseteq Arena(f)
    BY ReadsInArena
  <2>2. \A b \in Block : ExitReads(f.block[b].exit) \subseteq Arena(f)
    BY ReadsInArena
  <2> QED BY <1>3, <2>1, <2>2
<1>4. CASE ~ \A v \in Arena(f) : terminal[v] = v
  <2>1. ResolveAliases(f) = Result(flat, rewired # f \/ stale # {})
    <3> HIDE DEF flat, stale, rewired, terminal
    <3> QED BY <1>1, <1>4
  <2>2. ASSUME rewired # f PROVE FALSE
    <3> HIDE DEF flat, stale, rewired, terminal
    <3>1. ResolveAliases(f) = Result(flat, TRUE)
      BY <2>1, <2>2
    <3> QED BY <3>1, ResultParts
  <2>3. RewriteUses(f, terminal) = f
    BY <2>2
  <2> HIDE DEF terminal
  <2>4. /\ \A v \in Arena(f) : \A u \in DefReads(f.def[v]) : terminal[u] = u
        /\ \A b \in Block : \A u \in ExitReads(f.block[b].exit) : terminal[u] = u
    BY <1>2, <2>3, NothingRenamed
  <2> QED BY <2>4 DEF terminal
<1> QED
  BY <1>3, <1>4
-----------------------------------------------------------------------------
(* Edges and aliases where the group has converged *)

\* The blocks that d does not dominate are closed under successors, but for d.
LEMMA NotDominated ==
    ASSUME NEW f \in Valid, NEW d \in Block \ {Entry}
    PROVE  \E R : /\ Entry \in R
                  /\ \A c \in R : Succ(f, c) \ {d} \subseteq R
                  /\ \A b : Dominates(f, d, b) <=> b \notin R
<1>0. IdsInArena(f)
  BY ValidMeans
<1> DEFINE A == SUBSET Block
           x == {Entry} \ {d}
           n == BlockCount
           Onward(u) == u \cup ((UNION {Succ(f, p) : p \in u}) \ {d})
           Q(it) == it = [k \in 0 .. n |-> IF k = 0 THEN x ELSE Onward(it[k - 1])]
<1>1. n \in Nat /\ x \in A
  BY BlocksFinite
<1>2. \A k \in 1 .. n : \A u \in A : Onward(u) \in A
  BY <1>0, SuccBlocks
<1>3. \E it : Q(it)
  <2> DEFINE F == [k \in 1 .. n |-> [u \in A |-> Onward(u)]]
  <2> HIDE DEF A, x, n, Onward
  <2>1. F \in Steps(A, n)
    BY <1>2 DEF Steps
  <2>2. PICK it \in [0 .. n -> A] : it[0] = x /\ \A k \in 1 .. n : it[k] = F[k][it[k - 1]]
    <3> HIDE DEF F
    <3>1. Runs(A, x, n, F)
      BY <1>1, <2>1, Iterated
    <3> QED BY <3>1 DEF Runs
  <2>3. \A k \in 0 .. n : it[k] = IF k = 0 THEN x ELSE Onward(it[k - 1])
    <3>1. \A k \in 1 .. n : it[k - 1] \in A
      BY <1>1
    <3>2. \A k \in 1 .. n : F[k][it[k - 1]] = Onward(it[k - 1])
      BY <3>1
    <3> HIDE DEF F
    <3> QED BY <1>1, <2>2, <3>2
  <2>4. Q(it)
    <3> HIDE DEF F
    <3> QED BY <2>2, <2>3, Zenon
  <2> QED BY <2>4
<1> DEFINE it == CHOOSE it : Q(it)
<1>4. Q(it)
  <2> HIDE DEF Q
  <2> QED BY <1>3
<1>5. Iterate(LAMBDA S : S \cup ((UNION {Succ(f, p) : p \in S}) \ {d}), {Entry} \ {d}, BlockCount) = it[n]
  BY DEF Iterate
<1> HIDE DEF it
<1>6. it[0] = x /\ \A k \in 1 .. n : it[k] = Onward(it[k - 1])
  <2> HIDE DEF A, x, n, Onward
  <2> QED BY <1>1, <1>4
<1>7. \A k \in 0 .. n : it[k] \in A
  <2> HIDE DEF Onward, A, x
  <2>1. it[0] \in A /\ \A k \in 0 .. n - 1 : it[k] \in A => it[k + 1] \in A
    <3>1. \A k \in 0 .. n - 1 : k + 1 \in 1 .. n /\ (k + 1) - 1 = k
      BY <1>1
    <3> QED BY <1>1, <1>2, <1>6, <3>1
  <2> HIDE DEF n
  <2> QED BY <1>1, <2>1, Stays
<1> DEFINE F == [S \in SUBSET Block |-> Onward(S)]
<1>8. /\ F \in [SUBSET Block -> SUBSET Block]
      /\ \A S \in SUBSET Block : S \subseteq F[S] /\ F[S] = Onward(S)
  BY <1>0, SuccBlocks
<1>9. /\ n \in Nat
      /\ \A k \in 0 .. n : it[k] \in SUBSET Block
      /\ \A k \in 0 .. n - 1 : it[k + 1] = F[it[k]]
  <2>1. \A k \in 0 .. n - 1 : k + 1 \in 1 .. n /\ (k + 1) - 1 = k /\ k \in 0 .. n
    BY <1>1
  <2> HIDE DEF n, x, Onward, F
  <2>2. \A k \in 0 .. n : it[k] \in SUBSET Block
    BY <1>7
  <2>3. \A k \in 0 .. n - 1 : it[k + 1] = Onward(it[k])
    BY <1>6, <2>1
  <2>4. n \in Nat
    BY <1>1
  <2> QED BY <1>8, <2>1, <2>2, <2>3, <2>4
<1>10. it \in [0 .. n -> SUBSET Block]
  <2>1. it = [k \in 0 .. n |-> it[k]]
    BY <1>4
  <2> HIDE DEF n, x, Onward, F
  <2> QED BY <1>9, <2>1
<1>11. F[it[n]] = it[n]
  <2> HIDE DEF F, Onward, x
  <2>1. Grows(Block, n, F, it)
    BY <1>8, <1>9, <1>10 DEF Grows
  <2>2. IsFiniteSet(Block) /\ Cardinality(Block) <= n
    BY BlocksFinite
  <2> QED BY <1>9, <2>1, <2>2, Saturates
<1>12. Entry \in it[n]
  <2> DEFINE T == {S \in SUBSET Block : Entry \in S}
  <2>1. it[0] \in T
    BY <1>1, <1>6
  <2>2. \A k \in 0 .. n - 1 : it[k] \in T => it[k + 1] \in T
    <3> HIDE DEF F, Onward, x, n
    <3>1. \A k \in 0 .. n - 1 : k \in 0 .. n
      BY <1>9
    <3> QED BY <1>8, <1>9, <3>1
  <2> HIDE DEF T
  <2>3. \A k \in 0 .. n : it[k] \in T
    BY <1>9, <2>1, <2>2, Stays
  <2> QED BY <1>9, <2>3 DEF T
<1> DEFINE R == it[n]
<1>13. Onward(R) = R
  <2> HIDE DEF F, Onward, x
  <2> QED BY <1>8, <1>9, <1>11
<1>14. \A b : Dominates(f, d, b) <=> b \notin R
  BY <1>5 DEF Dominates
<1>15. \A c \in R : Succ(f, c) \ {d} \subseteq R
  BY <1>13
<1> QED
  BY <1>12, <1>14, <1>15

\* No block with a single edge into it dominates where that edge comes from.
LEMMA EdgeEntersFromOutside ==
    ASSUME NEW f \in Valid, NEW b \in Block \ {Entry}, NEW e, InEdges(f, b) = {e},
           e[1] \in Reachable(f)
    PROVE  e[1] # b /\ ~Dominates(f, b, e[1])
<1>0. IdsInArena(f) /\ Entry \in Reachable(f)
  BY ValidMeans, ReachableClosed
<1>1. ASSUME NEW c \in Block, b \in Succ(f, c) PROVE c = e[1]
  <2>1. PICK i \in DOMAIN f.block[c].exit.targets : f.block[c].exit.targets[i].block = b
    BY <1>0, <1>1, SuccBlocks
  <2>2. <<c, i>> \in InEdges(f, b)
    BY <2>1, InEdgesAre
  <2> QED BY <2>2
<1>2. e[1] # b
  <2> SUFFICES ASSUME e[1] = b PROVE FALSE
    OBVIOUS
  <2> DEFINE R == Reachable(f) \ {b}
  <2>1. \A c \in R \cap Block : Succ(f, c) \subseteq R
    BY <1>0, <1>1, ReachableClosed
  <2>2. Entry \in R
    BY <1>0
  <2> HIDE DEF R
  <2>3. Reachable(f) \subseteq R
    BY <1>0, <2>1, <2>2, ReachableLeast
  <2> QED BY <2>3 DEF R
<1>3. ~Dominates(f, b, e[1])
  <2>1. PICK R : /\ Entry \in R
                 /\ \A c \in R : Succ(f, c) \ {b} \subseteq R
                 /\ \A c : Dominates(f, b, c) <=> c \notin R
    BY NotDominated
  <2> SUFFICES ASSUME e[1] \notin R PROVE FALSE
    BY <2>1
  <2>2. \A c \in R \cap Block : Succ(f, c) \subseteq R
    BY <1>1, <2>1
  <2>3. Reachable(f) \subseteq R
    BY <1>0, <2>1, <2>2, ReachableLeast
  <2> QED BY <2>3
<1> QED
  BY <1>2, <1>3

\* A block reads what it passes along its edges.
LEMMA ArgumentsRead ==
    ASSUME NEW f \in Valid, NEW b \in Block, NEW e \in InEdges(f, b),
           NEW i \in DOMAIN f.block[b].params
    PROVE  EdgeArgs(f, e)[i] \in ExitReads(f.block[e[1]].exit)
<1>1. PICK c \in Block : \E j \in DOMAIN f.block[c].exit.targets :
          e = <<c, j>> /\ f.block[c].exit.targets[j].block = b
  BY InEdgesAre
<1>2. PICK j \in DOMAIN f.block[c].exit.targets :
          e = <<c, j>> /\ f.block[c].exit.targets[j].block = b
  BY <1>1
<1> DEFINE t == f.block[c].exit.targets[j]
<1>3. e[1] = c /\ EdgeArgs(f, e) = t.args
  BY <1>2 DEF EdgeArgs
<1>4. i \in DOMAIN t.args
  <2>1. EdgeArgs(f, e) \in Seq(Arena(f)) /\ Len(EdgeArgs(f, e)) = Len(f.block[b].params)
    BY ArgTyped
  <2>2. f.block[b].params \in Seq(Arena(f))
    BY ValidBlock
  <2> HIDE DEF t
  <2> QED BY <1>3, <2>1, <2>2
<1>5. t \in ToSet(f.block[c].exit.targets)
  BY DEF ToSet
<1> HIDE DEF t
<1>6. EdgeArgs(f, e)[i] \in ToSet(t.args)
  BY <1>3, <1>4 DEF ToSet
<1> QED
  BY <1>3, <1>5, <1>6 DEF ExitReads

\* What SSA form says of each value a reachable block reads.
LEMMA ReadsAvailable ==
    ASSUME NEW f, DefinitionsReachUses(f), NEW b \in Reachable(f)
    PROVE  /\ \A v \in ExitReads(f.block[b].exit) :
                 AvailableAt(f, v, b, Len(f.block[b].insts) + 1)
           /\ \A u \in ToSet(f.block[b].insts) : \A v \in DefReads(f.def[u]) :
                 ~IsAlias(f, Root(f, v))
<1>1. \A v \in ExitReads(f.block[b].exit) : AvailableAt(f, v, b, Len(f.block[b].insts) + 1)
  BY DEF DefinitionsReachUses
<1>2. ASSUME NEW u \in ToSet(f.block[b].insts), NEW v \in DefReads(f.def[u])
      PROVE  ~IsAlias(f, Root(f, v))
  <2>1. PICK i \in DOMAIN f.block[b].insts : u = f.block[b].insts[i]
    BY DEF ToSet
  <2>2. AvailableAt(f, v, b, i)
    BY <2>1 DEF DefinitionsReachUses
  <2> QED BY <2>2 DEF AvailableAt
<1> QED
  BY <1>1, <1>2

\* A function in SSA form that resolve-aliases leaves alone reads no alias.
LEMMA NoAliasRead ==
    ASSUME NEW f \in Valid, DefinitionsReachUses(f), ~ResolveAliases(f).changed
    PROVE  ~ReadsAlias(f)
<1>0. IdsInArena(f) /\ Reachable(f) \subseteq Block
  BY ValidMeans, ReachableClosed
<1>1. ASSUME NEW v \in Arena(f), IsAlias(f, v), TerminalMap(f)[v] = v
      PROVE  IsAlias(f, Root(f, v))
  <2>1. PICK C : v \in C /\ Cycle(f, C)
    BY <1>1, AliasCycle
  <2> QED BY <2>1, RootOnCycle
<1>2. ASSUME NEW b \in Reachable(f), NEW v \in ExitReads(f.block[b].exit), IsAlias(f, v)
      PROVE  FALSE
  <2>1. v \in Arena(f) /\ TerminalMap(f)[v] = v
    BY <1>0, ReadsInArena, NothingResolved
  <2>2. ~IsAlias(f, Root(f, v))
    BY ReadsAvailable DEF AvailableAt
  <2> QED BY <1>1, <1>2, <2>1, <2>2
<1>3. ASSUME NEW b \in Reachable(f), NEW u \in ToSet(f.block[b].insts),
             NEW v \in DefReads(f.def[u]), IsAlias(f, v)
      PROVE  FALSE
  <2>1. u \in Arena(f)
    <3>1. f.block[b].insts \in Seq(Arena(f))
      BY <1>0, ValidBlock
    <3> QED BY <3>1 DEF ToSet
  <2>2. v \in Arena(f) /\ TerminalMap(f)[v] = v
    BY <2>1, ReadsInArena, NothingResolved
  <2>3. ~IsAlias(f, Root(f, v))
    BY ReadsAvailable
  <2> QED BY <1>1, <1>3, <2>2, <2>3
<1> QED
  BY <1>2, <1>3 DEF ReadsAlias

\* In SSA form no block hands on its own parameter to itself over the one edge
\* into it: the parameter would have to be defined before it is.
LEMMA NotItsOwnArgument ==
    ASSUME NEW f \in Valid, DefinitionsReachUses(f), NEW b \in Block \ {Entry}, NEW e,
           InEdges(f, b) = {e}, e[1] \in Reachable(f), NEW i \in DOMAIN f.block[b].params
    PROVE  EdgeArgs(f, e)[i] # f.block[b].params[i]
<1> SUFFICES ASSUME EdgeArgs(f, e)[i] = f.block[b].params[i] PROVE FALSE
  OBVIOUS
<1> DEFINE q == f.block[b].params[i]
           p == e[1]
<1>1. f.block[b].params \in Seq(Arena(f)) /\ f.def[q] = BlockParam(b, i)
  <2>1. b \in Block
    OBVIOUS
  <2>2. f.block[b].params \in Seq(Arena(f)) /\ Numbers(f.block, f.def, b)
    BY <2>1, ValidBlock
  <2> QED BY <2>2 DEF Numbers
<1>2. Root(f, q) = q
  <2> HIDE DEF q
  <2>1. f.def[q].kind = "param"
    BY <1>1 DEF BlockParam
  <2>2. ~IsAlias(f, q)
    BY <2>1 DEF IsAlias
  <2> QED BY <2>2 DEF Root
<1>3. q \in ExitReads(f.block[p].exit)
  <2>1. e \in InEdges(f, b)
    OBVIOUS
  <2> HIDE DEF p
  <2>2. EdgeArgs(f, e)[i] \in ExitReads(f.block[e[1]].exit)
    BY <2>1, ArgumentsRead
  <2> QED BY <2>2 DEF p
<1>4. AvailableAt(f, q, p, Len(f.block[p].insts) + 1)
  BY <1>3, ReadsAvailable
<1>5. <<b, 0>> \in DefSites(f, q)
  <2>1. q \in ToSet(f.block[b].params)
    BY DEF ToSet
  <2> HIDE DEF q
  <2> QED BY <2>1 DEF DefSites
<1>6. p # b /\ ~Dominates(f, b, p)
  BY EdgeEntersFromOutside
<1> HIDE DEF q, p
<1> QED
  BY <1>2, <1>4, <1>5, <1>6 DEF AvailableAt

\* Where it has converged on a function in SSA form, the group has resolved
\* every alias, dropped every parameter with a single edge into its block, and
\* merged every chain (Unified).
THEOREM UnifiedInSsa == Spec => [](SsaKept => Unified)
<1>1. ValidInv /\ QuietSoFar => (SsaKept => Unified)
  <2> SUFFICES ASSUME ValidInv, QuietSoFar, SsaKept, phase = "converged"
               PROVE  /\ ~ReadsAlias(ir)
                      /\ \A b \in Block \ {Entry} : \A e \in InEdges(ir, b) :
                            InEdges(ir, b) = {e} =>
                                ir.block[b].params = <<>> /\ ExitKind(ir, e[1]) # "branch"
    BY DEF Unified
  <2>1. ir \in Valid /\ IdsInArena(ir) /\ DefinitionsReachUses(ir)
    BY ValidMeans DEF ValidInv, SsaKept
  <2>2. \A k \in 1 .. 10 : ~RunPass(k, ir).changed
    BY DEF QuietSoFar, Rests
  <2>3. /\ ~ResolveAliases(ir).changed
        /\ ~PruneTrivialPhis(ir).changed
        /\ ~MergeBlockChains(ir).changed
        /\ ~SweepDead(ir).changed
    <3>1. 1 \in 1 .. 10 /\ 2 \in 1 .. 10 /\ 5 \in 1 .. 10 /\ 6 \in 1 .. 10
      OBVIOUS
    <3> QED BY <2>2, <3>1, Passed
  <2>4. ASSUME NEW b \in Block \ {Entry}, NEW e, InEdges(ir, b) = {e}
        PROVE  ir.block[b].params = <<>> /\ ExitKind(ir, e[1]) # "branch"
    <3>1. PICK p \in Block : \E j \in DOMAIN ir.block[p].exit.targets :
              e = <<p, j>> /\ ir.block[p].exit.targets[j].block = b
      BY <2>4, InEdgesAre
    <3>2. PICK j \in DOMAIN ir.block[p].exit.targets :
              e = <<p, j>> /\ ir.block[p].exit.targets[j].block = b
      BY <3>1
    <3>3. e[1] = p /\ p \in Reachable(ir)
      <4>1. ir.block[p] # Tombstone(<<>>)
        <5>1. DOMAIN Tombstone(<<>>).exit.targets = {}
          BY DEF Tombstone, Unreachable
        <5> QED BY <3>2, <5>1
      <4> QED BY <2>3, <3>2, <4>1, NothingToClear
    <3>4. b \in Reachable(ir)
      BY <2>1, <3>2, <3>3, ReachableClosed, SuccBlocks
    <3>5. ir.block[b].params = <<>>
      <4>1. ir.block[b].params \in Seq(Arena(ir))
        BY <2>1, ValidBlock
      <4>2. ASSUME NEW i \in DOMAIN ir.block[b].params PROVE FALSE
        <5>1. EdgeArgs(ir, e)[i] # ir.block[b].params[i]
          BY <2>1, <2>4, <3>3, NotItsOwnArgument
        <5>2. Trivial(ir, b, i, e)
          BY <2>4, <3>3, <3>4, <5>1 DEF Trivial
        <5> QED BY <2>1, <2>3, <5>2, NothingTrivial
      <4> DEFINE params == ir.block[b].params
      <4>3. params \in Seq(Arena(ir)) /\ DOMAIN params = {}
        BY <4>1, <4>2
      <4> HIDE DEF params
      <4>4. params = <<>>
        BY <4>3
      <4> QED BY <4>4 DEF params
    <3>6. ASSUME ExitKind(ir, p) = "branch" PROVE FALSE
      <4> DEFINE s == [ir |-> ir, count |-> InCount(ir), merged |-> 0]
      <4>1. j = 1
        <5>1. ir.block[p].exit \in Terminators(Arena(ir))
          BY <2>1, ValidBlock
        <5> QED BY <3>2, <3>6, <5>1, BranchTarget DEF ExitKind
      <4>2. Successor(ir, p) = b
        BY <3>2, <4>1 DEF Successor
      <4>3. b # p
        BY <2>1, <2>4, <3>3, EdgeEntersFromOutside
      <4>4. InCount(ir)[b] = 1
        <5>1. InCount(ir)[b] = Cardinality({e})
          BY <2>4 DEF InCount
        <5> QED BY <5>1, FS_Singleton
      <4>5. Mergeable(s, p)
        <5>1. s.ir = ir /\ s.count = InCount(ir)
          OBVIOUS
        <5> HIDE DEF s
        <5> QED BY <2>4, <3>5, <3>6, <4>2, <4>3, <4>4, <5>1 DEF Mergeable
      <4> HIDE DEF s
      <4>6. ~Mergeable(s, p)
        BY <2>1, <2>3, NothingMergeable DEF s
      <4> QED BY <4>5, <4>6
    <3> QED BY <3>3, <3>5, <3>6
  <2>5. ~ReadsAlias(ir)
    BY <2>1, <2>3, NoAliasRead
  <2> QED BY <2>4, <2>5
<1> QED
  BY <1>1, AlwaysValid, PTL
=============================================================================
