--------------------------- MODULE CfgFactsProofs ---------------------------
(***************************************************************************)
(* Theorems about CfgFacts for every set of graphs: what the proofs of the *)
(* search, of the sweeps, of the dominator tree and of the loop forest say *)
(* holds of the four run one after the other.                              *)
(***************************************************************************)
EXTENDS CfgFacts, TLAPS

\* The components again, with their invariants and proofs.
SearchP == INSTANCE DepthFirstProofs

SweepsP == INSTANCE DominatorsProofs

TreeP == INSTANCE DomTreeProofs WITH
    facts <- [succs |-> succs, rpo |-> rpo, idom |-> idom],
    stack <- walk, at <- source

ForestP == INSTANCE LoopForestProofs WITH
    facts <- [succs |-> succs, rpo |-> rpo, back |-> back],
    phase <- building

-----------------------------------------------------------------------------
(* The operators of the instances are the same operators *)

\* Of the search: its start, its steps and its promise.
LEMMA SameSearch ==
    /\ Search!Begin <=> SearchP!Begin
    /\ Search!Next <=> SearchP!Next
    /\ Search!OrderPromised <=> SearchP!OrderPromised
<1>1. Search!Begin <=> SearchP!Begin
  BY DEF Search!Begin, SearchP!Begin
<1>2. Search!Next <=> SearchP!Next
  BY DEF Search!Next, Search!Descend, Search!Skip, Search!Retreat, Search!Publish,
         Search!Looks, Search!Top, Search!Pop, Search!Advanced, Search!Reversed,
         Search!Block,
         SearchP!Next, SearchP!Descend, SearchP!Skip, SearchP!Retreat, SearchP!Publish,
         SearchP!Looks, SearchP!Top, SearchP!Pop, SearchP!Advanced, SearchP!Reversed,
         SearchP!Block
<1>3. Search!OrderPromised <=> SearchP!OrderPromised
  <2> USE DEF Search!Block, Search!Succs, Search!Elements,
              SearchP!Block, SearchP!Succs, SearchP!Elements
  <2>1. /\ Search!SearchOrder(succs, rpo) <=> SearchP!SearchOrder(succs, rpo)
        /\ Search!ReachableBlocks(succs) = SearchP!ReachableBlocks(succs)
    BY DEF Search!SearchOrder, Search!UpTo, Search!ReachableBlocks,
           Search!ReachableWithin, Search!ClosedWithin,
           SearchP!SearchOrder, SearchP!UpTo, SearchP!ReachableBlocks,
           SearchP!ReachableWithin, SearchP!ClosedWithin
  <2>2. \A d, b : Search!Dominates(succs, d, b) <=> SearchP!Dominates(succs, d, b)
    BY DEF Search!Dominates, Search!CutBy, SearchP!Dominates, SearchP!CutBy
  <2>3. \A a, b : Search!Onward(succs, a, b) <=> SearchP!Onward(succs, a, b)
    BY <2>2 DEF Search!Onward, Search!ClosedOnward, SearchP!Onward, SearchP!ClosedOnward
  <2>4. Search!RetreatsClose(succs, rpo) <=> SearchP!RetreatsClose(succs, rpo)
    BY <2>3 DEF Search!RetreatsClose, SearchP!RetreatsClose
  <2> QED
    BY <2>1, <2>4 DEF Search!OrderPromised, SearchP!OrderPromised
<1> QED
  BY <1>1, <1>2, <1>3

\* Of the order that is handed over.
LEMMA SameOrder ==
    \A g, order :
        SearchP!SearchOrder(g, order) <=> SweepsP!SearchOrder(g, order)
BY DEF SearchP!SearchOrder, SearchP!UpTo, SearchP!Succs, SearchP!Elements,
       SearchP!Block, SearchP!ReachableWithin, SearchP!ClosedWithin,
       SweepsP!SearchOrder, SweepsP!UpTo, SweepsP!Succs, SweepsP!Elements,
       SweepsP!Block, SweepsP!ReachableWithin, SweepsP!ClosedWithin

\* Of the sweeps: their start, their steps and their promises.
LEMMA SameSweeps ==
    /\ Sweeps!Begin <=> SweepsP!Begin
    /\ Sweeps!Next <=> SweepsP!Next
    /\ Sweeps!FingersProcessed <=> SweepsP!FingersProcessed
    /\ Sweeps!ChainsDescend <=> SweepsP!ChainsDescend
    /\ Sweeps!NoDominatorLost <=> SweepsP!NoDominatorLost
    /\ Sweeps!IdomCorrect <=> SweepsP!IdomCorrect
<1> USE DEF Sweeps!Block, Sweeps!None, Sweeps!Elements, Sweeps!Pos, Sweeps!Succs,
            SweepsP!Block, SweepsP!None, SweepsP!Elements, SweepsP!Pos, SweepsP!Succs
<1>1. Sweeps!Begin <=> SweepsP!Begin
  BY DEF Sweeps!Begin, SweepsP!Begin
<1>2. Sweeps!Next <=> SweepsP!Next
  <2>1. /\ Sweeps!Visit <=> SweepsP!Visit
        /\ Sweeps!Meet <=> SweepsP!Meet
        /\ Sweeps!Resweep <=> SweepsP!Resweep
        /\ Sweeps!Settle <=> SweepsP!Settle
        /\ Sweeps!Assign <=> SweepsP!Assign
    BY DEF Sweeps!Visit, Sweeps!Meet, Sweeps!Resweep, Sweeps!Settle, Sweeps!Assign,
           Sweeps!Preds,
           SweepsP!Visit, SweepsP!Meet, SweepsP!Resweep, SweepsP!Settle, SweepsP!Assign,
           SweepsP!Preds
  <2>2. /\ Sweeps!Ignore <=> SweepsP!Ignore
        /\ Sweeps!Take <=> SweepsP!Take
        /\ Sweeps!Intersect <=> SweepsP!Intersect
    BY DEF Sweeps!Ignore, Sweeps!Take, Sweeps!Intersect, Sweeps!IsNext, Sweeps!Processed,
           SweepsP!Ignore, SweepsP!Take, SweepsP!Intersect, SweepsP!IsNext, SweepsP!Processed
  <2>3. /\ Sweeps!ClimbA <=> SweepsP!ClimbA
        /\ Sweeps!ClimbB <=> SweepsP!ClimbB
    BY DEF Sweeps!ClimbA, Sweeps!ClimbB, SweepsP!ClimbA, SweepsP!ClimbB
  <2> QED
    BY <2>1, <2>2, <2>3 DEF Sweeps!Next, SweepsP!Next
<1>3. /\ Sweeps!FingersProcessed <=> SweepsP!FingersProcessed
      /\ Sweeps!ChainsDescend <=> SweepsP!ChainsDescend
  BY DEF Sweeps!FingersProcessed, Sweeps!ChainsDescend,
         SweepsP!FingersProcessed, SweepsP!ChainsDescend
<1>4. \A g, d, b : Sweeps!Dominates(g, d, b) <=> SweepsP!Dominates(g, d, b)
  BY DEF Sweeps!Dominates, Sweeps!CutBy, SweepsP!Dominates, SweepsP!CutBy
<1>5. Sweeps!NoDominatorLost <=> SweepsP!NoDominatorLost
  BY <1>4 DEF Sweeps!NoDominatorLost, SweepsP!NoDominatorLost
<1>6. Sweeps!IdomCorrect <=> SweepsP!IdomCorrect
  BY <1>4 DEF Sweeps!IdomCorrect, Sweeps!ImmediateDominators,
              SweepsP!IdomCorrect, SweepsP!ImmediateDominators
<1> QED
  BY <1>1, <1>2, <1>3, <1>5, <1>6

\* Of what the sweeps hand over.
LEMMA SameGiven ==
    /\ \A g, order : SearchP!SearchOrder(g, order) <=> TreeP!SearchOrder(g, order)
    /\ \A g, order : SearchP!RetreatsClose(g, order) <=> TreeP!RetreatsClose(g, order)
    /\ \A g, order, up :
         SweepsP!ImmediateDominators(g, order, up) <=> TreeP!ImmediateDominators(g, order, up)
<1> USE DEF SearchP!Block, SearchP!Succs, SearchP!Elements,
            SweepsP!Block, SweepsP!None, SweepsP!Elements, SweepsP!Succs,
            TreeP!Block, TreeP!None, TreeP!Elements, TreeP!Succs
<1>1. \A g, order : SearchP!SearchOrder(g, order) <=> TreeP!SearchOrder(g, order)
  BY DEF SearchP!SearchOrder, SearchP!UpTo, SearchP!ReachableWithin, SearchP!ClosedWithin,
         TreeP!SearchOrder, TreeP!UpTo, TreeP!ReachableWithin, TreeP!ClosedWithin
<1>2. \A g, d, b : SearchP!Dominates(g, d, b) <=> TreeP!Dominates(g, d, b)
  BY DEF SearchP!Dominates, SearchP!CutBy, TreeP!Dominates, TreeP!CutBy
<1>3. \A g, a, b : SearchP!Onward(g, a, b) <=> TreeP!Onward(g, a, b)
  BY <1>2 DEF SearchP!Onward, SearchP!ClosedOnward, TreeP!Onward, TreeP!ClosedOnward
<1>4. \A g, order : SearchP!RetreatsClose(g, order) <=> TreeP!RetreatsClose(g, order)
  BY <1>3 DEF SearchP!RetreatsClose, TreeP!RetreatsClose
<1>5. \A g, d, b : SweepsP!Dominates(g, d, b) <=> TreeP!Dominates(g, d, b)
  BY DEF SweepsP!Dominates, SweepsP!CutBy, TreeP!Dominates, TreeP!CutBy
<1>6. \A g, order, up :
        SweepsP!ImmediateDominators(g, order, up) <=> TreeP!ImmediateDominators(g, order, up)
  BY <1>5 DEF SweepsP!ImmediateDominators, TreeP!ImmediateDominators
<1> QED
  BY <1>1, <1>4, <1>6

\* Of the dominator tree: its start, its steps, its end and its promises.
LEMMA SameTree ==
    /\ Tree!Begin <=> TreeP!Begin
    /\ Tree!Next <=> TreeP!Next
    /\ Tree!Built <=> TreeP!Built
    /\ Tree!QueryAnswersDominance <=> TreeP!QueryAnswersDominance
    /\ Tree!BackEdgesComplete <=> TreeP!BackEdgesComplete
    /\ Tree!EmptinessCanonical <=> TreeP!EmptinessCanonical
<1> USE DEF Tree!Block, Tree!Elements, Tree!Pos, Tree!Succs, Tree!Reachable,
            Tree!DominatesQuery,
            TreeP!Block, TreeP!Elements, TreeP!Pos, TreeP!Succs, TreeP!Reachable,
            TreeP!DominatesQuery
<1>1. Tree!Begin <=> TreeP!Begin
  BY DEF Tree!Begin, TreeP!Begin
<1>2. \A b : Tree!DomChildren(b) = TreeP!DomChildren(b)
  <2>1. \A S, place : Tree!InOrder(S, place) = TreeP!InOrder(S, place)
    BY DEF Tree!InOrder, Tree!Cardinality, TreeP!InOrder, TreeP!Cardinality
  <2> QED
    BY <2>1 DEF Tree!DomChildren, Tree!Ascending, TreeP!DomChildren, TreeP!Ascending
<1>3. Tree!Next <=> TreeP!Next
  <2>1. (Tree!Open <=> TreeP!Open) /\ (Tree!Close <=> TreeP!Close)
    BY <1>2 DEF Tree!Open, Tree!Close, Tree!Top, TreeP!Open, TreeP!Close, TreeP!Top
  <2>2. (Tree!Scan <=> TreeP!Scan) /\ (Tree!NextSource <=> TreeP!NextSource)
    BY DEF Tree!Scan, Tree!NextSource, Tree!Scanning, Tree!Retreats,
           TreeP!Scan, TreeP!NextSource, TreeP!Scanning, TreeP!Retreats
  <2> QED
    BY <2>1, <2>2 DEF Tree!Next, TreeP!Next
<1>4. Tree!Built <=> TreeP!Built
  BY DEF Tree!Built, TreeP!Built
<1>5. \A g, d, b : Tree!Dominates(g, d, b) <=> TreeP!Dominates(g, d, b)
  BY DEF Tree!Dominates, Tree!CutBy, TreeP!Dominates, TreeP!CutBy
<1>6. Tree!QueryAnswersDominance <=> TreeP!QueryAnswersDominance
  BY <1>5 DEF Tree!QueryAnswersDominance, TreeP!QueryAnswersDominance
<1>7. Tree!Edges = TreeP!Edges
  BY DEF Tree!Edges, TreeP!Edges
<1>8. Tree!BackEdgesComplete <=> TreeP!BackEdgesComplete
  BY <1>4, <1>5, <1>7 DEF Tree!BackEdgesComplete, Tree!IsInjective,
                          TreeP!BackEdgesComplete, TreeP!IsInjective
<1>9. \A E : Tree!HasCycle(E) <=> TreeP!HasCycle(E)
  BY DEF Tree!HasCycle, TreeP!HasCycle
<1>10. Tree!EmptinessCanonical <=> TreeP!EmptinessCanonical
  <2>1. {e \in Tree!Edges : ~Tree!Dominates(succs, e[2], e[1])} =
          {e \in TreeP!Edges : ~TreeP!Dominates(succs, e[2], e[1])}
    BY <1>5, <1>7
  <2> QED
    BY <1>4, <1>9, <2>1 DEF Tree!EmptinessCanonical, TreeP!EmptinessCanonical
<1> QED
  BY <1>1, <1>3, <1>4, <1>6, <1>8, <1>10

\* Of what the tree hands over.
LEMMA SameFound ==
    /\ \A g, order : TreeP!SearchOrder(g, order) <=> ForestP!SearchOrder(g, order)
    /\ \A g, d, b : TreeP!Dominates(g, d, b) <=> ForestP!Dominates(g, d, b)
    /\ \A g, b : TreeP!Succs(g, b) = ForestP!Succs(g, b)
    /\ \A s : TreeP!Elements(s) = ForestP!Elements(s)
    /\ Adjacency = ForestP!Adjacency
<1> USE DEF TreeP!Block, TreeP!Succs, TreeP!Elements,
            ForestP!Block, ForestP!Succs, ForestP!Elements
<1>1. \A g, order : TreeP!SearchOrder(g, order) <=> ForestP!SearchOrder(g, order)
  BY DEF TreeP!SearchOrder, TreeP!UpTo, TreeP!ReachableWithin, TreeP!ClosedWithin,
         ForestP!SearchOrder, ForestP!UpTo, ForestP!ReachableWithin, ForestP!ClosedWithin
<1>2. \A g, d, b : TreeP!Dominates(g, d, b) <=> ForestP!Dominates(g, d, b)
  BY DEF TreeP!Dominates, TreeP!CutBy, ForestP!Dominates, ForestP!CutBy
<1>3. Adjacency = ForestP!Adjacency
  BY DEF Adjacency, Block, ForestP!Adjacency
<1> QED
  BY <1>1, <1>2, <1>3

\* Of the loop forest: its start, its steps and its promises.
LEMMA SameForest ==
    /\ Forest!Begin <=> ForestP!Begin
    /\ Forest!Next <=> ForestP!Next
    /\ Forest!LoopsNatural <=> ForestP!LoopsNatural
    /\ Forest!Laminar <=> ForestP!Laminar
    /\ Forest!DepthCounts <=> ForestP!DepthCounts
    /\ Forest!InnermostInside <=> ForestP!InnermostInside
<1> USE DEF Forest!Block, Forest!None, Forest!Elements, Forest!Pos, Forest!Succs,
            Forest!Preds,
            ForestP!Block, ForestP!None, ForestP!Elements, ForestP!Pos, ForestP!Succs,
            ForestP!Preds
<1>1. Forest!Begin <=> ForestP!Begin
  BY DEF Forest!Begin, ForestP!Begin
<1>2. \A S, place : Forest!InOrder(S, place) = ForestP!InOrder(S, place)
  BY DEF Forest!InOrder, Forest!Cardinality, ForestP!InOrder, ForestP!Cardinality
<1>3. \A S : Forest!Ascending(S) = ForestP!Ascending(S)
  BY <1>2 DEF Forest!Ascending, ForestP!Ascending
<1>4. Forest!Headers = ForestP!Headers
  BY <1>2 DEF Forest!Headers, ForestP!Headers
<1>5. \A h : Forest!LatchesOf(h) = ForestP!LatchesOf(h)
  BY DEF Forest!LatchesOf, ForestP!LatchesOf
<1>6. Forest!Header = ForestP!Header
  BY <1>4 DEF Forest!Header, ForestP!Header
<1>7. \A b : Forest!Unmarked(b) = ForestP!Unmarked(b)
  BY DEF Forest!Unmarked, ForestP!Unmarked
<1>8. /\ \A S : Forest!Cardinality(S) = ForestP!Cardinality(S)
      /\ \A i : Forest!Size(i) = ForestP!Size(i)
  BY DEF Forest!Cardinality, ForestP!Cardinality, Forest!Size, ForestP!Size
<1>9. \A i : Forest!Around(i) = ForestP!Around(i)
  BY DEF Forest!Around, ForestP!Around
<1>10. \A i : Forest!ParentOf(i) = ForestP!ParentOf(i)
  BY DEF Forest!ParentOf, Forest!Around, Forest!Size, Forest!Cardinality,
         ForestP!ParentOf, ForestP!Around, ForestP!Size, ForestP!Cardinality
<1>11. \A i, j : Forest!Before(i, j) <=> ForestP!Before(i, j)
  BY <1>8 DEF Forest!Before, ForestP!Before
<1>12. Forest!Next <=> ForestP!Next
  <2>1. Forest!Start <=> ForestP!Start
    BY <1>3, <1>4, <1>5, <1>6 DEF Forest!Start, ForestP!Start
  <2>2. Forest!Walk <=> ForestP!Walk
    BY <1>3, <1>7 DEF Forest!Walk, ForestP!Walk
  <2>3. (Forest!Collect <=> ForestP!Collect) /\ (Forest!AllCollected <=> ForestP!AllCollected)
    BY <1>4, <1>5, <1>6 DEF Forest!Collect, Forest!AllCollected,
                            ForestP!Collect, ForestP!AllCollected
  <2>4. Forest!Nest <=> ForestP!Nest
    BY <1>10 DEF Forest!Nest, ForestP!Nest
  <2>5. (Forest!Number <=> ForestP!Number) /\ (Forest!Finish <=> ForestP!Finish)
    BY <1>11 DEF Forest!Number, Forest!Finish, ForestP!Number, ForestP!Finish
  <2> QED
    BY <2>1, <2>2, <2>3, <2>4, <2>5 DEF Forest!Next, ForestP!Next
<1>13. \A g, d, b : Forest!Dominates(g, d, b) <=> ForestP!Dominates(g, d, b)
  BY DEF Forest!Dominates, Forest!CutBy, ForestP!Dominates, ForestP!CutBy
<1>14. \A b, T, h : Forest!ReachesAround(b, T, h) <=> ForestP!ReachesAround(b, T, h)
  BY DEF Forest!ReachesAround, Forest!ClosedWithin,
         ForestP!ReachesAround, ForestP!ClosedWithin
<1>15. Forest!LoopsNatural <=> ForestP!LoopsNatural
  BY <1>13, <1>14 DEF Forest!LoopsNatural, ForestP!LoopsNatural
<1>16. /\ Forest!Laminar <=> ForestP!Laminar
       /\ Forest!InnermostInside <=> ForestP!InnermostInside
  BY DEF Forest!Laminar, Forest!InnermostInside, ForestP!Laminar, ForestP!InnermostInside
<1>17. Forest!DepthCounts <=> ForestP!DepthCounts
  BY <1>8 DEF Forest!DepthCounts, ForestP!DepthCounts
<1> QED
  BY <1>1, <1>12, <1>15, <1>16, <1>17

-----------------------------------------------------------------------------
(* The inductive invariant *)

\* The search keeps its invariant.  The sweeps wait in their initial state
\* until there is an order, the tree in its own until there are immediate
\* dominators, the forest until there are back edges, and each keeps its
\* invariant from then on.
FactsInv ==
    /\ succs \in Adjacency
    /\ SearchP!SearchInv
    /\ Sweeps!Begin \/ (Searched /\ SweepsP!SweepInv)
    /\ Tree!Begin \/ (Searched /\ Swept /\ TreeP!TreeInv)
    /\ Forest!Begin \/ (Swept /\ Tree!Built /\ ForestP!ForestInv)

\* Of the graphs.
LEMMA SameAdjacency ==
    /\ Adjacency = SearchP!Adjacency
    /\ Adjacency = SweepsP!Adjacency
    /\ Adjacency = TreeP!Adjacency
BY DEF Adjacency, Block, SearchP!Adjacency, SearchP!Block, SweepsP!Adjacency,
       SweepsP!Block, TreeP!Adjacency, TreeP!Block

\* An order that is published is one the sweeps may start from.
LEMMA SweepsReady ==
    ASSUME FactsInv, Searched
    PROVE  SweepsP!SweepInv
BY SearchP!SearchPromise, SweepsP!SweepsBegin, SameOrder, SameSweeps,
   SameAdjacency, FlowGraphAssumption
DEF FactsInv, Searched, SearchP!OrderPromised, Block, SearchP!Block, SweepsP!Block

\* Sweeps that have settled have been given an order.
LEMMA SweptSearched ==
    ASSUME FactsInv, Swept
    PROVE  Searched
BY DEF FactsInv, Swept, Sweeps!Begin

\* What the sweeps settle on is what the tree may start from.
LEMMA TreeReady ==
    ASSUME FactsInv, Swept
    PROVE  TreeP!TreeInv
<1> USE FlowGraphAssumption DEF Block, SearchP!Block, SweepsP!Block, TreeP!Block
<1>1. Searched /\ SearchP!SearchInv /\ succs \in Adjacency
  BY SweptSearched DEF FactsInv
<1>2. TreeP!SearchOrder(succs, rpo) /\ TreeP!RetreatsClose(succs, rpo)
  BY <1>1, SearchP!SearchPromise, SameGiven
  DEF Searched, SearchP!OrderPromised
<1>3. TreeP!ImmediateDominators(succs, rpo, idom)
  BY <1>1, SweepsReady, SweepsP!SweepPromises, SameGiven
  DEF Swept, SweepsP!IdomCorrect
<1>4. TreeP!Given
  BY <1>1, <1>2, <1>3, SameAdjacency DEF TreeP!Given
<1> QED
  BY <1>4, SameTree, TreeP!TreeBegins DEF FactsInv

\* What the scan of the edges has found is what the forest may start from.
LEMMA ForestReady ==
    ASSUME FactsInv, Swept, Tree!Built
    PROVE  ForestP!ForestInv
<1> USE FlowGraphAssumption DEF Block, TreeP!Block, ForestP!Block
<1>1. succs \in Adjacency /\ TreeP!TreeInv
  BY TreeReady DEF FactsInv
<1>2. TreeP!SearchOrder(succs, rpo)
  BY <1>1 DEF TreeP!TreeInv, TreeP!Given
<1>3. TreeP!BackEdgesComplete /\ TreeP!Built
  BY <1>1, SameTree, TreeP!TreeShows
<1>4. TreeP!Elements(back) =
        {e \in Block \X Block : /\ e[1] \in TreeP!Elements(rpo)
                                /\ e[2] \in TreeP!Succs(succs, e[1])
                                /\ TreeP!Dominates(succs, e[2], e[1])}
  BY <1>3 DEF TreeP!BackEdgesComplete, TreeP!Edges, TreeP!Reachable
<1>5. ForestP!Elements(back) =
        {e \in Block \X Block : /\ e[1] \in ForestP!Elements(rpo)
                                /\ e[2] \in ForestP!Succs(succs, e[1])
                                /\ ForestP!Dominates(succs, e[2], e[1])}
  BY <1>4, SameFound
<1>6. ForestP!Given
  BY <1>1, <1>2, <1>5, SameFound DEF ForestP!Given, ForestP!Listed, ForestP!Dom
<1> QED
  BY <1>6, SameForest, ForestP!ForestBegins DEF FactsInv

\* The facts begin in the invariant,
LEMMA FactsBegin == Init => FactsInv
BY SearchP!SearchBegins, SameSearch, SameAdjacency, CfgFactsAssumption,
   FlowGraphAssumption
DEF Init, FactsInv, Block, SearchP!Block

\* every stage keeps it,
LEMMA FactsKept == FactsInv /\ [Next]_vars => FactsInv'
<1> SUFFICES ASSUME FactsInv, [Next]_vars PROVE FactsInv'
  OBVIOUS
<1> USE FlowGraphAssumption
        DEF Block, SearchP!Block, SweepsP!Block, TreeP!Block, ForestP!Block
<1>1. CASE RunSearch
  <2>1. succs \in Adjacency /\ SearchP!SearchInv /\ Sweeps!Begin /\ Tree!Begin
    BY <1>1 DEF FactsInv, RunSearch
  <2>2. SearchP!SearchInv'
    BY <1>1, <2>1, SameSearch, SearchP!SearchKeeps DEF RunSearch
  <2>3. Sweeps!Begin' /\ Tree!Begin'
    BY <1>1, <2>1 DEF RunSearch, sweepVars, treeVars, Sweeps!Begin, Tree!Begin
  <2>4. Forest!Begin
    BY <2>1 DEF FactsInv, Swept, Sweeps!Begin
  <2>5. Forest!Begin'
    BY <1>1, <2>4 DEF RunSearch, forestVars, Forest!Begin
  <2> QED
    BY <1>1, <2>1, <2>2, <2>3, <2>5 DEF FactsInv, RunSearch
<1>2. CASE RunSweeps
  <2>1. Searched /\ SweepsP!SweepInv
    BY <1>2, SweepsReady DEF RunSweeps
  <2>2. SweepsP!SweepInv'
    BY <1>2, <2>1, SameSweeps, SweepsP!SweepsKeep DEF RunSweeps
  <2>3. SearchP!SearchInv'
    BY <1>2, SearchP!SearchKeeps DEF FactsInv, RunSweeps, searchVars, SearchP!vars
  <2>4. ~Swept
    BY <1>2 DEF RunSweeps, Swept, Sweeps!Next, Sweeps!Visit, Sweeps!Ignore, Sweeps!Take,
                Sweeps!Intersect, Sweeps!IsNext, Sweeps!ClimbA, Sweeps!ClimbB,
                Sweeps!Meet, Sweeps!Assign, Sweeps!Resweep, Sweeps!Settle
  <2>5. Tree!Begin'
    BY <1>2, <2>4 DEF FactsInv, RunSweeps, treeVars, Tree!Begin
  <2>6. Forest!Begin'
    BY <1>2, <2>4 DEF FactsInv, RunSweeps, forestVars, Forest!Begin
  <2> QED
    BY <1>2, <2>1, <2>2, <2>3, <2>5, <2>6 DEF FactsInv, RunSweeps, searchVars, Searched
<1>3. ASSUME UNCHANGED <<succs, searchVars, sweepVars>>
      PROVE  /\ (succs \in Adjacency)' /\ SearchP!SearchInv'
             /\ (Sweeps!Begin \/ (Searched /\ SweepsP!SweepInv))'
             /\ Searched' <=> Searched
             /\ Swept' <=> Swept
  <2>1. SearchP!SearchInv'
    BY <1>3, SearchP!SearchKeeps DEF FactsInv, searchVars, SearchP!vars
  <2>2. SweepsP!SweepInv => SweepsP!SweepInv'
    BY <1>3, SweepsP!SweepsKeep DEF searchVars, sweepVars, SweepsP!vars
  <2>3. Sweeps!Begin => Sweeps!Begin'
    BY <1>3 DEF sweepVars, Sweeps!Begin
  <2> QED
    BY <1>3, <2>1, <2>2, <2>3 DEF FactsInv, searchVars, sweepVars, Searched, Swept
<1>4. CASE RunTree
  <2>1. UNCHANGED <<succs, searchVars, sweepVars>>
    BY <1>4 DEF RunTree
  <2>2. Swept /\ Searched /\ TreeP!TreeInv
    BY <1>4, SweptSearched, TreeReady DEF RunTree
  <2>3. TreeP!TreeInv'
    BY <1>4, <2>2, SameTree, TreeP!TreeKeeps DEF RunTree
  <2>4. ~TreeP!Built
    <3>1. TreeP!Next /\ TreeP!TreeInv
      BY <1>4, <2>2, SameTree DEF RunTree
    <3>2. Len(rpo) \in Nat /\ source \in Nat
      BY <3>1 DEF TreeP!TreeInv, TreeP!Given, TreeP!SearchOrder, TreeP!Sorted
    <3> QED
      BY <3>1, <3>2 DEF TreeP!Built, TreeP!Next, TreeP!Open, TreeP!Close, TreeP!Scan,
                        TreeP!NextSource, TreeP!Scanning
  <2>5. Forest!Begin'
    BY <1>4, <2>4, SameTree DEF FactsInv, RunTree, forestVars, Forest!Begin
  <2> QED
    BY <1>3, <2>1, <2>2, <2>3, <2>5 DEF FactsInv
<1>5. ASSUME UNCHANGED <<succs, searchVars, sweepVars, treeVars>>
      PROVE  /\ (Tree!Begin \/ (Searched /\ Swept /\ TreeP!TreeInv))'
             /\ Tree!Built' <=> Tree!Built
  <2>1. UNCHANGED <<succs, searchVars, sweepVars>>
    BY <1>5
  <2>2. Tree!Begin => Tree!Begin'
    BY <1>5 DEF treeVars, Tree!Begin
  <2>3. TreeP!TreeInv => TreeP!TreeInv'
    BY <1>5, TreeP!TreeKeeps DEF searchVars, sweepVars, treeVars, TreeP!vars
  <2>4. Tree!Built' <=> Tree!Built
    BY <1>5 DEF searchVars, treeVars, Tree!Built
  <2> QED
    BY <1>3, <2>1, <2>2, <2>3, <2>4 DEF FactsInv
<1>6. CASE RunForest
  <2>1. UNCHANGED <<succs, searchVars, sweepVars, treeVars>>
    BY <1>6 DEF RunForest
  <2>2. Swept /\ Tree!Built /\ ForestP!ForestInv
    BY <1>6, ForestReady DEF RunForest
  <2>3. ForestP!ForestInv'
    BY <1>6, <2>2, SameForest, ForestP!ForestKeeps DEF RunForest
  <2> QED
    BY <1>3, <1>5, <2>1, <2>2, <2>3 DEF FactsInv
<1>7. CASE UNCHANGED vars
  <2>1. UNCHANGED <<succs, searchVars, sweepVars, treeVars>> /\ UNCHANGED forestVars
    BY <1>7 DEF vars
  <2>2. Forest!Begin => Forest!Begin'
    BY <2>1 DEF forestVars, Forest!Begin
  <2>3. ForestP!ForestInv => ForestP!ForestInv'
    BY <2>1, ForestP!ForestKeeps DEF searchVars, treeVars, forestVars, ForestP!vars
  <2> QED
    BY <1>3, <1>5, <2>1, <2>2, <2>3 DEF FactsInv
<1> QED
  BY <1>1, <1>2, <1>4, <1>6, <1>7 DEF Next, Done

\* so it holds throughout.
THEOREM Facts == Spec => []FactsInv
BY FactsBegin, FactsKept, PTL DEF Spec

-----------------------------------------------------------------------------
(* The properties the runs check *)

\* The order the search publishes is one the sweeps may rely on.
THEOREM SearchKeepsPromise == Spec => []OrderPromised
<1>1. FactsInv => OrderPromised
  BY SearchP!SearchPromise, SameSearch, FlowGraphAssumption
  DEF FactsInv, OrderPromised, Block, SearchP!Block
<1> QED
  BY <1>1, Facts, PTL

\* intersect never climbs from a block without an idom, and comes to an end.
THEOREM ClimbsAreSafe == Spec => []ClimbsEnd
<1>1. FactsInv => ClimbsEnd
  BY SweepsReady, SweepsP!SweepPromises, SameSweeps, FlowGraphAssumption
  DEF ClimbsEnd, Swept, Block, SweepsP!Block
<1> QED
  BY <1>1, Facts, PTL

\* No strict dominator of a processed block is lost.
THEOREM DominatorsKept == Spec => []NoDominatorLost
<1>1. FactsInv => NoDominatorLost
  <2> SUFFICES ASSUME FactsInv, phase = "sweep"
               PROVE  Sweeps!NoDominatorLost
    BY DEF NoDominatorLost
  <2>1. CASE Searched
    BY <2>1, SweepsReady, SweepsP!SweepPromises, SameSweeps, FlowGraphAssumption
    DEF Block, SweepsP!Block
  <2>2. CASE Sweeps!Begin
    BY <2>2, FlowGraphAssumption
    DEF Sweeps!Begin, Sweeps!NoDominatorLost, Sweeps!Block, Sweeps!None, Block
  <2> QED
    BY <2>1, <2>2 DEF FactsInv
<1> QED
  BY <1>1, Facts, PTL

\* What the sweeps settle on is the immediate dominator of every block.
THEOREM DominatorsFound == Spec => []IdomCorrect
<1>1. FactsInv => IdomCorrect
  <2> SUFFICES ASSUME FactsInv, phase = "done"
               PROVE  Sweeps!IdomCorrect
    BY DEF IdomCorrect, Swept
  <2>1. Searched
    BY DEF FactsInv, Sweeps!Begin
  <2> QED
    BY <2>1, SweepsReady, SweepsP!SweepPromises, SameSweeps, FlowGraphAssumption
    DEF Block, SweepsP!Block
<1> QED
  BY <1>1, Facts, PTL

\* Once the tree is numbered, two comparisons answer dominance.
THEOREM QueriesAnswered == Spec => []QueryAnswersDominance
<1>1. FactsInv => QueryAnswersDominance
  BY TreeReady, TreeP!TreeShows, SameTree, FlowGraphAssumption
  DEF QueryAnswersDominance, Block, TreeP!Block
<1> QED
  BY <1>1, Facts, PTL

\* The scan finds the edges into a dominator, and a witness of irreducibility
\* exactly when some cycle has none of them.
THEOREM EdgesSortedRight == Spec => []EdgesSorted
<1>1. FactsInv => EdgesSorted
  BY TreeReady, TreeP!TreeShows, SameTree, FlowGraphAssumption
  DEF EdgesSorted, Block, TreeP!Block
<1> QED
  BY <1>1, Facts, PTL

\* The loops hold the blocks that reach a latch around the header, and only
\* those.
THEOREM LoopsAreNatural == Spec => []LoopsNatural
<1>1. FactsInv => LoopsNatural
  <2> SUFFICES ASSUME FactsInv, building \in {"nest", "built"}
               PROVE  Forest!LoopsNatural
    BY DEF LoopsNatural
  <2>1. ForestP!ForestInv
    BY DEF FactsInv, Forest!Begin
  <2> QED
    BY <2>1, SameForest, ForestP!ForestShows, FlowGraphAssumption DEF Block, ForestP!Block
<1> QED
  BY <1>1, Facts, PTL

\* Loops that share a block are nested, and parents, depths and innermost loops
\* describe that nesting.
THEOREM LoopsAreNested == Spec => []LoopsNest
<1>1. FactsInv => LoopsNest
  <2> SUFFICES ASSUME FactsInv, building \in {"depth", "built"}
               PROVE  Forest!Laminar /\ Forest!DepthCounts /\ Forest!InnermostInside
    BY DEF LoopsNest
  <2>1. ForestP!ForestInv
    BY DEF FactsInv, Forest!Begin
  <2> QED
    BY <2>1, SameForest, ForestP!ForestShows, FlowGraphAssumption DEF Block, ForestP!Block
<1> QED
  BY <1>1, Facts, PTL
=============================================================================
