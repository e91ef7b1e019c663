------------------------------ MODULE MCFacts ------------------------------
(***************************************************************************)
(* Lifted functions with the facts of their graphs (CfgFacts), as the      *)
(* structurer receives them: the order the search of DepthFirst publishes  *)
(* for each graph and its immediate dominators by their definition.        *)
(***************************************************************************)
EXTENDS LiftedIR

G == INSTANCE FlowGraph

\* The loop of DepthFirst, run to its end.
RECURSIVE Search(_, _, _, _)
Search(g, stack, visited, postorder) ==
    IF stack = <<>>
    THEN [i \in 1 .. Len(postorder) |-> postorder[Len(postorder) + 1 - i]]
    ELSE LET n == Len(stack)
             b == stack[n].block
             advanced == [stack EXCEPT ![n].next = @ + 1]
             s == g[b][stack[n].next]
         IN  IF stack[n].next > Len(g[b])
             THEN Search(g, SubSeq(stack, 1, n - 1), visited, Append(postorder, b))
             ELSE IF s \in visited THEN Search(g, advanced, visited, postorder)
             ELSE Search(g, Append(advanced, [block |-> s, next |-> 1]),
                         visited \cup {s}, postorder)

OrderOf(g) == Search(g, <<[block |-> Entry, next |-> 1]>>, {Entry}, <<>>)

IdomsOf(g, order) ==
    LET blocks == G!Elements(order)
        strict == {p \in blocks \X blocks : p[1] # p[2] /\ G!Dominates(g, p[1], p[2])}
    IN  [b \in G!Block |->
            IF b \notin blocks \ {Entry} THEN G!None
            ELSE CHOOSE d \in blocks :
                    /\ <<d, b>> \in strict
                    /\ \A e \in blocks \ {d} : <<e, b>> \in strict => <<e, d>> \in strict]

\* The successors of a block as CfgFacts lists them: for_each_target names a
\* switch's default first, and a block named twice is listed once.
Listed(exit) ==
    LET n == Len(exit.targets)
        raw == IF exit.kind = "switch"
               THEN <<exit.targets[n]>> \o SubSeq(exit.targets, 1, n - 1)
               ELSE exit.targets
    IN  FlattenSeq([i \in 1 .. n |->
            IF \E j \in 1 .. i - 1 : raw[j].block = raw[i].block
            THEN <<>> ELSE <<raw[i].block>>])

FactsOf(f) ==
    LET g == Map(f.block, LAMBDA b : Listed(b.exit))
        order == OrderOf(g)
    IN  [rpo |-> order, idom |-> IdomsOf(g, order)]

WithFacts(fs) == {[f |-> f, cfg |-> FactsOf(f)] : f \in fs}
=============================================================================
