------------------------------- MODULE Regions -------------------------------
(***************************************************************************)
(* Region trees (sordec-ir, high/region.rs) and the checks the validator   *)
(* makes on them (sordec-ir, validate.rs).  All regions have one shape:    *)
(*                                                                         *)
(*   [kind, label, reads, parts, cases, transfer]                          *)
(*                                                                         *)
(* `label` is the block the region is about: its contents, its scope's     *)
(* merge block, its loop's header, a branch's target, or the block whose   *)
(* terminator an "if", a "switch", a "return" or an "unreachable" is.      *)
(* `reads` holds the condition, the switch index or the returned values;   *)
(* cases[i] the terminator slots that lead to parts[i], a switch's default *)
(* last; `transfer` the <<parameter, argument>> pairs of an edge.          *)
(***************************************************************************)
EXTENDS LiftedIR

Region(kind, label, parts) ==
    [kind |-> kind, label |-> label, reads |-> <<>>, parts |-> parts,
     cases |-> <<>>, transfer |-> <<>>]

NoBlock == 0

Basic(b) == Region("basic", b, <<>>)

Scope(out, body) == Region("scope", out, <<body>>)

Loop(header, body) == Region("loop", header, <<body>>)

\* If and Switch: the selector of block b chooses a part.
Select(kind, b, reads, cases, parts) ==
    [Region(kind, b, parts) EXCEPT !.reads = reads, !.cases = cases]

\* Break, Continue and Transfer
Edge(kind, target, transfer) ==
    [Region(kind, target, <<>>) EXCEPT !.transfer = transfer]

\* Return and Unreachable
End(kind, b, reads) == [Region(kind, b, <<>>) EXCEPT !.reads = reads]

Unstructured == Region("unstructured", Entry, <<>>)

\* The canonical sequence (walk.rs, seq): nested sequences are spliced in and
\* one item stands for itself.
Sequence(items) ==
    LET flat == FlattenSeq(Map(items, LAMBDA r : IF r.kind = "sequence"
                                                 THEN r.parts ELSE <<r>>))
    IN  IF Len(flat) = 1 THEN flat[1] ELSE Region("sequence", NoBlock, flat)

-----------------------------------------------------------------------------
(* Walks and checks *)

\* for_each_node: every region of the tree, a node before its parts.
RECURSIVE Nodes(_)
Nodes(r) == <<r>> \o FlattenSeq(Map(r.parts, Nodes))

\* The blocks in the order the tree emits them.
Emitted(r) ==
    Map(SelectSeq(Nodes(r), LAMBDA n : n.kind = "basic"), LAMBDA n : n.label)

\* check_region_structure: every Break is inside the scope, and every Continue
\* inside the loop, that it names.
RECURSIVE LabelsEnclosed(_, _)
LabelsEnclosed(r, open) ==
    /\ r.kind = "break" => <<"scope", r.label>> \in open
    /\ r.kind = "continue" => <<"loop", r.label>> \in open
    /\ LET inside == IF r.kind \in {"scope", "loop"}
                     THEN open \cup {<<r.kind, r.label>>} ELSE open
       IN  \A i \in DOMAIN r.parts : LabelsEnclosed(r.parts[i], inside)
=============================================================================
