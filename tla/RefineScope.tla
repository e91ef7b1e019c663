---------------------------- MODULE RefineScope ----------------------------
(***************************************************************************)
(* The two refinements that do away with labels, in this order             *)
(* (sordec-passes, refine/scope_fallthrough.rs and scope_if_else.rs).      *)
(***************************************************************************)
EXTENDS RefineFold

\* redeclares: a scope in r has the same label.
Redeclares(out, r) ==
    \E n \in ToSet(Nodes(r)) : n.kind = "scope" /\ n.label = out

\* A Break out of where control leaves anyway only assigns.
FallsOut(s) == Rewritten(s, [s.r EXCEPT !.kind = "transfer"])

-----------------------------------------------------------------------------
(* scope_fallthrough.rs *)

\* Faulty: every item of a sequence counts as its last.
AtTail_AnyItem(i, items) == TRUE

\* Only the last item of a sequence is a tail exit: what follows another is
\* what a Break there skips.
AtTail(i, items) == i = Len(items)

\* elide_tail_exits: the Breaks out of r that are the last thing on their
\* path through it.
RECURSIVE ElideTailExits(_, _)
ElideTailExits(out, s) ==
    LET Inside(u) == ElideTailExits(out, u)
        items == s.r.parts
        Item(t, i) ==
            LET u == IF AtTail(i, items) THEN Inside(Kept(t, items[i])) ELSE Kept(t, items[i])
            IN  Kept(u, [t.r EXCEPT !.parts = Append(@, u.r)])
        t == FoldLeft(Item, Kept(s, [s.r EXCEPT !.parts = <<>>]), [i \in DOMAIN items |-> i])
    IN  CASE s.r.kind = "break" /\ s.r.label = out -> FallsOut(s)
          [] s.r.kind = "sequence" -> Kept(t, Canonical(t.r))
          [] s.r.kind \in {"if", "switch", "scope"} -> OnParts(Inside, s)
          [] OTHER -> s

\* Faulty: a label that stays counts as a change.
RefineScope_CountsLabels(s) ==
    LET out == s.r.label
        t == ElideTailExits(out, Kept(s, s.r.parts[1]))
    IN  IF t.n > s.n /\ BreaksTo(out, t.r) = 0 THEN t ELSE Rewritten(t, Scope(out, t.r))

\* refine_scope: a scope goes with its last Break.
RefineScope(s) ==
    LET out == s.r.label
        body == s.r.parts[1]
        t == ElideTailExits(out, Kept(s, body))
    IN  IF Redeclares(out, body) THEN s
        ELSE IF t.n > s.n /\ BreaksTo(out, t.r) = 0 THEN t
        ELSE Kept(t, Scope(out, t.r))

\* elide
RECURSIVE Elide(_)
Elide(s) ==
    LET t == OnParts(Elide, s)
    IN  IF s.r.kind = "scope" THEN RefineScope(t) ELSE Kept(t, Canonical(t.r))

ScopeFallthrough(p) == OnFunctions(p, LAMBDA f : Refined(f, Elide))

-----------------------------------------------------------------------------
(* scope_if_else.rs *)

\* tail_break_to: r ends in a Break out of the scope.
RECURSIVE TailBreakTo(_, _)
TailBreakTo(out, r) ==
    \/ r.kind = "break" /\ r.label = out
    \/ r.kind = "sequence" /\ r.parts # <<>> /\ TailBreakTo(out, Last(r.parts))

\* drop_tail_break
RECURSIVE DropTailBreak(_, _)
DropTailBreak(out, r) ==
    CASE r.kind = "break" /\ r.label = out -> [r EXCEPT !.kind = "transfer"]
      [] r.kind = "sequence" /\ r.parts # <<>> ->
             Sequence(Append(Front(r.parts), DropTailBreak(out, Last(r.parts))))
      [] OTHER -> r

\* is_guard_for
IsGuardFor(out, r) == r.kind = "if" /\ Len(r.parts) = 1 /\ TailBreakTo(out, r.parts[1])

\* Faulty: the scope goes with the first of its Breaks.
LabelStays_Never(out, body) == FALSE

\* Other Breaks still name the scope.
LabelStays(out, body) == BreaksTo(out, body) > 1

\* recover: what a Break skips becomes the else of the branch it is in.  The
\* result says whether the label is still needed; "unchanged" is Err(body).
RECURSIVE Recover(_, _)
Recover(out, body) ==
    LET items == body.parts
        n == Len(items)
        guards == {i \in 1 .. n : IsGuardFor(out, items[i])}
        at == Min(guards)
        guard == items[at]
        rebuilt == [guard EXCEPT !.parts =
                       <<DropTailBreak(out, @[1]), Sequence(SubSeq(items, at + 1, n))>>]
        inArms == Map(items[n].parts, LAMBDA arm : Recover(out, arm))
        descended == [items[n] EXCEPT !.parts = Map(inArms, LAMBDA a : a.r)]
        Outcome(kind, r) == [kind |-> kind, r |-> r]
    IN  CASE BreaksTo(out, body) = 0 \/ Redeclares(out, body) \/ body.kind # "sequence" ->
                 Outcome("unchanged", body)
          [] guards = {} ->
                 IF /\ n > 0 /\ items[n].kind = "if"
                    /\ \E a \in ToSet(inArms) : a.kind # "unchanged"
                 THEN Outcome("kept", Sequence(Append(Front(items), descended)))
                 ELSE Outcome("unchanged", body)
          [] at = n -> Outcome("unchanged", body)
          [] OTHER -> Outcome(IF LabelStays(out, body) THEN "kept" ELSE "inlined",
                              Sequence(Append(SubSeq(items, 1, at - 1), rebuilt)))

\* rewrite
RECURSIVE RecoverScopes(_)
RecoverScopes(s) ==
    LET t == OnParts(RecoverScopes, s)
        done == Recover(s.r.label, t.r.parts[1])
    IN  IF s.r.kind # "scope" THEN Kept(t, Canonical(t.r))
        ELSE CASE done.kind = "inlined" -> Rewritten(t, done.r)
               [] done.kind = "kept" -> Rewritten(t, Scope(s.r.label, done.r))
               [] done.kind = "unchanged" -> t

ScopeIfElse(p) == OnFunctions(p, LAMBDA f : Refined(f, RecoverScopes))
=============================================================================
