--------------------------- MODULE PipelineProofs ---------------------------
(***************************************************************************)
(* Theorems about Pipeline for every set of passes, IR and manifests that  *)
(* meets its three assumptions: type correctness, the invariant behind     *)
(* any_changed, convergence of every group the run leaves, that the loop   *)
(* implements Convergence, and that what ran is what the manifest says.    *)
(***************************************************************************)
EXTENDS Pipeline, FiniteSetTheorems, TLAPS

-----------------------------------------------------------------------------
(* Lemmas about manifests *)

\* The pass of a slot has a name.
LEMMA SlotPass ==
    ASSUME NEW m \in Manifest, NEW s \in Slots(m)
    PROVE  PassAt(m, s) \in PassName
<1>1. m.passes \in Seq(PassName)
  BY ManifestAssumption
<1>2. s + 1 \in 1 .. Len(m.passes)
  BY <1>1 DEF Slots
<1> QED
  BY <1>1, <1>2 DEF PassAt

\* In a manifest Pipeline::new accepts, the group found at a slot starts
\* there, is not empty, and lies inside the pass list.
LEMMA GroupFacts ==
    ASSUME NEW m \in Manifest, GroupsWellFormed(m),
           NEW i \in Nat, StartsGroup(m, i)
    PROVE  /\ GroupAt(m, i) \in Groups(m)
           /\ GroupAt(m, i) \in GroupRange
           /\ GroupAt(m, i).first = i
           /\ GroupAt(m, i).end \in Nat
           /\ i < GroupAt(m, i).end
           /\ GroupAt(m, i).end <= Len(m.passes)
<1>1. GroupAt(m, i) \in Groups(m) /\ GroupAt(m, i).first = i
  BY DEF StartsGroup, GroupAt
<1>2. m.groups \in Seq(GroupRange)
  BY ManifestAssumption
<1>3. GroupAt(m, i) \in GroupRange
  BY <1>1, <1>2 DEF Groups
<1> QED
  BY <1>1, <1>3 DEF GroupsWellFormed, GroupRange

\* A list of passes has a length.
LEMMA PassCount ==
    ASSUME NEW m \in Manifest
    PROVE  Len(m.passes) \in Nat
BY ManifestAssumption

-----------------------------------------------------------------------------
(* Type correctness *)

\* A pipeline about to be built has its cursors at the start.
THEOREM InitTyped == Init => TypeOK
<1> SUFFICES ASSUME Init PROVE TypeOK
  OBVIOUS
<1>1. 0 \in 0 .. Len(manifest.passes)
  BY PassCount DEF Init
<1>2. perPass \in Seq(LogEntry) /\ fixpointIterations \in Seq(Nat)
  BY DEF Init
<1> QED
  BY <1>1, <1>2 DEF Init, TypeOK, Phase

\* Every step keeps the cursors inside the manifest and inside the group.
THEOREM StepTyped == TypeOK /\ [Next]_vars => TypeOK'
<1> SUFFICES ASSUME TypeOK, [Next]_vars PROVE TypeOK'
  OBVIOUS
<1> USE DEF TypeOK, Phase
<1>0. Len(manifest.passes) \in Nat
  BY PassCount
<1>1. CASE New
  BY <1>1 DEF New
<1>2. CASE Panic
  BY <1>2 DEF Panic
<1>3. ASSUME NEW s \in Slots(manifest), Invoke(s)
      PROVE  ir' \in IR /\ perPass' \in Seq(LogEntry)
  <2>1. PassAt(manifest, s) \in PassName
    BY SlotPass
  <2>2. Run(PassAt(manifest, s), ir) \in PassResult
    BY <2>1, RunAssumption
  <2> QED
    BY <1>3, <2>1, <2>2 DEF Invoke, PassResult, LogEntry
<1>4. CASE RunOnce
  <2>1. idx \in Slots(manifest)
    BY <1>4, <1>0 DEF RunOnce, Slots
  <2>2. ir' \in IR /\ perPass' \in Seq(LogEntry)
    BY <1>3, <1>4, <2>1 DEF RunOnce
  <2>3. idx + 1 \in 0 .. Len(manifest.passes)
    BY <1>0, <2>1 DEF Slots
  <2> QED
    BY <1>4, <2>2, <2>3 DEF RunOnce
<1>5. CASE EnterGroup
  <2>1. idx <= GroupAt(manifest, idx).end
    BY <1>5, <1>0, GroupFacts DEF EnterGroup, Accepted
  <2>2. anyChanged' \in BOOLEAN
    BY <1>5 DEF EnterGroup
  <2>3. idx <= idx
    BY <1>0
  <2> QED
    BY <1>5, <2>1, <2>2, <2>3 DEF EnterGroup
<1>6. CASE RunSlot
  <2>1. /\ GroupAt(manifest, idx).end \in Nat
        /\ GroupAt(manifest, idx).end <= Len(manifest.passes)
    BY <1>6, <1>0, GroupFacts DEF RunSlot, Accepted
  <2>2. slot \in Slots(manifest)
    BY <1>0, <1>6, <2>1 DEF RunSlot, Slots
  <2>3. ir' \in IR /\ perPass' \in Seq(LogEntry)
    BY <1>3, <1>6, <2>2 DEF RunSlot
  <2>4. /\ slot + 1 \in 0 .. Len(manifest.passes)
        /\ idx <= slot + 1
        /\ slot + 1 <= GroupAt(manifest, idx).end
    BY <1>0, <1>6, <2>1 DEF RunSlot
  <2>5. anyChanged' \in BOOLEAN
    BY <1>6 DEF RunSlot
  <2> QED
    BY <1>6, <2>3, <2>4, <2>5 DEF RunSlot
<1>7. CASE Repeat
  <2>1. idx <= GroupAt(manifest, idx).end
    BY <1>7, <1>0, GroupFacts DEF Repeat, Accepted
  <2>2. anyChanged' \in BOOLEAN
    BY <1>7 DEF Repeat
  <2>3. idx <= idx
    BY <1>0
  <2> QED
    BY <1>7, <2>1, <2>2, <2>3 DEF Repeat
<1>8. CASE LeaveGroup
  <2>1. GroupAt(manifest, idx).end \in 0 .. Len(manifest.passes)
    BY <1>8, <1>0, GroupFacts DEF LeaveGroup, Accepted
  <2> QED
    BY <1>0, <1>8, <2>1 DEF LeaveGroup
<1>9. CASE Finish
  BY <1>9 DEF Finish
<1>10. CASE Halted
  BY <1>10 DEF Halted, vars
<1>11. CASE UNCHANGED vars
  BY <1>11 DEF vars
<1> QED
  BY <1>1, <1>2, <1>4, <1>5, <1>6, <1>7, <1>8, <1>9, <1>10, <1>11 DEF Next

\* The cursors never leave the manifest nor, in a group, the group; control
\* is past Pipeline::new only for an accepted manifest.
THEOREM Typed == Spec => []TypeOK
BY InitTyped, StepTyped, PTL DEF Spec

-----------------------------------------------------------------------------
(* Convergence *)

\* What any_changed stands for is preserved by every step: a pass reporting
\* no change left the IR as it found it, so the passes before it in the
\* iteration are still settled.
THEOREM StepQuiet == TypeOK /\ QuietPrefix /\ [Next]_vars => QuietPrefix'
<1> SUFFICES ASSUME TypeOK, QuietPrefix, [Next]_vars,
                    phase' = "group", ~anyChanged',
                    NEW s \in idx' .. slot' - 1
             PROVE  Settled(PassAt(manifest', s), ir')
  BY DEF QuietPrefix, Settled
<1> USE DEF TypeOK
<1>1. CASE RunSlot
  <2> DEFINE p == PassAt(manifest, slot)
  <2>1. /\ GroupAt(manifest, idx).end \in Nat
        /\ GroupAt(manifest, idx).end <= Len(manifest.passes)
    BY <1>1, GroupFacts DEF RunSlot, Accepted
  <2>2. slot \in Slots(manifest)
    BY <1>1, <2>1, PassCount DEF RunSlot, Slots
  <2>3. p \in PassName
    BY <2>2, SlotPass
  <2>4. Run(p, ir) \in PassResult
    BY <2>3, RunAssumption
  <2>5. ~anyChanged /\ ~Run(p, ir).changed
    BY <1>1 DEF RunSlot
  <2>6. Run(p, ir) = [ir |-> ir, changed |-> FALSE]
    BY <2>3, <2>4, <2>5, HonestAssumption DEF PassResult
  <2>7. ir' = ir
    BY <1>1, <2>6 DEF RunSlot, Invoke
  <2>8. CASE s = slot
    BY <1>1, <2>6, <2>7, <2>8 DEF RunSlot, Settled
  <2>9. CASE s \in idx .. slot - 1
    <3>1. Settled(PassAt(manifest, s), ir)
      BY <1>1, <2>5, <2>9 DEF RunSlot, QuietPrefix
    <3> QED
      BY <1>1, <2>7, <3>1 DEF RunSlot, Settled
  <2> QED
    BY <1>1, <2>2, <2>8, <2>9 DEF RunSlot, Slots
<1>2. CASE EnterGroup \/ Repeat
  <2>1. idx' = slot' /\ idx' \in Nat
    BY <1>2, PassCount DEF EnterGroup, Repeat
  <2>2. \A i \in Nat : i .. i - 1 = {}
    OBVIOUS
  <2>3. idx' .. slot' - 1 = {}
    BY <2>1, <2>2, Zenon
  <2> QED
    BY <2>3
<1>3. CASE UNCHANGED vars \/ Halted
  BY <1>3 DEF Halted, vars, QuietPrefix, Settled
<1> QED
  BY <1>1, <1>2, <1>3
  DEF Next, New, Panic, RunOnce, LeaveGroup, Finish

\* While any_changed is down, the part of the iteration already run is settled.
THEOREM Quiet == Spec => []QuietPrefix
<1>1. Init => QuietPrefix
  BY DEF Init, QuietPrefix
<1> QED
  BY <1>1, StepQuiet, Typed, PTL DEF Spec

\* The state a group is left in.
LEMMA GroupSettled ==
    ASSUME TypeOK, QuietPrefix, LeaveGroup
    PROVE  \A s \in SlotsOf(GroupAt(manifest, idx)) :
               Settled(PassAt(manifest, s), ir)
<1> USE DEF TypeOK
<1>1. /\ GroupAt(manifest, idx).first = idx
      /\ GroupAt(manifest, idx).end \in Nat
      /\ slot = GroupAt(manifest, idx).end
  BY GroupFacts DEF LeaveGroup, Accepted
<1> QED
  BY <1>1 DEF LeaveGroup, QuietPrefix, SlotsOf

\* A group is left only at a common fixpoint of all its passes.
THEOREM Converges == Spec => LeavesAtFixpoint
<1> DEFINE A == (phase = "group" /\ phase' = "dispatch") =>
                    \A s \in SlotsOf(GroupAt(manifest, idx)) :
                        Settled(PassAt(manifest, s), ir')
<1>1. ASSUME TypeOK, QuietPrefix, [Next]_vars
      PROVE  [A]_vars
  <2> SUFFICES ASSUME phase = "group", phase' = "dispatch"
               PROVE  \A s \in SlotsOf(GroupAt(manifest, idx)) :
                          Settled(PassAt(manifest, s), ir')
    OBVIOUS
  <2>1. LeaveGroup
    BY <1>1 DEF Next, New, Panic, RunOnce, EnterGroup, RunSlot, Repeat,
                Finish, Halted, vars
  <2>2. ir' = ir
    BY <2>1 DEF LeaveGroup
  <2> QED
    BY <1>1, <2>1, <2>2, GroupSettled DEF Settled
<1> QED
  BY <1>1, Typed, Quiet, PTL DEF Spec, LeavesAtFixpoint

-----------------------------------------------------------------------------
(* Refinement *)

LEMMA InitMaps == Init => Abstract!Init
BY DEF Init, Abstract!Init, Outcome

\* The group the loop is in is the abstract group at the frontier.
LEMMA GroupMaps ==
    ASSUME TypeOK, phase = "group"
    PROVE  LET g == GroupAt(manifest, idx)
           IN  /\ g \in [first : {idx}, end : idx + 1 .. Len(manifest.passes)]
               /\ Abstract!IsGroup(g)
<1> DEFINE g == GroupAt(manifest, idx)
<1>1. idx \in Nat /\ Len(manifest.passes) \in Nat
  BY PassCount DEF TypeOK
<1>2. /\ g \in Groups(manifest)
      /\ g \in GroupRange
      /\ g.first = idx
      /\ idx < g.end
      /\ g.end <= Len(manifest.passes)
  BY <1>1, GroupFacts DEF TypeOK, Accepted
<1>3. g.end \in idx + 1 .. Len(manifest.passes)
  BY <1>1, <1>2 DEF GroupRange
<1>4. g \in [first : {idx}, end : idx + 1 .. Len(manifest.passes)]
  BY <1>2, <1>3 DEF GroupRange
<1>5. Abstract!IsGroup(g)
  BY <1>2 DEF Groups, Abstract!IsGroup
<1> QED
  BY <1>4, <1>5

\* Entering a group and repeating it are stutters of Convergence; every
\* other step is one of its steps.
LEMMA StepMaps ==
    TypeOK /\ QuietPrefix /\ [Next]_vars => [Abstract!Next]_(Abstract!vars)
<1> SUFFICES ASSUME TypeOK, QuietPrefix, [Next]_vars
             PROVE  [Abstract!Next]_(Abstract!vars)
  OBVIOUS
<1> USE DEF Abstract!vars, Outcome
<1>1. CASE New
  BY <1>1 DEF New, Abstract!Next, Abstract!Accept
<1>2. CASE Panic
  <2>1. Outcome = "pending" /\ Outcome' = "panicked"
    BY <1>2 DEF Panic
  <2>2. UNCHANGED <<manifest, ir, idx>>
    BY <1>2 DEF Panic
  <2>3. idx = 0
    BY <1>2 DEF Panic, TypeOK
  <2> QED
    BY <2>1, <2>2, <2>3 DEF Abstract!Next, Abstract!Refuse
<1>3. CASE RunOnce
  <2>1. ~ \E k \in DOMAIN manifest.groups : manifest.groups[k].first = idx
    BY <1>3 DEF RunOnce, StartsGroup, Groups
  <2> QED
    BY <1>3, <2>1
    DEF RunOnce, Invoke, PassAt, Abstract!Next, Abstract!Apply, Abstract!Pass
<1>4. CASE RunSlot
  <2> DEFINE g == GroupAt(manifest, idx)
  <2>1. phase = "group" /\ phase' = "group"
    BY <1>4 DEF RunSlot
  <2>2. /\ g \in [first : {idx}, end : idx + 1 .. Len(manifest.passes)]
        /\ Abstract!IsGroup(g)
    BY <2>1, GroupMaps
  <2>3. slot \in g.first .. g.end - 1
    <3>1. /\ slot \in Nat /\ idx \in Nat /\ g.end \in Nat /\ g.first = idx
          /\ idx <= slot
      BY <2>1, <2>2, PassCount DEF TypeOK
    <3>2. slot < g.end
      BY <1>4 DEF RunSlot
    <3> QED
      BY <3>1, <3>2
  <2>4. ir' = Run(Abstract!Pass(slot), ir).ir
    BY <1>4 DEF RunSlot, Invoke, PassAt, Abstract!Pass
  <2>5. UNCHANGED <<manifest, Outcome, idx>>
    BY <1>4, <2>1 DEF RunSlot
  <2>6. Abstract!Work
    BY <2>1, <2>2, <2>3, <2>4, <2>5 DEF Abstract!Work
  <2> QED
    BY <2>6 DEF Abstract!Next
<1>5. CASE LeaveGroup
  <2> DEFINE g == GroupAt(manifest, idx)
  <2>1. phase = "group" /\ phase' = "dispatch"
    BY <1>5 DEF LeaveGroup
  <2>2. /\ g \in [first : {idx}, end : idx + 1 .. Len(manifest.passes)]
        /\ Abstract!IsGroup(g)
    BY <2>1, GroupMaps
  <2>3. \A s \in g.first .. g.end - 1 : Run(PassAt(manifest, s), ir).ir = ir
    BY <1>5, GroupSettled DEF SlotsOf, Settled
  <2>4. Abstract!Settled(g)
    BY <2>3 DEF PassAt, Abstract!Settled, Abstract!Pass
  <2>5. UNCHANGED <<manifest, Outcome, ir>> /\ idx' = g.end
    BY <1>5, <2>1 DEF LeaveGroup
  <2>6. Abstract!Converge
    BY <2>1, <2>2, <2>4, <2>5 DEF Abstract!Converge
  <2> QED
    BY <2>6 DEF Abstract!Next
<1>6. CASE Finish
  <2>1. idx = Len(manifest.passes)
    BY <1>6, PassCount DEF Finish, TypeOK
  <2> QED
    BY <1>6, <2>1 DEF Finish, Abstract!Next, Abstract!Return
<1>7. CASE EnterGroup \/ Repeat
  BY <1>7 DEF EnterGroup, Repeat
<1>8. CASE Halted \/ UNCHANGED vars
  BY <1>8 DEF Halted, vars
<1> QED
  BY <1>1, <1>2, <1>3, <1>4, <1>5, <1>6, <1>7, <1>8 DEF Next

\* The loop with its cursors, flag and counters implements Convergence.
THEOREM Refines == Spec => Implements
BY InitMaps, StepMaps, Typed, Quiet, PTL DEF Spec, Implements, Abstract!Spec

-----------------------------------------------------------------------------
(* What ran is what the manifest says: the invariant behind ManifestRuns *)

\* How often the pass of slot s is in a log of manifest m.
Ran(m, log, s) == Cardinality({k \in DOMAIN log : log[k].pass = PassAt(m, s)})

\* The groups that start before slot i.
FirstBefore(m, i) == {h \in Groups(m) : h.first < i}

Started == phase \in {"dispatch", "group", "finished"}

\* The first slot that cannot have run yet.
Frontier == IF phase = "group" THEN GroupAt(manifest, idx).end ELSE idx

\* The outer cursor is never inside a group.
GroupsWhole == \A g \in Groups(manifest) : g.end <= idx \/ idx <= g.first

Ahead == \A s \in Slots(manifest) : s >= Frontier => Ran(manifest, perPass, s) = 0

Singles ==
    \A s \in Slots(manifest) :
        s < idx /\ ~Grouped(s) => Ran(manifest, perPass, s) = 1

\* The passes of a group the loop has left ran equally often.
Rounds ==
    \A g \in Groups(manifest) :
        g.end <= idx =>
            /\ Ran(manifest, perPass, g.first) > 0
            /\ \A s \in SlotsOf(g) :
                  Ran(manifest, perPass, s) = Ran(manifest, perPass, g.first)

\* Inside a group the counter says how often each of its passes ran.
Round ==
    phase = "group" =>
        /\ iterations > 0
        /\ \A s \in SlotsOf(GroupAt(manifest, idx)) :
              Ran(manifest, perPass, s) =
                  IF s < slot THEN iterations ELSE iterations - 1

\* One entry of the report per group left, in the order of the groups' slots.
Reported ==
    /\ Len(fixpointIterations) = Cardinality(FirstBefore(manifest, idx))
    /\ \A g \in Groups(manifest) :
        g.end <= idx =>
            fixpointIterations[Cardinality(FirstBefore(manifest, g.first + 1))] =
                Ran(manifest, perPass, g.first)

Counted == GroupsWhole /\ Ahead /\ Singles /\ Rounds /\ Round /\ Reported

\* Slot t may come after slot s, the place of entry k: LogWalksManifest.
Follows(m, log, k, s, t) ==
    \/ t = s + 1
    \/ \E g \in Groups(m) :
          /\ s = g.end - 1 /\ t = g.first
          /\ \E l \in 1 .. k : l > k - (g.end - g.first) /\ log[l].changed

\* LogWalksManifest with the slots bound instead of chosen.
Walks(m, log) ==
    \A k \in 1 .. Len(log) - 1 : \A s, t \in Slots(m) :
        PassAt(m, s) = log[k].pass /\ PassAt(m, t) = log[k + 1].pass =>
            Follows(m, log, k, s, t)

\* One of the last n invocations reported a change.
ChangedWithin(log, n) == \E l \in DOMAIN log : l > Len(log) - n /\ log[l].changed

\* The last pass that ran is the one before slot c.
EndsBefore(m, log, c) ==
    log = <<>> \/ (c > 0 /\ log[Len(log)].pass = PassAt(m, c - 1))

Known(m, log) == \A k \in DOMAIN log : \E s \in Slots(m) : PassAt(m, s) = log[k].pass

\* The end of the log fits the cursor, and any_changed the end of the log.
CursorFits ==
    /\ phase # "group" => EndsBefore(manifest, perPass, idx)
    /\ phase = "group" =>
        /\ anyChanged => ChangedWithin(perPass, slot - idx)
        /\ slot > idx \/ iterations = 1 => EndsBefore(manifest, perPass, slot)
        /\ slot = idx /\ iterations > 1 =>
            /\ EndsBefore(manifest, perPass, GroupAt(manifest, idx).end)
            /\ ChangedWithin(perPass, GroupAt(manifest, idx).end - idx)

Walked == Known(manifest, perPass) /\ Walks(manifest, perPass) /\ CursorFits

LogInv ==
    /\ ~Started => perPass = <<>> /\ fixpointIterations = <<>>
    /\ Started => Counted /\ Walked
    /\ phase = "finished" => idx = Len(manifest.passes)

-----------------------------------------------------------------------------
(* Lemmas about logs and groups *)

\* A count of log entries is a number.
LEMMA RanType ==
    ASSUME NEW m, NEW log \in Seq(LogEntry), NEW s
    PROVE  Ran(m, log, s) \in Nat
<1> DEFINE S == {k \in DOMAIN log : log[k].pass = PassAt(m, s)}
<1>1. PICK n \in Nat : DOMAIN log = 1 .. n
  OBVIOUS
<1>2. IsFiniteSet(1 .. n)
  BY <1>1, FS_Interval
<1>3. S \in SUBSET (1 .. n)
  BY <1>1
<1>4. IsFiniteSet(S)
  BY <1>2, <1>3, FS_Subset
<1> QED
  BY <1>4, FS_CardinalityType DEF Ran

\* Nothing ran before the run starts.
LEMMA RanEmpty ==
    ASSUME NEW m, NEW s
    PROVE  Ran(m, <<>>, s) = 0
<1>1. {k \in DOMAIN <<>> : <<>>[k].pass = PassAt(m, s)} = {}
  OBVIOUS
<1> QED
  BY <1>1, FS_EmptySet DEF Ran

\* Invoking slot t counts for slot t and, names being unique, for no other.
LEMMA RanAppend ==
    ASSUME NEW m, NamesUnique(m), NEW log \in Seq(LogEntry),
           NEW e \in LogEntry, NEW t \in Slots(m), e.pass = PassAt(m, t),
           NEW s \in Slots(m)
    PROVE  Ran(m, Append(log, e), s) =
               IF s = t THEN Ran(m, log, s) + 1 ELSE Ran(m, log, s)
<1> DEFINE more == Append(log, e)
           S == {k \in DOMAIN log : log[k].pass = PassAt(m, s)}
           T == {k \in DOMAIN more : more[k].pass = PassAt(m, s)}
<1>1. PICK n \in Nat : n = Len(log)
  OBVIOUS
<1>2. /\ DOMAIN log = 1 .. n
      /\ DOMAIN more = 1 .. n + 1
      /\ \A k \in 1 .. n : more[k] = log[k]
      /\ more[n + 1] = e
  BY <1>1
<1>3. IsFiniteSet(S)
  <2>1. IsFiniteSet(1 .. n)
    BY <1>1, FS_Interval
  <2>2. S \in SUBSET (1 .. n)
    BY <1>2
  <2> QED
    BY <2>1, <2>2, FS_Subset
<1>4. n + 1 \notin S
  BY <1>1, <1>2
<1>5. 1 .. n + 1 = (1 .. n) \cup {n + 1}
  BY <1>1
<1>6. CASE s = t
  <2>1. T = S \cup {n + 1}
    BY <1>2, <1>5, <1>6
  <2>2. Cardinality(T) = Cardinality(S) + 1
    BY <1>3, <1>4, <2>1, FS_AddElement
  <2> QED
    BY <1>6, <2>2 DEF Ran
<1>7. CASE s # t
  <2>1. PassAt(m, s) # PassAt(m, t)
    BY <1>7 DEF NamesUnique
  <2>2. T = S
    BY <1>2, <1>5, <2>1
  <2> QED
    BY <1>7, <2>2 DEF Ran
<1> QED
  BY <1>6, <1>7

\* A group of an accepted manifest is a range of its slots, not empty.
LEMMA GroupRanges ==
    ASSUME NEW m \in Manifest, Accepted(m), NEW g \in Groups(m)
    PROVE  /\ g.first \in Nat /\ g.end \in Nat
           /\ g.first < g.end /\ g.end <= Len(m.passes)
           /\ g.first \in SlotsOf(g)
           /\ SlotsOf(g) \subseteq Slots(m)
<1>1. m.groups \in Seq(GroupRange)
  BY ManifestAssumption
<1>2. g \in GroupRange
  BY <1>1 DEF Groups
<1>3. g.first < g.end /\ g.end <= Len(m.passes)
  BY DEF Accepted, GroupsWellFormed
<1>4. Len(m.passes) \in Nat
  BY PassCount
<1> QED
  BY <1>2, <1>3, <1>4 DEF GroupRange, SlotsOf, Slots

\* Of two groups of an accepted manifest one ends before the other starts.
LEMMA GroupsApart ==
    ASSUME NEW m \in Manifest, Accepted(m),
           NEW g \in Groups(m), NEW h \in Groups(m), g # h
    PROVE  g.end <= h.first \/ h.end <= g.first
<1>1. SlotsOf(g) \cap SlotsOf(h) = {}
  BY DEF Groups, Accepted, GroupsWellFormed, GroupsDisjoint
<1>2. /\ g.first \in Nat /\ g.end \in Nat /\ g.first < g.end
      /\ h.first \in Nat /\ h.end \in Nat /\ h.first < h.end
  BY GroupRanges
<1>3. CASE g.first <= h.first
  BY <1>1, <1>2, <1>3 DEF SlotsOf
<1>4. CASE h.first <= g.first
  BY <1>1, <1>2, <1>4 DEF SlotsOf
<1> QED
  BY <1>2, <1>3, <1>4

\* An accepted manifest lists no group twice.
LEMMA GroupCount ==
    ASSUME NEW m \in Manifest, Accepted(m)
    PROVE  IsFiniteSet(Groups(m)) /\ Cardinality(Groups(m)) = Len(m.groups)
<1>1. m.groups \in Seq(GroupRange)
  BY ManifestAssumption
<1>2. PICK n \in Nat : n = Len(m.groups) /\ DOMAIN m.groups = 1 .. n
  BY <1>1
<1>3. m.groups \in [1 .. n -> Groups(m)]
  BY <1>1, <1>2 DEF Groups
<1>4. m.groups \in Surjection(1 .. n, Groups(m))
  BY <1>2, <1>3 DEF Surjection, Groups
<1>5. ASSUME NEW k \in 1 .. n, NEW l \in 1 .. n, m.groups[k] = m.groups[l]
      PROVE  k = l
  <2>1. m.groups[k] \in Groups(m)
    BY <1>2 DEF Groups
  <2>2. m.groups[k].first \in SlotsOf(m.groups[k]) \cap SlotsOf(m.groups[l])
    BY <1>5, <2>1, GroupRanges
  <2> QED
    BY <1>2, <2>2 DEF Accepted, GroupsWellFormed, GroupsDisjoint
<1>6. m.groups \in Injection(1 .. n, Groups(m))
  BY <1>3, <1>5 DEF Injection, IsInjective
<1>7. IsFiniteSet(1 .. n) /\ Cardinality(1 .. n) = n
  BY <1>2, FS_Interval
<1> QED
  BY <1>2, <1>4, <1>6, <1>7, FS_Surjection

\* The groups that start before a slot can be counted, and no more of them
\* start before an earlier one.
LEMMA BeforeCount ==
    ASSUME NEW m \in Manifest, Accepted(m), NEW i \in Nat, NEW j \in Nat, i <= j
    PROVE  /\ IsFiniteSet(FirstBefore(m, i))
           /\ Cardinality(FirstBefore(m, i)) \in Nat
           /\ Cardinality(FirstBefore(m, j)) \in Nat
           /\ Cardinality(FirstBefore(m, i)) <= Cardinality(FirstBefore(m, j))
<1>1. IsFiniteSet(Groups(m))
  BY GroupCount
<1>2. FirstBefore(m, i) \in SUBSET Groups(m) /\ FirstBefore(m, j) \in SUBSET Groups(m)
  BY DEF FirstBefore
<1>3. IsFiniteSet(FirstBefore(m, i)) /\ IsFiniteSet(FirstBefore(m, j))
  BY <1>1, <1>2, FS_Subset
<1>4. FirstBefore(m, i) \in SUBSET FirstBefore(m, j)
  BY GroupRanges DEF FirstBefore
<1>5. Cardinality(FirstBefore(m, i)) <= Cardinality(FirstBefore(m, j))
  BY <1>3, <1>4, FS_Subset
<1> QED
  BY <1>3, <1>5, FS_CardinalityType

\* Past a slot that starts no group the count is the same.
LEMMA BeforeSame ==
    ASSUME NEW m \in Manifest, Accepted(m), NEW i \in Nat, ~StartsGroup(m, i)
    PROVE  FirstBefore(m, i + 1) = FirstBefore(m, i)
<1>1. \A g \in Groups(m) : g.first \in Nat /\ g.first # i
  BY GroupRanges DEF StartsGroup
<1> QED
  BY <1>1 DEF FirstBefore

\* Past a group, or past its first slot, it is one more.
LEMMA BeforeMore ==
    ASSUME NEW m \in Manifest, Accepted(m), NEW g \in Groups(m)
    PROVE  /\ FirstBefore(m, g.first + 1) = FirstBefore(m, g.end)
           /\ Cardinality(FirstBefore(m, g.end)) =
                  Cardinality(FirstBefore(m, g.first)) + 1
<1>1. /\ g.first \in Nat /\ g.end \in Nat /\ g.first < g.end
  BY GroupRanges
<1>2. ASSUME NEW h \in Groups(m), h # g
      PROVE  h.first < g.first \/ h.first >= g.end
  <2>1. h.end <= g.first \/ g.end <= h.first
    BY <1>2, GroupsApart
  <2>2. h.first \in Nat /\ h.end \in Nat /\ h.first < h.end
    BY GroupRanges
  <2> QED
    BY <1>1, <2>1, <2>2
<1>3. \A h \in Groups(m) : h.first \in Nat
  BY GroupRanges
<1>4. FirstBefore(m, g.end) = FirstBefore(m, g.first) \cup {g}
  BY <1>1, <1>2, <1>3 DEF FirstBefore
<1>5. FirstBefore(m, g.first + 1) = FirstBefore(m, g.first) \cup {g}
  BY <1>1, <1>2, <1>3 DEF FirstBefore
<1>6. g \notin FirstBefore(m, g.first)
  BY <1>1 DEF FirstBefore
<1>7. IsFiniteSet(FirstBefore(m, g.first))
  BY <1>1, BeforeCount
<1> QED
  BY <1>4, <1>5, <1>6, <1>7, FS_AddElement

\* In the order of their slots, a group's place among those that start before
\* slot i is a place of the report.
LEMMA BeforePlace ==
    ASSUME NEW m \in Manifest, Accepted(m), NEW g \in Groups(m),
           NEW i \in Nat, g.first < i
    PROVE  Cardinality(FirstBefore(m, g.first + 1)) \in
               1 .. Cardinality(FirstBefore(m, i))
<1>1. g.first \in Nat /\ g.first + 1 \in Nat /\ g.first + 1 <= i
  BY GroupRanges
<1>2. /\ Cardinality(FirstBefore(m, g.first + 1)) \in Nat
      /\ Cardinality(FirstBefore(m, i)) \in Nat
      /\ Cardinality(FirstBefore(m, g.first + 1)) <= Cardinality(FirstBefore(m, i))
  BY <1>1, BeforeCount
<1>3. Cardinality(FirstBefore(m, g.first)) \in Nat
  BY <1>1, BeforeCount
<1>4. Cardinality(FirstBefore(m, g.first + 1)) = Cardinality(FirstBefore(m, g.first)) + 1
  BY BeforeMore
<1> QED
  BY <1>2, <1>3, <1>4

-----------------------------------------------------------------------------
(* The counts *)

\* A pass outside every group: its slot is passed with one run.
LEMMA RunOnceCounted ==
    ASSUME TypeOK, Counted, RunOnce
    PROVE  Counted'
<1> DEFINE m == manifest
           e == [pass |-> PassAt(m, idx), changed |-> Run(PassAt(m, idx), ir).changed]
<1>1. /\ m \in Manifest /\ Accepted(m) /\ NamesUnique(m)
      /\ manifest' = m /\ phase = "dispatch" /\ phase' = "dispatch"
      /\ ~StartsGroup(m, idx) /\ idx' = idx + 1
      /\ fixpointIterations' = fixpointIterations
  BY DEF TypeOK, RunOnce, Accepted
<1>2. /\ Len(m.passes) \in Nat /\ idx \in Nat /\ idx \in Slots(m)
      /\ perPass \in Seq(LogEntry)
  BY <1>1, PassCount DEF TypeOK, RunOnce, Slots
<1>3. e \in LogEntry /\ e.pass = PassAt(m, idx)
  BY <1>1, <1>2, SlotPass, RunAssumption DEF LogEntry, PassResult, TypeOK
<1>4. perPass' = Append(perPass, e)
  BY DEF RunOnce, Invoke
<1>5. \A s \in Slots(m) :
          Ran(m, perPass', s) =
              IF s = idx THEN Ran(m, perPass, s) + 1 ELSE Ran(m, perPass, s)
  BY <1>1, <1>2, <1>3, <1>4, RanAppend
<1>6. \A g \in Groups(m) :
          /\ g.first \in Nat /\ g.end \in Nat /\ g.first < g.end
          /\ g.first \in SlotsOf(g) /\ SlotsOf(g) \subseteq Slots(m)
          /\ g.first # idx
  BY <1>1, GroupRanges DEF StartsGroup
<1>7. \A g \in Groups(m) : g.end <= idx \/ idx + 1 <= g.first
  BY <1>1, <1>2, <1>6 DEF Counted, GroupsWhole
<1>8. \A g \in Groups(m) :
          g.end <= idx + 1 => /\ g.end <= idx
                              /\ \A s \in SlotsOf(g) : s \in Slots(m) /\ s # idx
  BY <1>2, <1>6, <1>7 DEF SlotsOf
<1>9. GroupsWhole'
  BY <1>1, <1>2, <1>6, <1>7 DEF GroupsWhole
<1>10. Ahead'
  BY <1>1, <1>2, <1>5 DEF Counted, Ahead, Frontier, Slots
<1>11. Singles'
  <2> SUFFICES ASSUME NEW s \in Slots(m), s < idx + 1,
                      ~ \E g \in Groups(m) : s \in SlotsOf(g)
               PROVE  Ran(m, perPass', s) = 1
    BY <1>1 DEF Singles, Grouped
  <2>1. CASE s = idx
    BY <1>1, <1>2, <1>5, <2>1 DEF Counted, Ahead, Frontier, Slots
  <2>2. CASE s < idx
    BY <1>2, <1>5, <2>2 DEF Counted, Singles, Grouped, Slots
  <2> QED
    BY <1>2, <2>1, <2>2 DEF Slots
<1>12. Rounds'
  BY <1>1, <1>5, <1>6, <1>8 DEF Counted, Rounds
<1>13. Round'
  BY <1>1 DEF Round
<1>14. Reported'
  <2>1. FirstBefore(m, idx + 1) = FirstBefore(m, idx)
    BY <1>1, <1>2, BeforeSame
  <2> QED
    BY <1>1, <1>5, <1>6, <1>8, <2>1 DEF Counted, Reported
<1> QED
  BY <1>9, <1>10, <1>11, <1>12, <1>13, <1>14 DEF Counted

\* A group is entered: none of its passes has run.
LEMMA EnterGroupCounted ==
    ASSUME TypeOK, Counted, EnterGroup
    PROVE  Counted'
<1> DEFINE m == manifest
           G == GroupAt(m, idx)
<1>1. /\ m \in Manifest /\ Accepted(m) /\ StartsGroup(m, idx)
      /\ manifest' = m /\ phase = "dispatch" /\ phase' = "group"
      /\ slot' = idx /\ iterations' = 1
      /\ UNCHANGED <<idx, perPass, fixpointIterations>>
  BY DEF TypeOK, EnterGroup
<1>2. idx \in Nat
  BY <1>1, PassCount DEF TypeOK
<1>3. /\ G \in Groups(m) /\ G.first = idx /\ G.end \in Nat /\ idx < G.end
      /\ SlotsOf(G) \subseteq Slots(m)
  BY <1>1, <1>2, GroupFacts, GroupRanges DEF Accepted
<1>4. \A s \in Slots(m) : s >= idx => Ran(m, perPass, s) = 0
  BY <1>1 DEF Counted, Ahead, Frontier
<1>5. GroupsWhole' /\ Singles' /\ Rounds' /\ Reported'
  BY <1>1 DEF Counted, GroupsWhole, Singles, Grouped, Rounds, Reported
<1>6. Ahead'
  <2>1. Frontier' = G.end
    BY <1>1 DEF Frontier
  <2> QED
    BY <1>1, <1>2, <1>3, <1>4, <2>1 DEF Ahead, Slots
<1>7. Round'
  BY <1>1, <1>2, <1>3, <1>4 DEF Round, SlotsOf
<1> QED
  BY <1>5, <1>6, <1>7 DEF Counted

\* A pass of the group runs: its count catches up with the counter.
LEMMA RunSlotCounted ==
    ASSUME TypeOK, Counted, RunSlot
    PROVE  Counted'
<1> DEFINE m == manifest
           G == GroupAt(m, idx)
           e == [pass |-> PassAt(m, slot), changed |-> Run(PassAt(m, slot), ir).changed]
<1>1. /\ m \in Manifest /\ Accepted(m) /\ NamesUnique(m) /\ StartsGroup(m, idx)
      /\ manifest' = m /\ phase = "group" /\ phase' = "group"
      /\ slot' = slot + 1 /\ slot < G.end /\ idx <= slot
      /\ UNCHANGED <<idx, iterations, fixpointIterations>>
  BY DEF TypeOK, RunSlot, Accepted
<1>2. /\ Len(m.passes) \in Nat /\ idx \in Nat /\ slot \in Nat /\ iterations \in Nat
      /\ perPass \in Seq(LogEntry)
  BY <1>1, PassCount DEF TypeOK
<1>3. /\ G \in Groups(m) /\ G.first = idx /\ G.end \in Nat /\ idx < G.end
      /\ G.end <= Len(m.passes) /\ SlotsOf(G) \subseteq Slots(m)
  BY <1>1, <1>2, GroupFacts, GroupRanges DEF Accepted
<1>4. slot \in Slots(m) /\ slot \in SlotsOf(G)
  BY <1>1, <1>2, <1>3 DEF Slots, SlotsOf
<1>5. e \in LogEntry /\ e.pass = PassAt(m, slot)
  BY <1>1, <1>4, SlotPass, RunAssumption DEF LogEntry, PassResult, TypeOK
<1>6. perPass' = Append(perPass, e)
  BY DEF RunSlot, Invoke
<1>7. \A s \in Slots(m) :
          Ran(m, perPass', s) =
              IF s = slot THEN Ran(m, perPass, s) + 1 ELSE Ran(m, perPass, s)
  BY <1>1, <1>2, <1>4, <1>5, <1>6, RanAppend
<1>8. \A g \in Groups(m) :
          g.end <= idx =>
              /\ g.first \in SlotsOf(g)
              /\ \A s \in SlotsOf(g) : s \in Slots(m) /\ s # slot
  BY <1>1, <1>2, GroupRanges DEF SlotsOf
<1>9. GroupsWhole'
  BY <1>1 DEF Counted, GroupsWhole
<1>10. Ahead'
  <2>1. Frontier = G.end /\ Frontier' = G.end
    BY <1>1 DEF Frontier
  <2> QED
    BY <1>1, <1>2, <1>3, <1>7, <2>1 DEF Counted, Ahead, Slots
<1>11. Singles'
  BY <1>1, <1>2, <1>7 DEF Counted, Singles, Grouped, Slots
<1>12. Rounds'
  BY <1>1, <1>7, <1>8 DEF Counted, Rounds
<1>13. Round'
  <2>1. ASSUME NEW s \in SlotsOf(G)
        PROVE  Ran(m, perPass', s) =
                   IF s < slot + 1 THEN iterations ELSE iterations - 1
    <3>1. s \in Nat /\ s \in Slots(m)
      BY <1>2, <1>3 DEF SlotsOf
    <3>2. Ran(m, perPass, s) = IF s < slot THEN iterations ELSE iterations - 1
      BY <1>1 DEF Counted, Round
    <3> QED
      BY <1>2, <1>7, <3>1, <3>2
  <2> QED
    BY <1>1, <2>1 DEF Counted, Round
<1>14. Reported'
  BY <1>1, <1>7, <1>8 DEF Counted, Reported
<1> QED
  BY <1>9, <1>10, <1>11, <1>12, <1>13, <1>14 DEF Counted

\* The next iteration begins with every pass at the old count.
LEMMA RepeatCounted ==
    ASSUME TypeOK, Counted, Repeat
    PROVE  Counted'
<1> DEFINE m == manifest
           G == GroupAt(m, idx)
<1>1. /\ m \in Manifest /\ Accepted(m) /\ StartsGroup(m, idx)
      /\ manifest' = m /\ phase = "group" /\ phase' = "group"
      /\ slot' = idx /\ slot >= G.end /\ iterations' = iterations + 1
      /\ UNCHANGED <<idx, perPass, fixpointIterations>>
  BY DEF TypeOK, Repeat
<1>2. idx \in Nat /\ slot \in Nat /\ iterations \in Nat
  BY <1>1, PassCount DEF TypeOK
<1>3. G.first = idx /\ G.end \in Nat
  BY <1>1, <1>2, GroupFacts DEF Accepted
<1>4. GroupsWhole' /\ Singles' /\ Rounds' /\ Reported'
  BY <1>1 DEF Counted, GroupsWhole, Singles, Grouped, Rounds, Reported
<1>5. Ahead'
  <2>1. Frontier' = Frontier
    BY <1>1 DEF Frontier
  <2> QED
    BY <1>1, <2>1 DEF Counted, Ahead
<1>6. Round'
  BY <1>1, <1>2, <1>3 DEF Counted, Round, SlotsOf
<1> QED
  BY <1>4, <1>5, <1>6 DEF Counted

\* A group is left: its passes all ran as often as the entry pushed says.
LEMMA LeaveGroupCounted ==
    ASSUME TypeOK, Counted, LeaveGroup
    PROVE  Counted'
<1> DEFINE m == manifest
           G == GroupAt(m, idx)
<1>1. /\ m \in Manifest /\ Accepted(m) /\ StartsGroup(m, idx)
      /\ manifest' = m /\ phase = "group" /\ phase' = "dispatch"
      /\ idx' = G.end /\ slot >= G.end /\ perPass' = perPass
      /\ fixpointIterations' = Append(fixpointIterations, iterations)
      /\ fixpointIterations \in Seq(Nat) /\ iterations \in Nat
  BY DEF TypeOK, LeaveGroup
<1>2. idx \in Nat /\ slot \in Nat
  BY <1>1, PassCount DEF TypeOK
<1>3. /\ G \in Groups(m) /\ G.first = idx /\ G.end \in Nat /\ idx < G.end
      /\ G.first \in SlotsOf(G) /\ SlotsOf(G) \subseteq Slots(m)
  BY <1>1, <1>2, GroupFacts, GroupRanges DEF Accepted
<1>4. ASSUME NEW g \in Groups(m), g # G
      PROVE  g.end <= idx \/ G.end <= g.first
  BY <1>1, <1>3, <1>4, GroupsApart
<1>5. \A g \in Groups(m) : g.first \in Nat /\ g.end \in Nat /\ g.first < g.end
  BY <1>1, GroupRanges
<1>6. ASSUME NEW g \in Groups(m), g.end <= G.end, g # G
      PROVE  g.end <= idx
  BY <1>3, <1>4, <1>5, <1>6
<1>7. iterations > 0 /\ \A s \in SlotsOf(G) : Ran(m, perPass, s) = iterations
  BY <1>1, <1>2, <1>3 DEF Counted, Round, SlotsOf
<1>8. GroupsWhole'
  BY <1>1, <1>2, <1>3, <1>4, <1>5 DEF GroupsWhole
<1>9. Ahead'
  BY <1>1 DEF Counted, Ahead, Frontier
<1>10. Singles'
  <2> SUFFICES ASSUME NEW s \in Slots(m), s < G.end,
                      ~ \E g \in Groups(m) : s \in SlotsOf(g)
               PROVE  Ran(m, perPass, s) = 1
    BY <1>1 DEF Singles, Grouped
  <2>1. s < idx
    BY <1>2, <1>3 DEF Slots, SlotsOf
  <2> QED
    BY <2>1 DEF Counted, Singles, Grouped
<1>11. Rounds'
  <2> SUFFICES ASSUME NEW g \in Groups(m), g.end <= G.end
               PROVE  /\ Ran(m, perPass, g.first) > 0
                      /\ \A s \in SlotsOf(g) :
                            Ran(m, perPass, s) = Ran(m, perPass, g.first)
    BY <1>1 DEF Rounds
  <2>1. CASE g = G
    BY <1>3, <1>7, <2>1
  <2>2. CASE g # G
    BY <1>6, <2>2 DEF Counted, Rounds
  <2> QED
    BY <2>1, <2>2
<1>12. Reported'
  <2> DEFINE c(i) == Cardinality(FirstBefore(m, i))
  <2>1. Len(fixpointIterations) = c(idx) /\ c(idx) \in Nat
    BY <1>1, <1>2, BeforeCount DEF Counted, Reported
  <2>2. c(G.end) = c(idx) + 1 /\ c(idx + 1) = c(idx) + 1
    BY <1>1, <1>3, BeforeMore
  <2>3. Len(fixpointIterations') = c(G.end)
    BY <1>1, <2>1, <2>2
  <2>4. ASSUME NEW g \in Groups(m), g.end <= G.end
        PROVE  fixpointIterations'[c(g.first + 1)] = Ran(m, perPass, g.first)
    <3>1. CASE g = G
      BY <1>1, <1>3, <1>7, <2>1, <2>2, <3>1
    <3>2. CASE g # G
      <4>1. g.end <= idx
        BY <1>6, <2>4, <3>2
      <4>2. c(g.first + 1) \in 1 .. c(idx)
        BY <1>1, <1>2, <1>5, <4>1, BeforePlace
      <4>3. fixpointIterations[c(g.first + 1)] = Ran(m, perPass, g.first)
        BY <4>1 DEF Counted, Reported
      <4> QED
        BY <1>1, <2>1, <4>2, <4>3
    <3> QED
      BY <3>1, <3>2
  <2> QED
    BY <1>1, <2>3, <2>4 DEF Reported
<1>13. Round'
  BY <1>1 DEF Round
<1> QED
  BY <1>8, <1>9, <1>10, <1>11, <1>12, <1>13 DEF Counted

-----------------------------------------------------------------------------
(* The walk *)

\* Appending the pass of slot t to a walk that ends before t, or that ends
\* with the last pass of a group t starts, after an iteration that changed
\* something.
LEMMA WalkAppend ==
    ASSUME NEW m, NamesUnique(m), Len(m.passes) \in Nat,
           NEW log \in Seq(LogEntry), NEW e \in LogEntry,
           NEW t \in Slots(m), e.pass = PassAt(m, t),
           Known(m, log), Walks(m, log),
           \/ EndsBefore(m, log, t)
           \/ \E g \in Groups(m) :
                 /\ g.first = t /\ g.end \in 1 .. Len(m.passes)
                 /\ EndsBefore(m, log, g.end)
                 /\ ChangedWithin(log, g.end - g.first)
    PROVE  /\ Known(m, Append(log, e))
           /\ Walks(m, Append(log, e))
           /\ EndsBefore(m, Append(log, e), t + 1)
<1> DEFINE more == Append(log, e)
<1>1. PICK n \in Nat : n = Len(log)
  OBVIOUS
<1>2. /\ DOMAIN log = 1 .. n
      /\ DOMAIN more = 1 .. n + 1 /\ Len(more) = n + 1
      /\ \A k \in 1 .. n : more[k] = log[k]
      /\ more[n + 1] = e
      /\ more # <<>>
  BY <1>1
<1>3. t \in Nat
  BY DEF Slots
<1>4. Known(m, more)
  <2> SUFFICES ASSUME NEW k \in 1 .. n + 1
               PROVE  \E s \in Slots(m) : PassAt(m, s) = more[k].pass
    BY <1>2 DEF Known
  <2>1. CASE k = n + 1
    BY <1>2, <2>1
  <2>2. CASE k \in 1 .. n
    BY <1>2, <2>2 DEF Known
  <2> QED
    BY <1>1, <2>1, <2>2
<1>5. EndsBefore(m, more, t + 1)
  BY <1>2, <1>3 DEF EndsBefore
<1>6. Walks(m, more)
  <2> SUFFICES ASSUME NEW k \in 1 .. n, NEW s \in Slots(m), NEW u \in Slots(m),
                      PassAt(m, s) = more[k].pass, PassAt(m, u) = more[k + 1].pass
               PROVE  Follows(m, more, k, s, u)
    <3>1. 1 .. Len(more) - 1 = 1 .. n
      BY <1>1, <1>2
    <3> QED
      BY <3>1 DEF Walks
  <2>1. CASE k < n
    <3>1. k \in 1 .. Len(log) - 1 /\ more[k] = log[k] /\ more[k + 1] = log[k + 1]
      BY <1>1, <1>2, <2>1
    <3>2. Follows(m, log, k, s, u)
      BY <3>1 DEF Walks
    <3>3. \A l \in 1 .. k : more[l] = log[l]
      BY <1>1, <1>2
    <3> QED
      BY <3>2, <3>3 DEF Follows
  <2>2. CASE k = n
    <3>1. u = t
      BY <1>2, <2>2 DEF NamesUnique
    <3>2. PassAt(m, s) = log[n].pass /\ log # <<>>
      BY <1>1, <1>2, <2>2
    <3>3. CASE EndsBefore(m, log, t)
      <4>1. t > 0 /\ PassAt(m, s) = PassAt(m, t - 1)
        BY <1>1, <3>2, <3>3 DEF EndsBefore
      <4>2. t - 1 \in Slots(m)
        BY <1>3, <4>1 DEF Slots
      <4>3. s = t - 1
        BY <4>1, <4>2 DEF NamesUnique
      <4> QED
        BY <1>3, <3>1, <4>3 DEF Follows
    <3>4. ASSUME NEW g \in Groups(m), g.first = t, g.end \in 1 .. Len(m.passes),
                 EndsBefore(m, log, g.end), ChangedWithin(log, g.end - g.first)
          PROVE  Follows(m, more, k, s, u)
      <4>1. PassAt(m, s) = PassAt(m, g.end - 1)
        BY <1>1, <3>2, <3>4 DEF EndsBefore
      <4>2. g.end - 1 \in Slots(m)
        <5>1. \A b \in Nat : \A a \in 1 .. b : a - 1 \in 0 .. b - 1
          OBVIOUS
        <5> QED
          BY <3>4, <5>1, Zenon DEF Slots
      <4>3. s = g.end - 1
        BY <4>1, <4>2 DEF NamesUnique
      <4>4. PICK l \in 1 .. n : l > n - (g.end - g.first) /\ log[l].changed
        BY <1>1, <1>2, <3>4 DEF ChangedWithin
      <4>5. more[l].changed
        BY <1>2, <4>4
      <4> QED
        BY <2>2, <3>1, <3>4, <4>3, <4>4, <4>5 DEF Follows
    <3> QED
      BY <3>3, <3>4
  <2> QED
    BY <1>1, <2>1, <2>2
<1> QED
  BY <1>4, <1>5, <1>6

\* A change among the last n invocations is among the last n + 1 of a longer
\* log, and so is the one just appended.
LEMMA ChangedAppend ==
    ASSUME NEW log \in Seq(LogEntry), NEW e \in LogEntry, NEW n \in Nat,
           ChangedWithin(log, n) \/ e.changed
    PROVE  ChangedWithin(Append(log, e), n + 1)
<1> DEFINE more == Append(log, e)
<1>1. PICK z \in Nat : z = Len(log)
  OBVIOUS
<1>2. /\ DOMAIN log = 1 .. z
      /\ DOMAIN more = 1 .. z + 1 /\ Len(more) = z + 1
      /\ \A k \in 1 .. z : more[k] = log[k]
      /\ more[z + 1] = e
  BY <1>1
<1>3. CASE e.changed
  <2>1. z + 1 \in DOMAIN more /\ z + 1 > Len(more) - (n + 1) /\ more[z + 1].changed
    BY <1>2, <1>3
  <2> QED
    BY <2>1 DEF ChangedWithin
<1>4. CASE ChangedWithin(log, n)
  <2>1. PICK l \in 1 .. z : l > z - n /\ log[l].changed
    BY <1>1, <1>2, <1>4 DEF ChangedWithin
  <2>2. l \in DOMAIN more /\ l > Len(more) - (n + 1) /\ more[l].changed
    BY <1>2, <2>1
  <2> QED
    BY <2>2 DEF ChangedWithin
<1> QED
  BY <1>3, <1>4

\* A pass outside every group follows the pass before it.
LEMMA RunOnceWalked ==
    ASSUME TypeOK, Walked, RunOnce
    PROVE  Walked'
<1> DEFINE m == manifest
           e == [pass |-> PassAt(m, idx), changed |-> Run(PassAt(m, idx), ir).changed]
<1>1. /\ m \in Manifest /\ NamesUnique(m)
      /\ manifest' = m /\ phase = "dispatch" /\ phase' = "dispatch"
      /\ idx' = idx + 1
  BY DEF TypeOK, RunOnce, Accepted
<1>2. /\ Len(m.passes) \in Nat /\ idx \in Slots(m) /\ perPass \in Seq(LogEntry)
  BY <1>1, PassCount DEF TypeOK, RunOnce, Slots
<1>3. e \in LogEntry /\ e.pass = PassAt(m, idx)
  BY <1>1, <1>2, SlotPass, RunAssumption DEF LogEntry, PassResult, TypeOK
<1>4. perPass' = Append(perPass, e)
  BY DEF RunOnce, Invoke
<1>5. Known(m, perPass) /\ Walks(m, perPass) /\ EndsBefore(m, perPass, idx)
  BY <1>1 DEF Walked, CursorFits
<1>6. /\ Known(m, perPass') /\ Walks(m, perPass')
      /\ EndsBefore(m, perPass', idx + 1)
  BY <1>1, <1>2, <1>3, <1>4, <1>5, WalkAppend
<1> QED
  BY <1>1, <1>6 DEF Walked, CursorFits

\* The pass of a group follows the pass before it or, in an iteration that is
\* not the first, closes the walk of the last one.
LEMMA RunSlotWalked ==
    ASSUME TypeOK, Walked, iterations > 0, RunSlot
    PROVE  Walked'
<1> DEFINE m == manifest
           G == GroupAt(m, idx)
           e == [pass |-> PassAt(m, slot), changed |-> Run(PassAt(m, slot), ir).changed]
<1>1. /\ m \in Manifest /\ Accepted(m) /\ NamesUnique(m) /\ StartsGroup(m, idx)
      /\ manifest' = m /\ phase = "group" /\ phase' = "group"
      /\ slot' = slot + 1 /\ slot < G.end /\ idx <= slot
      /\ UNCHANGED <<idx, iterations>>
  BY DEF TypeOK, RunSlot, Accepted
<1>2. /\ Len(m.passes) \in Nat /\ idx \in Nat /\ slot \in Nat /\ iterations \in Nat
      /\ perPass \in Seq(LogEntry)
  BY <1>1, PassCount DEF TypeOK
<1>3. /\ G \in Groups(m) /\ G.first = idx /\ G.end \in 1 .. Len(m.passes)
  BY <1>1, <1>2, GroupFacts DEF Accepted
<1>4. slot \in Slots(m)
  BY <1>1, <1>2, <1>3 DEF Slots
<1>5. e \in LogEntry /\ e.pass = PassAt(m, slot)
  BY <1>1, <1>4, SlotPass, RunAssumption DEF LogEntry, PassResult, TypeOK
<1>6. perPass' = Append(perPass, e)
  BY DEF RunSlot, Invoke
<1>7. \/ EndsBefore(m, perPass, slot)
      \/ /\ slot = idx
         /\ EndsBefore(m, perPass, G.end)
         /\ ChangedWithin(perPass, G.end - idx)
  BY <1>1, <1>2 DEF Walked, CursorFits
<1>8. /\ Known(m, perPass') /\ Walks(m, perPass')
      /\ EndsBefore(m, perPass', slot + 1)
  <2>1. Known(m, perPass) /\ Walks(m, perPass)
    BY DEF Walked
  <2>2. CASE EndsBefore(m, perPass, slot)
    BY <1>1, <1>2, <1>4, <1>5, <1>6, <2>1, <2>2, WalkAppend
  <2>3. CASE /\ slot = idx
             /\ EndsBefore(m, perPass, G.end)
             /\ ChangedWithin(perPass, G.end - idx)
    <3>1. \E g \in Groups(m) :
             /\ g.first = slot /\ g.end \in 1 .. Len(m.passes)
             /\ EndsBefore(m, perPass, g.end)
             /\ ChangedWithin(perPass, g.end - g.first)
      BY <1>3, <2>3
    <3> QED
      BY <1>1, <1>2, <1>4, <1>5, <1>6, <2>1, <3>1, WalkAppend
  <2> QED
    BY <1>7, <2>2, <2>3
<1>9. ASSUME anyChanged'
      PROVE  ChangedWithin(perPass', (slot + 1) - idx)
  <2>1. anyChanged \/ e.changed
    BY <1>9 DEF RunSlot
  <2>2. ChangedWithin(perPass, slot - idx) \/ e.changed
    BY <1>1, <2>1 DEF Walked, CursorFits
  <2>3. slot - idx \in Nat /\ (slot + 1) - idx = (slot - idx) + 1
    BY <1>1, <1>2
  <2>4. ChangedWithin(Append(perPass, e), (slot - idx) + 1)
    BY <1>2, <1>5, <2>2, <2>3, ChangedAppend
  <2> QED
    BY <1>6, <2>3, <2>4
<1>10. slot + 1 # idx
  BY <1>1, <1>2
<1> QED
  BY <1>1, <1>8, <1>9, <1>10 DEF Walked, CursorFits

\* Entering, repeating and leaving a group add nothing to the log and move
\* the cursor where the log ends.
LEMMA CursorWalked ==
    ASSUME TypeOK, Walked, iterations > 0 \/ phase = "dispatch",
           EnterGroup \/ Repeat \/ LeaveGroup
    PROVE  Walked'
<1> DEFINE m == manifest
           G == GroupAt(m, idx)
<1>1. /\ m \in Manifest /\ Accepted(m) /\ StartsGroup(m, idx)
      /\ manifest' = m /\ perPass' = perPass
  BY DEF TypeOK, EnterGroup, Repeat, LeaveGroup
<1>2. idx \in Nat /\ slot \in Nat /\ iterations \in Nat
  BY <1>1, PassCount DEF TypeOK
<1>3. G.first = idx /\ G.end \in Nat /\ idx < G.end
  BY <1>1, <1>2, GroupFacts DEF Accepted
<1>4. Known(m, perPass) /\ Walks(m, perPass)
  BY DEF Walked
<1>5. CASE EnterGroup
  <2>1. /\ phase = "dispatch" /\ phase' = "group" /\ idx' = idx /\ slot' = idx
        /\ iterations' = 1 /\ ~anyChanged'
    BY <1>5 DEF EnterGroup
  <2>2. EndsBefore(m, perPass, idx)
    BY <2>1 DEF Walked, CursorFits
  <2> QED
    BY <1>1, <1>4, <2>1, <2>2 DEF Walked, CursorFits
<1>6. ASSUME phase = "group", slot >= G.end
      PROVE  EndsBefore(m, perPass, G.end) /\ slot = G.end
  <2>1. slot = G.end /\ slot > idx
    BY <1>1, <1>2, <1>3, <1>6 DEF TypeOK
  <2> QED
    BY <1>6, <2>1 DEF Walked, CursorFits
<1>7. CASE Repeat
  <2>1. /\ phase = "group" /\ phase' = "group" /\ idx' = idx /\ slot' = idx
        /\ slot >= G.end /\ iterations' = iterations + 1 /\ anyChanged /\ ~anyChanged'
    BY <1>7 DEF Repeat
  <2>2. iterations' # 1
    BY <1>2, <2>1
  <2>3. ChangedWithin(perPass, G.end - idx)
    BY <1>6, <2>1 DEF Walked, CursorFits
  <2>4. ~(idx > idx)
    BY <1>2
  <2> QED
    BY <1>1, <1>4, <1>6, <2>1, <2>2, <2>3, <2>4 DEF Walked, CursorFits
<1>8. CASE LeaveGroup
  <2>1. phase = "group" /\ phase' = "dispatch" /\ idx' = G.end /\ slot >= G.end
    BY <1>8 DEF LeaveGroup
  <2> QED
    BY <1>1, <1>4, <1>6, <2>1 DEF Walked, CursorFits
<1> QED
  BY <1>5, <1>7, <1>8

-----------------------------------------------------------------------------
(* ManifestRuns *)

\* Nothing has run when run() starts.
LEMMA NewLogged ==
    ASSUME TypeOK, LogInv, New
    PROVE  Counted' /\ Walked'
<1> DEFINE m == manifest
<1>1. /\ m \in Manifest /\ Accepted(m) /\ manifest' = m
      /\ phase' = "dispatch" /\ idx' = 0
      /\ perPass' = <<>> /\ fixpointIterations' = <<>>
  BY DEF TypeOK, New, LogInv, Started
<1>2. \A g \in Groups(m) : g.first \in Nat /\ g.end \in Nat /\ g.first < g.end
  BY <1>1, GroupRanges
<1>3. \A s \in Slots(m) : s \in Nat /\ Ran(m, <<>>, s) = 0
  BY RanEmpty DEF Slots
<1>4. GroupsWhole' /\ Singles' /\ Rounds' /\ Round'
  BY <1>1, <1>2, <1>3 DEF GroupsWhole, Singles, Rounds, Round
<1>5. Ahead'
  BY <1>1, <1>3 DEF Ahead
<1>6. Reported'
  <2>1. FirstBefore(m, 0) = {}
    BY <1>2 DEF FirstBefore
  <2>2. Cardinality(FirstBefore(m, 0)) = 0
    BY <2>1, FS_EmptySet
  <2> QED
    BY <1>1, <1>2, <2>2 DEF Reported
<1>7. Walked'
  BY <1>1 DEF Walked, Known, Walks, CursorFits, EndsBefore
<1> QED
  BY <1>4, <1>5, <1>6, <1>7 DEF Counted

\* Every step keeps the log true to the manifest.
THEOREM StepLogged == TypeOK /\ LogInv /\ [Next]_vars => LogInv'
<1> SUFFICES ASSUME TypeOK, LogInv, [Next]_vars PROVE LogInv'
  OBVIOUS
<1>1. CASE New
  <2>1. Started' /\ phase' # "finished"
    BY <1>1 DEF New, Started
  <2> QED
    BY <1>1, <2>1, NewLogged DEF LogInv
<1>2. CASE Panic
  BY <1>2 DEF Panic, LogInv, Started
<1>3. CASE RunOnce \/ EnterGroup \/ RunSlot \/ Repeat \/ LeaveGroup
  <2>1. Started /\ Started' /\ phase' # "finished"
    BY <1>3 DEF RunOnce, EnterGroup, RunSlot, Repeat, LeaveGroup, Started
  <2>2. Counted /\ Walked
    BY <2>1 DEF LogInv
  <2>3. iterations > 0 \/ phase = "dispatch"
    BY <1>3, <2>2
    DEF Counted, Round, RunOnce, EnterGroup, RunSlot, Repeat, LeaveGroup
  <2>4. RunSlot => iterations > 0
    BY <2>3 DEF RunSlot
  <2>5. Counted'
    BY <1>3, <2>2, RunOnceCounted, EnterGroupCounted, RunSlotCounted,
       RepeatCounted, LeaveGroupCounted
  <2>6. Walked'
    BY <1>3, <2>2, <2>3, <2>4, RunOnceWalked, RunSlotWalked, CursorWalked
  <2> QED
    BY <2>1, <2>5, <2>6 DEF LogInv
<1>4. CASE Finish
  <2>1. /\ phase = "dispatch" /\ phase' = "finished"
        /\ UNCHANGED <<manifest, ir, idx, slot, anyChanged, iterations, perPass,
                       fixpointIterations>>
    BY <1>4 DEF Finish
  <2>2. idx = Len(manifest.passes)
    BY <1>4, PassCount DEF Finish, TypeOK
  <2>3. Counted /\ Walked
    BY <2>1 DEF LogInv, Started
  <2>4. Frontier' = Frontier
    BY <2>1 DEF Frontier
  <2>5. Counted'
    BY <2>1, <2>3, <2>4
    DEF Counted, GroupsWhole, Ahead, Singles, Grouped, Rounds, Round, Reported
  <2>6. Walked'
    BY <2>1, <2>3 DEF Walked, CursorFits
  <2> QED
    BY <2>1, <2>2, <2>5, <2>6 DEF LogInv, Started
<1>5. CASE Halted \/ UNCHANGED vars
  BY <1>5
  DEF Halted, vars, LogInv, Started, Counted, GroupsWhole, Ahead, Frontier,
      Singles, Grouped, Rounds, Round, Reported, Walked, CursorFits
<1> QED
  BY <1>1, <1>2, <1>3, <1>4, <1>5 DEF Next

\* The log and the report are true to the manifest in every state.
THEOREM Logged == Spec => []LogInv
<1>1. Init => LogInv
  BY DEF Init, LogInv, Started
<1> QED
  BY <1>1, StepLogged, Typed, PTL DEF Spec

\* What the counts say once the loop is at the end of the manifest.
LEMMA AllGroupsRan == TypeOK /\ LogInv => EveryGroupRuns
<1> SUFFICES ASSUME TypeOK, LogInv, phase = "finished"
             PROVE  /\ Len(fixpointIterations) = Len(manifest.groups)
                    /\ \A g \in Groups(manifest) :
                          LET upTo == {h \in Groups(manifest) : h.first <= g.first}
                          IN  fixpointIterations[Cardinality(upTo)] = Runs(g.first)
                    /\ \A s \in Slots(manifest) :
                          /\ ~Grouped(s) => Runs(s) = 1
                          /\ \A g \in Groups(manifest) :
                                s \in SlotsOf(g) =>
                                    Runs(s) = Runs(g.first) /\ Runs(s) > 0
  BY DEF EveryGroupRuns
<1> DEFINE m == manifest
<1>1. /\ m \in Manifest /\ Accepted(m)
      /\ Singles /\ Rounds /\ Reported
      /\ idx = Len(m.passes)
  BY DEF TypeOK, LogInv, Started, Counted
<1>2. \A g \in Groups(m) :
          g.first \in Nat /\ g.end \in Nat /\ g.first < g.end /\ g.end <= idx
  BY <1>1, GroupRanges
<1>3. \A s : Runs(s) = Ran(m, perPass, s)
  BY DEF Runs, Ran
<1>4. idx \in Nat
  BY <1>1, PassCount
<1>5. FirstBefore(m, idx) = Groups(m)
  BY <1>2, <1>4 DEF FirstBefore
<1>6. Len(fixpointIterations) = Len(m.groups)
  BY <1>1, <1>5, GroupCount DEF Reported
<1>7. ASSUME NEW g \in Groups(m)
      PROVE  fixpointIterations[Cardinality({h \in Groups(m) : h.first <= g.first})]
                 = Runs(g.first)
  <2>1. {h \in Groups(m) : h.first <= g.first} = FirstBefore(m, g.first + 1)
    BY <1>2 DEF FirstBefore
  <2> QED
    BY <1>1, <1>2, <1>3, <2>1 DEF Reported
<1>8. ASSUME NEW s \in Slots(m)
      PROVE  /\ ~Grouped(s) => Runs(s) = 1
             /\ \A g \in Groups(m) :
                   s \in SlotsOf(g) => Runs(s) = Runs(g.first) /\ Runs(s) > 0
  <2>1. ~Grouped(s) => Runs(s) = 1
    BY <1>1, <1>3, <1>4 DEF Singles, Slots
  <2>2. \A g \in Groups(m) :
            s \in SlotsOf(g) => Runs(s) = Runs(g.first) /\ Runs(s) > 0
    BY <1>1, <1>2, <1>3 DEF Rounds
  <2> QED
    BY <2>1, <2>2
<1> QED
  BY <1>6, <1>7, <1>8

\* The slots Walks binds are the ones LogWalksManifest chooses.
LEMMA LogIsWalk == TypeOK /\ LogInv => LogWalksManifest
<1> DEFINE m == manifest
<1> SUFFICES ASSUME TypeOK, LogInv, phase # "new", NEW k \in 1 .. Len(perPass) - 1
             PROVE  \/ SlotOfEntry(k + 1) = SlotOfEntry(k) + 1
                    \/ \E g \in Groups(m) :
                          /\ SlotOfEntry(k) = g.end - 1 /\ SlotOfEntry(k + 1) = g.first
                          /\ \E l \in (k + 1) - (g.end - g.first) .. k :
                                perPass[l].changed
  BY DEF LogWalksManifest
<1>1. perPass # <<>>
  OBVIOUS
<1>2. m \in Manifest /\ Accepted(m) /\ Known(m, perPass) /\ Walks(m, perPass)
  BY <1>1 DEF LogInv, Walked, TypeOK, Started
<1>3. k \in DOMAIN perPass /\ k + 1 \in DOMAIN perPass
  BY DEF TypeOK
<1>4. /\ SlotOfEntry(k) \in Slots(m)
      /\ PassAt(m, SlotOfEntry(k)) = perPass[k].pass
  BY <1>2, <1>3 DEF Known, SlotOfEntry
<1>5. /\ SlotOfEntry(k + 1) \in Slots(m)
      /\ PassAt(m, SlotOfEntry(k + 1)) = perPass[k + 1].pass
  BY <1>2, <1>3 DEF Known, SlotOfEntry
<1>6. Follows(m, perPass, k, SlotOfEntry(k), SlotOfEntry(k + 1))
  BY <1>2, <1>4, <1>5 DEF Walks
<1>7. ASSUME NEW g \in Groups(m), NEW l \in 1 .. k, l > k - (g.end - g.first)
      PROVE  l \in (k + 1) - (g.end - g.first) .. k
  BY <1>2, <1>7, GroupRanges
<1> QED
  BY <1>6, <1>7 DEF Follows

\* What ran is what the manifest says: every group and every single pass, in
\* the manifest's order, as often as the report says.
THEOREM RunsManifest == Spec => []ManifestRuns
<1>1. TypeOK /\ LogInv => ManifestRuns
  BY AllGroupsRan, LogIsWalk DEF ManifestRuns
<1> QED
  BY <1>1, Typed, Logged, PTL
=============================================================================
