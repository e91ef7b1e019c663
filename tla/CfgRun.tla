------------------------------- MODULE CfgRun -------------------------------
(***************************************************************************)
(* What a lifted function's control flow promises: run a block, choose one *)
(* of its terminator's slots, carry the slot's arguments into the target's *)
(* parameters, and go on there.  What the selectors compute is left open,  *)
(* so each choice is free.                                                 *)
(***************************************************************************)
EXTENDS LiftedIR

VARIABLES
    func,          \* the function, fixed
    at,            \* the block being run, 0 before the first
    taken,         \* the slot its selector has chosen, <<>> before
    received,      \* the <<parameter, argument>> pairs control came in with
    ended          \* "no", "return", "unreachable", or "not_run"

vars == <<func, at, taken, received, ended>>

Exit == func.block[at].exit

CfgInit ==
    /\ at = 0
    /\ taken = <<>>
    /\ received = <<>>
    /\ ended \in {"no", "not_run"}

Start ==
    /\ at = 0
    /\ ended = "no"
    /\ at' = Entry
    /\ UNCHANGED <<func, taken, received, ended>>

Choose ==
    /\ at # 0
    /\ ended = "no"
    /\ taken = <<>>
    /\ Exit.kind \in {"branch_if", "switch"}
    /\ \E i \in DOMAIN Exit.targets : taken' = <<at, i>>
    /\ UNCHANGED <<func, at, received, ended>>

\* A plain branch has one slot and nothing to choose.
Follow(i) ==
    LET t == Exit.targets[i]
        params == func.block[t.block].params
    IN  /\ at' = t.block
        /\ received' = [k \in 1 .. Len(params) |-> <<params[k], t.args[k]>>]
        /\ taken' = <<>>
        /\ UNCHANGED <<func, ended>>

Go ==
    /\ at # 0
    /\ ended = "no"
    /\ \/ Exit.kind = "branch" /\ Follow(1)
       \/ taken # <<>> /\ Follow(taken[2])

Finish ==
    /\ at # 0
    /\ ended = "no"
    /\ Exit.kind \in {"return", "unreachable"}
    /\ ended' = Exit.kind
    /\ UNCHANGED <<func, at, taken, received>>

CfgNext == Start \/ Choose \/ Go \/ Finish

CfgSpec == CfgInit /\ [][CfgNext]_vars /\ WF_vars(CfgNext)
=============================================================================
