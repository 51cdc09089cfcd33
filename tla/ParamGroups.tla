----------------------------- MODULE ParamGroups -----------------------------
(***************************************************************************)
(* What a group of set_param calls of the experiment runner promises: the  *)
(* vehicle's parameters may change to their requested values at any time,  *)
(* also when the runner no longer waits; a group is reported as applied    *)
(* only when all of them have, and the runner goes on to the next group    *)
(* only then.                                                              *)
(***************************************************************************)
EXTENDS Integers, Sequences

CONSTANTS Names, Lo, Hi

VARIABLES groups, value, group, phase

\* A value is kept in the range of the parameter's type.
InRange(n, v) == IF v < Lo[n] THEN Lo[n] ELSE IF v > Hi[n] THEN Hi[n] ELSE v

Wanted == groups[group]

Apply ==
    \E j \in 1 .. Len(Wanted) :
        /\ value' = [value EXCEPT ![Wanted[j].name] =
                        InRange(Wanted[j].name, Wanted[j].value)]
        /\ UNCHANGED <<groups, group, phase>>

Applied ==
    /\ phase = "active"
    /\ \A j \in 1 .. Len(Wanted) : value[Wanted[j].name] = Wanted[j].value
    /\ phase' = "applied"
    /\ UNCHANGED <<groups, value, group>>

Failed ==
    /\ phase = "active" /\ phase' = "failed"
    /\ UNCHANGED <<groups, value, group>>

NextGroup ==
    /\ phase = "applied" /\ group < Len(groups)
    /\ group' = group + 1 /\ phase' = "active"
    /\ UNCHANGED <<groups, value>>

Init == group = 1 /\ phase = "active"

Next == Apply \/ Applied \/ Failed \/ NextGroup

Spec == Init /\ [][Next]_<<groups, value, group, phase>>
===============================================================================
