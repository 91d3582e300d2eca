-------------------------- MODULE VersionRegistry --------------------------
(***************************************************************************)
(* What the versions of a variant promise a reader, whatever requests race *)
(* inside: an append-only numbered list, and a pointer to the published    *)
(* version that is set in one step and never cleared.                      *)
(***************************************************************************)
EXTENDS Naturals

CONSTANT Variant

VARIABLES
    count,      \* how many versions a variant has; they carry 1..count
    current     \* the number of its published version, 0 before the first

Init ==
    /\ count = [x \in Variant |-> 0]
    /\ current = [x \in Variant |-> 0]

AddVersion(x) ==
    /\ count' = [count EXCEPT ![x] = @ + 1]
    /\ UNCHANGED current

Publish(x) ==
    \E n \in 1..count[x] :
        /\ current' = [current EXCEPT ![x] = n]
        /\ UNCHANGED count

Next == \E x \in Variant : AddVersion(x) \/ Publish(x)

Spec == Init /\ [][Next]_<<count, current>>
=============================================================================
