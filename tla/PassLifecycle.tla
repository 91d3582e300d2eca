---------------------------- MODULE PassLifecycle ----------------------------
(***************************************************************************)
(* What the render path promises about an issued Google pass, whatever     *)
(* requests race: it is created once, and once withdrawn it stays so,      *)
(* unless somebody offers it another state.                                *)
(***************************************************************************)
CONSTANT Pass

VARIABLES
    state,      \* "none", "ACTIVE" or "EXPIRED", for each pass
    offered     \* the states that the contents under way to it have of their own

Init ==
    /\ state = [p \in Pass |-> "none"]
    /\ offered = [p \in Pass |-> {}]

Offer ==
    /\ offered' \in [Pass -> SUBSET {"ACTIVE", "EXPIRED"}]
    /\ UNCHANGED state

Create(p, s) ==
    /\ state[p] = "none" /\ s \in {"ACTIVE"} \cup offered[p]
    /\ state' = [state EXCEPT ![p] = s]
    /\ UNCHANGED offered

Withdraw(p) ==
    /\ state[p] = "ACTIVE"
    /\ state' = [state EXCEPT ![p] = "EXPIRED"]
    /\ UNCHANGED offered

Revive(p) ==
    /\ state[p] = "EXPIRED" /\ "ACTIVE" \in offered[p]
    /\ state' = [state EXCEPT ![p] = "ACTIVE"]
    /\ UNCHANGED offered

Next ==
    \/ Offer
    \/ \E p \in Pass :
          Withdraw(p) \/ Revive(p) \/ \E s \in {"ACTIVE", "EXPIRED"} : Create(p, s)

Spec == Init /\ [][Next]_<<state, offered>>
=============================================================================
