------------------------- MODULE AuthorityHandover --------------------------
(***************************************************************************)
(* What a two-step handover promises: an office, once filled, is always    *)
(* held by somebody, and passes only to the person nominated for it at     *)
(* that moment; the nomination is used up when it is accepted.             *)
(***************************************************************************)
CONSTANTS
    Offices,
    People,
    Nobody     \* no holder, or no nomination pending

VARIABLES
    holder,
    nominee

vars == <<holder, nominee>>

Init ==
    /\ holder = [o \in Offices |-> Nobody]
    /\ nominee = [o \in Offices |-> Nobody]

Appoint(o, p) ==
    /\ holder[o] = Nobody
    /\ holder' = [holder EXCEPT ![o] = p]
    /\ UNCHANGED nominee

\* Nominating Nobody withdraws a nomination.
Nominate(o, p) ==
    /\ holder[o] # Nobody
    /\ nominee' = [nominee EXCEPT ![o] = p]
    /\ UNCHANGED holder

Accept(o, p) ==
    /\ nominee[o] = p
    /\ holder' = [holder EXCEPT ![o] = p]
    /\ nominee' = [nominee EXCEPT ![o] = Nobody]

Next == \E o \in Offices :
            \/ \E p \in People : Appoint(o, p) \/ Accept(o, p)
            \/ \E p \in People \cup {Nobody} : Nominate(o, p)

Spec == Init /\ [][Next]_vars

=============================================================================
