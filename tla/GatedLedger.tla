---------------------------- MODULE GatedLedger -----------------------------
(***************************************************************************)
(* What the hook promises to the holders of a gated token: tokens change   *)
(* hands only by the will of somebody who is cleared at that very moment,  *)
(* and who owns them or moves them within the owner's allowance.  Who is   *)
(* cleared may change at any time, but never in the step that moves tokens.*)
(***************************************************************************)
EXTENDS Naturals

CONSTANTS
    Mints,
    Owners,
    MaxSupply

VARIABLES
    balance,   \* balance[m][o]: tokens of o
    budget,    \* budget[m][o][s]: what s may still move out of o's account
    cleared    \* cleared[m]: who may move tokens

vars == <<balance, budget, cleared>>

Init ==
    /\ balance = [m \in Mints |-> [o \in Owners |-> 0]]
    /\ budget = [m \in Mints |-> [o \in Owners |-> [s \in Owners |-> 0]]]
    /\ cleared = [m \in Mints |-> {}]

Issue(m, o) ==
    /\ balance' = [balance EXCEPT ![m][o] = @ + 1]
    /\ UNCHANGED <<budget, cleared>>

\* One spender at a time: an allowance replaces the one before it.
Allow(m, o, spender, n) ==
    /\ budget' = [budget EXCEPT ![m][o] = [s \in Owners |-> IF s = spender THEN n ELSE 0]]
    /\ UNCHANGED <<balance, cleared>>

Move(m, source, destination, mover, n) ==
    /\ source # destination
    /\ n <= balance[m][source]
    /\ mover \in cleared[m]
    /\ mover = source \/ n <= budget[m][source][mover]
    /\ balance' = [balance EXCEPT ![m][source] = @ - n, ![m][destination] = @ + n]
    /\ budget' = [budget EXCEPT ![m][source][mover] = IF n <= @ THEN @ - n ELSE @]
    /\ UNCHANGED cleared

ChangeStanding ==
    /\ cleared' \in [Mints -> SUBSET Owners]
    /\ UNCHANGED <<balance, budget>>

Next ==
    \/ \E m \in Mints, o \in Owners :
           \/ Issue(m, o)
           \/ \E spender \in Owners, n \in 0..MaxSupply : Allow(m, o, spender, n)
           \/ \E destination, mover \in Owners, n \in 1..MaxSupply :
                  Move(m, o, destination, mover, n)
    \/ ChangeStanding

Spec == Init /\ [][Next]_vars

=============================================================================
