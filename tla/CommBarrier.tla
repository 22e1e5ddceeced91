----------------------------- MODULE CommBarrier -----------------------------
(***************************************************************************)
(* What comm_barrier promises to the ranks that share a segment: nobody    *)
(* leaves a barrier before everybody has entered it.  A rank that gives up *)
(* waiting (its call returns -1) breaks the segment, and nothing is        *)
(* promised of it from then on.                                            *)
(***************************************************************************)
EXTENDS Naturals

CONSTANTS Ranks, Segments

VARIABLES
    entered,  \* segment -> rank -> the number of barriers it has entered
    left,     \* segment -> rank -> the number of barriers it has left
    broken    \* segment -> some rank has given up in a barrier

vars == <<entered, left, broken>>

Init ==
    /\ entered = [s \in Segments |-> [r \in Ranks |-> 0]]
    /\ left = [s \in Segments |-> [r \in Ranks |-> 0]]
    /\ broken = [s \in Segments |-> FALSE]

Enter(s, r) ==
    /\ entered[s][r] = left[s][r]
    /\ entered' = [entered EXCEPT ![s][r] = @ + 1]
    /\ UNCHANGED <<left, broken>>

Leave(s, r) ==
    /\ entered[s][r] > left[s][r]
    /\ broken[s] \/ \A q \in Ranks : entered[s][q] > left[s][r]
    /\ left' = [left EXCEPT ![s][r] = @ + 1]
    /\ UNCHANGED <<entered, broken>>

GiveUp(s, r) ==
    /\ entered[s][r] > left[s][r]
    /\ left' = [left EXCEPT ![s][r] = @ + 1]
    /\ broken' = [broken EXCEPT ![s] = TRUE]
    /\ UNCHANGED entered

Next == \E s \in Segments, r \in Ranks : Enter(s, r) \/ Leave(s, r) \/ GiveUp(s, r)

Spec == Init /\ [][Next]_vars
=============================================================================
