------------------------------ MODULE MCCommSim ------------------------------
(* Small instances of CommSim. *)
EXTENDS CommSim

CONSTANTS r1, r2, r3, d1

Pair == [d \in Domains |-> {r1, r2}]

\* Base windows, a domain of two of the ranks, a barrier on either side of its release.
OneLife == <<<<"init", Base>>, <<"alloc", Base>>, <<"alloc", d1>>, <<"derive", Base>>,
             <<"barrier", Base>>, <<"release", d1>>, <<"barrier", Base>>, <<"destroy", Base>>>>
=============================================================================
