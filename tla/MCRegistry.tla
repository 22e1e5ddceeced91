---- MODULE MCRegistry ----
(***************************************************************************)
(* CallableRegistry with two children.  At init the only id is free or a   *)
(* ChipCallable above chips, a ChipCallable or a function above Workers.   *)
(***************************************************************************)
EXTENDS CallableRegistry

CONSTANTS c1, c2, A, B, F

FirstId ==
    [chip |-> {[NoTable EXCEPT ![0] = t] : t \in {NoCallable, A}},
     worker |-> {[NoTable EXCEPT ![0] = t] : t \in {A, F}}]
====
