------------------------------ MODULE MCDomains ------------------------------
(* Small instances of Domains for TLC. *)
EXTENDS Domains, TLC

CONSTANTS r1, r2, r3, winA, winB, root

OnPair == (winA :> {r1, r2}) @@ (winB :> {r1, r2})
Overlap == (winA :> {r1, r2}) @@ (winB :> {r2, r3})
Order == <<winA, winB>>
\* Two domains with names of their own, and one name used twice.
OwnNames == (winA :> 1) @@ (winB :> 2)
OneName == (winA :> 1) @@ (winB :> 1)
NoProgram == <<>>
=============================================================================
