------------------------------- MODULE MCRing -------------------------------
(* Small instances of Ring for TLC. *)
EXTENDS Ring
=============================================================================
