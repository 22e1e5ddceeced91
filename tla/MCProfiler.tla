----------------------------- MODULE MCProfiler -----------------------------
(* Two cores of two AICPU threads. *)
EXTENDS Profiler

Own == [c \in Cores |-> c]
=============================================================================
