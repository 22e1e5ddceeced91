---------------------------- MODULE SlabAllocator ----------------------------
(***************************************************************************)
(* What the heap rings promise to the tasks of a DAG: a slab that has been *)
(* handed out lies inside its heap and shares no byte with any other slab  *)
(* in use, until it is given back.  Nothing is said about order, waiting   *)
(* or where the slab is placed.                                            *)
(***************************************************************************)
EXTENDS Integers

CONSTANTS
    Heaps,          \* the heaps
    HeapBytes       \* the size of each one

VARIABLE held       \* the slabs in use

Slab == [heap : Heaps, pos : Nat \ {0}, lo : 0 .. HeapBytes, hi : 0 .. HeapBytes]

Overlap(a, b) == a.heap = b.heap /\ a.lo < b.hi /\ b.lo < a.hi

Init == held = {}

Grant(s) ==
    /\ s \in Slab
    /\ \A h \in held : ~Overlap(s, h)
    /\ held' = held \cup {s}

GiveBack(s) == held' = held \ {s}

\* The slab granted is the one that is new in held'.
Next == \/ \E s \in held' \ held : Grant(s)
        \/ \E s \in held : GiveBack(s)

Spec == Init /\ [][Next]_held
=============================================================================
