-------------------------------- MODULE Ring --------------------------------
(***************************************************************************)
(* The slot and heap allocator of an L3+ worker (class Ring in             *)
(* src/common/hierarchical/ring.{h,cpp}).                                  *)
(*                                                                         *)
(* MaxRingDepth heaps of HeapBytes bytes sit side by side.  Each one hands *)
(* out slabs with a bump cursor (top) that wraps at the end of the heap,   *)
(* and takes them back in FIFO order: tail follows the oldest slab that is *)
(* not yet released.  A slab is claimed under the heap's own mutex         *)
(* (phase 1) and gets its task id under slots_mu_ (phase 2).  A caller     *)
(* that finds no room waits on the heap's condition variable until a       *)
(* release, the shutdown or its deadline.                                  *)
(*                                                                         *)
(* Offsets are bytes from the heap's base.  Time is counted in ticks: the  *)
(* deadline of a call is AllocTimeout ticks after it took the mutex.       *)
(***************************************************************************)
EXTENDS Integers, Sequences, FiniteSets

CONSTANTS
    MaxRingDepth,   \* number of heaps (MAX_RING_DEPTH)
    HeapBytes,      \* bytes of each heap
    HeapAlign,      \* slab granularity (HEAP_ALIGN)
    AllocTimeout,   \* timeout_ms_, in ticks
    Threads,        \* threads that call alloc()
    Requests,       \* the byte counts they ask for
    ScopeDepths,    \* the scope depths they call from
    MaxSlots        \* bound: slots claimed between two resets

ASSUME RingAssumption ==
    /\ MaxRingDepth \in Nat \ {0}
    /\ HeapBytes \in Nat
    /\ HeapAlign \in Nat \ {0}
    /\ AllocTimeout \in Nat
    /\ Requests \subseteq Nat
    /\ ScopeDepths \subseteq Int
    /\ MaxSlots \in Nat

Rings == 0 .. (MaxRingDepth - 1)

VARIABLES
    top,            \* per heap: next free byte (bump head)
    tail,           \* per heap: oldest byte still held
    last_alive,     \* per heap: FIFO frontier, slots 1..last_alive are reclaimed
    fifo,           \* per heap: released[], slot_heap_end[] and the slab handed out
    slot_states,    \* the slot deque: ring_idx and ring_slot_idx of every task id
    shutdown,       \* "no", then "flagged" (shutdown_ stored), then "notified"
    call            \* per thread: its progress inside alloc()

heapVars == <<top, tail, last_alive, fifo>>
vars == <<top, tail, last_alive, fifo, slot_states, shutdown, call>>

\* One entry of a heap's FIFO.  [heap_ptr, heap_end) is the slab of the slot;
\* it is empty for a slot-only allocation.
FifoEntry == [heap_ptr : Nat, heap_end : Nat, released : BOOLEAN]

SlotStates == [ring_idx : Rings, ring_slot_idx : Nat]

\* A thread is outside alloc(), about to take ring.mu, holding ring.mu after
\* the shutdown test, waiting on ring.cv, or between the two phases.
Calls == [pc : {"out", "enter", "checked", "waiting", "claimed"},
          ring : Rings, aligned : Nat, ring_slot_idx : Nat,
          waited : 0 .. AllocTimeout, notified : BOOLEAN,
          result : {"none", "slot", "invalid", "exhausted", "rejected"}]

NoCall == [pc |-> "out", ring |-> 0, aligned |-> 0, ring_slot_idx |-> 0,
           waited |-> 0, notified |-> FALSE, result |-> "none"]

-----------------------------------------------------------------------------
\* Helpers of ring.h and the two "_locked" helpers of ring.cpp.

AlignUp(v) == ((v + HeapAlign - 1) \div HeapAlign) * HeapAlign

RingIdxForScope(depth) ==
    IF depth < 0 THEN 0
    ELSE IF depth < MaxRingDepth THEN depth ELSE MaxRingDepth - 1

\* The offset at which try_bump_ring_heap_locked places n bytes: behind top,
\* or at the base after a wrap, which keeps one byte free below tail so that
\* top = tail never means "full".
FitsBehindTop(r, n) ==
    IF top[r] >= tail[r] THEN HeapBytes - top[r] >= n ELSE tail[r] - top[r] > n

FitsAfterWrap(r, n) == top[r] >= tail[r] /\ tail[r] > n

CanBump(r, n) == FitsBehindTop(r, n) \/ FitsAfterWrap(r, n)

BumpOffset(r, n) == IF FitsBehindTop(r, n) THEN top[r] ELSE 0

\* Where the walk of advance_last_alive_locked over the entries q stops when
\* it starts at n: behind the released entries that follow n without a gap.
IsFrontier(q, n, m) ==
    /\ m \in n .. Len(q)
    /\ \A i \in (n + 1) .. m : q[i].released
    /\ m < Len(q) => ~q[m + 1].released

\* Faulty variant: the walk stops after one entry.
FrontierOneStep(q, n) == IF n < Len(q) /\ q[n + 1].released THEN n + 1 ELSE n

Frontier(q, n) == CHOOSE m \in n .. Len(q) : IsFrontier(q, n, m)

\* ring.mu is only held across steps by a thread that has tested shutdown_
\* and has not yet claimed a slab or gone to sleep.
MuFree(r) == \A t \in Threads : ~(call[t].pc = "checked" /\ call[t].ring = r)

\* cv.notify_all on the heaps of rs.
Notified(rs) ==
    [t \in Threads |->
        IF call[t].pc = "waiting" /\ call[t].ring \in rs
        THEN [call[t] EXCEPT !.notified = TRUE] ELSE call[t]]

Return(t, res) == call' = [call EXCEPT ![t] = [NoCall EXCEPT !.result = res]]

-----------------------------------------------------------------------------
Init ==
    /\ top = [r \in Rings |-> 0]
    /\ tail = [r \in Rings |-> 0]
    /\ last_alive = [r \in Rings |-> 0]
    /\ fifo = [r \in Rings |-> <<>>]
    /\ slot_states = <<>>
    /\ shutdown = "no"
    /\ call = [t \in Threads |-> NoCall]

\* Slots claimed so far, the ones still between the two phases included.
Claimed == Len(slot_states) + Cardinality({t \in Threads : call[t].pc # "out"})

\* alloc(): the checks before the lock.
AllocEnter(t, bytes, depth) ==
    /\ call[t].pc = "out"
    /\ Claimed < MaxSlots
    /\ IF AlignUp(bytes) > HeapBytes
       THEN Return(t, "rejected")
       ELSE call' = [call EXCEPT ![t] =
                [NoCall EXCEPT !.pc = "enter", !.ring = RingIdxForScope(depth),
                               !.aligned = AlignUp(bytes)]]
    /\ UNCHANGED <<heapVars, slot_states, shutdown>>

\* alloc() phase 1, head of the loop: ring.mu is taken and shutdown_ is read.
AllocCheck(t) ==
    /\ call[t].pc = "enter"
    /\ MuFree(call[t].ring)
    /\ IF shutdown # "no" THEN Return(t, "invalid")
       ELSE call' = [call EXCEPT ![t].pc = "checked"]
    /\ UNCHANGED <<heapVars, slot_states, shutdown>>

\* alloc() phase 1: a slot-only request or a successful bump takes its place
\* in the FIFO.
AllocClaim(t) ==
    LET r == call[t].ring
        n == call[t].aligned
        ptr == IF n = 0 THEN top[r] ELSE BumpOffset(r, n)
    IN  /\ call[t].pc = "checked"
        /\ n = 0 \/ CanBump(r, n)
        /\ top' = [top EXCEPT ![r] = ptr + n]
        /\ fifo' = [fifo EXCEPT ![r] = Append(@,
                [heap_ptr |-> ptr, heap_end |-> ptr + n, released |-> FALSE])]
        /\ call' = [call EXCEPT ![t].pc = "claimed",
                                ![t].ring_slot_idx = Len(fifo[r]) + 1]
        /\ UNCHANGED <<tail, last_alive, slot_states, shutdown>>

\* alloc() phase 1: no room, cv.wait_until gives ring.mu back and sleeps.
AllocWait(t) ==
    /\ call[t].pc = "checked"
    /\ call[t].aligned > 0
    /\ ~CanBump(call[t].ring, call[t].aligned)
    /\ call' = [call EXCEPT ![t].pc = "waiting", ![t].notified = FALSE]
    /\ UNCHANGED <<heapVars, slot_states, shutdown>>

\* Faulty variant: wait() without a deadline.
AllocWakeNoDeadline(t) ==
    /\ call[t].pc = "waiting"
    /\ MuFree(call[t].ring)
    /\ call[t].notified
    /\ IF shutdown # "no" THEN Return(t, "invalid")
       ELSE call' = [call EXCEPT ![t].pc = "checked", ![t].notified = FALSE]
    /\ UNCHANGED <<heapVars, slot_states, shutdown>>

\* wait_until returns with ring.mu held.  Its status comes from the clock: a
\* call past its deadline gives up without looking at the heap again, any other
\* goes back to the head of the loop and reads shutdown_ there.
AllocWake(t) ==
    LET late == call[t].waited = AllocTimeout
    IN  /\ call[t].pc = "waiting"
        /\ MuFree(call[t].ring)
        /\ \/ /\ late \/ call[t].notified
              /\ shutdown # "no"
              /\ Return(t, "invalid")
           \/ /\ late /\ shutdown = "no"
              /\ Return(t, "exhausted")
           \/ /\ ~late /\ call[t].notified /\ shutdown = "no"
              /\ call' = [call EXCEPT ![t].pc = "checked", ![t].notified = FALSE]
        /\ UNCHANGED <<heapVars, slot_states, shutdown>>

\* alloc() phase 2, under slots_mu_: the slot gets its task id.
AllocPublish(t) ==
    /\ call[t].pc = "claimed"
    /\ slot_states' = Append(slot_states,
            [ring_idx |-> call[t].ring, ring_slot_idx |-> call[t].ring_slot_idx])
    /\ Return(t, "slot")
    /\ UNCHANGED <<heapVars, shutdown>>

\* Faulty variant: tail follows every release, not only the oldest.
ReleaseOutOfOrder(s) ==
    LET r == slot_states[s].ring_idx
        i == slot_states[s].ring_slot_idx
        q == [fifo[r] EXCEPT ![i].released = TRUE]
        m == Frontier(q, last_alive[r])
    IN  /\ MuFree(r)
        /\ ~fifo[r][i].released
        /\ fifo' = [fifo EXCEPT ![r] = q]
        /\ last_alive' = [last_alive EXCEPT ![r] = m]
        /\ tail' = [tail EXCEPT ![r] = q[i].heap_end]
        /\ call' = Notified({r})
        /\ UNCHANGED <<top, slot_states, shutdown>>

\* release(): a second release of the same slot returns early and changes
\* nothing.
Release(s) ==
    LET r == slot_states[s].ring_idx
        i == slot_states[s].ring_slot_idx
        q == [fifo[r] EXCEPT ![i].released = TRUE]
        m == Frontier(q, last_alive[r])
    IN  /\ MuFree(r)
        /\ ~fifo[r][i].released
        /\ fifo' = [fifo EXCEPT ![r] = q]
        /\ last_alive' = [last_alive EXCEPT ![r] = m]
        /\ tail' = [tail EXCEPT ![r] =
                        IF m = last_alive[r] THEN @ ELSE q[m].heap_end]
        /\ call' = Notified({r})
        /\ UNCHANGED <<top, slot_states, shutdown>>

Drained(r) == last_alive[r] = Len(fifo[r])

\* Faulty variant: the rings are not tested for live slots.
ResetToEmptyUnchecked ==
    /\ \A t \in Threads : call[t].pc = "out"
    /\ slot_states # <<>>
    /\ top' = [r \in Rings |-> 0]
    /\ tail' = [r \in Rings |-> 0]
    /\ last_alive' = [r \in Rings |-> 0]
    /\ fifo' = [r \in Rings |-> <<>>]
    /\ slot_states' = <<>>
    /\ UNCHANGED <<shutdown, call>>

\* reset_to_empty(): called by Orchestrator::drain, on the thread that also
\* allocates, so never while an alloc() is in progress.
ResetToEmpty ==
    /\ \A t \in Threads : call[t].pc = "out"
    /\ \A r \in Rings : Drained(r)
    /\ slot_states # <<>>
    /\ top' = [r \in Rings |-> 0]
    /\ tail' = [r \in Rings |-> 0]
    /\ last_alive' = [r \in Rings |-> 0]
    /\ fifo' = [r \in Rings |-> <<>>]
    /\ slot_states' = <<>>
    /\ UNCHANGED <<shutdown, call>>

\* shutdown(): the flag, then the notifications, neither under ring.mu.
ShutdownFlag ==
    /\ shutdown = "no"
    /\ shutdown' = "flagged"
    /\ UNCHANGED <<heapVars, slot_states, call>>

ShutdownNotify ==
    /\ shutdown = "flagged"
    /\ shutdown' = "notified"
    /\ call' = Notified(Rings)
    /\ UNCHANGED <<heapVars, slot_states>>

\* Time passes for the callers whose deadline is set: it is computed once
\* ring.mu has been taken.
Ticking(t) == /\ call[t].pc \in {"checked", "waiting"}
              /\ call[t].waited < AllocTimeout

Tick ==
    /\ \E t \in Threads : Ticking(t)
    /\ call' = [t \in Threads |->
            IF Ticking(t) THEN [call[t] EXCEPT !.waited = @ + 1] ELSE call[t]]
    /\ UNCHANGED <<heapVars, slot_states, shutdown>>

AllocStep(t) ==
    AllocCheck(t) \/ AllocClaim(t) \/ AllocWait(t) \/ AllocWake(t) \/ AllocPublish(t)

Next ==
    \/ \E t \in Threads, b \in Requests, d \in ScopeDepths : AllocEnter(t, b, d)
    \/ \E t \in Threads : AllocStep(t)
    \/ \E s \in DOMAIN slot_states : Release(s)
    \/ ResetToEmpty
    \/ ShutdownFlag
    \/ ShutdownNotify
    \/ Tick

Spec == Init /\ [][Next]_vars

\* A thread inside alloc() keeps running and the clock keeps going.  Nothing
\* is assumed of the callers of release() and shutdown().
FairSpec == Spec /\ (\A t \in Threads : WF_vars(AllocStep(t))) /\ WF_vars(Tick)

-----------------------------------------------------------------------------
\* Properties.

\* Every variable has its type, and FIFO frontiers and cursors stay inside
\* their vectors and heaps.
TypeOK ==
    /\ top \in [Rings -> 0 .. HeapBytes]
    /\ tail \in [Rings -> 0 .. HeapBytes]
    /\ fifo \in [Rings -> Seq(FifoEntry)]
    /\ last_alive \in [Rings -> Nat]
    /\ \A r \in Rings : last_alive[r] <= Len(fifo[r])
    /\ slot_states \in Seq(SlotStates)
    /\ shutdown \in {"no", "flagged", "notified"}
    /\ call \in [Threads -> Calls]

\* The slab of entry i of heap r in the FIFOs f, and the slabs of f that have
\* been handed out and not been released: what the tasks of the running DAG
\* read and write.
SlabAt(f, r, i) ==
    [heap |-> r, pos |-> i, lo |-> f[r][i].heap_ptr, hi |-> f[r][i].heap_end]

HeldIn(f) ==
    UNION {{SlabAt(f, r, i) : i \in {j \in DOMAIN f[r] : ~f[r][j].released}} : r \in Rings}

HeldSlabs == HeldIn(fifo)

\* Two slabs of one heap that are both in use never share a byte and lie
\* inside the heap, whatever the order of releases and wraps
\* (try_bump_ring_heap_locked against advance_last_alive_locked).
HeldSlabsDisjoint ==
    \A r \in Rings : \A i \in DOMAIN fifo[r] :
        ~fifo[r][i].released =>
            /\ fifo[r][i].heap_end <= HeapBytes
            /\ \A j \in DOMAIN fifo[r] :
                (i # j /\ ~fifo[r][j].released) =>
                    \/ fifo[r][i].heap_end <= fifo[r][j].heap_ptr
                    \/ fifo[r][j].heap_end <= fifo[r][i].heap_ptr

\* top = tail means that no byte of the heap is held: the gap that
\* try_bump_ring_heap_locked leaves below tail keeps "full" and "empty" apart.
TopIsTailMeansEmpty ==
    \A r \in Rings : top[r] = tail[r] =>
        \A i \in DOMAIN fifo[r] :
            ~fifo[r][i].released => fifo[r][i].heap_ptr = fifo[r][i].heap_end

\* Two task ids never stand for the same FIFO entry, although alloc() gives
\* ring.mu back before it takes slots_mu_; release() of one slot therefore
\* never frees the slab of another.
SlotPositionsUnique ==
    /\ \A s1, s2 \in DOMAIN slot_states :
            s1 # s2 => slot_states[s1] # slot_states[s2]
    /\ \A s \in DOMAIN slot_states :
            slot_states[s].ring_slot_idx \in DOMAIN fifo[slot_states[s].ring_idx]

\* A released prefix is reclaimed as far as FIFO order allows: the frontier
\* never stands in front of a released slot.
FrontierIsTight ==
    \A r \in Rings :
        /\ \A i \in 1 .. last_alive[r] : fifo[r][i].released
        /\ last_alive[r] < Len(fifo[r]) => ~fifo[r][last_alive[r] + 1].released

\* How the slabs of the entries q above the frontier a lie in a heap with the
\* cursors lo (tail) and hi (top).  w is the first one placed after the last
\* wrap that tail has not followed yet, or Len + 1 if there is none.  The slabs
\* before w fill the heap upwards from tail, those from w on upwards from the
\* base to top.
InPlace(q, a, lo, hi, w) ==
    \A i \in (a + 1) .. Len(q) :
        /\ q[i].heap_ptr <= q[i].heap_end
        /\ q[i].heap_end <= HeapBytes
        /\ i < w => lo <= q[i].heap_ptr
        /\ (i >= w \/ w = Len(q) + 1) => q[i].heap_end <= hi

Ascending(q, a, w) ==
    \A i, j \in (a + 1) .. Len(q) :
        (i < j /\ (j < w \/ w <= i)) => q[i].heap_end <= q[j].heap_ptr

Layout(q, a, lo, hi, w) ==
    /\ InPlace(q, a, lo, hi, w)
    /\ Ascending(q, a, w)
    /\ w = Len(q) + 1 <=> lo <= hi

\* The slabs of every heap are laid out in one or two ascending runs, also
\* those that were released out of order and wait for FIFO reclamation.
SlabLayout ==
    \A r \in Rings : \E w \in (last_alive[r] + 1) .. (Len(fifo[r]) + 1) :
        Layout(fifo[r], last_alive[r], tail[r], top[r], w)

\* The FIFO entry a thread has claimed, or a task id stands for.
Entry(x) == <<x.ring_idx, x.ring_slot_idx>>
ClaimedEntry(t) == <<call[t].ring, call[t].ring_slot_idx>>

\* Claimed and published FIFO entries exist and are pairwise distinct.
EntriesDistinct ==
    /\ \A s \in DOMAIN slot_states :
          slot_states[s].ring_slot_idx \in DOMAIN fifo[slot_states[s].ring_idx]
    /\ \A t \in Threads : call[t].pc = "claimed" =>
          call[t].ring_slot_idx \in DOMAIN fifo[call[t].ring]
    /\ \A s1, s2 \in DOMAIN slot_states :
          s1 # s2 => Entry(slot_states[s1]) # Entry(slot_states[s2])
    /\ \A s \in DOMAIN slot_states, t \in Threads :
          call[t].pc = "claimed" => Entry(slot_states[s]) # ClaimedEntry(t)
    /\ \A t1, t2 \in Threads :
          (t1 # t2 /\ call[t1].pc = "claimed" /\ call[t2].pc = "claimed") =>
              ClaimedEntry(t1) # ClaimedEntry(t2)

\* The inductive invariant behind the safety properties.
RingInv == TypeOK /\ FrontierIsTight /\ SlabLayout /\ EntriesDistinct

\* Every alloc() returns: with a slot, with INVALID_SLOT or with an exception,
\* even if nothing is ever released, once the other callers stop taking the
\* mutex before it; and they never all wait for each other.
AllocReturns ==
    /\ \A t \in Threads :
         <>[](\A u \in Threads \ {t} : call[u].pc = "out") =>
             ((call[t].pc # "out") ~> (call[t].pc = "out"))
    /\ (\A t \in Threads : call[t].pc # "out") ~> (\E t \in Threads : call[t].pc = "out")

\* The ring implements a plain allocator of disjoint slabs.
Allocator == INSTANCE SlabAllocator WITH Heaps <- Rings, held <- HeldSlabs

ImplementsAllocator == Allocator!Spec
=============================================================================
