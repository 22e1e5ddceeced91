----------------------------- MODULE RingProofs -----------------------------
(***************************************************************************)
(* Proofs about the heap rings, for any number of heaps, threads and       *)
(* slots, any heap size and any alignment.                                 *)
(***************************************************************************)
EXTENDS Ring, WellFoundedInduction, TLAPS

-----------------------------------------------------------------------------
\* Facts about the helpers.

\* Every non-empty set of naturals has a least element.
LEMMA LeastNatural ==
    ASSUME NEW T \in SUBSET Nat, T # {}
    PROVE  \E m \in T : \A k \in T : m <= k
<1>1. \E x \in T : \A y \in T : ~(<<y, x>> \in OpToRel(<, Nat))
  BY Zenon, WFMin, NatLessThanWellFounded
<1>2. PICK x \in T : \A y \in T : ~(<<y, x>> \in OpToRel(<, Nat))
  BY Zenon, <1>1
<1>3. ASSUME NEW k \in T PROVE x <= k
  <2>1. ~(k < x)
    BY Zenon, <1>2, <1>3 DEF OpToRel
  <2> QED BY <2>1
<1> QED BY Zenon, <1>3

\* The walk of advance_last_alive_locked always ends: there is a frontier.
LEMMA FrontierExists ==
    ASSUME NEW q \in Seq(FifoEntry), NEW n \in 0 .. Len(q)
    PROVE  \E m \in n .. Len(q) : IsFrontier(q, n, m)
<1> DEFINE T == {k \in n .. Len(q) : k = Len(q) \/ ~q[k + 1].released}
<1>1. T \in SUBSET Nat /\ Len(q) \in T
  OBVIOUS
<1>2. PICK m \in T : \A k \in T : m <= k
  BY Zenon, <1>1, LeastNatural
<1>3. ASSUME NEW i \in (n + 1) .. m PROVE q[i].released
  <2>1. i - 1 \in n .. Len(q) /\ ~(i - 1 \in T)
    BY <1>2, <1>3
  <2> QED BY <2>1
<1> QED BY <1>2, <1>3 DEF IsFrontier

\* ... and Frontier is one.
LEMMA FrontierSpec ==
    ASSUME NEW q \in Seq(FifoEntry), NEW n \in 0 .. Len(q)
    PROVE  Frontier(q, n) \in n .. Len(q) /\ IsFrontier(q, n, Frontier(q, n))
BY Zenon, FrontierExists DEF Frontier

\* align_up yields a natural number.
LEMMA AlignUpType == ASSUME NEW v \in Nat PROVE AlignUp(v) \in Nat
<1> DEFINE d == (v + HeapAlign - 1) \div HeapAlign
<1>1. v + HeapAlign - 1 \in Nat /\ HeapAlign \in Nat \ {0}
  BY RingAssumption
<1>2. d \in Nat
  BY <1>1
<1> QED BY <1>1, <1>2 DEF AlignUp

\* ring_idx_for_scope picks one of the heaps.
LEMMA RingIdxType == ASSUME NEW d \in ScopeDepths PROVE RingIdxForScope(d) \in Rings
BY RingAssumption DEF RingIdxForScope, Rings

LEMMA NoCallType == NoCall \in Calls
BY RingAssumption DEF NoCall, Calls, Rings

-----------------------------------------------------------------------------
\* The inductive invariant.

LEMMA InitRingInv == Init => RingInv
<1> SUFFICES ASSUME Init PROVE RingInv
  BY Zenon
<1>1. TypeOK
  BY RingAssumption, NoCallType DEF Init, TypeOK, Rings
<1>2. FrontierIsTight
  BY DEF Init, FrontierIsTight
<1>3. ASSUME NEW r \in Rings PROVE Layout(fifo[r], last_alive[r], tail[r], top[r], 1)
  BY <1>3 DEF Init, Layout, InPlace, Ascending
<1>4. SlabLayout
  <2>1. ASSUME NEW r \in Rings
        PROVE  \E w \in (last_alive[r] + 1) .. (Len(fifo[r]) + 1) :
                  Layout(fifo[r], last_alive[r], tail[r], top[r], w)
    <3>1. 1 \in (last_alive[r] + 1) .. (Len(fifo[r]) + 1)
      BY DEF Init
    <3> QED BY Zenon, <1>3, <3>1
  <2> QED BY Zenon, <2>1 DEF SlabLayout
<1>5. EntriesDistinct
  BY DEF Init, EntriesDistinct, NoCall
<1> QED BY Zenon, <1>1, <1>2, <1>4, <1>5 DEF RingInv

\* The steps that leave the heaps alone keep the layout.
LEMMA HeapUnchanged ==
    ASSUME FrontierIsTight, SlabLayout, UNCHANGED heapVars
    PROVE  FrontierIsTight' /\ SlabLayout'
BY Zenon DEF heapVars, FrontierIsTight, SlabLayout

\* The steps of alloc() outside the two phases, time and shutdown only change
\* the callers' progress, and make no claim.
CallStep ==
    /\ UNCHANGED <<heapVars, slot_states>>
    /\ shutdown' \in {"no", "flagged", "notified"}
    /\ call' \in [Threads -> Calls]
    /\ \A t \in Threads : call'[t].pc = "claimed" =>
          /\ call[t].pc = "claimed"
          /\ call'[t].ring = call[t].ring
          /\ call'[t].ring_slot_idx = call[t].ring_slot_idx

LEMMA CallStepInv == ASSUME RingInv, CallStep PROVE RingInv'
<1>1. FrontierIsTight' /\ SlabLayout'
  BY Zenon, HeapUnchanged DEF RingInv, CallStep
<1>2. TypeOK'
  BY Zenon DEF RingInv, TypeOK, CallStep, heapVars
<1>3. EntriesDistinct'
  BY DEF RingInv, EntriesDistinct, CallStep, heapVars, ClaimedEntry, Entry
<1> QED BY Zenon, <1>1, <1>2, <1>3 DEF RingInv

LEMMA NotifiedIsCallStep ==
    ASSUME TypeOK, NEW rs \in SUBSET Rings
    PROVE  /\ Notified(rs) \in [Threads -> Calls]
           /\ \A t \in Threads :
                 /\ Notified(rs)[t].pc = call[t].pc
                 /\ Notified(rs)[t].ring = call[t].ring
                 /\ Notified(rs)[t].ring_slot_idx = call[t].ring_slot_idx
<1>1. ASSUME NEW t \in Threads
      PROVE  /\ Notified(rs)[t] \in Calls
             /\ Notified(rs)[t].pc = call[t].pc
             /\ Notified(rs)[t].ring = call[t].ring
             /\ Notified(rs)[t].ring_slot_idx = call[t].ring_slot_idx
  <2>1. call[t] \in Calls
    BY Zenon DEF TypeOK
  <2> DEFINE c == [call[t] EXCEPT !.notified = TRUE]
  <2>2. /\ c \in Calls /\ c.pc = call[t].pc
        /\ c.ring = call[t].ring /\ c.ring_slot_idx = call[t].ring_slot_idx
    BY Zenon, <2>1 DEF Calls
  <2>3. Notified(rs)[t] = c \/ Notified(rs)[t] = call[t]
    BY Zenon DEF Notified
  <2> HIDE DEF c
  <2> QED BY Zenon, <2>1, <2>2, <2>3
<1>2. Notified(rs) = [t \in Threads |-> Notified(rs)[t]]
  BY Zenon DEF Notified
<1> QED BY Zenon, <1>1, <1>2

LEMMA AllocEnterStep ==
    ASSUME RingInv, NEW t \in Threads, NEW b \in Requests, NEW d \in ScopeDepths,
           AllocEnter(t, b, d)
    PROVE  CallStep
<1>1. AlignUp(b) \in Nat /\ RingIdxForScope(d) \in Rings
  BY Zenon, AlignUpType, RingIdxType, RingAssumption
<1>2. [NoCall EXCEPT !.pc = "enter", !.ring = RingIdxForScope(d), !.aligned = AlignUp(b)] \in Calls
  BY Zenon, <1>1, NoCallType DEF NoCall, Calls
<1>3. [NoCall EXCEPT !.result = "rejected"] \in Calls
  BY Zenon, NoCallType DEF NoCall, Calls
<1> QED
  BY Zenon, <1>2, <1>3 DEF RingInv, TypeOK, AllocEnter, Return, CallStep, NoCall

\* Updates of one caller's progress.
LEMMA PcUpdate ==
    ASSUME NEW c \in Calls
    PROVE  /\ [c EXCEPT !.pc = "checked"] \in Calls
           /\ [c EXCEPT !.pc = "checked"].pc = "checked"
           /\ [c EXCEPT !.pc = "checked", !.notified = FALSE] \in Calls
           /\ [c EXCEPT !.pc = "checked", !.notified = FALSE].pc = "checked"
BY Zenon DEF Calls

LEMMA WaitUpdate ==
    ASSUME NEW c \in Calls
    PROVE  /\ [c EXCEPT !.pc = "waiting", !.notified = FALSE] \in Calls
           /\ [c EXCEPT !.pc = "waiting", !.notified = FALSE].pc = "waiting"
BY Zenon DEF Calls

LEMMA TickUpdate ==
    ASSUME NEW c \in Calls, c.waited < AllocTimeout
    PROVE  /\ [c EXCEPT !.waited = @ + 1] \in Calls
           /\ [c EXCEPT !.waited = @ + 1].pc = c.pc
           /\ [c EXCEPT !.waited = @ + 1].ring = c.ring
           /\ [c EXCEPT !.waited = @ + 1].ring_slot_idx = c.ring_slot_idx
BY RingAssumption DEF Calls

LEMMA ReturnUpdate ==
    ASSUME NEW res \in {"slot", "invalid", "exhausted", "rejected"}
    PROVE  /\ [NoCall EXCEPT !.result = res] \in Calls
           /\ [NoCall EXCEPT !.result = res].pc = "out"
BY Zenon, NoCallType DEF NoCall, Calls

\* A step that gives thread t the progress c, which is no claim.
LEMMA OneCallStep ==
    ASSUME TypeOK, NEW t \in Threads, NEW c \in Calls, c.pc # "claimed",
           call' = [call EXCEPT ![t] = c], UNCHANGED <<heapVars, slot_states, shutdown>>
    PROVE  CallStep
BY Zenon DEF TypeOK, CallStep

LEMMA AllocCheckStep ==
    ASSUME RingInv, NEW t \in Threads, AllocCheck(t) PROVE CallStep
<1>1. call[t] \in Calls /\ TypeOK
  BY Zenon DEF RingInv, TypeOK
<1>2. CASE shutdown # "no"
  BY Zenon, <1>1, <1>2, ReturnUpdate, OneCallStep DEF AllocCheck, Return
<1>3. CASE shutdown = "no"
  <2>1. call' = [call EXCEPT ![t] = [call[t] EXCEPT !.pc = "checked"]]
    BY Zenon, <1>3 DEF AllocCheck
  <2>2. UNCHANGED <<heapVars, slot_states, shutdown>>
    BY SMTT(30) DEF AllocCheck
  <2> QED BY Zenon, <1>1, <2>1, <2>2, PcUpdate, OneCallStep
<1> QED BY Zenon, <1>2, <1>3

LEMMA AllocWaitStep ==
    ASSUME RingInv, NEW t \in Threads, AllocWait(t) PROVE CallStep
<1>1. call[t] \in Calls /\ TypeOK
  BY Zenon DEF RingInv, TypeOK
<1>2. call' = [call EXCEPT ![t] = [call[t] EXCEPT !.pc = "waiting", !.notified = FALSE]]
  BY Zenon, <1>1 DEF AllocWait, TypeOK
<1> QED BY Zenon, <1>1, <1>2, WaitUpdate, OneCallStep DEF AllocWait

LEMMA AllocWakeStep ==
    ASSUME RingInv, NEW t \in Threads, AllocWake(t) PROVE CallStep
<1>1. call[t] \in Calls /\ TypeOK
  BY Zenon DEF RingInv, TypeOK
<1>2. UNCHANGED <<heapVars, slot_states, shutdown>>
  BY Zenon DEF AllocWake
<1>3. CASE Return(t, "invalid") \/ Return(t, "exhausted")
  BY Zenon, <1>1, <1>2, <1>3, ReturnUpdate, OneCallStep DEF Return
<1>4. CASE call' = [call EXCEPT ![t].pc = "checked", ![t].notified = FALSE]
  <2>1. call' = [call EXCEPT ![t] = [call[t] EXCEPT !.pc = "checked", !.notified = FALSE]]
    BY Zenon, <1>1, <1>4 DEF TypeOK
  <2> QED BY Zenon, <1>1, <1>2, <2>1, PcUpdate, OneCallStep
<1> QED BY Zenon, <1>3, <1>4 DEF AllocWake

LEMMA ShutdownStep ==
    ASSUME RingInv, ShutdownFlag \/ ShutdownNotify PROVE CallStep
BY NotifiedIsCallStep DEF RingInv, TypeOK, ShutdownFlag, ShutdownNotify, CallStep

LEMMA TickStep == ASSUME RingInv, Tick PROVE CallStep
<1>1. TypeOK
  BY Zenon DEF RingInv
<1>2. ASSUME NEW t \in Threads
      PROVE  call'[t] \in Calls /\ call'[t].pc = call[t].pc
                /\ call'[t].ring = call[t].ring
                /\ call'[t].ring_slot_idx = call[t].ring_slot_idx
  <2>1. CASE Ticking(t)
    <3>1. call'[t] = [call[t] EXCEPT !.waited = @ + 1] /\ call[t] \in Calls
      BY Zenon, <1>1, <2>1 DEF Tick, TypeOK
    <3> QED BY Zenon, <2>1, <3>1, TickUpdate DEF Ticking
  <2>2. CASE ~Ticking(t)
    BY Zenon, <1>1, <2>2 DEF Tick, TypeOK
  <2> QED BY Zenon, <2>1, <2>2
<1>3. call' \in [Threads -> Calls]
  BY Zenon, <1>2 DEF Tick
<1> QED BY Zenon, <1>1, <1>2, <1>3 DEF Tick, TypeOK, CallStep

-----------------------------------------------------------------------------
\* The layout of one heap, as a fact about its entries and cursors.

LEMMA EntryType ==
    ASSUME NEW e \in FifoEntry PROVE e.heap_ptr \in Nat /\ e.heap_end \in Nat
BY Zenon DEF FifoEntry

LEMMA EntryTypes ==
    ASSUME NEW q \in Seq(FifoEntry)
    PROVE  \A i \in 1 .. Len(q) : q[i].heap_ptr \in Nat /\ q[i].heap_end \in Nat
<1>1. \A i \in 1 .. Len(q) : q[i] \in FifoEntry
  OBVIOUS
<1> QED BY Zenon, <1>1, EntryType

\* A new slab placed behind top: one more entry of the last run.
LEMMA LayoutBehindTop ==
    ASSUME NEW q \in Seq(FifoEntry), NEW a \in 0 .. Len(q),
           NEW lo \in 0 .. HeapBytes, NEW hi \in 0 .. HeapBytes,
           NEW w \in (a + 1) .. (Len(q) + 1), Layout(q, a, lo, hi, w),
           NEW n \in Nat, IF hi >= lo THEN HeapBytes - hi >= n ELSE lo - hi > n,
           NEW e \in FifoEntry, e.heap_ptr = hi, e.heap_end = hi + n
    PROVE  \E v \in (a + 1) .. (Len(Append(q, e)) + 1) :
              Layout(Append(q, e), a, lo, hi + n, v)
<1> DEFINE p == Append(q, e)
           v == IF hi >= lo THEN Len(q) + 2 ELSE w
<1>1. /\ Len(p) = Len(q) + 1 /\ Len(q) \in Nat
      /\ p[Len(q) + 1] = e
      /\ \A i \in 1 .. Len(q) : p[i] = q[i]
  OBVIOUS
<1>2. HeapBytes \in Nat
  BY Zenon, RingAssumption
<1>3. \A i \in 1 .. Len(q) : q[i].heap_ptr \in Nat /\ q[i].heap_end \in Nat
  BY Zenon, EntryTypes
<1>4. w = Len(q) + 1 <=> lo <= hi
  BY Zenon DEF Layout
<1>5. v \in (a + 1) .. (Len(p) + 1) /\ (v = Len(p) + 1 <=> lo <= hi + n)
  BY <1>1, <1>2, <1>4
<1> HIDE DEF p
<1>6. ASSUME NEW i \in (a + 1) .. Len(p)
      PROVE  /\ p[i].heap_ptr <= p[i].heap_end
             /\ p[i].heap_end <= HeapBytes
             /\ i < v => lo <= p[i].heap_ptr
             /\ (i >= v \/ v = Len(p) + 1) => p[i].heap_end <= hi + n
  <2>1. CASE i = Len(q) + 1
    BY <1>1, <1>2, <1>4, <2>1
  <2>2. CASE i # Len(q) + 1
    <3>1. i \in (a + 1) .. Len(q) /\ i \in 1 .. Len(q) /\ p[i] = q[i]
      BY <1>1, <2>2
    <3>2. /\ q[i].heap_ptr <= q[i].heap_end
          /\ q[i].heap_end <= HeapBytes
          /\ i < w => lo <= q[i].heap_ptr
          /\ (i >= w \/ w = Len(q) + 1) => q[i].heap_end <= hi
      BY Zenon, <3>1 DEF Layout, InPlace
    <3> QED BY <1>1, <1>2, <1>3, <1>4, <3>1, <3>2
  <2> QED BY Zenon, <2>1, <2>2
<1>7. ASSUME NEW i \in (a + 1) .. Len(p), NEW j \in (a + 1) .. Len(p),
             i < j, j < v \/ v <= i
      PROVE  p[i].heap_end <= p[j].heap_ptr
  <2>1. i \in (a + 1) .. Len(q) /\ i \in 1 .. Len(q) /\ p[i] = q[i]
    BY <1>1, <1>7
  <2>2. CASE j = Len(q) + 1
    <3>1. (i >= w \/ w = Len(q) + 1) => q[i].heap_end <= hi
      BY SMTT(30), <2>1 DEF Layout, InPlace
    <3> QED BY <1>1, <1>2, <1>4, <1>7, <2>1, <2>2, <3>1
  <2>3. CASE j # Len(q) + 1
    <3>1. j \in (a + 1) .. Len(q) /\ p[j] = q[j]
      BY <1>1, <2>3
    <3>2. (i < j /\ (j < w \/ w <= i)) => q[i].heap_end <= q[j].heap_ptr
      BY Zenon, <2>1, <3>1 DEF Layout, Ascending
    <3> QED BY <1>1, <1>2, <1>4, <1>7, <2>1, <3>1, <3>2
  <2> QED BY Zenon, <2>2, <2>3
<1>8. Layout(p, a, lo, hi + n, v)
  BY Zenon, <1>5, <1>6, <1>7 DEF Layout, InPlace, Ascending
<1> QED BY Zenon, <1>5, <1>8 DEF p

\* A new slab placed at the base: it starts the second run.
LEMMA LayoutAfterWrap ==
    ASSUME NEW q \in Seq(FifoEntry), NEW a \in 0 .. Len(q),
           NEW lo \in 0 .. HeapBytes, NEW hi \in 0 .. HeapBytes,
           NEW w \in (a + 1) .. (Len(q) + 1), Layout(q, a, lo, hi, w),
           NEW n \in Nat, hi >= lo, lo > n,
           NEW e \in FifoEntry, e.heap_ptr = 0, e.heap_end = n
    PROVE  \E v \in (a + 1) .. (Len(Append(q, e)) + 1) :
              Layout(Append(q, e), a, lo, n, v)
<1> DEFINE p == Append(q, e)
           v == Len(q) + 1
<1>1. /\ Len(p) = Len(q) + 1 /\ Len(q) \in Nat
      /\ p[Len(q) + 1] = e
      /\ \A i \in 1 .. Len(q) : p[i] = q[i]
  OBVIOUS
<1>2. HeapBytes \in Nat
  BY Zenon, RingAssumption
<1>3. w = Len(q) + 1
  BY Zenon, <1>2 DEF Layout
<1>4. v \in (a + 1) .. (Len(p) + 1) /\ (v = Len(p) + 1 <=> lo <= n)
  BY <1>1, <1>2
<1> HIDE DEF p
<1>5. ASSUME NEW i \in (a + 1) .. Len(p)
      PROVE  /\ p[i].heap_ptr <= p[i].heap_end
             /\ p[i].heap_end <= HeapBytes
             /\ i < v => lo <= p[i].heap_ptr
             /\ (i >= v \/ v = Len(p) + 1) => p[i].heap_end <= n
  <2>1. CASE i = Len(q) + 1
    BY <1>1, <1>2, <2>1
  <2>2. CASE i # Len(q) + 1
    <3>1. i \in (a + 1) .. Len(q) /\ p[i] = q[i] /\ i < w
      BY <1>1, <1>3, <2>2
    <3>2. /\ q[i].heap_ptr <= q[i].heap_end
          /\ q[i].heap_end <= HeapBytes
          /\ lo <= q[i].heap_ptr
      BY Zenon, <3>1 DEF Layout, InPlace
    <3> QED BY <1>1, <3>1, <3>2
  <2> QED BY Zenon, <2>1, <2>2
<1>6. ASSUME NEW i \in (a + 1) .. Len(p), NEW j \in (a + 1) .. Len(p),
             i < j, j < v \/ v <= i
      PROVE  p[i].heap_end <= p[j].heap_ptr
  <2>1. /\ i \in (a + 1) .. Len(q) /\ p[i] = q[i]
        /\ j \in (a + 1) .. Len(q) /\ p[j] = q[j] /\ j < w
    BY <1>1, <1>3, <1>6
  <2> QED BY Zenon, <1>6, <2>1 DEF Layout, Ascending
<1>7. Layout(p, a, lo, n, v)
  BY Zenon, <1>4, <1>5, <1>6 DEF Layout, InPlace, Ascending
<1> QED BY Zenon, <1>4, <1>7 DEF p

\* The frontier moves from a to m: the slabs up to m leave the layout, and the
\* first run with them if m has passed the wrap.
LEMMA LayoutReclaim ==
    ASSUME NEW q \in Seq(FifoEntry), NEW a \in 0 .. Len(q),
           NEW lo \in 0 .. HeapBytes, NEW hi \in 0 .. HeapBytes,
           NEW w \in (a + 1) .. (Len(q) + 1), Layout(q, a, lo, hi, w),
           NEW m \in (a + 1) .. Len(q)
    PROVE  /\ q[m].heap_end \in 0 .. HeapBytes
           /\ \E v \in (m + 1) .. (Len(q) + 1) : Layout(q, m, q[m].heap_end, hi, v)
<1> DEFINE v == IF m < w THEN w ELSE Len(q) + 1
<1>1. HeapBytes \in Nat /\ Len(q) \in Nat
  BY RingAssumption
<1>2. q[m].heap_ptr \in Nat /\ q[m].heap_end \in Nat
  BY EntryTypes
<1>3. /\ q[m].heap_ptr <= q[m].heap_end
      /\ q[m].heap_end <= HeapBytes
      /\ m < w => lo <= q[m].heap_ptr
      /\ (m >= w \/ w = Len(q) + 1) => q[m].heap_end <= hi
      /\ w = Len(q) + 1 <=> lo <= hi
  BY Zenon DEF Layout, InPlace
<1>4. v \in (m + 1) .. (Len(q) + 1) /\ (v = Len(q) + 1 <=> q[m].heap_end <= hi)
  BY <1>1, <1>2, <1>3
<1>5. ASSUME NEW i \in (m + 1) .. Len(q)
      PROVE  /\ q[i].heap_ptr <= q[i].heap_end
             /\ q[i].heap_end <= HeapBytes
             /\ i < v => q[m].heap_end <= q[i].heap_ptr
             /\ (i >= v \/ v = Len(q) + 1) => q[i].heap_end <= hi
  <2>1. i \in (a + 1) .. Len(q) /\ m < i
    BY <1>1
  <2>2. /\ q[i].heap_ptr <= q[i].heap_end
        /\ q[i].heap_end <= HeapBytes
        /\ (i >= w \/ w = Len(q) + 1) => q[i].heap_end <= hi
    BY Zenon, <2>1 DEF Layout, InPlace
  <2>3. (i < w \/ w <= m) => q[m].heap_end <= q[i].heap_ptr
    BY Zenon, <2>1 DEF Layout, Ascending
  <2> QED BY <1>1, <2>1, <2>2, <2>3
<1>6. ASSUME NEW i \in (m + 1) .. Len(q), NEW j \in (m + 1) .. Len(q),
             i < j, j < v \/ v <= i
      PROVE  q[i].heap_end <= q[j].heap_ptr
  <2>1. i \in (a + 1) .. Len(q) /\ j \in (a + 1) .. Len(q) /\ (j < w \/ w <= i)
    BY <1>1, <1>6
  <2> QED BY Zenon, <1>6, <2>1 DEF Layout, Ascending
<1>7. Layout(q, m, q[m].heap_end, hi, v)
  BY Zenon, <1>4, <1>5, <1>6 DEF Layout, InPlace, Ascending
<1> QED BY <1>1, <1>2, <1>3, <1>4, <1>7

\* Marking an entry released moves no slab.
LEMMA LayoutSameSlabs ==
    ASSUME NEW q \in Seq(FifoEntry), NEW p \in Seq(FifoEntry), Len(p) = Len(q),
           \A i \in 1 .. Len(q) : p[i].heap_ptr = q[i].heap_ptr /\ p[i].heap_end = q[i].heap_end,
           NEW a \in 0 .. Len(q), NEW lo \in Nat, NEW hi \in Nat,
           NEW w \in (a + 1) .. (Len(q) + 1), Layout(q, a, lo, hi, w)
    PROVE  Layout(p, a, lo, hi, w)
<1>1. InPlace(p, a, lo, hi, w)
  BY DEF Layout, InPlace
<1>2. Ascending(p, a, w)
  BY DEF Layout, Ascending
<1> QED BY Zenon, <1>1, <1>2 DEF Layout

-----------------------------------------------------------------------------
\* The steps that change a heap or publish a slot.

LEMMA ClaimUpdate ==
    ASSUME NEW c \in Calls, NEW k \in Nat
    PROVE  /\ [c EXCEPT !.pc = "claimed", !.ring_slot_idx = k] \in Calls
           /\ [c EXCEPT !.pc = "claimed", !.ring_slot_idx = k].pc = "claimed"
           /\ [c EXCEPT !.pc = "claimed", !.ring_slot_idx = k].ring = c.ring
           /\ [c EXCEPT !.pc = "claimed", !.ring_slot_idx = k].ring_slot_idx = k
BY Zenon DEF Calls

LEMMA CallType ==
    ASSUME NEW c \in Calls
    PROVE  c.ring \in Rings /\ c.aligned \in Nat /\ c.ring_slot_idx \in Nat
BY Zenon DEF Calls

LEMMA SlotStateType ==
    ASSUME NEW s \in SlotStates PROVE s.ring_idx \in Rings /\ s.ring_slot_idx \in Nat
BY Zenon DEF SlotStates

LEMMA NewEntry ==
    ASSUME NEW p \in Nat, NEW n \in Nat
    PROVE  LET e == [heap_ptr |-> p, heap_end |-> p + n, released |-> FALSE]
           IN  e \in FifoEntry /\ e.heap_ptr = p /\ e.heap_end = p + n /\ ~e.released
BY DEF FifoEntry

\* alloc() phase 1 claims one more entry at the end of the heap's FIFO.
LEMMA AllocClaimInv ==
    ASSUME RingInv, NEW t \in Threads, AllocClaim(t) PROVE RingInv'
<1> DEFINE r == call[t].ring
           n == call[t].aligned
           ptr == IF n = 0 THEN top[r] ELSE BumpOffset(r, n)
           e == [heap_ptr |-> ptr, heap_end |-> ptr + n, released |-> FALSE]
           q == fifo[r]
           p == Append(q, e)
           c == [call[t] EXCEPT !.pc = "claimed", !.ring_slot_idx = Len(q) + 1]
<1>1. call[t] \in Calls /\ TypeOK
  BY Zenon DEF RingInv, TypeOK
<1>2. r \in Rings /\ n \in Nat
  BY Zenon, <1>1, CallType
<1>3. /\ q \in Seq(FifoEntry) /\ Len(q) \in Nat
      /\ top[r] \in 0 .. HeapBytes /\ tail[r] \in 0 .. HeapBytes
      /\ last_alive[r] \in 0 .. Len(q) /\ HeapBytes \in Nat
  BY <1>1, <1>2, RingAssumption DEF TypeOK
<1>4. ptr + n \in 0 .. HeapBytes /\ ptr \in Nat
  <2>1. n = 0 \/ CanBump(r, n)
    BY Zenon DEF AllocClaim
  <2> HIDE DEF n, r
  <2>2. CASE n = 0
    BY <1>3, <2>2
  <2>3. CASE n # 0 /\ FitsBehindTop(r, n)
    BY SMTT(30), <1>2, <1>3, <2>3 DEF BumpOffset, FitsBehindTop
  <2>4. CASE n # 0 /\ ~FitsBehindTop(r, n)
    BY <1>2, <1>3, <2>1, <2>4 DEF CanBump, BumpOffset, FitsAfterWrap
  <2> QED BY Zenon, <2>2, <2>3, <2>4
<1>5. e \in FifoEntry /\ e.heap_ptr = ptr /\ e.heap_end = ptr + n /\ ~e.released
  BY Zenon, <1>2, <1>4, NewEntry
<1>6. PICK w \in (last_alive[r] + 1) .. (Len(q) + 1) :
          Layout(q, last_alive[r], tail[r], top[r], w)
  BY Zenon, <1>2 DEF RingInv, SlabLayout
<1>7. \E v \in (last_alive[r] + 1) .. (Len(p) + 1) :
          Layout(p, last_alive[r], tail[r], ptr + n, v)
  <2>1. CASE FitsBehindTop(r, n)
    <3>1. /\ ptr = top[r]
          /\ IF top[r] >= tail[r] THEN HeapBytes - top[r] >= n ELSE tail[r] - top[r] > n
      BY Zenon, <2>1 DEF BumpOffset, FitsBehindTop
    <3> HIDE DEF e, q, n, r
    <3> QED BY Zenon, <1>2, <1>3, <1>5, <1>6, <3>1, LayoutBehindTop
  <2>2. CASE ~FitsBehindTop(r, n)
    <3>1. n # 0
      BY <1>2, <1>3, <2>2 DEF FitsBehindTop
    <3>2. ptr = 0 /\ top[r] >= tail[r] /\ tail[r] > n
      BY SMTT(30), <2>2, <3>1 DEF AllocClaim, CanBump, BumpOffset, FitsAfterWrap
    <3>3. e.heap_ptr = 0 /\ e.heap_end = n /\ ptr + n = n
      BY <1>2, <1>5, <3>2
    <3> HIDE DEF e, q, n, r, ptr
    <3> QED BY SMTT(30), <1>2, <1>3, <1>5, <1>6, <3>2, <3>3, LayoutAfterWrap
  <2> QED BY Zenon, <2>1, <2>2
<1>8. /\ top' = [top EXCEPT ![r] = ptr + n] /\ fifo' = [fifo EXCEPT ![r] = p]
      /\ call' = [call EXCEPT ![t] = c]
      /\ UNCHANGED <<tail, last_alive, slot_states, shutdown>>
  BY Zenon, <1>1 DEF AllocClaim, TypeOK
<1>9. /\ c \in Calls /\ c.pc = "claimed" /\ c.ring = r /\ c.ring_slot_idx = Len(q) + 1
  <2>1. Len(q) + 1 \in Nat
    BY <1>3
  <2> QED BY Zenon, <1>1, <2>1, ClaimUpdate
<1>10. /\ p \in Seq(FifoEntry) /\ Len(p) = Len(q) + 1 /\ p[Len(q) + 1] = e
       /\ \A i \in 1 .. Len(q) : p[i] = q[i]
  <2> HIDE DEF e, q
  <2> QED BY <1>3, <1>5
<1> HIDE DEF r, n, ptr, e, p, c
<1>11. /\ top'[r] = ptr + n /\ fifo'[r] = p /\ call'[t] = c
       /\ \A x \in Rings : x # r => top'[x] = top[x] /\ fifo'[x] = fifo[x]
       /\ \A x \in Threads : x # t => call'[x] = call[x]
  BY Zenon, <1>1, <1>2, <1>8 DEF TypeOK
<1>12. TypeOK'
  BY SMTT(30), <1>1, <1>2, <1>3, <1>4, <1>8, <1>9, <1>10, <1>11 DEF TypeOK
<1>13. FrontierIsTight'
  <2>1. ASSUME NEW x \in Rings
        PROVE  /\ \A i \in 1 .. last_alive[x] : fifo'[x][i].released
               /\ last_alive[x] < Len(fifo'[x]) => ~fifo'[x][last_alive[x] + 1].released
    <3>1. CASE x = r
      <4>1. /\ \A i \in 1 .. last_alive[r] : q[i].released
            /\ last_alive[r] < Len(q) => ~q[last_alive[r] + 1].released
        BY Zenon, <1>2 DEF RingInv, FrontierIsTight
      <4>2. \A i \in 1 .. last_alive[r] : p[i].released
        <5>1. ASSUME NEW i \in 1 .. last_alive[r] PROVE p[i].released
          <6>1. i \in 1 .. Len(q)
            BY <1>3
          <6> QED BY <1>10, <4>1, <6>1, Zenon
        <5> QED BY Zenon, <5>1
      <4>3. ~p[last_alive[r] + 1].released
        <5>1. CASE last_alive[r] = Len(q)
          BY Zenon, <1>5, <1>10, <5>1
        <5>2. CASE last_alive[r] < Len(q)
          <6>1. last_alive[r] + 1 \in 1 .. Len(q)
            BY <1>3, <5>2
          <6> QED BY <1>10, <4>1, <5>2, <6>1, Zenon
        <5> QED BY <1>3, <5>1, <5>2
      <4> QED BY Zenon, <1>11, <3>1, <4>2, <4>3
    <3>2. CASE x # r
      BY Zenon, <1>11, <3>2 DEF RingInv, FrontierIsTight
    <3> QED BY Zenon, <3>1, <3>2
  <2> QED BY Zenon, <1>8, <2>1 DEF FrontierIsTight
<1>14. SlabLayout'
  <2>1. ASSUME NEW x \in Rings
        PROVE  \E v \in (last_alive[x] + 1) .. (Len(fifo'[x]) + 1) :
                  Layout(fifo'[x], last_alive[x], tail[x], top'[x], v)
    <3>1. CASE x = r
      BY Zenon, <1>7, <1>11, <3>1
    <3>2. CASE x # r
      BY Zenon, <1>11, <3>2 DEF RingInv, SlabLayout
    <3> QED BY Zenon, <3>1, <3>2
  <2> QED BY Zenon, <1>8, <2>1 DEF SlabLayout
<1>15. EntriesDistinct'
  <2>1. \A x \in Rings : DOMAIN fifo[x] \subseteq DOMAIN fifo'[x]
    <3>1. ASSUME NEW x \in Rings PROVE DOMAIN fifo[x] \subseteq DOMAIN fifo'[x]
      <4>1. CASE x = r
        BY <1>3, <1>10, <1>11, <4>1
      <4>2. CASE x # r
        BY Zenon, <1>11, <4>2
      <4> QED BY Zenon, <4>1, <4>2
    <3> QED BY Zenon, <3>1
  <2>2. Len(q) + 1 \notin DOMAIN fifo[r] /\ Len(q) + 1 \in DOMAIN fifo'[r]
    BY <1>3, <1>10, <1>11
  <2>3. \A s \in DOMAIN slot_states : slot_states[s].ring_idx \in Rings
    BY <1>1, SlotStateType DEF TypeOK
  <2>4. \A x \in Threads : call[x].ring \in Rings
    BY Zenon, <1>1, CallType DEF TypeOK
  <2> QED
    BY <1>2, <1>8, <1>9, <1>11, <2>1, <2>2, <2>3, <2>4
    DEF RingInv, EntriesDistinct, Entry, ClaimedEntry
<1> QED BY Zenon, <1>12, <1>13, <1>14, <1>15 DEF RingInv

LEMMA NewSlotState ==
    ASSUME NEW r \in Rings, NEW k \in Nat
    PROVE  LET s == [ring_idx |-> r, ring_slot_idx |-> k]
           IN  s \in SlotStates /\ s.ring_idx = r /\ s.ring_slot_idx = k
BY Zenon DEF SlotStates

\* alloc() phase 2 turns the claim of t into a task id.
LEMMA AllocPublishInv ==
    ASSUME RingInv, NEW t \in Threads, AllocPublish(t) PROVE RingInv'
<1> DEFINE x == [ring_idx |-> call[t].ring, ring_slot_idx |-> call[t].ring_slot_idx]
           n == Len(slot_states)
           c == [NoCall EXCEPT !.result = "slot"]
<1>1. call[t] \in Calls /\ TypeOK
  BY Zenon DEF RingInv, TypeOK
<1>2. x \in SlotStates /\ x.ring_idx = call[t].ring /\ x.ring_slot_idx = call[t].ring_slot_idx
  BY Zenon, <1>1, CallType, NewSlotState
<1>3. c \in Calls /\ c.pc = "out"
  BY Zenon, ReturnUpdate
<1>4. /\ slot_states' = Append(slot_states, x) /\ call' = [call EXCEPT ![t] = c]
      /\ UNCHANGED <<heapVars, shutdown>> /\ call[t].pc = "claimed"
  BY Zenon DEF AllocPublish, Return
<1> HIDE DEF x, c
<1>5. slot_states \in Seq(SlotStates)
  BY Zenon, <1>1 DEF TypeOK
<1>6. /\ slot_states' \in Seq(SlotStates) /\ DOMAIN slot_states' = 1 .. (n + 1)
      /\ slot_states'[n + 1] = x /\ n \in Nat /\ DOMAIN slot_states = 1 .. n
      /\ \A s \in 1 .. n : slot_states'[s] = slot_states[s]
  BY <1>2, <1>4, <1>5
<1>7. call'[t] = c /\ \A u \in Threads : u # t => call'[u] = call[u]
  BY Zenon, <1>1, <1>4 DEF TypeOK
<1>8. TypeOK'
  BY Zenon, <1>1, <1>3, <1>4, <1>6 DEF TypeOK, heapVars
<1>9. FrontierIsTight' /\ SlabLayout'
  BY Zenon, <1>4, HeapUnchanged DEF RingInv
<1>10. EntriesDistinct'
  <2> USE DEF RingInv, EntriesDistinct
  <2>1. Entry(x) = ClaimedEntry(t) /\ fifo' = fifo
    BY Zenon, <1>2, <1>4 DEF Entry, ClaimedEntry, heapVars
  <2>2. \A s \in DOMAIN slot_states' : s = n + 1 \/ s \in DOMAIN slot_states
    BY <1>6
  <2>3. \A u \in Threads : call'[u].pc = "claimed" => u # t /\ call'[u] = call[u]
    BY Zenon, <1>3, <1>7
  <2>4. \A s \in DOMAIN slot_states :
            slot_states'[s] = slot_states[s] /\ Entry(slot_states[s]) # Entry(x)
    BY Zenon, <1>4, <1>6, <2>1
  <2>5. \A s \in DOMAIN slot_states' :
          slot_states'[s].ring_slot_idx \in DOMAIN fifo'[slot_states'[s].ring_idx]
    BY SMTT(30), <1>2, <1>4, <1>6, <2>1, <2>2, <2>4
  <2>6. \A s1, s2 \in DOMAIN slot_states' :
          s1 # s2 => Entry(slot_states'[s1]) # Entry(slot_states'[s2])
    BY Zenon, <1>6, <2>2, <2>4
  <2>7. \A s \in DOMAIN slot_states', u \in Threads :
          call'[u].pc = "claimed" => Entry(slot_states'[s]) # ClaimedEntry(u)'
    <3>1. ASSUME NEW u \in Threads, call'[u].pc = "claimed"
          PROVE  /\ ClaimedEntry(u)' = ClaimedEntry(u) /\ Entry(x) # ClaimedEntry(u)
                 /\ \A s \in DOMAIN slot_states : Entry(slot_states[s]) # ClaimedEntry(u)
      BY <1>4, <2>1, <2>3, <3>1 DEF ClaimedEntry
    <3> QED BY Zenon, <1>6, <2>2, <2>4, <3>1
  <2>8. \A u \in Threads : call'[u].pc = "claimed" =>
            call'[u].ring_slot_idx \in DOMAIN fifo'[call'[u].ring]
    BY Zenon, <2>1, <2>3
  <2>9. \A t1, t2 \in Threads :
          (t1 # t2 /\ call'[t1].pc = "claimed" /\ call'[t2].pc = "claimed") =>
              ClaimedEntry(t1)' # ClaimedEntry(t2)'
    BY Zenon, <2>3 DEF ClaimedEntry
  <2> QED BY Zenon, <2>5, <2>6, <2>7, <2>8, <2>9 DEF Entry
<1> QED BY Zenon, <1>8, <1>9, <1>10 DEF RingInv

\* A released mark and nothing else changes in a FIFO.
LEMMA MarkReleased ==
    ASSUME NEW q \in Seq(FifoEntry), NEW i \in 1 .. Len(q)
    PROVE  LET p == [q EXCEPT ![i].released = TRUE]
           IN  /\ p \in Seq(FifoEntry) /\ Len(p) = Len(q)
               /\ \A j \in 1 .. Len(q) :
                     /\ p[j].heap_ptr = q[j].heap_ptr /\ p[j].heap_end = q[j].heap_end
                     /\ q[j].released => p[j].released
<1> DEFINE e == [q[i] EXCEPT !.released = TRUE]
           p == [q EXCEPT ![i] = e]
<1>1. q[i] \in FifoEntry
  OBVIOUS
<1>2. e \in FifoEntry /\ e.heap_ptr = q[i].heap_ptr /\ e.heap_end = q[i].heap_end /\ e.released
  BY Zenon, <1>1 DEF FifoEntry
<1>3. [q EXCEPT ![i].released = TRUE] = p
  BY Zenon
<1> HIDE DEF e
<1>4. p \in Seq(FifoEntry) /\ Len(p) = Len(q)
  BY <1>2
<1>5. p[i] = e /\ \A j \in 1 .. Len(q) : j # i => p[j] = q[j]
  OBVIOUS
<1>6. ASSUME NEW j \in 1 .. Len(q)
      PROVE  /\ p[j].heap_ptr = q[j].heap_ptr /\ p[j].heap_end = q[j].heap_end
             /\ q[j].released => p[j].released
  <2> HIDE DEF p
  <2>1. CASE j = i
    BY <1>2, <1>5, <2>1, Zenon
  <2>2. CASE j # i
    BY <1>5, <2>2, Zenon
  <2> QED BY Zenon, <2>1, <2>2
<1> QED BY Zenon, <1>3, <1>4, <1>6

\* release() marks one entry and moves the frontier and tail of its heap.
LEMMA ReleaseInv ==
    ASSUME RingInv, NEW s \in DOMAIN slot_states, Release(s) PROVE RingInv'
<1> DEFINE r == slot_states[s].ring_idx
           i == slot_states[s].ring_slot_idx
           a == last_alive[r]
           q == [fifo[r] EXCEPT ![i].released = TRUE]
           m == Frontier(q, a)
           lo == IF m = a THEN tail[r] ELSE q[m].heap_end
<1>1. TypeOK
  BY Zenon DEF RingInv
<1>2. r \in Rings /\ i \in DOMAIN fifo[r]
  BY <1>1, SlotStateType DEF TypeOK, RingInv, EntriesDistinct
<1>3. /\ fifo[r] \in Seq(FifoEntry) /\ Len(fifo[r]) \in Nat /\ i \in 1 .. Len(fifo[r])
      /\ top[r] \in 0 .. HeapBytes /\ tail[r] \in 0 .. HeapBytes
      /\ a \in 0 .. Len(fifo[r]) /\ HeapBytes \in Nat
  BY SMTT(30), <1>1, <1>2, RingAssumption DEF TypeOK
<1>4. /\ q \in Seq(FifoEntry) /\ Len(q) = Len(fifo[r])
      /\ \A j \in 1 .. Len(fifo[r]) :
            /\ q[j].heap_ptr = fifo[r][j].heap_ptr /\ q[j].heap_end = fifo[r][j].heap_end
            /\ fifo[r][j].released => q[j].released
  BY SMTT(30), <1>3, MarkReleased
<1>5. /\ fifo' = [fifo EXCEPT ![r] = q] /\ last_alive' = [last_alive EXCEPT ![r] = m]
      /\ tail' = [tail EXCEPT ![r] = lo] /\ call' = Notified({r})
      /\ UNCHANGED <<top, slot_states, shutdown>>
  BY Zenon, <1>1, <1>2 DEF Release, TypeOK
<1> HIDE DEF r, i, q
<1>6. m \in a .. Len(q) /\ IsFrontier(q, a, m)
  BY Zenon, <1>3, <1>4, FrontierSpec
<1> HIDE DEF m
<1>7. PICK w \in (a + 1) .. (Len(q) + 1) : Layout(q, a, tail[r], top[r], w)
  <2>1. PICK w \in (a + 1) .. (Len(fifo[r]) + 1) : Layout(fifo[r], a, tail[r], top[r], w)
    BY Zenon, <1>2 DEF RingInv, SlabLayout
  <2>2. tail[r] \in Nat /\ top[r] \in Nat
    BY <1>3
  <2>3. Layout(q, a, tail[r], top[r], w)
    <3> HIDE DEF a
    <3> QED BY Zenon, <1>3, <1>4, <2>1, <2>2, LayoutSameSlabs
  <2> QED BY Zenon, <1>4, <2>1, <2>3
<1>8. /\ lo \in 0 .. HeapBytes
      /\ \E v \in (m + 1) .. (Len(q) + 1) : Layout(q, m, lo, top[r], v)
  <2>1. CASE m = a
    BY Zenon, <1>3, <1>7, <2>1
  <2>2. CASE m # a
    <3>1. m \in (a + 1) .. Len(q) /\ lo = q[m].heap_end
      BY <1>3, <1>4, <1>6, <2>2
    <3> HIDE DEF lo
    <3> QED BY Zenon, <1>3, <1>4, <1>7, <3>1, LayoutReclaim
  <2> QED BY Zenon, <2>1, <2>2
<1> HIDE DEF lo
<1>9. /\ fifo'[r] = q /\ last_alive'[r] = m /\ tail'[r] = lo
      /\ \A x \in Rings : x # r =>
            fifo'[x] = fifo[x] /\ last_alive'[x] = last_alive[x] /\ tail'[x] = tail[x]
  BY Zenon, <1>1, <1>2, <1>5 DEF TypeOK
<1>10. /\ call' \in [Threads -> Calls]
       /\ \A t \in Threads :
             /\ call'[t].pc = call[t].pc /\ call'[t].ring = call[t].ring
             /\ call'[t].ring_slot_idx = call[t].ring_slot_idx
  BY Zenon, <1>1, <1>2, <1>5, NotifiedIsCallStep
<1>11. TypeOK'
  <2>1. m \in Nat /\ m <= Len(q)
    BY <1>3, <1>4, <1>6
  <2>2. \A x \in Rings : last_alive'[x] <= Len(fifo'[x])
    BY Zenon, <1>1, <1>9, <2>1 DEF TypeOK
  <2> QED BY Zenon, <1>1, <1>4, <1>5, <1>8, <1>10, <2>1, <2>2 DEF TypeOK
<1>12. FrontierIsTight'
  <2>1. ASSUME NEW x \in Rings
        PROVE  /\ \A j \in 1 .. last_alive'[x] : fifo'[x][j].released
               /\ last_alive'[x] < Len(fifo'[x]) => ~fifo'[x][last_alive'[x] + 1].released
    <3>1. CASE x = r
      <4>1. ASSUME NEW j \in 1 .. m PROVE q[j].released
        <5>1. CASE j <= a
          <6>1. j \in 1 .. a /\ j \in 1 .. Len(fifo[r])
            BY <1>3, <1>4, <1>6, <5>1
          <6>2. fifo[r][j].released
            BY Zenon, <1>2, <6>1 DEF RingInv, FrontierIsTight
          <6> QED BY Zenon, <1>4, <6>1, <6>2
        <5>2. CASE j > a
          <6>1. j \in (a + 1) .. m
            BY <1>3, <1>6, <5>2
          <6> QED BY Zenon, <1>6, <6>1 DEF IsFrontier
        <5> QED BY <1>3, <1>6, <5>1, <5>2
      <4>2. m < Len(q) => ~q[m + 1].released
        BY Zenon, <1>6 DEF IsFrontier
      <4> QED BY Zenon, <1>9, <3>1, <4>1, <4>2
    <3>2. CASE x # r
      BY Zenon, <1>9, <3>2 DEF RingInv, FrontierIsTight
    <3> QED BY Zenon, <3>1, <3>2
  <2> QED BY Zenon, <2>1 DEF FrontierIsTight
<1>13. SlabLayout'
  <2>1. ASSUME NEW x \in Rings
        PROVE  \E v \in (last_alive'[x] + 1) .. (Len(fifo'[x]) + 1) :
                  Layout(fifo'[x], last_alive'[x], tail'[x], top[x], v)
    <3>1. CASE x = r
      BY Zenon, <1>8, <1>9, <3>1
    <3>2. CASE x # r
      BY Zenon, <1>9, <3>2 DEF RingInv, SlabLayout
    <3> QED BY Zenon, <3>1, <3>2
  <2> QED BY Zenon, <1>5, <2>1 DEF SlabLayout
<1>14. EntriesDistinct'
  <2>1. \A x \in Rings : DOMAIN fifo'[x] = DOMAIN fifo[x]
    <3>1. DOMAIN q = DOMAIN fifo[r]
      BY <1>3, <1>4
    <3> QED BY Zenon, <1>9, <3>1
  <2>2. \A x \in DOMAIN slot_states : slot_states[x].ring_idx \in Rings
    BY <1>1, SlotStateType DEF TypeOK
  <2>3. \A t \in Threads : call[t].ring \in Rings /\ ClaimedEntry(t)' = ClaimedEntry(t)
    BY SMTT(30), <1>1, <1>10, CallType DEF TypeOK, ClaimedEntry
  <2>4. /\ \A x \in DOMAIN slot_states' :
              slot_states'[x].ring_slot_idx \in DOMAIN fifo'[slot_states'[x].ring_idx]
        /\ \A t \in Threads : call'[t].pc = "claimed" =>
              call'[t].ring_slot_idx \in DOMAIN fifo'[call'[t].ring]
    BY ZenonT(30), <1>5, <1>10, <2>1, <2>2, <2>3 DEF RingInv, EntriesDistinct
  <2>5. \A s1, s2 \in DOMAIN slot_states' :
          s1 # s2 => Entry(slot_states'[s1]) # Entry(slot_states'[s2])
    BY Zenon, <1>5 DEF RingInv, EntriesDistinct
  <2>6. ASSUME NEW x \in DOMAIN slot_states', NEW t \in Threads, call'[t].pc = "claimed"
        PROVE  Entry(slot_states'[x]) # ClaimedEntry(t)'
    <3>1. call[t].pc = "claimed" /\ slot_states' = slot_states
      BY Zenon, <1>5, <1>10, <2>6
    <3>2. Entry(slot_states[x]) # ClaimedEntry(t)
      BY Zenon, <3>1 DEF RingInv, EntriesDistinct
    <3> QED BY Zenon, <2>3, <3>1, <3>2
  <2>7. ASSUME NEW t1 \in Threads, NEW t2 \in Threads, t1 # t2,
               call'[t1].pc = "claimed", call'[t2].pc = "claimed"
        PROVE  ClaimedEntry(t1)' # ClaimedEntry(t2)'
    <3>1. call[t1].pc = "claimed" /\ call[t2].pc = "claimed"
      BY Zenon, <1>10, <2>7
    <3>2. ClaimedEntry(t1) # ClaimedEntry(t2)
      BY Zenon, <2>7, <3>1 DEF RingInv, EntriesDistinct
    <3> QED BY Zenon, <2>3, <3>2
  <2> QED BY Zenon, <2>4, <2>5, <2>6, <2>7 DEF EntriesDistinct, Entry
<1> QED BY Zenon, <1>11, <1>12, <1>13, <1>14 DEF RingInv

\* reset_to_empty() puts every heap back into its initial state.
LEMMA ResetToEmptyInv == ASSUME RingInv, ResetToEmpty PROVE RingInv'
<1>1. TypeOK /\ \A t \in Threads : call[t].pc = "out"
  BY Zenon DEF RingInv, ResetToEmpty
<1>2. TypeOK'
  BY <1>1, RingAssumption DEF TypeOK, ResetToEmpty
<1>3. FrontierIsTight'
  BY DEF ResetToEmpty, FrontierIsTight
<1>4. ASSUME NEW r \in Rings PROVE Layout(<<>>, 0, 0, 0, 1)
  BY DEF Layout, InPlace, Ascending
<1>5. SlabLayout'
  <2>1. \A r \in Rings : /\ fifo'[r] = <<>> /\ last_alive'[r] = 0 /\ tail'[r] = 0 /\ top'[r] = 0
                          /\ 1 \in (last_alive'[r] + 1) .. (Len(fifo'[r]) + 1)
    BY DEF ResetToEmpty
  <2> QED BY Zenon, <1>4, <2>1 DEF SlabLayout
<1>6. EntriesDistinct'
  BY <1>1 DEF ResetToEmpty, EntriesDistinct
<1> QED BY Zenon, <1>2, <1>3, <1>5, <1>6 DEF RingInv

-----------------------------------------------------------------------------
LEMMA NextRingInv == RingInv /\ [Next]_vars => RingInv'
<1> SUFFICES ASSUME RingInv, [Next]_vars PROVE RingInv'
  BY Zenon
<1>1. ASSUME NEW t \in Threads, NEW b \in Requests, NEW d \in ScopeDepths, AllocEnter(t, b, d)
      PROVE  RingInv'
  BY Zenon, <1>1, AllocEnterStep, CallStepInv
<1>2. ASSUME NEW t \in Threads, AllocStep(t) PROVE RingInv'
  <2>1. CASE AllocCheck(t)
    BY Zenon, <2>1, AllocCheckStep, CallStepInv
  <2>2. CASE AllocClaim(t)
    BY Zenon, <2>2, AllocClaimInv
  <2>3. CASE AllocWait(t)
    BY Zenon, <2>3, AllocWaitStep, CallStepInv
  <2>4. CASE AllocWake(t)
    BY Zenon, <2>4, AllocWakeStep, CallStepInv
  <2>5. CASE AllocPublish(t)
    BY Zenon, <2>5, AllocPublishInv
  <2> QED BY Zenon, <1>2, <2>1, <2>2, <2>3, <2>4, <2>5 DEF AllocStep
<1>3. ASSUME NEW s \in DOMAIN slot_states, Release(s) PROVE RingInv'
  BY Zenon, <1>3, ReleaseInv
<1>4. CASE ResetToEmpty
  BY Zenon, <1>4, ResetToEmptyInv
<1>5. CASE ShutdownFlag \/ ShutdownNotify
  BY Zenon, <1>5, ShutdownStep, CallStepInv
<1>6. CASE Tick
  BY Zenon, <1>6, TickStep, CallStepInv
<1>7. CASE UNCHANGED vars
  <2>1. CallStep
    BY Zenon, <1>7 DEF RingInv, TypeOK, CallStep, vars, heapVars
  <2> QED BY Zenon, <2>1, CallStepInv
<1> QED BY Zenon, <1>1, <1>2, <1>3, <1>4, <1>5, <1>6, <1>7 DEF Next

\* The layout, frontier and numbering facts of RingInv hold in every reachable
\* state of Ring::alloc, release, reset_to_empty and shutdown.
THEOREM RingInvariant == Spec => []RingInv
BY InitRingInv, NextRingInv, PTL DEF Spec

\* Cursors, frontiers, slot states and the callers of alloc() keep their types,
\* and no cursor leaves its heap.
THEOREM TypeCorrect == Spec => []TypeOK
<1>1. RingInv => TypeOK
  BY Zenon DEF RingInv
<1> QED BY <1>1, RingInvariant, PTL

\* An entry that is not released stands above the frontier.
LEMMA HeldAboveFrontier ==
    ASSUME RingInv, NEW r \in Rings, NEW i \in DOMAIN fifo[r], ~fifo[r][i].released
    PROVE  i \in (last_alive[r] + 1) .. Len(fifo[r])
<1>1. fifo[r] \in Seq(FifoEntry) /\ last_alive[r] \in Nat /\ i \in 1 .. Len(fifo[r])
  BY DEF RingInv, TypeOK
<1>2. i \notin 1 .. last_alive[r]
  BY Zenon DEF RingInv, FrontierIsTight
<1> QED BY <1>1, <1>2

\* Two slabs of a layout share no byte.
LEMMA LayoutDisjoint ==
    ASSUME NEW q \in Seq(FifoEntry), NEW a \in 0 .. Len(q),
           NEW lo \in 0 .. HeapBytes, NEW hi \in 0 .. HeapBytes,
           NEW w \in (a + 1) .. (Len(q) + 1), Layout(q, a, lo, hi, w),
           NEW i \in (a + 1) .. Len(q), NEW j \in (a + 1) .. Len(q), i < j
    PROVE  q[i].heap_end <= q[j].heap_ptr \/ q[j].heap_end <= q[i].heap_ptr
<1>1. HeapBytes \in Nat /\ Len(q) \in Nat
  BY RingAssumption
<1>2. CASE j < w \/ w <= i
  BY Zenon, <1>2 DEF Layout, Ascending
<1>3. CASE i < w /\ w <= j
  <2>1. q[j].heap_end <= hi /\ lo <= q[i].heap_ptr /\ ~(lo <= hi)
    BY <1>1, <1>3 DEF Layout, InPlace
  <2>2. q[j].heap_end \in Nat /\ q[i].heap_ptr \in Nat
    BY <1>1, EntryTypes
  <2> QED BY SMTT(30), <1>1, <2>1, <2>2
<1> QED BY <1>1, <1>2, <1>3

LEMMA InvHeldSlabsDisjoint == RingInv => HeldSlabsDisjoint
<1> SUFFICES ASSUME RingInv, NEW r \in Rings, NEW i \in DOMAIN fifo[r], ~fifo[r][i].released
             PROVE  /\ fifo[r][i].heap_end <= HeapBytes
                    /\ \A j \in DOMAIN fifo[r] :
                          (i # j /\ ~fifo[r][j].released) =>
                              \/ fifo[r][i].heap_end <= fifo[r][j].heap_ptr
                              \/ fifo[r][j].heap_end <= fifo[r][i].heap_ptr
  BY Zenon DEF HeldSlabsDisjoint
<1> DEFINE a == last_alive[r]
           q == fifo[r]
<1>1. /\ q \in Seq(FifoEntry) /\ a \in 0 .. Len(q) /\ Len(q) \in Nat
      /\ tail[r] \in 0 .. HeapBytes /\ top[r] \in 0 .. HeapBytes
  BY DEF RingInv, TypeOK
<1>2. PICK w \in (a + 1) .. (Len(q) + 1) : Layout(q, a, tail[r], top[r], w)
  BY Zenon DEF RingInv, SlabLayout
<1>3. i \in (a + 1) .. Len(q)
  BY Zenon, HeldAboveFrontier
<1>4. q[i].heap_end <= HeapBytes
  BY Zenon, <1>2, <1>3 DEF Layout, InPlace
<1>5. ASSUME NEW j \in DOMAIN q, i # j, ~q[j].released
      PROVE  q[i].heap_end <= q[j].heap_ptr \/ q[j].heap_end <= q[i].heap_ptr
  <2>1. j \in (a + 1) .. Len(q)
    BY Zenon, <1>5, HeldAboveFrontier
  <2>2. i < j \/ j < i
    BY <1>1, <1>3, <1>5, <2>1
  <2> HIDE DEF a, q
  <2> QED BY SMTT(30), <1>1, <1>2, <1>3, <2>1, <2>2, LayoutDisjoint
<1> QED BY Zenon, <1>4, <1>5

\* No byte of a heap belongs to two slabs in use, for every heap size,
\* alignment, order of releases and number of wraps of try_bump_ring_heap_locked.
THEOREM SlabsDisjoint == Spec => []HeldSlabsDisjoint
BY InvHeldSlabsDisjoint, RingInvariant, PTL

LEMMA InvTopIsTail == RingInv => TopIsTailMeansEmpty
<1> SUFFICES ASSUME RingInv, NEW r \in Rings, top[r] = tail[r],
                    NEW i \in DOMAIN fifo[r], ~fifo[r][i].released
             PROVE  fifo[r][i].heap_ptr = fifo[r][i].heap_end
  BY Zenon DEF TopIsTailMeansEmpty
<1> DEFINE q == fifo[r]
<1>1. q \in Seq(FifoEntry) /\ Len(q) \in Nat /\ tail[r] \in Nat /\ i \in 1 .. Len(q)
  BY SMTT(30), RingAssumption DEF RingInv, TypeOK
<1>2. PICK w \in (last_alive[r] + 1) .. (Len(q) + 1) :
          Layout(q, last_alive[r], tail[r], top[r], w)
  BY Zenon DEF RingInv, SlabLayout
<1>3. i \in (last_alive[r] + 1) .. Len(q)
  BY Zenon, HeldAboveFrontier
<1>4. w = Len(q) + 1 /\ i < w
  BY <1>1, <1>2, <1>3 DEF Layout
<1>5. q[i].heap_ptr <= q[i].heap_end /\ tail[r] <= q[i].heap_ptr /\ q[i].heap_end <= top[r]
  BY Zenon, <1>2, <1>3, <1>4 DEF Layout, InPlace
<1>6. q[i].heap_ptr \in Nat /\ q[i].heap_end \in Nat
  BY SMTT(30), <1>1, EntryTypes
<1> QED BY <1>1, <1>5, <1>6

\* The one-byte gap of try_bump_ring_heap_locked works: a heap whose cursors
\* meet holds nothing.
THEOREM CursorsMeetOnlyWhenEmpty == Spec => []TopIsTailMeansEmpty
BY InvTopIsTail, RingInvariant, PTL

\* Phase 1 and phase 2 of alloc() never give two task ids one FIFO entry, for
\* any number of calling threads.
THEOREM SlotsNameDistinctEntries == Spec => []SlotPositionsUnique
<1>1. RingInv => SlotPositionsUnique
  BY Zenon DEF RingInv, EntriesDistinct, SlotPositionsUnique, Entry
<1> QED BY <1>1, RingInvariant, PTL

-----------------------------------------------------------------------------
\* The ring implements SlabAllocator.

LEMMA HeldMember ==
    ASSUME NEW f, NEW x
    PROVE  x \in HeldIn(f) <=>
              \E r \in Rings : \E i \in DOMAIN f[r] : ~f[r][i].released /\ x = SlabAt(f, r, i)
<1>1. ASSUME x \in HeldIn(f)
      PROVE  \E r \in Rings : \E i \in DOMAIN f[r] : ~f[r][i].released /\ x = SlabAt(f, r, i)
  <2>1. PICK r \in Rings : x \in {SlabAt(f, r, i) : i \in {j \in DOMAIN f[r] : ~f[r][j].released}}
    BY Zenon, <1>1 DEF HeldIn
  <2> QED BY Zenon, <2>1
<1>2. ASSUME NEW r \in Rings, NEW i \in DOMAIN f[r], ~f[r][i].released, x = SlabAt(f, r, i)
      PROVE  x \in HeldIn(f)
  <2>1. x \in {SlabAt(f, r, j) : j \in {j \in DOMAIN f[r] : ~f[r][j].released}}
    BY Zenon, <1>2
  <2> QED BY Zenon, <2>1 DEF HeldIn
<1> QED BY Zenon, <1>1, <1>2

LEMMA SlabFields ==
    ASSUME NEW f, NEW r, NEW i
    PROVE  /\ SlabAt(f, r, i).heap = r /\ SlabAt(f, r, i).pos = i
           /\ SlabAt(f, r, i).lo = f[r][i].heap_ptr /\ SlabAt(f, r, i).hi = f[r][i].heap_end
BY Zenon DEF SlabAt

LEMMA InHeap ==
    ASSUME NEW x \in Nat, NEW y \in Nat, x <= y, y <= HeapBytes
    PROVE  x \in 0 .. HeapBytes /\ y \in 0 .. HeapBytes
BY RingAssumption

\* A claim grants the new slab.
LEMMA AllocClaimGrants ==
    ASSUME RingInv, NEW t \in Threads, AllocClaim(t), RingInv'
    PROVE  Allocator!Next
<1> DEFINE r == call[t].ring
           k == Len(fifo[r]) + 1
           s == SlabAt(fifo', r, k)
<1>1. TypeOK /\ TypeOK' /\ HeldSlabsDisjoint'
  BY InvHeldSlabsDisjoint, PTL DEF RingInv
<1>2. call[t] \in Calls /\ r \in Rings
  BY Zenon, <1>1, CallType DEF TypeOK
<1>3. fifo[r] \in Seq(FifoEntry) /\ Len(fifo[r]) \in Nat /\ fifo'[r] \in Seq(FifoEntry)
  BY <1>1, <1>2 DEF TypeOK
<1>4. PICK e : e.released = FALSE /\ fifo' = [fifo EXCEPT ![r] = Append(fifo[r], e)]
  <2> DEFINE ptr == IF call[t].aligned = 0 THEN top[r] ELSE BumpOffset(r, call[t].aligned)
             e == [heap_ptr |-> ptr, heap_end |-> ptr + call[t].aligned, released |-> FALSE]
  <2>1. e.released = FALSE
    BY Zenon
  <2>2. fifo' = [fifo EXCEPT ![r] = Append(fifo[r], e)]
    BY Zenon DEF AllocClaim
  <2> HIDE DEF e
  <2> QED BY Zenon, <2>1, <2>2
<1>5. /\ fifo'[r] = Append(fifo[r], e)
      /\ \A x \in Rings : x # r => fifo'[x] = fifo[x]
  BY SMTT(30), <1>1, <1>2, <1>4 DEF TypeOK
<1>6. /\ DOMAIN fifo'[r] = 1 .. k /\ DOMAIN fifo[r] = 1 .. (k - 1) /\ k \in Nat \ {0}
      /\ fifo'[r][k] = e /\ k \in DOMAIN fifo'[r] /\ k \notin DOMAIN fifo[r]
      /\ \A i \in 1 .. (k - 1) : fifo'[r][i] = fifo[r][i]
  BY SMTT(30), <1>3, <1>5
<1>7. \A x \in HeldSlabs : x \in HeldSlabs' /\ x # s
  <2>1. ASSUME NEW x \in HeldIn(fifo) PROVE x \in HeldIn(fifo') /\ x # s
    <3>1. PICK y \in Rings : \E i \in DOMAIN fifo[y] :
              ~fifo[y][i].released /\ x = SlabAt(fifo, y, i)
      BY Zenon, HeldMember
    <3>2. PICK i \in DOMAIN fifo[y] : ~fifo[y][i].released /\ x = SlabAt(fifo, y, i)
      BY Zenon, <3>1
    <3>3. i \in DOMAIN fifo'[y] /\ fifo'[y][i] = fifo[y][i]
      <4>1. CASE y = r
        <5>1. i \in 1 .. (k - 1)
          BY SMTT(30), <1>6, <4>1
        <5>2. i \in 1 .. k
          BY <1>6, <5>1
        <5> QED BY SMTT(30), <1>6, <4>1, <5>1, <5>2
      <4>2. CASE y # r
        BY Zenon, <1>5, <4>2
      <4> QED BY SMTT(30), <4>1, <4>2
    <3>4. x = SlabAt(fifo', y, i)
      BY Zenon, <3>2, <3>3 DEF SlabAt
    <3>5. x \in HeldIn(fifo')
      BY SMTT(30), <3>2, <3>3, <3>4, HeldMember
    <3>6. x # s
      <4>1. x = s => y = r /\ i = k
        <5>1. x.heap = y /\ x.pos = i /\ s.heap = r /\ s.pos = k
          BY <3>4, SlabFields
        <5> HIDE DEF s
        <5> QED BY Zenon, <5>1
      <4> HIDE DEF s, k
      <4> QED BY Zenon, <1>6, <3>2, <4>1
    <3> QED BY Zenon, <3>5, <3>6
  <2> QED BY Zenon, <2>1 DEF HeldSlabs
<1>8. s \in HeldSlabs'
  <2>1. ~fifo'[r][k].released
    BY Zenon, <1>4, <1>6
  <2> QED BY SMTT(30), <1>2, <1>6, <2>1, HeldMember DEF HeldSlabs
<1>9. \A x \in HeldSlabs' : x = s \/ x \in HeldSlabs
  <2>1. ASSUME NEW x \in HeldIn(fifo'), x # s PROVE x \in HeldIn(fifo)
    <3>1. PICK y \in Rings : \E i \in DOMAIN fifo'[y] :
              ~fifo'[y][i].released /\ x = SlabAt(fifo', y, i)
      BY Zenon, HeldMember
    <3>2. PICK i \in DOMAIN fifo'[y] : ~fifo'[y][i].released /\ x = SlabAt(fifo', y, i)
      BY Zenon, <3>1
    <3>3. i \in DOMAIN fifo[y] /\ fifo'[y][i] = fifo[y][i]
      <4>1. CASE y = r
        <5>1. i # k
          BY Zenon, <2>1, <3>2, <4>1
        <5>2. i \in 1 .. (k - 1)
          BY SMTT(30), <1>6, <4>1, <5>1
        <5> QED BY Zenon, <1>6, <4>1, <5>2
      <4>2. CASE y # r
        BY Zenon, <1>5, <4>2
      <4> QED BY Zenon, <4>1, <4>2
    <3>4. x = SlabAt(fifo, y, i)
      BY SMTT(30), <3>2, <3>3 DEF SlabAt
    <3> QED BY Zenon, <3>2, <3>3, <3>4, HeldMember
  <2> QED BY Zenon, <2>1 DEF HeldSlabs
<1>10. s \in Allocator!Slab
  <2>1. /\ fifo'[r][k].heap_ptr \in Nat /\ fifo'[r][k].heap_end \in Nat
    BY SMTT(30), <1>3, <1>6, EntryTypes
  <2>2. ~fifo'[r][k].released
    BY Zenon, <1>4, <1>6
  <2>3. PICK w \in (last_alive'[r] + 1) .. (Len(fifo'[r]) + 1) :
            Layout(fifo'[r], last_alive'[r], tail'[r], top'[r], w)
    BY Zenon, <1>2 DEF RingInv, SlabLayout
  <2>4. last_alive'[r] \in Nat /\ last_alive'[r] <= Len(fifo[r])
    BY Zenon, <1>1, <1>2 DEF AllocClaim, TypeOK
  <2>5. k \in (last_alive'[r] + 1) .. Len(fifo'[r])
    BY SMTT(30), <1>3, <1>5, <2>4
  <2>6. fifo'[r][k].heap_ptr <= fifo'[r][k].heap_end /\ fifo'[r][k].heap_end <= HeapBytes
    BY Zenon, <2>3, <2>5 DEF Layout, InPlace
  <2>7. fifo'[r][k].heap_ptr \in 0 .. HeapBytes /\ fifo'[r][k].heap_end \in 0 .. HeapBytes
    BY Zenon, <2>1, <2>6, InHeap
  <2> QED BY SMTT(30), <1>2, <1>6, <2>7 DEF SlabAt, Allocator!Slab
<1>11. ASSUME NEW h \in HeldSlabs PROVE ~Allocator!Overlap(s, h)
  <2>1. h \in HeldIn(fifo') /\ h # s
    BY Zenon, <1>7 DEF HeldSlabs
  <2>2. PICK y \in Rings : \E i \in DOMAIN fifo'[y] :
              ~fifo'[y][i].released /\ h = SlabAt(fifo', y, i)
    BY Zenon, <2>1, HeldMember
  <2>3. PICK i \in DOMAIN fifo'[y] : ~fifo'[y][i].released /\ h = SlabAt(fifo', y, i)
    BY Zenon, <2>2
  <2>4. CASE y = r
    <3>1. i # k /\ ~fifo'[r][k].released
      BY SMTT(30), <1>4, <1>6, <2>1, <2>3, <2>4
    <3>2. \/ fifo'[r][i].heap_end <= fifo'[r][k].heap_ptr
          \/ fifo'[r][k].heap_end <= fifo'[r][i].heap_ptr
      BY Zenon, <1>1, <1>2, <1>6, <2>3, <2>4, <3>1 DEF HeldSlabsDisjoint
    <3>3. \A j \in DOMAIN fifo'[r] : fifo'[r][j].heap_ptr \in Nat /\ fifo'[r][j].heap_end \in Nat
      BY SMTT(30), <1>3, EntryTypes
    <3>4. /\ h.lo = fifo'[r][i].heap_ptr /\ h.hi = fifo'[r][i].heap_end
          /\ s.lo = fifo'[r][k].heap_ptr /\ s.hi = fifo'[r][k].heap_end
      BY SMTT(30), <2>3, <2>4, SlabFields
    <3> HIDE DEF s
    <3>5. /\ h.lo \in Nat /\ h.hi \in Nat /\ s.lo \in Nat /\ s.hi \in Nat
          /\ h.hi <= s.lo \/ s.hi <= h.lo
      BY Zenon, <1>6, <2>3, <2>4, <3>2, <3>3, <3>4
    <3> QED BY SMTT(30), <3>5 DEF Allocator!Overlap
  <2>5. CASE y # r
    BY <2>3, <2>5, SlabFields DEF Allocator!Overlap
  <2> QED BY Zenon, <2>4, <2>5
<1> HIDE DEF s
<1>12. HeldSlabs' = HeldSlabs \cup {s}
  BY Zenon, <1>7, <1>8, <1>9
<1>13. Allocator!Grant(s)
  BY Zenon, <1>10, <1>11, <1>12 DEF Allocator!Grant
<1>14. s \in HeldSlabs' \ HeldSlabs
  BY Zenon, <1>7, <1>8
<1> QED BY Zenon, <1>13, <1>14 DEF Allocator!Next

\* A release gives one slab back.
LEMMA ReleaseGivesBack ==
    ASSUME RingInv, NEW z \in DOMAIN slot_states, Release(z)
    PROVE  Allocator!Next
<1> DEFINE r == slot_states[z].ring_idx
           k == slot_states[z].ring_slot_idx
           s == SlabAt(fifo, r, k)
           q == [fifo[r] EXCEPT ![k].released = TRUE]
<1>1. TypeOK
  BY Zenon DEF RingInv
<1>2. r \in Rings /\ k \in DOMAIN fifo[r]
  BY <1>1, SlotStateType DEF TypeOK, RingInv, EntriesDistinct
<1>3. fifo[r] \in Seq(FifoEntry) /\ k \in 1 .. Len(fifo[r])
  BY <1>1, <1>2 DEF TypeOK
<1>4. ~fifo[r][k].released /\ fifo' = [fifo EXCEPT ![r] = q]
  BY Zenon DEF Release
<1>5. q[k].released /\ DOMAIN q = DOMAIN fifo[r] /\ \A i \in DOMAIN fifo[r] : i # k => q[i] = fifo[r][i]
  BY <1>3
<1> HIDE DEF q
<1>6. fifo'[r] = q /\ \A x \in Rings : x # r => fifo'[x] = fifo[x]
  BY Zenon, <1>1, <1>2, <1>4 DEF TypeOK
<1>7. \A x \in Rings : DOMAIN fifo'[x] = DOMAIN fifo[x]
  BY Zenon, <1>5, <1>6
<1>8. \A x \in Rings : \A i \in DOMAIN fifo[x] :
          (x = r /\ i = k) \/ fifo'[x][i] = fifo[x][i]
  BY Zenon, <1>5, <1>6
<1>9. ASSUME NEW y \in Rings, NEW i \in DOMAIN fifo[y]
      PROVE  SlabAt(fifo, y, i) = s <=> y = r /\ i = k
  <2>1. SlabAt(fifo, y, i).heap = y /\ SlabAt(fifo, y, i).pos = i /\ s.heap = r /\ s.pos = k
    BY SlabFields
  <2> QED BY Zenon, <2>1
<1>10. s \in HeldIn(fifo)
  BY Zenon, <1>2, <1>4, HeldMember
<1> HIDE DEF s, r, k
<1>11. ASSUME NEW x \in HeldIn(fifo'), TRUE PROVE x \in HeldIn(fifo) /\ x # s
  <2>1. PICK y \in Rings : \E i \in DOMAIN fifo'[y] :
            ~fifo'[y][i].released /\ x = SlabAt(fifo', y, i)
    BY Zenon, HeldMember
  <2>2. PICK i \in DOMAIN fifo'[y] : ~fifo'[y][i].released /\ x = SlabAt(fifo', y, i)
    BY Zenon, <2>1
  <2>3. i \in DOMAIN fifo[y] /\ ~(y = r /\ i = k)
    BY Zenon, <1>5, <1>6, <1>7, <2>2
  <2>4. fifo'[y][i] = fifo[y][i] /\ x = SlabAt(fifo, y, i)
    BY Zenon, <1>8, <2>2, <2>3 DEF SlabAt
  <2> QED BY Zenon, <1>9, <2>2, <2>3, <2>4, HeldMember
<1>12. ASSUME NEW x \in HeldIn(fifo), x # s PROVE x \in HeldIn(fifo')
  <2>1. PICK y \in Rings : \E i \in DOMAIN fifo[y] :
            ~fifo[y][i].released /\ x = SlabAt(fifo, y, i)
    BY Zenon, HeldMember
  <2>2. PICK i \in DOMAIN fifo[y] : ~fifo[y][i].released /\ x = SlabAt(fifo, y, i)
    BY Zenon, <2>1
  <2>3. fifo'[y][i] = fifo[y][i] /\ i \in DOMAIN fifo'[y]
    BY Zenon, <1>7, <1>8, <1>9, <1>12, <2>2
  <2>4. x = SlabAt(fifo', y, i)
    BY Zenon, <2>2, <2>3 DEF SlabAt
  <2> QED BY Zenon, <2>2, <2>3, <2>4, HeldMember
<1>13. HeldSlabs' = HeldSlabs \ {s} /\ s \in HeldSlabs
  BY Zenon, <1>10, <1>11, <1>12 DEF HeldSlabs
<1> QED BY Zenon, <1>13 DEF Allocator!Next, Allocator!GiveBack

\* After a drain nothing is held, so the reset changes nothing for the tasks.
LEMMA ResetHoldsNothing ==
    ASSUME RingInv, ResetToEmpty PROVE HeldSlabs' = HeldSlabs
<1>1. ASSUME NEW x \in HeldIn(fifo) PROVE FALSE
  <2>1. PICK r \in Rings : \E i \in DOMAIN fifo[r] :
            ~fifo[r][i].released /\ x = SlabAt(fifo, r, i)
    BY Zenon, HeldMember
  <2>2. PICK i \in DOMAIN fifo[r] : ~fifo[r][i].released
    BY Zenon, <2>1
  <2>3. i \in (last_alive[r] + 1) .. Len(fifo[r])
    BY Zenon, <2>2, HeldAboveFrontier
  <2>4. last_alive[r] = Len(fifo[r]) /\ Len(fifo[r]) \in Nat
    BY Zenon DEF ResetToEmpty, Drained, RingInv, TypeOK
  <2> QED BY <2>3, <2>4
<1>2. ASSUME NEW x \in HeldIn(fifo') PROVE FALSE
  <2>1. PICK r \in Rings : \E i \in DOMAIN fifo'[r] :
            ~fifo'[r][i].released /\ x = SlabAt(fifo', r, i)
    BY Zenon, HeldMember
  <2>2. DOMAIN fifo'[r] = {}
    BY DEF ResetToEmpty
  <2> QED BY Zenon, <2>1, <2>2
<1> QED BY Zenon, <1>1, <1>2 DEF HeldSlabs

LEMMA SameFifoSameHeld == ASSUME UNCHANGED fifo PROVE HeldSlabs' = HeldSlabs
BY Zenon DEF HeldSlabs

\* Ring::alloc, release and reset_to_empty implement the plain allocator of
\* disjoint slabs: the tasks of a DAG cannot tell the ring from it.
THEOREM RingImplementsAllocator == Spec => ImplementsAllocator
<1>1. Init => Allocator!Init
  <2> SUFFICES ASSUME Init, NEW x \in HeldIn(fifo) PROVE FALSE
    BY Zenon DEF Allocator!Init, HeldSlabs
  <2>1. PICK r \in Rings : \E i \in DOMAIN fifo[r] :
            ~fifo[r][i].released /\ x = SlabAt(fifo, r, i)
    BY Zenon, HeldMember
  <2> QED BY <2>1 DEF Init
<1>2. RingInv /\ RingInv' /\ [Next]_vars => [Allocator!Next]_HeldSlabs
  <2> SUFFICES ASSUME RingInv, RingInv', [Next]_vars
               PROVE  Allocator!Next \/ UNCHANGED HeldSlabs
    BY Zenon
  <2>1. ASSUME NEW t \in Threads, NEW b \in Requests, NEW d \in ScopeDepths, AllocEnter(t, b, d)
        PROVE  UNCHANGED HeldSlabs
    BY Zenon, <2>1, SameFifoSameHeld DEF AllocEnter, heapVars
  <2>2. ASSUME NEW t \in Threads, AllocStep(t) PROVE Allocator!Next \/ UNCHANGED HeldSlabs
    <3>1. CASE AllocClaim(t)
      BY Zenon, <3>1, AllocClaimGrants
    <3>2. CASE AllocCheck(t) \/ AllocWait(t) \/ AllocWake(t) \/ AllocPublish(t)
      BY Zenon, <3>2, SameFifoSameHeld DEF AllocCheck, AllocWait, AllocWake, AllocPublish, heapVars
    <3> QED BY Zenon, <2>2, <3>1, <3>2 DEF AllocStep
  <2>3. ASSUME NEW s \in DOMAIN slot_states, Release(s) PROVE Allocator!Next
    BY Zenon, <2>3, ReleaseGivesBack
  <2>4. CASE ResetToEmpty
    BY Zenon, <2>4, ResetHoldsNothing
  <2>5. CASE ShutdownFlag \/ ShutdownNotify \/ Tick \/ UNCHANGED vars
    BY Zenon, <2>5, SameFifoSameHeld DEF ShutdownFlag, ShutdownNotify, Tick, heapVars, vars
  <2> QED BY Zenon, <2>1, <2>2, <2>3, <2>4, <2>5 DEF Next
<1> QED BY <1>1, <1>2, RingInvariant, PTL DEF Spec, ImplementsAllocator, Allocator!Spec

=============================================================================
