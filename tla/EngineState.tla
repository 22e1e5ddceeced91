----------------------------- MODULE EngineState -----------------------------
(***************************************************************************)
(* The state that the threads of an L3+ worker engine share                *)
(* (src/common/hierarchical): the task slots, the ready and completion     *)
(* queues, the TensorMap, the heap rings, the count of active tasks, the   *)
(* first error and the queues of the worker threads.                       *)
(*                                                                         *)
(* A task slot is a number 1..MaxTasks (the code counts from 0); the       *)
(* numbering starts again after every drain.  The rings are abstracted to  *)
(* what the other parts see of them (module Ring has the details): a heap  *)
(* holds HeapSlabs slabs of one size, hands them out round robin and takes *)
(* them back in the order of their slots.                                  *)
(***************************************************************************)
EXTENDS Integers, Sequences, FiniteSets, SequencesExt

CONSTANTS
    MaxTasks,       \* bound: slots between two drains
    MaxRingDepth,   \* heaps (MAX_RING_DEPTH)
    HeapSlabs,      \* slabs that fit in a heap
    PoolSize        \* workers of each type

WorkerTypes == {"NEXT_LEVEL", "SUB"}

ASSUME EngineAssumption ==
    /\ MaxTasks \in Nat
    /\ MaxRingDepth \in Nat \ {0}
    /\ HeapSlabs \in Nat \ {0}
    /\ PoolSize \in [WorkerTypes -> Nat]

Slots == 1 .. MaxTasks

\* A worker thread: its pool and its logical id in it.
Pool(t) == {<<t, i>> : i \in 0 .. (PoolSize[t] - 1)}
Workers == UNION {Pool(t) : t \in WorkerTypes}

VARIABLES
    slot,               \* TaskSlotState of every slot
    next_task_id,       \* slots handed out since the last drain
    ring_released,      \* the slots given back with Ring::release
    epoch,              \* how often reset_to_empty has dropped the slots
    tensormap,          \* a function from a finite set of keys to slots
    ready,              \* the ready queue of each worker type
    completion_queue,
    active_tasks,
    has_error,
    idle,               \* WorkerThread::idle_
    queue               \* WorkerThread::queue_, entries <<slot, member>>

ringVars == <<next_task_id, ring_released, epoch>>
shared == <<slot, ringVars, tensormap, ready, completion_queue, active_tasks,
            has_error, idle, queue>>

\* A slot-only claim has no slab; a slab is <<ring, index>>.
NoSlab == <<>>

\* A TaskSlotState after reset(), placed on ring r with slab sl.
FreshSlot(r, sl) ==
    [state |-> "FREE", fanin_count |-> 0, fanin_released |-> 0,
     fanout_consumers |-> <<>>, fanout_total |-> 0, fanout_released |-> 0,
     output_keys |-> <<>>, fanin_producers |-> <<>>, sub_complete_count |-> 0,
     worker_type |-> "NEXT_LEVEL", args_list |-> <<>>, affinities |-> <<>>,
     ring_idx |-> r, slab |-> sl]

-----------------------------------------------------------------------------
\* Ring as the engine sees it.

Allocated == 1 .. next_task_id

\* FIFO reclamation: a slab is free again once its slot and every older slot
\* of the same ring are released.
Reclaimed(s) ==
    \A p \in 1 .. s : slot[p].ring_idx = slot[s].ring_idx => p \in ring_released

SlabOwners(r) == {s \in Allocated : slot[s].ring_idx = r /\ slot[s].slab # NoSlab}

HasRoom(r) == Cardinality({s \in SlabOwners(r) : ~Reclaimed(s)}) < HeapSlabs

\* The bump cursor goes round the heap.
NextSlab(r) == <<r, Cardinality(SlabOwners(r)) % HeapSlabs>>

RingIdxForScope(depth) == IF depth < MaxRingDepth THEN depth ELSE MaxRingDepth - 1

\* Ring::reset_to_empty refuses to drop the slots unless all are released.
AllReleased == Allocated \subseteq ring_released

-----------------------------------------------------------------------------
\* TaskSlotState, TensorMap.

GroupSize(s) == Len(slot[s].args_list)
IsGroup(s) == GroupSize(s) > 1

\* get_affinity(i): -1 is any worker.
Affinity(s, i) == IF slot[s].affinities = <<>> THEN -1 ELSE slot[s].affinities[i]

NoSlot == 0
Lookup(k) == IF k \in DOMAIN tensormap THEN tensormap[k] ELSE NoSlot
Insert(k, s) == [x \in DOMAIN tensormap \cup {k} |-> IF x = k THEN s ELSE tensormap[x]]

\* Faulty variant: leaves every key but the first behind.
EraseFirstKeyOnly(keys) ==
    [k \in DOMAIN tensormap \ {keys[i] : i \in DOMAIN keys \cap {1}} |-> tensormap[k]]

\* erase_task_outputs: the keys go, whichever task they name by now.
EraseTaskOutputs(keys) == [k \in DOMAIN tensormap \ ToSet(keys) |-> tensormap[k]]


\* release_ref and try_consume: the scope, every consumer and the task itself
\* have let go.
AllRefsReleased(released, total) == released >= total + 1

SharedInit ==
    /\ slot = [s \in Slots |-> FreshSlot(0, NoSlab)]
    /\ next_task_id = 0
    /\ ring_released = {}
    /\ epoch = 0
    /\ tensormap = <<>>
    /\ ready = [t \in WorkerTypes |-> <<>>]
    /\ completion_queue = <<>>
    /\ active_tasks = 0
    /\ has_error = FALSE
    /\ idle = [w \in Workers |-> TRUE]
    /\ queue = [w \in Workers |-> <<>>]
=============================================================================
