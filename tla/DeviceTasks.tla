----------------------------- MODULE DeviceTasks -----------------------------
(***************************************************************************)
(* Task life cycle of the on-device runtime (a2a3,                         *)
(* tensormap_and_ringbuffer): the orchestrator thread submits tasks into   *)
(* per-depth rings of slots and a heap, thread 0 wires their edges, the    *)
(* scheduler threads complete them, release references and advance the     *)
(* rings.  How a task runs on its cores is DeviceCores.                    *)
(*                                                                         *)
(* The slot counters are shared without a common lock, so each atomic      *)
(* access that another thread can tell apart is a step of its own.  A task *)
(* is named by the position of its submission in the program; 0 is none.   *)
(***************************************************************************)
EXTENDS Integers, Sequences, FiniteSets, FiniteSetsExt, SequencesExt

CONSTANTS
    Programs,   \* the orchestration programs: sequences of operations
    Depth,      \* PTO2_MAX_RING_DEPTH
    Window,     \* task_window_size
    HeapSize,   \* bytes of the heap of a ring
    Threads,    \* the scheduler threads
    Wirer,      \* thread 0
    QueueSize   \* capacity of the wiring queue

ASSUME DeviceAssumption == Wirer \in Threads /\ Window \in Nat \ {0} /\ Depth \in Nat \ {0}

Rings == 0..Depth - 1
Orch == "orch"
Actors == Threads \cup {Orch}
Slots == Rings \X (0..Window - 1)
None == <<Depth, 0>>   \* no slot
Tasks == 1..Max({Len(p) : p \in Programs})

VARIABLES
    program,  \* the orchestration function
    slot,     \* slot -> PTO2TaskSlotState, with what is used here of payload and descriptor
    current,  \* ring -> current_task_index
    last,     \* ring -> the scheduler's last_task_alive
    alive,    \* ring -> last_task_alive in shared memory
    lock,     \* ring -> advance_lock
    heap,     \* ring -> heap_top_, heap_tail_, last_alive_seen_
    tmap,     \* TensorMap entries: tensor and producer
    tmAlive,  \* ring -> last_task_alives of the TensorMap
    orch,     \* the orchestrator thread
    fatal,    \* the orchestrator's fatal flag
    queue,    \* the wiring queue
    wire,     \* thread 0: batch, the task being wired, its producers left, early_finished
    ready,    \* the slots in the ready queues
    act,      \* actor -> consumers left to notify, references left to release, its advance
    defer,    \* thread -> deferred_release_slot_states
    place,    \* history: task -> ring, local id, and bytes of the heap
    pushes,   \* history: task -> how often it became ready
    done,     \* history: the tasks that completed
    claimed,  \* history: the tasks a thread moved to CONSUMED
    late      \* history: a slot was used for a task that no longer owned it

orchVars == <<program, tmap, tmAlive, orch, fatal, current, heap, place>>
schedVars == <<ready, act, defer, wire, last, lock, pushes, done, claimed>>
vars == <<orchVars, schedVars, slot, alive, queue, late>>

Idle == [notify |-> <<>>, release |-> <<>>, at |-> "next", upto |-> 0]
NoWire == [batch |-> <<>>, slot |-> None, todo |-> <<>>, early |-> 0]

\* RingSchedState::init leaves task_state alone: PENDING in fresh memory, mostly
\* CONSUMED in the memory of an earlier run.
Init ==
    /\ program \in Programs
    /\ \E st \in {"PENDING", "CONSUMED"} : slot = [s \in Slots |->
          [task |-> 0, state |-> st, fanin_count |-> 0, fanin_refcount |-> 0, fanout_count |-> 1,
           fanout_refcount |-> 0, fanout_head |-> <<>>, fanin |-> <<>>, end |-> 0]]
    /\ current = [r \in Rings |-> 0] /\ last = current /\ alive = current
    /\ lock = [r \in Rings |-> FALSE]
    /\ heap = [r \in Rings |-> [top |-> 0, tail |-> 0, seen |-> 0]]
    /\ tmap = {} /\ tmAlive = current
    /\ orch = [pc |-> "user", ip |-> 1, scopes |-> <<>>, fanin |-> {}, todo |-> <<>>]
    /\ fatal = FALSE
    /\ queue = <<>> /\ wire = NoWire /\ ready = {}
    /\ act = [x \in Actors |-> Idle] /\ defer = [t \in Threads |-> <<>>]
    /\ place = [n \in Tasks |-> [ring |-> 0, id |-> -1, lo |-> 0, hi |-> 0]]
    /\ pushes = [n \in Tasks |-> 0] /\ done = {} /\ claimed = {} /\ late = FALSE
-----------------------------------------------------------------------------
(***************************************************************************)
(* The orchestrator.  Operations: <<"begin">>, <<"end">>, <<"alloc", size>>,*)
(* and <<"submit" or "dummy", size, args, deps>> with args a sequence of   *)
(* <<tag, creator of the tensor>> and deps the set_dependencies tasks.     *)
(***************************************************************************)
Op == program[orch.ip]
Calls(op) == orch.pc = "user" /\ orch.ip <= Len(program) /\ Op[1] = op /\ ~fatal
Return == orch' = [orch EXCEPT !.pc = "user", !.ip = @ + 1, !.fanin = {}]
SlotOf(r, id) == <<r, id % Window>>
Home(n) == SlotOf(place[n].ring, place[n].id)

\* current_ring_id
Ring == Min({Len(orch.scopes), Depth}) - 1

begin_scope ==
    /\ Calls("begin")
    /\ orch' = [orch EXCEPT !.scopes = Append(@, <<>>), !.ip = @ + 1]
    /\ UNCHANGED <<program, tmap, tmAlive, fatal, current, heap, place, schedVars, slot, alive, queue, late>>

\* end_scope hands the tasks of the scope to on_scope_end, which releases one
\* reference of each.
end_scope ==
    /\ Calls("end")
    /\ LET top == orch.scopes[Len(orch.scopes)] IN
         act' = [act EXCEPT ![Orch].release = [i \in DOMAIN top |-> <<Home(top[i]), TRUE>>]]
    /\ orch' = [orch EXCEPT !.scopes = SubSeq(@, 1, Len(@) - 1), !.pc = "ending"]
    /\ UNCHANGED <<program, tmap, tmAlive, fatal, current, heap, place, slot, alive, queue, late,
                   ready, defer, wire, last, lock, pushes, done, claimed>>

ScopeEnded ==
    /\ orch.pc = "ending" /\ act[Orch] = Idle
    /\ Return
    /\ UNCHANGED <<program, tmap, tmAlive, fatal, current, heap, place, schedVars, slot, alive, queue, late>>

\* After orch_mark_fatal every further operation returns at once.
orch_mark_fatal ==
    /\ fatal' = TRUE
    /\ orch' = [orch EXCEPT !.pc = "done"]
    /\ UNCHANGED <<program, tmap, tmAlive, current, heap, place, schedVars, slot, alive, queue, late>>

check_scope_can_accept_task == Len(orch.scopes[Len(orch.scopes)]) < Window - 1

\* update_heap_tail, with last_task_alive as alloc() reads it.
update_heap_tail(r) ==
    IF alive[r] <= heap[r].seen THEN heap[r]
    ELSE [heap[r] EXCEPT !.seen = alive[r], !.tail = slot[SlotOf(r, alive[r] - 1)].end]


\* try_bump_heap: the base it returns, -1 for nullptr.
try_bump_heap(h, size) ==
    IF size = 0 THEN h.top
    ELSE IF h.top >= h.tail
         THEN IF HeapSize - h.top >= size THEN h.top ELSE IF h.tail > size THEN 0 ELSE -1
         ELSE IF h.tail - h.top > size THEN h.top ELSE -1

TaskOp == orch.pc = "user" /\ orch.ip <= Len(program) /\ Op[1] \in {"submit", "dummy", "alloc"} /\ ~fatal
HasWindow(r) == current[r] - alive[r] + 1 < Window
Base(r) == try_bump_heap(update_heap_tail(r), Op[2])

\* PTO2TaskAllocator::alloc: a round that finds both a slot and heap space;
\* commit_task publishes the task before prepare_task has touched its slot.
Alloc ==
    /\ TaskOp /\ check_scope_can_accept_task
    /\ LET r == Ring
           lo == Base(r)
       IN /\ HasWindow(r) /\ lo >= 0
          /\ heap' = [heap EXCEPT ![r] = [update_heap_tail(r) EXCEPT !.top = lo + Op[2]]]
          /\ current' = [current EXCEPT ![r] = @ + 1]
          /\ place' = [place EXCEPT ![orch.ip] = [ring |-> r, id |-> current[r], lo |-> lo, hi |-> lo + Op[2]]]
    /\ orch' = [orch EXCEPT !.pc = "prepare"]
    /\ UNCHANGED <<program, tmap, tmAlive, fatal, schedVars, slot, alive, queue, late>>

\* The scope is too large, or alloc() spun to its limit and reported a deadlock.
GiveUp ==
    /\ TaskOp
    /\ ~check_scope_can_accept_task \/ ~HasWindow(Ring) \/ Base(Ring) < 0
    /\ orch_mark_fatal

\* prepare_task after the allocation.
Prepare ==
    /\ orch.pc = "prepare"
    /\ slot' = [slot EXCEPT ![Home(orch.ip)].state = "PENDING"]
    /\ orch' = [orch EXCEPT !.pc = IF Op[1] = "alloc" THEN "inline" ELSE "fanin",
                            !.scopes = [@ EXCEPT ![Len(@)] = Append(@, orch.ip)]]
    /\ UNCHANGED <<program, tmap, tmAlive, fatal, current, heap, place, schedVars, alive, queue, late>>

\* alloc_tensors: the hidden task completes in the orchestrator.
CompleteInline ==
    /\ orch.pc = "inline"
    /\ slot' = [slot EXCEPT ![Home(orch.ip)] = [@ EXCEPT !.task = orch.ip, !.end = place[orch.ip].hi,
                                                         !.fanin = <<>>, !.state = "COMPLETED"]]
    /\ done' = done \cup {orch.ip}
    /\ Return
    /\ UNCHANGED <<program, tmap, tmAlive, fatal, current, heap, place, alive, queue, late,
                   ready, act, defer, wire, last, lock, pushes, claimed>>

\* entry_valid: against the copy taken when a task of that ring was last submitted.
entry_valid(e, seen) == place[e.producer].id >= seen[place[e.producer].ring]

\* The tasks compute_task_fanin and the explicit dependencies make producers.
Modifiers(arg, seen) == {e \in tmap : e.tensor = arg[2] /\ arg[1] # "OUTPUT_EXISTING" /\ entry_valid(e, seen)}
Args == {Op[3][i] : i \in DOMAIN Op[3]}
Producers(seen) ==
    {d \in Op[4] : place[d].id >= alive[place[d].ring]}
      \cup UNION {{arg[2]} \cup {e.producer : e \in Modifiers(arg, seen)} : arg \in Args}

\* Steps 2 to 5 of submit_task_common up to the descriptor; append_fanin_or_fail
\* keeps one entry per slot.
ComputeFanin ==
    /\ orch.pc = "fanin"
    /\ LET seen == [tmAlive EXCEPT ![place[orch.ip].ring] = alive[place[orch.ip].ring]]
           fanin == SetToSeq({Home(p) : p \in Producers(seen)})
       IN /\ tmAlive' = seen
          /\ tmap' = (tmap \ UNION {Modifiers(arg, seen) : arg \in {a \in Args : a[1] = "INOUT"}})
                       \cup {[tensor |-> arg[2], producer |-> orch.ip] : arg \in {a \in Args : a[1] # "INPUT"}}
          /\ orch' = [orch EXCEPT !.pc = "count", !.fanin = Producers(seen), !.todo = fanin]
          /\ slot' = [slot EXCEPT ![Home(orch.ip)] = [@ EXCEPT !.task = orch.ip, !.end = place[orch.ip].hi,
                                                               !.fanin = fanin]]
    /\ UNCHANGED <<program, fatal, current, heap, place, schedVars, alive, queue, late>>


\* fanout_count++ on each producer, without the fanout lock.
CountFanout ==
    /\ orch.pc = "count" /\ orch.todo # <<>>
    /\ slot' = [slot EXCEPT ![Head(orch.todo)].fanout_count = @ + 1]
    /\ late' = (late \/ \E p \in orch.fanin : Home(p) = Head(orch.todo) /\ p \in claimed)
    /\ orch' = [orch EXCEPT !.todo = Tail(@)]
    /\ UNCHANGED <<program, tmap, tmAlive, fatal, current, heap, place, schedVars, alive, queue>>

\* Step 6; the push spins while the queue is full.
PushWiring ==
    /\ orch.pc = "count" /\ orch.todo = <<>> /\ Len(queue) < QueueSize
    /\ queue' = Append(queue, Home(orch.ip))
    /\ Return
    /\ UNCHANGED <<program, tmap, tmAlive, fatal, current, heap, place, schedVars, slot, alive, late>>

mark_done ==
    /\ orch.pc = "user" /\ orch.ip > Len(program)
    /\ orch' = [orch EXCEPT !.pc = "done"]
    /\ UNCHANGED <<program, tmap, tmAlive, fatal, current, heap, place, schedVars, slot, alive, queue, late>>
-----------------------------------------------------------------------------
(***************************************************************************)
(* Thread 0: drain_wiring_queue and wire_task.                             *)
(***************************************************************************)
push_ready_routed(s) ==
    /\ ready' = ready \cup {s}
    /\ pushes' = [pushes EXCEPT ![slot[s].task] = @ + 1]

RefillBatch ==
    /\ act[Wirer] = Idle /\ wire.slot = None /\ wire.batch = <<>> /\ queue # <<>>
    /\ wire' = [wire EXCEPT !.batch = queue]
    /\ queue' = <<>>
    /\ UNCHANGED <<orchVars, slot, alive, late, ready, act, defer, last, lock, pushes, done, claimed>>

\* Mutant: the wiring itself holds no count, so a producer may release the task half wired.
WiredCountBare(s) == Len(slot[s].fanin)
WiredCount(s) == Len(slot[s].fanin) + 1

WireStart ==
    /\ act[Wirer] = Idle /\ wire.slot = None /\ wire.batch # <<>>
    /\ LET s == Head(wire.batch) IN
         /\ slot' = [slot EXCEPT ![s].fanin_count = WiredCount(s)]
         /\ wire' = [batch |-> Tail(wire.batch), slot |-> s, todo |-> slot[s].fanin, early |-> 0]
    /\ UNCHANGED <<orchVars, alive, queue, late, ready, act, defer, last, lock, pushes, done, claimed>>

\* One producer, under its fanout lock.
WireProducer ==
    /\ wire.todo # <<>>
    /\ LET p == Head(wire.todo)
           early == slot[p].state \in {"COMPLETED", "CONSUMED"}
       IN /\ wire' = [wire EXCEPT !.todo = Tail(@), !.early = IF early THEN @ + 1 ELSE @]
          /\ slot' = IF early THEN slot ELSE [slot EXCEPT ![p].fanout_head = <<wire.slot>> \o @]
    /\ UNCHANGED <<orchVars, alive, queue, late, ready, act, defer, last, lock, pushes, done, claimed>>

WireFinish ==
    /\ wire.slot # None /\ wire.todo = <<>>
    /\ LET rc == slot[wire.slot].fanin_refcount + wire.early + 1 IN
         /\ slot' = [slot EXCEPT ![wire.slot].fanin_refcount = rc]
         /\ IF rc >= slot[wire.slot].fanin_count THEN push_ready_routed(wire.slot) ELSE UNCHANGED <<ready, pushes>>
    /\ wire' = [wire EXCEPT !.slot = None, !.early = 0]
    /\ UNCHANGED <<orchVars, alive, queue, late, act, defer, last, lock, done, claimed>>
-----------------------------------------------------------------------------
(***************************************************************************)
(* The scheduler threads: completion and the deferred releases.            *)
(***************************************************************************)
Free(t) == act[t] = Idle /\ (t = Wirer => wire.slot = None)

\* on_mixed_task_complete under the fanout lock; dummy tasks are completed by
\* thread 0, without a core.
Complete(t, s) ==
    /\ Free(t) /\ s \in ready
    /\ program[slot[s].task][1] = "dummy" => t = Wirer
    /\ ready' = ready \ {s}
    /\ slot' = [slot EXCEPT ![s].state = "COMPLETED"]
    /\ act' = [act EXCEPT ![t].notify = slot[s].fanout_head]
    /\ defer' = [defer EXCEPT ![t] = Append(@, <<s, slot[s].task>>)]
    /\ done' = done \cup {slot[s].task}
    /\ UNCHANGED <<orchVars, alive, queue, late, wire, last, lock, pushes, claimed>>

\* release_fanin_and_check_ready for one consumer of the list.
NotifyConsumer(t) ==
    /\ act[t].notify # <<>>
    /\ LET c == Head(act[t].notify)
           rc == slot[c].fanin_refcount + 1
       IN /\ slot' = [slot EXCEPT ![c].fanin_refcount = rc]
          /\ IF rc = slot[c].fanin_count THEN push_ready_routed(c) ELSE UNCHANGED <<ready, pushes>>
    /\ act' = [act EXCEPT ![t].notify = Tail(@)]
    /\ UNCHANGED <<orchVars, alive, queue, late, defer, wire, last, lock, done, claimed>>

Releases(s) == [i \in DOMAIN slot[s].fanin |-> <<slot[s].fanin[i], TRUE>>] \o <<<<s, FALSE>>>>

\* on_task_release of the youngest deferred slot: its producers, then itself.
on_task_release(t) ==
    /\ Free(t) /\ defer[t] # <<>>
    /\ LET s == Last(defer[t])[1] IN
         /\ act' = [act EXCEPT ![t].release = Releases(s)]
         /\ late' = (late \/ slot[s].task # Last(defer[t])[2])
    /\ defer' = [defer EXCEPT ![t] = Front(@)]
    /\ UNCHANGED <<orchVars, slot, alive, queue, ready, wire, last, lock, pushes, done, claimed>>

(***************************************************************************)
(* release_producer and check_and_handle_consumed, by the scheduler        *)
(* threads and by the orchestrator at the end of a scope.                  *)
(***************************************************************************)
Item(x) == Head(act[x].release)[1]
DropItem(x) == act' = [act EXCEPT ![x] = [Idle EXCEPT !.release = Tail(act[x].release)]]
Releasing(x) == act[x].notify = <<>> /\ act[x].release # <<>>

release_producer(x) ==
    /\ Releasing(x) /\ act[x].at = "next" /\ Head(act[x].release)[2]
    /\ slot' = [slot EXCEPT ![Item(x)].fanout_refcount = @ + 1]
    /\ act' = [act EXCEPT ![x].at = "check"]
    /\ UNCHANGED <<orchVars, alive, queue, late, ready, defer, wire, last, lock, pushes, done, claimed>>

\* The comparison and the compare-and-swap of task_state.
ClaimConsumed(x) ==
    /\ Releasing(x)
    /\ act[x].at = "check" \/ (act[x].at = "next" /\ ~Head(act[x].release)[2])
    /\ LET s == slot[Item(x)] IN
         IF s.fanout_refcount = s.fanout_count /\ s.state = "COMPLETED"
         THEN /\ slot' = [slot EXCEPT ![Item(x)].state = "CONSUMED"]
              /\ claimed' = claimed \cup {s.task}
              /\ act' = [act EXCEPT ![x].at = "lock"]
         ELSE DropItem(x) /\ UNCHANGED <<slot, claimed>>
    /\ UNCHANGED <<orchVars, alive, queue, late, ready, defer, wire, last, lock, pushes, done>>

\* The try-lock of advance_lock, and the load of current_task_index behind it.
TryAdvance(x) ==
    /\ Releasing(x) /\ act[x].at = "lock"
    /\ LET r == Item(x)[1] IN
         IF lock[r] THEN DropItem(x) /\ lock' = lock
         ELSE /\ lock' = [lock EXCEPT ![r] = TRUE]
              /\ act' = [act EXCEPT ![x].at = "scan", ![x].upto = current[r]]
    /\ UNCHANGED <<orchVars, slot, alive, queue, late, ready, defer, wire, last, pushes, done, claimed>>

\* One round of the scan of advance_ring_pointers.
Scan(x) ==
    /\ act[x].at = "scan"
    /\ LET r == Item(x)[1] IN
         IF last[r] < act[x].upto /\ slot[SlotOf(r, last[r])].state = "CONSUMED"
         THEN /\ last' = [last EXCEPT ![r] = @ + 1]
              /\ late' = (late \/ \E n \in Tasks \ claimed : place[n].ring = r /\ place[n].id = last[r])
              /\ act' = act
         ELSE act' = [act EXCEPT ![x].at = "retire"] /\ UNCHANGED <<last, late>>
    /\ UNCHANGED <<orchVars, slot, alive, queue, ready, defer, wire, lock, pushes, done, claimed>>

\* reset_for_reuse: task_state and the payload stay.
reset_for_reuse(s) == [s EXCEPT !.fanout_count = 1, !.fanout_head = <<>>,
                                !.fanin_refcount = 0, !.fanout_refcount = 0]

\* The rest of advance_ring_pointers: reset, sync_to_sm, unlock.
Retire(x) ==
    /\ act[x].at = "retire"
    /\ LET r == Item(x)[1]
           passed == {SlotOf(r, id) : id \in alive[r]..last[r] - 1}
       IN /\ slot' = [s \in Slots |-> IF s \in passed THEN reset_for_reuse(slot[s]) ELSE slot[s]]
          /\ alive' = [alive EXCEPT ![r] = last[r]]
          /\ lock' = [lock EXCEPT ![r] = FALSE]
    /\ DropItem(x)
    /\ UNCHANGED <<orchVars, queue, late, ready, defer, wire, last, pushes, done, claimed>>
-----------------------------------------------------------------------------
OrchStep == \/ begin_scope \/ end_scope \/ ScopeEnded \/ Alloc \/ GiveUp \/ Prepare \/ CompleteInline
            \/ ComputeFanin \/ CountFanout \/ PushWiring \/ mark_done
WireStep == RefillBatch \/ WireStart \/ WireProducer \/ WireFinish
ReleaseStep(x) == release_producer(x) \/ ClaimConsumed(x) \/ TryAdvance(x) \/ Scan(x) \/ Retire(x)
SchedStep(t) == (\E s \in ready : Complete(t, s)) \/ NotifyConsumer(t) \/ on_task_release(t)

Next == OrchStep \/ WireStep \/ (\E t \in Threads : SchedStep(t)) \/ \E x \in Actors : ReleaseStep(x)

Spec == Init /\ [][Next]_vars

\* The orchestrator and the scheduler threads are loops on cores of their own.  Their waiting
\* changes nothing here, so that it is enough that some thread that can act does.
FairSpec == Spec /\ WF_vars(Next)
-----------------------------------------------------------------------------
Elements(q) == {q[i] : i \in DOMAIN q}
Allocated == {n \in Tasks : place[n].id >= 0}
Submitted == {n \in Allocated : slot[Home(n)].task = n \/ n \in done}

\* The edges the program asks for: explicit dependencies, the creators of its
\* tensors, and the modifiers no later INOUT has superseded.
Writers(c, n) == {m \in 1..n - 1 : program[m][1] \in {"submit", "dummy"}
                    /\ \E a \in Elements(program[m][3]) : a[2] = c /\ a[1] # "INPUT"}
Supersedes(m, c) == \E a \in Elements(program[m][3]) : a = <<"INOUT", c>>
Deps(n) ==
    IF program[n][1] = "alloc" THEN {}
    ELSE program[n][4] \cup UNION {{a[2]} \cup IF a[1] = "OUTPUT_EXISTING" THEN {} ELSE
             {m \in Writers(a[2], n) : ~\E k \in Writers(a[2], n) : k > m /\ Supersedes(k, a[2])}
                                     : a \in Elements(program[n][3])}

\* The buffer of a task is needed while its scope is open, it has not completed,
\* or a submitted task that uses it has not completed.
Creators(n) == IF program[n][1] = "alloc" THEN {} ELSE {a[2] : a \in Elements(program[n][3])}
Needed(n) == \/ \E i \in DOMAIN orch.scopes : n \in Elements(orch.scopes[i])
             \/ n \notin done
             \/ \E m \in Submitted \ done : n \in Creators(m)

NotLate == ~late

\* RunsOnceInOrder: a submitted task becomes ready at most once, and only after
\* every task it depends on has completed, however wiring, completion and
\* notification interleave (wire_task, release_fanin_and_check_ready).
RunsOnceInOrder == late \/ \A n \in Tasks : pushes[n] <= 1 /\ (pushes[n] = 1 => Deps(n) \subseteq done)



\* A consumed task at the head of its ring that no thread is going to reclaim: the
\* thread that consumed it failed the try-lock after the holder's last look.
Stranded(r) ==
    /\ last[r] < current[r] /\ slot[SlotOf(r, last[r])].state = "CONSUMED" /\ orch.pc # "prepare"
    /\ ~\E x \in Actors : Releasing(x) /\ act[x].at \in {"lock", "scan", "retire"} /\ Item(x)[1] = r

=============================================================================
