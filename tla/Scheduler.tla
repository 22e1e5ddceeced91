------------------------------ MODULE Scheduler ------------------------------
(***************************************************************************)
(* The scheduler thread (scheduler.cpp): it takes completions off its      *)
(* queue, releases the fanin of the consumers, consumes tasks nobody       *)
(* refers to any more, and hands ready tasks to idle workers.  Every       *)
(* access to a slot that another thread may interleave with is a step of   *)
(* its own.  Start and stop are not part of this module: the thread runs.  *)
(***************************************************************************)
EXTENDS EngineState

VARIABLES
    spc,        \* where the thread is
    cur,        \* the slot being completed or dispatched
    todo,       \* consumers, then producers, still to visit
    target,     \* the slot of the current try_consume
    seen,       \* the counter value the last fetch_add returned, plus one
    deferred,   \* TRUE while the producers of cur are released
    plan,       \* members of cur still to dispatch: <<worker, member>>
    sepoch      \* the epoch in which cur was looked up

schedVars == <<spc, cur, todo, target, seen, deferred, plan, sepoch>>

SchedInit ==
    /\ spc = "loop"
    /\ cur = NoSlot
    /\ todo = <<>>
    /\ target = NoSlot
    /\ seen = 0
    /\ deferred = FALSE
    /\ plan = <<>>
    /\ sepoch = 0

\* Back at the top of the loop the locals are dead.
BackToLoop ==
    /\ spc' = "loop" /\ cur' = NoSlot /\ todo' = <<>> /\ target' = NoSlot
    /\ seen' = 0 /\ deferred' = FALSE /\ plan' = <<>> /\ sepoch' = 0

-----------------------------------------------------------------------------
\* on_task_complete, first part: COMPLETED, then the consumers.
TakeCompletion ==
    LET s == completion_queue[1]
    IN  /\ spc = "loop" /\ completion_queue # <<>> /\ s \in Allocated
        /\ completion_queue' = Tail(completion_queue)
        /\ slot' = [slot EXCEPT ![s].state = "COMPLETED"]
        /\ cur' = s
        /\ sepoch' = epoch
        /\ spc' = "snapshot"
        /\ UNCHANGED <<todo, target, seen, deferred, plan, ringVars, tensormap, ready,
                       active_tasks, has_error, idle, queue>>

SnapshotConsumers ==
    /\ spc = "snapshot"
    /\ todo' = slot[cur].fanout_consumers
    /\ spc' = "fanin"
    /\ UNCHANGED <<cur, target, seen, deferred, plan, sepoch, shared>>

ReleaseFanin ==
    /\ spc = "fanin" /\ todo # <<>>
    /\ slot' = [slot EXCEPT ![todo[1]].fanin_released = @ + 1]
    /\ seen' = slot[todo[1]].fanin_released + 1
    /\ spc' = "fanin_test"
    /\ UNCHANGED <<cur, todo, target, deferred, plan, sepoch, ringVars, tensormap, ready,
                   completion_queue, active_tasks, has_error, idle, queue>>

TestFanin ==
    /\ spc = "fanin_test"
    /\ IF seen >= slot[todo[1]].fanin_count
         THEN spc' = "fanin_wake" /\ UNCHANGED todo
         ELSE spc' = "fanin" /\ todo' = Tail(todo)
    /\ UNCHANGED <<cur, target, seen, deferred, plan, sepoch, shared>>

WakeConsumer ==
    LET c == todo[1]
    IN  /\ spc = "fanin_wake"
        /\ IF slot[c].state = "PENDING"
             THEN /\ slot' = [slot EXCEPT ![c].state = "READY"]
                  /\ ready' = [ready EXCEPT ![slot[c].worker_type] = Append(@, c)]
             ELSE UNCHANGED <<slot, ready>>
        /\ todo' = Tail(todo)
        /\ spc' = "fanin"
        /\ UNCHANGED <<cur, target, seen, deferred, plan, sepoch, ringVars, tensormap,
                       completion_queue, active_tasks, has_error, idle, queue>>

ConsumersDone ==
    /\ spc = "fanin" /\ todo = <<>>
    /\ target' = cur
    /\ spc' = "consume"
    /\ UNCHANGED <<cur, todo, seen, deferred, plan, sepoch, shared>>

-----------------------------------------------------------------------------
\* try_consume(target) and on_consumed.  AfterConsume is the return: first to
\* the copy of the producers, later to the next producer or the loop.
AfterConsume ==
    IF ~deferred
      THEN spc' = "producers" /\ UNCHANGED <<cur, todo, target, seen, deferred, plan, sepoch>>
      ELSE IF todo = <<>>
             THEN BackToLoop
             ELSE /\ target' = todo[1] /\ todo' = Tail(todo) /\ spc' = "consume"
                  /\ UNCHANGED <<cur, seen, deferred, plan, sepoch>>

ReleaseOwnRef ==
    /\ spc = "consume"
    /\ slot' = [slot EXCEPT ![target].fanout_released = @ + 1]
    /\ seen' = slot[target].fanout_released + 1
    /\ spc' = "consume_test"
    /\ UNCHANGED <<cur, todo, target, deferred, plan, sepoch, ringVars, tensormap, ready,
                   completion_queue, active_tasks, has_error, idle, queue>>

\* fanout_total as read after the fetch_add.  If the other thread has consumed
\* the last task meanwhile, drain may have freed the slot: the memory is intact
\* (and the test fails, the other thread having been last) or it holds a slot of
\* the next run.
TotalRead ==
    IF sepoch = epoch
      THEN {slot[target].fanout_total}
      ELSE {seen} \cup {slot[s].fanout_total : s \in Allocated}

TestRefs ==
    /\ spc = "consume_test"
    /\ \E total \in TotalRead :
         IF AllRefsReleased(seen, total)
           THEN spc' = "consumed" /\ UNCHANGED <<cur, todo, target, seen, deferred, plan, sepoch>>
           ELSE AfterConsume
    /\ UNCHANGED shared

\* The load of the state and the exchange; a stale load may fail.
MarkConsumed ==
    /\ spc = "consumed"
    /\ \E fails \in IF sepoch = epoch THEN {FALSE} ELSE BOOLEAN :
       IF ~fails /\ slot[target].state = "COMPLETED"
         THEN /\ slot' = [slot EXCEPT ![target].state = "CONSUMED"]
              /\ spc' = "erase"
              /\ UNCHANGED <<cur, todo, target, seen, deferred, plan, sepoch>>
         ELSE AfterConsume /\ UNCHANGED slot
    /\ UNCHANGED <<ringVars, tensormap, ready, completion_queue, active_tasks,
                   has_error, idle, queue>>

EraseOutputs ==
    /\ spc = "erase"
    /\ tensormap' = EraseTaskOutputs(slot[target].output_keys)
    /\ spc' = "ring_release"
    /\ UNCHANGED <<cur, todo, target, seen, deferred, plan, sepoch, slot, ringVars, ready,
                   completion_queue, active_tasks, has_error, idle, queue>>

ReleaseSlot ==
    /\ spc = "ring_release"
    /\ ring_released' = ring_released \cup {target}
    /\ spc' = "uncount"
    /\ UNCHANGED <<cur, todo, target, seen, deferred, plan, sepoch, slot, next_task_id, epoch,
                   tensormap, ready, completion_queue, active_tasks, has_error, idle, queue>>

Uncount ==
    /\ spc = "uncount"
    /\ active_tasks' = active_tasks - 1
    /\ AfterConsume
    /\ UNCHANGED <<slot, ringVars, tensormap, ready, completion_queue, has_error, idle, queue>>

\* The producers of cur are read after try_consume(cur).  When that was the
\* last active task, drain may have freed the slot meanwhile: the memory is
\* intact, or a slot of the next run has been put there.
ProducersRead ==
    IF sepoch = epoch
      THEN {slot[cur].fanin_producers}
      ELSE {<<>>} \cup {slot[s].fanin_producers : s \in Allocated}


SnapshotProducers ==
    /\ spc = "producers"
    /\ \E ps \in ProducersRead :
         IF ps = <<>>
           THEN BackToLoop
           ELSE /\ target' = ps[1] /\ todo' = Tail(ps)
                /\ deferred' = TRUE /\ spc' = "consume"
                /\ UNCHANGED <<cur, seen, plan, sepoch>>
    /\ UNCHANGED shared

-----------------------------------------------------------------------------
\* dispatch_ready.  Phase 2 of the loop starts when no completion is queued.
StartDispatch ==
    /\ spc = "loop" /\ completion_queue = <<>>
    /\ \E t \in WorkerTypes : ready[t] # <<>>
    /\ spc' = "NEXT_LEVEL"
    /\ UNCHANGED <<cur, todo, target, seen, deferred, plan, sepoch, shared>>

\* drain_one: one slot off the queue of type spc.
PopReady ==
    /\ spc \in WorkerTypes /\ cur = NoSlot /\ ready[spc] # <<>>
    /\ cur' = ready[spc][1]
    /\ ready' = [ready EXCEPT ![spc] = Tail(@)]
    /\ UNCHANGED <<spc, todo, target, seen, deferred, plan, sepoch, slot, ringVars,
                   tensormap, completion_queue, active_tasks, has_error, idle, queue>>

NextQueue == IF spc = "NEXT_LEVEL" THEN spc' = "SUB" ELSE spc' = "loop"

QueueDrained ==
    /\ spc \in WorkerTypes /\ cur = NoSlot /\ ready[spc] = <<>>
    /\ NextQueue
    /\ UNCHANGED <<cur, todo, target, seen, deferred, plan, sepoch, shared>>

\* The assignments the two passes can find: a pinned member goes to its worker,
\* the others to distinct idle workers not taken yet.  The idle flags are read
\* one by one while workers finish, so any idle worker may be the one found.
Placements(s) ==
    LET members == 1 .. GroupSize(s)
        pinned == {i \in members : Affinity(s, i) >= 0}
        free == {w \in Pool(slot[s].worker_type) : idle[w]}
        home(i) == <<slot[s].worker_type, Affinity(s, i)>>
    IN  {f \in [members -> free] :
            /\ \A i \in pinned : f[i] = home(i)
            /\ \A i \in members \ pinned : \A j \in members \ {i} : f[i] # f[j]}

\* ok: RUNNING, and the members go to their workers one by one.
Place ==
    /\ spc \in WorkerTypes /\ cur # NoSlot /\ plan = <<>>
    /\ \E f \in Placements(cur) : plan' = [i \in DOMAIN f |-> <<f[i], i>>]
    /\ slot' = [slot EXCEPT ![cur].state = "RUNNING"]
    /\ UNCHANGED <<spc, cur, todo, target, seen, deferred, sepoch, ringVars, tensormap,
                   ready, completion_queue, active_tasks, has_error, idle, queue>>

\* !ok: back to the end of the queue, and on to the next queue.
PutBack ==
    /\ spc \in WorkerTypes /\ cur # NoSlot /\ plan = <<>>
    /\ Placements(cur) = {}
    /\ ready' = [ready EXCEPT ![spc] = Append(@, cur)]
    /\ cur' = NoSlot
    /\ NextQueue
    /\ UNCHANGED <<todo, target, seen, deferred, plan, sepoch, slot, ringVars, tensormap,
                   completion_queue, active_tasks, has_error, idle, queue>>

\* WorkerThread::dispatch of one member.
DispatchMember ==
    LET w == plan[1][1]
    IN  /\ spc \in WorkerTypes /\ plan # <<>>
        /\ idle' = [idle EXCEPT ![w] = FALSE]
        /\ queue' = [queue EXCEPT ![w] = Append(@, <<cur, plan[1][2]>>)]
        /\ plan' = Tail(plan)
        /\ cur' = IF Len(plan) = 1 THEN NoSlot ELSE cur
        /\ UNCHANGED <<spc, todo, target, seen, deferred, sepoch, slot, ringVars, tensormap,
                       ready, completion_queue, active_tasks, has_error>>

SchedStep ==
    \/ TakeCompletion \/ SnapshotConsumers \/ ReleaseFanin \/ TestFanin \/ WakeConsumer
    \/ ConsumersDone
    \/ ReleaseOwnRef \/ TestRefs \/ MarkConsumed \/ EraseOutputs \/ ReleaseSlot \/ Uncount
    \/ SnapshotProducers
    \/ StartDispatch \/ PopReady \/ QueueDrained \/ Place \/ PutBack \/ DispatchMember
=============================================================================
