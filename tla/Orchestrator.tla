---------------------------- MODULE Orchestrator ----------------------------
(***************************************************************************)
(* The thread of Worker.run: it opens the outer scope, executes the        *)
(* orchestration function (alloc, submit_*, nested scopes, possibly an     *)
(* exception), closes the scopes and drains.  Source: orchestrator.cpp,    *)
(* scope.cpp, tensormap.cpp, and Worker.run of python/simpler/worker.py.   *)
(*                                                                         *)
(* The orchestration function is user code: a sequence of operations.  A   *)
(* session is the sequence of functions of successive calls of Worker.run. *)
(*   [op |-> "begin"], [op |-> "end"]     with orch.scope():               *)
(*   [op |-> "alloc", bytes |-> 0 or 1]   orch.alloc                       *)
(*   [op |-> "submit", worker_type, args_list, affinities]                 *)
(*   [op |-> "raise"]                     an exception of the user         *)
(* An argument is [tag, ref, child]: ref <<0, k>> is the user's buffer k,  *)
(* <<n, o>> tensor o of the slab of the n-th slot of this run, NullRef a   *)
(* null pointer; child says that the buffer is memory of the worker the    *)
(* argument is pinned to.                                                  *)
(***************************************************************************)
EXTENDS EngineState

CONSTANTS
    Sessions,       \* what the user runs
    MaxScopeDepth   \* MAX_SCOPE_DEPTH

ASSUME ProgramAssumption == Sessions # {} /\ MaxScopeDepth \in Nat \ {0}

VARIABLES
    opc,        \* where the thread is
    program,    \* the operations still to execute
    scopes,     \* Scope::stack_: the slots of each open scope
    sub,        \* the locals of submit_impl
    runs        \* the functions still to be run

orchVars == <<opc, program, scopes, sub, runs>>

NullRef == <<-1, 0>>
NoKey == <<>>
NoSub == [id |-> NoSlot, todo |-> <<>>, producers |-> <<>>, live |-> 0]

OrchInit ==
    /\ opc = "idle"
    /\ program = <<>>
    /\ scopes = <<>>
    /\ sub = NoSub
    /\ runs \in Sessions

ScopeDepth == Len(scopes)
ScopeRing == RingIdxForScope(IF scopes = <<>> THEN 0 ELSE ScopeDepth - 1)
ScopeRef == IF scopes = <<>> THEN 0 ELSE 1
RegisterTask(s) ==
    IF scopes = <<>> THEN scopes ELSE [scopes EXCEPT ![ScopeDepth] = Append(@, s)]

\* The user code is at operation o.
AtOp(o) == opc = "user" /\ program # <<>> /\ program[1].op = o

\* An exception leaves the function; the scopes are closed on the way out.
Unwind == opc' = "user" /\ program' = <<>>

-----------------------------------------------------------------------------
\* Worker.run up to the call of the orchestration function.
StartRun ==
    /\ opc = "idle" /\ runs # <<>>
    /\ program' = Head(runs)
    /\ runs' = Tail(runs)
    /\ has_error' = FALSE
    /\ scopes' = <<<<>>>>
    /\ opc' = "user"
    /\ UNCHANGED <<sub, slot, ringVars, tensormap, ready, completion_queue,
                   active_tasks, idle, queue>>

ScopeBegin ==
    /\ AtOp("begin")
    /\ IF ScopeDepth >= MaxScopeDepth
         THEN Unwind /\ UNCHANGED scopes
         ELSE /\ scopes' = Append(scopes, <<>>)
              /\ program' = Tail(program)
              /\ UNCHANGED opc
    /\ UNCHANGED <<sub, runs, shared>>

UserRaise ==
    /\ AtOp("raise")
    /\ Unwind
    /\ UNCHANGED <<scopes, sub, runs, shared>>

-----------------------------------------------------------------------------
\* Orchestrator::alloc.  A zero-byte buffer is a slot without a slab.
AllocSlab(op) == IF op.bytes = 0 THEN NoSlab ELSE NextSlab(ScopeRing)

AllocBuffer ==
    LET s == next_task_id + 1
        sl == AllocSlab(program[1])
        keys == IF sl = NoSlab THEN <<>> ELSE <<<<sl[1], sl[2], 1, -1>>>>
    IN  /\ AtOp("alloc") /\ s \in Slots
        /\ program[1].bytes = 0 \/ HasRoom(ScopeRing)
        /\ next_task_id' = s
        /\ slot' = [slot EXCEPT ![s] =
               [FreshSlot(ScopeRing, sl) EXCEPT !.state = "COMPLETED",
                   !.output_keys = keys, !.fanout_total = ScopeRef, !.fanout_released = 1]]
        /\ tensormap' = IF keys = <<>> THEN tensormap ELSE Insert(keys[1], s)
        /\ scopes' = RegisterTask(s)
        /\ active_tasks' = active_tasks + 1
        /\ program' = Tail(program)
        /\ UNCHANGED <<opc, sub, runs, ring_released, epoch, ready, completion_queue,
                       has_error, idle, queue>>

\* Ring::alloc throws when the heap stays full until the deadline.
AllocThrow ==
    /\ AtOp("alloc") /\ program[1].bytes > 0
    /\ ~HasRoom(ScopeRing)
    /\ Unwind
    /\ UNCHANGED <<scopes, sub, runs, shared>>

-----------------------------------------------------------------------------
\* submit_impl.  An OUTPUT argument without a pointer gets one in the slab of
\* the task: tensor 1, 2, ... in the order of the arguments.
IsAuto(a) == a.tag = "OUTPUT" /\ a.ref = NullRef

AutoArgs(al) ==
    {p \in UNION {{g} \X DOMAIN al[g] : g \in DOMAIN al} : IsAuto(al[p[1]][p[2]])}

AutoIndex(al, g, i) ==
    Cardinality({p \in AutoArgs(al) : p[1] < g \/ (p[1] = g /\ p[2] <= i)})

\* TensorKey of argument i of member g: <<region, address, tensor, worker>>,
\* where region -1 is memory of the user.
ArgKey(op, g, i, sl) ==
    LET a == op.args_list[g][i]
        w == IF a.child /\ g \in DOMAIN op.affinities THEN op.affinities[g] ELSE -1
        at(b, o) == IF b = NoSlab THEN NoKey ELSE <<b[1], b[2], o, w>>
    IN  CASE IsAuto(a) -> at(sl, AutoIndex(op.args_list, g, i))
          [] a.ref = NullRef -> NoKey
          [] a.ref[1] = 0 -> <<-1, a.ref[2], 0, w>>
          [] OTHER -> at(slot[a.ref[1]].slab, a.ref[2])

\* The arguments of every member with their pointers filled in.
ResolvedArgs(op, sl) ==
    [g \in DOMAIN op.args_list |->
        [i \in DOMAIN op.args_list[g] |->
            [tag |-> op.args_list[g][i].tag, key |-> ArgKey(op, g, i, sl)]]]

\* Fail-fast on an error of an earlier task, otherwise the task is counted.
SubmitEnter ==
    /\ AtOp("submit")
    /\ IF has_error
         THEN Unwind /\ UNCHANGED active_tasks
         ELSE /\ active_tasks' = active_tasks + 1
              /\ opc' = "reserve"
              /\ UNCHANGED program
    /\ UNCHANGED <<scopes, sub, runs, slot, ringVars, tensormap, ready,
                   completion_queue, has_error, idle, queue>>

NeedsSlab(op) == AutoArgs(op.args_list) # {}

\* reserve_outputs_and_slot and the reset of the slot.
Reserve ==
    LET op == program[1]
        s == next_task_id + 1
        sl == IF NeedsSlab(op) THEN NextSlab(ScopeRing) ELSE NoSlab
        al == ResolvedArgs(op, sl)
    IN  /\ opc = "reserve" /\ s \in Slots
        /\ NeedsSlab(op) => HasRoom(ScopeRing)
        /\ next_task_id' = s
        /\ slot' = [slot EXCEPT ![s] =
               [FreshSlot(ScopeRing, sl) EXCEPT !.worker_type = op.worker_type,
                   !.args_list = al, !.affinities = op.affinities]]
        /\ sub' = [NoSub EXCEPT !.id = s, !.todo = FlattenSeq(al)]
        /\ opc' = "infer"
        /\ UNCHANGED <<program, scopes, runs, ring_released, epoch, tensormap, ready,
                       completion_queue, active_tasks, has_error, idle, queue>>

\* Ring::alloc throws: the task stays counted in active_tasks.
ReserveThrow ==
    /\ opc = "reserve" /\ NeedsSlab(program[1])
    /\ ~HasRoom(ScopeRing)
    /\ Unwind
    /\ UNCHANGED <<scopes, sub, runs, shared>>

Reads(a) == a.key # NoKey /\ a.tag \in {"INPUT", "INOUT"}
Writes(a) == a.key # NoKey /\ a.tag \in {"INOUT", "OUTPUT", "OUTPUT_EXISTING"}

\* add_unique_producer.
AddProducer(ps, p) == IF p \in {NoSlot, sub.id} \cup ToSet(ps) THEN ps ELSE Append(ps, p)

\* infer_deps, one argument.
InferDeps ==
    LET a == sub.todo[1]
    IN  /\ opc = "infer" /\ sub.todo # <<>>
        /\ sub' = [sub EXCEPT !.todo = Tail(@),
               !.producers = IF Reads(a) THEN AddProducer(@, Lookup(a.key)) ELSE @]
        /\ IF Writes(a)
             THEN /\ tensormap' = Insert(a.key, sub.id)
                  /\ slot' = [slot EXCEPT ![sub.id].output_keys = Append(@, a.key)]
             ELSE UNCHANGED <<tensormap, slot>>
        /\ UNCHANGED <<opc, program, scopes, runs, ringVars, ready, completion_queue,
                       active_tasks, has_error, idle, queue>>


\* Step 5 for one producer, under its fanout_mu.
AttachTo(p) ==
    IF slot[p].state = "CONSUMED"
      THEN UNCHANGED slot /\ sub' = [sub EXCEPT !.producers = Tail(@)]
      ELSE /\ slot' = [slot EXCEPT ![p].fanout_consumers = Append(@, sub.id),
                                   ![p].fanout_total = @ + 1,
                                   ![sub.id].fanin_producers = Append(@, p)]
           /\ sub' = [sub EXCEPT !.producers = Tail(@),
                  !.live = IF slot[p].state = "COMPLETED" THEN @ ELSE @ + 1]

AttachProducer ==
    /\ opc = "infer" /\ sub.todo = <<>> /\ sub.producers # <<>>
    /\ AttachTo(sub.producers[1])
    /\ UNCHANGED <<opc, program, scopes, runs, ringVars, tensormap, ready,
                   completion_queue, active_tasks, has_error, idle, queue>>

\* s.fanin_count = live_fanins.
StoreFaninCount ==
    /\ opc = "infer" /\ sub.todo = <<>> /\ sub.producers = <<>>
    /\ slot' = [slot EXCEPT ![sub.id].fanin_count = sub.live]
    /\ opc' = "clear"
    /\ UNCHANGED <<program, scopes, sub, runs, ringVars, tensormap, ready,
                   completion_queue, active_tasks, has_error, idle, queue>>

\* s.fanin_released = 0, the fanout counters, the registration in the scope.
ClearCounters ==
    /\ opc = "clear"
    /\ slot' = [slot EXCEPT ![sub.id].fanin_released = 0,
                            ![sub.id].fanout_total = ScopeRef,
                            ![sub.id].fanout_released = 0]
    /\ scopes' = RegisterTask(sub.id)
    /\ opc' = "publish"
    /\ UNCHANGED <<program, sub, runs, ringVars, tensormap, ready, completion_queue,
                   active_tasks, has_error, idle, queue>>

\* Step 6: READY and queued, or PENDING.
Publish ==
    /\ opc = "publish"
    /\ IF sub.live = 0
         THEN /\ slot' = [slot EXCEPT ![sub.id].state = "READY"]
              /\ ready' = [ready EXCEPT ![slot[sub.id].worker_type] = Append(@, sub.id)]
         ELSE /\ slot' = [slot EXCEPT ![sub.id].state = "PENDING"]
              /\ UNCHANGED ready
    /\ opc' = "user"
    /\ program' = Tail(program)
    /\ sub' = NoSub
    /\ UNCHANGED <<scopes, runs, ringVars, tensormap, completion_queue, active_tasks,
                   has_error, idle, queue>>

-----------------------------------------------------------------------------
\* scope_end: at the end of a with block, and when the function is left.
ScopeEnd ==
    /\ \/ AtOp("end") /\ program' = Tail(program)
       \/ opc = "user" /\ program = <<>> /\ scopes # <<>> /\ UNCHANGED program
    /\ opc' = "release"
    /\ UNCHANGED <<scopes, sub, runs, shared>>

\* release_ref up to the test of the counters, or the end of the frame.
ReleaseRef ==
    LET frame == Last(scopes)
        s == frame[1]
        released == slot[s].fanout_released + 1
    IN  /\ opc = "release" /\ frame # <<>>
        /\ slot' = [slot EXCEPT ![s].fanout_released = released]
        /\ IF AllRefsReleased(released, slot[s].fanout_total)
             THEN opc' = "consume" /\ UNCHANGED scopes
             ELSE scopes' = [scopes EXCEPT ![ScopeDepth] = Tail(@)] /\ UNCHANGED opc
        /\ UNCHANGED <<program, sub, runs, ringVars, tensormap, ready, completion_queue,
                       active_tasks, has_error, idle, queue>>

\* on_consumed on this thread: nothing it writes after the exchange is read by
\* another thread before this one reads it itself.
ReleaseConsume ==
    LET s == Last(scopes)[1]
    IN  /\ opc = "consume"
        /\ IF slot[s].state = "COMPLETED"
             THEN /\ slot' = [slot EXCEPT ![s].state = "CONSUMED"]
                  /\ tensormap' = EraseTaskOutputs(slot[s].output_keys)
                  /\ ring_released' = ring_released \cup {s}
                  /\ active_tasks' = active_tasks - 1
             ELSE UNCHANGED <<slot, tensormap, ring_released, active_tasks>>
        /\ scopes' = [scopes EXCEPT ![ScopeDepth] = Tail(@)]
        /\ opc' = "release"
        /\ UNCHANGED <<program, sub, runs, next_task_id, epoch, ready, completion_queue,
                       has_error, idle, queue>>

ScopePop ==
    /\ opc = "release" /\ Last(scopes) = <<>>
    /\ scopes' = Front(scopes)
    /\ opc' = "user"
    /\ UNCHANGED <<program, sub, runs, shared>>

-----------------------------------------------------------------------------
EnterDrain ==
    /\ opc = "user" /\ program = <<>> /\ scopes = <<>>
    /\ opc' = "drain"
    /\ UNCHANGED <<program, scopes, sub, runs, shared>>

\* drain: wait for active_tasks = 0, then reset_to_empty, which throws when a
\* slot is still out.  The first error is rethrown and stays stored until the
\* next run clears it.
Drain ==
    /\ opc = "drain" /\ active_tasks = 0
    /\ IF AllReleased
         THEN /\ next_task_id' = 0
              /\ ring_released' = {}
              /\ epoch' = epoch + 1
              /\ slot' = [s \in Slots |-> FreshSlot(0, NoSlab)]
         ELSE UNCHANGED <<slot, ringVars>>
    /\ opc' = "idle"
    /\ UNCHANGED <<program, scopes, sub, runs, tensormap, ready, completion_queue,
                   active_tasks, has_error, idle, queue>>

OrchStep ==
    \/ StartRun \/ ScopeBegin \/ UserRaise
    \/ AllocBuffer \/ AllocThrow
    \/ SubmitEnter \/ Reserve \/ ReserveThrow \/ InferDeps \/ AttachProducer
    \/ StoreFaninCount \/ ClearCounters \/ Publish
    \/ ScopeEnd \/ ReleaseRef \/ ReleaseConsume \/ ScopePop
    \/ EnterDrain \/ Drain
=============================================================================
