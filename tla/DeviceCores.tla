----------------------------- MODULE DeviceCores -----------------------------
(***************************************************************************)
(* Dispatch to the AICores in the a2a3 tensormap_and_ringbuffer runtime:   *)
(* the handshake, the scheduler threads' loop over completion and          *)
(* dispatch, the two slots and two payload buffers of a core, the DATA and *)
(* COND registers, the AICore loop, the hand-over of cores when the        *)
(* orchestrator thread becomes a scheduler, and the exit of every core.    *)
(*                                                                         *)
(* Tasks (whose dependencies DeviceTasks models) are ready from the start. *)
(* Core 2*i is the AIC and core 2*i+1 the (one) AIV of cluster i.  A block *)
(* of a task runs on the core of its shape, or on a whole cluster ("MIX"). *)
(* Sync-start tasks are the subject of DeviceThreads.                      *)
(***************************************************************************)
EXTENDS Integers, Sequences, FiniteSets, FiniteSetsExt

CONSTANTS
    ThreadNum,   \* AICPU threads; the last one is the orchestrator
    OrchToSched, \* it schedules as well, once orchestration is done
    Launches,    \* what may be launched: [clusters, tasks, slow], a task being [shape, blocks],
                 \* slow the cores whose kernels may outlast the wait for their exit
    TaskIdMask,  \* TASK_ID_MASK
    ExitSignal   \* AICORE_EXIT_SIGNAL: the first reserved id

Shapes == {"MIX", "AIC", "AIV"}

\* TASK_ID_MASK is a bit mask, so odd, and the static_assert of dispatch_subtask_to_core.
ASSUME IdAssumption == /\ TaskIdMask \in Nat /\ TaskIdMask % 2 = 1 /\ ExitSignal \in 3..TaskIdMask - 3
                       /\ (TaskIdMask - ExitSignal + 1) % 2 = 0
ASSUME ThreadAssumption == ThreadNum \in Nat \ {0, 1} /\ OrchToSched \in BOOLEAN
\* submit_task asserts that a task has a block.
ASSUME LaunchAssumption ==
    \A l \in Launches : /\ l.clusters \in Nat
                        /\ l.tasks \in Seq([shape : Shapes, blocks : Nat \ {0}])

Threads == 0..ThreadNum - 1
Orch == ThreadNum - 1
SchedThreads == Threads \ {Orch}
Kind(c) == IF c % 2 = 0 THEN "AIC" ELSE "AIV"
Invalid == -1               \* AICPU_TASK_INVALID
IdleId == TaskIdMask        \* the idle ids of both sides
ExitId == TaskIdMask - 1    \* AICORE_EXIT_TASK_ID
NoWork == <<0, 0>>          \* a zeroed payload; otherwise <<task, block>>

VARIABLES
    launch,    \* the launch in progress; never changes
    hank,      \* core -> Handshake flags
    data,      \* core -> DATA_MAIN_BASE
    cond,      \* core -> COND: <<id, "ACK" or "FIN">>
    core,      \* core -> the AICore's own state
    slot,      \* core -> CoreExecState, and its bits in its thread's CoreTracker
    buffer,    \* core -> payload_per_core_: parity -> work
    owner,     \* cluster -> the thread whose tracker has it
    th,        \* thread -> its place in run() and resolve_and_dispatch()
    ready,     \* shape -> ready queue
    next,      \* task -> next_block_idx
    subtasks,  \* task -> completed_subtasks
    ctl,       \* completed_, completed_tasks_, error codes, orchestrator_done_, transition flags
    ran,       \* history: the <<task, block, core kind>> whose kernel ran, with multiplicity
    finished   \* history: task -> times on_mixed_task_complete was called for it

aicore == <<hank, core, ran>>
shared == <<ready, next, subtasks, finished>>
vars == <<launch, hank, data, cond, core, slot, buffer, owner, th, ready, next, subtasks, ctl, ran, finished>>

Tasks == launch.tasks
Cores == 0..2 * launch.clusters - 1
KindsOf(k) == IF Tasks[k].shape = "MIX" THEN {"AIC", "AIV"} ELSE {Tasks[k].shape}
Works == UNION {{<<k, b, x>> : b \in 0..Tasks[k].blocks - 1, x \in KindsOf(k)} : k \in DOMAIN Tasks}
Orders == UNION {[1..n -> DOMAIN Tasks] : n \in 0..Len(Tasks)}
InOrder(q, S) == Range(q) = S /\ \A i, j \in DOMAIN q : i < j => q[i] < q[j]
Owned(t) == {c \in Cores : owner[c \div 2] = t}
Running(t) == {c \in Owned(t) : ~slot[c].idle}

\* The launch: memset of the scheduler's state, registers as the last launch left them.
Init ==
    /\ launch \in Launches
    /\ hank = [c \in Cores |-> [aicpu_ready |-> FALSE, aicore_regs |-> FALSE, aicpu_regs |-> FALSE, done |-> FALSE]]
    /\ data \in {[c \in Cores |-> v] : v \in {IdleId, ExitSignal}}
    /\ cond = [c \in Cores |-> <<ExitId, "FIN">>]
    /\ core = [c \in Cores |-> [pc |-> "wait", last |-> IdleId, id |-> IdleId]]
    /\ slot = [c \in Cores |-> [running |-> NoWork, running_id |-> Invalid, pending |-> NoWork,
                                pending_id |-> Invalid, idle |-> TRUE, occupied |-> FALSE, seq |-> 0]]
    /\ buffer = [c \in Cores |-> [b \in {0, 1} |-> NoWork]]
    /\ owner = [i \in 0..launch.clusters - 1 |-> i % Cardinality(SchedThreads)]
    /\ th = [t \in Threads |-> [pc |-> "init", cores |-> {}, at |-> 1, batch |-> <<>>, block |-> 0, claim |-> 0,
                                turn |-> 0, progress |-> FALSE, released |-> FALSE]]
    /\ ready \in [Shapes -> Orders] /\ \A s \in Shapes : InOrder(ready[s], {k \in DOMAIN Tasks : Tasks[k].shape = s})
    /\ next = [k \in DOMAIN Tasks |-> 0] /\ subtasks = [k \in DOMAIN Tasks |-> 0]
    /\ ctl = [completed |-> FALSE, tasks |-> 0, error |-> FALSE, orch_done |-> FALSE,
              requested |-> FALSE, waiting |-> 0, reassigned |-> FALSE]
    /\ ran = [w \in Works |-> 0] /\ finished = [k \in DOMAIN Tasks |-> 0]
-----------------------------------------------------------------------------
(***************************************************************************)
(* The AICore: aicore_execute.                                             *)
(***************************************************************************)
AicoreStep == UNCHANGED <<data, slot, buffer, owner, th, shared, ctl>>

ReportCore(c) ==
    /\ core[c].pc = "wait" /\ hank[c].aicpu_ready
    /\ hank' = [hank EXCEPT ![c].aicore_regs = TRUE]
    /\ core' = [core EXCEPT ![c].pc = "regs"]
    /\ UNCHANGED <<cond, ran>> /\ AicoreStep

EnterLoop(c) ==
    /\ core[c].pc = "regs" /\ hank[c].aicpu_regs
    /\ cond' = [cond EXCEPT ![c] = <<IdleId, "FIN">>]
    /\ hank' = [hank EXCEPT ![c].done = TRUE]
    /\ core' = [core EXCEPT ![c].pc = "loop"]
    /\ UNCHANGED ran /\ AicoreStep

\* A poll of DATA_MAIN_BASE that finds a task acknowledges it and starts the kernel.
Acknowledge(c) ==
    /\ core[c].pc = "loop" /\ data[c] \notin {ExitSignal, IdleId, core[c].last}
    /\ cond' = [cond EXCEPT ![c] = <<data[c], "ACK">>]
    /\ core' = [core EXCEPT ![c].pc = "exec", ![c].id = data[c]]
    /\ UNCHANGED <<hank, ran>> /\ AicoreStep

\* The kernel, run on the buffer of the id's parity, ends.
Finish(c) ==
    /\ core[c].pc = "exec"
    /\ LET w == buffer[c][core[c].id % 2] IN
         ran' = IF w = NoWork THEN ran ELSE [ran EXCEPT ![<<w[1], w[2], Kind(c)>>] = @ + 1]
    /\ cond' = [cond EXCEPT ![c] = <<core[c].id, "FIN">>]
    /\ core' = [core EXCEPT ![c].pc = "loop", ![c].last = core[c].id]
    /\ UNCHANGED hank /\ AicoreStep

ExitLoop(c) ==
    /\ core[c].pc = "loop" /\ data[c] = ExitSignal
    /\ cond' = [cond EXCEPT ![c] = <<ExitId, "FIN">>]
    /\ core' = [core EXCEPT ![c].pc = "exited"]
    /\ UNCHANGED <<hank, ran>> /\ AicoreStep
-----------------------------------------------------------------------------
(***************************************************************************)
(* handshake_all_cores, by whichever thread initializes: all cores are     *)
(* signalled, then each in turn gets its registers and reports.            *)
(***************************************************************************)
Initializing == \A t \in Threads : th[t].pc = "init"

SignalCores ==
    /\ Initializing /\ \A c \in Cores : ~hank[c].aicpu_ready
    /\ hank' = [c \in Cores |-> [hank[c] EXCEPT !.aicpu_ready = TRUE]]
    /\ UNCHANGED <<data, cond, core, slot, buffer, owner, th, shared, ctl, ran>>

platform_init_aicore_regs(c) ==
    /\ Initializing /\ hank[c].aicore_regs /\ ~hank[c].aicpu_regs
    /\ \A d \in 0..c - 1 : hank[d].done
    /\ data' = [data EXCEPT ![c] = IdleId]
    /\ hank' = [hank EXCEPT ![c].aicpu_regs = TRUE]
    /\ UNCHANGED <<cond, core, slot, buffer, owner, th, shared, ctl, ran>>

InitDone ==
    /\ Initializing /\ \A c \in Cores : hank[c].done
    /\ th' = [t \in Threads |-> [th[t] EXCEPT !.pc = IF t = Orch THEN "orch" ELSE "top"]]
    /\ UNCHANGED <<aicore, data, cond, slot, buffer, owner, shared, ctl>>
-----------------------------------------------------------------------------
(***************************************************************************)
(* Completion: check_running_cores_for_completion, one core at a time.     *)
(***************************************************************************)
decide_slot_transition(reg, s) ==
    CASE s.pending_id # Invalid /\ reg[1] = s.pending_id ->
           [matched |-> TRUE, running_done |-> TRUE, pending_done |-> reg[2] = "FIN", pending_freed |-> TRUE]
      [] reg[1] = s.running_id /\ reg[2] = "FIN" /\ s.pending_id = Invalid ->
           [matched |-> TRUE, running_done |-> TRUE, pending_done |-> FALSE, pending_freed |-> FALSE]
      [] reg[1] = s.running_id /\ reg[2] = "ACK" /\ reg[1] # s.pending_id ->
           [matched |-> TRUE, running_done |-> FALSE, pending_done |-> FALSE, pending_freed |-> TRUE]
      [] OTHER -> [matched |-> FALSE, running_done |-> FALSE, pending_done |-> FALSE, pending_freed |-> FALSE]

\* promote_pending_to_running or clear_running_slot, then the tracker's bits.
ApplyTransition(s, t) ==
    LET promoted == [s EXCEPT !.running = s.pending, !.running_id = s.pending_id]
        freed == IF ~t.running_done THEN s
                 ELSE [(IF s.pending_id # Invalid /\ ~t.pending_done THEN promoted
                        ELSE [s EXCEPT !.running = NoWork, !.running_id = Invalid])
                       EXCEPT !.pending = NoWork, !.pending_id = Invalid]
        idle == freed.running_id = Invalid
    IN [freed EXCEPT !.idle = idle,
                     !.occupied = @ /\ ~idle /\ ~(t.pending_freed /\ freed.pending_id = Invalid)]

\* Mutant: the vector cores of a mixed block are not counted.
RequiredBlocks(k) == Tasks[k].blocks
Required(k) == Tasks[k].blocks * Cardinality(KindsOf(k))

\* complete_slot_task for the slots the transition completes; ks are their tasks.  The
\* completions of a turn are published with the last core polled.
complete_slot_task(t, ks) ==
    LET total == [k \in DOMAIN Tasks |-> subtasks[k] + Cardinality({i \in DOMAIN ks : ks[i] = k})]
        mixed == {k \in DOMAIN Tasks : subtasks[k] < Required(k) /\ total[k] >= Required(k)}
        turn == th[t].turn + Cardinality(mixed)
        last == Cardinality(th[t].cores) = 1
    IN /\ subtasks' = total
       /\ finished' = [k \in DOMAIN Tasks |-> finished[k] + (IF k \in mixed THEN 1 ELSE 0)]
       /\ ctl' = IF last THEN [ctl EXCEPT !.tasks = @ + turn] ELSE ctl
       /\ th' = [th EXCEPT ![t].cores = @ \ {Min(@)}, ![t].progress = @ \/ ks # <<>>,
                           ![t].turn = IF last THEN 0 ELSE turn, ![t].pc = IF last THEN "shape" ELSE "poll"]

Poll(t) ==
    /\ th[t].pc = "poll"
    /\ LET c == Min(th[t].cores)
           d == decide_slot_transition(cond[c], slot[c])
       IN /\ slot' = IF d.matched THEN [slot EXCEPT ![c] = ApplyTransition(@, d)] ELSE slot
          /\ complete_slot_task(t, (IF d.pending_done THEN <<slot[c].pending[1]>> ELSE <<>>)
                                   \o (IF d.running_done THEN <<slot[c].running[1]>> ELSE <<>>))
    /\ UNCHANGED <<aicore, data, cond, buffer, owner, ready, next>>
-----------------------------------------------------------------------------
(***************************************************************************)
(* Dispatch: get_dispatch_order and dispatch_shape.  The passes of a loop  *)
(* iteration are numbered 1..6: three shapes, each idle then pending.  A   *)
(* cluster is named by its AIC.  Passes with nothing to do are skipped at  *)
(* once.                                                                   *)
(***************************************************************************)
get_dispatch_order(t) == IF t % 2 = 0 THEN <<"MIX", "AIC", "AIV">> ELSE <<"MIX", "AIV", "AIC">>
ShapeAt(t, p) == get_dispatch_order(t)[(p + 1) \div 2]

get_idle_core_offset_states(t, shape) ==
    {c \in Owned(t) : /\ Kind(c) = (IF shape = "MIX" THEN "AIC" ELSE shape)
                      /\ slot[c].idle
                      /\ shape = "AIC" => ~slot[c].occupied
                      /\ shape = "MIX" => slot[c + 1].idle}

get_pending_core_offset_states(t, shape) ==
    {c \in Owned(t) : /\ Kind(c) = (IF shape = "MIX" THEN "AIC" ELSE shape)
                      /\ ~slot[c].occupied
                      /\ shape # "MIX" => ~slot[c].idle
                      /\ shape = "MIX" => ~slot[c + 1].occupied /\ ~(slot[c].idle /\ slot[c + 1].idle)}

get_dispatchable_cores(t, p) ==
    IF p % 2 = 1 THEN get_idle_core_offset_states(t, ShapeAt(t, p))
                 ELSE get_pending_core_offset_states(t, ShapeAt(t, p))

Passes(t) == {p \in th[t].at..6 : get_dispatchable_cores(t, p) # {} /\ ready[ShapeAt(t, p)] # <<>>}

PopBatch(t) ==
    /\ th[t].pc = "shape" /\ Passes(t) # {}
    /\ LET p == Min(Passes(t))
           q == ready[ShapeAt(t, p)]
           cores == get_dispatchable_cores(t, p)
           got == Min({Cardinality(cores), Len(q)})
       IN /\ ready' = [ready EXCEPT ![ShapeAt(t, p)] = SubSeq(q, got + 1, Len(q))]
          /\ th' = [th EXCEPT ![t].pc = "batch", ![t].at = p, ![t].cores = cores, ![t].batch = SubSeq(q, 1, got)]
    /\ UNCHANGED <<aicore, data, cond, slot, buffer, owner, next, subtasks, finished, ctl>>

Claim(cores, remaining) == Min({cores, remaining})

\* Claim blocks of the next task of the batch and hand the task back at once; with no core
\* left the rest of the batch goes back.
ClaimBlocks(t) ==
    /\ th[t].pc = "batch"
    /\ LET s == ShapeAt(t, th[t].at)
           k == Head(th[t].batch)
           claim == Claim(Cardinality(th[t].cores), Tasks[k].blocks - next[k])
       IN IF th[t].cores = {}
          THEN /\ ready' = [ready EXCEPT ![s] = @ \o th[t].batch]
               /\ th' = [th EXCEPT ![t].pc = "shape", ![t].batch = <<>>]
               /\ UNCHANGED next
          ELSE /\ next' = [next EXCEPT ![k] = @ + claim]
               /\ ready' = IF next[k] + claim < Tasks[k].blocks THEN [ready EXCEPT ![s] = Append(@, k)] ELSE ready
               /\ th' = [th EXCEPT ![t].pc = "send", ![t].block = next[k], ![t].claim = claim]
    /\ UNCHANGED <<aicore, data, cond, slot, buffer, owner, subtasks, finished, ctl>>

\* Mutant: the reserved ids are skipped with one id too many.
NextIdOdd(seq) == LET id == (seq + 1) % (TaskIdMask + 1) IN IF id >= ExitSignal THEN 1 ELSE id

\* dispatch_seq with the reserved ids skipped.
NextId(seq) == LET id == (seq + 1) % (TaskIdMask + 1) IN IF id >= ExitSignal THEN 0 ELSE id

\* The slot after dispatch_subtask_to_core.
Occupy(s, w, to_pending) ==
    IF to_pending
    THEN [s EXCEPT !.pending = w, !.pending_id = NextId(s.seq), !.seq = NextId(s.seq), !.occupied = TRUE]
    ELSE [s EXCEPT !.running = w, !.running_id = NextId(s.seq), !.seq = NextId(s.seq), !.occupied = TRUE,
                   !.idle = ~@]

\* dispatch_block: every core of the block gets the payload, then the id in its register.
dispatch_block(targets, w, pending) ==
    /\ slot' = [c \in Cores |-> IF c \in targets THEN Occupy(slot[c], w, pending /\ ~slot[c].idle) ELSE slot[c]]
    /\ buffer' = [c \in Cores |-> IF c \in targets THEN [buffer[c] EXCEPT ![NextId(slot[c].seq) % 2] = w]
                                                   ELSE buffer[c]]
    /\ data' = [c \in Cores |-> IF c \in targets THEN NextId(slot[c].seq) ELSE data[c]]

Send(t) ==
    /\ th[t].pc = "send"
    /\ LET k == Head(th[t].batch)
           c == Min(th[t].cores)
           last == th[t].claim = 1
       IN /\ dispatch_block(IF Tasks[k].shape = "MIX" THEN {c, c + 1} ELSE {c}, <<k, th[t].block>>,
                            th[t].at % 2 = 0)
          /\ th' = [th EXCEPT ![t].cores = IF last /\ Len(th[t].batch) = 1 THEN {} ELSE @ \ {c},
                              ![t].block = IF last THEN 0 ELSE @ + 1, ![t].claim = @ - 1, ![t].progress = TRUE,
                              ![t].batch = IF last THEN Tail(@) ELSE @,
                              ![t].pc = IF ~last THEN "send" ELSE IF Len(th[t].batch) = 1 THEN "shape" ELSE "batch"]
    /\ UNCHANGED <<aicore, cond, owner, shared, ctl>>
-----------------------------------------------------------------------------
(***************************************************************************)
(* The loop of resolve_and_dispatch and its ends.                          *)
(***************************************************************************)
Quiet == UNCHANGED <<aicore, data, cond, slot, buffer, owner, shared>>

Leave(t) == th' = [th EXCEPT ![t].pc = "deinit", ![t].cores = Owned(t), ![t].at = 1, ![t].progress = FALSE]
Begin(t, released) ==
    th' = [th EXCEPT ![t].pc = IF Running(t) = {} THEN "shape" ELSE "poll", ![t].cores = Running(t),
                     ![t].released = @ \/ released]

\* completed_.exchange(true): whoever wins shuts every core down.
ShutDownAll(t) ==
    IF ctl.completed THEN Leave(t) /\ UNCHANGED ctl
    ELSE /\ ctl' = [ctl EXCEPT !.completed = TRUE, !.error = TRUE]
         /\ th' = [th EXCEPT ![t].pc = "emergency", ![t].cores = Cores, ![t].at = 1]

\* The top of the loop, with handle_orchestrator_exit and handle_core_transition.
\* Mutant: one completion too many is waited for.
AllDoneLate == ctl.orch_done /\ ctl.tasks > Len(Tasks) /\ Len(Tasks) > 0
AllDone == ctl.orch_done /\ ctl.tasks >= Len(Tasks) /\ Len(Tasks) > 0

LoopTop(t) ==
    /\ th[t].pc = "top"
    /\ IF ctl.completed THEN Leave(t) /\ UNCHANGED ctl
       ELSE IF Running(t) = {} /\ ctl.error THEN ShutDownAll(t)
       ELSE IF Running(t) = {} /\ AllDone
       THEN Leave(t) /\ ctl' = [ctl EXCEPT !.completed = TRUE]
       ELSE IF ~th[t].released /\ OrchToSched /\ ctl.requested /\ ~ctl.reassigned
       THEN /\ ctl' = [ctl EXCEPT !.waiting = @ + 1]
            /\ th' = [th EXCEPT ![t].pc = "transition"]
       ELSE Begin(t, OrchToSched /\ ctl.requested) /\ UNCHANGED ctl
    /\ Quiet

Transition(t) ==
    /\ th[t].pc = "transition"
    /\ \/ ctl.completed /\ Leave(t)
       \/ ctl.reassigned /\ ~ctl.completed /\ Begin(t, TRUE)
    /\ UNCHANGED ctl /\ Quiet

\* The end of an iteration.  A thread without progress looks for errors now and then, and
\* gives up after MAX_IDLE_ITERATIONS.
LoopEnd(t) ==
    /\ th[t].pc = "shape" /\ Passes(t) = {}
    /\ \/ th' = [th EXCEPT ![t].pc = "top", ![t].at = 1, ![t].progress = FALSE] /\ UNCHANGED ctl
       \/ ~th[t].progress /\ ctl.completed /\ Leave(t) /\ UNCHANGED ctl
       \/ ~th[t].progress /\ ~ctl.completed /\ ctl.error /\ ShutDownAll(t)
    /\ Quiet

handle_timeout_exit(t) ==
    /\ th[t].pc = "shape" /\ Passes(t) = {} /\ ~th[t].progress
    /\ ShutDownAll(t) /\ Quiet

\* emergency_shutdown and shutdown: platform_deinit_aicore_regs core by core.
SendExit(t) ==
    /\ th[t].pc \in {"emergency", "deinit"}
    /\ IF th[t].cores # {}
       THEN /\ data' = [data EXCEPT ![Min(th[t].cores)] = ExitSignal]
            /\ th' = [th EXCEPT ![t].pc = IF @ = "deinit" THEN "await" ELSE "await_all"]
       ELSE /\ IF th[t].pc = "deinit" THEN th' = [th EXCEPT ![t].pc = "done"] ELSE Leave(t)
            /\ UNCHANGED data
    /\ UNCHANGED <<aicore, cond, slot, buffer, owner, shared, ctl>>

NextCore(t) == th' = [th EXCEPT ![t].pc = IF @ = "await" THEN "deinit" ELSE "emergency", ![t].cores = @ \ {Min(@)}]

AwaitExit(t) ==
    /\ th[t].pc \in {"await", "await_all"}
    /\ cond[Min(th[t].cores)] = <<ExitId, "FIN">>
    /\ data' = [data EXCEPT ![Min(th[t].cores)] = IdleId]
    /\ NextCore(t)
    /\ UNCHANGED <<aicore, cond, slot, buffer, owner, shared, ctl>>

\* The wait times out, on a core whose kernel runs on: it keeps its exit signal.  A polling
\* core answers well within PLATFORM_DEINIT_TIMEOUT_TICKS.
AwaitTimeOut(t) ==
    /\ th[t].pc \in {"await", "await_all"}
    /\ Min(th[t].cores) \in launch.slow /\ core[Min(th[t].cores)].pc = "exec"
    /\ NextCore(t)
    /\ UNCHANGED <<aicore, data, cond, slot, buffer, owner, shared, ctl>>
-----------------------------------------------------------------------------
(***************************************************************************)
(* The orchestrator thread: a fatal error, and on_orchestration_done.      *)
(***************************************************************************)
OrchFatal ==
    /\ th[Orch].pc = "orch" /\ ~ctl.error
    /\ ctl' = [ctl EXCEPT !.error = TRUE]
    /\ UNCHANGED th /\ Quiet

OrchDone ==
    /\ th[Orch].pc = "orch"
    /\ ctl' = [ctl EXCEPT !.orch_done = TRUE]
    /\ th' = [th EXCEPT ![Orch].pc = "orch_done"]
    /\ Quiet

RequestTransition ==
    /\ th[Orch].pc = "orch_done"
    /\ IF ctl.error /\ ~ctl.completed THEN ShutDownAll(Orch)
       ELSE IF ctl.completed
       THEN ctl' = [ctl EXCEPT !.requested = TRUE, !.reassigned = TRUE] /\ Leave(Orch)
       ELSE IF OrchToSched
       THEN ctl' = [ctl EXCEPT !.requested = TRUE] /\ th' = [th EXCEPT ![Orch].pc = "orch_wait"]
       ELSE Leave(Orch) /\ UNCHANGED ctl
    /\ Quiet

\* Mutant: the fresh trackers forget the pending slots.
ReassignForgetful ==
    /\ owner' = [i \in DOMAIN owner |-> i % ThreadNum]
    /\ slot' = [c \in Cores |-> [slot[c] EXCEPT !.occupied = FALSE]]

\* All scheduler threads wait: reassign_cores_for_all_threads.
reassign_cores_for_all_threads ==
    /\ owner' = [i \in DOMAIN owner |-> i % ThreadNum]
    /\ slot' = [c \in Cores |-> [slot[c] EXCEPT !.occupied = ~slot[c].idle]]

Reassign ==
    /\ th[Orch].pc = "orch_wait"
    /\ \/ /\ ctl.completed /\ Leave(Orch) /\ UNCHANGED <<ctl, owner, slot>>
       \/ /\ ~ctl.completed /\ ctl.waiting = Cardinality(SchedThreads)
          /\ reassign_cores_for_all_threads
          /\ ctl' = [ctl EXCEPT !.reassigned = TRUE]
          /\ th' = [th EXCEPT ![Orch].pc = "top"]
    /\ UNCHANGED <<aicore, data, cond, buffer, shared>>
-----------------------------------------------------------------------------
AicoreNext(c) == (ReportCore(c) \/ EnterLoop(c) \/ Acknowledge(c) \/ Finish(c) \/ ExitLoop(c)) /\ UNCHANGED launch
InitNext == (SignalCores \/ (\E c \in Cores : platform_init_aicore_regs(c)) \/ InitDone) /\ UNCHANGED launch
ThreadNext(t) ==
    /\ \/ LoopTop(t) \/ Transition(t) \/ Poll(t) \/ PopBatch(t) \/ ClaimBlocks(t) \/ Send(t)
       \/ LoopEnd(t) \/ SendExit(t) \/ AwaitExit(t)
    /\ UNCHANGED launch
OrchNext == (OrchDone \/ RequestTransition \/ Reassign) /\ UNCHANGED launch
Failure == (OrchFatal \/ \E t \in Threads : handle_timeout_exit(t) \/ AwaitTimeOut(t)) /\ UNCHANGED launch

Next ==
    \/ \E c \in Cores : AicoreNext(c)
    \/ InitNext \/ OrchNext \/ Failure
    \/ \E t \in Threads : ThreadNext(t)

Spec == Init /\ [][Next]_vars

\* Every AICPU thread and every AICore runs on a processor of its own; kernels end.  Only the
\* threads' loops can spin, so one condition serves all the others.
FairSpec ==
    /\ Spec /\ WF_vars(InitNext \/ OrchNext \/ \E c \in Cores : AicoreNext(c))
    /\ \A t \in Threads : WF_vars(ThreadNext(t))
-----------------------------------------------------------------------------
\* The invariant the tracker's queries rely on (get_idle_core_offset_states): a core is marked
\* idle exactly when no task is in its running slot, an idle core's pending slot is free, and
\* a core with a task in its pending slot is never offered for another.
SlotsAgree ==
    \A c \in Cores : /\ slot[c].idle <=> slot[c].running_id = Invalid
                     /\ slot[c].idle => ~slot[c].occupied
                     /\ slot[c].pending_id # Invalid => slot[c].occupied

\* A core executes what was dispatched to it: while a kernel runs, the payload buffer it reads
\* holds the work of the running or pending slot with the id in execution, however far the
\* scheduler ran ahead (dispatch_subtask_to_core, two buffers by id parity).
PayloadIntact ==
    \A c \in Cores : core[c].pc = "exec" =>
        LET w == buffer[c][core[c].id % 2] IN
          \/ slot[c].running_id = core[c].id /\ slot[c].running = w /\ w # NoWork
          \/ slot[c].pending_id = core[c].id /\ slot[c].pending = w /\ w # NoWork

\* Every kernel of every block runs at most once, and a task is completed at most once and
\* only after all of them ended (on_subtask_complete, decide_slot_transition).  No block beyond
\* a task's last is ever claimed or handed to a core.
CompletesAfterItsBlocks ==
    /\ \A c \in Cores : \A w \in {slot[c].running, slot[c].pending, buffer[c][0], buffer[c][1]} :
         w = NoWork \/ <<w[1], w[2], Kind(c)>> \in Works
    /\ \A k \in DOMAIN Tasks : next[k] <= Tasks[k].blocks
    /\ \A w \in Works : ran[w] <= 1
    /\ \A k \in DOMAIN Tasks : /\ finished[k] <= 1
                               /\ finished[k] = 1 => \A w \in Works : w[1] = k => ran[w] = 1

\* Every launch ends with all threads and all AICores gone, after an error as well; without
\* one every task was completed (the loop's exits, shutdown, emergency_shutdown).
LaunchEnds ==
    <>[](/\ \A t \in Threads : th[t].pc = "done"
         /\ \A c \in Cores : core[c].pc = "exited"
         /\ ~ctl.error => \A k \in DOMAIN Tasks : finished[k] = 1)
=============================================================================
