---------------------------- MODULE DeviceThreads ----------------------------
(***************************************************************************)
(* The AICPU threads of a launch (a2a3, tensormap_and_ringbuffer): how     *)
(* they start and end under AicpuExecutor, launch after launch, and how    *)
(* they coordinate in the scheduler loop: the drain protocol that starts   *)
(* all blocks of a sync_start task together, the hand-over of cores to the *)
(* orchestrator thread, and the errors that end a launch.                  *)
(*                                                                         *)
(* DeviceCores has the registers and slots; here a core is idle, running   *)
(* or finished.  Each launch has Singles tasks of one block and one        *)
(* sync_start task.  Threads are named by the index thread_idx_++ gives    *)
(* them; the last one is the orchestrator.                                 *)
(***************************************************************************)
EXTENDS Integers, FiniteSets

CONSTANTS
    ThreadNum,   \* thread_num_
    OrchToSched, \* orch_to_sched_
    CoreNum,     \* cores, dealt round robin to the scheduling threads
    Singles,     \* tasks of one block in a launch
    SyncBlocks,  \* block_num of the sync_start task
    MaxLaunches  \* launches (bound)

\* submit_task refuses a sync_start task of more blocks than the device has cores.
ASSUME ThreadsAssumption == /\ ThreadNum \in Nat \ {0, 1} /\ CoreNum \in Nat /\ OrchToSched \in BOOLEAN
                            /\ Singles \in Nat /\ SyncBlocks \in 2..CoreNum /\ MaxLaunches \in Nat

Threads == 0..ThreadNum - 1
Orch == ThreadNum - 1
Cores == 0..CoreNum - 1
None == -1

VARIABLES
    launch,  \* launches so far
    exec,    \* AicpuExecutor's atomics, and rt
    th,      \* thread -> its place
    ctl,     \* SchedulerContext: completed_, counters, error codes, transition flags
    drain,   \* SyncStartDrainState
    core,    \* core -> what it runs
    ready,   \* the ready queue: [singles, sync]
    sync,    \* the sync_start task: blocks launched, blocks completed
    lost     \* history: deinit() forgot a runtime that was not destroyed

vars == <<launch, exec, th, ctl, drain, core, ready, sync, lost>>
sched == <<ctl, drain, core, ready, sync>>

FreshExec == [initialized |-> FALSE, init_done |-> FALSE, init_failed |-> FALSE, finished |-> FALSE,
              thread_idx |-> 0, finished_count |-> 0, init_ready |-> FALSE, rt |-> "null"]
FreshCtl == [completed |-> FALSE, tasks |-> 0, error |-> FALSE, orch_done |-> FALSE, requested |-> FALSE,
             waiting |-> 0, reassigned |-> FALSE, active |-> 0]
FreshDrain == [pending |-> 0, elected |-> None, ack |-> {}, task |-> FALSE]
NoTasks == [singles |-> 0, sync |-> FALSE]

Init ==
    /\ launch = 0 /\ exec = FreshExec /\ ctl = FreshCtl /\ drain = FreshDrain
    /\ th = [t \in Threads |-> "out"] /\ core = [c \in Cores |-> "idle"]
    /\ ready = NoTasks /\ sync = [next |-> 0, completed |-> 0] /\ lost = FALSE

Goto(t, pc) == th' = [th EXCEPT ![t] = pc]
Owned(t) == {c \in Cores : ctl.active > 0 /\ c % ctl.active = t}
IdleOf(t) == {c \in Owned(t) : core[c] = "idle"}
RunningOf(t) == Owned(t) \ IdleOf(t)
Schedulers == 0..ctl.active - 1

\* The first n of the cores, tracker by tracker (pop_first).
First(cores, n) ==
    LET Before(d, c) == d % ctl.active < c % ctl.active \/ (d % ctl.active = c % ctl.active /\ d < c)
    IN {c \in cores : Cardinality({d \in cores : Before(d, c)}) < n}
Start(cores, what) == core' = [c \in Cores |-> IF c \in cores THEN what ELSE core[c]]
-----------------------------------------------------------------------------
(***************************************************************************)
(* aicpu_execute: init() by the first thread, run(), deinit().             *)
(***************************************************************************)
\* The host launches the kernel again only when every thread of the last launch returned.  A
\* launch whose init() or orchestrator failed leaves initialized_ set; nothing follows it here.
Launch ==
    /\ launch < MaxLaunches /\ \A t \in Threads : th[t] = "out"
    /\ ~exec.initialized
    /\ launch' = launch + 1
    /\ th' = [t \in Threads |-> "start"]
    /\ UNCHANGED <<exec, sched, lost>>

\* The CAS on initialized_; the winner initializes or fails, the others go on to wait.
init(t) ==
    /\ th[t] = "start"
    /\ IF exec.initialized THEN Goto(t, "init_wait") /\ UNCHANGED exec
       ELSE Goto(t, "init") /\ exec' = [exec EXCEPT !.initialized = TRUE]
    /\ UNCHANGED <<launch, sched, lost>>

InitBody(t) ==
    /\ th[t] = "init"
    /\ \/ /\ exec' = [exec EXCEPT !.init_done = TRUE, !.finished_count = 0]
          /\ ctl' = [ctl EXCEPT !.active = ThreadNum - 1, !.tasks = 0, !.orch_done = FALSE]
          /\ core' = [c \in Cores |-> "idle"]
       \/ exec' = [exec EXCEPT !.init_failed = TRUE] /\ UNCHANGED <<ctl, core>>
    /\ Goto(t, "init_wait")
    /\ UNCHANGED <<launch, drain, ready, sync, lost>>

\* run() begins: threads are named in the order of thread_idx_++.
EnterRun(t) ==
    /\ th[t] = "init_wait"
    /\ IF exec.init_done
       THEN /\ exec.thread_idx = t
            /\ exec' = [exec EXCEPT !.thread_idx = @ + 1]
            /\ Goto(t, IF t = Orch THEN "orch" ELSE "ready_wait")
       ELSE exec.init_failed /\ Goto(t, "out") /\ UNCHANGED exec
    /\ UNCHANGED <<launch, sched, lost>>


\* The orchestrator creates rt and lets the schedulers go, or returns early for want of an SO.
CreateRuntime ==
    /\ th[Orch] = "orch"
    /\ \/ exec' = [exec EXCEPT !.init_ready = TRUE, !.rt = "live"] /\ Goto(Orch, "orchestrate")
       \/ exec' = [exec EXCEPT !.init_ready = TRUE] /\ Goto(Orch, "out")
    /\ UNCHANGED <<launch, sched, lost>>

WaitReady(t) ==
    /\ th[t] = "ready_wait" /\ exec.init_ready
    /\ Goto(t, IF ctl.completed \/ exec.rt = "null" THEN "finish" ELSE "top")
    /\ UNCHANGED <<launch, exec, sched, lost>>

\* The end of run(): finished_count_, and the last thread destroys rt.
FinishRun(t) ==
    /\ th[t] = "finish"
    /\ LET last == exec.finished_count + 1 = ThreadNum IN
         /\ exec' = [exec EXCEPT !.finished_count = @ + 1, !.finished = @ \/ last]
         /\ Goto(t, IF last THEN "destroy" ELSE "cleanup")
    /\ UNCHANGED <<launch, sched, lost>>

runtime_destroy(t) ==
    /\ th[t] = "destroy"
    /\ exec' = [exec EXCEPT !.rt = IF @ = "live" THEN "freed" ELSE @]
    /\ Goto(t, "cleanup")
    /\ UNCHANGED <<launch, sched, lost>>

\* SchedulerContext::deinit.
SchedDeinit == ctl' = FreshCtl /\ drain' = FreshDrain /\ UNCHANGED core

\* aicpu_execute's last step, deinit() when it finds finished_ set.  The tasks of the launch
\* live in rt and go with it.
deinit(t) ==
    /\ th[t] = "cleanup"
    /\ IF exec.finished
       THEN /\ exec' = FreshExec /\ SchedDeinit
            /\ ready' = NoTasks /\ sync' = [next |-> 0, completed |-> 0]
            /\ lost' = (lost \/ exec.rt = "live")
       ELSE UNCHANGED <<exec, sched, lost>>
    /\ Goto(t, "out")
    /\ UNCHANGED launch
-----------------------------------------------------------------------------
(***************************************************************************)
(* The orchestrator thread: the tasks, a fatal error, and                  *)
(* on_orchestration_done.                                                  *)
(***************************************************************************)
SubmitTasks ==
    /\ th[Orch] = "orchestrate" /\ ready = NoTasks /\ sync.next = 0 /\ ctl.tasks = 0
    /\ ready' = [singles |-> Singles, sync |-> TRUE]
    /\ Goto(Orch, "submitted")
    /\ UNCHANGED <<launch, exec, ctl, drain, core, sync, lost>>

OrchFatal ==
    /\ th[Orch] \in {"orchestrate", "submitted"} /\ ~ctl.error
    /\ ctl' = [ctl EXCEPT !.error = TRUE]
    /\ Goto(Orch, "submitted")
    /\ UNCHANGED <<launch, exec, drain, core, ready, sync, lost>>

OrchDone ==
    /\ th[Orch] = "submitted"
    /\ ctl' = [ctl EXCEPT !.orch_done = TRUE]
    /\ Goto(Orch, "orch_done")
    /\ UNCHANGED <<launch, exec, drain, core, ready, sync, lost>>

RequestTransition ==
    /\ th[Orch] = "orch_done"
    /\ IF ctl.error \/ ctl.completed
       THEN /\ ctl' = [ctl EXCEPT !.completed = TRUE, !.requested = TRUE, !.reassigned = TRUE]
            /\ Goto(Orch, "finish")
       ELSE /\ ctl' = [ctl EXCEPT !.requested = OrchToSched]
            /\ Goto(Orch, IF OrchToSched THEN "orch_wait" ELSE "finish")
    /\ UNCHANGED <<launch, exec, drain, core, ready, sync, lost>>

\* All scheduler threads wait, or the launch is over: reassign_cores_for_all_threads or not.
Reassign ==
    /\ th[Orch] = "orch_wait"
    /\ \/ ctl.completed /\ Goto(Orch, "finish") /\ UNCHANGED ctl
       \/ /\ ~ctl.completed /\ ctl.waiting = ThreadNum - 1
          /\ ctl' = [ctl EXCEPT !.active = ThreadNum, !.reassigned = TRUE]
          /\ Goto(Orch, "top")
    /\ UNCHANGED <<launch, exec, drain, core, ready, sync, lost>>
-----------------------------------------------------------------------------
(***************************************************************************)
(* resolve_and_dispatch, without the drain.                                *)
(***************************************************************************)
\* Mutant: the last task is not waited for.
AllDoneEarly == ctl.orch_done /\ ctl.tasks >= Singles
\* orchestrator_done_ and completed_tasks_ against total_tasks_.
AllDone == ctl.orch_done /\ ctl.tasks >= Singles + 1

\* completed_, handle_orchestrator_exit and handle_core_transition.
LoopTop(t) ==
    /\ th[t] = "top"
    /\ IF ctl.completed \/ (RunningOf(t) = {} /\ (ctl.error \/ AllDone))
       THEN ctl' = [ctl EXCEPT !.completed = TRUE] /\ Goto(t, "finish")
       ELSE IF OrchToSched /\ ctl.requested /\ ~ctl.reassigned
       THEN ctl' = [ctl EXCEPT !.waiting = @ + 1] /\ Goto(t, "transition")
       ELSE UNCHANGED ctl /\ Goto(t, "poll")
    /\ UNCHANGED <<launch, exec, drain, core, ready, sync, lost>>

Transition(t) ==
    /\ th[t] = "transition" /\ (ctl.completed \/ ctl.reassigned)
    /\ Goto(t, IF ctl.completed THEN "finish" ELSE "poll")
    /\ UNCHANGED <<launch, exec, sched, lost>>

FinishKernel(c) ==
    /\ core[c] \in {"single", "block"}
    /\ core' = [core EXCEPT ![c] = IF @ = "single" THEN "single_fin" ELSE "block_fin"]
    /\ UNCHANGED <<launch, exec, th, ctl, drain, ready, sync, lost>>

\* on_subtask_complete for the finished blocks of the sync_start task: 1 when they were the last.
SyncCompletes(blocks) == IF blocks # {} /\ sync.completed + Cardinality(blocks) = SyncBlocks THEN 1 ELSE 0

\* check_running_cores_for_completion, and the drain check that follows it.
Poll(t) ==
    /\ th[t] = "poll"
    /\ LET singles == {c \in Owned(t) : core[c] = "single_fin"}
           blocks == {c \in Owned(t) : core[c] = "block_fin"}
       IN /\ core' = [c \in Cores |-> IF c \in singles \cup blocks THEN "idle" ELSE core[c]]
          /\ sync' = [sync EXCEPT !.completed = @ + Cardinality(blocks)]
          /\ ctl' = [ctl EXCEPT !.tasks = @ + Cardinality(singles) + SyncCompletes(blocks)]
    /\ Goto(t, IF drain.pending = 0 THEN "dispatch" ELSE "drain")
    /\ UNCHANGED <<launch, exec, drain, ready, lost>>

\* The idle pass of dispatch_shape: a single block task, the sync_start task when it fits on
\* the thread's own cores, or the CAS of enter_drain_mode when it does not.
DispatchSingle(t) ==
    /\ th[t] = "dispatch" /\ ready.singles > 0 /\ IdleOf(t) # {}
    /\ Start(First(IdleOf(t), 1), "single")
    /\ ready' = [ready EXCEPT !.singles = @ - 1]
    /\ UNCHANGED <<launch, exec, th, ctl, drain, sync, lost>>

DispatchSync(t) ==
    /\ th[t] = "dispatch" /\ ready.sync /\ Cardinality(IdleOf(t)) >= SyncBlocks
    /\ Start(First(IdleOf(t), SyncBlocks), "block")
    /\ sync' = [sync EXCEPT !.next = SyncBlocks]
    /\ ready' = [ready EXCEPT !.sync = FALSE]
    /\ UNCHANGED <<launch, exec, th, ctl, drain, lost>>

EnterDrain(t) ==
    /\ th[t] = "dispatch" /\ ready.sync /\ IdleOf(t) # {} /\ Cardinality(IdleOf(t)) < SyncBlocks
    /\ IF drain.pending = 0
       THEN /\ drain' = [drain EXCEPT !.pending = -1]
            /\ ready' = [ready EXCEPT !.sync = FALSE]
            /\ Goto(t, "drain_store")
       ELSE UNCHANGED <<drain, ready>> /\ Goto(t, "top")
    /\ UNCHANGED <<launch, exec, ctl, core, sync, lost>>

PublishDrain(t) ==
    /\ th[t] = "drain_store"
    /\ drain' = [pending |-> SyncBlocks, elected |-> None, ack |-> {}, task |-> TRUE]
    /\ Goto(t, "top")
    /\ UNCHANGED <<launch, exec, ctl, core, ready, sync, lost>>

\* Nothing to dispatch: an error may be noticed, and an idle thread times out in the end.
Unproductive(t) ==
    /\ th[t] = "dispatch" /\ (IdleOf(t) = {} \/ (ready.singles = 0 /\ ~ready.sync))
    /\ \/ Goto(t, "top") /\ UNCHANGED ctl
       \/ (ctl.error \/ ctl.completed) /\ Goto(t, "finish") /\ ctl' = [ctl EXCEPT !.completed = TRUE]
    /\ UNCHANGED <<launch, exec, drain, core, ready, sync, lost>>

handle_timeout_exit(t) ==
    /\ th[t] = "dispatch" /\ (IdleOf(t) = {} \/ (ready.singles = 0 /\ ~ready.sync))
    /\ ctl' = [ctl EXCEPT !.error = TRUE, !.completed = TRUE]
    /\ Goto(t, "finish")
    /\ UNCHANGED <<launch, exec, drain, core, ready, sync, lost>>
-----------------------------------------------------------------------------
(***************************************************************************)
(* handle_drain_mode, one shared access a step.                            *)
(***************************************************************************)
DrainOnly == UNCHANGED <<launch, exec, ctl, core, ready, sync, lost>>

\* The load of sync_start_pending, spinning while it is -1.
EnterDrainMode(t) ==
    /\ th[t] = "drain" /\ drain.pending # -1
    /\ Goto(t, IF drain.pending = 0 THEN "top" ELSE "ack")
    /\ UNCHANGED drain /\ DrainOnly

Ack(t) ==
    /\ th[t] = "ack"
    /\ drain' = [drain EXCEPT !.ack = @ \cup {t}]
    /\ Goto(t, "barrier")
    /\ DrainOnly

\* Mutant: a thread waits for no acknowledgement but its own.
AckBarrierAny(t) ==
    /\ th[t] = "barrier"
    /\ Goto(t, IF t \in drain.ack THEN "elect" ELSE "top")
    /\ UNCHANGED drain /\ DrainOnly

AckBarrier(t) ==
    /\ th[t] = "barrier" /\ (Schedulers \subseteq drain.ack \/ t \notin drain.ack)
    /\ Goto(t, IF Schedulers \subseteq drain.ack THEN "elect" ELSE "top")
    /\ UNCHANGED drain /\ DrainOnly

\* The CAS on drain_worker_elected, then the load that decides.
Elect(t) ==
    /\ th[t] = "elect"
    /\ drain' = [drain EXCEPT !.elected = IF @ = None THEN t ELSE @]
    /\ Goto(t, "elected")
    /\ DrainOnly

Elected(t) ==
    /\ th[t] = "elected"
    /\ Goto(t, IF drain.elected = t THEN "count" ELSE "spin")
    /\ UNCHANGED drain /\ DrainOnly

Spin(t) ==
    /\ th[t] = "spin" /\ (drain.pending = 0 \/ drain.elected = None)
    /\ Goto(t, "top")
    /\ UNCHANGED drain /\ DrainOnly

\* Mutant: one core too few passes for enough.
CountAvailableShort(t) ==
    /\ th[t] = "count"
    /\ Goto(t, IF Cardinality({c \in Cores : core[c] = "idle"}) + 1 < SyncBlocks THEN "reset" ELSE "launch")
    /\ UNCHANGED drain /\ DrainOnly

\* count_global_available, over all the trackers.
CountAvailable(t) ==
    /\ th[t] = "count"
    /\ Goto(t, IF Cardinality({c \in Cores : core[c] = "idle"}) < SyncBlocks THEN "reset" ELSE "launch")
    /\ UNCHANGED drain /\ DrainOnly

ResetAck(t) ==
    /\ th[t] = "reset"
    /\ drain' = [drain EXCEPT !.ack = {}]
    /\ Goto(t, "reset_elected")
    /\ DrainOnly

ResetElected(t) ==
    /\ th[t] = "reset_elected"
    /\ drain' = [drain EXCEPT !.elected = None]
    /\ Goto(t, "top")
    /\ DrainOnly

\* drain_worker_dispatch: one pass over the idle cores of all trackers, as many as there are.
drain_worker_dispatch(t) ==
    /\ th[t] = "launch"
    /\ IF drain.task
       THEN LET cores == First({c \in Cores : core[c] = "idle"}, SyncBlocks - sync.next)
            IN /\ Start(cores, "block")
               /\ sync' = [sync EXCEPT !.next = @ + Cardinality(cores)]
               /\ Goto(t, "clear") /\ UNCHANGED drain
       ELSE drain' = [drain EXCEPT !.pending = 0] /\ Goto(t, "top") /\ UNCHANGED <<core, sync>>
    /\ UNCHANGED <<launch, exec, ctl, ready, lost>>

\* pending_task, drain_ack_mask and drain_worker_elected, and only then sync_start_pending.
ClearDrain(t) ==
    /\ th[t] = "clear"
    /\ drain' = [drain EXCEPT !.elected = None, !.ack = {}, !.task = FALSE]
    /\ Goto(t, "clear_pending")
    /\ DrainOnly

EndDrain(t) ==
    /\ th[t] = "clear_pending"
    /\ drain' = [drain EXCEPT !.pending = 0]
    /\ Goto(t, "top")
    /\ DrainOnly
-----------------------------------------------------------------------------
DrainStep(t) == \/ EnterDrainMode(t) \/ Ack(t) \/ AckBarrier(t) \/ Elect(t) \/ Elected(t) \/ Spin(t)
                \/ CountAvailable(t) \/ ResetAck(t) \/ ResetElected(t) \/ drain_worker_dispatch(t)
                \/ ClearDrain(t) \/ EndDrain(t)
LoopStep(t) == \/ LoopTop(t) \/ Transition(t) \/ Poll(t) \/ DispatchSingle(t) \/ DispatchSync(t)
               \/ EnterDrain(t) \/ PublishDrain(t) \/ Unproductive(t)
LifeStep(t) == init(t) \/ InitBody(t) \/ EnterRun(t) \/ WaitReady(t) \/ FinishRun(t) \/ runtime_destroy(t) \/ deinit(t)
OrchStep == CreateRuntime \/ SubmitTasks \/ OrchDone \/ RequestTransition \/ Reassign
Failure == OrchFatal \/ \E t \in Threads : handle_timeout_exit(t)

ThreadStep(t) == LifeStep(t) \/ LoopStep(t) \/ DrainStep(t) \/ (t = Orch /\ OrchStep)

Next == \/ Launch \/ Failure
        \/ \E t \in Threads : ThreadStep(t)
        \/ \E c \in Cores : FinishKernel(c)

Spec == Init /\ [][Next]_vars

\* Each AICPU thread has a core of its own until it returns, and kernels end.
FairSpec == /\ Spec /\ WF_vars(\E c \in Cores : FinishKernel(c))
            /\ \A t \in Threads : WF_vars(th[t] # "out" /\ ThreadStep(t))
-----------------------------------------------------------------------------
InDrain == {"barrier", "elect", "elected", "spin"}
Outside == {"finish", "destroy", "cleanup", "out"}

\* While the elected thread counts and dispatches across all trackers (drain_worker_dispatch),
\* it holds a task, and every other scheduling thread is inside handle_drain_mode.
DrainExclusive ==
    \A t \in Threads : th[t] \in {"count", "launch"} =>
        drain.task /\ \A u \in Schedulers \ {t} : th[u] \in InDrain

\* The blocks of a sync_start task start together or not at all (count_global_available,
\* drain_worker_dispatch).
SyncStartsWhole == sync.next \in {0, SyncBlocks}

\* When the last thread destroys the runtime, every task was completed, or the launch had an
\* error or no runtime (handle_orchestrator_exit, the count of finished threads).
EndsComplete ==
    \A t \in Threads : th[t] = "destroy" => ctl.error \/ exec.rt = "null" \/ ctl.tasks = Singles + 1



(***************************************************************************)
(* The interleavings the protocol does not survive.  Stale: a thread that  *)
(* passed the barrier finds the election open again after a reset or a     *)
(* finished drain.  Late: it acknowledges a drain that is over.  Alone: it *)
(* acknowledges while another thread waits for the transition or has left  *)
(* the loop.  And deinit() may overtake runtime_destroy().                 *)
(***************************************************************************)
Stale(t) == th[t] = "elect" /\ drain.elected = None /\ t \notin drain.ack
Late(t) == th[t] = "barrier" /\ t \in drain.ack /\ ~drain.task
Alone(t) == /\ th[t] = "barrier" /\ t \in drain.ack
            /\ \E u \in Schedulers : u \notin drain.ack /\ th[u] \in {"transition"} \cup Outside
NotRaced == ~lost /\ \A t \in Threads : ~Stale(t) /\ ~Late(t) /\ ~Alone(t)
=============================================================================
