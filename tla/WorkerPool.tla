----------------------------- MODULE WorkerPool -----------------------------
(***************************************************************************)
(* The worker threads (WorkerThread::loop in worker_manager.cpp and        *)
(* Scheduler::worker_done).  The round trip through the mailbox of the     *)
(* forked child is one step here: the child finishes, well or with an      *)
(* error the thread reports.                                               *)
(***************************************************************************)
EXTENDS EngineState

CONSTANT Outcomes   \* subset of {"ok", "error"}: how a child may end a task

ASSUME OutcomesAssumption == Outcomes \subseteq {"ok", "error"}

VARIABLE worker     \* of every thread: pc, the entry it works on, and locals

NoJob == [pc |-> "wait", slot |-> NoSlot, member |-> 0, done |-> 0, epoch |-> 0]

PoolInit == worker = [w \in Workers |-> NoJob]

TakeJob(w) ==
    /\ worker[w].pc = "wait" /\ queue[w] # <<>>
    /\ queue' = [queue EXCEPT ![w] = Tail(@)]
    /\ worker' = [worker EXCEPT ![w] =
           [NoJob EXCEPT !.pc = "run", !.slot = queue[w][1][1], !.member = queue[w][1][2],
                         !.epoch = epoch]]
    /\ UNCHANGED <<slot, ringVars, tensormap, ready, completion_queue, active_tasks,
                   has_error, idle>>

\* dispatch_process returns or throws (report_error), then idle_ is set.
FinishJob(w) ==
    /\ worker[w].pc = "run"
    /\ \E r \in Outcomes : has_error' = (has_error \/ r = "error")
    /\ idle' = [idle EXCEPT ![w] = TRUE]
    /\ worker' = [worker EXCEPT ![w].pc = "done"]
    /\ UNCHANGED <<slot, ringVars, tensormap, ready, completion_queue, active_tasks, queue>>

\* Faulty variant: every member of a group reports a completion.
WorkerDoneUngrouped(w) ==
    /\ worker[w].pc = "done"
    /\ completion_queue' = Append(completion_queue, worker[w].slot)
    /\ worker' = [worker EXCEPT ![w] = NoJob]
    /\ UNCHANGED <<slot, ringVars, tensormap, ready, active_tasks, has_error, idle, queue>>

\* worker_done: a single task is queued as completed, a member of a group is
\* counted.
WorkerDone(w) ==
    LET s == worker[w].slot
    IN  /\ worker[w].pc = "done"
        /\ IF IsGroup(s)
             THEN /\ slot' = [slot EXCEPT ![s].sub_complete_count = @ + 1]
                  /\ worker' = [worker EXCEPT ![w].pc = "counted",
                                              ![w].done = slot[s].sub_complete_count + 1]
                  /\ UNCHANGED completion_queue
             ELSE /\ completion_queue' = Append(completion_queue, s)
                  /\ worker' = [worker EXCEPT ![w] = NoJob]
                  /\ UNCHANGED slot
        /\ UNCHANGED <<ringVars, tensormap, ready, active_tasks, has_error, idle, queue>>

\* done < s.group_size().  The slot may have been freed by a drain since the
\* member was counted: then the memory is intact, or a slot of the next run.
GroupSizeRead(w) ==
    IF worker[w].epoch = epoch
      THEN {GroupSize(worker[w].slot)}
      ELSE {worker[w].done + 1} \cup {GroupSize(s) : s \in Allocated}

LastMember(w) ==
    /\ worker[w].pc = "counted"
    /\ \E n \in GroupSizeRead(w) :
         completion_queue' = IF worker[w].done < n THEN completion_queue
                             ELSE Append(completion_queue, worker[w].slot)
    /\ worker' = [worker EXCEPT ![w] = NoJob]
    /\ UNCHANGED <<slot, ringVars, tensormap, ready, active_tasks, has_error, idle, queue>>

WorkerStep(w) == TakeJob(w) \/ FinishJob(w) \/ WorkerDone(w) \/ LastMember(w)
=============================================================================
