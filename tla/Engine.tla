------------------------------- MODULE Engine -------------------------------
(***************************************************************************)
(* An L3+ worker engine: the orchestrator, the scheduler thread and the    *)
(* worker threads over the state they share, with the properties of the    *)
(* whole.                                                                  *)
(***************************************************************************)
EXTENDS Orchestrator, Scheduler, WorkerPool

vars == <<shared, orchVars, schedVars, worker>>

Init == SharedInit /\ OrchInit /\ SchedInit /\ PoolInit

Orch == OrchStep /\ UNCHANGED <<schedVars, worker>>
Sched == SchedStep /\ UNCHANGED <<orchVars, worker>>
Work(w) == WorkerStep(w) /\ UNCHANGED <<orchVars, schedVars>>

\* All runs are over and every thread is at rest.
Finished ==
    /\ opc = "idle" /\ runs = <<>> /\ spc = "loop"
    /\ UNCHANGED vars

Next == Orch \/ Sched \/ (\E w \in Workers : Work(w)) \/ Finished

Spec == Init /\ [][Next]_vars

\* Each thread keeps running; the children end every task they are given.
FairSpec ==
    /\ Spec
    /\ WF_vars(Orch)
    /\ WF_vars(Sched)
    /\ \A w \in Workers : WF_vars(Work(w))

-----------------------------------------------------------------------------
Finish == {"COMPLETED", "CONSUMED"}
State(s) == slot[s].state

-----------------------------------------------------------------------------
\* The places a task can be in: the ready queues (and the hand of the scheduler
\* between pop and dispatch), and its members at the workers.
ReadyTokens(s) ==
    Cardinality({p \in WorkerTypes \X (1 .. MaxTasks) :
                    p[2] \in DOMAIN ready[p[1]] /\ ready[p[1]][p[2]] = s})
    + IF spc \in WorkerTypes /\ cur = s /\ plan = <<>> THEN 1 ELSE 0

MembersOut(s) ==
    {plan[i][2] : i \in {j \in DOMAIN plan : cur = s}}
    \cup UNION {{q[2] : q \in {e \in ToSet(queue[w]) : e[1] = s}} : w \in Workers}
    \cup {worker[w].member : w \in {v \in Workers :
              worker[v].slot = s /\ worker[v].epoch = epoch /\ worker[v].pc \in {"run", "done"}}}

Completions(s) == Cardinality({i \in DOMAIN completion_queue : completion_queue[i] = s})

MembersDone(s) == IF IsGroup(s) THEN slot[s].sub_complete_count ELSE Completions(s)

\* A READY task is in the ready queues exactly once, a RUNNING one is not, and
\* every member of it is at a worker or counted as done: each push is matched by
\* one dispatch, no member is lost or run twice (dispatch_ready, worker_done).  A
\* worker that calls itself idle has no member left in its queue (pick_idle).
EachTaskRunsOnce ==
    /\ \A w \in Workers : idle[w] => queue[w] = <<>>
    /\ \A s \in Allocated :
        /\ ReadyTokens(s) = IF State(s) = "READY" THEN 1 ELSE 0
        /\ Cardinality(MembersOut(s)) + (IF State(s) = "RUNNING" THEN MembersDone(s) ELSE 0)
             = IF State(s) = "RUNNING" THEN GroupSize(s) ELSE 0
        /\ Completions(s) <= IF State(s) = "RUNNING" THEN 1 ELSE 0

\* The task that wrote key k last before task s was submitted, NoSlot if none.
LastWriter(s, k) ==
    LET ws == {p \in 1 .. (s - 1) : k \in ToSet(slot[p].output_keys)}
    IN  IF ws = {} THEN NoSlot ELSE CHOOSE p \in ws : \A q \in ws : q <= p

ReadKeys(s) == {a.key : a \in {b \in ToSet(FlattenSeq(slot[s].args_list)) : Reads(b)}}


\* The slot that owned the slab of key k when task s was submitted.
SlabOwner(s, k) ==
    LET ow == {p \in 1 .. s : slot[p].slab = <<k[1], k[2]>>}
    IN  CHOOSE p \in ow : \A q \in ow : q <= p

SlabKeys(s) ==
    {a.key : a \in {b \in ToSet(FlattenSeq(slot[s].args_list)) : b.key # NoKey /\ b.key[1] >= 0}}


\* A run leaves nothing to the next.  When no task is counted any more, every slot
\* is back in its ring, whichever thread consumed it, so drain never meets the
\* logic_error of reset_to_empty; and the map names tasks of this run only, as no
\* key is left behind (erase_task_outputs before active_tasks_--).
DrainLeavesNothing ==
    /\ opc = "drain" /\ active_tasks = 0 => AllReleased
    /\ \A k \in DOMAIN tensormap : tensormap[k] \in Allocated

\* docs/scheduler.md: an edge that was wired has its fanin released by the
\* completion of the producer.  This does not hold in every execution, see
\* Hung.  It says that a PENDING task whose producers have all been
\* completed and left by the scheduler has become READY.
WiredEdgeIsReleased ==
    \A s \in Allocated :
        State(s) = "PENDING" /\ spc = "loop" =>
            \E p \in ToSet(slot[s].fanin_producers) : State(p) \notin Finish

\* A task waits for an edge whose release was lost, or a task is still counted
\* that Ring::alloc refused.
Hung ==
    \/ ~WiredEdgeIsReleased
    \/ active_tasks > Cardinality({s \in Allocated : State(s) # "CONSUMED"})

=============================================================================
