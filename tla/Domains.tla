------------------------------- MODULE Domains -------------------------------
(***************************************************************************)
(* Communication domains of a level-3 Worker (python/simpler/worker.py):   *)
(* the orchestration function allocates a domain on some of the chips,     *)
(* submits tasks that captured its windows, and releases it; the windows   *)
(* are freed after the drain of the run.  The chips are the ranks of       *)
(* CommSim: the collective calls are made by the chip processes when the   *)
(* parent's control commands reach them, one thread per chip.              *)
(*                                                                         *)
(* A chip serves its mailbox one request at a time, so a command waits     *)
(* while a task runs, and the other way round (mailbox_mu_).               *)
(***************************************************************************)
EXTENDS CommSim

CONSTANTS
    AllocOrder,   \* the allocation ids (Domains) in the order they are given out
    DomainName,   \* id -> the name the orchestration function uses for it
    MaxTasks,     \* bound on the tasks submitted
    MaxRuns       \* bound on the calls of Worker.run

VARIABLES
    orch,     \* what the run thread is doing: its pc, the domain, the queue of releases
    live,     \* _live_domains: the ids of the live handles, oldest first
    handle,   \* id -> its CommDomainHandle: "none", "live", "released"
    pending,  \* _pending_release_domains
    next,     \* _next_alloc_id
    base,     \* _comm_base_ready
    cmd,      \* chip -> the control command posted to it, and whether it answered
    queue,    \* chip -> the tasks submitted to it: the domains each has captured
    running,  \* chip -> the task it runs
    runs, submitted

dvars == <<orch, live, handle, pending, next, base, cmd, queue, running, runs, submitted>>

NoTask == [task |-> FALSE, uses |-> {}]
NoCmd == [state |-> "none", op |-> "", name |-> Base]
Orch(pc, d) == [pc |-> pc, dom |-> d]  \* of the run thread

DInit ==
    /\ Init
    /\ orch = Orch("idle", Base)
    /\ live = <<>> /\ pending = <<>>
    /\ handle = [d \in Domains |-> "none"]
    /\ next = 1
    /\ base = FALSE
    /\ cmd = [r \in Ranks |-> NoCmd]
    /\ queue = [r \in Ranks |-> <<>>]
    /\ running = [r \in Ranks |-> NoTask]
    /\ runs = 0 /\ submitted = 0

Drop(s, nm) == SelectSeq(s, LAMBDA d : DomainName[d] # nm)

-----------------------------------------------------------------------------
(***************************************************************************)
(* The run thread.  _dispatch_control_domain posts a command to every chip *)
(* concerned, one thread each, and joins them.                             *)
(***************************************************************************)
Dispatch(op, nm, chips) ==
    cmd' = [r \in Ranks |-> IF r \in chips THEN [state |-> "posted", op |-> op, name |-> nm]
                                           ELSE NoCmd]

Joined == \A r \in Ranks : cmd[r].state \in {"none", "ok", "error"}
Failed == \E r \in Ranks : cmd[r].state = "error"

\* Worker.run enters the orchestration function.
RunStart ==
    /\ orch.pc = "idle" /\ runs < MaxRuns
    /\ orch' = Orch("user", Base)
    /\ runs' = runs + 1
    /\ UNCHANGED <<live, handle, pending, next, base, cmd, queue, running, submitted>>

DispatchAlloc ==
    /\ orch' = Orch("alloc", AllocOrder[next])
    /\ Dispatch("alloc", AllocOrder[next], Members[AllocOrder[next]])
    /\ next' = next + 1

\* allocate_domain: a name that is live is refused; the first call sets up the
\* base communicator on every chip before it goes on.
AllocateDomain ==
    /\ orch.pc = "user" /\ next <= Len(AllocOrder)
    /\ \A i \in DOMAIN live : DomainName[live[i]] # DomainName[AllocOrder[next]]
    /\ IF base THEN DispatchAlloc
               ELSE Dispatch("init", Base, Ranks) /\ orch' = Orch("commInit", Base) /\ UNCHANGED next
    /\ UNCHANGED <<live, handle, pending, base, queue, running, runs, submitted>>

CommInitDone ==
    /\ orch.pc = "commInit" /\ Joined
    /\ base' = ~Failed
    /\ IF Failed THEN orch' = Orch("user", Base) /\ UNCHANGED <<cmd, next>> ELSE DispatchAlloc
    /\ UNCHANGED <<live, handle, pending, queue, running, runs, submitted>>

\* Mutant: the errors of the dispatch threads are dropped.
AllocDoneAnyhow ==
    /\ orch.pc = "alloc" /\ Joined
    /\ live' = Append(live, orch.dom)
    /\ handle' = [handle EXCEPT ![orch.dom] = "live"]
    /\ orch' = Orch("user", Base)
    /\ UNCHANGED <<pending, next, base, cmd, queue, running, runs, submitted>>

\* An error on any chip raises: the parent keeps no handle.
AllocDone ==
    /\ orch.pc = "alloc" /\ Joined
    /\ live' = IF Failed THEN live ELSE Append(live, orch.dom)
    /\ handle' = IF Failed THEN handle ELSE [handle EXCEPT ![orch.dom] = "live"]
    /\ orch' = Orch("user", Base)
    /\ UNCHANGED <<pending, next, base, cmd, queue, running, runs, submitted>>

\* A task captures windows of handles that are not released (indexing those raises).
Submit(r, uses) ==
    /\ orch.pc = "user" /\ submitted < MaxTasks
    /\ \A d \in uses : handle[d] = "live" /\ r \in Members[d]
    /\ submitted' = submitted + 1
    /\ queue' = [queue EXCEPT ![r] = Append(@, uses)]
    /\ UNCHANGED <<orch, live, handle, pending, next, base, cmd, running, runs>>

\* CommDomainHandle.release, idempotent: marks the handle, frees nothing.
Release(d) ==
    /\ orch.pc = "user" /\ handle[d] = "live"
    /\ handle' = [handle EXCEPT ![d] = "released"]
    /\ live' = Drop(live, DomainName[d])
    /\ pending' = Append(pending, d)
    /\ UNCHANGED <<orch, next, base, cmd, queue, running, runs, submitted>>

\* The orchestration function returns or raises.
EndOfRun ==
    /\ orch.pc = "user"
    /\ orch' = Orch("drain", Base)
    /\ UNCHANGED <<live, handle, pending, next, base, cmd, queue, running, runs, submitted>>

\* Mutant: no task running counts as drained, whatever is queued.
DrainedTooSoon == \A r \in Ranks : ~running[r].task

Drained == \A r \in Ranks : queue[r] = <<>> /\ ~running[r].task

DispatchRelease(d) == orch' = Orch("release", d) /\ Dispatch("release", d, Members[d])

\* Mutant: no sweep of what the orchestration function left live.
ReleaseNextNoSweep ==
    /\ orch.pc = "drain" /\ Drained
    /\ \/ /\ pending # <<>>
          /\ DispatchRelease(Head(pending))
          /\ pending' = Tail(pending)
       \/ /\ pending = <<>>
          /\ orch' = Orch("idle", Base)
          /\ UNCHANGED <<pending, cmd>>
    /\ UNCHANGED <<live, handle, next, base, queue, running, runs, submitted>>

\* After the drain: the pending releases in order, then what is still live,
\* youngest first, each a collective of its own; then run returns.
ReleaseNext ==
    /\ orch.pc = "drain" /\ Drained
    /\ \/ /\ pending # <<>>
          /\ DispatchRelease(Head(pending))
          /\ pending' = Tail(pending)
          /\ UNCHANGED handle
       \/ /\ pending = <<>> /\ live # <<>>
          /\ DispatchRelease(live[Len(live)])
          /\ handle' = [handle EXCEPT ![live[Len(live)]] = "released"]
          /\ UNCHANGED pending
       \/ /\ pending = <<>> /\ live = <<>>
          /\ orch' = Orch("idle", Base)
          /\ UNCHANGED <<handle, pending, cmd>>
    /\ UNCHANGED <<live, next, base, queue, running, runs, submitted>>

\* _release_domain_now ends by dropping the NAME; a failed release of the sweep
\* drops it too, a failed pending release does not get there.
ReleaseDone ==
    /\ orch.pc = "release" /\ Joined
    /\ live' = IF Failed /\ \A i \in DOMAIN live : live[i] # orch.dom
                 THEN live ELSE Drop(live, DomainName[orch.dom])
    /\ orch' = Orch("drain", Base)
    /\ UNCHANGED <<handle, pending, next, base, cmd, queue, running, runs, submitted>>

\* Worker.close: every chip process shuts down, its ChipWorker destroys the communicator.
Close ==
    /\ orch.pc = "idle" /\ runs = MaxRuns
    /\ orch' = Orch("closed", Base)
    /\ Dispatch("destroy", Base, {r \in Ranks : h[r].open})
    /\ UNCHANGED <<live, handle, pending, next, base, queue, running, runs, submitted>>

Parent ==
    /\ \/ RunStart \/ AllocateDomain \/ CommInitDone \/ AllocDone
       \/ \E r \in Ranks, uses \in SUBSET Domains : Submit(r, uses)
       \/ \E d \in Domains : Release(d)
       \/ EndOfRun \/ ReleaseNext \/ ReleaseDone \/ Close
    /\ UNCHANGED vars

-----------------------------------------------------------------------------
(***************************************************************************)
(* The chip processes: one request at a time, task or command.             *)
(***************************************************************************)
Idle(r) == At(r, "user") /\ ~running[r].task /\ cmd[r].state # "serving"

StartTask(r) ==
    /\ Idle(r) /\ queue[r] # <<>>
    /\ running' = [running EXCEPT ![r] = [task |-> TRUE, uses |-> Head(queue[r])]]
    /\ queue' = [queue EXCEPT ![r] = Tail(@)]
    /\ UNCHANGED <<vars, cmd>>

TaskDone(r) ==
    /\ running[r].task
    /\ running' = [running EXCEPT ![r] = NoTask]
    /\ UNCHANGED <<vars, cmd, queue>>

\* A control command enters the library; ChipWorker::comm_init keeps the handle it has.
Serve(r) ==
    /\ Idle(r) /\ cmd[r].state = "posted"
    /\ cmd' = [cmd EXCEPT ![r].state = "serving"]
    /\ IF cmd[r].op = "init" /\ h[r].open
         THEN rc' = [rc EXCEPT ![r] = 0] /\ UNCHANGED <<segs, created, link, h, call, hist, barrier>>
         ELSE Calls(r, cmd[r].op, cmd[r].name)
    /\ UNCHANGED <<ip, alive, faults, gaveUp, queue, running>>

\* Mutant: a failing command is not answered.
AnswerSuccess(r) ==
    /\ At(r, "user") /\ cmd[r].state = "serving" /\ rc[r] = 0
    /\ cmd' = [cmd EXCEPT ![r].state = "ok"]
    /\ UNCHANGED <<vars, queue, running>>

\* CONTROL_DONE, with an error when the library returned one.
Answer(r) ==
    /\ At(r, "user") /\ cmd[r].state = "serving"
    /\ cmd' = [cmd EXCEPT ![r].state = IF rc[r] = 0 THEN "ok" ELSE "error"]
    /\ UNCHANGED <<vars, queue, running>>

LibraryStep(r) == Step(r) /\ UNCHANGED <<cmd, queue, running>>

Chip(r) ==
    /\ StartTask(r) \/ TaskDone(r) \/ Serve(r) \/ Answer(r) \/ LibraryStep(r)
    /\ UNCHANGED <<orch, live, handle, pending, next, base, runs, submitted>>

DNext == Parent \/ \E r \in Ranks : Chip(r)

\* The parent's own steps between two calls of the orchestration function.
ParentReturns == (CommInitDone \/ AllocDone \/ ReleaseNext \/ ReleaseDone) /\ UNCHANGED vars

DSpec == DInit /\ [][DNext]_<<vars, dvars>>

\* Threads and processes run; the orchestration function may take for ever.
DFairSpec == DSpec /\ WF_<<vars, dvars>>(ParentReturns)
                   /\ \A r \in Ranks : WF_<<vars, dvars>>(Chip(r))

-----------------------------------------------------------------------------
\* "Those tasks must see live memory through execution": while a task runs, the
\* windows it captured are mapped by its chip, whatever was released meanwhile.
TaskWindowsLive ==
    \A r \in Ranks : running[r].task =>
        \A d \in running[r].uses : h[r].domain[d] # None

\* A handle the orchestration function can index stands for one segment that
\* every member has mapped: no two members ever mean different memory by it.
HandleIsUnanimous ==
    \A d \in Domains : handle[d] = "live" =>
        \E s \in Segments : \A r \in Members[d] : h[r].domain[d] = s

\* "a failed task must not strand backend domain allocations into the next run":
\* when run has returned, no chip holds windows of any domain, unless a
\* system call failed or a deadline passed.
NothingStranded ==
    orch.pc = "idle" /\ faults = 0 /\ ~gaveUp =>
        \A r \in Ranks, d \in Domains : h[r].domain[d] = None

\* Every call of the run thread that waits for chips, drain included, returns.
RunReturns == (orch.pc \notin {"idle", "user", "closed"}) ~> (orch.pc \in {"idle", "user"})
=============================================================================
