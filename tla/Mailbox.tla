------------------------------- MODULE Mailbox -------------------------------
(***************************************************************************)
(* The shared-memory mailboxes between a worker and its forked NEXT_LEVEL  *)
(* children.  In the parent a WorkerThread dispatches tasks and the Python *)
(* threads issue control commands, under one mutex per mailbox             *)
(* (worker_manager.cpp); in the child a loop serves the requests           *)
(* (_run_chip_main_loop and _child_worker_loop of worker.py).              *)
(*                                                                         *)
(* A child is a chip process (level 3) or a nested Worker (level 4 and     *)
(* above).  A callable is a member of Chips (a ChipCallable, whose bytes   *)
(* travel in a staging segment named by the request) or of Fns (a Python   *)
(* function, which a child has only if it inherited it by fork).           *)
(***************************************************************************)
EXTENDS Naturals, FiniteSets

CONSTANTS
    Children,       \* the NEXT_LEVEL children
    ChildKinds,     \* subset of {"chip", "worker"}
    MaxCids,        \* MAX_REGISTERED_CALLABLE_IDS
    Chips, Fns,     \* callables
    Faults,         \* calls that may raise in a child: "run", "prepare", "unregister"
    MaxDeaths,      \* bound: children that are dead at the same time
    NoCallable

ASSUME MailboxAssumption ==
    /\ ChildKinds \subseteq {"chip", "worker"}
    /\ MaxCids \in Nat \ {0}
    /\ NoCallable \notin Chips \cup Fns /\ Chips \cap Fns = {}
    /\ Faults \subseteq {"run", "prepare", "unregister"}
    /\ MaxDeaths \in Nat

Cids == 0 .. (MaxCids - 1)
Callables == Chips \cup Fns \cup {NoCallable}
Tables == [Cids -> Callables]
NoTable == [i \in Cids |-> NoCallable]

\* The parent's Python threads that issue control commands: the one in
\* Worker.run, and one that registers callables.
Callers == {"run", "user"}

VARIABLES
    mbox,       \* the shared memory: state word, request, error code; ran is
                \* the callable that the task just answered has executed
    mu,         \* who holds mailbox_mu_: "free", "dispatch" or a caller
    job,        \* the WorkerThread: pc, the callable id and callable submitted
    call,       \* a caller's control command: pc, request, error received
    kind,       \* what the children are, by the level of the parent
    child,      \* the child process: pc and the request it has read
    inherited,  \* its copy-on-write image of the parent's registry
    prepared,   \* chip child: the set prepared of its loop
    table       \* DeviceRunner::prepared_callables_, or the nested Worker's
                \* own registry (empty at first)

mailVars == <<mbox, mu, job, call, kind, child, inherited, prepared, table>>

NoRequest == [cmd |-> "none", cid |-> 0, blob |-> NoCallable]
TaskRequest(i) == [NoRequest EXCEPT !.cmd = "task", !.cid = i]
NoMail == [state |-> "IDLE", req |-> NoRequest, error |-> 0, ran |-> NoCallable]
NoDispatch == [pc |-> "idle", cid |-> 0, target |-> NoCallable]
NoCall == [pc |-> "idle", req |-> NoRequest, error |-> 0]
NoChild == [pc |-> "none", req |-> NoRequest]

MailInit ==
    /\ mbox = [c \in Children |-> NoMail]
    /\ mu = [c \in Children |-> "free"]
    /\ job = [c \in Children |-> NoDispatch]
    /\ call = [t \in Callers |-> [c \in Children |-> NoCall]]
    /\ kind \in ChildKinds
    /\ child = [c \in Children |-> NoChild]
    /\ inherited = [c \in Children |-> NoTable]
    /\ prepared = [c \in Children |-> {}]
    /\ table = [c \in Children |-> NoTable]

Alive(c) == child[c].pc \notin {"none", "dead", "exited"}

-----------------------------------------------------------------------------
\* dispatch_process: the payload under the mutex, then the state word.
DispatchWrite(c) ==
    /\ job[c].pc = "queued" /\ mu[c] = "free"
    /\ mu' = [mu EXCEPT ![c] = "dispatch"]
    /\ mbox' = [mbox EXCEPT ![c].error = 0, ![c].req = TaskRequest(job[c].cid)]
    /\ job' = [job EXCEPT ![c].pc = "signal"]
    /\ UNCHANGED <<call, child, kind, inherited, prepared, table>>

DispatchSignal(c) ==
    /\ job[c].pc = "signal"
    /\ mbox' = [mbox EXCEPT ![c].state = "TASK_READY"]
    /\ job' = [job EXCEPT ![c].pc = "poll"]
    /\ UNCHANGED <<mu, call, child, kind, inherited, prepared, table>>

\* Faulty variant: the exception leaves the mutex locked.
DispatchTooLargeLocked(c) ==
    /\ job[c].pc = "signal"
    /\ job' = [job EXCEPT ![c] = NoDispatch]
    /\ UNCHANGED <<mu, mbox, call, child, kind, inherited, prepared, table>>

\* An args blob beyond MAILBOX_ARGS_CAPACITY: the exception releases the mutex
\* before the child is signalled.
DispatchTooLarge(c) ==
    /\ job[c].pc = "signal"
    /\ mu' = [mu EXCEPT ![c] = "free"]
    /\ job' = [job EXCEPT ![c] = NoDispatch]
    /\ UNCHANGED <<mbox, call, child, kind, inherited, prepared, table>>

\* TASK_DONE seen: the error is reported or not, and the mailbox is released.
DispatchReceive(c) ==
    /\ job[c].pc = "poll" /\ mbox[c].state = "TASK_DONE"
    /\ mbox' = [mbox EXCEPT ![c].state = "IDLE", ![c].ran = NoCallable]
    /\ mu' = [mu EXCEPT ![c] = "free"]
    /\ job' = [job EXCEPT ![c] = NoDispatch]
    /\ UNCHANGED <<call, child, kind, inherited, prepared, table>>

-----------------------------------------------------------------------------
\* Faulty variant: the mutex is not taken.
ControlWriteUnlocked(t, c) ==
    /\ call[t][c].pc = "want"
    /\ mu' = [mu EXCEPT ![c] = t]
    /\ mbox' = [mbox EXCEPT ![c].req = call[t][c].req]
    /\ call' = [call EXCEPT ![t][c].pc = "signal"]
    /\ UNCHANGED <<job, child, kind, inherited, prepared, table>>

\* control_register and the other control_*: the request under the mutex ...
ControlWrite(t, c) ==
    /\ call[t][c].pc = "want" /\ mu[c] = "free"
    /\ mu' = [mu EXCEPT ![c] = t]
    /\ mbox' = [mbox EXCEPT ![c].req = call[t][c].req]
    /\ call' = [call EXCEPT ![t][c].pc = "signal"]
    /\ UNCHANGED <<job, child, kind, inherited, prepared, table>>

\* ... and run_control_command: signal, spin, read the error, release.
ControlSignal(t, c) ==
    /\ call[t][c].pc = "signal"
    /\ mbox' = [mbox EXCEPT ![c].error = 0, ![c].state = "CONTROL_REQUEST"]
    /\ call' = [call EXCEPT ![t][c].pc = "poll"]
    /\ UNCHANGED <<mu, job, child, kind, inherited, prepared, table>>

ControlReceive(t, c) ==
    /\ call[t][c].pc = "poll" /\ mbox[c].state = "CONTROL_DONE"
    /\ mbox' = [mbox EXCEPT ![c].state = "IDLE"]
    /\ mu' = [mu EXCEPT ![c] = "free"]
    /\ call' = [call EXCEPT ![t][c].pc = "done", ![t][c].error = mbox[c].error]
    /\ UNCHANGED <<job, child, kind, inherited, prepared, table>>

-----------------------------------------------------------------------------
\* The child's loop: it sees the state word and reads the request, which stays
\* in place until it answers.
ChildTake(c) ==
    /\ child[c].pc = "loop"
    /\ \/ /\ mbox[c].state \in {"TASK_READY", "CONTROL_REQUEST"}
          /\ child' = [child EXCEPT ![c] =
                 [pc |-> mbox[c].state, req |-> mbox[c].req]]
       \/ /\ mbox[c].state = "SHUTDOWN"
          /\ child' = [child EXCEPT ![c] = [NoChild EXCEPT !.pc = "exited"]]
    /\ UNCHANGED <<mbox, mu, job, call, kind, inherited, prepared, table>>

\* Handling ends: the error code (0 or 1) is written, the state word is next.
Answer(c, error, ran) ==
    /\ mbox' = [mbox EXCEPT ![c].error = error, ![c].ran = ran]
    /\ child' = [child EXCEPT ![c].pc =
           IF @ = "TASK_READY" THEN "TASK_DONE" ELSE "CONTROL_DONE"]
    /\ UNCHANGED <<mu, job, call, kind, inherited>>

MayRaise(f) == IF f \in Faults THEN BOOLEAN ELSE {FALSE}

\* _ensure_prepared: nothing to do, or a ChipCallable of the inherited registry
\* that the device takes (register_prepared_callable refuses an occupied slot).
CanPrepare(c, i) ==
    i \in prepared[c] \/ (inherited[c][i] \in Chips /\ table[c][i] = NoCallable)

AfterPrepare(c, i) == IF i \in prepared[c] THEN table[c][i] ELSE inherited[c][i]

EnsurePrepared(c, i) ==
    /\ table' = [table EXCEPT ![c][i] = AfterPrepare(c, i)]
    /\ prepared' = [prepared EXCEPT ![c] = @ \cup {i}]

\* A child that has taken control command cmd.
Serves(c, cmd) == child[c].pc = "CONTROL_REQUEST" /\ child[c].req.cmd = cmd

\* A chip child runs a task: prepare it if need be, then run what the device
\* holds for the id.
ChipTask(c) ==
    LET i == child[c].req.cid
    IN  /\ kind = "chip" /\ child[c].pc = "TASK_READY"
        /\ \E run \in MayRaise("run"), prep \in MayRaise("prepare") :
             IF ~CanPrepare(c, i) \/ (prep /\ i \notin prepared[c])
               THEN Answer(c, 1, NoCallable) /\ UNCHANGED <<prepared, table>>
               ELSE /\ EnsurePrepared(c, i)
                    /\ IF run \/ AfterPrepare(c, i) = NoCallable
                         THEN Answer(c, 1, NoCallable)
                         ELSE Answer(c, 0, AfterPrepare(c, i))

ChipPrepare(c) ==
    LET i == child[c].req.cid
    IN  /\ Serves(c, "prepare")
        /\ \E prep \in MayRaise("prepare") :
             IF ~CanPrepare(c, i) \/ (prep /\ i \notin prepared[c])
               THEN Answer(c, 1, NoCallable) /\ UNCHANGED <<prepared, table>>
               ELSE EnsurePrepared(c, i) /\ Answer(c, 0, NoCallable)

\* Faulty variant: an id that is still prepared is left as it is.
ChipRegisterSkips(c) ==
    LET i == child[c].req.cid
    IN  /\ kind = "chip" /\ Serves(c, "register")
        /\ \E prep \in MayRaise("prepare") :
             IF i \in prepared[c]
               THEN Answer(c, 0, NoCallable) /\ UNCHANGED <<prepared, table>>
               ELSE IF prep \/ table[c][i] # NoCallable
               THEN Answer(c, 1, NoCallable) /\ UNCHANGED <<prepared, table>>
               ELSE /\ table' = [table EXCEPT ![c][i] = child[c].req.blob]
                    /\ prepared' = [prepared EXCEPT ![c] = @ \cup {i}]
                    /\ Answer(c, 0, NoCallable)

\* CTRL_REGISTER in a chip child.  An id that is still prepared is given up
\* first; what that call raises is dropped, the device's slot is free either way.
ChipRegister(c) ==
    LET i == child[c].req.cid
        healed == IF i \in prepared[c] THEN NoCallable ELSE table[c][i]
    IN  /\ kind = "chip" /\ Serves(c, "register")
        /\ \E prep \in MayRaise("prepare") :
             IF prep \/ healed # NoCallable
               THEN /\ table' = [table EXCEPT ![c][i] = healed]
                    /\ prepared' = [prepared EXCEPT ![c] = @ \ {i}]
                    /\ Answer(c, 1, NoCallable)
               ELSE /\ table' = [table EXCEPT ![c][i] = child[c].req.blob]
                    /\ prepared' = [prepared EXCEPT ![c] = @ \cup {i}]
                    /\ Answer(c, 0, NoCallable)

\* CTRL_UNREGISTER in a chip child: the device gives the slot up before
\* anything can fail; after a failure the id stays in prepared.
ChipUnregister(c) ==
    LET i == child[c].req.cid
    IN  /\ kind = "chip" /\ Serves(c, "unregister")
        /\ table' = [table EXCEPT ![c][i] = NoCallable]
        /\ \E unreg \in MayRaise("unregister") :
             IF unreg /\ table[c][i] # NoCallable
               THEN Answer(c, 1, NoCallable) /\ UNCHANGED prepared
               ELSE /\ prepared' = [prepared EXCEPT ![c] = @ \ {i}]
                    /\ Answer(c, 0, NoCallable)

\* CTRL_MALLOC, FREE, COPY_TO and COPY_FROM.
ChipMemory(c) ==
    /\ Serves(c, "memory")
    /\ \E run \in MayRaise("run") : Answer(c, IF run THEN 1 ELSE 0, NoCallable)
    /\ UNCHANGED <<prepared, table>>

-----------------------------------------------------------------------------
\* A nested Worker runs an orchestration function it inherited.
WorkerTask(c) ==
    LET fn == inherited[c][child[c].req.cid]
    IN  /\ kind = "worker" /\ child[c].pc = "TASK_READY"
        /\ \E run \in MayRaise("run") :
             IF run \/ fn \notin Fns THEN Answer(c, 1, NoCallable)
                                     ELSE Answer(c, 0, fn)
        /\ UNCHANGED <<prepared, table>>

\* _register_at: refused when the id is taken, undone when a broadcast to the
\* Worker's own children fails.
WorkerRegister(c) ==
    LET i == child[c].req.cid
    IN  /\ kind = "worker" /\ Serves(c, "register")
        /\ \E prep \in MayRaise("prepare") :
             IF prep \/ table[c][i] # NoCallable
               THEN Answer(c, 1, NoCallable) /\ UNCHANGED table
               ELSE /\ table' = [table EXCEPT ![c][i] = child[c].req.blob]
                    /\ Answer(c, 0, NoCallable)
        /\ UNCHANGED prepared

\* Worker.unregister of the nested Worker: KeyError for an unknown id.
WorkerUnregister(c) ==
    LET i == child[c].req.cid
    IN  /\ kind = "worker" /\ Serves(c, "unregister")
        /\ table' = [table EXCEPT ![c][i] = NoCallable]
        /\ Answer(c, IF table[c][i] = NoCallable THEN 1 ELSE 0, NoCallable)
        /\ UNCHANGED prepared

ChildReply(c) ==
    /\ child[c].pc \in {"TASK_DONE", "CONTROL_DONE"}
    /\ mbox' = [mbox EXCEPT ![c].state = child[c].pc]
    /\ child' = [child EXCEPT ![c] = [NoChild EXCEPT !.pc = "loop"]]
    /\ UNCHANGED <<mu, job, call, kind, inherited, prepared, table>>

\* The process dies, or leaves because ChipWorker.init failed; nobody in the
\* parent watches for it.
ChildDies(c) ==
    /\ Alive(c) /\ Cardinality({d \in Children : child[d].pc = "dead"}) < MaxDeaths
    /\ child' = [child EXCEPT ![c] = [NoChild EXCEPT !.pc = "dead"]]
    /\ UNCHANGED <<mbox, mu, job, call, kind, inherited, prepared, table>>

DispatchStep(c) ==
    DispatchWrite(c) \/ DispatchSignal(c) \/ DispatchTooLarge(c) \/ DispatchReceive(c)
ControlStep(t, c) == ControlWrite(t, c) \/ ControlSignal(t, c) \/ ControlReceive(t, c)
ChildStep(c) ==
    \/ ChildTake(c) \/ ChildReply(c)
    \/ ChipTask(c) \/ ChipMemory(c)
    \/ ChipPrepare(c) \/ ChipRegister(c) \/ ChipUnregister(c)
    \/ WorkerTask(c) \/ WorkerRegister(c) \/ WorkerUnregister(c)
=============================================================================
