-------------------------- MODULE CallableRegistry --------------------------
(***************************************************************************)
(* Worker.register, unregister, the lazy start of the children on the      *)
(* first run, close and a new init, over the mailboxes                     *)
(* (python/simpler/worker.py and the broadcasts of worker_manager.cpp).    *)
(*                                                                         *)
(* Two Python threads: "run" makes the runs (the first one forks the       *)
(* children), uses device memory and closes the worker; "user" registers   *)
(* and unregisters, at any time but during the start and after close.      *)
(***************************************************************************)
EXTENDS Mailbox, FiniteSetsExt

CONSTANTS
    Initial,        \* for each kind of children, the registries there may be at init
    MaxCalls,       \* bound: register and unregister calls
    MaxRequests,    \* bound: tasks and memory calls
    MaxInits        \* bound: calls of Worker.init

ASSUME RegistryAssumption ==
    /\ \A k \in ChildKinds : Initial[k] \subseteq Tables
    /\ {MaxCalls, MaxRequests, MaxInits} \subseteq Nat

VARIABLES
    registry,   \* _callable_registry
    upc,        \* the user thread: "idle", "register" or "unregister"
    target_cid, \* the id of its call
    rpc,        \* the run thread: "none", "fork", "init", "prewarm", "up",
                \* "shutdown", "reap", "closed"
    prewarm,    \* the pairs <<id, child>> still to prepare
    calls, requests, inits

regVars == <<registry, upc, target_cid, rpc, prewarm, calls, requests, inits>>
vars == <<mailVars, regVars>>

Init ==
    /\ MailInit
    /\ registry \in Initial[kind]
    /\ upc = "idle"
    /\ target_cid = 0
    /\ rpc = "none"
    /\ prewarm = {}
    /\ calls = 0 /\ requests = 0 /\ inits = 1

Registered == {i \in Cids : registry[i] # NoCallable}

\* The engine's threads exist: before, a broadcast has nobody to send to.
EngineUp == rpc = "up"
UserMayCall == upc = "idle" /\ rpc \in {"none", "up"}

Wanted(r) == [NoCall EXCEPT !.pc = "want", !.req = r]
Broadcast(r) == call' = [call EXCEPT !["user"] = [c \in Children |-> Wanted(r)]]
BroadcastDone == \A c \in Children : call["user"][c].pc = "done"
ForgetReplies == call' = [call EXCEPT !["user"] = [c \in Children |-> NoCall]]

-----------------------------------------------------------------------------
\* _allocate_cid: the smallest unused id.  Without one, register raises.
AllocateCid == Min(Cids \ Registered)

Register ==
    /\ UserMayCall /\ calls < MaxCalls
    /\ Registered # Cids
    /\ \E t \in Chips :
         /\ registry' = [registry EXCEPT ![AllocateCid] = t]
         /\ IF EngineUp
              THEN /\ Broadcast([cmd |-> "register", cid |-> AllocateCid, blob |-> t])
                   /\ upc' = "register" /\ target_cid' = AllocateCid
              ELSE UNCHANGED <<call, upc, target_cid>>
    /\ calls' = calls + 1
    /\ UNCHANGED <<mbox, mu, job, child, kind, inherited, prepared, table, rpc, prewarm,
                   requests, inits>>

\* Faulty variant: an error of a child does not take the id back.
RegisterReturnKeeps ==
    /\ upc = "register" /\ BroadcastDone
    /\ UNCHANGED registry
    /\ ForgetReplies
    /\ upc' = "idle" /\ target_cid' = 0
    /\ UNCHANGED <<mbox, mu, job, child, kind, inherited, prepared, table, rpc, prewarm,
                   calls, requests, inits>>

\* All threads of broadcast_register_all are joined: any error is raised, and
\* register pops the id.
RegisterReturn ==
    /\ upc = "register" /\ BroadcastDone
    /\ registry' = IF \E c \in Children : call["user"][c].error # 0
                     THEN [registry EXCEPT ![target_cid] = NoCallable] ELSE registry
    /\ ForgetReplies
    /\ upc' = "idle" /\ target_cid' = 0
    /\ UNCHANGED <<mbox, mu, job, child, kind, inherited, prepared, table, rpc, prewarm,
                   calls, requests, inits>>

\* The caller must have no task with this id under way.
InUse(i) == \E c \in Children : job[c].pc # "idle" /\ job[c].cid = i

Unregister ==
    /\ UserMayCall /\ calls < MaxCalls
    /\ \E i \in Registered :
         /\ ~InUse(i)
         /\ IF EngineUp
              THEN /\ Broadcast([cmd |-> "unregister", cid |-> i, blob |-> NoCallable])
                   /\ upc' = "unregister" /\ target_cid' = i
                   /\ UNCHANGED registry
              ELSE /\ registry' = [registry EXCEPT ![i] = NoCallable]
                   /\ UNCHANGED <<call, upc, target_cid>>
    /\ calls' = calls + 1
    /\ UNCHANGED <<mbox, mu, job, child, kind, inherited, prepared, table, rpc, prewarm,
                   requests, inits>>

\* Best effort: the id is popped whatever the children answered.
UnregisterReturn ==
    /\ upc = "unregister" /\ BroadcastDone
    /\ registry' = [registry EXCEPT ![target_cid] = NoCallable]
    /\ ForgetReplies
    /\ upc' = "idle" /\ target_cid' = 0
    /\ UNCHANGED <<mbox, mu, job, child, kind, inherited, prepared, table, rpc, prewarm,
                   calls, requests, inits>>

-----------------------------------------------------------------------------
\* _start_hierarchical, on the first run.
StartBegin ==
    /\ rpc = "none" /\ upc = "idle"
    /\ rpc' = "fork"
    /\ UNCHANGED <<mailVars, registry, upc, target_cid, prewarm, calls, requests, inits>>

\* fork: the child gets an image of the registry and enters its loop.
ForkChild ==
    /\ rpc = "fork"
    /\ \E c \in Children :
         /\ child[c].pc = "none"
         /\ child' = [child EXCEPT ![c].pc = "loop"]
         /\ inherited' = [inherited EXCEPT ![c] = registry]
         /\ rpc' = IF \E d \in Children \ {c} : child[d].pc = "none" THEN "fork" ELSE "init"
    /\ UNCHANGED <<mbox, mu, job, call, kind, prepared, table, registry, upc, target_cid,
                   prewarm, calls, requests, inits>>

PrewarmPairs == {i \in Cids : registry[i] \in Chips} \X Children

\* dw.init() creates the threads; then the loop that pre-warms chip children.
EngineInit ==
    /\ rpc = "init"
    /\ IF kind = "chip"
         THEN /\ prewarm' = PrewarmPairs
              /\ rpc' = "prewarm"
         ELSE rpc' = "up" /\ UNCHANGED prewarm
    /\ UNCHANGED <<mailVars, registry, upc, target_cid, calls, requests, inits>>

RunThreadFree == \A c \in Children : call["run"][c].pc = "idle"

\* The next pair, or the end of the loop.
PrewarmNext ==
    /\ rpc = "prewarm" /\ RunThreadFree
    /\ IF prewarm = {}
         THEN rpc' = "up" /\ prewarm' = {} /\ UNCHANGED call
         ELSE \E p \in prewarm :
                /\ call' = [call EXCEPT !["run"][p[2]] =
                       Wanted([NoRequest EXCEPT !.cmd = "prepare", !.cid = p[1]])]
                /\ prewarm' = prewarm \ {p}
                /\ UNCHANGED rpc
    /\ UNCHANGED <<mbox, mu, job, child, kind, inherited, prepared, table, registry, upc,
                   target_cid, calls, requests, inits>>

\* control_prepare returns, or its exception leaves _start_hierarchical.
PrewarmReceive ==
    /\ rpc = "prewarm"
    /\ \E c \in Children :
         /\ call["run"][c].pc = "done"
         /\ call' = [call EXCEPT !["run"][c] = NoCall]
         /\ IF call["run"][c].error # 0
              THEN rpc' = "up" /\ prewarm' = {}
              ELSE UNCHANGED <<rpc, prewarm>>
    /\ UNCHANGED <<mbox, mu, job, child, kind, inherited, prepared, table, registry, upc,
                   target_cid, calls, requests, inits>>

-----------------------------------------------------------------------------
\* What a child of this kind can execute as a task.
Submittable == IF kind = "chip" THEN Chips ELSE Fns

\* The engine hands a task to an idle worker thread.  The program uses an id
\* from when register has returned it until it calls unregister.
Submit ==
    /\ rpc = "up" /\ RunThreadFree /\ requests < MaxRequests
    /\ \E c \in Children, i \in Registered :
         /\ upc # "idle" => i # target_cid
         /\ job[c].pc = "idle" /\ registry[i] \in Submittable
         /\ job' = [job EXCEPT ![c] = [pc |-> "queued", cid |-> i, target |-> registry[i]]]
    /\ requests' = requests + 1
    /\ UNCHANGED <<mbox, mu, call, child, kind, inherited, prepared, table, registry, upc,
                   target_cid, rpc, prewarm, calls, inits>>

\* malloc, free, copy_to and copy_from on one chip.
MemoryCall ==
    /\ rpc = "up" /\ kind = "chip" /\ RunThreadFree /\ requests < MaxRequests
    /\ \E c \in Children :
         call' = [call EXCEPT !["run"][c] = Wanted([NoRequest EXCEPT !.cmd = "memory"])]
    /\ requests' = requests + 1
    /\ UNCHANGED <<mbox, mu, job, child, kind, inherited, prepared, table, registry, upc,
                   target_cid, rpc, prewarm, calls, inits>>

MemoryReturn ==
    /\ rpc = "up"
    /\ \E c \in Children : /\ call["run"][c].pc = "done"
                           /\ call' = [call EXCEPT !["run"][c] = NoCall]
    /\ UNCHANGED <<mbox, mu, job, child, kind, inherited, prepared, table, regVars>>

\* Faulty variant: close does not wait for the tasks under way.
CloseUndrained ==
    /\ rpc \in {"none", "up"} /\ upc = "idle" /\ RunThreadFree
    /\ rpc' = IF rpc = "none" THEN "closed" ELSE "shutdown"
    /\ UNCHANGED <<mailVars, registry, upc, target_cid, prewarm, calls, requests, inits>>

\* close, after the run in progress has drained; dw.close() joins the threads.
Close ==
    /\ rpc \in {"none", "up"} /\ upc = "idle" /\ RunThreadFree
    /\ \A c \in Children : job[c].pc = "idle"
    /\ rpc' = IF rpc = "none" THEN "closed" ELSE "shutdown"
    /\ UNCHANGED <<mailVars, registry, upc, target_cid, prewarm, calls, requests, inits>>

\* SHUTDOWN goes to every mailbox, then waitpid for every child.
CloseShutdown ==
    /\ rpc = "shutdown"
    /\ mbox' = [c \in Children |-> [mbox[c] EXCEPT !.state = "SHUTDOWN"]]
    /\ rpc' = "reap"
    /\ UNCHANGED <<mu, job, call, child, kind, inherited, prepared, table, registry, upc,
                   target_cid, prewarm, calls, requests, inits>>

CloseReap ==
    /\ rpc = "reap" /\ \A c \in Children : ~Alive(c)
    /\ rpc' = "closed"
    /\ UNCHANGED <<mailVars, registry, upc, target_cid, prewarm, calls, requests, inits>>

\* init on a closed worker: new mailboxes, the registry as it was.  close has
\* forgotten the nested Workers; the user adds as many fresh ones.
Reinit ==
    /\ rpc = "closed" /\ inits < MaxInits
    /\ inits' = inits + 1
    /\ rpc' = "none"
    /\ mbox' = [c \in Children |-> NoMail]
    /\ child' = [c \in Children |-> NoChild]
    /\ inherited' = [c \in Children |-> NoTable]
    /\ prepared' = [c \in Children |-> {}]
    /\ table' = [c \in Children |-> NoTable]
    /\ UNCHANGED <<mu, job, call, kind, registry, upc, target_cid, prewarm, calls,
                   requests>>

-----------------------------------------------------------------------------
RegistryUnchanged == UNCHANGED regVars

User == Register \/ RegisterReturn \/ Unregister \/ UnregisterReturn
Start == StartBegin \/ ForkChild \/ EngineInit \/ PrewarmNext \/ PrewarmReceive
Run ==
    \/ Start \/ Submit \/ MemoryCall \/ MemoryReturn
    \/ Close \/ CloseShutdown \/ CloseReap \/ Reinit
Dispatch(c) == DispatchStep(c) /\ RegistryUnchanged
Control(t, c) == ControlStep(t, c) /\ RegistryUnchanged
Child(c) == ChildStep(c) /\ RegistryUnchanged
Death(c) == ChildDies(c) /\ RegistryUnchanged

Finished == rpc = "closed" /\ inits = MaxInits /\ UNCHANGED vars

\* A thread that waits for a dead child waits for ever.
Stuck == (\E c \in Children : child[c].pc = "dead") /\ UNCHANGED vars

Next ==
    \/ User \/ Run \/ Finished \/ Stuck
    \/ \E c \in Children : Dispatch(c) \/ Child(c) \/ Death(c)
    \/ \E c \in Children, t \in Callers : Control(t, c)

Spec == Init /\ [][Next]_vars

\* Threads and living children keep running; nobody has to call anything.
FairSpec ==
    /\ Spec
    /\ WF_vars(RegisterReturn) /\ WF_vars(UnregisterReturn)
    /\ WF_vars(CloseShutdown) /\ WF_vars(CloseReap)
    /\ WF_vars(MemoryReturn)
    /\ WF_vars(ForkChild \/ EngineInit \/ PrewarmNext \/ PrewarmReceive)
    /\ \A c \in Children :
         /\ WF_vars(Dispatch(c)) /\ WF_vars(Child(c))
         /\ \A t \in Callers : WF_vars(Control(t, c))

-----------------------------------------------------------------------------
MailboxStates ==
    {"IDLE", "TASK_READY", "TASK_DONE", "CONTROL_REQUEST", "CONTROL_DONE", "SHUTDOWN"}

\* What the parent has asked on a mailbox and waits for.
TaskIssued(c) ==
    IF job[c].pc = "poll" THEN {TaskRequest(job[c].cid)} ELSE {}
Issued(c) ==
    TaskIssued(c) \cup {call[t][c].req : t \in {u \in Callers : call[u][c].pc = "poll"}}

\* A mailbox carries one request at a time, the child works on exactly the
\* request its parent is waiting for, and an answer stays until the asker has
\* read it: no task and no control command takes the other's answer
\* (mailbox_mu_ held for the whole round trip).
OneRequestAtATime ==
    \A c \in Children :
        /\ Cardinality(Issued(c)) <= 1
        /\ child[c].pc \in MailboxStates => Issued(c) = {child[c].req}
        /\ mbox[c].state \in {"TASK_DONE", "CONTROL_DONE"} => Issued(c) = {mbox[c].req}

\* A task that is answered without an error has executed the callable that was
\* registered under its id when it was submitted, whatever was registered and
\* unregistered under that id before, in this process or in the parent.
RunsRegisteredCallable ==
    \A c \in Children :
        mbox[c].state = "TASK_DONE" /\ mbox[c].error = 0 => mbox[c].ran = job[c].target

\* What a chip child executes for id i.
Resolves(c, i) == IF i \in prepared[c] THEN table[c][i] ELSE inherited[c][i]

\* "When it returns, every child has completed prepare": between two calls of
\* register and unregister every living chip resolves each registered id to the
\* registered callable, and nested Workers have it all or none
\* (docs/callable-ipc-dynamic-register.md, failed broadcasts included).
RegisteredEverywhere ==
    upc = "idle" /\ EngineUp =>
        \A i \in Registered, c \in {d \in Children : Alive(d)} :
            IF kind = "chip"
              THEN registry[i] \in Chips => Resolves(c, i) = registry[i]
              ELSE \A d \in Children : Alive(d) => table[c][i] = table[d][i]

Dead == \E c \in Children : child[c].pc = "dead"

\* register and unregister return, whatever the children answer (broadcast_*_all
\* join a thread per child, each polling its mailbox), and every task given to a
\* WorkerThread is answered, also one whose blob is too large or that competes with
\* control commands for the mailbox (dispatch_process), unless a child has died.
CallsReturn ==
    /\ upc \in {"register", "unregister"} ~> (upc = "idle" \/ Dead)
    /\ \A c \in Children : (job[c].pc # "idle") ~> (job[c].pc = "idle" \/ Dead)

\* close returns: every child sees SHUTDOWN, also one that has died before.
CloseReturns == (rpc = "shutdown") ~> (rpc = "closed")
=============================================================================
