------------------------------ MODULE Profiler ------------------------------
(***************************************************************************)
(* The buffers of a profiling collector of platform a2a3, with the PMU     *)
(* collector as the subsystem.  An AICPU thread fills the buffer of a core *)
(* and swaps it for one of the core's free queue; the full buffer goes     *)
(* through the thread's ready queue to the mgmt thread, which refills the  *)
(* free queue and passes it to the collector thread; that one copies the   *)
(* records out and gives the buffer back.  No side ever waits for the      *)
(* other: records are dropped and counted instead.                         *)
(*                                                                         *)
(* Buffers are numbered in the order of their allocation; a record is the  *)
(* pair of its core and its number on that core.                           *)
(***************************************************************************)
EXTENDS Integers, Sequences, FiniteSets, SequencesExt, FiniteSetsExt

CONSTANTS
    Cores, Threads,     \* 1..n each: the loops go through them in this order
    Owner,              \* core -> the AICPU thread that records its tasks
    SlotCount,          \* kSlotCount, of every free queue
    BuffersPerCore,     \* PLATFORM_PMU_BUFFERS_PER_CORE
    RecordsPerBuffer,   \* PLATFORM_PMU_RECORDS_PER_BUFFER
    ReadyQueueSize,     \* kReadyQueueSize; one entry stays unused
    MaxBuffers,         \* bound: device memory is exhausted after so many
    MaxRecords          \* bound on the tasks recorded

None == 0
Buffers == 1 .. MaxBuffers
NumCores == Cardinality(Cores)
NumThreads == Cardinality(Threads)
Slots == 0 .. SlotCount - 1

VARIABLES
    host,       \* the thread of DeviceRunner::run: pc, and whether the device answered
    allocated,  \* buffers 1..allocated exist (dev_to_host_ maps them)
    freed,      \* buffer -> how often it was freed
    recs,       \* buffer -> its records; count is their number
    fq,         \* core -> its free queue: buffer_ptrs, head, tail
    cur,        \* core -> current_buf_ptr
    total, dropped,   \* core -> total_record_count, dropped_record_count
    dev,        \* core -> where its AICPU thread is with it
    hung,       \* the AICPU stopped answering
    readyq,     \* thread -> its ready queue in shared memory (L1)
    mgmt,       \* the mgmt thread: pc, loop index, the entry in hand
    ready,      \* ready_queue_ (L2): mgmt to collector
    done,       \* done_queue_: collector to mgmt
    recycled,   \* recycled_[0], a stack
    coll,       \* the collector thread: pc, the buffer in hand
    csv,        \* core -> the records written for it
    mgmt_running, execution_complete,
    overrun,    \* history: a free queue that is still popped was overfilled
    lost        \* history: buffers that no queue and no pointer names any more

pool == <<allocated, recycled>>
devvars == <<cur, total, dropped, dev, hung>>
hist == <<overrun, lost>>
vars == <<host, allocated, freed, recs, fq, cur, total, dropped, dev, hung, readyq, mgmt,
          ready, done, recycled, coll, csv, mgmt_running, execution_complete, overrun, lost>>

NoEntry == [core |-> 0, buf |-> None]
Used(c) == fq[c].tail - fq[c].head
Parked(c) == {fq[c].ptrs[(fq[c].head + i) % SlotCount] : i \in 0 .. Min({Used(c), SlotCount}) - 1}

SumOver(f) == MapThenSumSet(LAMBDA c : f[c], Cores)

EmptyQueue == [ptrs |-> [i \in Slots |-> None], head |-> 0, tail |-> 0]

Init ==
    /\ host = [pc |-> "new", synced |-> FALSE]
    /\ allocated = 0
    /\ freed = [b \in Buffers |-> 0]
    /\ recs = [b \in Buffers |-> <<>>]
    /\ fq = [c \in Cores |-> EmptyQueue]
    /\ cur = [c \in Cores |-> None]
    /\ total = [c \in Cores |-> 0] /\ dropped = [c \in Cores |-> 0]
    /\ dev = [c \in Cores |-> "off"]
    /\ hung = FALSE
    /\ readyq = [t \in Threads |-> <<>>]
    /\ mgmt = [pc |-> "off", i |-> 1, final |-> FALSE, entry |-> NoEntry]
    /\ ready = <<>> /\ done = <<>> /\ recycled = <<>>
    /\ coll = [pc |-> "off", info |-> NoEntry]
    /\ csv = [c \in Cores |-> <<>>]
    /\ mgmt_running = FALSE /\ execution_complete = FALSE
    /\ overrun = FALSE /\ lost = {}

-----------------------------------------------------------------------------
(***************************************************************************)
(* The thread of DeviceRunner::run.                                        *)
(***************************************************************************)
\* PmuCollector::init: the first SlotCount buffers of a core fill its free
\* queue, the others go to the shared pool.
InitQueues ==
    LET First(c) == (c - 1) * BuffersPerCore
        Queued == Min({BuffersPerCore, SlotCount})
    IN  /\ fq' = [c \in Cores |->
                    [ptrs |-> [i \in Slots |-> IF i < Queued THEN First(c) + i + 1 ELSE None],
                     head |-> 0, tail |-> Queued]]
        /\ recycled' = SetToSortSeq({b \in 1 .. NumCores * BuffersPerCore :
                                        (b - 1) % BuffersPerCore >= SlotCount}, <)
        /\ allocated' = NumCores * BuffersPerCore

HostInit ==
    /\ host.pc = "new"
    /\ InitQueues
    /\ host' = [host EXCEPT !.pc = "inited"]
    /\ UNCHANGED <<freed, recs, devvars, readyq, mgmt, ready, done, coll, csv,
                   mgmt_running, execution_complete, hist>>

\* An allocation or registration fails on the way: init returns without freeing
\* what it has, and nothing is finalized.
HostInitFails ==
    /\ host.pc = "new"
    /\ allocated' \in 0 .. NumCores * BuffersPerCore - 1
    /\ host' = [host EXCEPT !.pc = "failed"]
    /\ UNCHANGED <<freed, recs, fq, devvars, readyq, mgmt, ready, done, recycled, coll, csv,
                   mgmt_running, execution_complete, hist>>

\* run() fails between init and start: the guard finalizes what never ran.
NeverStarts ==
    /\ host.pc = "inited"
    /\ host' = [host EXCEPT !.pc = "stopped"]
    /\ UNCHANGED <<pool, freed, recs, fq, devvars, readyq, mgmt, ready, done, coll, csv,
                   mgmt_running, execution_complete, hist>>

\* ProfilerBase::start, then the launch of the kernels.
Start ==
    /\ host.pc = "inited"
    /\ mgmt_running' = TRUE /\ execution_complete' = FALSE
    /\ mgmt' = [mgmt EXCEPT !.pc = "tick"]
    /\ coll' = [coll EXCEPT !.pc = "wait"]
    /\ dev' = [c \in Cores |-> "init"]
    /\ host' = [host EXCEPT !.pc = "sync"]
    /\ UNCHANGED <<pool, freed, recs, fq, cur, total, dropped, hung, readyq, ready, done, csv, hist>>

\* The streams are synchronized, or the wait for them timed out; stop() begins.
Sync ==
    /\ host.pc = "sync"
    /\ hung \/ \A c \in Cores : dev[c] = "flushed"
    /\ mgmt_running' = FALSE
    /\ host' = [pc |-> "joinMgmt", synced |-> ~hung]
    /\ UNCHANGED <<pool, freed, recs, fq, devvars, readyq, mgmt, ready, done, coll, csv,
                   execution_complete, hist>>

JoinMgmt ==
    /\ host.pc = "joinMgmt" /\ mgmt.pc = "exited"
    /\ execution_complete' = TRUE
    /\ host' = [host EXCEPT !.pc = "joinCollector"]
    /\ UNCHANGED <<pool, freed, recs, fq, devvars, readyq, mgmt, ready, done, coll, csv,
                   mgmt_running, hist>>

\* stop() returns; reconcile_counters only reads.
JoinCollector ==
    /\ host.pc = "joinCollector" /\ coll.pc \in {"exited", "gaveUp"}
    /\ host' = [host EXCEPT !.pc = "stopped"]
    /\ UNCHANGED <<pool, freed, recs, fq, devvars, readyq, mgmt, ready, done, coll, csv,
                   mgmt_running, execution_complete, hist>>

\* release_owned_buffers: the pool, the done queue and the ready queue.
Owned == ToSet(recycled) \cup ToSet(done) \cup {ready[i].buf : i \in DOMAIN ready}

\* Then what is parked in shared memory, each pointer once.
InShm == (UNION {Parked(c) \cup {cur[c]} : c \in Cores}) \ {None}


FreeAll ==
    freed' = [b \in Buffers |-> freed[b] + (IF b \in Owned THEN 1 ELSE 0)
                                         + (IF b \in InShm THEN 1 ELSE 0)]

\* PmuCollector::finalize; the shared memory goes last.
Finalize ==
    /\ host.pc = "stopped"
    /\ FreeAll
    /\ ready' = <<>> /\ done' = <<>> /\ recycled' = <<>>
    /\ cur' = [c \in Cores |-> None]
    /\ fq' = [c \in Cores |-> EmptyQueue]
    /\ host' = [host EXCEPT !.pc = "done"]
    /\ UNCHANGED <<allocated, recs, total, dropped, dev, hung, readyq, mgmt, coll, csv,
                   mgmt_running, execution_complete, hist>>

Host == HostInit \/ HostInitFails \/ NeverStarts \/ Start \/ Sync \/ JoinMgmt \/ JoinCollector \/ Finalize

-----------------------------------------------------------------------------
(***************************************************************************)
(* The AICPU threads.                                                      *)
(***************************************************************************)
Siblings(c) == {k \in Cores : Owner[k] = Owner[c]}
Running(c) == ~hung /\ (\A k \in Cores : dev[k] \notin {"off", "init"})
                    /\ (\A k \in Siblings(c) : dev[k] # "switch")

\* pmu_aicpu_init: one thread pops the first buffer of every core in turn.
DevInit(c) ==
    /\ ~hung /\ dev[c] = "init" /\ \A k \in 1 .. c - 1 : dev[k] # "init"
    /\ dev' = [dev EXCEPT ![c] = "ready"]
    /\ IF Used(c) = 0 THEN UNCHANGED <<fq, cur, recs>>
       ELSE LET b == fq[c].ptrs[fq[c].head % SlotCount]
            IN  /\ fq' = [fq EXCEPT ![c].head = @ + 1]
                /\ cur' = [cur EXCEPT ![c] = b]
                /\ recs' = [recs EXCEPT ![b] = <<>>]
    /\ UNCHANGED <<total, dropped, hung, readyq, lost>>

\* enqueue_pmu_ready_buffer fails when the next tail would meet the head.
HasRoom(t) == Len(readyq[t]) < ReadyQueueSize - 1

Enqueue(c) == readyq' = [readyq EXCEPT ![Owner[c]] = Append(@, [core |-> c, buf |-> cur[c]])]

Rec(c) == <<c, total[c] + 1>>

\* pmu_aicpu_record_task up to the hand-over of a full buffer.  Without a free
\* buffer, or room in the ready queue, the current one is overwritten.
Record(c) ==
    /\ Running(c) /\ dev[c] = "ready" /\ SumOver(total) < MaxRecords
    /\ \A k \in Siblings(c) : dev[k] # "flushed"
    /\ total' = [total EXCEPT ![c] = @ + 1]
    /\ IF cur[c] = None
         THEN dropped' = [dropped EXCEPT ![c] = @ + 1] /\ UNCHANGED <<recs, readyq, dev>>
         ELSE \/ /\ Len(recs[cur[c]]) < RecordsPerBuffer
                 /\ recs' = [recs EXCEPT ![cur[c]] = Append(@, Rec(c))]
                 /\ UNCHANGED <<dropped, readyq, dev>>
              \/ /\ Len(recs[cur[c]]) >= RecordsPerBuffer
                 /\ Used(c) # 0 /\ HasRoom(Owner[c])
                 /\ Enqueue(c)
                 /\ dev' = [dev EXCEPT ![c] = "switch"]
                 /\ UNCHANGED <<dropped, recs>>
              \/ /\ Len(recs[cur[c]]) >= RecordsPerBuffer
                 /\ ~(Used(c) # 0 /\ HasRoom(Owner[c]))
                 /\ dropped' = [dropped EXCEPT ![c] = @ + Len(recs[cur[c]])]
                 /\ recs' = [recs EXCEPT ![cur[c]] = <<Rec(c)>>]
                 /\ UNCHANGED <<readyq, dev>>
    /\ UNCHANGED <<fq, cur, hung, lost>>

\* Mutant: the head is left where it was.
SwitchPopPeek(c) ==
    /\ ~hung /\ dev[c] = "switch"
    /\ LET b == fq[c].ptrs[fq[c].head % SlotCount]
       IN  /\ cur' = [cur EXCEPT ![c] = b]
           /\ recs' = [recs EXCEPT ![b] = <<<<c, total[c]>>>>]
    /\ dev' = [dev EXCEPT ![c] = "ready"]
    /\ UNCHANGED <<fq, total, dropped, hung, readyq, lost>>

\* The rest of pmu_switch_buffer, and the record that asked for it.
SwitchPop(c) ==
    /\ ~hung /\ dev[c] = "switch"
    /\ LET b == fq[c].ptrs[fq[c].head % SlotCount]
       IN  /\ fq' = [fq EXCEPT ![c].head = @ + 1]
           /\ cur' = [cur EXCEPT ![c] = b]
           /\ recs' = [recs EXCEPT ![b] = <<<<c, total[c]>>>>]
    /\ dev' = [dev EXCEPT ![c] = "ready"]
    /\ UNCHANGED <<total, dropped, hung, readyq, lost>>

\* Mutant: what the full ready queue refuses is not counted.
FlushUncounted(c) ==
    /\ Running(c) /\ dev[c] = "ready"
    /\ dev' = [dev EXCEPT ![c] = "flushed"]
    /\ IF cur[c] = None \/ recs[cur[c]] = <<>> THEN UNCHANGED <<cur, readyq, lost>>
       ELSE /\ cur' = [cur EXCEPT ![c] = None]
            /\ IF HasRoom(Owner[c]) THEN Enqueue(c) /\ UNCHANGED lost
               ELSE lost' = lost \cup {cur[c]} /\ UNCHANGED readyq
    /\ UNCHANGED <<fq, recs, total, dropped, hung>>

\* pmu_aicpu_flush_buffers, core by core, when the thread has left its loop.
Flush(c) ==
    /\ Running(c) /\ dev[c] = "ready"
    /\ dev' = [dev EXCEPT ![c] = "flushed"]
    /\ IF cur[c] = None \/ recs[cur[c]] = <<>> THEN UNCHANGED <<cur, readyq, dropped, recs, lost>>
       ELSE /\ cur' = [cur EXCEPT ![c] = None]
            /\ IF HasRoom(Owner[c]) THEN Enqueue(c) /\ UNCHANGED <<dropped, recs, lost>>
               ELSE /\ dropped' = [dropped EXCEPT ![c] = @ + Len(recs[cur[c]])]
                    /\ recs' = [recs EXCEPT ![cur[c]] = <<>>]
                    /\ lost' = lost \cup {cur[c]}
                    /\ UNCHANGED readyq
    /\ UNCHANGED <<fq, total, hung>>

\* The device stops for good; the host sees a stream that does not end.
Hang ==
    /\ host.pc = "sync" /\ ~hung
    /\ hung' = TRUE
    /\ UNCHANGED <<fq, recs, cur, total, dropped, dev, readyq, lost>>

Device ==
    /\ Hang \/ \E c \in Cores : DevInit(c) \/ Record(c) \/ SwitchPop(c) \/ Flush(c)
    /\ UNCHANGED <<host, pool, freed, mgmt, ready, done, coll, csv, mgmt_running,
                   execution_complete, overrun>>

-----------------------------------------------------------------------------
(***************************************************************************)
(* The mgmt thread.                                                        *)
(***************************************************************************)
BatchSize == Max({BuffersPerCore - SlotCount, 1})

\* Of a queue q; the producer trusts its caller that a slot is free.
PushTo(q, b) == [q EXCEPT !.ptrs[q.tail % SlotCount] = b, !.tail = @ + 1]

\* drain_done_into_recycled, and the top of the loop.
MgmtTick ==
    /\ mgmt.pc = "tick"
    /\ mgmt' = [mgmt EXCEPT !.pc = "pop", !.i = 1, !.final = ~mgmt_running]
    /\ IF mgmt_running THEN recycled' = recycled \o done /\ done' = <<>>
                       ELSE UNCHANGED <<recycled, done>>
    /\ UNCHANGED <<allocated, fq, readyq, ready, hist>>

AfterQueue(i) == IF i < NumThreads THEN [mgmt EXCEPT !.i = i + 1]
                 ELSE [mgmt EXCEPT !.pc = IF mgmt.final THEN "exited" ELSE "top", !.i = 1]

\* try_pop_aicpu_entry on the queue at hand, until it is empty.
MgmtPop ==
    /\ mgmt.pc = "pop"
    /\ IF readyq[mgmt.i] = <<>> THEN mgmt' = AfterQueue(mgmt.i) /\ UNCHANGED readyq
       ELSE /\ mgmt' = [mgmt EXCEPT !.pc = "entry", !.entry = Head(readyq[mgmt.i])]
            /\ readyq' = [readyq EXCEPT ![mgmt.i] = Tail(@)]
    /\ UNCHANGED <<pool, fq, ready, done, hist>>

\* obtain_buffer: the pool, then what the collector gave back, then a new one.
Obtain(rec, dn) ==
    CASE rec # <<>> -> [buf |-> Last(rec), rec |-> Front(rec), dn |-> dn, alloc |-> allocated]
      [] rec = <<>> /\ dn # <<>> -> [buf |-> Last(dn), rec |-> Front(dn), dn |-> <<>>, alloc |-> allocated]
      [] OTHER -> [buf |-> IF allocated < MaxBuffers THEN allocated + 1 ELSE None,
                   rec |-> <<>>, dn |-> <<>>, alloc |-> Min({allocated + 1, MaxBuffers})]

\* process_entry: one buffer to the free queue of the core, full or not; then
\* the full buffer to the collector.
MgmtProcess ==
    /\ mgmt.pc = "entry"
    /\ mgmt' = [mgmt EXCEPT !.pc = "pop", !.entry = NoEntry]
    /\ LET c == mgmt.entry.core
           o == Obtain(recycled, done)
           over == o.buf # None /\ Used(c) >= SlotCount
       IN  /\ recycled' = o.rec /\ done' = o.dn /\ allocated' = o.alloc
           /\ fq' = IF o.buf = None THEN fq ELSE [fq EXCEPT ![c] = PushTo(@, o.buf)]
           /\ overrun' = (overrun \/ (over /\ dev[c] # "flushed"))
           /\ lost' = IF over THEN lost \cup {fq[c].ptrs[fq[c].tail % SlotCount]} ELSE lost
    /\ ready' = Append(ready, mgmt.entry)
    /\ UNCHANGED readyq

\* One round of top_up_free_queue: a batch is allocated when the pool is dry.
FillOne(s) ==
    LET grown == Min({s.alloc + BatchSize, MaxBuffers})
        p == IF s.rec # <<>> THEN s
             ELSE [s EXCEPT !.rec = [k \in 1 .. grown - s.alloc |-> s.alloc + k], !.alloc = grown]
    IN  IF p.rec = <<>> THEN p
        ELSE [p EXCEPT !.q = PushTo(@, Last(p.rec)), !.rec = Front(p.rec)]

TopUp(c, rec) ==
    LET fill[n \in Nat] == IF n = 0 THEN [q |-> fq[c], rec |-> rec, alloc |-> allocated]
                                    ELSE FillOne(fill[n - 1])
    IN  fill[Max({SlotCount - Used(c), 0})]

\* proactive_replenish: the done queue first, then the cores in order.
MgmtTopUp ==
    /\ mgmt.pc = "top"
    /\ LET s == TopUp(mgmt.i, IF mgmt.i = 1 THEN recycled \o done ELSE recycled)
       IN  /\ fq' = [fq EXCEPT ![mgmt.i] = s.q]
           /\ recycled' = s.rec /\ allocated' = s.alloc
    /\ done' = IF mgmt.i = 1 THEN <<>> ELSE done
    /\ mgmt' = IF mgmt.i < NumCores THEN [mgmt EXCEPT !.i = @ + 1]
                                    ELSE [mgmt EXCEPT !.pc = "tick", !.i = 1]
    /\ UNCHANGED <<readyq, ready, hist>>

Mgmt ==
    /\ MgmtTick \/ MgmtPop \/ MgmtProcess \/ MgmtTopUp
    /\ UNCHANGED <<host, freed, recs, devvars, coll, csv, mgmt_running, execution_complete>>

-----------------------------------------------------------------------------

Take ==
    /\ coll.pc = "wait" /\ ready # <<>>
    /\ coll' = [pc |-> "copy", info |-> Head(ready)]
    /\ ready' = Tail(ready)
    /\ UNCHANGED <<done, csv>>

\* on_buffer_collected writes the records; the base returns the buffer.
Consume ==
    /\ coll.pc = "copy"
    /\ csv' = [csv EXCEPT ![coll.info.core] = @ \o recs[coll.info.buf]]
    /\ done' = Append(done, coll.info.buf)
    /\ coll' = [pc |-> "wait", info |-> NoEntry]
    /\ UNCHANGED ready

\* Mutant: the loop looks at the flag only before it starts to wait.
CollectExitNever ==
    /\ coll.pc = "wait" /\ ready = <<>> /\ execution_complete /\ mgmt_running
    /\ coll' = [coll EXCEPT !.pc = "exited"]
    /\ UNCHANGED <<ready, done, csv>>

CollectExit ==
    /\ coll.pc = "wait" /\ ready = <<>> /\ execution_complete
    /\ coll' = [coll EXCEPT !.pc = "exited"]
    /\ UNCHANGED <<ready, done, csv>>

\* wait_pop_ready times out before the end of the run; what it does next it
\* does whatever has arrived since.
Idle ==
    /\ coll.pc = "wait" /\ ready = <<>> /\ ~execution_complete
    /\ coll' = [coll EXCEPT !.pc = "idle"]
    /\ UNCHANGED <<ready, done, csv>>

WaitAgain ==
    /\ coll.pc = "idle"
    /\ coll' = [coll EXCEPT !.pc = "wait"]
    /\ UNCHANGED <<ready, done, csv>>

\* kIdleTimeoutSec without a buffer: the thread ends for good.
GiveUp ==
    /\ coll.pc = "idle"
    /\ coll' = [coll EXCEPT !.pc = "gaveUp"]
    /\ UNCHANGED <<ready, done, csv>>

Collector(A) ==
    /\ A
    /\ UNCHANGED <<host, pool, freed, recs, fq, devvars, readyq, mgmt, mgmt_running,
                   execution_complete, hist>>

Collect == Collector(Take \/ Consume \/ Idle \/ WaitAgain \/ CollectExit)

Next == Host \/ Device \/ Mgmt \/ Collect \/ Collector(GiveUp)

Spec == Init /\ [][Next]_vars

\* Host threads run; the AICPU goes on or hangs.
FairSpec == Spec /\ WF_vars(Host) /\ WF_vars(Device) /\ WF_vars(Mgmt) /\ WF_vars(Collect)

-----------------------------------------------------------------------------
\* The places of buffer b: every one that may hand it on or write to it.
Places(b) ==
    {<<"free", c>> : c \in {k \in Cores : b \in Parked(k)}}
    \cup {<<"current", c>> : c \in {k \in Cores : cur[k] = b /\ dev[k] # "switch"}}
    \cup (UNION {{<<"L1", t, i>> : i \in {j \in DOMAIN readyq[t] : readyq[t][j].buf = b}} : t \in Threads})
    \cup {<<"L2", i>> : i \in {j \in DOMAIN ready : ready[j].buf = b}}
    \cup {<<"done", i>> : i \in {j \in DOMAIN done : done[j] = b}}
    \cup {<<"pool", i>> : i \in {j \in DOMAIN recycled : recycled[j] = b}}
    \cup (IF mgmt.entry.buf = b THEN {<<"mgmt">>} ELSE {})
    \cup (IF coll.info.buf = b THEN {<<"collector">>} ELSE {})

\* A buffer is in one place at a time: no core writes to a buffer that another
\* core, mgmt or the collector has, as long as no free queue in use overflowed.
OneHolder == ~overrun => \A b \in Buffers : Cardinality(Places(b)) <= 1

\* reconcile_counters: no buffer with records is left behind on the device, and
\* collected + dropped = total.
Leftover == {c \in Cores : cur[c] # None /\ recs[cur[c]] # <<>>}
CountsMatch == SumOver([c \in Cores |-> Len(csv[c])]) + SumOver(dropped) = SumOver(total)

\* The counters reconcile after every run that ended, whatever was dropped,
\* unless a free queue in use overflowed or the collector gave up.
Reconciles ==
    host.pc = "stopped" /\ host.synced /\ coll.pc # "gaveUp" /\ ~overrun =>
        Leftover = {} /\ CountsMatch



\* run() returns from stop and finalize, also when the device hangs.
RunEnds == (host.pc = "sync") ~> (host.pc = "done")

-----------------------------------------------------------------------------
\* A statement of the repository that does not hold in every execution.

\* "total == collected + dropped invariant on host" (pmu_aicpu_record_task).
CountsReconcile ==
    host.pc = "stopped" /\ host.synced /\ coll.pc # "gaveUp" => CountsMatch
=============================================================================
