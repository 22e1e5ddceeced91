------------------------------ MODULE CoreProofs ------------------------------
(***************************************************************************)
(* The theorems about DeviceCores: SlotInv of CoreInvariants holds         *)
(* initially and in every step, whatever the launch, so a core's slots     *)
(* always agree with its tracker bits and its payload buffers are intact.  *)
(* WorkInv holds with it, so a task completes once, after all its blocks.  *)
(***************************************************************************)
EXTENDS DispatchProofs, FiniteSetTheorems, SequenceTheorems, WellFoundedInduction

LEMMA LeastNatural ==
    ASSUME NEW S \in SUBSET Nat, S # {}
    PROVE  Min(S) \in S /\ \A y \in S : Min(S) <= y
<1>1. \E x \in S : \A y \in S : ~(<<y, x>> \in OpToRel(<, Nat))
  BY Zenon, NatLessThanWellFounded, WFMin
<1>2. \E x \in S : \A y \in S : x <= y
  <2>1. PICK x \in S : \A y \in S : ~(<<y, x>> \in OpToRel(<, Nat)) BY Zenon, <1>1
  <2>2. \A y \in S : ~(y < x) BY Zenon, <2>1 DEF OpToRel
  <2>3. \A y \in S : x <= y BY <2>2
  <2> QED BY Zenon, <2>3
<1>3. Min(S) = CHOOSE x \in S : \A y \in S : x <= y BY Zenon DEF Min
<1> QED BY Zenon, <1>2, <1>3

LEMMA TheLibraryFacts == LibraryFacts
<1>1. \A S \in SUBSET Nat : S # {} => Min(S) \in S /\ \A y \in S : Min(S) <= y BY Zenon, LeastNatural
<1>2. \A a, b \in Int : IsFiniteSet(a..b) BY Zenon, FS_Interval
<1>3. ASSUME NEW S, IsFiniteSet(S)
      PROVE  /\ Cardinality(S) \in Nat /\ (Cardinality(S) = 0 <=> S = {})
             /\ \A T \in SUBSET S : IsFiniteSet(T) /\ (Cardinality(T) = Cardinality(S) => T = S)
             /\ \A x : x \notin S => Cardinality(S \cup {x}) = Cardinality(S) + 1
             /\ \A x \in S : Cardinality(S \ {x}) = Cardinality(S) - 1
  <2>1. Cardinality(S) \in Nat BY Zenon, <1>3, FS_CardinalityType
  <2>2. Cardinality(S) = 0 <=> S = {} BY Zenon, <1>3, FS_EmptySet
  <2>3. \A T \in SUBSET S : IsFiniteSet(T) /\ (Cardinality(T) = Cardinality(S) => T = S) BY Zenon, <1>3, FS_Subset
  <2>4. \A x : x \notin S => Cardinality(S \cup {x}) = Cardinality(S) + 1 BY Zenon, <1>3, FS_AddElement
  <2>5. \A x \in S : Cardinality(S \ {x}) = Cardinality(S) - 1 BY Zenon, <1>3, FS_RemoveElement
  <2> QED BY Zenon, <2>1, <2>2, <2>3, <2>4, <2>5
<1>4. \A x : Cardinality({x}) = 1 BY Zenon, FS_Singleton
<1>5. ASSUME NEW S, NEW q \in Seq(S), NEW n \in 1..Len(q)
      PROVE  /\ SubSeq(q, n + 1, Len(q)) \in Seq(S)
             /\ ~(n + 1 <= Len(q)) => SubSeq(q, n + 1, Len(q)) = <<>>
  <2>1. n + 1 \in Int /\ Len(q) \in Int /\ \A i \in n + 1..Len(q) : q[i] \in S OBVIOUS
  <2>2. SubSeq(q, n + 1, Len(q)) \in Seq(S) BY Zenon, <2>1, SubSeqProperties
  <2>3. ~(n + 1 <= Len(q)) => Len(q) < n + 1 BY <2>1
  <2>4. Len(q) < n + 1 => SubSeq(q, n + 1, Len(q)) = <<>> BY Zenon, <2>1, SubSeqEmpty
  <2> QED BY Zenon, <2>2, <2>3, <2>4
<1> QED BY Zenon, <1>1, <1>2, <1>3, <1>4, <1>5 DEF LibraryFacts
-----------------------------------------------------------------------------
\* The clusters are dealt to the scheduler threads.
LEMMA InitialOwners ==
    ASSUME Init
    PROVE  owner \in [0..launch.clusters - 1 -> Threads]
<1>1. ThreadNum \in Nat \ {0, 1} /\ launch.clusters \in Nat BY Zenon, ThreadAssumption, LaunchFacts DEF Init
<1>2. SchedThreads = 0..ThreadNum - 2 BY <1>1 DEF SchedThreads, Threads, Orch
<1>3. Cardinality(SchedThreads) = ThreadNum - 1
  <2>1. 0 \in Int /\ ThreadNum - 2 \in Int /\ ~(0 > ThreadNum - 2) /\ ThreadNum - 2 - 0 + 1 = ThreadNum - 1 BY <1>1
  <2> QED BY Zenon, <1>2, <2>1, FS_Interval
<1>4. \A i \in 0..launch.clusters - 1 : i % (ThreadNum - 1) \in 0..ThreadNum - 1 BY <1>1
<1> QED BY Zenon, <1>3, <1>4 DEF Init, Threads

\* The queues hold every task once.
LEMMA InitialQueues ==
    ASSUME Init
    PROVE  /\ ready \in [Shapes -> Seq(DOMAIN Tasks)]
           /\ \A s \in Shapes : Once(ready[s]) /\ Range(ready[s]) = {k \in DOMAIN Tasks : Tasks[k].shape = s}
<1>1. Len(Tasks) \in Nat /\ DOMAIN Tasks = 1..Len(Tasks) BY Zenon, LaunchFacts DEF Init
<1>2. Orders \subseteq Seq(DOMAIN Tasks)
  <2> SUFFICES ASSUME NEW n \in 0..Len(Tasks), NEW q \in [1..n -> DOMAIN Tasks] PROVE q \in Seq(DOMAIN Tasks)
    BY Zenon DEF Orders
  <2> QED BY <1>1
<1>3. ready \in [Shapes -> Seq(DOMAIN Tasks)] BY Zenon, <1>2 DEF Init
<1>4. ASSUME NEW s \in Shapes PROVE Once(ready[s])
  <2>1. ready[s] \in Seq(DOMAIN Tasks) BY Zenon, <1>3
  <2>2. \A i, j \in DOMAIN ready[s] : i < j => ready[s][i] < ready[s][j] BY Zenon DEF Init, InOrder
  <2> DEFINE q == ready[s]
  <2> HIDE DEF q
  <2>3. ASSUME NEW i \in DOMAIN q, NEW j \in DOMAIN q, q[i] = q[j] PROVE i = j
    <3>1. i \in Nat /\ j \in Nat /\ q[i] \in Nat BY SMTT(20), <1>1, <2>1 DEF q
    <3>2. (i < j => q[i] < q[j]) /\ (j < i => q[j] < q[i]) BY Zenon, <2>2 DEF q
    <3> QED BY SMTT(20), <2>3, <3>1, <3>2
  <2> QED BY Zenon, <2>3 DEF Once, q
<1> QED BY Zenon, <1>3, <1>4 DEF Init, InOrder

LEMMA InitSlotInv ==
    ASSUME Init
    PROVE  SlotInv
<1>1. /\ launch \in Launches /\ \A k \in DOMAIN Tasks : Tasks[k].blocks \in Nat \ {0}
  BY Zenon, LaunchFacts DEF Init
<1>2. /\ IdleId \in Regs /\ ExitSignal \in Regs /\ ExitId \in Regs /\ 0 \in Ids /\ Ids \subseteq Regs
      /\ 0 \notin {IdleId, ExitSignal, ExitId}
  BY SMTT(20), IdAssumption DEF IdleId, ExitId, Regs, Ids
<1>3. NoWork \in Work BY DEF NoWork, Work
<1>4. 1 \in 1..6 /\ 0 \in Nat /\ <<>> \in Seq(DOMAIN Tasks) OBVIOUS
<1> DEFINE s0 == [running |-> NoWork, running_id |-> Invalid, pending |-> NoWork,
                  pending_id |-> Invalid, idle |-> TRUE, occupied |-> FALSE, seq |-> 0]
           k0 == [pc |-> "wait", last |-> IdleId, id |-> IdleId]
           b0 == [i \in {0, 1} |-> NoWork]
           t0 == [pc |-> "init", cores |-> {}, at |-> 1, batch |-> <<>>, block |-> 0, claim |-> 0,
                  turn |-> 0, progress |-> FALSE, released |-> FALSE]
<1>5. /\ s0 \in SlotState /\ k0 \in CoreState /\ b0 \in [{0, 1} -> Work] /\ t0 \in ThreadState
  BY Zenon, <1>2, <1>3, <1>4 DEF SlotState, CoreState, ThreadState
<1>6. /\ slot = [c \in Cores |-> s0] /\ core = [c \in Cores |-> k0] /\ buffer = [c \in Cores |-> b0]
      /\ th = [t \in Threads |-> t0] /\ cond = [c \in Cores |-> <<ExitId, "FIN">>]
  BY Zenon DEF Init
<1>7. PICK v \in {IdleId, ExitSignal} : data = [c \in Cores |-> v] BY Zenon DEF Init
<1>8. CoreOK(v, <<ExitId, "FIN">>, k0, s0, b0)
  <2>1. <<ExitId, "FIN">>[1] = ExitId OBVIOUS
  <2> QED BY Zenon, <1>2, <1>7, <2>1 DEF CoreOK, Free
<1>9. ctl \in CtlState /\ ~ctl.reassigned /\ ctl.waiting = 0 BY Zenon, <1>4 DEF Init, CtlState
<1>10. t0.pc = "init" OBVIOUS
<1> HIDE DEF s0, k0, b0, t0
<1>11. \A t \in Threads : th[t].pc = "init" BY Zenon, <1>6, <1>10
<1>12. TypeOK
  <2>1. data \in [Cores -> Regs] BY Zenon, <1>2, <1>7
  <2>2. cond \in [Cores -> Regs \X {"ACK", "FIN"}] BY Zenon, <1>2, <1>6
  <2>3. next \in [DOMAIN Tasks -> Nat] BY Zenon, <1>4 DEF Init
  <2> QED BY Zenon, <1>1, <1>5, <1>6, <1>9, <2>1, <2>2, <2>3, InitialOwners, InitialQueues DEF TypeOK
<1>13. CoresOK BY Zenon, <1>6, <1>7, <1>8 DEF CoresOK
<1>14. ThreadsOK
  BY Zenon, <1>11 DEF ThreadsOK, ChosenOK, BatchOK, PollingOK, AwaitingOK, Dispatching
<1>15. QueuesOK
  <2>1. \A t \in Threads : Held[t] = {} BY Zenon, <1>11 DEF Held, HeldBy
  <2>2. \A k \in DOMAIN Tasks : next[k] < Tasks[k].blocks /\ next[k] <= Tasks[k].blocks
    <3> TAKE k \in DOMAIN Tasks
    <3>1. next[k] = 0 /\ Tasks[k].blocks \in Nat \ {0} BY Zenon, <1>1 DEF Init
    <3> QED BY <3>1
  <2> QED BY Zenon, <2>1, <2>2, InitialQueues DEF QueuesOK, QueuesFit
<1>16. HandOverOK
  <2>1. Waiting = {} BY Zenon, <1>11, ThreadFacts DEF Waiting
  <2>2. Cardinality(Waiting) = 0 BY Zenon, <2>1, FS_EmptySet
  <2> QED BY Zenon, <1>9, <1>11, <2>2, ThreadFacts DEF HandOverOK, OrchPcs, LoopPcs
<1> QED BY Zenon, <1>12, <1>13, <1>14, <1>15, <1>16 DEF SlotInv

LEMMA ThreadStepKeeps ==
    ASSUME SlotInv, NEW t \in Threads, ThreadNext(t)
    PROVE  SlotInv'
<1>1. launch' = launch BY Zenon DEF ThreadNext
<1>2. CASE LoopTop(t) BY Zenon, <1>1, <1>2, LoopTopKeeps, TheLibraryFacts
<1>3. CASE Transition(t) BY Zenon, <1>1, <1>3, TransitionKeeps
<1>4. CASE Poll(t) BY Zenon, <1>1, <1>4, PollKeeps, TheLibraryFacts
<1>5. CASE PopBatch(t) BY Zenon, <1>1, <1>5, PopBatchKeeps, TheLibraryFacts
<1>6. CASE ClaimBlocks(t) BY Zenon, <1>1, <1>6, ClaimBlocksKeeps, TheLibraryFacts
<1>7. CASE Send(t) BY Zenon, <1>1, <1>7, SendKeeps, TheLibraryFacts
<1>8. CASE LoopEnd(t) BY Zenon, <1>1, <1>8, LoopEndKeeps
<1>9. CASE SendExit(t) BY Zenon, <1>1, <1>9, SendExitKeeps, TheLibraryFacts
<1>10. CASE AwaitExit(t) BY Zenon, <1>1, <1>10, AwaitKeeps, TheLibraryFacts
<1> QED BY Zenon, <1>2, <1>3, <1>4, <1>5, <1>6, <1>7, <1>8, <1>9, <1>10 DEF ThreadNext

LEMMA FailureKeeps ==
    ASSUME SlotInv, Failure
    PROVE  SlotInv'
<1>1. launch' = launch BY Zenon DEF Failure
<1>2. CASE OrchFatal BY Zenon, <1>1, <1>2, OrchKeeps
<1>3. ASSUME NEW t \in Threads, handle_timeout_exit(t) PROVE SlotInv' BY Zenon, <1>1, <1>3, LoopEndKeeps
<1>4. ASSUME NEW t \in Threads, AwaitTimeOut(t) PROVE SlotInv' BY Zenon, <1>1, <1>4, AwaitKeeps, TheLibraryFacts
<1> QED BY Zenon, <1>2, <1>3, <1>4 DEF Failure

LEMMA NextSlotInv ==
    ASSUME SlotInv, [Next]_vars
    PROVE  SlotInv'
<1>1. ASSUME NEW c \in Cores, AicoreNext(c) PROVE SlotInv' BY Zenon, <1>1, AicoreStepKeeps DEF SlotInv
<1>2. CASE InitNext BY Zenon, <1>2, InitStepKeeps DEF SlotInv
<1>3. CASE OrchNext
  <2>1. launch' = launch BY Zenon, <1>3 DEF OrchNext
  <2>2. CASE OrchDone \/ RequestTransition BY Zenon, <2>1, <2>2, OrchKeeps
  <2>3. CASE Reassign BY Zenon, <2>1, <2>3, ReassignKeeps, TheLibraryFacts
  <2> QED BY Zenon, <1>3, <2>2, <2>3 DEF OrchNext
<1>4. CASE Failure BY Zenon, <1>4, FailureKeeps
<1>5. ASSUME NEW t \in Threads, ThreadNext(t) PROVE SlotInv' BY Zenon, <1>5, ThreadStepKeeps
<1>6. CASE UNCHANGED vars
  <2>1. /\ UNCHANGED <<launch, cond, core, slot, buffer, owner, th, ready, next, ctl>>
        /\ data' = data
    BY Zenon, <1>6 DEF vars
  <2>2. data' \in [Cores -> Regs] /\ \A c \in Cores : data'[c] \in {data[c], IdleId, ExitSignal}
    BY Zenon, <2>1 DEF SlotInv, TypeOK
  <2> QED BY Zenon, <2>1, <2>2, RegisterKeeps DEF SlotInv
<1> QED BY Zenon, <1>1, <1>2, <1>3, <1>4, <1>5, <1>6 DEF Next

LEMMA SlotInvariant == Spec => []SlotInv
<1>1. Init => SlotInv BY Zenon, InitSlotInv
<1>2. SlotInv /\ [Next]_vars => SlotInv' BY Zenon, NextSlotInv
<1> QED BY <1>1, <1>2, PTL DEF Spec
-----------------------------------------------------------------------------
LEMMA SlotInvAgrees ==
    ASSUME SlotInv
    PROVE  SlotsAgree /\ PayloadIntact
<1>1. ASSUME NEW c \in Cores PROVE Agrees(core[c], slot[c], buffer[c])
  <2>1. /\ OneCore(data[c], cond[c], core[c], slot[c], buffer[c])
        /\ CoreOK(data[c], cond[c], core[c], slot[c], buffer[c])
    BY Zenon DEF SlotInv, TypeOK, OneCore, CoresOK
  <2> QED BY Zenon, <2>1, AgreeOne
<1>2. SlotsAgree BY Zenon, <1>1 DEF SlotsAgree, Agrees
<1>3. PayloadIntact BY Zenon, <1>1 DEF PayloadIntact, Agrees
<1> QED BY Zenon, <1>2, <1>3

\* The bits of the core tracker and the two slots of a core never disagree, whatever the
\* launch, the number of threads and clusters and the width of a task id: what
\* get_idle_core_offset_states and get_pending_core_offset_states rely on, across
\* decide_slot_transition, dispatch_subtask_to_core and reassign_cores_for_all_threads.
THEOREM SlotsAlwaysAgree == Spec => []SlotsAgree
<1>1. SlotInv => SlotsAgree BY Zenon, SlotInvAgrees
<1> QED BY <1>1, SlotInvariant, PTL

\* A kernel always reads the payload that was dispatched under the id it executes: two
\* buffers by the id's parity are enough (dispatch_subtask_to_core, aicore_execute).
THEOREM PayloadsStayIntact == Spec => []PayloadIntact
<1>1. SlotInv => PayloadIntact BY Zenon, SlotInvAgrees
<1> QED BY <1>1, SlotInvariant, PTL
-----------------------------------------------------------------------------
(***************************************************************************)
(* The blocks.                                                             *)
(***************************************************************************)
LEMMA TheBlocksCount ==
    ASSUME launch \in Launches
    PROVE  BlocksCount
<1> SUFFICES ASSUME NEW k \in DOMAIN Tasks
             PROVE  IsFiniteSet(Blocks(k)) /\ Required(k) \in Nat \ {0} /\ Cardinality(Blocks(k)) = Required(k)
  BY Zenon DEF BlocksCount
<1> DEFINE n == Tasks[k].blocks
           K == KindsOf(k)
<1>1. n \in Nat \ {0} BY Zenon, LaunchFacts
<1>2. IsFiniteSet(K) /\ Cardinality(K) \in {1, 2}
  <2>1. CASE Tasks[k].shape # "MIX" BY Zenon, <2>1, FS_Singleton DEF KindsOf
  <2>2. CASE Tasks[k].shape = "MIX"
    <3>1. IsFiniteSet({"AIC"}) /\ Cardinality({"AIC"}) = 1 BY Zenon, FS_Singleton
    <3>2. "AIV" \notin {"AIC"} OBVIOUS
    <3>3. IsFiniteSet({"AIC"} \cup {"AIV"}) /\ Cardinality({"AIC"} \cup {"AIV"}) = Cardinality({"AIC"}) + 1
      BY Zenon, <3>1, <3>2, FS_AddElement
    <3>4. K = {"AIC"} \cup {"AIV"} BY Zenon, <2>2 DEF KindsOf
    <3>5. IsFiniteSet(K) /\ Cardinality(K) = 1 + 1 BY Zenon, <3>1, <3>3, <3>4
    <3> HIDE DEF K
    <3> QED BY <3>5
  <2> QED BY Zenon, <2>1, <2>2
<1>3. IsFiniteSet(0..n - 1) /\ Cardinality(0..n - 1) = n
  <2>1. 0 \in Int /\ n - 1 \in Int /\ ~(0 > n - 1) /\ (n - 1) - 0 + 1 = n BY <1>1
  <2> QED BY Zenon, <2>1, FS_Interval
<1>4. IsFiniteSet(Blocks(k)) /\ Cardinality(Blocks(k)) = n * Cardinality(K)
  BY Zenon, <1>2, <1>3, FS_Product DEF Blocks
<1>5. Required(k) = n * Cardinality(K) BY Zenon DEF Required
<1>6. n * Cardinality(K) \in Nat \ {0}
  <2> DEFINE m == Cardinality(K)
  <2> HIDE DEF m, n
  <2>1. m \in {1, 2} BY Zenon, <1>2 DEF m
  <2>2. n * 1 \in Nat \ {0} /\ n * 2 \in Nat \ {0} BY <1>1
  <2>3. n * m \in Nat \ {0} BY Zenon, <2>1, <2>2
  <2> QED BY Zenon, <2>3 DEF m
<1> QED BY Zenon, <1>4, <1>5, <1>6

\* What a kernel of a launch is.
LEMMA WorksOf ==
    ASSUME launch \in Launches, NEW w \in Works
    PROVE  /\ w = <<w[1], w[2], w[3]>> /\ w[1] \in DOMAIN Tasks /\ w[2] \in Nat /\ w[3] \in Kinds
           /\ <<w[2], w[3]>> \in Blocks(w[1]) /\ <<w[1], w[2]>> \in Work
<1>1. PICK k \in DOMAIN Tasks : w \in {<<k, b, x>> : b \in 0..Tasks[k].blocks - 1, x \in KindsOf(k)} BY DEF Works
<1>2. PICK b \in 0..Tasks[k].blocks - 1, x \in KindsOf(k) : w = <<k, b, x>> BY <1>1
<1>3. w[1] = k /\ w[2] = b /\ w[3] = x BY <1>2
<1>4. Tasks[k].shape \in Shapes /\ Tasks[k].blocks \in Nat /\ k \in 1..Len(Tasks) /\ Len(Tasks) \in Nat BY Zenon, LaunchFacts
<1>5. x \in Kinds BY Zenon, <1>4 DEF KindsOf, Kinds, Shapes
<1>6. b \in Nat /\ k \in Nat BY <1>4
<1>7. <<b, x>> \in Blocks(k) /\ <<k, b>> \in Work BY <1>6 DEF Blocks, Work
<1> QED BY Zenon, <1>2, <1>3, <1>5, <1>6, <1>7

LEMMA InitWorkInv ==
    ASSUME Init
    PROVE  WorkInv
<1>1. launch \in Launches /\ BlocksCount BY Zenon, TheBlocksCount DEF Init
<1>2. \A c \in Cores : slot[c].running = NoWork /\ slot[c].pending = NoWork BY Zenon DEF Init
<1>3. \A c \in Cores : Awaited[c] = {} /\ Passed[c] = {} BY Zenon, <1>2 DEF Awaited, Passed, Waits, Past
<1>4. \A t \in Threads : Claimed[t] = {}
  <2>1. \A t \in Threads : th[t].pc = "init" BY Zenon DEF Init
  <2>2. "init" # "send" OBVIOUS
  <2> QED BY Zenon, <2>1, <2>2 DEF Claimed, ClaimedBy
<1>5. \A p, x : Fit(p, x) => RanOf(ran, p, x) = 0 BY Zenon DEF Init, Fit, RanOf
<1>6. ASSUME NEW p \in Work, NEW x, Fit(p, x) PROVE p \in Unclaimed
  <2>1. <<p[1], p[2], x>>[1] = p[1] OBVIOUS
  <2>2. p[1] \in DOMAIN Tasks BY Zenon, <1>1, <1>6, <2>1, WorksOf DEF Fit
  <2>3. next[p[1]] = 0 BY Zenon, <2>2 DEF Init
  <2>4. p[2] >= next[p[1]] BY <2>3 DEF Work
  <2> QED BY Zenon, <2>2, <2>4 DEF Unclaimed
<1>7. Placed(Unclaimed, Claimed, Awaited, Passed, ran) BY Zenon, <1>3, <1>4, <1>5, <1>6 DEF Placed, Open
<1>8. Counted(ran, Passed, subtasks, finished)
  <2> SUFFICES ASSUME NEW k \in DOMAIN Tasks
               PROVE  /\ subtasks[k] = Cardinality(Gone(ran, Passed, k))
                      /\ finished[k] = IF subtasks[k] >= Required(k) THEN 1 ELSE 0
    BY Zenon DEF Counted
  <2>1. subtasks[k] = 0 /\ finished[k] = 0 BY Zenon DEF Init
  <2>2. \A y \in Blocks(k) : RanOf(ran, <<k, y[1]>>, y[2]) = 0 BY Zenon, <1>1, <1>5, BlockFit
  <2>3. 0 # 1 OBVIOUS
  <2>4. Gone(ran, Passed, k) = {} BY Zenon, <2>2, <2>3 DEF Gone
  <2>5. Cardinality(Gone(ran, Passed, k)) = 0 BY Zenon, <2>4, FS_EmptySet
  <2>6. ~(0 >= Required(k))
    <3>1. Required(k) \in Nat \ {0} BY Zenon, <1>1 DEF BlocksCount
    <3> QED BY <3>1
  <2> QED BY Zenon, <2>1, <2>5, <2>6
<1>9. HistoryOK
  <2>1. 0 \in Nat OBVIOUS
  <2>2. ran \in [Works -> Nat] /\ subtasks \in [DOMAIN Tasks -> Nat] /\ finished \in [DOMAIN Tasks -> Nat]
    BY Zenon, <2>1 DEF Init
  <2>3. \A c \in Cores : \A i \in {0, 1} : buffer[c][i] = NoWork BY Zenon DEF Init
  <2> QED BY Zenon, <1>2, <2>2, <2>3 DEF HistoryOK, Apart
<1> QED BY Zenon, <1>7, <1>8, <1>9 DEF WorkInv

LEMMA ThreadStepWork ==
    ASSUME SlotInv, SlotInv', WorkInv, NEW t \in Threads, ThreadNext(t)
    PROVE  WorkInv'
<1>1. launch' = launch /\ BlocksCount BY Zenon, TheBlocksCount DEF ThreadNext, SlotInv, TypeOK
<1>2. CASE LoopTop(t) \/ Transition(t) \/ LoopEnd(t) \/ PopBatch(t) BY Zenon, <1>1, <1>2, LoopWork
<1>3. CASE Poll(t) BY Zenon, <1>1, <1>3, PollWork, TheLibraryFacts
<1>4. CASE ClaimBlocks(t) BY Zenon, <1>1, <1>4, ClaimWork
<1>5. CASE Send(t) BY Zenon, <1>1, <1>5, SendWork, TheLibraryFacts
<1>6. CASE SendExit(t) \/ AwaitExit(t) BY Zenon, <1>1, <1>6, ExitWork
<1> QED BY Zenon, <1>2, <1>3, <1>4, <1>5, <1>6 DEF ThreadNext

LEMMA NextWorkInv ==
    ASSUME SlotInv, SlotInv', WorkInv, [Next]_vars
    PROVE  WorkInv'
<1>1. ASSUME NEW c \in Cores, AicoreNext(c) PROVE WorkInv' BY Zenon, <1>1, AicoreWork
<1>2. CASE InitNext BY Zenon, <1>2, InitWork
<1>3. CASE OrchNext
  <2>1. launch' = launch BY Zenon, <1>3 DEF OrchNext
  <2>2. CASE OrchDone \/ RequestTransition BY Zenon, <2>1, <2>2, OrchWork
  <2>3. CASE Reassign BY Zenon, <2>1, <2>3, ReassignWork
  <2> QED BY Zenon, <1>3, <2>2, <2>3 DEF OrchNext
<1>4. CASE Failure
  <2>1. launch' = launch BY Zenon, <1>4 DEF Failure
  <2>2. CASE OrchFatal BY Zenon, <2>1, <2>2, OrchWork
  <2>3. ASSUME NEW t \in Threads, handle_timeout_exit(t) PROVE WorkInv' BY Zenon, <2>1, <2>3, LoopWork
  <2>4. ASSUME NEW t \in Threads, AwaitTimeOut(t) PROVE WorkInv' BY Zenon, <2>1, <2>4, ExitWork
  <2> QED BY Zenon, <1>4, <2>2, <2>3, <2>4 DEF Failure
<1>5. ASSUME NEW t \in Threads, ThreadNext(t) PROVE WorkInv' BY Zenon, <1>5, ThreadStepWork
<1>6. CASE UNCHANGED vars
  <2>1. UNCHANGED <<launch, core, slot, buffer, th, next, subtasks, finished, ran>> BY Zenon, <1>6 DEF vars
  <2>2. \A c \in Cores : Apart(slot[c]) BY Zenon DEF WorkInv, HistoryOK
  <2> QED BY Zenon, <2>1, <2>2, WorkStill
<1> QED BY Zenon, <1>1, <1>2, <1>3, <1>4, <1>5, <1>6 DEF Next

LEMMA WorkInvariant == Spec => []WorkInv
<1>1. Init => WorkInv BY Zenon, InitWorkInv
<1>2. SlotInv /\ SlotInv' /\ WorkInv /\ [Next]_vars => WorkInv' BY Zenon, NextWorkInv
<1> QED BY <1>1, <1>2, SlotInvariant, PTL DEF Spec

LEMMA WorkInvCompletes ==
    ASSUME SlotInv, WorkInv
    PROVE  CompletesAfterItsBlocks
<1>1. /\ TypeOK /\ launch \in Launches /\ BlocksCount /\ Placed(Unclaimed, Claimed, Awaited, Passed, ran)
      /\ Counted(ran, Passed, subtasks, finished)
  BY Zenon, TheBlocksCount DEF SlotInv, TypeOK, WorkInv
<1>2. ASSUME NEW c \in Cores, NEW w \in {slot[c].running, slot[c].pending, buffer[c][0], buffer[c][1]}
      PROVE  w = NoWork \/ <<w[1], w[2], Kind(c)>> \in Works
  <2>1. CASE w \in {buffer[c][0], buffer[c][1]} BY Zenon, <2>1 DEF WorkInv, HistoryOK, Fit
  <2>2. CASE w \in {slot[c].running, slot[c].pending} /\ w # NoWork
    <3>1. w \in Waits(core[c], slot[c]) \/ w \in Past(core[c], slot[c])
      <4>1. CASE w = slot[c].running BY Zenon, <2>2, <4>1 DEF Waits, Past
      <4>2. CASE w = slot[c].pending BY Zenon, <2>2, <4>2 DEF Waits, Past
      <4> QED BY Zenon, <2>2, <4>1, <4>2
    <3>2. w \in Awaited[c] \/ w \in Passed[c] BY Zenon, <3>1 DEF Awaited, Passed
    <3> QED BY Zenon, <1>1, <3>2 DEF Placed, Fit
  <2> QED BY Zenon, <1>2, <2>1, <2>2
<1>3. \A k \in DOMAIN Tasks : next[k] <= Tasks[k].blocks BY Zenon DEF SlotInv, QueuesOK, QueuesFit
<1>4. ASSUME NEW w \in Works
      PROVE  ran[w] \in {0, 1} /\ ran[w] = RanOf(ran, <<w[1], w[2]>>, w[3])
  <2> DEFINE p == <<w[1], w[2]>>
  <2>1. /\ w = <<w[1], w[2], w[3]>> /\ w[3] \in Kinds /\ p \in Work BY Zenon, <1>1, WorksOf
  <2>2. p[1] = w[1] /\ p[2] = w[2] OBVIOUS
  <2>3. Fit(p, w[3]) /\ RanOf(ran, p, w[3]) = ran[w] BY Zenon, <2>1, <2>2 DEF Fit, RanOf
  <2>4. RanOf(ran, p, w[3]) \in {0, 1} BY Zenon, <1>1, <2>1, <2>3 DEF Placed
  <2> QED BY Zenon, <2>3, <2>4
<1>5. \A w \in Works : ran[w] <= 1
  <2>1. 0 <= 1 /\ 1 <= 1 OBVIOUS
  <2> QED BY Zenon, <1>4, <2>1
<1>6. ASSUME NEW k \in DOMAIN Tasks
      PROVE  finished[k] <= 1 /\ (finished[k] = 1 => \A w \in Works : w[1] = k => ran[w] = 1)
  <2>1. finished[k] = IF subtasks[k] >= Required(k) THEN 1 ELSE 0 BY Zenon, <1>1 DEF Counted
  <2>2. finished[k] <= 1 BY <2>1
  <2>3. ASSUME finished[k] = 1, NEW w \in Works, w[1] = k PROVE ran[w] = 1
    <3> DEFINE G == Gone(ran, Passed, k)
    <3>1. subtasks[k] >= Required(k)
      <4>1. 0 # 1 OBVIOUS
      <4> QED BY Zenon, <2>1, <2>3, <4>1
    <3>2. G \in SUBSET Blocks(k) BY Zenon DEF Gone
    <3>3. IsFiniteSet(Blocks(k)) /\ Cardinality(Blocks(k)) = Required(k) /\ Required(k) \in Nat
      BY Zenon, <1>1 DEF BlocksCount
    <3>4. subtasks[k] = Cardinality(G) BY Zenon, <1>1 DEF Counted
    <3>5. IsFiniteSet(G) /\ Cardinality(G) <= Cardinality(Blocks(k)) /\ Cardinality(G) \in Nat
      BY Zenon, <3>2, <3>3, FS_Subset, FS_CardinalityType
    <3> HIDE DEF G
    <3>6. Cardinality(Blocks(k)) = Cardinality(G) BY <3>1, <3>3, <3>4, <3>5
    <3>7. Blocks(k) = G BY Zenon, <3>2, <3>3, <3>6, FS_Subset
    <3>8. <<w[2], w[3]>> \in G BY Zenon, <1>1, <2>3, <3>7, WorksOf
    <3>9. <<w[2], w[3]>>[1] = w[2] /\ <<w[2], w[3]>>[2] = w[3] OBVIOUS
    <3>10. RanOf(ran, <<k, w[2]>>, w[3]) = 1 BY Zenon, <3>8, <3>9 DEF G, Gone
    <3> QED BY Zenon, <1>4, <2>3, <3>10
  <2> QED BY Zenon, <2>2, <2>3
<1> QED BY Zenon, <1>2, <1>3, <1>5, <1>6 DEF CompletesAfterItsBlocks

\* Whatever the launch, however the threads and cores interleave and wherever it fails, no
\* kernel of a block runs twice, and a task is completed at most once and only after each of
\* its blocks ran on a core of each of its kinds: the count that complete_slot_task keeps
\* under on_subtask_complete reaches its total with the last one, never before.
THEOREM TasksCompleteAfterTheirBlocks == Spec => []CompletesAfterItsBlocks
<1>1. SlotInv /\ WorkInv => CompletesAfterItsBlocks BY Zenon, WorkInvCompletes
<1> QED BY <1>1, SlotInvariant, WorkInvariant, PTL
=============================================================================
