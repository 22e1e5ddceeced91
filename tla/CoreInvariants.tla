---------------------------- MODULE CoreInvariants ----------------------------
(***************************************************************************)
(* Proofs about DeviceCores: what a core's slots, registers and payload    *)
(* buffers say of each other (SlotInv), and where each block of a task is  *)
(* (WorkInv), for any number of threads and clusters, any tasks and any    *)
(* width of the task id.                                                   *)
(***************************************************************************)
EXTENDS DeviceCores, TLAPS

Ids == 0..ExitSignal - 1
Regs == 0..TaskIdMask
Work == Nat \X Nat

CoreState == [pc : {"wait", "regs", "loop", "exec", "exited"}, last : Regs, id : Regs]
SlotState == [running : Work, running_id : Ids \cup {Invalid}, pending : Work, pending_id : Ids \cup {Invalid},
              idle : BOOLEAN, occupied : BOOLEAN, seq : Ids]
OrchPcs == {"orch", "orch_done", "orch_wait"}
ExitPcs == {"emergency", "await_all", "deinit", "await", "done"}
LoopPcs == {"top", "transition", "poll", "shape", "batch", "send"}
ThreadState == [pc : {"init"} \cup OrchPcs \cup ExitPcs \cup LoopPcs, cores : SUBSET Cores, at : 1..6,
                batch : Seq(DOMAIN Tasks), block : Nat, claim : Nat, turn : Nat, progress : BOOLEAN,
                released : BOOLEAN]

CtlState == [completed : BOOLEAN, tasks : Nat, error : BOOLEAN, orch_done : BOOLEAN,
             requested : BOOLEAN, waiting : Nat, reassigned : BOOLEAN]

\* The variables' types.
TypeOK ==
    /\ launch \in Launches
    /\ data \in [Cores -> Regs] /\ cond \in [Cores -> Regs \X {"ACK", "FIN"}]
    /\ core \in [Cores -> CoreState] /\ slot \in [Cores -> SlotState]
    /\ buffer \in [Cores -> [{0, 1} -> Work]]
    /\ owner \in [0..launch.clusters - 1 -> Threads]
    /\ th \in [Threads -> ThreadState]
    /\ ready \in [Shapes -> Seq(DOMAIN Tasks)] /\ next \in [DOMAIN Tasks -> Nat]
    /\ ctl \in CtlState
-----------------------------------------------------------------------------
(***************************************************************************)
(* One core: d its DATA register, q its COND register, k the AICore, s its *)
(* slots, b its buffers.  A dispatched id is not seen yet, in execution or *)
(* ended; a second one is dispatched only once the first was seen.         *)
(***************************************************************************)
Unseen(id, q, k) == k.pc # "exec" /\ q[1] # id /\ k.last \notin {id, NextId(id)}
Executing(id, q, k) == k.pc = "exec" /\ k.id = id /\ q = <<id, "ACK">> /\ k.last \notin {id, NextId(id)}
Ended(id, q, k) == k.pc \in {"loop", "exited"} /\ k.last = id /\ q \in {<<id, "FIN">>, <<ExitId, "FIN">>}

Free(d, q, k, s) ==
    /\ s.running_id = Invalid /\ s.pending_id = Invalid /\ s.running = NoWork /\ s.pending = NoWork
    /\ ~s.occupied /\ k.pc # "exec" /\ k.last \in {s.seq, IdleId}
    /\ d = s.seq => k.last = s.seq
    /\ q[1] \in {s.seq, IdleId, ExitId}

One(q, k, s, b) ==
    /\ s.running_id = s.seq /\ s.running # NoWork /\ b[s.seq % 2] = s.running
    /\ s.pending_id = Invalid /\ s.pending = NoWork
    /\ \/ Unseen(s.seq, q, k) /\ s.occupied
       \/ Executing(s.seq, q, k) \/ Ended(s.seq, q, k)

Two(q, k, s, b) ==
    /\ s.occupied /\ s.running_id \in Ids /\ s.pending_id = NextId(s.running_id) /\ s.pending_id = s.seq
    /\ s.running # NoWork /\ b[s.running_id % 2] = s.running
    /\ s.pending # NoWork /\ b[s.pending_id % 2] = s.pending
    /\ \/ Executing(s.running_id, q, k) \/ Ended(s.running_id, q, k)
       \/ Executing(s.pending_id, q, k) /\ k.last = s.running_id
       \/ Ended(s.pending_id, q, k)

CoreOK(d, q, k, s, b) ==
    /\ d \in {IdleId, ExitSignal, s.seq}
    /\ IF s.idle THEN Free(d, q, k, s) ELSE One(q, k, s, b) \/ Two(q, k, s, b)

CoresOK == \A c \in Cores : CoreOK(data[c], cond[c], core[c], slot[c], buffer[c])
-----------------------------------------------------------------------------
(***************************************************************************)
(* The threads.  A core chosen by a pass stays fit for it until it is      *)
(* dispatched to, because only its owner touches its slots.                *)
(***************************************************************************)
Targets(c, shape) == IF shape = "MIX" THEN {c, c + 1} ELSE {c}
Fits(s, p) == IF p % 2 = 1 THEN s.idle ELSE ~s.occupied
Dispatching(t) == th[t].pc \in {"batch", "send"}

ChosenOK(t) ==
    Dispatching(t) => \A c \in th[t].cores :
        LET shape == ShapeAt(t, th[t].at) IN
          /\ Kind(c) = (IF shape = "MIX" THEN "AIC" ELSE shape)
          /\ Targets(c, shape) \subseteq Owned(t)
          /\ \A d \in Targets(c, shape) : Fits(slot[d], th[t].at)

Once(q) == \A i, j \in DOMAIN q : q[i] = q[j] => i = j

\* The tasks of a batch are of the pass's shape; in "send" the first one has a claim.
BatchOK(t) ==
    /\ Dispatching(t) => /\ th[t].batch # <<>> /\ Once(th[t].batch)
                         /\ \A i \in DOMAIN th[t].batch : Tasks[th[t].batch[i]].shape = ShapeAt(t, th[t].at)
    /\ th[t].pc = "send" => th[t].claim \in 1..Cardinality(th[t].cores)

\* A polling thread has a core of its own left.
PollingOK(t) == th[t].pc = "poll" => th[t].cores # {} /\ th[t].cores \subseteq Owned(t)

\* A thread that shuts cores down has one left while it waits.
AwaitingOK(t) == th[t].pc \in {"await", "await_all"} => th[t].cores # {}

ThreadsOK == \A t \in Threads : ChosenOK(t) /\ BatchOK(t) /\ PollingOK(t) /\ AwaitingOK(t)

\* A task with blocks left is in one queue or one batch, once.  rd are the queues, nx the
\* next blocks, hd what the threads hold.
HeldBy(x) == IF x.pc = "batch" THEN {x.batch[i] : i \in 1..Len(x.batch)}
             ELSE IF x.pc = "send" THEN {x.batch[i] : i \in 2..Len(x.batch)} ELSE {}
Held == [t \in Threads |-> HeldBy(th[t])]

QueuesFit(rd, nx, hd, tasks) ==
    /\ \A s \in Shapes : /\ Once(rd[s])
                         /\ \A k \in Range(rd[s]) : nx[k] < tasks[k].blocks /\ tasks[k].shape = s
    /\ \A t \in Threads : \A k \in hd[t] : /\ nx[k] < tasks[k].blocks
                                           /\ \A s \in Shapes : k \notin Range(rd[s])
                                           /\ \A u \in Threads : k \in hd[u] => u = t
    /\ \A k \in DOMAIN tasks : nx[k] <= tasks[k].blocks

QueuesOK == QueuesFit(ready, next, Held, Tasks)

\* The hand-over: all scheduler threads wait when the cores are dealt anew.
Waiting == {t \in SchedThreads : th[t].pc = "transition"}
HandOverOK ==
    /\ ~ctl.completed /\ ~ctl.reassigned => ctl.waiting = Cardinality(Waiting)
    /\ th[Orch].pc \in {"init"} \cup OrchPcs => ~ctl.reassigned
    /\ th[Orch].pc \in LoopPcs => ctl.reassigned
    /\ \A t \in SchedThreads : th[t].pc \notin OrchPcs

SlotInv == TypeOK /\ CoresOK /\ ThreadsOK /\ QueuesOK /\ HandOverOK
-----------------------------------------------------------------------------
\* What the lemmas use of the library's theorems on natural numbers, finite sets and
\* sequences.  CoreProofs proves it from them; here it is a hypothesis, which keeps the
\* library out of the provers' context.
LibraryFacts ==
    /\ \A S \in SUBSET Nat : S # {} => Min(S) \in S /\ \A y \in S : Min(S) <= y
    /\ \A a, b \in Int : IsFiniteSet(a..b)
    /\ \A S : IsFiniteSet(S) =>
         /\ Cardinality(S) \in Nat /\ (Cardinality(S) = 0 <=> S = {})
         /\ \A T \in SUBSET S : IsFiniteSet(T) /\ (Cardinality(T) = Cardinality(S) => T = S)
         /\ \A x : x \notin S => Cardinality(S \cup {x}) = Cardinality(S) + 1
         /\ \A x \in S : Cardinality(S \ {x}) = Cardinality(S) - 1
    /\ \A x : Cardinality({x}) = 1
    /\ \A S : \A q \in Seq(S) : \A n \in 1..Len(q) :
         /\ SubSeq(q, n + 1, Len(q)) \in Seq(S)
         /\ ~(n + 1 <= Len(q)) => SubSeq(q, n + 1, Len(q)) = <<>>
-----------------------------------------------------------------------------
(***************************************************************************)
(* Ids.                                                                    *)
(***************************************************************************)
\* The next id is another one, of the other parity, and so is the one after it; the reserved
\* values of the registers are not ids.
LEMMA NextIdFacts ==
    ASSUME NEW i \in Ids
    PROVE  /\ NextId(i) \in Ids /\ NextId(i) # i /\ NextId(NextId(i)) # i
           /\ i % 2 \in {0, 1} /\ NextId(i) % 2 = 1 - (i % 2)
<1>1. TaskIdMask \in Nat /\ ExitSignal \in 3..TaskIdMask - 3 /\ ExitSignal % 2 = 0
  BY IdAssumption
<1>2. ASSUME NEW j \in Ids PROVE NextId(j) = IF j + 1 >= ExitSignal THEN 0 ELSE j + 1
  <2>1. j + 1 \in 0..TaskIdMask BY <1>1 DEF Ids
  <2>2. (j + 1) % (TaskIdMask + 1) = j + 1 BY <1>1, <2>1
  <2> QED BY <1>1, <2>1, <2>2 DEF NextId
<1> QED BY <1>1, <1>2 DEF Ids

LEMMA ReservedIds ==
    /\ Ids \subseteq Regs /\ Ids \subseteq Nat /\ 0 \in Ids
    /\ IdleId \in Regs /\ ExitId \in Regs /\ ExitSignal \in Regs
    /\ IdleId # ExitId /\ IdleId # ExitSignal /\ ExitId # ExitSignal
    /\ IdleId \notin Ids /\ ExitId \notin Ids /\ ExitSignal \notin Ids /\ Invalid \notin Ids
BY IdAssumption DEF Ids, Regs, IdleId, ExitId, Invalid
-----------------------------------------------------------------------------
(***************************************************************************)
(* What each operation makes of one core.                                  *)
(***************************************************************************)
\* The state of one core, typed.
OneCore(d, q, k, s, b) ==
    d \in Regs /\ q \in Regs \X {"ACK", "FIN"} /\ k \in CoreState /\ s \in SlotState /\ b \in [{0, 1} -> Work]

\* An exit signal or an idle id in DATA disturbs nothing.
LEMMA ClearData ==
    ASSUME NEW d, NEW q, NEW k, NEW s, NEW b, NEW e \in {IdleId, ExitSignal},
           OneCore(d, q, k, s, b), CoreOK(d, q, k, s, b)
    PROVE  CoreOK(e, q, k, s, b)
BY Zenon, ReservedIds DEF CoreOK, Free, OneCore, SlotState

LEMMA ReportOne ==
    ASSUME NEW d, NEW q, NEW k, NEW s, NEW b, OneCore(d, q, k, s, b), CoreOK(d, q, k, s, b), k.pc = "wait"
    PROVE  CoreOK(d, q, [k EXCEPT !.pc = "regs"], s, b)
BY Zenon DEF CoreOK, Free, One, Two, Unseen, Executing, Ended, OneCore, CoreState

LEMMA EnterOne ==
    ASSUME NEW d, NEW q, NEW k, NEW s, NEW b, OneCore(d, q, k, s, b), CoreOK(d, q, k, s, b), k.pc = "regs"
    PROVE  CoreOK(d, <<IdleId, "FIN">>, [k EXCEPT !.pc = "loop"], s, b)
BY Zenon, ReservedIds DEF CoreOK, Free, One, Two, Unseen, Executing, Ended, OneCore, CoreState, SlotState

\* A poll finds a task only if one was dispatched and not seen before.
LEMMA AcknowledgeOne ==
    ASSUME NEW d, NEW q, NEW k, NEW s, NEW b, OneCore(d, q, k, s, b), CoreOK(d, q, k, s, b),
           k.pc = "loop", d \notin {ExitSignal, IdleId, k.last}
    PROVE  CoreOK(d, <<d, "ACK">>, [k EXCEPT !.pc = "exec", !.id = d], s, b)
<1> DEFINE kk == [k EXCEPT !.pc = "exec", !.id = d]
<1>1. d = s.seq /\ s.seq \in Ids /\ k.last # s.seq /\ ~s.idle
  BY Zenon DEF CoreOK, Free, OneCore, SlotState
<1>2. kk.pc = "exec" /\ kk.id = d /\ kk.last = k.last
  BY Zenon DEF OneCore, CoreState
<1> HIDE DEF kk
<1>3. CASE One(q, k, s, b)
  <2>1. Unseen(s.seq, q, k) BY Zenon, <1>1, <1>3 DEF One, Executing, Ended
  <2>2. Executing(s.seq, <<d, "ACK">>, kk) BY Zenon, <1>1, <1>2, <2>1 DEF Executing, Unseen
  <2>3. One(<<d, "ACK">>, kk, s, b) BY <2>2, <1>3, Zenon DEF One
  <2> QED BY Zenon, <1>1, <2>3 DEF CoreOK, kk
<1>4. CASE Two(q, k, s, b)
  <2>1. /\ s.running_id \in Ids /\ s.pending_id = NextId(s.running_id) /\ s.pending_id = s.seq
        /\ k.last = s.running_id
    BY Zenon, <1>1, <1>4 DEF Two, Executing, Ended
  <2>2. Executing(s.pending_id, <<d, "ACK">>, kk) /\ kk.last = s.running_id
    BY Zenon, <1>1, <1>2, <2>1, NextIdFacts DEF Executing
  <2>3. Two(<<d, "ACK">>, kk, s, b) BY <2>2, <1>4, Zenon DEF Two
  <2> QED BY Zenon, <1>1, <2>3 DEF CoreOK, kk
<1> QED BY Zenon, <1>1, <1>3, <1>4 DEF CoreOK

LEMMA FinishOne ==
    ASSUME NEW d, NEW q, NEW k, NEW s, NEW b, OneCore(d, q, k, s, b), CoreOK(d, q, k, s, b), k.pc = "exec"
    PROVE  CoreOK(d, <<k.id, "FIN">>, [k EXCEPT !.pc = "loop", !.last = k.id], s, b)
<1> DEFINE kk == [k EXCEPT !.pc = "loop", !.last = k.id]
<1>1. kk.pc = "loop" /\ kk.last = k.id
  BY Zenon DEF OneCore, CoreState
<1> HIDE DEF kk
<1>2. ~s.idle
  BY Zenon DEF CoreOK, Free, OneCore, SlotState
<1>3. CASE One(q, k, s, b)
  <2>1. Ended(s.seq, <<k.id, "FIN">>, kk) BY Zenon, <1>1, <1>3 DEF One, Unseen, Executing, Ended
  <2>2. One(<<k.id, "FIN">>, kk, s, b) BY <2>1, <1>3, Zenon DEF One
  <2> QED BY Zenon, <1>2, <2>2 DEF CoreOK, kk
<1>4. CASE Two(q, k, s, b)
  <2>1. \/ Ended(s.running_id, <<k.id, "FIN">>, kk) \/ Ended(s.pending_id, <<k.id, "FIN">>, kk)
    BY Zenon, <1>1, <1>4 DEF Two, Executing, Ended
  <2>2. Two(<<k.id, "FIN">>, kk, s, b) BY <2>1, <1>4, Zenon DEF Two
  <2> QED BY Zenon, <1>2, <2>2 DEF CoreOK, kk
<1> QED BY Zenon, <1>2, <1>3, <1>4 DEF CoreOK

LEMMA ExitOne ==
    ASSUME NEW d, NEW q, NEW k, NEW s, NEW b, OneCore(d, q, k, s, b), CoreOK(d, q, k, s, b),
           k.pc = "loop"
    PROVE  CoreOK(d, <<ExitId, "FIN">>, [k EXCEPT !.pc = "exited"], s, b)
<1> DEFINE kk == [k EXCEPT !.pc = "exited"]
           qq == <<ExitId, "FIN">>
<1>1. kk.pc = "exited" /\ kk.last = k.last /\ qq[1] = ExitId
  BY Zenon DEF OneCore, CoreState
<1>2. ExitId # s.seq
  BY Zenon, ReservedIds DEF OneCore, SlotState
<1>3. CASE s.idle
  BY Zenon, <1>1, <1>3 DEF CoreOK, Free
<1>4. CASE ~s.idle /\ One(q, k, s, b)
  <2>1. Unseen(s.seq, q, k) => Unseen(s.seq, qq, kk) BY Zenon, <1>1, <1>2 DEF Unseen
  <2>2. Ended(s.seq, q, k) => Ended(s.seq, qq, kk) BY Zenon, <1>1 DEF Ended
  <2>3. ~Executing(s.seq, q, k) BY Zenon DEF Executing
  <2>4. One(qq, kk, s, b) BY <2>1, <2>2, <2>3, <1>4, Zenon DEF One
  <2> QED BY <1>4, <2>4, Zenon DEF CoreOK
<1>5. CASE ~s.idle /\ Two(q, k, s, b)
  <2>1. /\ Ended(s.running_id, q, k) => Ended(s.running_id, qq, kk)
        /\ Ended(s.pending_id, q, k) => Ended(s.pending_id, qq, kk) BY Zenon, <1>1 DEF Ended
  <2>2. \A i : ~Executing(i, q, k) BY Zenon DEF Executing
  <2>3. Two(qq, kk, s, b) BY <2>1, <2>2, <1>5, Zenon DEF Two
  <2> QED BY <1>5, <2>3, Zenon DEF CoreOK
<1> QED BY Zenon, <1>3, <1>4, <1>5 DEF CoreOK

\* What a poll decides: the first id ended, the second one was seen, or the pending slot is free.
LEMMA DecideOne ==
    ASSUME NEW q, NEW s, q \in Regs \X {"ACK", "FIN"}, s \in SlotState
    PROVE  LET d == decide_slot_transition(q, s) IN
           /\ d \in [matched : BOOLEAN, running_done : BOOLEAN, pending_done : BOOLEAN, pending_freed : BOOLEAN]
           /\ s.pending_id # Invalid /\ q[1] = s.pending_id
                => d.matched /\ d.running_done /\ d.pending_freed /\ (d.pending_done <=> q[2] = "FIN")
           /\ s.pending_id = Invalid /\ q = <<s.running_id, "FIN">>
                => d.matched /\ d.running_done /\ ~d.pending_freed /\ ~d.pending_done
           /\ q = <<s.running_id, "ACK">> /\ s.running_id # s.pending_id
                => d.matched /\ ~d.running_done /\ d.pending_freed /\ ~d.pending_done
           /\ q[1] # s.running_id /\ (s.pending_id = Invalid \/ q[1] # s.pending_id) => ~d.matched
           /\ q = <<s.running_id, "FIN">> /\ s.pending_id # Invalid /\ s.running_id # s.pending_id => ~d.matched
           /\ ~d.matched => ~d.running_done /\ ~d.pending_done
<1> DEFINE d == decide_slot_transition(q, s)
<1>1. /\ s.pending_id \in Ids \cup {Invalid} /\ s.running_id \in Ids \cup {Invalid}
      /\ q[1] \in Regs /\ q[2] \in {"ACK", "FIN"} /\ q = <<q[1], q[2]>> /\ q[1] # Invalid
  BY ReservedIds DEF SlotState, Regs, Invalid
<1>2. CASE s.pending_id # Invalid /\ q[1] = s.pending_id
  <2>1. CASE q[2] = "FIN"
    <3>1. d = [matched |-> TRUE, running_done |-> TRUE, pending_done |-> TRUE, pending_freed |-> TRUE]
      BY Zenon, <1>2, <2>1 DEF decide_slot_transition
    <3> QED BY <1>1, <1>2, <2>1, <3>1
  <2>2. CASE q[2] = "ACK"
    <3>1. d = [matched |-> TRUE, running_done |-> TRUE, pending_done |-> FALSE, pending_freed |-> TRUE]
      BY Zenon, <1>2, <2>2 DEF decide_slot_transition
    <3> QED BY <1>1, <1>2, <2>2, <3>1
  <2> QED BY Zenon, <1>1, <2>1, <2>2
<1>3. CASE q[1] = s.running_id /\ q[2] = "FIN" /\ s.pending_id = Invalid
  <2>1. d = [matched |-> TRUE, running_done |-> TRUE, pending_done |-> FALSE, pending_freed |-> FALSE]
    BY Zenon, <1>3 DEF decide_slot_transition
  <2> QED BY <1>1, <1>3, <2>1
<1>4. CASE q[1] = s.running_id /\ q[2] = "ACK" /\ q[1] # s.pending_id
  <2>1. d = [matched |-> TRUE, running_done |-> FALSE, pending_done |-> FALSE, pending_freed |-> TRUE]
    BY Zenon, <1>4 DEF decide_slot_transition
  <2> QED BY <1>1, <1>4, <2>1
<1>5. CASE /\ ~(s.pending_id # Invalid /\ q[1] = s.pending_id)
           /\ ~(q[1] = s.running_id /\ q[2] = "FIN" /\ s.pending_id = Invalid)
           /\ ~(q[1] = s.running_id /\ q[2] = "ACK" /\ q[1] # s.pending_id)
  <2>1. d = [matched |-> FALSE, running_done |-> FALSE, pending_done |-> FALSE, pending_freed |-> FALSE]
    BY Zenon, <1>5 DEF decide_slot_transition
  <2> QED BY <1>1, <1>5, <2>1
<1> QED BY Zenon, <1>2, <1>3, <1>4, <1>5

\* The slots after a transition.
LEMMA ApplyOne ==
    ASSUME NEW s \in SlotState,
           NEW d \in [matched : BOOLEAN, running_done : BOOLEAN, pending_done : BOOLEAN, pending_freed : BOOLEAN]
    PROVE  LET n == ApplyTransition(s, d) IN
           /\ n \in SlotState /\ n.seq = s.seq
           /\ n.idle <=> n.running_id = Invalid
           /\ d.running_done /\ s.pending_id # Invalid /\ ~d.pending_done
                => /\ n.running = s.pending /\ n.running_id = s.pending_id /\ n.pending = NoWork
                   /\ n.pending_id = Invalid
           /\ d.running_done /\ (s.pending_id = Invalid \/ d.pending_done)
                => /\ n.running = NoWork /\ n.running_id = Invalid /\ n.pending = NoWork
                   /\ n.pending_id = Invalid /\ ~n.occupied
           /\ ~d.running_done => /\ n.running = s.running /\ n.running_id = s.running_id
                                 /\ n.pending = s.pending /\ n.pending_id = s.pending_id
                                 /\ n.running_id # Invalid /\ (~d.pending_freed \/ n.pending_id # Invalid)
                                      => n.occupied = s.occupied
<1> DEFINE promoted == [s EXCEPT !.running = s.pending, !.running_id = s.pending_id]
           cleared == [s EXCEPT !.running = NoWork, !.running_id = Invalid]
           freed == IF ~d.running_done THEN s
                    ELSE [(IF s.pending_id # Invalid /\ ~d.pending_done THEN promoted ELSE cleared)
                           EXCEPT !.pending = NoWork, !.pending_id = Invalid]
           idle == freed.running_id = Invalid
           occ == freed.occupied /\ ~idle /\ ~(d.pending_freed /\ freed.pending_id = Invalid)
<1>1. ApplyTransition(s, d) = [freed EXCEPT !.idle = idle, !.occupied = occ]
  BY Zenon DEF ApplyTransition
<1>2. NoWork \in Work BY Zenon DEF NoWork, Work
<1>3. freed \in SlotState /\ freed.seq = s.seq /\ freed.occupied = s.occupied
  BY Zenon, <1>2 DEF SlotState
<1>4. /\ d.running_done /\ s.pending_id # Invalid /\ ~d.pending_done
           => /\ freed.running = s.pending /\ freed.running_id = s.pending_id /\ freed.pending = NoWork
              /\ freed.pending_id = Invalid
      /\ d.running_done /\ (s.pending_id = Invalid \/ d.pending_done)
           => /\ freed.running = NoWork /\ freed.running_id = Invalid /\ freed.pending = NoWork
              /\ freed.pending_id = Invalid
      /\ ~d.running_done => freed = s
  BY Zenon, <1>2 DEF SlotState
<1> HIDE DEF freed
<1> QED BY ZenonT(30), <1>1, <1>3, <1>4 DEF SlotState

LEMMA PollOne ==
    ASSUME NEW d, NEW q, NEW k, NEW s, NEW b, OneCore(d, q, k, s, b), CoreOK(d, q, k, s, b),
           decide_slot_transition(q, s).matched
    PROVE  CoreOK(d, q, k, ApplyTransition(s, decide_slot_transition(q, s)), b)
<1> DEFINE e == decide_slot_transition(q, s)
           n == ApplyTransition(s, e)
<1>1. q \in Regs \X {"ACK", "FIN"} /\ s \in SlotState /\ q[1] \in Regs /\ q[1] # Invalid /\ s.seq \in Ids
  BY ReservedIds DEF OneCore, SlotState, Regs, Invalid
<1>2. n \in SlotState /\ n.seq = s.seq /\ (n.idle <=> n.running_id = Invalid)
  BY Zenon, <1>1, DecideOne, ApplyOne
<1>3. \A i \in Ids : q = <<ExitId, "FIN">> => q[1] # i
  BY ReservedIds
<1>4. ~s.idle
  BY Zenon, <1>1, DecideOne DEF CoreOK, Free
<1>5. CASE One(q, k, s, b)
  <2>1. s.running_id = s.seq /\ s.pending_id = Invalid /\ s.pending = NoWork BY Zenon, <1>5 DEF One
  <2>2. ~Unseen(s.seq, q, k)
    BY Zenon, <1>1, <2>1, DecideOne DEF Unseen
  <2>3. CASE Executing(s.seq, q, k)
    <3>1. /\ n.running = s.running /\ n.running_id = s.running_id
          /\ n.pending = s.pending /\ n.pending_id = s.pending_id
      BY <1>1, <2>1, <2>3, DecideOne, ApplyOne, ReservedIds DEF Executing
    <3>2. ~n.idle BY Zenon, <1>1, <1>2, <2>1, <3>1, ReservedIds
    <3>3. One(q, k, n, b) BY Zenon, <1>2, <3>1, <2>1, <2>3, <1>5 DEF One
    <3> QED BY Zenon, <1>2, <3>2, <3>3 DEF CoreOK
  <2>4. CASE Ended(s.seq, q, k)
    <3>1. q = <<s.running_id, "FIN">> BY Zenon, <1>1, <1>3, <2>1, <2>4, DecideOne DEF Ended
    <3>2. /\ n.running = NoWork /\ n.running_id = Invalid /\ n.pending = NoWork
          /\ n.pending_id = Invalid /\ ~n.occupied
      BY Zenon, <1>1, <2>1, <3>1, DecideOne, ApplyOne
    <3>3. Free(d, q, k, n) BY Zenon, <1>2, <2>1, <2>4, <3>1, <3>2 DEF Free, Ended
    <3> QED BY Zenon, <1>2, <3>2, <3>3 DEF CoreOK
  <2> QED BY Zenon, <1>5, <2>2, <2>3, <2>4 DEF One
<1>6. CASE Two(q, k, s, b)
  <2>1. /\ s.running_id \in Ids /\ s.pending_id = NextId(s.running_id) /\ s.pending_id = s.seq
        /\ s.running_id # s.pending_id /\ s.pending_id # Invalid
    BY Zenon, <1>1, <1>6, NextIdFacts, ReservedIds DEF Two
  <2>2. CASE Executing(s.running_id, q, k)
    <3>1. /\ n.running = s.running /\ n.running_id = s.running_id
          /\ n.pending = s.pending /\ n.pending_id = s.pending_id
      BY <1>1, <2>1, <2>2, DecideOne, ApplyOne DEF Executing
    <3>2. ~n.idle /\ n.occupied = s.occupied
      BY Zenon, <1>1, <1>2, <2>1, <2>2, <3>1, DecideOne, ApplyOne, ReservedIds DEF Executing
    <3>3. Two(q, k, n, b) BY Zenon, <1>2, <3>1, <3>2, <2>2, <1>6 DEF Two
    <3> QED BY Zenon, <1>2, <3>2, <3>3 DEF CoreOK
  <2>3. ~Ended(s.running_id, q, k)
    BY Zenon, <1>1, <1>3, <2>1, DecideOne DEF Ended
  <2>4. CASE Executing(s.pending_id, q, k)
    <3>1. /\ n.running = s.pending /\ n.running_id = s.pending_id /\ n.pending = NoWork
          /\ n.pending_id = Invalid
      BY <1>1, <2>1, <2>4, DecideOne, ApplyOne DEF Executing
    <3>2. One(q, k, n, b) BY Zenon, <1>2, <3>1, <2>1, <2>4, <1>6 DEF One, Two
    <3> QED BY Zenon, <1>2, <2>1, <3>1, <3>2 DEF CoreOK
  <2>5. CASE Ended(s.pending_id, q, k)
    <3>1. q = <<s.pending_id, "FIN">> BY Zenon, <1>1, <1>3, <2>1, <2>5, DecideOne, ReservedIds DEF Ended
    <3>2. /\ n.running = NoWork /\ n.running_id = Invalid /\ n.pending = NoWork
          /\ n.pending_id = Invalid /\ ~n.occupied
      BY <1>1, <2>1, <3>1, DecideOne, ApplyOne
    <3>3. Free(d, q, k, n) BY Zenon, <1>2, <2>1, <2>5, <3>1, <3>2 DEF Free, Ended
    <3> QED BY Zenon, <1>2, <3>2, <3>3 DEF CoreOK
  <2> QED BY Zenon, <1>6, <2>2, <2>3, <2>4, <2>5 DEF Two
<1> QED BY Zenon, <1>4, <1>5, <1>6 DEF CoreOK

\* A block goes to an idle core, or behind a block the core has seen: the buffer it is
\* written to is not the one being read.
LEMMA OccupyPending ==
    ASSUME NEW s \in SlotState, NEW w \in Work
    PROVE  LET n == Occupy(s, w, TRUE) IN
           /\ n \in SlotState /\ n.seq = NextId(s.seq) /\ n.occupied
           /\ n.pending = w /\ n.pending_id = NextId(s.seq) /\ n.running = s.running
           /\ n.running_id = s.running_id /\ (n.idle <=> s.idle)
<1>1. s.seq \in Ids /\ NextId(s.seq) \in Ids BY Zenon, NextIdFacts DEF SlotState
<1> QED BY Zenon, <1>1 DEF Occupy, SlotState

LEMMA OccupyRunning ==
    ASSUME NEW s \in SlotState, NEW w \in Work
    PROVE  LET n == Occupy(s, w, FALSE) IN
           /\ n \in SlotState /\ n.seq = NextId(s.seq) /\ n.occupied
           /\ n.running = w /\ n.running_id = NextId(s.seq) /\ n.pending = s.pending
           /\ n.pending_id = s.pending_id /\ (n.idle <=> ~s.idle)
<1>1. s.seq \in Ids /\ NextId(s.seq) \in Ids BY Zenon, NextIdFacts DEF SlotState
<1> QED BY Zenon, <1>1 DEF Occupy, SlotState

LEMMA SendOne ==
    ASSUME NEW d, NEW q, NEW k, NEW s, NEW b, OneCore(d, q, k, s, b), CoreOK(d, q, k, s, b),
           NEW w \in Work, w # NoWork, NEW p \in 1..6, Fits(s, p)
    PROVE  CoreOK(NextId(s.seq), q, k, Occupy(s, w, p % 2 = 0 /\ ~s.idle), [b EXCEPT ![NextId(s.seq) % 2] = w])
<1> DEFINE id == NextId(s.seq)
           bb == [b EXCEPT ![id % 2] = w]
<1>1. /\ s.seq \in Ids /\ id \in Ids /\ id # s.seq /\ NextId(id) # s.seq /\ id % 2 = 1 - (s.seq % 2)
      /\ s.seq % 2 \in {0, 1} /\ s \in SlotState /\ s.idle \in BOOLEAN /\ id # Invalid /\ NextId(id) \in Ids
  BY Zenon, NextIdFacts, ReservedIds DEF OneCore, SlotState
<1>2. bb[id % 2] = w /\ bb[s.seq % 2] = b[s.seq % 2]
  <2>1. b \in [{0, 1} -> Work] BY Zenon DEF OneCore
  <2>2. \A i, j \in {0, 1} : i = 1 - j => [b EXCEPT ![i] = w][i] = w /\ [b EXCEPT ![i] = w][j] = b[j]
    BY <2>1
  <2>3. id % 2 \in {0, 1} BY <1>1, NextIdFacts, Zenon
  <2> QED BY <1>1, <2>2, <2>3, Zenon
<1> HIDE DEF bb
<1>3. CASE s.idle
  <2> DEFINE n == Occupy(s, w, FALSE)
  <2>1. /\ n.seq = id /\ n.occupied /\ n.running = w /\ n.running_id = id
        /\ n.pending = s.pending /\ n.pending_id = s.pending_id /\ ~n.idle
    BY Zenon, <1>1, <1>3, OccupyRunning
  <2> HIDE DEF n
  <2>2. Free(d, q, k, s) BY Zenon, <1>3 DEF CoreOK
  <2>3. Unseen(id, q, k) BY Zenon, <1>1, <2>2, ReservedIds DEF Free, Unseen
  <2>4. One(q, k, n, bb) BY Zenon, <1>2, <2>1, <2>2, <2>3 DEF One, Free
  <2>5. CoreOK(id, q, k, n, bb) BY Zenon, <2>1, <2>4 DEF CoreOK
  <2>6. (p % 2 = 0 /\ ~s.idle) = FALSE BY Zenon, <1>3
  <2> QED BY <2>5, <2>6, Zenon DEF n, bb
<1>4. CASE ~s.idle
  <2> DEFINE n == Occupy(s, w, TRUE)
  <2>1. /\ n.seq = id /\ n.occupied /\ n.running = s.running /\ n.running_id = s.running_id
        /\ n.pending = w /\ n.pending_id = id /\ ~n.idle
    BY Zenon, <1>1, <1>4, OccupyPending
  <2> HIDE DEF n
  <2>2. p % 2 # 1 /\ ~s.occupied BY Zenon, <1>4 DEF Fits
  <2>3. One(q, k, s, b) BY Zenon, <1>4, <2>2 DEF CoreOK, Two
  <2>4. Executing(s.seq, q, k) \/ Ended(s.seq, q, k) BY Zenon, <2>2, <2>3 DEF One
  <2>5. Two(q, k, n, bb) BY Zenon, <1>1, <1>2, <2>1, <2>3, <2>4 DEF One, Two
  <2>6. CoreOK(id, q, k, n, bb) BY Zenon, <2>1, <2>5 DEF CoreOK
  <2>7. p % 2 = 0 BY <2>2
  <2>8. (p % 2 = 0 /\ ~s.idle) = TRUE BY Zenon, <1>4, <2>7
  <2> QED BY <2>6, <2>8, Zenon DEF n, bb
<1> QED BY Zenon, <1>1, <1>3, <1>4

\* The hand-over marks a busy core occupied until its owner hears of it.
LEMMA DealOne ==
    ASSUME NEW d, NEW q, NEW k, NEW s, NEW b, OneCore(d, q, k, s, b), CoreOK(d, q, k, s, b)
    PROVE  CoreOK(d, q, k, [s EXCEPT !.occupied = ~s.idle], b)
<1> DEFINE n == [s EXCEPT !.occupied = ~s.idle]
<1>1. /\ n.seq = s.seq /\ n.running = s.running /\ n.running_id = s.running_id /\ n.pending = s.pending
      /\ n.pending_id = s.pending_id /\ n.idle = s.idle /\ n.occupied = ~s.idle /\ s.idle \in BOOLEAN
  BY Zenon DEF OneCore, SlotState
<1> HIDE DEF n
<1> QED BY Zenon, <1>1 DEF CoreOK, Free, One, Two, n

\* What the tracker and the AICore rely on, for one core.
Agrees(k, s, b) ==
    /\ s.idle <=> s.running_id = Invalid
    /\ s.idle => ~s.occupied
    /\ s.pending_id # Invalid => s.occupied
    /\ k.pc = "exec" => \/ s.running_id = k.id /\ s.running = b[k.id % 2] /\ b[k.id % 2] # NoWork
                        \/ s.pending_id = k.id /\ s.pending = b[k.id % 2] /\ b[k.id % 2] # NoWork

LEMMA AgreeOne ==
    ASSUME NEW d, NEW q, NEW k, NEW s, NEW b, OneCore(d, q, k, s, b), CoreOK(d, q, k, s, b)
    PROVE  Agrees(k, s, b)
<1> USE DEF Agrees
<1>1. s.seq \in Ids /\ s.seq # Invalid BY Zenon, ReservedIds DEF OneCore, SlotState
<1>2. CASE s.idle BY Zenon, <1>2 DEF CoreOK, Free
<1>3. CASE ~s.idle /\ One(q, k, s, b) BY Zenon, <1>1, <1>3 DEF One, Unseen, Executing, Ended
<1>4. CASE ~s.idle /\ Two(q, k, s, b) BY Zenon, <1>1, <1>4, ReservedIds DEF Two, Executing, Ended
<1> QED BY Zenon, <1>2, <1>3, <1>4 DEF CoreOK
-----------------------------------------------------------------------------
(***************************************************************************)
(* Sets of cores and the launch.                                           *)
(***************************************************************************)
\* Min, which is a CHOOSE, finds the least core of a set.
LEMMA MinIn ==
    ASSUME LibraryFacts, NEW S \in SUBSET Nat, S # {}
    PROVE  Min(S) \in S /\ \A y \in S : Min(S) <= y
BY Zenon DEF LibraryFacts

LEMMA LaunchFacts ==
    ASSUME launch \in Launches
    PROVE  /\ launch.clusters \in Nat /\ Tasks \in Seq([shape : Shapes, blocks : Nat \ {0}])
           /\ Len(Tasks) \in Nat /\ DOMAIN Tasks = 1..Len(Tasks)
           /\ Cores \subseteq Nat
           /\ \A k \in DOMAIN Tasks : Tasks[k].shape \in Shapes /\ Tasks[k].blocks \in Nat \ {0}
<1>1. launch.clusters \in Nat /\ Tasks \in Seq([shape : Shapes, blocks : Nat \ {0}])
  BY Zenon, LaunchAssumption DEF Tasks
<1>2. Len(Tasks) \in Nat /\ DOMAIN Tasks = 1..Len(Tasks)
  BY <1>1
<1>5. Cores \subseteq Nat BY <1>1 DEF Cores
<1>6. \A k \in DOMAIN Tasks : Tasks[k].shape \in Shapes /\ Tasks[k].blocks \in Nat \ {0}
  <2>1. \A S : \A q \in Seq(S) : \A i \in 1..Len(q) : q[i] \in S OBVIOUS
  <2>2. \A k \in DOMAIN Tasks : Tasks[k] \in [shape : Shapes, blocks : Nat \ {0}] BY <1>1, <1>2, <2>1, Zenon
  <2> QED BY Zenon, <2>2
<1> QED BY Zenon, <1>1, <1>2, <1>5, <1>6

LEMMA FiniteLaunch ==
    ASSUME LibraryFacts, launch \in Launches
    PROVE  /\ \A S \in SUBSET (DOMAIN Tasks) : IsFiniteSet(S)
           /\ \A S \in SUBSET Cores : IsFiniteSet(S)
<1>1. 0 \in Int /\ 1 \in Int /\ 2 * launch.clusters - 1 \in Int /\ Len(Tasks) \in Int BY LaunchFacts
<1>2. IsFiniteSet(DOMAIN Tasks) /\ IsFiniteSet(Cores)
  BY <1>1, LaunchFacts, Zenon DEF Cores, LibraryFacts
<1> QED BY <1>2, Zenon DEF LibraryFacts

LEMMA Fixed ==
    ASSUME launch' = launch
    PROVE  Cores' = Cores /\ Tasks' = Tasks /\ ThreadState' = ThreadState
<1>1. Cores' = Cores /\ Tasks' = Tasks BY Zenon DEF Cores, Tasks
<1> QED BY Zenon, <1>1 DEF ThreadState

\* The AIV of a cluster is next to its AIC and has the same owner.
LEMMA Cluster ==
    ASSUME launch \in Launches, NEW c \in Cores
    PROVE  /\ c \div 2 \in 0..launch.clusters - 1
           /\ c % 2 = 0 => c + 1 \in Cores /\ (c + 1) \div 2 = c \div 2 /\ (c + 1) % 2 = 1
<1>1. launch.clusters \in Nat BY Zenon, LaunchFacts
<1>2. \A n \in Nat : \A x \in 0..2 * n - 1 :
        /\ x \div 2 \in 0..n - 1
        /\ x % 2 = 0 => x + 1 \in 0..2 * n - 1 /\ (x + 1) \div 2 = x \div 2 /\ (x + 1) % 2 = 1
  OBVIOUS
<1> QED BY Zenon, <1>1, <1>2 DEF Cores

LEMMA ThreadFacts ==
    /\ Orch \in Threads /\ SchedThreads \subseteq Threads /\ Orch \notin SchedThreads
    /\ Threads = SchedThreads \cup {Orch}
    /\ Threads \subseteq Nat
<1>1. ThreadNum \in Nat /\ ThreadNum > 1 BY ThreadAssumption
<1> QED BY <1>1 DEF Threads, SchedThreads, Orch

LEMMA FiniteThreads ==
    ASSUME LibraryFacts
    PROVE  IsFiniteSet(SchedThreads) /\ \A S \in SUBSET SchedThreads : IsFiniteSet(S)
<1>1. 0 \in Int /\ ThreadNum - 1 \in Int BY ThreadAssumption
<1>2. IsFiniteSet(Threads) BY <1>1, Zenon DEF Threads, LibraryFacts
<1>3. IsFiniteSet(SchedThreads) BY <1>2, Zenon DEF SchedThreads, LibraryFacts
<1> QED BY <1>3, Zenon DEF LibraryFacts

\* A core of a thread's set.
LEMMA FirstCore ==
    ASSUME LibraryFacts, TypeOK, NEW t \in Threads, th[t].cores # {}
    PROVE  Min(th[t].cores) \in th[t].cores /\ Min(th[t].cores) \in Cores
<1>1. th[t].cores \subseteq Cores BY Zenon DEF TypeOK, ThreadState
<1>2. Cores \subseteq Nat BY Zenon, LaunchFacts DEF TypeOK
<1> QED BY Zenon, <1>1, <1>2, MinIn
-----------------------------------------------------------------------------
(***************************************************************************)
(* The moves of a thread t that touch no slot, queue or buffer.            *)
(***************************************************************************)
Moves(t) == th' \in [Threads -> ThreadState] /\ \A u \in Threads \ {t} : th'[u] = th[u]

LEMMA ThreadTyped ==
    ASSUME TypeOK, NEW t \in Threads
    PROVE  /\ th \in [Threads -> ThreadState] /\ th[t] \in ThreadState
           /\ th[t].pc \in {"init"} \cup OrchPcs \cup ExitPcs \cup LoopPcs /\ th[t].cores \subseteq Cores
           /\ th[t].at \in 1..6 /\ th[t].batch \in Seq(DOMAIN Tasks) /\ th[t].block \in Nat
           /\ th[t].claim \in Nat /\ th[t].turn \in Nat
BY Zenon DEF TypeOK, ThreadState

LEMMA MovesTo ==
    ASSUME TypeOK, NEW t \in Threads, NEW n \in ThreadState, th' = [th EXCEPT ![t] = n]
    PROVE  Moves(t) /\ th'[t] = n
BY Zenon, ThreadTyped DEF Moves

LEMMA LeaveMoves ==
    ASSUME TypeOK, NEW t \in Threads, Leave(t)
    PROVE  Moves(t) /\ th'[t].pc = "deinit"
<1> DEFINE n == [th[t] EXCEPT !.pc = "deinit", !.cores = Owned(t), !.at = 1, !.progress = FALSE]
<1>1. Owned(t) \subseteq Cores BY Zenon DEF Owned
<1>0. 1 \in 1..6 OBVIOUS
<1>2. n \in ThreadState /\ n.pc = "deinit" BY Zenon, <1>1, ThreadTyped, <1>0 DEF ThreadState, ExitPcs
<1>3. th' = [th EXCEPT ![t] = n] BY Zenon, ThreadTyped DEF Leave
<1> QED BY Zenon, <1>2, <1>3, MovesTo

LEMMA BeginMoves ==
    ASSUME TypeOK, NEW t \in Threads, NEW r \in BOOLEAN, Begin(t, r)
    PROVE  /\ Moves(t) /\ th'[t].pc \in {"shape", "poll"}
           /\ th'[t].pc = "poll" => th'[t].cores # {} /\ th'[t].cores \subseteq Owned(t)
<1>1. Owned(t) \subseteq Cores /\ Running(t) \subseteq Owned(t) BY Zenon DEF Owned, Running
<1> DEFINE n == [th[t] EXCEPT !.pc = IF Running(t) = {} THEN "shape" ELSE "poll", !.cores = Running(t),
                              !.released = @ \/ r]
<1>2. /\ n \in ThreadState /\ n.cores = Running(t)
      /\ n.pc = IF Running(t) = {} THEN "shape" ELSE "poll"
  BY ZenonT(30), <1>1, ThreadTyped DEF ThreadState, LoopPcs
<1>3. th' = [th EXCEPT ![t] = n] BY Zenon, ThreadTyped DEF Begin
<1> HIDE DEF n
<1> QED BY Zenon, <1>1, <1>2, <1>3, MovesTo

LEMMA ShutDownMoves ==
    ASSUME TypeOK, NEW t \in Threads, ShutDownAll(t)
    PROVE  /\ Moves(t) /\ th'[t].pc \in {"deinit", "emergency"}
           /\ ctl' \in CtlState /\ ctl'.completed /\ ctl'.reassigned = ctl.reassigned
<1>1. CASE ctl.completed
  BY Zenon, <1>1, LeaveMoves DEF ShutDownAll, TypeOK
<1>2. CASE ~ctl.completed
  <2>1. /\ ctl' = [ctl EXCEPT !.completed = TRUE, !.error = TRUE]
        /\ th' = [th EXCEPT ![t].pc = "emergency", ![t].cores = Cores, ![t].at = 1]
    BY <1>2, Zenon DEF ShutDownAll
  <2> DEFINE n == [th[t] EXCEPT !.pc = "emergency", !.cores = Cores, !.at = 1]
  <2>0. 1 \in 1..6 OBVIOUS
  <2>2. n \in ThreadState /\ n.pc = "emergency" BY Zenon, ThreadTyped, <2>0 DEF ThreadState, ExitPcs
  <2>3. th' = [th EXCEPT ![t] = n] BY Zenon, <2>1, ThreadTyped
  <2>4. Moves(t) /\ th'[t].pc = "emergency" BY Zenon, <2>2, <2>3, MovesTo
  <2> QED BY Zenon, <2>1, <2>4 DEF TypeOK, CtlState
<1> QED BY Zenon, <1>1, <1>2

\* A core whose registers say idle or exit more than before, and whose slots are left alone.
LEMMA DataKeeps ==
    ASSUME TypeOK, CoresOK, launch' = launch, UNCHANGED <<cond, core, slot, buffer>>,
           \A c \in Cores : data'[c] \in {data[c], IdleId, ExitSignal}
    PROVE  CoresOK'
<1>1. Cores' = Cores BY Zenon, Fixed
<1> SUFFICES ASSUME NEW c \in Cores
             PROVE  CoreOK(data'[c], cond[c], core[c], slot[c], buffer[c])
  BY Zenon, <1>1 DEF CoresOK
<1>2. OneCore(data[c], cond[c], core[c], slot[c], buffer[c]) BY Zenon DEF TypeOK, OneCore
<1>3. CoreOK(data[c], cond[c], core[c], slot[c], buffer[c]) BY Zenon DEF CoresOK
<1> QED BY <1>2, <1>3, ClearData, Zenon

\* What is said of a thread that did not move.
LEMMA OtherThreads ==
    ASSUME NEW t \in Threads, launch' = launch, owner' = owner, th'[t] = th[t],
           ChosenOK(t), BatchOK(t), PollingOK(t), AwaitingOK(t),
           \A c \in Owned(t) : slot'[c] = slot[c]
    PROVE  ChosenOK(t)' /\ BatchOK(t)' /\ PollingOK(t)' /\ AwaitingOK(t)'
<1>1. Cores' = Cores /\ Tasks' = Tasks BY Zenon, Fixed
<1>2. Owned(t)' = Owned(t) BY Zenon, <1>1 DEF Owned
<1>3. BatchOK(t)' BY Zenon, <1>1 DEF BatchOK, Dispatching, ShapeAt, get_dispatch_order
<1>4. PollingOK(t)' /\ AwaitingOK(t)' BY Zenon, <1>2 DEF PollingOK, AwaitingOK
<1>5. ChosenOK(t)'
  <2> SUFFICES ASSUME Dispatching(t), NEW c \in th[t].cores
               PROVE  LET shape == ShapeAt(t, th[t].at) IN
                      /\ Kind(c) = (IF shape = "MIX" THEN "AIC" ELSE shape)
                      /\ Targets(c, shape) \subseteq Owned(t)
                      /\ \A d \in Targets(c, shape) : Fits(slot'[d], th[t].at)
    BY Zenon, <1>2 DEF ChosenOK, Dispatching, ShapeAt, get_dispatch_order
  <2> QED BY Zenon DEF ChosenOK
<1> QED BY Zenon, <1>3, <1>4, <1>5

LEMMA AsideKeeps ==
    ASSUME TypeOK, CoresOK, ThreadsOK, QueuesOK, NEW t \in Threads, launch' = launch, Moves(t),
           ~Dispatching(t)', PollingOK(t)', AwaitingOK(t)', ctl' \in CtlState,
           UNCHANGED <<cond, core, slot, buffer, owner, ready, next>>,
           data' \in [Cores -> Regs], \A c \in Cores : data'[c] \in {data[c], IdleId, ExitSignal}
    PROVE  TypeOK' /\ CoresOK' /\ ThreadsOK' /\ QueuesOK'
<1>1. Cores' = Cores /\ Tasks' = Tasks /\ ThreadState' = ThreadState BY Zenon, Fixed
<1>2. TypeOK' BY Zenon, <1>1 DEF TypeOK, Moves
<1>3. CoresOK' BY Zenon, DataKeeps
<1>4. ThreadsOK'
  <2> SUFFICES ASSUME NEW u \in Threads
               PROVE  ChosenOK(u)' /\ BatchOK(u)' /\ PollingOK(u)' /\ AwaitingOK(u)'
    BY Zenon DEF ThreadsOK
  <2>1. CASE u = t
    <3>1. th'[t].pc \notin {"batch", "send"} BY Zenon DEF Dispatching
    <3> QED BY Zenon, <2>1, <3>1 DEF ChosenOK, BatchOK, Dispatching
  <2>2. CASE u # t
    BY Zenon, <2>2, OtherThreads DEF ThreadsOK, Moves
  <2> QED BY Zenon, <2>1, <2>2
<1>5. QueuesOK'
  <2>1. HeldBy(th'[t]) = {} BY Zenon DEF HeldBy, Dispatching
  <2>2. \A u \in Threads : HeldBy(th'[u]) \subseteq HeldBy(th[u])
    BY Zenon, <2>1 DEF Moves
  <2>3. Held' = [u \in Threads |-> HeldBy(th'[u])] BY Zenon DEF Held
  <2>4. \A u \in Threads : Held'[u] \subseteq Held[u]
    BY Zenon, <2>2, <2>3 DEF Held
  <2>5. QueuesFit(ready, next, Held', Tasks)
    BY Zenon, <2>4 DEF QueuesOK, QueuesFit
  <2> QED BY Zenon, <1>1, <2>5 DEF QueuesOK
<1> QED BY Zenon, <1>2, <1>3, <1>4, <1>5
-----------------------------------------------------------------------------
(***************************************************************************)
(* The steps of the AICores and of the handshake.                          *)
(***************************************************************************)
LEMMA StillThreads ==
    ASSUME ThreadsOK, QueuesOK, HandOverOK, UNCHANGED <<launch, th, owner, slot, ready, next, ctl>>
    PROVE  ThreadsOK' /\ QueuesOK' /\ HandOverOK'
<1>1. Tasks' = Tasks BY Zenon, Fixed
<1>2. ThreadsOK' BY Zenon, OtherThreads DEF ThreadsOK
<1>3. QueuesOK' BY Zenon, <1>1 DEF QueuesOK, Held
<1>4. HandOverOK' BY Zenon DEF HandOverOK, Waiting
<1> QED BY Zenon, <1>2, <1>3, <1>4

LEMMA AicoreKeeps ==
    ASSUME TypeOK, CoresOK, launch' = launch, NEW c \in Cores, NEW q \in Regs \X {"ACK", "FIN"}, NEW k \in CoreState,
           cond' = [cond EXCEPT ![c] = q], core' = [core EXCEPT ![c] = k],
           UNCHANGED <<data, slot, buffer, owner, th, ready, next, ctl>>,
           CoreOK(data[c], q, k, slot[c], buffer[c])
    PROVE  TypeOK' /\ CoresOK'
<1>1. Cores' = Cores /\ Tasks' = Tasks /\ ThreadState' = ThreadState BY Zenon, Fixed
<1>2. TypeOK' BY Zenon, <1>1 DEF TypeOK
<1>3. CoresOK'
  <2> SUFFICES ASSUME NEW x \in Cores
               PROVE  CoreOK(data[x], cond'[x], core'[x], slot[x], buffer[x])
    BY Zenon, <1>1 DEF CoresOK
  <2>1. CoreOK(data[x], cond[x], core[x], slot[x], buffer[x]) BY Zenon DEF CoresOK
  <2>2. CASE x = c
    <3>1. cond'[c] = q /\ core'[c] = k BY Zenon DEF TypeOK
    <3> QED BY <2>2, <3>1, Zenon
  <2>3. CASE x # c
    <3>1. cond'[x] = cond[x] /\ core'[x] = core[x] BY Zenon, <2>3 DEF TypeOK
    <3> QED BY <2>1, <3>1, Zenon
  <2> QED BY Zenon, <2>2, <2>3
<1> QED BY Zenon, <1>2, <1>3

LEMMA AicoreStepKeeps ==
    ASSUME TypeOK, CoresOK, ThreadsOK, QueuesOK, HandOverOK, NEW c \in Cores, AicoreNext(c)
    PROVE  TypeOK' /\ CoresOK' /\ ThreadsOK' /\ QueuesOK' /\ HandOverOK'
<1>1. launch' = launch /\ UNCHANGED <<data, slot, buffer, owner, th, ready, next, ctl>>
  BY Zenon DEF AicoreNext, ReportCore, EnterLoop, Acknowledge, Finish, ExitLoop, AicoreStep, shared
<1>2. ThreadsOK' /\ QueuesOK' /\ HandOverOK' BY Zenon, <1>1, StillThreads
<1>3. /\ OneCore(data[c], cond[c], core[c], slot[c], buffer[c])
      /\ CoreOK(data[c], cond[c], core[c], slot[c], buffer[c])
  BY Zenon DEF TypeOK, OneCore, CoresOK
<1>4. /\ data[c] \in Regs /\ core[c] \in CoreState /\ core[c].id \in Regs /\ cond[c] \in Regs \X {"ACK", "FIN"}
      /\ core \in [Cores -> CoreState] /\ cond \in [Cores -> Regs \X {"ACK", "FIN"}]
  BY Zenon DEF TypeOK, CoreState
<1>5. CASE ReportCore(c)
  <2> DEFINE k == [core[c] EXCEPT !.pc = "regs"]
  <2>1. k \in CoreState BY Zenon, <1>4 DEF CoreState
  <2>2. core' = [core EXCEPT ![c] = k] /\ cond' = [cond EXCEPT ![c] = cond[c]] BY Zenon, <1>4, <1>5 DEF ReportCore
  <2>3. CoreOK(data[c], cond[c], k, slot[c], buffer[c]) BY <1>3, <1>5, ReportOne, Zenon DEF ReportCore
  <2> QED BY <1>1, <1>2, <1>4, <2>1, <2>2, <2>3, AicoreKeeps, Zenon
<1>6. CASE EnterLoop(c)
  <2> DEFINE k == [core[c] EXCEPT !.pc = "loop"]
             q == <<IdleId, "FIN">>
  <2>1. k \in CoreState /\ q \in Regs \X {"ACK", "FIN"} BY Zenon, <1>4, ReservedIds DEF CoreState
  <2>2. core' = [core EXCEPT ![c] = k] /\ cond' = [cond EXCEPT ![c] = q] BY Zenon, <1>4, <1>6 DEF EnterLoop
  <2>3. CoreOK(data[c], q, k, slot[c], buffer[c]) BY <1>3, <1>6, EnterOne, Zenon DEF EnterLoop
  <2> QED BY <1>1, <1>2, <2>1, <2>2, <2>3, AicoreKeeps, Zenon
<1>7. CASE Acknowledge(c)
  <2> DEFINE k == [core[c] EXCEPT !.pc = "exec", !.id = data[c]]
             q == <<data[c], "ACK">>
  <2>1. k \in CoreState /\ q \in Regs \X {"ACK", "FIN"} BY Zenon, <1>4 DEF CoreState
  <2>2. core' = [core EXCEPT ![c] = k] /\ cond' = [cond EXCEPT ![c] = q] BY Zenon, <1>4, <1>7 DEF Acknowledge
  <2>3. CoreOK(data[c], q, k, slot[c], buffer[c]) BY <1>3, <1>7, AcknowledgeOne, Zenon DEF Acknowledge
  <2> QED BY <1>1, <1>2, <2>1, <2>2, <2>3, AicoreKeeps, Zenon
<1>8. CASE Finish(c)
  <2> DEFINE k == [core[c] EXCEPT !.pc = "loop", !.last = core[c].id]
             q == <<core[c].id, "FIN">>
  <2>1. k \in CoreState /\ q \in Regs \X {"ACK", "FIN"} BY Zenon, <1>4 DEF CoreState
  <2>2. core' = [core EXCEPT ![c] = k] /\ cond' = [cond EXCEPT ![c] = q] BY Zenon, <1>4, <1>8 DEF Finish
  <2>3. CoreOK(data[c], q, k, slot[c], buffer[c]) BY <1>3, <1>8, FinishOne, Zenon DEF Finish
  <2> QED BY <1>1, <1>2, <2>1, <2>2, <2>3, AicoreKeeps, Zenon
<1>9. CASE ExitLoop(c)
  <2> DEFINE k == [core[c] EXCEPT !.pc = "exited"]
             q == <<ExitId, "FIN">>
  <2>1. k \in CoreState /\ q \in Regs \X {"ACK", "FIN"} BY Zenon, <1>4, ReservedIds DEF CoreState
  <2>2. core' = [core EXCEPT ![c] = k] /\ cond' = [cond EXCEPT ![c] = q] BY Zenon, <1>4, <1>9 DEF ExitLoop
  <2>3. CoreOK(data[c], q, k, slot[c], buffer[c]) BY <1>3, <1>9, ExitOne, Zenon DEF ExitLoop
  <2> QED BY <1>1, <1>2, <2>1, <2>2, <2>3, AicoreKeeps, Zenon
<1> QED BY Zenon, <1>5, <1>6, <1>7, <1>8, <1>9 DEF AicoreNext

LEMMA RegisterKeeps ==
    ASSUME TypeOK, CoresOK, ThreadsOK, QueuesOK, HandOverOK,
           UNCHANGED <<launch, cond, core, slot, buffer, owner, th, ready, next, ctl>>,
           data' \in [Cores -> Regs], \A c \in Cores : data'[c] \in {data[c], IdleId, ExitSignal}
    PROVE  TypeOK' /\ CoresOK' /\ ThreadsOK' /\ QueuesOK' /\ HandOverOK'
<1>1. Cores' = Cores /\ Tasks' = Tasks /\ ThreadState' = ThreadState BY Zenon, Fixed
<1>2. TypeOK' BY Zenon, <1>1 DEF TypeOK
<1> QED BY Zenon, <1>2, DataKeeps, StillThreads

LEMMA InitStepKeeps ==
    ASSUME TypeOK, CoresOK, ThreadsOK, QueuesOK, HandOverOK, InitNext
    PROVE  TypeOK' /\ CoresOK' /\ ThreadsOK' /\ QueuesOK' /\ HandOverOK'
<1>1. CASE SignalCores /\ launch' = launch
  <2>1. UNCHANGED <<launch, data, cond, core, slot, buffer, owner, th, ready, next, ctl>>
    BY Zenon, <1>1 DEF SignalCores, shared
  <2>2. data' \in [Cores -> Regs] BY Zenon, <2>1 DEF TypeOK
  <2> QED BY Zenon, <2>1, <2>2, RegisterKeeps
<1>2. ASSUME NEW c \in Cores, platform_init_aicore_regs(c), launch' = launch
      PROVE  TypeOK' /\ CoresOK' /\ ThreadsOK' /\ QueuesOK' /\ HandOverOK'
  <2>1. /\ UNCHANGED <<launch, cond, core, slot, buffer, owner, th, ready, next, ctl>>
        /\ data' = [data EXCEPT ![c] = IdleId]
    BY Zenon, <1>2 DEF platform_init_aicore_regs, shared
  <2>2. data' \in [Cores -> Regs] /\ \A x \in Cores : data'[x] \in {data[x], IdleId, ExitSignal}
    BY Zenon, <2>1, ReservedIds DEF TypeOK
  <2> QED BY Zenon, <2>1, <2>2, RegisterKeeps
<1>3. CASE InitDone /\ launch' = launch
  <2>1. /\ UNCHANGED <<launch, data, cond, core, slot, buffer, owner, ready, next, ctl>>
        /\ th' = [t \in Threads |-> [th[t] EXCEPT !.pc = IF t = Orch THEN "orch" ELSE "top"]]
        /\ \A t \in Threads : th[t].pc = "init"
    BY Zenon, <1>3 DEF InitDone, aicore, shared, Initializing
  <2>2. /\ th' \in [Threads -> ThreadState]
        /\ \A t \in Threads : th'[t].pc = IF t = Orch THEN "orch" ELSE "top"
    <3>1. ASSUME NEW t \in Threads, NEW p \in {"orch", "top"}
          PROVE  LET n == [th[t] EXCEPT !.pc = p] IN n \in ThreadState /\ n.pc = p
      BY ZenonT(30), ThreadTyped DEF ThreadState, OrchPcs, LoopPcs
    <3> QED BY Zenon, <2>1, <3>1
  <2>3. Cores' = Cores /\ Tasks' = Tasks /\ ThreadState' = ThreadState BY Zenon, <2>1, Fixed
  <2>4. TypeOK' BY Zenon, <2>1, <2>2, <2>3 DEF TypeOK
  <2>5. CoresOK' BY Zenon, <2>1, DataKeeps
  <2>6. \A t \in Threads : th'[t].pc \notin {"batch", "send", "poll", "await", "await_all", "transition"}
    BY Zenon, <2>2
  <2>7. ThreadsOK' BY <2>6, Zenon DEF ThreadsOK, ChosenOK, BatchOK, PollingOK, AwaitingOK, Dispatching
  <2>8. QueuesOK'
    <3>1. \A t \in Threads : HeldBy(th'[t]) = {} BY Zenon, <2>6 DEF HeldBy
    <3>2. Held' = [t \in Threads |-> HeldBy(th'[t])] BY Zenon DEF Held
    <3>3. \A t \in Threads : Held'[t] = {} BY Zenon, <3>1, <3>2
    <3>4. QueuesFit(ready, next, Held', Tasks) BY Zenon, <3>3 DEF QueuesOK, QueuesFit
    <3> QED BY Zenon, <2>1, <2>3, <3>4 DEF QueuesOK
  <2>9. HandOverOK'
    <3>1. Waiting = {} /\ Waiting' = {} BY Zenon, <2>1, <2>6, ThreadFacts DEF Waiting
    <3>2. ~ctl.reassigned /\ (~ctl.completed => ctl.waiting = Cardinality({}))
      BY Zenon, <2>1, <3>1, ThreadFacts DEF HandOverOK
    <3>3. th'[Orch].pc = "orch" /\ th'[Orch].pc \notin LoopPcs BY Zenon, <2>2, ThreadFacts DEF LoopPcs
    <3>4. \A t \in SchedThreads : th'[t].pc = "top" /\ th'[t].pc \notin OrchPcs BY Zenon, <2>2, ThreadFacts DEF OrchPcs
    <3> QED BY <2>1, <3>1, <3>2, <3>3, <3>4, Zenon DEF HandOverOK
  <2> QED BY Zenon, <2>4, <2>5, <2>7, <2>8, <2>9
<1> QED BY Zenon, <1>1, <1>2, <1>3 DEF InitNext
-----------------------------------------------------------------------------
(***************************************************************************)
(* The loop of a thread.                                                   *)
(***************************************************************************)
LEMMA HandOverMoves ==
    ASSUME HandOverOK, NEW t \in Threads, Moves(t), ctl'.reassigned <=> ctl.reassigned, ctl.completed => ctl'.completed,
           \/ ctl'.completed \/ ctl'.reassigned
           \/ th[t].pc # "transition" /\ th'[t].pc # "transition" /\ ctl'.waiting = ctl.waiting,
           th'[t].pc \in ExitPcs \/ (th'[t].pc \in LoopPcs /\ th[t].pc \in LoopPcs)
    PROVE  HandOverOK'
<1>1. \A u \in Threads : u = t \/ th'[u] = th[u] BY Zenon DEF Moves
<1>2. th'[t].pc \notin {"init"} \cup OrchPcs BY Zenon DEF ExitPcs, LoopPcs, OrchPcs
<1>3. \A p \in ExitPcs : p \notin LoopPcs BY Zenon DEF ExitPcs, LoopPcs
<1>4. ~ctl'.completed /\ ~ctl'.reassigned => ctl'.waiting = Cardinality(Waiting')
  <2>1. CASE th[t].pc # "transition" /\ th'[t].pc # "transition" /\ ctl'.waiting = ctl.waiting
    <3>1. \A u \in SchedThreads : (th'[u].pc = "transition") <=> (th[u].pc = "transition")
      BY Zenon, <1>1, <2>1, ThreadFacts
    <3>2. Waiting' = Waiting BY Zenon, <3>1 DEF Waiting
    <3> QED BY Zenon, <2>1, <3>2 DEF HandOverOK
  <2> QED BY Zenon, <2>1
<1>5. th'[Orch].pc \in {"init"} \cup OrchPcs => ~ctl'.reassigned
  BY Zenon, <1>1, <1>2, ThreadFacts DEF HandOverOK
<1>6. th'[Orch].pc \in LoopPcs => ctl'.reassigned
  BY Zenon, <1>1, <1>3, ThreadFacts DEF HandOverOK
<1>7. \A u \in SchedThreads : th'[u].pc \notin OrchPcs
  BY Zenon, <1>1, <1>2, ThreadFacts DEF HandOverOK
<1> QED BY <1>4, <1>5, <1>6, <1>7, Zenon DEF HandOverOK

\* A thread joins those that wait for the hand-over.
LEMMA HandOverJoins ==
    ASSUME LibraryFacts, TypeOK, HandOverOK, NEW t \in Threads, Moves(t), th[t].pc = "top", th'[t].pc = "transition",
           ~ctl.reassigned, ctl' = [ctl EXCEPT !.waiting = @ + 1]
    PROVE  HandOverOK'
<1>1. /\ ctl'.waiting = ctl.waiting + 1 /\ ctl'.completed = ctl.completed /\ ctl'.reassigned = ctl.reassigned
      /\ ctl.waiting \in Nat
  BY Zenon DEF TypeOK, CtlState
<1>2. t # Orch /\ t \in SchedThreads BY Zenon, ThreadFacts DEF HandOverOK, LoopPcs
<1>3. \A u \in Threads : u = t \/ th'[u] = th[u] BY Zenon DEF Moves
<1>4. ~ctl'.completed /\ ~ctl'.reassigned => ctl'.waiting = Cardinality(Waiting')
  <2>1. Waiting' = Waiting \cup {t} /\ t \notin Waiting
    BY Zenon, <1>2, <1>3, ThreadFacts DEF Waiting
  <2>2. IsFiniteSet(Waiting)
    <3>1. Waiting \subseteq SchedThreads BY Zenon DEF Waiting
    <3> QED BY Zenon, <3>1, FiniteThreads
  <2>3. Cardinality(Waiting') = Cardinality(Waiting) + 1 BY Zenon, <2>1, <2>2 DEF LibraryFacts
  <2> QED BY Zenon, <1>1, <2>3 DEF HandOverOK
<1>5. th'[t].pc \notin OrchPcs BY Zenon DEF OrchPcs
<1>6. /\ th'[Orch].pc \in {"init"} \cup OrchPcs => ~ctl'.reassigned
      /\ th'[Orch].pc \in LoopPcs => ctl'.reassigned
      /\ \A u \in SchedThreads : th'[u].pc \notin OrchPcs
  BY <1>1, <1>2, <1>3, <1>5, ThreadFacts, Zenon DEF HandOverOK
<1> QED BY <1>4, <1>6, Zenon DEF HandOverOK

LEMMA LoopAside ==
    ASSUME SlotInv, NEW t \in Threads, launch' = launch, Quiet, Moves(t), ctl' \in CtlState, HandOverOK',
           th'[t].pc \notin {"batch", "send", "await", "await_all"},
           th'[t].pc = "poll" => th'[t].cores # {} /\ th'[t].cores \subseteq Owned(t)
    PROVE  SlotInv'
<1>1. UNCHANGED <<data, cond, core, slot, buffer, owner, ready, next>> BY Zenon DEF Quiet, aicore, shared
<1>2. data' \in [Cores -> Regs] BY Zenon, <1>1 DEF SlotInv, TypeOK
<1>3. Owned(t)' = Owned(t) BY Zenon, <1>1, Fixed DEF Owned
<1>4. ~Dispatching(t)' /\ PollingOK(t)' /\ AwaitingOK(t)' BY Zenon, <1>3 DEF Dispatching, PollingOK, AwaitingOK
<1>5. TypeOK' /\ CoresOK' /\ ThreadsOK' /\ QueuesOK' BY Zenon, <1>1, <1>2, <1>4, AsideKeeps DEF SlotInv
<1> QED BY Zenon, <1>5 DEF SlotInv

LEMMA CtlFacts ==
    ASSUME TypeOK
    PROVE  /\ ctl \in CtlState /\ ctl.completed \in BOOLEAN /\ ctl.reassigned \in BOOLEAN /\ ctl.waiting \in Nat
           /\ LET c == [ctl EXCEPT !.completed = TRUE] IN c \in CtlState /\ c.completed /\ c.reassigned = ctl.reassigned
           /\ [ctl EXCEPT !.waiting = @ + 1] \in CtlState
<1>1. ctl \in CtlState BY Zenon DEF TypeOK
<1>2. ctl.completed \in BOOLEAN /\ ctl.reassigned \in BOOLEAN /\ ctl.waiting \in Nat BY Zenon, <1>1 DEF CtlState
<1>3. [ctl EXCEPT !.waiting = @ + 1] \in CtlState BY <1>1, <1>2 DEF CtlState
<1> DEFINE c == [ctl EXCEPT !.completed = TRUE]
<1>4. c \in CtlState /\ c.completed = TRUE /\ c.reassigned = ctl.reassigned BY Zenon, <1>1 DEF CtlState
<1> QED BY <1>1, <1>2, <1>3, <1>4, Zenon

\* The ways out of the loop: Leave once completed, or the shut-down of every core.
LEMMA LeaveKeeps ==
    ASSUME SlotInv, NEW t \in Threads, launch' = launch, Quiet, Leave(t), ctl' \in CtlState, ctl'.completed,
           ctl'.reassigned = ctl.reassigned
    PROVE  SlotInv'
<1>1. Moves(t) /\ th'[t].pc = "deinit" BY Zenon, LeaveMoves DEF SlotInv
<1>2. HandOverOK' BY Zenon, <1>1, HandOverMoves DEF SlotInv, ExitPcs
<1> QED BY Zenon, <1>1, <1>2, LoopAside

LEMMA ShutDownKeeps ==
    ASSUME SlotInv, NEW t \in Threads, launch' = launch, Quiet, ShutDownAll(t)
    PROVE  SlotInv'
<1>1. /\ Moves(t) /\ th'[t].pc \in {"deinit", "emergency"} /\ ctl' \in CtlState
      /\ ctl'.completed /\ ctl'.reassigned = ctl.reassigned
  BY Zenon, ShutDownMoves DEF SlotInv
<1>2. HandOverOK' BY Zenon, <1>1, HandOverMoves DEF SlotInv, ExitPcs
<1> QED BY Zenon, <1>1, <1>2, LoopAside

LEMMA BeginKeeps ==
    ASSUME SlotInv, NEW t \in Threads, launch' = launch, Quiet, NEW r \in BOOLEAN, Begin(t, r), UNCHANGED ctl,
           th[t].pc \in LoopPcs, th[t].pc # "transition" \/ ctl.reassigned
    PROVE  SlotInv'
<1>1. /\ Moves(t) /\ th'[t].pc \in {"shape", "poll"}
      /\ th'[t].pc = "poll" => th'[t].cores # {} /\ th'[t].cores \subseteq Owned(t)
  BY Zenon, BeginMoves DEF SlotInv
<1>2. ctl' \in CtlState BY Zenon DEF SlotInv, TypeOK
<1>3. HandOverOK' BY Zenon, <1>1, HandOverMoves DEF SlotInv, LoopPcs
<1> QED BY Zenon, <1>1, <1>2, <1>3, LoopAside

LEMMA LoopTopKeeps ==
    ASSUME LibraryFacts, SlotInv, NEW t \in Threads, launch' = launch, LoopTop(t)
    PROVE  SlotInv'
<1>1. th[t].pc = "top" /\ Quiet /\ th[t].pc \in LoopPcs BY Zenon DEF LoopTop, LoopPcs
<1>2. TypeOK BY Zenon DEF SlotInv
<1>3. CASE Leave(t) /\ ctl' = ctl /\ ctl.completed BY Zenon, <1>1, <1>2, <1>3, CtlFacts, LeaveKeeps
<1>4. CASE ShutDownAll(t) BY Zenon, <1>1, <1>4, ShutDownKeeps
<1>5. CASE Leave(t) /\ ctl' = [ctl EXCEPT !.completed = TRUE]
  BY Zenon, <1>1, <1>2, <1>5, CtlFacts, LeaveKeeps
<1>6. CASE ~ctl.reassigned /\ ctl' = [ctl EXCEPT !.waiting = @ + 1] /\ th' = [th EXCEPT ![t].pc = "transition"]
  <2> DEFINE n == [th[t] EXCEPT !.pc = "transition"]
  <2>1. n \in ThreadState /\ n.pc = "transition" BY Zenon, <1>2, ThreadTyped DEF ThreadState, LoopPcs
  <2>2. th' = [th EXCEPT ![t] = n] BY Zenon, <1>2, <1>6, ThreadTyped
  <2>3. Moves(t) /\ th'[t].pc = "transition" BY Zenon, <1>2, <2>1, <2>2, MovesTo
  <2>4. HandOverOK' BY Zenon, <1>1, <1>2, <1>6, <2>3, HandOverJoins DEF SlotInv
  <2> QED BY Zenon, <1>1, <1>2, <1>6, <2>3, <2>4, CtlFacts, LoopAside
<1>7. ASSUME NEW r \in BOOLEAN, Begin(t, r), ctl' = ctl PROVE SlotInv'
  BY Zenon, <1>1, <1>7, BeginKeeps
<1>8. \/ Leave(t) /\ ctl' = ctl /\ ctl.completed
      \/ ShutDownAll(t)
      \/ Leave(t) /\ ctl' = [ctl EXCEPT !.completed = TRUE]
      \/ ~ctl.reassigned /\ ctl' = [ctl EXCEPT !.waiting = @ + 1] /\ th' = [th EXCEPT ![t].pc = "transition"]
      \/ Begin(t, OrchToSched /\ ctl.requested) /\ ctl' = ctl
  BY Zenon DEF LoopTop
<1>9. (OrchToSched /\ ctl.requested) \in BOOLEAN BY Zenon
<1> QED BY <1>3, <1>4, <1>5, <1>6, <1>7, <1>8, <1>9, Zenon

LEMMA TransitionKeeps ==
    ASSUME SlotInv, NEW t \in Threads, launch' = launch, Transition(t)
    PROVE  SlotInv'
<1>1. th[t].pc = "transition" /\ Quiet /\ ctl' = ctl /\ th[t].pc \in LoopPcs BY Zenon DEF Transition, LoopPcs
<1>2. CASE ctl.completed /\ Leave(t) BY Zenon, <1>1, <1>2, CtlFacts, LeaveKeeps DEF SlotInv
<1>3. CASE ctl.reassigned /\ Begin(t, TRUE) BY Zenon, <1>1, <1>3, BeginKeeps
<1> QED BY Zenon, <1>2, <1>3 DEF Transition

LEMMA LoopEndKeeps ==
    ASSUME SlotInv, NEW t \in Threads, launch' = launch, LoopEnd(t) \/ handle_timeout_exit(t)
    PROVE  SlotInv'
<1>1. th[t].pc = "shape" /\ Quiet /\ th[t].pc \in LoopPcs BY Zenon DEF LoopEnd, handle_timeout_exit, LoopPcs
<1>2. TypeOK BY Zenon DEF SlotInv
<1>3. CASE Leave(t) /\ ctl' = ctl /\ ctl.completed BY Zenon, <1>1, <1>2, <1>3, CtlFacts, LeaveKeeps
<1>4. CASE ShutDownAll(t) BY Zenon, <1>1, <1>4, ShutDownKeeps
<1>5. CASE th' = [th EXCEPT ![t].pc = "top", ![t].at = 1, ![t].progress = FALSE] /\ ctl' = ctl
  <2> DEFINE n == [th[t] EXCEPT !.pc = "top", !.at = 1, !.progress = FALSE]
  <2>0. 1 \in 1..6 OBVIOUS
  <2>1. n \in ThreadState /\ n.pc = "top" BY Zenon, <1>2, ThreadTyped, <2>0 DEF ThreadState, LoopPcs
  <2>2. th' = [th EXCEPT ![t] = n] BY Zenon, <1>2, <1>5, ThreadTyped
  <2>3. Moves(t) /\ th'[t].pc = "top" BY Zenon, <1>2, <2>1, <2>2, MovesTo
  <2>4. HandOverOK' BY Zenon, <1>1, <1>5, <2>3, HandOverMoves DEF SlotInv, LoopPcs
  <2> QED BY Zenon, <1>1, <1>2, <1>5, <2>3, <2>4, CtlFacts, LoopAside
<1>6. \/ Leave(t) /\ ctl' = ctl /\ ctl.completed
      \/ ShutDownAll(t)
      \/ th' = [th EXCEPT ![t].pc = "top", ![t].at = 1, ![t].progress = FALSE] /\ ctl' = ctl
  BY Zenon DEF LoopEnd, handle_timeout_exit
<1> QED BY <1>3, <1>4, <1>5, <1>6, Zenon

\* The shut-down of one core writes DATA only.
LEMMA ExitAside ==
    ASSUME SlotInv, NEW t \in Threads, launch' = launch, Moves(t),
           th[t].pc \in ExitPcs, th'[t].pc \in ExitPcs, AwaitingOK(t)',
           UNCHANGED <<cond, core, slot, buffer, owner, ready, next, ctl>>,
           \/ data' = data
           \/ \E c \in Cores, v \in {IdleId, ExitSignal} : data' = [data EXCEPT ![c] = v]
    PROVE  SlotInv'
<1>1. data' \in [Cores -> Regs] /\ \A c \in Cores : data'[c] \in {data[c], IdleId, ExitSignal}
  <2>1. data \in [Cores -> Regs] BY Zenon DEF SlotInv, TypeOK
  <2>2. CASE data' = data BY Zenon, <2>1, <2>2
  <2>3. ASSUME NEW c \in Cores, NEW v \in {IdleId, ExitSignal}, data' = [data EXCEPT ![c] = v]
        PROVE  data' \in [Cores -> Regs] /\ \A x \in Cores : data'[x] \in {data[x], IdleId, ExitSignal}
    BY Zenon, <2>1, <2>3, ReservedIds
  <2> QED BY <2>2, <2>3, Zenon
<1>2. ~Dispatching(t)' /\ PollingOK(t)' BY Zenon DEF Dispatching, PollingOK, ExitPcs
<1>3. ctl' \in CtlState BY Zenon DEF SlotInv, TypeOK
<1>4. TypeOK' /\ CoresOK' /\ ThreadsOK' /\ QueuesOK' BY Zenon, <1>1, <1>2, <1>3, AsideKeeps DEF SlotInv
<1>5. th[t].pc # "transition" /\ th'[t].pc # "transition" BY Zenon DEF ExitPcs
<1>6. HandOverOK' BY Zenon, <1>5, HandOverMoves DEF SlotInv
<1> QED BY Zenon, <1>4, <1>6 DEF SlotInv

LEMMA SendExitKeeps ==
    ASSUME LibraryFacts, SlotInv, NEW t \in Threads, launch' = launch, SendExit(t)
    PROVE  SlotInv'
<1>1. /\ th[t].pc \in {"emergency", "deinit"} /\ th[t].pc \in ExitPcs
      /\ UNCHANGED <<cond, core, slot, buffer, owner, ready, next, ctl>>
  BY Zenon DEF SendExit, aicore, shared, ExitPcs
<1>2. TypeOK BY Zenon DEF SlotInv
<1>3. CASE th[t].cores # {}
  <2> DEFINE n == [th[t] EXCEPT !.pc = IF @ = "deinit" THEN "await" ELSE "await_all"]
  <2>1. n \in ThreadState /\ n.pc \in {"await", "await_all"} /\ n.cores = th[t].cores
    BY Zenon, <1>2, ThreadTyped DEF ThreadState, ExitPcs
  <2>2. th' = [th EXCEPT ![t] = n] /\ data' = [data EXCEPT ![Min(th[t].cores)] = ExitSignal]
    BY Zenon, <1>2, <1>3, ThreadTyped DEF SendExit
  <2>3. Moves(t) /\ th'[t].pc \in ExitPcs /\ th'[t].cores # {} BY Zenon, <1>2, <1>3, <2>1, <2>2, MovesTo DEF ExitPcs
  <2> QED BY Zenon, <1>1, <1>2, <1>3, <2>2, <2>3, FirstCore, ExitAside DEF AwaitingOK
<1>4. CASE th[t].cores = {} /\ th[t].pc = "deinit"
  <2> DEFINE n == [th[t] EXCEPT !.pc = "done"]
  <2>1. n \in ThreadState /\ n.pc = "done" BY Zenon, <1>2, ThreadTyped DEF ThreadState, ExitPcs
  <2>2. th' = [th EXCEPT ![t] = n] /\ data' = data BY Zenon, <1>2, <1>4, ThreadTyped DEF SendExit
  <2>3. Moves(t) /\ th'[t].pc = "done" BY Zenon, <1>2, <2>1, <2>2, MovesTo
  <2> QED BY Zenon, <1>1, <2>2, <2>3, ExitAside DEF AwaitingOK, ExitPcs
<1>5. CASE th[t].cores = {} /\ th[t].pc # "deinit"
  <2>1. Leave(t) /\ data' = data BY <1>5, Zenon DEF SendExit
  <2>2. Moves(t) /\ th'[t].pc = "deinit" BY Zenon, <1>2, <2>1, LeaveMoves
  <2> QED BY Zenon, <1>1, <2>1, <2>2, ExitAside DEF AwaitingOK, ExitPcs
<1> QED BY Zenon, <1>3, <1>4, <1>5

LEMMA AwaitKeeps ==
    ASSUME LibraryFacts, SlotInv, NEW t \in Threads, launch' = launch, AwaitExit(t) \/ AwaitTimeOut(t)
    PROVE  SlotInv'
<1>1. /\ th[t].pc \in {"await", "await_all"} /\ th[t].pc \in ExitPcs /\ NextCore(t)
      /\ UNCHANGED <<cond, core, slot, buffer, owner, ready, next, ctl>>
      /\ data' = data \/ data' = [data EXCEPT ![Min(th[t].cores)] = IdleId]
  BY Zenon DEF AwaitExit, AwaitTimeOut, aicore, shared, ExitPcs
<1>2. TypeOK /\ th[t].cores # {} BY Zenon, <1>1 DEF SlotInv, ThreadsOK, AwaitingOK
<1> DEFINE n == [th[t] EXCEPT !.pc = IF @ = "await" THEN "deinit" ELSE "emergency",
                              !.cores = @ \ {Min(@)}]
<1>3. n \in ThreadState /\ n.pc \in {"deinit", "emergency"} BY ZenonT(30), <1>2, ThreadTyped DEF ThreadState, ExitPcs
<1>4. th' = [th EXCEPT ![t] = n] BY Zenon, <1>1, <1>2, ThreadTyped DEF NextCore
<1>5. Moves(t) /\ th'[t].pc \in {"deinit", "emergency"} BY Zenon, <1>2, <1>3, <1>4, MovesTo
<1> QED BY Zenon, <1>1, <1>2, <1>5, FirstCore, ExitAside DEF AwaitingOK, ExitPcs
-----------------------------------------------------------------------------
(***************************************************************************)
(* The orchestrator thread and the hand-over.                              *)
(***************************************************************************)
LEMMA HandOverOrch ==
    ASSUME HandOverOK, Moves(Orch), th[Orch].pc \in OrchPcs, th'[Orch].pc \in OrchPcs,
           ctl'.reassigned = ctl.reassigned, ctl'.completed = ctl.completed, ctl'.waiting = ctl.waiting
    PROVE  HandOverOK'
<1>1. \A u \in SchedThreads : th'[u] = th[u] BY Zenon, ThreadFacts DEF Moves
<1>2. Waiting' = Waiting BY Zenon, <1>1 DEF Waiting
<1>3. th'[Orch].pc \notin LoopPcs BY Zenon DEF OrchPcs, LoopPcs
<1> QED BY Zenon, <1>1, <1>2, <1>3 DEF HandOverOK

LEMMA OrchKeeps ==
    ASSUME SlotInv, launch' = launch, OrchFatal \/ OrchDone \/ RequestTransition
    PROVE  SlotInv'
<1>1. TypeOK /\ Orch \in Threads /\ Quiet /\ th[Orch].pc \in OrchPcs
  BY Zenon, ThreadFacts DEF SlotInv, OrchFatal, OrchDone, RequestTransition, OrchPcs
<1>2. ASSUME NEW p \in OrchPcs, th' = [th EXCEPT ![Orch].pc = p], ctl' \in CtlState,
             ctl'.reassigned = ctl.reassigned, ctl'.completed = ctl.completed, ctl'.waiting = ctl.waiting
      PROVE  SlotInv'
  <2> DEFINE n == [th[Orch] EXCEPT !.pc = p]
  <2>1. n \in ThreadState /\ n.pc = p BY Zenon, <1>1, ThreadTyped DEF ThreadState
  <2>2. th' = [th EXCEPT ![Orch] = n] BY Zenon, <1>1, <1>2, ThreadTyped
  <2>3. Moves(Orch) /\ th'[Orch].pc = p BY Zenon, <1>1, <2>1, <2>2, MovesTo
  <2>4. HandOverOK' BY Zenon, <1>1, <1>2, <2>3, HandOverOrch DEF SlotInv
  <2>5. th'[Orch].pc \notin {"batch", "send", "await", "await_all", "poll"} BY Zenon, <2>3 DEF OrchPcs
  <2> QED BY Zenon, <1>1, <1>2, <2>3, <2>4, <2>5, LoopAside
<1>3. ctl \in CtlState BY Zenon, <1>1, CtlFacts
<1>4. CASE OrchFatal
  <2> DEFINE c == [ctl EXCEPT !.error = TRUE]
  <2>1. c \in CtlState /\ c.reassigned = ctl.reassigned /\ c.completed = ctl.completed /\ c.waiting = ctl.waiting
    BY Zenon, <1>3 DEF CtlState
  <2>2. ctl' = c /\ th' = th /\ th[Orch].pc = "orch" BY Zenon, <1>4 DEF OrchFatal
  <2>3. th' = [th EXCEPT ![Orch].pc = "orch"]
    <3>1. [th[Orch] EXCEPT !.pc = "orch"] = th[Orch] BY Zenon, <1>1, <2>2, ThreadTyped DEF ThreadState
    <3> QED BY Zenon, <1>1, <2>2, <3>1, ThreadTyped
  <2> QED BY Zenon, <1>2, <2>1, <2>2, <2>3 DEF OrchPcs
<1>5. CASE OrchDone
  <2> DEFINE c == [ctl EXCEPT !.orch_done = TRUE]
  <2>1. c \in CtlState /\ c.reassigned = ctl.reassigned /\ c.completed = ctl.completed /\ c.waiting = ctl.waiting
    BY Zenon, <1>3 DEF CtlState
  <2>2. ctl' = c /\ th' = [th EXCEPT ![Orch].pc = "orch_done"] BY Zenon, <1>5 DEF OrchDone
  <2> QED BY Zenon, <1>2, <2>1, <2>2 DEF OrchPcs
<1>6. CASE RequestTransition
  <2>1. CASE ShutDownAll(Orch) BY Zenon, <1>1, <2>1, ShutDownKeeps
  <2>2. CASE ctl.completed /\ ctl' = [ctl EXCEPT !.requested = TRUE, !.reassigned = TRUE] /\ Leave(Orch)
    <3>1. ctl' \in CtlState /\ ctl'.completed BY Zenon, <1>3, <2>2 DEF CtlState
    <3>2. Moves(Orch) /\ th'[Orch].pc = "deinit" BY Zenon, <1>1, <2>2, LeaveMoves
    <3>3. \A u \in SchedThreads : th'[u] = th[u] BY Zenon, <3>2, ThreadFacts DEF Moves
    <3>4. HandOverOK' BY Zenon, <3>1, <3>2, <3>3 DEF HandOverOK, SlotInv, OrchPcs, LoopPcs
    <3> QED BY Zenon, <1>1, <3>1, <3>2, <3>4, LoopAside
  <2>3. CASE ctl' = [ctl EXCEPT !.requested = TRUE] /\ th' = [th EXCEPT ![Orch].pc = "orch_wait"]
    <3> DEFINE c == [ctl EXCEPT !.requested = TRUE]
    <3>1. c \in CtlState /\ c.reassigned = ctl.reassigned /\ c.completed = ctl.completed /\ c.waiting = ctl.waiting
      BY Zenon, <1>3 DEF CtlState
    <3> QED BY Zenon, <1>2, <2>3, <3>1 DEF OrchPcs
  <2>4. CASE Leave(Orch) /\ ctl' = ctl
    <3>1. Moves(Orch) /\ th'[Orch].pc = "deinit" BY Zenon, <1>1, <2>4, LeaveMoves
    <3>2. th[Orch].pc # "transition" BY Zenon, <1>1 DEF OrchPcs
    <3>3. HandOverOK' BY Zenon, <1>1, <2>4, <3>1, <3>2, HandOverMoves DEF SlotInv, ExitPcs
    <3> QED BY Zenon, <1>1, <1>3, <2>4, <3>1, <3>3, LoopAside
  <2> QED BY <1>6, <2>1, <2>2, <2>3, <2>4, Zenon DEF RequestTransition
<1> QED BY Zenon, <1>4, <1>5, <1>6

\* The cores change hands while every scheduler thread waits, so no choice of cores is out of date.
LEMMA ReassignKeeps ==
    ASSUME LibraryFacts, SlotInv, launch' = launch, Reassign
    PROVE  SlotInv'
<1>1. TypeOK /\ Orch \in Threads /\ th[Orch].pc = "orch_wait" /\ ~ctl.reassigned
  BY Zenon, ThreadFacts DEF SlotInv, Reassign, HandOverOK, OrchPcs
<1>2. CASE ctl.completed /\ Leave(Orch) /\ UNCHANGED <<ctl, owner, slot>>
  <2>1. Quiet BY Zenon, <1>2 DEF Quiet, Reassign, aicore, shared
  <2> QED BY Zenon, <1>1, <1>2, <2>1, CtlFacts, LeaveKeeps
<1>3. CASE /\ ~ctl.completed /\ ctl.waiting = Cardinality(SchedThreads)
           /\ reassign_cores_for_all_threads /\ ctl' = [ctl EXCEPT !.reassigned = TRUE]
           /\ th' = [th EXCEPT ![Orch].pc = "top"]
  <2>1. UNCHANGED <<data, cond, core, buffer, ready, next>> BY Zenon DEF Reassign, aicore, shared
  <2>2. \A t \in SchedThreads : th[t].pc = "transition"
    <3>1. Waiting \subseteq SchedThreads BY Zenon DEF Waiting
    <3>2. Cardinality(Waiting) = Cardinality(SchedThreads) BY Zenon, <1>1, <1>3 DEF SlotInv, HandOverOK
    <3>3. Waiting = SchedThreads BY Zenon, <3>1, <3>2, FiniteThreads DEF LibraryFacts
    <3> QED BY Zenon, <3>3 DEF Waiting
  <2> DEFINE n == [th[Orch] EXCEPT !.pc = "top"]
  <2>3. n \in ThreadState /\ n.pc = "top" BY Zenon, <1>1, ThreadTyped DEF ThreadState, LoopPcs
  <2>4. th' = [th EXCEPT ![Orch] = n] BY Zenon, <1>1, <1>3, ThreadTyped
  <2>5. Moves(Orch) /\ th'[Orch].pc = "top" BY Zenon, <1>1, <2>3, <2>4, MovesTo
  <2>6. \A t \in Threads : th'[t].pc \in {"top", "transition"}
    BY Zenon, <2>2, <2>5, ThreadFacts DEF Moves
  <2>7. Cores' = Cores /\ Tasks' = Tasks /\ ThreadState' = ThreadState BY Zenon, Fixed
  <2>8. /\ owner' = [i \in DOMAIN owner |-> i % ThreadNum]
        /\ slot' = [c \in Cores |-> [slot[c] EXCEPT !.occupied = ~slot[c].idle]]
    BY <1>3, Zenon DEF reassign_cores_for_all_threads
  <2>9. owner' \in [0..launch.clusters - 1 -> Threads]
    <3>1. DOMAIN owner = 0..launch.clusters - 1 BY Zenon, <1>1 DEF TypeOK
    <3>2. ThreadNum \in Nat \ {0} /\ launch.clusters \in Nat BY Zenon, <1>1, ThreadAssumption, LaunchFacts DEF TypeOK
    <3>3. \A i \in 0..launch.clusters - 1 : i % ThreadNum \in 0..ThreadNum - 1 BY <3>2
    <3> QED BY Zenon, <2>8, <3>1, <3>3 DEF Threads
  <2>10. slot' \in [Cores -> SlotState]
    <3>1. \A c \in Cores : slot[c] \in SlotState BY Zenon, <1>1 DEF TypeOK
    <3>2. \A c \in Cores : [slot[c] EXCEPT !.occupied = ~slot[c].idle] \in SlotState BY Zenon, <3>1 DEF SlotState
    <3> QED BY Zenon, <2>8, <3>2
  <2>11. ctl' \in CtlState /\ ctl'.reassigned BY Zenon, <1>1, <1>3, CtlFacts DEF CtlState
  <2>12. TypeOK' BY Zenon, <1>1, <2>1, <2>5, <2>7, <2>9, <2>10, <2>11 DEF TypeOK, Moves
  <2>13. CoresOK'
    <3> SUFFICES ASSUME NEW c \in Cores
                 PROVE  CoreOK(data[c], cond[c], core[c], slot'[c], buffer[c])
      BY Zenon, <2>1, <2>7 DEF CoresOK
    <3>1. /\ OneCore(data[c], cond[c], core[c], slot[c], buffer[c])
          /\ CoreOK(data[c], cond[c], core[c], slot[c], buffer[c])
      BY Zenon DEF SlotInv, TypeOK, OneCore, CoresOK
    <3>2. slot'[c] = [slot[c] EXCEPT !.occupied = ~slot[c].idle] BY Zenon, <2>8
    <3>3. CoreOK(data[c], cond[c], core[c], [slot[c] EXCEPT !.occupied = ~slot[c].idle], buffer[c])
      BY Zenon, <3>1, DealOne
    <3> QED BY <3>2, <3>3, Zenon
  <2>14. ThreadsOK'
    <3>1. \A t \in Threads : th'[t].pc \notin {"batch", "send", "poll", "await", "await_all"} BY Zenon, <2>6
    <3> QED BY <3>1, Zenon DEF ThreadsOK, ChosenOK, BatchOK, PollingOK, AwaitingOK, Dispatching
  <2>15. QueuesOK'
    <3>1. \A t \in Threads : HeldBy(th'[t]) = {} BY Zenon, <2>6 DEF HeldBy
    <3>2. Held' = [t \in Threads |-> HeldBy(th'[t])] BY Zenon DEF Held
    <3>3. \A t \in Threads : Held'[t] = {} BY Zenon, <3>1, <3>2
    <3>4. QueuesFit(ready, next, Held', Tasks) BY Zenon, <3>3 DEF SlotInv, QueuesOK, QueuesFit
    <3> QED BY Zenon, <2>1, <2>7, <3>4 DEF QueuesOK
  <2>16. HandOverOK' BY Zenon, <2>6, <2>11, ThreadFacts DEF HandOverOK, OrchPcs
  <2> QED BY Zenon, <2>12, <2>13, <2>14, <2>15, <2>16 DEF SlotInv
<1> QED BY Zenon, <1>2, <1>3 DEF Reassign
-----------------------------------------------------------------------------
(***************************************************************************)
(* Completion and dispatch.                                                *)
(***************************************************************************)
\* What complete_slot_task does to the thread and to the counters.
LEMMA CompleteMoves ==
    ASSUME LibraryFacts, TypeOK, NEW t \in Threads, th[t].pc = "poll", PollingOK(t), NEW ks, complete_slot_task(t, ks)
    PROVE  /\ Moves(t) /\ th'[t].pc \in {"shape", "poll"} /\ th'[t].cores = th[t].cores \ {Min(th[t].cores)}
           /\ th'[t].pc = "poll" => th'[t].cores # {}
           /\ ctl' \in CtlState /\ ctl'.waiting = ctl.waiting
           /\ ctl'.completed = ctl.completed /\ ctl'.reassigned = ctl.reassigned
<1>1. PICK turn \in Nat :
        LET last == Cardinality(th[t].cores) = 1 IN
        /\ ctl' = IF last THEN [ctl EXCEPT !.tasks = @ + turn] ELSE ctl
        /\ th' = [th EXCEPT ![t].cores = @ \ {Min(@)}, ![t].progress = @ \/ ks # <<>>,
                            ![t].turn = IF last THEN 0 ELSE turn, ![t].pc = IF last THEN "shape" ELSE "poll"]
  <2> DEFINE total == [k \in DOMAIN Tasks |-> subtasks[k] + Cardinality({i \in DOMAIN ks : ks[i] = k})]
             mixed == {k \in DOMAIN Tasks : subtasks[k] < Required(k) /\ total[k] >= Required(k)}
  <2>1. mixed \subseteq DOMAIN Tasks BY Zenon
  <2>2. Cardinality(mixed) \in Nat
    <3> HIDE DEF mixed
    <3> QED BY Zenon, <2>1, FiniteLaunch DEF TypeOK, LibraryFacts
  <2>3. th[t].turn + Cardinality(mixed) \in Nat BY <2>2, ThreadTyped
  <2> QED BY <2>3, Zenon DEF complete_slot_task
<1> DEFINE last == Cardinality(th[t].cores) = 1
           n == [th[t] EXCEPT !.cores = @ \ {Min(@)}, !.progress = @ \/ ks # <<>>,
                              !.turn = IF last THEN 0 ELSE turn, !.pc = IF last THEN "shape" ELSE "poll"]
<1>2. /\ n \in ThreadState /\ n.pc = (IF last THEN "shape" ELSE "poll")
      /\ n.cores = th[t].cores \ {Min(th[t].cores)}
  BY ZenonT(30), ThreadTyped DEF ThreadState, LoopPcs
<1>3. th' = [th EXCEPT ![t] = n] BY Zenon, <1>1, ThreadTyped
<1> HIDE DEF n
<1>4. Moves(t) /\ th'[t] = n BY Zenon, <1>2, <1>3, MovesTo
<1>5. th[t].cores \ {Min(th[t].cores)} = {} => last
  <2>1. th[t].cores # {} BY Zenon DEF PollingOK
  <2>2. Min(th[t].cores) \in th[t].cores BY Zenon, <2>1, FirstCore
  <2>3. ASSUME th[t].cores \ {Min(th[t].cores)} = {} PROVE th[t].cores = {Min(th[t].cores)} BY Zenon, <2>2, <2>3
  <2> QED BY Zenon, <2>3 DEF LibraryFacts
<1>6. /\ ctl' \in CtlState /\ ctl'.waiting = ctl.waiting
      /\ ctl'.completed = ctl.completed /\ ctl'.reassigned = ctl.reassigned
  <2>1. ctl \in CtlState BY Zenon DEF TypeOK
  <2>2. ctl.tasks + turn \in Nat BY <2>1 DEF CtlState
  <2> QED BY Zenon, <1>1, <2>1, <2>2 DEF CtlState
<1> QED BY Zenon, <1>2, <1>4, <1>5, <1>6

LEMMA PollKeeps ==
    ASSUME LibraryFacts, SlotInv, NEW t \in Threads, launch' = launch, Poll(t)
    PROVE  SlotInv'
<1> DEFINE c == Min(th[t].cores)
           d == decide_slot_transition(cond[c], slot[c])
<1>1. /\ th[t].pc = "poll" /\ UNCHANGED <<data, cond, core, buffer, owner, ready, next>>
      /\ slot' = IF d.matched THEN [slot EXCEPT ![c] = ApplyTransition(slot[c], d)] ELSE slot
  BY Zenon DEF Poll, aicore
<1>2. PICK ks : complete_slot_task(t, ks) BY Zenon DEF Poll
<1>3. TypeOK /\ PollingOK(t) BY Zenon DEF SlotInv, ThreadsOK
<1>4. c \in th[t].cores /\ c \in Cores /\ c \in Owned(t) /\ th[t].cores \subseteq Owned(t)
  BY Zenon, <1>1, <1>3, FirstCore DEF PollingOK
<1>5. /\ Moves(t) /\ th'[t].pc \in {"shape", "poll"} /\ th'[t].cores = th[t].cores \ {c}
      /\ th'[t].pc = "poll" => th'[t].cores # {}
      /\ ctl' \in CtlState /\ ctl'.waiting = ctl.waiting
      /\ ctl'.completed = ctl.completed /\ ctl'.reassigned = ctl.reassigned
  BY Zenon, <1>1, <1>2, <1>3, CompleteMoves
<1>6. Cores' = Cores /\ Tasks' = Tasks /\ ThreadState' = ThreadState /\ Owned(t)' = Owned(t)
  BY Zenon, <1>1, Fixed DEF Owned
<1>7. /\ OneCore(data[c], cond[c], core[c], slot[c], buffer[c])
      /\ CoreOK(data[c], cond[c], core[c], slot[c], buffer[c])
  BY Zenon, <1>4 DEF SlotInv, TypeOK, OneCore, CoresOK
<1>8. ApplyTransition(slot[c], d) \in SlotState BY Zenon, <1>7, DecideOne, ApplyOne DEF OneCore
<1> HIDE DEF d, c
<1>9. /\ slot' \in [Cores -> SlotState] /\ \A x \in Cores \ {c} : slot'[x] = slot[x]
      /\ slot'[c] = IF d.matched THEN ApplyTransition(slot[c], d) ELSE slot[c]
  BY Zenon, <1>1, <1>3, <1>4, <1>8 DEF TypeOK
<1>10. TypeOK' BY Zenon, <1>1, <1>3, <1>5, <1>6, <1>9 DEF TypeOK, Moves
<1>11. CoresOK'
  <2> SUFFICES ASSUME NEW x \in Cores
               PROVE  CoreOK(data[x], cond[x], core[x], slot'[x], buffer[x])
    BY Zenon, <1>1, <1>6 DEF CoresOK
  <2>1. CASE x = c /\ d.matched
    BY Zenon, <1>7, <1>9, <2>1, PollOne DEF d
  <2>2. CASE x # c \/ ~d.matched
    <3>1. slot'[x] = slot[x] BY Zenon, <1>9, <2>2
    <3>2. CoreOK(data[x], cond[x], core[x], slot[x], buffer[x]) BY Zenon DEF SlotInv, CoresOK
    <3> QED BY <3>1, <3>2, Zenon
  <2> QED BY Zenon, <2>1, <2>2
<1>12. ThreadsOK'
  <2> SUFFICES ASSUME NEW u \in Threads
               PROVE  ChosenOK(u)' /\ BatchOK(u)' /\ PollingOK(u)' /\ AwaitingOK(u)'
    BY Zenon DEF ThreadsOK
  <2>1. CASE u = t
    <3>1. PollingOK(t)' BY Zenon, <1>4, <1>5, <1>6 DEF PollingOK
    <3>2. th'[t].pc \notin {"batch", "send", "await", "await_all"} BY Zenon, <1>5
    <3> QED BY Zenon, <2>1, <3>1, <3>2 DEF ChosenOK, BatchOK, AwaitingOK, Dispatching
  <2>2. CASE u # t
    <3>1. \A x \in Owned(u) : x \in Cores \ {c} BY Zenon, <1>4, <2>2 DEF Owned
    <3>2. th'[u] = th[u] /\ \A x \in Owned(u) : slot'[x] = slot[x] BY Zenon, <1>5, <1>9, <2>2, <3>1 DEF Moves
    <3> QED BY Zenon, <1>1, <3>2, OtherThreads DEF SlotInv, ThreadsOK
  <2> QED BY Zenon, <2>1, <2>2
<1>13. QueuesOK'
  <2>1. HeldBy(th'[t]) = {} BY Zenon, <1>5 DEF HeldBy
  <2>2. Held' = [u \in Threads |-> HeldBy(th'[u])] BY Zenon DEF Held
  <2>3. \A u \in Threads : Held'[u] \subseteq Held[u] BY Zenon, <1>5, <2>1, <2>2 DEF Held, Moves
  <2>4. QueuesFit(ready, next, Held', Tasks) BY Zenon, <2>3 DEF SlotInv, QueuesOK, QueuesFit
  <2> QED BY Zenon, <1>1, <1>6, <2>4 DEF QueuesOK
<1>14. HandOverOK' BY Zenon, <1>1, <1>5, HandOverMoves DEF SlotInv, LoopPcs
<1> QED BY Zenon, <1>10, <1>11, <1>12, <1>13, <1>14 DEF SlotInv

\* A queue without repetitions, cut, joined or extended.
LEMMA CutQueue ==
    ASSUME LibraryFacts, NEW S, NEW q \in Seq(S), NEW n \in 1..Len(q), Once(q)
    PROVE  LET a == SubSeq(q, 1, n)
               b == SubSeq(q, n + 1, Len(q))
           IN /\ a \in Seq(S) /\ a # <<>> /\ Once(a) /\ Range(a) \subseteq Range(q)
              /\ b \in Seq(S) /\ Once(b) /\ Range(b) \subseteq Range(q)
              /\ Range(a) \cap Range(b) = {}
<1> DEFINE a == SubSeq(q, 1, n)
           b == SubSeq(q, n + 1, Len(q))
<1>1. Len(q) \in Nat /\ DOMAIN q = 1..Len(q) /\ n \in Nat /\ 1 <= n /\ n <= Len(q) OBVIOUS
<1>2. a \in Seq(S) /\ Len(a) = n /\ DOMAIN a = 1..n /\ \A i \in 1..n : a[i] = q[i]
  BY <1>1
<1>3. /\ b \in Seq(S) /\ Len(b) = Len(q) - n /\ DOMAIN b = 1..Len(q) - n
      /\ \A i \in 1..Len(q) - n : i + n \in DOMAIN q /\ b[i] = q[i + n]
  <2>1. n + 1 \in Int /\ Len(q) \in Int /\ \A i \in n + 1..Len(q) : q[i] \in S BY <1>1
  <2>2. b \in Seq(S) BY Zenon DEF LibraryFacts
  <2>3. \A i \in 1..Len(q) - n : i + n \in DOMAIN q BY <1>1
  <2>4. \A i \in 1..Len(q) - n : b[i] = q[i + n] BY <1>1
  <2>5. Len(b) = Len(q) - n
    <3>1. CASE n + 1 <= Len(q) BY <1>1, <3>1
    <3>2. CASE ~(n + 1 <= Len(q))
      <4>1. b = <<>> BY <3>2, Zenon DEF LibraryFacts
      <4> HIDE DEF b
      <4>2. Len(b) = 0 BY Zenon, <4>1
      <4>3. \A x, y \in Nat : x <= y /\ ~(x + 1 <= y) => x = y /\ y - x = 0 OBVIOUS
      <4> QED BY <1>1, <3>2, <4>2, <4>3, Zenon
    <3> QED BY Zenon, <3>1, <3>2
  <2> QED BY <2>2, <2>3, <2>4, <2>5
<1> HIDE DEF a, b
<1>4. a # <<>> BY <1>1, <1>2
<1>5. Once(a) BY <1>1, <1>2 DEF Once
<1>6. Once(b)
  <2> SUFFICES ASSUME NEW i \in 1..Len(q) - n, NEW j \in 1..Len(q) - n, b[i] = b[j] PROVE i = j
    BY Zenon, <1>3 DEF Once
  <2>1. i + n = j + n BY Zenon, <1>3 DEF Once
  <2> QED BY <1>1, <2>1
<1>7. Range(a) \subseteq Range(q) BY <1>1, <1>2 DEF Range
<1>8. Range(b) \subseteq Range(q) BY Zenon, <1>1, <1>3 DEF Range
<1>9. Range(a) \cap Range(b) = {}
  <2>1. ASSUME NEW i \in 1..n, NEW j \in 1..Len(q) - n, a[i] = b[j] PROVE FALSE
    <3>1. i \in DOMAIN q /\ q[i] = q[j + n] BY <1>1, <1>2, <1>3, <2>1
    <3>2. i = j + n BY Zenon, <1>3, <3>1 DEF Once
    <3> QED BY <1>1, <3>2
  <2> QED BY <1>2, <1>3, <2>1 DEF Range
<1> QED BY Zenon, <1>2, <1>3, <1>4, <1>5, <1>6, <1>7, <1>8, <1>9 DEF a, b

LEMMA JoinQueues ==
    ASSUME NEW S, NEW q \in Seq(S), NEW r \in Seq(S), Once(q), Once(r), Range(q) \cap Range(r) = {}
    PROVE  q \o r \in Seq(S) /\ Once(q \o r) /\ Range(q \o r) = Range(q) \cup Range(r)
<1> DEFINE z == q \o r
<1>1. /\ Len(q) \in Nat /\ DOMAIN q = 1..Len(q) /\ Len(r) \in Nat /\ DOMAIN r = 1..Len(r)
      /\ z \in Seq(S) /\ DOMAIN z = 1..Len(q) + Len(r)
      /\ \A i \in 1..Len(q) + Len(r) : z[i] = IF i <= Len(q) THEN q[i] ELSE r[i - Len(q)]
  OBVIOUS
<1> HIDE DEF z
<1>2. \A i \in 1..Len(q), j \in 1..Len(r) : q[i] # r[j] BY Zenon, <1>1 DEF Range
<1>3. Once(z)
  <2> SUFFICES ASSUME NEW i \in 1..Len(q) + Len(r), NEW j \in 1..Len(q) + Len(r), z[i] = z[j]
               PROVE  i = j
    BY Zenon, <1>1 DEF Once
  <2>1. CASE i <= Len(q) /\ j <= Len(q) BY <1>1, <2>1 DEF Once
  <2>2. CASE i > Len(q) /\ j > Len(q)
    <3>1. i - Len(q) \in DOMAIN r /\ j - Len(q) \in DOMAIN r /\ r[i - Len(q)] = r[j - Len(q)] BY <1>1, <2>2
    <3>2. i - Len(q) = j - Len(q) BY Zenon, <3>1 DEF Once
    <3> QED BY <1>1, <3>2
  <2>3. CASE i <= Len(q) /\ j > Len(q)
    <3>1. i \in 1..Len(q) /\ j - Len(q) \in 1..Len(r) /\ z[i] = q[i] /\ z[j] = r[j - Len(q)] BY <1>1, <2>3
    <3> QED BY Zenon, <1>2, <3>1
  <2>4. CASE i > Len(q) /\ j <= Len(q)
    <3>1. j \in 1..Len(q) /\ i - Len(q) \in 1..Len(r) /\ z[j] = q[j] /\ z[i] = r[i - Len(q)] BY <1>1, <2>4
    <3> QED BY Zenon, <1>2, <3>1
  <2> QED BY <1>1, <2>1, <2>2, <2>3, <2>4
<1>4. Range(z) = Range(q) \cup Range(r)
  <2>1. Range(z) \subseteq Range(q) \cup Range(r)
    <3> SUFFICES ASSUME NEW i \in 1..Len(q) + Len(r) PROVE z[i] \in Range(q) \cup Range(r)
      BY Zenon, <1>1 DEF Range
    <3>1. CASE i <= Len(q) BY <1>1, <3>1 DEF Range
    <3>2. CASE i > Len(q)
      <4>1. i - Len(q) \in DOMAIN r /\ z[i] = r[i - Len(q)] BY <1>1, <3>2
      <4> QED BY Zenon, <4>1 DEF Range
    <3> QED BY <1>1, <3>1, <3>2
  <2>2. \A i \in DOMAIN q : i \in DOMAIN z /\ z[i] = q[i] BY <1>1
  <2>3. \A i \in DOMAIN r : i + Len(q) \in DOMAIN z /\ z[i + Len(q)] = r[i] BY <1>1
  <2>4. Range(q) \subseteq Range(z) BY Zenon, <2>2 DEF Range
  <2>5. Range(r) \subseteq Range(z) BY Zenon, <2>3 DEF Range
  <2> QED BY Zenon, <2>1, <2>4, <2>5
<1> QED BY Zenon, <1>1, <1>3, <1>4 DEF z

LEMMA AppendQueue ==
    ASSUME NEW S, NEW q \in Seq(S), NEW k \in S, Once(q), k \notin Range(q)
    PROVE  Append(q, k) \in Seq(S) /\ Once(Append(q, k)) /\ Range(Append(q, k)) = Range(q) \cup {k}
<1> DEFINE z == Append(q, k)
<1>1. /\ Len(q) \in Nat /\ DOMAIN q = 1..Len(q) /\ z \in Seq(S) /\ DOMAIN z = 1..Len(q) + 1
      /\ \A i \in 1..Len(q) : z[i] = q[i]
      /\ z[Len(q) + 1] = k
  OBVIOUS
<1> HIDE DEF z
<1>2. \A i \in 1..Len(q) : q[i] # k BY Zenon, <1>1 DEF Range
<1>3. Once(z)
  <2>1. \A i \in 1..Len(q) + 1 : i \in 1..Len(q) \/ i = Len(q) + 1 BY <1>1
  <2> QED BY Zenon, <1>1, <1>2, <2>1 DEF Once
<1>4. Range(z) = Range(q) \cup {k}
  <2>1. \A i \in 1..Len(q) + 1 : i \in 1..Len(q) \/ i = Len(q) + 1 BY <1>1
  <2>2. 1..Len(q) \subseteq 1..Len(q) + 1 /\ Len(q) + 1 \in 1..Len(q) + 1 BY <1>1
  <2> QED BY Zenon, <1>1, <2>1, <2>2 DEF Range
<1> QED BY Zenon, <1>1, <1>3, <1>4 DEF z
-----------------------------------------------------------------------------
(***************************************************************************)
(* Where a block is.  It is unclaimed, claimed by a thread that sends it,  *)
(* in a slot of one core of each of its kinds, where its kernel is still   *)
(* to end (Waits) or has ended (Past), or gone, its completion counted.    *)
(***************************************************************************)
Kinds == {"AIC", "AIV"}
Fit(p, x) == <<p[1], p[2], x>> \in Works
RanOf(rn, p, x) == rn[<<p[1], p[2], x>>]

Waits(k, s) ==
    (IF s.running # NoWork /\ k.last \notin {s.running_id, s.pending_id} THEN {s.running} ELSE {})
      \cup (IF s.pending # NoWork /\ k.last # s.pending_id THEN {s.pending} ELSE {})
Past(k, s) ==
    (IF s.running # NoWork /\ k.last \in {s.running_id, s.pending_id} THEN {s.running} ELSE {})
      \cup (IF s.pending # NoWork /\ k.last = s.pending_id THEN {s.pending} ELSE {})
Apart(s) == s.running # NoWork => s.running # s.pending

ClaimedBy(x) ==
    IF x.pc = "send" THEN {<<Head(x.batch), b>> : b \in x.block..x.block + x.claim - 1} ELSE {}

Unclaimed == {p \in Work : p[1] \in DOMAIN Tasks /\ p[2] >= next[p[1]]}
Claimed == [t \in Threads |-> ClaimedBy(th[t])]
Awaited == [c \in Cores |-> Waits(core[c], slot[c])]
Passed == [c \in Cores |-> Past(core[c], slot[c])]

\* A block is in one of these places, once for each kind; its kernel ran once it has ended.
Open(un, cl, wt, p, x) ==
    p \in un \/ (\E t \in Threads : p \in cl[t]) \/ \E c \in Cores : Kind(c) = x /\ p \in wt[c]

Placed(un, cl, wt, pa, rn) ==
    /\ \A t \in Threads : \A p \in cl[t] : /\ p \in Work /\ p[1] \in DOMAIN Tasks /\ p \notin un
                                           /\ \A u \in Threads : p \in cl[u] => u = t
    /\ \A c \in Cores : \A p \in wt[c] : /\ p \in Work /\ Fit(p, Kind(c)) /\ p \notin un
                                         /\ \A t \in Threads : p \notin cl[t]
                                         /\ \A d \in Cores : Kind(d) = Kind(c) /\ p \in wt[d] => d = c
    /\ \A c \in Cores : \A p \in pa[c] : /\ p \in Work /\ Fit(p, Kind(c)) /\ RanOf(rn, p, Kind(c)) = 1
                                         /\ \A d \in Cores : Kind(d) = Kind(c) /\ p \in pa[d] => d = c
    /\ \A p \in Work, x \in Kinds : Fit(p, x) => RanOf(rn, p, x) = IF Open(un, cl, wt, p, x) THEN 0 ELSE 1

\* What complete_slot_task has counted.
Blocks(k) == (0..Tasks[k].blocks - 1) \X KindsOf(k)
Gone(rn, pa, k) ==
    {y \in Blocks(k) : /\ RanOf(rn, <<k, y[1]>>, y[2]) = 1
                       /\ \A c \in Cores : Kind(c) = y[2] => <<k, y[1]>> \notin pa[c]}
Counted(rn, pa, sb, fi) ==
    \A k \in DOMAIN Tasks : /\ sb[k] = Cardinality(Gone(rn, pa, k))
                            /\ fi[k] = IF sb[k] >= Required(k) THEN 1 ELSE 0

HistoryOK ==
    /\ ran \in [Works -> Nat] /\ subtasks \in [DOMAIN Tasks -> Nat] /\ finished \in [DOMAIN Tasks -> Nat]
    /\ \A c \in Cores : /\ Apart(slot[c])
                        /\ \A i \in {0, 1} : buffer[c][i] = NoWork \/ Fit(buffer[c][i], Kind(c))
WorkInv ==
    /\ HistoryOK
    /\ Placed(Unclaimed, Claimed, Awaited, Passed, ran)
    /\ Counted(ran, Passed, subtasks, finished)
-----------------------------------------------------------------------------
(***************************************************************************)
(* The works of one core.                                                  *)
(***************************************************************************)
\* The id in execution is that of a work that waits; when the kernel ends the work is past.
LEMMA FinishWorks ==
    ASSUME NEW d, NEW q, NEW k, NEW s, NEW b, OneCore(d, q, k, s, b), CoreOK(d, q, k, s, b), k.pc = "exec", Apart(s),
           NEW n, n.last = k.id
    PROVE  LET w == b[k.id % 2] IN
           /\ w # NoWork /\ w \in Waits(k, s) /\ Waits(n, s) = Waits(k, s) \ {w} /\ Past(n, s) = Past(k, s) \cup {w}
<1> DEFINE w == b[k.id % 2]
<1>1. s.seq \in Ids /\ s.seq # Invalid /\ k.last # Invalid
  BY ReservedIds DEF OneCore, SlotState, CoreState, Regs, Invalid
<1>2. ~s.idle BY Zenon DEF CoreOK, Free
<1>3. CASE One(q, k, s, b)
  <2>1. /\ k.id = s.seq /\ s.running_id = s.seq /\ w = s.running /\ w # NoWork /\ s.pending = NoWork
        /\ s.pending_id = Invalid /\ k.last # s.seq
    BY Zenon, <1>3 DEF One, Unseen, Executing, Ended
  <2>2. Waits(k, s) = {w} /\ Past(k, s) = {} BY Zenon, <1>1, <2>1 DEF Waits, Past
  <2>3. Waits(n, s) = {} /\ Past(n, s) = {w} BY Zenon, <1>1, <2>1 DEF Waits, Past
  <2> QED BY Zenon, <2>1, <2>2, <2>3
<1>4. CASE Two(q, k, s, b)
  <2>1. /\ s.running # NoWork /\ s.pending # NoWork /\ s.running # s.pending
        /\ s.running_id \in Ids /\ s.pending_id = NextId(s.running_id) /\ s.pending_id # s.running_id
    BY Zenon, <1>4, NextIdFacts DEF Two, Apart
  <2>2. CASE Executing(s.running_id, q, k)
    <3>1. k.id = s.running_id /\ w = s.running /\ k.last \notin {s.running_id, s.pending_id}
      BY Zenon, <1>4, <2>1, <2>2 DEF Two, Executing
    <3>2. Waits(k, s) = {s.running, s.pending} /\ Past(k, s) = {} BY Zenon, <2>1, <3>1 DEF Waits, Past
    <3>3. Waits(n, s) = {s.pending} /\ Past(n, s) = {s.running} BY Zenon, <2>1, <3>1 DEF Waits, Past
    <3> QED BY Zenon, <2>1, <3>1, <3>2, <3>3
  <2>3. CASE Executing(s.pending_id, q, k) /\ k.last = s.running_id
    <3>1. k.id = s.pending_id /\ w = s.pending /\ k.last = s.running_id
      BY Zenon, <1>4, <2>3 DEF Two, Executing
    <3>2. Waits(k, s) = {s.pending} /\ Past(k, s) = {s.running} BY Zenon, <2>1, <3>1 DEF Waits, Past
    <3>3. Waits(n, s) = {} /\ Past(n, s) = {s.running, s.pending} BY Zenon, <2>1, <3>1 DEF Waits, Past
    <3> QED BY Zenon, <2>1, <3>1, <3>2, <3>3
  <2> QED BY Zenon, <1>4, <2>2, <2>3 DEF Two, Ended
<1> QED BY Zenon, <1>2, <1>3, <1>4 DEF CoreOK

\* A block sent to a core waits there.
LEMMA OccupyWorks ==
    ASSUME NEW d, NEW q, NEW k, NEW s, NEW b, OneCore(d, q, k, s, b), CoreOK(d, q, k, s, b),
           NEW w \in Work, w # NoWork, w \notin Waits(k, s) \cup Past(k, s), NEW p \in 1..6, Fits(s, p)
    PROVE  LET n == Occupy(s, w, p % 2 = 0 /\ ~s.idle) IN
           Waits(k, n) = Waits(k, s) \cup {w} /\ Past(k, n) = Past(k, s) /\ Apart(n)
<1> DEFINE id == NextId(s.seq)
<1>1. /\ s.seq \in Ids /\ id \in Ids /\ id # s.seq /\ s \in SlotState /\ s.idle \in BOOLEAN
      /\ k.last # Invalid
  <2>1. k.last # Invalid BY DEF OneCore, CoreState, Regs, Invalid
  <2> QED BY Zenon, <2>1, NextIdFacts DEF OneCore, SlotState
<1>2. CASE s.idle
  <2> DEFINE n == Occupy(s, w, FALSE)
  <2>1. n.running = w /\ n.running_id = id /\ n.pending = s.pending /\ n.pending_id = s.pending_id
    BY Zenon, <1>1, OccupyRunning
  <2>2. /\ s.running = NoWork /\ s.pending = NoWork /\ s.pending_id = Invalid /\ k.last \in {s.seq, IdleId}
    BY Zenon, <1>2 DEF CoreOK, Free
  <2>3. k.last # id BY Zenon, <1>1, <2>2, ReservedIds
  <2> HIDE DEF n
  <2>4. Waits(k, s) = {} /\ Past(k, s) = {} BY Zenon, <2>2 DEF Waits, Past
  <2>5. Waits(k, n) = {w} /\ Past(k, n) = {} BY Zenon, <1>1, <2>1, <2>2, <2>3 DEF Waits, Past
  <2>6. (p % 2 = 0 /\ ~s.idle) = FALSE BY Zenon, <1>2
  <2>7. Apart(n) BY Zenon, <2>1, <2>2 DEF Apart
  <2> QED BY Zenon, <2>4, <2>5, <2>6, <2>7 DEF n
<1>3. CASE ~s.idle
  <2> DEFINE n == Occupy(s, w, TRUE)
  <2>1. n.running = s.running /\ n.running_id = s.running_id /\ n.pending = w /\ n.pending_id = id
    BY Zenon, <1>1, OccupyPending
  <2>2. p % 2 # 1 /\ ~s.occupied BY Zenon, <1>3 DEF Fits
  <2>3. One(q, k, s, b) BY Zenon, <1>3, <2>2 DEF CoreOK, Two
  <2>4. s.running # NoWork /\ s.pending = NoWork /\ s.pending_id = Invalid /\ s.running_id = s.seq /\ k.last # id
    BY Zenon, <1>1, <2>2, <2>3 DEF One, Executing, Ended
  <2> HIDE DEF n
  <2>5. s.running # w BY Zenon, <2>4 DEF Waits, Past
  <2>6. Waits(k, n) = Waits(k, s) \cup {w} /\ Past(k, n) = Past(k, s)
    <3>1. CASE k.last = s.seq BY Zenon, <1>1, <2>1, <2>4, <3>1 DEF Waits, Past
    <3>2. CASE k.last # s.seq BY Zenon, <1>1, <2>1, <2>4, <3>2 DEF Waits, Past
    <3> QED BY Zenon, <3>1, <3>2
  <2>7. p % 2 = 0 BY <2>2
  <2>8. (p % 2 = 0 /\ ~s.idle) = TRUE BY Zenon, <1>3, <2>7
  <2>9. Apart(n) BY Zenon, <2>1, <2>5 DEF Apart
  <2> QED BY Zenon, <2>6, <2>8, <2>9 DEF n
<1> QED BY Zenon, <1>1, <1>2, <1>3

\* The works a poll completes.
Completed(s, e) == (IF e.running_done THEN {s.running} ELSE {}) \cup (IF e.pending_done THEN {s.pending} ELSE {})

\* A poll completes only works whose kernels have ended, and leaves the others where they are.
LEMMA PollWorks ==
    ASSUME NEW d, NEW q, NEW k, NEW s, NEW b, OneCore(d, q, k, s, b), CoreOK(d, q, k, s, b), Apart(s)
    PROVE  LET e == decide_slot_transition(q, s)
               n == IF e.matched THEN ApplyTransition(s, e) ELSE s
           IN /\ Completed(s, e) \subseteq Past(k, s) /\ Past(k, n) = Past(k, s) \ Completed(s, e)
              /\ Waits(k, n) = Waits(k, s) /\ Apart(n)
              /\ e.pending_done => e.running_done /\ s.running # s.pending
<1> DEFINE e == decide_slot_transition(q, s)
           n == IF e.matched THEN ApplyTransition(s, e) ELSE s
<1>1. /\ q \in Regs \X {"ACK", "FIN"} /\ s \in SlotState /\ q[1] \in Regs /\ q[1] # Invalid /\ s.seq \in Ids
      /\ s.seq # Invalid /\ k.last # Invalid
  BY ReservedIds DEF OneCore, SlotState, CoreState, Regs, Invalid
<1>2. \A i \in Ids : q = <<ExitId, "FIN">> => q[1] # i BY ReservedIds
<1>3. CASE ~e.matched
  <2>1. n = s /\ ~e.running_done /\ ~e.pending_done BY Zenon, <1>1, <1>3, DecideOne
  <2>2. Completed(s, e) = {} BY Zenon, <2>1 DEF Completed
  <2> QED BY Zenon, <2>1, <2>2
<1>4. CASE e.matched /\ One(q, k, s, b)
  <2>1. s.running_id = s.seq /\ s.pending_id = Invalid /\ s.pending = NoWork /\ s.running # NoWork
    BY Zenon, <1>4 DEF One
  <2>2. ~Unseen(s.seq, q, k) BY Zenon, <1>1, <1>4, <2>1, DecideOne DEF Unseen
  <2>3. CASE Executing(s.seq, q, k)
    <3>1. q = <<s.running_id, "ACK">> BY Zenon, <2>1, <2>3 DEF Executing
    <3>2. ~e.running_done /\ ~e.pending_done BY <1>1, <2>1, <3>1, DecideOne
    <3>3. n.running = s.running /\ n.running_id = s.running_id /\ n.pending = s.pending /\ n.pending_id = s.pending_id
      BY ZenonT(30), <1>1, <1>4, <3>2, DecideOne, ApplyOne
    <3>4. Completed(s, e) = {} BY Zenon, <3>2 DEF Completed
    <3> HIDE DEF n, e
    <3>5. Waits(k, n) = Waits(k, s) /\ Past(k, n) = Past(k, s) /\ Apart(n) BY Zenon, <3>3 DEF Waits, Past, Apart
    <3> QED BY Zenon, <3>2, <3>4, <3>5 DEF n, e
  <2>4. CASE Ended(s.seq, q, k)
    <3>1. q = <<s.running_id, "FIN">> /\ k.last = s.running_id
      <4>1. q # <<ExitId, "FIN">> BY Zenon, <1>1, <1>2, <1>4, <2>1, DecideOne
      <4> QED BY Zenon, <2>1, <2>4, <4>1 DEF Ended
    <3>2. e.running_done /\ ~e.pending_done BY <1>1, <2>1, <3>1, DecideOne
    <3>3. n.running = NoWork /\ n.pending = NoWork
      <4>1. s.pending_id = Invalid /\ n = ApplyTransition(s, e) BY Zenon, <1>4, <2>1
      <4> QED BY Zenon, <1>1, <3>2, <4>1, DecideOne, ApplyOne
    <3>4. Completed(s, e) = {s.running} BY Zenon, <3>2 DEF Completed
    <3> HIDE DEF n, e
    <3>5. Waits(k, s) = {} /\ Past(k, s) = {s.running} BY Zenon, <2>1, <3>1 DEF Waits, Past
    <3>6. Waits(k, n) = {} /\ Past(k, n) = {} /\ Apart(n) BY Zenon, <3>3 DEF Waits, Past, Apart
    <3> QED BY Zenon, <3>2, <3>4, <3>5, <3>6 DEF n, e
  <2> QED BY Zenon, <1>4, <2>2, <2>3, <2>4 DEF One
<1>5. CASE e.matched /\ Two(q, k, s, b)
  <2>1. /\ s.running # NoWork /\ s.pending # NoWork /\ s.running # s.pending
        /\ s.running_id \in Ids /\ s.pending_id \in Ids /\ s.pending_id = NextId(s.running_id)
        /\ s.pending_id # s.running_id /\ s.pending_id # Invalid
    BY Zenon, <1>5, NextIdFacts, ReservedIds DEF Two, Apart
  <2>2. CASE Executing(s.running_id, q, k)
    <3>1. q = <<s.running_id, "ACK">> BY Zenon, <2>2 DEF Executing
    <3>2. ~e.running_done /\ ~e.pending_done BY SMTT(20), <1>1, <2>1, <3>1, DecideOne
    <3>3. n.running = s.running /\ n.running_id = s.running_id /\ n.pending = s.pending /\ n.pending_id = s.pending_id
      BY Zenon, <1>1, <1>5, <3>2, DecideOne, ApplyOne
    <3>4. Completed(s, e) = {} BY Zenon, <3>2 DEF Completed
    <3> HIDE DEF n, e
    <3>5. Waits(k, n) = Waits(k, s) /\ Past(k, n) = Past(k, s) /\ Apart(n) BY Zenon, <3>3 DEF Waits, Past, Apart
    <3> QED BY Zenon, <3>2, <3>4, <3>5 DEF n, e
  <2>3. CASE Ended(s.running_id, q, k)
    <3>1. q = <<s.running_id, "FIN">>
      <4>1. q # <<ExitId, "FIN">> BY Zenon, <1>1, <1>2, <1>5, <2>1, DecideOne
      <4> QED BY Zenon, <2>3, <4>1 DEF Ended
    <3> QED BY Zenon, <1>1, <1>5, <2>1, <3>1, DecideOne
  <2>4. CASE Executing(s.pending_id, q, k) /\ k.last = s.running_id
    <3>1. q[1] = s.pending_id /\ q[2] = "ACK"
      <4>1. q = <<s.pending_id, "ACK">> BY Zenon, <2>4 DEF Executing
      <4> QED BY <4>1
    <3>2. e.running_done /\ ~e.pending_done BY Zenon, <1>1, <2>1, <3>1, DecideOne
    <3>3. n.running = s.pending /\ n.running_id = s.pending_id /\ n.pending = NoWork /\ n.pending_id = Invalid
      BY ZenonT(30), <1>1, <1>5, <2>1, <3>2, DecideOne, ApplyOne
    <3>4. Completed(s, e) = {s.running} BY Zenon, <3>2 DEF Completed
    <3> HIDE DEF n, e
    <3>5. Waits(k, s) = {s.pending} /\ Past(k, s) = {s.running} BY Zenon, <2>1, <2>4 DEF Waits, Past
    <3>6. Waits(k, n) = {s.pending} /\ Past(k, n) = {} /\ Apart(n)
      BY Zenon, <1>1, <2>1, <2>4, <3>3 DEF Waits, Past, Apart
    <3> QED BY Zenon, <3>2, <3>4, <3>5, <3>6 DEF n, e
  <2>5. CASE Ended(s.pending_id, q, k)
    <3>1. q[1] = s.pending_id /\ q[2] = "FIN" /\ k.last = s.pending_id
      <4>1. q # <<ExitId, "FIN">> \/ ~e.matched
        <5>1. q = <<ExitId, "FIN">> => q[1] # s.running_id /\ q[1] # s.pending_id BY Zenon, <1>2, <2>1
        <5> QED BY Zenon, <1>1, <5>1, DecideOne
      <4>2. q = <<s.pending_id, "FIN">> /\ k.last = s.pending_id BY Zenon, <1>5, <2>5, <4>1 DEF Ended
      <4> QED BY <4>2
    <3>2. e.running_done /\ e.pending_done BY Zenon, <1>1, <2>1, <3>1, DecideOne
    <3>3. n.running = NoWork /\ n.pending = NoWork BY Zenon, <1>1, <1>5, <3>2, DecideOne, ApplyOne
    <3>4. Completed(s, e) = {s.running, s.pending} BY Zenon, <3>2 DEF Completed
    <3> HIDE DEF n, e
    <3>5. Waits(k, s) = {} /\ Past(k, s) = {s.running, s.pending} BY Zenon, <2>1, <3>1 DEF Waits, Past
    <3>6. Waits(k, n) = {} /\ Past(k, n) = {} /\ Apart(n) BY Zenon, <3>3 DEF Waits, Past, Apart
    <3> QED BY Zenon, <2>1, <3>2, <3>4, <3>5, <3>6 DEF n, e
  <2> QED BY Zenon, <1>5, <2>2, <2>3, <2>4, <2>5 DEF Two
<1>6. CASE s.idle
  <2>1. ~e.matched BY Zenon, <1>1, <1>6, DecideOne, ReservedIds DEF CoreOK, Free
  <2> QED BY Zenon, <1>3, <2>1
<1> QED BY Zenon, <1>3, <1>4, <1>5, <1>6 DEF CoreOK
-----------------------------------------------------------------------------
(***************************************************************************)
(* The moves of a block from place to place.                               *)
(***************************************************************************)
LEMMA KindOf == \A c : Kind(c) \in Kinds
BY Zenon DEF Kind, Kinds

\* A thread claims unclaimed blocks.
LEMMA ClaimPlaced ==
    ASSUME NEW un, NEW cl, NEW wt, NEW pa, NEW rn, Placed(un, cl, wt, pa, rn),
           NEW t \in Threads, cl[t] = {}, NEW N \in SUBSET un, \A p \in N : p \in Work /\ p[1] \in DOMAIN Tasks,
           NEW cc, cc[t] = N, \A u \in Threads \ {t} : cc[u] = cl[u]
    PROVE  Placed(un \ N, cc, wt, pa, rn)
<1> DEFINE uu == un \ N
<1>1. ASSUME NEW u \in Threads, NEW p \in cc[u]
      PROVE  /\ p \in Work /\ p[1] \in DOMAIN Tasks /\ p \notin uu
             /\ \A v \in Threads : p \in cc[v] => v = u
  <2>1. CASE u = t
    <3>1. p \in N /\ p \in un BY Zenon, <1>1, <2>1
    <3>2. \A v \in Threads : p \notin cl[v] BY Zenon, <3>1 DEF Placed
    <3> QED BY Zenon, <2>1, <3>1, <3>2
  <2>2. CASE u # t
    <3>1. p \in cl[u] BY Zenon, <1>1, <2>2
    <3>2. p \notin un /\ p \notin N BY Zenon, <3>1 DEF Placed
    <3> QED BY Zenon, <3>1, <3>2 DEF Placed
  <2> QED BY Zenon, <2>1, <2>2
<1>2. ASSUME NEW c \in Cores, NEW p \in wt[c]
      PROVE  /\ p \in Work /\ Fit(p, Kind(c)) /\ p \notin uu /\ \A u \in Threads : p \notin cc[u]
             /\ \A d \in Cores : Kind(d) = Kind(c) /\ p \in wt[d] => d = c
  <2>1. p \notin un /\ \A u \in Threads : p \notin cl[u] BY Zenon, <1>2 DEF Placed
  <2> QED BY Zenon, <1>2, <2>1 DEF Placed
<1>3. ASSUME NEW p \in Work, NEW x \in Kinds PROVE Open(uu, cc, wt, p, x) <=> Open(un, cl, wt, p, x)
  BY Zenon DEF Open
<1> HIDE DEF uu
<1>4. \A p \in Work, x \in Kinds : Fit(p, x) => RanOf(rn, p, x) = IF Open(uu, cc, wt, p, x) THEN 0 ELSE 1
  BY Zenon, <1>3 DEF Placed
<1>5. Placed(uu, cc, wt, pa, rn) BY Zenon, <1>1, <1>2, <1>4 DEF Placed
<1> QED BY Zenon, <1>5 DEF uu

\* A thread sends a block it claimed to one core of each of its kinds.
Handed(t, w, S, cl, cc, wt, ww) ==
    /\ t \in Threads /\ w \in cl[t] /\ S \in SUBSET Cores
    /\ \A c \in S : Fit(w, Kind(c)) /\ \A d \in S : Kind(d) = Kind(c) => d = c
    /\ \A x \in Kinds : Fit(w, x) => \E c \in S : Kind(c) = x
    /\ cc[t] = cl[t] \ {w} /\ \A u \in Threads \ {t} : cc[u] = cl[u]
    /\ \A c \in Cores : ww[c] = IF c \in S THEN wt[c] \cup {w} ELSE wt[c]

LEMMA SendPlaced ==
    ASSUME NEW un, NEW cl, NEW wt, NEW pa, NEW rn, Placed(un, cl, wt, pa, rn),
           NEW t, NEW w, NEW S, NEW cc, NEW ww, Handed(t, w, S, cl, cc, wt, ww)
    PROVE  Placed(un, cc, ww, pa, rn)
<1> /\ t \in Threads /\ w \in cl[t] /\ S \in SUBSET Cores
    /\ \A c \in S : Fit(w, Kind(c)) /\ \A d \in S : Kind(d) = Kind(c) => d = c
    /\ \A x \in Kinds : Fit(w, x) => \E c \in S : Kind(c) = x
    /\ cc[t] = cl[t] \ {w} /\ \A u \in Threads \ {t} : cc[u] = cl[u]
    /\ \A c \in Cores : ww[c] = IF c \in S THEN wt[c] \cup {w} ELSE wt[c]
  BY Zenon DEF Handed
<1>1. /\ w \in Work /\ w[1] \in DOMAIN Tasks /\ w \notin un /\ \A u \in Threads : w \in cl[u] => u = t
  BY Zenon DEF Placed
<1>2. \A u \in Threads : w \notin cc[u] /\ cc[u] \subseteq cl[u] BY Zenon, <1>1
<1>3. \A u \in Threads : \A p \in cl[u] : p = w \/ p \in cc[u] BY Zenon
<1>4. \A c \in Cores : w \notin wt[c] BY Zenon DEF Placed
<1>5. ASSUME NEW u \in Threads, NEW p \in cc[u]
      PROVE  /\ p \in Work /\ p[1] \in DOMAIN Tasks /\ p \notin un
             /\ \A v \in Threads : p \in cc[v] => v = u
  <2>1. p \in cl[u] BY Zenon, <1>2, <1>5
  <2> QED BY Zenon, <1>2, <2>1 DEF Placed
<1>6. ASSUME NEW c \in Cores, NEW p \in ww[c]
      PROVE  /\ p \in Work /\ Fit(p, Kind(c)) /\ p \notin un /\ \A u \in Threads : p \notin cc[u]
             /\ \A d \in Cores : Kind(d) = Kind(c) /\ p \in ww[d] => d = c
  <2>1. CASE p = w
    <3>1. \A d \in Cores : w \in ww[d] => d \in S BY Zenon, <1>4
    <3> QED BY Zenon, <1>1, <1>2, <1>6, <2>1, <3>1
  <2>2. CASE p # w
    <3>1. \A d \in Cores : p \in ww[d] => p \in wt[d] BY Zenon, <2>2
    <3>2. p \in wt[c] BY Zenon, <1>6, <3>1
    <3> QED BY Zenon, <1>2, <3>1, <3>2 DEF Placed
  <2> QED BY Zenon, <2>1, <2>2
<1>7. ASSUME NEW p \in Work, NEW x \in Kinds, Fit(p, x) PROVE Open(un, cc, ww, p, x) <=> Open(un, cl, wt, p, x)
  <2>1. CASE p = w
    <3>1. PICK c \in S : Kind(c) = x BY Zenon, <1>7, <2>1
    <3>2. c \in Cores /\ w \in ww[c] BY Zenon, <3>1
    <3> QED BY Zenon, <2>1, <3>1, <3>2 DEF Open
  <2>2. CASE p # w
    <3>1. \A d \in Cores : p \in ww[d] <=> p \in wt[d] BY Zenon, <2>2
    <3>2. \A u \in Threads : p \in cc[u] <=> p \in cl[u] BY Zenon, <1>2, <1>3, <2>2
    <3> QED BY Zenon, <3>1, <3>2 DEF Open
  <2> QED BY Zenon, <2>1, <2>2
<1>8. \A p \in Work, x \in Kinds : Fit(p, x) => RanOf(rn, p, x) = IF Open(un, cc, ww, p, x) THEN 0 ELSE 1
  BY Zenon, <1>7 DEF Placed
<1> QED BY Zenon, <1>5, <1>6, <1>8 DEF Placed

\* A kernel ends: its work is past on its core, and has run.
LEMMA FinishPlaced ==
    ASSUME NEW un, NEW cl, NEW wt, NEW pa, NEW rn, Placed(un, cl, wt, pa, rn),
           NEW c \in Cores, NEW w \in wt[c],
           NEW ww, ww[c] = wt[c] \ {w}, \A d \in Cores \ {c} : ww[d] = wt[d],
           NEW pp, pp[c] = pa[c] \cup {w}, \A d \in Cores \ {c} : pp[d] = pa[d],
           NEW rr, RanOf(rr, w, Kind(c)) = RanOf(rn, w, Kind(c)) + 1,
           \A p \in Work, x \in Kinds : Fit(p, x) /\ (p # w \/ x # Kind(c)) => RanOf(rr, p, x) = RanOf(rn, p, x)
    PROVE  /\ RanOf(rn, w, Kind(c)) = 0 /\ Placed(un, cl, ww, pp, rr)
           /\ \A p \in Work, x \in Kinds : Fit(p, x) =>
                (/\ RanOf(rr, p, x) = 1 /\ \A d \in Cores : Kind(d) = x => p \notin pp[d])
                 <=> (/\ RanOf(rn, p, x) = 1 /\ \A d \in Cores : Kind(d) = x => p \notin pa[d])
<1>1. /\ w \in Work /\ Kind(c) \in Kinds /\ Fit(w, Kind(c)) /\ w \notin un /\ \A t \in Threads : w \notin cl[t]
      /\ \A d \in Cores : Kind(d) = Kind(c) /\ w \in wt[d] => d = c
  BY Zenon, KindOf DEF Placed
<1>2. RanOf(rn, w, Kind(c)) = 0
  <2>1. Open(un, cl, wt, w, Kind(c)) BY Zenon DEF Open
  <2>2. \A p \in Work, x \in Kinds : Fit(p, x) => RanOf(rn, p, x) = IF Open(un, cl, wt, p, x) THEN 0 ELSE 1
    BY Zenon DEF Placed
  <2> QED BY Zenon, <1>1, <2>1, <2>2
<1>3. RanOf(rr, w, Kind(c)) = 1 BY <1>2
<1>4. \A d \in Cores : Kind(d) = Kind(c) => w \notin pa[d]
  <2>1. ASSUME NEW d \in Cores, Kind(d) = Kind(c), w \in pa[d] PROVE FALSE
    <3>1. RanOf(rn, w, Kind(d)) = 1 BY Zenon, <2>1 DEF Placed
    <3> QED BY <1>2, <2>1, <3>1
  <2> QED BY Zenon, <2>1
<1>5. \A d \in Cores : ww[d] \subseteq wt[d] /\ \A p \in wt[d] : p \in ww[d] \/ (d = c /\ p = w) BY Zenon
<1>6. ASSUME NEW d \in Cores, NEW p \in ww[d]
      PROVE  /\ p \in Work /\ Fit(p, Kind(d)) /\ p \notin un /\ \A t \in Threads : p \notin cl[t]
             /\ \A e \in Cores : Kind(e) = Kind(d) /\ p \in ww[e] => e = d
  BY Zenon, <1>5, <1>6 DEF Placed
<1>7. ASSUME NEW d \in Cores, NEW p \in pp[d]
      PROVE  /\ p \in Work /\ Fit(p, Kind(d)) /\ RanOf(rr, p, Kind(d)) = 1
             /\ \A e \in Cores : Kind(e) = Kind(d) /\ p \in pp[e] => e = d
  <2>1. CASE p = w /\ Kind(d) = Kind(c)
    <3>1. \A e \in Cores : Kind(e) = Kind(c) /\ w \in pp[e] => e = c BY Zenon, <1>4
    <3>2. d = c BY Zenon, <1>7, <2>1, <3>1
    <3> QED BY Zenon, <1>1, <1>3, <2>1, <3>1, <3>2
  <2>2. CASE p # w \/ Kind(d) # Kind(c)
    <3>1. \A e \in Cores : Kind(e) = Kind(d) /\ p \in pp[e] => p \in pa[e] BY Zenon, <2>2
    <3>2. p \in pa[d] BY Zenon, <1>7, <3>1
    <3>3. p \in Work /\ Fit(p, Kind(d)) /\ RanOf(rn, p, Kind(d)) = 1 /\ Kind(d) \in Kinds BY Zenon, <3>2, KindOf DEF Placed
    <3>4. RanOf(rr, p, Kind(d)) = RanOf(rn, p, Kind(d)) BY Zenon, <2>2, <3>3
    <3>5. \A e \in Cores : Kind(e) = Kind(d) /\ p \in pp[e] => e = d BY Zenon, <3>1, <3>2 DEF Placed
    <3> QED BY Zenon, <3>3, <3>4, <3>5
  <2> QED BY Zenon, <2>1, <2>2
<1>8. ASSUME NEW p \in Work, NEW x \in Kinds, Fit(p, x)
      PROVE  RanOf(rr, p, x) = IF Open(un, cl, ww, p, x) THEN 0 ELSE 1
  <2>1. CASE p = w /\ x = Kind(c)
    <3>1. \A d \in Cores : Kind(d) = x => p \notin ww[d] BY Zenon, <1>1, <1>5, <2>1
    <3>2. ~Open(un, cl, ww, p, x) BY Zenon, <1>1, <2>1, <3>1 DEF Open
    <3> QED BY Zenon, <1>3, <2>1, <3>2
  <2>2. CASE p # w \/ x # Kind(c)
    <3>1. \A d \in Cores : Kind(d) = x => (p \in ww[d] <=> p \in wt[d]) BY Zenon, <1>5, <2>2
    <3>2. Open(un, cl, ww, p, x) <=> Open(un, cl, wt, p, x) BY Zenon, <3>1 DEF Open
    <3>3. RanOf(rr, p, x) = RanOf(rn, p, x) BY Zenon, <1>8, <2>2
    <3>4. RanOf(rn, p, x) = IF Open(un, cl, wt, p, x) THEN 0 ELSE 1 BY Zenon, <1>8 DEF Placed
    <3> QED BY Zenon, <3>2, <3>3, <3>4
  <2> QED BY Zenon, <2>1, <2>2
<1>9. Placed(un, cl, ww, pp, rr)
  <2>1. \A t \in Threads : \A p \in cl[t] : /\ p \in Work /\ p[1] \in DOMAIN Tasks /\ p \notin un
                                            /\ \A u \in Threads : p \in cl[u] => u = t
    BY Zenon DEF Placed
  <2> QED BY Zenon, <1>6, <1>7, <1>8, <2>1 DEF Placed
<1>10. ASSUME NEW p \in Work, NEW x \in Kinds, Fit(p, x)
       PROVE  (/\ RanOf(rr, p, x) = 1 /\ \A d \in Cores : Kind(d) = x => p \notin pp[d])
              <=> (/\ RanOf(rn, p, x) = 1 /\ \A d \in Cores : Kind(d) = x => p \notin pa[d])
  <2>1. CASE p = w /\ x = Kind(c)
    <3>1. RanOf(rn, p, x) # 1 BY <1>2, <2>1
    <3> QED BY Zenon, <2>1, <3>1
  <2>2. CASE p # w \/ x # Kind(c)
    <3>1. \A d \in Cores : Kind(d) = x => (p \in pp[d] <=> p \in pa[d]) BY Zenon, <2>2
    <3> QED BY Zenon, <1>10, <2>2, <3>1
  <2> QED BY Zenon, <2>1, <2>2
<1> QED BY Zenon, <1>2, <1>9, <1>10

\* A completed work leaves its slot.
LEMMA PollPlaced ==
    ASSUME NEW un, NEW cl, NEW wt, NEW pa, NEW rn, Placed(un, cl, wt, pa, rn),
           NEW pp, \A d \in Cores : pp[d] \subseteq pa[d]
    PROVE  Placed(un, cl, wt, pp, rn)
<1>1. ASSUME NEW d \in Cores, NEW p \in pp[d]
      PROVE  /\ p \in Work /\ Fit(p, Kind(d)) /\ RanOf(rn, p, Kind(d)) = 1
             /\ \A e \in Cores : Kind(e) = Kind(d) /\ p \in pp[e] => e = d
  BY Zenon, <1>1 DEF Placed
<1> QED BY Zenon, <1>1 DEF Placed

\* Core c drops the works D.
Drops(c, D, pa, pp) ==
    /\ c \in Cores /\ D \subseteq pa[c] /\ pp[c] = pa[c] \ D
    /\ \A d \in Cores \ {c} : pp[d] = pa[d]

\* A completed work is gone, and counted once.
LEMMA GoneOne ==
    ASSUME LibraryFacts, NEW un, NEW cl, NEW wt, NEW pa, NEW rn, Placed(un, cl, wt, pa, rn),
           NEW c, NEW w, NEW pp, Drops(c, {w}, pa, pp), NEW k \in DOMAIN Tasks, IsFiniteSet(Blocks(k))
    PROVE  Cardinality(Gone(rn, pp, k)) = Cardinality(Gone(rn, pa, k)) + IF w[1] = k THEN 1 ELSE 0
<1> c \in Cores /\ w \in pa[c] /\ pp[c] = pa[c] \ {w} /\ \A d \in Cores \ {c} : pp[d] = pa[d]
  BY Zenon DEF Drops
<1>1. /\ w \in Work /\ Fit(w, Kind(c)) /\ RanOf(rn, w, Kind(c)) = 1
      /\ \A d \in Cores : Kind(d) = Kind(c) /\ w \in pa[d] => d = c
  BY Zenon DEF Placed
<1>2. w = <<w[1], w[2]>> /\ w[1] \in Nat /\ w[2] \in Nat BY <1>1 DEF Work
<1> DEFINE g == Gone(rn, pa, k)
           y == <<w[2], Kind(c)>>
<1>3. \A d \in Cores : \A p : p \in pp[d] <=> p \in pa[d] /\ (d # c \/ p # w) BY Zenon
<1>4. CASE w[1] = k
  <2>1. y \in Blocks(k) /\ y[1] = w[2] /\ y[2] = Kind(c)
    <3>1. <<k, w[2], Kind(c)>> \in Works BY Zenon, <1>1, <1>4 DEF Fit
    <3>2. PICK j \in DOMAIN Tasks : <<k, w[2], Kind(c)>> \in {<<j, b, x>> : b \in 0..Tasks[j].blocks - 1, x \in KindsOf(j)}
      BY <3>1 DEF Works
    <3>3. PICK b \in 0..Tasks[j].blocks - 1, x \in KindsOf(j) : <<k, w[2], Kind(c)>> = <<j, b, x>> BY <3>2
    <3>4. k = j /\ w[2] = b /\ Kind(c) = x BY <3>3
    <3>5. w[2] \in 0..Tasks[k].blocks - 1 /\ Kind(c) \in KindsOf(k) BY Zenon, <3>3, <3>4
    <3> QED BY <3>5 DEF Blocks
  <2>2. <<k, y[1]>> = w BY Zenon, <1>2, <1>4, <2>1
  <2>3. y \notin g BY Zenon, <2>1, <2>2 DEF Gone
  <2>4. y \in Gone(rn, pp, k)
    <3>1. \A d \in Cores : Kind(d) = Kind(c) => w \notin pp[d] BY Zenon, <1>1, <1>3
    <3> QED BY Zenon, <1>1, <2>1, <2>2, <3>1 DEF Gone
  <2>5. ASSUME NEW z \in Blocks(k), z # y PROVE z \in Gone(rn, pp, k) <=> z \in g
    <3>1. z[2] # Kind(c) \/ <<k, z[1]>> # w
      <4> SUFFICES ASSUME z[2] = Kind(c), <<k, z[1]>> = w PROVE FALSE OBVIOUS
      <4>1. z[1] = w[2] BY <1>4, <1>2
      <4>2. z = <<z[1], z[2]>> BY DEF Blocks
      <4> QED BY Zenon, <2>5, <4>1, <4>2
    <3>2. \A d \in Cores : Kind(d) = z[2] => (<<k, z[1]>> \in pp[d] <=> <<k, z[1]>> \in pa[d]) BY Zenon, <1>3, <3>1
    <3> QED BY Zenon, <3>2 DEF Gone
  <2>6. Gone(rn, pp, k) = g \cup {y}
    <3>1. Gone(rn, pp, k) \subseteq Blocks(k) /\ g \subseteq Blocks(k) BY Zenon DEF Gone
    <3> HIDE DEF g, y
    <3> QED BY Zenon, <2>1, <2>4, <2>5, <3>1
  <2>7. IsFiniteSet(g)
    <3>1. g \in SUBSET Blocks(k) BY Zenon DEF Gone
    <3> QED BY Zenon, <3>1 DEF LibraryFacts
  <2> HIDE DEF g, y
  <2>8. Cardinality(g \cup {y}) = Cardinality(g) + 1 BY Zenon, <2>3, <2>7 DEF LibraryFacts
  <2> QED BY Zenon, <1>4, <2>6, <2>8 DEF g
<1>5. CASE w[1] # k
  <2>1. \A z \in Blocks(k) : <<k, z[1]>> # w BY <1>5
  <2>2. \A z \in Blocks(k) : \A d \in Cores : <<k, z[1]>> \in pp[d] <=> <<k, z[1]>> \in pa[d] BY Zenon, <1>3, <2>1
  <2>3. Gone(rn, pp, k) = g BY Zenon, <2>2 DEF Gone
  <2>4. Cardinality(g) \in Nat
    <3>1. g \in SUBSET Blocks(k) BY Zenon DEF Gone
    <3>2. IsFiniteSet(g) BY Zenon, <3>1 DEF LibraryFacts
    <3> QED BY Zenon, <3>2 DEF LibraryFacts
  <2> HIDE DEF g
  <2>5. Cardinality(g) = Cardinality(g) + 0 BY <2>4
  <2> QED BY Zenon, <1>5, <2>3, <2>5 DEF g
<1> QED BY Zenon, <1>4, <1>5

\* How often a task occurs among those of the completed works, of which there are two at most.
Times(q, k) == Cardinality({i \in DOMAIN q : q[i] = k})

LEMMA TimesCount ==
    ASSUME LibraryFacts, NEW k
    PROVE  /\ Times(<<>> \o <<>>, k) = 0
           /\ \A a : Times(<<>> \o <<a>>, k) = IF a = k THEN 1 ELSE 0
           /\ \A a, b : Times(<<a>> \o <<b>>, k) = (IF b = k THEN 1 ELSE 0) + (IF a = k THEN 1 ELSE 0)
<1>1. Cardinality({}) = 0
  <2>1. 1 \in Int /\ 0 \in Int /\ 1..0 = {} OBVIOUS
  <2>2. IsFiniteSet({}) BY Zenon, <2>1 DEF LibraryFacts
  <2> QED BY Zenon, <2>2 DEF LibraryFacts
<1>2. Cardinality({1}) = 1 /\ Cardinality({2}) = 1 BY Zenon DEF LibraryFacts
<1>3. Cardinality({1, 2}) = 2
  <2>1. 1 \in Int /\ 1..1 = {1} /\ 2 \notin {1} OBVIOUS
  <2>2. IsFiniteSet({1}) BY Zenon, <2>1 DEF LibraryFacts
  <2>3. Cardinality({1} \cup {2}) = Cardinality({1}) + 1 BY Zenon, <2>1, <2>2 DEF LibraryFacts
  <2>4. {1} \cup {2} = {1, 2} BY Zenon
  <2>5. Cardinality({1, 2}) = 1 + 1 BY Zenon, <1>2, <2>3, <2>4
  <2> QED BY <2>5
<1>4. Times(<<>> \o <<>>, k) = 0
  <2> DEFINE q == <<>> \o <<>>
             S == {i \in DOMAIN q : q[i] = k}
  <2>1. DOMAIN q = {} OBVIOUS
  <2>2. S = {} BY Zenon, <2>1
  <2>3. Cardinality(S) = 0 BY Zenon, <1>1, <2>2
  <2> QED BY Zenon, <2>3 DEF Times
<1>5. ASSUME NEW a PROVE Times(<<>> \o <<a>>, k) = IF a = k THEN 1 ELSE 0
  <2> DEFINE q == <<>> \o <<a>>
             S == {i \in DOMAIN q : q[i] = k}
  <2>1. q = <<a>> OBVIOUS
  <2> HIDE DEF q
  <2>2. DOMAIN q = {1} /\ q[1] = a BY <2>1
  <2>3. S = IF a = k THEN {1} ELSE {} BY Zenon, <2>2
  <2>4. Cardinality(S) = IF a = k THEN 1 ELSE 0 BY Zenon, <1>1, <1>2, <2>3
  <2> QED BY Zenon, <2>4 DEF Times, q
<1>6. ASSUME NEW a, NEW b PROVE Times(<<a>> \o <<b>>, k) = (IF b = k THEN 1 ELSE 0) + (IF a = k THEN 1 ELSE 0)
  <2> DEFINE q == <<a>> \o <<b>>
             S == {i \in DOMAIN q : q[i] = k}
  <2>1. DOMAIN q = {1, 2} /\ q[1] = a /\ q[2] = b
    <3> DEFINE u == <<a>>
               v == <<b>>
    <3>1. u \in Seq({a, b}) /\ v \in Seq({a, b}) /\ Len(u) = 1 /\ Len(v) = 1 /\ u[1] = a /\ v[1] = b OBVIOUS
    <3> HIDE DEF u, v
    <3>2. ASSUME NEW T, NEW f \in Seq(T), NEW g \in Seq(T)
          PROVE  /\ DOMAIN (f \o g) = 1..Len(f) + Len(g)
                 /\ \A i \in 1..Len(f) + Len(g) : (f \o g)[i] = IF i <= Len(f) THEN f[i] ELSE g[i - Len(f)]
      OBVIOUS
    <3> DEFINE z == u \o v
    <3>3. /\ DOMAIN z = 1..Len(u) + Len(v)
          /\ \A i \in 1..Len(u) + Len(v) : z[i] = IF i <= Len(u) THEN u[i] ELSE v[i - Len(u)]
      BY Zenon, <3>1, <3>2
    <3> HIDE DEF z
    <3>4. DOMAIN z = {1, 2} /\ z[1] = u[1] /\ z[2] = v[1] BY <3>1, <3>3
    <3>5. q = z BY Zenon DEF u, v, z
    <3> QED BY Zenon, <3>1, <3>4, <3>5
  <2>2. \A i : i \in S <=> (i = 1 /\ a = k) \/ (i = 2 /\ b = k) BY Zenon, <2>1
  <2>3. Cardinality(S) = Times(q, k) BY Zenon DEF Times
  <2> HIDE DEF S, q
  <2>4. Cardinality(S) = (IF b = k THEN 1 ELSE 0) + (IF a = k THEN 1 ELSE 0)
    <3>1. CASE a = k /\ b = k
      <4>1. S = {1, 2} BY Zenon, <2>2, <3>1
      <4> QED BY <1>3, <3>1, <4>1
    <3>2. CASE a = k /\ b # k
      <4>1. S = {1} BY Zenon, <2>2, <3>2
      <4> QED BY <1>2, <3>2, <4>1
    <3>3. CASE a # k /\ b = k
      <4>1. S = {2} BY Zenon, <2>2, <3>3
      <4> QED BY <1>2, <3>3, <4>1
    <3>4. CASE a # k /\ b # k
      <4>1. S = {} BY Zenon, <2>2, <3>4
      <4> QED BY <1>1, <3>4, <4>1
    <3> QED BY Zenon, <3>1, <3>2, <3>3, <3>4
  <2> QED BY Zenon, <2>3, <2>4 DEF q
<1> QED BY Zenon, <1>4, <1>5, <1>6
-----------------------------------------------------------------------------
(***************************************************************************)
(* The steps that move no block.                                           *)
(***************************************************************************)
LEMMA WorksFixed ==
    ASSUME launch' = launch
    PROVE  /\ Cores' = Cores /\ Tasks' = Tasks /\ Works' = Works
           /\ Awaited' = [c \in Cores |-> Waits(core'[c], slot'[c])]
           /\ Passed' = [c \in Cores |-> Past(core'[c], slot'[c])]
           /\ Claimed' = [t \in Threads |-> ClaimedBy(th'[t])]
<1>1. Cores' = Cores /\ Tasks' = Tasks BY Zenon, Fixed
<1>2. \A k : KindsOf(k)' = KindsOf(k) BY Zenon, <1>1 DEF KindsOf
<1>6. Works' = Works BY <1>1, <1>2 DEF Works
<1>3. Awaited' = [c \in Cores |-> Waits(core'[c], slot'[c])] BY Zenon, <1>1 DEF Awaited, Waits
<1>4. Passed' = [c \in Cores |-> Past(core'[c], slot'[c])] BY Zenon, <1>1 DEF Passed, Past
<1>5. Claimed' = [t \in Threads |-> ClaimedBy(th'[t])] BY Zenon DEF Claimed, ClaimedBy
<1> QED BY Zenon, <1>1, <1>6, <1>3, <1>4, <1>5

\* The parts of WorkInv in the next state, about the same launch.
LEMMA WorkNext ==
    ASSUME launch' = launch, HistoryOK', Placed(Unclaimed', Claimed', Awaited', Passed', ran'),
           Counted(ran', Passed', subtasks', finished')
    PROVE  WorkInv'
<1>1. Cores' = Cores /\ Tasks' = Tasks /\ Works' = Works BY Zenon, WorksFixed
<1>2. Placed(Unclaimed, Claimed, Awaited, Passed, ran)' BY ZenonT(30), <1>1 DEF Placed, Open, Fit, RanOf
<1>3. Counted(ran, Passed, subtasks, finished)'
  <2>1. \A k : KindsOf(k)' = KindsOf(k) BY Zenon, <1>1 DEF KindsOf
  <2>2. \A k : Blocks(k)' = Blocks(k) /\ Required(k)' = Required(k) BY Zenon, <1>1, <2>1 DEF Blocks, Required
  <2>3. \A k : Gone(ran, Passed, k)' = Gone(ran', Passed', k) BY Zenon, <1>1, <2>2 DEF Gone, RanOf
  <2> QED BY Zenon, <1>1, <2>2, <2>3 DEF Counted
<1> QED BY Zenon, <1>2, <1>3 DEF WorkInv

LEMMA WorkStill ==
    ASSUME WorkInv, UNCHANGED <<launch, buffer, next, subtasks, finished, ran>>,
           \A c \in Cores : /\ Waits(core'[c], slot'[c]) = Waits(core[c], slot[c])
                            /\ Past(core'[c], slot'[c]) = Past(core[c], slot[c])
                            /\ Apart(slot'[c]),
           \A t \in Threads : ClaimedBy(th'[t]) = ClaimedBy(th[t])
    PROVE  WorkInv'
<1>1. Cores' = Cores /\ Tasks' = Tasks /\ Works' = Works BY Zenon, WorksFixed
<1>2. Awaited' = Awaited /\ Passed' = Passed /\ Claimed' = Claimed
  BY Zenon, WorksFixed DEF Awaited, Passed, Claimed
<1>3. Unclaimed' = Unclaimed BY Zenon, <1>1 DEF Unclaimed
<1>4. HistoryOK' BY Zenon, <1>1 DEF WorkInv, HistoryOK, Fit, Apart
<1> QED BY Zenon, <1>2, <1>3, <1>4, WorkNext DEF WorkInv

\* A step of a thread that is not sending.
Calm(t) ==
    /\ UNCHANGED <<core, slot, buffer, next, subtasks, finished, ran>>
    /\ th[t].pc # "send" /\ th'[t].pc # "send" /\ \A u \in Threads \ {t} : th'[u] = th[u]

LEMMA CalmWork ==
    ASSUME WorkInv, launch' = launch, NEW t \in Threads, Calm(t)
    PROVE  WorkInv'
<1>1. \A u \in Threads : ClaimedBy(th'[u]) = ClaimedBy(th[u]) BY Zenon DEF Calm, ClaimedBy
<1>2. \A c \in Cores : Apart(slot[c]) BY Zenon DEF WorkInv, HistoryOK
<1> QED BY Zenon, <1>1, <1>2, WorkStill DEF Calm

LEMMA LoopWork ==
    ASSUME SlotInv, WorkInv, launch' = launch, NEW t \in Threads,
           LoopTop(t) \/ Transition(t) \/ LoopEnd(t) \/ handle_timeout_exit(t) \/ PopBatch(t)
    PROVE  WorkInv'
<1>1. TypeOK BY Zenon DEF SlotInv
<1>2. th[t].pc # "send" /\ UNCHANGED <<core, slot, buffer, next, subtasks, finished, ran>>
  BY Zenon DEF LoopTop, Transition, LoopEnd, handle_timeout_exit, PopBatch, Quiet, aicore, shared
<1>3. \/ Leave(t) \/ ShutDownAll(t) \/ th' = [th EXCEPT ![t].pc = "transition"]
      \/ \E r \in BOOLEAN : Begin(t, r)
      \/ th' = [th EXCEPT ![t].pc = "top", ![t].at = 1, ![t].progress = FALSE]
      \/ PopBatch(t)
  <2>1. CASE LoopTop(t)
    <3>1. (OrchToSched /\ ctl.requested) \in BOOLEAN BY Zenon
    <3> QED BY Zenon, <2>1, <3>1 DEF LoopTop
  <2>2. CASE Transition(t)
    <3>1. TRUE \in BOOLEAN OBVIOUS
    <3> QED BY Zenon, <2>2, <3>1 DEF Transition
  <2>3. CASE LoopEnd(t) \/ handle_timeout_exit(t) BY Zenon, <2>3 DEF LoopEnd, handle_timeout_exit
  <2> QED BY Zenon, <2>1, <2>2, <2>3
<1>4. th'[t].pc # "send" /\ \A u \in Threads \ {t} : th'[u] = th[u]
  <2>1. CASE Leave(t) BY Zenon, <1>1, <2>1, LeaveMoves DEF Moves
  <2>2. CASE ShutDownAll(t) BY Zenon, <1>1, <2>2, ShutDownMoves DEF Moves
  <2>3. CASE \E r \in BOOLEAN : Begin(t, r) BY Zenon, <1>1, <2>3, BeginMoves DEF Moves
  <2>4. CASE th' = [th EXCEPT ![t].pc = "transition"] BY Zenon, <1>1, <2>4, ThreadTyped DEF ThreadState
  <2>5. CASE th' = [th EXCEPT ![t].pc = "top", ![t].at = 1, ![t].progress = FALSE]
    BY Zenon, <1>1, <2>5, ThreadTyped DEF ThreadState
  <2>6. CASE PopBatch(t)
    <3>1. PICK p, s, b : th' = [th EXCEPT ![t].pc = "batch", ![t].at = p, ![t].cores = s, ![t].batch = b]
      BY Zenon, <2>6 DEF PopBatch
    <3> QED BY Zenon, <1>1, <3>1, ThreadTyped DEF ThreadState
  <2> QED BY Zenon, <1>3, <2>1, <2>2, <2>3, <2>4, <2>5, <2>6
<1> QED BY Zenon, <1>2, <1>4, CalmWork DEF Calm

LEMMA ExitWork ==
    ASSUME SlotInv, WorkInv, launch' = launch, NEW t \in Threads, SendExit(t) \/ AwaitExit(t) \/ AwaitTimeOut(t)
    PROVE  WorkInv'
<1>1. TypeOK BY Zenon DEF SlotInv
<1>2. th[t].pc # "send" /\ UNCHANGED <<core, slot, buffer, next, subtasks, finished, ran>>
  BY Zenon DEF SendExit, AwaitExit, AwaitTimeOut, aicore, shared
<1>3. \/ Leave(t) \/ \E p \in ExitPcs : th' = [th EXCEPT ![t].pc = p]
      \/ \E p \in ExitPcs : \E s : th' = [th EXCEPT ![t].pc = p, ![t].cores = s]
  <2>1. CASE SendExit(t)
    <3>1. \/ Leave(t) \/ th' = [th EXCEPT ![t].pc = "done"]
          \/ th' = [th EXCEPT ![t].pc = IF th[t].pc = "deinit" THEN "await" ELSE "await_all"]
      BY Zenon, <1>1, <2>1, ThreadTyped DEF SendExit
    <3> QED BY Zenon, <3>1 DEF ExitPcs
  <2>2. CASE AwaitExit(t) \/ AwaitTimeOut(t)
    <3>1. th' = [th EXCEPT ![t].pc = IF th[t].pc = "await" THEN "deinit" ELSE "emergency",
                           ![t].cores = th[t].cores \ {Min(th[t].cores)}]
      BY Zenon, <1>1, <2>2, ThreadTyped DEF AwaitExit, AwaitTimeOut, NextCore
    <3> QED BY Zenon, <3>1 DEF ExitPcs
  <2> QED BY Zenon, <2>1, <2>2
<1>4. th'[t].pc # "send" /\ \A u \in Threads \ {t} : th'[u] = th[u]
  <2>1. CASE Leave(t) BY Zenon, <1>1, <2>1, LeaveMoves DEF Moves
  <2>2. ASSUME NEW p \in ExitPcs, th' = [th EXCEPT ![t].pc = p]
        PROVE  th'[t].pc # "send" /\ \A u \in Threads \ {t} : th'[u] = th[u]
    BY Zenon, <1>1, <2>2, ThreadTyped DEF ThreadState, ExitPcs
  <2>3. ASSUME NEW p \in ExitPcs, NEW s, th' = [th EXCEPT ![t].pc = p, ![t].cores = s]
        PROVE  th'[t].pc # "send" /\ \A u \in Threads \ {t} : th'[u] = th[u]
    BY Zenon, <1>1, <2>3, ThreadTyped DEF ThreadState, ExitPcs
  <2> QED BY Zenon, <1>3, <2>1, <2>2, <2>3
<1> QED BY Zenon, <1>2, <1>4, CalmWork DEF Calm

LEMMA OrchWork ==
    ASSUME SlotInv, WorkInv, launch' = launch, OrchFatal \/ OrchDone \/ RequestTransition
    PROVE  WorkInv'
<1>1. TypeOK /\ Orch \in Threads BY Zenon, ThreadFacts DEF SlotInv
<1>2. th[Orch].pc # "send" /\ UNCHANGED <<core, slot, buffer, next, subtasks, finished, ran>>
  BY Zenon DEF OrchFatal, OrchDone, RequestTransition, Quiet, aicore, shared
<1>3. \/ Leave(Orch) \/ ShutDownAll(Orch) \/ th' = th
      \/ \E p \in OrchPcs : th' = [th EXCEPT ![Orch].pc = p]
  BY Zenon DEF OrchFatal, OrchDone, RequestTransition, OrchPcs
<1>4. th'[Orch].pc # "send" /\ \A u \in Threads \ {Orch} : th'[u] = th[u]
  <2>1. CASE Leave(Orch) BY Zenon, <1>1, <2>1, LeaveMoves DEF Moves
  <2>2. CASE ShutDownAll(Orch) BY Zenon, <1>1, <2>2, ShutDownMoves DEF Moves
  <2>3. CASE th' = th BY Zenon, <1>2, <2>3
  <2>4. ASSUME NEW p \in OrchPcs, th' = [th EXCEPT ![Orch].pc = p]
        PROVE  th'[Orch].pc # "send" /\ \A u \in Threads \ {Orch} : th'[u] = th[u]
    BY Zenon, <1>1, <2>4, ThreadTyped DEF ThreadState, OrchPcs
  <2> QED BY Zenon, <1>3, <2>1, <2>2, <2>3, <2>4
<1> QED BY Zenon, <1>1, <1>2, <1>4, CalmWork DEF Calm

LEMMA ReassignWork ==
    ASSUME SlotInv, WorkInv, launch' = launch, Reassign
    PROVE  WorkInv'
<1>1. TypeOK /\ Orch \in Threads BY Zenon, ThreadFacts DEF SlotInv
<1>2. th[Orch].pc # "send" /\ UNCHANGED <<core, buffer, next, subtasks, finished, ran>>
  BY Zenon DEF Reassign, aicore, shared
<1>3. CASE Leave(Orch) /\ slot' = slot
  <2>1. th'[Orch].pc # "send" /\ \A u \in Threads \ {Orch} : th'[u] = th[u] BY Zenon, <1>1, <1>3, LeaveMoves DEF Moves
  <2> QED BY Zenon, <1>1, <1>2, <1>3, <2>1, CalmWork DEF Calm
<1>4. CASE reassign_cores_for_all_threads /\ th' = [th EXCEPT ![Orch].pc = "top"]
  <2>1. th'[Orch].pc = "top" /\ \A u \in Threads \ {Orch} : th'[u] = th[u]
    BY Zenon, <1>1, <1>4, ThreadTyped DEF ThreadState
  <2>2. \A u \in Threads : ClaimedBy(th'[u]) = ClaimedBy(th[u]) BY Zenon, <1>2, <2>1 DEF ClaimedBy
  <2>3. ASSUME NEW c \in Cores
        PROVE  /\ Waits(core'[c], slot'[c]) = Waits(core[c], slot[c])
               /\ Past(core'[c], slot'[c]) = Past(core[c], slot[c]) /\ Apart(slot'[c])
    <3>1. slot'[c] = [slot[c] EXCEPT !.occupied = ~slot[c].idle] /\ slot[c] \in SlotState
      BY Zenon, <1>1, <1>4 DEF reassign_cores_for_all_threads, TypeOK
    <3>2. /\ slot'[c].running = slot[c].running /\ slot'[c].running_id = slot[c].running_id
          /\ slot'[c].pending = slot[c].pending /\ slot'[c].pending_id = slot[c].pending_id
      BY Zenon, <3>1 DEF SlotState
    <3>3. Apart(slot[c]) BY Zenon DEF WorkInv, HistoryOK
    <3> QED BY Zenon, <1>2, <3>2, <3>3 DEF Waits, Past, Apart
  <2> QED BY Zenon, <1>2, <2>2, <2>3, WorkStill
<1> QED BY Zenon, <1>3, <1>4 DEF Reassign

LEMMA InitWork ==
    ASSUME SlotInv, WorkInv, InitNext
    PROVE  WorkInv'
<1>1. UNCHANGED <<launch, core, slot, buffer, next, subtasks, finished, ran>>
  BY Zenon DEF InitNext, SignalCores, platform_init_aicore_regs, InitDone, aicore, shared
<1>2. \A t \in Threads : ClaimedBy(th'[t]) = ClaimedBy(th[t])
  <2>1. CASE th' = th BY Zenon, <2>1
  <2>2. CASE InitDone
    <3>1. ASSUME NEW t \in Threads PROVE th[t].pc # "send" /\ th'[t].pc # "send"
      <4>1. th[t].pc = "init" /\ th'[t] = [th[t] EXCEPT !.pc = IF t = Orch THEN "orch" ELSE "top"]
        BY Zenon, <2>2 DEF InitDone, Initializing
      <4>2. th'[t].pc = IF t = Orch THEN "orch" ELSE "top" BY Zenon, <4>1, ThreadTyped DEF ThreadState, SlotInv
      <4> QED BY Zenon, <4>1, <4>2
    <3> QED BY Zenon, <3>1 DEF ClaimedBy
  <2> QED BY Zenon, <2>1, <2>2 DEF InitNext, SignalCores, platform_init_aicore_regs
<1>3. \A c \in Cores : Apart(slot[c]) BY Zenon DEF WorkInv, HistoryOK
<1> QED BY Zenon, <1>1, <1>2, <1>3, WorkStill
===============================================================================
