---------------------------- MODULE DispatchProofs ----------------------------
(***************************************************************************)
(* The dispatch of ready tasks to the cores keeps SlotInv: a thread pops a *)
(* batch, claims blocks and cores for it, gives back what it cannot place, *)
(* and sends the blocks one core at a time.  Then: every step keeps        *)
(* WorkInv, which says where each block is.                                *)
(***************************************************************************)
EXTENDS CoreInvariants

\* A core the tracker offers is fit for the pass, with the other core of its cluster for "MIX".
LEMMA OfferedFits ==
    ASSUME TypeOK, NEW t \in Threads, NEW p \in 1..6, NEW c \in get_dispatchable_cores(t, p)
    PROVE  LET shape == ShapeAt(t, p) IN
           /\ c \in Owned(t) /\ Kind(c) = (IF shape = "MIX" THEN "AIC" ELSE shape)
           /\ Targets(c, shape) \subseteq Owned(t)
           /\ \A d \in Targets(c, shape) : Fits(slot[d], p)
<1> DEFINE shape == ShapeAt(t, p)
<1>1. /\ c \in Owned(t) /\ Kind(c) = (IF shape = "MIX" THEN "AIC" ELSE shape)
      /\ IF p % 2 = 1 THEN slot[c].idle /\ (shape = "MIX" => slot[c + 1].idle)
                      ELSE ~slot[c].occupied /\ (shape = "MIX" => ~slot[c + 1].occupied)
  BY Zenon DEF get_dispatchable_cores, get_idle_core_offset_states, get_pending_core_offset_states
<1>2. c \in Cores BY Zenon, <1>1 DEF Owned
<1>3. shape = "MIX" => c + 1 \in Owned(t)
  <2> HAVE shape = "MIX"
  <2>1. c % 2 = 0 BY Zenon, <1>1 DEF Kind
  <2>2. c + 1 \in Cores /\ (c + 1) \div 2 = c \div 2 BY Zenon, <1>2, <2>1, Cluster DEF TypeOK
  <2> QED BY Zenon, <1>1, <2>2 DEF Owned
<1> HIDE DEF shape
<1>4. Targets(c, shape) \subseteq Owned(t) BY Zenon, <1>1, <1>3 DEF Targets
<1>5. \A d \in Targets(c, shape) : Fits(slot[d], p) BY Zenon, <1>1 DEF Targets, Fits
<1> QED BY Zenon, <1>1, <1>4, <1>5 DEF shape

LEMMA OrderFacts ==
    ASSUME NEW t \in Threads, NEW p \in 1..6
    PROVE  ShapeAt(t, p) \in Shapes
<1>1. (p + 1) \div 2 \in 1..3 OBVIOUS
<1> QED BY <1>1 DEF ShapeAt, get_dispatch_order, Shapes

LEMMA PopBatchKeeps ==
    ASSUME LibraryFacts, SlotInv, NEW t \in Threads, launch' = launch, PopBatch(t)
    PROVE  SlotInv'
<1>1. TypeOK /\ th[t].pc = "shape" BY Zenon DEF SlotInv, PopBatch
<1>2. PICK p \in 1..6 : /\ p = Min(Passes(t)) /\ get_dispatchable_cores(t, p) # {}
                        /\ ready[ShapeAt(t, p)] # <<>>
  <2>1. Passes(t) # {} BY Zenon DEF PopBatch
  <2>2. th[t].at \in 1..6 BY Zenon, <1>1, ThreadTyped
  <2>3. Passes(t) \subseteq 1..6 BY <2>2 DEF Passes
  <2>4. Min(Passes(t)) \in Passes(t) BY <2>1, <2>3, MinIn
  <2> QED BY Zenon, <2>3, <2>4 DEF Passes
<1> DEFINE s == ShapeAt(t, p)
           q == ready[s]
           cores == get_dispatchable_cores(t, p)
<1>3. s \in Shapes BY Zenon, OrderFacts
<1>4. /\ q \in Seq(DOMAIN Tasks) /\ q # <<>> /\ Len(q) \in Nat \ {0}
      /\ Once(q) /\ \A k \in Range(q) : next[k] < Tasks[k].blocks /\ Tasks[k].shape = s
  <2>1. q \in Seq(DOMAIN Tasks) /\ q # <<>> BY Zenon, <1>1, <1>2, <1>3 DEF TypeOK
  <2>2. Once(q) /\ \A k \in Range(q) : next[k] < Tasks[k].blocks /\ Tasks[k].shape = s
    BY Zenon, <1>3 DEF SlotInv, QueuesOK, QueuesFit
  <2> HIDE DEF q
  <2> QED BY <2>1, <2>2
<1>5. cores # {} /\ cores \subseteq Owned(t) /\ cores \subseteq Cores
  BY Zenon, <1>1, <1>2, OfferedFits DEF Owned
<1>6. PICK got \in 1..Len(q) :
         /\ ready' = [ready EXCEPT ![s] = SubSeq(q, got + 1, Len(q))]
         /\ th' = [th EXCEPT ![t].pc = "batch", ![t].at = p, ![t].cores = cores, ![t].batch = SubSeq(q, 1, got)]
  <2>1. IsFiniteSet(cores) BY Zenon, <1>1, <1>5, FiniteLaunch DEF TypeOK
  <2>2. Cardinality(cores) \in Nat \ {0} BY Zenon, <1>5, <2>1 DEF LibraryFacts
  <2>3. Min({Cardinality(cores), Len(q)}) \in {Cardinality(cores), Len(q)} /\ Min({Cardinality(cores), Len(q)}) <= Len(q)
    <3> HIDE DEF cores, q
    <3>1. {Cardinality(cores), Len(q)} \in SUBSET Nat /\ {Cardinality(cores), Len(q)} # {} BY Zenon, <1>4, <2>2
    <3> QED BY Zenon, <3>1, MinIn
  <2>4. Min({Cardinality(cores), Len(q)}) \in 1..Len(q) BY <1>4, <2>2, <2>3
  <2> QED BY <1>2, <2>4, Zenon DEF PopBatch
<1>7. UNCHANGED <<data, cond, core, slot, buffer, owner, next, ctl>> BY Zenon DEF PopBatch, aicore
<1> DEFINE a == SubSeq(q, 1, got)
           b == SubSeq(q, got + 1, Len(q))
<1>8. /\ a \in Seq(DOMAIN Tasks) /\ a # <<>> /\ Once(a) /\ Range(a) \subseteq Range(q)
      /\ b \in Seq(DOMAIN Tasks) /\ Once(b) /\ Range(b) \subseteq Range(q) /\ Range(a) \cap Range(b) = {}
  BY <1>4, CutQueue, Zenon
<1> DEFINE n == [th[t] EXCEPT !.pc = "batch", !.at = p, !.cores = cores, !.batch = a]
<1> HIDE DEF a, b, cores, q
<1>9. n \in ThreadState /\ n.pc = "batch" /\ n.at = p /\ n.cores = cores /\ n.batch = a
  BY ZenonT(30), <1>1, <1>5, <1>8, ThreadTyped DEF ThreadState, LoopPcs
<1>10. th' = [th EXCEPT ![t] = n] BY Zenon, <1>1, <1>6, ThreadTyped DEF a
<1> HIDE DEF n
<1>11. Moves(t) /\ th'[t] = n BY Zenon, <1>1, <1>9, <1>10, MovesTo
<1>12. Cores' = Cores /\ Tasks' = Tasks /\ ThreadState' = ThreadState /\ Owned(t)' = Owned(t)
  BY Zenon, <1>7, Fixed DEF Owned
<1>13. ready' \in [Shapes -> Seq(DOMAIN Tasks)] /\ ready'[s] = b /\ \A x \in Shapes \ {s} : ready'[x] = ready[x]
  BY Zenon, <1>1, <1>3, <1>6, <1>8 DEF TypeOK, b
<1>14. TypeOK' BY Zenon, <1>1, <1>7, <1>11, <1>12, <1>13 DEF TypeOK, Moves
<1>15. CoresOK' BY Zenon, <1>7, DataKeeps DEF SlotInv
<1>16. ThreadsOK'
  <2> SUFFICES ASSUME NEW u \in Threads
               PROVE  ChosenOK(u)' /\ BatchOK(u)' /\ PollingOK(u)' /\ AwaitingOK(u)'
    BY Zenon DEF ThreadsOK
  <2>1. CASE u # t
    <3>1. th'[u] = th[u] BY Zenon, <1>11, <2>1 DEF Moves
    <3> QED BY Zenon, <1>7, <3>1, OtherThreads DEF SlotInv, ThreadsOK
  <2>2. CASE u = t
    <3>1. PollingOK(t)' /\ AwaitingOK(t)' BY Zenon, <1>9, <1>11 DEF PollingOK, AwaitingOK
    <3>2. th'[t].at = p /\ th'[t].cores = cores /\ th'[t].batch = a /\ th'[t].pc = "batch" BY Zenon, <1>9, <1>11
    <3>3. ShapeAt(t, th'[t].at) = s BY Zenon, <3>2
    <3>4. ChosenOK(t)'
      <4>1. \A c \in cores : LET shape == ShapeAt(t, p) IN
              /\ Kind(c) = (IF shape = "MIX" THEN "AIC" ELSE shape)
              /\ Targets(c, shape) \subseteq Owned(t)
              /\ \A d \in Targets(c, shape) : Fits(slot[d], p)
        BY <1>1, OfferedFits, Zenon DEF cores
      <4> QED BY <1>7, <1>12, <3>2, <4>1, Zenon DEF ChosenOK
    <3>5. BatchOK(t)'
      <4>1. \A i \in DOMAIN a : Tasks[a[i]].shape = s BY Zenon, <1>4, <1>8 DEF Range
      <4> QED BY Zenon, <1>8, <1>12, <3>2, <3>3, <4>1 DEF BatchOK, Dispatching
    <3> QED BY Zenon, <2>2, <3>1, <3>4, <3>5
  <2> QED BY Zenon, <2>1, <2>2
<1>17. QueuesOK'
  <2>1. HeldBy(th'[t]) = Range(a)
    <3>1. DOMAIN a = 1..Len(a) BY <1>8
    <3> QED BY Zenon, <1>9, <1>11, <3>1 DEF HeldBy, Range
  <2>2. Held' = [u \in Threads |-> HeldBy(th'[u])] BY Zenon DEF Held
  <2>3. Held'[t] = Range(a) /\ \A u \in Threads \ {t} : Held'[u] = Held[u] BY Zenon, <1>11, <2>1, <2>2 DEF Held, Moves
  <2>4. QueuesFit(ready, next, Held, Tasks) BY Zenon DEF SlotInv, QueuesOK
  <2>5. \A x \in Shapes : Once(ready'[x]) /\ Range(ready'[x]) \subseteq Range(ready[x])
    BY Zenon, <1>3, <1>8, <1>13, <2>4 DEF QueuesFit, q
  <2>6. \A x \in Shapes : \A k \in Range(ready'[x]) : next[k] < Tasks[k].blocks /\ Tasks[k].shape = x
    BY Zenon, <2>4, <2>5 DEF QueuesFit
  <2>7. \A k \in Range(a) : /\ k \in Range(ready[s]) /\ next[k] < Tasks[k].blocks /\ Tasks[k].shape = s
                            /\ \A u \in Threads : k \notin Held[u]
    BY Zenon, <1>3, <1>4, <1>8, <2>4 DEF QueuesFit, q
  <2>8. \A k \in Range(a) : \A x \in Shapes : k \notin Range(ready'[x])
    BY <1>8, <1>13, <2>6, <2>7
  <2>9. QueuesFit(ready', next, Held', Tasks)
    <3>1. ASSUME NEW u \in Threads, NEW k \in Held'[u]
          PROVE  /\ next[k] < Tasks[k].blocks
                 /\ \A x \in Shapes : k \notin Range(ready'[x])
                 /\ \A v \in Threads : k \in Held'[v] => v = u
      <4>1. CASE u = t BY Zenon, <2>3, <2>7, <2>8, <3>1, <4>1
      <4>2. CASE u # t
        <5>1. k \in Held[u] BY Zenon, <2>3, <3>1, <4>2
        <5>2. k \notin Range(a) BY Zenon, <2>7, <5>1
        <5>3. /\ next[k] < Tasks[k].blocks /\ \A x \in Shapes : k \notin Range(ready[x])
              /\ \A v \in Threads : k \in Held[v] => v = u
          BY Zenon, <2>4, <5>1 DEF QueuesFit
        <5>4. \A v \in Threads : k \in Held'[v] => v = u BY Zenon, <2>3, <5>2, <5>3
        <5>5. \A x \in Shapes : k \notin Range(ready'[x]) BY Zenon, <2>5, <5>3
        <5> QED BY Zenon, <5>3, <5>4, <5>5
      <4> QED BY Zenon, <4>1, <4>2
    <3> QED BY Zenon, <2>4, <2>5, <2>6, <3>1 DEF QueuesFit
  <2> QED BY Zenon, <1>7, <1>12, <2>9 DEF QueuesOK
<1>18. HandOverOK' BY Zenon, <1>1, <1>7, <1>9, <1>11, HandOverMoves DEF SlotInv, LoopPcs
<1> QED BY Zenon, <1>14, <1>15, <1>16, <1>17, <1>18 DEF SlotInv

\* A batch goes back to its queue.
GivesBack(rd, nx, hd, tasks, t, s, b, rr, hh) ==
    /\ QueuesFit(rd, nx, hd, tasks) /\ rd \in [Shapes -> Seq(DOMAIN tasks)]
    /\ t \in Threads /\ s \in Shapes /\ b \in Seq(DOMAIN tasks) /\ Once(b)
    /\ hd[t] = Range(b) /\ \A k \in Range(b) : tasks[k].shape = s
    /\ rr = [rd EXCEPT ![s] = rd[s] \o b]
    /\ hh[t] = {} /\ \A u \in Threads \ {t} : hh[u] = hd[u]

LEMMA HandBack ==
    ASSUME NEW rd, NEW nx, NEW hd, NEW tasks, NEW t, NEW s, NEW b, NEW rr, NEW hh,
           GivesBack(rd, nx, hd, tasks, t, s, b, rr, hh)
    PROVE  rr \in [Shapes -> Seq(DOMAIN tasks)] /\ QueuesFit(rr, nx, hh, tasks)
<1> DEFINE q == rd[s]
<1>0. /\ rd \in [Shapes -> Seq(DOMAIN tasks)] /\ t \in Threads /\ s \in Shapes /\ b \in Seq(DOMAIN tasks) /\ Once(b)
      /\ hd[t] = Range(b) /\ (\A k \in Range(b) : tasks[k].shape = s) /\ rr = [rd EXCEPT ![s] = rd[s] \o b]
      /\ hh[t] = {} /\ \A u \in Threads \ {t} : hh[u] = hd[u]
  BY Zenon DEF GivesBack
<1>1. /\ \A x \in Shapes : /\ Once(rd[x])
                           /\ \A k \in Range(rd[x]) : nx[k] < tasks[k].blocks /\ tasks[k].shape = x
      /\ \A u \in Threads : \A k \in hd[u] : /\ nx[k] < tasks[k].blocks
                                             /\ \A x \in Shapes : k \notin Range(rd[x])
                                             /\ \A v \in Threads : k \in hd[v] => v = u
      /\ \A k \in DOMAIN tasks : nx[k] <= tasks[k].blocks
  BY Zenon DEF QueuesFit, GivesBack
<1>2. q \in Seq(DOMAIN tasks) /\ Once(q) /\ Range(q) \cap Range(b) = {}
  <2>1. q \in Seq(DOMAIN tasks) /\ Once(q) BY Zenon, <1>0, <1>1
  <2>2. ASSUME NEW k \in Range(b) PROVE k \notin Range(q)
    <3>1. k \in hd[t] BY Zenon, <1>0
    <3> QED BY Zenon, <1>0, <1>1, <3>1
  <2> HIDE DEF q
  <2> QED BY Zenon, <1>0, <2>1, <2>2
<1> HIDE DEF q
<1>3. q \o b \in Seq(DOMAIN tasks) /\ Once(q \o b) /\ Range(q \o b) = Range(q) \cup Range(b)
  <2>1. b \in Seq(DOMAIN tasks) /\ Once(b) BY Zenon, <1>0
  <2> QED BY <1>2, <2>1, JoinQueues, SMTT(20)
<1>4. rr \in [Shapes -> Seq(DOMAIN tasks)] /\ rr[s] = q \o b /\ q = rd[s] /\ \A x \in Shapes \ {s} : rr[x] = rd[x]
  BY Zenon, <1>0, <1>3 DEF q
<1>5. \A x \in Shapes : Once(rr[x]) BY Zenon, <1>0, <1>1, <1>3, <1>4
<1>6. \A k \in Range(b) : nx[k] < tasks[k].blocks /\ tasks[k].shape = s BY ZenonT(30), <1>0, <1>1
<1>7. \A x \in Shapes : \A k \in Range(rr[x]) : nx[k] < tasks[k].blocks /\ tasks[k].shape = x
  <2> TAKE x \in Shapes
  <2>1. CASE x = s BY Zenon, <1>0, <1>1, <1>3, <1>4, <1>6, <2>1
  <2>2. CASE x # s BY Zenon, <1>0, <1>1, <1>4, <2>2
  <2> QED BY Zenon, <1>0, <2>1, <2>2
<1>8. ASSUME NEW u \in Threads, NEW k \in hh[u]
      PROVE  /\ nx[k] < tasks[k].blocks /\ \A x \in Shapes : k \notin Range(rr[x])
             /\ \A v \in Threads : k \in hh[v] => v = u
  <2>1. u # t /\ k \in hd[u] BY Zenon, <1>0, <1>8
  <2>2. k \notin Range(b) BY Zenon, <1>0, <1>1, <2>1
  <2>3. \A x \in Shapes : k \notin Range(rr[x]) BY Zenon, <1>0, <1>1, <1>3, <1>4, <2>1, <2>2
  <2>4. \A v \in Threads : k \in hh[v] => v = u BY Zenon, <1>0, <1>1, <2>1
  <2> QED BY Zenon, <1>0, <1>1, <2>1, <2>3, <2>4
<1> QED BY Zenon, <1>0, <1>1, <1>4, <1>5, <1>7, <1>8 DEF QueuesFit

\* Blocks of a held task are claimed; it goes back to its queue when more are left.
Claims(rd, nx, hd, tasks, t, s, k, claim, rr, nn, hh) ==
    /\ QueuesFit(rd, nx, hd, tasks) /\ rd \in [Shapes -> Seq(DOMAIN tasks)] /\ nx \in [DOMAIN tasks -> Nat]
    /\ t \in Threads /\ s \in Shapes /\ k \in DOMAIN tasks /\ k \in hd[t] /\ tasks[k].shape = s
    /\ claim \in Nat /\ nx[k] + claim <= tasks[k].blocks
    /\ rr = IF nx[k] + claim < tasks[k].blocks THEN [rd EXCEPT ![s] = Append(rd[s], k)] ELSE rd
    /\ nn = [nx EXCEPT ![k] = nx[k] + claim]
    /\ hh[t] = hd[t] \ {k} /\ \A u \in Threads \ {t} : hh[u] = hd[u]

LEMMA ClaimQueue ==
    ASSUME NEW rd, NEW nx, NEW hd, NEW tasks, NEW t, NEW s, NEW k, NEW claim, NEW rr, NEW nn, NEW hh,
           Claims(rd, nx, hd, tasks, t, s, k, claim, rr, nn, hh)
    PROVE  /\ nn \in [DOMAIN tasks -> Nat] /\ rr \in [Shapes -> Seq(DOMAIN tasks)] /\ QueuesFit(rr, nn, hh, tasks)
<1> DEFINE q == rd[s]
<1>0. /\ rd \in [Shapes -> Seq(DOMAIN tasks)] /\ nx \in [DOMAIN tasks -> Nat] /\ claim \in Nat
      /\ t \in Threads /\ s \in Shapes /\ k \in DOMAIN tasks /\ k \in hd[t] /\ tasks[k].shape = s
      /\ nx[k] + claim <= tasks[k].blocks /\ nn = [nx EXCEPT ![k] = nx[k] + claim]
      /\ rr = (IF nx[k] + claim < tasks[k].blocks THEN [rd EXCEPT ![s] = Append(rd[s], k)] ELSE rd)
      /\ hh[t] = hd[t] \ {k} /\ \A u \in Threads \ {t} : hh[u] = hd[u]
  BY Zenon DEF Claims
<1>1. /\ \A x \in Shapes : /\ Once(rd[x])
                           /\ \A j \in Range(rd[x]) : nx[j] < tasks[j].blocks /\ tasks[j].shape = x
      /\ \A u \in Threads : \A j \in hd[u] : /\ nx[j] < tasks[j].blocks
                                             /\ \A x \in Shapes : j \notin Range(rd[x])
                                             /\ \A v \in Threads : j \in hd[v] => v = u
      /\ \A j \in DOMAIN tasks : nx[j] <= tasks[j].blocks
  BY Zenon DEF QueuesFit, Claims
<1>2. nx[k] \in Nat /\ nx[k] + claim \in Nat
  <2>1. nx[k] \in Nat BY Zenon, <1>0
  <2> QED BY <1>0, <2>1
<1>3. nn \in [DOMAIN tasks -> Nat] /\ nn[k] = nx[k] + claim /\ \A j : j # k => nn[j] = nx[j]
  BY <1>0, <1>2
<1>4. q \in Seq(DOMAIN tasks) /\ Once(q) /\ k \notin Range(q) /\ \A x \in Shapes : k \notin Range(rd[x])
  BY Zenon, <1>0, <1>1
<1> HIDE DEF q
<1>5. Append(q, k) \in Seq(DOMAIN tasks) /\ Once(Append(q, k)) /\ Range(Append(q, k)) = Range(q) \cup {k}
  <2>1. k \in DOMAIN tasks BY Zenon, <1>0
  <2> QED BY <1>4, <2>1, AppendQueue, SMTT(20)
<1>6. /\ rr \in [Shapes -> Seq(DOMAIN tasks)] /\ \A x \in Shapes : Once(rr[x])
      /\ \A x \in Shapes : Range(rr[x]) \subseteq Range(rd[x]) \cup {k}
      /\ \A x \in Shapes : k \in Range(rr[x]) => x = s /\ nx[k] + claim < tasks[k].blocks
  <2>1. CASE nx[k] + claim < tasks[k].blocks
    <3>1. rr = [rd EXCEPT ![s] = Append(q, k)] BY Zenon, <1>0, <2>1 DEF q
    <3>2. /\ rr \in [Shapes -> Seq(DOMAIN tasks)] /\ rr[s] = Append(q, k) /\ q = rd[s]
          /\ \A x \in Shapes \ {s} : rr[x] = rd[x]
      BY ZenonT(30), <1>0, <1>5, <3>1 DEF q
    <3> QED BY Zenon, <1>0, <1>1, <1>4, <1>5, <2>1, <3>2
  <2>2. CASE ~(nx[k] + claim < tasks[k].blocks)
    <3>1. rr = rd BY Zenon, <1>0, <2>2
    <3> QED BY Zenon, <1>0, <1>1, <1>4, <3>1
  <2> QED BY Zenon, <1>0, <2>1, <2>2
<1>7. \A x \in Shapes : \A j \in Range(rr[x]) : nn[j] < tasks[j].blocks /\ tasks[j].shape = x
  <2> TAKE x \in Shapes
  <2> TAKE j \in Range(rr[x])
  <2>1. CASE j = k BY Zenon, <1>0, <1>3, <1>6, <2>1
  <2>2. CASE j # k
    <3>1. j \in Range(rd[x]) /\ nn[j] = nx[j] BY Zenon, <1>0, <1>3, <1>6, <2>2
    <3> QED BY Zenon, <1>0, <1>1, <3>1
  <2> QED BY Zenon, <1>0, <2>1, <2>2
<1>8. ASSUME NEW u \in Threads, NEW j \in hh[u]
      PROVE  /\ nn[j] < tasks[j].blocks /\ \A x \in Shapes : j \notin Range(rr[x])
             /\ \A v \in Threads : j \in hh[v] => v = u
  <2>1. j # k /\ j \in hd[u]
    <3>1. CASE u = t BY Zenon, <1>0, <1>8, <3>1
    <3>2. CASE u # t BY Zenon, <1>0, <1>1, <1>8, <3>2
    <3> QED BY Zenon, <1>0, <3>1, <3>2
  <2>2. \A x \in Shapes : j \notin Range(rr[x]) BY Zenon, <1>0, <1>1, <1>6, <2>1
  <2>3. \A v \in Threads : j \in hh[v] => j \in hd[v] BY Zenon, <1>0
  <2> QED BY Zenon, <1>0, <1>1, <1>3, <2>1, <2>2, <2>3
<1>9. \A j \in DOMAIN tasks : nn[j] <= tasks[j].blocks BY Zenon, <1>0, <1>1, <1>3
<1> QED BY Zenon, <1>0, <1>3, <1>6, <1>7, <1>8, <1>9 DEF QueuesFit

\* A step of the dispatch that leaves the cores alone.
LEMMA DispatchAside ==
    ASSUME SlotInv, NEW t \in Threads, launch' = launch, Moves(t),
           UNCHANGED <<data, cond, core, slot, buffer, owner, ctl>>,
           ready' \in [Shapes -> Seq(DOMAIN Tasks)], next' \in [DOMAIN Tasks -> Nat],
           QueuesFit(ready', next', Held', Tasks), ChosenOK(t)', BatchOK(t)',
           th[t].pc \in {"shape", "batch", "send"}, th'[t].pc \in {"shape", "batch", "send"}
    PROVE  SlotInv'
<1>1. Cores' = Cores /\ Tasks' = Tasks /\ ThreadState' = ThreadState BY Zenon, Fixed
<1>2. TypeOK' BY Zenon, <1>1 DEF SlotInv, TypeOK, Moves
<1>3. CoresOK' BY Zenon, DataKeeps DEF SlotInv
<1>4. ThreadsOK'
  <2> SUFFICES ASSUME NEW u \in Threads
               PROVE  ChosenOK(u)' /\ BatchOK(u)' /\ PollingOK(u)' /\ AwaitingOK(u)'
    BY Zenon DEF ThreadsOK
  <2>1. CASE u # t
    <3>1. th'[u] = th[u] BY Zenon, <2>1 DEF Moves
    <3> QED BY Zenon, <3>1, OtherThreads DEF SlotInv, ThreadsOK
  <2>2. CASE u = t
    <3>1. PollingOK(t)' /\ AwaitingOK(t)' BY Zenon DEF PollingOK, AwaitingOK
    <3> QED BY Zenon, <2>2, <3>1
  <2> QED BY Zenon, <2>1, <2>2
<1>5. QueuesOK' BY Zenon, <1>1 DEF QueuesOK
<1>6. HandOverOK' BY Zenon, HandOverMoves DEF SlotInv, LoopPcs
<1> QED BY Zenon, <1>2, <1>3, <1>4, <1>5, <1>6 DEF SlotInv

LEMMA HeldMoves ==
    ASSUME NEW t \in Threads, Moves(t)
    PROVE  Held'[t] = HeldBy(th'[t]) /\ \A u \in Threads \ {t} : Held'[u] = Held[u]
<1>1. Held' = [u \in Threads |-> HeldBy(th'[u])] BY Zenon DEF Held
<1> QED BY Zenon, <1>1 DEF Held, Moves

\* What a thread in the middle of a batch knows of it.
LEMMA BatchFacts ==
    ASSUME SlotInv, NEW t \in Threads, Dispatching(t)
    PROVE  LET b == th[t].batch
               s == ShapeAt(t, th[t].at)
           IN /\ b \in Seq(DOMAIN Tasks) /\ Len(b) \in Nat \ {0} /\ DOMAIN b = 1..Len(b) /\ Once(b)
              /\ s \in Shapes /\ \A i \in DOMAIN b : b[i] \in DOMAIN Tasks /\ Tasks[b[i]].shape = s
              /\ Head(b) = b[1] /\ Head(b) \in DOMAIN Tasks /\ Tasks[Head(b)].shape = s
<1> DEFINE b == th[t].batch
           s == ShapeAt(t, th[t].at)
<1>1. TypeOK /\ BatchOK(t) BY Zenon DEF SlotInv, ThreadsOK
<1>2. b \in Seq(DOMAIN Tasks) /\ th[t].at \in 1..6 BY Zenon, <1>1, ThreadTyped
<1>3. b # <<>> /\ Once(b) /\ \A i \in DOMAIN b : Tasks[b[i]].shape = s BY Zenon, <1>1 DEF BatchOK
<1>4. s \in Shapes BY Zenon, <1>2, OrderFacts
<1> HIDE DEF b, s
<1>5. Len(b) \in Nat \ {0} /\ DOMAIN b = 1..Len(b) /\ Head(b) = b[1] /\ 1 \in DOMAIN b
      /\ \A i \in DOMAIN b : b[i] \in DOMAIN Tasks
  BY <1>2, <1>3
<1> QED BY Zenon, <1>2, <1>3, <1>4, <1>5 DEF b, s

LEMMA ClaimBlocksKeeps ==
    ASSUME LibraryFacts, SlotInv, NEW t \in Threads, launch' = launch, ClaimBlocks(t)
    PROVE  SlotInv'
<1>1. TypeOK /\ th[t].pc = "batch" /\ Dispatching(t) /\ ChosenOK(t)
  BY Zenon DEF SlotInv, ClaimBlocks, Dispatching, ThreadsOK
<1>2. UNCHANGED <<data, cond, core, slot, buffer, owner, ctl>> BY Zenon DEF ClaimBlocks, aicore
<1> DEFINE b == th[t].batch
           s == ShapeAt(t, th[t].at)
           k == Head(b)
           cores == th[t].cores
<1>3. /\ b \in Seq(DOMAIN Tasks) /\ Len(b) \in Nat \ {0} /\ DOMAIN b = 1..Len(b) /\ Once(b)
      /\ s \in Shapes /\ \A i \in DOMAIN b : b[i] \in DOMAIN Tasks /\ Tasks[b[i]].shape = s
      /\ k = b[1] /\ k \in DOMAIN Tasks /\ Tasks[k].shape = s
  BY Zenon, <1>1, BatchFacts
<1>4. Held[t] = Range(b) BY Zenon, <1>1, <1>3 DEF Held, HeldBy, Range
<1>5. /\ QueuesFit(ready, next, Held, Tasks) /\ ready \in [Shapes -> Seq(DOMAIN Tasks)]
      /\ next \in [DOMAIN Tasks -> Nat] /\ cores \subseteq Cores
  BY Zenon, <1>1, ThreadTyped DEF SlotInv, QueuesOK, TypeOK
<1>6. CASE cores = {}
  <2>1. /\ ready' = [ready EXCEPT ![s] = ready[s] \o b] /\ next' = next
        /\ th' = [th EXCEPT ![t].pc = "shape", ![t].batch = <<>>]
    BY Zenon, <1>3, <1>5, <1>6 DEF ClaimBlocks
  <2> DEFINE n == [th[t] EXCEPT !.pc = "shape", !.batch = <<>>]
  <2>2. n \in ThreadState /\ n.pc = "shape"
    <3>1. <<>> \in Seq(DOMAIN Tasks) OBVIOUS
    <3> QED BY Zenon, <1>1, <3>1, ThreadTyped DEF ThreadState, LoopPcs
  <2>3. th' = [th EXCEPT ![t] = n] BY Zenon, <1>1, <2>1, ThreadTyped
  <2>4. Moves(t) /\ th'[t].pc = "shape" BY Zenon, <1>1, <2>2, <2>3, MovesTo
  <2>5. Held'[t] = {} /\ \A u \in Threads \ {t} : Held'[u] = Held[u]
    BY Zenon, <2>4, HeldMoves DEF HeldBy
  <2>6. \A j \in Range(b) : Tasks[j].shape = s BY Zenon, <1>3 DEF Range
  <2>7. ready' \in [Shapes -> Seq(DOMAIN Tasks)] /\ QueuesFit(ready', next, Held', Tasks)
    <3> HIDE DEF b, s
    <3>1. b \in Seq(DOMAIN Tasks) /\ Once(b) /\ s \in Shapes BY Zenon, <1>3
    <3>2. GivesBack(ready, next, Held, Tasks, t, s, b, ready', Held')
      BY Zenon, <1>4, <1>5, <2>1, <2>5, <2>6, <3>1 DEF GivesBack
    <3> QED BY Zenon, <3>2, HandBack
  <2>8. ChosenOK(t)' /\ BatchOK(t)' BY Zenon, <2>4 DEF ChosenOK, BatchOK, Dispatching
  <2> QED BY Zenon, <1>1, <1>2, <1>5, <2>1, <2>4, <2>7, <2>8, DispatchAside
<1>7. CASE cores # {}
  <2> DEFINE left == Tasks[k].blocks - next[k]
             claim == Claim(Cardinality(cores), left)
  <2>1. /\ next' = [next EXCEPT ![k] = next[k] + claim]
        /\ ready' = IF next[k] + claim < Tasks[k].blocks THEN [ready EXCEPT ![s] = Append(ready[s], k)] ELSE ready
        /\ th' = [th EXCEPT ![t].pc = "send", ![t].block = next[k], ![t].claim = claim]
    BY Zenon, <1>3, <1>5, <1>7 DEF ClaimBlocks
  <2>2. k \in Held[t]
    <3>1. 1 \in DOMAIN b BY <1>3
    <3> QED BY Zenon, <1>3, <1>4, <3>1 DEF Range
  <2>3. next[k] \in Nat /\ Tasks[k].blocks \in Nat /\ next[k] < Tasks[k].blocks
    BY Zenon, <1>1, <1>3, <1>5, <2>2, LaunchFacts DEF QueuesFit, TypeOK
  <2>4. left \in Nat \ {0} BY <2>3
  <2>5. Cardinality(cores) \in Nat \ {0}
    <3>1. IsFiniteSet(cores) BY Zenon, <1>1, <1>5, FiniteLaunch DEF TypeOK
    <3> QED BY Zenon, <1>7, <3>1 DEF LibraryFacts
  <2>6. claim \in 1..Cardinality(cores) /\ claim \in Nat /\ next[k] + claim <= Tasks[k].blocks
    <3>1. {Cardinality(cores), left} \in SUBSET Nat /\ {Cardinality(cores), left} # {} BY Zenon, <2>4, <2>5
    <3>2. claim \in {Cardinality(cores), left} /\ claim <= Cardinality(cores) /\ claim <= left
      BY Zenon, <3>1, MinIn DEF Claim
    <3> HIDE DEF claim
    <3> QED BY <2>3, <2>4, <2>5, <3>2
  <2> HIDE DEF claim
  <2> DEFINE n == [th[t] EXCEPT !.pc = "send", !.block = next[k], !.claim = claim]
  <2>7. /\ n \in ThreadState /\ n.pc = "send" /\ n.claim = claim /\ n.batch = b /\ n.at = th[t].at /\ n.cores = cores
    BY ZenonT(30), <1>1, <2>3, <2>6, ThreadTyped DEF ThreadState, LoopPcs
  <2>8. th' = [th EXCEPT ![t] = n] BY Zenon, <1>1, <2>1, ThreadTyped
  <2> HIDE DEF n
  <2>9. Moves(t) /\ th'[t] = n BY Zenon, <1>1, <2>7, <2>8, MovesTo
  <2>10. Held'[t] = Held[t] \ {k} /\ \A u \in Threads \ {t} : Held'[u] = Held[u]
    <3>1. HeldBy(n) = {b[i] : i \in 2..Len(b)} BY Zenon, <2>7 DEF HeldBy
    <3>2. {b[i] : i \in 2..Len(b)} = Range(b) \ {k}
      <4> HIDE DEF b, k
      <4>1. \A i \in DOMAIN b : i # 1 <=> i \in 2..Len(b) BY <1>3
      <4>2. 1 \in DOMAIN b /\ 2..Len(b) \subseteq DOMAIN b BY <1>3
      <4>3. \A i \in DOMAIN b : b[i] = k <=> i = 1 BY Zenon, <1>3, <4>2 DEF Once
      <4> QED BY Zenon, <4>1, <4>2, <4>3 DEF Range
    <3> QED BY Zenon, <1>4, <2>9, <3>1, <3>2, HeldMoves
  <2>11. /\ next' \in [DOMAIN Tasks -> Nat] /\ ready' \in [Shapes -> Seq(DOMAIN Tasks)]
         /\ QueuesFit(ready', next', Held', Tasks)
    <3> HIDE DEF b, s, k, left
    <3>1. s \in Shapes /\ k \in DOMAIN Tasks /\ Tasks[k].shape = s BY Zenon, <1>3
    <3>2. Claims(ready, next, Held, Tasks, t, s, k, claim, ready', next', Held')
      BY Zenon, <1>5, <2>1, <2>2, <2>6, <2>10, <3>1 DEF Claims
    <3> QED BY Zenon, <3>2, ClaimQueue
  <2>12. th'[t].pc = "send" /\ th'[t].at = th[t].at /\ th'[t].cores = cores /\ th'[t].batch = b /\ th'[t].claim = claim
    BY Zenon, <2>7, <2>9
  <2>13. Cores' = Cores /\ Tasks' = Tasks /\ Owned(t)' = Owned(t) BY Zenon, <1>2, Fixed DEF Owned
  <2>14. ChosenOK(t)' BY Zenon, <1>1, <1>2, <2>12, <2>13 DEF ChosenOK
  <2>15. BatchOK(t)'
    <3>1. BatchOK(t) BY Zenon DEF SlotInv, ThreadsOK
    <3> QED BY Zenon, <1>1, <2>6, <2>12, <2>13, <3>1 DEF BatchOK, Dispatching
  <2> QED BY Zenon, <1>1, <1>2, <2>9, <2>11, <2>12, <2>14, <2>15, DispatchAside
<1> QED BY Zenon, <1>6, <1>7

\* A block sent to cores that are fit for the pass.
LEMMA DispatchBlock ==
    ASSUME TypeOK, CoresOK, launch' = launch, UNCHANGED <<cond, core>>, NEW S \in SUBSET Cores,
           NEW w \in Work, w # NoWork, NEW p \in 1..6, \A d \in S : Fits(slot[d], p),
           dispatch_block(S, w, p % 2 = 0)
    PROVE  /\ slot' \in [Cores -> SlotState] /\ buffer' \in [Cores -> [{0, 1} -> Work]] /\ data' \in [Cores -> Regs]
           /\ CoresOK' /\ \A d \in Cores \ S : slot'[d] = slot[d]
<1>1. /\ slot' = [c \in Cores |-> IF c \in S THEN Occupy(slot[c], w, p % 2 = 0 /\ ~slot[c].idle) ELSE slot[c]]
      /\ buffer' = [c \in Cores |-> IF c \in S THEN [buffer[c] EXCEPT ![NextId(slot[c].seq) % 2] = w] ELSE buffer[c]]
      /\ data' = [c \in Cores |-> IF c \in S THEN NextId(slot[c].seq) ELSE data[c]]
  BY Zenon DEF dispatch_block
<1>2. \A c \in Cores : /\ slot'[c] = IF c \in S THEN Occupy(slot[c], w, p % 2 = 0 /\ ~slot[c].idle) ELSE slot[c]
                       /\ buffer'[c] = IF c \in S THEN [buffer[c] EXCEPT ![NextId(slot[c].seq) % 2] = w] ELSE buffer[c]
                       /\ data'[c] = IF c \in S THEN NextId(slot[c].seq) ELSE data[c]
  BY Zenon, <1>1
<1>3. \A c \in Cores : /\ OneCore(data[c], cond[c], core[c], slot[c], buffer[c])
                       /\ CoreOK(data[c], cond[c], core[c], slot[c], buffer[c])
  BY Zenon DEF TypeOK, OneCore, CoresOK
<1>4. \A c \in S : Occupy(slot[c], w, p % 2 = 0 /\ ~slot[c].idle) \in SlotState
  <2> TAKE c \in S
  <2>1. slot[c] \in SlotState BY Zenon DEF TypeOK
  <2>2. CASE p % 2 = 0 /\ ~slot[c].idle
    <3>1. (p % 2 = 0 /\ ~slot[c].idle) = TRUE BY <2>2
    <3>2. Occupy(slot[c], w, TRUE) \in SlotState BY Zenon, <2>1, OccupyPending
    <3> QED BY <3>1, <3>2, Zenon
  <2>3. CASE ~(p % 2 = 0 /\ ~slot[c].idle)
    <3>1. (p % 2 = 0 /\ ~slot[c].idle) = FALSE BY <2>3
    <3>2. Occupy(slot[c], w, FALSE) \in SlotState BY Zenon, <2>1, OccupyRunning
    <3> QED BY <3>1, <3>2, Zenon
  <2> QED BY Zenon, <2>2, <2>3
<1>5. \A c \in Cores : NextId(slot[c].seq) \in Ids /\ NextId(slot[c].seq) % 2 \in {0, 1}
  <2> TAKE c \in Cores
  <2>1. slot[c].seq \in Ids BY Zenon DEF TypeOK, SlotState
  <2>2. NextId(slot[c].seq) \in Ids BY Zenon, <2>1, NextIdFacts
  <2> QED BY Zenon, <2>2, NextIdFacts
<1>6. Ids \subseteq Regs BY IdAssumption DEF Ids, Regs
<1>7. slot' \in [Cores -> SlotState] BY Zenon, <1>1, <1>4 DEF TypeOK
<1>8. \A c \in S : [buffer[c] EXCEPT ![NextId(slot[c].seq) % 2] = w] \in [{0, 1} -> Work]
  <2> TAKE c \in S
  <2>1. buffer[c] \in [{0, 1} -> Work] BY Zenon DEF TypeOK
  <2> QED BY Zenon, <1>5, <2>1
<1>9. buffer' \in [Cores -> [{0, 1} -> Work]] BY Zenon, <1>1, <1>8 DEF TypeOK
<1>10. data' \in [Cores -> Regs] BY Zenon, <1>1, <1>5, <1>6 DEF TypeOK
<1>11. CoresOK'
  <2> SUFFICES ASSUME NEW c \in Cores
               PROVE  CoreOK(data'[c], cond[c], core[c], slot'[c], buffer'[c])
    BY Zenon, Fixed DEF CoresOK
  <2>1. CASE c \in S
    <3>1. CoreOK(NextId(slot[c].seq), cond[c], core[c], Occupy(slot[c], w, p % 2 = 0 /\ ~slot[c].idle),
                 [buffer[c] EXCEPT ![NextId(slot[c].seq) % 2] = w])
      BY Zenon, <1>3, <2>1, SendOne
    <3> QED BY Zenon, <1>2, <2>1, <3>1
  <2>2. CASE c \notin S BY Zenon, <1>2, <1>3, <2>2
  <2> QED BY Zenon, <2>1, <2>2
<1> QED BY Zenon, <1>2, <1>7, <1>9, <1>10, <1>11

\* Two cores a pass may choose stand for different targets.
LEMMA TargetsApart ==
    ASSUME NEW c \in Nat, NEW e \in Nat, NEW s \in Shapes, c # e,
           Kind(c) = (IF s = "MIX" THEN "AIC" ELSE s), Kind(e) = (IF s = "MIX" THEN "AIC" ELSE s)
    PROVE  Targets(c, s) \cap Targets(e, s) = {}
<1>1. CASE s # "MIX" BY Zenon, <1>1 DEF Targets
<1>2. CASE s = "MIX"
  <2>1. Kind(c) = "AIC" /\ Kind(e) = "AIC" BY Zenon, <1>2
  <2>2. c % 2 = 0 /\ e % 2 = 0 BY Zenon, <2>1 DEF Kind
  <2>3. c + 1 # e /\ e + 1 # c /\ c + 1 # e + 1 BY <2>2
  <2> QED BY Zenon, <1>2, <2>3 DEF Targets
<1> QED BY Zenon, <1>1, <1>2

\* The rest of a batch.
LEMMA TailQueue ==
    ASSUME NEW S, NEW q \in Seq(S), Once(q), Len(q) > 1
    PROVE  /\ Tail(q) \in Seq(S) /\ Tail(q) # <<>> /\ Once(Tail(q)) /\ DOMAIN Tail(q) = 1..Len(q) - 1
           /\ \A i \in 1..Len(q) - 1 : i + 1 \in DOMAIN q /\ Tail(q)[i] = q[i + 1]
           /\ {Tail(q)[i] : i \in 1..Len(Tail(q))} = {q[i] : i \in 2..Len(q)}
<1> DEFINE z == Tail(q)
<1>1. /\ Len(q) \in Nat /\ DOMAIN q = 1..Len(q) /\ z \in Seq(S) /\ Len(z) = Len(q) - 1 /\ DOMAIN z = 1..Len(q) - 1
      /\ \A i \in 1..Len(q) - 1 : i + 1 \in DOMAIN q /\ z[i] = q[i + 1]
  OBVIOUS
<1> HIDE DEF z
<1>2. z # <<>> BY <1>1
<1>3. Once(z)
  <2> SUFFICES ASSUME NEW i \in 1..Len(q) - 1, NEW j \in 1..Len(q) - 1, z[i] = z[j] PROVE i = j
    BY Zenon, <1>1 DEF Once
  <2>1. i + 1 = j + 1 BY Zenon, <1>1 DEF Once
  <2> QED BY <1>1, <2>1
<1>4. {z[i] : i \in 1..Len(z)} = {q[i] : i \in 2..Len(q)}
  <2>1. \A i \in 2..Len(q) : i - 1 \in 1..Len(q) - 1 /\ (i - 1) + 1 = i BY <1>1
  <2>2. \A i \in 1..Len(q) - 1 : i + 1 \in 2..Len(q) BY <1>1
  <2>3. \A i \in 2..Len(q) : z[i - 1] = q[i] BY Zenon, <1>1, <2>1
  <2>4. \A i \in 1..Len(z) : \E j \in 2..Len(q) : z[i] = q[j] BY Zenon, <1>1, <2>2
  <2>5. \A j \in 2..Len(q) : \E i \in 1..Len(z) : z[i] = q[j] BY Zenon, <1>1, <2>1, <2>3
  <2>6. ASSUME NEW x \in {z[i] : i \in 1..Len(z)} PROVE x \in {q[j] : j \in 2..Len(q)}
    <3>1. PICK i \in 1..Len(z) : x = z[i] BY Zenon
    <3>2. PICK j \in 2..Len(q) : z[i] = q[j] BY Zenon, <2>4
    <3> QED BY Zenon, <3>1, <3>2
  <2>7. ASSUME NEW x \in {q[j] : j \in 2..Len(q)} PROVE x \in {z[i] : i \in 1..Len(z)}
    <3>1. PICK j \in 2..Len(q) : x = q[j] BY Zenon
    <3>2. PICK i \in 1..Len(z) : z[i] = q[j] BY Zenon, <2>5
    <3> QED BY Zenon, <3>1, <3>2
  <2> QED BY Zenon, <2>6, <2>7
<1> QED BY Zenon, <1>1, <1>2, <1>3, <1>4 DEF z

LEMMA SendKeeps ==
    ASSUME LibraryFacts, SlotInv, NEW t \in Threads, launch' = launch, Send(t)
    PROVE  SlotInv'
<1>1. TypeOK /\ CoresOK /\ th[t].pc = "send" /\ Dispatching(t) /\ ChosenOK(t) /\ BatchOK(t)
  BY Zenon DEF SlotInv, Send, Dispatching, ThreadsOK
<1>2. UNCHANGED <<cond, core, owner, ready, next, ctl>> BY Zenon DEF Send, aicore, shared
<1> DEFINE b == th[t].batch
           p == th[t].at
           s == ShapeAt(t, p)
           k == Head(b)
           cores == th[t].cores
           c == Min(cores)
           w == <<k, th[t].block>>
           S == Targets(c, s)
           last == th[t].claim = 1
<1>3. /\ b \in Seq(DOMAIN Tasks) /\ Len(b) \in Nat \ {0} /\ DOMAIN b = 1..Len(b) /\ Once(b)
      /\ s \in Shapes /\ \A i \in DOMAIN b : b[i] \in DOMAIN Tasks /\ Tasks[b[i]].shape = s
      /\ k = b[1] /\ k \in DOMAIN Tasks /\ Tasks[k].shape = s
  BY Zenon, <1>1, BatchFacts
<1>4. p \in 1..6 /\ cores \subseteq Cores /\ th[t].block \in Nat /\ th[t].claim \in Nat BY Zenon, <1>1, ThreadTyped
<1>5. IsFiniteSet(cores) /\ Cardinality(cores) \in Nat /\ th[t].claim \in 1..Cardinality(cores)
  <2>1. IsFiniteSet(cores) BY Zenon, <1>1, <1>4, FiniteLaunch DEF TypeOK
  <2> QED BY Zenon, <1>1, <2>1 DEF BatchOK, LibraryFacts
<1>6. cores # {}
  <2>1. Cardinality(cores) # 0 BY <1>5
  <2> QED BY Zenon, <1>5, <2>1 DEF LibraryFacts
<1>7. c \in cores /\ c \in Cores BY Zenon, <1>1, <1>6, FirstCore
<1>8. \A e \in cores : /\ Kind(e) = (IF s = "MIX" THEN "AIC" ELSE s)
                       /\ Targets(e, s) \subseteq Owned(t) /\ \A d \in Targets(e, s) : Fits(slot[d], p)
  BY Zenon, <1>1 DEF ChosenOK
<1>9. w \in Work /\ w # NoWork
  <2>0. k \in 1..Len(Tasks) /\ Len(Tasks) \in Nat BY Zenon, <1>1, <1>3, LaunchFacts DEF TypeOK
  <2> HIDE DEF k
  <2>1. k \in Nat /\ k # 0 BY <2>0
  <2> QED BY <1>4, <2>1 DEF Work, NoWork
<1>10. /\ dispatch_block(S, w, p % 2 = 0)
       /\ th' = [th EXCEPT ![t].cores = IF last /\ Len(b) = 1 THEN {} ELSE cores \ {c},
                           ![t].block = IF last THEN 0 ELSE th[t].block + 1, ![t].claim = th[t].claim - 1,
                           ![t].progress = TRUE, ![t].batch = IF last THEN Tail(b) ELSE b,
                           ![t].pc = IF ~last THEN "send" ELSE IF Len(b) = 1 THEN "shape" ELSE "batch"]
  <2>1. S = IF Tasks[k].shape = "MIX" THEN {c, c + 1} ELSE {c} BY Zenon, <1>3 DEF Targets
  <2> QED BY Zenon, <1>1, <2>1, ThreadTyped DEF Send
<1>11. S \subseteq Owned(t) /\ S \in SUBSET Cores /\ \A d \in S : Fits(slot[d], p) BY Zenon, <1>7, <1>8 DEF Owned
<1> HIDE DEF b, p, s, k, cores, c, w, S, last
<1>12. /\ slot' \in [Cores -> SlotState] /\ buffer' \in [Cores -> [{0, 1} -> Work]] /\ data' \in [Cores -> Regs]
       /\ CoresOK' /\ \A d \in Cores \ S : slot'[d] = slot[d]
  BY Zenon, <1>1, <1>2, <1>4, <1>9, <1>10, <1>11, DispatchBlock
<1> DEFINE n == [th[t] EXCEPT !.cores = IF last /\ Len(b) = 1 THEN {} ELSE cores \ {c},
                              !.block = IF last THEN 0 ELSE th[t].block + 1, !.claim = th[t].claim - 1,
                              !.progress = TRUE, !.batch = IF last THEN Tail(b) ELSE b,
                              !.pc = IF ~last THEN "send" ELSE IF Len(b) = 1 THEN "shape" ELSE "batch"]
<1>13. /\ n.cores = (IF last /\ Len(b) = 1 THEN {} ELSE cores \ {c}) /\ n.claim = th[t].claim - 1 /\ n.at = p
       /\ n.batch = (IF last THEN Tail(b) ELSE b)
       /\ n.pc = IF ~last THEN "send" ELSE IF Len(b) = 1 THEN "shape" ELSE "batch"
  BY Zenon, <1>1, ThreadTyped DEF ThreadState, p
<1>14. n \in ThreadState
  <2>1. th[t].claim - 1 \in Nat /\ (IF last THEN 0 ELSE th[t].block + 1) \in Nat BY <1>4, <1>5
  <2>2. Tail(b) \in Seq(DOMAIN Tasks) BY <1>3
  <2>3. (IF last THEN Tail(b) ELSE b) \in Seq(DOMAIN Tasks) BY Zenon, <1>3, <2>2
  <2>4. (IF last /\ Len(b) = 1 THEN {} ELSE cores \ {c}) \in SUBSET Cores BY Zenon, <1>4
  <2>5. (IF ~last THEN "send" ELSE IF Len(b) = 1 THEN "shape" ELSE "batch") \in LoopPcs BY Zenon DEF LoopPcs
  <2> DEFINE cs == IF last /\ Len(b) = 1 THEN {} ELSE cores \ {c}
             bl == IF last THEN 0 ELSE th[t].block + 1
             cl == th[t].claim - 1
             bt == IF last THEN Tail(b) ELSE b
             pc == IF ~last THEN "send" ELSE IF Len(b) = 1 THEN "shape" ELSE "batch"
  <2> HIDE DEF cs, bl, cl, bt, pc
  <2>6. th[t] \in ThreadState BY Zenon, <1>1, ThreadTyped
  <2>7. [th[t] EXCEPT !.cores = cs, !.block = bl, !.claim = cl, !.progress = TRUE, !.batch = bt, !.pc = pc] \in ThreadState
    BY Zenon, <2>1, <2>3, <2>4, <2>5, <2>6 DEF ThreadState, cs, bl, cl, bt, pc
  <2> QED BY Zenon, <2>7 DEF cs, bl, cl, bt, pc
<1>15. th' = [th EXCEPT ![t] = n] BY Zenon, <1>1, <1>10, ThreadTyped
<1> HIDE DEF n
<1>16. Moves(t) /\ th'[t] = n BY Zenon, <1>1, <1>14, <1>15, MovesTo
<1>17. Cores' = Cores /\ Tasks' = Tasks /\ ThreadState' = ThreadState /\ Owned(t)' = Owned(t)
  BY Zenon, <1>2, Fixed DEF Owned
<1>18. TypeOK' BY Zenon, <1>1, <1>2, <1>12, <1>16, <1>17 DEF TypeOK, Moves
<1>19. Len(b) # 1 => Len(b) > 1 BY <1>3
<1>20. n.pc \in {"send", "shape", "batch"} BY Zenon, <1>13
<1>21. ThreadsOK'
  <2> SUFFICES ASSUME NEW u \in Threads
               PROVE  ChosenOK(u)' /\ BatchOK(u)' /\ PollingOK(u)' /\ AwaitingOK(u)'
    BY Zenon DEF ThreadsOK
  <2>1. CASE u # t
    <3>1. th'[u] = th[u] BY Zenon, <1>16, <2>1 DEF Moves
    <3>2. \A d \in Owned(u) : slot'[d] = slot[d] BY Zenon, <1>11, <1>12, <2>1 DEF Owned
    <3> QED BY Zenon, <1>2, <3>1, <3>2, OtherThreads DEF SlotInv, ThreadsOK
  <2>2. CASE u = t
    <3>1. PollingOK(t)' /\ AwaitingOK(t)' BY Zenon, <1>16, <1>20 DEF PollingOK, AwaitingOK
    <3>2. ChosenOK(t)'
      <4> SUFFICES ASSUME NEW e \in n.cores, n.pc \in {"batch", "send"}
                   PROVE  /\ Kind(e) = (IF s = "MIX" THEN "AIC" ELSE s)
                          /\ Targets(e, s) \subseteq Owned(t)
                          /\ \A d \in Targets(e, s) : Fits(slot'[d], p)
        BY Zenon, <1>13, <1>16, <1>17 DEF ChosenOK, Dispatching, s
      <4>1. e \in cores /\ e # c BY Zenon, <1>13
      <4>2. /\ Kind(e) = (IF s = "MIX" THEN "AIC" ELSE s)
            /\ Targets(e, s) \subseteq Owned(t) /\ \A d \in Targets(e, s) : Fits(slot[d], p)
        BY Zenon, <1>8, <4>1
      <4>3. c \in Nat /\ e \in Nat BY Zenon, <1>1, <1>4, <1>7, <4>1, LaunchFacts DEF TypeOK
      <4>4. Targets(c, s) \cap Targets(e, s) = {} BY Zenon, <1>3, <1>7, <1>8, <4>1, <4>2, <4>3, TargetsApart
      <4>5. \A d \in Targets(e, s) : slot'[d] = slot[d] BY Zenon, <1>12, <4>2, <4>4 DEF S, Owned
      <4> QED BY Zenon, <4>2, <4>5
    <3>3. BatchOK(t)'
      <4>1. CASE ~last
        <5>1. n.pc = "send" /\ n.batch = b /\ n.cores = cores \ {c} /\ n.claim = th[t].claim - 1 BY Zenon, <1>13, <4>1
        <5>2. Cardinality(n.cores) = Cardinality(cores) - 1
          <6>1. Cardinality(cores \ {c}) = Cardinality(cores) - 1 BY Zenon, <1>5, <1>7 DEF LibraryFacts
          <6> QED BY Zenon, <5>1, <6>1
        <5>3. th[t].claim # 1 BY <4>1 DEF last
        <5>4. n.claim \in 1..Cardinality(n.cores) BY <1>5, <5>1, <5>2, <5>3
        <5>5. b # <<>> BY Zenon, <1>1 DEF BatchOK, b
        <5> QED BY Zenon, <1>3, <1>13, <1>16, <1>17, <5>1, <5>4, <5>5 DEF BatchOK, s
      <4>2. CASE last /\ Len(b) = 1
        <5>1. n.pc = "shape" BY Zenon, <1>13, <4>2
        <5> QED BY Zenon, <1>16, <5>1 DEF BatchOK, Dispatching
      <4>3. CASE last /\ Len(b) # 1
        <5>1. n.pc = "batch" /\ n.batch = Tail(b) BY Zenon, <1>13, <4>3
        <5>2. /\ Tail(b) # <<>> /\ Once(Tail(b)) /\ DOMAIN Tail(b) = 1..Len(b) - 1
              /\ \A i \in 1..Len(b) - 1 : i + 1 \in DOMAIN b /\ Tail(b)[i] = b[i + 1]
          BY Zenon, <1>3, <1>19, <4>3, TailQueue
        <5>3. \A i \in DOMAIN n.batch : Tasks[n.batch[i]].shape = s
          <6>1. \A i \in 1..Len(b) - 1 : Tasks[Tail(b)[i]].shape = s BY Zenon, <1>3, <5>2
          <6> QED BY Zenon, <5>1, <5>2, <6>1
        <5>4. n.batch # <<>> /\ Once(n.batch) /\ n.pc # "send" BY Zenon, <5>1, <5>2
        <5> QED BY Zenon, <1>13, <1>16, <1>17, <5>3, <5>4 DEF BatchOK, s
      <4> QED BY Zenon, <4>1, <4>2, <4>3
    <3> QED BY Zenon, <2>2, <3>1, <3>2, <3>3
  <2> QED BY Zenon, <2>1, <2>2
<1>22. QueuesOK'
  <2>1. HeldBy(th[t]) = {b[i] : i \in 2..Len(b)} BY Zenon, <1>1 DEF HeldBy, b
  <2>2. HeldBy(n) = {b[i] : i \in 2..Len(b)}
    <3>1. CASE ~last
      <4>1. n.pc = "send" /\ n.batch = b BY Zenon, <1>13, <3>1
      <4> QED BY Zenon, <4>1 DEF HeldBy
    <3>2. CASE last /\ Len(b) = 1
      <4>1. n.pc = "shape" BY Zenon, <1>13, <3>2
      <4>2. 2..Len(b) = {} BY <3>2
      <4> QED BY Zenon, <4>1, <4>2 DEF HeldBy
    <3>3. CASE last /\ Len(b) # 1
      <4>1. n.pc = "batch" /\ n.batch = Tail(b) BY Zenon, <1>13, <3>3
      <4>2. b \in Seq(DOMAIN Tasks) /\ Once(b) /\ Len(b) > 1 BY Zenon, <1>3, <1>19, <3>3
      <4>3. {Tail(b)[i] : i \in 1..Len(Tail(b))} = {b[i] : i \in 2..Len(b)} BY Zenon, <4>2, TailQueue
      <4> QED BY Zenon, <4>1, <4>3 DEF HeldBy
    <3> QED BY Zenon, <3>1, <3>2, <3>3
  <2>3. Held' = [u \in Threads |-> HeldBy(th'[u])] BY Zenon DEF Held
  <2>4. \A u \in Threads : HeldBy(th'[u]) = HeldBy(th[u]) BY Zenon, <1>16, <2>1, <2>2 DEF Moves
  <2>5. Held' = Held BY Zenon, <2>3, <2>4 DEF Held
  <2> QED BY Zenon, <1>2, <1>17, <2>5 DEF SlotInv, QueuesOK
<1>23. HandOverOK' BY Zenon, <1>1, <1>2, <1>16, <1>20, HandOverMoves DEF SlotInv, LoopPcs
<1> QED BY Zenon, <1>12, <1>18, <1>21, <1>22, <1>23 DEF SlotInv
-----------------------------------------------------------------------------
(***************************************************************************)
(* The steps that move blocks.                                             *)
(***************************************************************************)
LEMMA FitIff ==
    ASSUME launch \in Launches, NEW k \in DOMAIN Tasks, NEW b \in Nat, NEW x
    PROVE  /\ <<k, b>> \in Work /\ <<k, b>>[1] = k /\ <<k, b>>[2] = b
           /\ Fit(<<k, b>>, x) <=> b < Tasks[k].blocks /\ x \in KindsOf(k)
<1>1. k \in Nat /\ Tasks[k].blocks \in Nat
  <2>1. Len(Tasks) \in Nat /\ k \in 1..Len(Tasks) /\ Tasks[k].blocks \in Nat \ {0} BY Zenon, LaunchFacts
  <2> QED BY <2>1
<1>2. <<k, b>> \in Work /\ <<k, b>>[1] = k /\ <<k, b>>[2] = b BY <1>1 DEF Work
<1>3. ASSUME b < Tasks[k].blocks, x \in KindsOf(k) PROVE <<k, b, x>> \in Works
  <2>1. b \in 0..Tasks[k].blocks - 1 BY <1>1, <1>3
  <2> QED BY <1>3, <2>1 DEF Works
<1>4. ASSUME <<k, b, x>> \in Works PROVE b < Tasks[k].blocks /\ x \in KindsOf(k)
  <2>1. PICK j \in DOMAIN Tasks : <<k, b, x>> \in {<<j, i, y>> : i \in 0..Tasks[j].blocks - 1, y \in KindsOf(j)}
    BY <1>4 DEF Works
  <2>2. PICK i \in 0..Tasks[j].blocks - 1, y \in KindsOf(j) : <<k, b, x>> = <<j, i, y>> BY <2>1
  <2>3. k = j /\ b = i /\ x = y BY <2>2
  <2>4. b \in 0..Tasks[k].blocks - 1 /\ x \in KindsOf(k) BY Zenon, <2>2, <2>3
  <2> QED BY <1>1, <2>4
<1> QED BY Zenon, <1>2, <1>3, <1>4 DEF Fit

LEMMA BlockFit ==
    ASSUME launch \in Launches, NEW k \in DOMAIN Tasks, NEW y \in Blocks(k)
    PROVE  <<k, y[1]>> \in Work /\ y[2] \in Kinds /\ Fit(<<k, y[1]>>, y[2])
<1>1. Tasks[k].blocks \in Nat /\ Tasks[k].shape \in Shapes BY Zenon, LaunchFacts
<1>2. y[1] \in Nat /\ y[1] < Tasks[k].blocks /\ y[2] \in KindsOf(k) BY <1>1 DEF Blocks
<1>3. y[2] \in Kinds BY Zenon, <1>1, <1>2 DEF KindsOf, Kinds, Shapes
<1> QED BY Zenon, <1>2, <1>3, FitIff

LEMMA AicoreWork ==
    ASSUME SlotInv, WorkInv, NEW c \in Cores, AicoreNext(c)
    PROVE  WorkInv'
<1>1. UNCHANGED <<launch, slot, buffer, th, next, subtasks, finished>>
  BY Zenon DEF AicoreNext, ReportCore, EnterLoop, Acknowledge, Finish, ExitLoop, AicoreStep, shared
<1>2. /\ OneCore(data[c], cond[c], core[c], slot[c], buffer[c])
      /\ CoreOK(data[c], cond[c], core[c], slot[c], buffer[c])
  BY Zenon DEF SlotInv, TypeOK, OneCore, CoresOK
<1>3. core \in [Cores -> CoreState] /\ \A d \in Cores : Apart(slot[d]) BY Zenon DEF SlotInv, TypeOK, WorkInv, HistoryOK
<1>4. CASE ReportCore(c) \/ EnterLoop(c) \/ Acknowledge(c) \/ ExitLoop(c)
  <2>1. ran' = ran BY Zenon, <1>4 DEF ReportCore, EnterLoop, Acknowledge, ExitLoop
  <2>2. \/ \E p : core' = [core EXCEPT ![c].pc = p]
        \/ core' = [core EXCEPT ![c].pc = "exec", ![c].id = data[c]]
    BY Zenon, <1>4 DEF ReportCore, EnterLoop, Acknowledge, ExitLoop
  <2>3. \A d \in Cores : core'[d].last = core[d].last
    <3>1. ASSUME NEW p, core' = [core EXCEPT ![c].pc = p] PROVE \A d \in Cores : core'[d].last = core[d].last
      BY Zenon, <1>3, <3>1 DEF CoreState
    <3>2. CASE core' = [core EXCEPT ![c].pc = "exec", ![c].id = data[c]] BY Zenon, <1>3, <3>2 DEF CoreState
    <3> QED BY Zenon, <2>2, <3>1, <3>2
  <2>4. ASSUME NEW d \in Cores
        PROVE  /\ Waits(core'[d], slot'[d]) = Waits(core[d], slot[d])
               /\ Past(core'[d], slot'[d]) = Past(core[d], slot[d]) /\ Apart(slot'[d])
    BY Zenon, <1>1, <1>3, <2>3 DEF Waits, Past
  <2> QED BY Zenon, <1>1, <2>1, <2>4, WorkStill
<1>5. CASE Finish(c)
  <2> DEFINE w == buffer[c][core[c].id % 2]
             x == Kind(c)
             i == <<w[1], w[2], x>>
  <2>1. core[c].pc = "exec" /\ core' = [core EXCEPT ![c].pc = "loop", ![c].last = core[c].id] BY Zenon, <1>5 DEF Finish
  <2>2. core'[c].last = core[c].id /\ \A d \in Cores \ {c} : core'[d] = core[d] BY Zenon, <1>3, <2>1 DEF CoreState
  <2>3. /\ w # NoWork /\ w \in Waits(core[c], slot[c]) /\ Waits(core'[c], slot[c]) = Waits(core[c], slot[c]) \ {w}
        /\ Past(core'[c], slot[c]) = Past(core[c], slot[c]) \cup {w}
    <3>1. core[c].pc = "exec" /\ Apart(slot[c]) /\ core'[c].last = core[c].id BY Zenon, <1>3, <2>1, <2>2
    <3> HIDE DEF i
    <3> QED BY SMTT(20), <1>2, <3>1, FinishWorks
  <2>4. ran' = [ran EXCEPT ![i] = ran[i] + 1] BY Zenon, <1>5, <2>3 DEF Finish
  <2> HIDE DEF w, x
  <2>5. /\ Awaited'[c] = Awaited[c] \ {w} /\ \A d \in Cores \ {c} : Awaited'[d] = Awaited[d]
        /\ Passed'[c] = Passed[c] \cup {w} /\ \A d \in Cores \ {c} : Passed'[d] = Passed[d]
    BY Zenon, <1>1, <2>2, <2>3, WorksFixed DEF Awaited, Passed
  <2>6. w \in Awaited[c] /\ Placed(Unclaimed, Claimed, Awaited, Passed, ran) BY Zenon, <2>3 DEF Awaited, WorkInv
  <2>7. w \in Work /\ Fit(w, x) BY Zenon, <2>6 DEF Placed, x
  <2>8. i \in Works /\ ran \in [Works -> Nat] BY Zenon, <2>7 DEF Fit, WorkInv, HistoryOK
  <2>9. RanOf(ran', w, x) = RanOf(ran, w, x) + 1 BY Zenon, <2>4, <2>8 DEF RanOf
  <2>10. ASSUME NEW p \in Work, NEW y \in Kinds, Fit(p, y), p # w \/ y # x PROVE RanOf(ran', p, y) = RanOf(ran, p, y)
    <3>1. p = <<p[1], p[2]>> /\ w = <<w[1], w[2]>> BY <2>7 DEF Work
    <3>2. <<p[1], p[2], y>> # i
      <4> SUFFICES ASSUME <<p[1], p[2], y>> = i PROVE FALSE BY Zenon
      <4>1. p[1] = w[1] /\ p[2] = w[2] /\ y = x OBVIOUS
      <4> QED BY Zenon, <2>10, <3>1, <4>1
    <3>3. <<p[1], p[2], y>> \in Works BY Zenon, <2>10 DEF Fit
    <3> HIDE DEF i
    <3> QED BY Zenon, <2>4, <2>8, <3>2, <3>3 DEF RanOf
  <2>11. /\ Placed(Unclaimed, Claimed, Awaited', Passed', ran')
         /\ \A p \in Work, y \in Kinds : Fit(p, y) =>
                (/\ RanOf(ran', p, y) = 1 /\ \A d \in Cores : Kind(d) = y => p \notin Passed'[d])
                 <=> (/\ RanOf(ran, p, y) = 1 /\ \A d \in Cores : Kind(d) = y => p \notin Passed[d])
    <3>1. /\ RanOf(ran', w, Kind(c)) = RanOf(ran, w, Kind(c)) + 1
          /\ \A p \in Work, y \in Kinds : Fit(p, y) /\ (p # w \/ y # Kind(c)) => RanOf(ran', p, y) = RanOf(ran, p, y)
      BY Zenon, <2>9, <2>10 DEF x
    <3> HIDE DEF i
    <3> QED BY SMTT(30), <2>5, <2>6, <3>1, FinishPlaced
  <2>12. Cores' = Cores /\ Tasks' = Tasks /\ Works' = Works BY Zenon, <1>1, WorksFixed
  <2>13. Unclaimed' = Unclaimed /\ Claimed' = Claimed BY Zenon, <1>1, <2>12 DEF Unclaimed, Claimed
  <2>14. Counted(ran', Passed', subtasks', finished')
    <3>1. ASSUME NEW k \in DOMAIN Tasks PROVE Gone(ran', Passed', k) = Gone(ran, Passed, k)
      <4>1. \A y \in Blocks(k) : <<k, y[1]>> \in Work /\ y[2] \in Kinds /\ Fit(<<k, y[1]>>, y[2])
        BY Zenon, BlockFit DEF SlotInv, TypeOK
      <4> QED BY Zenon, <2>11, <4>1 DEF Gone
    <3> QED BY Zenon, <1>1, <3>1 DEF Counted, WorkInv
  <2>15. HistoryOK'
    <3>1. ran[i] + 1 \in Nat BY <2>8
    <3>2. ran' \in [Works -> Nat] BY Zenon, <2>4, <2>8, <3>1
    <3> QED BY Zenon, <1>1, <2>12, <3>2 DEF WorkInv, HistoryOK, Fit, Apart
  <2> QED BY Zenon, <1>1, <2>11, <2>13, <2>14, <2>15, WorkNext
<1> QED BY Zenon, <1>4, <1>5 DEF AicoreNext

LEMMA ClaimWork ==
    ASSUME SlotInv, SlotInv', WorkInv, launch' = launch, NEW t \in Threads, ClaimBlocks(t)
    PROVE  WorkInv'
<1>1. /\ TypeOK /\ th[t].pc = "batch" /\ Dispatching(t) /\ launch \in Launches
      /\ UNCHANGED <<core, slot, buffer, subtasks, finished, ran>>
  BY Zenon DEF SlotInv, TypeOK, ClaimBlocks, Dispatching, aicore
<1>2. CASE th[t].cores = {}
  <2>1. next' = next /\ th' = [th EXCEPT ![t].pc = "shape", ![t].batch = <<>>] BY Zenon, <1>2 DEF ClaimBlocks
  <2>2. th'[t].pc # "send" /\ \A u \in Threads \ {t} : th'[u] = th[u]
    BY Zenon, <1>1, <2>1, ThreadTyped DEF ThreadState
  <2>3. th[t].pc # "send" BY Zenon, <1>1
  <2> QED BY Zenon, <1>1, <2>1, <2>2, <2>3, CalmWork DEF Calm
<1>3. CASE th[t].cores # {}
  <2> DEFINE k == Head(th[t].batch)
             z == Claim(Cardinality(th[t].cores), Tasks[k].blocks - next[k])
             N == {<<k, b>> : b \in next[k]..next[k] + z - 1}
  <2>1. /\ next' = [next EXCEPT ![k] = next[k] + z]
        /\ th' = [th EXCEPT ![t].pc = "send", ![t].block = next[k], ![t].claim = z]
    BY Zenon, <1>3 DEF ClaimBlocks
  <2>2. k \in DOMAIN Tasks BY Zenon, <1>1, BatchFacts
  <2> HIDE DEF k, z
  <2>3. /\ th'[t].pc = "send" /\ th'[t].block = next[k] /\ th'[t].claim = z /\ Head(th'[t].batch) = k
        /\ \A u \in Threads \ {t} : th'[u] = th[u]
    BY ZenonT(30), <1>1, <2>1, ThreadTyped DEF ThreadState, k
  <2>4. next[k] \in Nat /\ z \in Nat /\ next \in [DOMAIN Tasks -> Nat]
    <3>1. th'[t].claim \in Nat BY Zenon DEF SlotInv, TypeOK, ThreadState
    <3> QED BY Zenon, <1>1, <2>2, <2>3, <3>1 DEF TypeOK
  <2>5. /\ Claimed[t] = {} /\ Claimed'[t] = N /\ \A u \in Threads \ {t} : Claimed'[u] = Claimed[u]
    <3>1. ClaimedBy(th[t]) = {} BY Zenon, <1>1 DEF ClaimedBy
    <3>2. ClaimedBy(th'[t]) = N BY Zenon, <2>3 DEF ClaimedBy
    <3> QED BY Zenon, <2>3, <3>1, <3>2, WorksFixed DEF Claimed
  <2>6. \A b \in next[k]..next[k] + z - 1 : b \in Nat /\ b >= next[k] BY <2>4
  <2>7. ASSUME NEW p \in N PROVE p \in Work /\ p[1] \in DOMAIN Tasks /\ p \in Unclaimed
    <3>1. PICK b \in next[k]..next[k] + z - 1 : p = <<k, b>> BY Zenon, <2>7
    <3>2. b \in Nat /\ b >= next[k] BY Zenon, <2>6
    <3>3. p \in Work /\ p[1] = k /\ p[2] = b BY Zenon, <1>1, <2>2, <3>1, <3>2, FitIff
    <3> QED BY Zenon, <2>2, <3>2, <3>3 DEF Unclaimed
  <2>8. Unclaimed' = Unclaimed \ N
    <3>1. ASSUME NEW p \in Work, p[1] \in DOMAIN Tasks PROVE p[2] >= next'[p[1]] <=> p[2] >= next[p[1]] /\ p \notin N
      <4>1. p = <<p[1], p[2]>> /\ p[2] \in Nat BY DEF Work
      <4>2. CASE p[1] # k
        <5>1. next'[p[1]] = next[p[1]] BY Zenon, <2>1, <2>4, <3>1, <4>2
        <5>2. p \notin N BY <4>2
        <5> QED BY Zenon, <5>1, <5>2
      <4>3. CASE p[1] = k
        <5>1. next'[p[1]] = next[k] + z BY Zenon, <2>1, <2>4, <3>1, <4>3
        <5>2. p \in N <=> p[2] \in next[k]..next[k] + z - 1
          <6>1. ASSUME p \in N PROVE p[2] \in next[k]..next[k] + z - 1 BY <6>1
          <6>2. ASSUME p[2] \in next[k]..next[k] + z - 1 PROVE p \in N BY Zenon, <4>1, <4>3, <6>2
          <6> QED BY Zenon, <6>1, <6>2
        <5> HIDE DEF N
        <5> QED BY SMTT(20), <2>4, <4>1, <4>3, <5>1, <5>2
      <4> QED BY Zenon, <4>2, <4>3
    <3>2. Unclaimed' = {p \in Work : p[1] \in DOMAIN Tasks /\ p[2] >= next'[p[1]]} BY Zenon, WorksFixed DEF Unclaimed
    <3> HIDE DEF N
    <3> QED BY Zenon, <3>1, <3>2 DEF Unclaimed
  <2> HIDE DEF N
  <2>9. N \in SUBSET Unclaimed /\ \A p \in N : p \in Work /\ p[1] \in DOMAIN Tasks BY Zenon, <2>7
  <2>10. Placed(Unclaimed, Claimed, Awaited, Passed, ran) BY Zenon DEF WorkInv
  <2>11. Placed(Unclaimed \ N, Claimed', Awaited, Passed, ran) BY Zenon, <2>5, <2>9, <2>10, ClaimPlaced
  <2>12. Awaited' = Awaited /\ Passed' = Passed BY Zenon, <1>1, WorksFixed DEF Awaited, Passed
  <2>13. Placed(Unclaimed', Claimed', Awaited', Passed', ran') BY Zenon, <1>1, <2>8, <2>11, <2>12
  <2>14. Counted(ran', Passed', subtasks', finished') BY Zenon, <1>1, <2>12 DEF WorkInv
  <2>15. HistoryOK' BY Zenon, <1>1, WorksFixed DEF WorkInv, HistoryOK, Fit, Apart
  <2> QED BY Zenon, <2>13, <2>14, <2>15, WorkNext
<1> QED BY Zenon, <1>2, <1>3

\* The cores a block is sent to are one of each of its kinds.
LEMMA TargetKinds ==
    ASSUME launch \in Launches, NEW c \in Cores, NEW k \in DOMAIN Tasks,
           Kind(c) = (IF Tasks[k].shape = "MIX" THEN "AIC" ELSE Tasks[k].shape)
    PROVE  LET S == Targets(c, Tasks[k].shape)
           IN /\ \A d \in S : Kind(d) \in KindsOf(k) /\ \A e \in S : Kind(e) = Kind(d) => e = d
              /\ \A x \in KindsOf(k) : \E d \in S : Kind(d) = x
<1>1. CASE Tasks[k].shape # "MIX" BY Zenon, <1>1 DEF Targets, KindsOf
<1>2. CASE Tasks[k].shape = "MIX"
  <2>1. c % 2 = 0 BY Zenon, <1>2 DEF Kind
  <2>2. (c + 1) % 2 = 1 BY Zenon, <2>1, Cluster
  <2>3. (c + 1) % 2 # 0 BY <2>2
  <2>4. Kind(c) = "AIC" /\ Kind(c + 1) = "AIV" BY Zenon, <2>1, <2>3 DEF Kind
  <2>5. Targets(c, Tasks[k].shape) = {c, c + 1} /\ KindsOf(k) = {"AIC", "AIV"} BY Zenon, <1>2 DEF Targets, KindsOf
  <2>6. "AIC" # "AIV" OBVIOUS
  <2> QED BY Zenon, <2>4, <2>5, <2>6
<1> QED BY Zenon, <1>1, <1>2

LEMMA SendWork ==
    ASSUME LibraryFacts, SlotInv, WorkInv, launch' = launch, NEW t \in Threads, Send(t)
    PROVE  WorkInv'
<1>1. TypeOK /\ CoresOK /\ th[t].pc = "send" /\ Dispatching(t) /\ ChosenOK(t) /\ BatchOK(t) /\ launch \in Launches
  BY Zenon DEF SlotInv, Send, Dispatching, ThreadsOK, TypeOK
<1>2. UNCHANGED <<core, next, subtasks, finished, ran>> BY Zenon DEF Send, aicore, shared
<1> DEFINE b == th[t].batch
           p == th[t].at
           s == ShapeAt(t, p)
           k == Head(b)
           cores == th[t].cores
           c == Min(cores)
           w == <<k, th[t].block>>
           S == Targets(c, s)
           last == th[t].claim = 1
<1>3. k \in DOMAIN Tasks /\ Tasks[k].shape = s BY Zenon, <1>1, BatchFacts
<1>4. p \in 1..6 /\ cores \subseteq Cores /\ th[t].block \in Nat /\ th[t].claim \in Nat BY Zenon, <1>1, ThreadTyped
<1>5. IsFiniteSet(cores) /\ Cardinality(cores) \in Nat /\ th[t].claim \in 1..Cardinality(cores)
  <2>1. IsFiniteSet(cores) BY Zenon, <1>1, <1>4, FiniteLaunch
  <2> QED BY Zenon, <1>1, <2>1 DEF BatchOK, LibraryFacts
<1>6. cores # {} /\ th[t].claim >= 1
  <2>1. Cardinality(cores) # 0 /\ th[t].claim >= 1 BY <1>5
  <2> QED BY Zenon, <1>5, <2>1 DEF LibraryFacts
<1>7. c \in cores /\ c \in Cores BY Zenon, <1>1, <1>6, FirstCore
<1>8. /\ Kind(c) = (IF s = "MIX" THEN "AIC" ELSE s) /\ S \subseteq Owned(t) /\ S \in SUBSET Cores
      /\ \A d \in S : Fits(slot[d], p)
  BY Zenon, <1>1, <1>7 DEF ChosenOK, Owned
<1>9. /\ dispatch_block(S, w, p % 2 = 0)
      /\ th' = [th EXCEPT ![t].cores = IF last /\ Len(b) = 1 THEN {} ELSE cores \ {c},
                          ![t].block = IF last THEN 0 ELSE th[t].block + 1, ![t].claim = th[t].claim - 1,
                          ![t].progress = TRUE, ![t].batch = IF last THEN Tail(b) ELSE b,
                          ![t].pc = IF ~last THEN "send" ELSE IF Len(b) = 1 THEN "shape" ELSE "batch"]
  <2>1. S = IF Tasks[k].shape = "MIX" THEN {c, c + 1} ELSE {c} BY Zenon, <1>3 DEF Targets
  <2> QED BY Zenon, <1>1, <2>1, ThreadTyped DEF Send
<1> HIDE DEF p, s, k, cores, c, S
<1>10. /\ last => th'[t].pc # "send"
       /\ ~last => /\ th'[t].pc = "send" /\ th'[t].batch = b /\ th'[t].block = th[t].block + 1
                   /\ th'[t].claim = th[t].claim - 1
       /\ \A u \in Threads \ {t} : th'[u] = th[u]
  <2> DEFINE n == [th[t] EXCEPT !.cores = IF last /\ Len(b) = 1 THEN {} ELSE cores \ {c},
                                !.block = IF last THEN 0 ELSE th[t].block + 1, !.claim = th[t].claim - 1,
                                !.progress = TRUE, !.batch = IF last THEN Tail(b) ELSE b,
                                !.pc = IF ~last THEN "send" ELSE IF Len(b) = 1 THEN "shape" ELSE "batch"]
  <2>1. th \in [Threads -> ThreadState] /\ th[t] \in ThreadState BY Zenon, <1>1, ThreadTyped
  <2>2. th' = [th EXCEPT ![t] = n] BY Zenon, <1>9, <2>1
  <2> HIDE DEF last, b
  <2>3. /\ n.block = (IF last THEN 0 ELSE th[t].block + 1) /\ n.claim = th[t].claim - 1
        /\ n.batch = (IF last THEN Tail(b) ELSE b)
        /\ n.pc = IF ~last THEN "send" ELSE IF Len(b) = 1 THEN "shape" ELSE "batch"
    BY Zenon, <2>1 DEF ThreadState
  <2> HIDE DEF n
  <2>4. th'[t] = n /\ \A u \in Threads \ {t} : th'[u] = th[u] BY Zenon, <2>1, <2>2
  <2>5. "shape" # "send" /\ "batch" # "send" OBVIOUS
  <2>6. last => n.pc # "send" BY Zenon, <2>3, <2>5
  <2> QED BY Zenon, <2>3, <2>4, <2>6
<1>11. w \in Work /\ w[1] = k /\ w[2] = th[t].block /\ w # NoWork
  <2>1. k \in Nat /\ k # 0
    <3>1. k \in 1..Len(Tasks) /\ Len(Tasks) \in Nat BY Zenon, <1>1, <1>3, LaunchFacts
    <3> QED BY <3>1
  <2> QED BY <1>4, <2>1 DEF Work, NoWork
<1>12. w \in Claimed[t] /\ Claimed'[t] = Claimed[t] \ {w} /\ \A u \in Threads \ {t} : Claimed'[u] = Claimed[u]
  <2> DEFINE a == th[t].block
             z == th[t].claim
  <2>1. ClaimedBy(th[t]) = {<<k, i>> : i \in a..a + z - 1} BY Zenon, <1>1 DEF ClaimedBy, k
  <2>2. a \in a..a + z - 1 BY <1>4, <1>6
  <2>3. w \in ClaimedBy(th[t]) BY Zenon, <2>1, <2>2
  <2>4. ClaimedBy(th'[t]) = ClaimedBy(th[t]) \ {w}
    <3>1. CASE last
      <4>1. ClaimedBy(th'[t]) = {} BY Zenon, <1>10, <3>1 DEF ClaimedBy
      <4>2. \A i \in a..a + z - 1 : i = a BY <1>4, <3>1
      <4> QED BY Zenon, <2>1, <4>1, <4>2
    <3>2. CASE ~last
      <4>1. ClaimedBy(th'[t]) = {<<k, i>> : i \in a + 1..(a + 1) + (z - 1) - 1} BY Zenon, <1>10, <3>2 DEF ClaimedBy, k
      <4>2. \A i : i \in a + 1..(a + 1) + (z - 1) - 1 <=> i \in a..a + z - 1 /\ i # a BY <1>4, <1>6
      <4>3. \A i : <<k, i>> = w <=> i = a OBVIOUS
      <4> HIDE DEF w
      <4> QED BY Zenon, <2>1, <4>1, <4>2, <4>3
    <3> QED BY Zenon, <3>1, <3>2
  <2> QED BY Zenon, <1>10, <2>3, <2>4, WorksFixed DEF Claimed
<1>13. Placed(Unclaimed, Claimed, Awaited, Passed, ran) BY Zenon DEF WorkInv
<1> HIDE DEF w
<1>14. w \notin Unclaimed /\ \A d \in Cores : w \notin Awaited[d] BY Zenon, <1>12, <1>13 DEF Placed
<1>15. th[t].block < Tasks[k].blocks
  <2>1. next[k] <= Tasks[k].blocks BY Zenon, <1>3 DEF SlotInv, QueuesOK, QueuesFit
  <2>2. ~(th[t].block >= next[k]) BY Zenon, <1>3, <1>11, <1>14 DEF Unclaimed
  <2>3. next[k] \in Nat BY Zenon, <1>1, <1>3 DEF TypeOK
  <2>4. Tasks[k].blocks \in Nat BY Zenon, <1>1, <1>3, LaunchFacts
  <2> QED BY SMTT(20), <1>4, <2>1, <2>2, <2>3, <2>4
<1>16. \A x : Fit(w, x) <=> x \in KindsOf(k) BY Zenon, <1>1, <1>3, <1>4, <1>15, FitIff DEF w
<1>17. /\ \A d \in S : Fit(w, Kind(d)) /\ \A e \in S : Kind(e) = Kind(d) => e = d
       /\ \A x \in Kinds : Fit(w, x) => \E d \in S : Kind(d) = x
  BY Zenon, <1>1, <1>3, <1>7, <1>8, <1>16, TargetKinds DEF S
<1>18. \A d \in S : w \notin Waits(core[d], slot[d]) \cup Past(core[d], slot[d])
  <2> SUFFICES ASSUME NEW d \in S PROVE w \notin Awaited[d] /\ w \notin Passed[d]
    BY Zenon, <1>8 DEF Awaited, Passed
  <2>1. Fit(w, Kind(d)) /\ Kind(d) \in Kinds /\ d \in Cores BY Zenon, <1>8, <1>17, KindOf
  <2>2. Open(Unclaimed, Claimed, Awaited, w, Kind(d)) BY Zenon, <1>12 DEF Open
  <2>3. RanOf(ran, w, Kind(d)) = 0 BY Zenon, <1>11, <1>13, <2>1, <2>2 DEF Placed
  <2>4. w \in Passed[d] => RanOf(ran, w, Kind(d)) = 1 BY Zenon, <1>13, <2>1 DEF Placed
  <2>5. 0 # 1 OBVIOUS
  <2> QED BY Zenon, <1>14, <2>1, <2>3, <2>4, <2>5
<1>19. \A d \in Cores : /\ slot'[d] = IF d \in S THEN Occupy(slot[d], w, p % 2 = 0 /\ ~slot[d].idle) ELSE slot[d]
                        /\ buffer'[d] = IF d \in S THEN [buffer[d] EXCEPT ![NextId(slot[d].seq) % 2] = w] ELSE buffer[d]
  BY Zenon, <1>9 DEF dispatch_block
<1>20. ASSUME NEW d \in Cores
       PROVE  /\ Waits(core[d], slot'[d]) = IF d \in S THEN Waits(core[d], slot[d]) \cup {w} ELSE Waits(core[d], slot[d])
              /\ Past(core[d], slot'[d]) = Past(core[d], slot[d]) /\ Apart(slot'[d])
  <2>1. CASE d \in S
    <3>1. /\ OneCore(data[d], cond[d], core[d], slot[d], buffer[d])
          /\ CoreOK(data[d], cond[d], core[d], slot[d], buffer[d])
      BY Zenon, <1>1 DEF TypeOK, OneCore, CoresOK
    <3>2. /\ w \in Work /\ w # NoWork /\ w \notin Waits(core[d], slot[d]) \cup Past(core[d], slot[d])
          /\ p \in 1..6 /\ Fits(slot[d], p)
      BY Zenon, <1>4, <1>8, <1>11, <1>18, <2>1 DEF p
    <3> DEFINE n == Occupy(slot[d], w, p % 2 = 0 /\ ~slot[d].idle)
    <3>3. Waits(core[d], n) = Waits(core[d], slot[d]) \cup {w} /\ Past(core[d], n) = Past(core[d], slot[d]) /\ Apart(n)
      BY SMTT(20), <3>1, <3>2, OccupyWorks
    <3>4. slot'[d] = n BY Zenon, <1>19, <2>1
    <3> HIDE DEF n
    <3> QED BY Zenon, <2>1, <3>3, <3>4
  <2>2. CASE d \notin S
    <3>1. Apart(slot[d]) BY Zenon DEF WorkInv, HistoryOK
    <3>2. slot'[d] = slot[d] BY Zenon, <1>19, <2>2
    <3> QED BY Zenon, <2>2, <3>1, <3>2
  <2> QED BY Zenon, <2>1, <2>2
<1>21. Passed' = Passed /\ \A d \in Cores : Awaited'[d] = IF d \in S THEN Awaited[d] \cup {w} ELSE Awaited[d]
  BY Zenon, <1>2, <1>20, WorksFixed DEF Awaited, Passed
<1>22. Cores' = Cores /\ Tasks' = Tasks /\ Works' = Works /\ Unclaimed' = Unclaimed
  BY Zenon, <1>2, WorksFixed DEF Unclaimed
<1>23. Placed(Unclaimed, Claimed', Awaited', Passed, ran)
  <2>1. Handed(t, w, S, Claimed, Claimed', Awaited, Awaited') BY Zenon, <1>8, <1>12, <1>17, <1>21 DEF Handed
  <2> QED BY Zenon, <1>13, <2>1, SendPlaced
<1>24. Placed(Unclaimed', Claimed', Awaited', Passed', ran') BY Zenon, <1>2, <1>21, <1>22, <1>23
<1>25. Counted(ran', Passed', subtasks', finished') BY Zenon, <1>2, <1>21 DEF WorkInv
<1>26. HistoryOK'
  <2>1. ASSUME NEW d \in Cores, NEW i \in {0, 1} PROVE buffer'[d][i] = NoWork \/ Fit(buffer'[d][i], Kind(d))
    <3>1. buffer[d] \in [{0, 1} -> Work] /\ (buffer[d][i] = NoWork \/ Fit(buffer[d][i], Kind(d)))
      BY Zenon, <1>1 DEF TypeOK, WorkInv, HistoryOK
    <3>2. CASE d \in S
      <4>1. buffer'[d] = [buffer[d] EXCEPT ![NextId(slot[d].seq) % 2] = w] BY Zenon, <1>19, <3>2
      <4>2. buffer'[d][i] = w \/ buffer'[d][i] = buffer[d][i] BY Zenon, <3>1, <4>1
      <4> QED BY Zenon, <1>17, <3>1, <3>2, <4>2
    <3>3. CASE d \notin S BY Zenon, <1>19, <3>1, <3>3
    <3> QED BY Zenon, <3>2, <3>3
  <2>2. \A d \in Cores : Apart(slot'[d]) BY Zenon, <1>20
  <2> QED BY Zenon, <1>2, <1>22, <2>1, <2>2 DEF WorkInv, HistoryOK, Fit, Apart
<1> QED BY Zenon, <1>24, <1>25, <1>26, WorkNext

\* The blocks of a task are as many as complete_slot_task waits for.
BlocksCount ==
    \A k \in DOMAIN Tasks : IsFiniteSet(Blocks(k)) /\ Required(k) \in Nat \ {0} /\ Cardinality(Blocks(k)) = Required(k)

\* The tasks of the works a poll completes, and the count of the blocks that are gone.
CompletedTasks(s, e) == (IF e.pending_done THEN <<s.pending[1]>> ELSE <<>>)
                          \o (IF e.running_done THEN <<s.running[1]>> ELSE <<>>)

LEMMA GoneWorks ==
    ASSUME LibraryFacts, NEW un, NEW cl, NEW wt, NEW pa, NEW rn, Placed(un, cl, wt, pa, rn),
           NEW c, NEW s, NEW e, NEW pp, Drops(c, Completed(s, e), pa, pp),
           e.pending_done => e.running_done /\ s.running # s.pending,
           NEW k \in DOMAIN Tasks, IsFiniteSet(Blocks(k))
    PROVE  /\ Times(CompletedTasks(s, e), k) \in Nat
           /\ Cardinality(Gone(rn, pp, k)) = Cardinality(Gone(rn, pa, k)) + Times(CompletedTasks(s, e), k)
<1> DEFINE m == Times(CompletedTasks(s, e), k)
<1>1. Cardinality(Gone(rn, pa, k)) \in Nat
  <2>1. Gone(rn, pa, k) \in SUBSET Blocks(k) BY Zenon DEF Gone
  <2> QED BY Zenon, <2>1 DEF LibraryFacts
<1>2. CASE ~e.running_done
  <2>1. m = 0 BY Zenon, <1>2, TimesCount DEF CompletedTasks
  <2>2. Completed(s, e) = {} BY Zenon, <1>2 DEF Completed
  <2>3. \A d \in Cores : pp[d] = pa[d] BY Zenon, <2>2 DEF Drops
  <2>4. Gone(rn, pp, k) = Gone(rn, pa, k) BY Zenon, <2>3 DEF Gone
  <2> HIDE DEF m
  <2>5. m \in Nat /\ Cardinality(Gone(rn, pp, k)) = Cardinality(Gone(rn, pa, k)) + m BY SMTT(20), <1>1, <2>1, <2>4
  <2> QED BY Zenon, <2>5 DEF m
<1>3. CASE e.running_done /\ ~e.pending_done
  <2>1. m = IF s.running[1] = k THEN 1 ELSE 0 BY Zenon, <1>3, TimesCount DEF CompletedTasks
  <2>2. Drops(c, {s.running}, pa, pp)
    <3>1. Completed(s, e) = {s.running} BY Zenon, <1>3 DEF Completed
    <3> QED BY Zenon, <3>1
  <2>3. Cardinality(Gone(rn, pp, k)) = Cardinality(Gone(rn, pa, k)) + IF s.running[1] = k THEN 1 ELSE 0
    BY SMTT(20), <2>2, GoneOne
  <2> HIDE DEF m
  <2>4. m \in Nat /\ Cardinality(Gone(rn, pp, k)) = Cardinality(Gone(rn, pa, k)) + m BY <2>1, <2>3
  <2> QED BY Zenon, <2>4 DEF m
<1>4. CASE e.running_done /\ e.pending_done
  <2>1. m = (IF s.running[1] = k THEN 1 ELSE 0) + (IF s.pending[1] = k THEN 1 ELSE 0)
    <3>1. CompletedTasks(s, e) = <<s.pending[1]>> \o <<s.running[1]>> BY Zenon, <1>4 DEF CompletedTasks
    <3>2. \A a, b : Times(<<a>> \o <<b>>, k) = (IF b = k THEN 1 ELSE 0) + (IF a = k THEN 1 ELSE 0) BY Zenon, TimesCount
    <3>3. Times(<<s.pending[1]>> \o <<s.running[1]>>, k)
            = (IF s.running[1] = k THEN 1 ELSE 0) + (IF s.pending[1] = k THEN 1 ELSE 0)
      BY Zenon, <3>2
    <3> QED BY Zenon, <3>1, <3>3
  <2>2. Completed(s, e) = {s.running, s.pending} /\ s.running # s.pending BY Zenon, <1>4 DEF Completed
  <2> DEFINE mid == [d \in Cores |-> IF d = c THEN pa[c] \ {s.running} ELSE pa[d]]
  <2>3. c \in Cores /\ mid[c] = pa[c] \ {s.running} /\ \A d \in Cores \ {c} : mid[d] = pa[d] BY Zenon DEF Drops
  <2> HIDE DEF mid
  <2>4. Placed(un, cl, wt, mid, rn)
    <3>1. \A d \in Cores : mid[d] \subseteq pa[d] BY Zenon, <2>3
    <3> QED BY Zenon, <3>1, PollPlaced
  <2>5. Drops(c, {s.running}, pa, mid) /\ Drops(c, {s.pending}, mid, pp) BY Zenon, <2>2, <2>3 DEF Drops
  <2>6. Cardinality(Gone(rn, mid, k)) = Cardinality(Gone(rn, pa, k)) + IF s.running[1] = k THEN 1 ELSE 0
    BY SMTT(20), <2>5, GoneOne
  <2>7. Cardinality(Gone(rn, pp, k)) = Cardinality(Gone(rn, mid, k)) + IF s.pending[1] = k THEN 1 ELSE 0
    BY SMTT(20), <2>4, <2>5, GoneOne
  <2> HIDE DEF m
  <2>8. m \in Nat /\ Cardinality(Gone(rn, pp, k)) = Cardinality(Gone(rn, pa, k)) + m BY SMTT(20), <1>1, <2>1, <2>6, <2>7
  <2> QED BY Zenon, <2>8 DEF m
<1> QED BY Zenon, <1>2, <1>3, <1>4

LEMMA PollWork ==
    ASSUME LibraryFacts, BlocksCount, SlotInv, WorkInv, launch' = launch, NEW t \in Threads, Poll(t)
    PROVE  WorkInv'
<1> DEFINE c == Min(th[t].cores)
           s == slot[c]
           e == decide_slot_transition(cond[c], s)
           n == IF e.matched THEN ApplyTransition(s, e) ELSE s
           ks == CompletedTasks(s, e)
<1>1. /\ th[t].pc = "poll" /\ UNCHANGED <<core, buffer, next, ran>>
      /\ slot' = (IF e.matched THEN [slot EXCEPT ![c] = ApplyTransition(s, e)] ELSE slot)
      /\ complete_slot_task(t, ks)
  BY Zenon DEF Poll, aicore, CompletedTasks
<1>2. TypeOK /\ PollingOK(t) BY Zenon DEF SlotInv, ThreadsOK
<1>3. c \in Cores BY Zenon, <1>1, <1>2, FirstCore DEF PollingOK
<1>4. Moves(t) /\ th'[t].pc # "send"
  <2>1. Moves(t) /\ th'[t].pc \in {"shape", "poll"} BY Zenon, <1>1, <1>2, CompleteMoves
  <2> QED BY Zenon, <2>1
<1>5. /\ OneCore(data[c], cond[c], core[c], s, buffer[c]) /\ CoreOK(data[c], cond[c], core[c], s, buffer[c])
      /\ Apart(s) /\ slot \in [Cores -> SlotState]
  BY Zenon, <1>3 DEF SlotInv, TypeOK, OneCore, CoresOK, WorkInv, HistoryOK
<1>6. /\ Completed(s, e) \subseteq Past(core[c], s) /\ Past(core[c], n) = Past(core[c], s) \ Completed(s, e)
      /\ Waits(core[c], n) = Waits(core[c], s) /\ Apart(n)
      /\ e.pending_done => e.running_done /\ s.running # s.pending
  BY ZenonT(30), <1>5, PollWorks
<1> HIDE DEF c, e
<1>7. slot'[c] = n /\ \A d \in Cores \ {c} : slot'[d] = slot[d] BY Zenon, <1>1, <1>3, <1>5
<1> HIDE DEF ks, n
<1>8. \A u \in Threads : ClaimedBy(th'[u]) = ClaimedBy(th[u])
  <2>1. th[t].pc # "send" BY Zenon, <1>1
  <2> QED BY Zenon, <1>4, <2>1 DEF Moves, ClaimedBy
<1>9. /\ Cores' = Cores /\ Tasks' = Tasks /\ Works' = Works /\ Unclaimed' = Unclaimed /\ Claimed' = Claimed
      /\ Awaited' = Awaited
  <2>1. \A d \in Cores : Waits(core'[d], slot'[d]) = Waits(core[d], slot[d]) BY Zenon, <1>1, <1>6, <1>7
  <2> QED BY Zenon, <1>1, <1>8, <2>1, WorksFixed DEF Unclaimed, Claimed, Awaited
<1>10. Drops(c, Completed(s, e), Passed, Passed')
  <2>1. Passed'[c] = Past(core[c], slot'[c]) /\ Passed[c] = Past(core[c], s) BY Zenon, <1>1, <1>3, WorksFixed DEF Passed
  <2>2. Passed'[c] = Past(core[c], n) BY Zenon, <1>7, <2>1
  <2>3. ASSUME NEW d \in Cores \ {c} PROVE Passed'[d] = Passed[d]
    <3>1. core'[d] = core[d] /\ slot'[d] = slot[d] BY Zenon, <1>1, <1>7
    <3>2. Passed'[d] = Past(core'[d], slot'[d]) /\ Passed[d] = Past(core[d], slot[d]) BY Zenon, WorksFixed DEF Passed
    <3> QED BY Zenon, <3>1, <3>2
  <2> HIDE DEF s
  <2> QED BY Zenon, <1>3, <1>6, <2>1, <2>2, <2>3 DEF Drops
<1>11. Placed(Unclaimed, Claimed, Awaited, Passed, ran) BY Zenon DEF WorkInv
<1>12. Placed(Unclaimed, Claimed, Awaited, Passed', ran)
  <2>1. \A d \in Cores : Passed'[d] \subseteq Passed[d] BY Zenon, <1>10 DEF Drops
  <2> QED BY Zenon, <1>11, <2>1, PollPlaced
<1>13. ASSUME NEW k \in DOMAIN Tasks
       PROVE  /\ subtasks'[k] = Cardinality(Gone(ran, Passed', k))
              /\ finished'[k] = IF subtasks'[k] >= Required(k) THEN 1 ELSE 0
              /\ subtasks'[k] \in Nat /\ finished'[k] \in Nat
  <2> DEFINE m == Times(ks, k)
             g == Cardinality(Gone(ran, Passed, k))
  <2>1. IsFiniteSet(Blocks(k)) /\ Required(k) \in Nat BY Zenon DEF BlocksCount
  <2>2. m \in Nat /\ Cardinality(Gone(ran, Passed', k)) = g + m
    <3>1. e.pending_done => e.running_done /\ s.running # s.pending BY Zenon, <1>6
    <3> HIDE DEF s
    <3> QED BY SMTT(20), <1>10, <1>11, <2>1, <3>1, GoneWorks DEF ks
  <2>3. /\ subtasks'[k] = subtasks[k] + m
        /\ finished'[k] = finished[k] + (IF subtasks[k] < Required(k) /\ subtasks[k] + m >= Required(k) THEN 1 ELSE 0)
    BY Zenon, <1>1 DEF complete_slot_task, Times
  <2>4. subtasks[k] = g /\ finished[k] = IF subtasks[k] >= Required(k) THEN 1 ELSE 0 BY Zenon DEF WorkInv, Counted
  <2>5. subtasks[k] \in Nat BY Zenon DEF WorkInv, HistoryOK
  <2> HIDE DEF m, g
  <2> QED BY SMTT(20), <2>1, <2>2, <2>3, <2>4, <2>5
<1>14. Counted(ran', Passed', subtasks', finished') BY Zenon, <1>1, <1>13 DEF Counted
<1>15. HistoryOK'
  <2>1. \A d \in Cores : Apart(slot'[d]) BY Zenon, <1>6, <1>7 DEF WorkInv, HistoryOK
  <2>2. /\ subtasks' = [k \in DOMAIN Tasks |-> subtasks'[k]] /\ finished' = [k \in DOMAIN Tasks |-> finished'[k]]
    BY Zenon, <1>1 DEF complete_slot_task
  <2>3. subtasks' \in [DOMAIN Tasks -> Nat] /\ finished' \in [DOMAIN Tasks -> Nat] BY Zenon, <1>13, <2>2
  <2> QED BY Zenon, <1>1, <1>9, <2>1, <2>3 DEF WorkInv, HistoryOK, Fit, Apart
<1>16. Placed(Unclaimed', Claimed', Awaited', Passed', ran') BY Zenon, <1>1, <1>9, <1>12
<1> QED BY Zenon, <1>14, <1>15, <1>16, WorkNext
=============================================================================
