--------------------------- MODULE RegistryProofs ---------------------------
(***************************************************************************)
(* Mailboxes and the registration of callables, for any number of          *)
(* children, callables and ids, and any number of calls.                   *)
(***************************************************************************)
EXTENDS RegistryInvariants, FiniteSetTheorems, WellFoundedInduction

LEMMA LeastNatural ==
    ASSUME NEW T \in SUBSET Nat, T # {}
    PROVE  \E m \in T : \A k \in T : m <= k
<1>1. PICK x \in T : \A y \in T : ~(<<y, x>> \in OpToRel(<, Nat))
  BY Zenon, WFMin, NatLessThanWellFounded
<1>2. ASSUME NEW k \in T PROVE x <= k
  <2>1. ~(k < x)
    BY Zenon, <1>1, <1>2 DEF OpToRel
  <2> QED BY <2>1
<1> QED BY <1>2

\* _allocate_cid returns an id that is not in use.
LEMMA AllocateCidFree ==
    ASSUME Registered # Cids PROVE AllocateCid \in Cids /\ registry[AllocateCid] = NoCallable
<1> DEFINE T == Cids \ Registered
<1>1. T \in SUBSET Nat /\ T # {}
  BY MailboxAssumption DEF Cids, Registered
<1>2. \E m \in T : \A k \in T : m <= k
  BY Zenon, <1>1, LeastNatural
<1>3. AllocateCid \in T
  BY <1>2 DEF AllocateCid, Min
<1> QED BY <1>3 DEF Registered
-----------------------------------------------------------------------------
(***************************************************************************)
(* The thread of Worker.run keeps the invariant: the start of the          *)
(* children, tasks, memory calls, close and a new init.                    *)
(***************************************************************************)
\* Its steps that only move on leave everything as it is.
LEMMA RunMovesOn ==
    ASSUME RegistryInv, UNCHANGED <<mailVars, registry, upc, target_cid>>,
           prewarm' \in SUBSET (Cids \X Children),
           \/ rpc = "none" /\ rpc' = "fork"
           \/ rpc = "init" /\ rpc' \in {"prewarm", "up"} /\ (rpc' = "prewarm" => kind = "chip")
           \/ /\ rpc \in {"none", "up"} /\ rpc' \in {"shutdown", "closed"} /\ upc = "idle"
              /\ \A c \in Children : job[c].pc = "idle" /\ call["run"][c].pc = "idle"
           \/ rpc = "reap" /\ rpc' = "closed"
           \/ rpc = "prewarm" /\ rpc' = "up" /\ RunThreadFree
    PROVE  RegistryInv'
<1>1. TypeOK /\ Quiet /\ Asked /\ Fresh /\ Stored /\ \A c \in Children : Exchange(c) /\ Executed(c)
  BY Zenon DEF RegistryInv, MailInv
<1>2. UNCHANGED <<mbox, mu, job, call, kind, child, inherited, prepared, table>>
  BY Zenon DEF mailVars
<1>3. TypeOK'
  BY Zenon, <1>1, <1>2 DEF TypeOK
<1>4. Quiet'
  BY Zenon, <1>1, <1>2 DEF Quiet, Asked
<1>5. \A c \in Children : Exchange(c)' /\ Executed(c)'
  BY <1>1, <1>2 DEF Exchange, Executed
<1>6. Asked'
  <2>1. \A c \in Children : call["run"][c].pc = "idle"
    BY Zenon, <1>1 DEF Quiet, RunThreadFree
  <2>2. rpc' = "prewarm" => upc = "idle" /\ kind = "chip" /\ \A c \in Children : job[c].pc = "idle"
    BY Zenon, <1>1 DEF Quiet
  <2> QED BY Zenon, <1>1, <1>2, <2>1, <2>2 DEF Asked, Busy, Submittable
<1>7. Fresh'
  BY Zenon, <1>1, <1>2 DEF Fresh
<1>8. Stored'
  <2>1. \A d \in Children : Accepted(d)' => Accepted(d)
    BY Zenon, <1>2 DEF Accepted
  <2> QED BY Zenon, <1>1, <1>2, <2>1, StoredFrame
<1> QED BY Zenon, <1>3, <1>4, <1>5, <1>6, <1>7, <1>8 DEF RegistryInv, MailInv

LEMMA StartBeginInv == ASSUME RegistryInv, StartBegin PROVE RegistryInv'
BY Zenon, RunMovesOn DEF StartBegin, RegistryInv, MailInv, TypeOK

LEMMA EngineInitInv == ASSUME RegistryInv, EngineInit PROVE RegistryInv'
<1>1. prewarm' \in SUBSET (Cids \X Children)
  BY DEF EngineInit, PrewarmPairs, RegistryInv, MailInv, TypeOK
<1> QED BY Zenon, <1>1, RunMovesOn DEF EngineInit

LEMMA CloseInv == ASSUME RegistryInv, Close PROVE RegistryInv'
BY Zenon, RunMovesOn DEF Close, RunThreadFree, RegistryInv, MailInv, TypeOK

LEMMA CloseReapInv == ASSUME RegistryInv, CloseReap PROVE RegistryInv'
BY Zenon, RunMovesOn DEF CloseReap, RegistryInv, MailInv, TypeOK

LEMMA ForkChildInv == ASSUME RegistryInv, ForkChild PROVE RegistryInv'
<1>1. /\ TypeOK /\ Quiet /\ Asked /\ Fresh /\ Stored /\ rpc = "fork"
      /\ \A c \in Children : Exchange(c) /\ Executed(c)
  BY Zenon DEF RegistryInv, MailInv, ForkChild
<1>2. PICK c \in Children :
        /\ child[c].pc = "none" /\ rpc' \in {"fork", "init"}
        /\ child' = [child EXCEPT ![c].pc = "loop"]
        /\ inherited' = [inherited EXCEPT ![c] = registry]
  BY Zenon DEF ForkChild
<1>3. UNCHANGED <<mbox, mu, job, call, kind, prepared, table, registry, upc, target_cid, prewarm>>
  BY Zenon DEF ForkChild
<1>4. /\ child' \in [Children -> Processes] /\ inherited' \in [Children -> Tables]
      /\ child'[c].pc = "loop" /\ inherited'[c] = registry
      /\ \A d \in Children \ {c} : child'[d] = child[d] /\ inherited'[d] = inherited[d]
  BY Zenon, <1>1, <1>2 DEF TypeOK, Processes
<1>10. Quiet'
  BY Zenon, <1>1, <1>2, <1>3 DEF Quiet
<1>5. MailInv'
  <2>1. TypeOK'
    BY Zenon, <1>1, <1>2, <1>3, <1>4 DEF TypeOK
  <2>2. ASSUME NEW d \in Children PROVE Exchange(d)'
    <3>1. CASE d = c
      BY <1>1, <1>2, <1>3, <1>4, <3>1 DEF Exchange
    <3>2. CASE d # c
      BY Zenon, <1>1, <1>3, <1>4, <3>2, ExchangeFrame
    <3> QED BY Zenon, <3>1, <3>2
  <2> QED BY Zenon, <1>10, <2>1, <2>2 DEF MailInv
<1>6. Asked'
  BY Zenon, <1>2, <1>10, QuietAsked
<1>7. Fresh'
  BY Zenon, <1>1, <1>2, <1>3 DEF Fresh
<1>8. Stored'
  <2>1. upc = "idle" /\ \A d \in Children : prepared[d] = {} /\ table[d] = NoTable
    BY Zenon, <1>1 DEF Quiet, Fresh
  <2>2. ASSUME NEW d \in Children, NEW i \in Cids, child'[d].pc # "none"
        PROVE  /\ kind = "chip" /\ registry[i] \in Chips => Resolves(d, i)' = registry[i]
               /\ registry[i] \in Fns => inherited'[d][i] = registry[i]
    <3>1. CASE d = c
      BY Zenon, <1>3, <1>4, <2>1, <3>1 DEF Resolves
    <3>2. CASE d # c
      BY <1>1, <1>3, <1>4, <2>1, <2>2, <3>2 DEF Stored, Busy, Resolves
    <3> QED BY Zenon, <3>1, <3>2
  <2>3. \A d \in Children, i \in Cids : table[d][i] = NoCallable
    BY Zenon, <2>1 DEF NoTable
  <2> QED BY Zenon, <1>3, <2>1, <2>2, <2>3 DEF Stored, Registered
<1>9. \A d \in Children : Executed(d)'
  BY Zenon, <1>1, <1>3, <1>4 DEF Executed
<1> QED BY Zenon, <1>5, <1>6, <1>7, <1>8, <1>9 DEF RegistryInv

\* The run thread begins or forgets a command on one mailbox.  It has no other,
\* and a command that is under way is one for the phase it is in.
LEMMA RunCallInv ==
    ASSUME RegistryInv, NEW c \in Children, NEW x \in Commands,
           call' = [call EXCEPT !["run"][c] = x],
           x.pc \in {"idle", "want"}, call["run"][c].pc \in {"idle", "done"},
           \A d \in Children \ {c} : call["run"][d].pc = "idle",
           UNCHANGED <<mbox, mu, job, child, kind, inherited, prepared, table>>,
           UNCHANGED <<registry, upc, target_cid>>,
           prewarm' \in SUBSET (Cids \X Children),
           rpc \in {"prewarm", "up"}, rpc' \in {rpc, "up"},
           x.pc # "idle" => /\ rpc' = rpc /\ kind = "chip"
                            /\ x.req.cmd = IF rpc = "up" THEN "memory" ELSE "prepare"
    PROVE  RegistryInv'
<1>1. TypeOK /\ Quiet /\ Asked /\ Fresh /\ Stored /\ \A d \in Children : Exchange(d) /\ Executed(d)
  BY Zenon DEF RegistryInv, MailInv
<1>2. /\ call' \in [Callers -> [Children -> Commands]]
      /\ call'["user"] = call["user"] /\ call'["run"][c] = x
      /\ \A d \in Children \ {c} : call'["run"][d] = call["run"][d]
  BY Zenon, <1>1 DEF TypeOK, Callers
<1>3. TypeOK'
  BY Zenon, <1>1, <1>2 DEF TypeOK
<1>4. Quiet'
  BY Zenon, <1>1, <1>2 DEF Quiet
<1>5. ASSUME NEW d \in Children PROVE Exchange(d)'
  <2>1. CASE d = c
    <3>1. \A t \in Callers : \/ call'[t][c] = call[t][c]
                              \/ /\ call[t][c].pc \notin {"signal", "poll"}
                                 /\ call'[t][c].pc \notin {"signal", "poll"}
      BY Zenon, <1>2 DEF Callers
    <3> QED BY Zenon, <1>1, <2>1, <3>1, ExchangeCallFrame
  <2>2. CASE d # c
    BY Zenon, <1>1, <1>2, <2>2, ExchangeFrame DEF Callers
  <2> QED BY Zenon, <2>1, <2>2
<1>6. Asked'
  <2>1. \A d \in Children : call'["run"][d].pc # "idle" =>
          /\ d = c /\ kind = "chip"
          /\ call'["run"][d].req.cmd = (IF rpc' = "up" THEN "memory" ELSE "prepare")
    BY <1>2
  <2>2. \A d \in Children : call'["user"][d] = call["user"][d]
    BY Zenon, <1>2
  <2>3. rpc' = "prewarm" => rpc = "prewarm"
    BY Zenon
  <2> QED BY Zenon, <1>1, <2>1, <2>2, <2>3, RunAsked
<1>7. Fresh'
  BY SMTT(30) DEF Fresh
<1>8. Stored'
  <2>1. \A d \in Children : Accepted(d)' => Accepted(d)
    BY Zenon, <1>2 DEF Accepted
  <2> QED BY Zenon, <1>1, <1>2, <2>1, StoredFrame
<1>9. \A d \in Children : Executed(d)'
  BY Zenon, <1>1 DEF Executed
<1> QED BY Zenon, <1>3, <1>4, <1>5, <1>6, <1>7, <1>8, <1>9 DEF RegistryInv, MailInv

LEMMA PrewarmNextInv == ASSUME RegistryInv, PrewarmNext PROVE RegistryInv'
<1>1. /\ rpc = "prewarm" /\ RunThreadFree /\ kind = "chip"
      /\ prewarm \in SUBSET (Cids \X Children) /\ MailInv /\ TypeOK
  BY Zenon DEF PrewarmNext, RegistryInv, MailInv, TypeOK, Asked
<1>2. UNCHANGED <<mbox, mu, job, child, kind, inherited, prepared, table, registry, upc, target_cid>>
  BY Zenon DEF PrewarmNext
<1>3. CASE prewarm = {}
  BY Zenon, <1>1, <1>2, <1>3, RunMovesOn DEF PrewarmNext, mailVars
<1>4. CASE prewarm # {}
  <2>1. PICK p \in prewarm :
          /\ call' = [call EXCEPT !["run"][p[2]] =
                 Wanted([NoRequest EXCEPT !.cmd = "prepare", !.cid = p[1]])]
          /\ prewarm' = prewarm \ {p}
          /\ UNCHANGED rpc
    BY Zenon, <1>4 DEF PrewarmNext
  <2>2. p[1] \in Cids /\ p[2] \in Children
    BY Zenon, <1>1
  <2> DEFINE r == [NoRequest EXCEPT !.cmd = "prepare", !.cid = p[1]]
  <2>3. r \in Requests /\ r.cmd = "prepare"
    BY Zenon, <2>2, NoRequestType DEF NoRequest, Requests
  <2> HIDE DEF r
  <2>4. Wanted(r) \in Commands /\ Wanted(r).pc = "want" /\ Wanted(r).req = r
    BY Zenon, <2>3, WantedType
  <2>5. prewarm' \in SUBSET (Cids \X Children)
    BY Zenon, <1>1, <2>1
  <2>6. call' = [call EXCEPT !["run"][p[2]] = Wanted(r)]
    BY Zenon, <2>1 DEF r
  <2>7. PICK c \in Children : c = p[2]
    BY Zenon, <2>2
  <2>8. /\ call' = [call EXCEPT !["run"][c] = Wanted(r)]
        /\ \A d \in Children : call["run"][d].pc = "idle"
    BY Zenon, <1>1, <2>6, <2>7 DEF RunThreadFree
  <2> DEFINE x == Wanted(r)
  <2>9. /\ x \in Commands /\ call' = [call EXCEPT !["run"][c] = x]
        /\ x.pc = "want" /\ x.req.cmd = "prepare"
    BY Zenon, <1>1, <2>3, <2>4, <2>8
  <2> HIDE DEF x
  <2>10. /\ UNCHANGED <<mbox, mu, job, child, kind, inherited, prepared, table>>
         /\ UNCHANGED <<registry, upc, target_cid>>
         /\ rpc' = rpc /\ rpc = "prewarm" /\ kind = "chip"
    BY Zenon, <1>1, <1>2, <2>1
  <2>11. /\ call["run"][c].pc \in {"idle", "done"} /\ x.pc \in {"idle", "want"}
         /\ \A d \in Children \ {c} : call["run"][d].pc = "idle"
         /\ x.pc # "idle" => /\ rpc' = rpc /\ kind = "chip"
                             /\ x.req.cmd = IF rpc = "up" THEN "memory" ELSE "prepare"
         /\ rpc \in {"prewarm", "up"} /\ rpc' \in {rpc, "up"}
    BY Zenon, <2>8, <2>9, <2>10
  <2> QED BY Zenon, <2>5, <2>9, <2>10, <2>11, RunCallInv
<1> QED BY SMTT(30), <1>3, <1>4

\* At most one command of the run thread is under way.
LEMMA RunCallIsAlone ==
    ASSUME RegistryInv, NEW c \in Children, call["run"][c].pc # "idle"
    PROVE  \A d \in Children \ {c} : call["run"][d].pc = "idle"
BY Zenon DEF RegistryInv, Asked

LEMMA PrewarmReceiveInv == ASSUME RegistryInv, PrewarmReceive PROVE RegistryInv'
<1>1. PICK c \in Children :
        /\ call["run"][c].pc = "done"
        /\ call' = [call EXCEPT !["run"][c] = NoCall]
        /\ (rpc' = "up" /\ prewarm' = {}) \/ UNCHANGED <<rpc, prewarm>>
  BY Zenon DEF PrewarmReceive
<1>2. /\ UNCHANGED <<mbox, mu, job, child, kind, inherited, prepared, table>>
      /\ UNCHANGED <<registry, upc, target_cid>> /\ rpc = "prewarm"
  BY Zenon DEF PrewarmReceive
<1>3. NoCall \in Commands /\ NoCall.pc = "idle" /\ prewarm' \in SUBSET (Cids \X Children)
  BY Zenon, <1>1, RecordTypes DEF NoCall, RegistryInv, MailInv, TypeOK
<1> QED BY Zenon, <1>1, <1>2, <1>3, RunCallIsAlone, RunCallInv

LEMMA MemoryCallInv == ASSUME RegistryInv, MemoryCall PROVE RegistryInv'
<1> DEFINE r == [NoRequest EXCEPT !.cmd = "memory"]
<1>1. PICK c \in Children : call' = [call EXCEPT !["run"][c] = Wanted(r)]
  BY Zenon DEF MemoryCall
<1>2. /\ UNCHANGED <<mbox, mu, job, child, kind, inherited, prepared, table>>
      /\ UNCHANGED <<registry, upc, target_cid, rpc, prewarm>>
      /\ rpc = "up" /\ kind = "chip" /\ RunThreadFree
  BY Zenon DEF MemoryCall
<1>3. r \in Requests /\ r.cmd = "memory"
  BY Zenon, NoRequestType DEF NoRequest, Requests
<1> HIDE DEF r
<1>4. Wanted(r) \in Commands /\ Wanted(r).pc = "want" /\ Wanted(r).req = r
  BY Zenon, <1>3, WantedType
<1>5. prewarm' \in SUBSET (Cids \X Children)
  BY Zenon, <1>2 DEF RegistryInv, MailInv, TypeOK
<1> QED BY Zenon, <1>1, <1>2, <1>3, <1>4, <1>5, RunCallInv DEF RunThreadFree

LEMMA MemoryReturnInv == ASSUME RegistryInv, MemoryReturn PROVE RegistryInv'
<1>1. PICK c \in Children : call["run"][c].pc = "done" /\ call' = [call EXCEPT !["run"][c] = NoCall]
  BY Zenon DEF MemoryReturn
<1>2. /\ UNCHANGED <<mbox, mu, job, child, kind, inherited, prepared, table>>
      /\ UNCHANGED <<registry, upc, target_cid, rpc, prewarm>> /\ rpc = "up"
  BY Zenon DEF MemoryReturn, regVars
<1>3. NoCall \in Commands /\ NoCall.pc = "idle" /\ prewarm' \in SUBSET (Cids \X Children)
  BY Zenon, <1>2, RecordTypes DEF NoCall, RegistryInv, MailInv, TypeOK
<1> QED BY Zenon, <1>1, <1>2, <1>3, RunCallIsAlone, RunCallInv

\* The engine gives child c the task j.
LEMMA QueuedMail ==
    ASSUME RegistryInv, NEW c \in Children, NEW j \in Jobs, JobChanges(c, j),
           job[c].pc = "idle", j.pc = "queued", rpc = "up",
           UNCHANGED <<mbox, mu, call, child, kind, inherited, prepared, table>>,
           UNCHANGED <<registry, upc, target_cid, rpc, prewarm>>
    PROVE  /\ MailInv'
           /\ \A d \in Children : Executed(d)'
<1>1. TypeOK /\ Quiet /\ Exchange(c)
  BY Zenon DEF RegistryInv, MailInv
<1>2. job' \in [Children -> Jobs] /\ job'[c] = j /\ \A d \in Children \ {c} : job'[d] = job[d]
  BY Zenon DEF JobChanges
<1>3. TypeOK'
  BY Zenon, <1>1, <1>2 DEF TypeOK
<1>4. Quiet'
  BY Zenon, <1>1 DEF Quiet
<1>5. Exchange(c)'
  BY Zenon, <1>1, <1>2 DEF Exchange
<1>6. Executed(c)'
  BY Zenon, <1>1 DEF Exchange, Executed
<1>7. ASSUME NEW d \in Children, d # c PROVE Exchange(d)'
  BY Zenon, <1>2, <1>7, ExchangeFrame DEF RegistryInv, MailInv
<1>8. ASSUME NEW d \in Children, d # c PROVE Executed(d)'
  BY Zenon, <1>2, <1>8, ExecutedFrame DEF RegistryInv
<1> QED BY Zenon, <1>3, <1>4, <1>5, <1>6, <1>7, <1>8 DEF MailInv

LEMMA QueuedAsked ==
    ASSUME RegistryInv, NEW c \in Children, NEW j \in Jobs, JobChanges(c, j),
           j.target \in Submittable, j.target = registry[j.cid], ~Busy(j.cid), rpc = "up",
           UNCHANGED <<call, kind, registry, upc, target_cid, rpc>>
    PROVE  Asked'
<1>1. \A d \in Children : job'[d].pc # "idle" =>
        /\ job'[d].target \in Submittable /\ job'[d].target = registry[job'[d].cid]
        /\ ~Busy(job'[d].cid)
  <2> SUFFICES ASSUME NEW d \in Children, job'[d].pc # "idle"
               PROVE  /\ job'[d].target \in Submittable /\ job'[d].target = registry[job'[d].cid]
                      /\ ~Busy(job'[d].cid)
    BY Zenon
  <2>1. CASE d = c
    BY Zenon, <2>1 DEF JobChanges
  <2>2. CASE d # c
    BY <2>2 DEF JobChanges, RegistryInv, Asked
  <2> QED BY Zenon, <2>1, <2>2
<1> QED BY Zenon, <1>1, JobAsked DEF RegistryInv

LEMMA SubmitInv == ASSUME RegistryInv, Submit PROVE RegistryInv'
<1>1. TypeOK /\ Fresh /\ Stored /\ rpc = "up"
  BY Zenon DEF RegistryInv, MailInv, Submit
<1>2. PICK c \in Children, i \in Registered :
        /\ upc # "idle" => i # target_cid
        /\ job[c].pc = "idle" /\ registry[i] \in Submittable
        /\ job' = [job EXCEPT ![c] = [pc |-> "queued", cid |-> i, target |-> registry[i]]]
  BY Zenon DEF Submit
<1>3. /\ UNCHANGED <<mbox, mu, call, child, kind, inherited, prepared, table>>
      /\ UNCHANGED <<registry, upc, target_cid, rpc, prewarm>>
  BY Zenon DEF Submit
<1> DEFINE j == [pc |-> "queued", cid |-> i, target |-> registry[i]]
<1>4. j \in Jobs /\ j.pc = "queued" /\ j.cid = i /\ j.target = registry[i]
  BY Zenon, <1>1, <1>2 DEF Jobs, Registered, TypeOK, Tables
<1>5. job' = [job EXCEPT ![c] = j]
  BY Zenon, <1>2
<1> HIDE DEF j
<1>6. JobChanges(c, j)
  BY Zenon, <1>1, <1>4, <1>5, JobUpdate
<1>7. MailInv' /\ \A d \in Children : Executed(d)'
  BY Zenon, <1>1, <1>2, <1>3, <1>4, <1>6, QueuedMail
<1>8. Asked'
  <2>1. ~Busy(j.cid) /\ j.target \in Submittable /\ j.target = registry[j.cid]
    BY Zenon, <1>2, <1>4 DEF Busy
  <2> QED BY Zenon, <1>1, <1>3, <1>4, <1>6, <2>1, QueuedAsked
<1>9. Fresh'
  BY Zenon, <1>1, <1>3, FreshFrame
<1>10. Stored'
  <2>1. \A d \in Children : Accepted(d)' => Accepted(d)
    BY Zenon, <1>3 DEF Accepted
  <2> QED BY Zenon, <1>1, <1>3, <2>1, StoredFrame
<1> QED BY Zenon, <1>7, <1>8, <1>9, <1>10 DEF RegistryInv

LEMMA CloseShutdownInv == ASSUME RegistryInv, CloseShutdown PROVE RegistryInv'
<1>1. /\ TypeOK /\ Quiet /\ Asked /\ Fresh /\ Stored /\ rpc = "shutdown" /\ rpc' = "reap"
      /\ \A d \in Children : Exchange(d) /\ Executed(d)
  BY Zenon DEF RegistryInv, MailInv, CloseShutdown
<1>2. UNCHANGED <<mu, job, call, child, kind, inherited, prepared, table, registry, upc,
                  target_cid, prewarm>>
  BY Zenon DEF CloseShutdown
<1>3. \A d \in Children : mbox'[d] \in Mails /\ mbox'[d].state = "SHUTDOWN" /\ mbox'[d].req = mbox[d].req
  <2> SUFFICES ASSUME NEW d \in Children
               PROVE  mbox'[d] \in Mails /\ mbox'[d].state = "SHUTDOWN" /\ mbox'[d].req = mbox[d].req
    BY Zenon
  <2>1. mbox[d] \in Mails /\ "SHUTDOWN" \in MailboxStates
    BY Zenon, <1>1 DEF TypeOK, MailboxStates
  <2>2. mbox'[d] = [mbox[d] EXCEPT !.state = "SHUTDOWN"]
    BY Zenon DEF CloseShutdown
  <2> QED BY Zenon, <2>1, <2>2 DEF Mails
<1>4. mbox' \in [Children -> Mails]
  BY Zenon, <1>3 DEF CloseShutdown
<1>5. ASSUME NEW d \in Children
      PROVE  /\ child[d].pc \notin {"TASK_READY", "TASK_DONE", "CONTROL_REQUEST", "CONTROL_DONE"}
             /\ mu[d] \notin {"dispatch", "run", "user"}
  BY <1>1 DEF Quiet, Exchange, Callers
<1>6. MailInv'
  <2>1. TypeOK'
    BY Zenon, <1>1, <1>2, <1>4 DEF TypeOK
  <2>2. Quiet'
    BY Zenon, <1>1, <1>2 DEF Quiet
  <2>3. ASSUME NEW d \in Children PROVE Exchange(d)'
    <3>1. job'[d].pc = "idle" /\ \A t \in Callers : call'[t][d].pc = "idle"
      BY Zenon, <1>1, <1>2 DEF Quiet, Callers
    <3> QED BY Zenon, <1>2, <1>3, <1>5, <3>1, RestExchange DEF Callers
  <2> QED BY Zenon, <2>1, <2>2, <2>3 DEF MailInv
<1>7. Asked'
  BY Zenon, <1>1, <1>6, QuietAsked DEF MailInv
<1>8. Fresh'
  BY Zenon, <1>1 DEF Fresh
<1>9. Stored'
  <2>1. upc # "register"
    BY Zenon, <1>1 DEF Quiet
  <2> QED BY Zenon, <1>1, <1>2, <2>1, StoredFrame
<1>10. ASSUME NEW d \in Children PROVE Executed(d)'
  BY Zenon, <1>2, <1>3, <1>5 DEF Executed
<1> QED BY Zenon, <1>6, <1>7, <1>8, <1>9, <1>10 DEF RegistryInv

LEMMA ReinitInv == ASSUME RegistryInv, Reinit PROVE RegistryInv'
<1>1. /\ TypeOK /\ Quiet /\ Asked /\ rpc = "closed" /\ rpc' = "none"
      /\ \A d \in Children : Exchange(d)
  BY Zenon DEF RegistryInv, MailInv, Reinit
<1>2. UNCHANGED <<mu, job, call, kind, registry, upc, target_cid, prewarm>>
  BY Zenon DEF Reinit
<1>3. \A d \in Children : /\ mbox'[d] = NoMail /\ child'[d] = NoChild
                          /\ prepared'[d] = {} /\ table'[d] = NoTable
  BY Zenon DEF Reinit
<1>4. ASSUME NEW d \in Children PROVE mu[d] \notin {"dispatch", "run", "user"}
  BY SMTT(30), <1>1 DEF Quiet, Exchange, Callers
<1>5. MailInv'
  <2>1. /\ mbox' \in [Children -> Mails] /\ child' \in [Children -> Processes]
        /\ inherited' \in [Children -> Tables] /\ table' \in [Children -> Tables]
        /\ prepared' \in [Children -> SUBSET Cids]
    BY Zenon, RecordTypes DEF Reinit
  <2>2. TypeOK'
    BY Zenon, <1>1, <1>2, <2>1 DEF TypeOK
  <2>3. Quiet'
    BY Zenon, <1>1, <1>2 DEF Quiet
  <2>4. NoMail.state = "IDLE" /\ NoChild.pc = "none"
    BY Zenon DEF NoMail, NoChild
  <2>5. ASSUME NEW d \in Children PROVE Exchange(d)'
    <3>1. job'[d].pc = "idle" /\ \A t \in Callers : call'[t][d].pc = "idle"
      BY Zenon, <1>1, <1>2 DEF Quiet, Callers
    <3> QED BY Zenon, <1>2, <1>3, <1>4, <2>4, <3>1, RestExchange DEF Callers
  <2> QED BY Zenon, <2>2, <2>3, <2>5 DEF MailInv
<1>6. Asked'
  BY Zenon, <1>1, <1>5, QuietAsked DEF MailInv
<1>7. Fresh'
  BY <1>3 DEF Fresh, NoChild
<1>8. Stored'
  BY Zenon, <1>1, <1>5, <1>7, UnforkedStored DEF MailInv
<1>9. ASSUME NEW d \in Children PROVE Executed(d)'
  BY <1>3 DEF Executed, NoChild, NoMail
<1> QED BY Zenon, <1>5, <1>6, <1>7, <1>8, <1>9 DEF RegistryInv

LEMMA StutterInv == ASSUME RegistryInv, UNCHANGED vars PROVE RegistryInv'
<1>1. /\ UNCHANGED <<mbox, mu, job, call, kind, child, inherited, prepared, table>>
      /\ UNCHANGED <<registry, upc, target_cid, rpc, prewarm>>
  BY Zenon DEF vars, mailVars, regVars
<1>2. TypeOK /\ Quiet /\ MailInv /\ Asked /\ Fresh /\ Stored
  BY Zenon DEF RegistryInv, MailInv
<1>3. TypeOK'
  BY Zenon, <1>1, <1>2 DEF TypeOK
<1>4. Quiet' /\ \A c \in Children : Exchange(c)'
  BY Zenon, <1>1, <1>2, QuietFrame, ExchangesFrame
<1>5. Asked' /\ Fresh'
  BY Zenon, <1>1, <1>2, AskedFrame, FreshFrame
<1>6. \A c \in Children : Accepted(c)' => Accepted(c)
  BY Zenon, <1>1 DEF Accepted
<1>7. Stored'
  BY Zenon, <1>1, <1>2, <1>6, StoredFrame
<1>8. ASSUME NEW c \in Children PROVE Executed(c)'
  BY Zenon, <1>1, ExecutedFrame DEF RegistryInv
<1> QED BY Zenon, <1>3, <1>4, <1>5, <1>7, <1>8 DEF RegistryInv, MailInv
-----------------------------------------------------------------------------
LEMMA InitRegistryInv == Init => RegistryInv
<1> SUFFICES ASSUME Init PROVE RegistryInv
  OBVIOUS
<1>1. TypeOK
  BY RecordTypes, MailboxAssumption, RegistryAssumption
     DEF Init, MailInit, TypeOK, Cids, Holders
<1>2. Quiet
  BY DEF Init, MailInit, Quiet, NoDispatch, NoCall, Callers
<1>3. ASSUME NEW c \in Children PROVE Exchange(c)
  BY DEF Init, MailInit, Exchange, NoDispatch, NoCall, NoMail, NoChild, Callers
<1>4. Asked
  BY DEF Init, MailInit, Asked, NoDispatch, NoCall, Callers
<1>5. Fresh
  BY DEF Init, MailInit, Fresh, NoChild
<1>6. Stored
  BY DEF Init, MailInit, Stored, NoChild
<1>7. ASSUME NEW c \in Children PROVE Executed(c)
  BY DEF Init, MailInit, Executed, NoChild, NoMail
<1> QED BY <1>1, <1>2, <1>3, <1>4, <1>5, <1>6, <1>7 DEF RegistryInv, MailInv

-----------------------------------------------------------------------------
\* The inductive invariant of mailboxes and registry holds in every reachable
\* state: one request per mailbox, the registered callables in every child, the
\* callable of a task in its answer.
THEOREM RegistryInvariant == Spec => []RegistryInv
<1>1. RegistryInv /\ [Next]_vars => RegistryInv'
  <2> SUFFICES ASSUME RegistryInv, [Next]_vars PROVE RegistryInv'
    OBVIOUS
  <2>1. CASE User
    BY <2>1, AllocateCidFree, RegisterInv, RegisterReturnInv, UnregisterInv, UnregisterReturnInv
    DEF User, Register
  <2>2. CASE Start
    BY <2>2, StartBeginInv, ForkChildInv, EngineInitInv, PrewarmNextInv, PrewarmReceiveInv DEF Start
  <2>3. CASE Run
    BY <2>2, <2>3, SubmitInv, MemoryCallInv, MemoryReturnInv, CloseInv, CloseShutdownInv,
       CloseReapInv, ReinitInv DEF Run
  <2>4. CASE \E c \in Children : Dispatch(c) \/ Child(c) \/ Death(c)
    BY Zenon, <2>4, DispatchStepInv, ChildStepInv, ChildDiesInv DEF Dispatch, Child, Death
  <2>5. CASE \E c \in Children, t \in Callers : Control(t, c)
    BY Zenon, <2>5, ControlStepInv DEF Control
  <2>6. CASE Finished \/ Stuck \/ UNCHANGED vars
    BY <2>6, StutterInv DEF Finished, Stuck
  <2> QED BY <2>1, <2>3, <2>4, <2>5, <2>6 DEF Next
<1> QED BY <1>1, InitRegistryInv, PTL DEF Spec

\* No task and no control command ever takes the answer of another, whoever
\* competes for the mailbox (mailbox_mu_ is held for the whole round trip of
\* dispatch_process and of run_control_command).
THEOREM RequestsAreExclusive == Spec => []OneRequestAtATime
<1>1. RegistryInv => OneRequestAtATime
  <2> SUFFICES ASSUME RegistryInv, NEW c \in Children
               PROVE  /\ Cardinality(Issued(c)) <= 1
                      /\ child[c].pc \in MailboxStates => Issued(c) = {child[c].req}
                      /\ mbox[c].state \in {"TASK_DONE", "CONTROL_DONE"} =>
                           Issued(c) = {mbox[c].req}
    BY DEF OneRequestAtATime
  <2>1. Exchange(c) /\ TypeOK
    BY DEF RegistryInv, MailInv
  <2>2. Issued(c) = {} \/ Issued(c) = {mbox[c].req}
    BY SMTT(30), <2>1 DEF Exchange, Issued, TaskIssued, Callers
  <2>3. /\ job[c].pc = "poll" => Issued(c) = {mbox[c].req}
        /\ \A t \in Callers : call[t][c].pc = "poll" => Issued(c) = {mbox[c].req}
    BY <2>1 DEF Exchange, Issued, TaskIssued, Callers
  <2>4. Cardinality(Issued(c)) <= 1
    <3>1. Cardinality({}) = 0 /\ Cardinality({mbox[c].req}) = 1
      BY Zenon, FS_EmptySet, FS_Singleton
    <3> QED BY <2>2, <3>1
  <2>5. child[c].pc \in MailboxStates => Issued(c) = {child[c].req}
    <3>1. child[c].pc \notin {"IDLE", "SHUTDOWN"}
      BY SMTT(30), <2>1 DEF TypeOK, Processes
    <3> QED BY SMTT(30), <2>1, <2>3, <3>1 DEF Exchange, MailboxStates
  <2>6. mbox[c].state \in {"TASK_DONE", "CONTROL_DONE"} => Issued(c) = {mbox[c].req}
    BY SMTT(30), <2>1, <2>3 DEF Exchange
  <2> QED BY SMTT(30), <2>4, <2>5, <2>6
<1> QED BY <1>1, RegistryInvariant, PTL

\* A task answered without an error has run the callable that was registered
\* under its id when it was submitted (dispatch_process, _run_chip_main_loop,
\* _child_worker_loop, and the registrations that reuse ids in between).
THEOREM TasksRunTheirCallable == Spec => []RunsRegisteredCallable
<1>1. RegistryInv => RunsRegisteredCallable
  BY SMTT(30) DEF RegistryInv, Executed, RunsRegisteredCallable
<1> QED BY <1>1, RegistryInvariant, PTL

\* Between two calls of register and unregister every living child agrees with
\* the parent's registry, failed broadcasts included (broadcast_register_all,
\* broadcast_unregister_all, and the handlers of the children).
THEOREM RegistrationIsEverywhere == Spec => []RegisteredEverywhere
<1>1. RegistryInv => RegisteredEverywhere
  <2> SUFFICES ASSUME RegistryInv, upc = "idle" PROVE RegisteredEverywhere
    BY DEF RegisteredEverywhere
  <2>1. \A i \in Cids : ~Busy(i)
    BY DEF Busy
  <2>2. kind \in {"chip", "worker"}
    BY MailboxAssumption DEF RegistryInv, MailInv, TypeOK
  <2> QED BY SMTT(30), <2>1, <2>2 DEF RegistryInv, Stored, RegisteredEverywhere, Alive, Registered
<1> QED BY <1>1, RegistryInvariant, PTL
=============================================================================
