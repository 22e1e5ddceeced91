------------------------- MODULE RegistryInvariants -------------------------
(***************************************************************************)
(* The inductive invariant of mailboxes and registry, for the proofs of    *)
(* RegistryProofs, the types of the records it is about, and the handlers  *)
(* of the two loops of worker.py: what a child does with a request is what *)
(* Handled says.                                                           *)
(***************************************************************************)
EXTENDS CallableRegistry, TLAPS

Requests ==
    [cmd : {"none", "task", "memory", "prepare", "register", "unregister"},
     cid : Cids, blob : Callables]
Mails == [state : MailboxStates, req : Requests, error : {0, 1}, ran : Callables]
Jobs == [pc : {"idle", "queued", "signal", "poll"}, cid : Cids, target : Callables]
Commands ==
    [pc : {"idle", "want", "signal", "poll", "done"}, req : Requests, error : {0, 1}]
Processes ==
    [pc : {"none", "loop", "dead", "exited", "TASK_READY", "TASK_DONE", "CONTROL_REQUEST",
           "CONTROL_DONE"}, req : Requests]

Holders == {"free", "dispatch"} \cup Callers

TypeOK ==
    /\ mbox \in [Children -> Mails]
    /\ mu \in [Children -> Holders]
    /\ job \in [Children -> Jobs]
    /\ call \in [Callers -> [Children -> Commands]]
    /\ kind \in ChildKinds
    /\ child \in [Children -> Processes]
    /\ inherited \in [Children -> Tables]
    /\ prepared \in [Children -> SUBSET Cids]
    /\ table \in [Children -> Tables]
    /\ registry \in Tables
    /\ upc \in {"idle", "register", "unregister"}
    /\ target_cid \in Cids
    /\ rpc \in {"none", "fork", "init", "prewarm", "up", "shutdown", "reap", "closed"}
    /\ prewarm \in SUBSET (Cids \X Children)

\* Whoever stands between its write and its receive holds the mutex, the request
\* in the mailbox is its own, and what state word and child say is about it.
Exchange(c) ==
    /\ job[c].pc \in {"signal", "poll"} <=> mu[c] = "dispatch"
    /\ \A t \in Callers : call[t][c].pc \in {"signal", "poll"} <=> mu[c] = t
    /\ mu[c] = "dispatch" => mbox[c].req = TaskRequest(job[c].cid)
    /\ \A t \in Callers : mu[c] = t => mbox[c].req = call[t][c].req
    /\ mbox[c].state \in {"TASK_READY", "TASK_DONE"} => job[c].pc = "poll"
    /\ mbox[c].state \in {"CONTROL_REQUEST", "CONTROL_DONE"} =>
         \E t \in Callers : call[t][c].pc = "poll"
    /\ child[c].pc \in {"TASK_READY", "TASK_DONE"} =>
         mbox[c].state = "TASK_READY" /\ child[c].req = mbox[c].req
    /\ child[c].pc \in {"CONTROL_REQUEST", "CONTROL_DONE"} =>
         mbox[c].state = "CONTROL_REQUEST" /\ child[c].req = mbox[c].req

\* Before the engine is up and from close on nobody uses a mailbox; the user
\* thread has commands out only inside its call.
Quiet ==
    /\ upc = "idle" => \A c \in Children : call["user"][c].pc = "idle"
    /\ rpc \notin {"prewarm", "up"} =>
         /\ upc = "idle"
         /\ \A c \in Children : job[c].pc = "idle" /\ call["run"][c].pc = "idle"

MailInv == TypeOK /\ Quiet /\ \A c \in Children : Exchange(c)

\* What child c has for id i once a registration of i has reached it.
Holds(c, i) == IF kind = "chip" THEN Resolves(c, i) ELSE table[c][i]
Busy(i) == upc # "idle" /\ target_cid = i

\* What the threads of the parent ask for, and which ids they rely on.
Asked ==
    /\ upc = "register" => registry[target_cid] \in Chips
    /\ \A c \in Children : call["user"][c].pc # "idle" =>
         call["user"][c].req =
            [cmd |-> upc, cid |-> target_cid,
             blob |-> IF upc = "register" THEN registry[target_cid] ELSE NoCallable]
    /\ \A c \in Children : call["run"][c].pc # "idle" =>
         /\ kind = "chip"
         /\ call["run"][c].req.cmd = (IF rpc = "up" THEN "memory" ELSE "prepare")
         /\ \A d \in Children : call["run"][d].pc # "idle" => c = d
    /\ rpc = "prewarm" => upc = "idle" /\ kind = "chip" /\ \A c \in Children : job[c].pc = "idle"
    /\ \A c \in Children : job[c].pc # "idle" =>
         /\ job[c].target \in Submittable /\ job[c].target = registry[job[c].cid]
         /\ ~Busy(job[c].cid)

\* Before the engine is up the children have nothing of their own.
Fresh ==
    /\ rpc \in {"none", "fork", "init"} =>
         \A c \in Children : prepared[c] = {} /\ table[c] = NoTable
    /\ rpc = "none" => \A c \in Children : child[c].pc = "none"

\* The user's command on child c has been carried out without an error.
Accepted(c) ==
    \/ call["user"][c].pc = "done" /\ call["user"][c].error = 0
    \/ /\ call["user"][c].pc = "poll" /\ mbox[c].error = 0
       /\ "CONTROL_DONE" \in {child[c].pc, mbox[c].state}

\* Every child that exists has the registered callables, but for the id that a
\* register or unregister under way is about.
Stored ==
    /\ \A c \in Children, i \in Cids : child[c].pc # "none" /\ ~Busy(i) =>
         /\ kind = "chip" /\ registry[i] \in Chips => Resolves(c, i) = registry[i]
         /\ registry[i] \in Fns => inherited[c][i] = registry[i]
    /\ \A i \in Registered : kind = "worker" /\ ~Busy(i) =>
         \/ \A c \in Children : child[c].pc # "none" => table[c][i] = NoCallable
         \/ \A c \in Children : child[c].pc # "none" => table[c][i] = registry[i]
    /\ upc = "register" => \A c \in Children :
         Accepted(c) => Holds(c, target_cid) = registry[target_cid]

\* A task that is done without an error has run its callable.
Executed(c) ==
    "TASK_DONE" \in {child[c].pc, mbox[c].state} /\ mbox[c].error = 0 =>
        mbox[c].ran = job[c].target

RegistryInv ==
    MailInv /\ Asked /\ Fresh /\ Stored /\ \A c \in Children : Executed(c)

-----------------------------------------------------------------------------
\* Facts about the helpers.

LEMMA NoRequestType == NoRequest \in Requests
BY MailboxAssumption DEF NoRequest, Requests, Cids, Callables

LEMMA TaskRequestType == ASSUME NEW i \in Cids PROVE TaskRequest(i) \in Requests
BY Zenon, NoRequestType DEF TaskRequest, NoRequest, Requests

LEMMA RecordTypes ==
    /\ NoMail \in Mails /\ NoDispatch \in Jobs /\ NoCall \in Commands /\ NoChild \in Processes
    /\ NoTable \in Tables
BY NoRequestType, MailboxAssumption
   DEF NoMail, Mails, NoDispatch, Jobs, NoCall, Commands, NoChild, Processes, NoTable, Tables,
       MailboxStates, Cids, Callables

LEMMA WantedType ==
    ASSUME NEW r \in Requests
    PROVE  Wanted(r) \in Commands /\ Wanted(r).pc = "want" /\ Wanted(r).req = r
BY Zenon DEF Wanted, NoCall, Commands

\* The request a child works on is the one its asker waits for.
LEMMA Served ==
    ASSUME RegistryInv, NEW c \in Children
    PROVE  /\ child[c].pc \in {"TASK_READY", "TASK_DONE"} =>
                job[c].pc = "poll" /\ child[c].req.cid = job[c].cid
           /\ child[c].pc \in {"CONTROL_REQUEST", "CONTROL_DONE"} =>
                \/ /\ call["user"][c].pc = "poll" /\ upc = child[c].req.cmd
                   /\ upc # "idle" /\ target_cid = child[c].req.cid
                   /\ upc = "register" => child[c].req.blob = registry[target_cid]
                \/ /\ call["run"][c].pc = "poll" /\ kind = "chip"
                   /\ child[c].req.cmd \in {"memory", "prepare"}
<1>1. Exchange(c) /\ TypeOK /\ Quiet /\ Asked
  BY Zenon DEF RegistryInv, MailInv
<1>2. ASSUME child[c].pc \in {"TASK_READY", "TASK_DONE"}
      PROVE  job[c].pc = "poll" /\ child[c].req.cid = job[c].cid
  <2>1. job[c].pc = "poll" /\ child[c].req = TaskRequest(job[c].cid)
    BY Zenon, <1>1, <1>2 DEF Exchange
  <2>2. ASSUME NEW i PROVE TaskRequest(i).cid = i
    BY Zenon DEF TaskRequest, NoRequest
  <2> QED BY Zenon, <2>1, <2>2
<1>3. ASSUME child[c].pc \in {"CONTROL_REQUEST", "CONTROL_DONE"}
      PROVE  \/ /\ call["user"][c].pc = "poll" /\ upc = child[c].req.cmd
                /\ upc # "idle" /\ target_cid = child[c].req.cid
                /\ upc = "register" => child[c].req.blob = registry[target_cid]
             \/ /\ call["run"][c].pc = "poll" /\ kind = "chip"
                /\ child[c].req.cmd \in {"memory", "prepare"}
  <2>1. PICK t \in Callers : call[t][c].pc = "poll" /\ child[c].req = call[t][c].req
    BY Zenon, <1>1, <1>3 DEF Exchange
  <2>2. CASE t = "user"
    BY <1>1, <2>1, <2>2 DEF Asked, Quiet
  <2>3. CASE t = "run"
    BY <1>1, <2>1, <2>3 DEF Asked
  <2> QED BY Zenon, <2>2, <2>3 DEF Callers
<1> QED BY Zenon, <1>2, <1>3
-----------------------------------------------------------------------------
\* Frames: what each part of the invariant depends on.

LEMMA ExchangeFrame ==
    ASSUME NEW c, Exchange(c), mbox'[c] = mbox[c], mu'[c] = mu[c], job'[c] = job[c],
           child'[c] = child[c], \A t \in Callers : call'[t][c] = call[t][c]
    PROVE  Exchange(c)'
BY DEF Exchange

LEMMA ExchangeCallFrame ==
    ASSUME NEW c, Exchange(c), mbox'[c] = mbox[c], mu'[c] = mu[c], job'[c] = job[c],
           child'[c] = child[c],
           \A t \in Callers :
               \/ call'[t][c] = call[t][c]
               \/ /\ call[t][c].pc \notin {"signal", "poll"}
                  /\ call'[t][c].pc \notin {"signal", "poll"}
    PROVE  Exchange(c)'
<1>1. \A t \in Callers : /\ call'[t][c].pc \in {"signal", "poll"} <=> mu'[c] = t
                         /\ mu'[c] = t => mbox'[c].req = call'[t][c].req
  BY DEF Exchange
<1>2. \A t \in Callers : call'[t][c].pc = "poll" <=> call[t][c].pc = "poll"
  BY Zenon
<1> QED BY Zenon, <1>1, <1>2 DEF Exchange

\* A mailbox nobody uses.
LEMMA RestExchange ==
    ASSUME NEW c, mu'[c] \notin {"dispatch"} \cup Callers, job'[c].pc \notin {"signal", "poll"},
           \A t \in Callers : call'[t][c].pc \notin {"signal", "poll"},
           mbox'[c].state \in {"IDLE", "SHUTDOWN"},
           child'[c].pc \notin {"TASK_READY", "TASK_DONE", "CONTROL_REQUEST", "CONTROL_DONE"}
    PROVE  Exchange(c)'
BY Zenon DEF Exchange

LEMMA QuietFrame == ASSUME Quiet, UNCHANGED <<upc, rpc, job, call>> PROVE Quiet'
BY Zenon DEF Quiet

LEMMA AskedFrame ==
    ASSUME Asked, UNCHANGED <<job, kind, registry, upc, target_cid, rpc>>,
           \A t \in Callers, c \in Children : call'[t][c].pc # "idle" =>
               call[t][c].pc # "idle" /\ call'[t][c].req = call[t][c].req
    PROVE  Asked'
BY DEF Asked, Busy, Submittable, Callers

LEMMA RunAsked ==
    ASSUME Asked, UNCHANGED <<job, kind, registry, upc, target_cid>>, rpc \in {"prewarm", "up"},
           rpc' = "prewarm" => rpc = "prewarm", NEW c \in Children,
           \A d \in Children : call'["user"][d] = call["user"][d],
           \A d \in Children : call'["run"][d].pc # "idle" =>
             /\ d = c /\ kind = "chip"
             /\ call'["run"][d].req.cmd = (IF rpc' = "up" THEN "memory" ELSE "prepare")
    PROVE  Asked'
<1>1. /\ upc' = "register" => registry'[target_cid'] \in Chips
      /\ rpc' = "prewarm" => upc' = "idle" /\ kind' = "chip" /\ \A d \in Children : job'[d].pc = "idle"
  BY Zenon DEF Asked
<1>2. \A d \in Children : call'["user"][d].pc # "idle" =>
        call'["user"][d].req =
            [cmd |-> upc', cid |-> target_cid',
             blob |-> IF upc' = "register" THEN registry'[target_cid'] ELSE NoCallable]
  BY DEF Asked
<1>3. \A d \in Children : job'[d].pc # "idle" =>
        /\ job'[d].target \in Submittable' /\ job'[d].target = registry'[job'[d].cid]
        /\ ~(upc' # "idle" /\ target_cid' = job'[d].cid)
  BY Zenon DEF Asked, Busy, Submittable
<1> QED BY <1>1, <1>2, <1>3 DEF Asked, Busy

LEMMA JobAsked ==
    ASSUME Asked, UNCHANGED <<call, kind, registry, upc, target_cid, rpc>>, rpc # "prewarm",
           \A c \in Children : job'[c].pc # "idle" =>
             /\ job'[c].target \in Submittable /\ job'[c].target = registry[job'[c].cid]
             /\ ~Busy(job'[c].cid)
    PROVE  Asked'
<1>1. \A c \in Children : job'[c].pc # "idle" =>
        /\ job'[c].target \in Submittable' /\ job'[c].target = registry'[job'[c].cid]
        /\ ~(upc' # "idle" /\ target_cid' = job'[c].cid)
  BY Zenon DEF Busy, Submittable
<1> QED BY <1>1 DEF Asked, Busy

LEMMA FreshFrame ==
    ASSUME Fresh, UNCHANGED <<prepared, table, rpc>>,
           \A c \in Children : child'[c].pc = "none" <=> child[c].pc = "none"
    PROVE  Fresh'
BY Zenon DEF Fresh

LEMMA StoredFrame ==
    ASSUME Stored, UNCHANGED <<kind, inherited, prepared, table, registry, upc, target_cid>>,
           \A c \in Children : child'[c].pc = "none" <=> child[c].pc = "none",
           upc = "register" => \A c \in Children : Accepted(c)' => Accepted(c)
    PROVE  Stored'
BY DEF Stored, Busy, Registered, Resolves, Holds

LEMMA ExecutedFrame ==
    ASSUME NEW c, Executed(c), mbox'[c] = mbox[c], child'[c] = child[c], job'[c] = job[c]
    PROVE  Executed(c)'
BY Zenon DEF Executed

LEMMA ExchangesFrame ==
    ASSUME MailInv, UNCHANGED <<mbox, mu, job, call, child>>
    PROVE  \A c \in Children : Exchange(c)'
<1>1. ASSUME NEW c \in Children PROVE Exchange(c)'
  BY Zenon, ExchangeFrame DEF MailInv
<1> QED BY Zenon, <1>1

\* While nobody uses a mailbox nothing is asked for, and children that do not
\* exist have nothing.
LEMMA QuietAsked == ASSUME Quiet', rpc' \notin {"prewarm", "up"} PROVE Asked'
BY Zenon DEF Quiet, Asked

LEMMA UnforkedStored ==
    ASSUME Quiet', rpc' = "none", Fresh' PROVE Stored'
<1>1. upc' = "idle" /\ \A c \in Children : child'[c].pc = "none"
  BY Zenon DEF Quiet, Fresh
<1> QED BY Zenon, <1>1 DEF Stored

\* One entry of a variable changes.
MboxChanges(c, m) ==
    /\ mbox' \in [Children -> Mails] /\ mbox'[c] = m
    /\ \A d \in Children \ {c} : mbox'[d] = mbox[d]
MuChanges(c, w) ==
    /\ mu' \in [Children -> Holders] /\ mu'[c] = w
    /\ \A d \in Children \ {c} : mu'[d] = mu[d]
JobChanges(c, j) ==
    /\ job' \in [Children -> Jobs] /\ job'[c] = j
    /\ \A d \in Children \ {c} : job'[d] = job[d]
CallChanges(t, c, x) ==
    /\ call' \in [Callers -> [Children -> Commands]] /\ call'[t][c] = x
    /\ \A u \in Callers, d \in Children : u # t \/ d # c => call'[u][d] = call[u][d]
ChildChanges(c, p) ==
    /\ child' \in [Children -> Processes] /\ child'[c] = p
    /\ \A d \in Children \ {c} : child'[d] = child[d]

LEMMA MboxUpdate ==
    ASSUME TypeOK, NEW c \in Children, NEW m \in Mails, mbox' = [mbox EXCEPT ![c] = m]
    PROVE  MboxChanges(c, m)
BY Zenon DEF TypeOK, MboxChanges

LEMMA MuUpdate ==
    ASSUME TypeOK, NEW c \in Children, NEW w \in Holders, mu' = [mu EXCEPT ![c] = w]
    PROVE  MuChanges(c, w)
BY Zenon DEF TypeOK, MuChanges

LEMMA JobUpdate ==
    ASSUME TypeOK, NEW c \in Children, NEW j \in Jobs, job' = [job EXCEPT ![c] = j]
    PROVE  JobChanges(c, j)
BY Zenon DEF TypeOK, JobChanges

LEMMA CallUpdate ==
    ASSUME TypeOK, NEW t \in Callers, NEW c \in Children, NEW x \in Commands,
           call' = [call EXCEPT ![t][c] = x]
    PROVE  CallChanges(t, c, x)
BY Zenon DEF TypeOK, CallChanges

LEMMA ChildUpdate ==
    ASSUME TypeOK, NEW c \in Children, NEW p \in Processes, child' = [child EXCEPT ![c] = p]
    PROVE  ChildChanges(c, p)
BY Zenon DEF TypeOK, ChildChanges

-----------------------------------------------------------------------------
\* What every handler does: it answers, touches only the id it was asked about,
\* runs what the id resolves to, and stores the callable it was sent.
Handled(c) ==
    LET i == child[c].req.cid
    IN  /\ child[c].pc \in {"TASK_READY", "CONTROL_REQUEST"}
        /\ \E error \in {0, 1}, ran \in Callables : Answer(c, error, ran)
        /\ table' \in [Children -> Tables] /\ prepared' \in [Children -> SUBSET Cids]
        /\ \A d \in Children \ {c} : table'[d] = table[d] /\ prepared'[d] = prepared[d]
        /\ \A j \in Cids \ {i} :
             table'[c][j] = table[c][j] /\ (j \in prepared'[c] <=> j \in prepared[c])
        /\ child[c].pc = "TASK_READY" \/ child[c].req.cmd \in {"memory", "prepare"} =>
             /\ kind = "chip" => Resolves(c, i)' = Resolves(c, i)
             /\ kind = "worker" => table'[c][i] = table[c][i]
        /\ child[c].pc = "TASK_READY" /\ mbox'[c].error = 0 =>
             IF kind = "chip" THEN mbox'[c].ran = Resolves(c, i)
                              ELSE mbox'[c].ran = inherited[c][i] /\ inherited[c][i] \in Fns
        /\ Serves(c, "register") /\ mbox'[c].error = 0 => Holds(c, i)' = child[c].req.blob

\* The answer that Answer(c, error, ran) leaves in the mailbox.
LEMMA Answered ==
    ASSUME TypeOK, NEW c \in Children, NEW error \in {0, 1}, NEW ran \in Callables,
           Answer(c, error, ran)
    PROVE  /\ mbox'[c].error = error /\ mbox'[c].ran = ran /\ child'[c].req = child[c].req
           /\ UNCHANGED <<kind, inherited>>
<1> DEFINE m == [mbox[c] EXCEPT !.error = error, !.ran = ran]
<1>1. mbox' = [mbox EXCEPT ![c] = m] /\ mbox[c] \in Mails
  BY Zenon DEF Answer, TypeOK
<1>2. m.error = error /\ m.ran = ran
  BY Zenon, <1>1 DEF Mails
<1> HIDE DEF m
<1>3. child'[c].req = child[c].req
  BY Zenon DEF Answer, TypeOK, Processes
<1> QED BY Zenon, <1>1, <1>2, <1>3 DEF TypeOK, Answer

LEMMA HandlerTypes ==
    ASSUME RegistryInv, NEW c \in Children
    PROVE  /\ child[c].req.cid \in Cids /\ child[c].req.blob \in Callables
           /\ table[c] \in Tables /\ inherited[c] \in Tables /\ prepared[c] \in SUBSET Cids
           /\ NoCallable \in Callables /\ Fns \subseteq Callables
           /\ \A i \in Cids : table[c][i] \in Callables /\ inherited[c][i] \in Callables
           /\ kind \in {"chip", "worker"}
<1>1. TypeOK /\ child[c] \in Processes
  BY Zenon DEF RegistryInv, MailInv, TypeOK
<1>2. child[c].req \in Requests
  BY Zenon, <1>1 DEF Processes
<1> QED BY <1>1, <1>2, MailboxAssumption DEF TypeOK, Requests, Tables, Callables

LEMMA ChipTaskHandled ==
    ASSUME RegistryInv, NEW c \in Children, ChipTask(c) PROVE Handled(c)
<1> DEFINE i == child[c].req.cid
<1>1. TypeOK /\ kind = "chip" /\ child[c].pc = "TASK_READY" /\ i \in Cids
  BY Zenon, HandlerTypes DEF RegistryInv, MailInv, ChipTask
<1>2. CASE Answer(c, 1, NoCallable) /\ UNCHANGED <<prepared, table>>
  <2>1. mbox'[c].error = 1 /\ child'[c].req = child[c].req /\ UNCHANGED <<kind, inherited>>
    BY Zenon, <1>1, <1>2, Answered, HandlerTypes
  <2> QED BY <1>1, <1>2, <2>1, HandlerTypes DEF Handled, TypeOK, Resolves, Serves
<1>3. CASE /\ EnsurePrepared(c, i)
           /\ \/ Answer(c, 1, NoCallable)
              \/ Answer(c, 0, AfterPrepare(c, i))
  <2>1. AfterPrepare(c, i) \in Callables /\ AfterPrepare(c, i) = Resolves(c, i)
    BY Zenon, <1>1, HandlerTypes DEF AfterPrepare, Resolves
  <2>2. PICK error \in {0, 1}, ran \in Callables :
          Answer(c, error, ran) /\ (error = 0 => ran = Resolves(c, i))
    BY <1>3, <2>1, HandlerTypes
  <2>3. /\ mbox'[c].error = error /\ mbox'[c].ran = ran
        /\ child'[c].req = child[c].req /\ UNCHANGED <<kind, inherited>>
    BY SMTT(30), <1>1, <2>2, Answered
  <2>4. /\ table' \in [Children -> Tables] /\ prepared' \in [Children -> SUBSET Cids]
        /\ \A d \in Children \ {c} : table'[d] = table[d] /\ prepared'[d] = prepared[d]
        /\ \A j \in Cids \ {i} : table'[c][j] = table[c][j]
        /\ table'[c][i] = Resolves(c, i) /\ prepared'[c] = prepared[c] \cup {i}
    BY SMTT(30), <1>1, <1>3, <2>1, HandlerTypes DEF EnsurePrepared, TypeOK, Tables
  <2>5. Resolves(c, i)' = Resolves(c, i)
    BY Zenon, <2>3, <2>4 DEF Resolves
  <2> QED BY Zenon, <1>1, <2>2, <2>3, <2>4, <2>5, HandlerTypes DEF Handled, Serves
<1> QED BY Zenon, <1>2, <1>3 DEF ChipTask

LEMMA ChipPrepareHandled ==
    ASSUME RegistryInv, NEW c \in Children, ChipPrepare(c) PROVE Handled(c)
<1> DEFINE i == child[c].req.cid
<1>1. /\ TypeOK /\ child[c].pc = "CONTROL_REQUEST" /\ child[c].req.cmd = "prepare"
      /\ i \in Cids
  BY Zenon, HandlerTypes DEF RegistryInv, MailInv, ChipPrepare, Serves
<1>2. kind = "chip"
  BY SMTT(30), <1>1, Served DEF TypeOK
<1>3. CASE Answer(c, 1, NoCallable) /\ UNCHANGED <<prepared, table>>
  <2>1. mbox'[c].error = 1 /\ child'[c].req = child[c].req /\ UNCHANGED <<kind, inherited>>
    BY SMTT(30), <1>1, <1>3, Answered, HandlerTypes
  <2> QED BY SMTT(30), <1>1, <1>2, <1>3, <2>1, HandlerTypes DEF Handled, TypeOK, Resolves, Serves
<1>4. CASE EnsurePrepared(c, i) /\ Answer(c, 0, NoCallable)
  <2>1. AfterPrepare(c, i) \in Callables /\ AfterPrepare(c, i) = Resolves(c, i)
    BY Zenon, <1>1, HandlerTypes DEF AfterPrepare, Resolves
  <2>2. child'[c].req = child[c].req /\ UNCHANGED <<kind, inherited>>
    BY SMTT(30), <1>1, <1>4, Answered, HandlerTypes
  <2>3. /\ table' \in [Children -> Tables] /\ prepared' \in [Children -> SUBSET Cids]
        /\ \A d \in Children \ {c} : table'[d] = table[d] /\ prepared'[d] = prepared[d]
        /\ \A j \in Cids \ {i} : table'[c][j] = table[c][j]
        /\ table'[c][i] = Resolves(c, i) /\ prepared'[c] = prepared[c] \cup {i}
    BY SMTT(30), <1>1, <1>4, <2>1, HandlerTypes DEF EnsurePrepared, TypeOK, Tables
  <2>4. Resolves(c, i)' = Resolves(c, i)
    BY SMTT(30), <2>2, <2>3 DEF Resolves
  <2> QED BY SMTT(30), <1>1, <1>2, <1>4, <2>3, <2>4, HandlerTypes DEF Handled, Serves
<1> QED BY Zenon, <1>3, <1>4 DEF ChipPrepare

LEMMA ChipMemoryHandled ==
    ASSUME RegistryInv, NEW c \in Children, ChipMemory(c) PROVE Handled(c)
<1>1. TypeOK /\ child[c].pc = "CONTROL_REQUEST" /\ child[c].req.cmd = "memory"
  BY Zenon DEF RegistryInv, MailInv, ChipMemory, Serves
<1>2. PICK error \in {0, 1} : Answer(c, error, NoCallable)
  BY Zenon DEF ChipMemory
<1>3. child'[c].req = child[c].req /\ UNCHANGED <<kind, inherited, prepared, table>>
  BY SMTT(30), <1>1, <1>2, Answered, HandlerTypes DEF ChipMemory
<1> QED BY Zenon, <1>1, <1>2, <1>3, HandlerTypes DEF Handled, TypeOK, Resolves, Serves

LEMMA ChipRegisterHandled ==
    ASSUME RegistryInv, NEW c \in Children, ChipRegister(c) PROVE Handled(c)
<1> DEFINE i == child[c].req.cid
           healed == IF i \in prepared[c] THEN NoCallable ELSE table[c][i]
<1>1. /\ TypeOK /\ child[c].pc = "CONTROL_REQUEST" /\ child[c].req.cmd = "register"
      /\ kind = "chip" /\ i \in Cids /\ healed \in Callables
  BY SMTT(30), HandlerTypes DEF RegistryInv, MailInv, ChipRegister, Serves
<1>2. CASE /\ table' = [table EXCEPT ![c][i] = healed]
           /\ prepared' = [prepared EXCEPT ![c] = @ \ {i}]
           /\ Answer(c, 1, NoCallable)
  <2> HIDE DEF healed
  <2>1. mbox'[c].error = 1 /\ child'[c].req = child[c].req /\ UNCHANGED <<kind, inherited>>
    BY Zenon, <1>1, <1>2, Answered, HandlerTypes
  <2>2. /\ table' \in [Children -> Tables] /\ prepared' \in [Children -> SUBSET Cids]
        /\ \A d \in Children \ {c} : table'[d] = table[d] /\ prepared'[d] = prepared[d]
        /\ \A j \in Cids \ {i} :
             table'[c][j] = table[c][j] /\ (j \in prepared'[c] <=> j \in prepared[c])
    BY SMTT(30), <1>1, <1>2, HandlerTypes DEF TypeOK, Tables
  <2> QED BY <1>1, <1>2, <2>1, <2>2, HandlerTypes DEF Handled, Serves
<1>3. CASE /\ table' = [table EXCEPT ![c][i] = child[c].req.blob]
           /\ prepared' = [prepared EXCEPT ![c] = @ \cup {i}]
           /\ Answer(c, 0, NoCallable)
  <2>1. child'[c].req = child[c].req /\ UNCHANGED <<kind, inherited>>
    BY SMTT(30), <1>1, <1>3, Answered, HandlerTypes
  <2>2. /\ table' \in [Children -> Tables] /\ prepared' \in [Children -> SUBSET Cids]
        /\ \A d \in Children \ {c} : table'[d] = table[d] /\ prepared'[d] = prepared[d]
        /\ \A j \in Cids \ {i} :
             table'[c][j] = table[c][j] /\ (j \in prepared'[c] <=> j \in prepared[c])
        /\ table'[c][i] = child[c].req.blob /\ i \in prepared'[c]
    BY <1>1, <1>3, HandlerTypes DEF TypeOK, Tables
  <2>3. Holds(c, i)' = child[c].req.blob
    BY SMTT(30), <1>1, <2>1, <2>2 DEF Holds, Resolves
  <2> QED BY Zenon, <1>1, <1>3, <2>2, <2>3, HandlerTypes DEF Handled, Serves
<1> QED BY Zenon, <1>2, <1>3 DEF ChipRegister

LEMMA ChipUnregisterHandled ==
    ASSUME RegistryInv, NEW c \in Children, ChipUnregister(c) PROVE Handled(c)
<1> DEFINE i == child[c].req.cid
<1>1. /\ TypeOK /\ child[c].pc = "CONTROL_REQUEST" /\ child[c].req.cmd = "unregister"
      /\ i \in Cids
  BY Zenon, HandlerTypes DEF RegistryInv, MailInv, ChipUnregister, Serves
<1>2. /\ \E error \in {0, 1} : Answer(c, error, NoCallable)
      /\ prepared' = prepared \/ prepared' = [prepared EXCEPT ![c] = @ \ {i}]
      /\ table' = [table EXCEPT ![c][i] = NoCallable]
  BY Zenon DEF ChipUnregister
<1>3. /\ table' \in [Children -> Tables] /\ prepared' \in [Children -> SUBSET Cids]
      /\ \A d \in Children \ {c} : table'[d] = table[d] /\ prepared'[d] = prepared[d]
      /\ \A j \in Cids \ {i} :
           table'[c][j] = table[c][j] /\ (j \in prepared'[c] <=> j \in prepared[c])
  <2>1. /\ table' \in [Children -> Tables]
        /\ \A d \in Children \ {c} : table'[d] = table[d]
        /\ \A j \in Cids \ {i} : table'[c][j] = table[c][j]
    BY <1>1, <1>2, HandlerTypes DEF TypeOK, Tables
  <2>2. /\ prepared' \in [Children -> SUBSET Cids]
        /\ \A d \in Children \ {c} : prepared'[d] = prepared[d]
        /\ \A j \in Cids \ {i} : j \in prepared'[c] <=> j \in prepared[c]
    BY SMTT(30), <1>1, <1>2 DEF TypeOK
  <2> QED BY Zenon, <2>1, <2>2
<1> QED BY Zenon, <1>1, <1>2, <1>3, HandlerTypes DEF Handled, Serves

LEMMA WorkerTaskHandled ==
    ASSUME RegistryInv, NEW c \in Children, WorkerTask(c) PROVE Handled(c)
<1> DEFINE fn == inherited[c][child[c].req.cid]
<1>1. TypeOK /\ child[c].pc = "TASK_READY" /\ kind = "worker"
  BY Zenon DEF RegistryInv, MailInv, WorkerTask
<1>2. PICK error \in {0, 1}, ran \in Callables :
        Answer(c, error, ran) /\ (error = 0 => ran = fn /\ fn \in Fns)
  BY HandlerTypes DEF WorkerTask
<1>3. /\ mbox'[c].error = error /\ mbox'[c].ran = ran
      /\ child'[c].req = child[c].req /\ UNCHANGED <<kind, inherited, prepared, table>>
  BY SMTT(30), <1>1, <1>2, Answered DEF WorkerTask
<1> QED BY SMTT(30), <1>1, <1>2, <1>3, HandlerTypes DEF Handled, TypeOK, Serves

LEMMA WorkerRegisterHandled ==
    ASSUME RegistryInv, NEW c \in Children, WorkerRegister(c) PROVE Handled(c)
<1> DEFINE i == child[c].req.cid
<1>1. /\ TypeOK /\ child[c].pc = "CONTROL_REQUEST" /\ child[c].req.cmd = "register"
      /\ kind = "worker" /\ i \in Cids /\ UNCHANGED prepared
  BY Zenon, HandlerTypes DEF RegistryInv, MailInv, WorkerRegister, Serves
<1>2. PICK error \in {0, 1} :
        /\ Answer(c, error, NoCallable)
        /\ \/ error = 1 /\ UNCHANGED table
           \/ error = 0 /\ table' = [table EXCEPT ![c][i] = child[c].req.blob]
  BY Zenon DEF WorkerRegister
<1>3. /\ mbox'[c].error = error /\ child'[c].req = child[c].req /\ UNCHANGED <<kind, inherited>>
  BY SMTT(30), <1>1, <1>2, Answered, HandlerTypes
<1>4. /\ table' \in [Children -> Tables]
      /\ \A d \in Children \ {c} : table'[d] = table[d]
      /\ \A j \in Cids \ {i} : table'[c][j] = table[c][j]
      /\ error = 0 => table'[c][i] = child[c].req.blob
  <2>1. CASE error = 1 /\ UNCHANGED table
    BY <1>1, <2>1 DEF TypeOK
  <2>2. CASE error = 0 /\ table' = [table EXCEPT ![c][i] = child[c].req.blob]
    BY SMTT(30), <1>1, <2>2, HandlerTypes DEF TypeOK, Tables
  <2> QED BY Zenon, <1>2, <2>1, <2>2
<1> QED BY Zenon, <1>1, <1>2, <1>3, <1>4, HandlerTypes DEF Handled, TypeOK, Serves, Holds

LEMMA WorkerUnregisterHandled ==
    ASSUME RegistryInv, NEW c \in Children, WorkerUnregister(c) PROVE Handled(c)
<1> DEFINE i == child[c].req.cid
<1>1. /\ TypeOK /\ child[c].pc = "CONTROL_REQUEST" /\ child[c].req.cmd = "unregister"
      /\ i \in Cids /\ UNCHANGED prepared /\ table' = [table EXCEPT ![c][i] = NoCallable]
  BY Zenon, HandlerTypes DEF RegistryInv, MailInv, WorkerUnregister, Serves
<1>2. \E error \in {0, 1} : Answer(c, error, NoCallable)
  BY Zenon DEF WorkerUnregister
<1>3. /\ table' \in [Children -> Tables]
      /\ \A d \in Children \ {c} : table'[d] = table[d]
      /\ \A j \in Cids \ {i} : table'[c][j] = table[c][j]
  BY Zenon, <1>1, HandlerTypes DEF TypeOK, Tables
<1> QED BY Zenon, <1>1, <1>2, <1>3, HandlerTypes DEF Handled, TypeOK, Serves
-----------------------------------------------------------------------------
(***************************************************************************)
(* The two sides of a round trip keep the invariant: dispatch_process and  *)
(* run_control_command on the parent's, the handlers, the loop around them *)
(* and the death of a child on the child's.                                *)
(***************************************************************************)
\* A step of the WorkerThread of c, or of caller t on c, changes nothing of the
\* other mailboxes.
DispatchFrame(c) ==
    /\ mbox' \in [Children -> Mails] /\ mu' \in [Children -> Holders]
    /\ job' \in [Children -> Jobs]
    /\ \A d \in Children \ {c} : mbox'[d] = mbox[d] /\ mu'[d] = mu[d] /\ job'[d] = job[d]
    /\ UNCHANGED <<call, kind, child, inherited, prepared, table>>

ControlFrame(t, c) ==
    /\ mbox' \in [Children -> Mails] /\ mu' \in [Children -> Holders]
    /\ call' \in [Callers -> [Children -> Commands]]
    /\ \A d \in Children \ {c} : mbox'[d] = mbox[d] /\ mu'[d] = mu[d]
    /\ \A u \in Callers, d \in Children : u # t \/ d # c => call'[u][d] = call[u][d]
    /\ UNCHANGED <<job, kind, child, inherited, prepared, table>>

LEMMA DispatchFrameInv ==
    ASSUME MailInv, NEW c \in Children, DispatchFrame(c), RegistryUnchanged,
           job[c].pc # "idle", Exchange(c)'
    PROVE  MailInv'
<1>1. TypeOK /\ Quiet /\ UNCHANGED <<registry, upc, target_cid, rpc, prewarm>>
  BY Zenon DEF MailInv, RegistryUnchanged, regVars
<1>2. TypeOK'
  BY Zenon, <1>1 DEF TypeOK, DispatchFrame
<1>3. Quiet'
  BY Zenon, <1>1 DEF Quiet, DispatchFrame
<1>4. ASSUME NEW d \in Children, d # c PROVE Exchange(d)'
  BY Zenon, <1>4, ExchangeFrame DEF MailInv, DispatchFrame
<1> QED BY Zenon, <1>2, <1>3, <1>4 DEF MailInv

LEMMA ControlFrameInv ==
    ASSUME MailInv, NEW t \in Callers, NEW c \in Children, ControlFrame(t, c),
           RegistryUnchanged, call[t][c].pc # "idle", Exchange(c)'
    PROVE  MailInv'
<1>1. TypeOK /\ Quiet /\ UNCHANGED <<registry, upc, target_cid, rpc, prewarm>>
  BY Zenon DEF MailInv, RegistryUnchanged, regVars
<1>2. TypeOK'
  BY Zenon, <1>1 DEF TypeOK, ControlFrame
<1>3. Quiet'
  BY Zenon, <1>1 DEF Quiet, ControlFrame, Callers
<1>4. ASSUME NEW d \in Children, d # c PROVE Exchange(d)'
  BY Zenon, <1>4, ExchangeFrame DEF MailInv, ControlFrame
<1> QED BY Zenon, <1>2, <1>3, <1>4 DEF MailInv

LEMMA DispatchWriteInv ==
    ASSUME MailInv, NEW c \in Children, DispatchWrite(c), RegistryUnchanged
    PROVE  MailInv' /\ DispatchFrame(c)
<1> DEFINE m == [mbox[c] EXCEPT !.error = 0, !.req = TaskRequest(job[c].cid)]
           j == [job[c] EXCEPT !.pc = "signal"]
<1>1. TypeOK /\ Exchange(c) /\ mbox[c] \in Mails /\ job[c] \in Jobs /\ job[c].pc = "queued"
  BY Zenon DEF MailInv, TypeOK, DispatchWrite
<1>2. TaskRequest(job[c].cid) \in Requests
  BY Zenon, <1>1, TaskRequestType DEF Jobs
<1>3. m \in Mails /\ m.req = TaskRequest(job[c].cid) /\ m.state = mbox[c].state
  BY Zenon, <1>1, <1>2 DEF Mails
<1>4. j \in Jobs /\ j.pc = "signal" /\ j.cid = job[c].cid
  BY Zenon, <1>1 DEF Jobs
<1>5. /\ mbox' = [mbox EXCEPT ![c] = m] /\ job' = [job EXCEPT ![c] = j]
      /\ mu' = [mu EXCEPT ![c] = "dispatch"] /\ mu[c] = "free" /\ "dispatch" \in Holders
      /\ UNCHANGED <<call, kind, child, inherited, prepared, table>>
  BY Zenon, <1>1 DEF DispatchWrite, TypeOK, Holders
<1> HIDE DEF m, j
<1>6. DispatchFrame(c) /\ mbox'[c] = m /\ job'[c] = j /\ mu'[c] = "dispatch"
  <2>1. MboxChanges(c, m)
    BY Zenon, <1>1, <1>3, <1>5, MboxUpdate
  <2>2. JobChanges(c, j)
    BY Zenon, <1>1, <1>4, <1>5, JobUpdate
  <2>3. MuChanges(c, "dispatch")
    BY Zenon, <1>1, <1>5, MuUpdate
  <2> QED BY Zenon, <1>5, <2>1, <2>2, <2>3 DEF DispatchFrame, MboxChanges, JobChanges, MuChanges
<1>7. Exchange(c)'
  BY Zenon, <1>1, <1>3, <1>4, <1>5, <1>6 DEF Exchange, Callers
<1> QED BY Zenon, <1>1, <1>6, <1>7, DispatchFrameInv

LEMMA DispatchSignalInv ==
    ASSUME MailInv, NEW c \in Children, DispatchSignal(c), RegistryUnchanged
    PROVE  MailInv' /\ DispatchFrame(c)
<1> DEFINE m == [mbox[c] EXCEPT !.state = "TASK_READY"]
           j == [job[c] EXCEPT !.pc = "poll"]
<1>1. TypeOK /\ Exchange(c) /\ mbox[c] \in Mails /\ job[c] \in Jobs /\ job[c].pc = "signal"
  BY Zenon DEF MailInv, TypeOK, DispatchSignal
<1>2. m \in Mails /\ m.req = mbox[c].req /\ m.state = "TASK_READY"
  BY Zenon, <1>1 DEF Mails, MailboxStates
<1>3. j \in Jobs /\ j.pc = "poll" /\ j.cid = job[c].cid
  BY Zenon, <1>1 DEF Jobs
<1>4. /\ mbox' = [mbox EXCEPT ![c] = m] /\ job' = [job EXCEPT ![c] = j]
      /\ mu' = mu /\ mu \in [Children -> Holders]
      /\ UNCHANGED <<call, kind, child, inherited, prepared, table>>
  BY Zenon, <1>1 DEF DispatchSignal, TypeOK
<1> HIDE DEF m, j
<1>5. DispatchFrame(c) /\ mbox'[c] = m /\ job'[c] = j
  <2>1. MboxChanges(c, m)
    BY Zenon, <1>1, <1>2, <1>4, MboxUpdate
  <2>2. JobChanges(c, j)
    BY Zenon, <1>1, <1>3, <1>4, JobUpdate
  <2> QED BY Zenon, <1>4, <2>1, <2>2 DEF DispatchFrame, MboxChanges, JobChanges
<1>6. Exchange(c)'
  BY Zenon, <1>1, <1>2, <1>3, <1>4, <1>5 DEF Exchange, Callers
<1> QED BY Zenon, <1>1, <1>5, <1>6, DispatchFrameInv

LEMMA DispatchTooLargeInv ==
    ASSUME MailInv, NEW c \in Children, DispatchTooLarge(c), RegistryUnchanged
    PROVE  MailInv' /\ DispatchFrame(c)
<1>1. TypeOK /\ Exchange(c) /\ job[c].pc = "signal" /\ mbox \in [Children -> Mails]
  BY Zenon DEF MailInv, TypeOK, DispatchTooLarge
<1>2. /\ job' = [job EXCEPT ![c] = NoDispatch] /\ mu' = [mu EXCEPT ![c] = "free"]
      /\ UNCHANGED <<mbox, call, kind, child, inherited, prepared, table>>
  BY Zenon DEF DispatchTooLarge
<1>3. NoDispatch \in Jobs /\ "free" \in Holders /\ NoDispatch.pc = "idle"
  BY Zenon, RecordTypes DEF Holders, NoDispatch
<1>4. DispatchFrame(c) /\ job'[c] = NoDispatch /\ mu'[c] = "free"
  <2>1. JobChanges(c, NoDispatch)
    BY Zenon, <1>1, <1>2, <1>3, JobUpdate
  <2>2. MuChanges(c, "free")
    BY Zenon, <1>1, <1>2, <1>3, MuUpdate
  <2> QED BY Zenon, <1>1, <1>2, <2>1, <2>2 DEF DispatchFrame, JobChanges, MuChanges
<1>5. Exchange(c)'
  BY Zenon, <1>1, <1>2, <1>3, <1>4 DEF Exchange, Callers
<1> QED BY Zenon, <1>1, <1>4, <1>5, DispatchFrameInv

LEMMA DispatchReceiveInv ==
    ASSUME MailInv, NEW c \in Children, DispatchReceive(c), RegistryUnchanged
    PROVE  MailInv' /\ DispatchFrame(c)
<1> DEFINE m == [mbox[c] EXCEPT !.state = "IDLE", !.ran = NoCallable]
<1>1. /\ TypeOK /\ Exchange(c) /\ mbox[c] \in Mails /\ job[c].pc = "poll"
      /\ mbox[c].state = "TASK_DONE"
  BY Zenon DEF MailInv, TypeOK, DispatchReceive
<1>2. m \in Mails /\ m.state = "IDLE"
  BY Zenon, <1>1 DEF Mails, MailboxStates, Callables
<1>3. /\ mbox' = [mbox EXCEPT ![c] = m] /\ job' = [job EXCEPT ![c] = NoDispatch]
      /\ mu' = [mu EXCEPT ![c] = "free"]
      /\ UNCHANGED <<call, kind, child, inherited, prepared, table>>
  BY Zenon, <1>1 DEF DispatchReceive, TypeOK
<1>4. NoDispatch \in Jobs /\ "free" \in Holders /\ NoDispatch.pc = "idle"
  BY Zenon, RecordTypes DEF Holders, NoDispatch
<1> HIDE DEF m
<1>5. DispatchFrame(c) /\ mbox'[c] = m /\ job'[c] = NoDispatch /\ mu'[c] = "free"
  <2>1. MboxChanges(c, m)
    BY Zenon, <1>1, <1>2, <1>3, MboxUpdate
  <2>2. JobChanges(c, NoDispatch)
    BY Zenon, <1>1, <1>3, <1>4, JobUpdate
  <2>3. MuChanges(c, "free")
    BY Zenon, <1>1, <1>3, <1>4, MuUpdate
  <2> QED BY Zenon, <1>3, <2>1, <2>2, <2>3 DEF DispatchFrame, MboxChanges, JobChanges, MuChanges
<1>6. Exchange(c)'
  BY Zenon, <1>1, <1>2, <1>3, <1>4, <1>5 DEF Exchange, Callers
<1> QED BY Zenon, <1>1, <1>5, <1>6, DispatchFrameInv

LEMMA ControlWriteInv ==
    ASSUME MailInv, NEW t \in Callers, NEW c \in Children, ControlWrite(t, c),
           RegistryUnchanged
    PROVE  /\ MailInv' /\ ControlFrame(t, c)
           /\ call'[t][c].pc = "signal" /\ call'[t][c].req = call[t][c].req
           /\ mbox'[c].state = mbox[c].state
<1> DEFINE m == [mbox[c] EXCEPT !.req = call[t][c].req]
           x == [call[t][c] EXCEPT !.pc = "signal"]
<1>1. /\ TypeOK /\ Exchange(c) /\ mbox[c] \in Mails /\ call[t][c] \in Commands
      /\ call[t][c].pc = "want" /\ mu[c] = "free"
  BY Zenon DEF MailInv, TypeOK, ControlWrite
<1>2. call[t][c].req \in Requests
  BY Zenon, <1>1 DEF Commands
<1>3. m \in Mails /\ m.req = call[t][c].req /\ m.state = mbox[c].state
  BY Zenon, <1>1, <1>2 DEF Mails
<1>4. x \in Commands /\ x.pc = "signal" /\ x.req = call[t][c].req
  BY Zenon, <1>1 DEF Commands
<1>5. /\ mbox' = [mbox EXCEPT ![c] = m] /\ call' = [call EXCEPT ![t][c] = x]
      /\ mu' = [mu EXCEPT ![c] = t] /\ t \in Holders
      /\ UNCHANGED <<job, kind, child, inherited, prepared, table>>
  BY Zenon, <1>1 DEF ControlWrite, TypeOK, Holders
<1> HIDE DEF m, x
<1>6. ControlFrame(t, c) /\ mbox'[c] = m /\ call'[t][c] = x /\ mu'[c] = t
  <2>1. MboxChanges(c, m)
    BY Zenon, <1>1, <1>3, <1>5, MboxUpdate
  <2>2. CallChanges(t, c, x)
    BY Zenon, <1>1, <1>4, <1>5, CallUpdate
  <2>3. MuChanges(c, t)
    BY Zenon, <1>1, <1>5, MuUpdate
  <2> QED BY Zenon, <1>5, <2>1, <2>2, <2>3 DEF ControlFrame, MboxChanges, CallChanges, MuChanges
<1>7. Exchange(c)'
  <2>1. \A u \in Callers : u # t => call'[u][c] = call[u][c]
    BY Zenon, <1>6 DEF ControlFrame
  <2> QED BY <1>1, <1>3, <1>4, <1>5, <1>6, <2>1 DEF Exchange, Callers
<1> QED BY Zenon, <1>1, <1>3, <1>4, <1>6, <1>7, ControlFrameInv

LEMMA ControlSignalInv ==
    ASSUME MailInv, NEW t \in Callers, NEW c \in Children, ControlSignal(t, c),
           RegistryUnchanged
    PROVE  /\ MailInv' /\ ControlFrame(t, c)
           /\ call'[t][c].pc = "poll" /\ call'[t][c].req = call[t][c].req
           /\ mbox'[c].state = "CONTROL_REQUEST"
<1> DEFINE m == [mbox[c] EXCEPT !.error = 0, !.state = "CONTROL_REQUEST"]
           x == [call[t][c] EXCEPT !.pc = "poll"]
<1>1. /\ TypeOK /\ Exchange(c) /\ mbox[c] \in Mails /\ call[t][c] \in Commands
      /\ call[t][c].pc = "signal"
  BY Zenon DEF MailInv, TypeOK, ControlSignal
<1>2. m \in Mails /\ m.req = mbox[c].req /\ m.state = "CONTROL_REQUEST"
  BY Zenon, <1>1 DEF Mails, MailboxStates
<1>3. x \in Commands /\ x.pc = "poll" /\ x.req = call[t][c].req
  BY Zenon, <1>1 DEF Commands
<1>4. /\ mbox' = [mbox EXCEPT ![c] = m] /\ call' = [call EXCEPT ![t][c] = x]
      /\ mu' = mu /\ mu \in [Children -> Holders]
      /\ UNCHANGED <<job, kind, child, inherited, prepared, table>>
  BY Zenon, <1>1 DEF ControlSignal, TypeOK
<1> HIDE DEF m, x
<1>5. ControlFrame(t, c) /\ mbox'[c] = m /\ call'[t][c] = x
  <2>1. MboxChanges(c, m)
    BY Zenon, <1>1, <1>2, <1>4, MboxUpdate
  <2>2. CallChanges(t, c, x)
    BY Zenon, <1>1, <1>3, <1>4, CallUpdate
  <2> QED BY Zenon, <1>4, <2>1, <2>2 DEF ControlFrame, MboxChanges, CallChanges
<1>6. Exchange(c)'
  <2>1. \A u \in Callers : u # t => call'[u][c] = call[u][c]
    BY Zenon, <1>5 DEF ControlFrame
  <2> QED BY <1>1, <1>2, <1>3, <1>4, <1>5, <2>1 DEF Exchange, Callers
<1> QED BY Zenon, <1>1, <1>2, <1>3, <1>5, <1>6, ControlFrameInv

LEMMA ControlReceiveInv ==
    ASSUME MailInv, NEW t \in Callers, NEW c \in Children, ControlReceive(t, c),
           RegistryUnchanged
    PROVE  /\ MailInv' /\ ControlFrame(t, c)
           /\ call'[t][c].pc = "done" /\ call'[t][c].req = call[t][c].req
           /\ call'[t][c].error = mbox[c].error /\ mbox'[c].state = "IDLE"
<1> DEFINE m == [mbox[c] EXCEPT !.state = "IDLE"]
           x == [call[t][c] EXCEPT !.pc = "done", !.error = mbox[c].error]
<1>1. /\ TypeOK /\ Exchange(c) /\ mbox[c] \in Mails /\ call[t][c] \in Commands
      /\ call[t][c].pc = "poll" /\ mbox[c].state = "CONTROL_DONE"
  BY Zenon DEF MailInv, TypeOK, ControlReceive
<1>2. m \in Mails /\ m.state = "IDLE"
  BY Zenon, <1>1 DEF Mails, MailboxStates
<1>3. x \in Commands /\ x.pc = "done" /\ x.req = call[t][c].req /\ x.error = mbox[c].error
  <2>1. mbox[c].error \in {0, 1}
    BY Zenon, <1>1 DEF Mails
  <2> QED BY Zenon, <1>1, <2>1 DEF Commands
<1>4. /\ mbox' = [mbox EXCEPT ![c] = m] /\ call' = [call EXCEPT ![t][c] = x]
      /\ mu' = [mu EXCEPT ![c] = "free"] /\ "free" \in Holders
      /\ UNCHANGED <<job, kind, child, inherited, prepared, table>>
  BY Zenon, <1>1 DEF ControlReceive, TypeOK, Holders
<1> HIDE DEF m, x
<1>5. ControlFrame(t, c) /\ mbox'[c] = m /\ call'[t][c] = x /\ mu'[c] = "free"
  <2>1. MboxChanges(c, m)
    BY Zenon, <1>1, <1>2, <1>4, MboxUpdate
  <2>2. CallChanges(t, c, x)
    BY Zenon, <1>1, <1>3, <1>4, CallUpdate
  <2>3. MuChanges(c, "free")
    BY Zenon, <1>1, <1>4, MuUpdate
  <2> QED BY Zenon, <1>4, <2>1, <2>2, <2>3 DEF ControlFrame, MboxChanges, CallChanges, MuChanges
<1>6. Exchange(c)'
  <2>1. \A u \in Callers : u # t => call'[u][c] = call[u][c]
    BY Zenon, <1>5 DEF ControlFrame
  <2> QED BY <1>1, <1>2, <1>3, <1>4, <1>5, <2>1 DEF Exchange, Callers
<1> QED BY Zenon, <1>1, <1>2, <1>3, <1>5, <1>6, ControlFrameInv

LEMMA DispatchStepInv ==
    ASSUME RegistryInv, NEW c \in Children, DispatchStep(c), RegistryUnchanged
    PROVE  RegistryInv'
<1>1. MailInv' /\ DispatchFrame(c)
  BY Zenon, DispatchWriteInv, DispatchSignalInv, DispatchTooLargeInv, DispatchReceiveInv
     DEF RegistryInv, DispatchStep
<1>2. /\ UNCHANGED <<call, child, kind, inherited, prepared, table>>
      /\ UNCHANGED <<registry, upc, target_cid, rpc>>
  BY Zenon, <1>1 DEF DispatchFrame, RegistryUnchanged, regVars
<1>3. TypeOK /\ Exchange(c) /\ Asked /\ Fresh /\ Stored
  BY Zenon DEF RegistryInv, MailInv
<1>4. ASSUME NEW d \in Children, d # c PROVE mbox'[d] = mbox[d] /\ job'[d] = job[d]
  BY Zenon, <1>1, <1>4 DEF DispatchFrame
<1>5. \/ job'[c].pc = "idle"
      \/ job[c].pc # "idle" /\ job'[c].cid = job[c].cid /\ job'[c].target = job[c].target
  <2>1. job[c] \in Jobs
    BY Zenon, <1>3 DEF TypeOK
  <2>2. CASE \E p \in {"signal", "poll"} :
                job' = [job EXCEPT ![c].pc = p] /\ job[c].pc # "idle"
    BY <1>3, <2>1, <2>2 DEF TypeOK, Jobs
  <2>3. CASE job' = [job EXCEPT ![c] = NoDispatch]
    BY Zenon, <1>3, <2>3 DEF TypeOK, NoDispatch
  <2> QED BY Zenon, <2>2, <2>3 DEF DispatchStep, DispatchWrite, DispatchSignal, DispatchTooLarge,
             DispatchReceive
<1>6. mu[c] \in {"free", "dispatch"}
  BY Zenon, <1>3 DEF DispatchStep, DispatchWrite, DispatchSignal, DispatchTooLarge, DispatchReceive,
     Exchange
<1>7. "TASK_DONE" \notin {child'[c].pc, mbox'[c].state}
  <2>1. job'[c].pc # "poll" => "TASK_DONE" \notin {child'[c].pc, mbox'[c].state}
    BY Zenon, <1>1 DEF MailInv, Exchange
  <2>2. job'[c].pc = "poll" => mbox'[c].state = "TASK_READY" /\ mbox[c].state # "TASK_READY"
    <3>1. job[c] \in Jobs /\ mbox[c] \in Mails
      BY Zenon, <1>3 DEF TypeOK
    <3>2. CASE DispatchSignal(c)
      BY Zenon, <1>3, <3>1, <3>2 DEF DispatchSignal, TypeOK, Mails, Exchange
    <3>3. CASE DispatchWrite(c)
      BY Zenon, <1>3, <3>1, <3>3 DEF DispatchWrite, TypeOK, Jobs
    <3>4. CASE job' = [job EXCEPT ![c] = NoDispatch]
      BY Zenon, <1>3, <3>4 DEF TypeOK, NoDispatch
    <3> QED BY Zenon, <3>2, <3>3, <3>4 DEF DispatchStep, DispatchTooLarge, DispatchReceive
  <2>3. mbox[c].state # "TASK_READY" => child[c].pc # "TASK_DONE"
    BY Zenon, <1>3 DEF Exchange
  <2> QED BY Zenon, <1>2, <2>1, <2>2, <2>3
<1>8. Asked'
  <2>1. \A d \in Children : job'[d].pc # "idle" =>
          /\ job[d].pc # "idle" /\ job'[d].cid = job[d].cid /\ job'[d].target = job[d].target
    BY Zenon, <1>4, <1>5
  <2> QED BY <1>2, <1>3, <2>1 DEF Asked, Busy, Submittable
<1>9. Fresh'
  BY Zenon, <1>2, <1>3, FreshFrame
<1>10. Stored'
  <2>1. ASSUME NEW d \in Children, Accepted(d)' PROVE Accepted(d)
    <3>1. CASE d = c
      <4>1. call["user"][c].pc # "poll"
        BY Zenon, <1>3, <1>6 DEF Exchange, Callers
      <4> QED BY Zenon, <2>1, <3>1, <4>1, <1>2 DEF Accepted
    <3>2. CASE d # c
      BY Zenon, <2>1, <3>2, <1>2, <1>4 DEF Accepted
    <3> QED BY Zenon, <3>1, <3>2
  <2> QED BY Zenon, <1>2, <1>3, <2>1, StoredFrame
<1>11. ASSUME NEW d \in Children PROVE Executed(d)'
  <2>1. CASE d = c
    BY Zenon, <1>7, <2>1 DEF Executed
  <2>2. CASE d # c
    BY Zenon, <1>2, <1>4, <2>2, ExecutedFrame DEF RegistryInv
  <2> QED BY Zenon, <2>1, <2>2
<1> QED BY Zenon, <1>1, <1>8, <1>9, <1>10, <1>11 DEF RegistryInv

LEMMA ControlStepInv ==
    ASSUME RegistryInv, NEW t \in Callers, NEW c \in Children, ControlStep(t, c),
           RegistryUnchanged
    PROVE  RegistryInv'
<1>1. MailInv' /\ ControlFrame(t, c)
  BY Zenon, ControlWriteInv, ControlSignalInv, ControlReceiveInv DEF RegistryInv, ControlStep
<1>2. /\ UNCHANGED <<job, child, kind, inherited, prepared, table>>
      /\ UNCHANGED <<registry, upc, target_cid, rpc>>
  BY Zenon, <1>1 DEF ControlFrame, RegistryUnchanged, regVars
<1>3. TypeOK /\ Exchange(c) /\ Asked /\ Fresh /\ Stored
  BY Zenon DEF RegistryInv, MailInv
<1>4. ASSUME NEW d \in Children, d # c PROVE mbox'[d] = mbox[d]
  BY Zenon, <1>1, <1>4 DEF ControlFrame
<1>5. ASSUME NEW u \in Callers, NEW d \in Children, u # t \/ d # c
      PROVE  call'[u][d] = call[u][d]
  BY Zenon, <1>1, <1>5 DEF ControlFrame
<1>6. /\ call[t][c].pc # "idle" /\ call'[t][c].req = call[t][c].req
      /\ \/ call'[t][c].pc = "signal" /\ mbox'[c].state = mbox[c].state
         \/ /\ call'[t][c].pc = "poll" /\ call[t][c].pc = "signal"
            /\ mbox'[c].state = "CONTROL_REQUEST"
         \/ /\ call'[t][c].pc = "done" /\ call[t][c].pc = "poll"
            /\ mbox'[c].state = "IDLE" /\ mbox[c].state = "CONTROL_DONE"
            /\ call'[t][c].error = mbox[c].error
  <2>1. CASE ControlWrite(t, c)
    BY Zenon, <2>1, ControlWriteInv DEF RegistryInv, ControlWrite
  <2>2. CASE ControlSignal(t, c)
    BY Zenon, <2>2, ControlSignalInv DEF RegistryInv, ControlSignal
  <2>3. CASE ControlReceive(t, c)
    BY Zenon, <2>3, ControlReceiveInv DEF RegistryInv, ControlReceive
  <2> QED BY Zenon, <2>1, <2>2, <2>3 DEF ControlStep
<1>7. mu[c] \in {"free", t}
  BY Zenon, <1>3 DEF ControlStep, ControlWrite, ControlSignal, ControlReceive, Exchange
<1>8. "TASK_DONE" \notin {child[c].pc, mbox[c].state, mbox'[c].state}
  <2>1. "TASK_DONE" \notin {child[c].pc, mbox[c].state}
    BY Zenon, <1>3, <1>7 DEF Exchange, Callers
  <2> QED BY Zenon, <1>6, <2>1
<1>9. Asked'
  <2>1. \A u \in Callers, d \in Children : call'[u][d].pc # "idle" =>
          call[u][d].pc # "idle" /\ call'[u][d].req = call[u][d].req
    BY Zenon, <1>5, <1>6
  <2> QED BY Zenon, <1>2, <1>3, <2>1, AskedFrame
<1>10. Fresh'
  BY Zenon, <1>2, <1>3, FreshFrame
<1>11. Stored'
  <2>1. ASSUME NEW d \in Children, Accepted(d)' PROVE Accepted(d)
    <3> "user" \in Callers
      BY Zenon DEF Callers
    <3>1. CASE d # c
      BY Zenon, <2>1, <3>1, <1>2, <1>4, <1>5 DEF Accepted
    <3>2. CASE d = c /\ t # "user"
      <4>1. call'["user"][c] = call["user"][c] /\ call["user"][c].pc # "poll"
        BY Zenon, <3>2, <1>3, <1>5, <1>7 DEF Exchange
      <4> QED BY Zenon, <2>1, <3>2, <4>1 DEF Accepted
    <3>3. CASE d = c /\ t = "user"
      <4>1. CASE /\ call'[t][c].pc = "poll" /\ call[t][c].pc = "signal"
                 /\ mbox'[c].state = "CONTROL_REQUEST"
        <5>1. mu[c] = t /\ job[c].pc # "poll" /\ \A u \in Callers : call[u][c].pc # "poll"
          BY Zenon, <1>3, <4>1 DEF Exchange, Callers
        <5>2. child[c].pc # "CONTROL_DONE"
          BY Zenon, <1>3, <5>1 DEF Exchange
        <5> QED BY Zenon, <5>2, <4>1, <3>3, <2>1, <1>2 DEF Accepted
      <4>2. CASE /\ call'[t][c].pc = "done" /\ call[t][c].pc = "poll"
                 /\ mbox'[c].state = "IDLE" /\ mbox[c].state = "CONTROL_DONE"
                 /\ call'[t][c].error = mbox[c].error
        BY Zenon, <4>2, <3>3, <2>1 DEF Accepted
      <4>3. CASE call'[t][c].pc = "signal" /\ mbox'[c].state = mbox[c].state
        BY Zenon, <4>3, <3>3, <2>1 DEF Accepted
      <4> QED BY Zenon, <4>1, <4>2, <4>3, <1>6
    <3> QED BY Zenon, <3>1, <3>2, <3>3
  <2> QED BY Zenon, <1>2, <1>3, <2>1, StoredFrame
<1>12. ASSUME NEW d \in Children PROVE Executed(d)'
  <2>1. CASE d = c
    BY Zenon, <1>2, <1>8, <2>1 DEF Executed
  <2>2. CASE d # c
    BY Zenon, <1>2, <1>4, <2>2, ExecutedFrame DEF RegistryInv
  <2> QED BY Zenon, <2>1, <2>2
<1> QED BY Zenon, <1>1, <1>9, <1>10, <1>11, <1>12 DEF RegistryInv

-----------------------------------------------------------------------------
\* What a handler changes, and what it leaves alone.
LEMMA HandledFrame ==
    ASSUME RegistryInv, NEW c \in Children, Handled(c), RegistryUnchanged
    PROVE  /\ UNCHANGED <<mu, job, call, kind, inherited>>
           /\ UNCHANGED <<registry, upc, target_cid, rpc, prewarm>>
           /\ mbox' \in [Children -> Mails] /\ child' \in [Children -> Processes]
           /\ mbox'[c].state = mbox[c].state /\ mbox'[c].req = mbox[c].req
           /\ child'[c].pc = (IF child[c].pc = "TASK_READY" THEN "TASK_DONE" ELSE "CONTROL_DONE")
           /\ child'[c].req = child[c].req
           /\ \A d \in Children \ {c} :
                /\ mbox'[d] = mbox[d] /\ child'[d] = child[d]
                /\ table'[d] = table[d] /\ prepared'[d] = prepared[d]
<1>1. TypeOK /\ mbox[c] \in Mails /\ child[c] \in Processes
  BY Zenon DEF RegistryInv, MailInv, TypeOK
<1>2. PICK error \in {0, 1}, ran \in Callables : Answer(c, error, ran)
  BY Zenon DEF Handled
<1> DEFINE m == [mbox[c] EXCEPT !.error = error, !.ran = ran]
           q == IF child[c].pc = "TASK_READY" THEN "TASK_DONE" ELSE "CONTROL_DONE"
           p == [child[c] EXCEPT !.pc = q]
<1>3. m \in Mails /\ m.state = mbox[c].state /\ m.req = mbox[c].req
  BY Zenon, <1>1 DEF Mails
<1>4. p \in Processes /\ p.pc = q /\ p.req = child[c].req
  BY Zenon, <1>1 DEF Processes
<1>5. /\ mbox' = [mbox EXCEPT ![c] = m] /\ child' = [child EXCEPT ![c] = p]
      /\ UNCHANGED <<mu, job, call, kind, inherited>>
  BY Zenon, <1>1, <1>2 DEF Answer, TypeOK
<1> HIDE DEF m, p, q
<1>6. MboxChanges(c, m) /\ ChildChanges(c, p)
  BY Zenon, <1>1, <1>3, <1>4, <1>5, MboxUpdate, ChildUpdate
<1>7. \A d \in Children \ {c} : table'[d] = table[d] /\ prepared'[d] = prepared[d]
  BY Zenon DEF Handled
<1>8. UNCHANGED <<registry, upc, target_cid, rpc, prewarm>>
  BY Zenon DEF RegistryUnchanged, regVars
<1> QED BY Zenon, <1>3, <1>4, <1>5, <1>6, <1>7, <1>8 DEF MboxChanges, ChildChanges, q

LEMMA HandledMail ==
    ASSUME RegistryInv, NEW c \in Children, Handled(c), RegistryUnchanged
    PROVE  MailInv'
<1>1. TypeOK /\ Quiet /\ Exchange(c) /\ child[c].pc \in {"TASK_READY", "CONTROL_REQUEST"}
  BY Zenon DEF RegistryInv, MailInv, Handled
<1>2. /\ UNCHANGED <<mu, job, call, kind, inherited>>
      /\ UNCHANGED <<registry, upc, target_cid, rpc, prewarm>>
      /\ mbox' \in [Children -> Mails] /\ child' \in [Children -> Processes]
      /\ mbox'[c].state = mbox[c].state /\ mbox'[c].req = mbox[c].req
      /\ child'[c].pc = (IF child[c].pc = "TASK_READY" THEN "TASK_DONE" ELSE "CONTROL_DONE")
      /\ child'[c].req = child[c].req
      /\ \A d \in Children \ {c} : mbox'[d] = mbox[d] /\ child'[d] = child[d]
  BY Zenon, HandledFrame
<1>3. table' \in [Children -> Tables] /\ prepared' \in [Children -> SUBSET Cids]
  BY Zenon DEF Handled
<1>4. TypeOK'
  BY Zenon, <1>1, <1>2, <1>3 DEF TypeOK
<1>5. Quiet'
  BY Zenon, <1>1, <1>2, QuietFrame
<1>6. Exchange(c)'
  BY Zenon, <1>1, <1>2 DEF Exchange
<1>7. ASSUME NEW d \in Children, d # c PROVE Exchange(d)'
  BY Zenon, <1>2, <1>7, ExchangeFrame DEF RegistryInv, MailInv
<1> QED BY Zenon, <1>4, <1>5, <1>6, <1>7 DEF MailInv

\* A handler leaves what a child has for every id but the one being registered
\* or unregistered.
LEMMA HandledResolves ==
    ASSUME RegistryInv, NEW c \in Children, Handled(c), RegistryUnchanged,
           NEW j \in Cids, NEW d \in Children,
           \/ ~Busy(j) \/ d # c \/ j # child[c].req.cid
           \/ child[c].pc = "CONTROL_REQUEST" /\ child[c].req.cmd \in {"memory", "prepare"}
    PROVE  /\ kind = "chip" => Resolves(d, j)' = Resolves(d, j)
           /\ kind = "worker" => table'[d][j] = table[d][j]
<1>1. /\ kind' = kind /\ inherited' = inherited /\ child'[c].req = child[c].req
      /\ d # c => table'[d] = table[d] /\ prepared'[d] = prepared[d]
  BY Zenon, HandledFrame
<1>2. CASE d # c
  BY Zenon, <1>1, <1>2 DEF Resolves
<1>3. CASE d = c /\ j # child[c].req.cid
  <2>1. table'[c][j] = table[c][j] /\ (j \in prepared'[c] <=> j \in prepared[c])
    BY Zenon, <1>3 DEF Handled
  <2> QED BY Zenon, <1>1, <1>3, <2>1 DEF Resolves
<1>4. CASE d = c /\ j = child[c].req.cid
  <2>1. child[c].pc \in {"TASK_READY", "CONTROL_REQUEST"}
    BY Zenon DEF Handled
  <2>2. child[c].pc = "TASK_READY" \/ child[c].req.cmd \in {"memory", "prepare"}
    BY Zenon, <1>4, <2>1, Served DEF Busy
  <2>3. /\ kind = "chip" => Resolves(c, child[c].req.cid)' = Resolves(c, child[c].req.cid)
        /\ kind = "worker" => table'[c][child[c].req.cid] = table[c][child[c].req.cid]
    BY Zenon, <2>2 DEF Handled
  <2> QED BY Zenon, <1>1, <1>4, <2>3 DEF Resolves
<1> QED BY Zenon, <1>2, <1>3, <1>4

\* A registration that a child accepts is stored.
LEMMA HandledAccepted ==
    ASSUME RegistryInv, NEW c \in Children, Handled(c), RegistryUnchanged,
           upc = "register", NEW d \in Children, Accepted(d)'
    PROVE  Holds(d, target_cid)' = registry[target_cid]
<1>1. TypeOK /\ Exchange(c) /\ Asked /\ Stored /\ kind \in {"chip", "worker"} /\ target_cid \in Cids
  BY Zenon, MailboxAssumption DEF RegistryInv, MailInv, TypeOK
<1>2. /\ call' = call /\ kind' = kind /\ target_cid' = target_cid /\ child'[c].req = child[c].req
      /\ d # c => mbox'[d] = mbox[d] /\ child'[d] = child[d]
  BY Zenon, HandledFrame
<1>3. child[c].pc \in {"TASK_READY", "CONTROL_REQUEST"}
  BY Zenon DEF Handled
<1>4. ASSUME Accepted(d),
             \/ d # c \/ target_cid # child[c].req.cid
             \/ child[c].pc = "CONTROL_REQUEST" /\ child[c].req.cmd \in {"memory", "prepare"}
      PROVE  Holds(d, target_cid)' = registry[target_cid]
  <2>1. Holds(d, target_cid) = registry[target_cid]
    BY Zenon, <1>1, <1>4 DEF Stored
  <2>2. /\ kind = "chip" => Resolves(d, target_cid)' = Resolves(d, target_cid)
        /\ kind = "worker" => table'[d][target_cid] = table[d][target_cid]
    <3>1. PICK j \in Cids : j = target_cid
      BY Zenon, <1>1
    <3>2. /\ kind = "chip" => Resolves(d, j)' = Resolves(d, j)
          /\ kind = "worker" => table'[d][j] = table[d][j]
      BY Zenon, <1>4, <3>1, HandledResolves
    <3> QED BY Zenon, <1>2, <3>1, <3>2 DEF Resolves
  <2> QED BY Zenon, <1>1, <1>2, <2>1, <2>2 DEF Holds
<1>5. CASE d # c
  <2>1. Accepted(d)
    BY Zenon, <1>2, <1>5 DEF Accepted
  <2> QED BY Zenon, <1>4, <1>5, <2>1
<1>6. CASE d = c /\ call["user"][c].pc = "done"
  <2>1. Accepted(c)
    BY Zenon, <1>2, <1>6 DEF Accepted
  <2>2. child[c].pc = "TASK_READY" => child[c].req.cid # target_cid
    BY Zenon, <1>1, Served DEF Asked, Busy
  <2>3. child[c].pc = "CONTROL_REQUEST" => child[c].req.cmd \in {"memory", "prepare"}
    BY Zenon, <1>6, Served
  <2> QED BY Zenon, <1>3, <1>4, <1>6, <2>1, <2>2, <2>3
<1>7. CASE d = c /\ call["user"][c].pc = "poll"
  <2>1. mbox'[c].error = 0
    BY Zenon, <1>2, <1>7 DEF Accepted
  <2>2. mu[c] = "user"
    BY Zenon, <1>1, <1>7 DEF Exchange, Callers
  <2>3. child[c].pc = "CONTROL_REQUEST" /\ call["run"][c].pc # "poll"
    BY Zenon, <1>1, <1>3, <2>2 DEF Exchange, Callers
  <2>4. /\ child[c].req.cmd = "register" /\ child[c].req.cid = target_cid
        /\ child[c].req.blob = registry[target_cid]
    BY Zenon, <2>3, Served
  <2>5. Holds(c, child[c].req.cid)' = child[c].req.blob
    BY Zenon, <2>1, <2>3, <2>4 DEF Handled, Serves
  <2> QED BY Zenon, <1>2, <1>7, <2>4, <2>5 DEF Holds, Resolves
<1>8. call["user"][d].pc \in {"done", "poll"}
  BY Zenon, <1>2 DEF Accepted
<1> QED BY Zenon, <1>5, <1>6, <1>7, <1>8

\* A task that ends without an error has run what its id resolves to.
LEMMA HandledExecuted ==
    ASSUME RegistryInv, NEW c \in Children, Handled(c),
           child[c].pc = "TASK_READY", mbox'[c].error = 0
    PROVE  mbox'[c].ran = job[c].target
<1>1. /\ job[c].pc = "poll" /\ child[c].req.cid = job[c].cid
      /\ Asked /\ Stored /\ TypeOK
  BY Zenon, Served DEF RegistryInv, MailInv
<1>2. /\ job[c].target = registry[job[c].cid] /\ ~Busy(job[c].cid)
      /\ job[c].target \in Submittable
  BY Zenon, <1>1 DEF Asked
<1>3. job[c].cid \in Cids /\ kind \in {"chip", "worker"}
  BY Zenon, <1>1, MailboxAssumption DEF TypeOK, Jobs
<1>4. IF kind = "chip"
        THEN mbox'[c].ran = Resolves(c, child[c].req.cid)
        ELSE /\ mbox'[c].ran = inherited[c][child[c].req.cid]
             /\ inherited[c][child[c].req.cid] \in Fns
  BY Zenon DEF Handled
<1>5. CASE kind = "chip"
  BY Zenon, <1>1, <1>2, <1>3, <1>4, <1>5 DEF Stored, Submittable
<1>6. CASE kind = "worker"
  BY Zenon, <1>1, <1>2, <1>3, <1>4, <1>6 DEF Stored, Submittable
<1> QED BY Zenon, <1>3, <1>5, <1>6

\* A handler keeps the invariant.
LEMMA HandledInv ==
    ASSUME RegistryInv, NEW c \in Children, Handled(c), RegistryUnchanged
    PROVE  RegistryInv'
<1>1. /\ Quiet /\ Asked /\ Stored /\ Exchange(c)
      /\ child[c].pc \in {"TASK_READY", "CONTROL_REQUEST"}
  BY Zenon DEF RegistryInv, MailInv, Handled
<1>2. /\ UNCHANGED <<job, call, kind, inherited, registry, upc, target_cid, rpc>>
      /\ child'[c].pc = (IF child[c].pc = "TASK_READY" THEN "TASK_DONE" ELSE "CONTROL_DONE")
      /\ mbox'[c].state = mbox[c].state
      /\ \A d \in Children \ {c} : mbox'[d] = mbox[d] /\ child'[d] = child[d]
  BY Zenon, HandledFrame
<1>3. MailInv'
  BY Zenon, HandledMail
<1>4. Asked'
  BY Zenon, <1>1, <1>2, AskedFrame
<1>5. Fresh'
  <2>1. rpc \in {"prewarm", "up"}
    BY Zenon, <1>1, Served DEF Quiet
  <2> QED BY Zenon, <1>2, <2>1 DEF Fresh
<1>6. Stored'
  <2>1. \A d \in Children, j \in Cids : ~Busy(j) =>
          /\ kind = "chip" => Resolves(d, j)' = Resolves(d, j)
          /\ kind = "worker" => table'[d][j] = table[d][j]
    BY Zenon, HandledResolves
  <2>2. \A d \in Children : child'[d].pc # "none" => child[d].pc # "none"
    BY Zenon, <1>1, <1>2
  <2>3. ASSUME NEW d \in Children, NEW j \in Cids, child'[d].pc # "none", ~Busy(j)
        PROVE  /\ kind = "chip" /\ registry[j] \in Chips => Resolves(d, j)' = registry[j]
               /\ registry[j] \in Fns => inherited[d][j] = registry[j]
    BY Zenon, <1>1, <2>1, <2>2, <2>3 DEF Stored
  <2>4. ASSUME NEW j \in Registered, kind = "worker", ~Busy(j)
        PROVE  \/ \A d \in Children : child'[d].pc # "none" => table'[d][j] = NoCallable
               \/ \A d \in Children : child'[d].pc # "none" => table'[d][j] = registry[j]
    BY <1>1, <2>1, <2>2, <2>4 DEF Stored, Registered
  <2>5. upc = "register" => \A d \in Children :
          Accepted(d)' => Holds(d, target_cid)' = registry[target_cid]
    BY Zenon, HandledAccepted
  <2> QED BY Zenon, <1>2, <2>3, <2>4, <2>5 DEF Stored, Busy, Registered
<1>7. ASSUME NEW d \in Children PROVE Executed(d)'
  <2>1. CASE d # c
    BY Zenon, <1>2, <2>1, ExecutedFrame DEF RegistryInv
  <2>2. CASE d = c
    <3>1. child[c].pc # "TASK_READY" => mbox[c].state # "TASK_DONE"
      BY Zenon, <1>1 DEF Exchange
    <3>2. child[c].pc = "TASK_READY" /\ mbox'[c].error = 0 => mbox'[c].ran = job[c].target
      BY Zenon, HandledExecuted
    <3> QED BY Zenon, <1>2, <2>2, <3>1, <3>2 DEF Executed
  <2> QED BY Zenon, <2>1, <2>2
<1> QED BY Zenon, <1>3, <1>4, <1>5, <1>6, <1>7 DEF RegistryInv

\* The loop around the handlers moves requests and answers, and nothing else.
LoopStep ==
    /\ UNCHANGED <<mu, job, call, kind, inherited, prepared, table>>
    /\ \A d \in Children :
         /\ mbox'[d].error = mbox[d].error /\ mbox'[d].ran = mbox[d].ran
         /\ child'[d].pc = "none" <=> child[d].pc = "none"
         /\ \A s \in {"TASK_DONE", "CONTROL_DONE"} :
              s \in {child'[d].pc, mbox'[d].state} => s \in {child[d].pc, mbox[d].state}

LEMMA LoopStepInv ==
    ASSUME RegistryInv, MailInv', LoopStep, RegistryUnchanged
    PROVE  RegistryInv'
<1>1. /\ UNCHANGED <<job, call, kind, inherited, prepared, table>>
      /\ UNCHANGED <<registry, upc, target_cid, rpc>>
  BY Zenon DEF LoopStep, RegistryUnchanged, regVars
<1>2. \A d \in Children : child'[d].pc = "none" <=> child[d].pc = "none"
  BY Zenon DEF LoopStep
<1>3. Asked /\ Fresh /\ Stored
  BY Zenon DEF RegistryInv
<1>4. Asked'
  BY Zenon, <1>1, <1>3, AskedFrame
<1>5. Fresh'
  BY Zenon, <1>1, <1>2, <1>3, FreshFrame
<1>6. Stored'
  <2>1. ASSUME NEW d \in Children, Accepted(d)' PROVE Accepted(d)
    BY Zenon, <2>1 DEF Accepted, LoopStep
  <2> QED BY Zenon, <1>1, <1>2, <1>3, <2>1, StoredFrame
<1>7. ASSUME NEW d \in Children PROVE Executed(d)'
  BY Zenon DEF RegistryInv, Executed, LoopStep
<1> QED BY Zenon, <1>4, <1>5, <1>6, <1>7 DEF RegistryInv

\* The child's process changes, with its mailbox or without.
LEMMA ProcessChanges ==
    ASSUME RegistryInv, NEW c \in Children, NEW p \in Processes, ChildChanges(c, p),
           mbox' \in [Children -> Mails], \A d \in Children \ {c} : mbox'[d] = mbox[d],
           UNCHANGED <<mu, job, call, kind, inherited, prepared, table>>, RegistryUnchanged,
           Exchange(c)'
    PROVE  MailInv'
<1>1. TypeOK /\ Quiet /\ UNCHANGED <<registry, upc, target_cid, rpc, prewarm>>
  BY Zenon DEF RegistryInv, MailInv, RegistryUnchanged, regVars
<1>2. child' \in [Children -> Processes] /\ \A d \in Children \ {c} : child'[d] = child[d]
  BY Zenon DEF ChildChanges
<1>3. TypeOK'
  BY Zenon, <1>1, <1>2 DEF TypeOK
<1>4. Quiet'
  BY Zenon, <1>1, QuietFrame
<1>5. ASSUME NEW d \in Children, d # c PROVE Exchange(d)'
  BY Zenon, <1>2, <1>5, ExchangeFrame DEF RegistryInv, MailInv
<1> QED BY Zenon, <1>3, <1>4, <1>5 DEF MailInv

LEMMA ChildTakeInv ==
    ASSUME RegistryInv, NEW c \in Children, ChildTake(c), RegistryUnchanged
    PROVE  RegistryInv'
<1>1. TypeOK /\ Exchange(c) /\ child[c].pc = "loop"
  BY Zenon DEF RegistryInv, MailInv, ChildTake
<1>2. PICK p \in Processes :
        /\ child' = [child EXCEPT ![c] = p]
        /\ \/ p.pc = "exited"
           \/ /\ p.pc \in {"TASK_READY", "CONTROL_REQUEST"}
              /\ p.pc = mbox[c].state /\ p.req = mbox[c].req
  <2>1. CASE mbox[c].state \in {"TASK_READY", "CONTROL_REQUEST"}
    <3>1. mbox[c].req \in Requests
      BY Zenon, <1>1 DEF TypeOK, Mails
    <3>2. [pc |-> mbox[c].state, req |-> mbox[c].req] \in Processes
      BY Zenon, <2>1, <3>1 DEF Processes
    <3> QED BY Zenon, <2>1, <3>2 DEF ChildTake
  <2>2. CASE mbox[c].state = "SHUTDOWN"
    <3>1. [NoChild EXCEPT !.pc = "exited"] \in Processes
      BY Zenon, NoRequestType DEF NoChild, Processes
    <3>2. [NoChild EXCEPT !.pc = "exited"].pc = "exited"
      BY Zenon DEF NoChild
    <3> QED BY Zenon, <2>2, <3>1, <3>2 DEF ChildTake
  <2> QED BY Zenon, <2>1, <2>2 DEF ChildTake
<1>3. UNCHANGED <<mbox, mu, job, call, kind, inherited, prepared, table>>
  BY Zenon DEF ChildTake
<1>4. ChildChanges(c, p)
  BY Zenon, <1>1, <1>2, ChildUpdate
<1>5. child'[c] = p /\ \A d \in Children \ {c} : child'[d] = child[d]
  BY Zenon, <1>4 DEF ChildChanges
<1>6. MailInv'
  <2>1. Exchange(c)'
    BY Zenon, <1>1, <1>2, <1>3, <1>5 DEF Exchange
  <2>2. mbox' \in [Children -> Mails] /\ \A d \in Children \ {c} : mbox'[d] = mbox[d]
    BY Zenon, <1>1, <1>3 DEF TypeOK
  <2> QED BY Zenon, <1>3, <1>4, <2>1, <2>2, ProcessChanges
<1>7. LoopStep
  BY Zenon, <1>1, <1>2, <1>3, <1>5 DEF LoopStep
<1> QED BY Zenon, <1>6, <1>7, LoopStepInv

LEMMA ChildReplyInv ==
    ASSUME RegistryInv, NEW c \in Children, ChildReply(c), RegistryUnchanged
    PROVE  RegistryInv'
<1> DEFINE p == [NoChild EXCEPT !.pc = "loop"]
           m == [mbox[c] EXCEPT !.state = child[c].pc]
<1>1. /\ TypeOK /\ Exchange(c) /\ mbox[c] \in Mails
      /\ child[c].pc \in {"TASK_DONE", "CONTROL_DONE"}
  BY Zenon DEF RegistryInv, MailInv, TypeOK, ChildReply
<1>2. p \in Processes /\ p.pc = "loop"
  BY Zenon, NoRequestType DEF NoChild, Processes
<1>3. /\ m \in Mails /\ m.state = child[c].pc /\ m.req = mbox[c].req
      /\ m.error = mbox[c].error /\ m.ran = mbox[c].ran
  <2>1. child[c].pc \in MailboxStates
    BY Zenon, <1>1 DEF MailboxStates
  <2> QED BY Zenon, <1>1, <2>1 DEF Mails
<1>4. /\ child' = [child EXCEPT ![c] = p] /\ mbox' = [mbox EXCEPT ![c] = m]
      /\ UNCHANGED <<mu, job, call, kind, inherited, prepared, table>>
  BY Zenon, <1>1 DEF ChildReply, TypeOK
<1> HIDE DEF p, m
<1>5. MboxChanges(c, m) /\ ChildChanges(c, p)
  BY Zenon, <1>1, <1>2, <1>3, <1>4, MboxUpdate, ChildUpdate
<1>6. /\ child'[c] = p /\ mbox'[c] = m /\ mbox' \in [Children -> Mails]
      /\ \A d \in Children \ {c} : child'[d] = child[d] /\ mbox'[d] = mbox[d]
  BY Zenon, <1>5 DEF MboxChanges, ChildChanges
<1>7. MailInv'
  <2>1. Exchange(c)'
    BY Zenon, <1>1, <1>2, <1>3, <1>4, <1>6 DEF Exchange
  <2>2. mbox' \in [Children -> Mails] /\ \A d \in Children \ {c} : mbox'[d] = mbox[d]
    BY Zenon, <1>6
  <2> QED BY Zenon, <1>2, <1>4, <1>5, <2>1, <2>2, ProcessChanges
<1>8. LoopStep
  BY <1>1, <1>2, <1>3, <1>4, <1>6 DEF LoopStep
<1> QED BY Zenon, <1>7, <1>8, LoopStepInv

LEMMA ChildDiesInv ==
    ASSUME RegistryInv, NEW c \in Children, ChildDies(c), RegistryUnchanged
    PROVE  RegistryInv'
<1> DEFINE p == [NoChild EXCEPT !.pc = "dead"]
<1>1. TypeOK /\ Exchange(c)
  BY Zenon DEF RegistryInv, MailInv
<1>2. p \in Processes /\ p.pc = "dead"
  BY Zenon, NoRequestType DEF NoChild, Processes
<1>3. /\ child' = [child EXCEPT ![c] = p] /\ child[c].pc # "none"
      /\ UNCHANGED <<mbox, mu, job, call, kind, inherited, prepared, table>>
  BY Zenon DEF ChildDies, Alive
<1> HIDE DEF p
<1>4. ChildChanges(c, p)
  BY Zenon, <1>1, <1>2, <1>3, ChildUpdate
<1>5. child'[c] = p /\ \A d \in Children \ {c} : child'[d] = child[d]
  BY Zenon, <1>4 DEF ChildChanges
<1>6. MailInv'
  <2>1. Exchange(c)'
    BY Zenon, <1>1, <1>2, <1>3, <1>5 DEF Exchange
  <2>2. mbox' \in [Children -> Mails] /\ \A d \in Children \ {c} : mbox'[d] = mbox[d]
    BY Zenon, <1>1, <1>3 DEF TypeOK
  <2> QED BY Zenon, <1>2, <1>3, <1>4, <2>1, <2>2, ProcessChanges
<1>7. LoopStep
  BY Zenon, <1>2, <1>3, <1>5 DEF LoopStep
<1> QED BY Zenon, <1>6, <1>7, LoopStepInv

LEMMA ChildStepInv ==
    ASSUME RegistryInv, NEW c \in Children, ChildStep(c), RegistryUnchanged
    PROVE  RegistryInv'
BY Zenon, ChildTakeInv, ChildReplyInv, HandledInv, ChipTaskHandled, ChipMemoryHandled,
   ChipPrepareHandled, ChipRegisterHandled, ChipUnregisterHandled, WorkerTaskHandled,
   WorkerRegisterHandled, WorkerUnregisterHandled DEF ChildStep
-----------------------------------------------------------------------------
(***************************************************************************)
(* The thread that registers and unregisters keeps the invariant.          *)
(***************************************************************************)
\* Outside a round trip the user thread may begin or forget its commands, and
\* change the registry, without disturbing a mailbox.
LEMMA UserStepMail ==
    ASSUME RegistryInv, NEW x \in Commands, x.pc \in {"idle", "want"},
           \A c \in Children : call["user"][c].pc \in {"idle", "done"},
           call' = [call EXCEPT !["user"] = [c \in Children |-> x]],
           UNCHANGED <<mbox, mu, job, child, kind, inherited, prepared, table, rpc, prewarm>>,
           registry' \in Tables, target_cid' \in Cids, upc' \in {"idle", "register", "unregister"},
           upc' = "idle" => x.pc = "idle",
           rpc \notin {"prewarm", "up"} => upc' = "idle"
    PROVE  /\ MailInv' /\ call'["run"] = call["run"]
           /\ \A c \in Children : call'["user"][c] = x
<1>1. TypeOK /\ Quiet /\ \A c \in Children : Exchange(c)
  BY Zenon DEF RegistryInv, MailInv
<1>2. /\ call'["run"] = call["run"] /\ \A c \in Children : call'["user"][c] = x
      /\ call' \in [Callers -> [Children -> Commands]]
  BY Zenon, <1>1 DEF TypeOK, Callers
<1>3. TypeOK'
  BY Zenon, <1>1, <1>2 DEF TypeOK
<1>4. Quiet'
  BY Zenon, <1>1, <1>2 DEF Quiet
<1>5. ASSUME NEW c \in Children PROVE Exchange(c)'
  <2>1. mu[c] # "user"
    BY Zenon, <1>1 DEF Exchange, Callers
  <2> QED BY <1>1, <1>2, <2>1 DEF Exchange, Callers
<1> QED BY Zenon, <1>2, <1>3, <1>4, <1>5 DEF MailInv

\* What is asked for stays as it should be when the user thread begins or ends
\* a call and the tasks under way do not depend on its id.
LEMMA UserStepAsked ==
    ASSUME Asked, rpc = "up", UNCHANGED <<kind, rpc, job>>, call'["run"] = call["run"],
           upc' = "register" => registry'[target_cid'] \in Chips,
           \A c \in Children : call'["user"][c].pc # "idle" =>
               call'["user"][c].req =
                  [cmd |-> upc', cid |-> target_cid',
                   blob |-> IF upc' = "register" THEN registry'[target_cid'] ELSE NoCallable],
           \A c \in Children : job[c].pc # "idle" =>
               registry'[job[c].cid] = registry[job[c].cid] /\ ~Busy(job[c].cid)'
    PROVE  Asked'
BY DEF Asked, Submittable, Busy

\* Before the children are forked a call changes the registry and nothing else.
LEMMA TableStepInv ==
    ASSUME RegistryInv, rpc = "none", registry' \in Tables,
           UNCHANGED <<mbox, mu, job, child, kind, inherited, prepared, table, rpc, prewarm>>,
           UNCHANGED <<call, upc, target_cid>>
    PROVE  RegistryInv'
<1>1. TypeOK /\ Quiet /\ Fresh /\ MailInv /\ \A c \in Children : Executed(c)
  BY Zenon DEF RegistryInv, MailInv
<1>2. TypeOK'
  BY Zenon, <1>1 DEF TypeOK
<1>3. Quiet'
  BY Zenon, <1>1, QuietFrame
<1>4. Fresh'
  BY Zenon, <1>1, FreshFrame
<1>5. \A c \in Children : Exchange(c)'
  BY Zenon, <1>1, ExchangesFrame
<1>6. Asked' /\ Stored'
  BY Zenon, <1>3, <1>4, QuietAsked, UnforkedStored
<1>7. ASSUME NEW c \in Children PROVE Executed(c)'
  BY Zenon, <1>1, ExecutedFrame
<1> QED BY Zenon, <1>2, <1>3, <1>4, <1>5, <1>6, <1>7 DEF RegistryInv, MailInv

LEMMA RegisterInv ==
    ASSUME RegistryInv, Register, AllocateCid \in Cids, registry[AllocateCid] = NoCallable
    PROVE  RegistryInv'
<1>1. /\ TypeOK /\ Quiet /\ Asked /\ upc = "idle" /\ rpc \in {"none", "up"}
      /\ \A c \in Children : Exchange(c)
  BY Zenon DEF RegistryInv, MailInv, Register, UserMayCall
<1> DEFINE a == AllocateCid
<1>2. a \in Cids /\ registry[a] = NoCallable
  BY Zenon
<1>3. PICK t \in Chips :
        /\ registry' = [registry EXCEPT ![a] = t]
        /\ IF EngineUp
             THEN /\ Broadcast([cmd |-> "register", cid |-> a, blob |-> t])
                  /\ upc' = "register" /\ target_cid' = a
             ELSE UNCHANGED <<call, upc, target_cid>>
  BY Zenon DEF Register
<1>4. UNCHANGED <<mbox, mu, job, child, kind, inherited, prepared, table, rpc, prewarm>>
  BY Zenon DEF Register
<1> HIDE DEF a
<1>5. /\ registry' \in Tables /\ registry'[a] = t
      /\ \A i \in Cids \ {a} : registry'[i] = registry[i]
  BY Zenon, <1>1, <1>2, <1>3 DEF TypeOK, Tables, Callables
<1>6. \A c \in Children : Executed(c)'
  BY Zenon, <1>4 DEF RegistryInv, Executed
<1>7. CASE rpc = "up"
  <2> DEFINE r == [cmd |-> "register", cid |-> a, blob |-> t]
  <2>1. r \in Requests
    BY Zenon, <1>2 DEF Requests, Callables
  <2>2. /\ call' = [call EXCEPT !["user"] = [c \in Children |-> Wanted(r)]]
        /\ upc' = "register" /\ target_cid' = a
    BY Zenon, <1>3, <1>7 DEF EngineUp, Broadcast
  <2>3. Wanted(r) \in Commands /\ Wanted(r).pc = "want" /\ Wanted(r).req = r
    BY Zenon, <2>1, WantedType
  <2>4. /\ MailInv' /\ call'["run"] = call["run"]
        /\ \A c \in Children : call'["user"][c] = Wanted(r)
    <3>1. /\ Wanted(r).pc \in {"idle", "want"} /\ target_cid' \in Cids
          /\ upc' \in {"idle", "register", "unregister"} /\ upc' # "idle"
          /\ \A c \in Children : call["user"][c].pc \in {"idle", "done"}
      BY Zenon, <1>1, <1>2, <2>2, <2>3 DEF Quiet
    <3> QED BY Zenon, <1>4, <1>5, <1>7, <2>2, <2>3, <3>1, UserStepMail
  <2>5. \A c \in Children : job[c].pc # "idle" => job[c].cid \in Cids \ {a}
    BY <1>1, <1>2, MailboxAssumption DEF Asked, Submittable, TypeOK, Jobs
  <2> HIDE DEF r
  <2>6. Asked'
    <3>1. /\ upc' = "register" => registry'[target_cid'] \in Chips
          /\ \A c \in Children : call'["user"][c].req =
                [cmd |-> upc', cid |-> target_cid',
                 blob |-> IF upc' = "register" THEN registry'[target_cid'] ELSE NoCallable]
      BY Zenon, <1>5, <2>2, <2>3, <2>4 DEF r
    <3>2. \A c \in Children : job[c].pc # "idle" =>
            registry'[job[c].cid] = registry[job[c].cid] /\ ~Busy(job[c].cid)'
      BY Zenon, <1>4, <1>5, <2>2, <2>5 DEF Busy
    <3> QED BY Zenon, <1>1, <1>4, <1>7, <2>4, <3>1, <3>2, UserStepAsked
  <2>7. Fresh'
    BY Zenon, <1>4, FreshFrame DEF RegistryInv
  <2>8. Stored'
    <3>1. \A i \in Cids : ~Busy(i)' => i # a /\ ~Busy(i)
      BY Zenon, <1>1, <2>2 DEF Busy
    <3>2. \A c \in Children : ~Accepted(c)'
      BY Zenon, <2>3, <2>4 DEF Accepted
    <3> QED BY <1>4, <1>5, <3>1, <3>2 DEF RegistryInv, Stored, Registered, Resolves
  <2> QED BY Zenon, <1>6, <2>4, <2>6, <2>7, <2>8 DEF RegistryInv
<1>8. CASE rpc = "none"
  <2>1. UNCHANGED <<call, upc, target_cid>>
    BY SMTT(30), <1>3, <1>8 DEF EngineUp
  <2> QED BY Zenon, <1>4, <1>5, <1>8, <2>1, TableStepInv
<1> QED BY Zenon, <1>1, <1>7, <1>8

LEMMA RegisterReturnInv == ASSUME RegistryInv, RegisterReturn PROVE RegistryInv'
<1>1. /\ TypeOK /\ Quiet /\ Asked /\ upc = "register"
      /\ \A c \in Children : call["user"][c].pc = "done"
  BY SMTT(30) DEF RegistryInv, MailInv, RegisterReturn, BroadcastDone
<1>2. rpc = "up" /\ registry[target_cid] \in Chips /\ kind \in {"chip", "worker"}
  BY Zenon, <1>1, MailboxAssumption DEF Quiet, Asked, TypeOK
<1>3. /\ UNCHANGED <<mbox, mu, job, child, kind, inherited, prepared, table, rpc, prewarm>>
      /\ upc' = "idle" /\ target_cid' = 0
      /\ call' = [call EXCEPT !["user"] = [c \in Children |-> NoCall]]
  BY Zenon DEF RegisterReturn, ForgetReplies
<1>4. NoCall \in Commands /\ NoCall.pc = "idle" /\ target_cid' \in Cids
  BY <1>3, RecordTypes, MailboxAssumption DEF NoCall, Cids
<1>5. /\ registry' \in Tables
      /\ \A i \in Cids \ {target_cid} : registry'[i] = registry[i]
      /\ \/ registry'[target_cid] = NoCallable
         \/ /\ registry'[target_cid] = registry[target_cid]
            /\ \A c \in Children : call["user"][c].error = 0
  BY Zenon, <1>1 DEF RegisterReturn, TypeOK, Tables, Callables
<1>6. /\ MailInv' /\ call'["run"] = call["run"]
      /\ \A c \in Children : call'["user"][c] = NoCall
  <2>1. /\ NoCall.pc \in {"idle", "want"} /\ upc' \in {"idle", "register", "unregister"}
        /\ \A c \in Children : call["user"][c].pc \in {"idle", "done"}
    BY Zenon, <1>1, <1>3, <1>4
  <2> QED BY Zenon, <1>3, <1>4, <1>5, <2>1, UserStepMail
<1>7. Asked'
  <2>1. \A c \in Children : job[c].pc # "idle" => job[c].cid \in Cids \ {target_cid}
    BY Zenon, <1>1 DEF Asked, Busy, TypeOK, Jobs
  <2>2. \A c \in Children : job[c].pc # "idle" =>
          registry'[job[c].cid] = registry[job[c].cid] /\ ~Busy(job[c].cid)'
    BY Zenon, <1>3, <1>5, <2>1 DEF Busy
  <2>3. \A c \in Children : call'["user"][c].pc = "idle"
    BY Zenon, <1>4, <1>6
  <2> QED BY Zenon, <1>1, <1>2, <1>3, <1>6, <2>2, <2>3, UserStepAsked
<1>8. Fresh'
  BY Zenon, <1>3, FreshFrame DEF RegistryInv
<1>9. Stored'
  <2>1. \A c \in Children : call["user"][c].error = 0 => Holds(c, target_cid) = registry[target_cid]
    BY Zenon, <1>1 DEF RegistryInv, Stored, Accepted
  <2>2. ASSUME NEW c \in Children, NEW i \in Cids, child[c].pc # "none"
        PROVE  /\ kind = "chip" /\ registry'[i] \in Chips => Resolves(c, i)' = registry'[i]
               /\ registry'[i] \in Fns => inherited[c][i] = registry'[i]
    <3>1. CASE i = target_cid
      BY Zenon, <1>2, <1>3, <1>5, <2>1, <3>1, MailboxAssumption DEF Holds, Resolves
    <3>2. CASE i # target_cid
      BY Zenon, <1>3, <1>5, <2>2, <3>2 DEF RegistryInv, Stored, Busy, Resolves
    <3> QED BY Zenon, <3>1, <3>2
  <2>3. ASSUME NEW i \in Cids, registry'[i] # NoCallable, kind = "worker"
        PROVE  \/ \A c \in Children : child[c].pc # "none" => table[c][i] = NoCallable
               \/ \A c \in Children : child[c].pc # "none" => table[c][i] = registry'[i]
    <3>1. CASE i = target_cid
      BY Zenon, <1>5, <2>1, <2>3, <3>1 DEF Holds
    <3>2. CASE i # target_cid
      BY Zenon, <1>5, <2>3, <3>2 DEF RegistryInv, Stored, Busy, Registered
    <3> QED BY Zenon, <3>1, <3>2
  <2> QED BY Zenon, <1>3, <2>2, <2>3 DEF Stored, Registered
<1>10. \A c \in Children : Executed(c)'
  BY Zenon, <1>3 DEF RegistryInv, Executed
<1> QED BY SMTT(30), <1>6, <1>7, <1>8, <1>9, <1>10 DEF RegistryInv

LEMMA UnregisterInv == ASSUME RegistryInv, Unregister PROVE RegistryInv'
<1>1. /\ TypeOK /\ Quiet /\ Asked /\ upc = "idle" /\ rpc \in {"none", "up"}
      /\ \A c \in Children : Exchange(c)
  BY Zenon DEF RegistryInv, MailInv, Unregister, UserMayCall
<1>2. PICK a \in Registered :
        /\ ~InUse(a)
        /\ IF EngineUp
             THEN /\ Broadcast([cmd |-> "unregister", cid |-> a, blob |-> NoCallable])
                  /\ upc' = "unregister" /\ target_cid' = a
                  /\ UNCHANGED registry
             ELSE /\ registry' = [registry EXCEPT ![a] = NoCallable]
                  /\ UNCHANGED <<call, upc, target_cid>>
  BY Zenon DEF Unregister
<1>3. UNCHANGED <<mbox, mu, job, child, kind, inherited, prepared, table, rpc, prewarm>>
  BY Zenon DEF Unregister
<1>4. a \in Cids
  BY Zenon, <1>2 DEF Registered
<1>5. \A c \in Children : Executed(c)'
  BY Zenon, <1>3 DEF RegistryInv, Executed
<1>6. CASE rpc = "up"
  <2> DEFINE r == [cmd |-> "unregister", cid |-> a, blob |-> NoCallable]
  <2>1. r \in Requests
    BY Zenon, <1>4 DEF Requests, Callables
  <2>2. /\ call' = [call EXCEPT !["user"] = [c \in Children |-> Wanted(r)]]
        /\ upc' = "unregister" /\ target_cid' = a /\ registry' = registry
    BY Zenon, <1>2, <1>6 DEF EngineUp, Broadcast
  <2>3. Wanted(r) \in Commands /\ Wanted(r).pc = "want" /\ Wanted(r).req = r
    BY SMTT(30), <2>1, WantedType
  <2>4. /\ MailInv' /\ call'["run"] = call["run"]
        /\ \A c \in Children : call'["user"][c] = Wanted(r)
    <3>1. /\ Wanted(r).pc \in {"idle", "want"} /\ registry' \in Tables /\ target_cid' \in Cids
          /\ upc' \in {"idle", "register", "unregister"} /\ upc' # "idle"
          /\ \A c \in Children : call["user"][c].pc \in {"idle", "done"}
      BY Zenon, <1>1, <1>4, <2>2, <2>3 DEF Quiet, TypeOK
    <3> QED BY Zenon, <1>3, <1>6, <2>2, <2>3, <3>1, UserStepMail
  <2> HIDE DEF r
  <2>5. Asked'
    <3>1. /\ upc' # "register"
          /\ \A c \in Children : call'["user"][c].req =
                [cmd |-> upc', cid |-> target_cid',
                 blob |-> IF upc' = "register" THEN registry'[target_cid'] ELSE NoCallable]
      BY Zenon, <2>2, <2>3, <2>4 DEF r
    <3>2. \A c \in Children : job[c].pc # "idle" =>
            registry'[job[c].cid] = registry[job[c].cid] /\ ~Busy(job[c].cid)'
      BY Zenon, <1>2, <1>3, <2>2 DEF Busy, InUse
    <3> QED BY Zenon, <1>1, <1>3, <1>6, <2>4, <3>1, <3>2, UserStepAsked
  <2>6. Fresh'
    BY Zenon, <1>3, FreshFrame DEF RegistryInv
  <2>7. Stored'
    <3>1. \A i \in Cids : ~Busy(i)' => ~Busy(i)
      BY Zenon, <1>1 DEF Busy
    <3> QED BY Zenon, <1>3, <2>2, <3>1 DEF RegistryInv, Stored, Registered, Resolves
  <2> QED BY Zenon, <1>5, <2>4, <2>5, <2>6, <2>7 DEF RegistryInv
<1>7. CASE rpc = "none"
  <2>1. UNCHANGED <<call, upc, target_cid>> /\ registry' \in Tables
    BY SMTT(30), <1>1, <1>2, <1>7 DEF EngineUp, TypeOK, Tables, Callables
  <2> QED BY Zenon, <1>3, <1>7, <2>1, TableStepInv
<1> QED BY Zenon, <1>1, <1>6, <1>7

LEMMA UnregisterReturnInv == ASSUME RegistryInv, UnregisterReturn PROVE RegistryInv'
<1>1. /\ TypeOK /\ Quiet /\ Asked /\ upc = "unregister"
      /\ \A c \in Children : call["user"][c].pc = "done"
  BY Zenon DEF RegistryInv, MailInv, UnregisterReturn, BroadcastDone
<1>2. rpc = "up"
  BY Zenon, <1>1 DEF Quiet, Asked
<1>3. /\ UNCHANGED <<mbox, mu, job, child, kind, inherited, prepared, table, rpc, prewarm>>
      /\ upc' = "idle" /\ target_cid' = 0
      /\ call' = [call EXCEPT !["user"] = [c \in Children |-> NoCall]]
  BY Zenon DEF UnregisterReturn, ForgetReplies
<1>4. NoCall \in Commands /\ NoCall.pc = "idle" /\ target_cid' \in Cids
  BY <1>3, RecordTypes, MailboxAssumption DEF NoCall, Cids
<1>5. /\ registry' \in Tables /\ registry'[target_cid] = NoCallable
      /\ \A i \in Cids \ {target_cid} : registry'[i] = registry[i]
  BY Zenon, <1>1 DEF UnregisterReturn, TypeOK, Tables, Callables
<1>6. /\ MailInv' /\ call'["run"] = call["run"]
      /\ \A c \in Children : call'["user"][c] = NoCall
  <2>1. /\ NoCall.pc \in {"idle", "want"} /\ upc' \in {"idle", "register", "unregister"}
        /\ \A c \in Children : call["user"][c].pc \in {"idle", "done"}
    BY Zenon, <1>1, <1>3, <1>4
  <2> QED BY Zenon, <1>3, <1>4, <1>5, <2>1, UserStepMail
<1>7. Asked'
  <2>1. \A c \in Children : job[c].pc # "idle" => job[c].cid \in Cids \ {target_cid}
    BY Zenon, <1>1 DEF Asked, Busy, TypeOK, Jobs
  <2>2. \A c \in Children : job[c].pc # "idle" =>
          registry'[job[c].cid] = registry[job[c].cid] /\ ~Busy(job[c].cid)'
    BY ZenonT(30), <1>3, <1>5, <2>1 DEF Busy
  <2>3. \A c \in Children : call'["user"][c].pc = "idle"
    BY Zenon, <1>4, <1>6
  <2> QED BY Zenon, <1>1, <1>2, <1>3, <1>6, <2>2, <2>3, UserStepAsked
<1>8. Fresh'
  BY Zenon, <1>3, FreshFrame DEF RegistryInv
<1>9. Stored'
  <2>1. \A i \in Cids : registry'[i] \in Chips \cup Fns \/ registry'[i] # NoCallable =>
            registry'[i] = registry[i] /\ ~Busy(i)
    BY Zenon, <1>5, MailboxAssumption DEF Busy
  <2> QED BY <1>3, <2>1 DEF RegistryInv, Stored, Registered, Resolves
<1>10. \A c \in Children : Executed(c)'
  BY Zenon, <1>3 DEF RegistryInv, Executed
<1> QED BY Zenon, <1>6, <1>7, <1>8, <1>9, <1>10 DEF RegistryInv
=============================================================================
