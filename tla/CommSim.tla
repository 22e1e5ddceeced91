------------------------------- MODULE CommSim -------------------------------
(***************************************************************************)
(* The simulated communicator (src/common/platform_comm/comm_sim.cpp): one *)
(* process per rank, which meet in POSIX shared memory.  A segment has a   *)
(* name; whoever creates it under O_EXCL sizes it and initialises its      *)
(* header, the others attach, and counters in the header carry the ready   *)
(* barrier of the allocation, comm_barrier and the destroy barrier.  Every *)
(* wait has a deadline.                                                    *)
(*                                                                         *)
(* The communicator itself has the name Base; every domain allocated on it *)
(* has a name and a subset of the ranks of its own.  Unlinking a name      *)
(* leaves the segment to those who have it mapped, so names and segments   *)
(* are kept apart.                                                         *)
(***************************************************************************)
EXTENDS Naturals, Sequences, FiniteSets

CONSTANTS
    Ranks,        \* the processes
    Base,         \* the name of the base segment
    Domains,      \* the names of the domain allocations
    Members,      \* domain -> the ranks that take part
    Program,      \* the calls every rank makes, in order: <<operation, name>>
    MaxSegments,  \* bound on the segments ever created
    MaxFaults     \* bound on failing system calls and dying ranks

Names == {Base} \cup Domains
Segments == 1..MaxSegments
None == 0
Of(nm) == IF nm = Base THEN Ranks ELSE Members[nm]
nranks(nm) == Cardinality(Of(nm))

ASSUME CommAssumption ==
    /\ IsFiniteSet(Ranks) /\ Base \notin Domains /\ \A d \in Domains : Members[d] \subseteq Ranks
    /\ MaxSegments \in Nat /\ MaxFaults \in Nat

ASSUME ProgramAssumption ==
    Program \in Seq({"init", "barrier", "derive", "destroy"} \X {Base}
                    \cup {"alloc"} \X Names \cup {"release"} \X Domains)

\* What the callers see to: a process makes its communicator first and once
\* (ChipWorker::comm_init keeps the handle, _comm_base_ready), and every
\* allocation has an id of its own (_next_alloc_id).
ASSUME OnceAssumption ==
    /\ \A i \in DOMAIN Program : Program[i][1] = "init" <=> i = 1
    /\ \A i, j \in DOMAIN Program : Program[i][1] = "alloc" /\ Program[i] = Program[j] => i = j

VARIABLES
    segs,     \* segment -> its SharedHeader and whether ftruncate was done
    created,  \* how many segments have been created
    link,     \* name -> the segment shm_open finds under it
    h,        \* rank -> its CommHandle_
    call,     \* rank -> the library call it is in
    ip,       \* rank -> its position in Program
    rc,       \* rank -> the code its last call returned
    alive,    \* rank -> whether the process runs
    faults,   \* failing system calls and deaths so far
    gaveUp,   \* whether some wait has reached its deadline
    counted,  \* history: segment -> the <<rank, life>> counted in ready_count
    granted,  \* history: rank -> the <<segment, life, name>> its allocations returned
    life,     \* history: rank -> how often it has called comm_init
    entered, left, broken  \* history: segment -> the barriers made on it

libvars == <<segs, created, link, h, call, rc>>
hist == <<counted, granted, life>>
barrier == <<entered, left, broken>>
vars == <<libvars, ip, alive, faults, gaveUp, hist, barrier>>

Header == [sized |-> FALSE, alloc_done |-> FALSE, ready_count |-> 0,
           barrier_count |-> 0, barrier_phase |-> 0, destroy_count |-> 0]
NoHandle == [open |-> FALSE, is_creator |-> FALSE, base |-> None,
             domain |-> [d \in Domains |-> None], derived |-> FALSE]
NoCall == [pc |-> "user", name |-> Base, seg |-> None, is_creator |-> FALSE, phase |-> 0]

Init ==
    /\ segs = [s \in Segments |-> Header]
    /\ created = 0
    /\ link = [nm \in Names |-> None]
    /\ h = [r \in Ranks |-> NoHandle]
    /\ call = [r \in Ranks |-> NoCall]
    /\ ip = [r \in Ranks |-> 1]
    /\ rc = [r \in Ranks |-> 0]
    /\ alive = [r \in Ranks |-> TRUE]
    /\ faults = 0
    /\ gaveUp = FALSE
    /\ counted = [s \in Segments |-> {}]
    /\ granted = [r \in Ranks |-> {}]
    /\ life = [r \in Ranks |-> 0]
    /\ entered = [s \in Segments |-> [r \in Ranks |-> 0]]
    /\ left = [s \in Segments |-> [r \in Ranks |-> 0]]
    /\ broken = [s \in Segments |-> FALSE]

-----------------------------------------------------------------------------
At(r, pc) == alive[r] /\ call[r].pc = pc
GoTo(r, pc) == call' = [call EXCEPT ![r].pc = pc]
Seg(r) == segs[call[r].seg]
AddTo(r, f) == segs' = [segs EXCEPT ![call[r].seg][f] = @ + 1]
Unlink(nm) == link' = [link EXCEPT ![nm] = None]

Return(r, code) ==
    /\ call' = [call EXCEPT ![r] = NoCall]
    /\ rc' = [rc EXCEPT ![r] = code]

\* A system call fails (no space, no memory).
Fault == faults < MaxFaults /\ faults' = faults + 1

(***************************************************************************)
(* comm_init, comm_derive_context.                                         *)
(***************************************************************************)
comm_init(r) ==
    /\ h' = [h EXCEPT ![r] = [NoHandle EXCEPT !.open = TRUE]]
    /\ life' = [life EXCEPT ![r] = @ + 1]
    /\ Return(r, 0)
    /\ UNCHANGED <<segs, created, link, counted, granted, barrier>>

comm_derive_context(r) ==
    /\ IF h[r].base = None
         THEN Return(r, 1) /\ UNCHANGED h
         ELSE Return(r, 0) /\ h' = [h EXCEPT ![r].derived = TRUE]
    /\ UNCHANGED <<segs, created, link, hist, barrier>>

(***************************************************************************)
(* comm_alloc_windows (nm = Base) and comm_alloc_domain_windows.  For the  *)
(* base segment is_creator lives in the handle and is never cleared.       *)
(***************************************************************************)
OpenExclusive(r, nm) ==
    /\ IF nm # Base /\ h[r].domain[nm] # None
         THEN Return(r, 1) /\ UNCHANGED <<created, link, h>>
         ELSE IF link[nm] = None
         THEN /\ created < MaxSegments
              /\ created' = created + 1
              /\ link' = [link EXCEPT ![nm] = created']
              /\ call' = [call EXCEPT ![r] = [NoCall EXCEPT !.pc = "truncate", !.name = nm,
                                              !.seg = created', !.is_creator = TRUE]]
              /\ h' = IF nm = Base THEN [h EXCEPT ![r].is_creator = TRUE] ELSE h
              /\ UNCHANGED rc
         ELSE /\ call' = [call EXCEPT ![r] = [NoCall EXCEPT !.pc = "attach", !.name = nm,
                                              !.is_creator = nm = Base /\ h[r].is_creator]]
              /\ UNCHANGED <<created, link, h, rc>>
    /\ UNCHANGED <<segs, hist, barrier>>

Truncate(r) ==
    /\ At(r, "truncate")
    /\ \/ /\ segs' = [segs EXCEPT ![call[r].seg].sized = TRUE]
          /\ GoTo(r, "map")
          /\ UNCHANGED <<link, rc, faults>>
       \/ Fault /\ Unlink(call[r].name) /\ Return(r, 1) /\ UNCHANGED segs
    /\ UNCHANGED <<created, h, ip, alive, gaveUp, hist, barrier>>

\* The second shm_open, without O_CREAT: the name may be gone by now.
OpenExisting(r) ==
    /\ At(r, "attach")
    /\ LET s == link[call[r].name] IN
         IF s = None THEN Return(r, 1)
         ELSE call' = [call EXCEPT ![r].pc = "sized", ![r].seg = s] /\ UNCHANGED rc
    /\ UNCHANGED <<segs, created, link, h, ip, alive, faults, gaveUp, hist, barrier>>

AwaitSized(r) ==
    /\ At(r, "sized") /\ Seg(r).sized
    /\ GoTo(r, "map")
    /\ UNCHANGED <<segs, created, link, h, rc, ip, alive, faults, gaveUp, hist, barrier>>

\* mmap; the creator then writes the header, alloc_done last.
Map(r) ==
    LET nm == call[r].name
        s == call[r].seg IN
    /\ At(r, "map")
    /\ \/ /\ h' = IF nm = Base THEN [h EXCEPT ![r].base = s] ELSE h
          /\ segs' = IF call[r].is_creator
                       THEN [segs EXCEPT ![s] = [Header EXCEPT !.sized = TRUE, !.alloc_done = TRUE]]
                       ELSE segs
          /\ GoTo(r, IF call[r].is_creator THEN "ready" ELSE "done")
          /\ UNCHANGED <<link, rc, faults>>
       \/ /\ Fault
          /\ IF nm # Base /\ call[r].is_creator THEN Unlink(nm) ELSE UNCHANGED link
          /\ Return(r, 1)
          /\ UNCHANGED <<segs, h>>
    /\ UNCHANGED <<created, ip, alive, gaveUp, hist, barrier>>

AwaitDone(r) ==
    /\ At(r, "done") /\ Seg(r).alloc_done
    /\ GoTo(r, "ready")
    /\ UNCHANGED <<segs, created, link, h, rc, ip, alive, faults, gaveUp, hist, barrier>>

\* Mutant: the ready barrier opens one rank early.
AwaitPeersEarly(r) ==
    LET nm == call[r].name IN
    /\ At(r, "peers") /\ Seg(r).ready_count + 1 >= nranks(nm)
    /\ h' = IF nm = Base THEN h ELSE [h EXCEPT ![r].domain[nm] = call[r].seg]
    /\ granted' = [granted EXCEPT ![r] = @ \cup {<<call[r].seg, life[r], nm>>}]
    /\ Return(r, 0)
    /\ UNCHANGED <<segs, created, link, ip, alive, faults, gaveUp, counted, life, barrier>>

CountReady(r) ==
    /\ At(r, "ready")
    /\ AddTo(r, "ready_count")
    /\ counted' = [counted EXCEPT ![call[r].seg] = @ \cup {<<r, life[r]>>}]
    /\ GoTo(r, "peers")
    /\ UNCHANGED <<created, link, h, rc, ip, alive, faults, gaveUp, granted, life, barrier>>

AwaitPeers(r) ==
    LET nm == call[r].name IN
    /\ At(r, "peers") /\ Seg(r).ready_count >= nranks(nm)
    /\ h' = IF nm = Base THEN h ELSE [h EXCEPT ![r].domain[nm] = call[r].seg]
    /\ granted' = [granted EXCEPT ![r] = @ \cup {<<call[r].seg, life[r], nm>>}]
    /\ Return(r, 0)
    /\ UNCHANGED <<segs, created, link, ip, alive, faults, gaveUp, counted, life, barrier>>

(***************************************************************************)
(* comm_barrier: snapshot the phase, count, wait for the phase to change;  *)
(* the last rank resets the count and then advances the phase.             *)
(***************************************************************************)
SnapshotPhase(r) ==
    /\ IF h[r].base = None
         THEN Return(r, 1)
         ELSE /\ call' = [call EXCEPT ![r] = [NoCall EXCEPT !.pc = "arrive", !.seg = h[r].base,
                                              !.phase = segs[h[r].base].barrier_phase]]
              /\ UNCHANGED rc
    /\ UNCHANGED <<segs, created, link, h, hist, barrier>>

\* Mutant: off by one in the test for the last rank.
ArriveEarly(r) ==
    /\ At(r, "arrive")
    /\ AddTo(r, "barrier_count")
    /\ GoTo(r, IF Seg(r).barrier_count + 2 = nranks(Base) THEN "reset" ELSE "phase")
    /\ entered' = [entered EXCEPT ![call[r].seg][r] = @ + 1]
    /\ UNCHANGED <<created, link, h, rc, ip, alive, faults, gaveUp, hist, left, broken>>

Arrive(r) ==
    /\ At(r, "arrive")
    /\ AddTo(r, "barrier_count")
    /\ GoTo(r, IF Seg(r).barrier_count + 1 = nranks(Base) THEN "reset" ELSE "phase")
    /\ entered' = [entered EXCEPT ![call[r].seg][r] = @ + 1]
    /\ UNCHANGED <<created, link, h, rc, ip, alive, faults, gaveUp, hist, left, broken>>

ResetCount(r) ==
    /\ At(r, "reset")
    /\ segs' = [segs EXCEPT ![call[r].seg].barrier_count = 0]
    /\ GoTo(r, "advance")
    /\ UNCHANGED <<created, link, h, rc, ip, alive, faults, gaveUp, hist, barrier>>

LeaveBarrier(r) ==
    /\ left' = [left EXCEPT ![call[r].seg][r] = @ + 1]
    /\ Return(r, 0)
    /\ UNCHANGED <<created, link, h, ip, alive, faults, gaveUp, hist, entered, broken>>

AdvancePhase(r) == At(r, "advance") /\ AddTo(r, "barrier_phase") /\ LeaveBarrier(r)

AwaitPhase(r) ==
    /\ At(r, "phase") /\ Seg(r).barrier_phase # call[r].phase
    /\ LeaveBarrier(r)
    /\ UNCHANGED segs

(***************************************************************************)
(* comm_release_domain_windows and comm_destroy: the last rank out unlinks *)
(* the name, the others wait for it and only unmap.                        *)
(***************************************************************************)
\* What is left of the handle when the segment under nm is unmapped.
Unmapped(hd, nm) == IF nm = Base THEN NoHandle ELSE [hd EXCEPT !.domain[nm] = None]

\* Mutant: nobody is the last one out.
CountGoneNeverLast(r, nm, s) ==
    /\ segs' = [segs EXCEPT ![s].destroy_count = @ + 1]
    /\ call' = [call EXCEPT ![r] = [NoCall EXCEPT !.name = nm, !.seg = s, !.pc =
                  IF segs[s].destroy_count >= nranks(nm) THEN "unlink" ELSE "drain"]]

CountGone(r, nm, s) ==
    /\ segs' = [segs EXCEPT ![s].destroy_count = @ + 1]
    /\ call' = [call EXCEPT ![r] = [NoCall EXCEPT !.name = nm, !.seg = s, !.pc =
                  IF segs[s].destroy_count + 1 >= nranks(nm) THEN "unlink" ELSE "drain"]]

comm_release_domain_windows(r, nm) ==
    /\ IF h[r].domain[nm] = None
         THEN Return(r, 1) /\ UNCHANGED segs
         ELSE CountGone(r, nm, h[r].domain[nm]) /\ UNCHANGED rc
    /\ UNCHANGED <<created, link, h, hist, barrier>>

\* Domain windows still live are unmapped and unlinked without a barrier.
comm_destroy(r) ==
    /\ link' = [nm \in Names |-> IF nm \in Domains /\ h[r].domain[nm] # None THEN None ELSE link[nm]]
    /\ IF h[r].base = None
         THEN Return(r, 0) /\ h' = [h EXCEPT ![r] = NoHandle] /\ UNCHANGED segs
         ELSE /\ h' = [h EXCEPT ![r].domain = NoHandle.domain, ![r].derived = FALSE]
              /\ CountGone(r, Base, h[r].base)
              /\ UNCHANGED rc
    /\ UNCHANGED <<created, hist, barrier>>

LastOut(r) ==
    LET nm == call[r].name IN
    /\ At(r, "unlink")
    /\ Unlink(nm)
    /\ h' = [h EXCEPT ![r] = Unmapped(@, nm)]
    /\ Return(r, 0)
    /\ UNCHANGED <<segs, created, ip, alive, faults, gaveUp, hist, barrier>>

AwaitGone(r) ==
    LET nm == call[r].name IN
    /\ At(r, "drain") /\ Seg(r).destroy_count >= nranks(nm)
    /\ h' = [h EXCEPT ![r] = Unmapped(@, nm)]
    /\ Return(r, 0)
    /\ UNCHANGED <<segs, created, link, ip, alive, faults, gaveUp, hist, barrier>>

(***************************************************************************)
(* wait_until: the deadline of any of the waits passes first.  Nothing     *)
(* that the rank has counted is taken back.                                *)
(***************************************************************************)
\* Mutant: the destroy barrier waits without a deadline.
WaitingButForDestroy(r) ==
    \/ At(r, "sized") /\ ~Seg(r).sized
    \/ At(r, "done") /\ ~Seg(r).alloc_done
    \/ At(r, "peers") /\ Seg(r).ready_count < nranks(call[r].name)
    \/ At(r, "phase") /\ Seg(r).barrier_phase = call[r].phase

Waiting(r) ==
    \/ At(r, "sized") /\ ~Seg(r).sized
    \/ At(r, "done") /\ ~Seg(r).alloc_done
    \/ At(r, "peers") /\ Seg(r).ready_count < nranks(call[r].name)
    \/ At(r, "phase") /\ Seg(r).barrier_phase = call[r].phase
    \/ At(r, "drain") /\ Seg(r).destroy_count < nranks(call[r].name)

TimeOut(r) ==
    /\ Waiting(r)
    /\ gaveUp' = TRUE
    /\ h' = IF At(r, "drain") THEN [h EXCEPT ![r] = Unmapped(@, call[r].name)] ELSE h
    /\ IF At(r, "phase")
         THEN /\ left' = [left EXCEPT ![call[r].seg][r] = @ + 1]
              /\ broken' = [broken EXCEPT ![call[r].seg] = TRUE]
         ELSE UNCHANGED <<left, broken>>
    /\ Return(r, 1)
    /\ UNCHANGED <<segs, created, link, ip, alive, faults, hist, entered>>

-----------------------------------------------------------------------------
(***************************************************************************)
(* The callers.  A rank makes the calls of the program in order; after an  *)
(* error it may go on or go straight to the destroy at the end.  A process *)
(* may die anywhere: its mappings go with it, its counts stay.             *)
(***************************************************************************)
Calls(r, op, nm) ==
    CASE op = "init" -> comm_init(r)
      [] op = "alloc" -> OpenExclusive(r, nm)
      [] op = "derive" -> comm_derive_context(r)
      [] op = "barrier" -> SnapshotPhase(r)
      [] op = "release" -> comm_release_domain_windows(r, nm)
      [] op = "destroy" -> comm_destroy(r)

NextCall(r) ==
    /\ At(r, "user") /\ ip[r] <= Len(Program)
    /\ ip' = [ip EXCEPT ![r] = @ + 1]
    /\ LET op == Program[ip[r]][1]
           nm == Program[ip[r]][2] IN
         IF r \in Of(nm) THEN Calls(r, op, nm) ELSE UNCHANGED <<libvars, hist, barrier>>
    /\ UNCHANGED <<alive, faults, gaveUp>>

Abandon(r) ==
    /\ At(r, "user") /\ rc[r] # 0 /\ ip[r] < Len(Program)
    /\ ip' = [ip EXCEPT ![r] = Len(Program)]
    /\ UNCHANGED <<libvars, alive, faults, gaveUp, hist, barrier>>

Die(r) ==
    /\ alive[r] /\ Fault
    /\ alive' = [alive EXCEPT ![r] = FALSE]
    /\ h' = [h EXCEPT ![r] = NoHandle]
    /\ call' = [call EXCEPT ![r] = NoCall]
    /\ UNCHANGED <<segs, created, link, rc, ip, gaveUp, hist, barrier>>

Step(r) ==
    \/ Truncate(r) \/ OpenExisting(r) \/ AwaitSized(r) \/ Map(r) \/ AwaitDone(r)
    \/ CountReady(r) \/ AwaitPeers(r)
    \/ Arrive(r) \/ ResetCount(r) \/ AdvancePhase(r) \/ AwaitPhase(r)
    \/ LastOut(r) \/ AwaitGone(r) \/ TimeOut(r)

Next == \E r \in Ranks : NextCall(r) \/ Abandon(r) \/ Die(r) \/ Step(r)

Spec == Init /\ [][Next]_vars

\* Every process runs, and every wait has its deadline.
Fairness == \A r \in Ranks : WF_vars(Step(r))
FairSpec == Spec /\ Fairness

-----------------------------------------------------------------------------
\* A rank whose allocation returned shares its segment with every other member:
\* each of them has attached to that very segment since it called comm_init, so
\* no window pointer refers to memory of a peer that is not there.
AllocIsUnanimous ==
    \A r \in Ranks : \A g \in granted[r] :
        \A q \in Of(g[3]) : <<q, g[2]>> \in counted[g[1]]

\* comm_barrier on every segment keeps the promise of CommBarrier, back-to-back
\* re-entry included, until a rank reaches its deadline inside a barrier.
Barrier == INSTANCE CommBarrier
BarriersImplement == Barrier!Spec

\* When every rank has run its program to the end, no failed call and no deadline
\* on the way, /dev/shm is as empty as before: the last one out unlinks.
NothingLingers ==
    (\A r \in Ranks : At(r, "user") /\ ip[r] > Len(Program)) /\ faults = 0 /\ ~gaveUp
        => \A nm \in Names : link[nm] = None

\* "a dead peer cannot hang survivors forever": every library call returns,
\* unless its own process dies.
CallsReturn == \A r \in Ranks : (call[r].pc # "user") ~> (call[r].pc = "user")
=============================================================================
