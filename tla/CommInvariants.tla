--------------------------- MODULE CommInvariants ---------------------------
(***************************************************************************)
(* The simulated communicator, for any number of ranks and domains: the    *)
(* types of its state, what a step of a rank leaves alone, what a rank may *)
(* hold and be calling; that the phase, the count and the ranks that wait  *)
(* at a barrier agree as long as nobody gives up; and that nobody is       *)
(* counted twice among those ready for an allocation.                      *)
(***************************************************************************)
EXTENDS CommSim, TLAPS

Headers == [sized : BOOLEAN, alloc_done : BOOLEAN, ready_count : Nat,
            barrier_count : Nat, barrier_phase : Nat, destroy_count : Nat]
Handles == [open : BOOLEAN, is_creator : BOOLEAN, base : 0 .. MaxSegments,
            domain : [Domains -> 0 .. MaxSegments], derived : BOOLEAN]
Setup == {"truncate", "attach", "sized", "map", "done", "ready"}
Inside == {"phase", "reset", "advance"}
CallPcs == Setup \cup Inside \cup {"user", "peers", "arrive", "unlink", "drain"}
LibCalls == [pc : CallPcs, name : Names, seg : 0 .. MaxSegments, is_creator : BOOLEAN, phase : Nat]

\* A call that is past its shm_open knows its segment.
TypeOK ==
    /\ segs \in [Segments -> Headers]
    /\ created \in 0 .. MaxSegments
    /\ link \in [Names -> 0 .. MaxSegments]
    /\ h \in [Ranks -> Handles]
    /\ call \in [Ranks -> LibCalls]
    /\ ip \in [Ranks -> Nat \ {0}]
    /\ rc \in [Ranks -> {0, 1}]
    /\ alive \in [Ranks -> BOOLEAN]
    /\ counted \in [Segments -> SUBSET (Ranks \X Nat)]
    /\ granted \in [Ranks -> SUBSET (Segments \X Nat \X Names)]
    /\ life \in [Ranks -> Nat]
    /\ entered \in [Segments -> [Ranks -> Nat]]
    /\ left \in [Segments -> [Ranks -> Nat]]
    /\ broken \in [Segments -> BOOLEAN]
    /\ \A r \in Ranks : call[r].pc \notin {"user", "attach"} => call[r].seg # None

LEMMA RecordTypes == Header \in Headers /\ NoHandle \in Handles /\ NoCall \in LibCalls
BY CommAssumption DEF Header, Headers, NoHandle, Handles, NoCall, LibCalls, CallPcs, Names, None

LEMMA InitType == Init => TypeOK
BY RecordTypes, CommAssumption DEF Init, TypeOK, NoCall, None

\* A library call goes on to x, or returns.
CallChanges(r, x) ==
    call' \in [Ranks -> LibCalls] /\ call'[r] = x /\ \A q \in Ranks \ {r} : call'[q] = call[q]

LEMMA CallUpdate ==
    ASSUME TypeOK, NEW r \in Ranks, NEW x \in LibCalls, call' = [call EXCEPT ![r] = x]
    PROVE  CallChanges(r, x)
BY Zenon DEF TypeOK, CallChanges

LEMMA ReturnChanges ==
    ASSUME TypeOK, NEW r \in Ranks, NEW code \in {0, 1}, Return(r, code)
    PROVE  CallChanges(r, NoCall) /\ rc' \in [Ranks -> {0, 1}]
BY Zenon, RecordTypes DEF Return, TypeOK, CallChanges

LEMMA GoToChanges ==
    ASSUME TypeOK, NEW r \in Ranks, NEW pc \in CallPcs, GoTo(r, pc)
    PROVE  /\ call' \in [Ranks -> LibCalls] /\ \A q \in Ranks \ {r} : call'[q] = call[q]
           /\ call'[r].pc = pc /\ call'[r].name = call[r].name /\ call'[r].seg = call[r].seg
           /\ call'[r].is_creator = call[r].is_creator /\ call'[r].phase = call[r].phase
<1> DEFINE x == [call[r] EXCEPT !.pc = pc]
<1>1. call \in [Ranks -> LibCalls]
  BY Zenon DEF TypeOK
<1>2. /\ x \in LibCalls /\ x.pc = pc /\ x.name = call[r].name /\ x.seg = call[r].seg
      /\ x.is_creator = call[r].is_creator /\ x.phase = call[r].phase
  BY Zenon, <1>1 DEF LibCalls
<1>3. call' = [call EXCEPT ![r] = x]
  BY Zenon DEF GoTo
<1> HIDE DEF x
<1> QED BY Zenon, <1>2, <1>3, CallUpdate DEF CallChanges

\* One entry of segs, link or h changes.
LEMMA SegUpdate ==
    ASSUME TypeOK, NEW s \in Segments, NEW x \in Headers, segs' = [segs EXCEPT ![s] = x]
    PROVE  segs' \in [Segments -> Headers] /\ segs'[s] = x /\ \A t \in Segments \ {s} : segs'[t] = segs[t]
BY Zenon DEF TypeOK

LEMMA HandleUpdate ==
    ASSUME TypeOK, NEW r \in Ranks, NEW x \in Handles, h' = [h EXCEPT ![r] = x]
    PROVE  h' \in [Ranks -> Handles]
BY Zenon DEF TypeOK

LEMMA UnlinkType ==
    ASSUME TypeOK, NEW nm, Unlink(nm) \/ UNCHANGED link
    PROVE  link' \in [Names -> 0 .. MaxSegments]
BY CommAssumption DEF Unlink, TypeOK, None

\* One counter of the header of a segment moves.
LEMMA AddToReady ==
    ASSUME TypeOK, NEW r \in Ranks, call[r].seg \in Segments, AddTo(r, "ready_count")
    PROVE  /\ segs' \in [Segments -> Headers] /\ \A s \in Segments \ {call[r].seg} : segs'[s] = segs[s]
           /\ segs'[call[r].seg] = [Seg(r) EXCEPT !.ready_count = @ + 1]
<1>1. Seg(r) \in Headers /\ Seg(r).ready_count + 1 \in Nat
  BY DEF TypeOK, Seg, Headers
<1>2. [Seg(r) EXCEPT !.ready_count = @ + 1] \in Headers
  BY Zenon, <1>1 DEF Headers
<1> QED BY Zenon, <1>2, SegUpdate DEF AddTo, Seg

LEMMA AddToCount ==
    ASSUME TypeOK, NEW r \in Ranks, call[r].seg \in Segments, AddTo(r, "barrier_count")
    PROVE  /\ segs' \in [Segments -> Headers] /\ \A s \in Segments \ {call[r].seg} : segs'[s] = segs[s]
           /\ segs'[call[r].seg] = [Seg(r) EXCEPT !.barrier_count = @ + 1]
<1>1. Seg(r) \in Headers /\ Seg(r).barrier_count + 1 \in Nat
  BY DEF TypeOK, Seg, Headers
<1>2. [Seg(r) EXCEPT !.barrier_count = @ + 1] \in Headers
  BY Zenon, <1>1 DEF Headers
<1> QED BY Zenon, <1>2, SegUpdate DEF AddTo, Seg

LEMMA AddToPhase ==
    ASSUME TypeOK, NEW r \in Ranks, call[r].seg \in Segments, AddTo(r, "barrier_phase")
    PROVE  /\ segs' \in [Segments -> Headers] /\ \A s \in Segments \ {call[r].seg} : segs'[s] = segs[s]
           /\ segs'[call[r].seg] = [Seg(r) EXCEPT !.barrier_phase = @ + 1]
<1>1. Seg(r) \in Headers /\ Seg(r).barrier_phase + 1 \in Nat
  BY DEF TypeOK, Seg, Headers
<1>2. [Seg(r) EXCEPT !.barrier_phase = @ + 1] \in Headers
  BY Zenon, <1>1 DEF Headers
<1> QED BY Zenon, <1>2, SegUpdate DEF AddTo, Seg

LEMMA UnmappedType == ASSUME NEW x \in Handles, NEW nm \in Names PROVE Unmapped(x, nm) \in Handles
<1>1. 0 \in 0 .. MaxSegments
  BY CommAssumption
<1>2. [x EXCEPT !.domain[nm] = None] \in Handles
  BY Zenon, <1>1 DEF Handles, None
<1> QED BY Zenon, <1>2, RecordTypes DEF Unmapped

-----------------------------------------------------------------------------
LEMMA OpenType == ASSUME TypeOK, NEW r \in Ranks, NEW nm \in Names, OpenExclusive(r, nm),
                         UNCHANGED <<alive>>, ip' \in [Ranks -> Nat \ {0}] PROVE TypeOK'
<1>1. CASE nm # Base /\ h[r].domain[nm] # None
  <2>1. Return(r, 1) /\ UNCHANGED <<segs, created, link, h, hist, barrier>>
    BY Zenon, <1>1 DEF OpenExclusive
  <2>2. CallChanges(r, NoCall) /\ rc' \in [Ranks -> {0, 1}]
    BY Zenon, <2>1, ReturnChanges
  <2> QED BY <2>1, <2>2 DEF TypeOK, CallChanges, NoCall, hist, barrier
<1>2. CASE ~(nm # Base /\ h[r].domain[nm] # None) /\ link[nm] = None
  <2> DEFINE x == [NoCall EXCEPT !.pc = "truncate", !.name = nm, !.seg = created', !.is_creator = TRUE]
  <2>1. created' \in 0 .. MaxSegments /\ created' # None
    BY <1>2, CommAssumption DEF OpenExclusive, TypeOK, None
  <2>2. x \in LibCalls /\ x.seg = created'
    BY Zenon, <2>1, RecordTypes DEF LibCalls, CallPcs, Setup, NoCall
  <2>3. call' = [call EXCEPT ![r] = x]
    BY Zenon, <1>2 DEF OpenExclusive
  <2> HIDE DEF x
  <2>4. CallChanges(r, x)
    BY Zenon, <2>2, <2>3, CallUpdate
  <2>5. link' = [link EXCEPT ![nm] = created'] /\ UNCHANGED <<segs, rc, hist, barrier>>
    BY Zenon, <1>2 DEF OpenExclusive
  <2>6. h' = [h EXCEPT ![r].is_creator = TRUE] \/ h' = h
    BY Zenon, <1>2 DEF OpenExclusive
  <2>7. h' \in [Ranks -> Handles]
    <3>1. h \in [Ranks -> Handles]
      BY Zenon DEF TypeOK
    <3>2. [h[r] EXCEPT !.is_creator = TRUE] \in Handles
      BY Zenon, <3>1 DEF Handles
    <3> QED BY Zenon, <2>6, <3>1, <3>2
  <2> QED BY Zenon, <2>1, <2>2, <2>4, <2>5, <2>7 DEF TypeOK, CallChanges, hist, barrier
<1>3. CASE ~(nm # Base /\ h[r].domain[nm] # None) /\ link[nm] # None
  <2> DEFINE x == [NoCall EXCEPT !.pc = "attach", !.name = nm, !.is_creator = nm = Base /\ h[r].is_creator]
  <2>1. x \in LibCalls /\ x.pc = "attach"
    BY Zenon, RecordTypes DEF LibCalls, CallPcs, Setup, NoCall
  <2>2. call' = [call EXCEPT ![r] = x]
    BY Zenon, <1>3 DEF OpenExclusive
  <2> HIDE DEF x
  <2>3. CallChanges(r, x)
    BY Zenon, <2>1, <2>2, CallUpdate
  <2>4. UNCHANGED <<segs, created, link, h, rc, hist, barrier>>
    BY Zenon, <1>3 DEF OpenExclusive
  <2> QED BY Zenon, <2>1, <2>3, <2>4 DEF TypeOK, CallChanges, hist, barrier
<1> QED BY Zenon, <1>1, <1>2, <1>3

LEMMA ReturnType ==
    ASSUME TypeOK, NEW r \in Ranks, NEW code \in {0, 1}, Return(r, code),
           segs' \in [Segments -> Headers], h' \in [Ranks -> Handles], link' \in [Names -> 0 .. MaxSegments],
           ip' \in [Ranks -> Nat \ {0}], life' \in [Ranks -> Nat], left' \in [Segments -> [Ranks -> Nat]],
           broken' \in [Segments -> BOOLEAN], granted' \in [Ranks -> SUBSET (Segments \X Nat \X Names)],
           UNCHANGED <<created, alive, counted, entered>>
    PROVE  TypeOK'
<1>1. CallChanges(r, NoCall) /\ rc' \in [Ranks -> {0, 1}]
  BY Zenon, ReturnChanges
<1> QED BY SMTT(20), <1>1 DEF TypeOK, CallChanges, NoCall

LEMMA SegType ==
    ASSUME TypeOK, NEW s \in Segments
    PROVE  /\ [segs EXCEPT ![s].sized = TRUE] \in [Segments -> Headers]
           /\ [segs EXCEPT ![s].barrier_count = 0] \in [Segments -> Headers]
           /\ [segs EXCEPT ![s].destroy_count = @ + 1] \in [Segments -> Headers]
           /\ [segs EXCEPT ![s] = [Header EXCEPT !.sized = TRUE, !.alloc_done = TRUE]] \in [Segments -> Headers]
<1>1. segs \in [Segments -> Headers] /\ segs[s] \in Headers /\ Header \in Headers
  BY Zenon, RecordTypes DEF TypeOK
<1>2. [segs[s] EXCEPT !.sized = TRUE] \in Headers /\ [segs[s] EXCEPT !.barrier_count = 0] \in Headers
  BY Zenon, <1>1 DEF Headers
<1>3. segs[s].destroy_count + 1 \in Nat
  BY <1>1 DEF Headers
<1>4. [segs[s] EXCEPT !.destroy_count = segs[s].destroy_count + 1] \in Headers
  BY Zenon, <1>1, <1>3 DEF Headers
<1>5. [Header EXCEPT !.sized = TRUE, !.alloc_done = TRUE] \in Headers
  BY Zenon, <1>1 DEF Headers
<1> QED BY Zenon, <1>1, <1>2, <1>4, <1>5

LEMMA GoneType ==
    ASSUME TypeOK, NEW r \in Ranks, NEW nm \in Names, NEW s \in Segments, CountGone(r, nm, s),
           h' \in [Ranks -> Handles], link' \in [Names -> 0 .. MaxSegments], ip' \in [Ranks -> Nat \ {0}],
           UNCHANGED <<created, rc, alive, hist, barrier>>
    PROVE  TypeOK' /\ call'[r].pc \in {"unlink", "drain"} /\ call'[r].seg = s
           /\ \A q \in Ranks \ {r} : call'[q] = call[q]
<1> DEFINE x == [NoCall EXCEPT !.name = nm, !.seg = s, !.pc =
                   IF segs[s].destroy_count + 1 >= nranks(nm) THEN "unlink" ELSE "drain"]
<1>1. s \in 0 .. MaxSegments /\ s # None
  BY CommAssumption DEF Segments, None
<1>2. x \in LibCalls
  BY Zenon, <1>1, RecordTypes DEF LibCalls, CallPcs
<1>3. x.seg = s /\ x.pc \in {"unlink", "drain"}
  BY Zenon DEF NoCall
<1>4. call' = [call EXCEPT ![r] = x]
  BY Zenon DEF CountGone
<1> HIDE DEF x
<1>5. CallChanges(r, x)
  BY Zenon, <1>2, <1>4, CallUpdate
<1>6. segs' \in [Segments -> Headers]
  BY Zenon, SegType DEF CountGone
<1> QED BY Zenon, <1>1, <1>3, <1>5, <1>6 DEF TypeOK, CallChanges, hist, barrier

LEMMA CallsType ==
    ASSUME TypeOK, NEW r \in Ranks, NEW i \in DOMAIN Program, r \in Of(Program[i][2]),
           Calls(r, Program[i][1], Program[i][2]), UNCHANGED alive, ip' \in [Ranks -> Nat \ {0}]
    PROVE  TypeOK'
<1> DEFINE op == Program[i][1]
           nm == Program[i][2]
<1>1. /\ op \in {"init", "barrier", "derive", "destroy", "alloc", "release"} /\ nm \in Names
      /\ op = "release" => nm \in Domains
  BY ProgramAssumption DEF Names
<1>2. Calls(r, op, nm)
  BY Zenon
<1> HIDE DEF op, nm
<1>3. CASE op = "init"
  <2>1. comm_init(r)
    BY Zenon, <1>2, <1>3 DEF Calls
  <2>2. life' \in [Ranks -> Nat]
    BY <2>1 DEF comm_init, TypeOK
  <2>3. h' \in [Ranks -> Handles]
    <3>1. [NoHandle EXCEPT !.open = TRUE] \in Handles
      BY Zenon, RecordTypes DEF Handles
    <3> QED BY Zenon, <2>1, <3>1, HandleUpdate DEF comm_init
  <2> QED BY Zenon, <2>1, <2>2, <2>3, ReturnType DEF comm_init, TypeOK, barrier
<1>4. CASE op = "alloc"
  BY Zenon, <1>1, <1>2, <1>4, OpenType DEF Calls
<1>5. CASE op = "derive"
  <2>1. comm_derive_context(r)
    BY Zenon, <1>2, <1>5 DEF Calls
  <2>2. h' \in [Ranks -> Handles]
    <3>1. h' = h \/ h' = [h EXCEPT ![r].derived = TRUE]
      BY Zenon, <2>1 DEF comm_derive_context
    <3>2. h \in [Ranks -> Handles]
      BY Zenon DEF TypeOK
    <3>3. [h[r] EXCEPT !.derived = TRUE] \in Handles
      BY Zenon, <3>2 DEF Handles
    <3> QED BY Zenon, <3>1, <3>2, <3>3, HandleUpdate
  <2>3. PICK code \in {0, 1} : Return(r, code)
    BY Zenon, <2>1 DEF comm_derive_context
  <2> QED BY Zenon, <2>1, <2>2, <2>3, ReturnType DEF comm_derive_context, TypeOK, hist, barrier
<1>6. CASE op = "barrier"
  <2>1. SnapshotPhase(r)
    BY Zenon, <1>2, <1>6 DEF Calls
  <2>2. CASE h[r].base = None
    <3>1. Return(r, 1) /\ UNCHANGED <<segs, created, link, h, hist, barrier>>
      BY Zenon, <2>1, <2>2 DEF SnapshotPhase
    <3> QED BY Zenon, <3>1, ReturnType DEF TypeOK, hist, barrier
  <2>3. CASE h[r].base # None
    <3> DEFINE x == [NoCall EXCEPT !.pc = "arrive", !.seg = h[r].base,
                                   !.phase = segs[h[r].base].barrier_phase]
    <3>1. h[r].base \in 0 .. MaxSegments /\ segs[h[r].base].barrier_phase \in Nat
      BY <2>3 DEF TypeOK, Handles, Headers, Segments, None
    <3>2. x \in LibCalls
      BY Zenon, <3>1, RecordTypes DEF LibCalls, CallPcs
    <3>3. x.seg = h[r].base
      BY Zenon DEF NoCall
    <3>4. call' = [call EXCEPT ![r] = x] /\ UNCHANGED <<segs, created, link, h, rc, hist, barrier>>
      BY Zenon, <2>1, <2>3 DEF SnapshotPhase
    <3> HIDE DEF x
    <3>5. CallChanges(r, x)
      BY Zenon, <3>2, <3>4, CallUpdate
    <3> QED BY Zenon, <2>3, <3>3, <3>4, <3>5 DEF TypeOK, CallChanges, hist, barrier
  <2> QED BY Zenon, <2>2, <2>3
<1>7. CASE op = "release"
  <2>1. comm_release_domain_windows(r, nm) /\ nm \in Domains
    BY Zenon, <1>1, <1>2, <1>7 DEF Calls
  <2>2. CASE h[r].domain[nm] = None
    <3>1. Return(r, 1) /\ UNCHANGED <<segs, created, link, h, hist, barrier>>
      BY Zenon, <2>1, <2>2 DEF comm_release_domain_windows
    <3> QED BY Zenon, <3>1, ReturnType DEF TypeOK, hist, barrier
  <2>3. CASE h[r].domain[nm] # None
    <3>1. CountGone(r, nm, h[r].domain[nm]) /\ UNCHANGED <<created, link, h, rc, hist, barrier>>
      BY Zenon, <2>1, <2>3 DEF comm_release_domain_windows
    <3>2. h[r].domain[nm] \in Segments
      BY <2>1, <2>3 DEF TypeOK, Handles, Segments, None
    <3> QED BY Zenon, <1>1, <3>1, <3>2, GoneType DEF TypeOK
  <2> QED BY Zenon, <2>2, <2>3
<1>8. CASE op = "destroy"
  <2>1. comm_destroy(r)
    BY Zenon, <1>2, <1>8 DEF Calls
  <2>2. link' \in [Names -> 0 .. MaxSegments]
    <3>1. link' = [n \in Names |-> IF n \in Domains /\ h[r].domain[n] # None THEN None ELSE link[n]]
      BY Zenon, <2>1 DEF comm_destroy
    <3> QED BY <3>1, CommAssumption DEF TypeOK, None
  <2>3. CASE h[r].base = None
    <3>1. Return(r, 0) /\ h' = [h EXCEPT ![r] = NoHandle] /\ UNCHANGED <<segs, created, hist, barrier>>
      BY Zenon, <2>1, <2>3 DEF comm_destroy
    <3>2. h' \in [Ranks -> Handles]
      BY Zenon, <3>1, RecordTypes, HandleUpdate
    <3> QED BY Zenon, <2>2, <3>1, <3>2, ReturnType DEF TypeOK, hist, barrier
  <2>4. CASE h[r].base # None
    <3>1. /\ CountGone(r, Base, h[r].base) /\ UNCHANGED <<created, rc, hist, barrier>>
          /\ h' = [h EXCEPT ![r].domain = NoHandle.domain, ![r].derived = FALSE]
      BY Zenon, <2>1, <2>4 DEF comm_destroy
    <3>2. h[r].base \in Segments /\ Base \in Names
      BY <2>4 DEF TypeOK, Handles, Segments, None, Names
    <3>3. h' \in [Ranks -> Handles]
      <4>1. h[r] \in Handles /\ NoHandle.domain \in [Domains -> 0 .. MaxSegments]
        BY Zenon, RecordTypes DEF TypeOK, Handles
      <4>2. [h[r] EXCEPT !.domain = NoHandle.domain, !.derived = FALSE] \in Handles
        BY Zenon, <4>1 DEF Handles
      <4>3. h' = [h EXCEPT ![r] = [h[r] EXCEPT !.domain = NoHandle.domain, !.derived = FALSE]]
        BY Zenon, <3>1, <4>1 DEF TypeOK
      <4> QED BY Zenon, <4>2, <4>3, HandleUpdate
    <3> QED BY Zenon, <2>2, <3>1, <3>2, <3>3, GoneType
  <2> QED BY Zenon, <2>3, <2>4
<1> QED BY Zenon, <1>1, <1>3, <1>4, <1>5, <1>6, <1>7, <1>8

LEMMA StepType == ASSUME TypeOK, NEW r \in Ranks, Step(r) PROVE TypeOK'
<1>1. call[r].seg \in 0 .. MaxSegments /\ call[r].name \in Names
  BY Zenon DEF TypeOK, LibCalls
<1>2. ASSUME NEW pc \in CallPcs, At(r, pc), pc \notin {"user", "attach"} PROVE call[r].seg \in Segments
  BY <1>1, <1>2 DEF TypeOK, At, Segments, None
<1>3. ASSUME NEW pc \in CallPcs, NEW old \in CallPcs \ {"user", "attach"}, GoTo(r, pc), At(r, old),
             segs' \in [Segments -> Headers], h' \in [Ranks -> Handles],
             counted' \in [Segments -> SUBSET (Ranks \X Nat)], entered' \in [Segments -> [Ranks -> Nat]],
             UNCHANGED <<created, link, rc, ip, alive, granted, life, left, broken>>
      PROVE  TypeOK'
  <2>1. call[r].seg # None
    BY Zenon, <1>3 DEF TypeOK, At
  <2>2. /\ call' \in [Ranks -> LibCalls] /\ \A q \in Ranks \ {r} : call'[q] = call[q]
        /\ call'[r].seg = call[r].seg
    BY Zenon, <1>3, GoToChanges
  <2> QED BY Zenon, <1>3, <2>1, <2>2 DEF TypeOK
<1>4. CASE Truncate(r)
  <2>1. call[r].seg \in Segments
    BY Zenon, <1>2, <1>4 DEF Truncate, CallPcs, Setup
  <2>2. CASE segs' = [segs EXCEPT ![call[r].seg].sized = TRUE] /\ GoTo(r, "map") /\ UNCHANGED <<link, rc, faults>>
    <3>1. segs' \in [Segments -> Headers]
      BY Zenon, <2>1, <2>2, SegType
    <3> QED BY Zenon, <1>3, <1>4, <2>2, <3>1 DEF Truncate, CallPcs, Setup, TypeOK, hist, barrier
  <2>3. CASE Unlink(call[r].name) /\ Return(r, 1) /\ UNCHANGED segs
    <3>1. link' \in [Names -> 0 .. MaxSegments]
      BY Zenon, <2>3, UnlinkType
    <3> QED BY Zenon, <1>4, <2>3, <3>1, ReturnType DEF Truncate, TypeOK, hist, barrier
  <2> QED BY Zenon, <1>4, <2>2, <2>3 DEF Truncate
<1>5. CASE OpenExisting(r)
  <2>1. CASE link[call[r].name] = None
    BY Zenon, <1>5, <2>1, ReturnType DEF OpenExisting, TypeOK, hist, barrier
  <2>2. CASE link[call[r].name] # None
    <3> DEFINE x == [call[r] EXCEPT !.pc = "sized", !.seg = link[call[r].name]]
    <3>1. link[call[r].name] \in 0 .. MaxSegments /\ call[r] \in LibCalls
      BY Zenon, <1>1 DEF TypeOK
    <3>2. x \in LibCalls /\ x.seg = link[call[r].name]
      BY Zenon, <3>1 DEF LibCalls, CallPcs, Setup
    <3>3. call' = [call EXCEPT ![r] = x] /\ UNCHANGED <<segs, created, link, h, rc, ip, alive, hist, barrier>>
      BY Zenon, <1>5, <2>2 DEF OpenExisting
    <3> HIDE DEF x
    <3>4. CallChanges(r, x)
      BY Zenon, <3>2, <3>3, CallUpdate
    <3> QED BY Zenon, <2>2, <3>2, <3>3, <3>4 DEF TypeOK, CallChanges, hist, barrier
  <2> QED BY Zenon, <2>1, <2>2
<1>6. CASE AwaitSized(r) \/ AwaitDone(r)
  BY Zenon, <1>3, <1>6 DEF AwaitSized, AwaitDone, CallPcs, Setup, TypeOK, hist, barrier
<1>7. CASE Map(r)
  <2>1. call[r].seg \in Segments
    BY Zenon, <1>2, <1>7 DEF Map, CallPcs, Setup
  <2>2. CASE GoTo(r, IF call[r].is_creator THEN "ready" ELSE "done") /\ UNCHANGED <<link, rc>>
             /\ h' \in {h, [h EXCEPT ![r].base = call[r].seg]}
             /\ segs' \in {segs, [segs EXCEPT ![call[r].seg] =
                                    [Header EXCEPT !.sized = TRUE, !.alloc_done = TRUE]]}
    <3>1. segs' \in [Segments -> Headers] /\ h' \in [Ranks -> Handles]
      <4>1. h \in [Ranks -> Handles] /\ segs \in [Segments -> Headers]
        BY Zenon DEF TypeOK
      <4>2. [h[r] EXCEPT !.base = call[r].seg] \in Handles
        BY Zenon, <1>1, <4>1 DEF Handles
      <4>3. [Header EXCEPT !.sized = TRUE, !.alloc_done = TRUE] \in Headers
        BY Zenon, RecordTypes DEF Headers
      <4>4. segs' \in [Segments -> Headers]
        BY Zenon, <2>1, <2>2, <4>1, <4>3, SegUpdate
      <4>5. h' \in [Ranks -> Handles]
        BY Zenon, <2>2, <4>1, <4>2, HandleUpdate
      <4> QED BY Zenon, <4>4, <4>5
    <3>2. At(r, "map") /\ UNCHANGED <<created, ip, alive, hist, barrier>>
      BY Zenon, <1>7 DEF Map
    <3> QED BY Zenon, <1>3, <2>2, <3>1, <3>2 DEF CallPcs, Setup, TypeOK, hist, barrier
  <2>3. CASE Return(r, 1) /\ UNCHANGED <<segs, h>>
             /\ (Unlink(call[r].name) \/ UNCHANGED link)
    <3>1. link' \in [Names -> 0 .. MaxSegments]
      BY Zenon, <2>3, UnlinkType
    <3>2. UNCHANGED <<created, ip, alive, hist, barrier>>
      BY Zenon, <1>7 DEF Map
    <3> QED BY Zenon, <2>3, <3>1, <3>2, ReturnType DEF TypeOK, hist, barrier
  <2> QED BY Zenon, <1>7, <2>2, <2>3 DEF Map
<1>8. CASE CountReady(r)
  <2>1. call[r].seg \in Segments
    BY Zenon, <1>2, <1>8 DEF CountReady, CallPcs, Setup
  <2>2. segs' \in [Segments -> Headers]
    BY Zenon, <1>8, <2>1, AddToReady DEF CountReady
  <2>3. counted' \in [Segments -> SUBSET (Ranks \X Nat)]
    BY <1>8, <2>1 DEF CountReady, TypeOK
  <2> QED BY Zenon, <1>3, <1>8, <2>2, <2>3 DEF CountReady, CallPcs, Setup, TypeOK, barrier
<1>9. CASE AwaitPeers(r)
  <2>1. call[r].seg \in Segments
    BY Zenon, <1>2, <1>9 DEF AwaitPeers, CallPcs
  <2>2. h' = h \/ (call[r].name \in Domains /\ h' = [h EXCEPT ![r].domain[call[r].name] = call[r].seg])
    BY Zenon, <1>1, <1>9 DEF AwaitPeers, Names
  <2>3. h' \in [Ranks -> Handles]
    <3>1. h \in [Ranks -> Handles]
      BY Zenon DEF TypeOK
    <3>2. [h[r] EXCEPT !.domain[call[r].name] = call[r].seg] \in Handles
      BY Zenon, <1>1, <3>1 DEF Handles
    <3> QED BY Zenon, <2>2, <3>1, <3>2, HandleUpdate
  <2>4. granted' \in [Ranks -> SUBSET (Segments \X Nat \X Names)]
    BY <1>1, <1>9, <2>1 DEF AwaitPeers, TypeOK
  <2> QED BY Zenon, <1>9, <2>3, <2>4, ReturnType DEF AwaitPeers, TypeOK, barrier
<1>10. CASE Arrive(r)
  <2>1. call[r].seg \in Segments
    BY Zenon, <1>2, <1>10 DEF Arrive, CallPcs
  <2>2. segs' \in [Segments -> Headers]
    BY Zenon, <1>10, <2>1, AddToCount DEF Arrive
  <2>3. entered' \in [Segments -> [Ranks -> Nat]]
    BY <1>10, <2>1 DEF Arrive, TypeOK
  <2> QED BY Zenon, <1>3, <1>10, <2>2, <2>3 DEF Arrive, CallPcs, Inside, TypeOK, hist
<1>11. CASE ResetCount(r)
  <2>1. call[r].seg \in Segments
    BY Zenon, <1>2, <1>11 DEF ResetCount, CallPcs, Inside
  <2>2. segs' \in [Segments -> Headers]
    BY Zenon, <1>11, <2>1, SegType DEF ResetCount
  <2> QED BY Zenon, <1>3, <1>11, <2>2 DEF ResetCount, CallPcs, Inside, TypeOK, hist, barrier
<1>12. CASE AdvancePhase(r) \/ AwaitPhase(r)
  <2>1. call[r].seg \in Segments
    BY Zenon, <1>2, <1>12 DEF AdvancePhase, AwaitPhase, CallPcs, Inside
  <2>2. segs' \in [Segments -> Headers]
    BY Zenon, <1>12, <2>1, AddToPhase DEF AdvancePhase, AwaitPhase, TypeOK
  <2>3. LeaveBarrier(r)
    BY Zenon, <1>12 DEF AdvancePhase, AwaitPhase
  <2>4. left' \in [Segments -> [Ranks -> Nat]]
    BY <2>1, <2>3 DEF LeaveBarrier, TypeOK
  <2> QED BY Zenon, <2>2, <2>3, <2>4, ReturnType DEF LeaveBarrier, TypeOK, hist
<1>13. CASE LastOut(r) \/ AwaitGone(r)
  <2>1. h' = [h EXCEPT ![r] = Unmapped(@, call[r].name)] /\ Return(r, 0)
    BY Zenon, <1>13 DEF LastOut, AwaitGone
  <2>2. h' \in [Ranks -> Handles]
    BY Zenon, <1>1, <2>1, UnmappedType, HandleUpdate DEF TypeOK
  <2>3. link' = link \/ Unlink(call[r].name)
    BY Zenon, <1>13 DEF LastOut, AwaitGone
  <2>4. link' \in [Names -> 0 .. MaxSegments]
    BY Zenon, <2>3, UnlinkType
  <2>5. UNCHANGED <<segs, created, ip, alive, hist, barrier>>
    BY Zenon, <1>13 DEF LastOut, AwaitGone
  <2> QED BY Zenon, <2>1, <2>2, <2>4, <2>5, ReturnType DEF TypeOK, hist, barrier
<1>14. CASE TimeOut(r)
  <2>1. call[r].seg \in Segments
    BY Zenon, <1>2, <1>14 DEF TimeOut, Waiting, CallPcs, Setup, Inside
  <2>2. h' = h \/ h' = [h EXCEPT ![r] = Unmapped(@, call[r].name)]
    BY Zenon, <1>14 DEF TimeOut
  <2>3. h' \in [Ranks -> Handles]
    BY Zenon, <1>1, <2>2, UnmappedType, HandleUpdate DEF TypeOK
  <2>4. /\ left' = left \/ left' = [left EXCEPT ![call[r].seg][r] = @ + 1]
        /\ broken' = broken \/ broken' = [broken EXCEPT ![call[r].seg] = TRUE]
    BY Zenon, <1>14 DEF TimeOut
  <2>5. left' \in [Segments -> [Ranks -> Nat]] /\ broken' \in [Segments -> BOOLEAN]
    <3>1. [left EXCEPT ![call[r].seg][r] = @ + 1] \in [Segments -> [Ranks -> Nat]]
      BY <2>1 DEF TypeOK
    <3>2. [broken EXCEPT ![call[r].seg] = TRUE] \in [Segments -> BOOLEAN]
      BY Zenon, <2>1 DEF TypeOK
    <3> QED BY Zenon, <2>4, <3>1, <3>2 DEF TypeOK
  <2>6. UNCHANGED <<segs, created, link, ip, alive, hist, entered>> /\ Return(r, 1)
    BY Zenon, <1>14 DEF TimeOut
  <2> QED BY Zenon, <2>3, <2>5, <2>6, ReturnType DEF TypeOK, hist
<1> QED BY Zenon, <1>4, <1>5, <1>6, <1>7, <1>8, <1>9, <1>10, <1>11, <1>12, <1>13, <1>14 DEF Step

LEMMA TypeInv == ASSUME TypeOK, [Next]_vars PROVE TypeOK'
<1>1. CASE UNCHANGED vars
  BY Zenon, <1>1 DEF vars, libvars, hist, barrier, TypeOK
<1>2. ASSUME NEW r \in Ranks, NextCall(r) PROVE TypeOK'
  <2>1. ip[r] \in DOMAIN Program /\ ip' \in [Ranks -> Nat \ {0}] /\ UNCHANGED alive
    BY <1>2, ProgramAssumption DEF NextCall, TypeOK
  <2>2. CASE UNCHANGED <<libvars, hist, barrier>>
    BY Zenon, <2>1, <2>2 DEF libvars, hist, barrier, TypeOK
  <2> QED BY Zenon, <1>2, <2>1, <2>2, CallsType DEF NextCall
<1>3. ASSUME NEW r \in Ranks, Abandon(r) PROVE TypeOK'
  BY <1>3, ProgramAssumption DEF Abandon, libvars, hist, barrier, TypeOK
<1>4. ASSUME NEW r \in Ranks, Die(r) PROVE TypeOK'
  <2>1. CallChanges(r, NoCall)
    BY Zenon, <1>4, CallUpdate, RecordTypes DEF Die
  <2>2. h' \in [Ranks -> Handles]
    BY Zenon, <1>4, RecordTypes, HandleUpdate DEF Die
  <2> QED BY Zenon, <1>4, <2>1, <2>2 DEF Die, CallChanges, NoCall, hist, barrier, TypeOK
<1> QED BY Zenon, <1>1, <1>2, <1>3, <1>4, StepType DEF Next

-----------------------------------------------------------------------------
\* A step of rank r leaves the others alone, and of what is counted on the
\* segments it changes only its own.
Own(r) ==
    /\ \A q \in Ranks \ {r} : /\ call'[q] = call[q] /\ h'[q] = h[q] /\ ip'[q] = ip[q]
                              /\ alive'[q] = alive[q] /\ rc'[q] = rc[q] /\ life'[q] = life[q]
    /\ ip'[r] >= ip[r] /\ created' >= created
    /\ \A s \in Segments, q \in Ranks : s # call[r].seg \/ q # r =>
         entered'[s][q] = entered[s][q] /\ left'[s][q] = left[s][q]
    /\ \A s \in Segments \ {call[r].seg} : counted'[s] = counted[s] /\ broken'[s] = broken[s]
    /\ \A nm \in Names : link'[nm] \in {link[nm], None, created'}

LEMMA CallOwn == ASSUME TypeOK, NEW r \in Ranks, NEW x, call' = [call EXCEPT ![r] = x]
                 PROVE  \A q \in Ranks \ {r} : call'[q] = call[q]
BY Zenon DEF TypeOK

LEMMA ReturnOwn == ASSUME TypeOK, NEW r \in Ranks, NEW code, Return(r, code)
                   PROVE  \A q \in Ranks \ {r} : call'[q] = call[q] /\ rc'[q] = rc[q]
BY Zenon DEF TypeOK, Return

LEMMA HandleOwn == ASSUME TypeOK, NEW r \in Ranks, NEW x, h' = [h EXCEPT ![r] = x]
                   PROVE  \A q \in Ranks \ {r} : h'[q] = h[q]
BY Zenon DEF TypeOK

LEMMA UnlinkOwn == ASSUME TypeOK, NEW nm, Unlink(nm) \/ UNCHANGED link
                   PROVE \A n \in Names : link'[n] \in {link[n], None}
BY Zenon DEF TypeOK, Unlink

LEMMA GoneOwn == ASSUME TypeOK, NEW r \in Ranks, NEW nm, NEW s, CountGone(r, nm, s)
                   PROVE  \A q \in Ranks \ {r} : call'[q] = call[q]
BY Zenon, CallOwn DEF CountGone

LEMMA CallsOwn ==
    ASSUME TypeOK, NEW r \in Ranks, NEW op \in {"init", "barrier", "derive", "destroy", "alloc", "release"},
           NEW nm \in Names, Calls(r, op, nm), UNCHANGED alive, ip' = [ip EXCEPT ![r] = @ + 1]
    PROVE  Own(r)
<1>0. ip'[r] >= ip[r] /\ \A q \in Ranks \ {r} : ip'[q] = ip[q]
  BY DEF TypeOK
<1>c. created \in Nat
  BY DEF TypeOK
<1>1. ASSUME \A q \in Ranks \ {r} : call'[q] = call[q] /\ h'[q] = h[q] /\ rc'[q] = rc[q] /\ life'[q] = life[q],
             created' >= created, UNCHANGED <<counted, granted, barrier>>,
             \A n \in Names : link'[n] \in {link[n], None, created'}
      PROVE  Own(r)
  BY Zenon, <1>0, <1>1 DEF Own, barrier
<1>2. CASE op = "init"
  <2>1. comm_init(r)
    BY Zenon, <1>2 DEF Calls
  <2>2. \A q \in Ranks \ {r} : life'[q] = life[q]
    BY Zenon, <2>1 DEF comm_init, TypeOK
  <2>3. \A q \in Ranks \ {r} : call'[q] = call[q] /\ h'[q] = h[q] /\ rc'[q] = rc[q]
    BY Zenon, <2>1, ReturnOwn, HandleOwn DEF comm_init
  <2> QED BY <1>1, <1>c, <2>1, <2>2, <2>3 DEF comm_init
<1>3. CASE op = "alloc"
  <2>1. OpenExclusive(r, nm)
    BY Zenon, <1>3 DEF Calls
  <2>2. \A q \in Ranks \ {r} : call'[q] = call[q] /\ rc'[q] = rc[q]
    BY Zenon, <2>1, ReturnOwn, CallOwn DEF OpenExclusive
  <2>3. h' = [h EXCEPT ![r].is_creator = TRUE] \/ h' = h
    BY Zenon, <2>1 DEF OpenExclusive
  <2>4. \A q \in Ranks \ {r} : h'[q] = h[q]
    BY Zenon, <2>3, HandleOwn
  <2>5. /\ UNCHANGED <<hist, barrier>>
        /\ (UNCHANGED <<link, created>>) \/ (link' = [link EXCEPT ![nm] = created'] /\ created' = created + 1)
    BY Zenon, <2>1 DEF OpenExclusive
  <2>6. \A n \in Names : link'[n] \in {link[n], None, created'}
    BY Zenon, <2>5 DEF TypeOK
  <2>7. created' >= created
    BY <1>c, <2>5
  <2> QED BY Zenon, <1>1, <2>2, <2>4, <2>5, <2>6, <2>7 DEF hist
<1>4. CASE op = "derive"
  <2>1. comm_derive_context(r)
    BY Zenon, <1>4 DEF Calls
  <2>2. \A q \in Ranks \ {r} : call'[q] = call[q] /\ h'[q] = h[q] /\ rc'[q] = rc[q]
    BY Zenon, <2>1, ReturnOwn, HandleOwn DEF comm_derive_context
  <2> QED BY <1>1, <1>c, <2>1, <2>2 DEF comm_derive_context, hist
<1>5. CASE op = "barrier"
  <2>1. SnapshotPhase(r)
    BY Zenon, <1>5 DEF Calls
  <2>2. \A q \in Ranks \ {r} : call'[q] = call[q] /\ rc'[q] = rc[q]
    BY Zenon, <2>1, ReturnOwn, CallOwn DEF SnapshotPhase
  <2>3. UNCHANGED <<created, link, h, hist, barrier>>
    BY Zenon, <2>1 DEF SnapshotPhase
  <2> QED BY <1>1, <1>c, <2>2, <2>3 DEF hist
<1>6. CASE op = "release"
  <2>1. comm_release_domain_windows(r, nm)
    BY Zenon, <1>6 DEF Calls
  <2>2. \A q \in Ranks \ {r} : call'[q] = call[q] /\ rc'[q] = rc[q]
    BY Zenon, <2>1, ReturnOwn, GoneOwn DEF comm_release_domain_windows
  <2>3. UNCHANGED <<created, link, h, hist, barrier>>
    BY Zenon, <2>1 DEF comm_release_domain_windows
  <2> QED BY <1>1, <1>c, <2>2, <2>3 DEF hist
<1>7. CASE op = "destroy"
  <2>1. comm_destroy(r)
    BY Zenon, <1>7 DEF Calls
  <2>2. \A q \in Ranks \ {r} : call'[q] = call[q] /\ rc'[q] = rc[q]
    BY Zenon, <2>1, ReturnOwn, GoneOwn DEF comm_destroy
  <2>3. h' = [h EXCEPT ![r] = NoHandle] \/ h' = [h EXCEPT ![r].domain = NoHandle.domain, ![r].derived = FALSE]
    BY Zenon, <2>1 DEF comm_destroy
  <2>4. \A q \in Ranks \ {r} : h'[q] = h[q]
    BY Zenon, <2>3 DEF TypeOK
  <2>5. UNCHANGED <<created, hist, barrier>> /\ \A n \in Names : link'[n] \in {link[n], None}
    BY Zenon, <2>1 DEF comm_destroy
  <2> QED BY <1>1, <1>c, <2>2, <2>4, <2>5 DEF hist
<1> QED BY Zenon, <1>2, <1>3, <1>4, <1>5, <1>6, <1>7

LEMMA StepOwn == ASSUME TypeOK, NEW r \in Ranks, Step(r) PROVE Own(r)
<1>0. created \in Nat /\ ip[r] \in Nat
  BY DEF TypeOK
<1>1. ASSUME \A q \in Ranks \ {r} : call'[q] = call[q] /\ h'[q] = h[q] /\ rc'[q] = rc[q],
             UNCHANGED <<created, ip, alive, life>>,
             \A s \in Segments, q \in Ranks : s # call[r].seg \/ q # r =>
                entered'[s][q] = entered[s][q] /\ left'[s][q] = left[s][q],
             \A s \in Segments \ {call[r].seg} : counted'[s] = counted[s] /\ broken'[s] = broken[s],
             \A n \in Names : link'[n] \in {link[n], None}
      PROVE  Own(r)
  BY <1>0, <1>1 DEF Own
<1>2. ASSUME NEW pc PROVE GoTo(r, pc) => \A q \in Ranks \ {r} : call'[q] = call[q]
  BY Zenon DEF GoTo, TypeOK
<1>3. \A q \in Ranks \ {r} : call'[q] = call[q] /\ rc'[q] = rc[q]
  <2>1. call' = [call EXCEPT ![r].pc = "sized", ![r].seg = link[call[r].name]] =>
          \A q \in Ranks \ {r} : call'[q] = call[q]
    BY Zenon DEF TypeOK
  <2>2. \/ UNCHANGED rc /\ ((\E pc : GoTo(r, pc)) \/ call' = [call EXCEPT ![r].pc = "sized", ![r].seg = link[call[r].name]])
        \/ \E code : Return(r, code)
    BY Zenon DEF Step, Truncate, OpenExisting, AwaitSized, Map, AwaitDone, CountReady, AwaitPeers, Arrive,
       ResetCount, AdvancePhase, AwaitPhase, LeaveBarrier, LastOut, AwaitGone, TimeOut
  <2> QED BY Zenon, <1>2, <2>1, <2>2, ReturnOwn
<1>4. UNCHANGED <<created, ip, alive, life>>
  BY Zenon DEF Step, Truncate, OpenExisting, AwaitSized, Map, AwaitDone, CountReady, AwaitPeers, Arrive,
     ResetCount, AdvancePhase, AwaitPhase, LeaveBarrier, LastOut, AwaitGone, TimeOut, hist
<1>5. \A n \in Names : link'[n] \in {link[n], None}
  <2>1. (\E nm : Unlink(nm)) \/ UNCHANGED link
    BY Zenon DEF Step, Truncate, OpenExisting, AwaitSized, Map, AwaitDone, CountReady, AwaitPeers, Arrive,
       ResetCount, AdvancePhase, AwaitPhase, LeaveBarrier, LastOut, AwaitGone, TimeOut, libvars
  <2> QED BY Zenon, <2>1, UnlinkOwn
<1>6. \A q \in Ranks \ {r} : h'[q] = h[q]
  <2>1. \/ h' = h \/ h' = [h EXCEPT ![r] = Unmapped(@, call[r].name)]
        \/ h' = [h EXCEPT ![r].base = call[r].seg] \/ h' = [h EXCEPT ![r].domain[call[r].name] = call[r].seg]
    BY Zenon DEF Step, Truncate, OpenExisting, AwaitSized, Map, AwaitDone, CountReady, AwaitPeers, Arrive,
       ResetCount, AdvancePhase, AwaitPhase, LeaveBarrier, LastOut, AwaitGone, TimeOut
  <2> QED BY Zenon, <2>1, HandleOwn
<1>7. /\ entered' = entered \/ entered' = [entered EXCEPT ![call[r].seg][r] = @ + 1]
      /\ left' = left \/ left' = [left EXCEPT ![call[r].seg][r] = @ + 1]
      /\ broken' = broken \/ broken' = [broken EXCEPT ![call[r].seg] = TRUE]
      /\ counted' = counted \/ counted' = [counted EXCEPT ![call[r].seg] = @ \cup {<<r, life[r]>>}]
  <2>1. CASE Arrive(r)
    BY Zenon, <2>1 DEF Arrive, hist
  <2>2. CASE AdvancePhase(r) \/ AwaitPhase(r)
    BY Zenon, <2>2 DEF AdvancePhase, AwaitPhase, LeaveBarrier, hist
  <2>3. CASE TimeOut(r)
    BY Zenon, <2>3 DEF TimeOut, hist
  <2>4. CASE CountReady(r)
    BY Zenon, <2>4 DEF CountReady, barrier
  <2>5. CASE AwaitPeers(r)
    BY Zenon, <2>5 DEF AwaitPeers, barrier
  <2>6. CASE UNCHANGED <<hist, barrier>>
    BY Zenon, <2>6 DEF hist, barrier
  <2> QED BY Zenon, <2>1, <2>2, <2>3, <2>4, <2>5, <2>6
      DEF Step, Truncate, OpenExisting, AwaitSized, Map, AwaitDone, ResetCount, LastOut, AwaitGone
<1>8. /\ \A s \in Segments, q \in Ranks : s # call[r].seg \/ q # r =>
           entered'[s][q] = entered[s][q] /\ left'[s][q] = left[s][q]
      /\ \A s \in Segments \ {call[r].seg} : counted'[s] = counted[s] /\ broken'[s] = broken[s]
  BY <1>7 DEF TypeOK
<1> QED BY Zenon, <1>1, <1>3, <1>4, <1>5, <1>6, <1>8

LEMMA DieOwn == ASSUME TypeOK, NEW r \in Ranks, Die(r) PROVE Own(r)
BY DEF Die, Own, TypeOK, hist, barrier

-----------------------------------------------------------------------------
Called(r, nm) == \E i \in 1 .. ip[r] - 1 : i \in DOMAIN Program /\ Program[i] = <<"alloc", nm>>

\* What rank r has is among the segments created, and a creator that has not
\* written the header yet has not been in a barrier on that segment.
HandleOK(r) ==
    /\ h[r].base <= created /\ \A d \in Domains : h[r].domain[d] <= created
    /\ h[r].is_creator => Called(r, Base)
CallOK(r) ==
    /\ call[r].seg <= created
    /\ call[r].pc \in {"attach", "sized"} => ~call[r].is_creator
    /\ call[r].pc \in {"truncate", "map"} /\ call[r].is_creator => entered[call[r].seg][r] = 0
    /\ call[r].pc \in Setup \cup {"peers"} =>
         /\ ip[r] - 1 \in DOMAIN Program /\ Program[ip[r] - 1] = <<"alloc", call[r].name>>
         /\ r \in Of(call[r].name)
Untouched ==
    /\ \A nm \in Names : link[nm] <= created
    /\ \A s \in Segments : s > created => counted[s] = {} /\ \A r \in Ranks : entered[s][r] = 0
CallInv == Untouched /\ \A r \in Ranks : HandleOK(r) /\ CallOK(r)

LEMMA SegKnown == ASSUME TypeOK, NEW r \in Ranks, call[r].pc \notin {"user", "attach"} PROVE call[r].seg \in Segments
<1>1. call[r].seg # None /\ call[r].seg \in 0 .. MaxSegments
  BY Zenon DEF TypeOK, LibCalls
<1> QED BY <1>1, CommAssumption DEF Segments, None

LEMMA CallInvFrame ==
    ASSUME TypeOK, TypeOK', CallInv, NEW r \in Ranks, Own(r), HandleOK(r)', CallOK(r)'
    PROVE  CallInv'
<1>1. /\ created \in Nat /\ created' \in Nat /\ \A q \in Ranks : call[q].seg \in Nat
      /\ \A q \in Ranks : h[q].base \in Nat /\ \A d \in Domains : h[q].domain[d] \in Nat
      /\ link \in [Names -> Nat]
  BY DEF TypeOK, LibCalls, Handles
<1>2. Untouched'
  <2>1. call[r].seg <= created
    BY Zenon DEF CallInv, CallOK
  <2>2. \A nm \in Names : link'[nm] <= created'
    BY <1>1, CommAssumption DEF CallInv, Untouched, Own, None
  <2>3. ASSUME NEW s \in Segments, s > created' PROVE counted'[s] = {} /\ \A q \in Ranks : entered'[s][q] = 0
    <3>1. s > created /\ s # call[r].seg
      BY <1>1, <2>1, <2>3 DEF Segments, Own
    <3> QED BY <3>1 DEF CallInv, Untouched, Own
  <2> QED BY Zenon, <2>2, <2>3 DEF Untouched
<1>3. ASSUME NEW q \in Ranks, q # r PROVE HandleOK(q)'
  <2>1. h'[q] = h[q] /\ ip'[q] = ip[q] /\ created' >= created /\ HandleOK(q)
    BY Zenon, <1>3 DEF Own, CallInv
  <2> QED BY <1>1, <2>1 DEF HandleOK, Called
<1>4. ASSUME NEW q \in Ranks, q # r PROVE CallOK(q)'
  <2>1. call'[q] = call[q] /\ ip'[q] = ip[q] /\ created' >= created /\ CallOK(q)
    BY Zenon, <1>4 DEF Own, CallInv
  <2>2. call[q].pc \in {"truncate", "map"} => entered'[call[q].seg][q] = entered[call[q].seg][q]
    <3> QED BY Zenon, <1>4, SegKnown DEF Own
  <2> QED BY <1>1, <2>1, <2>2 DEF CallOK
<1> QED BY Zenon, <1>2, <1>3, <1>4 DEF CallInv

\* The handle loses or keeps what it has.
LEMMA HandleKept ==
    ASSUME TypeOK, NEW r \in Ranks, HandleOK(r), ip'[r] >= ip[r], ip' \in [Ranks -> Nat \ {0}],
           created' >= created, created' \in Nat,
           h'[r].base \in {h[r].base, None}, h'[r].is_creator => h[r].is_creator,
           \A d \in Domains : h'[r].domain[d] \in {h[r].domain[d], None}
    PROVE  HandleOK(r)'
<1>1. /\ created \in Nat /\ h[r].base \in Nat /\ \A d \in Domains : h[r].domain[d] \in Nat
      /\ ip[r] \in Nat /\ ip'[r] \in Nat
  BY DEF TypeOK, Handles
<1>2. h'[r].base <= created' /\ \A d \in Domains : h'[r].domain[d] <= created'
  BY <1>1 DEF HandleOK, None
<1>3. Called(r, Base) => Called(r, Base)'
  BY <1>1 DEF Called
<1> QED BY Zenon, <1>2, <1>3 DEF HandleOK

LEMMA ReturnCallOK ==
    ASSUME TypeOK, NEW r \in Ranks, NEW code \in {0, 1}, Return(r, code), created' \in Nat PROVE CallOK(r)'
<1>1. call'[r] = NoCall
  BY Zenon, ReturnChanges DEF CallChanges
<1> QED BY <1>1 DEF CallOK, NoCall, Setup, None

LEMMA DropShapes ==
    ASSUME TypeOK, NEW r \in Ranks, NEW nm \in Names,
           \/ h' = h \/ h' = [h EXCEPT ![r] = NoHandle] \/ h' = [h EXCEPT ![r] = Unmapped(@, nm)]
           \/ h' = [h EXCEPT ![r] = [NoHandle EXCEPT !.open = TRUE]] \/ h' = [h EXCEPT ![r].derived = TRUE]
           \/ h' = [h EXCEPT ![r].domain = NoHandle.domain, ![r].derived = FALSE]
    PROVE  /\ h'[r].base \in {h[r].base, None} /\ (h'[r].is_creator => h[r].is_creator)
           /\ \A d \in Domains : h'[r].domain[d] \in {h[r].domain[d], None}
<1>1. h[r] \in Handles /\ h \in [Ranks -> Handles]
  BY Zenon DEF TypeOK
<1>2. CASE h' = [h EXCEPT ![r] = NoHandle] \/ h' = [h EXCEPT ![r] = [NoHandle EXCEPT !.open = TRUE]]
  BY <1>1, <1>2 DEF NoHandle
<1>3. CASE h' = [h EXCEPT ![r].derived = TRUE]
  BY Zenon, <1>1, <1>3 DEF Handles
<1>4. CASE h' = [h EXCEPT ![r].domain = NoHandle.domain, ![r].derived = FALSE]
  BY Zenon, <1>1, <1>4 DEF Handles, NoHandle
<1>5. CASE h' = [h EXCEPT ![r] = Unmapped(@, nm)]
  <2>1. h'[r] = NoHandle \/ h'[r] = [h[r] EXCEPT !.domain[nm] = None]
    BY Zenon, <1>1, <1>5 DEF Unmapped
  <2> QED BY <1>1, <2>1 DEF Handles, NoHandle
<1> QED BY Zenon, <1>2, <1>3, <1>4, <1>5

\* A rank goes on with its call, on the segment it has.
LEMMA GoToOK ==
    ASSUME TypeOK, NEW r \in Ranks, CallOK(r), NEW pc \in CallPcs \ {"truncate", "attach", "sized"}, GoTo(r, pc),
           created' = created, ip' = ip,
           pc \in Setup \cup {"peers"} => call[r].pc \in Setup,
           pc = "map" => call[r].pc \in {"truncate", "sized"} /\ entered' = entered
    PROVE  CallOK(r)'
<1>1. /\ call'[r].pc = pc /\ call'[r].name = call[r].name /\ call'[r].seg = call[r].seg
      /\ call'[r].is_creator = call[r].is_creator
  BY Zenon, GoToChanges
<1>2. call'[r].seg <= created'
  BY Zenon, <1>1 DEF CallOK
<1>3. call'[r].pc \in {"truncate", "map"} /\ call'[r].is_creator => entered'[call'[r].seg][r] = 0
  BY Zenon, <1>1 DEF CallOK
<1>4. call'[r].pc \in Setup \cup {"peers"} =>
         /\ ip[r] - 1 \in DOMAIN Program /\ Program[ip[r] - 1] = <<"alloc", call[r].name>>
         /\ r \in Of(call[r].name)
  BY Zenon, <1>1 DEF CallOK
<1> QED BY Zenon, <1>1, <1>2, <1>3, <1>4 DEF CallOK

LEMMA OpenCallOK ==
    ASSUME TypeOK, CallInv, NEW r \in Ranks, NEW nm \in Names, OpenExclusive(r, nm), r \in Of(nm), TypeOK',
           ip' = [ip EXCEPT ![r] = @ + 1], ip[r] \in DOMAIN Program, Program[ip[r]] = <<"alloc", nm>>
    PROVE  HandleOK(r)' /\ CallOK(r)'
<1>0. /\ ip[r] \in Nat \ {0} /\ ip'[r] = ip[r] + 1 /\ HandleOK(r) /\ CallOK(r)
      /\ created \in Nat /\ h[r] \in Handles /\ h \in [Ranks -> Handles]
  BY DEF TypeOK, CallInv
<1>a. Called(r, nm)' /\ (Called(r, Base) => Called(r, Base)')
  BY <1>0 DEF Called
<1>1. CASE nm # Base /\ h[r].domain[nm] # None
  <2>1. Return(r, 1) /\ UNCHANGED <<created, h>>
    BY Zenon, <1>1 DEF OpenExclusive
  <2> QED BY Zenon, <1>0, <1>a, <2>1, ReturnCallOK DEF HandleOK
<1>2. CASE ~(nm # Base /\ h[r].domain[nm] # None) /\ link[nm] = None
  <2> DEFINE x == [NoCall EXCEPT !.pc = "truncate", !.name = nm, !.seg = created', !.is_creator = TRUE]
  <2>1. /\ created' = created + 1 /\ created < MaxSegments /\ UNCHANGED barrier
        /\ h' = IF nm = Base THEN [h EXCEPT ![r].is_creator = TRUE] ELSE h
    BY Zenon, <1>2 DEF OpenExclusive
  <2>2. call' = [call EXCEPT ![r] = x]
    BY Zenon, <1>2 DEF OpenExclusive
  <2>3. x.pc = "truncate" /\ x.name = nm /\ x.seg = created'
    BY Zenon DEF NoCall
  <2> HIDE DEF x
  <2>4. call'[r] = x
    BY Zenon, <2>2 DEF TypeOK
  <2>5. created' \in Segments /\ created' > created /\ created' <= created'
    BY <1>0, <2>1, CommAssumption DEF Segments
  <2>6. entered'[created'][r] = 0
    BY Zenon, <2>1, <2>5 DEF CallInv, Untouched, barrier
  <2>7. CallOK(r)'
    BY <1>0, <2>3, <2>4, <2>5, <2>6 DEF CallOK
  <2>8. h'[r].base = h[r].base /\ h'[r].domain = h[r].domain /\ (nm # Base => h'[r].is_creator = h[r].is_creator)
    BY Zenon, <1>0, <2>1 DEF Handles
  <2> QED BY <1>0, <1>a, <2>1, <2>7, <2>8 DEF HandleOK, Handles
<1>3. CASE ~(nm # Base /\ h[r].domain[nm] # None) /\ link[nm] # None
  <2> DEFINE x == [NoCall EXCEPT !.pc = "attach", !.name = nm, !.is_creator = nm = Base /\ h[r].is_creator]
  <2>1. UNCHANGED <<created, h>> /\ call' = [call EXCEPT ![r] = x]
    BY Zenon, <1>3 DEF OpenExclusive
  <2>3. x.pc = "attach" /\ x.name = nm /\ x.seg = None /\ x.is_creator = (nm = Base /\ h[r].is_creator)
    BY Zenon DEF NoCall
  <2> HIDE DEF x
  <2>4. call'[r] = x
    BY Zenon, <2>1 DEF TypeOK
  <2>5. ~x.is_creator
    <3>1. ~Called(r, nm)
      BY <1>0, OnceAssumption DEF Called
    <3> QED BY Zenon, <1>0, <2>3, <3>1 DEF HandleOK
  <2>6. CallOK(r)'
    BY <1>0, <2>1, <2>3, <2>4, <2>5 DEF CallOK, None
  <2> QED BY Zenon, <1>0, <1>a, <2>1, <2>6 DEF HandleOK
<1> QED BY Zenon, <1>1, <1>2, <1>3

\* What CountGone leaves in the call.
LEMMA GoneCallOK ==
    ASSUME TypeOK, NEW r \in Ranks, NEW nm \in Names, NEW s \in Segments, s <= created, created' = created,
           CountGone(r, nm, s)
    PROVE  CallOK(r)'
<1> DEFINE x == [NoCall EXCEPT !.name = nm, !.seg = s, !.pc =
                   IF segs[s].destroy_count + 1 >= nranks(nm) THEN "unlink" ELSE "drain"]
<1>1. call' = [call EXCEPT ![r] = x]
  BY Zenon DEF CountGone
<1>2. x.seg = s /\ x.pc \in {"unlink", "drain"}
  BY Zenon DEF NoCall
<1> HIDE DEF x
<1>3. call'[r] = x
  BY Zenon, <1>1 DEF TypeOK
<1> QED BY Zenon, <1>2, <1>3 DEF CallOK, Setup

LEMMA CallsOK ==
    ASSUME TypeOK, CallInv, TypeOK', NEW r \in Ranks,
           NEW op \in {"init", "barrier", "derive", "destroy", "release"}, NEW nm \in Names,
           op = "release" => nm \in Domains, Calls(r, op, nm), ip' = [ip EXCEPT ![r] = @ + 1]
    PROVE  HandleOK(r)' /\ CallOK(r)'
<1>0. /\ ip'[r] >= ip[r] /\ ip' \in [Ranks -> Nat \ {0}] /\ HandleOK(r) /\ created \in Nat
      /\ h[r] \in Handles
  BY DEF TypeOK, CallInv
<1>b. Base \in Names /\ h[r].base \in 0 .. MaxSegments /\ \A d \in Domains : h[r].domain[d] \in 0 .. MaxSegments
  BY Zenon, <1>0 DEF Handles, Names
<1>c. ASSUME NEW s \in 0 .. MaxSegments, s # None PROVE s \in Segments
  BY <1>c, CommAssumption DEF Segments, None
<1>1. ASSUME created' = created,
             \/ h' = h \/ h' = [h EXCEPT ![r] = NoHandle]
             \/ h' = [h EXCEPT ![r] = [NoHandle EXCEPT !.open = TRUE]] \/ h' = [h EXCEPT ![r].derived = TRUE]
             \/ h' = [h EXCEPT ![r].domain = NoHandle.domain, ![r].derived = FALSE]
      PROVE  HandleOK(r)'
  <2>1. /\ h'[r].base \in {h[r].base, None} /\ (h'[r].is_creator => h[r].is_creator)
        /\ \A d \in Domains : h'[r].domain[d] \in {h[r].domain[d], None}
    BY Zenon, <1>1, DropShapes
  <2>2. created' >= created /\ created' \in Nat
    BY <1>0, <1>1
  <2> QED BY Zenon, <1>0, <2>1, <2>2, HandleKept
<1>2. CASE op = "init"
  <2>1. comm_init(r)
    BY Zenon, <1>2 DEF Calls
  <2> QED BY Zenon, <1>0, <1>1, <2>1, ReturnCallOK DEF comm_init
<1>4. CASE op = "derive"
  <2>1. comm_derive_context(r)
    BY Zenon, <1>4 DEF Calls
  <2> QED BY Zenon, <1>0, <1>1, <2>1, ReturnCallOK DEF comm_derive_context
<1>5. CASE op = "barrier"
  <2>1. SnapshotPhase(r)
    BY Zenon, <1>5 DEF Calls
  <2>2. created' = created /\ h' = h
    BY Zenon, <2>1 DEF SnapshotPhase
  <2>3. CASE h[r].base = None
    BY Zenon, <1>0, <1>1, <2>1, <2>2, <2>3, ReturnCallOK DEF SnapshotPhase
  <2>4. CASE h[r].base # None
    <3> DEFINE x == [NoCall EXCEPT !.pc = "arrive", !.seg = h[r].base, !.phase = segs[h[r].base].barrier_phase]
    <3>1. call' = [call EXCEPT ![r] = x]
      BY Zenon, <2>1, <2>4 DEF SnapshotPhase
    <3>2. x.seg = h[r].base /\ x.pc = "arrive"
      BY Zenon DEF NoCall
    <3> HIDE DEF x
    <3>3. call'[r] = x
      BY Zenon, <3>1 DEF TypeOK
    <3>4. CallOK(r)'
      BY Zenon, <1>0, <2>2, <3>2, <3>3 DEF CallOK, HandleOK, Setup
    <3> QED BY Zenon, <1>1, <2>2, <3>4
  <2> QED BY Zenon, <2>3, <2>4
<1>6. CASE op = "release"
  <2>1. comm_release_domain_windows(r, nm) /\ nm \in Domains
    BY Zenon, <1>6 DEF Calls
  <2>2. created' = created /\ h' = h
    BY Zenon, <2>1 DEF comm_release_domain_windows
  <2>3. CASE h[r].domain[nm] = None
    BY Zenon, <1>0, <1>1, <2>1, <2>2, <2>3, ReturnCallOK DEF comm_release_domain_windows
  <2>4. CASE h[r].domain[nm] # None
    BY Zenon, <1>0, <1>b, <1>c, <1>1, <2>1, <2>2, <2>4, GoneCallOK DEF comm_release_domain_windows, HandleOK
  <2> QED BY Zenon, <2>3, <2>4
<1>7. CASE op = "destroy"
  <2>1. comm_destroy(r)
    BY Zenon, <1>7 DEF Calls
  <2>2. created' = created
    BY Zenon, <2>1 DEF comm_destroy
  <2>3. CASE h[r].base = None
    BY Zenon, <1>0, <1>1, <2>1, <2>2, <2>3, ReturnCallOK DEF comm_destroy
  <2>4. CASE h[r].base # None
    BY Zenon, <1>0, <1>b, <1>c, <1>1, <2>1, <2>2, <2>4, GoneCallOK DEF comm_destroy, HandleOK
  <2> QED BY Zenon, <2>3, <2>4
<1> QED BY Zenon, <1>2, <1>4, <1>5, <1>6, <1>7

LEMMA StepOK == ASSUME TypeOK, CallInv, TypeOK', NEW r \in Ranks, Step(r) PROVE HandleOK(r)' /\ CallOK(r)'
<1>0. /\ ip[r] >= ip[r] /\ ip \in [Ranks -> Nat \ {0}] /\ HandleOK(r) /\ CallOK(r) /\ created \in Nat
      /\ created >= created /\ h \in [Ranks -> Handles] /\ h[r] \in Handles /\ call[r] \in LibCalls
  BY DEF TypeOK, CallInv
<1>a. created' = created /\ ip' = ip
  BY Zenon DEF Step, Truncate, OpenExisting, AwaitSized, Map, AwaitDone, CountReady, AwaitPeers, Arrive,
     ResetCount, AdvancePhase, AwaitPhase, LeaveBarrier, LastOut, AwaitGone, TimeOut
<1>1. HandleOK(r)'
  <2>1. CASE h' = h \/ h' = [h EXCEPT ![r] = Unmapped(@, call[r].name)]
    <3>1. /\ h'[r].base \in {h[r].base, None} /\ (h'[r].is_creator => h[r].is_creator)
          /\ \A d \in Domains : h'[r].domain[d] \in {h[r].domain[d], None}
      <4>1. call[r].name \in Names
        BY Zenon, <1>0 DEF LibCalls
      <4> QED BY Zenon, <2>1, <4>1, DropShapes
    <3> QED BY Zenon, <1>0, <1>a, <3>1, HandleKept
  <2>2. CASE \/ h' = [h EXCEPT ![r].base = call[r].seg]
             \/ h' = [h EXCEPT ![r].domain[call[r].name] = call[r].seg]
    <3>1. /\ h'[r].base \in {h[r].base, call[r].seg} /\ h'[r].is_creator = h[r].is_creator
          /\ \A d \in Domains : h'[r].domain[d] \in {h[r].domain[d], call[r].seg}
      BY <1>0, <2>2 DEF Handles
    <3>2. call[r].seg <= created
      BY Zenon, <1>0 DEF CallOK
    <3> QED BY Zenon, <1>0, <1>a, <3>1, <3>2 DEF HandleOK, Called
  <2>3. \/ h' = h \/ h' = [h EXCEPT ![r] = Unmapped(@, call[r].name)]
        \/ h' = [h EXCEPT ![r].base = call[r].seg] \/ h' = [h EXCEPT ![r].domain[call[r].name] = call[r].seg]
    BY Zenon DEF Step, Truncate, OpenExisting, AwaitSized, Map, AwaitDone, CountReady, AwaitPeers, Arrive,
       ResetCount, AdvancePhase, AwaitPhase, LeaveBarrier, LastOut, AwaitGone, TimeOut
  <2> QED BY Zenon, <2>1, <2>2, <2>3
<1>2. CASE \E code \in {0, 1} : Return(r, code)
  BY Zenon, <1>0, <1>a, <1>1, <1>2, ReturnCallOK
<1>3. CASE OpenExisting(r) /\ link[call[r].name] # None
  <2> DEFINE s == link[call[r].name]
  <2>1. call' = [call EXCEPT ![r].pc = "sized", ![r].seg = s] /\ call[r].pc = "attach"
    BY Zenon, <1>3 DEF OpenExisting, At
  <2>2. call[r].name \in Names
    BY Zenon, <1>0 DEF LibCalls
  <2>3. s <= created
    BY Zenon, <2>2 DEF CallInv, Untouched
  <2> HIDE DEF s
  <2>4. call'[r].pc = "sized" /\ call'[r].seg = s /\ call'[r].name = call[r].name /\ call'[r].is_creator = call[r].is_creator
    BY Zenon, <1>0, <2>1 DEF TypeOK, LibCalls
  <2>5. CallOK(r)'
    BY Zenon, <1>0, <1>a, <2>1, <2>3, <2>4 DEF CallOK, Setup
  <2> QED BY Zenon, <1>1, <2>5
<1>4. CASE \E pc \in CallPcs \ {"truncate", "attach", "sized"} :
             /\ GoTo(r, pc) /\ (pc \in Setup \cup {"peers"} => call[r].pc \in Setup)
             /\ pc = "map" => call[r].pc \in {"truncate", "sized"} /\ entered' = entered
  BY Zenon, <1>0, <1>a, <1>1, <1>4, GoToOK
<1>5. ASSUME NEW pc \in {"ready", "done", "peers", "phase", "reset", "advance"}, GoTo(r, pc),
             pc \in Setup \cup {"peers"} => call[r].pc \in Setup
      PROVE  HandleOK(r)' /\ CallOK(r)'
  <2>1. pc \in CallPcs \ {"truncate", "attach", "sized"} /\ pc # "map"
    BY Zenon DEF CallPcs, Setup, Inside
  <2> QED BY Zenon, <1>4, <1>5, <2>1
<1>6. ASSUME GoTo(r, "map"), call[r].pc \in {"truncate", "sized"}, entered' = entered
      PROVE  HandleOK(r)' /\ CallOK(r)'
  <2>1. "map" \in CallPcs \ {"truncate", "attach", "sized"} /\ call[r].pc \in Setup
    BY Zenon, <1>6 DEF CallPcs, Setup, Inside
  <2> QED BY Zenon, <1>4, <1>6, <2>1
<1>7. CASE Truncate(r) \/ AwaitSized(r)
  BY Zenon, <1>2, <1>6, <1>7 DEF Truncate, AwaitSized, At, barrier
<1>8. CASE Map(r) \/ AwaitDone(r) \/ CountReady(r) \/ Arrive(r) \/ ResetCount(r)
  <2>1. "map" \in Setup /\ "done" \in Setup /\ "ready" \in Setup /\ "phase" \notin Setup /\ "reset" \notin Setup /\ "advance" \notin Setup
    BY Zenon DEF Setup
  <2> QED BY Zenon, <1>2, <1>5, <1>8, <2>1 DEF Map, AwaitDone, CountReady, Arrive, ResetCount, At
<1>9. CASE OpenExisting(r)
  BY Zenon, <1>2, <1>3, <1>9 DEF OpenExisting
<1>10. CASE AwaitPeers(r) \/ AdvancePhase(r) \/ AwaitPhase(r) \/ LastOut(r) \/ AwaitGone(r) \/ TimeOut(r)
  BY Zenon, <1>2, <1>10 DEF AwaitPeers, AdvancePhase, AwaitPhase, LeaveBarrier, LastOut, AwaitGone, TimeOut
<1> QED BY Zenon, <1>7, <1>8, <1>9, <1>10 DEF Step

\* Between two calls a rank moves on in its program.
LEMMA Rewind ==
    ASSUME TypeOK, CallInv, NEW r \in Ranks, NEW n \in Nat \ {0}, n >= ip[r], ip' = [ip EXCEPT ![r] = n],
           call[r].pc = "user", UNCHANGED <<libvars, hist, barrier>>
    PROVE  CallInv'
<1>1. Untouched'
  BY Zenon DEF CallInv, Untouched, libvars, hist, barrier
<1>2. ASSUME NEW q \in Ranks PROVE HandleOK(q)'
  <2>1. ip[q] \in Nat /\ ip'[q] \in Nat /\ ip'[q] >= ip[q] /\ HandleOK(q)
    BY DEF TypeOK, CallInv
  <2>2. UNCHANGED <<h, created>>
    BY Zenon DEF libvars
  <2> QED BY <2>1, <2>2 DEF HandleOK, Called
<1>3. ASSUME NEW q \in Ranks PROVE CallOK(q)'
  <2>1. UNCHANGED <<call, created, entered>> /\ (q # r => ip'[q] = ip[q]) /\ CallOK(q)
    BY Zenon DEF libvars, barrier, TypeOK, CallInv
  <2> QED BY Zenon, <2>1 DEF CallOK, Setup
<1> QED BY Zenon, <1>1, <1>2, <1>3 DEF CallInv

LEMMA CallInvStep == ASSUME TypeOK, CallInv, TypeOK', [Next]_vars PROVE CallInv'
<1>1. CASE UNCHANGED vars
  BY Zenon, <1>1 DEF vars, libvars, hist, barrier, CallInv, Untouched, HandleOK, CallOK, Called
<1>2. ASSUME NEW r \in Ranks, NextCall(r) PROVE CallInv'
  <2> DEFINE op == Program[ip[r]][1]
             nm == Program[ip[r]][2]
  <2>1. /\ ip[r] \in DOMAIN Program /\ ip' = [ip EXCEPT ![r] = @ + 1] /\ UNCHANGED alive
        /\ call[r].pc = "user"
    BY <1>2, ProgramAssumption DEF NextCall, TypeOK, At
  <2>2. /\ op \in {"init", "barrier", "derive", "destroy", "alloc", "release"} /\ nm \in Names
        /\ op = "release" => nm \in Domains
        /\ Program[ip[r]] = <<op, nm>>
    BY <2>1, ProgramAssumption DEF Names
  <2> HIDE DEF op, nm
  <2>3. CASE r \in Of(nm)
    <3>1. Calls(r, op, nm)
      BY Zenon, <1>2, <2>3 DEF NextCall, op, nm
    <3>2. Own(r)
      BY Zenon, <2>1, <2>2, <3>1, CallsOwn
    <3>3. CASE op = "alloc"
      <4>1. OpenExclusive(r, nm)
        BY Zenon, <3>1, <3>3 DEF Calls
      <4> QED BY Zenon, <2>1, <2>2, <2>3, <3>2, <3>3, <4>1, OpenCallOK, CallInvFrame
    <3>4. CASE op # "alloc"
      <4>1. op \in {"init", "barrier", "derive", "destroy", "release"}
        BY Zenon, <2>2, <3>4
      <4> QED BY Zenon, <2>1, <2>2, <3>1, <3>2, <4>1, CallsOK, CallInvFrame
    <3> QED BY Zenon, <3>3, <3>4
  <2>4. CASE r \notin Of(nm)
    <3>1. UNCHANGED <<libvars, hist, barrier>>
      BY Zenon, <1>2, <2>4 DEF NextCall, nm, op
    <3>2. ip[r] + 1 \in Nat \ {0} /\ ip[r] + 1 >= ip[r]
      BY DEF TypeOK
    <3> QED BY Zenon, <2>1, <3>1, <3>2, Rewind
  <2> QED BY Zenon, <2>3, <2>4
<1>3. ASSUME NEW r \in Ranks, Abandon(r) PROVE CallInv'
  <2>1. ip' = [ip EXCEPT ![r] = Len(Program)] /\ ip[r] < Len(Program) /\ call[r].pc = "user" /\ UNCHANGED <<libvars, hist, barrier>>
    BY Zenon, <1>3 DEF Abandon, At
  <2>2. Len(Program) \in Nat \ {0} /\ Len(Program) >= ip[r]
    BY <2>1, ProgramAssumption DEF TypeOK
  <2> QED BY Zenon, <2>1, <2>2, Rewind
<1>4. ASSUME NEW r \in Ranks, Die(r) PROVE CallInv'
  <2>1. Own(r) /\ HandleOK(r) /\ ip' = ip /\ created' = created /\ h'[r] = NoHandle /\ call'[r] = NoCall
    BY Zenon, <1>4, DieOwn DEF Die, CallInv, TypeOK
  <2>2. HandleOK(r)' /\ CallOK(r)'
    <3>1. created \in Nat
      BY DEF TypeOK
    <3> QED BY <2>1, <3>1 DEF HandleOK, CallOK, NoHandle, NoCall, None, Setup
  <2> QED BY Zenon, <2>1, <2>2, CallInvFrame
<1>5. ASSUME NEW r \in Ranks, Step(r) PROVE CallInv'
  BY Zenon, <1>5, StepOwn, StepOK, CallInvFrame
<1> QED BY Zenon, <1>1, <1>2, <1>3, <1>4, <1>5 DEF Next

-----------------------------------------------------------------------------
\* What the proofs use of the cardinality of a set of ranks: it is a natural number,
\* grows with the set, and by one with each rank.  CommProofs shows it of any finite
\* set of ranks, from the theorems about finite sets.
RankCounts ==
    \A T \in SUBSET Ranks :
        /\ IsFiniteSet(T) /\ Cardinality(T) \in Nat
        /\ \A S \in SUBSET T : Cardinality(S) <= Cardinality(T) /\ (Cardinality(T) = Cardinality(S) => T = S)
        /\ \A r \in Ranks : r \notin T => Cardinality(T \cup {r}) = Cardinality(T) + 1

Round(s) == segs[s].barrier_phase
Count(s) == segs[s].barrier_count
Counted(s) == {r \in Ranks : entered[s][r] = Round(s) + 1}
In(r, s, pcs) == call[r].seg = s /\ call[r].pc \in pcs

\* As long as nobody has given up, barrier_phase is the round everybody is in or
\* has just left, and barrier_count counts those who have entered it at most.
Rounds(s) ==
    /\ \A r \in Ranks : entered[s][r] \in {Round(s), Round(s) + 1}
    /\ \A r \in Ranks : entered[s][r] = left[s][r] => entered[s][r] = Round(s)
    /\ \A r \in Ranks : In(r, s, {"arrive"}) => call[r].phase = Round(s)
    /\ \A r \in Ranks : In(r, s, {"phase"}) => call[r].phase + 1 = entered[s][r]
    /\ \A r \in Ranks : In(r, s, {"reset", "advance"}) =>
         Counted(s) = Ranks /\ \A q \in Ranks : In(q, s, {"reset", "advance"}) => q = r
    /\ \A r \in Ranks : In(r, s, {"advance"}) => Count(s) = 0
    /\ Count(s) <= Cardinality(Counted(s))
SegInv(s) ==
    /\ \A r \in Ranks : entered[s][r] \in {left[s][r], left[s][r] + 1}
    /\ \A r \in Ranks : alive[r] => (entered[s][r] # left[s][r] <=> In(r, s, Inside))
    /\ ~broken[s] => Rounds(s)
DeadAreOut == \A r \in Ranks : ~alive[r] => call[r].pc = "user"
BarrierInv == DeadAreOut /\ \A s \in Segments : SegInv(s)

-----------------------------------------------------------------------------
LEMMA SegTypes ==
    ASSUME RankCounts, TypeOK, NEW s \in Segments
    PROVE  /\ Round(s) \in Nat /\ Count(s) \in Nat /\ \A r \in Ranks : entered[s][r] \in Nat /\ left[s][r] \in Nat
           /\ \A r \in Ranks : call[r].phase \in Nat
           /\ IsFiniteSet(Counted(s)) /\ Cardinality(Counted(s)) \in Nat
<1>1. Counted(s) \in SUBSET Ranks
  BY Zenon DEF Counted
<1>2. IsFiniteSet(Counted(s)) /\ Cardinality(Counted(s)) \in Nat
  BY Zenon, <1>1 DEF RankCounts
<1> QED BY <1>2 DEF TypeOK, Headers, LibCalls, Round, Count

\* What rank q does has nothing to do with the barriers on segment s.
Aside(q, s) ==
    \/ call'[q] = call[q] /\ alive'[q] = alive[q]
    \/ /\ ~In(q, s, Inside) /\ ~In(q, s, Inside)' /\ alive'[q] = alive[q]
       /\ In(q, s, {"arrive"})' => call'[q].phase = Round(s)
    \/ ~alive'[q] /\ call'[q].pc = "user"

LEMMA SegFrame ==
    ASSUME RankCounts, TypeOK, TypeOK', NEW s \in Segments, SegInv(s), \A q \in Ranks : Aside(q, s),
           entered'[s] = entered[s], left'[s] = left[s], broken'[s] = broken[s],
           Round(s)' = Round(s), Count(s)' \in {Count(s), 0}
    PROVE  SegInv(s)'
<1>0. Round(s) \in Nat /\ Count(s) \in Nat /\ Cardinality(Counted(s)) \in Nat
  BY Zenon, SegTypes
<1>1. \A r \in Ranks : entered'[s][r] \in {left'[s][r], left'[s][r] + 1}
  BY Zenon DEF SegInv
<1>2. ASSUME NEW r \in Ranks, alive'[r] PROVE entered'[s][r] # left'[s][r] <=> In(r, s, Inside)'
  <2>1. alive[r] /\ (In(r, s, Inside)' <=> In(r, s, Inside))
    BY Zenon, <1>2 DEF Aside, In
  <2> QED BY Zenon, <2>1 DEF SegInv
<1>3. ASSUME ~broken'[s] PROVE Rounds(s)'
  <2>0. Rounds(s)
    BY Zenon, <1>3 DEF SegInv
  <2>1. Counted(s)' = Counted(s)
    BY Zenon DEF Counted
  <2>2. \A r \in Ranks : /\ In(r, s, {"reset", "advance"})' => In(r, s, {"reset", "advance"})
                         /\ In(r, s, {"advance"})' => In(r, s, {"advance"})
    BY Zenon DEF Aside, In, Inside
  <2>3. ASSUME NEW r \in Ranks, In(r, s, {"arrive"})' PROVE call'[r].phase = Round(s)
    BY <2>0, <2>3 DEF Aside, In, Rounds
  <2>4. ASSUME NEW r \in Ranks, In(r, s, {"phase"})' PROVE call'[r].phase + 1 = entered[s][r]
    BY Zenon, <2>0, <2>4 DEF Aside, In, Rounds, Inside
  <2>5. Count(s)' <= Cardinality(Counted(s))
    BY <1>0, <2>0 DEF Rounds
  <2>6. \A r \in Ranks : In(r, s, {"advance"})' => Count(s)' = 0
    BY Zenon, <2>0, <2>2 DEF Rounds
  <2>7. \A r \in Ranks : In(r, s, {"reset", "advance"})' =>
         Counted(s) = Ranks /\ \A q \in Ranks : In(q, s, {"reset", "advance"})' => q = r
    BY Zenon, <2>0, <2>2 DEF Rounds
  <2>8. /\ \A r \in Ranks : entered'[s][r] \in {Round(s), Round(s) + 1}
        /\ \A r \in Ranks : entered'[s][r] = left'[s][r] => entered'[s][r] = Round(s)
    BY Zenon, <2>0 DEF Rounds
  <2> QED BY Zenon, <2>1, <2>3, <2>4, <2>5, <2>6, <2>7, <2>8 DEF Rounds
<1> QED BY Zenon, <1>1, <1>2, <1>3 DEF SegInv

-----------------------------------------------------------------------------
\* The last to arrive finds everybody counted.
LEMMA ArriveSeg ==
    ASSUME RankCounts, TypeOK, TypeOK', NEW s \in Segments, SegInv(s), NEW r \in Ranks, Arrive(r), call[r].seg = s
    PROVE  SegInv(s)'
<1>0. /\ Round(s) \in Nat /\ Count(s) \in Nat /\ Cardinality(Counted(s)) \in Nat /\ IsFiniteSet(Counted(s))
      /\ \A q \in Ranks : entered[s][q] \in Nat /\ left[s][q] \in Nat
  BY Zenon, SegTypes
<1>a. alive[r] /\ call[r].pc = "arrive" /\ UNCHANGED <<alive, left, broken>>
  BY Zenon DEF Arrive, At
<1>b. /\ entered'[s][r] = entered[s][r] + 1 /\ \A q \in Ranks \ {r} : entered'[s][q] = entered[s][q]
  BY DEF Arrive, TypeOK
<1>c. Round(s)' = Round(s) /\ Count(s)' = Count(s) + 1
  <2>1. segs'[s] = [segs[s] EXCEPT !.barrier_count = @ + 1] /\ segs[s] \in Headers
    BY Zenon, AddToCount DEF Arrive, Seg, TypeOK
  <2> QED BY Zenon, <2>1 DEF Round, Count, Headers
<1>d. /\ \A q \in Ranks \ {r} : call'[q] = call[q]
      /\ call'[r].pc = IF Count(s) + 1 = nranks(Base) THEN "reset" ELSE "phase"
      /\ call'[r].seg = s /\ call'[r].phase = call[r].phase
  <2>1. {"reset", "phase"} \subseteq CallPcs
    BY Zenon DEF CallPcs, Inside
  <2>2. GoTo(r, IF Count(s) + 1 = nranks(Base) THEN "reset" ELSE "phase")
    BY Zenon DEF Arrive, Seg, Count
  <2> QED BY Zenon, <2>1, <2>2, GoToChanges
<1>e. entered[s][r] = left[s][r]
  BY Zenon, <1>a DEF SegInv, In, Inside
<1>1. \A q \in Ranks : entered'[s][q] \in {left'[s][q], left'[s][q] + 1}
  BY ZenonT(30), <1>0, <1>a, <1>b, <1>e DEF SegInv
<1>2. ASSUME NEW q \in Ranks, alive'[q] PROVE entered'[s][q] # left'[s][q] <=> In(q, s, Inside)'
  <2>1. CASE q = r
    BY <1>0, <1>a, <1>b, <1>d, <1>e, <2>1 DEF In, Inside
  <2>2. CASE q # r
    BY <1>2, <1>a, <1>b, <1>d, <2>2 DEF In, SegInv
  <2> QED BY Zenon, <2>1, <2>2
<1>3. ASSUME ~broken'[s] PROVE Rounds(s)'
  <2>0. Rounds(s) /\ entered[s][r] = Round(s) /\ call[r].phase = Round(s)
    BY Zenon, <1>3, <1>a, <1>e DEF SegInv, Rounds, In
  <2>1. r \notin Counted(s) /\ Counted(s)' = Counted(s) \cup {r}
    BY <1>0, <1>b, <1>c, <2>0 DEF Counted
  <2>2. Cardinality(Counted(s)') = Cardinality(Counted(s)) + 1 /\ Counted(s)' \subseteq Ranks /\ IsFiniteSet(Counted(s)')
    <3>1. Counted(s)' \subseteq Ranks
      BY Zenon DEF Counted
    <3>2. Counted(s) \in SUBSET Ranks /\ Counted(s)' \in SUBSET Ranks
      BY Zenon DEF Counted
    <3>3. Cardinality(Counted(s) \cup {r}) = Cardinality(Counted(s)) + 1
      BY Zenon, <2>1, <3>2 DEF RankCounts
    <3> QED BY Zenon, <2>1, <3>1, <3>2, <3>3 DEF RankCounts
  <2>3. Count(s)' <= Cardinality(Counted(s)')
    BY <1>0, <1>c, <2>0, <2>2 DEF Rounds
  <2>4. call'[r].pc = "reset" => Counted(s)' = Ranks
    <3>1. Cardinality(Counted(s)') <= Cardinality(Ranks) /\ (Cardinality(Ranks) = Cardinality(Counted(s)') => Ranks = Counted(s)')
      BY Zenon, <2>2 DEF RankCounts
    <3>2. call'[r].pc = "reset" => Count(s)' = Cardinality(Ranks)
      BY Zenon, <1>c, <1>d DEF nranks, Of
    <3>3. Cardinality(Counted(s)') \in Nat /\ Cardinality(Ranks) \in Nat
      BY Zenon, <2>2 DEF RankCounts
    <3> QED BY <2>3, <3>1, <3>2, <3>3
  <2>5. \A q \in Ranks : ~In(q, s, {"reset", "advance"}) /\ ~In(q, s, {"advance"})
    BY Zenon, <2>0, <2>1 DEF Rounds, In
  <2>6. \A q \in Ranks : In(q, s, {"reset", "advance"})' => q = r /\ Counted(s)' = Ranks
    BY Zenon, <1>d, <2>4, <2>5 DEF In
  <2>7. \A q \in Ranks : ~In(q, s, {"advance"})'
    BY Zenon, <1>d, <2>5 DEF In
  <2>8. \A q \in Ranks : In(q, s, {"arrive"})' => call'[q].phase = Round(s)'
    BY Zenon, <1>c, <1>d, <2>0 DEF In, Rounds
  <2>9. \A q \in Ranks : In(q, s, {"phase"})' => call'[q].phase + 1 = entered'[s][q]
    BY Zenon, <1>b, <1>d, <2>0 DEF In, Rounds
  <2>10. /\ \A q \in Ranks : entered'[s][q] \in {Round(s)', Round(s)' + 1}
         /\ \A q \in Ranks : entered'[s][q] = left'[s][q] => entered'[s][q] = Round(s)'
    <3>1. entered'[s][r] = Round(s) + 1 /\ entered'[s][r] # left'[s][r]
      BY <1>0, <1>a, <1>b, <1>e, <2>0
    <3>2. ASSUME NEW q \in Ranks, q # r
          PROVE  entered'[s][q] \in {Round(s), Round(s) + 1} /\ (entered'[s][q] = left'[s][q] => entered'[s][q] = Round(s))
      <4>1. entered'[s][q] = entered[s][q] /\ left'[s][q] = left[s][q]
        BY Zenon, <1>a, <1>b, <3>2
      <4> QED BY Zenon, <4>1, <2>0 DEF Rounds
    <3> QED BY Zenon, <1>c, <3>1, <3>2
  <2> QED BY Zenon, <2>3, <2>6, <2>7, <2>8, <2>9, <2>10 DEF Rounds
<1> QED BY Zenon, <1>1, <1>2, <1>3 DEF SegInv

LEMMA ResetSeg ==
    ASSUME RankCounts, TypeOK, TypeOK', NEW s \in Segments, SegInv(s), NEW r \in Ranks, ResetCount(r), call[r].seg = s
    PROVE  SegInv(s)'
<1>0. Round(s) \in Nat /\ Count(s) \in Nat /\ Cardinality(Counted(s)) \in Nat
  BY Zenon, SegTypes
<1>a. alive[r] /\ call[r].pc = "reset" /\ UNCHANGED <<alive, entered, left, broken>>
  BY Zenon DEF ResetCount, At, barrier
<1>b. Round(s)' = Round(s) /\ Count(s)' = 0
  BY DEF ResetCount, TypeOK, Round, Count, Headers
<1>c. /\ \A q \in Ranks \ {r} : call'[q] = call[q]
      /\ call'[r].pc = "advance" /\ call'[r].seg = s
  <2>1. "advance" \in CallPcs
    BY Zenon DEF CallPcs, Inside
  <2> QED BY Zenon, <2>1, GoToChanges DEF ResetCount
<1>2. ASSUME NEW q \in Ranks, alive'[q] PROVE entered'[s][q] # left'[s][q] <=> In(q, s, Inside)'
  <2>1. In(q, s, Inside)' <=> In(q, s, Inside)
    BY Zenon, <1>a, <1>c DEF In, Inside
  <2> QED BY Zenon, <1>2, <1>a, <2>1 DEF SegInv
<1>3. ASSUME ~broken'[s] PROVE Rounds(s)'
  <2>0. Rounds(s)
    BY Zenon, <1>3, <1>a DEF SegInv
  <2>1. Counted(s)' = Counted(s)
    BY Zenon, <1>a, <1>b DEF Counted
  <2>2. \A q \in Ranks : In(q, s, {"reset", "advance"})' <=> In(q, s, {"reset", "advance"})
    BY Zenon, <1>a, <1>c DEF In
  <2>3. \A q \in Ranks : /\ In(q, s, {"arrive"})' => call'[q].phase = Round(s)
                         /\ In(q, s, {"phase"})' => call'[q].phase + 1 = entered[s][q]
    BY Zenon, <1>c, <2>0 DEF In, Rounds
  <2>4. Count(s)' <= Cardinality(Counted(s))
    BY <1>0, <1>b
  <2>5. \A q \in Ranks : In(q, s, {"reset", "advance"})' =>
         Counted(s) = Ranks /\ \A p \in Ranks : In(p, s, {"reset", "advance"})' => p = q
    BY Zenon, <2>0, <2>2 DEF Rounds
  <2>6. /\ \A q \in Ranks : entered'[s][q] \in {Round(s), Round(s) + 1}
        /\ \A q \in Ranks : entered'[s][q] = left'[s][q] => entered'[s][q] = Round(s)
    BY Zenon, <1>a, <2>0 DEF Rounds
  <2> QED BY Zenon, <1>a, <1>b, <2>1, <2>3, <2>4, <2>5, <2>6 DEF Rounds
<1> QED BY Zenon, <1>a, <1>2, <1>3 DEF SegInv

\* A rank leaves the barrier it is in.
LEMMA LeaveSeg ==
    ASSUME RankCounts, TypeOK, TypeOK', NEW s \in Segments, SegInv(s), NEW r \in Ranks, call[r].seg = s,
           call[r].pc \in Inside, alive[r], alive' = alive, entered' = entered,
           left' = [left EXCEPT ![s][r] = @ + 1], NEW code \in {0, 1}, Return(r, code)
    PROVE  /\ \A q \in Ranks : entered'[s][q] \in {left'[s][q], left'[s][q] + 1}
           /\ \A q \in Ranks : alive'[q] => (entered'[s][q] # left'[s][q] <=> In(q, s, Inside)')
           /\ entered[s][r] = left[s][r] + 1 /\ left'[s][r] = left[s][r] + 1
           /\ \A q \in Ranks \ {r} : call'[q] = call[q] /\ left'[s][q] = left[s][q]
           /\ call'[r].pc = "user"
<1>1. /\ \A q \in Ranks : entered[s][q] \in Nat /\ left[s][q] \in Nat
  BY Zenon, SegTypes
<1>2. /\ \A q \in Ranks \ {r} : call'[q] = call[q]
      /\ call'[r] = NoCall
  BY Zenon, ReturnChanges DEF CallChanges
<1>3. call'[r].pc = "user"
  BY <1>2 DEF NoCall
<1>4. left'[s][r] = left[s][r] + 1 /\ \A q \in Ranks \ {r} : left'[s][q] = left[s][q]
  BY DEF TypeOK
<1>5. entered[s][r] = left[s][r] + 1
  BY Zenon DEF SegInv, In
<1>6. \A q \in Ranks : entered'[s][q] \in {left'[s][q], left'[s][q] + 1}
  BY Zenon, <1>4, <1>5 DEF SegInv
<1>7. ASSUME NEW q \in Ranks, alive'[q] PROVE entered'[s][q] # left'[s][q] <=> In(q, s, Inside)'
  <2>1. CASE q = r
    BY Zenon, <1>3, <1>4, <1>5, <2>1 DEF In, Inside
  <2>2. CASE q # r
    BY <1>2, <1>4, <1>7, <2>2 DEF SegInv, In
  <2> QED BY Zenon, <2>1, <2>2
<1> QED BY Zenon, <1>2, <1>3, <1>4, <1>5, <1>6, <1>7

\* Whoever advances the phase is alone at it, and everybody has been counted.
LEMMA AdvanceSeg ==
    ASSUME RankCounts, TypeOK, TypeOK', NEW s \in Segments, DeadAreOut, SegInv(s), NEW r \in Ranks, AdvancePhase(r),
           call[r].seg = s
    PROVE  SegInv(s)'
<1>0. Round(s) \in Nat /\ Count(s) \in Nat /\ \A q \in Ranks : entered[s][q] \in Nat /\ left[s][q] \in Nat
  BY Zenon, SegTypes
<1>a. /\ alive[r] /\ call[r].pc = "advance" /\ UNCHANGED <<alive, entered, broken>>
      /\ left' = [left EXCEPT ![s][r] = @ + 1] /\ Return(r, 0)
  BY Zenon DEF AdvancePhase, LeaveBarrier, At
<1>b. Round(s)' = Round(s) + 1 /\ Count(s)' = Count(s)
  <2>1. segs'[s] = [segs[s] EXCEPT !.barrier_phase = @ + 1] /\ segs[s] \in Headers
    BY Zenon, AddToPhase DEF AdvancePhase, Seg, TypeOK
  <2> QED BY Zenon, <2>1 DEF Round, Count, Headers
<1>c. "advance" \in Inside
  BY Zenon DEF Inside
<1>1. /\ \A q \in Ranks : entered'[s][q] \in {left'[s][q], left'[s][q] + 1}
      /\ \A q \in Ranks : alive'[q] => (entered'[s][q] # left'[s][q] <=> In(q, s, Inside)')
      /\ entered[s][r] = left[s][r] + 1 /\ left'[s][r] = left[s][r] + 1
      /\ \A q \in Ranks \ {r} : call'[q] = call[q] /\ left'[s][q] = left[s][q]
      /\ call'[r].pc = "user"
  BY ZenonT(40), <1>a, <1>c, LeaveSeg
<1>3. ASSUME ~broken'[s] PROVE Rounds(s)'
  <2>0. Rounds(s) /\ Counted(s) = Ranks /\ Count(s) = 0 /\ \A q \in Ranks : In(q, s, {"reset", "advance"}) => q = r
    BY Zenon, <1>3, <1>a DEF SegInv, Rounds, In
  <2>1. \A q \in Ranks : entered[s][q] = Round(s) + 1
    BY Zenon, <2>0 DEF Counted
  <2>2. \A q \in Ranks : ~In(q, s, {"reset", "advance"})' /\ ~In(q, s, {"advance"})'
    BY <1>1, <2>0 DEF In
  <2>3. \A q \in Ranks : ~In(q, s, {"arrive"})'
    <3>1. \A q \in Ranks : ~In(q, s, {"arrive"})
      <4> SUFFICES ASSUME NEW q \in Ranks, In(q, s, {"arrive"}) PROVE FALSE
        BY Zenon
      <4>1. alive[q] /\ ~In(q, s, Inside)
        BY Zenon DEF DeadAreOut, In, Inside
      <4>2. entered[s][q] = Round(s)
        BY Zenon, <2>0, <4>1 DEF SegInv, Rounds
      <4> QED BY <1>0, <2>1, <4>2
    <3> QED BY Zenon, <1>1, <3>1 DEF In
  <2>4. \A q \in Ranks : In(q, s, {"phase"})' => call'[q].phase + 1 = entered'[s][q]
    BY <1>a, <1>1, <2>0 DEF In, Rounds
  <2>5. /\ \A q \in Ranks : entered'[s][q] \in {Round(s)', Round(s)' + 1}
        /\ \A q \in Ranks : entered'[s][q] = left'[s][q] => entered'[s][q] = Round(s)'
    BY Zenon, <1>a, <1>b, <2>1
  <2>6. Count(s)' <= Cardinality(Counted(s)')
    <3>1. Cardinality(Counted(s)') \in Nat
      <4>1. Counted(s)' \in SUBSET Ranks
        BY Zenon DEF Counted
      <4> QED BY Zenon, <4>1 DEF RankCounts
    <3> QED BY <1>b, <2>0, <3>1
  <2> QED BY Zenon, <2>2, <2>3, <2>4, <2>5, <2>6 DEF Rounds
<1> QED BY Zenon, <1>1, <1>3 DEF SegInv

LEMMA AwaitSeg ==
    ASSUME RankCounts, TypeOK, TypeOK', NEW s \in Segments, SegInv(s), NEW r \in Ranks, AwaitPhase(r), call[r].seg = s
    PROVE  SegInv(s)' /\ (~broken[s] => left[s][r] + 1 = Round(s))
<1>0. /\ Round(s) \in Nat /\ \A q \in Ranks : entered[s][q] \in Nat /\ left[s][q] \in Nat
      /\ call[r].phase \in Nat
  BY Zenon, SegTypes
<1>a. /\ alive[r] /\ call[r].pc = "phase" /\ segs' = segs /\ alive' = alive /\ entered' = entered /\ broken' = broken
      /\ left' = [left EXCEPT ![s][r] = @ + 1] /\ Return(r, 0) /\ Round(s) # call[r].phase
  BY Zenon DEF AwaitPhase, LeaveBarrier, At, Round, Seg
<1>b. Round(s)' = Round(s) /\ Count(s)' = Count(s) /\ Counted(s)' = Counted(s)
  BY Zenon, <1>a DEF Round, Count, Counted
<1>c. call[r].pc \in Inside /\ 0 \in {0, 1}
  BY Zenon, <1>a DEF Inside
<1>1. /\ \A q \in Ranks : entered'[s][q] \in {left'[s][q], left'[s][q] + 1}
      /\ \A q \in Ranks : alive'[q] => (entered'[s][q] # left'[s][q] <=> In(q, s, Inside)')
      /\ entered[s][r] = left[s][r] + 1 /\ left'[s][r] = left[s][r] + 1
      /\ \A q \in Ranks \ {r} : call'[q] = call[q] /\ left'[s][q] = left[s][q]
      /\ call'[r].pc = "user"
  BY Zenon, <1>a, <1>c, LeaveSeg
<1>2. ~broken[s] => entered[s][r] = Round(s)
  BY <1>0, <1>a DEF SegInv, Rounds, In
<1>3. ASSUME ~broken'[s] PROVE Rounds(s)'
  <2>0. Rounds(s) /\ entered[s][r] = Round(s)
    BY Zenon, <1>2, <1>3, <1>a DEF SegInv
  <2>1. \A q \in Ranks : \A pcs \in {{"arrive"}, {"phase"}, {"advance"}, {"reset", "advance"}} :
           In(q, s, pcs)' => q # r /\ In(q, s, pcs)
    BY ZenonT(30), <1>1 DEF In
  <2>2. \A q \in Ranks : In(q, s, {"reset", "advance"})' =>
         Counted(s) = Ranks /\ \A p \in Ranks : In(p, s, {"reset", "advance"})' => p = q
    BY Zenon, <2>0, <2>1 DEF Rounds
  <2>3. \A q \in Ranks : /\ In(q, s, {"arrive"})' => call'[q].phase = Round(s)
                         /\ In(q, s, {"phase"})' => call'[q].phase + 1 = entered[s][q]
                         /\ In(q, s, {"advance"})' => Count(s) = 0
    BY <1>1, <2>0, <2>1 DEF Rounds
  <2>4. /\ \A q \in Ranks : entered[s][q] \in {Round(s), Round(s) + 1}
        /\ \A q \in Ranks : entered[s][q] = left'[s][q] => entered[s][q] = Round(s)
    BY <1>1, <2>0 DEF Rounds
  <2>5. Count(s) <= Cardinality(Counted(s))
    BY Zenon, <2>0 DEF Rounds
  <2> QED BY Zenon, <1>a, <1>b, <2>2, <2>3, <2>4, <2>5 DEF Rounds
<1> QED BY Zenon, <1>1, <1>2, <1>3 DEF SegInv

\* A rank that gives up breaks the segment.
LEMMA GiveUpSeg ==
    ASSUME RankCounts, TypeOK, TypeOK', NEW s \in Segments, SegInv(s), NEW r \in Ranks, TimeOut(r), At(r, "phase"),
           call[r].seg = s
    PROVE  SegInv(s)'
<1>a. /\ alive[r] /\ call[r].pc = "phase" /\ alive' = alive /\ entered' = entered
      /\ left' = [left EXCEPT ![s][r] = @ + 1] /\ Return(r, 1) /\ broken' = [broken EXCEPT ![s] = TRUE]
  BY Zenon DEF TimeOut, At
<1>b. call[r].pc \in Inside /\ 1 \in {0, 1} /\ broken'[s]
  BY Zenon, <1>a DEF Inside, TypeOK
<1>1. /\ \A q \in Ranks : entered'[s][q] \in {left'[s][q], left'[s][q] + 1}
      /\ \A q \in Ranks : alive'[q] => (entered'[s][q] # left'[s][q] <=> In(q, s, Inside)')
  BY Zenon, <1>a, <1>b, LeaveSeg
<1> QED BY Zenon, <1>1, <1>b DEF SegInv

\* The creator writes the header before it has been in any barrier, so nobody is
\* out of the first one.
LEMMA HeaderSeg ==
    ASSUME RankCounts, TypeOK, TypeOK', NEW s \in Segments, SegInv(s), NEW r \in Ranks, Map(r), call[r].seg = s,
           call[r].is_creator, CallOK(r), segs' # segs
    PROVE  SegInv(s)'
<1>0. Round(s) \in Nat /\ Count(s) \in Nat
  BY Zenon, SegTypes
<1>a. /\ segs' = [segs EXCEPT ![s] = [Header EXCEPT !.sized = TRUE, !.alloc_done = TRUE]]
      /\ GoTo(r, "ready") /\ alive' = alive /\ UNCHANGED barrier /\ call[r].pc = "map"
  BY Zenon DEF Map, At
<1>b. Round(s)' = 0 /\ Count(s)' = 0
  BY Zenon, <1>a DEF Round, Count, Header, TypeOK
<1>c. call'[r].pc = "ready" /\ \A q \in Ranks \ {r} : call'[q] = call[q]
  <2>1. "ready" \in CallPcs
    BY Zenon DEF CallPcs, Setup
  <2> QED BY Zenon, <1>a, <2>1, GoToChanges
<1>d. \A q \in Ranks : Aside(q, s)
  BY Zenon, <1>a, <1>c DEF Aside, In, Inside
<1>1. CASE broken[s]
  <2>1. \A q \in Ranks : alive'[q] => (In(q, s, Inside)' <=> In(q, s, Inside)) /\ alive'[q] = alive[q]
    BY Zenon, <1>a, <1>c DEF In, Inside
  <2> QED BY Zenon, <1>a, <1>1, <2>1 DEF SegInv, barrier
<1>2. CASE ~broken[s]
  <2>1. entered[s][r] = 0
    BY Zenon, <1>a DEF CallOK
  <2>2. Round(s) = 0
    BY <1>0, <1>2, <2>1 DEF SegInv, Rounds
  <2>3. entered'[s] = entered[s] /\ left'[s] = left[s] /\ broken'[s] = broken[s] /\ Round(s)' = Round(s) /\ Count(s)' \in {Count(s), 0}
    BY Zenon, <1>a, <1>b, <2>2 DEF barrier
  <2> QED BY Zenon, <1>d, <2>3, SegFrame
<1> QED BY Zenon, <1>1, <1>2

-----------------------------------------------------------------------------
\* A step of a rank leaves the barriers on the other segments alone.
LEMMA StepElsewhere ==
    ASSUME TypeOK, NEW r \in Ranks, Step(r), NEW s \in Segments, s # call[r].seg
    PROVE  segs'[s] = segs[s] /\ ~In(r, s, Inside) /\ ~In(r, s, Inside \cup {"arrive"})'
<1>1. segs'[s] = segs[s]
  <2>1. \/ \E f : AddTo(r, f)
        \/ UNCHANGED segs \/ \E x : segs' = [segs EXCEPT ![call[r].seg] = x]
    BY Zenon DEF Step, Truncate, OpenExisting, AwaitSized, Map, AwaitDone, CountReady, AwaitPeers, Arrive,
       ResetCount, AdvancePhase, AwaitPhase, LeaveBarrier, LastOut, AwaitGone, TimeOut
  <2> QED BY Zenon, <2>1 DEF TypeOK, AddTo
<1>2. \/ \E pc : GoTo(r, pc) \/ call' = [call EXCEPT ![r] = NoCall]
      \/ call' = [call EXCEPT ![r].pc = "sized", ![r].seg = link[call[r].name]]
  BY Zenon DEF Step, Truncate, OpenExisting, AwaitSized, Map, AwaitDone, CountReady, AwaitPeers, Arrive,
     ResetCount, AdvancePhase, AwaitPhase, LeaveBarrier, LastOut, AwaitGone, TimeOut, Return
<1>3. call'[r].seg = call[r].seg \/ call'[r].pc \in {"user", "sized"}
  BY <1>2 DEF GoTo, TypeOK, LibCalls, NoCall
<1> QED BY Zenon, <1>1, <1>3 DEF In, Inside

\* So do the steps outside comm_barrier, the writing of the header excepted.
Neutral(r) ==
    \/ Truncate(r) \/ OpenExisting(r) \/ AwaitSized(r) \/ AwaitDone(r) \/ CountReady(r) \/ AwaitPeers(r)
    \/ Map(r) /\ (segs' = segs \/ ~call[r].is_creator)
    \/ LastOut(r) \/ AwaitGone(r)
    \/ TimeOut(r) /\ ~At(r, "phase")

LEMMA StepAside ==
    ASSUME TypeOK, TypeOK', NEW r \in Ranks, NEW s \in Segments, s = call[r].seg, Neutral(r)
    PROVE  /\ UNCHANGED <<entered, left, broken, alive>> /\ Round(s)' = Round(s) /\ Count(s)' = Count(s)
           /\ call[r].pc \notin Inside /\ call'[r].pc \notin Inside \cup {"arrive"}
<1>1. UNCHANGED <<entered, left, broken, alive>>
  BY Zenon DEF Neutral, Truncate, OpenExisting, AwaitSized, AwaitDone, CountReady, AwaitPeers, Map, LastOut, AwaitGone,
     TimeOut, barrier
<1>2. segs[s] \in Headers /\ segs \in [Segments -> Headers]
  BY Zenon DEF TypeOK
<1>3. \/ segs' = segs \/ segs' = [segs EXCEPT ![s].sized = TRUE] \/ AddTo(r, "ready_count")
  BY Zenon DEF Neutral, Truncate, OpenExisting, AwaitSized, AwaitDone, CountReady, AwaitPeers, Map, LastOut, AwaitGone,
     TimeOut
<1>4. Round(s)' = Round(s) /\ Count(s)' = Count(s)
  <2>1. CASE segs' = segs \/ segs' = [segs EXCEPT ![s].sized = TRUE]
    BY <1>2, <2>1 DEF Headers, Round, Count
  <2>2. CASE AddTo(r, "ready_count")
    <3>1. segs'[s] = [segs[s] EXCEPT !.ready_count = @ + 1]
      BY Zenon, <2>2, AddToReady DEF Seg
    <3> QED BY Zenon, <1>2, <3>1 DEF Headers, Round, Count
  <2> QED BY Zenon, <1>3, <2>1, <2>2
<1>5. call[r].pc \in Setup \cup {"peers", "unlink", "drain"}
  <2>1. call[r].pc \in {"truncate", "attach", "sized", "map", "done", "ready", "peers", "unlink", "drain"}
    BY Zenon DEF Neutral, Truncate, OpenExisting, AwaitSized, AwaitDone, CountReady, AwaitPeers, Map, LastOut, AwaitGone,
       TimeOut, Waiting, At
  <2> QED BY Zenon, <2>1 DEF Setup
<1>6. \/ \E pc \in {"map", "ready", "done", "peers"} : GoTo(r, pc)
      \/ call' = [call EXCEPT ![r] = NoCall]
      \/ call' = [call EXCEPT ![r].pc = "sized", ![r].seg = link[call[r].name]]
  BY Zenon DEF Neutral, Truncate, OpenExisting, AwaitSized, AwaitDone, CountReady, AwaitPeers, Map, LastOut, AwaitGone,
     TimeOut, Return
<1>7. call'[r].pc \in {"map", "ready", "done", "peers", "user", "sized"}
  BY <1>6 DEF GoTo, TypeOK, LibCalls, NoCall
<1> QED BY Zenon, <1>1, <1>4, <1>5, <1>7 DEF Inside, Setup

LEMMA StepBarrier ==
    ASSUME RankCounts, TypeOK, TypeOK', CallInv, BarrierInv, NEW r \in Ranks, Step(r)
    PROVE  BarrierInv'
<1>1. Own(r) /\ alive' = alive /\ alive[r] /\ CallOK(r) /\ DeadAreOut /\ \A s \in Segments : SegInv(s)
  <2>1. alive' = alive /\ alive[r]
    BY Zenon DEF Step, Truncate, OpenExisting, AwaitSized, Map, AwaitDone, CountReady, AwaitPeers, Arrive,
       ResetCount, AdvancePhase, AwaitPhase, LeaveBarrier, LastOut, AwaitGone, TimeOut, Waiting, At
  <2> QED BY Zenon, <2>1, StepOwn DEF CallInv, BarrierInv
<1>2. DeadAreOut'
  BY Zenon, <1>1 DEF DeadAreOut, Own
<1>3. ASSUME NEW s \in Segments, s # call[r].seg PROVE SegInv(s)'
  <2>1. segs'[s] = segs[s] /\ ~In(r, s, Inside) /\ ~In(r, s, Inside \cup {"arrive"})'
    BY Zenon, <1>3, StepElsewhere
  <2>2. \A q \in Ranks : Aside(q, s)
    BY Zenon, <1>1, <2>1 DEF Aside, Own, In
  <2>3. entered'[s] = entered[s] /\ left'[s] = left[s] /\ broken'[s] = broken[s]
    BY <1>1, <1>3 DEF Own, TypeOK
  <2>4. Round(s)' = Round(s) /\ Count(s)' \in {Count(s), 0}
    BY Zenon, <2>1 DEF Round, Count
  <2> QED BY Zenon, <1>1, <2>2, <2>3, <2>4, SegFrame
<1>4. ASSUME NEW s \in Segments, s = call[r].seg PROVE SegInv(s)'
  <2>1. CASE Arrive(r)
    BY Zenon, <1>1, <1>4, <2>1, ArriveSeg
  <2>2. CASE ResetCount(r)
    BY Zenon, <1>1, <1>4, <2>2, ResetSeg
  <2>3. CASE AdvancePhase(r)
    BY Zenon, <1>1, <1>4, <2>3, AdvanceSeg
  <2>4. CASE AwaitPhase(r)
    BY Zenon, <1>1, <1>4, <2>4, AwaitSeg
  <2>5. CASE TimeOut(r) /\ At(r, "phase")
    BY Zenon, <1>1, <1>4, <2>5, GiveUpSeg
  <2>6. CASE Map(r) /\ call[r].is_creator /\ segs' # segs
    BY Zenon, <1>1, <1>4, <2>6, HeaderSeg
  <2>7. CASE Neutral(r)
    <3>1. /\ UNCHANGED <<entered, left, broken, alive>> /\ Round(s)' = Round(s)
          /\ Count(s)' = Count(s)
          /\ call[r].pc \notin Inside /\ call'[r].pc \notin Inside \cup {"arrive"}
      BY Zenon, <1>4, <2>7, StepAside
    <3>2. \A q \in Ranks : Aside(q, s)
      BY Zenon, <1>1, <3>1 DEF Aside, Own, In
    <3>3. entered'[s] = entered[s] /\ left'[s] = left[s] /\ broken'[s] = broken[s] /\ Count(s)' \in {Count(s), 0}
      BY Zenon, <3>1
    <3> QED BY Zenon, <1>1, <3>1, <3>2, <3>3, SegFrame
  <2>8. \/ Neutral(r) \/ Arrive(r) \/ ResetCount(r) \/ AdvancePhase(r) \/ AwaitPhase(r)
        \/ TimeOut(r) /\ At(r, "phase")
        \/ Map(r) /\ call[r].is_creator /\ segs' # segs
    BY Zenon DEF Step, Neutral
  <2> QED BY Zenon, <2>1, <2>2, <2>3, <2>4, <2>5, <2>6, <2>7, <2>8
<1> QED BY Zenon, <1>2, <1>3, <1>4 DEF BarrierInv

\* A call begins outside the barriers, comm_barrier with the phase it finds.
LEMMA CallsAside ==
    ASSUME TypeOK, TypeOK', NEW r \in Ranks, NEW op \in {"init", "barrier", "derive", "destroy", "alloc", "release"},
           NEW nm \in Names, op = "release" => nm \in Domains, Calls(r, op, nm), NEW s \in Segments
    PROVE  /\ UNCHANGED <<entered, left, broken>> /\ Round(s)' = Round(s) /\ Count(s)' = Count(s)
           /\ ~In(r, s, Inside)' /\ (In(r, s, {"arrive"})' => call'[r].phase = Round(s))
<1>0. h[r] \in Handles /\ segs \in [Segments -> Headers] /\ segs[s] \in Headers /\ call \in [Ranks -> LibCalls]
  BY Zenon DEF TypeOK
<1>1. UNCHANGED <<entered, left, broken>>
  BY Zenon DEF Calls, comm_init, OpenExclusive, comm_derive_context, SnapshotPhase, comm_release_domain_windows,
     comm_destroy, barrier
<1>2. Round(s)' = Round(s) /\ Count(s)' = Count(s)
  <2>1. segs' = segs \/ \E t : segs' = [segs EXCEPT ![t].destroy_count = @ + 1]
    BY Zenon DEF Calls, comm_init, OpenExclusive, comm_derive_context, SnapshotPhase, comm_release_domain_windows,
       comm_destroy, CountGone
  <2>2. CASE segs' = segs
    BY Zenon, <2>2 DEF Round, Count
  <2>3. ASSUME NEW t, segs' = [segs EXCEPT ![t].destroy_count = @ + 1] PROVE Round(s)' = Round(s) /\ Count(s)' = Count(s)
    <3>1. segs'[s] = IF t = s THEN [segs[s] EXCEPT !.destroy_count = @ + 1] ELSE segs[s]
      BY Zenon, <1>0, <2>3
    <3>2. [segs[s] EXCEPT !.destroy_count = @ + 1].barrier_phase = segs[s].barrier_phase
      BY Zenon, <1>0 DEF Headers
    <3>3. [segs[s] EXCEPT !.destroy_count = @ + 1].barrier_count = segs[s].barrier_count
      BY Zenon, <1>0 DEF Headers
    <3> QED BY Zenon, <3>1, <3>2, <3>3 DEF Round, Count
  <2> QED BY Zenon, <2>1, <2>2, <2>3
<1>3. ASSUME NEW x, call' = [call EXCEPT ![r] = x], x.pc \in {"user", "truncate", "attach", "unlink", "drain"}
      PROVE  ~In(r, s, Inside)' /\ ~In(r, s, {"arrive"})'
  BY Zenon, <1>0, <1>3 DEF In, Inside
<1>4. ASSUME NEW code, Return(r, code) PROVE ~In(r, s, Inside)' /\ ~In(r, s, {"arrive"})'
  BY Zenon, <1>3, <1>4 DEF Return, NoCall
<1>5. ASSUME NEW n, NEW t, CountGone(r, n, t) PROVE ~In(r, s, Inside)' /\ ~In(r, s, {"arrive"})'
  <2> DEFINE x == [NoCall EXCEPT !.name = n, !.seg = t, !.pc =
                     IF segs[t].destroy_count + 1 >= nranks(n) THEN "unlink" ELSE "drain"]
  <2>1. call' = [call EXCEPT ![r] = x]
    BY Zenon, <1>5 DEF CountGone
  <2>2. x.pc \in {"unlink", "drain"}
    BY Zenon DEF NoCall
  <2> HIDE DEF x
  <2> QED BY Zenon, <2>1, <2>2, <1>3
<1>6. CASE op = "barrier"
  <2>1. SnapshotPhase(r)
    BY Zenon, <1>6 DEF Calls
  <2>2. CASE h[r].base = None
    BY Zenon, <1>1, <1>2, <1>4, <2>1, <2>2 DEF SnapshotPhase
  <2>3. CASE h[r].base # None
    <3> DEFINE x == [NoCall EXCEPT !.pc = "arrive", !.seg = h[r].base, !.phase = segs[h[r].base].barrier_phase]
    <3>1. call' = [call EXCEPT ![r] = x]
      BY Zenon, <2>1, <2>3 DEF SnapshotPhase
    <3>2. x.seg = h[r].base /\ x.pc = "arrive" /\ x.phase = segs[h[r].base].barrier_phase
      BY Zenon DEF NoCall
    <3> HIDE DEF x
    <3>3. call'[r] = x
      BY Zenon, <1>0, <3>1
    <3> QED BY Zenon, <1>1, <1>2, <3>2, <3>3 DEF In, Inside, Round
  <2> QED BY Zenon, <2>2, <2>3
<1>7. CASE op = "alloc"
  <2>1. OpenExclusive(r, nm)
    BY Zenon, <1>7 DEF Calls
  <2>2. ~In(r, s, Inside)' /\ ~In(r, s, {"arrive"})'
    BY Zenon, <1>3, <1>4, <2>1 DEF OpenExclusive, NoCall
  <2> QED BY Zenon, <1>1, <1>2, <2>2
<1>8. CASE op \notin {"barrier", "alloc"}
  <2>1. ~In(r, s, Inside)' /\ ~In(r, s, {"arrive"})'
    BY Zenon, <1>4, <1>5, <1>8 DEF Calls, comm_init, comm_derive_context, comm_release_domain_windows, comm_destroy
  <2> QED BY Zenon, <1>1, <1>2, <2>1
<1> QED BY Zenon, <1>6, <1>7, <1>8

\* A step in which nobody enters or leaves a barrier.
LEMMA RankAside ==
    ASSUME RankCounts, TypeOK, TypeOK', BarrierInv, NEW r \in Ranks, \A s \in Segments : Aside(r, s),
           \A q \in Ranks \ {r} : call'[q] = call[q] /\ alive'[q] = alive[q],
           ~alive'[r] => call'[r].pc = "user", UNCHANGED <<entered, left, broken>>,
           \A s \in Segments : Round(s)' = Round(s) /\ Count(s)' = Count(s)
    PROVE  BarrierInv'
<1>1. DeadAreOut'
  BY Zenon DEF DeadAreOut, BarrierInv
<1>2. ASSUME NEW s \in Segments PROVE SegInv(s)'
  <2>1. SegInv(s) /\ Round(s)' = Round(s) /\ Count(s)' \in {Count(s), 0}
    BY Zenon DEF BarrierInv
  <2>2. entered'[s] = entered[s] /\ left'[s] = left[s] /\ broken'[s] = broken[s]
    BY Zenon
  <2>3. \A q \in Ranks : Aside(q, s)
    BY Zenon DEF Aside
  <2> QED BY Zenon, <2>1, <2>2, <2>3, SegFrame
<1> QED BY Zenon, <1>1, <1>2 DEF BarrierInv

LEMMA AllAside ==
    ASSUME RankCounts, TypeOK, TypeOK', BarrierInv, UNCHANGED <<segs, call, alive, entered, left, broken>>
    PROVE  BarrierInv'
<1>1. DeadAreOut'
  BY Zenon DEF DeadAreOut, BarrierInv
<1>2. ASSUME NEW s \in Segments PROVE SegInv(s)'
  <2>1. SegInv(s) /\ Round(s)' = Round(s) /\ Count(s)' \in {Count(s), 0}
    BY Zenon DEF BarrierInv, Round, Count
  <2>2. entered'[s] = entered[s] /\ left'[s] = left[s] /\ broken'[s] = broken[s]
    BY Zenon
  <2>3. \A q \in Ranks : Aside(q, s)
    BY Zenon DEF Aside
  <2> QED BY Zenon, <2>1, <2>2, <2>3, SegFrame
<1> QED BY Zenon, <1>1, <1>2 DEF BarrierInv

LEMMA BarrierStep == ASSUME RankCounts, TypeOK, TypeOK', CallInv, BarrierInv, [Next]_vars PROVE BarrierInv'
<1>1. CASE UNCHANGED vars
  BY Zenon, <1>1, AllAside DEF vars, libvars, barrier
<1>2. ASSUME NEW r \in Ranks, NextCall(r) PROVE BarrierInv'
  <2> DEFINE op == Program[ip[r]][1]
             nm == Program[ip[r]][2]
  <2>1. /\ ip[r] \in DOMAIN Program /\ ip' = [ip EXCEPT ![r] = @ + 1] /\ UNCHANGED alive
        /\ call[r].pc = "user" /\ alive[r]
    BY <1>2, ProgramAssumption DEF NextCall, TypeOK, At
  <2>2. /\ op \in {"init", "barrier", "derive", "destroy", "alloc", "release"} /\ nm \in Names
        /\ op = "release" => nm \in Domains
    BY <2>1, ProgramAssumption DEF Names
  <2> HIDE DEF op, nm
  <2>3. CASE r \in Of(nm)
    <3>1. Calls(r, op, nm)
      BY Zenon, <1>2, <2>3 DEF NextCall, op, nm
    <3>2. Own(r)
      BY Zenon, <2>1, <2>2, <3>1, CallsOwn
    <3>3. ASSUME NEW s \in Segments
          PROVE  /\ UNCHANGED <<entered, left, broken>> /\ Round(s)' = Round(s) /\ Count(s)' = Count(s)
                 /\ ~In(r, s, Inside)' /\ (In(r, s, {"arrive"})' => call'[r].phase = Round(s))
      BY Zenon, <2>2, <3>1, CallsAside
    <3>4. \A s \in Segments : Aside(r, s)
      BY Zenon, <2>1, <3>3 DEF Aside, In, Inside
    <3>5. UNCHANGED <<entered, left, broken>>
      BY Zenon, <2>2, <3>1 DEF Calls, comm_init, OpenExclusive, comm_derive_context, SnapshotPhase,
         comm_release_domain_windows, comm_destroy, barrier
    <3>6. alive'[r] /\ \A q \in Ranks \ {r} : call'[q] = call[q] /\ alive'[q] = alive[q]
      BY Zenon, <2>1, <3>2 DEF Own
    <3> QED BY Zenon, <3>3, <3>4, <3>5, <3>6, RankAside
  <2>4. CASE r \notin Of(nm)
    <3>1. UNCHANGED <<libvars, hist, barrier>>
      BY Zenon, <1>2, <2>4 DEF NextCall, nm, op
    <3> QED BY Zenon, <2>1, <3>1, AllAside DEF libvars, barrier
  <2> QED BY Zenon, <2>3, <2>4
<1>3. ASSUME NEW r \in Ranks, Abandon(r) PROVE BarrierInv'
  BY Zenon, <1>3, AllAside DEF Abandon, libvars, barrier
<1>4. ASSUME NEW r \in Ranks, Die(r) PROVE BarrierInv'
  <2>1. /\ segs' = segs /\ UNCHANGED <<entered, left, broken>> /\ ~alive'[r] /\ call'[r] = NoCall
        /\ \A q \in Ranks \ {r} : call'[q] = call[q] /\ alive'[q] = alive[q]
    BY <1>4 DEF Die, barrier, TypeOK
  <2>2. call'[r].pc = "user"
    BY <2>1 DEF NoCall
  <2>3. \A s \in Segments : Round(s)' = Round(s) /\ Count(s)' = Count(s) /\ Aside(r, s)
    BY Zenon, <2>1, <2>2 DEF Round, Count, Aside
  <2> QED BY Zenon, <2>1, <2>2, <2>3, RankAside
<1>5. ASSUME NEW r \in Ranks, Step(r) PROVE BarrierInv'
  BY Zenon, <1>5, StepBarrier
<1> QED BY Zenon, <1>1, <1>2, <1>3, <1>4, <1>5 DEF Next

-----------------------------------------------------------------------------
LEMMA StepRefines ==
    ASSUME RankCounts, TypeOK, BarrierInv, NEW r \in Ranks, Step(r)
    PROVE  UNCHANGED <<entered, left, broken>> \/ Barrier!Next
<1> DEFINE s == call[r].seg
<1>0. call[r].pc \in Inside \cup {"arrive"} => s \in Segments /\ SegInv(s)
  BY Zenon, SegKnown DEF BarrierInv, Inside
<1> HIDE DEF s
<1>1. CASE Arrive(r)
  <2>1. alive[r] /\ call[r].pc = "arrive" /\ entered' = [entered EXCEPT ![s][r] = @ + 1] /\ UNCHANGED <<left, broken>>
    BY Zenon, <1>1 DEF Arrive, At, s
  <2>2. s \in Segments /\ entered[s][r] = left[s][r]
    BY Zenon, <1>0, <2>1 DEF SegInv, In, Inside
  <2> QED BY Zenon, <2>1, <2>2 DEF Barrier!Next, Barrier!Enter
<1>2. CASE AdvancePhase(r) \/ AwaitPhase(r)
  <2>1. /\ alive[r] /\ call[r].pc \in Inside /\ left' = [left EXCEPT ![s][r] = @ + 1] /\ UNCHANGED <<entered, broken>>
    BY Zenon, <1>2 DEF AdvancePhase, AwaitPhase, LeaveBarrier, At, s, Inside
  <2>2. s \in Segments /\ SegInv(s)
    BY Zenon, <1>0, <2>1
  <2>3. /\ Round(s) \in Nat /\ \A q \in Ranks : entered[s][q] \in Nat /\ left[s][q] \in Nat
        /\ call[r].phase \in Nat
    BY Zenon, <2>2, SegTypes
  <2>4. entered[s][r] = left[s][r] + 1
    BY Zenon, <2>1, <2>2 DEF SegInv, In, s
  <2>5. ASSUME ~broken[s], NEW q \in Ranks PROVE entered[s][q] > left[s][r]
    <3>1. Rounds(s)
      BY Zenon, <2>2, <2>5 DEF SegInv
    <3>2. CASE AdvancePhase(r)
      <4>1. Counted(s) = Ranks
        BY Zenon, <3>1, <3>2 DEF AdvancePhase, At, Rounds, In, s
      <4> QED BY <2>3, <2>4, <4>1 DEF Counted
    <3>3. CASE AwaitPhase(r)
      <4>1. entered[s][r] = Round(s)
        <5>1. call[r].pc = "phase" /\ Round(s) # call[r].phase /\ call[r].seg = s
          BY Zenon, <3>3 DEF AwaitPhase, At, Seg, Round, s
        <5> QED BY <2>3, <3>1, <5>1 DEF Rounds, In
      <4> QED BY <2>3, <2>4, <3>1, <4>1 DEF Rounds
    <3> QED BY Zenon, <1>2, <3>2, <3>3
  <2>6. entered[s][r] > left[s][r]
    BY <2>3, <2>4
  <2> QED BY Zenon, <2>1, <2>2, <2>5, <2>6 DEF Barrier!Next, Barrier!Leave
<1>3. CASE TimeOut(r) /\ At(r, "phase")
  <2>1. /\ alive[r] /\ call[r].pc = "phase" /\ left' = [left EXCEPT ![s][r] = @ + 1]
        /\ broken' = [broken EXCEPT ![s] = TRUE] /\ UNCHANGED entered
    BY Zenon, <1>3 DEF TimeOut, At, s
  <2>2. s \in Segments /\ SegInv(s) /\ In(r, s, Inside)
    BY Zenon, <1>0, <2>1 DEF Inside, In, s
  <2>3. entered[s][r] > left[s][r]
    <3>1. left[s][r] \in Nat
      BY Zenon, <2>2, SegTypes
    <3> QED BY <2>1, <2>2, <3>1 DEF SegInv
  <2> QED BY Zenon, <2>1, <2>2, <2>3 DEF Barrier!Next, Barrier!GiveUp
<1>4. CASE UNCHANGED <<entered, left, broken>>
  BY Zenon, <1>4
<1>5. \/ Arrive(r) \/ AdvancePhase(r) \/ AwaitPhase(r)
      \/ TimeOut(r) /\ At(r, "phase")
      \/ UNCHANGED <<entered, left, broken>>
  BY Zenon DEF Step, Truncate, OpenExisting, AwaitSized, Map, AwaitDone, CountReady, AwaitPeers,
     ResetCount, LastOut, AwaitGone, TimeOut, barrier
<1> QED BY Zenon, <1>1, <1>2, <1>3, <1>4, <1>5

LEMMA NextRefines ==
    ASSUME RankCounts, TypeOK, BarrierInv, [Next]_vars
    PROVE  UNCHANGED <<entered, left, broken>> \/ Barrier!Next
<1>1. CASE UNCHANGED vars
  BY Zenon, <1>1 DEF vars, barrier
<1>2. ASSUME NEW r \in Ranks, NextCall(r) PROVE UNCHANGED <<entered, left, broken>>
  <2> DEFINE op == Program[ip[r]][1]
             nm == Program[ip[r]][2]
  <2>1. ip[r] \in DOMAIN Program
    BY <1>2, ProgramAssumption DEF NextCall, TypeOK
  <2>2. /\ op \in {"init", "barrier", "derive", "destroy", "alloc", "release"}
    BY <2>1, ProgramAssumption
  <2>3. Calls(r, op, nm) \/ UNCHANGED barrier
    BY Zenon, <1>2 DEF NextCall
  <2> HIDE DEF op, nm
  <2> QED BY Zenon, <2>2, <2>3 DEF Calls, comm_init, OpenExclusive, comm_derive_context, SnapshotPhase,
         comm_release_domain_windows, comm_destroy, barrier
<1>3. ASSUME NEW r \in Ranks, Abandon(r) \/ Die(r) PROVE UNCHANGED <<entered, left, broken>>
  BY Zenon, <1>3 DEF Abandon, Die, barrier
<1> QED BY Zenon, <1>1, <1>2, <1>3, StepRefines DEF Next


\* The ranks counted as ready on a segment.  Nobody is counted twice, since a rank
\* allocates a name once: so ready_count is at most their number.
Seen(s) == {q \in Ranks : <<q, 1>> \in counted[s]}
ReadyOK(s) == segs[s].ready_count <= Cardinality(Seen(s))
LifeOK(r) ==
    /\ life[r] = IF ip[r] = 1 THEN 0 ELSE 1
    /\ rc[r] # 0 \/ call[r].pc # "user" => ip[r] # 1

\* Every segment was created under one name, which the ranks that hold it gave.
Holding == {"truncate", "sized", "map", "done", "ready", "peers"}
HoldsOK(of, r) == call[r].pc \in Holding => of[call[r].seg] = call[r].name
SeenOK(of, s, q) ==
    /\ q \in Of(of[s]) /\ Called(q, of[s])
    /\ ~(call[q].name = of[s] /\ call[q].pc \in Setup)
Naming(of) ==
    /\ \A nm \in Names : link[nm] # None => of[link[nm]] = nm
    /\ \A r \in Ranks : HoldsOK(of, r)
    /\ \A s \in Segments : \A q \in Seen(s) : SeenOK(of, s, q)

AllocInv ==
    /\ \A r \in Ranks : LifeOK(r)
    /\ \A s \in Segments : ReadyOK(s)
    /\ \E of \in [Segments -> Names] : Naming(of)
    /\ AllocIsUnanimous

-----------------------------------------------------------------------------
LEMMA SeenFinite == ASSUME RankCounts, NEW s PROVE Seen(s) \subseteq Ranks /\ IsFiniteSet(Seen(s)) /\ Cardinality(Seen(s)) \in Nat
<1>1. Seen(s) \in SUBSET Ranks
  BY Zenon DEF Seen
<1> QED BY Zenon, <1>1 DEF RankCounts

LEMMA StepPc == ASSUME NEW r \in Ranks, Step(r) PROVE call[r].pc # "user" /\ UNCHANGED <<ip, life, created>>
<1>1. UNCHANGED <<ip, life, created>>
  BY Zenon DEF Step, Truncate, OpenExisting, AwaitSized, Map, AwaitDone, CountReady, AwaitPeers, Arrive,
     ResetCount, AdvancePhase, AwaitPhase, LeaveBarrier, LastOut, AwaitGone, TimeOut, hist
<1>2. call[r].pc \in Setup \cup Inside \cup {"peers", "arrive", "unlink", "drain"}
  BY Zenon DEF Step, Truncate, OpenExisting, AwaitSized, Map, AwaitDone, CountReady, AwaitPeers, Arrive,
     ResetCount, AdvancePhase, AwaitPhase, LeaveBarrier, LastOut, AwaitGone, TimeOut, Waiting, At, Setup, Inside
<1> QED BY Zenon, <1>1, <1>2 DEF Setup, Inside

LEMMA StepLife ==
    ASSUME TypeOK, NEW r \in Ranks, Step(r), \A q \in Ranks : LifeOK(q), NEW q \in Ranks
    PROVE  LifeOK(q)'
<1>1. Own(r) /\ call[r].pc # "user" /\ ip' = ip /\ life' = life
  BY Zenon, StepOwn, StepPc
<1>2. q # r => call'[q] = call[q] /\ rc'[q] = rc[q]
  BY Zenon, <1>1 DEF Own
<1> QED BY Zenon, <1>1, <1>2 DEF LifeOK

\* A rank that counts itself ready has not been counted before.
LEMMA CountReadyOnce ==
    ASSUME RankCounts, TypeOK, NEW r \in Ranks, CountReady(r), LifeOK(r), NEW of, Naming(of), NEW s \in Segments,
           s = call[r].seg, ReadyOK(s)
    PROVE  ReadyOK(s)' /\ Seen(s)' = Seen(s) \cup {r}
<1>1. call[r].pc = "ready" /\ segs'[s].ready_count = segs[s].ready_count + 1 /\ segs[s].ready_count \in Nat
  <2>1. segs'[s] = [segs[s] EXCEPT !.ready_count = @ + 1] /\ segs[s] \in Headers
    BY Zenon, AddToReady DEF CountReady, Seg, TypeOK
  <2>2. call[r].pc = "ready"
    BY Zenon DEF CountReady, At
  <2> QED BY Zenon, <2>1, <2>2 DEF Headers
<1>2. life[r] = 1
  BY Zenon, <1>1 DEF LifeOK
<1>3. counted'[s] = counted[s] \cup {<<r, 1>>}
  BY Zenon, <1>2 DEF CountReady, TypeOK
<1>4. Seen(s)' = Seen(s) \cup {r}
  BY Zenon, <1>3 DEF Seen
<1>5. r \notin Seen(s)
  BY Zenon, <1>1 DEF Naming, HoldsOK, SeenOK, Holding, Setup
<1>6. Cardinality(Seen(s) \cup {r}) = Cardinality(Seen(s)) + 1
  BY Zenon, <1>5, SeenFinite DEF RankCounts
<1>7. Cardinality(Seen(s)) \in Nat
  BY Zenon, SeenFinite
<1> QED BY <1>1, <1>4, <1>5, <1>6, <1>7 DEF ReadyOK

LEMMA StepReady ==
    ASSUME RankCounts, TypeOK, TypeOK', NEW r \in Ranks, Step(r), LifeOK(r), NEW of, Naming(of), NEW s \in Segments, ReadyOK(s)
    PROVE  ReadyOK(s)'
<1>1. CASE s # call[r].seg
  <2>1. segs'[s] = segs[s] /\ counted'[s] = counted[s]
    BY <1>1, StepElsewhere, StepOwn DEF Own
  <2> QED BY Zenon, <2>1 DEF ReadyOK, Seen
<1>2. CASE s = call[r].seg /\ CountReady(r)
  BY Zenon, <1>2, CountReadyOnce
<1>3. CASE s = call[r].seg /\ ~CountReady(r)
  <2>1. counted' = counted
    BY Zenon, <1>3 DEF Step, Truncate, OpenExisting, AwaitSized, Map, AwaitDone, AwaitPeers, Arrive,
       ResetCount, AdvancePhase, AwaitPhase, LeaveBarrier, LastOut, AwaitGone, TimeOut, hist
  <2>2. \/ segs' = segs \/ segs' = [segs EXCEPT ![s].sized = TRUE] \/ segs' = [segs EXCEPT ![s].barrier_count = 0]
        \/ segs' = [segs EXCEPT ![s] = [Header EXCEPT !.sized = TRUE, !.alloc_done = TRUE]]
        \/ AddTo(r, "barrier_count") \/ AddTo(r, "barrier_phase")
    BY Zenon, <1>3 DEF Step, Truncate, OpenExisting, AwaitSized, Map, AwaitDone, AwaitPeers, Arrive,
       ResetCount, AdvancePhase, AwaitPhase, LeaveBarrier, LastOut, AwaitGone, TimeOut
  <2>3. segs[s] \in Headers /\ segs \in [Segments -> Headers]
    BY Zenon DEF TypeOK
  <2>4. CASE \/ segs' = segs \/ segs' = [segs EXCEPT ![s].sized = TRUE] \/ segs' = [segs EXCEPT ![s].barrier_count = 0]
             \/ segs' = [segs EXCEPT ![s] = [Header EXCEPT !.sized = TRUE, !.alloc_done = TRUE]]
    <3>1. segs'[s].ready_count \in {segs[s].ready_count, 0}
      BY Zenon, <2>3, <2>4 DEF Headers, Header
    <3>2. Cardinality(Seen(s)) \in Nat /\ Seen(s)' = Seen(s)
      BY Zenon, <2>1, SeenFinite DEF Seen
    <3> QED BY <3>1, <3>2 DEF ReadyOK
  <2>5. CASE AddTo(r, "barrier_count") \/ AddTo(r, "barrier_phase")
    <3>1. segs'[s] = [segs[s] EXCEPT !.barrier_count = @ + 1] \/ segs'[s] = [segs[s] EXCEPT !.barrier_phase = @ + 1]
      BY Zenon, <1>3, <2>5, AddToCount, AddToPhase DEF Seg
    <3>2. segs'[s].ready_count = segs[s].ready_count
      BY Zenon, <2>3, <3>1 DEF Headers
    <3> QED BY Zenon, <2>1, <3>2 DEF ReadyOK, Seen
  <2> QED BY Zenon, <2>2, <2>4, <2>5
<1> QED BY Zenon, <1>1, <1>2, <1>3

\* How an allocation gets on: it keeps its name, and its segment once it has one.
LEMMA StepHolding ==
    ASSUME TypeOK, NEW r \in Ranks, Step(r)
    PROVE  /\ call'[r].pc \in Setup => call[r].pc \in Setup /\ call'[r].name = call[r].name
           /\ call'[r].pc \in Holding =>
                /\ call'[r].name = call[r].name
                /\ \/ call[r].pc \in Holding /\ call'[r].seg = call[r].seg
                   \/ call'[r].seg = link[call[r].name] /\ link[call[r].name] # None
<1>0. call \in [Ranks -> LibCalls] /\ call[r] \in LibCalls
  BY Zenon DEF TypeOK
<1>1. CASE \E pc \in {"map", "ready", "done", "peers"} : GoTo(r, pc) /\ call[r].pc \in {"truncate", "sized", "map", "done", "ready"}
  <2>1. call'[r].name = call[r].name /\ call'[r].seg = call[r].seg
    BY Zenon, <1>0, <1>1 DEF GoTo, LibCalls
  <2> QED BY Zenon, <1>1, <2>1 DEF Setup, Holding
<1>2. CASE \E pc \in Inside : GoTo(r, pc)
  <2>1. call'[r].pc \in Inside
    BY Zenon, <1>0, <1>2 DEF GoTo, LibCalls
  <2> QED BY Zenon, <2>1 DEF Setup, Holding, Inside
<1>3. CASE call' = [call EXCEPT ![r] = NoCall]
  <2>1. call'[r].pc = "user"
    BY Zenon, <1>0, <1>3 DEF NoCall
  <2> QED BY Zenon, <2>1 DEF Setup, Holding
<1>4. CASE /\ call' = [call EXCEPT ![r].pc = "sized", ![r].seg = link[call[r].name]]
           /\ link[call[r].name] # None /\ call[r].pc = "attach"
  <2>1. call'[r].name = call[r].name /\ call'[r].seg = link[call[r].name]
    BY Zenon, <1>0, <1>4 DEF LibCalls
  <2> QED BY Zenon, <1>4, <2>1 DEF Setup
<1>5. CASE Arrive(r) \/ ResetCount(r)
  <2>1. {"reset", "phase", "advance"} \subseteq Inside
    BY Zenon DEF Inside
  <2> QED BY Zenon, <1>2, <1>5, <2>1 DEF Arrive, ResetCount
<1>6. CASE Truncate(r) \/ AwaitSized(r) \/ Map(r) \/ AwaitDone(r) \/ CountReady(r)
  BY Zenon, <1>1, <1>3, <1>6 DEF Truncate, AwaitSized, Map, AwaitDone, CountReady, Return, At
<1>7. CASE OpenExisting(r)
  BY Zenon, <1>3, <1>4, <1>7 DEF OpenExisting, Return, At
<1>8. CASE AwaitPeers(r) \/ AdvancePhase(r) \/ AwaitPhase(r) \/ LastOut(r) \/ AwaitGone(r) \/ TimeOut(r)
  BY Zenon, <1>3, <1>8 DEF AwaitPeers, AdvancePhase, AwaitPhase, LeaveBarrier, LastOut, AwaitGone, TimeOut, Return
<1> QED BY Zenon, <1>5, <1>6, <1>7, <1>8 DEF Step

LEMMA StepNaming ==
    ASSUME RankCounts, TypeOK, CallInv, NEW r \in Ranks, Step(r), LifeOK(r), NEW of \in [Segments -> Names], Naming(of),
           \A s \in Segments : ReadyOK(s)
    PROVE  Naming(of)'
<1>0. Own(r) /\ ip' = ip /\ CallOK(r) /\ call[r].name \in Names
  BY Zenon, StepOwn, StepPc DEF CallInv, TypeOK, LibCalls
<1>1. \A nm \in Names : link'[nm] # None => of[link'[nm]] = nm
  <2>1. (\E nm : Unlink(nm)) \/ UNCHANGED link
    BY Zenon DEF Step, Truncate, OpenExisting, AwaitSized, Map, AwaitDone, CountReady, AwaitPeers, Arrive,
       ResetCount, AdvancePhase, AwaitPhase, LeaveBarrier, LastOut, AwaitGone, TimeOut, libvars
  <2>2. \A nm \in Names : link'[nm] \in {link[nm], None}
    BY Zenon, <2>1, UnlinkOwn
  <2> QED BY Zenon, <2>2 DEF Naming
<1>2. ASSUME NEW q \in Ranks PROVE HoldsOK(of, q)'
  <2>1. CASE q # r
    <3>1. call'[q] = call[q] BY Zenon, <1>0, <2>1 DEF Own
    <3> QED BY Zenon, <3>1 DEF HoldsOK, Naming
  <2>2. CASE q = r
    <3>1. call'[r].pc \in Holding =>
                /\ call'[r].name = call[r].name
                /\ \/ call[r].pc \in Holding /\ call'[r].seg = call[r].seg
                   \/ call'[r].seg = link[call[r].name] /\ link[call[r].name] # None
      BY Zenon, StepHolding
    <3> QED BY Zenon, <1>0, <2>2, <3>1 DEF HoldsOK, Naming
  <2> QED BY ZenonT(30), <2>1, <2>2
<1>3. ASSUME NEW s \in Segments, NEW q \in Seen(s)' PROVE SeenOK(of, s, q)'
  <2>0. q \in Ranks
    BY Zenon DEF Seen
  <2>1. CASE q \in Seen(s)
    <3>1. SeenOK(of, s, q) /\ Called(q, of[s])' = Called(q, of[s])
      BY Zenon, <1>0, <2>1 DEF Naming, Called
    <3>2. call'[q].pc \in Setup => call[q].pc \in Setup /\ call'[q].name = call[q].name
      BY Zenon, <1>0, <2>0, StepHolding DEF Own
    <3> QED BY Zenon, <3>1, <3>2 DEF SeenOK
  <2>2. CASE q \notin Seen(s)
    <3>1. CountReady(r) /\ s = call[r].seg
      <4>1. counted'[s] # counted[s]
        BY Zenon, <2>2 DEF Seen
      <4>2. s = call[r].seg
        BY Zenon, <1>0, <4>1 DEF Own
      <4>3. CountReady(r) \/ counted' = counted
        BY Zenon DEF Step, Truncate, OpenExisting, AwaitSized, Map, AwaitDone, AwaitPeers, Arrive,
           ResetCount, AdvancePhase, AwaitPhase, LeaveBarrier, LastOut, AwaitGone, TimeOut, hist
      <4> QED BY Zenon, <4>1, <4>2, <4>3
    <3>2. q = r
      <4>1. Seen(s)' = Seen(s) \cup {r}
        BY Zenon, <3>1, CountReadyOnce
      <4> QED BY Zenon, <2>2, <4>1
    <3>3. call[r].pc = "ready" /\ GoTo(r, "peers")
      BY Zenon, <3>1 DEF CountReady, At
    <3>4. of[s] = call[r].name
      BY Zenon, <3>1, <3>3 DEF Naming, HoldsOK, Holding
    <3>5. r \in Of(of[s]) /\ ip[r] - 1 \in DOMAIN Program /\ Program[ip[r] - 1] = <<"alloc", of[s]>>
      BY Zenon, <1>0, <3>3, <3>4 DEF CallOK, Setup
    <3>6. Called(r, of[s])'
      <4>1. ip[r] \in Nat /\ ip[r] - 1 \in 1 .. ip[r] - 1
        BY <3>5, ProgramAssumption DEF TypeOK
      <4> QED BY ZenonT(30), <1>0, <3>5, <4>1 DEF Called
    <3>7. call'[r].pc = "peers"
      BY <3>3 DEF GoTo, TypeOK, LibCalls
    <3> QED BY Zenon, <3>2, <3>5, <3>6, <3>7 DEF SeenOK, Setup
  <2> QED BY Zenon, <2>1, <2>2
<1> QED BY Zenon, <1>1, <1>2, <1>3 DEF Naming
=============================================================================
