----------------------------- MODULE CommProofs -----------------------------
(***************************************************************************)
(* The simulated communicator: comm_barrier implements CommBarrier on      *)
(* every segment, and an allocation that returned is shared with every     *)
(* member.                                                                 *)
(***************************************************************************)
EXTENDS CommInvariants, FiniteSetTheorems

LEMMA StepUnanimous ==
    ASSUME RankCounts, TypeOK, NEW r \in Ranks, Step(r), LifeOK(r), AllocIsUnanimous, NEW of, Naming(of),
           \A s \in Segments : ReadyOK(s)
    PROVE  AllocIsUnanimous'
<1>1. \A s \in Segments : counted[s] \subseteq counted'[s]
  <2>1. counted' = counted \/ counted' = [counted EXCEPT ![call[r].seg] = @ \cup {<<r, life[r]>>}]
    BY ZenonT(40) DEF Step, Truncate, OpenExisting, AwaitSized, Map, AwaitDone, CountReady, AwaitPeers, Arrive,
       ResetCount, AdvancePhase, AwaitPhase, LeaveBarrier, LastOut, AwaitGone, TimeOut, hist
  <2> QED BY ZenonT(30), <2>1 DEF TypeOK
<1>2. granted \in [Ranks -> SUBSET (Segments \X Nat \X Names)]
  BY Zenon DEF TypeOK
<1>3. CASE granted' = granted
  <2>1. ASSUME NEW p \in Ranks, NEW g \in granted[p] PROVE g[1] \in Segments
    BY <1>2
  <2> QED BY Zenon, <1>1, <1>3, <2>1 DEF AllocIsUnanimous
<1>4. CASE AwaitPeers(r)
  <2> DEFINE s == call[r].seg
             nm == call[r].name
             g == <<s, 1, nm>>
  <2>1. call[r].pc = "peers" /\ segs[s].ready_count >= Cardinality(Of(nm)) /\ counted' = counted
    BY Zenon, <1>4 DEF AwaitPeers, At, Seg, nranks
  <2>2. s \in Segments /\ nm \in Names /\ segs[s].ready_count \in Nat /\ life[r] = 1
    BY Zenon, <2>1, SegKnown DEF TypeOK, LibCalls, Headers, LifeOK
  <2>3. granted' = [granted EXCEPT ![r] = @ \cup {g}]
    BY Zenon, <1>4, <2>2 DEF AwaitPeers
  <2>4. ReadyOK(s) /\ of[s] = nm
    BY Zenon, <2>1, <2>2 DEF Naming, HoldsOK, Holding
  <2> HIDE DEF s, nm
  <2>5. Seen(s) \in SUBSET Of(nm)
    BY Zenon, <2>2, <2>4 DEF Naming, SeenOK
  <2>6. Of(nm) \in SUBSET Ranks /\ Cardinality(Of(nm)) \in Nat
    <3>1. Of(nm) \in SUBSET Ranks
      BY Zenon, <2>2, CommAssumption DEF Of, Names
    <3> QED BY Zenon, <3>1 DEF RankCounts
  <2>7. Cardinality(Seen(s)) <= Cardinality(Of(nm)) /\ (Cardinality(Of(nm)) = Cardinality(Seen(s)) => Of(nm) = Seen(s))
    BY Zenon, <2>5, <2>6 DEF RankCounts
  <2>8. Of(nm) = Seen(s)
    <3>1. Cardinality(Seen(s)) \in Nat
      BY Zenon, SeenFinite
    <3> QED BY <2>1, <2>2, <2>4, <2>6, <2>7, <3>1 DEF ReadyOK
  <2>9. \A q \in Of(nm) : <<q, 1>> \in counted'[s]
    BY Zenon, <2>1, <2>8 DEF Seen
  <2>10. ASSUME NEW p \in Ranks, NEW x \in granted'[p], NEW q \in Of(x[3]) PROVE <<q, x[2]>> \in counted'[x[1]]
    <3>1. CASE x \in granted[p]
      BY Zenon, <1>2, <2>1, <3>1 DEF AllocIsUnanimous
    <3>2. CASE x \notin granted[p]
      <4>1. x = g
        BY Zenon, <1>2, <2>3, <3>2
      <4> QED BY Zenon, <2>9, <4>1
    <3> QED BY Zenon, <3>1, <3>2
  <2> QED BY Zenon, <2>10 DEF AllocIsUnanimous
<1>5. AwaitPeers(r) \/ granted' = granted
  BY Zenon DEF Step, Truncate, OpenExisting, AwaitSized, Map, AwaitDone, CountReady, Arrive,
     ResetCount, AdvancePhase, AwaitPhase, LeaveBarrier, LastOut, AwaitGone, TimeOut, hist
<1> QED BY Zenon, <1>3, <1>4, <1>5

-----------------------------------------------------------------------------
\* A step in which no segment is counted on or granted.
Ungranted == counted' = counted /\ granted' = granted /\ \A s \in Segments : segs'[s].ready_count = segs[s].ready_count

LEMMA QuietGrants ==
    ASSUME Ungranted, AllocIsUnanimous, \A s \in Segments : ReadyOK(s)
    PROVE  AllocIsUnanimous' /\ \A s \in Segments : ReadyOK(s)'
BY Zenon DEF Ungranted, AllocIsUnanimous, ReadyOK, Seen

LEMMA CalledStays ==
    ASSUME TypeOK, TypeOK', NEW q \in Ranks, ip'[q] >= ip[q], NEW nm, Called(q, nm)
    PROVE  Called(q, nm)'
<1>1. ip[q] \in Nat /\ ip'[q] \in Nat
  BY Zenon DEF TypeOK
<1> QED BY <1>1 DEF Called

LEMMA OthersSeen ==
    ASSUME TypeOK, TypeOK', NEW of \in [Segments -> Names], Naming(of), NEW s \in Segments, NEW q \in Seen(s),
           ip'[q] >= ip[q], \/ call'[q] = call[q]
                            \/ call'[q].pc \notin Setup
                            \/ call'[q].name # of[s]
    PROVE  SeenOK(of, s, q)'
<1>1. q \in Ranks
  BY Zenon DEF Seen
<1>2. SeenOK(of, s, q)
  BY Zenon DEF Naming
<1>3. Called(q, of[s])'
  BY Zenon, <1>1, <1>2, CalledStays DEF SeenOK
<1> QED BY Zenon, <1>2, <1>3 DEF SeenOK

\* Nothing is opened.
LEMMA QuietNaming ==
    ASSUME TypeOK, TypeOK', NEW r \in Ranks, counted' = counted,
           \A q \in Ranks \ {r} : call'[q] = call[q] /\ ip'[q] = ip[q], ip'[r] >= ip[r],
           \A nm \in Names : link'[nm] \in {link[nm], None}, call'[r].pc \notin Setup \cup Holding,
           NEW of \in [Segments -> Names], Naming(of)
    PROVE  Naming(of)'
<1>1. \A nm \in Names : link'[nm] # None => of[link'[nm]] = nm
  BY Zenon DEF Naming
<1>2. \A q \in Ranks : HoldsOK(of, q)'
  BY Zenon DEF Naming, HoldsOK
<1>3. ASSUME NEW s \in Segments, NEW q \in Seen(s)' PROVE SeenOK(of, s, q)'
  <2>1. q \in Seen(s) /\ q \in Ranks
    BY Zenon DEF Seen
  <2>2. ip'[q] >= ip[q] /\ (call'[q] = call[q] \/ call'[q].pc \notin Setup)
    <3>1. ip[q] \in Nat
      BY Zenon, <2>1 DEF TypeOK
    <3> QED BY <2>1, <3>1
  <2> QED BY Zenon, <2>1, <2>2, OthersSeen
<1> QED BY Zenon, <1>1, <1>2, <1>3 DEF Naming

LEMMA OpenNaming ==
    ASSUME TypeOK, TypeOK', CallInv, NEW r \in Ranks, NEW nm \in Names, OpenExclusive(r, nm), Own(r),
           ip' = [ip EXCEPT ![r] = @ + 1], ip[r] \in DOMAIN Program, Program[ip[r]] = <<"alloc", nm>>,
           NEW of \in [Segments -> Names], Naming(of)
    PROVE  \E ofp \in [Segments -> Names] : Naming(ofp)'
<1>0. /\ counted' = counted /\ \A q \in Ranks \ {r} : call'[q] = call[q] /\ ip'[q] = ip[q]
      /\ created \in Nat /\ ip[r] \in Nat /\ \A q \in Ranks : ip'[q] >= ip[q]
  <2>1. counted' = counted
    BY Zenon DEF OpenExclusive, hist
  <2> QED BY <2>1 DEF Own, TypeOK
<1>a. ~Called(r, nm)
  BY <1>0, OnceAssumption DEF Called
<1>b. \A s \in Segments : Seen(s)' = Seen(s)
  BY Zenon, <1>0 DEF Seen
<1>c. ASSUME NEW s \in Segments, r \in Seen(s) PROVE of[s] # nm
  BY Zenon, <1>a, <1>c DEF Naming, SeenOK
<1>1. CASE nm # Base /\ h[r].domain[nm] # None
  <2>1. call'[r] = NoCall /\ link' = link
    BY <1>1 DEF OpenExclusive, Return, TypeOK
  <2>2. call'[r].pc \notin Setup \cup Holding /\ ip'[r] >= ip[r] /\ \A n \in Names : link'[n] \in {link[n], None}
    BY <1>0, <2>1 DEF NoCall, Setup, Holding
  <2> QED BY Zenon, <1>0, <2>2, QuietNaming
<1>2. CASE ~(nm # Base /\ h[r].domain[nm] # None) /\ link[nm] # None
  <2> DEFINE x == [NoCall EXCEPT !.pc = "attach", !.name = nm, !.is_creator = nm = Base /\ h[r].is_creator]
  <2>1. link' = link /\ call' = [call EXCEPT ![r] = x]
    BY Zenon, <1>2 DEF OpenExclusive
  <2>2. x.pc = "attach" /\ x.name = nm
    BY Zenon DEF NoCall
  <2> HIDE DEF x
  <2>3. call'[r] = x
    BY Zenon, <2>1 DEF TypeOK
  <2>4. \A n \in Names : link'[n] # None => of[link'[n]] = n
    BY Zenon, <2>1 DEF Naming
  <2>5. \A q \in Ranks : HoldsOK(of, q)'
    BY Zenon, <1>0, <2>2, <2>3 DEF Naming, HoldsOK, Holding
  <2>6. ASSUME NEW s \in Segments, NEW q \in Seen(s)' PROVE SeenOK(of, s, q)'
    <3>1. q \in Seen(s) /\ q \in Ranks /\ ip'[q] >= ip[q]
      BY Zenon, <1>0, <1>b DEF Seen
    <3>2. call'[q] = call[q] \/ call'[q].name # of[s]
      BY Zenon, <1>0, <1>c, <2>2, <2>3, <3>1
    <3> QED BY Zenon, <3>1, <3>2, OthersSeen
  <2>7. Naming(of)'
    BY Zenon, <2>4, <2>5, <2>6 DEF Naming
  <2> QED BY Zenon, <2>7
<1>3. CASE ~(nm # Base /\ h[r].domain[nm] # None) /\ link[nm] = None
  <2> DEFINE x == [NoCall EXCEPT !.pc = "truncate", !.name = nm, !.seg = created', !.is_creator = TRUE]
  <2>1. /\ link' = [link EXCEPT ![nm] = created'] /\ call' = [call EXCEPT ![r] = x]
        /\ created' = created + 1 /\ created < MaxSegments
    BY Zenon, <1>3 DEF OpenExclusive
  <2>2. x.pc = "truncate" /\ x.name = nm /\ x.seg = created'
    BY Zenon DEF NoCall
  <2> HIDE DEF x
  <2>3. call'[r] = x /\ created' \in Segments /\ created' > created
    BY <1>0, <2>1, CommAssumption DEF TypeOK, Segments
  <2>4. PICK ofp \in [Segments -> Names] :
          ofp[created'] = nm /\ \A t \in Segments : t # created' => ofp[t] = of[t]
    <3>1. [of EXCEPT ![created'] = nm] \in [Segments -> Names]
      BY Zenon, <2>3
    <3> QED BY Zenon, <2>3, <3>1
  <2>5. ASSUME NEW n \in Names, link'[n] # None PROVE ofp[link'[n]] = n
    <3>1. CASE n = nm
      BY Zenon, <2>1, <2>4, <3>1 DEF TypeOK
    <3>2. CASE n # nm
      <4>1. link'[n] = link[n] /\ link[n] <= created /\ link[n] \in 0 .. MaxSegments
        BY Zenon, <2>1, <3>2 DEF TypeOK, CallInv, Untouched
      <4>2. link[n] \in Segments /\ link[n] # created'
        BY SMTT(20), <1>0, <2>3, <2>5, <4>1, CommAssumption DEF Segments, None
      <4> QED BY Zenon, <2>4, <2>5, <4>1, <4>2 DEF Naming
    <3> QED BY Zenon, <3>1, <3>2
  <2>6. ASSUME NEW q \in Ranks, call'[q].pc \in Holding PROVE ofp[call'[q].seg] = call'[q].name
    <3>1. CASE q = r
      BY Zenon, <2>2, <2>3, <2>4, <3>1
    <3>2. CASE q # r
      <4>1. call'[q] = call[q] /\ call[q].seg <= created /\ call[q].pc \in Holding
        BY Zenon, <1>0, <2>6, <3>2 DEF CallInv, CallOK
      <4>2. call[q].seg \in Segments
        BY Zenon, <4>1, SegKnown DEF Holding
      <4>3. call[q].seg # created'
        BY <1>0, <2>3, <4>1, <4>2 DEF Segments
      <4> QED BY Zenon, <2>4, <4>1, <4>2, <4>3 DEF Naming, HoldsOK
    <3> QED BY Zenon, <3>1, <3>2
  <2>7. ASSUME NEW s \in Segments, NEW q \in Seen(s)' PROVE SeenOK(ofp, s, q)'
    <3>1. q \in Seen(s) /\ q \in Ranks /\ ip'[q] >= ip[q]
      BY Zenon, <1>0, <1>b DEF Seen
    <3>2. call'[q] = call[q] \/ call'[q].name # of[s]
      BY Zenon, <1>0, <1>c, <2>2, <2>3, <3>1
    <3>3. s # created'
      BY Zenon, <2>3, <3>1 DEF CallInv, Untouched, Seen
    <3>4. ofp[s] = of[s] /\ SeenOK(of, s, q)'
      BY Zenon, <2>4, <3>1, <3>2, <3>3, OthersSeen
    <3> QED BY Zenon, <3>4 DEF SeenOK
  <2>8. Naming(ofp)'
    BY Zenon, <2>5, <2>6, <2>7 DEF Naming, HoldsOK
  <2> QED BY Zenon, <2>4, <2>8
<1> QED BY Zenon, <1>1, <1>2, <1>3

LEMMA CallsAlloc ==
    ASSUME TypeOK, TypeOK', CallInv, NEW r \in Ranks, NEW op \in {"init", "barrier", "derive", "destroy", "alloc", "release"},
           NEW nm \in Names, ip[r] \in DOMAIN Program, Program[ip[r]] = <<op, nm>>,
           Calls(r, op, nm), ip' = [ip EXCEPT ![r] = @ + 1], Own(r), AllocInv
    PROVE  AllocInv'
<1>0. /\ ip[r] \in Nat \ {0} /\ ip'[r] = ip[r] + 1 /\ life \in [Ranks -> Nat] /\ call \in [Ranks -> LibCalls]
      /\ segs \in [Segments -> Headers]
  BY Zenon DEF TypeOK
<1>1. Ungranted
  <2>1. counted' = counted /\ granted' = granted
    BY Zenon DEF Calls, comm_init, OpenExclusive, comm_derive_context, SnapshotPhase, comm_release_domain_windows,
       comm_destroy, hist
  <2>2. segs' = segs \/ \E t : segs' = [segs EXCEPT ![t].destroy_count = @ + 1]
    BY Zenon DEF Calls, comm_init, OpenExclusive, comm_derive_context, SnapshotPhase, comm_release_domain_windows,
       comm_destroy, CountGone
  <2>3. ASSUME NEW t, segs' = [segs EXCEPT ![t].destroy_count = @ + 1], NEW s \in Segments
        PROVE  segs'[s].ready_count = segs[s].ready_count
    <3>1. segs'[s] = IF t = s THEN [segs[s] EXCEPT !.destroy_count = @ + 1] ELSE segs[s]
      BY Zenon, <1>0, <2>3
    <3>2. [segs[s] EXCEPT !.destroy_count = @ + 1].ready_count = segs[s].ready_count
      BY Zenon, <1>0 DEF Headers
    <3> QED BY Zenon, <3>1, <3>2
  <2> QED BY Zenon, <2>1, <2>2, <2>3 DEF Ungranted
<1>2. AllocIsUnanimous' /\ \A s \in Segments : ReadyOK(s)'
  BY Zenon, <1>1, QuietGrants DEF AllocInv
<1>3. ASSUME NEW q \in Ranks PROVE LifeOK(q)'
  <2>1. CASE q # r
    BY <2>1 DEF Own, LifeOK, AllocInv
  <2>2. CASE q = r
    <3>1. op = "init" <=> ip[r] = 1
      BY OnceAssumption
    <3>2. life'[r] = IF op = "init" THEN life[r] + 1 ELSE life[r]
      <4>1. CASE op = "init"
        BY Zenon, <1>0, <4>1 DEF Calls, comm_init
      <4>2. CASE op # "init"
        <5>1. life' = life
          BY Zenon, <4>2 DEF Calls, OpenExclusive, comm_derive_context, SnapshotPhase, comm_release_domain_windows,
             comm_destroy, hist
        <5> QED BY Zenon, <4>2, <5>1
      <4> QED BY Zenon, <4>1, <4>2
    <3>3. life[r] = IF ip[r] = 1 THEN 0 ELSE 1
      BY Zenon DEF AllocInv, LifeOK
    <3> QED BY SMTT(20), <1>0, <2>2, <3>1, <3>2, <3>3 DEF LifeOK
  <2> QED BY Zenon, <2>1, <2>2
<1>4. PICK of \in [Segments -> Names] : Naming(of)
  BY Zenon DEF AllocInv
<1>5. \E ofp \in [Segments -> Names] : Naming(ofp)'
  <2>1. CASE op = "alloc"
    <3>1. OpenExclusive(r, nm)
      BY Zenon, <2>1 DEF Calls
    <3> QED BY Zenon, <1>4, <2>1, <3>1, OpenNaming
  <2>2. CASE op # "alloc"
    <3>1. \A n \in Names : link'[n] \in {link[n], None}
      BY Zenon, <2>2 DEF Calls, comm_init, comm_derive_context, SnapshotPhase, comm_release_domain_windows, comm_destroy
    <3>2. \E x : call' = [call EXCEPT ![r] = x] /\ x.pc \in {"user", "arrive", "unlink", "drain"}
      <4>1. NoCall.pc = "user" /\ \A a : [NoCall EXCEPT !.pc = "arrive", !.seg = h[r].base, !.phase = a].pc = "arrive"
        BY Zenon DEF NoCall
      <4>2. \A n, t : \A pc \in {"unlink", "drain"} : [NoCall EXCEPT !.name = n, !.seg = t, !.pc = pc].pc \in {"unlink", "drain"}
        BY Zenon DEF NoCall
      <4>3. ASSUME NEW n, NEW t, CountGone(r, n, t)
            PROVE  \E x : call' = [call EXCEPT ![r] = x] /\ x.pc \in {"user", "arrive", "unlink", "drain"}
        <5>1. PICK pc \in {"unlink", "drain"} : call' = [call EXCEPT ![r] = [NoCall EXCEPT !.name = n, !.seg = t, !.pc = pc]]
          BY Zenon, <4>3 DEF CountGone
        <5> QED BY ZenonT(30), <4>2, <5>1
      <4> QED BY Zenon, <2>2, <4>1, <4>3 DEF Calls, comm_init, comm_derive_context, SnapshotPhase,
             comm_release_domain_windows, comm_destroy, Return
    <3>3. call'[r].pc \notin Setup \cup Holding
      BY Zenon, <1>0, <3>2 DEF Setup, Holding
    <3>4. ip'[r] >= ip[r] /\ counted' = counted /\ \A q \in Ranks \ {r} : call'[q] = call[q] /\ ip'[q] = ip[q]
      BY Zenon, <1>1 DEF Own, Ungranted
    <3>5. Naming(of)'
      BY Zenon, <1>4, <3>1, <3>3, <3>4, QuietNaming
    <3> QED BY Zenon, <3>5
  <2> QED BY Zenon, <2>1, <2>2
<1> QED BY Zenon, <1>2, <1>3, <1>5 DEF AllocInv

\* Between the calls, and when a process dies.
LEMMA IdleAlloc ==
    ASSUME TypeOK, TypeOK', AllocInv, NEW r \in Ranks, Own(r), UNCHANGED <<segs, link, rc, hist>>,
           call'[r].pc = "user", ip'[r] = ip[r] \/ (ip[r] # 1 /\ ip'[r] # 1)
    PROVE  AllocInv'
<1>1. AllocIsUnanimous' /\ \A s \in Segments : ReadyOK(s)'
  <2>1. Ungranted
    BY Zenon DEF Ungranted, hist
  <2> QED BY Zenon, <2>1, QuietGrants DEF AllocInv
<1>2. ASSUME NEW q \in Ranks PROVE LifeOK(q)'
  BY DEF Own, LifeOK, AllocInv, hist
<1>3. PICK of \in [Segments -> Names] : Naming(of)
  BY Zenon DEF AllocInv
<1>4. Naming(of)'
  <2>1. /\ counted' = counted /\ ip'[r] >= ip[r] /\ \A q \in Ranks \ {r} : call'[q] = call[q] /\ ip'[q] = ip[q]
        /\ call'[r].pc \notin Setup \cup Holding /\ \A nm \in Names : link'[nm] \in {link[nm], None}
    BY Zenon DEF Own, hist, Setup, Holding
  <2> QED BY Zenon, <1>3, <2>1, QuietNaming
<1> QED BY Zenon, <1>1, <1>2, <1>3, <1>4 DEF AllocInv

LEMMA MoveOwn ==
    ASSUME TypeOK, NEW r \in Ranks, NEW n \in Nat, ip' = [ip EXCEPT ![r] = n], n >= ip[r],
           UNCHANGED <<libvars, alive, hist, barrier>>
    PROVE  Own(r)
<1>1. ip'[r] >= ip[r] /\ \A q \in Ranks \ {r} : ip'[q] = ip[q]
  BY Zenon DEF TypeOK
<1>2. created' >= created
  BY DEF libvars, TypeOK
<1>3. UNCHANGED <<call, h, rc, link, alive, life, counted, entered, left, broken>>
  BY Zenon DEF libvars, hist, barrier
<1> QED BY Zenon, <1>1, <1>2, <1>3 DEF Own

LEMMA AllocStep == ASSUME RankCounts, TypeOK, TypeOK', CallInv, AllocInv, [Next]_vars PROVE AllocInv'
<1>1. CASE UNCHANGED vars
  <2>1. UNCHANGED <<segs, link, call, ip, rc, counted, granted, life>>
    BY Zenon, <1>1 DEF vars, libvars, hist
  <2>2. Ungranted /\ \A q \in Ranks : LifeOK(q)'
    BY Zenon, <2>1 DEF Ungranted, LifeOK, AllocInv
  <2>3. ASSUME NEW of, Naming(of) PROVE Naming(of)'
    BY Zenon, <2>1, <2>3 DEF Naming, HoldsOK, SeenOK, Called, Seen
  <2>4. AllocIsUnanimous' /\ \A s \in Segments : ReadyOK(s)'
    BY Zenon, <2>2, QuietGrants DEF AllocInv
  <2> QED BY Zenon, <2>2, <2>3, <2>4 DEF AllocInv
<1>2. ASSUME NEW r \in Ranks, NextCall(r) PROVE AllocInv'
  <2> DEFINE op == Program[ip[r]][1]
             nm == Program[ip[r]][2]
  <2>1. /\ ip[r] \in DOMAIN Program /\ ip' = [ip EXCEPT ![r] = @ + 1] /\ UNCHANGED alive
        /\ call[r].pc = "user" /\ ip[r] \in Nat \ {0} /\ ip'[r] = ip[r] + 1
    BY <1>2, ProgramAssumption DEF NextCall, TypeOK, At
  <2>2. /\ op \in {"init", "barrier", "derive", "destroy", "alloc", "release"} /\ nm \in Names
        /\ op = "init" => nm = Base
        /\ Program[ip[r]] = <<op, nm>> /\ (op = "init" <=> ip[r] = 1)
    BY <2>1, ProgramAssumption, OnceAssumption DEF Names
  <2> HIDE DEF op, nm
  <2>3. CASE r \in Of(nm)
    <3>1. Calls(r, op, nm)
      BY Zenon, <1>2, <2>3 DEF NextCall, op, nm
    <3>2. Own(r)
      BY Zenon, <2>1, <2>2, <3>1, CallsOwn
    <3> QED BY Zenon, <2>1, <2>2, <3>1, <3>2, CallsAlloc
  <2>4. CASE r \notin Of(nm)
    <3>1. UNCHANGED <<libvars, hist, barrier>>
      BY Zenon, <1>2, <2>4 DEF NextCall, nm, op
    <3>2. ip[r] # 1 /\ ip'[r] # 1 /\ ip[r] + 1 \in Nat /\ ip[r] + 1 >= ip[r]
      BY <2>1, <2>2, <2>4 DEF Of
    <3>3. Own(r)
      BY Zenon, <2>1, <3>1, <3>2, MoveOwn
    <3>4. call'[r].pc = "user" /\ UNCHANGED <<segs, link, rc, hist>>
      BY Zenon, <2>1, <3>1 DEF libvars
    <3> QED BY Zenon, <3>2, <3>3, <3>4, IdleAlloc
  <2> QED BY Zenon, <2>3, <2>4
<1>3. ASSUME NEW r \in Ranks, Abandon(r) PROVE AllocInv'
  <2>1. /\ ip' = [ip EXCEPT ![r] = Len(Program)] /\ ip[r] < Len(Program) /\ call[r].pc = "user" /\ rc[r] # 0
        /\ UNCHANGED <<libvars, alive, hist, barrier>>
    BY Zenon, <1>3 DEF Abandon, At
  <2>2. ip[r] # 1 /\ ip'[r] = Len(Program) /\ ip[r] \in Nat /\ Len(Program) \in Nat /\ Len(Program) >= ip[r]
    BY <2>1, ProgramAssumption DEF AllocInv, LifeOK, TypeOK
  <2>3. Own(r)
    BY Zenon, <2>1, <2>2, MoveOwn
  <2>4. call'[r].pc = "user" /\ UNCHANGED <<segs, link, rc, hist>>
    BY Zenon, <2>1 DEF libvars
  <2>5. ip'[r] # 1
    BY <2>1, <2>2 DEF TypeOK
  <2> QED BY Zenon, <2>2, <2>3, <2>4, <2>5, IdleAlloc
<1>4. ASSUME NEW r \in Ranks, Die(r) PROVE AllocInv'
  <2>1. call'[r] = NoCall /\ UNCHANGED <<segs, link, rc, hist>> /\ ip' = ip
    BY Zenon, <1>4 DEF Die, TypeOK
  <2>2. call'[r].pc = "user"
    BY <2>1 DEF NoCall
  <2> QED BY Zenon, <1>4, <2>1, <2>2, DieOwn, IdleAlloc
<1>5. ASSUME NEW r \in Ranks, Step(r) PROVE AllocInv'
  <2>1. PICK of \in [Segments -> Names] : Naming(of)
    BY Zenon DEF AllocInv
  <2>2. LifeOK(r) /\ AllocIsUnanimous /\ (\A q \in Ranks : LifeOK(q)) /\ \A s \in Segments : ReadyOK(s)
    BY Zenon DEF AllocInv
  <2>3. \A q \in Ranks : LifeOK(q)'
    BY Zenon, <1>5, <2>2, StepLife
  <2>4. \A s \in Segments : ReadyOK(s)'
    BY Zenon, <1>5, <2>1, <2>2, StepReady
  <2>5. Naming(of)'
    BY Zenon, <1>5, <2>1, <2>2, StepNaming
  <2>6. AllocIsUnanimous'
    BY Zenon, <1>5, <2>1, <2>2, StepUnanimous
  <2> QED BY Zenon, <2>1, <2>3, <2>4, <2>5, <2>6 DEF AllocInv
<1> QED BY Zenon, <1>1, <1>2, <1>3, <1>4, <1>5 DEF Next

-----------------------------------------------------------------------------
LEMMA RanksCount == RankCounts
<1> SUFFICES ASSUME NEW T \in SUBSET Ranks
    PROVE  /\ IsFiniteSet(T) /\ Cardinality(T) \in Nat
           /\ \A S \in SUBSET T : Cardinality(S) <= Cardinality(T) /\ (Cardinality(T) = Cardinality(S) => T = S)
           /\ \A r \in Ranks : r \notin T => Cardinality(T \cup {r}) = Cardinality(T) + 1
  BY Zenon DEF RankCounts
<1>1. IsFiniteSet(T) /\ Cardinality(T) \in Nat
  BY Zenon, CommAssumption, FS_Subset, FS_CardinalityType
<1>2. \A S \in SUBSET T : Cardinality(S) <= Cardinality(T) /\ (Cardinality(T) = Cardinality(S) => T = S)
  BY Zenon, <1>1, FS_Subset
<1>3. \A r \in Ranks : r \notin T => Cardinality(T \cup {r}) = Cardinality(T) + 1
  BY Zenon, <1>1, FS_AddElement
<1> QED BY Zenon, <1>1, <1>2, <1>3

LEMMA InitBarrier == Init => CallInv /\ BarrierInv
<1> SUFFICES ASSUME Init PROVE CallInv /\ BarrierInv
  BY Zenon
<1>1. CallInv
  BY DEF Init, CallInv, Untouched, HandleOK, CallOK, NoHandle, NoCall, None, Setup
<1>2. DeadAreOut
  BY Zenon DEF Init, DeadAreOut
<1>3. ASSUME NEW s \in Segments PROVE SegInv(s)
  <2>1. Round(s) = 0 /\ Count(s) = 0 /\ \A r \in Ranks : entered[s][r] = 0 /\ left[s][r] = 0 /\ call[r].pc = "user"
    BY Zenon DEF Init, Header, Round, Count, NoCall
  <2>2. Cardinality(Counted(s)) \in Nat
    BY Zenon, InitType, SegTypes, RanksCount
  <2> QED BY <2>1, <2>2 DEF SegInv, Rounds, In, Inside
<1> QED BY Zenon, <1>1, <1>2, <1>3 DEF BarrierInv

\* The invariant behind both results.
CommInv == TypeOK /\ CallInv /\ BarrierInv

\* In every reachable state each rank's call is where the header's counters and flags say
\* it is (the accesses of comm_sim.cpp to the shared header), faults and deaths included.
LEMMA CommInvariant == Spec => []CommInv
<1>1. Init => CommInv
  BY Zenon, InitType, InitBarrier DEF CommInv
<1>2. CommInv /\ [Next]_vars => CommInv'
  BY Zenon, TypeInv, CallInvStep, BarrierStep, RanksCount DEF CommInv
<1> QED BY <1>1, <1>2, PTL DEF Spec

\* comm_barrier keeps the promise of CommBarrier on every segment, for any number of ranks
\* and any number of rounds (the barrier_count and barrier_phase of comm_sim.cpp, re-entered
\* back to back): until a rank reaches its deadline inside a barrier of the segment, nobody
\* leaves a round before everybody has entered it.
THEOREM BarriersKeepTheirPromise == Spec => BarriersImplement
<1>1. Init => Barrier!Init
  BY Zenon DEF Init, Barrier!Init
<1>2. CommInv /\ [Next]_vars => [Barrier!Next]_(Barrier!vars)
  BY Zenon, NextRefines, RanksCount DEF CommInv, Barrier!vars
<1> QED BY <1>1, <1>2, CommInvariant, PTL DEF Spec, BarriersImplement, Barrier!Spec

LEMMA InitAlloc == Init => AllocInv
<1> SUFFICES ASSUME Init PROVE AllocInv
  BY Zenon
<1>1. \A r \in Ranks : LifeOK(r)
  BY Zenon DEF Init, LifeOK, NoCall
<1>2. \A s \in Segments : Seen(s) = {}
  BY Zenon DEF Init, Seen
<1>3. \A s \in Segments : ReadyOK(s)
  <2>1. \A s \in Segments : Cardinality(Seen(s)) \in Nat /\ segs[s].ready_count = 0
    BY Zenon, SeenFinite, RanksCount DEF Init, Header
  <2> QED BY <2>1 DEF ReadyOK
<1>4. Naming([s \in Segments |-> Base])
  BY Zenon, <1>2 DEF Init, Naming, HoldsOK, NoCall, Holding
<1>5. [s \in Segments |-> Base] \in [Segments -> Names]
  BY Zenon DEF Names
<1>6. AllocIsUnanimous
  BY Zenon DEF Init, AllocIsUnanimous
<1> QED BY Zenon, <1>1, <1>3, <1>4, <1>5, <1>6 DEF AllocInv

\* A rank whose comm_alloc_windows or comm_alloc_domain_windows returned shares its segment
\* with every other member: each has attached to that very segment in its present life,
\* whatever call fails, times out or dies in between.
THEOREM AllocationsAreUnanimous == Spec => []AllocIsUnanimous
<1>1. Init => AllocInv
  BY Zenon, InitAlloc
<1>2. AllocInv /\ CommInv /\ CommInv' /\ [Next]_vars => AllocInv'
  BY Zenon, AllocStep, RanksCount DEF CommInv
<1>3. AllocInv => AllocIsUnanimous
  BY Zenon DEF AllocInv
<1> QED BY <1>1, <1>2, <1>3, CommInvariant, PTL DEF Spec
=============================================================================
