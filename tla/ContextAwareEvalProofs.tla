----------------------- MODULE ContextAwareEvalProofs -----------------------
(***************************************************************************)
(* Proofs about ContextAwareEval for every value of its constants: the     *)
(* type invariant, and the soundness of snapshot reuse (CachedSnapshotFresh)*)
(* through the inductive invariant IInv.                                   *)
(***************************************************************************)
EXTENDS ContextAwareEval, TLAPS

USE KubeClientAssumption, ContextAwareAssumption

(* The shapes of the reply-channel values.                                 *)
LEMMA ReplyValues ==
    /\ NoReply \in Results \cup {NoReply, Closed}
    /\ Closed \in Results \cup {NoReply, Closed}
    /\ NoReply # Closed
    /\ NoReply.status = "none" /\ Closed.status = "closed"
    /\ \A r \in Results : r # NoReply /\ r # Closed /\ r.status \in {"ok", "err"}
BY DEF NoReply, Closed, Results

(* The initial state satisfies the type invariant.                         *)
LEMMA TInvInit == Init => TInv
<1> SUFFICES ASSUME Init PROVE TInv
  OBVIOUS
<1>1. ClientTypeOK
  BY DEF Init, ClientInit, ClientTypeOK
<1>2. 1 \in 1..NRes
  BY DEF NRes
<1>3. wsnap \in [Workers -> Snapshot]
  BY DEF Init, Snapshot
<1>4. reply \in [Workers -> Results \cup {NoReply, Closed}]
  BY ReplyValues DEF Init
<1>5. cache \in [Workers -> [snap : Snapshot, since : Nat] \cup {NoCache}]
  BY DEF Init
<1>6. CheckHasCache
  BY DEF Init, CheckHasCache
<1>7. QED
  BY <1>1, <1>2, <1>3, <1>4, <1>5, <1>6 DEF Init, TInv, TypeOK, Outcomes

(* The resource a worker is at is one of the allowed kinds.                *)
LEMMA ResKind == \A i \in 1..NRes : Res(i) \in Kinds
BY DEF Res, NRes

(* What a client call can do to the client state: at most cache the kind  *)
(* and create its reflector.                                               *)
LEMMA ClientCallEffect ==
    ASSUME NEW k, NEW res, NEW since,
           ListResourcesAll(k, res) \/ HasListResourcesAllResultChangedSinceInstant(k, since, res)
    PROVE  /\ kubeResources' \in {kubeResources, kubeResources \cup {k}}
           /\ \/ reflectors' = reflectors
              \/ reflectors' = [reflectors EXCEPT ![k] = NewReflector(k)]
           /\ UNCHANGED <<cluster, clock>>
<1>1. CASE ListResourcesAll(k, res)
  <2>1. kubeResources' \in {kubeResources, kubeResources \cup {k}}
    BY <1>1, Zenon DEF ListResourcesAll, ClientListResourcesAll, BuildKubeResource, BuildKubeResourceFails
  <2>2. \/ reflectors' = reflectors
        \/ reflectors' = [reflectors EXCEPT ![k] = NewReflector(k)]
    BY <1>1, Zenon DEF ListResourcesAll, ClientListResourcesAll, ListResourcesFromReflector
  <2>3. QED
    BY <1>1, <2>1, <2>2 DEF ListResourcesAll, ClientListResourcesAll
<1>2. CASE HasListResourcesAllResultChangedSinceInstant(k, since, res)
  BY <1>2, Zenon DEF HasListResourcesAllResultChangedSinceInstant,
                     ClientHasListResourcesAllResultChangedSinceInstant, BuildKubeResource,
                     BuildKubeResourceFails
<1>3. QED
  BY <1>1, <1>2

(* The client's operations keep its state well typed.                      *)
LEMMA ClientStepsTyped ==
    ASSUME ClientTypeOK, NEW k \in Kinds, NEW res, NEW since,
           ListResourcesAll(k, res) \/ HasListResourcesAllResultChangedSinceInstant(k, since, res)
    PROVE  ClientTypeOK'
<1>1. NewReflector(k) \in Reflector
  BY DEF ClientTypeOK, NewReflector, Reflector
<1>2. /\ kubeResources' \in {kubeResources, kubeResources \cup {k}}
      /\ \/ reflectors' = reflectors
         \/ reflectors' = [reflectors EXCEPT ![k] = NewReflector(k)]
      /\ UNCHANGED <<cluster, clock>>
  BY ClientCallEffect
<1>3. kubeResources' \subseteq Kinds
  BY <1>2 DEF ClientTypeOK
<1>4. reflectors' \in [Kinds -> Reflector \cup {NoReflector}]
  BY <1>1, <1>2 DEF ClientTypeOK
<1>5. QED
  BY <1>2, <1>3, <1>4 DEF ClientTypeOK

(* 1 is a valid resource index.                                          *)
LEMMA FirstIndex == 1 \in 1..NRes
BY DEF NRes

(* Clearing an evaluation's locals keeps them typed.                       *)
LEMMA ClearLocalsTyped ==
    ASSUME TypeOK, NEW w \in Workers, ClearLocals(w)
    PROVE  /\ widx' \in [Workers -> 1..NRes]
           /\ wsnap' \in [Workers -> Snapshot]
           /\ wsince' \in [Workers -> Nat]
BY FirstIndex DEF ClearLocals, TypeOK, Snapshot

(* A failed evaluation keeps the worker's state typed.                     *)
LEMMA FailTyped ==
    ASSUME TypeOK, NEW w \in Workers, NEW why \in Outcomes, Fail(w, why)
    PROVE  /\ wpc' \in [Workers -> {"idle", "check", "wait_check", "list", "wait_list", "eval"}]
           /\ outcome' \in [Workers -> Outcomes]
           /\ widx' \in [Workers -> 1..NRes]
           /\ wsnap' \in [Workers -> Snapshot]
           /\ wsince' \in [Workers -> Nat]
           /\ wpc'[w] = "idle"
           /\ \A v \in Workers \ {w} : wpc'[v] = wpc[v]
<1>1. ClearLocals(w)
  BY DEF Fail
<1>2. QED
  BY <1>1, ClearLocalsTyped DEF Fail, TypeOK

(* try_send keeps the bus and the worker typed.                            *)
LEMMA TrySendTyped ==
    ASSUME TypeOK, NEW w \in Workers, NEW req \in Request,
           NEW waitPc \in {"wait_check", "wait_list"}, TrySend(w, req, waitPc)
    PROVE  /\ bus' \in Seq(Request)
           /\ Len(bus') <= BusCapacity
           /\ wpc' \in [Workers -> {"idle", "check", "wait_check", "list", "wait_list", "eval"}]
           /\ outcome' \in [Workers -> Outcomes]
           /\ widx' \in [Workers -> 1..NRes]
           /\ wsnap' \in [Workers -> Snapshot]
           /\ wsince' \in [Workers -> Nat]
           /\ wpc'[w] \in {"idle", waitPc}
           /\ \A v \in Workers \ {w} : wpc'[v] = wpc[v]
<1>1. CASE routerUp /\ Len(bus) < BusCapacity /\ bus' = Append(bus, req)
           /\ wpc' = [wpc EXCEPT ![w] = waitPc] /\ UNCHANGED <<outcome, widx, wsnap, wsince>>
  BY <1>1 DEF TypeOK
<1>2. CASE Fail(w, "send_closed") /\ UNCHANGED bus
  BY <1>2, FailTyped DEF TypeOK, Outcomes
<1>3. CASE Fail(w, "send_full") /\ UNCHANGED bus
  BY <1>3, FailTyped DEF TypeOK, Outcomes
<1>4. QED
  BY <1>1, <1>2, <1>3 DEF TrySend

(* The watch task's updates of a reflector keep it a reflector.            *)
LEMMA WatchUpdatesTyped ==
    ASSUME NEW r \in Reflector, NEW c \in Nat
    PROVE  /\ r.store < MaxChanges => AppliedDirty(r) \in Reflector
           /\ Stamped(r, c) \in Reflector
BY DEF Reflector, AppliedDirty, Stamped

(* The empty cache is not a cached snapshot.                              *)
LEMMA NoCacheDistinct == NoCache \notin [snap : Snapshot, since : Nat]
BY DEF NoCache

(* Every step keeps the type invariant.                                    *)
LEMMA TInvStep == TInv /\ [Next]_vars => TInv'
<1> SUFFICES ASSUME TInv, [Next]_vars PROVE TInv'
  OBVIOUS
<1>0. TypeOK /\ CheckHasCache
  BY DEF TInv
<1>1. ASSUME NEW w \in Workers, StartEval(w) PROVE TInv'
  <2>1. UNCHANGED <<clientVars, bus, routerUp, reply, wsnap, cache, outcome>>
    BY <1>1 DEF StartEval
  <2>2. wpc' \in [Workers -> {"idle", "check", "wait_check", "list", "wait_list", "eval"}]
        /\ widx' \in [Workers -> 1..NRes] /\ wsince' \in [Workers -> Nat]
    BY <1>0, <1>1, FirstIndex DEF StartEval, BeginBuild, TypeOK, ClientTypeOK
  <2>3. CheckHasCache'
    BY <1>0, <1>1, <2>1 DEF StartEval, BeginBuild, CheckHasCache, TypeOK
  <2>4. QED
    BY <1>0, <2>1, <2>2, <2>3 DEF TInv, TypeOK, ClientTypeOK, clientVars
<1>2. ASSUME NEW w \in Workers, SendCheck(w) PROVE TInv'
  <2>1. cache[w] \in [snap : Snapshot, since : Nat]
    BY <1>0, <1>2 DEF SendCheck, CheckHasCache, TypeOK
  <2>2. widx[w] \in 1..NRes
    BY <1>0 DEF TypeOK
  <2>3. [from |-> w, verb |-> "changed", kind |-> Res(widx[w]), since |-> cache[w].since]
          \in Request
    BY <2>1, <2>2, ResKind DEF Request
  <2>4. UNCHANGED <<clientVars, routerUp, reply, cache>>
    BY <1>2 DEF SendCheck
  <2>5. CheckHasCache'
    BY <1>0, <1>2, <2>3, <2>4, TrySendTyped DEF SendCheck, CheckHasCache
  <2>6. QED
    BY <1>0, <1>2, <2>3, <2>4, <2>5, TrySendTyped DEF SendCheck, TInv, TypeOK,
                                                     ClientTypeOK, clientVars
<1>3. ASSUME NEW w \in Workers, SendList(w) PROVE TInv'
  <2>1. widx[w] \in 1..NRes
    BY <1>0 DEF TypeOK
  <2>2. [from |-> w, verb |-> "list", kind |-> Res(widx[w]), since |-> 0] \in Request
    BY <2>1, ResKind DEF Request
  <2>3. UNCHANGED <<clientVars, routerUp, reply, cache>>
    BY <1>3 DEF SendList
  <2>4. CheckHasCache'
    BY <1>0, <1>3, <2>2, <2>3, TrySendTyped DEF SendList, CheckHasCache
  <2>5. QED
    BY <1>0, <1>3, <2>2, <2>3, <2>4, TrySendTyped DEF SendList, TInv, TypeOK,
                                                     ClientTypeOK, clientVars
<1>4. ASSUME NEW w \in Workers, RecvCheck(w) PROVE TInv'
  <2>1. UNCHANGED <<clientVars, bus, routerUp, cache>>
    BY <1>4 DEF RecvCheck
  <2>2. reply' \in [Workers -> Results \cup {NoReply, Closed}]
    BY <1>0, <1>4, ReplyValues DEF RecvCheck, TypeOK
  <2>3. cache[w] \in [snap : Snapshot, since : Nat]
    BY <1>0, <1>4 DEF RecvCheck, CheckHasCache, TypeOK
  <2>4. CASE RecvFails(w)
    <3>1. PICK why \in Outcomes : Fail(w, why)
      BY <2>4 DEF RecvFails, Outcomes
    <3>2. QED
      BY <1>0, <2>1, <2>2, <3>1, FailTyped DEF TInv, TypeOK, ClientTypeOK, clientVars,
                                               CheckHasCache
  <2>5. CASE /\ reply[w].changed
             /\ BeginBuild(w)
             /\ UNCHANGED <<wsnap, outcome>>
    BY <1>0, <2>1, <2>2, <2>5, FirstIndex DEF BeginBuild, TInv, TypeOK, ClientTypeOK,
                                              clientVars, CheckHasCache
  <2>6. CASE /\ wpc' = [wpc EXCEPT ![w] = "eval"]
             /\ wsnap' = [wsnap EXCEPT ![w] = cache[w].snap]
             /\ UNCHANGED <<widx, wsince, outcome>>
    BY <1>0, <2>1, <2>2, <2>3, <2>6 DEF TInv, TypeOK, ClientTypeOK, clientVars,
                                        CheckHasCache
  <2>7. CASE /\ widx[w] < NRes
             /\ wpc' = [wpc EXCEPT ![w] = "check"]
             /\ widx' = [widx EXCEPT ![w] = @ + 1]
             /\ UNCHANGED <<wsnap, wsince, outcome>>
    <3>1. widx' \in [Workers -> 1..NRes]
      BY <1>0, <2>7 DEF TypeOK, NRes
    <3>2. wpc' \in [Workers -> {"idle", "check", "wait_check", "list", "wait_list", "eval"}]
      BY <1>0, <2>7 DEF TypeOK
    <3>3. cache[w] # NoCache
      BY <2>3, NoCacheDistinct
    <3>5. CheckHasCache'
      BY <1>0, <2>1, <3>3, <2>7 DEF CheckHasCache, TypeOK
    <3>4. QED
      BY <1>0, <2>1, <2>2, <2>7, <3>1, <3>2, <3>5 DEF TInv, TypeOK, ClientTypeOK,
                                                     clientVars
  <2>8. QED
    BY <1>4, <2>4, <2>5, <2>6, <2>7 DEF RecvCheck
<1>5. ASSUME NEW w \in Workers, RecvList(w) PROVE TInv'
  <2>1. UNCHANGED <<clientVars, bus, routerUp>>
    BY <1>5 DEF RecvList
  <2>2. reply' \in [Workers -> Results \cup {NoReply, Closed}]
    BY <1>0, <1>5, ReplyValues DEF RecvList, TypeOK
  <2>3. CASE RecvFails(w) /\ UNCHANGED cache
    <3>1. PICK why \in Outcomes : Fail(w, why)
      BY <2>3 DEF RecvFails, Outcomes
    <3>2. QED
      BY <1>0, <1>5, <2>1, <2>2, <2>3, <3>1, FailTyped DEF RecvList, TInv, TypeOK,
                                         ClientTypeOK, clientVars, CheckHasCache
  <2>4. CASE /\ reply[w].status = "ok"
             /\ wsnap' = [wsnap EXCEPT ![w][Res(widx[w])] = reply[w].num]
             /\ IF widx[w] = NRes
                   THEN /\ wpc' = [wpc EXCEPT ![w] = "eval"]
                        /\ cache' = [cache EXCEPT ![w] = [snap |-> wsnap'[w],
                                                         since |-> wsince[w]]]
                        /\ UNCHANGED widx
                   ELSE /\ wpc' = [wpc EXCEPT ![w] = "list"]
                        /\ widx' = [widx EXCEPT ![w] = @ + 1]
                        /\ UNCHANGED cache
             /\ UNCHANGED <<outcome, wsince>>
    <3>1. reply[w] \in Results
      BY <1>0, <2>4, ReplyValues DEF TypeOK
    <3>2. reply[w].num \in 0..MaxChanges
      BY <3>1 DEF Results
    <3>3. Res(widx[w]) \in Kinds
      BY <1>0, ResKind DEF TypeOK
    <3>4. wsnap' \in [Workers -> Snapshot]
      BY <1>0, <2>4, <3>2, <3>3 DEF TypeOK, Snapshot
    <3>5. wsnap'[w] \in Snapshot
      BY <3>4
    <3>6. wpc[w] = "wait_list"
      BY <1>5 DEF RecvList
    <3>7. CASE widx[w] = NRes
      <4>0. cache' = [cache EXCEPT ![w] = [snap |-> wsnap'[w], since |-> wsince[w]]]
        BY <2>4, <3>7
      <4>1. cache' \in [Workers -> [snap : Snapshot, since : Nat] \cup {NoCache}]
        BY <1>0, <4>0, <3>5 DEF TypeOK
      <4>2. wpc' = [wpc EXCEPT ![w] = "eval"] /\ UNCHANGED widx
        BY <2>4, <3>7
      <4>3. CheckHasCache'
        BY <1>0, <4>0, <4>2 DEF CheckHasCache, TypeOK
      <4>4. QED
        BY <1>0, <2>1, <2>2, <2>4, <3>4, <4>1, <4>2, <4>3 DEF TInv, TypeOK,
                                               ClientTypeOK, clientVars
    <3>8. CASE widx[w] # NRes
      <4>1. wpc' = [wpc EXCEPT ![w] = "list"] /\ widx' = [widx EXCEPT ![w] = @ + 1]
            /\ UNCHANGED cache
        BY <2>4, <3>8
      <4>2. widx' \in [Workers -> 1..NRes]
        BY <1>0, <3>8, <4>1 DEF TypeOK, NRes
      <4>3. CheckHasCache'
        BY <1>0, <4>1, <3>6 DEF CheckHasCache, TypeOK
      <4>4. QED
        BY <1>0, <2>1, <2>2, <2>4, <3>4, <4>1, <4>2, <4>3 DEF TInv, TypeOK,
                                               ClientTypeOK, clientVars
    <3>9. QED
      BY <3>7, <3>8
  <2>5. QED
    BY <1>5, <2>3, <2>4 DEF RecvList
<1>6. ASSUME NEW w \in Workers, Evaluate(w) PROVE TInv'
  <2>1. ClearLocals(w) /\ UNCHANGED <<clientVars, bus, routerUp, reply, cache>>
    BY <1>6 DEF Evaluate
  <2>2. QED
    BY <1>0, <1>6, <2>1, ClearLocalsTyped DEF Evaluate, TInv, TypeOK, ClientTypeOK,
                                             clientVars, CheckHasCache, Outcomes
<1>7. CASE RouterHandle
  <2>1. PICK res \in Results :
          /\ \/ /\ Head(bus).verb = "list"
                /\ ListResourcesAll(Head(bus).kind, res)
             \/ /\ Head(bus).verb = "changed"
                /\ HasListResourcesAllResultChangedSinceInstant(Head(bus).kind,
                                                               Head(bus).since, res)
          /\ reply' = [reply EXCEPT ![Head(bus).from] = res]
    BY <1>7 DEF RouterHandle
  <2>2. Head(bus) \in Request /\ bus' = Tail(bus) /\ bus # <<>>
    BY <1>0, <1>7 DEF RouterHandle, TypeOK
  <2>3. ClientTypeOK'
    BY <1>0, <2>1, <2>2, ClientStepsTyped DEF Request, TypeOK
  <2>4. bus' \in Seq(Request) /\ Len(bus') <= BusCapacity
    BY <1>0, <2>2 DEF TypeOK
  <2>5. reply' \in [Workers -> Results \cup {NoReply, Closed}]
    BY <1>0, <2>1, <2>2 DEF TypeOK, Request
  <2>6. UNCHANGED <<routerUp, wpc, widx, wsnap, wsince, cache, outcome>>
    BY <1>7 DEF RouterHandle
  <2>7. QED
    BY <1>0, <2>3, <2>4, <2>5, <2>6 DEF TInv, TypeOK, CheckHasCache
<1>8. CASE Shutdown
  <2>1. reply' \in [Workers -> Results \cup {NoReply, Closed}]
    BY <1>0, <1>8, ReplyValues DEF Shutdown, TypeOK
  <2>2. UNCHANGED <<clientVars, wpc, widx, wsnap, wsince, cache, outcome>>
        /\ bus' = <<>> /\ routerUp' = FALSE
    BY <1>8 DEF Shutdown
  <2>3. <<>> \in Seq(Request) /\ Len(<<>>) = 0
    OBVIOUS
  <2>4. bus' \in Seq(Request) /\ Len(bus') <= BusCapacity /\ routerUp' \in BOOLEAN
    <3>1. bus' = <<>> /\ routerUp' = FALSE
      BY <2>2
    <3>2. 0 <= BusCapacity
      BY ContextAwareAssumption
    <3>3. QED
      BY <2>3, <3>1, <3>2
  <2>5. QED
    BY <1>0, <2>1, <2>2, <2>4 DEF TInv, TypeOK, ClientTypeOK, clientVars, CheckHasCache
<1>9. ASSUME NEW k \in Kinds, Environment(k) PROVE TInv'
  <2>1. UNCHANGED evalVars
    BY <1>9 DEF Environment
  <2>2. ClientTypeOK'
    <3>1. CASE ClusterChange(k)
      BY <1>0, <3>1 DEF ClusterChange, TypeOK, ClientTypeOK
    <3>0. reflectors[k] # NoReflector => reflectors[k] \in Reflector
      BY <1>0 DEF TypeOK, ClientTypeOK
    <3>2. CASE WatchApply(k)
      <4>1. reflectors[k] \in Reflector /\ reflectors[k].store < cluster[k]
        BY <3>0, <3>2 DEF WatchApply
      <4>2. cluster[k] \in 0..MaxChanges
        BY <1>0 DEF TypeOK, ClientTypeOK
      <4>3. AppliedDirty(reflectors[k]) \in Reflector
        <5>1. reflectors[k].store < MaxChanges
          BY <4>1, <4>2 DEF Reflector
        <5>2. QED
          BY <4>1, <5>1, WatchUpdatesTyped
      <4>4. reflectors' = [reflectors EXCEPT ![k] = AppliedDirty(reflectors[k])]
        BY <3>2 DEF WatchApply
      <4>5. QED
        BY <1>0, <3>2, <4>3, <4>4 DEF WatchApply, TypeOK, ClientTypeOK
    <3>3. CASE WatchStamp(k)
      <4>1. reflectors[k] \in Reflector
        BY <3>0, <3>3 DEF WatchStamp
      <4>2. clock \in Nat
        BY <1>0 DEF TypeOK, ClientTypeOK
      <4>3. Stamped(reflectors[k], clock + 1) \in Reflector
        <5>1. clock + 1 \in Nat
          BY <4>2
        <5>2. QED
          BY <4>1, <5>1, WatchUpdatesTyped
      <4>4. reflectors' = [reflectors EXCEPT ![k] = Stamped(reflectors[k], clock + 1)]
        BY <3>3 DEF WatchStamp
      <4>5. QED
        BY <1>0, <3>3, <4>2, <4>3, <4>4 DEF WatchStamp, TypeOK, ClientTypeOK
    <3>4. QED
      BY <1>9, <3>1, <3>2, <3>3 DEF Environment
  <2>3. QED
    BY <1>0, <2>1, <2>2 DEF TInv, TypeOK, CheckHasCache, evalVars
<1>10. CASE UNCHANGED vars
  BY <1>0, <1>10 DEF vars, clientVars, evalVars, TInv, TypeOK, ClientTypeOK, CheckHasCache
<1>11. QED
  BY <1>1, <1>2, <1>3, <1>4, <1>5, <1>6, <1>7, <1>8, <1>9, <1>10 DEF Next, WorkerStep

(* Type correctness: every reachable state of the specification is well   *)
(* typed, for every choice of the constants that meets the assumptions.   *)
THEOREM TypeCorrect == Spec => []TypeOK
<1>1. Init => TInv
  BY TInvInit
<1>2. TInv /\ [Next]_vars => TInv'
  BY TInvStep
<1>3. TInv => TypeOK
  BY DEF TInv
<1>4. QED
  BY <1>1, <1>2, <1>3, PTL DEF Spec

=============================================================================
