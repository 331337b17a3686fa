------------------------- MODULE SnapshotFreshProofs -------------------------
(***************************************************************************)
(* Proof that snapshot reuse in the context-aware evaluation is sound:     *)
(* Spec => []CachedSnapshotFresh, for every value of the constants.        *)
(*                                                                         *)
(* CachedSnapshotFresh is not inductive by itself.  A snapshot is put in   *)
(* the cache by the last RecvList of a build, so the proof also needs the *)
(* freshness of the part built so far and of a list answer not yet read   *)
(* (BuildFresh), the fact that an answer reaches the worker that asked    *)
(* for that resource with that verb (RequestsMatchWorkers), and that no   *)
(* instant a worker holds is ahead of the clock (InstantsBehindClock), so *)
(* that a later stamp of the watch task is strictly after it.             *)
(***************************************************************************)
EXTENDS ContextAwareEvalProofs, SequenceTheorems

(* FreshOrFlagged over an explicit reflector map.                          *)
FreshIn(refl, v, since, k) ==
    /\ refl[k] # NoReflector
    /\ \/ refl[k].store = v
       \/ refl[k].dirty
       \/ refl[k].lastChange > since

(* No step of the system loses the freshness of a value read at or after   *)
(* an instant that is not ahead of the clock.                              *)
ReflectorsMonotone ==
    \A v : \A k \in Kinds : \A s \in Nat :
        (s <= clock /\ FreshIn(reflectors, v, s, k)) => FreshIn(reflectors', v, s, k)

(* The two freshness conjuncts of IInv over an explicit reflector map.     *)
CacheFreshIn(refl) ==
    \A w \in Workers : cache[w] # NoCache =>
        \A i \in 1..NRes : FreshIn(refl, cache[w].snap[Res(i)], cache[w].since, Res(i))

BuildFreshIn(refl) ==
    \A w \in Workers :
        /\ wpc[w] \in {"list", "wait_list"} =>
              \A i \in 1..(widx[w] - 1) : FreshIn(refl, wsnap[w][Res(i)], wsince[w], Res(i))
        /\ (wpc[w] = "wait_list" /\ reply[w].status = "ok") =>
              FreshIn(refl, reply[w].num, wsince[w], Res(widx[w]))

LEMMA FreshBridge ==
    /\ CachedSnapshotFresh <=> CacheFreshIn(reflectors)
    /\ CachedSnapshotFresh' <=> CacheFreshIn(reflectors)'
    /\ BuildFresh <=> BuildFreshIn(reflectors)
    /\ BuildFresh' <=> BuildFreshIn(reflectors)'
BY DEF CachedSnapshotFresh, CacheFreshIn, BuildFresh, BuildFreshIn, FreshOrFlagged, FreshIn

(* A step that leaves the workers alone and keeps freshness keeps both     *)
(* freshness conjuncts: the instants they use are not ahead of the clock.  *)
LEMMA FreshUnderMonotone ==
    ASSUME TypeOK, InstantsBehindClock, ReflectorsMonotone,
           CacheFreshIn(reflectors), BuildFreshIn(reflectors)
    PROVE  CacheFreshIn(reflectors') /\ BuildFreshIn(reflectors')
<1>1. CacheFreshIn(reflectors')
  <2> SUFFICES ASSUME NEW w \in Workers, cache[w] # NoCache, NEW i \in 1..NRes
               PROVE  FreshIn(reflectors', cache[w].snap[Res(i)], cache[w].since, Res(i))
    BY DEF CacheFreshIn
  <2>0. cache[w] \in [snap : Snapshot, since : Nat]
    BY DEF TypeOK
  <2>1. cache[w].since \in Nat /\ cache[w].since <= clock
    BY <2>0 DEF InstantsBehindClock
  <2>2. FreshIn(reflectors, cache[w].snap[Res(i)], cache[w].since, Res(i))
    BY DEF CacheFreshIn
  <2>3. QED
    BY <2>1, <2>2, ResKind DEF ReflectorsMonotone
<1>2. BuildFreshIn(reflectors')
  <2> SUFFICES ASSUME NEW w \in Workers
               PROVE  /\ wpc[w] \in {"list", "wait_list"} =>
                           \A i \in 1..(widx[w] - 1) :
                              FreshIn(reflectors', wsnap[w][Res(i)], wsince[w], Res(i))
                      /\ (wpc[w] = "wait_list" /\ reply[w].status = "ok") =>
                           FreshIn(reflectors', reply[w].num, wsince[w], Res(widx[w]))
    BY DEF BuildFreshIn
  <2>1. wsince[w] \in Nat /\ wsince[w] <= clock /\ widx[w] \in 1..NRes
    BY DEF TypeOK, InstantsBehindClock
  <2>2. ASSUME wpc[w] \in {"list", "wait_list"}, NEW i \in 1..(widx[w] - 1)
        PROVE  FreshIn(reflectors', wsnap[w][Res(i)], wsince[w], Res(i))
    <3>1. i \in 1..NRes
      BY <2>1 DEF NRes
    <3>2. FreshIn(reflectors, wsnap[w][Res(i)], wsince[w], Res(i))
      BY <2>2 DEF BuildFreshIn
    <3>3. QED
      BY <2>1, <3>1, <3>2, ResKind DEF ReflectorsMonotone
  <2>3. ASSUME wpc[w] = "wait_list", reply[w].status = "ok"
        PROVE  FreshIn(reflectors', reply[w].num, wsince[w], Res(widx[w]))
    <3>1. FreshIn(reflectors, reply[w].num, wsince[w], Res(widx[w]))
      BY <2>3 DEF BuildFreshIn
    <3>2. QED
      BY <2>1, <3>1, ResKind DEF ReflectorsMonotone
  <2>4. QED
    BY <2>2, <2>3
<1>3. QED
  BY <1>1, <1>2

(* A worker that does not wait, or has its answer, has no request queued.  *)
LEMMA NoRequestFrom ==
    ASSUME TypeOK, RequestsMatchWorkers, NEW w \in Workers,
           \/ wpc[w] \notin {"wait_check", "wait_list"}
           \/ reply[w] # NoReply
    PROVE  \A i \in 1..Len(bus) : bus[i].from # w
<1> SUFFICES ASSUME NEW i \in 1..Len(bus), bus[i].from = w PROVE FALSE
  OBVIOUS
<1>1. bus[i] \in Request
  BY LenProperties DEF TypeOK
<1>2. wpc[w] \in {"wait_check", "wait_list"} /\ reply[w] = NoReply
  BY <1>1 DEF RequestsMatchWorkers, Request
<1>3. QED
  BY <1>2

(* A step of one worker that queues nothing, after which the worker does   *)
(* not wait, keeps requests and workers matched.                           *)
LEMMA MatchLocal ==
    ASSUME TypeOK, RequestsMatchWorkers, NEW w \in Workers,
           \A i \in 1..Len(bus) : bus[i].from # w,
           bus' = bus,
           \A v \in Workers \ {w} : wpc'[v] = wpc[v] /\ widx'[v] = widx[v] /\ reply'[v] = reply[v],
           wpc'[w] \notin {"wait_check", "wait_list"},
           reply'[w] = NoReply
    PROVE  RequestsMatchWorkers'
<1>0. \A i \in 1..Len(bus) : bus[i] \in Request
  BY LenProperties DEF TypeOK
<1>1. \A i \in 1..Len(bus) : bus[i].from \in Workers \ {w}
  BY <1>0 DEF Request
<1>2. QED
  BY <1>1 DEF RequestsMatchWorkers

(* try_send of a worker's request keeps requests and workers matched.      *)
LEMMA MatchAppend ==
    ASSUME TypeOK, RequestsMatchWorkers, NEW w \in Workers, NEW req \in Request,
           req.from = w, req.kind = Res(widx[w]),
           wpc[w] \notin {"wait_check", "wait_list"},
           bus' = Append(bus, req),
           \A v \in Workers \ {w} : wpc'[v] = wpc[v],
           req.verb = "list" <=> wpc'[w] = "wait_list",
           req.verb = "changed" <=> wpc'[w] = "wait_check",
           wpc'[w] \in {"wait_check", "wait_list"},
           UNCHANGED <<widx, reply>>
    PROVE  RequestsMatchWorkers'
<1>1. \A i \in 1..Len(bus) : bus[i].from # w
  BY NoRequestFrom
<1>2. reply[w] = NoReply
  BY DEF RequestsMatchWorkers
<1>3. /\ Len(bus') = Len(bus) + 1
      /\ \A i \in 1..Len(bus) : bus'[i] = bus[i]
      /\ bus'[Len(bus) + 1] = req
  BY AppendProperties DEF TypeOK
<1>0. \A i \in 1..Len(bus) : bus[i] \in Request
  BY LenProperties DEF TypeOK
<1>4. \A i \in 1..Len(bus) : bus[i].from \in Workers \ {w}
  BY <1>0, <1>1 DEF Request
<1>5. Len(bus) \in Nat
  BY LenProperties DEF TypeOK
<1>6. \A i, j \in 1..Len(bus') : bus'[i].from = bus'[j].from => i = j
  BY <1>3, <1>4, <1>5 DEF RequestsMatchWorkers
<1>7. \A i \in 1..Len(bus') :
          /\ bus'[i].kind = Res(widx'[bus'[i].from])
          /\ bus'[i].verb = "list" <=> wpc'[bus'[i].from] = "wait_list"
          /\ bus'[i].verb = "changed" <=> wpc'[bus'[i].from] = "wait_check"
          /\ reply'[bus'[i].from] = NoReply
  BY <1>2, <1>3, <1>4, <1>5 DEF RequestsMatchWorkers
<1>8. \A v \in Workers : wpc'[v] \notin {"wait_check", "wait_list"} => reply'[v] = NoReply
  BY DEF RequestsMatchWorkers
<1>9. QED
  BY <1>6, <1>7, <1>8 DEF RequestsMatchWorkers

(* The router taking the head request and answering its sender keeps      *)
(* requests and workers matched.                                           *)
LEMMA MatchTail ==
    ASSUME TypeOK, RequestsMatchWorkers, bus # <<>>, NEW res,
           bus' = Tail(bus),
           reply' = [reply EXCEPT ![Head(bus).from] = res],
           UNCHANGED <<wpc, widx>>
    PROVE  RequestsMatchWorkers'
<1> DEFINE h == Head(bus).from
<1>1. /\ Len(bus) \in Nat \ {0}
      /\ Len(bus') = Len(bus) - 1
      /\ \A i \in 1..Len(bus') : bus'[i] = bus[i + 1]
      /\ Head(bus) = bus[1]
  BY HeadTailProperties, EmptySeq DEF TypeOK
<1>2. \A i \in 1..Len(bus) : bus[i] \in Request
  BY LenProperties DEF TypeOK
<1>3. \A i \in 1..Len(bus') : bus'[i].from # h
  BY <1>1, <1>2 DEF RequestsMatchWorkers
<1>4. h \in Workers /\ wpc[h] \in {"wait_check", "wait_list"}
  BY <1>1, <1>2 DEF RequestsMatchWorkers, Request
<1>5. reply' = [reply EXCEPT ![h] = res] /\ reply \in [Workers -> Results \cup {NoReply, Closed}]
  BY DEF TypeOK
<1>6. \A i \in 1..Len(bus') : reply'[bus'[i].from] = reply[bus'[i].from]
  BY <1>1, <1>2, <1>3, <1>5 DEF Request
<1>7. \A i, j \in 1..Len(bus') : bus'[i].from = bus'[j].from => i = j
  BY <1>1 DEF RequestsMatchWorkers
<1>8. \A i \in 1..Len(bus') :
          /\ bus'[i].kind = Res(widx'[bus'[i].from])
          /\ bus'[i].verb = "list" <=> wpc'[bus'[i].from] = "wait_list"
          /\ bus'[i].verb = "changed" <=> wpc'[bus'[i].from] = "wait_check"
          /\ reply'[bus'[i].from] = NoReply
  BY <1>1, <1>6 DEF RequestsMatchWorkers
<1>9. \A v \in Workers : wpc'[v] \notin {"wait_check", "wait_list"} => reply'[v] = NoReply
  BY <1>4, <1>5 DEF RequestsMatchWorkers
<1>10. QED
  BY <1>7, <1>8, <1>9 DEF RequestsMatchWorkers

(* A step of one worker that leaves the client alone keeps the other      *)
(* workers' instants, builds and cached snapshots as they were.            *)
LEMMA InstantsLocal ==
    ASSUME InstantsBehindClock, NEW w \in Workers,
           UNCHANGED <<clock, reflectors>>,
           \A v \in Workers \ {w} : wsince'[v] = wsince[v] /\ cache'[v] = cache[v],
           wsince'[w] <= clock,
           cache'[w] # NoCache => cache'[w].since <= clock
    PROVE  InstantsBehindClock'
BY DEF InstantsBehindClock

LEMMA BuildFreshLocal ==
    ASSUME BuildFresh, NEW w \in Workers,
           UNCHANGED reflectors,
           \A v \in Workers \ {w} : /\ wpc'[v] = wpc[v] /\ widx'[v] = widx[v]
                                    /\ wsnap'[v] = wsnap[v] /\ wsince'[v] = wsince[v]
                                    /\ reply'[v] = reply[v],
           wpc'[w] \in {"list", "wait_list"} =>
              \A i \in 1..(widx'[w] - 1) : FreshOrFlagged(wsnap'[w][Res(i)], wsince'[w], Res(i)),
           (wpc'[w] = "wait_list" /\ reply'[w].status = "ok") =>
              FreshOrFlagged(reply'[w].num, wsince'[w], Res(widx'[w]))
    PROVE  BuildFresh'
BY DEF BuildFresh, FreshOrFlagged

LEMMA CacheFreshLocal ==
    ASSUME CachedSnapshotFresh, NEW w \in Workers,
           UNCHANGED reflectors,
           \A v \in Workers \ {w} : cache'[v] = cache[v],
           cache'[w] # NoCache =>
              \A i \in 1..NRes : FreshOrFlagged(cache'[w].snap[Res(i)], cache'[w].since, Res(i))
    PROVE  CachedSnapshotFresh'
BY DEF CachedSnapshotFresh, FreshOrFlagged

(* The router creates a reflector only where there is none.                *)
LEMMA ClientReflectorsGrow ==
    ASSUME NEW k, NEW res, NEW since,
           ListResourcesAll(k, res) \/ HasListResourcesAllResultChangedSinceInstant(k, since, res)
    PROVE  \/ reflectors' = reflectors
           \/ /\ reflectors[k] = NoReflector
              /\ reflectors' = [reflectors EXCEPT ![k] = NewReflector(k)]
<1>1. CASE ListResourcesAll(k, res)
  BY <1>1, Zenon DEF ListResourcesAll, ClientListResourcesAll, ListResourcesFromReflector
<1>2. CASE HasListResourcesAllResultChangedSinceInstant(k, since, res)
  BY <1>2 DEF HasListResourcesAllResultChangedSinceInstant,
                 ClientHasListResourcesAllResultChangedSinceInstant
<1>3. QED
  BY <1>1, <1>2

(* A successful list answer is what the kind's reflector holds afterwards. *)
LEMMA ListReplyCurrent ==
    ASSUME ClientTypeOK, NEW k \in Kinds, NEW res, ListResourcesAll(k, res),
           res.status = "ok"
    PROVE  /\ reflectors'[k] # NoReflector
           /\ reflectors'[k].store = res.num
<1>0. res # Err
  BY DEF Err
<1>1. ClientInitialized /\ ListResourcesFromReflector(k, res)
  BY <1>0, Zenon DEF ListResourcesAll, ClientListResourcesAll
<1>2. CASE reflectors[k] # NoReflector /\ res = ListOk(reflectors[k].store)
           /\ UNCHANGED reflectors
  BY <1>2 DEF ListOk
<1>3. CASE reflectors[k] = NoReflector
           /\ reflectors' = [reflectors EXCEPT ![k] = NewReflector(k)]
           /\ res = ListOk(cluster[k])
  BY <1>3 DEF ClientTypeOK, NewReflector, ListOk, NoReflector
<1>4. CASE reflectors[k] = NoReflector /\ res = Err /\ UNCHANGED reflectors
  BY <1>4 DEF Err
<1>5. QED
  BY <1>1, <1>2, <1>3, <1>4 DEF ListResourcesFromReflector

(* The watch task's steps and the router's never lose freshness.           *)
LEMMA StepMonotone ==
    ASSUME TypeOK, [Next]_vars
    PROVE  ReflectorsMonotone /\ clock' \in Nat /\ clock <= clock'
<1>1. CASE UNCHANGED <<reflectors, clock>>
  BY <1>1 DEF ReflectorsMonotone, FreshIn, TypeOK, ClientTypeOK
<1>2. CASE RouterHandle
  <2>1. PICK res \in Results :
          \/ ListResourcesAll(Head(bus).kind, res)
          \/ HasListResourcesAllResultChangedSinceInstant(Head(bus).kind,
                                                         Head(bus).since, res)
    BY <1>2, Zenon DEF RouterHandle
  <2>2. UNCHANGED clock
    BY <2>1, ClientCallEffect
  <2>3. \/ reflectors' = reflectors
        \/ \E k0 \in Kinds :
              /\ reflectors[k0] = NoReflector
              /\ reflectors' = [reflectors EXCEPT ![k0] = NewReflector(k0)]
    <3>0. bus # <<>> /\ bus \in Seq(Request)
      BY <1>2 DEF RouterHandle, TypeOK
    <3>1. Head(bus) \in Request
      BY <3>0, HeadTailProperties
    <3>2. Head(bus).kind \in Kinds
      BY <3>1 DEF Request
    <3>3. QED
      BY <2>1, <3>2, ClientReflectorsGrow
  <2>4. CASE reflectors' = reflectors
    <3>1. ASSUME NEW v, NEW k \in Kinds, NEW s \in Nat, FreshIn(reflectors, v, s, k)
          PROVE  FreshIn(reflectors', v, s, k)
      BY <2>4, <3>1 DEF FreshIn
    <3>2. QED
      BY <2>2, <3>1 DEF ReflectorsMonotone, TypeOK, ClientTypeOK
  <2>5. CASE \E k0 \in Kinds :
              /\ reflectors[k0] = NoReflector
              /\ reflectors' = [reflectors EXCEPT ![k0] = NewReflector(k0)]
    <3>1. PICK k0 \in Kinds : /\ reflectors[k0] = NoReflector
                              /\ reflectors' = [reflectors EXCEPT ![k0] = NewReflector(k0)]
      BY <2>5
    <3>2. QED
      BY <2>2, <3>1 DEF ReflectorsMonotone, TypeOK, ClientTypeOK, FreshIn, TypeOK, ClientTypeOK
  <2>6. QED
    BY <2>3, <2>4, <2>5
<1>3. ASSUME NEW k0 \in Kinds, WatchApply(k0) PROVE ReflectorsMonotone /\ clock' \in Nat /\ clock <= clock'
  <2>1. reflectors' = [reflectors EXCEPT ![k0] = AppliedDirty(reflectors[k0])]
        /\ UNCHANGED clock
    BY <1>3 DEF WatchApply
  <2>2. AppliedDirty(reflectors[k0]).dirty /\ AppliedDirty(reflectors[k0]) # NoReflector
    BY DEF AppliedDirty, NoReflector
  <2>3. QED
    BY <2>1, <2>2 DEF ReflectorsMonotone, FreshIn, TypeOK, ClientTypeOK
<1>4. ASSUME NEW k0 \in Kinds, WatchStamp(k0) PROVE ReflectorsMonotone /\ clock' \in Nat /\ clock <= clock'
  <2>1. reflectors' = [reflectors EXCEPT ![k0] = Stamped(reflectors[k0], clock + 1)]
        /\ clock' = clock + 1
    BY <1>4 DEF WatchStamp
  <2>2. Stamped(reflectors[k0], clock + 1).lastChange = clock + 1
        /\ Stamped(reflectors[k0], clock + 1) # NoReflector
    BY DEF Stamped, NoReflector
  <2>3. clock \in Nat
    BY DEF TypeOK, ClientTypeOK
  <2>4. QED
    BY <2>1, <2>2, <2>3 DEF ReflectorsMonotone, FreshIn, TypeOK, ClientTypeOK
<1>5. QED
  <2>1. ASSUME NEW w \in Workers, StartEval(w) \/ WorkerStep(w) PROVE UNCHANGED <<reflectors, clock>>
    BY <2>1, Zenon DEF StartEval, WorkerStep, SendCheck, SendList, RecvCheck, RecvList,
                       Evaluate, clientVars
  <2>2. Shutdown => UNCHANGED <<reflectors, clock>>
    BY DEF Shutdown, clientVars
  <2>3. ASSUME NEW k \in Kinds, ClusterChange(k) PROVE UNCHANGED <<reflectors, clock>>
    BY <2>3 DEF ClusterChange
  <2>4. UNCHANGED vars => UNCHANGED <<reflectors, clock>>
    BY DEF vars, clientVars
  <2>5. QED
    BY <1>1, <1>2, <1>3, <1>4, <2>1, <2>2, <2>3, <2>4 DEF Next, Environment

-----------------------------------------------------------------------------
(* One lemma per action: each keeps the inductive invariant.               *)

(* A new evaluation starts a build or a check of the kept snapshot.       *)
LEMMA StartEvalKeeps ==
    ASSUME IInv, TInv', NEW w \in Workers, StartEval(w)
    PROVE  IInv'
<1>0. TypeOK /\ InstantsBehindClock /\ RequestsMatchWorkers /\ BuildFresh
      /\ CachedSnapshotFresh
  BY DEF IInv, TInv
<1>1. UNCHANGED <<clientVars, bus, routerUp, reply, wsnap, cache, outcome>> /\ wpc[w] = "idle"
  BY DEF StartEval
<1>2. /\ wpc'[w] \in {"list", "check"} /\ widx'[w] = 1 /\ wsince'[w] <= clock
      /\ \A v \in Workers \ {w} : wpc'[v] = wpc[v] /\ widx'[v] = widx[v] /\ wsince'[v] = wsince[v]
  <2>1. clock \in Nat /\ wsince[w] <= clock
    BY <1>0 DEF TypeOK, ClientTypeOK, InstantsBehindClock
  <2>2. CASE cache[w] = NoCache
    BY <1>0, <2>1, <2>2 DEF StartEval, BeginBuild, TypeOK
  <2>3. CASE cache[w] # NoCache
    BY <1>0, <2>1, <2>3 DEF StartEval, TypeOK
  <2>4. QED
    BY <2>2, <2>3
<1>3. InstantsBehindClock'
  BY <1>0, <1>1, <1>2 DEF InstantsBehindClock, clientVars
<1>4. reply[w] = NoReply
  BY <1>0, <1>1 DEF RequestsMatchWorkers
<1>5. RequestsMatchWorkers'
  BY <1>0, <1>1, <1>2, <1>4, NoRequestFrom, MatchLocal
<1>6. BuildFresh'
  BY <1>0, <1>1, <1>2, BuildFreshLocal DEF clientVars
<1>7. CachedSnapshotFresh'
  BY <1>0, <1>1 DEF CachedSnapshotFresh, FreshOrFlagged, clientVars
<1>8. QED
  BY <1>3, <1>5, <1>6, <1>7 DEF IInv

(* make_request_via_callback_channel's try_send, for both kinds of request:*)
(* queued, or the evaluation fails.                                        *)
LEMMA TrySendKeeps ==
    ASSUME IInv, TInv', NEW w \in Workers, NEW req \in Request,
           NEW waitPc \in {"wait_check", "wait_list"},
           req.from = w, req.kind = Res(widx[w]),
           req.verb = "list" <=> waitPc = "wait_list",
           req.verb = "changed" <=> waitPc = "wait_check",
           wpc[w] = IF waitPc = "wait_list" THEN "list" ELSE "check",
           TrySend(w, req, waitPc),
           UNCHANGED <<clientVars, routerUp, reply, cache>>
    PROVE  IInv'
<1>0. TypeOK /\ InstantsBehindClock /\ RequestsMatchWorkers /\ BuildFresh
      /\ CachedSnapshotFresh
  BY DEF IInv, TInv
<1>1. reply[w] = NoReply
  BY <1>0 DEF RequestsMatchWorkers
<1>2. CachedSnapshotFresh'
  BY <1>0 DEF CachedSnapshotFresh, FreshOrFlagged, clientVars
<1>3. CASE /\ routerUp /\ Len(bus) < BusCapacity /\ bus' = Append(bus, req)
           /\ wpc' = [wpc EXCEPT ![w] = waitPc]
           /\ UNCHANGED <<outcome, widx, wsnap, wsince>>
  <2>1. InstantsBehindClock'
    BY <1>0, <1>3 DEF InstantsBehindClock, clientVars
  <2>2. RequestsMatchWorkers'
    BY <1>0, <1>3, MatchAppend DEF TypeOK
  <2>3. BuildFresh'
    <3>1. reply[w].status # "ok"
      BY <1>1 DEF NoReply
    <3>2. QED
      BY <1>0, <1>1, <1>3, <3>1 DEF BuildFresh, FreshOrFlagged, clientVars, TypeOK
  <2>4. QED
    BY <1>2, <2>1, <2>2, <2>3 DEF IInv
<1>4. ASSUME NEW why, Fail(w, why), UNCHANGED bus
      PROVE  IInv'
  <2>1. /\ wpc'[w] = "idle" /\ wsince'[w] = 0
        /\ \A v \in Workers \ {w} : /\ wpc'[v] = wpc[v] /\ widx'[v] = widx[v]
                                    /\ wsnap'[v] = wsnap[v] /\ wsince'[v] = wsince[v]
    BY <1>0, <1>4 DEF Fail, ClearLocals, TypeOK
  <2>2. InstantsBehindClock'
    <3>1. UNCHANGED <<clock, reflectors, cache>> /\ clock \in Nat
      BY <1>0 DEF clientVars, TypeOK, ClientTypeOK
    <3>2. QED
      BY <1>0, <2>1, <3>1 DEF InstantsBehindClock
  <2>3. RequestsMatchWorkers'
    BY <1>0, <1>1, <1>4, <2>1, NoRequestFrom, MatchLocal
  <2>4. BuildFresh'
    BY <1>0, <2>1, BuildFreshLocal DEF clientVars
  <2>5. QED
    BY <1>2, <2>2, <2>3, <2>4 DEF IInv
<1>5. QED
  BY <1>3, <1>4 DEF TrySend

(* get_all_resources_by_type and has_resource_changed_since send a request.*)
LEMMA SendKeeps ==
    ASSUME IInv, TInv', NEW w \in Workers, SendCheck(w) \/ SendList(w)
    PROVE  IInv'
<1>0. TypeOK /\ CheckHasCache
  BY DEF IInv, TInv
<1>1. Res(widx[w]) \in Kinds
  BY <1>0, ResKind DEF TypeOK
<1>2. CASE SendCheck(w)
  <2>1. cache[w] \in [snap : Snapshot, since : Nat]
    BY <1>0, <1>2 DEF SendCheck, CheckHasCache, TypeOK
  <2>2. [from |-> w, verb |-> "changed", kind |-> Res(widx[w]), since |-> cache[w].since]
          \in Request
    BY <1>1, <2>1 DEF Request
  <2>3. QED
    BY <1>2, <2>2, TrySendKeeps DEF SendCheck
<1>3. CASE SendList(w)
  <2>1. [from |-> w, verb |-> "list", kind |-> Res(widx[w]), since |-> 0] \in Request
    BY <1>1 DEF Request
  <2>2. QED
    BY <1>3, <2>1, TrySendKeeps DEF SendList
<1>4. QED
  BY <1>2, <1>3

(* A step of one worker that reads its answer (if any), queues nothing,   *)
(* keeps its cache and starts no partial build keeps the invariant.        *)
LEMMA LocalKeeps ==
    ASSUME IInv, TInv', NEW w \in Workers,
           UNCHANGED <<clientVars, bus, routerUp, cache>>,
           reply' = [reply EXCEPT ![w] = NoReply],
           wpc[w] \notin {"wait_check", "wait_list"} \/ reply[w] # NoReply,
           \A v \in Workers \ {w} : /\ wpc'[v] = wpc[v] /\ widx'[v] = widx[v]
                                    /\ wsnap'[v] = wsnap[v] /\ wsince'[v] = wsince[v],
           \/ wpc'[w] \in {"idle", "check", "eval"}
           \/ wpc'[w] = "list" /\ widx'[w] = 1,
           wsince'[w] <= clock
    PROVE  IInv'
<1>0. TypeOK /\ InstantsBehindClock /\ RequestsMatchWorkers /\ BuildFresh
      /\ CachedSnapshotFresh
  BY DEF IInv, TInv
<1>1. UNCHANGED <<clock, reflectors, cache>>
  BY DEF clientVars
<1>2. reply'[w] = NoReply /\ \A v \in Workers \ {w} : reply'[v] = reply[v]
  BY <1>0 DEF TypeOK
<1>3. InstantsBehindClock'
  BY <1>0, <1>1 DEF InstantsBehindClock
<1>4. RequestsMatchWorkers'
  <2>1. \A i \in 1..Len(bus) : bus[i].from # w
    BY <1>0, NoRequestFrom
  <2>2. QED
    BY <1>0, <1>2, <2>1, MatchLocal
<1>5. BuildFresh'
  <2>1. wpc'[w] \in {"list", "wait_list"} =>
          \A i \in 1..(widx'[w] - 1) : FreshOrFlagged(wsnap'[w][Res(i)], wsince'[w], Res(i))
    OBVIOUS
  <2>2. QED
    BY <1>0, <1>1, <1>2, <2>1, BuildFreshLocal
<1>6. CachedSnapshotFresh'
  BY <1>0, <1>1 DEF CachedSnapshotFresh, FreshOrFlagged
<1>7. QED
  BY <1>3, <1>4, <1>5, <1>6 DEF IInv

(* blocking_recv of a change answer: rebuild, evaluate, or check the next. *)
LEMMA RecvCheckKeeps ==
    ASSUME IInv, TInv', NEW w \in Workers, RecvCheck(w)
    PROVE  IInv'
<1>0. TypeOK /\ InstantsBehindClock
  BY DEF IInv, TInv
<1>1. /\ UNCHANGED <<clientVars, bus, routerUp, cache>>
      /\ reply' = [reply EXCEPT ![w] = NoReply]
      /\ reply[w] # NoReply
  BY DEF RecvCheck
<1>2. clock \in Nat /\ wsince[w] <= clock
  BY <1>0 DEF TypeOK, ClientTypeOK, InstantsBehindClock
<1>3. CASE RecvFails(w)
  <2>1. PICK why : Fail(w, why)
    BY <1>3 DEF RecvFails
  <2>2. /\ wpc'[w] = "idle" /\ wsince'[w] = 0
        /\ \A v \in Workers \ {w} : /\ wpc'[v] = wpc[v] /\ widx'[v] = widx[v]
                                    /\ wsnap'[v] = wsnap[v] /\ wsince'[v] = wsince[v]
    BY <1>0, <2>1 DEF Fail, ClearLocals, TypeOK
  <2>3. wsince'[w] <= clock /\ wpc'[w] \in {"idle", "check", "eval"}
    BY <1>2, <2>2
  <2>4. QED
    BY <1>1, <2>2, <2>3, LocalKeeps
<1>4. CASE BeginBuild(w) /\ UNCHANGED wsnap
  <2>1. /\ wpc'[w] = "list" /\ widx'[w] = 1 /\ wsince'[w] = clock
        /\ \A v \in Workers \ {w} : /\ wpc'[v] = wpc[v] /\ widx'[v] = widx[v]
                                    /\ wsnap'[v] = wsnap[v] /\ wsince'[v] = wsince[v]
    BY <1>0, <1>4 DEF BeginBuild, TypeOK
  <2>2. wsince'[w] <= clock
    BY <1>2, <2>1
  <2>3. QED
    BY <1>1, <2>1, <2>2, LocalKeeps
<1>5. CASE /\ wpc' = [wpc EXCEPT ![w] = "eval"]
           /\ wsnap' = [wsnap EXCEPT ![w] = cache[w].snap]
           /\ UNCHANGED <<widx, wsince>>
  <2>1. /\ wpc'[w] = "eval"
        /\ \A v \in Workers \ {w} : /\ wpc'[v] = wpc[v] /\ widx'[v] = widx[v]
                                    /\ wsnap'[v] = wsnap[v] /\ wsince'[v] = wsince[v]
    BY <1>0, <1>5 DEF TypeOK
  <2>2. QED
    BY <1>1, <1>2, <1>5, <2>1, LocalKeeps
<1>6. CASE /\ wpc' = [wpc EXCEPT ![w] = "check"]
           /\ widx' = [widx EXCEPT ![w] = @ + 1]
           /\ UNCHANGED <<wsnap, wsince>>
  <2>1. /\ wpc'[w] = "check"
        /\ \A v \in Workers \ {w} : /\ wpc'[v] = wpc[v] /\ widx'[v] = widx[v]
                                    /\ wsnap'[v] = wsnap[v] /\ wsince'[v] = wsince[v]
    BY <1>0, <1>6 DEF TypeOK
  <2>2. QED
    BY <1>1, <1>2, <1>6, <2>1, LocalKeeps
<1>7. QED
  BY <1>3, <1>4, <1>5, <1>6 DEF RecvCheck

(* The evaluation returns; its locals go out of scope.                     *)
LEMMA EvaluateKeeps ==
    ASSUME IInv, TInv', NEW w \in Workers, Evaluate(w)
    PROVE  IInv'
<1>0. TypeOK /\ InstantsBehindClock /\ RequestsMatchWorkers
  BY DEF IInv, TInv
<1>1. /\ UNCHANGED <<clientVars, bus, routerUp, reply, cache>>
      /\ wpc[w] = "eval" /\ wpc' = [wpc EXCEPT ![w] = "idle"] /\ ClearLocals(w)
  BY DEF Evaluate
<1>2. reply[w] = NoReply
  BY <1>0, <1>1 DEF RequestsMatchWorkers
<1>3. reply' = [reply EXCEPT ![w] = NoReply]
  BY <1>0, <1>1, <1>2 DEF TypeOK
<1>4. /\ wpc'[w] = "idle" /\ wsince'[w] = 0
      /\ \A v \in Workers \ {w} : /\ wpc'[v] = wpc[v] /\ widx'[v] = widx[v]
                                  /\ wsnap'[v] = wsnap[v] /\ wsince'[v] = wsince[v]
  BY <1>0, <1>1 DEF ClearLocals, TypeOK
<1>5. clock \in Nat
  BY <1>0 DEF TypeOK, ClientTypeOK
<1>6. wsince'[w] <= clock /\ wpc'[w] \in {"idle", "check", "eval"}
      /\ wpc[w] \notin {"wait_check", "wait_list"}
  BY <1>1, <1>4, <1>5
<1>7. QED
  BY <1>1, <1>3, <1>4, <1>6, LocalKeeps

(* blocking_recv of a list answer: record it in the snapshot, and at the  *)
(* last resource keep the snapshot with the instant its build began.       *)
LEMMA RecvListKeeps ==
    ASSUME IInv, TInv', NEW w \in Workers, RecvList(w)
    PROVE  IInv'
<1>0. TypeOK /\ InstantsBehindClock /\ RequestsMatchWorkers /\ BuildFresh
      /\ CachedSnapshotFresh
  BY DEF IInv, TInv
<1>1. /\ UNCHANGED <<clientVars, bus, routerUp>>
      /\ reply' = [reply EXCEPT ![w] = NoReply]
      /\ reply[w] # NoReply /\ wpc[w] = "wait_list"
  BY DEF RecvList
<1>2. clock \in Nat /\ wsince[w] \in Nat /\ wsince[w] <= clock /\ widx[w] \in 1..NRes
  BY <1>0 DEF TypeOK, ClientTypeOK, InstantsBehindClock
<1>3. CASE RecvFails(w) /\ UNCHANGED cache
  <2>1. PICK why : Fail(w, why)
    BY <1>3 DEF RecvFails
  <2>2. /\ wpc'[w] = "idle" /\ wsince'[w] = 0
        /\ \A v \in Workers \ {w} : /\ wpc'[v] = wpc[v] /\ widx'[v] = widx[v]
                                    /\ wsnap'[v] = wsnap[v] /\ wsince'[v] = wsince[v]
    BY <1>0, <2>1 DEF Fail, ClearLocals, TypeOK
  <2>3. wsince'[w] <= clock /\ wpc'[w] \in {"idle", "check", "eval"}
    BY <1>2, <2>2
  <2>4. QED
    BY <1>1, <1>3, <2>2, <2>3, LocalKeeps
<1>4. CASE /\ reply[w].status = "ok"
           /\ wsnap' = [wsnap EXCEPT ![w][Res(widx[w])] = reply[w].num]
           /\ IF widx[w] = NRes
                 THEN /\ wpc' = [wpc EXCEPT ![w] = "eval"]
                      /\ cache' = [cache EXCEPT ![w] = [snap |-> wsnap'[w],
                                                       since |-> wsince[w]]]
                      /\ UNCHANGED widx
                 ELSE /\ wpc' = [wpc EXCEPT ![w] = "list"]
                      /\ widx' = [widx EXCEPT ![w] = @ + 1]
                      /\ UNCHANGED cache
           /\ UNCHANGED <<outcome, wsince>>
  <2>1. \A i \in 1..widx[w] : FreshOrFlagged(wsnap'[w][Res(i)], wsince[w], Res(i))
    <3> SUFFICES ASSUME NEW i \in 1..widx[w]
                 PROVE  FreshOrFlagged(wsnap'[w][Res(i)], wsince[w], Res(i))
      OBVIOUS
    <3>1. wsnap[w] \in [Kinds -> 0..MaxChanges] /\ Res(i) \in Kinds /\ Res(widx[w]) \in Kinds
      BY <1>0, <1>2, ResKind DEF TypeOK, Snapshot, NRes
    <3>2. wsnap'[w] = [wsnap[w] EXCEPT ![Res(widx[w])] = reply[w].num]
      BY <1>0, <1>4 DEF TypeOK
    <3>3. CASE i = widx[w]
      <4>1. wsnap'[w][Res(i)] = reply[w].num
        BY <3>1, <3>2, <3>3
      <4>2. QED
        BY <1>0, <1>1, <1>4, <3>3, <4>1 DEF BuildFresh
    <3>4. CASE i # widx[w]
      <4>0. i \in 1..NRes /\ widx[w] \in 1..NRes
        BY <1>2 DEF NRes
      <4>1. Res(i) # Res(widx[w])
        BY <3>4, <4>0, ContextAwareAssumption DEF Res, NRes
      <4>2. wsnap'[w][Res(i)] = wsnap[w][Res(i)]
        BY <3>1, <3>2, <4>1
      <4>3. i \in 1..(widx[w] - 1)
        BY <1>2, <3>4
      <4>4. QED
        BY <1>0, <1>1, <4>2, <4>3 DEF BuildFresh
    <3>5. QED
      BY <3>3, <3>4
  <2>2. \A v \in Workers \ {w} : /\ wsnap'[v] = wsnap[v] /\ wsince'[v] = wsince[v]
                                 /\ reply'[v] = reply[v]
    BY <1>0, <1>1, <1>4 DEF TypeOK
  <2>3. \A i \in 1..Len(bus) : bus[i].from # w
    BY <1>0, <1>1, NoRequestFrom
  <2>4. CASE widx[w] = NRes
    <3>1. /\ wpc' = [wpc EXCEPT ![w] = "eval"]
          /\ cache' = [cache EXCEPT ![w] = [snap |-> wsnap'[w], since |-> wsince[w]]]
          /\ UNCHANGED widx
      BY <1>4, <2>4
    <3>2. /\ wpc'[w] = "eval" /\ \A v \in Workers \ {w} : wpc'[v] = wpc[v]
          /\ cache'[w] = [snap |-> wsnap'[w], since |-> wsince[w]]
          /\ \A v \in Workers \ {w} : cache'[v] = cache[v]
      BY <1>0, <3>1 DEF TypeOK
    <3>3. InstantsBehindClock'
      BY <1>0, <1>1, <1>2, <1>4, <3>2 DEF InstantsBehindClock, clientVars
    <3>4. RequestsMatchWorkers'
      BY <1>0, <1>1, <2>2, <2>3, <3>1, <3>2, MatchLocal DEF TypeOK
    <3>5. BuildFresh'
      BY <1>0, <1>1, <2>2, <3>1, <3>2, BuildFreshLocal DEF clientVars
    <3>6. CachedSnapshotFresh'
      <4>1. \A i \in 1..NRes : FreshOrFlagged(cache'[w].snap[Res(i)], cache'[w].since, Res(i))
        BY <2>1, <2>4, <3>2
      <4>2. QED
        BY <1>0, <1>1, <3>2, <4>1, CacheFreshLocal DEF clientVars
    <3>7. QED
      BY <3>3, <3>4, <3>5, <3>6 DEF IInv
  <2>5. CASE widx[w] # NRes
    <3>1. /\ wpc' = [wpc EXCEPT ![w] = "list"]
          /\ widx' = [widx EXCEPT ![w] = @ + 1]
          /\ UNCHANGED cache
      BY <1>4, <2>5
    <3>2. /\ wpc'[w] = "list" /\ widx'[w] = widx[w] + 1
          /\ \A v \in Workers \ {w} : wpc'[v] = wpc[v] /\ widx'[v] = widx[v]
      BY <1>0, <3>1 DEF TypeOK
    <3>3. InstantsBehindClock'
      BY <1>0, <1>1, <1>4, <3>1 DEF InstantsBehindClock, clientVars
    <3>4. RequestsMatchWorkers'
      BY <1>0, <1>1, <2>2, <2>3, <3>2, MatchLocal DEF TypeOK
    <3>5. BuildFresh'
      <4>1. \A i \in 1..(widx'[w] - 1) : FreshOrFlagged(wsnap'[w][Res(i)], wsince'[w], Res(i))
        BY <1>2, <1>4, <2>1, <3>2
      <4>2. QED
        BY <1>0, <1>1, <2>2, <3>2, <4>1, BuildFreshLocal DEF clientVars
    <3>6. CachedSnapshotFresh'
      BY <1>0, <1>1, <3>1 DEF CachedSnapshotFresh, FreshOrFlagged, clientVars
    <3>7. QED
      BY <3>3, <3>4, <3>5, <3>6 DEF IInv
  <2>6. QED
    BY <2>4, <2>5
<1>5. QED
  BY <1>3, <1>4 DEF RecvList

(* The router handles the request at the head of the bus and answers it.  *)
LEMMA RouterHandleKeeps ==
    ASSUME IInv, TInv', RouterHandle
    PROVE  IInv'
<1>0. TypeOK /\ InstantsBehindClock /\ RequestsMatchWorkers /\ BuildFresh
      /\ CachedSnapshotFresh
  BY DEF IInv, TInv
<1> DEFINE req == Head(bus)
<1>1. bus # <<>> /\ bus \in Seq(Request) /\ req \in Request /\ req = bus[1]
  BY <1>0, HeadTailProperties DEF RouterHandle, TypeOK
<1>2. PICK res \in Results :
        /\ \/ /\ req.verb = "list"
              /\ ListResourcesAll(req.kind, res)
           \/ /\ req.verb = "changed"
              /\ HasListResourcesAllResultChangedSinceInstant(req.kind, req.since, res)
        /\ reply' = [reply EXCEPT ![req.from] = res]
  BY Zenon DEF RouterHandle
<1>3. /\ bus' = Tail(bus)
      /\ UNCHANGED <<routerUp, wpc, widx, wsnap, wsince, cache, outcome>>
  BY DEF RouterHandle
<1>4. req.kind \in Kinds /\ req.from \in Workers
  BY <1>1 DEF Request
<1>5. /\ UNCHANGED clock
      /\ \/ reflectors' = reflectors
         \/ /\ reflectors[req.kind] = NoReflector
            /\ reflectors' = [reflectors EXCEPT ![req.kind] = NewReflector(req.kind)]
  BY <1>2, ClientCallEffect, ClientReflectorsGrow
<1>6. ReflectorsMonotone
  BY <1>0, StepMonotone DEF RouterHandle, Next
<1>7. CacheFreshIn(reflectors') /\ BuildFreshIn(reflectors')
  BY <1>0, <1>6, FreshUnderMonotone, FreshBridge
<1>8. InstantsBehindClock'
  <2>1. CASE reflectors' = reflectors
    BY <1>0, <1>3, <1>5, <2>1 DEF InstantsBehindClock
  <2>2. CASE reflectors[req.kind] = NoReflector
             /\ reflectors' = [reflectors EXCEPT ![req.kind] = NewReflector(req.kind)]
    <3>1. NewReflector(req.kind).lastChange = clock /\ NewReflector(req.kind) # NoReflector
      BY DEF NewReflector, NoReflector
    <3>2. QED
      BY <1>0, <1>3, <1>4, <1>5, <2>2, <3>1 DEF InstantsBehindClock, TypeOK, ClientTypeOK
  <2>3. QED
    BY <1>5, <2>1, <2>2
<1>9. RequestsMatchWorkers'
  BY <1>0, <1>1, <1>2, <1>3, MatchTail
<1>10. CachedSnapshotFresh'
  BY <1>3, <1>7 DEF CachedSnapshotFresh, FreshOrFlagged, CacheFreshIn, FreshIn
<1>11. BuildFresh'
  <2> SUFFICES ASSUME NEW v \in Workers
               PROVE  /\ wpc[v] \in {"list", "wait_list"} =>
                           \A i \in 1..(widx[v] - 1) :
                              FreshIn(reflectors', wsnap[v][Res(i)], wsince[v], Res(i))
                      /\ (wpc[v] = "wait_list" /\ reply'[v].status = "ok") =>
                           FreshIn(reflectors', reply'[v].num, wsince[v], Res(widx[v]))
    BY <1>3 DEF BuildFresh, FreshOrFlagged, FreshIn
  <2>1. wpc[v] \in {"list", "wait_list"} =>
          \A i \in 1..(widx[v] - 1) : FreshIn(reflectors', wsnap[v][Res(i)], wsince[v], Res(i))
    BY <1>7 DEF BuildFreshIn
  <2>2. CASE v # req.from
    <3>1. reply'[v] = reply[v]
      BY <1>0, <1>2, <2>2 DEF TypeOK
    <3>2. QED
      BY <1>7, <2>1, <3>1 DEF BuildFreshIn
  <2>3. CASE v = req.from
    <3>1. reply'[v] = res
      BY <1>0, <1>2, <1>4, <2>3 DEF TypeOK
    <3>2. req.kind = Res(widx[v])
          /\ (req.verb = "list" <=> wpc[v] = "wait_list")
      BY <1>0, <1>1, <2>3 DEF RequestsMatchWorkers, TypeOK
    <3>3. ASSUME wpc[v] = "wait_list", res.status = "ok"
          PROVE  FreshIn(reflectors', res.num, wsince[v], Res(widx[v]))
      <4>1. ListResourcesAll(req.kind, res)
        BY <1>2, <3>2, <3>3
      <4>2. reflectors'[req.kind] # NoReflector /\ reflectors'[req.kind].store = res.num
        BY <1>0, <1>4, <3>3, <4>1, ListReplyCurrent DEF TypeOK
      <4>3. QED
        BY <3>2, <4>2 DEF FreshIn
    <3>4. QED
      BY <2>1, <3>1, <3>3
  <2>4. QED
    BY <2>2, <2>3
<1>12. QED
  BY <1>8, <1>9, <1>10, <1>11 DEF IInv

(* The router stops: the bus is dropped and the queued requests' senders  *)
(* see their reply channel closed.                                         *)
LEMMA ShutdownKeeps ==
    ASSUME IInv, TInv', Shutdown
    PROVE  IInv'
<1>0. TypeOK /\ InstantsBehindClock /\ RequestsMatchWorkers /\ BuildFresh
      /\ CachedSnapshotFresh
  BY DEF IInv, TInv
<1>1. /\ UNCHANGED <<clientVars, wpc, widx, wsnap, wsince, cache, outcome>>
      /\ bus' = <<>>
      /\ \A w \in Workers : reply'[w] \in {Closed, reply[w]}
  BY DEF Shutdown
<1>2. \A w \in Workers : wpc[w] \notin {"wait_check", "wait_list"} => reply'[w] = NoReply
  <2> SUFFICES ASSUME NEW w \in Workers, wpc[w] \notin {"wait_check", "wait_list"}
               PROVE  reply'[w] = NoReply
    OBVIOUS
  <2>1. ~\E i \in 1..Len(bus) : bus[i].from = w
    BY <1>0, NoRequestFrom
  <2>2. reply[w] = NoReply
    BY <1>0 DEF RequestsMatchWorkers
  <2>3. QED
    BY <2>1, <2>2 DEF Shutdown
<1>3. RequestsMatchWorkers'
  BY <1>1, <1>2, EmptySeq DEF RequestsMatchWorkers
<1>4. \A w \in Workers : reply'[w].status = "ok" => reply'[w] = reply[w]
  BY <1>1 DEF Closed
<1>5. BuildFresh'
  BY <1>0, <1>1, <1>4 DEF BuildFresh, FreshOrFlagged, clientVars
<1>6. InstantsBehindClock' /\ CachedSnapshotFresh'
  BY <1>0, <1>1 DEF InstantsBehindClock, CachedSnapshotFresh, FreshOrFlagged, clientVars
<1>7. QED
  BY <1>3, <1>5, <1>6 DEF IInv

(* The API server and the watch tasks: the workers' state is untouched.    *)
LEMMA EnvironmentKeeps ==
    ASSUME IInv, TInv', NEW k \in Kinds, Environment(k)
    PROVE  IInv'
<1>0. TypeOK /\ InstantsBehindClock /\ RequestsMatchWorkers /\ BuildFresh
      /\ CachedSnapshotFresh
  BY DEF IInv, TInv
<1>1. UNCHANGED evalVars
  BY DEF Environment
<1>2. ReflectorsMonotone /\ clock <= clock' /\ clock' \in Nat
  BY <1>0, StepMonotone DEF Next
<1>3. CacheFreshIn(reflectors') /\ BuildFreshIn(reflectors')
  BY <1>0, <1>2, FreshUnderMonotone, FreshBridge
<1>4. CachedSnapshotFresh' /\ BuildFresh'
  BY <1>1, <1>3 DEF evalVars, CachedSnapshotFresh, BuildFresh, FreshOrFlagged,
                    CacheFreshIn, BuildFreshIn, FreshIn
<1>5. RequestsMatchWorkers'
  BY <1>0, <1>1 DEF evalVars, RequestsMatchWorkers
<1>6. \A k0 \in Kinds : reflectors'[k0] # NoReflector => reflectors'[k0].lastChange <= clock'
  <2>1. CASE ClusterChange(k)
    BY <1>0, <2>1 DEF ClusterChange, InstantsBehindClock
  <2>2. CASE WatchApply(k)
    <3>1. reflectors' = [reflectors EXCEPT ![k] = AppliedDirty(reflectors[k])]
          /\ UNCHANGED clock /\ reflectors[k] # NoReflector
      BY <2>2 DEF WatchApply
    <3>2. AppliedDirty(reflectors[k]).lastChange = reflectors[k].lastChange
      BY DEF AppliedDirty
    <3>3. QED
      BY <1>0, <3>1, <3>2 DEF InstantsBehindClock, TypeOK, ClientTypeOK
  <2>3. CASE WatchStamp(k)
    <3>1. reflectors' = [reflectors EXCEPT ![k] = Stamped(reflectors[k], clock + 1)]
          /\ clock' = clock + 1
      BY <2>3 DEF WatchStamp
    <3>2. Stamped(reflectors[k], clock + 1).lastChange = clock + 1
      BY DEF Stamped
    <3>3. clock \in Nat
      BY <1>0 DEF TypeOK, ClientTypeOK
    <3>4. SUFFICES ASSUME NEW k0 \in Kinds, reflectors'[k0] # NoReflector
                   PROVE  reflectors'[k0].lastChange <= clock'
      OBVIOUS
    <3>5. CASE k0 = k
      BY <1>0, <3>1, <3>2, <3>3, <3>5 DEF TypeOK, ClientTypeOK
    <3>6. CASE k0 # k
      <4>1. reflectors'[k0] = reflectors[k0]
        BY <1>0, <3>1, <3>6 DEF TypeOK, ClientTypeOK
      <4>2. reflectors[k0].lastChange <= clock
        BY <3>4, <4>1, <1>0 DEF InstantsBehindClock
      <4>3. reflectors[k0].lastChange \in Nat
        BY <3>4, <4>1, <1>0 DEF TypeOK, ClientTypeOK, Reflector
      <4>4. QED
        BY <3>1, <3>3, <4>1, <4>2, <4>3
    <3>7. QED
      BY <3>5, <3>6
  <2>4. QED
    BY <2>1, <2>2, <2>3 DEF Environment
<1>7. InstantsBehindClock'
  <2>1. clock \in Nat
    BY <1>0 DEF TypeOK, ClientTypeOK
  <2>2. QED
    BY <1>0, <1>1, <1>2, <1>6, <2>1 DEF evalVars, InstantsBehindClock, TypeOK
<1>8. QED
  BY <1>4, <1>5, <1>7 DEF IInv

-----------------------------------------------------------------------------
(* The initial state satisfies the inductive invariant: no reflector, no   *)
(* request, no answer, no build and no kept snapshot yet.                  *)
LEMMA IInvInit == Init => IInv
<1> SUFFICES ASSUME Init PROVE IInv
  OBVIOUS
<1>1. TInv
  BY TInvInit
<1>2. InstantsBehindClock
  BY DEF Init, ClientInit, InstantsBehindClock
<1>3. RequestsMatchWorkers
  BY EmptySeq DEF Init, RequestsMatchWorkers
<1>4. BuildFresh /\ CachedSnapshotFresh
  BY DEF Init, BuildFresh, CachedSnapshotFresh
<1>5. QED
  BY <1>1, <1>2, <1>3, <1>4 DEF IInv

(* Every step keeps the inductive invariant.                               *)
LEMMA IInvStep == IInv /\ [Next]_vars => IInv'
<1> SUFFICES ASSUME IInv, [Next]_vars PROVE IInv'
  OBVIOUS
<1>1. TInv'
  BY TInvStep DEF IInv
<1>2. ASSUME NEW w \in Workers, StartEval(w) PROVE IInv'
  BY <1>1, <1>2, StartEvalKeeps
<1>3. ASSUME NEW w \in Workers, SendCheck(w) \/ SendList(w) PROVE IInv'
  BY <1>1, <1>3, SendKeeps
<1>4. ASSUME NEW w \in Workers, RecvCheck(w) PROVE IInv'
  BY <1>1, <1>4, RecvCheckKeeps
<1>5. ASSUME NEW w \in Workers, RecvList(w) PROVE IInv'
  BY <1>1, <1>5, RecvListKeeps
<1>6. ASSUME NEW w \in Workers, Evaluate(w) PROVE IInv'
  BY <1>1, <1>6, EvaluateKeeps
<1>7. CASE RouterHandle
  BY <1>1, <1>7, RouterHandleKeeps
<1>8. CASE Shutdown
  BY <1>1, <1>8, ShutdownKeeps
<1>9. ASSUME NEW k \in Kinds, Environment(k) PROVE IInv'
  BY <1>1, <1>9, EnvironmentKeeps
<1>10. CASE UNCHANGED vars
  BY <1>10 DEF vars, clientVars, evalVars, IInv, TInv, TypeOK, ClientTypeOK, CheckHasCache,
               InstantsBehindClock, RequestsMatchWorkers, BuildFresh, CachedSnapshotFresh,
               FreshOrFlagged
<1>11. QED
  BY <1>2, <1>3, <1>4, <1>5, <1>6, <1>7, <1>8, <1>9, <1>10 DEF Next, WorkerStep

(* Snapshot reuse is sound: in every reachable state, every snapshot a    *)
(* worker keeps for reuse after an all-"false" change check holds, for    *)
(* every allowed resource, either what that resource's reflector holds or *)
(* a change the reflector's last_change_seen_at (or a pending stamp)      *)
(* reports (have_allowed_resources_changed_since_instant).                 *)
THEOREM SnapshotReuseSound == Spec => []CachedSnapshotFresh
<1>1. Init => IInv
  BY IInvInit
<1>2. IInv /\ [Next]_vars => IInv'
  BY IInvStep
<1>3. IInv => CachedSnapshotFresh
  BY DEF IInv
<1>4. QED
  BY <1>1, <1>2, <1>3, PTL DEF Spec

=============================================================================
