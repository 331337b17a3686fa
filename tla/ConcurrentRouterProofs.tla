----------------------- MODULE ConcurrentRouterProofs -----------------------
(***************************************************************************)
(* Type correctness of the spawning router, for every set of kinds,        *)
(* workers, allowed resources and bus capacity.  The worker, shutdown and  *)
(* environment steps are steps of ContextAwareEval and keep its type       *)
(* invariant TInv by TInvStep; the task steps need one more fact: a task   *)
(* that is about to insert holds the reflector it created.                 *)
(***************************************************************************)
EXTENDS ConcurrentRouter, ContextAwareEvalProofs

USE KubeClientAssumption, ContextAwareAssumption

(* A task at the insert step holds a reflector, never the NoReflector     *)
(* placeholder: get_reflector_reader inserts what create_and_run built.   *)
InsertHoldsReflector ==
    \A w \in Workers : tpc[w] = "insert" => tref[w] \in Reflector

TaskInv == TaskTypeOK /\ CheckHasCache /\ InsertHoldsReflector

(* The task variables' types, apart from TypeOK.                           *)
TaskVarsTyped ==
    /\ tpc \in [Workers -> {"none", "run", "create", "insert"}]
    /\ treq \in [Workers -> Request]
    /\ tref \in [Workers -> Reflector \cup {NoReflector}]
    /\ lastStamp \in [Kinds -> Nat]

LEMMA TaskInvInit == TaskInit => TaskInv
<1> SUFFICES ASSUME TaskInit PROVE TaskInv
  OBVIOUS
<1>1. TInv
  BY TInvInit DEF TaskInit
<1>2. ASSUME NEW w \in Workers PROVE NoRequest \in Request
  <2>1. AllowedResources[1] \in Kinds
    OBVIOUS
  <2>2. (CHOOSE v \in Workers : TRUE) \in Workers /\ (CHOOSE k \in Kinds : TRUE) \in Kinds
    BY <2>1
  <2>3. QED
    BY <2>2 DEF NoRequest, Request
<1>3. QED
  BY <1>1, <1>2 DEF TaskInit, TaskInv, TaskTypeOK, TInv, InsertHoldsReflector

(* A step of ContextAwareEval that leaves the task variables alone.        *)
LEMMA EvalStep ==
    ASSUME TaskInv, Next, UNCHANGED taskVars
    PROVE  TaskInv'
<1>1. TInv'
  BY TInvStep DEF TaskInv, TaskTypeOK, TInv
<1>2. QED
  BY <1>1 DEF TaskInv, TaskTypeOK, TInv, InsertHoldsReflector, taskVars

(* A task's answer: its reply is a result, and it holds nothing.           *)
LEMMA AnswerTyped ==
    ASSUME TaskInv, NEW w \in Workers, NEW res \in Results, Answer(w, res)
    PROVE  /\ reply' \in [Workers -> Results \cup {NoReply, Closed}]
           /\ tpc' \in [Workers -> {"none", "run", "create", "insert"}]
           /\ tref' \in [Workers -> Reflector \cup {NoReflector}]
           /\ \A v \in Workers : tpc'[v] = "insert" => tref'[v] \in Reflector
BY DEF Answer, TaskInv, TaskTypeOK, TypeOK, InsertHoldsReflector

(* The router hands the request at the head of the bus to a new task.     *)
LEMMA RouterSpawnStep == TaskInv /\ RouterSpawn => TaskInv'
<1> SUFFICES ASSUME TaskInv, RouterSpawn PROVE TaskInv'
  OBVIOUS
<1>1. bus \in Seq(Request) /\ bus # <<>> /\ Len(bus) <= BusCapacity
  BY DEF RouterSpawn, TaskInv, TaskTypeOK, TypeOK
<1>2. Head(bus) \in Request /\ Head(bus).from \in Workers
  <2>1. Head(bus) = bus[1] /\ 1 \in 1..Len(bus)
    BY <1>1
  <2>2. Head(bus) \in Request
    BY <1>1, <2>1
  <2>3. QED
    BY <2>2 DEF Request
<1>3. bus' \in Seq(Request) /\ Len(bus') <= BusCapacity
  BY <1>1 DEF RouterSpawn
<1>4. TaskVarsTyped'
  BY <1>2 DEF RouterSpawn, TaskInv, TaskTypeOK, TaskVarsTyped
<1>5. InsertHoldsReflector'
  BY <1>2 DEF RouterSpawn, TaskInv, InsertHoldsReflector
<1>6. QED
  BY <1>3, <1>4, <1>5 DEF RouterSpawn, TaskInv, TaskTypeOK, TaskVarsTyped, TypeOK,
                          ClientTypeOK, clientVars, CheckHasCache

(* The read-locked step: a change query, a failed or served list, or a    *)
(* miss that goes on to create the reflector.                              *)
LEMMA TaskRunStep ==
    ASSUME TaskInv, NEW w \in Workers, TaskRun(w)
    PROVE  TaskInv'
<1> DEFINE req == treq[w]
           k == req.kind
<1>1. req \in Request /\ k \in Kinds /\ req.since \in Nat
  BY DEF TaskInv, TaskTypeOK, Request
<1>2. UNCHANGED <<bus, routerUp, wpc, widx, wsnap, wsince, cache, outcome, treq, lastStamp>>
  BY DEF TaskRun
<1>3. ClientTypeOK
  BY DEF TaskInv, TaskTypeOK, TypeOK
<1>4. CASE req.verb = "changed"
  <2>1. PICK res \in Results :
            HasListResourcesAllResultChangedSinceInstant(k, req.since, res) /\ Answer(w, res)
    BY <1>4 DEF TaskRun
  <2>2. ClientTypeOK'
    BY <1>1, <1>3, <2>1, ClientStepsTyped
  <2>3. QED
    BY <1>2, <2>1, <2>2, AnswerTyped DEF TaskInv, TaskTypeOK, TypeOK, CheckHasCache,
                                       InsertHoldsReflector
<1>5. CASE req.verb = "list"
  <2>1. kubeResources' \subseteq Kinds
    BY <1>1, <1>3, <1>5 DEF TaskRun, BuildKubeResource, BuildKubeResourceFails, ClientTypeOK
  <2>2. UNCHANGED <<cluster, clock, reflectors>>
    BY <1>5 DEF TaskRun
  <2>3. ClientTypeOK'
    BY <1>3, <2>1, <2>2 DEF ClientTypeOK
  <2>4. CASE reflectors[k] # NoReflector
    <3>1. reflectors[k] \in Reflector
      BY <1>1, <1>3, <2>4 DEF ClientTypeOK
    <3>2. ListOk(reflectors[k].store) \in Results /\ Err \in Results
      BY <3>1 DEF ListOk, Err, Results, Reflector
    <3>3. \E res \in Results : Answer(w, res)
      BY <1>5, <2>4, <3>2 DEF TaskRun
    <3>4. QED
      BY <1>2, <2>3, <3>3, AnswerTyped DEF TaskInv, TaskTypeOK, TypeOK, CheckHasCache,
                                         InsertHoldsReflector
  <2>5. CASE reflectors[k] = NoReflector
    <3>1. Err \in Results
      BY DEF Err, Results
    <3>2. CASE \E res \in Results : Answer(w, res)
      BY <1>2, <2>3, <3>2, AnswerTyped DEF TaskInv, TaskTypeOK, TypeOK, CheckHasCache,
                                         InsertHoldsReflector
    <3>3. CASE tpc' = [tpc EXCEPT ![w] = "create"] /\ UNCHANGED <<reply, tref>>
      BY <1>2, <2>3, <3>3 DEF TaskInv, TaskTypeOK, TypeOK, CheckHasCache,
                               InsertHoldsReflector
    <3>4. QED
      BY <1>5, <2>5, <3>1, <3>2, <3>3 DEF TaskRun
  <2>6. QED
    BY <2>4, <2>5
<1>6. QED
  BY <1>1, <1>4, <1>5 DEF Request

(* Reflector::create_and_run builds a reflector of the current cluster    *)
(* state, or fails.                                                        *)
LEMMA TaskCreateStep ==
    ASSUME TaskInv, NEW w \in Workers, TaskCreate(w)
    PROVE  TaskInv'
<1>1. treq[w].kind \in Kinds
  BY DEF TaskInv, TaskTypeOK, Request
<1>2. NewReflector(treq[w].kind) \in Reflector /\ Err \in Results
  BY <1>1 DEF NewReflector, Reflector, TaskInv, TaskTypeOK, TypeOK, ClientTypeOK, Err, Results
<1>3. UNCHANGED <<clientVars, bus, routerUp, wpc, widx, wsnap, wsince, cache, outcome,
                  treq, lastStamp>>
  BY DEF TaskCreate
<1>4. CASE tpc' = [tpc EXCEPT ![w] = "insert"]
           /\ tref' = [tref EXCEPT ![w] = NewReflector(treq[w].kind)]
           /\ UNCHANGED reply
  BY <1>2, <1>3, <1>4 DEF TaskInv, TaskTypeOK, TypeOK, ClientTypeOK, clientVars,
                          CheckHasCache, InsertHoldsReflector
<1>5. CASE Answer(w, Err)
  BY <1>2, <1>3, <1>5, AnswerTyped DEF TaskInv, TaskTypeOK, TypeOK, ClientTypeOK,
                                     clientVars, CheckHasCache, InsertHoldsReflector
<1>6. QED
  BY <1>4, <1>5 DEF TaskCreate

(* The write-locked insert of the task's reflector, and its answer.        *)
LEMMA TaskInsertStep ==
    ASSUME TaskInv, NEW w \in Workers, TaskInsert(w)
    PROVE  TaskInv'
<1>1. treq[w].kind \in Kinds /\ tref[w] \in Reflector
  BY DEF TaskInsert, TaskInv, TaskTypeOK, Request, InsertHoldsReflector
<1>2. ListOk(tref[w].store) \in Results
  BY <1>1 DEF ListOk, Results, Reflector
<1>3. reflectors' \in [Kinds -> Reflector \cup {NoReflector}]
  BY <1>1 DEF TaskInsert, TaskInv, TaskTypeOK, TypeOK, ClientTypeOK
<1>4. UNCHANGED <<cluster, clock, kubeResources, bus, routerUp, wpc, widx, wsnap,
                  wsince, cache, outcome, treq, lastStamp>>
  BY DEF TaskInsert
<1>5. QED
  BY <1>2, <1>3, <1>4, AnswerTyped DEF TaskInsert, TaskInv, TaskTypeOK, TypeOK,
                                     ClientTypeOK, CheckHasCache, InsertHoldsReflector

(* The watch task's stamp, recorded in the history variable.               *)
LEMMA StampRecordedStep ==
    ASSUME TaskInv, NEW k \in Kinds, StampRecorded(k)
    PROVE  TaskInv'
<1>1. TInv'
  <2>1. Next
    BY DEF StampRecorded, Next, Environment
  <2>2. QED
    BY <2>1, TInvStep DEF TaskInv, TaskTypeOK, TInv
<1>2. lastStamp' \in [Kinds -> Nat]
  BY DEF StampRecorded, TaskInv, TaskTypeOK, TypeOK, ClientTypeOK
<1>3. QED
  BY <1>1, <1>2 DEF StampRecorded, TaskInv, TaskTypeOK, TInv, InsertHoldsReflector

LEMMA TaskInvStep == TaskInv /\ [TaskNext]_allVars => TaskInv'
<1> SUFFICES ASSUME TaskInv, [TaskNext]_allVars PROVE TaskInv'
  OBVIOUS
<1>1. CASE \E w \in Workers : (StartEval(w) \/ WorkerStep(w)) /\ UNCHANGED taskVars
  BY <1>1, EvalStep DEF Next
<1>2. CASE Shutdown /\ UNCHANGED taskVars
  BY <1>2, EvalStep DEF Next
<1>3. CASE \E k \in Kinds : ClusterChange(k) /\ UNCHANGED <<evalVars, taskVars>>
  BY <1>3, EvalStep DEF Next, Environment
<1>4. CASE \E k \in Kinds : WatchApply(k) /\ UNCHANGED <<evalVars, taskVars>>
  BY <1>4, EvalStep DEF Next, Environment
<1>5. CASE \E k \in Kinds : StampRecorded(k)
  BY <1>5, StampRecordedStep
<1>6. CASE RouterSpawn
  BY <1>6, RouterSpawnStep
<1>7. CASE \E w \in Workers : TaskStep(w)
  BY <1>7, TaskRunStep, TaskCreateStep, TaskInsertStep DEF TaskStep
<1>8. CASE UNCHANGED allVars
  BY <1>8 DEF allVars, vars, taskVars, clientVars, evalVars, TaskInv, TaskTypeOK, TypeOK,
              ClientTypeOK, CheckHasCache, InsertHoldsReflector
<1>9. QED
  BY <1>1, <1>2, <1>3, <1>4, <1>5, <1>6, <1>7, <1>8 DEF TaskNext

(* Every reachable state of the spawning router is well typed; in         *)
(* particular the reflector map only ever holds reflectors that            *)
(* create_and_run built, whatever the tasks' interleaving.                 *)
THEOREM TaskTypeCorrect == TaskSpec => []TaskTypeOK
<1>1. TaskInv => TaskTypeOK
  BY DEF TaskInv
<1>2. QED
  BY <1>1, TaskInvInit, TaskInvStep, PTL DEF TaskSpec

=============================================================================
