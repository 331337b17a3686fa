-------------------------- MODULE ConcurrentRouter --------------------------
(***************************************************************************)
(* The context-aware evaluations of ContextAwareEval served by a router    *)
(* that spawns one task per Kubernetes request (spec 4.3: capability calls *)
(* may run concurrently), each task working on a clone of the Client.      *)
(* The clones share the reflector map (Arc<RwLock<HashMap>>), so the       *)
(* awaits inside Client::get_reflector_reader are interleaving points:     *)
(* the look-up under the read lock, Reflector::create_and_run, and the     *)
(* insert under the write lock are three steps of a task.                  *)
(*                                                                         *)
(* build_kube_resource stays one step: two tasks that both miss the        *)
(* discovery cache insert the same KubeResource, so its interleavings are  *)
(* not told apart.  A reflector a task has created is not watched until it *)
(* is inserted (its watch events would only make the task's answer newer). *)
(* lastStamp is a history variable: the latest instant any watch task of   *)
(* a kind stamped as last_change_seen_at.                                  *)
(***************************************************************************)
EXTENDS ContextAwareEval

(* The router was built with a kube::Client (without one every request    *)
(* fails at once, whichever task serves it: the no_client run).          *)
ASSUME ConcurrentRouterAssumption == ClientInitialized

VARIABLES
    tpc,        \* tpc[w]: where the task serving w's request is
    treq,       \* treq[w]: the request that task serves
    tref,       \* tref[w]: the reflector the task created and not yet inserted
    lastStamp   \* lastStamp[k]: the latest change instant stamped for kind k

taskVars == <<tpc, treq, tref, lastStamp>>
allVars == <<vars, taskVars>>

NoRequest == [from |-> CHOOSE w \in Workers : TRUE, verb |-> "list",
              kind |-> CHOOSE k \in Kinds : TRUE, since |-> 0]

TaskTypeOK ==
    /\ TypeOK
    /\ tpc \in [Workers -> {"none", "run", "create", "insert"}]
    /\ treq \in [Workers -> Request]
    /\ tref \in [Workers -> Reflector \cup {NoReflector}]
    /\ lastStamp \in [Kinds -> Nat]

TaskInit ==
    /\ Init
    /\ tpc = [w \in Workers |-> "none"]
    /\ treq = [w \in Workers |-> NoRequest]
    /\ tref = [w \in Workers |-> NoReflector]
    /\ lastStamp = [k \in Kinds |-> 0]

(* The task of w answers and ends.                                         *)
Answer(w, res) ==
    /\ reply' = [reply EXCEPT ![w] = res]
    /\ tpc' = [tpc EXCEPT ![w] = "none"]
    /\ tref' = [tref EXCEPT ![w] = NoReflector]

-----------------------------------------------------------------------------
(* The router takes the oldest request off the bus and spawns its task.   *)
RouterSpawn ==
    /\ routerUp
    /\ bus # <<>>
    /\ tpc' = [tpc EXCEPT ![Head(bus).from] = "run"]
    /\ treq' = [treq EXCEPT ![Head(bus).from] = Head(bus)]
    /\ bus' = Tail(bus)
    /\ UNCHANGED <<clientVars, routerUp, reply, wpc, widx, wsnap, wsince, cache,
                   outcome, tref, lastStamp>>

(* Mutant: a task that misses the reflector waits for another task to     *)
(* create it instead of creating it itself.                                *)
TaskRunWaits(w) ==
    LET req == treq[w]
        k == req.kind
    IN
    /\ tpc[w] = "run"
    /\ \/ /\ req.verb = "changed"
          /\ \E res \in Results :
                /\ HasListResourcesAllResultChangedSinceInstant(k, req.since, res)
                /\ Answer(w, res)
       \/ /\ req.verb = "list"
          /\ BuildKubeResourceFails(k)
          /\ Answer(w, Err)
          /\ UNCHANGED <<cluster, clock, reflectors>>
       \/ /\ req.verb = "list"
          /\ BuildKubeResource(k)
          /\ reflectors[k] # NoReflector
          /\ Answer(w, ListOk(reflectors[k].store))
          /\ UNCHANGED <<cluster, clock, reflectors>>
       \/ /\ req.verb = "list"
          /\ BuildKubeResource(k)
          /\ reflectors[k] = NoReflector
          /\ UNCHANGED <<cluster, clock, reflectors, reply, tref, tpc>>
    /\ UNCHANGED <<bus, routerUp, wpc, widx, wsnap, wsince, cache, outcome, treq, lastStamp>>

(* The task's first step: kubernetes::list_resources_all or               *)
(* has_list_resources_all_result_changed_since_instant up to the first    *)
(* await that another task can interleave with.  A change query reads the *)
(* reflector map under the read lock and answers; a list that finds its   *)
(* reflector answers from its store, and one that does not goes on to     *)
(* create it.                                                              *)
TaskRun(w) ==
    LET req == treq[w]
        k == req.kind
    IN
    /\ tpc[w] = "run"
    /\ \/ /\ req.verb = "changed"
          /\ \E res \in Results :
                /\ HasListResourcesAllResultChangedSinceInstant(k, req.since, res)
                /\ Answer(w, res)
       \/ /\ req.verb = "list"
          /\ BuildKubeResourceFails(k)
          /\ Answer(w, Err)
          /\ UNCHANGED <<cluster, clock, reflectors>>
       \/ /\ req.verb = "list"
          /\ BuildKubeResource(k)
          /\ reflectors[k] # NoReflector
          /\ Answer(w, ListOk(reflectors[k].store))
          /\ UNCHANGED <<cluster, clock, reflectors>>
       \/ /\ req.verb = "list"
          /\ BuildKubeResource(k)
          /\ reflectors[k] = NoReflector
          /\ tpc' = [tpc EXCEPT ![w] = "create"]
          /\ UNCHANGED <<cluster, clock, reflectors, reply, tref>>
    /\ UNCHANGED <<bus, routerUp, wpc, widx, wsnap, wsince, cache, outcome, treq, lastStamp>>

(* Reflector::create_and_run: the initial list loads the cluster state of  *)
(* this moment; creation may fail, and the `?` returns the error.          *)
TaskCreate(w) ==
    /\ tpc[w] = "create"
    /\ \/ /\ tpc' = [tpc EXCEPT ![w] = "insert"]
          /\ tref' = [tref EXCEPT ![w] = NewReflector(treq[w].kind)]
          /\ UNCHANGED reply
       \/ Answer(w, Err)
    /\ UNCHANGED <<clientVars, bus, routerUp, wpc, widx, wsnap, wsince, cache,
                   outcome, treq, lastStamp>>

(* Mutant: the task inserts its reflector and forgets to answer.           *)
TaskInsertSilent(w) ==
    /\ tpc[w] = "insert"
    /\ reflectors' = [reflectors EXCEPT ![treq[w].kind] = tref[w]]
    /\ tpc' = [tpc EXCEPT ![w] = "none"]
    /\ tref' = [tref EXCEPT ![w] = NoReflector]
    /\ UNCHANGED <<cluster, clock, kubeResources, reply, bus, routerUp, wpc, widx,
                   wsnap, wsince, cache, outcome, treq, lastStamp>>

(* Under the write lock, `reflectors.insert(id, reflector)` whether or not *)
(* another task inserted one for the same id meanwhile; the task answers   *)
(* from its own reader.                                                    *)
TaskInsert(w) ==
    /\ tpc[w] = "insert"
    /\ reflectors' = [reflectors EXCEPT ![treq[w].kind] = tref[w]]
    /\ Answer(w, ListOk(tref[w].store))
    /\ UNCHANGED <<cluster, clock, kubeResources, bus, routerUp, wpc, widx,
                   wsnap, wsince, cache, outcome, treq, lastStamp>>

TaskStep(w) == TaskRun(w) \/ TaskCreate(w) \/ TaskInsert(w)

(* The watch task stamps a change, recorded in the history variable.      *)
StampRecorded(k) ==
    /\ WatchStamp(k)
    /\ lastStamp' = [lastStamp EXCEPT ![k] = clock + 1]
    /\ UNCHANGED <<evalVars, tpc, treq, tref>>

TaskNext ==
    \/ \E w \in Workers : (StartEval(w) \/ WorkerStep(w)) /\ UNCHANGED taskVars
    \/ RouterSpawn
    \/ \E w \in Workers : TaskStep(w)
    \/ Shutdown /\ UNCHANGED taskVars
    \/ \E k \in Kinds :
          \/ ClusterChange(k) /\ UNCHANGED <<evalVars, taskVars>>
          \/ WatchApply(k) /\ UNCHANGED <<evalVars, taskVars>>
          \/ StampRecorded(k)

(* The router and every spawned task are tokio tasks that are polled      *)
(* again whenever they can go on; workers and watch tasks as before.       *)
TaskFairness ==
    /\ WF_allVars(RouterSpawn)
    /\ \A w \in Workers : WF_allVars(TaskStep(w))
    /\ \A w \in Workers : WF_allVars(WorkerStep(w) /\ UNCHANGED taskVars)
    /\ \A k \in Kinds : WF_allVars(WatchApply(k) /\ UNCHANGED <<evalVars, taskVars>>)
    /\ \A k \in Kinds : WF_allVars(StampRecorded(k))

TaskSpec == TaskInit /\ [][TaskNext]_allVars /\ TaskFairness

-----------------------------------------------------------------------------
(* Change detection is complete (spec 8.6): a change query for kind k     *)
(* since instant t answers "not changed" only if no watch task of k has    *)
(* stamped a change later than t.                                          *)
ChangeDetectionComplete ==
    [][\A w \in Workers :
          (tpc[w] = "run" /\ tpc'[w] = "none" /\ treq[w].verb = "changed"
             /\ reply'[w].status = "ok" /\ ~reply'[w].changed)
            => lastStamp[treq[w].kind] <= treq[w].since
      ]_allVars

=============================================================================
