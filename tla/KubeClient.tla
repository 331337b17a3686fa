----------------------------- MODULE KubeClient -----------------------------
(***************************************************************************)
(* The Kubernetes context-aware data plane of the policy evaluator          *)
(* (callback_handler/kubernetes.rs and callback_handler/kubernetes/         *)
(* client.rs).                                                             *)
(*                                                                         *)
(* The client keeps two shared maps: the discovery cache `kube_resources`  *)
(* ((api_version, kind) -> KubeResource) and the reflector map             *)
(* `reflectors` (reflector id -> Reflector).  Each reflector owns a store  *)
(* that a background watch task keeps in sync with the cluster, and the   *)
(* instant of the last change the watch task applied.                      *)
(*                                                                         *)
(* The resource contents of one kind are abstracted to a version counter:  *)
(* `cluster[k]` is the number of changes the API server has made to the    *)
(* objects of kind k, and a reflector store holds the version it has       *)
(* caught up to.  Label and field selectors and namespaces are dropped: a  *)
(* reflector id is the kind (the context-aware list queries use neither).  *)
(*                                                                         *)
(* Instants are abstracted to a logical clock that advances on every       *)
(* change stamp of a watch task, so an instant read later than a stamp is  *)
(* >= that stamp, and a stamp taken after an instant read is > it.         *)
(*                                                                         *)
(* The client methods are called from the callback router, one request at *)
(* a time (they take `&mut self`), so each one is a single atomic step of  *)
(* the router: its result is the parameter `res`.                          *)
(***************************************************************************)
EXTENDS Naturals

CONSTANTS
    Kinds,              \* the (api_version, kind) pairs a request may name
    Discoverable,       \* the kinds the API server's discovery endpoints know
    MaxChanges,         \* bound on the changes the cluster makes to one kind
    ClientInitialized   \* FALSE when the router was built without a kube::Client

ASSUME KubeClientAssumption ==
    /\ Discoverable \subseteq Kinds
    /\ MaxChanges \in Nat
    /\ ClientInitialized \in BOOLEAN

VARIABLES
    cluster,        \* cluster[k]: version of the objects of kind k on the API server
    clock,          \* the monotonic clock, read as tokio::time::Instant::now()
    kubeResources,  \* the kinds cached in Client.kube_resources
    reflectors      \* Client.reflectors: kind -> reflector or NoReflector

clientVars == <<cluster, clock, kubeResources, reflectors>>

NoReflector == [none |-> TRUE]

(* A reflector: its store's version, whether the watch task has applied an *)
(* event to the store and not yet stamped it, and last_change_seen_at.     *)
Reflector == [store : 0..MaxChanges, dirty : BOOLEAN, lastChange : Nat]

(* Results the client hands back to the router.  `num` carries an object  *)
(* list (its version), `changed` the boolean of the change query.         *)
Results == [status : {"ok", "err"}, num : 0..MaxChanges, changed : BOOLEAN]
ListOk(v) == [status |-> "ok", num |-> v, changed |-> FALSE]
ChangedOk(b) == [status |-> "ok", num |-> 0, changed |-> b]
Err == [status |-> "err", num |-> 0, changed |-> FALSE]

ClientTypeOK ==
    /\ cluster \in [Kinds -> 0..MaxChanges]
    /\ clock \in Nat
    /\ kubeResources \subseteq Kinds
    /\ reflectors \in [Kinds -> Reflector \cup {NoReflector}]

ClientInit ==
    /\ cluster = [k \in Kinds |-> 0]
    /\ clock = 0
    /\ kubeResources = {}
    /\ reflectors = [k \in Kinds |-> NoReflector]

-----------------------------------------------------------------------------
(* build_kube_resource: a hit in the discovery cache, or a discovery call  *)
(* that finds the kind and caches it under the write lock.                 *)
BuildKubeResource(k) ==
    \/ /\ k \in kubeResources
       /\ UNCHANGED kubeResources
    \/ /\ k \notin kubeResources
       /\ k \in Discoverable
       /\ kubeResources' = kubeResources \cup {k}

(* build_kube_resource fails: the discovery call errs (always so when the  *)
(* API server does not know the kind, "Cannot find resource").            *)
BuildKubeResourceFails(k) ==
    /\ k \notin kubeResources
    /\ UNCHANGED kubeResources

(* Reflector::create_and_run: the initial list loads the current cluster   *)
(* state, last_change_seen_at starts at the creation instant.              *)
NewReflector(k) == [store |-> cluster[k], dirty |-> FALSE, lastChange |-> clock]

(* get_reflector_reader followed by reader.state(): reuse the reflector in *)
(* the map, or create one and insert it; creation may fail.               *)
ListResourcesFromReflector(k, res) ==
    \/ /\ reflectors[k] # NoReflector
       /\ res = ListOk(reflectors[k].store)
       /\ UNCHANGED reflectors
    \/ /\ reflectors[k] = NoReflector
       /\ reflectors' = [reflectors EXCEPT ![k] = NewReflector(k)]
       /\ res = ListOk(cluster[k])
    \/ /\ reflectors[k] = NoReflector
       /\ res = Err
       /\ UNCHANGED reflectors

(* Client::list_resources_all: discover the kind, then list it from its   *)
(* reflector.                                                              *)
ClientListResourcesAll(k, res) ==
    \/ /\ BuildKubeResourceFails(k)
       /\ res = Err
       /\ UNCHANGED reflectors
    \/ /\ BuildKubeResource(k)
       /\ ListResourcesFromReflector(k, res)

(* kubernetes::list_resources_all: an error when the router has no client. *)
ListResourcesAll(k, res) ==
    /\ \/ /\ ~ClientInitialized
          /\ res = Err
          /\ UNCHANGED <<kubeResources, reflectors>>
       \/ /\ ClientInitialized
          /\ ClientListResourcesAll(k, res)
    /\ UNCHANGED <<cluster, clock>>

(* have_reflector_resources_changed_since: a kind without a reflector is  *)
(* reported as changed; otherwise last_change_seen_at > since.            *)
HaveReflectorResourcesChangedSince(k, since) ==
    \/ reflectors[k] = NoReflector
    \/ reflectors[k].lastChange > since

(* Client::has_list_resources_all_result_changed_since_instant.           *)
ClientHasListResourcesAllResultChangedSinceInstant(k, since, res) ==
    \/ /\ BuildKubeResourceFails(k)
       /\ res = Err
    \/ /\ BuildKubeResource(k)
       /\ res = ChangedOk(HaveReflectorResourcesChangedSince(k, since))

(* kubernetes::has_list_resources_all_result_changed_since_instant.       *)
HasListResourcesAllResultChangedSinceInstant(k, since, res) ==
    /\ \/ /\ ~ClientInitialized
          /\ res = Err
          /\ UNCHANGED kubeResources
       \/ /\ ClientInitialized
          /\ ClientHasListResourcesAllResultChangedSinceInstant(k, since, res)
    /\ UNCHANGED <<cluster, clock, reflectors>>

-----------------------------------------------------------------------------
(* The environment of the client: the API server and the watch tasks.     *)

(* Some controller changes an object of kind k on the API server.          *)
ClusterChange(k) ==
    /\ cluster[k] < MaxChanges
    /\ cluster' = [cluster EXCEPT ![k] = @ + 1]
    /\ UNCHANGED <<clock, kubeResources, reflectors>>

(* A reflector after its watch task applied one event to the store, and  *)
(* after the stamping closure set last_change_seen_at to `now`.            *)
AppliedDirty(r) == [store |-> r.store + 1, dirty |-> TRUE, lastChange |-> r.lastChange]
Stamped(r, now) == [store |-> r.store, dirty |-> FALSE, lastChange |-> now]

(* Mutant: an off-by-one in the catch-up guard applies an event the       *)
(* cluster never made (a watch event delivered twice).                     *)
WatchApplyDuplicated(k) ==
    /\ reflectors[k] # NoReflector
    /\ ~reflectors[k].dirty
    /\ reflectors[k].store <= cluster[k]
    /\ reflectors' = [reflectors EXCEPT ![k] = AppliedDirty(@)]
    /\ UNCHANGED <<cluster, clock, kubeResources>>

(* The watch task of k's reflector applies the next watch event to the     *)
(* store (`reflect(writer)`); it stamps the change in a later step.        *)
WatchApply(k) ==
    /\ reflectors[k] # NoReflector
    /\ ~reflectors[k].dirty
    /\ reflectors[k].store < cluster[k]
    /\ reflectors' = [reflectors EXCEPT ![k] = AppliedDirty(@)]
    /\ UNCHANGED <<cluster, clock, kubeResources>>

(* The watch task stamps last_change_seen_at with Instant::now().          *)
WatchStamp(k) ==
    /\ reflectors[k] # NoReflector
    /\ reflectors[k].dirty
    /\ clock' = clock + 1
    /\ reflectors' = [reflectors EXCEPT ![k] = Stamped(@, clock + 1)]
    /\ UNCHANGED <<cluster, kubeResources>>

=============================================================================
