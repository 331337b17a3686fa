-------------------------- MODULE ContextAwareEval --------------------------
(***************************************************************************)
(* Context-aware Rego (Gatekeeper) evaluations talking to the Kubernetes   *)
(* data plane over the host-callback bus.                                  *)
(*                                                                         *)
(* Workers are the blocking threads that run a Rego policy.  Before an     *)
(* evaluation a worker builds the Kubernetes context snapshot with one     *)
(* KubernetesListResourceAll request per allowed resource, in the order of *)
(* the BTreeSet (runtimes/rego/context_aware.rs, get_allowed_resources).   *)
(* It keeps the last snapshot with the instant taken when its build began, *)
(* and at the next evaluation asks, resource by resource,                  *)
(* HasKubernetesListResourceAllResultChangedSinceInstant                   *)
(* (have_allowed_resources_changed_since_instant): on the first "true" it *)
(* rebuilds, if all are "false" it reuses the snapshot.                    *)
(*                                                                         *)
(* Each request goes onto the bounded mpsc bus with try_send and the       *)
(* worker blocks on its oneshot reply (make_request_via_callback_channel). *)
(* The callback router (kwctl callback_handler, loop_eval) takes requests  *)
(* off the bus one at a time and answers them through KubeClient; on       *)
(* shutdown it stops and drops the bus, closing every pending reply.       *)
(***************************************************************************)
EXTENDS KubeClient, Sequences

CONSTANTS
    Workers,            \* the threads running context-aware Rego policies
    AllowedResources,   \* the policy's context_aware_resources, in BTreeSet order
    BusCapacity         \* capacity of the callback mpsc channel

ASSUME ContextAwareAssumption ==
    /\ AllowedResources \in Seq(Kinds)
    /\ Len(AllowedResources) > 0
    /\ \A i, j \in 1..Len(AllowedResources) :
          AllowedResources[i] = AllowedResources[j] => i = j
    /\ BusCapacity \in Nat \ {0}

VARIABLES
    bus,        \* the requests queued in the callback channel
    routerUp,   \* FALSE once the router received the shutdown signal
    reply,      \* reply[w]: the state of w's oneshot reply channel
    wpc,        \* wpc[w]: where worker w is in its evaluation
    widx,       \* widx[w]: index in AllowedResources of the current request
    wsnap,      \* wsnap[w]: the snapshot being built or about to be used
    wsince,     \* wsince[w]: the instant the current build began
    cache,      \* cache[w]: the last built snapshot and its instant
    outcome     \* outcome[w]: how w's last evaluation ended

evalVars == <<bus, routerUp, reply, wpc, widx, wsnap, wsince, cache, outcome>>
vars == <<clientVars, evalVars>>

NRes == Len(AllowedResources)
Res(i) == AllowedResources[i]

Snapshot == [Kinds -> 0..MaxChanges]
NoCache == [none |-> TRUE]
Request == [from : Workers, verb : {"list", "changed"}, kind : Kinds, since : Nat]

(* The oneshot reply channel: nothing yet, a response, or closed because  *)
(* the router dropped the sender.                                         *)
NoReply == [status |-> "none", num |-> 0, changed |-> FALSE]
Closed == [status |-> "closed", num |-> 0, changed |-> FALSE]

Outcomes == {"none", "ok", "send_full", "send_closed", "recv_closed", "callback_error"}

TypeOK ==
    /\ ClientTypeOK
    /\ bus \in Seq(Request)
    /\ Len(bus) <= BusCapacity
    /\ routerUp \in BOOLEAN
    /\ reply \in [Workers -> Results \cup {NoReply, Closed}]
    /\ wpc \in [Workers -> {"idle", "check", "wait_check", "list", "wait_list", "eval"}]
    /\ widx \in [Workers -> 1..NRes]
    /\ wsnap \in [Workers -> Snapshot]
    /\ wsince \in [Workers -> Nat]
    /\ cache \in [Workers -> [snap : Snapshot, since : Nat] \cup {NoCache}]
    /\ outcome \in [Workers -> Outcomes]

Init ==
    /\ ClientInit
    /\ bus = <<>>
    /\ routerUp = TRUE
    /\ reply = [w \in Workers |-> NoReply]
    /\ wpc = [w \in Workers |-> "idle"]
    /\ widx = [w \in Workers |-> 1]
    /\ wsnap = [w \in Workers |-> [k \in Kinds |-> 0]]
    /\ wsince = [w \in Workers |-> 0]
    /\ cache = [w \in Workers |-> NoCache]
    /\ outcome = [w \in Workers |-> "none"]

-----------------------------------------------------------------------------
(* Worker steps.                                                           *)

(* Start the snapshot build: take the instant, list from the first         *)
(* resource on.                                                            *)
BeginBuild(w) ==
    /\ wpc' = [wpc EXCEPT ![w] = "list"]
    /\ widx' = [widx EXCEPT ![w] = 1]
    /\ wsince' = [wsince EXCEPT ![w] = clock]

(* A new admission request reaches a worker: check the kept snapshot if   *)
(* there is one, build one otherwise.                                      *)
StartEval(w) ==
    /\ wpc[w] = "idle"
    /\ IF cache[w] = NoCache
          THEN /\ BeginBuild(w)
          ELSE /\ wpc' = [wpc EXCEPT ![w] = "check"]
               /\ widx' = [widx EXCEPT ![w] = 1]
               /\ UNCHANGED wsince
    /\ UNCHANGED <<clientVars, bus, routerUp, reply, wsnap, cache, outcome>>

(* The locals of the evaluation (index, snapshot under construction,      *)
(* instant) go out of scope when it returns.                               *)
ClearLocals(w) ==
    /\ widx' = [widx EXCEPT ![w] = 1]
    /\ wsnap' = [wsnap EXCEPT ![w] = [k \in Kinds |-> 0]]
    /\ wsince' = [wsince EXCEPT ![w] = 0]

(* The evaluation ends with an error (the `?` in the context_aware.rs      *)
(* loops propagates it out of the evaluation).                             *)
Fail(w, why) ==
    /\ wpc' = [wpc EXCEPT ![w] = "idle"]
    /\ outcome' = [outcome EXCEPT ![w] = why]
    /\ ClearLocals(w)

(* make_request_via_callback_channel, first half: try_send the request.   *)
(* A closed or full channel fails the evaluation at once.                  *)
TrySend(w, req, waitPc) ==
    \/ /\ routerUp
       /\ Len(bus) < BusCapacity
       /\ bus' = Append(bus, req)
       /\ wpc' = [wpc EXCEPT ![w] = waitPc]
       /\ UNCHANGED <<outcome, widx, wsnap, wsince>>
    \/ /\ ~routerUp
       /\ Fail(w, "send_closed")
       /\ UNCHANGED bus
    \/ /\ routerUp
       /\ Len(bus) >= BusCapacity
       /\ Fail(w, "send_full")
       /\ UNCHANGED bus

(* has_resource_changed_since for the current resource.                   *)
SendCheck(w) ==
    /\ wpc[w] = "check"
    /\ TrySend(w, [from |-> w, verb |-> "changed", kind |-> Res(widx[w]),
                   since |-> cache[w].since], "wait_check")
    /\ UNCHANGED <<clientVars, routerUp, reply, cache>>

(* get_all_resources_by_type for the current resource.                    *)
SendList(w) ==
    /\ wpc[w] = "list"
    /\ TrySend(w, [from |-> w, verb |-> "list", kind |-> Res(widx[w]),
                   since |-> 0], "wait_list")
    /\ UNCHANGED <<clientVars, routerUp, reply, cache>>

(* Mutant: an error response is retried (the request is sent again)       *)
(* instead of failing the evaluation.                                      *)
RecvFailsRetried(w) ==
    \/ /\ reply[w] = Closed
       /\ Fail(w, "recv_closed")
    \/ /\ reply[w].status = "err"
       /\ wpc' = [wpc EXCEPT ![w] = IF wpc[w] = "wait_list" THEN "list" ELSE "check"]
       /\ UNCHANGED <<outcome, widx, wsnap, wsince>>

(* make_request_via_callback_channel, second half: blocking_recv.  A      *)
(* closed channel or an error response fails the evaluation.              *)
RecvFails(w) ==
    \/ /\ reply[w] = Closed
       /\ Fail(w, "recv_closed")
    \/ /\ reply[w].status = "err"
       /\ Fail(w, "callback_error")

(* Mutant: a "true" answer restarts the checks instead of rebuilding.    *)
RecvCheckRetries(w) ==
    /\ wpc[w] = "wait_check"
    /\ reply[w] # NoReply
    /\ reply' = [reply EXCEPT ![w] = NoReply]
    /\ \/ RecvFails(w)
       \/ /\ reply[w].status = "ok"
          /\ reply[w].changed
          /\ wpc' = [wpc EXCEPT ![w] = "check"]
          /\ widx' = [widx EXCEPT ![w] = 1]
          /\ UNCHANGED <<wsnap, wsince, outcome>>
       \/ /\ reply[w].status = "ok"
          /\ ~reply[w].changed
          /\ widx[w] = NRes
          /\ wpc' = [wpc EXCEPT ![w] = "eval"]
          /\ wsnap' = [wsnap EXCEPT ![w] = cache[w].snap]
          /\ UNCHANGED <<widx, wsince, outcome>>
       \/ /\ reply[w].status = "ok"
          /\ ~reply[w].changed
          /\ widx[w] < NRes
          /\ wpc' = [wpc EXCEPT ![w] = "check"]
          /\ widx' = [widx EXCEPT ![w] = @ + 1]
          /\ UNCHANGED <<wsnap, wsince, outcome>>
    /\ UNCHANGED <<clientVars, bus, routerUp, cache>>

(* Mutant: the answers are read as "unchanged" whatever they say.          *)
RecvCheckIgnoresChange(w) ==
    /\ wpc[w] = "wait_check"
    /\ reply[w] # NoReply
    /\ reply' = [reply EXCEPT ![w] = NoReply]
    /\ \/ RecvFails(w)
       \/ /\ reply[w].status = "ok"
          /\ widx[w] = NRes
          /\ wpc' = [wpc EXCEPT ![w] = "eval"]
          /\ wsnap' = [wsnap EXCEPT ![w] = cache[w].snap]
          /\ UNCHANGED <<widx, wsince, outcome>>
       \/ /\ reply[w].status = "ok"
          /\ widx[w] < NRes
          /\ wpc' = [wpc EXCEPT ![w] = "check"]
          /\ widx' = [widx EXCEPT ![w] = @ + 1]
          /\ UNCHANGED <<wsnap, wsince, outcome>>
    /\ UNCHANGED <<clientVars, bus, routerUp, cache>>

(* The answer to a change query: stop at the first "true" and rebuild;     *)
(* after the last "false" reuse the kept snapshot.                         *)
RecvCheck(w) ==
    /\ wpc[w] = "wait_check"
    /\ reply[w] # NoReply
    /\ reply' = [reply EXCEPT ![w] = NoReply]
    /\ \/ RecvFails(w)
       \/ /\ reply[w].status = "ok"
          /\ reply[w].changed
          /\ BeginBuild(w)
          /\ UNCHANGED <<wsnap, outcome>>
       \/ /\ reply[w].status = "ok"
          /\ ~reply[w].changed
          /\ widx[w] = NRes
          /\ wpc' = [wpc EXCEPT ![w] = "eval"]
          /\ wsnap' = [wsnap EXCEPT ![w] = cache[w].snap]
          /\ UNCHANGED <<widx, wsince, outcome>>
       \/ /\ reply[w].status = "ok"
          /\ ~reply[w].changed
          /\ widx[w] < NRes
          /\ wpc' = [wpc EXCEPT ![w] = "check"]
          /\ widx' = [widx EXCEPT ![w] = @ + 1]
          /\ UNCHANGED <<wsnap, wsince, outcome>>
    /\ UNCHANGED <<clientVars, bus, routerUp, cache>>

(* Mutant: the kept snapshot is stamped with the instant its build ended. *)
RecvListSinceAtEnd(w) ==
    /\ wpc[w] = "wait_list"
    /\ reply[w] # NoReply
    /\ reply' = [reply EXCEPT ![w] = NoReply]
    /\ \/ /\ RecvFails(w)
          /\ UNCHANGED cache
       \/ /\ reply[w].status = "ok"
          /\ wsnap' = [wsnap EXCEPT ![w][Res(widx[w])] = reply[w].num]
          /\ IF widx[w] = NRes
                THEN /\ wpc' = [wpc EXCEPT ![w] = "eval"]
                     /\ cache' = [cache EXCEPT ![w] = [snap |-> wsnap'[w],
                                                      since |-> clock]]
                     /\ UNCHANGED widx
                ELSE /\ wpc' = [wpc EXCEPT ![w] = "list"]
                     /\ widx' = [widx EXCEPT ![w] = @ + 1]
                     /\ UNCHANGED cache
          /\ UNCHANGED <<outcome, wsince>>
    /\ UNCHANGED <<clientVars, bus, routerUp>>

(* The answer to a list request: record it; after the last resource keep   *)
(* the snapshot with the instant the build began.                          *)
RecvList(w) ==
    /\ wpc[w] = "wait_list"
    /\ reply[w] # NoReply
    /\ reply' = [reply EXCEPT ![w] = NoReply]
    /\ \/ /\ RecvFails(w)
          /\ UNCHANGED cache
       \/ /\ reply[w].status = "ok"
          /\ wsnap' = [wsnap EXCEPT ![w][Res(widx[w])] = reply[w].num]
          /\ IF widx[w] = NRes
                THEN /\ wpc' = [wpc EXCEPT ![w] = "eval"]
                     /\ cache' = [cache EXCEPT ![w] = [snap |-> wsnap'[w],
                                                      since |-> wsince[w]]]
                     /\ UNCHANGED widx
                ELSE /\ wpc' = [wpc EXCEPT ![w] = "list"]
                     /\ widx' = [widx EXCEPT ![w] = @ + 1]
                     /\ UNCHANGED cache
          /\ UNCHANGED <<outcome, wsince>>
    /\ UNCHANGED <<clientVars, bus, routerUp>>

(* The Rego query runs against the snapshot and the evaluation returns.   *)
Evaluate(w) ==
    /\ wpc[w] = "eval"
    /\ wpc' = [wpc EXCEPT ![w] = "idle"]
    /\ outcome' = [outcome EXCEPT ![w] = "ok"]
    /\ ClearLocals(w)
    /\ UNCHANGED <<clientVars, bus, routerUp, reply, cache>>

-----------------------------------------------------------------------------
(* Router steps.                                                           *)

(* The router takes the oldest request and answers it on its oneshot.     *)
RouterHandle ==
    /\ routerUp
    /\ bus # <<>>
    /\ LET req == Head(bus) IN
       \E res \in Results :
          /\ \/ /\ req.verb = "list"
                /\ ListResourcesAll(req.kind, res)
             \/ /\ req.verb = "changed"
                /\ HasListResourcesAllResultChangedSinceInstant(req.kind, req.since, res)
          /\ reply' = [reply EXCEPT ![req.from] = res]
    /\ bus' = Tail(bus)
    /\ UNCHANGED <<routerUp, wpc, widx, wsnap, wsince, cache, outcome>>

(* The shutdown signal: the router leaves its loop and the channel is      *)
(* dropped with the requests still in it, closing their reply channels.    *)
Shutdown ==
    /\ routerUp
    /\ routerUp' = FALSE
    /\ bus' = <<>>
    /\ reply' = [w \in Workers |->
                    IF \E i \in 1..Len(bus) : bus[i].from = w THEN Closed ELSE reply[w]]
    /\ UNCHANGED <<clientVars, wpc, widx, wsnap, wsince, cache, outcome>>

-----------------------------------------------------------------------------
WorkerStep(w) ==
    \/ SendCheck(w)
    \/ RecvCheck(w)
    \/ SendList(w)
    \/ RecvList(w)
    \/ Evaluate(w)

Environment(k) ==
    \/ ClusterChange(k) /\ UNCHANGED evalVars
    \/ WatchApply(k) /\ UNCHANGED evalVars
    \/ WatchStamp(k) /\ UNCHANGED evalVars

Next ==
    \/ \E w \in Workers : StartEval(w) \/ WorkerStep(w)
    \/ RouterHandle
    \/ Shutdown
    \/ \E k \in Kinds : Environment(k)

(* The router is a tokio task that is always polled again, each worker is *)
(* a dedicated blocking thread, and each watch task is polled whenever its *)
(* stream yields: all are weakly fair.  New admission requests, cluster    *)
(* changes and the shutdown signal come from outside and need not happen.  *)
Fairness ==
    /\ WF_vars(RouterHandle)
    /\ \A w \in Workers : WF_vars(WorkerStep(w))
    /\ \A k \in Kinds : WF_vars(WatchApply(k) /\ UNCHANGED evalVars)
    /\ \A k \in Kinds : WF_vars(WatchStamp(k) /\ UNCHANGED evalVars)

Spec == Init /\ [][Next]_vars /\ Fairness

-----------------------------------------------------------------------------
(* Properties.                                                             *)

(* A snapshot value v read at or after instant `since` of kind k: the     *)
(* reflector still holds v, or it stamped a change after since (the       *)
(* change query reports it), or its watch task has applied a newer event  *)
(* and not stamped it yet (the change query cannot see it until the stamp, *)
(* which will be after since).                                             *)
FreshOrFlagged(v, since, k) ==
    /\ reflectors[k] # NoReflector
    /\ \/ reflectors[k].store = v
       \/ reflectors[k].dirty
       \/ reflectors[k].lastChange > since

(* Snapshot reuse loses no stamped change                                  *)
(* (have_allowed_resources_changed_since_instant against the reflectors'   *)
(* last_change_seen_at): every resource of a kept snapshot is what its     *)
(* reflector holds, or its replacement is stamped after the snapshot's     *)
(* instant and the change query reports it, or its replacement is still    *)
(* between reflect() and the stamp.  Only in that last window can an       *)
(* all-"false" check reuse replaced data, and the window closes with the   *)
(* watch task's next step; the data itself is never lost track of, through *)
(* any number of builds, checks and changes.                               *)
CachedSnapshotFresh ==
    \A w \in Workers : cache[w] # NoCache =>
        \A i \in 1..NRes :
            FreshOrFlagged(cache[w].snap[Res(i)], cache[w].since, Res(i))

(* A context-aware evaluation is never refused because the callback       *)
(* channel is momentarily full: the spec promises that senders            *)
(* back-pressure on a full bus (make_request_via_callback_channel).       *)
NoSendRejectedWhenFull ==
    \A w \in Workers : outcome[w] # "send_full"

(* Every evaluation that starts ends (with a verdict or an error): no     *)
(* worker stays blocked on blocking_recv, also across a router shutdown.  *)
EvaluationsTerminate ==
    \A w \in Workers : wpc[w] # "idle" ~> wpc[w] = "idle"

(* Snapshot reuse never settles on stale data: once the cluster stops     *)
(* changing, every evaluation from some point on runs against a snapshot  *)
(* equal to the cluster state of every allowed resource, whether it was   *)
(* rebuilt or reused after an all-"false" change check.                    *)
SnapshotsEventuallyCurrent ==
    <>[](\A w \in Workers : wpc[w] = "eval" =>
            \A i \in 1..NRes : wsnap[w][Res(i)] = cluster[Res(i)])

-----------------------------------------------------------------------------
(* The inductive strengthening of CachedSnapshotFresh used by the proofs.  *)

(* A worker checks only a snapshot it has kept.                            *)
CheckHasCache ==
    \A w \in Workers : wpc[w] \in {"check", "wait_check"} => cache[w] # NoCache

(* The type invariant with the one fact its preservation needs.            *)
TInv == TypeOK /\ CheckHasCache

(* Instants handed out are never ahead of the clock.                       *)
InstantsBehindClock ==
    /\ \A k \in Kinds : reflectors[k] # NoReflector => reflectors[k].lastChange <= clock
    /\ \A w \in Workers : wsince[w] <= clock
    /\ \A w \in Workers : cache[w] # NoCache => cache[w].since <= clock

(* Each worker has at most one request in flight, it is for the resource  *)
(* the worker is at, and a reply lands only with a worker that waits.     *)
RequestsMatchWorkers ==
    /\ \A i, j \in 1..Len(bus) : bus[i].from = bus[j].from => i = j
    /\ \A i \in 1..Len(bus) :
          /\ bus[i].kind = Res(widx[bus[i].from])
          /\ bus[i].verb = "list" <=> wpc[bus[i].from] = "wait_list"
          /\ bus[i].verb = "changed" <=> wpc[bus[i].from] = "wait_check"
          /\ reply[bus[i].from] = NoReply
    /\ \A w \in Workers : wpc[w] \notin {"wait_check", "wait_list"} => reply[w] = NoReply

(* The part of a snapshot built so far, and a list answer not yet read,   *)
(* are fresh with respect to the instant the build began.                 *)
BuildFresh ==
    \A w \in Workers :
        /\ wpc[w] \in {"list", "wait_list"} =>
              \A i \in 1..(widx[w] - 1) :
                  FreshOrFlagged(wsnap[w][Res(i)], wsince[w], Res(i))
        /\ (wpc[w] = "wait_list" /\ reply[w].status = "ok") =>
              FreshOrFlagged(reply[w].num, wsince[w], Res(widx[w]))

IInv ==
    /\ TInv
    /\ InstantsBehindClock
    /\ RequestsMatchWorkers
    /\ BuildFresh
    /\ CachedSnapshotFresh

=============================================================================
