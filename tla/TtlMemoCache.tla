---------------------------- MODULE TtlMemoCache ----------------------------
(***************************************************************************)
(* The short-TTL memo caches of the Kubernetes data plane                  *)
(* (callback_handler/kubernetes.rs): get_resource_cached and can_i_cached  *)
(* are `#[cached(time = 5, result = true, sync_writes = "default",          *)
(* with_cached_flag = true)]` wrappers of get_resource and can_i.           *)
(*                                                                         *)
(* Each wrapper has its own timed cache behind one async mutex.  A call    *)
(* locks the mutex, returns a cached value younger than the TTL with        *)
(* was_cached = true, and otherwise calls the wrapped function with the    *)
(* mutex still held (sync_writes) and awaits it; when the task resumes it  *)
(* stores an Ok result stamped with the instant of the store (cache_set), *)
(* and unlocks.  Errors are not stored.  tokio's Mutex hands the lock to   *)
(* its waiters in FIFO order.  The API server reads the cluster when it    *)
(* answers, which may be seconds before the store.                         *)
(*                                                                         *)
(* Callers are router tasks that serve capability requests concurrently.  *)
(* Time is in whole seconds; the state of the cluster that a key reads    *)
(* (the object, or the RBAC rules a review asks about) is a version.      *)
(***************************************************************************)
EXTENDS Naturals, Sequences

CONSTANTS
    Callers,            \* concurrent router tasks
    Objects,            \* (api_version, kind, name, namespace) tuples
    Reviews,            \* SubjectAccessReview requests
    TTL,                \* the `time` of the caches, in seconds
    MaxTime,            \* bound on the clock
    MaxChanges,         \* bound on the changes to the state a key reads
    ClientInitialized,  \* FALSE when the router has no kube::Client
    NoHolder,           \* the mutex is free
    NoEntry             \* the cache holds nothing for a key

ASSUME TtlMemoCacheAssumption ==
    /\ TTL \in Nat \ {0}
    /\ MaxTime \in Nat
    /\ MaxChanges \in Nat
    /\ ClientInitialized \in BOOLEAN
    /\ NoHolder \notin Callers

Caches == {"get_resource", "can_i"}
Keys == ({"get_resource"} \X Objects) \cup ({"can_i"} \X Reviews)
CacheOf(k) == k[1]

VARIABLES
    now,        \* seconds since start
    version,    \* version[k]: the cluster state key k reads
    entry,      \* entry[k]: the cached value of k and the second it was stored
    holder,     \* holder[x]: the task holding cache x's mutex
    queue,      \* queue[x]: tasks waiting for cache x's mutex, in order
    pc,         \* pc[c]: idle, waiting, upstream (request in flight) or answered
    key,        \* key[c]: the key of c's current call
    answer,     \* answer[c]: what the API server answered c's request
    reply       \* reply[c]: what c's last call returned

vars == <<now, version, entry, holder, queue, pc, key, answer, reply>>

(* A reply: Ok or Err, the value, and the was_cached flag.                 *)
NoReply == [status |-> "none", value |-> 0, wasCached |-> FALSE]
Reply == [status : {"ok", "err"}, value : 0..MaxChanges, wasCached : BOOLEAN]

TypeOK ==
    /\ now \in 0..MaxTime
    /\ version \in [Keys -> 0..MaxChanges]
    /\ entry \in [Keys -> [value : 0..MaxChanges, at : 0..MaxTime] \cup {NoEntry}]
    /\ holder \in [Caches -> Callers \cup {NoHolder}]
    /\ queue \in [Caches -> Seq(Callers)]
    /\ pc \in [Callers -> {"idle", "waiting", "upstream", "answered"}]
    /\ key \in [Callers -> Keys]
    /\ answer \in [Callers -> Reply \cup {NoReply}]
    /\ reply \in [Callers -> Reply \cup {NoReply}]

Init ==
    /\ now = 0
    /\ version = [k \in Keys |-> 0]
    /\ entry = [k \in Keys |-> NoEntry]
    /\ holder = [x \in Caches |-> NoHolder]
    /\ queue = [x \in Caches |-> <<>>]
    /\ pc = [c \in Callers |-> "idle"]
    /\ key \in [Callers -> Keys]
    /\ answer = [c \in Callers |-> NoReply]
    /\ reply = [c \in Callers |-> NoReply]

-----------------------------------------------------------------------------
(* TimedCache::cache_get: an entry younger than the TTL.                   *)
Fresh(k) == entry[k] # NoEntry /\ now - entry[k].at < TTL

(* A router task calls get_resource_cached or can_i_cached and queues on   *)
(* the cache's mutex.                                                      *)
Call(c, k) ==
    /\ pc[c] = "idle"
    /\ pc' = [pc EXCEPT ![c] = "waiting"]
    /\ key' = [key EXCEPT ![c] = k]
    /\ queue' = [queue EXCEPT ![CacheOf(k)] = Append(@, c)]
    /\ UNCHANGED <<now, version, entry, holder, answer, reply>>

(* Mutant: the mutex is released before the wrapped call is awaited       *)
(* (no sync_writes).                                                       *)
LookupUnlocked(c, x) ==
    IF Fresh(key[c])
       THEN /\ reply' = [reply EXCEPT ![c] =
                  [status |-> "ok", value |-> entry[key[c]].value,
                   wasCached |-> TRUE]]
            /\ pc' = [pc EXCEPT ![c] = "idle"]
            /\ UNCHANGED holder
       ELSE /\ pc' = [pc EXCEPT ![c] = "upstream"]
            /\ UNCHANGED <<holder, reply>>

(* With the mutex of cache x taken: a fresh entry is returned with         *)
(* was_cached = true and the mutex dropped; on a miss the task keeps the   *)
(* mutex and calls the wrapped function.                                   *)
Lookup(c, x) ==
    IF Fresh(key[c])
       THEN /\ reply' = [reply EXCEPT ![c] =
                  [status |-> "ok", value |-> entry[key[c]].value,
                   wasCached |-> TRUE]]
            /\ pc' = [pc EXCEPT ![c] = "idle"]
            /\ UNCHANGED holder
       ELSE /\ holder' = [holder EXCEPT ![x] = c]
            /\ pc' = [pc EXCEPT ![c] = "upstream"]
            /\ UNCHANGED reply

(* Mutant: the mutex is unfair, any waiter may take it.                    *)
LockUnfair(c) ==
    LET x == CacheOf(key[c]) IN
    /\ pc[c] = "waiting"
    /\ holder[x] = NoHolder
    /\ \E i \in 1..Len(queue[x]) :
          /\ queue[x][i] = c
          /\ queue' = [queue EXCEPT ![x] = SubSeq(@, 1, i - 1) \o SubSeq(@, i + 1, Len(@))]
    /\ Lookup(c, x)
    /\ UNCHANGED <<now, version, entry, key, answer>>

(* The head waiter takes the free mutex and looks its key up.             *)
Lock(c) ==
    LET x == CacheOf(key[c]) IN
    /\ pc[c] = "waiting"
    /\ holder[x] = NoHolder
    /\ queue[x] # <<>>
    /\ Head(queue[x]) = c
    /\ queue' = [queue EXCEPT ![x] = Tail(@)]
    /\ Lookup(c, x)
    /\ UNCHANGED <<now, version, entry, key, answer>>

(* Client::get_resource: discovery, a namespaced kind without namespace,  *)
(* the API call or a missing object fail; otherwise the current object.   *)
ClientGetResource(k) ==
    {[status |-> "err", value |-> 0, wasCached |-> FALSE],
     [status |-> "ok", value |-> version[k], wasCached |-> FALSE]}

(* Client::can_i: the SubjectAccessReview create call fails or returns no *)
(* status; otherwise the status the current RBAC rules give.               *)
ClientCanI(k) ==
    {[status |-> "err", value |-> 0, wasCached |-> FALSE],
     [status |-> "ok", value |-> version[k], wasCached |-> FALSE]}

(* The wrapped call (kubernetes::get_resource / kubernetes::can_i): an    *)
(* error without a client, otherwise the client method, with was_cached   *)
(* false.                                                                  *)
Upstream(k) ==
    IF ~ClientInitialized
       THEN {[status |-> "err", value |-> 0, wasCached |-> FALSE]}
    ELSE IF CacheOf(k) = "get_resource" THEN ClientGetResource(k)
    ELSE ClientCanI(k)

(* The API server answers the request of a task in the wrapped call: it   *)
(* reads the cluster now.  Without a client the call fails at once.       *)
Respond(c) ==
    /\ pc[c] = "upstream"
    /\ \E r \in Upstream(key[c]) : answer' = [answer EXCEPT ![c] = r]
    /\ pc' = [pc EXCEPT ![c] = "answered"]
    /\ UNCHANGED <<now, version, entry, holder, queue, key, reply>>

(* Mutant: without `result = true` an error is stored like a value.        *)
StoreCachingErrors(c) ==
    LET k == key[c]
        x == CacheOf(k)
    IN
    /\ pc[c] = "answered"
    /\ reply' = [reply EXCEPT ![c] = answer[c]]
    /\ entry' = [entry EXCEPT ![k] = [value |-> answer[c].value, at |-> now]]
    /\ pc' = [pc EXCEPT ![c] = "idle"]
    /\ holder' = IF holder[x] = c THEN [holder EXCEPT ![x] = NoHolder] ELSE holder
    /\ UNCHANGED <<now, version, queue, key, answer>>

(* The task resumes after the await: an Ok answer is stored (cache_set)   *)
(* stamped with the current second, an error is not; the answer is        *)
(* returned and the mutex dropped.                                        *)
Store(c) ==
    LET k == key[c]
        x == CacheOf(k)
    IN
    /\ pc[c] = "answered"
    /\ reply' = [reply EXCEPT ![c] = answer[c]]
    /\ entry' = IF answer[c].status = "ok"
                   THEN [entry EXCEPT ![k] = [value |-> answer[c].value, at |-> now]]
                   ELSE entry
    /\ pc' = [pc EXCEPT ![c] = "idle"]
    /\ holder' = IF holder[x] = c THEN [holder EXCEPT ![x] = NoHolder] ELSE holder
    /\ UNCHANGED <<now, version, queue, key, answer>>

-----------------------------------------------------------------------------
(* The environment: the clock, and controllers changing the cluster.      *)

(* Mutant: the clock bound is off by one.                                 *)
TickUnbounded ==
    /\ now <= MaxTime
    /\ now' = now + 1
    /\ UNCHANGED <<version, entry, holder, queue, pc, key, answer, reply>>

Tick ==
    /\ now < MaxTime
    /\ now' = now + 1
    /\ UNCHANGED <<version, entry, holder, queue, pc, key, answer, reply>>

ClusterChange(k) ==
    /\ version[k] < MaxChanges
    /\ version' = [version EXCEPT ![k] = @ + 1]
    /\ UNCHANGED <<now, entry, holder, queue, pc, key, answer, reply>>

Next ==
    \/ \E c \in Callers :
          \/ \E k \in Keys : Call(c, k)
          \/ Lock(c)
          \/ Respond(c)
          \/ Store(c)
    \/ Tick
    \/ \E k \in Keys : ClusterChange(k)

(* Each router task is polled until its call returns, the API server      *)
(* answers every call, and a free mutex is handed to its head waiter.     *)
Spec == Init /\ [][Next]_vars /\ \A c \in Callers : WF_vars(Lock(c) \/ Respond(c) \/ Store(c))

-----------------------------------------------------------------------------
(* Properties.                                                             *)

(* Coalescing (spec 4.2, 5): a wrapped call to the API server runs only   *)
(* when its key has no fresh entry, and never beside another call for the *)
(* same key.                                                               *)
InCall(c) == pc[c] \in {"upstream", "answered"}

UpstreamCoalesced ==
    \A c \in Callers : InCall(c) =>
        /\ ~Fresh(key[c])
        /\ \A d \in Callers \ {c} : ~(InCall(d) /\ key[d] = key[c])

(* Every call to a cached function returns (no task waits forever on the  *)
(* mutex).                                                                 *)
CallsReturn ==
    \A c \in Callers : pc[c] # "idle" ~> pc[c] = "idle"

-----------------------------------------------------------------------------
(* The abstract cache: a call is busy from the moment it queues on the    *)
(* mutex until it returns; the mutex, its queue and the pending answer    *)
(* have no abstract counterpart.                                          *)
MemoPc == [c \in Callers |-> IF pc[c] = "idle" THEN "idle" ELSE "busy"]

Memo == INSTANCE MemoCache WITH pc <- MemoPc

(* The cached functions are linearizable: holding the mutex across the     *)
(* awaited wrapped call (sync_writes) makes every call of                  *)
(* get_resource_cached and can_i_cached behave as one atomic step of the   *)
(* abstract cache, taken when the task looks up a fresh entry or when it   *)
(* stores the answer; an answer read before later cluster changes is never *)
(* older than the entry it replaces; and every call takes effect.          *)
MemoSpec == Memo!Spec

=============================================================================
