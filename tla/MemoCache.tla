----------------------------- MODULE MemoCache -----------------------------
(***************************************************************************)
(* What a `#[cached(time = TTL, result = true, sync_writes = "default")]`  *)
(* function of callback_handler/kubernetes.rs promises its callers, with   *)
(* the mutex left out: a call takes effect in one atomic step, in which    *)
(* it returns the value stored for its key less than TTL seconds ago       *)
(* (was_cached = true), or else returns what the wrapped function answered *)
(* and stores an Ok answer stamped now.  The answer was read while the     *)
(* call was in flight: it is a state of the key no older than the stored   *)
(* one, and possibly older than the current one.                          *)
(***************************************************************************)
EXTENDS Naturals

CONSTANTS
    Callers,        \* concurrent router tasks
    Keys,           \* the keys of the cached functions
    TTL,            \* lifetime of an entry, in seconds
    MaxTime,        \* bound on the clock
    MaxChanges,     \* bound on the changes to the state a key reads
    NoEntry         \* the cache holds nothing for a key

VARIABLES
    now,        \* seconds since start
    version,    \* version[k]: the cluster state key k reads
    entry,      \* entry[k]: the stored value of k and the second it was stored
    pc,         \* pc[c]: "busy" from the call until it returns
    key,        \* key[c]: the key of c's current call
    reply       \* reply[c]: what c's last call returned

vars == <<now, version, entry, pc, key, reply>>

Init ==
    /\ now = 0
    /\ version = [k \in Keys |-> 0]
    /\ entry = [k \in Keys |-> NoEntry]
    /\ pc = [c \in Callers |-> "idle"]
    /\ key \in [Callers -> Keys]
    /\ reply = [c \in Callers |-> [status |-> "none", value |-> 0, wasCached |-> FALSE]]

(* An entry younger than the TTL.                                          *)
Fresh(k) == entry[k] # NoEntry /\ now - entry[k].at < TTL

(* The state of the key held by its entry, or the first one.              *)
Stored(k) == IF entry[k] = NoEntry THEN 0 ELSE entry[k].value

(* What the wrapped function may have answered: an error, or a state of   *)
(* the key from the stored one up to the current one.                     *)
Fetched(k) ==
    {[status |-> "err", value |-> 0, wasCached |-> FALSE]}
    \cup {[status |-> "ok", value |-> v, wasCached |-> FALSE] : v \in Stored(k)..version[k]}

Call(c, k) ==
    /\ pc[c] = "idle"
    /\ pc' = [pc EXCEPT ![c] = "busy"]
    /\ key' = [key EXCEPT ![c] = k]
    /\ UNCHANGED <<now, version, entry, reply>>

(* The call takes effect: a hit returns the entry, a miss fetches.        *)
Serve(c) ==
    LET k == key[c] IN
    /\ pc[c] = "busy"
    /\ \/ /\ Fresh(k)
          /\ reply' = [reply EXCEPT ![c] = [status |-> "ok", value |-> entry[k].value,
                                            wasCached |-> TRUE]]
          /\ UNCHANGED entry
       \/ /\ ~Fresh(k)
          /\ \E r \in Fetched(k) :
                /\ reply' = [reply EXCEPT ![c] = r]
                /\ entry' = IF r.status = "ok"
                               THEN [entry EXCEPT ![k] = [value |-> r.value, at |-> now]]
                               ELSE entry
    /\ pc' = [pc EXCEPT ![c] = "idle"]
    /\ UNCHANGED <<now, version, key>>

Tick ==
    /\ now < MaxTime
    /\ now' = now + 1
    /\ UNCHANGED <<version, entry, pc, key, reply>>

ClusterChange(k) ==
    /\ version[k] < MaxChanges
    /\ version' = [version EXCEPT ![k] = @ + 1]
    /\ UNCHANGED <<now, entry, pc, key, reply>>

Next ==
    \/ \E c \in Callers : (\E k \in Keys : Call(c, k)) \/ Serve(c)
    \/ Tick
    \/ \E k \in Keys : ClusterChange(k)

SafetySpec == Init /\ [][Next]_vars

(* Every call eventually takes effect.                                     *)
Spec == SafetySpec /\ \A c \in Callers : WF_vars(Serve(c))

=============================================================================
