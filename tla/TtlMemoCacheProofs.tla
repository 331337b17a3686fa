------------------------- MODULE TtlMemoCacheProofs -------------------------
(***************************************************************************)
(* Proofs about the memo caches for every set of tasks and keys, every TTL *)
(* and every bound: calls to the API server are coalesced                  *)
(* (UpstreamCoalesced), and the cached functions implement the abstract    *)
(* cache MemoCache (the safety part of MemoSpec).                          *)
(***************************************************************************)
EXTENDS TtlMemoCache, TLAPS

USE TtlMemoCacheAssumption

(* The mutex discipline of sync_writes: a task in an API call holds its    *)
(* cache's mutex until it has stored the answer, and a held mutex belongs  *)
(* to a task in a call on a key of that cache.                             *)
MutexHeld ==
    /\ \A c \in Callers : InCall(c) => holder[CacheOf(key[c])] = c
    /\ \A x \in Caches : holder[x] # NoHolder =>
          /\ InCall(holder[x])
          /\ CacheOf(key[holder[x]]) = x

(* No entry is stamped in the future.                                      *)
EntriesPast == \A k \in Keys : entry[k] # NoEntry => entry[k].at <= now

(* No entry holds a state of its key that the cluster has not reached.     *)
EntryBelowCluster == \A k \in Keys : entry[k] # NoEntry => entry[k].value <= version[k]

(* A task in an API call found no fresh entry, and none appeared since.    *)
UpstreamStale == \A c \in Callers : InCall(c) => ~Fresh(key[c])

(* An answer waiting to be stored is one the abstract fetch may give: the  *)
(* entry it will replace is unchanged since the server read the cluster.  *)
AnswerFetchable == \A c \in Callers : pc[c] = "answered" => answer[c] \in Memo!Fetched(key[c])

IInv == TypeOK /\ MutexHeld /\ EntriesPast /\ EntryBelowCluster /\ UpstreamStale
        /\ AnswerFetchable

-----------------------------------------------------------------------------
(* What the abstract fetch may give: an error, or an Ok state of the key   *)
(* from the stored one up to the current one.                              *)
LEMMA FetchedDef ==
    ASSUME NEW k \in Keys
    PROVE  Memo!Fetched(k) =
             {[status |-> "err", value |-> 0, wasCached |-> FALSE]}
             \cup {[status |-> "ok", value |-> v, wasCached |-> FALSE] :
                     v \in Memo!Stored(k)..version[k]}
BY DEF Memo!Fetched

(* What the abstract fetch may give is a reply.                            *)
LEMMA FetchedReply ==
    ASSUME TypeOK, NEW k \in Keys
    PROVE  Memo!Fetched(k) \subseteq Reply
<1>1. /\ Memo!Stored(k) \in 0..MaxChanges
      /\ version[k] \in 0..MaxChanges
  BY DEF TypeOK, Memo!Stored
<1>2. Memo!Stored(k)..version[k] \subseteq 0..MaxChanges
  BY <1>1
<1>3. [status |-> "err", value |-> 0, wasCached |-> FALSE] \in Reply
  BY DEF Reply
<1>4. \A v \in Memo!Stored(k)..version[k] :
        [status |-> "ok", value |-> v, wasCached |-> FALSE] \in Reply
  BY <1>2 DEF Reply
<1>5. SUFFICES ASSUME NEW r \in Memo!Fetched(k) PROVE r \in Reply
  OBVIOUS
<1>6. \/ r = [status |-> "err", value |-> 0, wasCached |-> FALSE]
      \/ \E v \in Memo!Stored(k)..version[k] : r = [status |-> "ok", value |-> v, wasCached |-> FALSE]
  BY FetchedDef, Zenon
<1>7. QED
  BY <1>3, <1>4, <1>6

(* The abstract fetch of a key only grows while its entry is unchanged and *)
(* its version does not go back.                                           *)
LEMMA FetchedGrows ==
    ASSUME NEW k \in Keys, entry'[k] = entry[k], version'[k] = version[k] \/ version'[k] = version[k] + 1,
           version[k] \in Nat
    PROVE  Memo!Fetched(k) \subseteq Memo!Fetched(k)'
<1>1. Memo!Stored(k)' = Memo!Stored(k)
  BY DEF Memo!Stored
<1>2. Memo!Stored(k)..version[k] \subseteq Memo!Stored(k)'..version'[k]
  BY <1>1
<1>3. QED
  BY <1>2, FetchedDef DEF Memo!Fetched

(* Every answer of the wrapped call is one the abstract fetch may give,    *)
(* since the stored state is one the cluster has reached.                  *)
LEMMA UpstreamFetched ==
    ASSUME TypeOK, EntryBelowCluster, NEW k \in Keys
    PROVE  Upstream(k) \subseteq Memo!Fetched(k)
<1>1. version[k] \in Memo!Stored(k)..version[k]
  BY DEF TypeOK, EntryBelowCluster, Memo!Stored
<1>2. QED
  BY <1>1, FetchedDef DEF Upstream, ClientGetResource, ClientCanI

-----------------------------------------------------------------------------
(* The initial state satisfies the inductive invariant.                    *)
LEMMA InitIInv == Init => IInv
BY DEF Init, IInv, TypeOK, MutexHeld, EntriesPast, EntryBelowCluster, UpstreamStale,
       AnswerFetchable, InCall, NoReply

(* A new call keeps the invariant: only an idle task changes its key.      *)
LEMMA CallIInv ==
    ASSUME IInv, NEW c \in Callers, NEW k \in Keys, Call(c, k)
    PROVE  IInv'
<1>1. TypeOK'
  BY DEF IInv, TypeOK, Call, CacheOf, Keys, Caches
<1>2. MutexHeld'
  BY DEF IInv, TypeOK, MutexHeld, InCall, Call
<1>3. UpstreamStale'
  BY DEF IInv, TypeOK, UpstreamStale, InCall, Call, Fresh
<1>4. AnswerFetchable'
  BY DEF IInv, TypeOK, AnswerFetchable, Call, Memo!Fetched, Memo!Stored
<1>5. QED
  BY <1>1, <1>2, <1>3, <1>4 DEF IInv, EntriesPast, EntryBelowCluster, Call

(* Taking a free mutex keeps the invariant: on a hit the task returns the  *)
(* fresh entry, on a miss it becomes the holder, and no other task can be  *)
(* in a call on that cache since the mutex was free.                       *)
LEMMA LockIInv ==
    ASSUME IInv, NEW c \in Callers, Lock(c)
    PROVE  IInv'
<1> DEFINE x == CacheOf(key[c])
<1>1. /\ pc[c] = "waiting"
      /\ holder[x] = NoHolder
      /\ queue[x] # <<>>
      /\ queue' = [queue EXCEPT ![x] = Tail(@)]
      /\ UNCHANGED <<now, version, entry, key, answer>>
      /\ Lookup(c, x)
  BY DEF Lock
<1>2. x \in Caches
  BY DEF IInv, TypeOK, CacheOf, Keys, Caches
<1>3. \A d \in Callers : InCall(d) => CacheOf(key[d]) # x
  BY <1>1, <1>2 DEF IInv, MutexHeld
<1>4. queue' \in [Caches -> Seq(Callers)]
  BY <1>1, <1>2 DEF IInv, TypeOK
<1>5. AnswerFetchable'
  BY <1>1 DEF IInv, TypeOK, AnswerFetchable, Lookup, Memo!Fetched, Memo!Stored
<1>6. CASE Fresh(key[c])
  <2>1. /\ reply' = [reply EXCEPT ![c] =
                  [status |-> "ok", value |-> entry[key[c]].value, wasCached |-> TRUE]]
        /\ pc' = [pc EXCEPT ![c] = "idle"]
        /\ UNCHANGED holder
    BY <1>1, <1>6 DEF Lookup
  <2>2. entry[key[c]] \in [value : 0..MaxChanges, at : 0..MaxTime]
    BY <1>6 DEF IInv, TypeOK, Fresh
  <2>3. TypeOK'
    BY <1>1, <1>4, <2>1, <2>2 DEF IInv, TypeOK, Reply
  <2>4. MutexHeld'
    BY <1>1, <2>1 DEF IInv, MutexHeld, InCall
  <2>5. UpstreamStale'
    BY <1>1, <2>1 DEF IInv, UpstreamStale, InCall, Fresh
  <2>6. QED
    BY <1>1, <1>5, <2>3, <2>4, <2>5 DEF IInv, EntriesPast, EntryBelowCluster
<1>7. CASE ~Fresh(key[c])
  <2>1. /\ holder' = [holder EXCEPT ![x] = c]
        /\ pc' = [pc EXCEPT ![c] = "upstream"]
        /\ UNCHANGED reply
    BY <1>1, <1>7 DEF Lookup
  <2>2. TypeOK'
    BY <1>1, <1>2, <1>4, <2>1 DEF IInv, TypeOK
  <2>3. MutexHeld'
    BY <1>1, <1>2, <1>3, <2>1 DEF IInv, TypeOK, MutexHeld, InCall
  <2>4. UpstreamStale'
    BY <1>1, <1>7, <2>1 DEF IInv, UpstreamStale, InCall, Fresh
  <2>5. QED
    BY <1>1, <1>5, <2>1, <2>2, <2>3, <2>4 DEF IInv, EntriesPast, EntryBelowCluster
<1>8. QED
  BY <1>6, <1>7

(* The answer of the API server keeps the invariant: the server reads a    *)
(* state the cluster has reached, no older than the stored one.            *)
LEMMA RespondIInv ==
    ASSUME IInv, NEW c \in Callers, Respond(c)
    PROVE  IInv'
<1>1. /\ pc[c] = "upstream"
      /\ pc' = [pc EXCEPT ![c] = "answered"]
      /\ UNCHANGED <<now, version, entry, holder, queue, key, reply>>
  BY DEF Respond
<1>2. PICK r \in Upstream(key[c]) : answer' = [answer EXCEPT ![c] = r]
  BY DEF Respond
<1>3. key[c] \in Keys
  BY DEF IInv, TypeOK
<1>4. r \in Memo!Fetched(key[c])
  BY <1>2, <1>3, UpstreamFetched DEF IInv
<1>5. r \in Reply
  BY <1>3, <1>4, FetchedReply DEF IInv
<1>6. TypeOK'
  BY <1>1, <1>2, <1>5 DEF IInv, TypeOK
<1>7. AnswerFetchable'
  BY <1>1, <1>2, <1>4 DEF IInv, TypeOK, AnswerFetchable, Memo!Fetched, Memo!Stored
<1>8. QED
  BY <1>1, <1>6, <1>7 DEF IInv, MutexHeld, InCall, EntriesPast, EntryBelowCluster,
                          UpstreamStale, Fresh

(* Storing the answer keeps the invariant: the task held its cache's       *)
(* mutex, so no other task is in a call on its key when the answer is      *)
(* stored with the current second.                                         *)
LEMMA StoreIInv ==
    ASSUME IInv, NEW c \in Callers, Store(c)
    PROVE  IInv'
<1> DEFINE k == key[c]
           x == CacheOf(k)
<1>1. /\ pc[c] = "answered"
      /\ pc' = [pc EXCEPT ![c] = "idle"]
      /\ holder' = IF holder[x] = c THEN [holder EXCEPT ![x] = NoHolder] ELSE holder
      /\ reply' = [reply EXCEPT ![c] = answer[c]]
      /\ entry' = IF answer[c].status = "ok"
                     THEN [entry EXCEPT ![k] = [value |-> answer[c].value, at |-> now]]
                     ELSE entry
      /\ UNCHANGED <<now, version, queue, key, answer>>
  BY DEF Store
<1>2. /\ k \in Keys
      /\ x \in Caches
      /\ holder[x] = c
  BY <1>1 DEF IInv, TypeOK, MutexHeld, InCall, CacheOf, Keys, Caches
<1>3. /\ answer[c] \in Memo!Fetched(k)
      /\ answer[c] \in Reply
  BY <1>1, <1>2, FetchedReply DEF IInv, AnswerFetchable
<1>4. answer[c].status = "ok" => answer[c].value <= version[k]
  BY <1>3 DEF Memo!Fetched
<1>5. holder' = [holder EXCEPT ![x] = NoHolder]
  BY <1>1, <1>2
<1>6. \A d \in Callers \ {c} : InCall(d) => key[d] # k
  BY <1>1, <1>2 DEF IInv, MutexHeld
<1>7. TypeOK'
  BY <1>1, <1>2, <1>3, <1>5 DEF IInv, TypeOK, Reply
<1>8. MutexHeld'
  BY <1>1, <1>2, <1>5 DEF IInv, TypeOK, MutexHeld, InCall
<1>9. EntriesPast' /\ EntryBelowCluster'
  BY <1>1, <1>4 DEF IInv, TypeOK, EntriesPast, EntryBelowCluster
<1>10. UpstreamStale'
  BY <1>1, <1>6 DEF IInv, TypeOK, UpstreamStale, InCall, Fresh
<1>11. AnswerFetchable'
  BY <1>1, <1>6 DEF IInv, TypeOK, AnswerFetchable, InCall, Memo!Fetched, Memo!Stored
<1>12. QED
  BY <1>7, <1>8, <1>9, <1>10, <1>11 DEF IInv

(* A tick of the clock only ages entries: no stale entry becomes fresh.    *)
LEMMA TickIInv ==
    ASSUME IInv, Tick
    PROVE  IInv'
<1>1. TypeOK'
  BY DEF IInv, TypeOK, Tick
<1>2. EntriesPast'
  BY DEF IInv, TypeOK, EntriesPast, Tick
<1>3. UpstreamStale'
  BY DEF IInv, TypeOK, EntriesPast, UpstreamStale, InCall, Tick, Fresh, Keys, CacheOf
<1>4. AnswerFetchable' /\ EntryBelowCluster'
  BY DEF IInv, AnswerFetchable, EntryBelowCluster, Tick, Memo!Fetched, Memo!Stored
<1>5. QED
  BY <1>1, <1>2, <1>3, <1>4 DEF IInv, MutexHeld, InCall, Tick

(* A change on the cluster touches no cache state, and only widens what an *)
(* answer read before it may be.                                           *)
LEMMA ClusterChangeIInv ==
    ASSUME IInv, NEW k \in Keys, ClusterChange(k)
    PROVE  IInv'
<1>1. /\ version' = [version EXCEPT ![k] = @ + 1]
      /\ UNCHANGED <<now, entry, holder, queue, pc, key, answer, reply>>
  BY DEF ClusterChange
<1>2. \A j \in Keys : version[j] \in Nat /\ (version'[j] = version[j] \/ version'[j] = version[j] + 1)
  BY <1>1 DEF IInv, TypeOK
<1>3. TypeOK' /\ EntryBelowCluster'
  BY <1>1, <1>2 DEF ClusterChange, IInv, TypeOK, EntryBelowCluster
<1>4. AnswerFetchable'
  <2> SUFFICES ASSUME NEW c \in Callers, pc[c] = "answered"
               PROVE  answer[c] \in Memo!Fetched(key[c])'
    BY <1>1 DEF AnswerFetchable
  <2>1. key[c] \in Keys /\ answer[c] \in Memo!Fetched(key[c])
    BY DEF IInv, TypeOK, AnswerFetchable
  <2>2. Memo!Fetched(key[c]) \subseteq Memo!Fetched(key[c])'
    BY <1>1, <1>2, <2>1, FetchedGrows
  <2>3. QED
    BY <1>1, <2>1, <2>2
<1>5. QED
  BY <1>1, <1>3, <1>4 DEF IInv, MutexHeld, InCall, EntriesPast, UpstreamStale, Fresh

(* IInv is inductive.                                                      *)
LEMMA NextIInv == IInv /\ [Next]_vars => IInv'
<1> SUFFICES ASSUME IInv, [Next]_vars PROVE IInv'
  OBVIOUS
<1>1. CASE \E c \in Callers, k \in Keys : Call(c, k)
  BY <1>1, CallIInv
<1>2. CASE \E c \in Callers : Lock(c)
  BY <1>2, LockIInv
<1>3. CASE \E c \in Callers : Respond(c)
  BY <1>3, RespondIInv
<1>4. CASE \E c \in Callers : Store(c)
  BY <1>4, StoreIInv
<1>5. CASE Tick
  BY <1>5, TickIInv
<1>6. CASE \E k \in Keys : ClusterChange(k)
  BY <1>6, ClusterChangeIInv
<1>7. CASE UNCHANGED vars
  BY <1>7 DEF vars, IInv, TypeOK, MutexHeld, InCall, EntriesPast, EntryBelowCluster,
              UpstreamStale, Fresh, AnswerFetchable, Memo!Fetched, Memo!Stored
<1>8. QED
  BY <1>1, <1>2, <1>3, <1>4, <1>5, <1>6, <1>7 DEF Next

(* UpstreamCoalesced follows: two tasks in a call on the same key would    *)
(* both hold the mutex of its cache.                                       *)
LEMMA IInvCoalesced == IInv => UpstreamCoalesced
BY DEF IInv, MutexHeld, UpstreamStale, UpstreamCoalesced

(* At most one call to the API server runs per key, and only when the key  *)
(* has no fresh entry: the coalescing of get_resource_cached and           *)
(* can_i_cached (sync_writes), for every number of tasks and keys.         *)
THEOREM Coalesced == Spec => []UpstreamCoalesced
<1>1. Init => IInv
  BY InitIInv
<1>2. IInv /\ [Next]_vars => IInv'
  BY NextIInv
<1>3. IInv => UpstreamCoalesced
  BY IInvCoalesced
<1>4. QED
  BY <1>1, <1>2, <1>3, PTL DEF Spec

-----------------------------------------------------------------------------
-----------------------------------------------------------------------------
(* The refinement of the abstract cache MemoCache.                         *)

(* The initial state maps to an initial state of the abstract cache.       *)
LEMMA InitMemo == Init => Memo!Init
BY DEF Init, Memo!Init, MemoPc, NoReply

(* A call that queues on the mutex is an abstract call.                    *)
LEMMA CallMemo ==
    ASSUME IInv, NEW c \in Callers, NEW k \in Keys, Call(c, k)
    PROVE  Memo!Call(c, k)
<1>1. MemoPc[c] = "idle"
  BY DEF Call, MemoPc
<1>2. MemoPc' = [MemoPc EXCEPT ![c] = "busy"]
  BY DEF Call, MemoPc, IInv, TypeOK
<1>3. QED
  BY <1>1, <1>2 DEF Call, Memo!Call

(* Taking the mutex is an abstract hit when the entry is fresh, and a      *)
(* stutter of the abstract cache when the task goes on to the API call.    *)
LEMMA LockMemo ==
    ASSUME IInv, NEW c \in Callers, Lock(c)
    PROVE  [Memo!Next]_Memo!vars
<1> DEFINE x == CacheOf(key[c])
<1>1. /\ pc[c] = "waiting"
      /\ UNCHANGED <<now, version, entry, key>>
      /\ Lookup(c, x)
  BY DEF Lock
<1>2. CASE Fresh(key[c])
  <2>1. /\ reply' = [reply EXCEPT ![c] =
                  [status |-> "ok", value |-> entry[key[c]].value, wasCached |-> TRUE]]
        /\ pc' = [pc EXCEPT ![c] = "idle"]
    BY <1>1, <1>2 DEF Lookup
  <2>2. MemoPc[c] = "busy"
    BY <1>1 DEF MemoPc
  <2>3. MemoPc' = [MemoPc EXCEPT ![c] = "idle"]
    BY <2>1 DEF MemoPc, IInv, TypeOK
  <2>4. Memo!Serve(c)
    BY <1>1, <1>2, <2>1, <2>2, <2>3 DEF Memo!Serve, Memo!Fresh, Fresh
  <2>5. QED
    BY <2>4 DEF Memo!Next
<1>3. CASE ~Fresh(key[c])
  <2>1. /\ pc' = [pc EXCEPT ![c] = "upstream"]
        /\ UNCHANGED reply
    BY <1>1, <1>3 DEF Lookup
  <2>2. MemoPc' = MemoPc
    BY <1>1, <2>1 DEF MemoPc, IInv, TypeOK
  <2>3. QED
    BY <1>1, <2>1, <2>2 DEF Memo!vars
<1>4. QED
  BY <1>2, <1>3

(* The answer of the API server is a stutter of the abstract cache: the    *)
(* task stays busy and nothing it can observe changes.                     *)
LEMMA RespondMemo ==
    ASSUME IInv, NEW c \in Callers, Respond(c)
    PROVE  UNCHANGED Memo!vars
<1>1. /\ pc[c] = "upstream"
      /\ pc' = [pc EXCEPT ![c] = "answered"]
      /\ UNCHANGED <<now, version, entry, key, reply>>
  BY DEF Respond
<1>2. MemoPc' = MemoPc
  BY <1>1 DEF MemoPc, IInv, TypeOK
<1>3. QED
  BY <1>1, <1>2 DEF Memo!vars

(* Storing the answer is an abstract miss: the task found no fresh entry   *)
(* and, holding the mutex, none appeared since (UpstreamStale); what it    *)
(* returns and stores is an answer the abstract fetch may give             *)
(* (AnswerFetchable).                                                      *)
LEMMA StoreMemo ==
    ASSUME IInv, NEW c \in Callers, Store(c)
    PROVE  Memo!Serve(c)
<1> DEFINE k == key[c]
<1>1. /\ pc[c] = "answered"
      /\ pc' = [pc EXCEPT ![c] = "idle"]
      /\ reply' = [reply EXCEPT ![c] = answer[c]]
      /\ entry' = IF answer[c].status = "ok"
                     THEN [entry EXCEPT ![k] = [value |-> answer[c].value, at |-> now]]
                     ELSE entry
      /\ UNCHANGED <<now, version, key>>
  BY DEF Store
<1>2. answer[c] \in Memo!Fetched(k)
  BY <1>1 DEF IInv, AnswerFetchable
<1>3. ~Memo!Fresh(k)
  BY <1>1 DEF IInv, UpstreamStale, InCall, Fresh, Memo!Fresh
<1>4. MemoPc[c] = "busy" /\ MemoPc' = [MemoPc EXCEPT ![c] = "idle"]
  BY <1>1 DEF MemoPc, IInv, TypeOK
<1>5. QED
  BY <1>1, <1>2, <1>3, <1>4 DEF Memo!Serve

(* Every step of the cache maps to a step of the abstract cache or leaves  *)
(* it unchanged.                                                           *)
LEMMA NextMemo == IInv /\ [Next]_vars => [Memo!Next]_Memo!vars
<1> SUFFICES ASSUME IInv, [Next]_vars PROVE [Memo!Next]_Memo!vars
  OBVIOUS
<1>1. CASE \E c \in Callers, k \in Keys : Call(c, k)
  BY <1>1, CallMemo DEF Memo!Next
<1>2. CASE \E c \in Callers : Lock(c)
  BY <1>2, LockMemo
<1>3. CASE \E c \in Callers : Respond(c)
  BY <1>3, RespondMemo
<1>4. CASE \E c \in Callers : Store(c)
  BY <1>4, StoreMemo DEF Memo!Next
<1>5. CASE Tick
  <2>1. MemoPc' = MemoPc
    BY <1>5 DEF Tick, MemoPc
  <2>2. QED
    BY <1>5, <2>1 DEF Tick, Memo!Tick, Memo!Next
<1>6. CASE \E k \in Keys : ClusterChange(k)
  <2>1. MemoPc' = MemoPc
    BY <1>6 DEF ClusterChange, MemoPc
  <2>2. QED
    BY <1>6, <2>1 DEF ClusterChange, Memo!ClusterChange, Memo!Next
<1>7. CASE UNCHANGED vars
  BY <1>7 DEF vars, Memo!vars, MemoPc
<1>8. QED
  BY <1>1, <1>2, <1>3, <1>4, <1>5, <1>6, <1>7 DEF Next

(* The cached functions implement the abstract cache (the safety part of  *)
(* MemoSpec): every call of get_resource_cached and can_i_cached takes    *)
(* effect as one atomic step, a hit on a fresh entry or the store of an   *)
(* answer that is no older than the entry it replaces, whatever the       *)
(* number of tasks, keys and the TTL.                                     *)
THEOREM MemoRefinement == Spec => Memo!SafetySpec
<1>1. Spec => []IInv
  BY InitIInv, NextIInv, PTL DEF Spec
<1>2. QED
  BY <1>1, InitMemo, NextMemo, PTL DEF Spec, Memo!SafetySpec

(* Type correctness of the memoised lookup: in every reachable state the  *)
(* clock, the cluster versions, the cached entries, the per-cache lock     *)
(* holders and wait queues, and each caller's step, key and reply have the *)
(* types the memoising wrapper and its callers give them.                  *)
THEOREM TypeCorrect == Spec => []TypeOK
<1>1. IInv => TypeOK
  BY DEF IInv
<1>2. QED
  BY <1>1, InitIInv, NextIInv, PTL DEF Spec

=============================================================================
