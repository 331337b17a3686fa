# TLA+ models of the Kubewarden policy stack

This directory holds TLA+ specifications of parts of the Kubewarden policy
stack in `src/`, the TLC configurations that model-check them, and TLAPS
proofs of their main safety properties. `PROJECT.json` lists these things in
machine-readable form:

- the components and their status;
- the runs, with the properties each checks;
- the mutants that show each property can fail;
- the map from every TLA+ definition to the source lines it models;
- the hazards of the code;
- the proved theorems.

## The system and how its parts interact

A Rego (Gatekeeper) policy that is *context aware* reads Kubernetes objects
while it evaluates. The pieces involved are:

- **Evaluation workers.** These are the blocking threads that run policies.
  Before an evaluation a worker builds a *context snapshot*. It sends one
  `KubernetesListResourceAll` request per allowed resource, in BTreeSet order
  (`get_allowed_resources`, `runtimes/rego/context_aware.rs`). It keeps the
  snapshot together with the instant at which the build began. At the next
  evaluation it asks, resource by resource,
  `HasKubernetesListResourceAllResultChangedSinceInstant`
  (`have_allowed_resources_changed_since_instant`):
  - on the first `true` it rebuilds;
  - if every answer is `false` it reuses the kept snapshot.
- **The callback bus** (`make_request_via_callback_channel`). A request goes
  onto a bounded tokio mpsc channel with `try_send`. The worker then blocks on a
  oneshot reply with `blocking_recv`.
- **The callback router.** This is the `loop_eval` task that `kwctl` starts in
  `callback_handler/mod.rs`. It takes requests off the bus one at a time and
  answers each one through the Kubernetes data plane. On the shutdown signal it
  leaves its loop and drops the channel, which closes every pending reply.
- **The Kubernetes data plane.** This is `callback_handler/kubernetes.rs` and
  `kubernetes/client.rs`. It keeps two maps:
  - a discovery cache of kinds (`kube_resources`);
  - a map of *reflectors*. Each reflector owns a store that a background watch
    task keeps in sync with the API server. It also records
    `last_change_seen_at`, the instant of the last change the watch task
    applied.

  A list request is answered from the reflector's store, creating the reflector
  on first use. A change query compares `last_change_seen_at` with the worker's
  instant.

The spec (§4.3) lets the router serve capability calls concurrently by
spawning a task per request. Each task works on a clone of the `Client`, and
the clones share the reflector map behind an `Arc<RwLock<..>>`. Then the three
parts of `get_reflector_reader` can interleave across tasks (`client.rs`
95-129): a look-up under the read lock, `Reflector::create_and_run`, and an
unconditional `insert` under the write lock.

Besides this evaluation path, the project models four smaller parts of the
stack:

- **The memo caches of the data plane** (`callback_handler/kubernetes.rs`).
  `get_resource_cached` and `can_i_cached` wrap `get_resource` and `can_i` in
  the `cached` macro: `time = 5`, `result = true`, `sync_writes = "default"`.
  Each wrapper has one timed cache behind one async mutex. A caller takes the
  mutex and returns a fresh entry. On a miss it keeps the mutex while it awaits
  the API server, stores an `Ok` result and unlocks.
- **Policy verification** (`policy-fetcher/src/verify/mod.rs`).
  - `Verifier::verify` resolves the image tag and fetches the trusted
    signature layers (`fetch_sigstore_remote_data`). It decides them against
    the user's `all_of`/`any_of` config (`verify_signatures_against_config`)
    and returns the digest it verified.
  - The caller then pulls the policy and calls `verify_local_file_checksum`
    with that digest. It fetches the manifest by the digest and compares its
    single Wasm layer with the SHA-256 of the local file.
- **Loading a policy in policy-server** (`evaluation/precompiled_policy.rs`).
  `PrecompiledPolicy::new` reads the file, parses the metadata, checks the
  minimum Kubewarden version and the protocol version, and precompiles.
- **The sources file** (`policy-fetcher/src/sources.rs`).
  - `read_sources_file` turns a YAML file into insecure hosts and, per host,
    certificates given inline or by path.
  - The result is turned into the OCI and sigstore client configs, and each
    certificate into a rustls `CertificateDer`.

## Modules

| module | models | state | actions |
|---|---|---|---|
| `KubeClient` | the data plane (`client.rs`, `kubernetes.rs`) and its environment | `cluster` (version per kind on the API server), `clock`, `kubeResources` (discovery cache), `reflectors` (store version, dirty flag, `lastChange`) | `ListResourcesAll`, `HasListResourcesAllResultChangedSinceInstant` (used by the router), `ClusterChange`, `WatchApply`, `WatchStamp` |
| `ContextAwareEval` | workers, bus and router; extends `KubeClient` | `bus`, `routerUp`, `reply`, the per-worker `wpc`/`widx`/`wsnap`/`wsince` (program counter and locals), `cache` (kept snapshot and its instant), `outcome` | `StartEval`, `SendCheck`, `RecvCheck`, `SendList`, `RecvList`, `Evaluate`, `RouterHandle`, `Shutdown`, `Environment` |
| `MCContextAwareEval` | the TLC instance: two kinds, two workers | | |
| `ConcurrentRouter` | the spawning router of spec §4.3; extends `ContextAwareEval` | adds per task `tpc` (where the task is), `treq`, `tref` (the reflector it created and has not inserted), and the history variable `lastStamp` (latest stamp per kind) | `RouterSpawn`, `TaskRun` (read-lock look-up or change query), `TaskCreate`, `TaskInsert`, `StampRecorded` |
| `MCConcurrentRouter` | its TLC instance: one kind, two workers | | |
| `TtlMemoCache` | the two memo caches (`kubernetes.rs` 64-101, 151-186; `Client::get_resource`, `Client::can_i`) | `now`, `version` (cluster state per key), `entry` (cached value and the second it was stored), `holder` and `queue` (each cache's mutex and its FIFO waiters), per task `pc`, `key`, `answer` (the API server's answer not yet stored), `reply` | `Call`, `Lock` (with `Lookup`), `Respond`, `Store`, `Tick`, `ClusterChange` |
| `MemoCache` | the abstract cache: what a `#[cached(.., sync_writes)]` function promises, one atomic hit-or-store per call, the stored answer no older than the entry it replaces | `now`, `version`, `entry`, per caller `pc` (idle/busy), `key`, `reply` | `Call`, `Serve`, `Tick`, `ClusterChange` |
| `SignatureVerification` | `verify_signatures_against_config` as an operator | | |
| `PolicyVerifier` | verify, pull and checksum check; extends `SignatureVerification` | `tag`, `tagMoves`, `tampered`, `phase`, `verified`, `pulled`, `localFile`, `outcome` | `Verify`, `Pull`, `VerifyLocalFileChecksum`, `ReadLocalFileDigest`, `TagMove`, `TamperLocalFile` |
| `PrecompiledPolicy` | `PrecompiledPolicy::new` and its two checks as operators | | |
| `Sources` | `read_sources_file` and every conversion it calls, the client configs, `CertificateDer::try_from` | | |
| `MCTtlMemoCache`, `MCSignatureVerification`, `MCPolicyVerifier`, `MCPrecompiledPolicy`, `MCSources` | the TLC instances and, for the pure operators, harnesses that apply the operator once to every input in the bounds and compare with a reference written from the spec | | |
| `ContextAwareEvalProofs` | proof of the type invariant | | |
| `SnapshotFreshProofs` | proof of `CachedSnapshotFresh` | | |
| `TtlMemoCacheProofs` | proofs of `UpstreamCoalesced`, the type invariant and the refinement of `MemoCache` | | |
| `PrecompiledPolicyProofs` | proof of `LoadMatchesSpec` | | |
| `SignatureVerificationProofs` | proof of `VerifyAgreesWithSpec` for the signature decision | | |
| `SourcesProofs` | proof of `ReadSourcesMatchesSpec` for the sources file | | |
| `PolicyVerifierProofs` | proofs of `TypeOK`, `AcceptedFileIsVerified` and `MismatchOnlyOnChange` for the verification flow | | |
| `ConcurrentRouterProofs` | proof of `TaskTypeOK` for the spawning router | | |

### Abstractions

**Context-aware evaluation (`KubeClient`, `ContextAwareEval`).**

- The objects of one kind are abstracted to a version counter. A snapshot
  records, per kind, the version it read.
- Label and field selectors and namespaces are dropped, because the
  context-aware queries use none of them. A reflector id is therefore just the
  kind.
- `tokio::time::Instant::now()` is a logical clock that advances each time a
  watch task stamps a change:
  - an instant read after a stamp is `>=` the stamp;
  - a stamp taken after an instant is read is `>` that instant.

  This is the property of a monotonic clock the code relies on. It is
  deliberately generous to the code: a real clock can return the same instant
  twice, and that is not modelled.
- The watch task applies an event to the store (`WatchApply`) in one step and
  stamps `last_change_seen_at` (`WatchStamp`) in a later one. The `dirty` flag
  records that it is between the two steps. Whether a list read falls into this
  window is the hard case for snapshot reuse.
- Each client method is one atomic router step. The router serves one request
  at a time, and the methods take `&mut self`.
- Some of the code is not in `src/`, so it is modelled from the spec. Its map
  entries say `spec_modelled`:
  - the reflector and its watch task (`kubernetes/reflector.rs`);
  - the router loop (`kwctl/src/callback_handler/mod.rs` only dispatches to
    it);
  - the Gatekeeper evaluator that keeps the snapshot (`StartEval`,
    `BeginBuild`).

**Memo caches (`TtlMemoCache`).**

- A key is a (cache, object) or (cache, review) pair. What the key reads on
  the cluster is a version.
- Time is in whole seconds. An entry stored at second `at` is fresh while
  `now - at < TTL`, which is the timed cache's `elapsed < lifespan`.
- With `sync_writes = "default"` one async mutex guards the whole cache. A task
  that misses keeps it across the awaited API call. tokio's `Mutex` hands
  itself to waiters in FIFO order, so the queue is a sequence and `Lock` serves
  its head.
- The awaited call is two steps. `Respond` is the API server's answer: it
  reads the cluster at that second. `Store` is the task resuming after the
  await: `cache_set` stamps an Ok answer with the second of the store, the
  answer is returned and the mutex is dropped. Ticks and cluster changes can
  fall between the two, so a stored value may be older than its stamp and
  than the cluster.
- The API call may fail:
  - discovery fails, a namespaced kind has no namespace, or the object is
    missing;
  - the SubjectAccessReview has no status.

  An error is returned but not stored.

**Refinement mapping (`TtlMemoCache` to `MemoCache`).** The mutex, its
queue and the pending answer have no abstract counterpart. A task is busy in
the abstract cache from `Call` until `Store` (`MemoPc`). The hit branch of
`Lock` is the abstract `Serve`. The miss branch and `Respond` are stutters,
because the entry, reply and busy set do not change. `Store` is the abstract
`Serve` of a miss. The abstract `Serve` does not read the cluster now: it may
return any state of the key from the stored one up to the current one
(`Fetched`), because the answer was read while the call was in flight. So the
refinement says that a store never puts back a state older than the entry it
replaces. That holds because no fresh entry exists while a task is in its
call (`UpstreamStale`), and no other task can store the key meanwhile.

**Spawning router (`ConcurrentRouter`).**

- `TaskRun` is one step because it holds the read lock. It covers everything
  the task does before its first await that another task can interleave with.
  A change query reads the map and answers. A list that finds its reflector
  answers from the store. A list that misses goes on to create the reflector.
- `TaskCreate` is `create_and_run`, including its error return. `TaskInsert`
  is the write-locked insert and the answer from the task's own reader.
- `build_kube_resource` stays one step. Two tasks that both miss the discovery
  cache insert the same value, so the order of their inserts does not matter.
- The module assumes a kube client (`ConcurrentRouterAssumption`). Without a
  client, every request fails whichever task serves it; the `no_client` run
  covers that case.

**Verification (`SignatureVerification`, `PolicyVerifier`).**

- A trusted layer is abstracted to its signer. A constraint names one signer,
  and `wellFormed = FALSE` stands for a constraint whose `verifier()` errs.
- Constraint lists are sequences and keep their order and repeats, because
  rayon's `par_iter().filter().collect()` is order preserving.
- The collected list of unsatisfied constraints, `UnsatisfiedSignatures`, is
  written with positions: the kept positions (`UnsatisfiedPositions`), and as
  j-th entry the constraint at the kept position that has j kept positions up
  to and including it. This is the same filter as `SelectSeq`: TLC checked
  the two equal on every list of up to three constraints over two signers.
  Unlike `SelectSeq`, which is built in, the provers can expand this form.
- Manifests are sequences of layers: media type, digest algorithm and blob.
  SHA-256 is an injective constant map. The `filter_map` that collects the
  Wasm digests is `WasmLayers`, the set of positions of the Wasm layers. Only
  its size and its single member are read by the code (`digests.len() != 1`,
  `digests[0]`), so a set of positions says all of it.
- `verify_local_file_checksum` is two steps. `VerifyLocalFileChecksum` covers
  everything up to and including the checks on the awaited manifest:
  - the image reference of `policy.uri` may fail to parse (`try_from`);
    `policy.uri` comes from the caller and need not be the name `verify`
    parsed, so either result is possible;
  - the local file must exist;
  - the manifest fetch may fail;
  - the manifest needs exactly one Wasm layer, and it must be a SHA-256
    layer.

  `ReadLocalFileDigest` is `policy.digest()` and the comparison. The file may
  be removed or rewritten between the `exists()` check and this read, and a
  removed file is an I/O error (`digest_error`).
- The pull between `verify` and the checksum check belongs to the caller, in
  code outside `src/`, so it is modelled from the spec (`Pull`). So is the
  environment:
  - the registry moving the tag (`TagMove`);
  - someone rewriting the local store (`TamperLocalFile`).

  The spec does not say which layer the pull stores when a manifest has
  several Wasm layers, so `Pull` stores any one of them.

**Load checks (`PrecompiledPolicy`).**

- A version is a record `(major, minor, patch, pre, build)`. A pre-release or
  build is a positive number, and 0 is `EMPTY`.
- `VersionLess` is semver's order:
  - a pre-release sorts below its release;
  - build metadata breaks ties.
- Reading, parsing and precompiling are Boolean outcomes.

**Sources (`Sources`).**

- Byte strings are model values. `PemData` and `DerData` are the sets the two
  x509 parsers accept.
- `PemContents` and `PemRest` give the certificate inside a PEM block and the
  bytes after it.
- A HashMap is iterated in an arbitrary order. An operator that returns at the
  first failing host therefore returns the set of possible results.

## Runs

| run | instance | properties | result |
|---|---|---|---|
| main | `MCContextAwareEval.cfg`: kinds `{k1, k2}`, two workers, `MaxChanges = 1`, `BusCapacity = 2` | `TypeOK`, `CachedSnapshotFresh`, `EvaluationsTerminate`, `SnapshotsEventuallyCurrent` | pass, about 409k distinct states |
| bus_full | `MCBusFull.cfg`, `BusCapacity = 1` | `NoSendRejectedWhenFull` | violation (finding) |
| no_client | `MCNoClient.cfg`, no kube client, `BusCapacity = 1` | `EvaluationsTerminate` | pass |
| memo_cache | `MCTtlMemoCache.cfg`: tasks `{c1, c2}`, one object, one review, `TTL = 2`, `MaxTime = 3`, `MaxChanges = 1` | `TypeOK`, `UpstreamCoalesced`, `CallsReturn`, `MemoSpec` | pass, about 584k distinct states, 1.5 min |
| concurrent_router | `MCConcurrentRouter.cfg`: one kind, two workers, `MaxChanges = 2`, `BusCapacity = 2` | `TaskTypeOK`, `EvaluationsTerminate` | pass, about 501k distinct states |
| change_detection_race | `MCConcurrentRouterStamp.cfg`, same instance | `ChangeDetectionComplete` | violation (finding) |
| stale_snapshot_race | `MCConcurrentRouterStale.cfg`, same instance | `SnapshotsEventuallyCurrent` | violation (finding) |
| signature_decision | `MCSignatureVerification.cfg`: two signers, lists of up to two constraints, `minimum_matches` up to 2 | `VerifyAgreesWithSpec` | pass, 11k states |
| verify_flow | `MCPolicyVerifier.cfg`: four manifests, two tag moves | `TypeOK`, `AcceptedFileIsVerified`, `MismatchOnlyOnChange` | pass |
| load_checks | `MCPrecompiledPolicy.cfg`: running version 1.6.2-4+1, 72 minimum versions | `LoadMatchesSpec` | pass, 14k states |
| sources_file | `MCSources.cfg`: two hosts, four byte strings, one readable and one unreadable path | `ReadSourcesMatchesSpec` | pass, 64k states |
| pem_to_der | `MCSourcesPemDer.cfg`, same instance | `PemConvertsToItsDer` | violation (finding) |

### What the properties say

- `CachedSnapshotFresh`: every resource of a kept snapshot satisfies one of
  three conditions:
  - the reflector still holds the value;
  - the reflector stamped a change after the snapshot's instant, so the change
    query reports it;
  - the reflector's watch task has applied a newer event and not yet stamped
    it (`dirty`).

  In the last window the change query cannot see the change, and an
  all-`false` check does reuse replaced data. The code has this window
  (`reflect()` before the stamp), and the property admits it. What the property
  excludes is a replaced value whose change has been stamped and still goes
  unreported, for example a snapshot stamped with the instant its build
  ended.
- `EvaluationsTerminate`: every evaluation that starts ends. This includes a
  worker blocked on `blocking_recv` when the router shuts down; it is woken by
  the closed reply.
- `SnapshotsEventuallyCurrent`: once the cluster stops changing, every
  evaluation from some point on runs against a snapshot that equals the
  cluster. Snapshot reuse may therefore delay a change but never hide it for
  good. It holds with the serial router and fails with the spawning one.
- `MemoSpec`: `TtlMemoCache` under the refinement mapping behaves as
  `MemoCache`, fairness included. Each call is one atomic hit or store, and a
  store never replaces an entry with an older state of the key. Without the
  mutex, a task whose answer was read before a change could store after a
  task that read after it.
- `ChangeDetectionComplete` (spec §8.6): a change query for kind `k` since
  instant `t` answers "not changed" only if no watch task of `k` stamped a
  change after `t`. This is an action property over the history variable
  `lastStamp`.
- `NoSendRejectedWhenFull`: no evaluation is refused because the bus is full.
  The spec (§4.1) promises back-pressure here. The code's `try_send` fails
  instead, and `bus_full` shows the trace. This is recorded in `PROJECT.json`
  as a spec/code divergence.
- `UpstreamCoalesced`: a task is in an API call only when its key has no fresh
  entry, and no other task is in a call for the same key. This is the
  coalescing the spec promises in §4.2 and §5.
- `CallsReturn`: every call to a cached function returns. No task waits on the
  mutex forever.
- `VerifyAgreesWithSpec`: the verdict of `verify_signatures_against_config`,
  and the list of unsatisfied constraints it reports, equal a reference built
  from the spec's rule (§8). The rule: every `all_of` constraint satisfied, and
  at least `minimum_matches` `any_of` constraints satisfied.
- `AcceptedFileIsVerified`: when the flow accepts the local file, the file is
  the only Wasm layer of the manifest whose signatures were verified. This
  holds however the tag moved and whatever was written to the store.
- `MismatchOnlyOnChange`: the checksum step reports a mismatch only when the
  pull fetched another manifest than the verified one, or the file was changed
  after the pull.
- `LoadMatchesSpec`: a policy loads exactly when I/O, parsing and
  precompilation succeed and the spec accepts it (§3, §8 item 1):
  - the declared minimum (major, minor) is at most the running one;
  - a waPC policy declares protocol V1.

  The patch, pre-release and build of both versions make no difference.
- `ReadSourcesMatchesSpec`: in every HashMap order, reading the sources file
  succeeds exactly when the file opens, parses and every certificate of every
  host is PEM or DER (§5). Then:
  - the certificates keep their file order and their encoding;
  - `is_insecure_source` answers from the file;
  - both client configs use plain HTTPS exactly when no host is insecure, and
    trust exactly the configured certificates.
- `PemConvertsToItsDer`: every certificate accepted at startup converts to its
  own DER encoding when a rustls root store is built from it. This fails; see
  below.

### Findings

- **Back-pressure** (`bus_full`). `try_send` rejects a request on a full
  callback channel (`context_aware.rs:130`). The spec says senders wait.
- **The DER of a PEM certificate** (`pem_to_der`).
  - `TryFrom<&Certificate> for CertificateDer` (`sources.rs:175`) parses a PEM
    certificate with `parse_x509_pem` and builds the DER from `pem.0`.
  - That parser returns a nom `IResult`, i.e. a `(remaining input, Pem)` pair.
    Field 0 is therefore the input after the PEM block, usually empty, and not
    the certificate (`pem.1.contents`).
  - The trace is one host with one inline PEM certificate.
  - The model encodes this reading of x509-parser's signature. The crate
    source is not in this repository.

- **Reflector replacement** (`change_detection_race`, `stale_snapshot_race`).
  Under the spawning router that spec §4.3 allows, `get_reflector_reader`
  (`client.rs:125`) inserts unconditionally. The race runs as follows:
  1. Two tasks both miss the reflector of a kind and both create one.
  2. The first inserts its reflector. After a cluster change, that reflector
     applies the change and stamps it.
  3. The second task then inserts its own reflector. That reflector's
     `last_change_seen_at` is its creation instant, which is older than the
     stamp.
  4. A change query since an instant between the two answers "not changed".

  The second run shows the consequence. A worker whose snapshot predates the
  change reuses it for ever, because nothing flags the change again. The main
  run checks the same property with the serial router, and there it holds. A
  check-then-insert under the write lock (`entry().or_insert`) would close the
  race.

### Why the bounds are enough

- **Context-aware evaluation.**
  - Two workers are the least that can contend for the bus and interleave
    their builds and checks.
  - Two kinds make a build take several requests, so a change can land between
    them.
  - One change per kind is enough to place a change in every window: before
    the build, between the list read and the instant, between apply and stamp,
    and after the snapshot is kept.
  - `BusCapacity = 2` with two workers never fills the bus, so the main run
    explores the protocol without the `try_send` failure. The capacity-1 runs
    explore that failure.
- **Spawning router.** Two workers on one kind are the least that can race
  on one reflector id. `MaxChanges = 2` lets a change land before the first
  insert and another after it.
- **Memo caches.**
  - Two tasks on one key are the least for coalescing.
  - Two caches (object, review) show that the mutexes are independent.
  - `TTL = 2` against `MaxTime = 3` lets an entry be stored, served while
    fresh, expire and be refreshed, and lets a tick fall between the API
    server's answer and the store.
  - One cluster change per key makes a stale value distinguishable.
- **Verification.**
  - The four manifests cover each branch of the checksum step: one Wasm layer,
    two Wasm layers, a SHA-512 layer and an unsigned image.
  - Two tag moves let the tag move both before and after the pull.
- **Pure operators.** These are checked on every input in their bounds:
  - all configs of up to two constraints per list over two signers (with a
    malformed constraint and repeats) and every set of trusted signers;
  - 72 minimum versions around the running 1.6.2-4+1, with every combination
    of patch, pre-release and build;
  - every sources file with two hosts and up to two authorities each.

### Fairness

The following are weakly fair:

- `RouterHandle`: the router is a tokio task that is always polled again;
- each worker's step: each worker is a dedicated thread;
- each watch task's `WatchApply` and `WatchStamp`: the task is polled whenever
  its stream yields;
- in `TtlMemoCache`, each task's `Lock`, `Respond` and `Store`:
  - a task holding the mutex is polled until the API call returns (the model
    assumes the API server answers);
  - tokio's mutex wakes its head waiter when it is released;
- in `PolicyVerifier`, the three steps of the flow;
- in `ConcurrentRouter`, the router's spawn and every step of each spawned
  task: these are tokio tasks that are polled again whenever they can go on.

Admission requests (`StartEval`, `Call`), cluster changes, the clock, tag moves
and writes to the local store come from outside the system and carry no
fairness. So does the shutdown signal.

## Mutants

Each property of a passing run is shown to fail under a plausible bug in the
code it talks about:

| mutant | breaks | the bug |
|---|---|---|
| `WatchApplyDuplicated` | `TypeOK` (main) | an event the cluster never made is applied |
| `RecvListSinceAtEnd` | `CachedSnapshotFresh` | the kept snapshot is stamped with the instant its build ended, so a change during the build is missed |
| `RecvCheckRetries` | `EvaluationsTerminate` (main) | the checks restart on `true` instead of rebuilding |
| `RecvFailsRetried` | `EvaluationsTerminate` (no_client) | an error reply is retried |
| `TickUnbounded` | `TypeOK` (memo_cache) | the clock bound is off by one |
| `LookupUnlocked` | `UpstreamCoalesced` | the mutex is dropped before the API call (no `sync_writes`) |
| `LockUnfair` | `CallsReturn` | any waiter may take the mutex, so one can starve |
| `VerifySignaturesAgainstConfigStrict` | `VerifyAgreesWithSpec` | `any_of` compared with `<=`, needing one match too many |
| `TagMoveUnbounded` | `TypeOK` (verify_flow) | the tag-move bound is off by one |
| `ManifestForChecksumByTag` | `AcceptedFileIsVerified` | the checksum step fetches the manifest by tag, not by the verified digest |
| `ChecksumMatchesUnstripped` | `MismatchOnlyOnChange` | the `sha256:` prefix is not stripped before comparing |
| `KubewardenVersionUnsanitized` | `LoadMatchesSpec` | the running version keeps its pre-release (v1.6.0-rc4 < v1.6.0) |
| `RecvCheckIgnoresChange` | `SnapshotsEventuallyCurrent` | a `true` answer is read as unchanged and the snapshot is reused |
| `StoreCachingErrors` | `MemoSpec` | without `result = true` an error is cached, which no abstract step does |
| `WatchApplyDuplicated` | `TaskTypeOK` (concurrent_router) | as above |
| `TaskRunWaits` | `EvaluationsTerminate` (concurrent_router) | a task that misses the reflector waits for another to create it |
| `HostCertificatesSkipping` | `ReadSourcesMatchesSpec` | an invalid certificate is skipped instead of failing the file |

## What is proved

TLAPS checks twelve theorems for every value of the constants, from the named
assumptions of the modules that declare the constants.

**Context-aware evaluation.** The assumptions are `KubeClientAssumption` and
`ContextAwareAssumption`:

- `AllowedResources` is a non-empty sequence of kinds without repetition;
- `Discoverable \subseteq Kinds`;
- `MaxChanges \in Nat`;
- `BusCapacity \in Nat \ {0}`.

There are two theorems:

- `ContextAwareEvalProofs!TypeCorrect`: `Spec => []TypeOK`. `TypeOK` alone is
  not inductive. `RecvCheck` reads `cache[w].snap` and must know that a
  checking worker has a kept snapshot. The inductive invariant is therefore
  `TInv == TypeOK /\ CheckHasCache`. The step proof has one case per action and
  under it one step per variable.
- `SnapshotFreshProofs!SnapshotReuseSound`: `Spec => []CachedSnapshotFresh`.
  Every resource of a kept snapshot is current, or its replacement is stamped
  after the snapshot's instant, or its replacement is between `reflect()` and
  the stamp. The theorem does not exclude that last window, in which an
  all-`false` check reuses replaced data; the code has it.
  The inductive invariant `IInv` adds three conjuncts:
  - `InstantsBehindClock`: every instant handed out is `<= clock`. Any later
    stamp is therefore `>` it, so a change stamped after a snapshot's instant
    stays flagged.
  - `RequestsMatchWorkers`: each worker has at most one request in flight. That
    request is for the resource the worker is at, and a reply lands only with a
    waiting worker. This is needed so that a router answer updates exactly the
    worker and the resource the build expects.
  - `BuildFresh`: the part of a snapshot built so far, and a list answer not
    yet read, are fresh with respect to the instant at which the build began.
    When the last answer arrives, this makes the kept snapshot satisfy
    `CachedSnapshotFresh`.

  The argument rests on the lemma that reflectors only move forward
  (`StepMonotone`). Under it, "fresh or flagged" is preserved by every step of
  the environment.

**Memo caches.** The assumption is `TtlMemoCacheAssumption`:

- `TTL \in Nat \ {0}`;
- the bounds are naturals;
- `NoHolder \notin Callers`, so a free mutex is not mistaken for a held one.

There are three theorems:

- `TtlMemoCacheProofs!TypeCorrect`: `Spec => []TypeOK`, a corollary of the
  inductive invariant `IInv` of the next theorem.
- `TtlMemoCacheProofs!Coalesced`: `Spec => []UpstreamCoalesced`.
  `UpstreamCoalesced` is not inductive. A step of another task could, a
  priori, store an entry for the key of a task that is in a call, or take the
  same mutex. The inductive invariant `IInv` adds five conjuncts:
  - `MutexHeld`: a task in a call (from `Lock` until `Store`) holds its
    cache's mutex, and a held mutex belongs to a task in a call on that
    cache. So two calls on one key would mean two holders.
  - `EntriesPast`: no entry is stamped after `now`. A tick therefore only ages
    entries.
  - `UpstreamStale`: a task in a call has no fresh entry.
  - `EntryBelowCluster`: no entry holds a state the cluster has not reached.
  - `AnswerFetchable`: an answer waiting to be stored lies between the stored
    state of its key and the current one. The entry cannot change under it,
    because only the mutex holder stores, and cluster changes only widen the
    range.

  There is one lemma per action: `Call`, `Lock` (split into hit and miss),
  `Respond`, `Store`, `Tick` and `ClusterChange`.
- `TtlMemoCacheProofs!MemoRefinement`: `Spec => Memo!SafetySpec`, the safety
  part of `MemoSpec`. The proof follows the standard refinement pattern:
  - `Init` maps to `Memo!Init`;
  - under `IInv`, each step maps to an abstract step or a stutter. There is
    one lemma per action. The hit branch of `Lock` is a `Serve`. The miss
    branch and `Respond` are stutters of `MemoPc`. `Store` is a `Serve` on a
    key that `UpstreamStale` makes not fresh, with an answer that
    `AnswerFetchable` puts in the abstract `Fetched`. The lemma
    `UpstreamFetched` shows that what the API server answers is in `Fetched`
    when it answers.

  It reuses `[]IInv` from the coalescing proof. The fairness part of
  `MemoSpec` is checked only by TLC.

No theorem bounds how long ago a returned value was read. The code stamps an
entry when it stores it, after the awaited call. A hit can therefore hand out
a state of the cluster read more than `TTL` seconds earlier, and the model
allows that.

**Load checks.** The assumption is `PrecompiledPolicyAssumption`: versions
are semver records of naturals, and the "absent" values are distinct from
present ones.

- `PrecompiledPolicyProofs!LoadSound`: `Spec => []LoadMatchesSpec` for every
  running version.
- The lemma `SanitizedOrder` carries it. Once both sides are cut to
  (major, minor), semver's order (pre-release below release, build as a
  tie-breaker) coincides with the order of (major, minor).

**Spawning router.** The assumptions are those of context-aware evaluation.

- `ConcurrentRouterProofs!TaskTypeCorrect`: `TaskSpec => []TaskTypeOK`.
  The inductive invariant is `TaskInv == TaskTypeOK /\ CheckHasCache /\
  InsertHoldsReflector`. The new conjunct says that a task about to insert
  holds the reflector it created, so `TaskInsert` stores a reflector and not
  the "none" value. The steps of the serial model (`Next` with the task
  variables unchanged) reuse the step lemma `TInvStep` of
  `ContextAwareEvalProofs`; each task action has a lemma of its own.

**Verification flow.** The assumption is `PolicyVerifierAssumption`: the
configuration, the manifests and their signers are well typed, the tag bound
is a natural, SHA-256 is injective on blobs, and the "no digest" and "no
file" values are not digests or blobs.

There are three theorems:

- `PolicyVerifierProofs!TypeCorrect`: `Spec => []TypeOK`.
- `PolicyVerifierProofs!FileVerified`: `Spec => []AcceptedFileIsVerified`.
- `PolicyVerifierProofs!NoFalseAlarm`: `Spec => []MismatchOnlyOnChange`.

They rest on one inductive invariant `IInv`. Besides `TypeOK` and the two
properties, it has four conjuncts:

- `OutcomeOnlyWhenDone`: the flow has no outcome before it is done. Without
  it, a later step could seem to overwrite an accepted outcome.
- `VerifiedSigned`: once `verify` has passed, and as long as the flow goes on
  or has accepted, the verified digest's signers satisfy the configuration.
  This carries the signature verdict from `Verify` to the checksum step.
- `PulledFile`: while the checksum step is pending, the pulled digest is a
  manifest's digest, and an untampered local file is one of its Wasm layers.
  This is what lets a mismatch be blamed on a moved tag or a tampered file.
- `ManifestChecked`: when the file is read, the verified manifest has exactly
  one Wasm layer and that layer is SHA-256. This carries the manifest checks
  across the tampering that may happen before the read.

The lemma `OnlyWasmLayerIsTheOne` states that a manifest with exactly one
Wasm layer has a position `i` with `WasmLayers(m) = {i}`, and that the layer
read by the checksum step is `m[i]`. It is proved from `FS_Interval`,
`FS_Subset` and `FS_Singleton` of `FiniteSetTheorems`. There is one step
lemma per action. `ChecksumStep` ends with an error or goes on to the read.
`DigestStep` splits on its outcome: accept, mismatch or I/O error.

**Signature decision.** The assumption is
`SignatureVerificationAssumption`: the bounds are naturals. There is one
theorem:

- `SignatureVerificationProofs!DecisionCorrect`:
  `Spec => []VerifyAgreesWithSpec` for every set of signers and every bound
  on the lists and on `minimum_matches`.
  - The invariant `SigInv` says that the config and the layers are typed and
    that a result is the decision on them.
  - The argument rests on two lemmas:
    - `RankOnto`: in a finite set of naturals, the ranks of the members are
      exactly `1..Cardinality`. The rank map is injective, because a larger
      member has a strictly larger down-set (`FS_Subset`), so it is onto
      (`FS_Injection`). Every entry of the collected list is therefore at a
      kept position.
    - `FilterCollects`: the collected list has `Len - |satisfied|` entries,
      none of them satisfied, and it is empty exactly when every constraint
      is satisfied (`FS_Difference`).
  - With these, each of the four branches of the decision (no lists, all_of
    failure, any_of failure, accept) is compared with the spec's rule.

**Sources file.** The assumption is `SourcesAssumption`. There is one
theorem:

- `SourcesProofs!ReadSourcesCorrect`: `Spec => []ReadSourcesMatchesSpec`, in
  any HashMap order.
  - The invariant `ReadInv` says that the inputs are typed and that a result
    is one that `read_sources_file` can return on them.
  - The lemmas:
    - `AuthorityOk`: one authority converts exactly when its data is PEM or
      DER, into the certificate the spec names.
    - `HostOk`: a host's list converts exactly when every authority does.
      Otherwise the error is that of a failing authority. The `CHOOSE` of
      the first failing position picks one, by `NatMin`, the least element
      of a non-empty set of naturals, from `WFMin` and
      `NatLessThanWellFounded`.
    - `ReadMatches`: the case split on the file opening, parsing, and a
      failing host or none.

**What only TLC checks.**

- Each inductive invariant was checked with TLC as an invariant of its
  instance before it was proved.
- Liveness (`EvaluationsTerminate`, `CallsReturn`,
  `SnapshotsEventuallyCurrent`, the fairness of `MemoSpec`) is checked only by
  TLC. It needs fairness and ENABLED, which the prover does not
  handle.
- Every invariant of a passing run is proved. What the harness-based proofs
  leave to TLC is the bounds of their harnesses: `ReadSourcesCorrect` is
  about the harness's files of up to two authorities per host, although
  `HostOk` holds for lists of any length.

## Not modelled

- In `ConcurrentRouter`, a reflector that has been created but not yet
  inserted gets no watch events. Those events would only make the task's
  answer newer.
- `get_resource_plural_name`, `get_plural_names` and
  `list_resources_by_namespace`.
- The evaluator dispatch and its conversions (`policy_evaluator.rs`,
  `runtimes.rs`).
- The `kwctl inspect`/`policies` commands and the burrego CLI, which are
  terminal and file I/O.
- The record/replay proxy, whose source is not under `src/`.
- The other host-capability requests that share the bus (OCI, sigstore, DNS).
