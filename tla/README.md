# RDAPify in TLA+

TLA+ models of RDAPify (`src/crates/`): its concurrent core, the way of a single
request from the question to the typed answer, and the programs around it (the HTTP
service and the batch command), checked with TLC and, where it says so, proved with
TLAPS. The models follow the Rust code, not its documentation; where the two disagree,
a run shows it or the list below names it.

    tlc -config CircuitBreaker.cfg MCCircuitBreaker      # a run
    tlapm CircuitBreakerProofs.tla                       # its proofs

`PROJECT.json` lists the runs, the mutants that show each property can fail, the
source lines behind each definition, the hazards and the theorems.

## The system

A query (`RdapClient::domain` and its siblings) finds the registry server in the
bootstrap files, looks in the response cache and, on a miss, leads or follows a
single flight for the key. The leader passes the rate limiter and calls the
fetcher, which asks the circuit breaker of the origin, queues for two
semaphores, sends the request through the egress checks and retries. What arrives is
validated, cached and normalised. A batch runs many queries through a bounded pool; the
service and the command line are callers of the client. Everything is shared between
tokio tasks through `Arc`, atomics, `DashMap`s, moka caches and semaphores; any future may be
dropped at any await (the HTTP service puts a timeout around each request).

| component | state | operations | what is hard | what makes it correct |
|---|---|---|---|---|
| circuit breaker, `rdap-core/src/circuit_breaker.rs` | state, failure counter, opening time, a mutex | `before_call`, `on_success`, `on_failure` | reports that arrive late or never, a clock that goes back | state and counter agree; one probe at a time; it goes on admitting |
| breaker registry, same file | a bounded cache with idle eviction | `get_or_create` | eviction while calls hold the breaker; two clocks | idling forgets no running cooldown (eviction for want of room may), and what it holds stays sound |
| fetcher, `rdap-core/src/fetcher.rs` | per-host and global semaphores, in-flight gauge, retry loop | `fetch_with_cache_hint`, `fetch_with_retry` | nested gates, retries with one counter for all error classes, dropped futures | permits never leak; retries stay within their class; the breaker is used as specified; calls end |
| response cache, `rdap-cache/src/lib.rs` | entries with their lifetimes, statistics | `get_status`, `set_with_ttl`, `set_negative` | decisions on snapshots, a second clock in moka | nothing is served beyond its life |
| single flight, same file | registry of refreshes | `try_acquire_refresh`, `await_refresh`, guard drop | lost wake-ups, capped registry, dropped leaders | one fetch per key; no slot leaks; followers wake |
| client, `rdapify-client/src/lib.rs` | the above, wired together | `fetch_with_cache`, `background_refresh`, the five queries, `domain_available_batch` | lookup, claim and recheck are separate steps; tasks that end in any order | as above, end to end; each name gets its own answer |
| bootstrap resolver, `rdap-bootstrap/src/lib.rs` | four files with an age, registry of downloads | `get_resource`, `clear_cache`, `for_domain`, `for_asn`, `for_ipv4`, `for_ipv6` | a release that is no guard; overlapping services, unusable ones, overrides | one download of a file at a time; lookups end; the most specific name wins |
| rate limiter, `rdap-rate-limit/src/lib.rs` | one GCRA cell, one per host | `acquire`, `try_acquire` | two budgets spent one after the other, sleepers without a queue | traffic within the quotas; progress |
| batch executor, `rdap-batch/src/lib.rs` | pool, channel, counts for a sink | `run_stream`, `run_stream_with_progress` | a slow or vanishing consumer, a pool that only its task polls | each query once, in order when asked, in bounded memory, with counts that agree |
| egress security, `rdap-security` | URL, redirect count and buffer of one request | `secure_request`, `SecureResolver`, `read_limited` | a zone that changes between two resolutions, redirects chosen by servers, lengths announced and not kept, or not announced | only public addresses are reached; requests are bounded, and memory by what has come |
| validation, `rdap-core/src/validation` | a work-stack | `validate_rdap_response` | boundaries of depth and width | it accepts exactly what is within the limits, with a small stack |
| normalizer, `rdap-core/src/normalizer.rs` | none | five conversions | unreadable parts of lists and vcards, wide numbers | damage stays where it is, or hides what the list of disagreements names |
| error classes, `rdap-types/src/error.rs`, `rdap-core/src/error_class.rs`, four more | none | six tables over one taxonomy | each is written on its own | they agree where callers rely on it |
| configuration, `rdap-config`, `FetcherConfig` | file, environment, fetcher fields | `load_config`, `with_env_overrides`, `validate` | two validators; two overlays for who embeds the fetcher | what is accepted starts |
| HTTP service, `rdap-service` | requests, scrapes, exported counters | start-up, lookup, batch, metrics, shutdown | timeouts, overlapping scrapes, a batch that never ends | answers of age; exact counters; shutdown completes |
| command line, `rdap-cli` | arguments, rows, counts | the batch command | partial failure | the report accounts for every query |
| metrics, data types, logging, stream types, storage stubs, bindings, load test | | | | not modelled, see the end |

## The modules

| module | models | runs | proofs |
|---|---|---|---|
| `CircuitBreaker` | one breaker and its concurrent calls | through the next, and `Fetcher` | `CircuitBreakerProofs` |
| `BreakerRegistry` | extends it with the registry that holds and drops the breaker | `breaker`, `breaker_orphan_probe` | `CircuitBreakerProofs` |
| `RetryPolicy` | which error is retried how often, which counts for the breaker, how long to wait | through `Fetcher` and `ErrorClasses` | `FetcherProofs` |
| `Fetcher` | calls to one origin through breaker, gates and retries, and calls to other origins that compete for the global gate; refines `CircuitBreaker` | `fetcher` | `FetcherProofs` |
| `SingleFlight` | abstract: a key has a leader, followers join it, its release lets all of them go | through `QueryPipeline` | refined in `QueryPipelineProofs` |
| `QueryPipeline` | the client's cached query path and the cache's registry of refreshes | `pipeline_safety`, `pipeline_current_thread`, `pipeline_lost_wakeup` | `QueryPipelineProofs` |
| `Bootstrap` | the bootstrap files and their own single flight | `bootstrap`, `bootstrap_dropped_leader` | `BootstrapProofs` |
| `RateLimiter` | both budgets, waiting and not | `rate_limiter` | `RateLimiterProofs` |
| `Batch` | producer, pool, channel, consumer, sink | `batch` | `BatchProofs` |
| `CommandLine` | the batch command; its batch is `Batch` | `batch` | `BatchProofs` |
| `Availability` | `domain_available_batch` | `batch` | `BatchProofs` |
| `Ordered` | a selection from a list, by its places, as operators | through the modules that filter | `RequestPathProofs`, `BatchProofs` |
| `Addresses` | what passes as an address or a URL, as operators | through `Egress` | `RequestPathProofs` |
| `Egress` | one exchange on the wire, up to the bytes of the body, for a query or for a bootstrap file | through `RequestPath` | `RequestPathProofs` |
| `JsonLimits` | the validation of a document | through `RequestPath` | `RequestPathProofs` |
| `Normalizer` | from a body to a typed answer | through `RequestPath` | `RequestPathProofs` |
| `ServerLookup` | the server a bootstrap file names, as operators | through `RequestPath` | `RequestPathProofs` |
| `ErrorClasses` | the six tables over the errors | through `RequestPath` | `RequestPathProofs` |
| `RequestPath` | a lookup from the question to the typed answer, the download of the file included: composes those above, from `Addresses` on | `request_path` | `RequestPathProofs` |
| `AppConfig` | discovery, defaults, environment and both validators, as operators | through `Service` | `ServiceProofs` |
| `MemoryCache` | one key of the response cache over time | through `Service` | `ServiceProofs` |
| `Service` | start-up, requests, scrapes and shutdown over `MemoryCache` and `AppConfig` | `service` | `ServiceProofs` |

`MC*` modules instantiate them for TLC. `MCBatch` composes `CommandLine` and
`Availability`, two callers of the client that share nothing: a behaviour is a launch of the
command, a batch of some other caller, or a round of availability checks.

An action is one statement or one critical section of the code between two
points where another task can run. Only `QueryPipeline` distinguishes runtimes:
with CurrentThread no other task runs between two awaits. Actions carry the names of
the functions they stand for, or of the step in it; operators that the mutants
replace stand before their original, marked `Mutant`.

**CircuitBreaker, BreakerRegistry.** `before_call` is `FastPath` (Closed, without the lock),
`LockedAdmit` or `LockedRefuse`; `OnSuccess`, `OnFailure` and `Abandon` are the
three ways the fetcher may end an admitted call, the last without a report.
Time is the age of the last opening, capped at the cooldown; `SetClockBack`
is a wall clock that jumps, which `now_ms` follows. The registry's idle time (`quiet`) is
moka's, monotonic and counted from `get_or_create`. A dropped breaker lives on for the calls
that hold it (`orphans`), but nobody else will see what they report, so its state is not kept.

**Fetcher.** A call goes through `Start`, the breaker, `BeginLoop`, the host queue,
the global queue, sending, backoff and `Report`. Whether there is a per-host gate
is chosen at the start (`gated`), since `per_host_semaphore` gives none when its
registry is full. The FIFO queues are those of the tokio semaphores. `Others` are calls
to other origins, reduced to what the origin can see of them: they take global permits.
The wait before a retry is the larger of any backoff the jitter may draw and the server's
Retry-After, capped.

**QueryPipeline.** Lookup (miss or stale), claim, subscription, creation of the
future, recheck, fetch, and the two halves of the guard's destructor are
separate steps; background refreshes are tasks of their own. The response itself
is abstracted to whether the cache has a fresh, stale or negative entry or none.

**MemoryCache.** The other half of the abstraction: one key, its entry with its age and with
the time since a registry said it. `Load` takes moka's snapshot, `Settle` is what `get_status`
decides on it later; moka's own expiry may lag the entry's timestamps by `Skew`.

**Service.** A request looks up, answers from its snapshot, waits for a fetch or a batch, and
responds; `Timeout` drops it at whatever it awaits. `ReadStats`, one `Swap` per counter and
`AddDeltas` are `sync_cache_metrics`. Start-up is one action per step of `main` that may fail. An
"embedded" launch is a library user who builds the fetcher from the environment alone.

**AppConfig.** A value is a number or `Wrong`, a text not of its type; places where
a file may be hold nothing, a missing, unreadable or garbled file, or settings.

**Bootstrap.** Look, claim, creation of the future, download, removal,
notification and second look are separate steps. `Drop` drops a lookup at an await. What excuses a second download
(`disturbed`: one that failed or was dropped, a file that was lost) counts for one round of lookups only, until somebody
comes to a file nobody is looking up; `disturbed` of `QueryPipeline` does likewise for a key.

**RateLimiter.** Limiter cells are debts that a tick pays back. `wireDebt` is a meter that
counts requests that are sent as the global limiter would; `promised` remembers
whom nobody has overtaken since it was told how long to sleep.

**Batch.** `Fill` is the part of the pool's `poll_next` that takes queries from the
input, `Yield` and `Poll`/`Complete` the rest; `Send` waits for room. The consumer may
query the same client between two results and may drop the stream.

**CommandLine.** `resolve_format`, `load_cli_config` and `parse_query` decide over a launch;
`Report` is the body of the printing loop, one receive of `Batch`. Rows are counted, not worded.

**Availability.** `SpawnChunk`, `Join` per task in any order, `JoinPanicked`, `EndChunk`.

**Addresses.** An address is its family and the range it falls in; the octet patterns of the
ranges are left out, which classifier covers which range is not. `ValidateUrl` and
`GuardValidate` are the two URL checks of the code, which differ on credentials and `localhost`.

**Egress.** `Admit` and `Check` are the checks of `secure_request` before the request and
after every redirect; `Send` asks the client, which resolves the name once more
(`Reachable`: any address of an answer `SecureResolver` accepts). The zone is not state: each resolution
may answer anything. `Announce`, `Chunk` and `BodyEnds` are `read_limited`; for the bootstrap client
(`reader`) `AnnounceFile` and `Chunk` are `read_capped_bytes`, which has a cap of its own and does not look
at the announced length. `Grown` is what the standard library promises of a `Vec` that is too small; that the old and
the new buffer exist for a moment side by side is left out.

**JsonLimits.** A document is a tree numbered from its root; `Visit` pops one node and pushes
its children, `FieldLimits` is `validate_rdap_object`. The reference (`WithinLimits`)
speaks of depth and width in the tree and knows no stack.

**Normalizer.** A body is the class, the entities, one list that stands for the others and one
number; an element is a record, sound if serde can read it; a vcard is a list of properties, of which an `fn` without a
text and one that is no list are unreadable. `Faithful` is the reference: it names what the code loses to damage
beyond the damaged element, the name of a registrar behind an unreadable property and the high bits of a wide number.

**Ordered.** Where the code filters a list, the models name the places it keeps; `Filtered` is what stands
there, in order. (The provers cannot open SelectSeq or SetToSortSeq, and a selection by place is no longer.)

**ServerLookup.** What is kept of a file and found in it are places (`Kept`, `Listing`, `Covering`). Names are sequences of labels with their case, numbers have as
many bits as the run gives them. The reference (`IsLongestMatch`) speaks of the file as it is
written, not of the index.

**RequestPath.** One task, no cache and one attempt: the concurrency around it is in `QueryPipeline`,
the attempts in `Fetcher`. A question that needs a file (`FileMissing`) downloads it through `Egress`
first. What has served its purpose (the question, the exchange) is
reset, so that TLC does not multiply files, zones and documents.

## What the runs show

| run | bounds | shows |
|---|---|---|
| `breaker` | 3 calls, threshold 2, cooldown 2, idle time 3, a clock set back to 1 tick before the opening | `ClosedIffBelowThreshold`, `SingleFreshProbe`, `HalfOpenHasProbe`; `CooldownOutlivesIdle`: an Open breaker that expires has cooled down; `OnlyLostProbeBlocks`: the breaker refuses for ever only when its probe ended without a report |
| `breaker_orphan_probe` | 2 calls | violated: `KeepsAdmitting` |
| `fetcher` | 2 calls and 1 other, one permit at each gate, 3 attempts, a 503 that asks for more than the cap, a timeout and an unretried 404, one dropped future | `PermitsMatchPlace` (and the gauge runs ahead by dropped attempts only), `RetryBudget`, `BreakerProtocol` (it implements `CircuitBreaker`), `CallsEnd` |
| `pipeline_safety` | 3 queries, 1 refresh, 2 keys, a registry of 1 | `SlotHolderAtWork`, `SingleFetch` |
| `pipeline_current_thread` | 3 queries, 2 refreshes, 1 key | `ImplementsSingleFlight`, `QueriesEnd` |
| `pipeline_lost_wakeup` | 2 queries, 1 key | violated: `QueriesEnd` |
| `bootstrap` | 3 lookups, 2 files, one dropped future | `EntryHasLeader`, `OneDownloadAtATime`, `FollowsOneAtWork` (nobody waits in a circle), `LookupsEndOrForsaken` |
| `bootstrap_dropped_leader` | 2 lookups, 1 file, one dropped future | violated: `EntryReleased` |
| `rate_limiter` | 3 callers, 2 hosts, intervals of 2 and 3 ticks, bursts of 1 | `OutboundBounded`, `WaitsSuffice`, `KeepsSending` |
| `batch` | 6 queries of which 2 fail, a pool of 3, a channel of 2; launches with all flags, 12 kinds of settings, 4 files; 4 names in chunks of 1, 3 and 10 | `EachQueryOnce`, `MemoryBounded`, `InputOrderKept`, `DropCancels`, `SummaryAgrees`, `EndsUnlessSelfBlocked`; `CommandReports`; `AnswersMatchNames` |
| `request_path` | files of up to 2 services, names of up to 3 labels, numbers of 2 bits, a zone of 2 public and 3 blocked addresses, 2 redirects to 8 URLs, bodies of 3 bytes (2 for a file) in chunks of up to 2, buffers from 1 byte, documents of up to 5 nodes with limits of 2, bodies with up to 2 entities and 3 list elements | `RightServer`, `ReachesOnlyPublic`, `WireBounded`, `WalkDecides`, `EachNodeOnce`, `Normalised`, `ErrorsAgree`, `RequestEnds` |
| `service` | 2 requests, or 1 and 2 scrapes; a time to live of 1 with a stale window of 1, a flight and a skew of 1; every field of the configuration at its limits and one beyond, every pair of environment variables of the fetcher | `NeverServedTooOld`, `ScrapesExact`, `AcceptedConfigStarts`, `ShutdownCompletes` |

*Why the bounds are enough.* Three tasks give a leader and two followers that may
meet in any order, or a late report, a probe and a refused call at once; a second key or host
shows that they do not disturb each other; a gate with one permit is the
tightest one; a threshold of two distinguishes a count from a flag; an idle time one tick above the
cooldown lets either run out first; six queries refill a pool of three
after the channel of two has been full; four names make a chunk of three and a rest. In `request_path` two services suffice for a tie, an
unusable service before a usable one and a longer suffix after a shorter; two
redirects and one more reach the limit; three bytes that come one by one without an announced length make a
buffer of four, one more than the limit; with limits of 2, five nodes make a document too
deep, too wide, and one that fills the stack to its bound. In `service` two requests are enough for one
that is held up with its snapshot while the other replaces the entry, and two scrapes for
every overlap of their swaps. Bounds in the models: how far back the clock may be set, any number of times
(`MaxSetback`), dropped futures (`MaxCancels`, `MaxDrops`), at most one per behaviour in the
runs because one suffices to lose a report or an entry, ages and counters (`MaxAge`, `MaxCount`,
`MaxExported`), which stop at values beyond every lifetime and beyond the first count.
`QueryPipeline`, `RateLimiter`, `Batch`, `Availability` and `Service` drop futures without bound.

### Where code and documentation disagree

* `breaker_orphan_probe`: a HalfOpen breaker whose probe ended in a 404, a 429, a
  parse error or a dropped future stays HalfOpen with nothing in flight, and
  refuses every call as long as calls keep coming.
* `pipeline_lost_wakeup`: between the clone of the Notify and the creation of
  its future, on a multi-threaded runtime, a follower misses the notification.
* `bootstrap_dropped_leader`: a leader dropped during its download leaves its
  entry; later lookups of the file wait for ever.

Smaller ones, seen while modelling and without a run of their own:

*Breaker and fetcher*
* A future dropped while its request is out leaves `rdap_inflight_requests` ("currently in
  flight") one too high: the decrement is no guard (`fetcher.rs:884`). `PermitsMatchPlace` says it is never more than that.
* The late success of a call admitted before a trip takes the breaker from Open
  straight to Closed; the diagram in `circuit_breaker.rs` has no such edge.
* `rdap_circuit_breaker_open_total`, described as a count of Closed→Open transitions, is
  incremented by every call that is refused, or fails, while the breaker is Open (`fetcher.rs:717`, `758`). Transitions are
  recorded from states read before and after a call without the lock.
* With `max_attempts` of 4 or more a 429 is retried three times; the table in `fetcher.rs` says two.
* `Semaphore::new(concurrency_limit)` runs before the limit is validated.
* The client overwrites the fetcher's `max_connections_per_host` with its own setting.
* `RDAP_CONCURRENCY_LIMIT` below 16 on its own is refused, since the per-host limit stays at 16.

*Cache and client*
* After a leader that left nothing in the cache, every follower it wakes fetches for itself.
* A background refresh that gets a 404 leaves the stale entry; the query path
  would have cached the 404.
* A document is cached before it is normalised, so a 200 of the wrong class is served for its whole time to live.
* The server's `max-age` is honoured only by `RdapClient::fetch_with_cache_hint`, which nothing calls.
* A panicked check of `domain_available_batch` leaves no answer, and those after it move up.

*Bootstrap, limiter, batch*
* "N concurrent queries arrive, exactly one fetches IANA" (`rdap-bootstrap/src/lib.rs:160`): a lookup that missed before
  the leader stored the file, and comes to the registry after the leader gave its entry back, leads a second download of a file
  that is there and fresh, since a new leader does not look at the cache again (`lib.rs:360`). One downloads at a time
  (`OneDownloadAtATime`), but not one in all; the model takes this step too.
* "Followers wait on a per-resource `Notify` and re-read the cache when the leader signals completion" (`lib.rs:161`): as in
  `pipeline_lost_wakeup`, a follower between the clone of the Notify and `notified()` (`lib.rs:381`) misses the signal. `LookupsEndOrForsaken`
  names it as one of the two ways to hang.
* `for_asn` and `match_ip` take the first match in file order and not the most specific one.
* The first usable server of a service is taken even if its scheme is http and an https one follows;
  the query then fails with InsecureScheme.
* Callers that sleep for their hosts have spent their global cells and may leave
  together: the global rate is exceeded by up to a cell per caller
  (`OutboundBounded` says no more than that). `try_acquire` spends a global cell even
  when the host then refuses. The map of per-host limiters never shrinks.
* `ProgressSink::on_complete` ("after all queries have completed") is also called
  after the stream was dropped; in ordered mode `on_progress` is called when
  a result leaves the pool, not when the query completes.
* A consumer that, between two results, queries the client for an object that a
  query of its own batch leads can block itself and the batch (`SelfBlocked`).
* `BatchConfig::buffer` of 0 panics; `concurrency` of 0 is clamped.
* The batch category RateLimited covers "the local rate limiter or the remote server", but a remote 429 is Fatal.

*Egress and validation*
* `HttpSecurityPolicy::timeout` is the "maximum time allowed for the complete request (connect +
  transfer)"; `secure_request` applies it to the send of each hop on its own, and neither to
  the lookups of names nor to the body. (The client's own timeout covers the body.)
* The client and that timeout have the same deadline, so a hang may be reported as
  Network, retried twice, or as Timeout, retried once.
* A lookup of a name that fails is SsrfBlocked (not retried) in the early check and Network
  (retried) when the client connects.
* `read_limited` allocates what Content-Length announces, up to `max_json_size` ("cap before allocation", `validation/mod.rs:11`),
  but without one (a chunked or a compressed body) its `Vec` grows by doubling: of a limit of 10 MiB, 6 MiB may come to occupy 12.
  Likewise the buffer of `read_capped_bytes`, of which the comment says "we never hold more than `cap + chunk_size`
  bytes in memory" (`rdap-bootstrap/src/lib.rs:474`). `WireBounded` says that beyond what is allocated in advance a buffer is less than twice what it holds.
* The limits on `remarks`, `notices` and `nameservers` in `validate_rdap_object` never fire: the walk
  before it has the same limit for every array.
* An autonomous system number beyond 32 bits is cut to its low 32.
* A vcard property that is no list, or whose name is no string, ends the search for the registrar's name: a readable
  `fn` behind it is not found (`normalizer.rs:340`). So does an `fn` without a text.

*Service and command line*
* A request that runs into TimeoutLayer (504) is counted in no error counter.
* `--concurrency 50` cannot be told from the default, so a setting in the file wins over it; a settings file without
  `concurrency` is discarded as a whole.
* A malformed `ip:` or `asn:` line becomes the name of a domain.
* The exit code is 0 even when every query of the file failed; a CSV error row has six columns under a header of seven.

## Fairness

Weak fairness of the steps of a task that can go on (the runtime schedules
ready tasks), of the passing of time, and of answers: every request and
download has a timeout, so it ends one way or the other. In `Fetcher` the
semaphores are FIFO, so no stronger fairness is needed for queues. Dropped
futures, expiry, clearing and clock changes are never fair, and nothing makes a client call. In `Batch` the consumer is assumed to come
back for the next result unless it waits for its own query or has dropped the
stream; the command line does so in its loop. In `Service` the timer of TimeoutLayer is fair and registries and batches are not, so
`ShutdownCompletes` rests on the timeout alone. In `BreakerRegistry` an expired entry is in the end evicted. In `RequestPath` weak fairness of the whole next-state
relation says no more than that the task goes on: it has no choice of its own but what servers
and zone make it meet. Runs that turn deadlock checking off are those in which the system
may really stop: a batch, a lookup or a process that is over, lookups and queries that have been forsaken.

## Proofs

TLAPS proves for every value of the constants what the runs show for one: every invariant and every action property
of a passing run, and both refinements, are theorems. They rest on the ASSUMEs of the modules, which TLC evaluates
on every run: positive quotas and capacities, marks that are distinct from what they mark,
finitely many callers and scrapers (the code has as many as it has tasks), limits in the ranges the validators leave,
documents that are finite trees, lists that are sequences, questions of one of the three kinds, elements of a body that are told apart by their
places, and file lines of the known kinds.

* `CircuitBreakerProofs`: `TypeOK`, `ClosedIffBelowThreshold`, `SingleFreshProbe`, `HalfOpenHasProbe`, for a breaker
  on its own and again under its registry, and `CooldownOutlivesIdle`.
  The first three are inductive together: `SingleFreshProbe` speaks of the admitted calls that
  predate the trip (the history variable `stale`), and needs the first two to know that only
  a breaker that is Closed or HalfOpen trips, with the counter at the threshold. The fourth
  is inductive on top of them. The registry's steps are those of the breaker, or replace it by a new one whose
  calls are none.
* `FetcherProofs`: `TypeOK`, `PermitsMatchPlace`, `RetryBudget` and `BreakerProtocol`. The retries of a class are bounded by the one counter of
  the loop, which stays ahead of what was retried of any single error while an attempt is out (`Counted`), and the guard compares it with
  the limit of the class. The invariant is a conjunction over calls of what holds of the locals of one (`CallInv`).
  For the permits the invariant (`GateInv`) adds that a queue holds nobody twice, which is what makes a waiter that is dropped
  from its middle leave for good, that other origins never queue for the host, and that nobody does when there is no gate. The gauge
  (`GaugeInv`) is not below zero because it never runs behind the attempts that are out.
  For the refinement every step is a step of the breaker's specification or leaves breaker and view of it (`BreakerView`) alone.
* `BootstrapProofs`: `TypeOK`, `EntryHasLeader`, `OneDownloadAtATime`, `FollowsOneAtWork`. That a woken
  follower may fetch is known because its leader was through with the same
  file: `FollowersMatch` and `Answered` carry that from the leader to the follower, through the round of lookups they belong to;
  that no two lead at a time is `EntryHasLeader`. `FollowsOneAtWork` is the part of
  `LookupsEndOrForsaken` that needs no fairness.
* `QueryPipelineProofs`: `TypeOK`, `SlotHolderAtWork`, `SingleFetch`, and, when CurrentThread,
  `ImplementsSingleFlight`. `SingleFetch` is far from inductive: a query that looks again may fetch
  without a guard, and that it finds an entry, unless the key was disturbed, rests on what a leader
  leaves behind (`Answered`) and on followers following a leader of their own key
  (`FollowersMatch`). For the refinement `Connected` adds that subscribing and waiting,
  and removing and notifying, are one step, so that slot and waiters go together.
  `WaitersHaveLeader` (no wake-up is lost), which no run states, is proved of `SingleFlight` and inherited through the refinement.
  The type invariants (`TypeOK`) are proved, not model-checked.
* `RateLimiterProofs`: `TypeOK`, `OutboundBounded`, `WaitsSuffice`, which are inductive together;
  the account of cells between the limiter and the wire is the invariant itself.
* `BatchProofs`: `TypeOK`, `EachQueryOnce`, `SummaryAgrees`, `MemoryBounded`, `InputOrderKept`, `DropCancels` of the batch. The invariant reserves a place in the pool for
  the result in the producer's hand, and in ordered mode says the pool is the
  interval between what has left it and what has been dispatched. The batch command is shown to take the steps of
  the batch only (`LaunchIsBatch`), so all of this holds for it, and `CommandReports` follows: while it streams, its counts are
  those of what it has received (`CommandInv`), and at the end it has received each query once, so
  the failures it counted are those of the file (`FailuresOnce`). `AnswersMatchNames` of `domain_available_batch` rests on
  `CheckInv`: a name is untouched until its chunk begins, has one task from then on, and its answer at its own place,
  and nowhere else, once the task is joined.
* `RequestPathProofs`: `ReachesOnlyPublic` and `WireBounded`, for every set of
  files, redirects, zone and documents and all limits. The strengthening says at which
  stages nothing has been sent yet (`Fresh`), that a URL that has been admitted passes `ValidateUrl`
  (`Validated`), which makes a literal that is never resolved again a public one, that one request is out
  per redirect followed (`Counted`), and that a buffer which grows is more than half full (`Buffered`).
  `ErrorsAgree` needs to know which errors there are at the end of a lookup (`OutcomeInv`). `WalkDecides` is proved from `WalkInv`: every
  node has been seen to be within the limits, or it or one above it waits (`SeenSound`), and what waits at one depth are
  siblings (`StackSound`), which bounds the stack. `EachNodeOnce`, the part of
  `RequestEnds` that is about the walk, needs that no node that waits is in another (`Apart`). `Normalised` and `RightServer` are
  facts about selections, and the first about the search in a vcard (`NameFaithful`): the order of places is sound (`InOrderSorted`) and a filter keeps the elements at its places in their order
  (`FilteredPlaces`). The longest suffix the index has is a longest registered name in the file as written (`LongestFound`), and where
  nothing is claimed twice the order of the services changes no answer (`OrderDecidesNothing`);
  that a lookup keeps its question until its request begins (`LookupInv`) carries both to the specification.
* `ServiceProofs`: `NeverServedTooOld`, `AcceptedConfigStarts` and `ScrapesExact`. The age of an answer is bounded because every entry, in the
  store and in every snapshot, is honest about its age up to its flight (`Honest`), and the decision on a snapshot looks at that age.
  For the scrapes the sum of what is owed is taken apart one scrape at a time; a swap moves what is between the last value
  and its own into what it owes, and a swap that goes back, because a later one overtook it, owes nothing and
  only lowers that last value (`ScrapeInv`). Without overlap one scrape at a time is at work, and what it has read is not behind the last.

Where a proof needs induction, over the depth of a tree, the numbers of a set or a sum, it takes the least number
that fails, since the induction theorems themselves are out of the provers' reach.

Only model-checked: what needs fairness, which the provers cannot express (`OnlyLostProbeBlocks`, `CallsEnd`, `QueriesEnd`,
`LookupsEndOrForsaken`, `KeepsSending`, `EndsUnlessSelfBlocked`, `RequestEnds`, `ShutdownCompletes`), and the three violations.

## Not modelled

* **Metrics and tracing** (`rdap-metrics`, `rdap-service/src/metrics.rs`): counters and histograms that are only
  written. Two are modelled where they are moved: the in-flight gauge in `Fetcher` and the export of the cache counters in `Service`.
  The duplicates and gaps of the breaker's transition counters are listed above; nothing reads them back.
* **Of modelled components**: the public-suffix check of the bootstrap resolver (an optional feature) and the text of its patterns;
  the octet patterns of address ranges, the lists of `SsrfConfig` (empty by default), `secure_fetch` and the test-only path without the guard;
  `RdapClient::fetch_with_cache_hint` and `CachePolicy::effective_ttl` (unreached); the breaker snapshot for scrapes; the routes,
  the bodies and the health handler of the service, and with the bodies the delivery of a response: `ShutdownCompletes` ends
  a request when its handler has answered, and says nothing of a client that does not read; the single lookups of the command line and its output.
* **Data types, stream types, logging, storage stubs**: no behaviour.
* **Language bindings**: they wrap one client call each. (Python makes a client per call, and so a cache and breakers per call; Node keeps one.)
* **Load test**: drives the service from outside.

Two hazards of the code have no property: which of two timers with one deadline fires first (the code promises
neither), and the breaker's transition counters (see above).
