-------------------------------- MODULE Service --------------------------------
(***************************************************************************)
(* The HTTP service (crates/rdap-service): it starts from its              *)
(* configuration (AppConfig), answers lookups out of the cache             *)
(* (MemoryCache) or from a registry, lets its counters be scraped, and     *)
(* shuts down.  A library user builds the same fetcher from the            *)
(* environment, without the service.                                       *)
(*                                                                         *)
(* The single flight of QueryPipeline only says who fetches and who waits; *)
(* here a request that missed does either, which allows all it allows.  A  *)
(* batch looks names up in a task of its own (Batch); its handler awaits   *)
(* the results.  TimeoutLayer drops a handler at whatever it awaits.       *)
(***************************************************************************)
EXTENDS MemoryCache, AppConfig, FiniteSetsExt

CONSTANTS
    Handlers,      \* requests at a time
    Scrapers,      \* scrapes of /metrics at a time
    Callers,       \* sets of clients that may be active together
    Launches,      \* the programs, with their files and environments
    NoLaunch,
    Exported,      \* the cache counters that /metrics exports
    MaxExported    \* bound on the exported counters

ASSUME ServiceAssumption ==
    /\ Tasks = Handlers
    /\ Handlers \cap Scrapers = {}
    /\ IsFiniteSet(Scrapers)
    /\ Callers \subseteq SUBSET (Handlers \cup Scrapers)
    /\ Exported \subseteq Counters
    /\ MaxExported \in Nat /\ MaxCount <= MaxExported

VARIABLES
    phase,      \* where the process stands
    cause,      \* what it failed of
    launch,     \* its files and environment, until they are read
    fetcher,    \* the FetcherConfig, until it is in use
    active,     \* the clients of this behaviour
    place,      \* where each request stands
    served,     \* what each request answers out of the cache
    refresh,    \* whether a background refresh is fetching
    seen, owed, todo,    \* of each scrape: stats, deltas, what is left to swap
    last_cache, \* last_cache_stale, last_cache_negative
    exported,   \* rdap_cache_stale_total, rdap_cache_negative_total
    overlapped  \* history: whether two scrapes ever ran at the same time

startup == <<phase, cause, launch, fetcher, active>>
requests == <<place, served, refresh>>
scrapes == <<seen, owed, todo, last_cache, exported, overlapped>>
vars == <<startup, requests, scrapes, cache>>

Zero == [c \in Exported |-> 0]

Init ==
    /\ phase = "load"
    /\ cause = "none"
    /\ launch \in Launches
    /\ fetcher = FetcherDefaults
    /\ active \in Callers
    /\ place = [h \in Handlers \cup Scrapers |-> "idle"]
    /\ served = [h \in Handlers |-> NoEntry]
    /\ refresh = "idle"
    /\ seen = [s \in Scrapers |-> Zero]
    /\ owed = [s \in Scrapers |-> Zero]
    /\ todo = [s \in Scrapers |-> {}]
    /\ last_cache = Zero
    /\ exported = Zero
    /\ overlapped = FALSE
    /\ CacheInit

-----------------------------------------------------------------------------
(* main.rs: each step that fails ends the process with status 1. *)

Exit(why) == phase' = "failed" /\ cause' = why /\ UNCHANGED fetcher
Proceed(next) == phase' = next /\ UNCHANGED cause

Load_config ==
    /\ phase = "load"
    /\ launch.program = "service"
    /\ LET loaded == LoadConfig(launch.places, launch.env) IN
         IF loaded.error # "none"
           THEN Exit(loaded.error)
           ELSE /\ fetcher' = ServiceFetcher(loaded.config)
                /\ Proceed("record")
    /\ UNCHANGED launch

(* install_recorder fails when the process already has one. *)
InstallRecorder ==
    /\ phase = "record"
    /\ \/ Proceed("build") /\ UNCHANGED fetcher
       \/ Exit("recorder")
    /\ UNCHANGED launch

(* A library user's with_env_overrides. *)
OverlayEnv ==
    /\ phase = "load"
    /\ launch.program = "embedded"
    /\ fetcher' = WithEnvOverrides(FetcherDefaults, launch.env)
    /\ Proceed("build")
    /\ UNCHANGED launch

(* RdapClient::with_config, of which only the fetcher's check can fail. *)
BuildClient ==
    /\ phase = "build"
    /\ IF ValidFetcher(fetcher)
         THEN Proceed("built") /\ UNCHANGED fetcher
         ELSE Exit("client")
    /\ UNCHANGED launch

Bind ==
    /\ phase = "built"
    /\ launch.program = "service"
    /\ launch' = NoLaunch
    /\ \/ Proceed("serving") /\ fetcher' = FetcherDefaults
       \/ Exit("bind")

Startup ==
    /\ Load_config \/ InstallRecorder \/ OverlayEnv \/ BuildClient \/ Bind
    /\ UNCHANGED <<active, requests, scrapes, cache>>

-----------------------------------------------------------------------------
(* shutdown_signal and the graceful shutdown of axum: no new request is      *)
(* taken, and the process ends when the last one has been answered.          *)

Signal == phase = "serving" /\ Proceed("draining")

Stop ==
    /\ phase = "draining"
    /\ \A h \in Handlers \cup Scrapers : place[h] = "idle"
    /\ Proceed("stopped")

Shutdown ==
    /\ Signal \/ Stop
    /\ UNCHANGED <<launch, fetcher, active, requests, scrapes, cache>>

-----------------------------------------------------------------------------
(* POST /rdap and POST /batch *)

Goto(h, where) == place' = [place EXCEPT ![h] = where]

Receive(h) ==
    /\ phase = "serving"
    /\ h \in active
    /\ place[h] = "idle"
    /\ Goto(h, "reading")
    /\ UNCHANGED <<served, refresh, cache>>

(* The body is too large or no JSON, the kind is unknown, the batch is empty *)
(* or has more than MAX_BATCH_SIZE names: refused.  Otherwise dispatched.    *)
Dispatch(h) ==
    /\ place[h] = "reading"
    /\ \/ Goto(h, "idle")
       \/ Goto(h, "lookup")
       \/ Goto(h, "batch")
    /\ UNCHANGED <<served, refresh, cache>>

BatchEnds(h) ==
    /\ place[h] = "batch"
    /\ Goto(h, "idle")
    /\ UNCHANGED <<served, refresh, cache>>

(* A follower looks again once it is woken. *)
LookUp(h) ==
    /\ \/ place[h] = "lookup" /\ Goto(h, "held")
       \/ place[h] = "following" /\ Goto(h, "held again")
    /\ Load(h)
    /\ UNCHANGED <<served, refresh>>

(* fetch_with_cache after get_status.  A stale hit may start a refresh, but  *)
(* not when it is a follower's.                                              *)
AnswerFromCache(h) ==
    LET status == Status(held[h]) IN
    /\ place[h] \in {"held", "held again"}
    /\ Settle(h)
    /\ IF status = "miss"
         THEN /\ \/ Goto(h, "fetching")
                 \/ place[h] = "held" /\ Goto(h, "following")
              /\ UNCHANGED <<served, refresh>>
         ELSE /\ Goto(h, "answered")
              /\ served' = [served EXCEPT ![h] = held[h]]
              /\ \/ refresh' = "fetching" /\ status = "stale" /\ place[h] = "held"
                 \/ UNCHANGED refresh

Respond(h) ==
    /\ place[h] = "answered"
    /\ Goto(h, "idle")
    /\ served' = [served EXCEPT ![h] = NoEntry]
    /\ UNCHANGED <<refresh, cache>>

(* What fetcher.fetch returned goes into the cache, and to the client: the   *)
(* document, a 404, or another error.                                        *)
FetchEnds(h) ==
    /\ place[h] = "fetching"
    /\ Goto(h, "idle")
    /\ \/ \E ttl \in Ttls, said \in 0 .. MaxFlight : SetWithTtl(ttl, said)
       \/ \E said \in 0 .. MaxFlight : SetNegative(said)
       \/ UNCHANGED cache
    /\ UNCHANGED <<served, refresh>>

(* background_refresh: only a document is kept. *)
RefreshEnds ==
    /\ refresh = "fetching"
    /\ refresh' = "idle"
    /\ (\E ttl \in Ttls, said \in 0 .. MaxFlight : SetWithTtl(ttl, said)) \/ UNCHANGED cache
    /\ UNCHANGED <<place, served>>

(* Mutant: the deadline does not cover the handler of a batch. *)
TimeoutOfLookups(h) ==
    /\ place[h] \in {"reading", "following", "fetching"}
    /\ Goto(h, "idle")
    /\ UNCHANGED <<served, refresh, cache>>

(* TimeoutLayer: 504, wherever the handler awaits something. *)
Timeout(h) ==
    /\ place[h] \in {"reading", "following", "fetching", "batch"}
    /\ Goto(h, "idle")
    /\ UNCHANGED <<served, refresh, cache>>

(* What a handler does between two awaits. *)
Run(h) == LookUp(h) \/ AnswerFromCache(h) \/ Respond(h)

Request ==
    /\ \/ \E h \in Handlers :
            \/ Receive(h) \/ Dispatch(h) \/ BatchEnds(h) \/ Run(h)
            \/ FetchEnds(h) \/ Timeout(h)
       \/ RefreshEnds
    /\ UNCHANGED <<startup, scrapes>>

(* Entries come and go by themselves. *)
Time ==
    /\ phase \in {"serving", "draining"}
    /\ CacheTick \/ Evict
    /\ UNCHANGED <<startup, requests, scrapes>>

-----------------------------------------------------------------------------
(* GET /metrics: sync_cache_metrics, then the encoding. *)

Scraping(s) == place[s] # "idle"

ReadStats(s) ==
    /\ phase = "serving"
    /\ s \in active
    /\ place[s] = "idle"
    /\ Goto(s, "swapping")
    /\ seen' = [seen EXCEPT ![s] = [c \in Exported |-> counted[c]]]
    /\ todo' = [todo EXCEPT ![s] = Exported]
    /\ overlapped' = (overlapped \/ \E o \in Scrapers \ {s} : Scraping(o))
    /\ UNCHANGED <<owed, last_cache, exported>>

(* Mutant: the last value is read, not swapped. *)
LoadLast(s, c) ==
    LET delta == seen[s][c] - last_cache[c] IN
    /\ place[s] = "swapping" /\ c \in todo[s]
    /\ owed' = [owed EXCEPT ![s][c] = IF delta > 0 THEN delta ELSE 0]
    /\ todo' = [todo EXCEPT ![s] = @ \ {c}]
    /\ UNCHANGED <<place, seen, last_cache, exported, overlapped>>

(* The delta is a saturating subtraction. *)
Swap(s, c) ==
    LET delta == seen[s][c] - last_cache[c] IN
    /\ place[s] = "swapping" /\ c \in todo[s]
    /\ last_cache' = [last_cache EXCEPT ![c] = seen[s][c]]
    /\ owed' = [owed EXCEPT ![s][c] = IF delta > 0 THEN delta ELSE 0]
    /\ todo' = [todo EXCEPT ![s] = @ \ {c}]
    /\ UNCHANGED <<place, seen, exported, overlapped>>

AddDeltas(s) ==
    LET sum(c) == exported[c] + owed[s][c] IN
    /\ place[s] = "swapping" /\ todo[s] = {}
    /\ Goto(s, "idle")
    /\ exported' = [c \in Exported |-> IF sum(c) < MaxExported THEN sum(c) ELSE MaxExported]
    /\ owed' = [owed EXCEPT ![s] = Zero]
    /\ seen' = [seen EXCEPT ![s] = Zero]
    /\ UNCHANGED <<todo, last_cache, overlapped>>

Sync(s) == (\E c \in Exported : Swap(s, c)) \/ AddDeltas(s)

Scrape ==
    /\ \E s \in Scrapers : ReadStats(s) \/ Sync(s)
    /\ UNCHANGED <<startup, served, refresh, cache>>

-----------------------------------------------------------------------------
Next == Startup \/ Shutdown \/ Request \/ Time \/ Scrape

Spec == Init /\ [][Next]_vars

(* Code between two awaits runs on, the timer of TimeoutLayer fires, and the *)
(* server ends once it is drained.  Nothing is assumed of clients, of        *)
(* registries, or of a batch.                                                *)
Fairness ==
    /\ \A h \in Handlers :
        /\ WF_vars(Run(h) /\ Request)
        /\ WF_vars(Timeout(h) /\ Request)
    /\ \A s \in Scrapers : WF_vars(Sync(s) /\ Scrape)
    /\ WF_vars(Stop /\ Shutdown)

LiveSpec == Spec /\ Fairness

-----------------------------------------------------------------------------
(* Properties *)

(* What is answered out of the cache, a registry said at most the time to    *)
(* live ago, plus the stale window's upper bound for a document, plus the    *)
(* time of the answer's flight; however long a lookup was held up between    *)
(* its snapshot and its decision, whatever other requests and refreshes      *)
(* stored in the meantime, and although moka keeps entries a little longer   *)
(* (get_status, set_with_ttl, set_negative).                                 *)
NeverServedTooOld ==
    \A h \in Handlers : served[h] # NoEntry =>
        LET e == served[h] IN
        e.said <= e.ttl + MaxFlight + (IF e.value = "negative" THEN 0 ELSE StaleMax)

(* sync_cache_metrics loses no hit, whatever scrapes overlap: what was seen  *)
(* last has been exported, or some scrape has it still to add.  And as long  *)
(* as no two scrapes ever overlapped it adds none twice.                     *)
ScrapesExact ==
    \A c \in Exported :
        LET known == exported[c] + MapThenSumSet(LAMBDA s : owed[s][c], Scrapers) IN
        /\ known >= last_cache[c]
        /\ ~overlapped => known = last_cache[c] /\ last_cache[c] <= counted[c]

(* Two validators with different limits look at the timeout one after the    *)
(* other: what load_config accepts never fails in the construction of the    *)
(* client.  And a fetcher that was built makes at least one attempt, within  *)
(* a deadline, and has a permit behind every gate it waits at (main.rs,      *)
(* FetcherConfig::validate; what Fetcher assumes).                           *)
AcceptedConfigStarts ==
    /\ phase = "failed" /\ cause = "client" => launch.program # "service"
    /\ phase = "built" =>
        /\ fetcher.timeout > 0
        /\ fetcher.max_attempts \in 1 .. 10
        /\ fetcher.concurrency > 0
        /\ fetcher.per_host # Nothing => fetcher.per_host > 0

(* After the signal the process ends, whatever the requests it has taken are *)
(* waiting for: the body, a registry, another request's fetch, or a batch    *)
(* that never ends.                                                          *)
ShutdownCompletes == phase = "draining" ~> phase = "stopped"
=============================================================================
