----------------------------- MODULE ServiceProofs -----------------------------
(***************************************************************************)
(* Proofs about the service, for every set of handlers and launches, all   *)
(* times to live and every length of the stale window: how old an answer   *)
(* out of the cache may be, that an accepted configuration starts, and     *)
(* that no scrape loses what another has seen.                             *)
(***************************************************************************)
EXTENDS Service, FiniteSetTheorems, WellFoundedInduction, TLAPS

-----------------------------------------------------------------------------
(* The age of an answer.  An entry says how old it is, up to the time of its *)
(* flight; that holds of the store and of every snapshot, and it is what the *)
(* decision on a snapshot uses.                                              *)

Entries == [value : {"hit", "negative"}, ttl : Nat, stale_ttl : Nat, age : Nat, said : Nat]

Honest(e) ==
    e # NoEntry =>
        /\ e \in Entries
        /\ e.said <= e.age + MaxFlight
        /\ e.stale_ttl <= StaleMax

AnswerOfAge(e) ==
    e # NoEntry =>
        e.said <= e.ttl + MaxFlight + (IF e.value = "negative" THEN 0 ELSE StaleMax)

AgeInv ==
    /\ Honest(store)
    /\ DOMAIN held = Tasks
    /\ \A t \in Tasks : Honest(held[t])
    /\ DOMAIN served = Tasks
    /\ \A t \in Tasks : AnswerOfAge(served[t])

(* The stale window of a natural time to live is at most StaleMax. *)
LEMMA WindowBounded ==
    ASSUME NEW ttl \in Nat
    PROVE  StaleWindow(ttl) \in Nat /\ StaleWindow(ttl) <= StaleMax
<1>1. ttl \div StaleShare \in Nat
    BY CacheAssumption
<1> QED
    BY <1>1, CacheAssumption DEF StaleWindow

(* What get_status lets through is of age. *)
LEMMA OnlyOfAge ==
    ASSUME NEW e, Honest(e), Status(e) # "miss"
    PROVE  AnswerOfAge(e)
<1> SUFFICES ASSUME e # NoEntry
             PROVE  e.said <= e.ttl + MaxFlight
                                + (IF e.value = "negative" THEN 0 ELSE StaleMax)
    BY DEF AnswerOfAge
<1>0. /\ e.ttl \in Nat /\ e.stale_ttl \in Nat /\ e.age \in Nat /\ e.said \in Nat
      /\ e.said <= e.age + MaxFlight
      /\ e.stale_ttl <= StaleMax
    BY DEF Honest, Entries
<1>1. CASE e.value = "negative"
    <2>1. e.age <= e.ttl
        BY <1>1 DEF Status, IsFresh
    <2> QED
        BY <1>0, <1>1, <2>1, CacheAssumption
<1>2. CASE e.value # "negative"
    <2>1. e.age <= e.ttl + e.stale_ttl
        BY <1>0, <1>2 DEF Status, IsFresh, IsInStaleWindow, TotalTtl
    <2> QED
        BY <1>0, <1>2, <2>1, CacheAssumption
<1> QED
    BY <1>1, <1>2

(* Time makes no entry a liar. *)
LEMMA OlderStaysHonest ==
    ASSUME NEW e, Honest(e)
    PROVE  Honest(Older(e))
<1> SUFFICES ASSUME e # NoEntry PROVE Honest(Older(e))
    BY DEF Older, Honest
<1>1. CASE e.age < MaxAge
    <2>1. Older(e) = [e EXCEPT !.age = e.age + 1, !.said = e.said + 1]
        BY <1>1 DEF Older
    <2>2. Older(e) \in Entries
        <3>1. e \in Entries
            BY DEF Honest
        <3>2. e.age + 1 \in Nat /\ e.said + 1 \in Nat
            BY <3>1 DEF Entries
        <3> QED
            BY <2>1, <3>1, <3>2 DEF Entries
    <2>3. /\ Older(e).age = e.age + 1 /\ Older(e).said = e.said + 1
          /\ Older(e).stale_ttl = e.stale_ttl
        BY <2>1 DEF Honest, Entries
    <2>4. Older(e).said <= Older(e).age + MaxFlight
        <3>1. e.said \in Nat /\ e.age \in Nat /\ e.said <= e.age + MaxFlight
            BY DEF Honest, Entries
        <3> QED
            BY <2>3, <3>1, CacheAssumption
    <2> QED
        BY <2>2, <2>3, <2>4 DEF Honest
<1>2. CASE ~(e.age < MaxAge)
    <2>1. Older(e) = [e EXCEPT !.age = e.age, !.said = e.said]
        BY <1>2 DEF Older
    <2> QED
        BY <2>1 DEF Honest, Entries
<1> QED
    BY <1>1, <1>2

LEMMA AgeInit == Init => AgeInv
BY ServiceAssumption DEF Init, CacheInit, AgeInv, Honest, AnswerOfAge

(* What is stored is honest when it is stored. *)
LEMMA StoreStaysHonest ==
    ASSUME AgeInv,
           \/ \E ttl \in Ttls, said \in 0 .. MaxFlight : SetWithTtl(ttl, said)
           \/ \E said \in 0 .. MaxFlight : SetNegative(said)
           \/ UNCHANGED cache
    PROVE  Honest(store') /\ held' = held
<1>1. ASSUME NEW ttl \in Ttls, NEW said \in 0 .. MaxFlight, SetWithTtl(ttl, said)
      PROVE  Honest(store') /\ held' = held
    <2>1. ttl \in Nat /\ said \in Nat /\ said <= MaxFlight
        BY CacheAssumption
    <2>2. StaleWindow(ttl) \in Nat /\ StaleWindow(ttl) <= StaleMax
        BY <2>1, WindowBounded
    <2>3. store' = [value |-> "hit", ttl |-> ttl, stale_ttl |-> StaleWindow(ttl),
                    age |-> 0, said |-> said]
        BY <1>1 DEF SetWithTtl, Entry
    <2>4. Honest(store')
        BY <2>1, <2>2, <2>3, CacheAssumption DEF Honest, Entries
    <2> QED
        BY <1>1, <2>4 DEF SetWithTtl
<1>2. ASSUME NEW said \in 0 .. MaxFlight, SetNegative(said)
      PROVE  Honest(store') /\ held' = held
    <2>1. said \in Nat /\ said <= MaxFlight /\ NegativeTtl \in Nat
        BY CacheAssumption
    <2>2. store' = [value |-> "negative", ttl |-> NegativeTtl, stale_ttl |-> 0,
                    age |-> 0, said |-> said]
        BY <1>2 DEF SetNegative, Entry
    <2>3. Honest(store')
        BY <2>1, <2>2, CacheAssumption DEF Honest, Entries
    <2> QED
        BY <1>2, <2>3 DEF SetNegative
<1>3. CASE UNCHANGED cache
    BY <1>3 DEF cache, AgeInv
<1> QED
    BY <1>1, <1>2, <1>3

LEMMA AgeStep == AgeInv /\ [Next]_vars => AgeInv'
<1> SUFFICES ASSUME AgeInv, [Next]_vars
             PROVE  AgeInv'
    OBVIOUS
<1> USE DEF AgeInv
<1>1. ASSUME UNCHANGED <<served, cache>>
      PROVE  AgeInv'
    BY <1>1 DEF cache, Honest, AnswerOfAge
<1>2. ASSUME NEW h \in Handlers, LookUp(h)
      PROVE  AgeInv'
    <2>1. held' = [held EXCEPT ![h] = store] /\ store' = store /\ served' = served
        BY <1>2 DEF LookUp, Load
    <2> QED
        BY <2>1 DEF Honest, AnswerOfAge
<1>3. ASSUME NEW h \in Handlers, AnswerFromCache(h)
      PROVE  AgeInv'
    <2>1. h \in Tasks
        BY ServiceAssumption
    <2>2. /\ store' \in {store, NoEntry}
          /\ held' = [held EXCEPT ![h] = NoEntry]
        BY <1>3 DEF AnswerFromCache, Settle
    <2>3. Honest(store') /\ DOMAIN held' = Tasks /\ \A t \in Tasks : Honest(held'[t])
        BY <2>2 DEF Honest
    <2>4. CASE Status(held[h]) = "miss"
        <3>1. served' = served
            BY <1>3, <2>4 DEF AnswerFromCache
        <3> QED
            BY <2>3, <3>1 DEF Honest, AnswerOfAge
    <2>5. CASE Status(held[h]) # "miss"
        <3>1. served' = [served EXCEPT ![h] = held[h]]
            BY <1>3, <2>5 DEF AnswerFromCache
        <3>2. AnswerOfAge(held[h])
            BY <2>1, <2>5, OnlyOfAge
        <3> QED
            BY <2>1, <2>3, <3>1, <3>2 DEF Honest, AnswerOfAge
    <2> QED
        BY <2>4, <2>5
<1>4. ASSUME NEW h \in Handlers, Respond(h)
      PROVE  AgeInv'
    BY <1>4 DEF Respond, cache, Honest, AnswerOfAge
<1>5. ASSUME NEW h \in Handlers, FetchEnds(h)
      PROVE  AgeInv'
    <2>1. Honest(store') /\ held' = held
        BY <1>5, StoreStaysHonest DEF FetchEnds
    <2>2. served' = served
        BY <1>5 DEF FetchEnds
    <2> QED
        BY <2>1, <2>2 DEF Honest, AnswerOfAge
<1>6. ASSUME RefreshEnds
      PROVE  AgeInv'
    <2>1. Honest(store') /\ held' = held
        BY <1>6, StoreStaysHonest DEF RefreshEnds
    <2>2. served' = served
        BY <1>6 DEF RefreshEnds
    <2> QED
        BY <2>1, <2>2 DEF Honest, AnswerOfAge
<1>7. ASSUME Time
      PROVE  AgeInv'
    <2>1. CASE CacheTick
        <3>1. /\ store' \in {NoEntry, Older(store)}
              /\ held' = [t \in Tasks |-> Older(held[t])]
            BY <2>1 DEF CacheTick
        <3>2. Honest(store')
            BY <3>1, OlderStaysHonest DEF Honest
        <3>3. \A t \in Tasks : Honest(held'[t])
            BY <3>1, OlderStaysHonest
        <3>4. DOMAIN held' = Tasks /\ served' = served
            BY <1>7, <3>1 DEF Time, requests
        <3> QED
            BY <3>2, <3>3, <3>4 DEF Honest, AnswerOfAge
    <2>2. CASE Evict
        <3>1. store' = NoEntry /\ held' = held /\ served' = served
            BY <1>7, <2>2 DEF Time, Evict, requests
        <3> QED
            BY <3>1 DEF Honest, AnswerOfAge
    <2> QED
        BY <1>7, <2>1, <2>2 DEF Time
<1>8. CASE Request
    <2>1. ASSUME NEW h \in Handlers,
                 Receive(h) \/ Dispatch(h) \/ BatchEnds(h) \/ Timeout(h)
          PROVE  AgeInv'
        BY <2>1, <1>1 DEF Receive, Dispatch, BatchEnds, Timeout
    <2> QED
        BY <1>8, <2>1, <1>2, <1>3, <1>4, <1>5, <1>6 DEF Request, Run
<1>9. CASE Startup \/ Shutdown \/ Scrape \/ UNCHANGED vars
    BY <1>9, <1>1 DEF Startup, Shutdown, Scrape, requests, vars
<1> QED
    BY <1>7, <1>8, <1>9 DEF Next

(* Nothing is answered out of the cache that is older than its time to live, *)
(* the bound of the stale window and the flight allow: for all of these.     *)
THEOREM AnswersOfAge == Spec => []NeverServedTooOld
<1>1. AgeInv => NeverServedTooOld
    BY ServiceAssumption DEF AgeInv, AnswerOfAge, NeverServedTooOld
<1> QED
    BY AgeInit, AgeStep, <1>1, PTL DEF Spec

-----------------------------------------------------------------------------
(* The two validators.  Between load_config and the construction of the      *)
(* client, the fetcher of a service has a timeout the first has accepted.    *)

ConfigInv ==
    /\ phase = "record" => launch.program = "service"
    /\ phase \in {"record", "build"} /\ launch.program = "service" => ValidFetcher(fetcher)
    /\ phase = "built" => ValidFetcher(fetcher)
    /\ phase = "failed" /\ cause = "client" => launch.program # "service"

(* An accepted configuration has a timeout that the fetcher accepts.         *)
LEMMA AcceptedTimeout ==
    ASSUME NEW places, NEW env, LoadConfig(places, env).error = "none"
    PROVE  LoadConfig(places, env).config.timeout \in 1 .. 30
<1> DEFINE file == Discovered(places)
           base == IF file.is = "file" THEN Over(Defaults, file.sets) ELSE Defaults
           config == Over(base, env)
           error == IF FileError(file) # "none" THEN FileError(file)
                    ELSE IF ~ReadsAll(env) THEN "EnvError"
                    ELSE IF ~ValidConfig(config) THEN "ValidationError" ELSE "none"
<1>1. LoadConfig(places, env) =
        [error |-> error, config |-> IF error = "none" THEN config ELSE Defaults]
    BY DEF LoadConfig
<1> HIDE DEF config
<1>2. error = "none"
    BY <1>1
<1>3. ValidConfig(config)
    BY <1>2
<1>4. "timeout" \in DOMAIN Ranges
    BY DEF Ranges
<1>5. config["timeout"] \in Ranges["timeout"]
    BY <1>3, <1>4 DEF ValidConfig
<1>6. config.timeout \in 1 .. 30
    BY <1>5 DEF Ranges
<1> QED
    BY <1>1, <1>2, <1>6

(* load_config has no error that could be taken for the client's.            *)
LEMMA LoadErrors ==
    ASSUME NEW places, NEW env
    PROVE  LoadConfig(places, env).error # "client"
<1>1. \A file : FileError(file) # "client"
    BY DEF FileError
<1> QED
    BY <1>1 DEF LoadConfig

LEMMA ServiceFetcherValid ==
    ASSUME NEW config, config.timeout \in 1 .. 30
    PROVE  ValidFetcher(ServiceFetcher(config))
BY ConfigAssumption DEF ValidFetcher, ServiceFetcher, FetcherDefaults, DEFAULT_TIMEOUT,
    DEFAULT_UPSTREAM_CONCURRENCY, DEFAULT_PER_HOST_CONCURRENCY,
    DEFAULT_SLOW_REQUEST_THRESHOLD, MAX_TIMEOUT, MAX_ATTEMPTS_CEILING,
    MAX_CONCURRENCY_LIMIT

LEMMA ConfigInit == Init => ConfigInv
BY DEF Init, ConfigInv

LEMMA ConfigStep == ConfigInv /\ [Next]_vars => ConfigInv'
<1> SUFFICES ASSUME ConfigInv, [Next]_vars
             PROVE  ConfigInv'
    OBVIOUS
<1> USE DEF ConfigInv
<1>1. CASE Load_config
    <2> DEFINE loaded == LoadConfig(launch.places, launch.env)
    <2>1. loaded.error # "client"
        BY LoadErrors
    <2>2. CASE loaded.error # "none"
        BY <1>1, <2>1, <2>2 DEF Load_config, Exit
    <2>3. CASE loaded.error = "none"
        <3>1. ValidFetcher(ServiceFetcher(loaded.config))
            BY <2>3, AcceptedTimeout, ServiceFetcherValid
        <3>2. /\ fetcher' = ServiceFetcher(loaded.config)
              /\ phase' = "record"
              /\ launch' = launch /\ launch.program = "service"
            BY <1>1, <2>3 DEF Load_config, Proceed
        <3> QED
            BY <3>1, <3>2
    <2> QED
        BY <2>2, <2>3
<1>2. CASE InstallRecorder
    BY <1>2 DEF InstallRecorder, Proceed, Exit
<1>3. CASE OverlayEnv
    BY <1>3 DEF OverlayEnv, Proceed
<1>4. CASE BuildClient
    BY <1>4 DEF BuildClient, Proceed, Exit
<1>5. CASE Bind
    BY <1>5 DEF Bind, Proceed, Exit
<1>6. CASE Shutdown
    BY <1>6 DEF Shutdown, Signal, Stop, Proceed
<1>7. CASE Request \/ Time \/ Scrape \/ UNCHANGED vars
    BY <1>7 DEF Request, Time, Scrape, startup, vars
<1> QED
    BY <1>1, <1>2, <1>3, <1>4, <1>5, <1>6, <1>7 DEF Next, Startup

LEMMA InRange ==
    ASSUME NEW n, n \in Int, NEW x, x \in 1 .. n
    PROVE  x \in Int /\ x > 0
OBVIOUS

(* What load_config accepts never fails in the construction of the client,   *)
(* and a fetcher that was built has attempts, time and permits to work with. *)
THEOREM AcceptedStarts == Spec => []AcceptedConfigStarts
<1>1. ConfigInv => AcceptedConfigStarts
    <2>1. ASSUME ConfigInv, phase = "built"
          PROVE  /\ fetcher.timeout > 0
                 /\ fetcher.max_attempts \in 1 .. 10
                 /\ fetcher.concurrency > 0
                 /\ fetcher.per_host # Nothing => fetcher.per_host > 0
        <3> DEFINE timeout == fetcher.timeout
                   max_attempts == fetcher.max_attempts
                   concurrency == fetcher.concurrency
                   per_host == fetcher.per_host
        <3>1. /\ timeout \in 1 .. 30
              /\ max_attempts \in 1 .. 10
              /\ concurrency \in 1 .. 4096
              /\ per_host # Nothing => per_host \in 1 .. concurrency
            BY <2>1 DEF ConfigInv, ValidFetcher, MAX_TIMEOUT, MAX_ATTEMPTS_CEILING,
                MAX_CONCURRENCY_LIMIT
        <3> HIDE DEF timeout, max_attempts, concurrency, per_host
        <3>2. timeout > 0 /\ concurrency > 0 /\ concurrency \in Int
            BY <3>1
        <3>3. per_host # Nothing => per_host > 0
            BY <3>1, <3>2, InRange
        <3> QED
            BY <3>1, <3>2, <3>3 DEF timeout, max_attempts, concurrency, per_host
    <2>2. ConfigInv => (phase = "failed" /\ cause = "client" => launch.program # "service")
        BY DEF ConfigInv
    <2> QED
        BY <2>1, <2>2 DEF AcceptedConfigStarts
<1> QED
    BY ConfigInit, ConfigStep, <1>1, PTL DEF Spec

-----------------------------------------------------------------------------
(* Sums.  What the scrapes still owe a counter is a fold over the scrapes,   *)
(* with one choice of an element per set; the same choice for every summand, *)
(* so two sums can be compared along it without commuting anything.          *)

Owing(o, c, S) == MapThenSumSet(LAMBDA s : o[s][c], S)

Pick(S) == CHOOSE x \in S : TRUE
UpTo(S, n) == {T \in SUBSET S : Cardinality(T) <= n}
Adds(f, o, c, D) ==
    f = [T \in D |-> IF T = {} THEN 0 ELSE o[Pick(T)][c] + f[T \ {Pick(T)}]]

LEMMA LeastNatural ==
    ASSUME NEW N \in SUBSET Nat, N # {}
    PROVE  \E n \in N : \A m \in N : n <= m
<1>1. PICK n \in N : \A m \in N : ~ (<<m, n>> \in OpToRel(<, Nat))
    BY NatLessThanWellFounded, WFMin
<1>2. \A m \in N : ~ (m < n)
    BY <1>1 DEF OpToRel
<1> QED
    BY <1>2

(* A set of natural numbers that has 0 and all successors has them all.      *)
LEMMA NaturalSteps ==
    ASSUME NEW N \in SUBSET Nat, 0 \in N, \A n \in N : n + 1 \in N
    PROVE  N = Nat
<1> DEFINE rest == Nat \ N
<1> SUFFICES ASSUME rest # {} PROVE FALSE
    OBVIOUS
<1> HIDE DEF rest
<1>1. PICK n \in rest : \A m \in rest : n <= m
    BY LeastNatural DEF rest
<1>2. n \in Nat /\ n # 0 /\ n - 1 \in Nat
    BY <1>1 DEF rest
<1>3. n - 1 \in N
    BY <1>1, <1>2 DEF rest
<1> QED
    BY <1>1, <1>2, <1>3 DEF rest

LEMMA PickIn == ASSUME NEW T, T # {} PROVE Pick(T) \in T
BY DEF Pick

LEMMA PickSmaller ==
    ASSUME NEW S, IsFiniteSet(S), NEW T \in SUBSET S, T # {}
    PROVE  /\ T \ {Pick(T)} \in SUBSET S
           /\ Cardinality(T) \in Nat
           /\ Cardinality(T \ {Pick(T)}) = Cardinality(T) - 1
<1>1. IsFiniteSet(T)
    BY FS_Subset
<1> QED
    BY <1>1, PickIn, FS_RemoveElement, FS_CardinalityType

(* The fold over a finite set satisfies the equation it is defined by. *)
LEMMA FoldExists ==
    ASSUME NEW S, IsFiniteSet(S), NEW o, NEW c
    PROVE  \E f : Adds(f, o, c, SUBSET S)
<1> DEFINE N == {n \in Nat : \E f : Adds(f, o, c, UpTo(S, n))}
<1>1. 0 \in N
    <2> DEFINE f == [T \in UpTo(S, 0) |-> 0]
    <2>1. \A T \in UpTo(S, 0) : T = {}
        <3> SUFFICES ASSUME NEW T \in UpTo(S, 0), T # {} PROVE FALSE
            OBVIOUS
        <3>1. IsFiniteSet(T) /\ Cardinality(T) \in Nat /\ Cardinality(T) <= 0
            BY FS_Subset, FS_CardinalityType DEF UpTo
        <3> QED
            BY <3>1, FS_EmptySet
    <2>2. Adds(f, o, c, UpTo(S, 0))
        BY <2>1 DEF Adds
    <2> QED
        BY <2>2
<1>2. ASSUME NEW n \in N PROVE n + 1 \in N
    <2>1. n \in Nat /\ n + 1 \in Nat
        OBVIOUS
    <2>2. PICK f : Adds(f, o, c, UpTo(S, n))
        OBVIOUS
    <2> DEFINE g == [T \in UpTo(S, n + 1) |->
                        IF T = {} THEN 0 ELSE o[Pick(T)][c] + f[T \ {Pick(T)}]]
    <2>3. \A T \in UpTo(S, n) : T \in UpTo(S, n + 1) /\ g[T] = f[T]
        <3>1. ASSUME NEW T \in UpTo(S, n) PROVE T \in UpTo(S, n + 1)
            BY <2>1, FS_Subset, FS_CardinalityType DEF UpTo
        <3> QED
            BY <2>2, <3>1 DEF Adds
    <2>4. \A T \in UpTo(S, n + 1) : T # {} => T \ {Pick(T)} \in UpTo(S, n)
        BY <2>1, PickSmaller DEF UpTo
    <2>5. ASSUME NEW T \in UpTo(S, n + 1)
          PROVE  g[T] = IF T = {} THEN 0 ELSE o[Pick(T)][c] + g[T \ {Pick(T)}]
        BY <2>3, <2>4
    <2>6. Adds(g, o, c, UpTo(S, n + 1))
        <3> HIDE DEF N
        <3>1. g = [T \in UpTo(S, n + 1) |-> g[T]]
            OBVIOUS
        <3> HIDE DEF g
        <3> QED
            BY <2>5, <3>1 DEF Adds
    <2> QED
        BY <2>1, <2>6
<1>3. N = Nat
    <2> HIDE DEF N
    <2>1. N \subseteq Nat
        BY DEF N
    <2> QED
        BY <1>1, <1>2, <2>1, NaturalSteps
<1>4. Cardinality(S) \in N
    BY <1>3, FS_CardinalityType
<1>5. UpTo(S, Cardinality(S)) = SUBSET S
    BY FS_Subset DEF UpTo
<1> QED
    BY <1>4, <1>5

LEMMA OwingIsFold ==
    ASSUME NEW S, IsFiniteSet(S), NEW o, NEW c
    PROVE  \E f : Adds(f, o, c, SUBSET S) /\ Owing(o, c, S) = f[S]
<1> DEFINE f == CHOOSE f : Adds(f, o, c, SUBSET S)
<1>1. Adds(f, o, c, SUBSET S)
    BY FoldExists
<1>2. Owing(o, c, S) = f[S]
    BY DEF Owing, MapThenSumSet, MapThenFoldSet, Adds, Pick
<1> QED
    BY <1>1, <1>2

(* What holds of {} and of a set when it holds of the set without one of its *)
(* elements holds of every finite set.                                       *)
LEMMA SubsetSteps ==
    ASSUME NEW S, IsFiniteSet(S), NEW Good \in SUBSET (SUBSET S), {} \in Good,
           \A T \in SUBSET S : T # {} /\ T \ {Pick(T)} \in Good => T \in Good
    PROVE  S \in Good
<1> DEFINE bad == {T \in SUBSET S : T \notin Good}
<1> SUFFICES ASSUME bad # {} PROVE FALSE
    OBVIOUS
<1>1. bad \subseteq FiniteSubsetsOf(S)
    BY FS_Subset DEF FiniteSubsetsOf
<1>2. IsWellFoundedOn(StrictSubsetOrdering(S), FiniteSubsetsOf(S))
    BY FS_StrictSubsetOrderingWellFounded
<1> HIDE DEF bad
<1>3. PICK T \in bad : \A U \in bad : ~ (<<U, T>> \in StrictSubsetOrdering(S))
    BY <1>1, <1>2, WFMin
<1>4. T \in SUBSET S /\ T # {} /\ T \ {Pick(T)} \in bad
    BY <1>3 DEF bad
<1>5. T \ {Pick(T)} # T
    BY <1>4, PickIn
<1>6. <<T \ {Pick(T)}, T>> \in StrictSubsetOrdering(S)
    BY <1>4, <1>5 DEF StrictSubsetOrdering
<1> QED
    BY <1>3, <1>4, <1>6

LEMMA OwingNat ==
    ASSUME NEW S, IsFiniteSet(S), NEW o, NEW c, \A s \in S : o[s][c] \in Nat
    PROVE  /\ Owing(o, c, S) \in Nat
           /\ (\A s \in S : o[s][c] = 0) => Owing(o, c, S) = 0
<1>1. PICK f : Adds(f, o, c, SUBSET S) /\ Owing(o, c, S) = f[S]
    BY OwingIsFold
<1> DEFINE good(T) == f[T] \in Nat /\ ((\A s \in S : o[s][c] = 0) => f[T] = 0)
           Good == {T \in SUBSET S : good(T)}
<1>2. good({})
    BY <1>1 DEF Adds
<1>3. ASSUME NEW T \in SUBSET S, T # {}, good(T \ {Pick(T)})
      PROVE  good(T)
    <2>1. f[T] = o[Pick(T)][c] + f[T \ {Pick(T)}] /\ Pick(T) \in S
        BY <1>1, <1>3, PickIn DEF Adds
    <2> QED
        BY <1>3, <2>1
<1> HIDE DEF good
<1>4. S \in Good
    <2>1. Good \in SUBSET (SUBSET S) /\ {} \in Good
        BY <1>2
    <2>2. \A T \in SUBSET S : T # {} /\ T \ {Pick(T)} \in Good => T \in Good
        BY <1>3
    <2> HIDE DEF Good
    <2> QED
        BY <2>1, <2>2, SubsetSteps
<1> QED
    BY <1>1, <1>4 DEF good

(* The sum moves as far as the one summand that does. *)
LEMMA OwingMoves ==
    ASSUME NEW S, IsFiniteSet(S), NEW o, NEW p, NEW c, NEW x \in S,
           \A s \in S : o[s][c] \in Nat /\ p[s][c] \in Nat,
           \A s \in S \ {x} : p[s][c] = o[s][c]
    PROVE  Owing(p, c, S) = Owing(o, c, S) - o[x][c] + p[x][c]
<1>1. PICK f : Adds(f, o, c, SUBSET S) /\ Owing(o, c, S) = f[S]
    BY OwingIsFold
<1>2. PICK g : Adds(g, p, c, SUBSET S) /\ Owing(p, c, S) = g[S]
    BY OwingIsFold
<1> DEFINE good(T) == /\ f[T] \in Int
                      /\ g[T] = f[T] + (IF x \in T THEN p[x][c] - o[x][c] ELSE 0)
           Good == {T \in SUBSET S : good(T)}
<1>3. good({})
    BY <1>1, <1>2 DEF Adds
<1>4. ASSUME NEW T \in SUBSET S, T # {}, good(T \ {Pick(T)})
      PROVE  good(T)
    <2>1. /\ f[T] = o[Pick(T)][c] + f[T \ {Pick(T)}]
          /\ g[T] = p[Pick(T)][c] + g[T \ {Pick(T)}]
          /\ Pick(T) \in T /\ Pick(T) \in S
        BY <1>1, <1>2, <1>4, PickIn DEF Adds
    <2>2. CASE Pick(T) = x
        BY <1>4, <2>1, <2>2
    <2>3. CASE Pick(T) # x
        BY <1>4, <2>1, <2>3
    <2> QED
        BY <2>2, <2>3
<1> HIDE DEF good
<1>5. S \in Good
    <2>1. Good \in SUBSET (SUBSET S) /\ {} \in Good
        BY <1>3
    <2>2. \A T \in SUBSET S : T # {} /\ T \ {Pick(T)} \in Good => T \in Good
        BY <1>4
    <2> HIDE DEF Good
    <2> QED
        BY <2>1, <2>2, SubsetSteps
<1> QED
    BY <1>1, <1>2, <1>5 DEF good

-----------------------------------------------------------------------------
(* The scrapes.  A counter that a scrape has still to swap it owes nothing;   *)
(* what it saw, the cache had counted; and alone it saw no less than was      *)
(* swapped last.                                                             *)

Known(c) == exported[c] + Owing(owed, c, Scrapers)

ScrapeTypes ==
    /\ DOMAIN place = Handlers \cup Scrapers
    /\ \A s \in Scrapers : place[s] \in {"idle", "swapping"}
    /\ counted \in [Counters -> 0 .. MaxCount]
    /\ seen \in [Scrapers -> [Exported -> 0 .. MaxCount]]
    /\ owed \in [Scrapers -> [Exported -> 0 .. MaxCount]]
    /\ todo \in [Scrapers -> SUBSET Exported]
    /\ last_cache \in [Exported -> 0 .. MaxCount]
    /\ exported \in [Exported -> 0 .. MaxExported]
    /\ overlapped \in BOOLEAN

ScrapeInv ==
    /\ ScrapeTypes
    /\ \A s \in Scrapers : place[s] = "idle" => owed[s] = Zero /\ todo[s] = {}
    /\ \A s \in Scrapers, c \in Exported :
        /\ c \in todo[s] => owed[s][c] = 0
        /\ seen[s][c] <= counted[c]
    /\ ~overlapped =>
        /\ \A s, o \in Scrapers : place[s] # "idle" /\ place[o] # "idle" => s = o
        /\ \A s \in Scrapers : \A c \in todo[s] : last_cache[c] <= seen[s][c]
    /\ \A c \in Exported :
        /\ Known(c) >= last_cache[c]
        /\ ~overlapped => Known(c) = last_cache[c] /\ last_cache[c] <= counted[c]

LEMMA KnownNat == ScrapeTypes => \A c \in Exported : Owing(owed, c, Scrapers) \in Nat
BY OwingNat, ServiceAssumption DEF ScrapeTypes

LEMMA ScrapeInit == Init => ScrapeInv
<1> SUFFICES ASSUME Init PROVE ScrapeInv
    OBVIOUS
<1>1. \A c \in Exported : Zero[c] = 0
    BY DEF Zero
<1>2. Zero \in [Exported -> 0 .. MaxCount] /\ Zero \in [Exported -> 0 .. MaxExported]
    BY ServiceAssumption, CacheAssumption DEF Zero
<1>3. \A c \in Exported : Owing(owed, c, Scrapers) = 0
    <2>1. \A c \in Exported, s \in Scrapers : owed[s][c] = 0
        BY <1>1 DEF Init
    <2> QED
        BY <2>1, OwingNat, ServiceAssumption
<1>4. ScrapeTypes
    <2>1. counted \in [Counters -> 0 .. MaxCount]
        BY CacheAssumption DEF Init, CacheInit
    <2>2. /\ seen \in [Scrapers -> [Exported -> 0 .. MaxCount]]
          /\ owed \in [Scrapers -> [Exported -> 0 .. MaxCount]]
          /\ last_cache \in [Exported -> 0 .. MaxCount]
          /\ exported \in [Exported -> 0 .. MaxExported]
        BY <1>2 DEF Init
    <2> QED
        BY <2>1, <2>2 DEF Init, ScrapeTypes
<1>5. \A c \in Exported : counted[c] = 0
    BY ServiceAssumption DEF Init, CacheInit
<1> QED
    BY <1>1, <1>3, <1>4, <1>5 DEF Init, ScrapeInv, Known

(* The cache only counts up, and its callers leave the scrapes alone. *)
LEMMA CountsGrow ==
    ASSUME ScrapeInv, UNCHANGED scrapes,
           DOMAIN place' = DOMAIN place, \A s \in Scrapers : place'[s] = place[s],
           counted' \in [Counters -> 0 .. MaxCount],
           \A c \in Counters : counted[c] <= counted'[c]
    PROVE  ScrapeInv'
<1>1. UNCHANGED <<seen, owed, todo, last_cache, exported, overlapped>>
    BY DEF scrapes
<1>2. ScrapeTypes'
    BY <1>1 DEF ScrapeInv, ScrapeTypes
<1>3. \A c \in Exported : counted[c] \in Nat /\ counted'[c] \in Nat /\ counted[c] <= counted'[c]
    BY CacheAssumption, ServiceAssumption DEF ScrapeInv, ScrapeTypes
<1>4. \A s \in Scrapers, c \in Exported : seen[s][c] <= counted'[c]
    BY <1>3, CacheAssumption DEF ScrapeInv, ScrapeTypes
<1>5. \A c \in Exported : last_cache[c] \in Nat
    BY CacheAssumption DEF ScrapeInv, ScrapeTypes
<1>6. \A c \in Exported : Known(c)' = Known(c)
    BY <1>1 DEF Known
<1> QED
    BY <1>1, <1>2, <1>3, <1>4, <1>5, <1>6 DEF ScrapeInv

LEMMA ReadStatsExact ==
    ASSUME ScrapeInv, NEW s \in Scrapers, ReadStats(s), UNCHANGED counted
    PROVE  ScrapeInv'
<1> DEFINE snapshot == [c \in Exported |-> counted[c]]
<1>1. /\ place' = [place EXCEPT ![s] = "swapping"]
      /\ seen' = [seen EXCEPT ![s] = snapshot]
      /\ todo' = [todo EXCEPT ![s] = Exported]
      /\ overlapped' = (overlapped \/ \E o \in Scrapers \ {s} : Scraping(o))
      /\ UNCHANGED <<owed, last_cache, exported, counted>>
      /\ place[s] = "idle"
    BY DEF ReadStats, Goto
<1>2. snapshot \in [Exported -> 0 .. MaxCount] /\ \A c \in Exported : snapshot[c] = counted[c]
    BY ServiceAssumption DEF ScrapeInv, ScrapeTypes
<1> HIDE DEF snapshot
<1>3. ScrapeTypes'
    BY <1>1, <1>2 DEF ScrapeInv, ScrapeTypes, Scraping
<1>4. \A c \in Exported : owed[s][c] = 0 /\ counted[c] \in Nat
    BY <1>1, ServiceAssumption, CacheAssumption DEF ScrapeInv, ScrapeTypes, Zero
<1>5. ASSUME NEW o \in Scrapers
      PROVE  /\ place'[o] = "idle" => owed'[o] = Zero /\ todo'[o] = {}
             /\ \A c \in Exported : (c \in todo'[o] => owed'[o][c] = 0) /\ seen'[o][c] <= counted'[c]
    <2>1. CASE o = s
        BY <1>1, <1>2, <1>4, <2>1 DEF ScrapeInv, ScrapeTypes
    <2>2. CASE o # s
        BY <1>1, <2>2 DEF ScrapeInv, ScrapeTypes
    <2> QED
        BY <2>1, <2>2
<1>6. ASSUME ~overlapped'
      PROVE  /\ \A o, u \in Scrapers : place'[o] # "idle" /\ place'[u] # "idle" => o = u
             /\ \A o \in Scrapers : \A c \in todo'[o] : last_cache'[c] <= seen'[o][c]
    <2>1. ~overlapped /\ \A o \in Scrapers \ {s} : place[o] = "idle"
        BY <1>1, <1>6 DEF Scraping
    <2>2. \A o \in Scrapers \ {s} : place'[o] = "idle" /\ todo'[o] = {}
        BY <1>1, <2>1 DEF ScrapeInv, ScrapeTypes
    <2>3. \A c \in Exported : last_cache[c] <= seen'[s][c]
        BY <1>1, <1>2, <2>1 DEF ScrapeInv, ScrapeTypes
    <2>4. \A c \in todo'[s] : last_cache'[c] <= seen'[s][c]
        BY <1>1, <1>3, <2>3 DEF ScrapeTypes
    <2> QED
        BY <2>2, <2>4
<1>7. ~overlapped' => ~overlapped
    BY <1>1
<1>8. \A c \in Exported : Known(c)' = Known(c)
    BY <1>1 DEF Known
<1> QED
    BY <1>1, <1>3, <1>5, <1>6, <1>7, <1>8 DEF ScrapeInv

LEMMA SwapExact ==
    ASSUME ScrapeInv, NEW s \in Scrapers, NEW c \in Exported, Swap(s, c), UNCHANGED counted
    PROVE  ScrapeInv'
<1> DEFINE delta == seen[s][c] - last_cache[c]
           debt == IF delta > 0 THEN delta ELSE 0
<1>1. /\ place[s] = "swapping" /\ c \in todo[s]
      /\ last_cache' = [last_cache EXCEPT ![c] = seen[s][c]]
      /\ owed' = [owed EXCEPT ![s][c] = debt]
      /\ todo' = [todo EXCEPT ![s] = @ \ {c}]
      /\ UNCHANGED <<place, seen, exported, overlapped, counted>>
    BY DEF Swap
<1>2. seen[s][c] \in 0 .. MaxCount /\ last_cache[c] \in 0 .. MaxCount /\ MaxCount \in Nat
    BY CacheAssumption DEF ScrapeInv, ScrapeTypes
<1>3. debt \in 0 .. MaxCount
    BY <1>2
<1> HIDE DEF debt
<1>4. ScrapeTypes'
    <2>1. owed' \in [Scrapers -> [Exported -> 0 .. MaxCount]]
        BY <1>1, <1>3 DEF ScrapeInv, ScrapeTypes
    <2>2. last_cache' \in [Exported -> 0 .. MaxCount]
        BY <1>1, <1>2 DEF ScrapeInv, ScrapeTypes
    <2>3. todo' \in [Scrapers -> SUBSET Exported]
        BY <1>1 DEF ScrapeInv, ScrapeTypes
    <2> QED
        BY <1>1, <2>1, <2>2, <2>3 DEF ScrapeInv, ScrapeTypes
<1>5. \A o \in Scrapers, d \in Exported :
        owed'[o][d] = IF o = s /\ d = c THEN debt ELSE owed[o][d]
    BY <1>1 DEF ScrapeInv, ScrapeTypes
<1>6. ASSUME NEW o \in Scrapers
      PROVE  /\ place'[o] = "idle" => owed'[o] = Zero /\ todo'[o] = {}
             /\ \A d \in Exported : (d \in todo'[o] => owed'[o][d] = 0) /\ seen'[o][d] <= counted'[d]
    <2>1. CASE o = s
        <3>1. todo'[s] = todo[s] \ {c}
            BY <1>1 DEF ScrapeInv, ScrapeTypes
        <3> QED
            BY <1>1, <1>5, <2>1, <3>1 DEF ScrapeInv
    <2>2. CASE o # s
        <3>1. owed'[o] = owed[o] /\ todo'[o] = todo[o]
            BY <1>1, <2>2 DEF ScrapeInv, ScrapeTypes
        <3> QED
            BY <1>1, <3>1 DEF ScrapeInv
    <2> QED
        BY <2>1, <2>2
<1>7. ASSUME ~overlapped'
      PROVE  /\ \A o, u \in Scrapers : place'[o] # "idle" /\ place'[u] # "idle" => o = u
             /\ \A o \in Scrapers : \A d \in todo'[o] : last_cache'[d] <= seen'[o][d]
    <2>1. ~overlapped /\ \A o \in Scrapers \ {s} : place[o] = "idle"
        BY <1>1, <1>7 DEF ScrapeInv
    <2>2. ASSUME NEW o \in Scrapers, NEW d \in todo'[o] PROVE last_cache'[d] <= seen'[o][d]
        <3>1. o = s /\ d \in todo[s] \ {c}
            BY <1>1, <2>1 DEF ScrapeInv, ScrapeTypes
        <3>2. last_cache'[d] = last_cache[d]
            BY <1>1, <3>1 DEF ScrapeInv, ScrapeTypes
        <3> QED
            BY <1>1, <2>1, <3>1, <3>2 DEF ScrapeInv
    <2> QED
        BY <1>1, <2>1, <2>2
<1>8. ASSUME NEW d \in Exported
      PROVE  /\ Known(d)' >= last_cache'[d]
             /\ ~overlapped' => Known(d)' = last_cache'[d] /\ last_cache'[d] <= counted'[d]
    <2>1. CASE d = c
        <3>1. owed[s][c] = 0 /\ seen[s][c] <= counted[c]
            BY <1>1 DEF ScrapeInv
        <3>2. Owing(owed', c, Scrapers) = Owing(owed, c, Scrapers) - owed[s][c] + owed'[s][c]
            <4>1. \A o \in Scrapers : owed[o][c] \in Nat /\ owed'[o][c] \in Nat
                BY <1>4, CacheAssumption DEF ScrapeInv, ScrapeTypes
            <4>2. \A o \in Scrapers \ {s} : owed'[o][c] = owed[o][c]
                BY <1>5
            <4> QED
                BY <4>1, <4>2, OwingMoves, ServiceAssumption
        <3>3. owed'[s][c] = debt
            BY <1>5
        <3>4. Owing(owed, c, Scrapers) \in Nat /\ exported[c] \in Nat
            BY KnownNat, ServiceAssumption DEF ScrapeInv, ScrapeTypes
        <3>5. Known(c)' = Known(c) + debt /\ Known(c) \in Nat
            BY <1>1, <1>3, <3>1, <3>2, <3>3, <3>4 DEF Known
        <3>6. last_cache'[c] = seen[s][c]
            BY <1>1 DEF ScrapeInv, ScrapeTypes
        <3>7. Known(c) >= last_cache[c]
            BY DEF ScrapeInv
        <3>8. Known(c)' >= last_cache'[c]
            BY <1>2, <3>5, <3>6, <3>7 DEF debt
        <3>9. ASSUME ~overlapped' PROVE Known(c)' = last_cache'[c]
            <4>1. Known(c) = last_cache[c] /\ last_cache[c] <= seen[s][c]
                BY <1>1, <3>9 DEF ScrapeInv
            <4> QED
                BY <1>2, <3>5, <3>6, <4>1 DEF debt
        <3> QED
            BY <1>1, <2>1, <3>1, <3>6, <3>8, <3>9
    <2>2. CASE d # c
        <3>1. Owing(owed', d, Scrapers) = Owing(owed, d, Scrapers) - owed[s][d] + owed'[s][d]
            <4>1. \A o \in Scrapers : owed[o][d] \in Nat /\ owed'[o][d] \in Nat
                BY <1>4, CacheAssumption DEF ScrapeInv, ScrapeTypes
            <4>2. \A o \in Scrapers \ {s} : owed'[o][d] = owed[o][d]
                BY <1>5
            <4> QED
                BY <4>1, <4>2, OwingMoves, ServiceAssumption
        <3>2. owed'[s][d] = owed[s][d] /\ owed[s][d] \in Nat
            BY <1>5, <2>2, CacheAssumption DEF ScrapeInv, ScrapeTypes
        <3>3. Known(d)' = Known(d)
            BY <1>1, <3>1, <3>2, KnownNat, ServiceAssumption DEF Known, ScrapeInv, ScrapeTypes
        <3>4. last_cache'[d] = last_cache[d]
            BY <1>1, <2>2 DEF ScrapeInv, ScrapeTypes
        <3> QED
            BY <1>1, <3>3, <3>4 DEF ScrapeInv
    <2> QED
        BY <2>1, <2>2
<1> QED
    BY <1>4, <1>6, <1>7, <1>8 DEF ScrapeInv

(* What a scrape adds is no more than is still owed, so the bound on the     *)
(* exported counter does not cut it unless scrapes have overlapped.          *)
LEMMA AddDeltasExact ==
    ASSUME ScrapeInv, NEW s \in Scrapers, AddDeltas(s), UNCHANGED counted
    PROVE  ScrapeInv'
<1>1. /\ place[s] = "swapping" /\ todo[s] = {}
      /\ place' = [place EXCEPT ![s] = "idle"]
      /\ owed' = [owed EXCEPT ![s] = Zero]
      /\ seen' = [seen EXCEPT ![s] = Zero]
      /\ UNCHANGED <<todo, last_cache, overlapped, counted>>
    BY DEF AddDeltas, Goto
<1>2. Zero \in [Exported -> 0 .. MaxCount] /\ \A c \in Exported : Zero[c] = 0
    BY CacheAssumption DEF Zero
<1>3. \A c \in Exported :
        /\ exported[c] \in 0 .. MaxExported /\ owed[s][c] \in 0 .. MaxCount
        /\ last_cache[c] \in 0 .. MaxCount /\ counted[c] \in Nat
        /\ MaxCount \in Nat /\ MaxExported \in Nat /\ MaxCount <= MaxExported
    BY CacheAssumption, ServiceAssumption DEF ScrapeInv, ScrapeTypes
<1>4. exported' = [c \in Exported |->
        IF exported[c] + owed[s][c] < MaxExported THEN exported[c] + owed[s][c] ELSE MaxExported]
    BY DEF AddDeltas
<1>5. ScrapeTypes'
    <2>1. exported' \in [Exported -> 0 .. MaxExported]
        BY <1>3, <1>4
    <2> QED
        BY <1>1, <1>2, <2>1 DEF ScrapeInv, ScrapeTypes
<1>6. ASSUME NEW o \in Scrapers
      PROVE  /\ place'[o] = "idle" => owed'[o] = Zero /\ todo'[o] = {}
             /\ \A c \in Exported : (c \in todo'[o] => owed'[o][c] = 0) /\ seen'[o][c] <= counted'[c]
    <2>1. CASE o = s
        BY <1>1, <1>2, <1>3, <2>1 DEF ScrapeInv, ScrapeTypes
    <2>2. CASE o # s
        BY <1>1, <2>2 DEF ScrapeInv, ScrapeTypes
    <2> QED
        BY <2>1, <2>2
<1>7. ASSUME ~overlapped'
      PROVE  /\ \A o, u \in Scrapers : place'[o] # "idle" /\ place'[u] # "idle" => o = u
             /\ \A o \in Scrapers : \A c \in todo'[o] : last_cache'[c] <= seen'[o][c]
    <2>1. ~overlapped /\ \A o \in Scrapers \ {s} : place[o] = "idle"
        BY <1>1, <1>7 DEF ScrapeInv
    <2>2. \A o \in Scrapers : place'[o] = "idle" /\ todo'[o] = {}
        BY <1>1, <2>1 DEF ScrapeInv, ScrapeTypes
    <2> QED
        BY <2>2
<1>8. ASSUME NEW c \in Exported
      PROVE  /\ Known(c)' >= last_cache'[c]
             /\ ~overlapped' => Known(c)' = last_cache'[c] /\ last_cache'[c] <= counted'[c]
    <2>1. owed'[s][c] = 0 /\ \A o \in Scrapers \ {s} : owed'[o][c] = owed[o][c]
        BY <1>1, <1>2 DEF ScrapeInv, ScrapeTypes
    <2>2. Owing(owed', c, Scrapers) = Owing(owed, c, Scrapers) - owed[s][c]
        <3>1. \A o \in Scrapers : owed[o][c] \in Nat /\ owed'[o][c] \in Nat
            <4>1. \A o \in Scrapers : owed[o][c] \in Nat
                BY CacheAssumption DEF ScrapeInv, ScrapeTypes
            <4>2. \A o \in Scrapers : owed'[o][c] \in Nat
                BY <1>5, CacheAssumption DEF ScrapeTypes
            <4> QED
                BY <4>1, <4>2
        <3>5. \A o \in Scrapers \ {s} : owed'[o][c] = owed[o][c]
            BY <2>1
        <3>2. Owing(owed', c, Scrapers) = Owing(owed, c, Scrapers) - owed[s][c] + owed'[s][c]
            BY <3>1, <3>5, OwingMoves, ServiceAssumption
        <3>3. Owing(owed, c, Scrapers) \in Nat
            BY KnownNat DEF ScrapeInv
        <3> QED
            BY <1>3, <2>1, <3>2, <3>3
    <2>3. Owing(owed, c, Scrapers) \in Nat /\ Owing(owed', c, Scrapers) \in Nat
        <3>1. \A o \in Scrapers : owed'[o][c] \in Nat
            BY <1>5, CacheAssumption DEF ScrapeTypes
        <3> QED
            BY <3>1, KnownNat, OwingNat, ServiceAssumption DEF ScrapeInv
    <2>4. Known(c)' = exported'[c] + Owing(owed', c, Scrapers)
        BY DEF Known
    <2>5. last_cache'[c] = last_cache[c] /\ counted'[c] = counted[c]
        BY <1>1
    <2>6. CASE exported[c] + owed[s][c] < MaxExported
        <3>1. Known(c)' = Known(c)
            BY <1>3, <1>4, <2>2, <2>3, <2>4, <2>6 DEF Known
        <3> QED
            BY <1>1, <2>5, <3>1 DEF ScrapeInv
    <2>7. CASE ~(exported[c] + owed[s][c] < MaxExported)
        <3>1. exported'[c] = MaxExported
            BY <1>4, <2>7
        <3>2. Known(c)' >= last_cache'[c]
            BY <1>3, <2>3, <2>4, <2>5, <3>1
        <3>3. ASSUME ~overlapped' PROVE Known(c)' = last_cache'[c] /\ last_cache'[c] <= counted'[c]
            <4>1. Known(c) = last_cache[c] /\ last_cache[c] <= counted[c]
                BY <1>1, <3>3 DEF ScrapeInv
            <4>2. exported[c] + owed[s][c] <= Known(c)
                BY <1>3, <2>2, <2>3 DEF Known
            <4>3. exported[c] + owed[s][c] = MaxExported
                BY <1>3, <2>7, <4>1, <4>2
            <4> QED
                BY <1>3, <2>2, <2>3, <2>4, <2>5, <3>1, <4>1, <4>3 DEF Known
        <3> QED
            BY <3>2, <3>3
    <2> QED
        BY <2>6, <2>7
<1> QED
    BY <1>5, <1>6, <1>7, <1>8 DEF ScrapeInv

(* A handler moves on its own, and only a decision on a snapshot counts. *)
LEMMA HandlerLeavesScrapes ==
    ASSUME ScrapeInv, NEW h \in Handlers, NEW where, Goto(h, where)
    PROVE  DOMAIN place' = DOMAIN place /\ \A s \in Scrapers : place'[s] = place[s]
BY ServiceAssumption DEF Goto, ScrapeInv, ScrapeTypes

LEMMA SettleCounts ==
    ASSUME ScrapeInv, NEW t, Settle(t)
    PROVE  /\ counted' \in [Counters -> 0 .. MaxCount]
           /\ \A c \in Counters : counted[c] <= counted'[c]
<1>1. \A c \in Counters : counted[c] \in 0 .. MaxCount /\ MaxCount \in Nat
    BY CacheAssumption DEF ScrapeInv, ScrapeTypes
<1>2. counted' = [c \in Counters |->
        IF c = Status(held[t]) /\ counted[c] < MaxCount THEN counted[c] + 1 ELSE counted[c]]
    BY DEF Settle
<1> QED
    BY <1>1, <1>2

LEMMA ScrapeStep == ScrapeInv /\ [Next]_vars => ScrapeInv'
<1> SUFFICES ASSUME ScrapeInv, [Next]_vars PROVE ScrapeInv'
    OBVIOUS
<1>1. ASSUME UNCHANGED scrapes, UNCHANGED counted,
             DOMAIN place' = DOMAIN place, \A s \in Scrapers : place'[s] = place[s]
      PROVE  ScrapeInv'
    <2>1. /\ counted' \in [Counters -> 0 .. MaxCount]
          /\ \A c \in Counters : counted[c] <= counted'[c]
        BY <1>1, CacheAssumption DEF ScrapeInv, ScrapeTypes
    <2> QED
        BY <1>1, <2>1, CountsGrow
<1>2. ASSUME NEW h \in Handlers, AnswerFromCache(h), UNCHANGED scrapes
      PROVE  ScrapeInv'
    <2>1. PICK where \in {"fetching", "following", "answered"} : Goto(h, where)
        BY <1>2 DEF AnswerFromCache
    <2>2. Settle(h)
        BY <1>2 DEF AnswerFromCache
    <2> QED
        BY <1>2, <2>1, <2>2, HandlerLeavesScrapes, SettleCounts, CountsGrow
<1>3. ASSUME NEW h \in Handlers, UNCHANGED scrapes,
             \/ Receive(h) \/ Dispatch(h) \/ BatchEnds(h) \/ LookUp(h)
             \/ Respond(h) \/ FetchEnds(h) \/ Timeout(h)
      PROVE  ScrapeInv'
    <2>1. \E where : Goto(h, where)
        BY <1>3 DEF Receive, Dispatch, BatchEnds, LookUp, Respond, FetchEnds, Timeout
    <2>2. UNCHANGED counted
        BY <1>3 DEF Receive, Dispatch, BatchEnds, LookUp, Load, Respond, FetchEnds, Timeout,
                    SetWithTtl, SetNegative, cache
    <2> QED
        BY <1>1, <1>3, <2>1, <2>2, HandlerLeavesScrapes
<1>4. CASE Request
    <2>1. CASE RefreshEnds
        <3>1. UNCHANGED <<place, counted>> /\ UNCHANGED scrapes
            BY <1>4, <2>1 DEF Request, RefreshEnds, SetWithTtl, cache
        <3> QED
            BY <1>1, <3>1
    <2> QED
        BY <1>2, <1>3, <1>4, <2>1 DEF Request, Run
<1>5. CASE Startup \/ Shutdown \/ Time \/ UNCHANGED vars
    <2>1. UNCHANGED <<place, counted>> /\ UNCHANGED scrapes
        BY <1>5 DEF Startup, Shutdown, Time, CacheTick, Evict, requests, cache, vars
    <2> QED
        BY <1>1, <2>1
<1>6. CASE Scrape
    <2>1. UNCHANGED counted
        BY <1>6 DEF Scrape, cache
    <2> QED
        BY <1>6, <2>1, ReadStatsExact, SwapExact, AddDeltasExact DEF Scrape, Sync
<1> QED
    BY <1>4, <1>5, <1>6 DEF Next

(* However scrapes overlap no hit is lost, and without overlap none is       *)
(* exported twice: for any number of scrapes and of counters.                *)
THEOREM CountersExported == Spec => []ScrapesExact
<1>1. ScrapeInv => ScrapesExact
    BY DEF ScrapeInv, Known, Owing, ScrapesExact
<1> QED
    BY ScrapeInit, ScrapeStep, <1>1, PTL DEF Spec
=============================================================================
