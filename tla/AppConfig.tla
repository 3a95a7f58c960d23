------------------------------ MODULE AppConfig ------------------------------
(***************************************************************************)
(* From files and environment to a running fetcher: where the              *)
(* configuration is found, what overrides what, what is accepted           *)
(* (crates/rdap-config), and the second, independent check that every      *)
(* fetcher makes of what it is given (crates/rdap-core/src/fetcher.rs).    *)
(*                                                                         *)
(* A value is a number, or Wrong when its text is not one of its type.     *)
(* Strings that nothing checks (paths, the host, the user agent) are left  *)
(* out.                                                                    *)
(***************************************************************************)
EXTENDS Integers, Sequences

CONSTANTS
    Wrong,     \* a text that does not parse as what it should be
    Nothing    \* an option that is None, a variable that is not set

ASSUME ConfigAssumption == Wrong \notin Int /\ Nothing \notin Int

U16 == 0 .. 65535

(* RdapifyConfig::default(), the fields that are checked or chosen from.     *)
(* The histogram buckets are None, or the list of their boundaries.          *)
Defaults ==
    [timeout |-> 5, max_response_mb |-> 5, cache_type |-> "memory", cache_ttl |-> 3600,
     monitoring_workers |-> 4, webhook_workers |-> 2, webhook_timeout |-> 10,
     grace_days |-> 7, log_level |-> "info", log_format |-> "json",
     metrics_port |-> 9090, slow_ms |-> 500, top_n |-> 50, buckets |-> Nothing,
     server_port |-> 8080]

Fields == DOMAIN Defaults
Ports == {"metrics_port", "server_port"}

Enums ==
    [cache_type |-> {"memory", "sqlite", "postgres"},
     log_level |-> {"trace", "debug", "info", "warn", "error"},
     log_format |-> {"json", "text"}]

(* Whether serde, or str::parse, makes a value of the field's type of it. *)
Reads(field, value) ==
    /\ value # Wrong
    /\ field \in DOMAIN Enums => value \in Enums[field]
    /\ field \in Ports => value \in U16

-----------------------------------------------------------------------------
(* resolve_config_path: a path that was asked for must exist; of the usual   *)
(* places the first that has a file is taken, and none need have one.        *)

NoFile     == [is |-> "nothing"]      \* no such place, or nothing there
Missing    == [is |-> "missing"]      \* a path was given that does not exist
Unreadable == [is |-> "unreadable"]
Garbled    == [is |-> "garbled"]      \* no TOML
File(sets) == [is |-> "file", sets |-> sets]

Asked == <<"flag", "RDAPIFY_CONFIG">>
Usual == <<"cwd", "home", "etc">>

Discovered(places) ==
    LET given(names) == SelectSeq(names, LAMBDA p : places[p] # NoFile)
    IN  IF given(Asked) # <<>> THEN places[Head(given(Asked))]
        ELSE IF given(Usual) # <<>> THEN places[Head(given(Usual))] ELSE NoFile

(* What the environment may override, with the fields it sets. *)
EnvFields ==
    {"timeout", "cache_type", "log_level", "log_format", "metrics_port", "server_port"}

(* g's values where g has any. *)
Over(f, g) == [x \in DOMAIN f |-> IF x \in DOMAIN g THEN g[x] ELSE f[x]]

ReadsAll(values) == \A f \in DOMAIN values : Reads(f, values[f])

-----------------------------------------------------------------------------
(* validate_config *)

(* Mutant: the bound on the timeout is one second too high. *)
RangesOneMore ==
    [timeout |-> 1 .. 31, max_response_mb |-> 1 .. 20, cache_ttl |-> 60 .. 86400,
     monitoring_workers |-> 1 .. 32, webhook_workers |-> 1 .. 32,
     webhook_timeout |-> 1 .. 60, grace_days |-> 0 .. 30, metrics_port |-> 1 .. 65535,
     server_port |-> 1 .. 65535, slow_ms |-> 1 .. 60000, top_n |-> 1 .. 1024]

Ranges ==
    [timeout |-> 1 .. 30, max_response_mb |-> 1 .. 20, cache_ttl |-> 60 .. 86400,
     monitoring_workers |-> 1 .. 32, webhook_workers |-> 1 .. 32,
     webhook_timeout |-> 1 .. 60, grace_days |-> 0 .. 30, metrics_port |-> 1 .. 65535,
     server_port |-> 1 .. 65535, slow_ms |-> 1 .. 60000, top_n |-> 1 .. 1024]

BucketsInOrder(buckets) ==
    /\ buckets # <<>>
    /\ \A i \in 1 .. Len(buckets) - 1 : buckets[i] < buckets[i + 1]
    /\ \A i \in DOMAIN buckets : buckets[i] > 0

ValidConfig(config) ==
    /\ \A f \in DOMAIN Ranges : config[f] \in Ranges[f]
    /\ config.buckets # Nothing => BucketsInOrder(config.buckets)

FileError(file) ==
    CASE file.is = "missing" -> "FileNotFound"
      [] file.is = "unreadable" -> "ReadError"
      [] file.is = "garbled" \/ (file.is = "file" /\ ~ReadsAll(file.sets)) -> "ParseError"
      [] OTHER -> "none"

(* load_config: the configuration, if there is no error. *)
LoadConfig(places, env) ==
    LET file == Discovered(places)
        base == IF file.is = "file" THEN Over(Defaults, file.sets) ELSE Defaults
        config == Over(base, env)
        error == IF FileError(file) # "none" THEN FileError(file)
                 ELSE IF ~ReadsAll(env) THEN "EnvError"
                 ELSE IF ~ValidConfig(config) THEN "ValidationError" ELSE "none"
    IN  [error |-> error, config |-> IF error = "none" THEN config ELSE Defaults]

-----------------------------------------------------------------------------
(* FetcherConfig: seconds for the timeout, milliseconds for the rest; the    *)
(* sample rate is in percent, and Wrong stands for NaN and the infinities.   *)

DEFAULT_TIMEOUT == 5
DEFAULT_UPSTREAM_CONCURRENCY == 256
DEFAULT_PER_HOST_CONCURRENCY == 16
DEFAULT_SLOW_REQUEST_THRESHOLD == 500

MAX_TIMEOUT == 30
MAX_ATTEMPTS_CEILING == 10
MAX_CONCURRENCY_LIMIT == 4096

(* The user agent, the keep-alive and trace switches and the limits on a     *)
(* response are neither checked nor in the environment.                      *)
FetcherFields ==
    {"timeout", "max_attempts", "initial_backoff", "max_backoff", "connections",
     "concurrency", "per_host", "slow_ms", "sample_rate"}

FetcherDefaults ==
    [timeout |-> DEFAULT_TIMEOUT, max_attempts |-> 3, initial_backoff |-> 500,
     max_backoff |-> 8000, connections |-> 10,
     concurrency |-> DEFAULT_UPSTREAM_CONCURRENCY,
     per_host |-> DEFAULT_PER_HOST_CONCURRENCY,
     slow_ms |-> DEFAULT_SLOW_REQUEST_THRESHOLD, sample_rate |-> 0]

FetcherEnv ==
    FetcherFields \ {"initial_backoff", "max_backoff", "connections", "slow_ms"}

(* with_env_overrides: what does not parse is ignored with a warning, and    *)
(* zero disables the per-host gate.                                          *)
WithEnvOverrides(config, env) ==
    LET read == [f \in {x \in DOMAIN env : env[x] # Wrong} |->
                    IF f = "per_host" /\ env[f] = 0 THEN Nothing ELSE env[f]]
    IN  Over(config, read)

(* FetcherConfig::validate *)
ValidFetcher(config) ==
    /\ config.timeout \in 1 .. MAX_TIMEOUT
    /\ config.max_attempts \in 1 .. MAX_ATTEMPTS_CEILING
    /\ config.concurrency \in 1 .. MAX_CONCURRENCY_LIMIT
    /\ config.initial_backoff <= config.max_backoff
    /\ config.slow_ms > 0
    /\ config.sample_rate # Wrong /\ config.sample_rate \in 0 .. 100
    /\ config.connections > 0
    /\ config.per_host # Nothing => config.per_host \in 1 .. config.concurrency

(* What main.rs makes of the service's configuration. *)
ServiceFetcher(config) ==
    [FetcherDefaults EXCEPT !.timeout = config.timeout, !.connections = 20]
=============================================================================
