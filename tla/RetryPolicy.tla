------------------------------ MODULE RetryPolicy ------------------------------
(***************************************************************************)
(* The pure decisions of the retry loop                                    *)
(* (crates/rdap-core/src/fetcher.rs): which errors are retried and how     *)
(* often, which of them the circuit breaker counts, and how long to wait.  *)
(* Durations are natural numbers, in a unit of the reader's choice.        *)
(***************************************************************************)
EXTENDS Integers

CONSTANTS
    InitialBackoff,  \* config.initial_backoff
    MaxBackoff,      \* config.max_backoff
    RetryAfterMax    \* RETRY_AFTER_MAX

(* FetcherConfig::validate. *)
ASSUME DelayAssumption ==
    /\ {InitialBackoff, MaxBackoff, RetryAfterMax} \subseteq Nat
    /\ InitialBackoff <= MaxBackoff

(* parse_retry_after found no number of seconds and no date; a date in the   *)
(* past is a hint of 0.                                                      *)
NoHint == -1

(* The errors of an attempt that the decisions tell apart.  `status` is 0    *)
(* unless the upstream answered, and only an answer has a Retry-After.       *)
Failure(kind) == [kind |-> kind, status |-> 0, retry_after |-> NoHint]
Network       == Failure("network")
Timeout       == Failure("timeout")
LocalError    == Failure("local")   \* parse, validation, SSRF, ...
Answered(s, hint) == [kind |-> "http_status", status |-> s, retry_after |-> hint]
HttpStatus(s) == Answered(s, NoHint)

Errors ==
    {Network, Timeout, LocalError}
        \cup [kind : {"http_status"}, status : 300..599, retry_after : Nat \cup {NoHint}]

retry_limit(err) ==
    CASE err.kind = "network" -> 2
      [] err.kind = "timeout" -> 1
      [] err.kind = "http_status" ->
            IF err.status = 429 THEN 3
            ELSE IF err.status = 500 \/ err.status \in 502..504 THEN 2 ELSE 0
      [] OTHER -> 0

is_breaker_failure(err) ==
    \/ err.kind \in {"network", "timeout"}
    \/ err.kind = "http_status" /\ err.status >= 500

(* Mutant: the bounds are off by one. *)
RetriesOnceMore(attempt, err, max_attempts) ==
    attempt <= retry_limit(err) + 1 /\ attempt < max_attempts

(* Whether attempt number `attempt` that ended in err is followed by another. *)
Retries(attempt, err, max_attempts) ==
    attempt <= retry_limit(err) /\ attempt < max_attempts

-----------------------------------------------------------------------------
Smaller(a, b) == IF a <= b THEN a ELSE b
Larger(a, b)  == IF a >= b THEN a ELSE b

(* The delays `backoff` may draw: full jitter up to initial * 2^(n-1), or    *)
(* max_backoff.  (The product saturates above every max_backoff there is.)   *)
Backoffs(attempt) == {d \in 0..MaxBackoff : d <= InitialBackoff * 2^(attempt - 1)}

(* Mutant: the hint is taken as it is. *)
DelayUncapped(err, backoff) ==
    IF err.retry_after = NoHint THEN backoff ELSE Larger(err.retry_after, backoff)

(* A server's Retry-After is a floor on the delay, itself capped. *)
Delay(err, backoff) ==
    IF err.retry_after = NoHint THEN backoff
    ELSE Larger(Smaller(err.retry_after, RetryAfterMax), backoff)
=============================================================================
