------------------------------ MODULE ErrorClasses ------------------------------
(***************************************************************************)
(* What the surfaces of the library make of one RdapError: its status code *)
(* (crates/rdap-types/src/error.rs), its metric classes                    *)
(* (rdap-core/src/error_class.rs), the category of a batch result          *)
(* (rdap-batch), the code the service answers (rdap-service/src/error.rs)  *)
(* and the exit code of the command line (rdap-cli/src/error.rs).  Each is *)
(* a match of its own over the variants.                                   *)
(***************************************************************************)
EXTENDS Integers

(* How long a retry waits matters to no surface. *)
R == INSTANCE RetryPolicy WITH InitialBackoff <- 0, MaxBackoff <- 0, RetryAfterMax <- 0

(* An error is its variant and, for HttpStatus, the status.  The variants    *)
(* BootstrapFetch and Cache are never constructed.                           *)
Local(kind) == [kind |-> kind, status |-> 0]
HttpStatus(status) == [kind |-> "HttpStatus", status |-> status]

status_code(e) ==
    IF e.kind = "HttpStatus" THEN e.status ELSE
    [InvalidInput |-> 400, InvalidUrl |-> 400,
     SsrfBlocked |-> 403, InsecureScheme |-> 403,
     NoServerFound |-> 404, Timeout |-> 408, RateLimited |-> 429,
     ParseError |-> 500, MissingObjectClass |-> 500, UnknownObjectClass |-> 500,
     Network |-> 502, CircuitOpen |-> 503][e.kind]

is_ssrf_blocked(e) == e.kind \in {"SsrfBlocked", "InsecureScheme"}

classify_error(e) ==
    CASE e.kind = "Network" -> "network"
      [] e.kind = "Timeout" -> "timeout"
      [] e.kind = "CircuitOpen" -> "circuit_open"
      [] e.kind = "RateLimited" \/ e = HttpStatus(429) -> "rate_limited"
      [] e.kind = "NoServerFound" -> "internal"
      [] OTHER -> "invalid_response"

(* Mutant: the band comes before the exception. *)
ClassifyByBand(e) ==
    CASE e.kind = "Network" -> "network"
      [] e.kind = "Timeout" -> "timeout"
      [] e.kind = "HttpStatus" /\ e.status >= 500 -> "http_5xx"
      [] OTHER -> "http_4xx"

classify_retry(e) ==
    CASE e.kind = "Network" -> "network"
      [] e.kind = "Timeout" -> "timeout"
      [] e = HttpStatus(429) -> "rate_limited"
      [] e.kind = "HttpStatus" /\ e.status >= 500 -> "http_5xx"
      [] OTHER -> "http_4xx"

(* ErrorCategory of rdap-batch: a 429 of the upstream is Fatal there. *)
Category(e) ==
    CASE e.kind \in {"Timeout", "Network"} -> "Retryable"
      [] e.kind = "RateLimited" -> "RateLimited"
      [] e.kind = "NoServerFound" \/ e = HttpStatus(404) -> "NotFound"
      [] e.kind \in {"InvalidInput", "InvalidUrl", "InsecureScheme"} -> "InvalidInput"
      [] OTHER -> "Fatal"

error_code(e) ==
    CASE e.kind \in {"InvalidInput", "InvalidUrl"} -> "invalid_input"
      [] is_ssrf_blocked(e) -> "forbidden"
      [] e.kind = "NoServerFound" \/ e = HttpStatus(404) -> "not_found"
      [] e.kind = "Timeout" -> "timeout"
      [] e.kind = "RateLimited" -> "rate_limited"
      [] e.kind = "CircuitOpen" -> "upstream_unavailable"
      [] e.kind \in {"ParseError", "MissingObjectClass", "UnknownObjectClass"} -> "internal_error"
      [] OTHER -> "upstream_error"

exit_code(e) ==
    CASE e.kind \in {"InvalidInput", "InvalidUrl"} -> 2
      [] e.kind = "NoServerFound" \/ e = HttpStatus(404) -> 3
      [] e.kind = "RateLimited" -> 4
      [] OTHER -> 1

(* domain_available takes this error for an answer. *)
MeansAvailable(e) == e = HttpStatus(404)

(* The error as the retry loop of the fetcher sees it. *)
AsAttempt(e) ==
    CASE e.kind = "HttpStatus" -> R!HttpStatus(e.status)
      [] e.kind = "Network" -> R!Network
      [] e.kind = "Timeout" -> R!Timeout
      [] OTHER -> R!LocalError

Retried(e) == R!retry_limit(AsAttempt(e)) > 0
MovesBreaker(e) == R!is_breaker_failure(AsAttempt(e))

-----------------------------------------------------------------------------
(* Every surface tells the absence of an object alike. *)
NotFoundAlike(e) ==
    /\ status_code(e) = 404 <=> Category(e) = "NotFound"
    /\ status_code(e) = 404 <=> exit_code(e) = 3
    /\ status_code(e) = 404 <=> error_code(e) = "not_found"
    /\ MeansAvailable(e) => status_code(e) = 404

(* A retry is counted under the class of its error and never under the      *)
(* fallback "http_4xx", which "indicates a bug in the caller's gating       *)
(* logic" (error_class.rs:142).                                             *)
RetriesCounted(e) == Retried(e) => classify_retry(e) # "http_4xx"

(* What a caller may retry the fetcher retries too. *)
RetryableIsRetried(e) == Category(e) = "Retryable" => Retried(e)

(* What is the caller's fault, or an answer, is final: it is not retried,   *)
(* opens no breaker and shows as no failure of the service.                 *)
FinalForAll(e) ==
    Category(e) \in {"InvalidInput", "NotFound"} \/ exit_code(e) \in {2, 3} =>
        ~Retried(e) /\ ~MovesBreaker(e) /\ status_code(e) < 500

(* "back off and retry, but treat as healthy" (error_class.rs:30). *)
ThrottlingIsHealthy(e) == classify_error(e) = "rate_limited" => ~MovesBreaker(e)

Agree(e) ==
    /\ NotFoundAlike(e)
    /\ RetriesCounted(e)
    /\ RetryableIsRetried(e)
    /\ FinalForAll(e)
    /\ ThrottlingIsHealthy(e)
=============================================================================
