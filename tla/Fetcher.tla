-------------------------------- MODULE Fetcher --------------------------------
(***************************************************************************)
(* Logical calls of the fetcher to one upstream origin                     *)
(* (crates/rdap-core/src/fetcher.rs): the breaker is asked once, then the  *)
(* retry loop makes attempts, each under a per-host and a global permit,   *)
(* and what the loop returns is reported to the breaker once.              *)
(*                                                                         *)
(* Both gates are tokio semaphores: waiters are served in FIFO order.  The *)
(* global one is shared with the attempts of Others, calls to other        *)
(* origins.  A caller may drop the future at any await (the request        *)
(* timeout of the service, a batch whose consumer left): Rust then drops   *)
(* what the future holds, permits and queue places included.               *)
(***************************************************************************)
EXTENDS RetryPolicy, SequencesExt

CONSTANTS
    Calls,          \* logical calls to this origin
    Others,         \* attempts against other origins
    Outcomes,       \* the errors an attempt may end in
    MaxAttempts,    \* config.max_attempts
    HostLimit,      \* per_host_concurrency_limit
    GlobalLimit,    \* concurrency_limit
    MaxCancels,     \* bound: dropped futures in a behaviour
    Threshold, Cooldown, MaxSetback, NoCall   \* of the breaker

ASSUME FetcherAssumption ==
    /\ Calls \cap Others = {}
    /\ Outcomes \subseteq Errors
    /\ MaxAttempts \in 1..10          \* MAX_ATTEMPTS_CEILING
    /\ HostLimit \in Nat \ {0}
    /\ GlobalLimit \in Nat \ {0}
    /\ MaxCancels \in Nat

VARIABLES
    place,            \* where each call or other attempt stands
    attempt,          \* the loop's attempt counter
    result,           \* how the last attempt ended, until it is retried or reported
    wait,             \* how long the call sleeps before the next attempt
    hostQueue, hostHeld,       \* the per-host semaphore
    globalQueue, globalHeld,   \* the global semaphore
    gated,            \* whether the origin has a per-host semaphore
    inflight_gauge,   \* rdap_inflight_requests
    retried,          \* history: errors of each kind this call has retried
    cancels,          \* dropped futures so far
    state, consecutive_failures, sinceOpened, stale, probe   \* the breaker

gates == <<gated, hostQueue, hostHeld, globalQueue, globalHeld>>
loop == <<place, attempt, result, wait, retried>>
breaker == <<state, consecutive_failures, sinceOpened, stale, probe>>
vars == <<loop, gates, inflight_gauge, cancels, breaker>>

(* How the breaker sees a call. *)
BreakerView ==
    [c \in Calls |->
        IF place[c] \in {"idle", "locking"} THEN place[c] ELSE "running"]

CB == INSTANCE CircuitBreaker WITH call <- BreakerView

Ok == Failure("ok")
Tasks == Calls \cup Others
NoRetries == [e \in Outcomes |-> 0]

-----------------------------------------------------------------------------
(* per_host_semaphore answers an origin the same way for ever: without the   *)
(* option there is no gate, and the registry never shrinks, so an origin     *)
(* that finds it full (it then passes ungated) always will.                  *)
Init ==
    /\ place = [t \in Tasks |-> "idle"]
    /\ attempt = [c \in Calls |-> 0]
    /\ result = [c \in Calls |-> Ok]
    /\ wait = [c \in Calls |-> 0]
    /\ retried = [c \in Calls |-> NoRetries]
    /\ gated \in BOOLEAN
    /\ hostQueue = <<>> /\ hostHeld = {}
    /\ globalQueue = <<>> /\ globalHeld = {}
    /\ inflight_gauge = 0
    /\ cancels = 0
    /\ CB!Init

Goto(t, where) == place' = [place EXCEPT ![t] = where]

(* The call returns, or its future is dropped, and its locals are gone. *)
Leave(c) ==
    /\ Goto(c, "idle")
    /\ attempt' = [attempt EXCEPT ![c] = 0]
    /\ result' = [result EXCEPT ![c] = Ok]
    /\ wait' = [wait EXCEPT ![c] = 0]
    /\ retried' = [retried EXCEPT ![c] = NoRetries]

(* An attempt starts: the call joins the queue of the per-host gate, or of   *)
(* the global one when its origin has no gate of its own.                    *)
QueueUp(c, n) ==
    /\ attempt' = [attempt EXCEPT ![c] = n]
    /\ result' = [result EXCEPT ![c] = Ok]
    /\ wait' = [wait EXCEPT ![c] = 0]
    /\ IF gated
         THEN /\ Goto(c, "hostWait")
              /\ hostQueue' = Append(hostQueue, c)
              /\ UNCHANGED globalQueue
         ELSE /\ Goto(c, "globalWait")
              /\ globalQueue' = Append(globalQueue, c)
              /\ UNCHANGED hostQueue
    /\ UNCHANGED <<gated, hostHeld, globalHeld, inflight_gauge, cancels>>

-----------------------------------------------------------------------------
(* fetch_with_cache_hint up to the breaker's decision. *)

BeginLoop(c) == QueueUp(c, 1) /\ UNCHANGED retried

Start(c) ==
    /\ place[c] = "idle"
    /\ IF state = CB!CLOSED
         THEN BeginLoop(c)
         ELSE /\ Goto(c, "locking")
              /\ UNCHANGED <<attempt, result, wait, retried, gates, inflight_gauge, cancels>>
    /\ UNCHANGED breaker

LockedAdmit(c) ==
    /\ place[c] = "locking"
    /\ BeginLoop(c)
    /\ \/ CB!AdmitProbe(c)
       \/ state = CB!CLOSED /\ UNCHANGED breaker

(* CircuitOpen is returned; the call made no attempt. *)
LockedRefuse(c) ==
    /\ place[c] = "locking"
    /\ state = CB!HALF_OPEN \/ (state = CB!OPEN /\ ~CB!CooldownElapsed)
    /\ Leave(c)
    /\ UNCHANGED <<gates, inflight_gauge, cancels, breaker>>

-----------------------------------------------------------------------------
(* fetch_with_retry *)

AcquireHost(c) ==
    /\ place[c] = "hostWait"
    /\ hostQueue # <<>> /\ Head(hostQueue) = c
    /\ Cardinality(hostHeld) < HostLimit
    /\ hostQueue' = Tail(hostQueue)
    /\ hostHeld' = hostHeld \cup {c}
    /\ globalQueue' = Append(globalQueue, c)
    /\ Goto(c, "globalWait")
    /\ UNCHANGED <<gated, globalHeld, attempt, result, wait, retried, inflight_gauge, cancels, breaker>>

AcquireGlobal(c) ==
    /\ place[c] = "globalWait"
    /\ globalQueue # <<>> /\ Head(globalQueue) = c
    /\ Cardinality(globalHeld) < GlobalLimit
    /\ globalQueue' = Tail(globalQueue)
    /\ globalHeld' = globalHeld \cup {c}
    /\ inflight_gauge' = inflight_gauge + 1
    /\ Goto(c, "sending")
    /\ UNCHANGED <<gated, hostQueue, hostHeld, attempt, result, wait, retried, cancels, breaker>>

(* Mutant: only the global permit is given back. *)
ReleaseGlobalOnly(c) ==
    /\ globalHeld' = globalHeld \ {c}
    /\ UNCHANGED <<gated, hostHeld, hostQueue, globalQueue>>

ReleasePermits(c) ==
    /\ hostHeld' = hostHeld \ {c}
    /\ globalHeld' = globalHeld \ {c}
    /\ UNCHANGED <<gated, hostQueue, globalQueue>>

Return(c, r) ==
    /\ result' = [result EXCEPT ![c] = r]
    /\ Goto(c, "reporting")
    /\ UNCHANGED <<attempt, wait, retried>>

(* The attempt is followed by another, after a sleep. *)
Sleep(c, err) ==
    /\ Goto(c, "backoff")
    /\ \E backoff \in Backoffs(attempt[c]) :
        wait' = [wait EXCEPT ![c] = Delay(err, backoff)]
    /\ result' = [result EXCEPT ![c] = err]
    /\ retried' = [retried EXCEPT ![c][err] = @ + 1]
    /\ UNCHANGED attempt

AttemptSucceeds(c) ==
    /\ place[c] = "sending"
    /\ inflight_gauge' = inflight_gauge - 1
    /\ ReleasePermits(c)
    /\ Return(c, Ok)
    /\ UNCHANGED <<cancels, breaker>>

(* Mutant: a failed attempt that is retried is reported to the breaker too. *)
AttemptFailsReported(c, err) ==
    /\ place[c] = "sending"
    /\ inflight_gauge' = inflight_gauge - 1
    /\ ReleasePermits(c)
    /\ IF Retries(attempt[c], err, MaxAttempts)
         THEN Sleep(c, err) /\ CB!RecordFailure
         ELSE Return(c, err) /\ UNCHANGED breaker
    /\ UNCHANGED cancels

AttemptFails(c, err) ==
    /\ place[c] = "sending"
    /\ inflight_gauge' = inflight_gauge - 1
    /\ ReleasePermits(c)
    /\ IF Retries(attempt[c], err, MaxAttempts)
         THEN Sleep(c, err)
         ELSE Return(c, err)
    /\ UNCHANGED <<cancels, breaker>>

(* The backoff sleep ends and the loop goes round. *)
BackoffEnds(c) ==
    /\ place[c] = "backoff"
    /\ QueueUp(c, attempt[c] + 1)
    /\ UNCHANGED <<retried, breaker>>

-----------------------------------------------------------------------------
(* fetch_with_cache_hint after the loop: one report at most. *)
Report(c) ==
    /\ place[c] = "reporting"
    /\ Leave(c)
    /\ CASE result[c] = Ok                -> CB!RecordSuccess
         [] is_breaker_failure(result[c]) -> CB!RecordFailure
         [] OTHER                         -> CB!NoReport(c)
    /\ UNCHANGED <<gates, inflight_gauge, cancels>>

(* Mutant: the gauge is decremented wherever the future is dropped. *)
CancelDecrements(c) ==
    /\ cancels < MaxCancels
    /\ cancels' = cancels + 1
    /\ place[c] # "idle"
    /\ Leave(c)
    /\ hostQueue' = RemoveFirst(hostQueue, c)
    /\ globalQueue' = RemoveFirst(globalQueue, c)
    /\ hostHeld' = hostHeld \ {c}
    /\ globalHeld' = globalHeld \ {c}
    /\ inflight_gauge' = inflight_gauge - 1
    /\ CB!NoReport(c)
    /\ UNCHANGED gated

(* The future is dropped.  Permits and queue places go with it; the global   *)
(* gauge is decremented by code that then never runs.                        *)
Cancel(c) ==
    /\ cancels < MaxCancels
    /\ cancels' = cancels + 1
    /\ place[c] # "idle"
    /\ Leave(c)
    /\ hostQueue' = RemoveFirst(hostQueue, c)
    /\ globalQueue' = RemoveFirst(globalQueue, c)
    /\ hostHeld' = hostHeld \ {c}
    /\ globalHeld' = globalHeld \ {c}
    /\ CB!NoReport(c)
    /\ UNCHANGED <<gated, inflight_gauge>>

-----------------------------------------------------------------------------
(* Attempts against other origins, seen from the global semaphore. *)

OtherQueues(o) ==
    /\ place[o] = "idle"
    /\ Goto(o, "globalWait")
    /\ globalQueue' = Append(globalQueue, o)
    /\ UNCHANGED <<hostQueue, hostHeld, globalHeld>>

OtherAcquires(o) ==
    /\ place[o] = "globalWait"
    /\ globalQueue # <<>> /\ Head(globalQueue) = o
    /\ Cardinality(globalHeld) < GlobalLimit
    /\ globalQueue' = Tail(globalQueue)
    /\ globalHeld' = globalHeld \cup {o}
    /\ Goto(o, "sending")
    /\ UNCHANGED <<hostQueue, hostHeld>>

OtherEnds(o) ==
    /\ place[o] = "sending"
    /\ Goto(o, "idle")
    /\ globalHeld' = globalHeld \ {o}
    /\ UNCHANGED <<hostQueue, hostHeld, globalQueue>>

OtherStep(o) ==
    /\ OtherQueues(o) \/ OtherAcquires(o) \/ OtherEnds(o)
    /\ UNCHANGED <<gated, attempt, result, wait, retried, inflight_gauge, cancels, breaker>>

Clock ==
    /\ UNCHANGED <<loop, gates, inflight_gauge, cancels>>
    /\ CB!Tick \/ CB!SetClockBack

-----------------------------------------------------------------------------
BeforeCall(c) == LockedAdmit(c) \/ LockedRefuse(c)
Respond(c) == AttemptSucceeds(c) \/ \E err \in Outcomes : AttemptFails(c, err)

CallStep(c) ==
    \/ Start(c) \/ BeforeCall(c)
    \/ AcquireHost(c) \/ AcquireGlobal(c) \/ Respond(c) \/ BackoffEnds(c)
    \/ Report(c)
    \/ Cancel(c)

Next ==
    \/ \E c \in Calls : CallStep(c)
    \/ \E o \in Others : OtherStep(o)
    \/ Clock

Spec == Init /\ [][Next]_vars

(* Every await ends: the request has a timeout, the backoff is a sleep, a    *)
(* semaphore hands a free permit to the head of its queue, and the breaker's *)
(* sections under the lock are short.                                        *)
Fairness ==
    /\ \A c \in Calls :
        /\ WF_vars(BeforeCall(c))
        /\ WF_vars(AcquireHost(c))
        /\ WF_vars(AcquireGlobal(c))
        /\ WF_vars(Respond(c))
        /\ WF_vars(BackoffEnds(c))
        /\ WF_vars(Report(c))
    /\ \A o \in Others :
        /\ WF_vars(OtherAcquires(o) /\ OtherStep(o))
        /\ WF_vars(OtherEnds(o) /\ OtherStep(o))

LiveSpec == Spec /\ Fairness

-----------------------------------------------------------------------------
(* Properties *)

Places ==
    {"idle", "locking", "hostWait", "globalWait", "sending", "backoff", "reporting"}

TypeOK ==
    /\ place \in [Tasks -> Places]
    /\ attempt \in [Calls -> 0..MaxAttempts]
    /\ result \in [Calls -> Outcomes \cup {Ok}]
    /\ wait \in [Calls -> Nat]
    /\ retried \in [Calls -> [Outcomes -> 0..MaxAttempts]]
    /\ gated \in BOOLEAN
    /\ hostQueue \in Seq(Calls) /\ hostHeld \subseteq Calls
    /\ globalQueue \in Seq(Tasks) /\ globalHeld \subseteq Tasks
    /\ inflight_gauge \in Nat
    /\ cancels \in 0..MaxCancels

At(where) == {t \in Tasks : place[t] = where}
InQueue(queue) == {queue[i] : i \in 1..Len(queue)}

(* Permits and queue places are held exactly where the code means to hold    *)
(* them: a call that waits for its host holds no global permit, a backoff    *)
(* sleep or a pending report holds nothing, and cancellation leaks nothing   *)
(* but a unit of the gauge, "Upstream HTTP requests currently in flight"     *)
(* (rdap-metrics/src/exporter.rs:150), which runs ahead by the futures that  *)
(* were dropped in an attempt and never falls behind.                        *)
PermitsMatchPlace ==
    /\ InQueue(hostQueue) = At("hostWait")
    /\ InQueue(globalQueue) = At("globalWait")
    /\ globalHeld = At("sending")
    /\ hostHeld = IF gated THEN (At("globalWait") \cup At("sending")) \cap Calls ELSE {}
    /\ Len(hostQueue) = Cardinality(At("hostWait"))
    /\ Len(globalQueue) = Cardinality(At("globalWait"))
    /\ inflight_gauge - Cardinality(At("sending") \cap Calls) \in 0..cancels

(* Each class of error is retried at most retry_limit times in one logical   *)
(* call, although one counter is shared by all classes, and the call never   *)
(* makes more than max_attempts attempts.  Between two of them it sleeps as  *)
(* long as the server asked, but "a malicious or misconfigured server cannot *)
(* park the client on a longer sleep than" RETRY_AFTER_MAX (fetcher.rs:49).  *)
RetryBudget ==
    \A c \in Calls :
        /\ attempt[c] <= MaxAttempts
        /\ \A e \in Outcomes : retried[c][e] <= retry_limit(e)
        /\ place[c] = "backoff" =>
            /\ wait[c] >= Smaller(result[c].retry_after, RetryAfterMax)
            /\ wait[c] <= Larger(RetryAfterMax, MaxBackoff)

(* The calls use the breaker as its own specification says: one before_call, *)
(* then at most one report, per logical call and not per attempt.            *)
BreakerProtocol == CB!Spec

(* Every logical call ends: no permit is waited for for ever, whatever the   *)
(* other calls and origins do.                                               *)
CallsEnd == \A c \in Calls : place[c] # "idle" ~> place[c] = "idle"
=============================================================================
