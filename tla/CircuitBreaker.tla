---------------------------- MODULE CircuitBreaker ----------------------------
(***************************************************************************)
(* The circuit breaker of one upstream origin                              *)
(* (crates/rdap-core/src/circuit_breaker.rs) and the logical calls that    *)
(* pass through it.                                                        *)
(*                                                                         *)
(* A call first asks `before_call`.  A lock-free read of the state admits  *)
(* it when the breaker is Closed; otherwise it waits for the transition    *)
(* lock and decides again under the lock.  An admitted call later reports  *)
(* `on_success` or `on_failure`, or ends without a report: the fetcher     *)
(* reports nothing for an error that is not the upstream's fault, and a    *)
(* cancelled future reports nothing either.                                *)
(*                                                                         *)
(* A section under the lock contains no await and its one store that the   *)
(* fast path can see is the state, so it is one step here.                 *)
(*                                                                         *)
(* The clock is kept as the age of the last trip, `sinceOpened`, capped at *)
(* Cooldown: the code only ever compares now - opened_at with the          *)
(* cooldown.  It is wall-clock time, so it can be set back, by at most     *)
(* MaxSetback, and be below zero.                                          *)
(***************************************************************************)
EXTENDS Integers

CONSTANTS
    Calls,        \* the logical calls to this origin; each is reused when it ends
    Threshold,    \* failure_threshold
    Cooldown,     \* cooldown_ms, in clock ticks
    MaxSetback,   \* bound: how far the wall clock may be set back
    NoCall

ASSUME BreakerAssumption ==
    /\ Threshold \in Nat \ {0}
    /\ Cooldown \in Nat \ {0}
    /\ MaxSetback \in Nat
    /\ NoCall \notin Calls

CLOSED    == "closed"
OPEN      == "open"
HALF_OPEN == "half_open"

VARIABLES
    state,                  \* the state atomic
    consecutive_failures,   \* the failure counter
    sinceOpened,            \* now - opened_at, capped at Cooldown
    call,                   \* call[c]: where logical call c stands
    stale,                  \* history: the calls in flight when the breaker last tripped
    probe                   \* history: the last call to turn Open into HalfOpen, or
                            \* NoCall if there is none or it ended without a report

breaker == <<state, consecutive_failures, sinceOpened, stale, probe>>
vars == <<breaker, call>>

InFlight == {c \in Calls : call[c] = "running"}

-----------------------------------------------------------------------------
Init ==
    /\ state = CLOSED
    /\ consecutive_failures = 0
    /\ sinceOpened = Cooldown
    /\ call = [c \in Calls |-> "idle"]
    /\ stale = {}
    /\ probe = NoCall

(* The operations on the breaker alone, without the call that performs them. *)

CooldownElapsed == sinceOpened >= Cooldown

Trip ==
    /\ state' = OPEN
    /\ sinceOpened' = 0
    /\ stale' = InFlight
    /\ UNCHANGED probe

(* Mutant: a HalfOpen breaker admits further probes. *)
AdmitProbeAgain(c) ==
    /\ state \in {OPEN, HALF_OPEN}
    /\ CooldownElapsed
    /\ state' = HALF_OPEN
    /\ probe' = c
    /\ UNCHANGED <<consecutive_failures, sinceOpened, stale>>

AdmitProbe(c) ==
    /\ state = OPEN
    /\ CooldownElapsed
    /\ state' = HALF_OPEN
    /\ probe' = c
    /\ UNCHANGED <<consecutive_failures, sinceOpened, stale>>

(* Mutant: the failure counter is not reset. *)
RecordSuccessKeepsCount ==
    /\ state' = CLOSED
    /\ UNCHANGED <<consecutive_failures, sinceOpened, stale, probe>>

RecordSuccess ==
    /\ consecutive_failures' = 0
    /\ state' = CLOSED
    /\ UNCHANGED <<sinceOpened, stale, probe>>

(* Mutant: a failed probe is treated like a failure in Open. *)
RecordFailureProbeIgnored ==
    IF state = CLOSED
      THEN /\ consecutive_failures' = consecutive_failures + 1
           /\ IF consecutive_failures' >= Threshold
                THEN Trip
                ELSE UNCHANGED <<state, sinceOpened, stale, probe>>
      ELSE UNCHANGED breaker

RecordFailure ==
    \/ /\ state = HALF_OPEN
       /\ Trip
       /\ UNCHANGED consecutive_failures
    \/ /\ state = CLOSED
       /\ consecutive_failures' = consecutive_failures + 1
       /\ IF consecutive_failures' >= Threshold
            THEN Trip
            ELSE UNCHANGED <<state, sinceOpened, stale, probe>>
    \/ /\ state = OPEN
       /\ UNCHANGED breaker

(* What the breaker gets to know of a call that ends without a report:       *)
(* nothing.                                                                  *)
NoReport(c) ==
    /\ probe' = IF probe = c THEN NoCall ELSE probe
    /\ UNCHANGED <<state, consecutive_failures, sinceOpened, stale>>

-----------------------------------------------------------------------------
(* The steps of a logical call. *)

Goto(c, place) == call' = [call EXCEPT ![c] = place]

(* before_call, lock-free: a Closed breaker admits, any other state sends   *)
(* the call to the lock.                                                    *)
FastPath(c) ==
    /\ call[c] = "idle"
    /\ Goto(c, IF state = CLOSED THEN "running" ELSE "locking")
    /\ UNCHANGED breaker

(* before_call, under the lock, the state read again. *)
LockedAdmit(c) ==
    /\ call[c] = "locking"
    /\ Goto(c, "running")
    /\ \/ AdmitProbe(c)
       \/ state = CLOSED /\ UNCHANGED breaker

LockedRefuse(c) ==
    /\ call[c] = "locking"
    /\ state = HALF_OPEN \/ (state = OPEN /\ ~CooldownElapsed)
    /\ Goto(c, "idle")
    /\ UNCHANGED breaker

OnSuccess(c) ==
    /\ call[c] = "running"
    /\ RecordSuccess
    /\ Goto(c, "idle")

OnFailure(c) ==
    /\ call[c] = "running"
    /\ RecordFailure
    /\ Goto(c, "idle")

(* The call ends and the breaker hears nothing of it. *)
Abandon(c) ==
    /\ call[c] # "idle"
    /\ Goto(c, "idle")
    /\ NoReport(c)

-----------------------------------------------------------------------------
Tick ==
    /\ sinceOpened < Cooldown
    /\ sinceOpened' = sinceOpened + 1
    /\ UNCHANGED <<state, consecutive_failures, stale, probe, call>>

(* SystemTime is not monotonic. *)
SetClockBack ==
    /\ sinceOpened > -MaxSetback
    /\ MaxSetback > 0
    /\ \E d \in 1..(sinceOpened + MaxSetback) : sinceOpened' = sinceOpened - d
    /\ UNCHANGED <<state, consecutive_failures, stale, probe, call>>

BeforeCall(c) == FastPath(c) \/ LockedAdmit(c) \/ LockedRefuse(c)
Report(c) == OnSuccess(c) \/ OnFailure(c) \/ Abandon(c)

Next ==
    \/ \E c \in Calls : BeforeCall(c) \/ Report(c)
    \/ Tick
    \/ SetClockBack

Spec == Init /\ [][Next]_vars

(* The transition lock is a FIFO tokio Mutex, every request has a timeout,   *)
(* and time passes.  Nothing makes a client call.                            *)
Fairness ==
    /\ \A c \in Calls : WF_vars(LockedAdmit(c) \/ LockedRefuse(c))
    /\ \A c \in Calls : WF_vars(Report(c))
    /\ WF_vars(Tick)

LiveSpec == Spec /\ Fairness

-----------------------------------------------------------------------------
(* Properties *)

(* Types of the variables: the failure counter never exceeds the threshold, *)
(* the clock stays within its caps.                                         *)
TypeOK ==
    /\ state \in {CLOSED, OPEN, HALF_OPEN}
    /\ consecutive_failures \in 0..Threshold
    /\ sinceOpened \in (-MaxSetback)..Cooldown
    /\ call \in [Calls -> {"idle", "locking", "running"}]
    /\ stale \subseteq Calls
    /\ probe \in Calls \cup {NoCall}

(* The state and the counter, two atomics written one after the other and    *)
(* never reset together except by a success, agree: the breaker is Closed    *)
(* exactly while fewer than Threshold failures have been counted, so it      *)
(* neither trips early nor stays Closed past the threshold, whatever order   *)
(* concurrent calls report in.                                               *)
ClosedIffBelowThreshold == (state = CLOSED) <=> (consecutive_failures < Threshold)

(* Between a trip and the report that ends it at most one call gets through: *)
(* an Open breaker has only calls in flight that were already running when   *)
(* it tripped, a HalfOpen one has in addition the one probe it admitted.     *)
SingleFreshProbe ==
    /\ state = OPEN => InFlight \subseteq stale
    /\ state = HALF_OPEN => InFlight \subseteq stale \cup {probe}

(* A HalfOpen breaker has its probe in flight ("A probe is already in flight  *)
(* - refuse extra probes", circuit_breaker.rs:202) unless the probe has ended *)
(* without a report: no report of any other call leaves it waiting for a      *)
(* probe that has already spoken.                                             *)
HalfOpenHasProbe == state = HALF_OPEN => probe \in InFlight \cup {NoCall}

Refused == \E c \in Calls : LockedRefuse(c)
ProbeLost == state = HALF_OPEN /\ probe = NoCall

(* As long as calls keep being refused, calls keep being admitted too: a     *)
(* breaker that refuses re-tries the upstream after its cooldown             *)
(* (rdap-types/src/error.rs:105) and does not refuse for ever.               *)
KeepsAdmitting == []<><<Refused>>_vars => []<>(InFlight # {})

(* The one way to refuse for ever, with a clock that is not set back for     *)
(* ever, is a probe that was admitted and never reported.                    *)
OnlyLostProbeBlocks ==
    []<><<Refused>>_vars =>
        []<>(InFlight # {}) \/ <>[]ProbeLost \/ []<><<SetClockBack>>_vars
=============================================================================
