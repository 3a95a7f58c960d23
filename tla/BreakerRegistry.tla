---------------------------- MODULE BreakerRegistry ----------------------------
(***************************************************************************)
(* The registry of circuit breakers (crates/rdap-core/src/                 *)
(* circuit_breaker.rs), seen from one origin: a bounded moka cache that    *)
(* drops a breaker nobody has asked for in ten minutes, or when it needs   *)
(* the room.  The next call then gets a new breaker, while the calls that  *)
(* hold the old one go on with it: nobody else will see their reports.     *)
(*                                                                         *)
(* The variables of CircuitBreaker are the resident breaker and the calls  *)
(* that hold it.  Idle time is monotonic and counts from get_or_create, at *)
(* the start of a call; the age of a trip is wall-clock time and counts    *)
(* from a report, at the end of one.                                       *)
(***************************************************************************)
EXTENDS CircuitBreaker

CONSTANT IdleTtl   \* DEFAULT_REGISTRY_TTL, in clock ticks

ASSUME RegistryAssumption == IdleTtl \in Nat /\ Cooldown <= IdleTtl

VARIABLES
    quiet,     \* time since the breaker was last asked for, capped at IdleTtl
    orphans,   \* calls that hold a breaker the registry has dropped
    excused    \* history: the present trip was reported when the breaker had not
               \* been asked for in IdleTtl - Cooldown, or the clock was set back since

registry == <<quiet, orphans, excused>>

RegistryInit == Init /\ quiet = 0 /\ orphans = {} /\ excused = FALSE

(* Mutant: an entry expires one tick early. *)
ExpiredEarly == quiet + 1 >= IdleTtl

Expired == quiet >= IdleTtl

(* get_or_create, and the lock-free part of before_call on what it returns. *)
Access(c) ==
    /\ ~Expired
    /\ c \notin orphans
    /\ FastPath(c)
    /\ quiet' = 0
    /\ UNCHANGED <<orphans, excused>>

Decide(c) == (LockedAdmit(c) \/ LockedRefuse(c)) /\ UNCHANGED registry

(* A report; a breaker that trips late may be dropped before its cooldown. *)
ReportResident(c) ==
    /\ Report(c)
    /\ excused' = /\ state' = OPEN
                  /\ IF state = OPEN THEN excused ELSE quiet + Cooldown > IdleTtl
    /\ UNCHANGED <<quiet, orphans>>

(* A call ends that holds a dropped breaker: its report goes nowhere. *)
EndOrphan(c) ==
    /\ c \in orphans
    /\ orphans' = orphans \ {c}
    /\ UNCHANGED <<vars, quiet, excused>>

(* The entry goes, by idle time or for want of room, and the next call finds *)
(* a Closed breaker.                                                         *)
Evict ==
    /\ state' = CLOSED
    /\ consecutive_failures' = 0
    /\ sinceOpened' = Cooldown
    /\ call' = [c \in Calls |-> "idle"]
    /\ stale' = {}
    /\ probe' = NoCall
    /\ quiet' = 0
    /\ orphans' = orphans \cup {c \in Calls : call[c] # "idle"}
    /\ excused' = FALSE

TimePasses ==
    /\ quiet < IdleTtl \/ sinceOpened < Cooldown
    /\ quiet' = IF Expired THEN quiet ELSE quiet + 1
    /\ Tick \/ (sinceOpened = Cooldown /\ UNCHANGED vars)
    /\ UNCHANGED <<orphans, excused>>

ClockSetBack ==
    /\ SetClockBack
    /\ excused' = (state = OPEN)
    /\ UNCHANGED <<quiet, orphans>>

RegistryNext ==
    \/ \E c \in Calls : Access(c) \/ Decide(c) \/ ReportResident(c) \/ EndOrphan(c)
    \/ Evict
    \/ TimePasses
    \/ ClockSetBack

RegistrySpec == RegistryInit /\ [][RegistryNext]_<<vars, registry>>

(* As for one breaker; an entry that has expired is gone for who asks. *)
RegistryFairness ==
    /\ \A c \in Calls :
        /\ WF_<<vars, registry>>(Decide(c))
        /\ WF_<<vars, registry>>(ReportResident(c))
        /\ WF_<<vars, registry>>(EndOrphan(c))
    /\ WF_<<vars, registry>>(TimePasses)
    /\ WF_<<vars, registry>>(Expired /\ Evict)

RegistryLiveSpec == RegistrySpec /\ RegistryFairness

-----------------------------------------------------------------------------
(* Properties *)

(* A dropped breaker "loses only the consecutive-failure counter"            *)
(* (circuit_breaker.rs:56), and not a cooldown that still runs: idle time    *)
(* and cooldown are counted by two clocks from two events, yet when an Open   *)
(* breaker expires its cooldown has elapsed, unless the call that tripped it *)
(* ran for nearly as long as the idle time or the clock was set back.        *)
CooldownOutlivesIdle ==
    state = OPEN /\ Expired => CooldownElapsed \/ excused
=============================================================================
