------------------------- MODULE CircuitBreakerProofs -------------------------
(***************************************************************************)
(* Proofs about the circuit breaker, for any set of calls, any threshold   *)
(* and any cooldown.  ClosedIffBelowThreshold is inductive with the types; *)
(* SingleFreshProbe needs it to know that only a Closed or HalfOpen        *)
(* breaker trips, and resets the set of stale calls when it does.          *)
(***************************************************************************)
EXTENDS BreakerRegistry, TLAPS

(* The inductive invariant. *)
IInv == TypeOK /\ ClosedIffBelowThreshold /\ SingleFreshProbe

LEMMA InitIInv == Init => IInv
  <1> USE BreakerAssumption
  <1>1. Init => TypeOK
    BY DEF Init, TypeOK, CLOSED
  <1>2. Init => ClosedIffBelowThreshold /\ SingleFreshProbe
    BY DEF Init, ClosedIffBelowThreshold, SingleFreshProbe, CLOSED, OPEN, HALF_OPEN
  <1>3. QED BY <1>1, <1>2 DEF IInv

(* A step in which the breaker is left alone and no call starts to run keeps *)
(* the invariant.                                                            *)
LEMMA CallEnds ==
  ASSUME IInv, NEW c \in Calls, Goto(c, "idle"), UNCHANGED breaker
  PROVE  IInv'
  <1>1. TypeOK'
    BY DEF IInv, TypeOK, Goto, breaker
  <1>2. InFlight' \subseteq InFlight
    BY DEF IInv, TypeOK, InFlight, Goto
  <1>3. ClosedIffBelowThreshold' /\ SingleFreshProbe'
    BY <1>2 DEF IInv, ClosedIffBelowThreshold, SingleFreshProbe, breaker
  <1>4. QED BY <1>1, <1>3 DEF IInv

(* Tripping makes every call in flight stale. *)
LEMMA TripStep ==
  ASSUME IInv, NEW c \in Calls, Goto(c, "idle"), Trip,
         consecutive_failures' = Threshold
  PROVE  IInv'
  <1>1. InFlight' \subseteq InFlight /\ InFlight \subseteq Calls
    BY DEF IInv, TypeOK, InFlight, Goto
  <1>2. TypeOK'
    BY <1>1, BreakerAssumption DEF IInv, TypeOK, Goto, Trip
  <1>3. ClosedIffBelowThreshold'
    BY BreakerAssumption DEF ClosedIffBelowThreshold, Trip, CLOSED, OPEN
  <1>4. SingleFreshProbe'
    BY <1>1 DEF SingleFreshProbe, Trip, OPEN, HALF_OPEN
  <1>5. QED BY <1>2, <1>3, <1>4 DEF IInv

LEMMA NextIInv == IInv /\ [Next]_vars => IInv'
  <1> SUFFICES ASSUME IInv, [Next]_vars PROVE IInv'
    OBVIOUS
  <1> USE BreakerAssumption
  <1>1. ASSUME NEW c \in Calls, FastPath(c) PROVE IInv'
    <2>1. TypeOK'
      BY <1>1 DEF IInv, TypeOK, FastPath, Goto, breaker
    <2>2. CASE state = CLOSED
      BY <1>1, <2>1, <2>2 DEF IInv, FastPath, ClosedIffBelowThreshold,
         SingleFreshProbe, breaker, CLOSED, OPEN, HALF_OPEN
    <2>3. CASE state # CLOSED
      <3>1. InFlight' \subseteq InFlight
        BY <1>1, <2>3 DEF IInv, TypeOK, FastPath, Goto, InFlight
      <3>2. QED
        BY <1>1, <2>1, <3>1 DEF IInv, FastPath, ClosedIffBelowThreshold,
           SingleFreshProbe, breaker
    <2>4. QED BY <2>2, <2>3
  <1>2. ASSUME NEW c \in Calls, LockedAdmit(c) PROVE IInv'
    <2>1. InFlight' \subseteq InFlight \cup {c}
      BY <1>2 DEF IInv, TypeOK, LockedAdmit, Goto, InFlight
    <2>2. CASE AdmitProbe(c)
      <3>1. TypeOK'
        BY <1>2, <2>2 DEF IInv, TypeOK, LockedAdmit, AdmitProbe, Goto
      <3>2. ClosedIffBelowThreshold'
        BY <2>2 DEF IInv, ClosedIffBelowThreshold, AdmitProbe, CLOSED, OPEN, HALF_OPEN
      <3>3. SingleFreshProbe'
        BY <2>1, <2>2 DEF IInv, SingleFreshProbe, AdmitProbe, OPEN, HALF_OPEN
      <3>4. QED BY <3>1, <3>2, <3>3 DEF IInv
    <2>3. CASE state = CLOSED /\ UNCHANGED breaker
      BY <1>2, <2>3 DEF IInv, TypeOK, ClosedIffBelowThreshold, SingleFreshProbe,
         LockedAdmit, Goto, breaker, CLOSED, OPEN, HALF_OPEN
    <2>4. QED BY <1>2, <2>2, <2>3 DEF LockedAdmit
  <1>3. ASSUME NEW c \in Calls, LockedRefuse(c) PROVE IInv'
    BY <1>3, CallEnds DEF LockedRefuse
  <1>4. ASSUME NEW c \in Calls, OnSuccess(c) PROVE IInv'
    <2>1. TypeOK'
      BY <1>4 DEF IInv, TypeOK, OnSuccess, RecordSuccess, Goto
    <2>2. ClosedIffBelowThreshold' /\ SingleFreshProbe'
      BY <1>4 DEF OnSuccess, RecordSuccess, ClosedIffBelowThreshold,
         SingleFreshProbe, CLOSED, OPEN, HALF_OPEN
    <2>3. QED BY <2>1, <2>2 DEF IInv
  <1>5. ASSUME NEW c \in Calls, OnFailure(c) PROVE IInv'
    <2> USE <1>5 DEF OnFailure
    <2>1. CASE state = HALF_OPEN /\ Trip /\ UNCHANGED consecutive_failures
      <3>1. consecutive_failures' = Threshold
        BY <2>1 DEF IInv, TypeOK, ClosedIffBelowThreshold, CLOSED, HALF_OPEN
      <3>2. QED BY <2>1, <3>1, TripStep
    <2>2. CASE /\ state = CLOSED
               /\ consecutive_failures' = consecutive_failures + 1
               /\ IF consecutive_failures' >= Threshold
                    THEN Trip
                    ELSE UNCHANGED <<state, sinceOpened, stale, probe>>
      <3>1. CASE consecutive_failures' >= Threshold
        <4>1. consecutive_failures' = Threshold
          BY <2>2, <3>1 DEF IInv, TypeOK, ClosedIffBelowThreshold
        <4>2. QED BY <2>2, <3>1, <4>1, TripStep
      <3>2. CASE ~(consecutive_failures' >= Threshold)
        BY <2>2, <3>2 DEF IInv, TypeOK, ClosedIffBelowThreshold, SingleFreshProbe,
           Goto, CLOSED, OPEN, HALF_OPEN
      <3>3. QED BY <3>1, <3>2
    <2>3. CASE state = OPEN /\ UNCHANGED breaker
      BY <2>3, CallEnds
    <2>4. QED BY <2>1, <2>2, <2>3 DEF RecordFailure
  <1>6. ASSUME NEW c \in Calls, Abandon(c) PROVE IInv'
    <2>1. TypeOK'
      BY <1>6 DEF IInv, TypeOK, Abandon, NoReport, Goto
    <2>2. InFlight' \subseteq InFlight \ {c}
      BY <1>6 DEF IInv, TypeOK, Abandon, InFlight, Goto
    <2>3. ClosedIffBelowThreshold' /\ SingleFreshProbe'
      BY <1>6, <2>2 DEF IInv, Abandon, NoReport, ClosedIffBelowThreshold, SingleFreshProbe
    <2>4. QED BY <2>1, <2>3 DEF IInv
  <1>7. CASE Tick
    BY <1>7 DEF IInv, TypeOK, ClosedIffBelowThreshold, SingleFreshProbe, InFlight, Tick
  <1>8. CASE SetClockBack
    <2>1. sinceOpened' \in (-MaxSetback)..Cooldown
      BY <1>8 DEF IInv, TypeOK, SetClockBack
    <2>2. QED
      BY <1>8, <2>1 DEF IInv, TypeOK, ClosedIffBelowThreshold, SingleFreshProbe,
         InFlight, SetClockBack
  <1>9. CASE UNCHANGED vars
    BY <1>9 DEF IInv, TypeOK, ClosedIffBelowThreshold, SingleFreshProbe, InFlight,
       vars, breaker
  <1>10. QED
    BY <1>1, <1>2, <1>3, <1>4, <1>5, <1>6, <1>7, <1>8, <1>9
       DEF Next, BeforeCall, Report

(* Success and failure reports always take the breaker out of HalfOpen. *)
LEMMA NextHalfOpenHasProbe == IInv /\ HalfOpenHasProbe /\ [Next]_vars => HalfOpenHasProbe'
  <1> SUFFICES ASSUME IInv, HalfOpenHasProbe, [Next]_vars PROVE HalfOpenHasProbe'
    OBVIOUS
  <1>1. ASSUME NEW c \in Calls, FastPath(c) PROVE HalfOpenHasProbe'
    BY <1>1 DEF IInv, TypeOK, FastPath, Goto, HalfOpenHasProbe, InFlight, breaker
  <1>2. ASSUME NEW c \in Calls, LockedAdmit(c) PROVE HalfOpenHasProbe'
    BY <1>2 DEF IInv, TypeOK, LockedAdmit, AdmitProbe, Goto, HalfOpenHasProbe,
       InFlight, breaker, CLOSED, HALF_OPEN
  <1>3. ASSUME NEW c \in Calls, LockedRefuse(c) PROVE HalfOpenHasProbe'
    BY <1>3 DEF IInv, TypeOK, LockedRefuse, Goto, HalfOpenHasProbe, InFlight, breaker
  <1>4. ASSUME NEW c \in Calls, OnSuccess(c) PROVE HalfOpenHasProbe'
    BY <1>4 DEF OnSuccess, RecordSuccess, HalfOpenHasProbe, CLOSED, HALF_OPEN
  <1>5. ASSUME NEW c \in Calls, OnFailure(c) PROVE HalfOpenHasProbe'
    BY <1>5 DEF OnFailure, RecordFailure, Trip, HalfOpenHasProbe, breaker,
       CLOSED, OPEN, HALF_OPEN
  <1>6. ASSUME NEW c \in Calls, Abandon(c) PROVE HalfOpenHasProbe'
    BY <1>6 DEF IInv, TypeOK, Abandon, NoReport, Goto, HalfOpenHasProbe, InFlight
  <1>7. CASE Tick \/ SetClockBack \/ UNCHANGED vars
    BY <1>7 DEF Tick, SetClockBack, vars, breaker, HalfOpenHasProbe, InFlight
  <1>8. QED
    BY <1>1, <1>2, <1>3, <1>4, <1>5, <1>6, <1>7 DEF Next, BeforeCall, Report

LEMMA SpecIInv == Spec => []IInv
  BY InitIInv, NextIInv, PTL DEF Spec

(* Every variable keeps its type: in particular concurrent failure reports    *)
(* never push the counter past the threshold.                                 *)
THEOREM TypeCorrect == Spec => []TypeOK
  BY SpecIInv, PTL DEF IInv

(* The state and the failure counter agree in every state the breaker can     *)
(* reach.                                                                     *)
THEOREM CounterAgrees == Spec => []ClosedIffBelowThreshold
  BY SpecIInv, PTL DEF IInv

(* Between a trip and the report that ends it the upstream sees at most one   *)
(* new call, whatever the interleaving of before_call, reports, cancellations *)
(* and clock setbacks.                                                        *)
THEOREM OneFreshProbe == Spec => []SingleFreshProbe
  BY SpecIInv, PTL DEF IInv

(* A HalfOpen breaker has its probe in flight, or the probe ended without a   *)
(* report: success and failure reports, its own and those of calls from       *)
(* before the trip, always take the breaker out of HalfOpen.                  *)
THEOREM ProbeInFlight == Spec => []HalfOpenHasProbe
  <1>1. Init => HalfOpenHasProbe
    BY DEF Init, HalfOpenHasProbe, CLOSED, HALF_OPEN
  <1>2. QED BY <1>1, NextHalfOpenHasProbe, SpecIInv, PTL DEF Spec

-----------------------------------------------------------------------------
(* The registry.  What holds of one breaker holds of the resident one,       *)
(* whatever the registry drops and when: every step of the registry is a     *)
(* step of the breaker, a stutter, or a return to its initial state.  The    *)
(* new part is the relation between the two clocks.                          *)

RegistryTypeOK ==
    /\ quiet \in 0 .. IdleTtl
    /\ orphans \subseteq Calls
    /\ excused \in BOOLEAN

(* The idle clock is ahead of the age of the trip by at most what the idle   *)
(* time exceeds the cooldown.                                                *)
ClocksInStep == state = OPEN /\ ~excused => quiet + Cooldown <= sinceOpened + IdleTtl

RegistryInv == IInv /\ HalfOpenHasProbe /\ RegistryTypeOK /\ ClocksInStep

LEMMA RegistryInitInv == RegistryInit => RegistryInv
  <1> SUFFICES ASSUME RegistryInit PROVE RegistryInv
    OBVIOUS
  <1>1. IInv
    BY InitIInv DEF RegistryInit
  <1>2. HalfOpenHasProbe /\ ClocksInStep
    BY DEF RegistryInit, Init, HalfOpenHasProbe, ClocksInStep, CLOSED, OPEN, HALF_OPEN
  <1>3. RegistryTypeOK
    <2>1. quiet \in 0 .. IdleTtl
      BY RegistryAssumption DEF RegistryInit
    <2>2. QED BY <2>1 DEF RegistryInit, RegistryTypeOK
  <1>4. QED BY <1>1, <1>2, <1>3 DEF RegistryInv

(* A trip resets the age of the trip. *)
LEMMA OpensByTrip ==
  ASSUME NEW c \in Calls, Report(c), state' = OPEN, state # OPEN
  PROVE  sinceOpened' = 0
  BY DEF Report, OnSuccess, OnFailure, Abandon, RecordSuccess, RecordFailure,
     NoReport, Trip, CLOSED, OPEN, HALF_OPEN

LEMMA StaysOpen ==
  ASSUME NEW c \in Calls, Report(c), state = OPEN, state' = OPEN
  PROVE  UNCHANGED sinceOpened
  BY DEF Report, OnSuccess, OnFailure, Abandon, RecordSuccess, RecordFailure,
     NoReport, breaker, CLOSED, OPEN, HALF_OPEN

LEMMA RegistryNextInv == RegistryInv /\ [RegistryNext]_<<vars, registry>> => RegistryInv'
  <1> SUFFICES ASSUME RegistryInv, [RegistryNext]_<<vars, registry>> PROVE RegistryInv'
    OBVIOUS
  <1> USE BreakerAssumption, RegistryAssumption
  <1>0. ASSUME [Next]_vars PROVE IInv' /\ HalfOpenHasProbe'
    BY <1>0, NextIInv, NextHalfOpenHasProbe DEF RegistryInv
  <1>1. ASSUME NEW c \in Calls, Access(c) PROVE RegistryInv'
    <2>1. [Next]_vars
      BY <1>1 DEF Access, Next, BeforeCall
    <2>2. RegistryTypeOK' /\ ClocksInStep'
      BY <1>1, <1>0, <2>1 DEF RegistryInv, RegistryTypeOK, ClocksInStep, IInv, TypeOK,
         Access, FastPath, breaker
    <2>3. QED BY <1>0, <2>1, <2>2 DEF RegistryInv
  <1>2. ASSUME NEW c \in Calls, Decide(c) PROVE RegistryInv'
    <2>1. [Next]_vars
      BY <1>2 DEF Decide, Next, BeforeCall
    <2>2. state' # OPEN \/ UNCHANGED breaker
      BY <1>2 DEF Decide, LockedAdmit, LockedRefuse, AdmitProbe, OPEN, HALF_OPEN
    <2>3. RegistryTypeOK' /\ ClocksInStep'
      BY <1>2, <2>2 DEF RegistryInv, RegistryTypeOK, ClocksInStep, Decide, registry, breaker
    <2>4. QED BY <1>0, <2>1, <2>3 DEF RegistryInv
  <1>3. ASSUME NEW c \in Calls, ReportResident(c) PROVE RegistryInv'
    <2>1. [Next]_vars
      BY <1>3 DEF ReportResident, Next
    <2>2. RegistryTypeOK'
      BY <1>3 DEF RegistryInv, RegistryTypeOK, ReportResident
    <2>3. ClocksInStep'
      <3>1. SUFFICES ASSUME state' = OPEN, ~excused'
                     PROVE  quiet' + Cooldown <= sinceOpened' + IdleTtl
        BY DEF ClocksInStep
      <3>2. CASE state = OPEN
        BY <1>3, <3>1, <3>2, StaysOpen DEF RegistryInv, ClocksInStep, ReportResident
      <3>3. CASE state # OPEN
        BY <1>3, <3>1, <3>3, OpensByTrip DEF RegistryInv, RegistryTypeOK, ReportResident
      <3>4. QED BY <3>2, <3>3
    <2>4. QED BY <1>0, <2>1, <2>2, <2>3 DEF RegistryInv
  <1>4. ASSUME NEW c \in Calls, EndOrphan(c) PROVE RegistryInv'
    <2>1. [Next]_vars
      BY <1>4 DEF EndOrphan
    <2>2. RegistryTypeOK' /\ ClocksInStep'
      BY <1>4 DEF RegistryInv, RegistryTypeOK, ClocksInStep, EndOrphan, vars, breaker
    <2>3. QED BY <1>0, <2>1, <2>2 DEF RegistryInv
  <1>5. CASE Evict
    <2>1. IInv' /\ HalfOpenHasProbe'
      BY <1>5 DEF Evict, IInv, TypeOK, ClosedIffBelowThreshold, SingleFreshProbe,
         HalfOpenHasProbe, CLOSED, OPEN, HALF_OPEN
    <2>2. quiet' \in 0 .. IdleTtl
      BY <1>5 DEF Evict
    <2>3. RegistryTypeOK'
      BY <1>5, <2>2 DEF Evict, RegistryInv, RegistryTypeOK
    <2>4. ClocksInStep'
      BY <1>5 DEF Evict, ClocksInStep, CLOSED, OPEN
    <2>5. QED BY <2>1, <2>3, <2>4 DEF RegistryInv
  <1>6. CASE TimePasses
    <2>1. [Next]_vars
      BY <1>6 DEF TimePasses, Next
    <2>2. RegistryTypeOK'
      BY <1>6 DEF TimePasses, Expired, RegistryInv, RegistryTypeOK
    <2>3. ClocksInStep'
      <3>1. CASE Tick
        BY <1>6, <3>1 DEF TimePasses, Tick, Expired, RegistryInv, RegistryTypeOK,
           ClocksInStep, IInv, TypeOK
      <3>2. CASE sinceOpened = Cooldown /\ UNCHANGED vars
        BY <1>6, <3>2, <2>2 DEF TimePasses, RegistryInv, RegistryTypeOK, ClocksInStep,
           vars, breaker
      <3>3. QED BY <1>6, <3>1, <3>2 DEF TimePasses
    <2>4. QED BY <1>0, <2>1, <2>2, <2>3 DEF RegistryInv
  <1>7. CASE ClockSetBack
    <2>1. [Next]_vars
      BY <1>7 DEF ClockSetBack, Next
    <2>2. RegistryTypeOK' /\ ClocksInStep'
      BY <1>7 DEF ClockSetBack, SetClockBack, RegistryInv, RegistryTypeOK, ClocksInStep
    <2>3. QED BY <1>0, <2>1, <2>2 DEF RegistryInv
  <1>8. CASE UNCHANGED <<vars, registry>>
    <2>1. RegistryTypeOK' /\ ClocksInStep'
      BY <1>8 DEF RegistryInv, RegistryTypeOK, ClocksInStep, vars, breaker, registry
    <2>2. QED BY <1>0, <1>8, <2>1 DEF RegistryInv
  <1>9. QED
    BY <1>1, <1>2, <1>3, <1>4, <1>5, <1>6, <1>7, <1>8 DEF RegistryNext

LEMMA RegistrySpecInv == RegistrySpec => []RegistryInv
  BY RegistryInitInv, RegistryNextInv, PTL DEF RegistrySpec

(* Every variable of the resident breaker keeps its type. *)
THEOREM ResidentTypeCorrect == RegistrySpec => []TypeOK
  BY RegistrySpecInv, PTL DEF RegistryInv, IInv

(* State and failure counter of the resident breaker always agree. *)
THEOREM ResidentCounterAgrees == RegistrySpec => []ClosedIffBelowThreshold
  BY RegistrySpecInv, PTL DEF RegistryInv, IInv

(* A breaker that stays resident lets at most one new call through between a  *)
(* trip and the report that ends it.                                          *)
THEOREM ResidentOneFreshProbe == RegistrySpec => []SingleFreshProbe
  BY RegistrySpecInv, PTL DEF RegistryInv, IInv

(* A resident HalfOpen breaker has its probe in flight, or the probe ended    *)
(* without a report.                                                          *)
THEOREM ResidentProbeInFlight == RegistrySpec => []HalfOpenHasProbe
  BY RegistrySpecInv, PTL DEF RegistryInv

(* Idle eviction forgives no running cooldown, for every cooldown and idle    *)
(* time that is at least as long.                                             *)
THEOREM IdleForgivesNoCooldown == RegistrySpec => []CooldownOutlivesIdle
  <1>1. RegistryInv => CooldownOutlivesIdle
    <2> SUFFICES ASSUME RegistryInv, state = OPEN, Expired, ~excused
                 PROVE  CooldownElapsed
      BY DEF CooldownOutlivesIdle
    <2>1. quiet >= IdleTtl /\ quiet + Cooldown <= sinceOpened + IdleTtl
      BY DEF RegistryInv, ClocksInStep, Expired
    <2>2. quiet \in Int /\ sinceOpened \in Int /\ Cooldown \in Int /\ IdleTtl \in Int
      BY BreakerAssumption, RegistryAssumption DEF RegistryInv, RegistryTypeOK, IInv, TypeOK
    <2>3. QED BY <2>1, <2>2 DEF CooldownElapsed
  <1>2. QED BY <1>1, RegistrySpecInv, PTL
=============================================================================
