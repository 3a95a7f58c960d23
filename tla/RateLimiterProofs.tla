-------------------------- MODULE RateLimiterProofs --------------------------
(***************************************************************************)
(* Proofs about the rate limiter, for any finite set of callers, any hosts *)
(* and any quotas.                                                         *)
(*                                                                         *)
(* The three invariants are inductive together.  OutboundBounded is an     *)
(* account: a parked caller carries a cell that the global limiter has     *)
(* counted and the wire has not; a tick may forgive the global limiter one *)
(* more than the wire, and then nothing has left that was not forgiven.    *)
(***************************************************************************)
EXTENDS RateLimiter, FiniteSetTheorems, TLAPS

IInv == TypeOK /\ OutboundBounded /\ WaitsSuffice

(* Products with the interval, for the solver. *)
LEMMA ProductStep == \A k, n \in Nat : k * (n + 1) = k * n + k
  OBVIOUS

LEMMA ProductMonotone == \A k, m, n \in Nat : m <= n => k * m <= k * n
  <1> SUFFICES ASSUME NEW k \in Nat, NEW m \in Nat, NEW n \in Nat, m <= n
               PROVE k * m <= k * n
    OBVIOUS
  <1>1. n - m \in Nat /\ n = m + (n - m)
    OBVIOUS
  <1>2. k * n = k * m + k * (n - m)
    BY <1>1
  <1>3. k * (n - m) \in Nat
    BY <1>1
  <1>4. k * m \in Nat /\ k * n \in Nat
    OBVIOUS
  <1>5. QED BY <1>2, <1>3, <1>4

LEMMA Intervals ==
  /\ GlobalInterval \in Nat /\ GlobalInterval > 0
  /\ HostInterval \in Nat /\ HostInterval > 0
  /\ GlobalInterval * GlobalBurst \in Nat
  /\ HostInterval * HostBurst \in Nat
  /\ GlobalInterval <= GlobalInterval * GlobalBurst
  /\ HostInterval <= HostInterval * HostBurst
  <1>1. /\ GlobalInterval \in Nat /\ GlobalInterval > 0
        /\ GlobalBurst \in Nat /\ GlobalBurst >= 1
        /\ HostInterval \in Nat /\ HostInterval > 0
        /\ HostBurst \in Nat /\ HostBurst >= 1
    BY RateAssumption
  <1>2. GlobalInterval * 1 <= GlobalInterval * GlobalBurst
    BY <1>1, ProductMonotone
  <1>3. HostInterval * 1 <= HostInterval * HostBurst
    BY <1>1, ProductMonotone
  <1>4. /\ GlobalInterval * GlobalBurst \in Nat
        /\ HostInterval * HostBurst \in Nat
    BY <1>1
  <1>5. QED BY <1>1, <1>2, <1>3, <1>4

(* What is parked and how that changes. *)
LEMMA ParkedCount ==
  /\ IsFiniteSet(Parked)
  /\ Cardinality(Parked) \in Nat
  /\ Cardinality(Callers) \in Nat
  /\ Cardinality(Parked) <= Cardinality(Callers)
  <1>1. Parked \subseteq Callers
    BY DEF Parked
  <1>2. IsFiniteSet(Parked) /\ Cardinality(Parked) <= Cardinality(Callers)
    BY <1>1, RateAssumption, FS_Subset
  <1>3. QED BY <1>2, RateAssumption, FS_CardinalityType

LEMMA ParkedAdds ==
  ASSUME NEW c \in Callers, TypeOK, place[c] # "host",
         place' = [place EXCEPT ![c] = "host"]
  PROVE  Cardinality(Parked') = Cardinality(Parked) + 1
  <1>1. Parked' = Parked \cup {c} /\ c \notin Parked
    BY DEF Parked, TypeOK
  <1>2. QED BY <1>1, ParkedCount, FS_AddElement

LEMMA ParkedRemoves ==
  ASSUME NEW c \in Callers, TypeOK, place[c] = "host",
         place' = [place EXCEPT ![c] = "idle"]
  PROVE  Cardinality(Parked) = Cardinality(Parked') + 1
  <1>1. Parked' = Parked \ {c} /\ c \in Parked
    BY DEF Parked, TypeOK
  <1>2. Cardinality(Parked') = Cardinality(Parked) - 1
    BY <1>1, ParkedCount, FS_RemoveElement
  <1>3. QED BY <1>2, ParkedCount

LEMMA ParkedShrinks ==
  ASSUME NEW c \in Callers, TypeOK, place' = [place EXCEPT ![c] = "idle"]
  PROVE  Cardinality(Parked') \in Nat /\ Cardinality(Parked') <= Cardinality(Parked)
  <1>1. Parked' \subseteq Parked
    BY DEF Parked, TypeOK
  <1>2. QED BY <1>1, ParkedCount, FS_Subset, FS_CardinalityType

LEMMA InitIInv == Init => IInv
  <1> SUFFICES ASSUME Init PROVE IInv
    OBVIOUS
  <1>1. TypeOK
    BY RateAssumption, Intervals DEF Init, TypeOK
  <1>2. OutboundBounded
    <2>1. Parked = {}
      BY DEF Init, Parked
    <2>2. Cardinality(Parked) = 0
      BY <2>1, FS_EmptySet
    <2>3. GlobalInterval * 0 = 0 /\ GlobalInterval * Cardinality(Callers) \in Nat
      BY Intervals, ParkedCount
    <2>4. QED BY <2>2, <2>3 DEF Init, OutboundBounded
  <1>3. WaitsSuffice
    BY DEF Init, WaitsSuffice
  <1>4. QED BY <1>1, <1>2, <1>3 DEF IInv

(* The account is kept by every step that moves no cell between the limiter  *)
(* and the wire.                                                             *)
LEMMA AccountKept ==
  ASSUME IInv, UNCHANGED <<global, globalDebt, wireDebt>>,
         Cardinality(Parked') \in Nat, Cardinality(Parked') <= Cardinality(Parked)
  PROVE  OutboundBounded'
  <1>1. GlobalInterval * Cardinality(Parked') <= GlobalInterval * Cardinality(Parked)
    BY ProductMonotone, Intervals, ParkedCount
  <1>2. /\ GlobalInterval * Cardinality(Parked') \in Nat
        /\ GlobalInterval * Cardinality(Parked) \in Nat
        /\ GlobalInterval * Cardinality(Callers) \in Nat
    BY Intervals, ParkedCount
  <1>3. QED BY <1>1, <1>2 DEF IInv, TypeOK, OutboundBounded

LEMMA AskStep ==
  ASSUME IInv, NEW c \in Callers, NEW h \in Hosts, NEW b \in BOOLEAN, Ask(c, h, b)
  PROVE  IInv'
  <1> USE RateAssumption DEF IInv, Ask
  <1>1. TypeOK' BY DEF TypeOK
  <1>2. OutboundBounded'
    <2>1. CASE global
      <3>1. Parked' = Parked BY <2>1 DEF TypeOK, Parked
      <3>2. QED BY <3>1, AccountKept, ParkedCount
    <2>2. CASE ~global BY <2>2 DEF OutboundBounded
    <2>3. QED BY <2>1, <2>2
  <1>3. WaitsSuffice' BY DEF TypeOK, WaitsSuffice, GlobalExcess, HostExcess
  <1>4. QED BY <1>1, <1>2, <1>3

LEMMA GlobalGrantsStep == ASSUME IInv, NEW c \in Callers, GlobalGrants(c) PROVE IInv'
  <1> USE DEF IInv, GlobalGrants, AtGlobal, Void
  <1>1. globalDebt' \in 0 .. GlobalInterval * GlobalBurst
    BY Intervals DEF TypeOK, GlobalExcess, Excess
  <1>2. TypeOK' BY <1>1 DEF TypeOK
  <1>3. OutboundBounded'
    <2>1. Cardinality(Parked') = Cardinality(Parked) + 1
      BY ParkedAdds
    <2>2. GlobalInterval * Cardinality(Parked')
            = GlobalInterval * Cardinality(Parked) + GlobalInterval
      BY <2>1, ProductStep, Intervals, ParkedCount
    <2>3. /\ GlobalInterval * Cardinality(Parked) \in Nat
          /\ GlobalInterval * Cardinality(Callers) \in Nat
      BY Intervals, ParkedCount
    <2>4. QED BY <2>2, <2>3, Intervals DEF TypeOK, OutboundBounded
  <1>4. WaitsSuffice'
    BY DEF TypeOK, WaitsSuffice, HostExcess
  <1>5. QED BY <1>2, <1>3, <1>4

LEMMA HostGrantsStep == ASSUME IInv, NEW c \in Callers, HostGrants(c) PROVE IInv'
  <1> USE RateAssumption DEF IInv, HostGrants, AtHost, Void, Leave
  <1>1. host[c] \in Hosts
    BY DEF TypeOK
  <1>2. hostDebt[host[c]] + HostInterval \in 0 .. HostInterval * HostBurst
    BY <1>1, Intervals DEF TypeOK, HostExcess, Excess
  <1>3. wireDebt' \in Nat
    BY Intervals DEF TypeOK
  <1>4. TypeOK'
    <2>1. hostDebt' \in [Hosts -> 0 .. HostInterval * HostBurst]
      BY <1>1, <1>2 DEF TypeOK
    <2>2. /\ promised' \in [Callers -> BOOLEAN]
          /\ ~promised'[c]
          /\ \A d \in Callers : promised'[d] => promised[d]
      BY DEF TypeOK
    <2>3. /\ place' \in [Callers -> {"idle", "global", "host"}]
          /\ host' \in [Callers -> Hosts \cup {NoHost}]
          /\ \A d \in Callers : host'[d] = NoHost <=> place'[d] = "idle"
          /\ patient' \in [Callers -> BOOLEAN]
      BY DEF TypeOK
    <2>4. \A d \in Callers : wait'[d] > 0 \/ promised'[d] => patient'[d] /\ place'[d] # "idle"
      <3> SUFFICES ASSUME NEW d \in Callers, wait'[d] > 0 \/ promised'[d]
                   PROVE  patient'[d] /\ place'[d] # "idle"
        OBVIOUS
      <3>1. d # c BY <2>2
      <3>2. QED BY <2>2, <3>1 DEF TypeOK
    <2>5. QED BY <1>3, <2>1, <2>2, <2>3, <2>4 DEF TypeOK
  <1>5. OutboundBounded'
    <2>1. Cardinality(Parked) = Cardinality(Parked') + 1 /\ Cardinality(Parked') \in Nat
      BY ParkedRemoves, ParkedShrinks
    <2>2. GlobalInterval * Cardinality(Parked)
            = GlobalInterval * Cardinality(Parked') + GlobalInterval
      BY <2>1, ProductStep, Intervals
    <2>3. /\ GlobalInterval * Cardinality(Parked') \in Nat
          /\ GlobalInterval * Cardinality(Callers) \in Nat
      BY <2>1, Intervals, ParkedCount
    <2>4. QED BY <2>2, <2>3, Intervals DEF TypeOK, OutboundBounded
  <1>6. WaitsSuffice'
    BY <1>1 DEF TypeOK, WaitsSuffice, GlobalExcess, HostExcess
  <1>7. QED BY <1>4, <1>5, <1>6

LEMMA LimitsStep ==
  ASSUME IInv, NEW c \in Callers, GlobalLimits(c) \/ HostLimits(c) PROVE IInv'
  <1> USE RateAssumption DEF IInv, Limited, Leave, caller
  <1>1. PICK ticks \in Nat :
          /\ Limited(c, ticks)
          /\ place[c] = "global" => ticks = GlobalExcess
          /\ place[c] = "host" => ticks = HostExcess(host[c])
    <2>1. CASE GlobalLimits(c)
      <3>1. GlobalExcess \in Nat
        BY <2>1, Intervals DEF GlobalLimits, TypeOK, GlobalExcess, Excess
      <3>2. QED BY <2>1, <3>1 DEF GlobalLimits, AtGlobal
    <2>2. CASE HostLimits(c)
      <3>1. HostExcess(host[c]) \in Nat
        BY <2>2, Intervals DEF HostLimits, AtHost, TypeOK, HostExcess, Excess
      <3>2. QED BY <2>2, <3>1 DEF HostLimits, AtHost
    <2>3. QED BY <2>1, <2>2
  <1>2. place[c] # "idle" /\ UNCHANGED <<global, globalDebt, hostDebt, wireDebt>>
    BY DEF GlobalLimits, HostLimits, AtGlobal, AtHost
  <1>3. TypeOK'
    <2>1. CASE patient[c]
      BY <1>1, <1>2, <2>1, ZenonT(40) DEF TypeOK
    <2>2. CASE ~patient[c]
      <3>1. ~promised[c] /\ ~(wait[c] > 0)
        BY <2>2 DEF TypeOK
      <3>2. QED BY <1>1, <1>2, <2>2, <3>1, ZenonT(40) DEF TypeOK
    <2>3. QED BY <2>1, <2>2
  <1>4. OutboundBounded'
    <2>1. CASE patient[c]
      <3>1. Parked' = Parked BY <1>1, <2>1 DEF Parked
      <3>2. QED BY <1>2, <3>1, AccountKept, ParkedCount
    <2>2. CASE ~patient[c]
      BY <1>1, <1>2, <2>2, AccountKept, ParkedShrinks
    <2>3. QED BY <2>1, <2>2
  <1>5. WaitsSuffice'
    <2>1. UNCHANGED GlobalExcess /\ \A h \in Hosts : UNCHANGED HostExcess(h)
      BY <1>2 DEF GlobalExcess, HostExcess
    <2>2. CASE patient[c]
      BY <1>1, <1>2, <2>1, <2>2, Intervals DEF TypeOK, WaitsSuffice, GlobalExcess, HostExcess, Excess
    <2>3. CASE ~patient[c]
      BY <1>1, <1>2, <2>1, <2>3 DEF TypeOK, WaitsSuffice, GlobalExcess, HostExcess, Excess
    <2>4. QED BY <2>2, <2>3
  <1>6. QED BY <1>3, <1>4, <1>5

LEMMA DropStep == ASSUME IInv, NEW c \in Callers, Drop(c) PROVE IInv'
  <1> USE RateAssumption DEF IInv, Drop, Leave
  <1>1. TypeOK' BY DEF TypeOK
  <1>2. OutboundBounded' BY AccountKept, ParkedShrinks
  <1>3. WaitsSuffice' BY DEF TypeOK, WaitsSuffice, GlobalExcess, HostExcess
  <1>4. QED BY <1>1, <1>2, <1>3

LEMMA TickStep == ASSUME IInv, Tick PROVE IInv'
  <1> USE DEF IInv, Tick, Less, caller
  <1>1. TypeOK' BY Intervals DEF TypeOK
  <1>2. OutboundBounded'
    <2>1. Parked' = Parked BY DEF Parked
    <2>2. GlobalInterval * Cardinality(Parked) <= GlobalInterval * Cardinality(Callers)
      BY ProductMonotone, Intervals, ParkedCount
    <2>3. /\ GlobalInterval * Cardinality(Parked) \in Nat
          /\ GlobalInterval * Cardinality(Callers) \in Nat
      BY Intervals, ParkedCount
    <2>4. QED BY <2>1, <2>2, <2>3 DEF TypeOK, OutboundBounded
  <1>3. WaitsSuffice'
    <2> SUFFICES ASSUME NEW c \in Callers, promised[c]
                 PROVE  /\ place[c] = "global" => GlobalExcess' <= wait'[c]
                        /\ place[c] = "host" => HostExcess(host[c])' <= wait'[c]
      BY DEF WaitsSuffice
    <2>1. ASSUME place[c] = "global" PROVE GlobalExcess' <= wait'[c]
      BY <2>1, Intervals DEF TypeOK, WaitsSuffice, GlobalExcess, Excess
    <2>2. ASSUME place[c] = "host" PROVE HostExcess(host[c])' <= wait'[c]
      <3>1. host[c] \in Hosts BY <2>2 DEF TypeOK
      <3>2. QED
        BY <2>2, <3>1, Intervals DEF TypeOK, WaitsSuffice, HostExcess, Excess
    <2>3. QED BY <2>1, <2>2
  <1>4. QED BY <1>1, <1>2, <1>3

LEMMA NextIInv == IInv /\ [Next]_vars => IInv'
  <1> SUFFICES ASSUME IInv, [Next]_vars PROVE IInv'
    OBVIOUS
  <1>1. CASE Tick BY <1>1, TickStep
  <1>2. CASE \E c \in Callers : Check(c)
    BY <1>2, GlobalGrantsStep, HostGrantsStep, LimitsStep DEF Check
  <1>3. CASE \E c \in Callers : Drop(c) BY <1>3, DropStep
  <1>4. CASE \E c \in Callers : \E h \in Hosts, b \in BOOLEAN : Ask(c, h, b)
    BY <1>4, AskStep
  <1>5. CASE UNCHANGED vars
    BY <1>5 DEF vars, caller, IInv, TypeOK, OutboundBounded, Parked, WaitsSuffice,
       GlobalExcess, HostExcess
  <1>6. QED BY <1>1, <1>2, <1>3, <1>4, <1>5 DEF Next

LEMMA SpecIInv == Spec => []IInv
  BY InitIInv, NextIInv, PTL DEF Spec

(* Every variable keeps its type; in particular no limiter ever owes more     *)
(* than its burst.                                                            *)
THEOREM TypeCorrect == Spec => []TypeOK
  BY SpecIInv, PTL DEF IInv

(* What is sent stays within the global quota plus one cell per caller.       *)
THEOREM WireWithinQuota == Spec => []OutboundBounded
  BY SpecIInv, PTL DEF IInv

(* The wait a limiter computes is enough unless somebody else is granted the  *)
(* cell.                                                                      *)
THEOREM WaitIsEnough == Spec => []WaitsSuffice
  BY SpecIInv, PTL DEF IInv
=============================================================================
