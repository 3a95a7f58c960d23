------------------------------ MODULE RateLimiter ------------------------------
(***************************************************************************)
(* `RdapRateLimiter` (crates/rdap-rate-limit/src/lib.rs): a global limiter *)
(* and one limiter per registry host, asked one after the other.           *)
(*                                                                         *)
(* A limiter is one atomic cell of the governor crate (external), modelled *)
(* by what GCRA promises: its debt grows by an interval with every cell it *)
(* grants, shrinks by one with every tick, and a cell is refused when the  *)
(* debt would exceed the burst.                                            *)
(*                                                                         *)
(* What the code adds is the sequence: the global cell is spent first, and *)
(* stays spent while the caller sleeps for its host, is refused there or   *)
(* is dropped.  wireDebt meters what leaves: it is the debt the global     *)
(* limiter would have if it counted the requests that are really sent.     *)
(***************************************************************************)
EXTENDS FiniteSets, Integers

CONSTANTS
    Callers,                        \* concurrent tasks; each may ask again
    Hosts,
    NoHost,                         \* not a host: the caller asks for none
    GlobalInterval, GlobalBurst,    \* ticks per cell and cells at once
    HostInterval, HostBurst

(* make_quota: rates and bursts are clamped to at least 1. *)
ASSUME RateAssumption ==
    /\ IsFiniteSet(Callers)
    /\ NoHost \notin Hosts
    /\ {GlobalInterval, GlobalBurst, HostInterval, HostBurst} \subseteq Nat \ {0}

VARIABLES
    global,       \* whether a global limiter is configured
    globalDebt,
    hostDebt,     \* hostDebt[h]; a host not asked for yet has none
    place,        \* the limiter each caller is at
    host,         \* the host it asks for
    patient,      \* whether it came by acquire or by try_acquire
    wait,         \* the ticks it still sleeps
    promised,     \* history: it fell asleep, and its limiter has granted no cell since
    wireDebt

caller == <<place, host, patient>>
vars == <<global, globalDebt, hostDebt, caller, wait, promised, wireDebt>>

Init ==
    /\ global \in BOOLEAN
    /\ globalDebt = 0
    /\ hostDebt = [h \in Hosts |-> 0]
    /\ place = [c \in Callers |-> "idle"]
    /\ host = [c \in Callers |-> NoHost]
    /\ patient = [c \in Callers |-> FALSE]
    /\ wait = [c \in Callers |-> 0]
    /\ promised = [c \in Callers |-> FALSE]
    /\ wireDebt = 0

-----------------------------------------------------------------------------
(* The debt a limiter would exceed its burst by, had it granted one more.    *)
Excess(debt, interval, burst) == debt + interval - interval * burst

GlobalExcess == Excess(globalDebt, GlobalInterval, GlobalBurst)
HostExcess(h) == Excess(hostDebt[h], HostInterval, HostBurst)

Leave(c) ==
    /\ place' = [place EXCEPT ![c] = "idle"]
    /\ host' = [host EXCEPT ![c] = NoHost]
    /\ patient' = [patient EXCEPT ![c] = FALSE]

(* A refused caller sleeps for as long as it is told, or leaves. *)
Limited(c, ticks) ==
    IF patient[c]
      THEN /\ wait' = [wait EXCEPT ![c] = ticks]
           /\ promised' = [promised EXCEPT ![c] = TRUE]
           /\ UNCHANGED caller
      ELSE Leave(c) /\ UNCHANGED <<wait, promised>>

(* A cell is granted: what the sleepers of that limiter were told is void.   *)
Void(sleepers) == promised' = [c \in Callers |-> promised[c] /\ c \notin sleepers]

-----------------------------------------------------------------------------
(* acquire and try_acquire *)
Ask(c, h, isPatient) ==
    /\ place[c] = "idle"
    /\ place' = [place EXCEPT ![c] = IF global THEN "global" ELSE "host"]
    /\ host' = [host EXCEPT ![c] = h]
    /\ patient' = [patient EXCEPT ![c] = isPatient]
    /\ UNCHANGED <<global, globalDebt, hostDebt, wait, promised, wireDebt>>

AtGlobal(c) == place[c] = "global" /\ wait[c] = 0
AtHost(c) == place[c] = "host" /\ wait[c] = 0

(* Mutant: the global cell is looked at and not taken. *)
GlobalPeeked(c) ==
    /\ AtGlobal(c)
    /\ GlobalExcess <= 0
    /\ place' = [place EXCEPT ![c] = "host"]
    /\ Void({d \in Callers : place[d] = "global"})
    /\ UNCHANGED <<global, globalDebt, hostDebt, host, patient, wait, wireDebt>>

GlobalGrants(c) ==
    /\ AtGlobal(c)
    /\ GlobalExcess <= 0
    /\ globalDebt' = globalDebt + GlobalInterval
    /\ place' = [place EXCEPT ![c] = "host"]
    /\ Void({d \in Callers : place[d] = "global"})
    /\ UNCHANGED <<global, hostDebt, host, patient, wait, wireDebt>>

GlobalLimits(c) ==
    /\ AtGlobal(c)
    /\ GlobalExcess > 0
    /\ Limited(c, GlobalExcess)
    /\ UNCHANGED <<global, globalDebt, hostDebt, wireDebt>>

(* The request is sent. *)
HostGrants(c) ==
    LET h == host[c] IN
    /\ AtHost(c)
    /\ HostExcess(h) <= 0
    /\ hostDebt' = [hostDebt EXCEPT ![h] = @ + HostInterval]
    /\ wireDebt' = IF global THEN wireDebt + GlobalInterval ELSE 0
    /\ Leave(c)
    /\ Void({d \in Callers : place[d] = "host" /\ host[d] = h})
    /\ UNCHANGED <<global, globalDebt, wait>>

(* Mutant: the wait is rounded down. *)
HostLimitsShort(c) ==
    /\ AtHost(c)
    /\ HostExcess(host[c]) > 0
    /\ Limited(c, HostExcess(host[c]) - 1)
    /\ UNCHANGED <<global, globalDebt, hostDebt, wireDebt>>

(* Mutant: a refused check counts against the host. *)
HostLimitsPenalised(c) ==
    /\ AtHost(c)
    /\ HostExcess(host[c]) > 0
    /\ Limited(c, HostExcess(host[c]))
    /\ hostDebt' = [hostDebt EXCEPT ![host[c]] = HostInterval * HostBurst]
    /\ UNCHANGED <<global, globalDebt, wireDebt>>

HostLimits(c) ==
    /\ AtHost(c)
    /\ HostExcess(host[c]) > 0
    /\ Limited(c, HostExcess(host[c]))
    /\ UNCHANGED <<global, globalDebt, hostDebt, wireDebt>>

(* The sleeping caller's future is dropped. *)
Drop(c) ==
    /\ wait[c] > 0
    /\ Leave(c)
    /\ wait' = [wait EXCEPT ![c] = 0]
    /\ promised' = [promised EXCEPT ![c] = FALSE]
    /\ UNCHANGED <<global, globalDebt, hostDebt, wireDebt>>

(* Time passes: debts are paid back, sleepers come closer to their time.      *)
Less(n) == IF n = 0 THEN 0 ELSE n - 1

Tick ==
    /\ globalDebt' = Less(globalDebt)
    /\ hostDebt' = [h \in Hosts |-> Less(hostDebt[h])]
    /\ wait' = [c \in Callers |-> Less(wait[c])]
    /\ wireDebt' = Less(wireDebt)
    /\ UNCHANGED <<global, caller, promised>>

-----------------------------------------------------------------------------
Check(c) == GlobalGrants(c) \/ GlobalLimits(c) \/ HostGrants(c) \/ HostLimits(c)

Next ==
    \/ Tick
    \/ \E c \in Callers :
        \/ Check(c) \/ Drop(c)
        \/ \E h \in Hosts, isPatient \in BOOLEAN : Ask(c, h, isPatient)

Spec == Init /\ [][Next]_vars

(* Time passes, and a task whose timer has fired is scheduled. *)
Fairness == WF_vars(Tick) /\ \A c \in Callers : WF_vars(Check(c))

LiveSpec == Spec /\ Fairness

-----------------------------------------------------------------------------
(* Properties *)

(* Types; no limiter exceeds its burst, and only patient callers sleep.      *)
TypeOK ==
    /\ global \in BOOLEAN
    /\ globalDebt \in 0 .. GlobalInterval * GlobalBurst
    /\ hostDebt \in [Hosts -> 0 .. HostInterval * HostBurst]
    /\ place \in [Callers -> {"idle", "global", "host"}]
    /\ host \in [Callers -> Hosts \cup {NoHost}]
    /\ \A c \in Callers : host[c] = NoHost <=> place[c] = "idle"
    /\ patient \in [Callers -> BOOLEAN]
    /\ wait \in [Callers -> Nat]
    /\ promised \in [Callers -> BOOLEAN]
    /\ \A c \in Callers : wait[c] > 0 \/ promised[c] => patient[c] /\ place[c] # "idle"
    /\ wireDebt \in Nat

(* "caps total outbound RDAP traffic" (rdap-rate-limit/src/lib.rs:226), as far *)
(* as it goes: callers that hold a global cell and sleep for their hosts may   *)
(* leave together, so what is sent exceeds the global quota, by at most one    *)
(* cell for each of them.                                                      *)
Parked == {c \in Callers : place[c] = "host"}

OutboundBounded ==
    global => wireDebt + GlobalInterval * Cardinality(Parked)
                <= globalDebt + GlobalInterval * Cardinality(Callers)

(* "wait times are exact" (rdap-rate-limit/src/lib.rs:6): a sleeper that is not *)
(* overtaken finds a cell when its time is up.                                 *)
WaitsSuffice ==
    \A c \in Callers : promised[c] =>
        /\ place[c] = "global" => GlobalExcess <= wait[c]
        /\ place[c] = "host" => HostExcess(host[c]) <= wait[c]

(* Callers retry without a queue and may overtake each other for ever, yet    *)
(* while some wait, requests keep leaving: cells spent by callers that are    *)
(* refused or dropped do not stall the others.                                *)
Sends == \E c \in Callers : HostGrants(c)

KeepsSending == []<>(\A c \in Callers : place[c] = "idle") \/ []<><<Sends>>_vars
=============================================================================
