------------------------------ MODULE MemoryCache ------------------------------
(***************************************************************************)
(* The response cache (crates/rdap-cache/src/lib.rs) as one key sees it,   *)
(* over time.  An entry carries its age, the time since it was inserted;   *)
(* what it holds was said by a registry some time before that.             *)
(*                                                                         *)
(* moka hands out a snapshot of the entry (an Arc), and get_status reads   *)
(* the clock after that: time, and other tasks, may come in between.       *)
(* moka counts an entry's time on its own clock and from its own start, so *)
(* it may still hand out what has just expired by the entry's timestamps.  *)
(*                                                                         *)
(* Keys share the capacity and clear(), and nothing else: both are Evict.  *)
(* Hits and misses are counted as stale and negative hits are, and nobody  *)
(* reads them back.                                                        *)
(***************************************************************************)
EXTENDS Integers

CONSTANTS
    Tasks,                            \* who looks the key up
    Ttls,                             \* QueryKind::ttl of the kinds of query
    NegativeTtl,                      \* CachePolicy::DEFAULT_NEGATIVE_TTL
    StaleShare, StaleMin, StaleMax,   \* the stale window: ttl / 5 in 30s..120s
    MaxFlight,   \* time from a registry's answer to its insertion
    Skew,        \* how much later than the entry moka may expire it
    MaxAge,      \* bound: ages are counted up to here
    MaxCount,    \* bound: the counters count up to here
    NoEntry

ASSUME CacheAssumption ==
    /\ Ttls \subseteq Nat
    /\ NegativeTtl \in Nat
    /\ StaleShare \in Nat \ {0}
    /\ StaleMin \in Nat /\ StaleMax \in Nat
    /\ MaxFlight \in Nat /\ Skew \in Nat /\ MaxCount \in Nat
    /\ MaxAge \in Nat
    /\ \A ttl \in Ttls \cup {NegativeTtl} : MaxAge > ttl + StaleMax + Skew

VARIABLES
    store,     \* the entry of the key, or NoEntry
    held,      \* held[t]: the snapshot get_status works on
    counted    \* the counters stale_hits and negative_hits

cache == <<store, held, counted>>

Counters == {"stale", "negative"}

CacheInit ==
    /\ store = NoEntry
    /\ held = [t \in Tasks |-> NoEntry]
    /\ counted = [c \in Counters |-> 0]

-----------------------------------------------------------------------------
StaleWindow(ttl) ==
    LET share == ttl \div StaleShare
        floor == IF share < StaleMin THEN StaleMin ELSE share
    IN  IF floor > StaleMax THEN StaleMax ELSE floor

(* said: how long ago, at the insertion, the registry gave the answer. *)
Entry(value, ttl, stale_ttl, said) ==
    [value |-> value, ttl |-> ttl, stale_ttl |-> stale_ttl, age |-> 0, said |-> said]

IsFresh(e) == e.age <= e.ttl
TotalTtl(e) == e.ttl + e.stale_ttl
IsInStaleWindow(e) == e.age > e.ttl /\ e.age <= TotalTtl(e)

(* Mutant: what moka still hands out is not checked against the clock again. *)
StatusOfResident(e) ==
    IF e = NoEntry THEN "miss"
    ELSE IF e.value = "negative" THEN "negative"
    ELSE IF IsFresh(e) THEN "fresh" ELSE "stale"

Status(e) ==
    IF e = NoEntry THEN "miss"
    ELSE IF e.value = "negative" THEN IF IsFresh(e) THEN "negative" ELSE "miss"
    ELSE IF IsFresh(e) THEN "fresh"
    ELSE IF IsInStaleWindow(e) THEN "stale" ELSE "miss"

-----------------------------------------------------------------------------
(* get_status: the snapshot, then the decision.  An expired snapshot has its *)
(* key invalidated, whatever is there by now.                                *)

Load(t) ==
    /\ held' = [held EXCEPT ![t] = store]
    /\ UNCHANGED <<store, counted>>

Settle(t) ==
    LET status == Status(held[t]) IN
    /\ counted' = [c \in Counters |->
                    IF c = status /\ counted[c] < MaxCount THEN counted[c] + 1 ELSE counted[c]]
    /\ store' = IF status = "miss" /\ held[t] # NoEntry THEN NoEntry ELSE store
    /\ held' = [held EXCEPT ![t] = NoEntry]

(* set_with_ttl and set_negative: whatever is there is replaced. *)
SetWithTtl(ttl, said) ==
    /\ store' = Entry("hit", ttl, StaleWindow(ttl), said)
    /\ UNCHANGED <<held, counted>>

SetNegative(said) ==
    /\ store' = Entry("negative", NegativeTtl, 0, said)
    /\ UNCHANGED <<held, counted>>

(* The capacity, clear(), evict_expired(). *)
Evict ==
    /\ store # NoEntry
    /\ store' = NoEntry
    /\ UNCHANGED <<held, counted>>

Older(e) ==
    IF e = NoEntry THEN NoEntry
    ELSE [e EXCEPT !.age = IF @ < MaxAge THEN @ + 1 ELSE @,
                   !.said = IF e.age < MaxAge THEN @ + 1 ELSE @]

(* EntryExpiry: moka lets go of an entry after its total time to live. *)
Expires(e) == e # NoEntry /\ e.age > TotalTtl(e) + Skew

CacheTick ==
    /\ store' = IF Expires(Older(store)) THEN NoEntry ELSE Older(store)
    /\ held' = [t \in Tasks |-> Older(held[t])]
    /\ UNCHANGED counted
=============================================================================
