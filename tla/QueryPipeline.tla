------------------------------ MODULE QueryPipeline ------------------------------
(***************************************************************************)
(* The query path of the client over the response cache:                   *)
(* `fetch_with_cache` and `background_refresh`                             *)
(* (crates/rdapify-client/src/lib.rs) on top of `MemoryCache`              *)
(* (crates/rdap-cache/src/lib.rs) and its single-flight registry.          *)
(*                                                                         *)
(* A query looks the key up.  A fresh or negative entry answers it, a      *)
(* stale one answers it too and may start a background refresh.  On a miss *)
(* the query claims the in-flight slot of the key, or waits on the Notify  *)
(* of whoever holds it, looks again, and fetches for itself if there is    *)
(* still nothing.  The slot is given back by the guard's Drop, on every    *)
(* way out.                                                                *)
(*                                                                         *)
(* A Notify is named after the task whose guard owns it.  notify_waiters   *)
(* wakes the futures that exist; a follower that has cloned the Notify but *)
(* not yet created its future is not among them.  CurrentThread says that  *)
(* the runtime has one thread, so that nothing runs between two statements *)
(* without an await.                                                       *)
(*                                                                         *)
(* An entry is its freshness class: nothing here depends on the numbers.   *)
(* Fresh and negative hits change nothing and are not steps.               *)
(***************************************************************************)
EXTENDS FiniteSets, Naturals

CONSTANTS
    Queries,          \* concurrent callers; each may ask again
    Refreshers,       \* bound: the spawned background tasks alive at a time
    Keys,             \* cache keys
    NoTask,
    MaxInflight,      \* MAX_INFLIGHT_REFRESHES
    CurrentThread,    \* whether the runtime is single-threaded
    MayCancel         \* whether callers may drop a query's future

ASSUME PipelineAssumption ==
    /\ Queries \cap Refreshers = {}
    /\ NoTask \notin Queries \cup Refreshers
    /\ MaxInflight \in Nat \ {0}
    /\ CurrentThread \in BOOLEAN
    /\ MayCancel \in BOOLEAN

Tasks == Queries \cup Refreshers

VARIABLES
    cache,      \* cache[k]: "none", "fresh", "stale" or "negative"
    slot,       \* slot[k]: the task whose guard is in in_flight, or NoTask
    place,      \* where each task stands
    key,        \* the key a task works on
    waitsOn,    \* the task whose Notify a follower has cloned, or NoTask
    disturbed   \* history: keys whose leader left nothing, or whose entry was lost,
                \* since a lookup last came to one nobody worked on

vars == <<cache, slot, place, key, waitsOn, disturbed>>

Init ==
    /\ cache = [k \in Keys |-> "none"]
    /\ slot = [k \in Keys |-> NoTask]
    /\ place = [t \in Tasks |-> "idle"]
    /\ \E k \in Keys : key = [t \in Tasks |-> k]   \* not used until it is set
    /\ waitsOn = [q \in Queries |-> NoTask]
    /\ disturbed = {}

Goto(t, where) == place' = [place EXCEPT ![t] = where]

-----------------------------------------------------------------------------
(* try_acquire_refresh: first the number of slots is compared with the cap,  *)
(* then the entry is claimed.  Other threads may claim in between, so the    *)
(* cap is soft.                                                              *)

Capped == Cardinality({k \in Keys : slot[k] # NoTask}) >= MaxInflight
MayClaim(k)  == slot[k] = NoTask /\ (CurrentThread => ~Capped)
MayRefuse(k) == slot[k] # NoTask \/ Capped

Claim(k, t) == MayClaim(k) /\ slot' = [slot EXCEPT ![k] = t]

(* A refusal of the cap, when nobody works on the key, ends the promise of a  *)
(* single fetch.                                                              *)
Refuse(k) ==
    /\ MayRefuse(k)
    /\ disturbed' = IF slot[k] = NoTask THEN disturbed \cup {k} ELSE disturbed
    /\ UNCHANGED slot

-----------------------------------------------------------------------------
(* The query, step by step. *)

(* The first to come starts a new round of work on a key, for which what      *)
(* happened before it is no excuse any more.                                  *)
Joins(k) ==
    disturbed' = IF \E t \in Tasks : place[t] # "idle" /\ key[t] = k
                   THEN disturbed ELSE disturbed \ {k}

LookupMiss(q, k) ==
    /\ place[q] = "idle"
    /\ cache[k] = "none"
    /\ key' = [key EXCEPT ![q] = k]
    /\ Goto(q, "missed")
    /\ Joins(k)
    /\ UNCHANGED <<cache, slot, waitsOn>>

(* A stale hit is answered at once; the first one also starts the refresh.   *)
LookupStale(q, k, r) ==
    /\ place[q] = "idle"
    /\ cache[k] = "stale"
    /\ place[r] = "idle"
    /\ Claim(k, r)
    /\ key' = [key EXCEPT ![r] = k]
    /\ Goto(r, "fetching")
    /\ Joins(k)
    /\ UNCHANGED <<cache, waitsOn>>

(* Mutant: a query whose claim is refused fetches all the same. *)
ClaimSlotOrFetch(q) ==
    /\ place[q] = "missed"
    /\ Goto(q, "fetching")
    /\ (Claim(key[q], q) /\ UNCHANGED disturbed) \/ Refuse(key[q])
    /\ UNCHANGED <<cache, key, waitsOn>>

ClaimSlot(q) ==
    /\ place[q] = "missed"
    /\ \/ Claim(key[q], q) /\ Goto(q, "fetching") /\ UNCHANGED disturbed
       \/ Refuse(key[q]) /\ Goto(q, "following")
    /\ UNCHANGED <<cache, key, waitsOn>>

(* await_refresh: the Notify is cloned out of the map, if there is one. *)
Subscribe(q) ==
    /\ place[q] = "following"
    /\ IF slot[key[q]] = NoTask
         THEN Goto(q, "rechecking") /\ UNCHANGED waitsOn
         ELSE /\ waitsOn' = [waitsOn EXCEPT ![q] = slot[key[q]]]
              /\ Goto(q, IF CurrentThread THEN "waiting" ELSE "cloned")
    /\ UNCHANGED <<cache, slot, key, disturbed>>

(* notified(): from here on the follower is one of the waiters. *)
CreateFuture(q) ==
    /\ place[q] = "cloned"
    /\ Goto(q, "waiting")
    /\ UNCHANGED <<cache, slot, key, waitsOn, disturbed>>

RecheckHit(q) ==
    /\ place[q] = "rechecking"
    /\ cache[key[q]] # "none"
    /\ Goto(q, "idle")
    /\ UNCHANGED <<cache, slot, key, waitsOn, disturbed>>

(* Still nothing: claim again, and go on unprotected when that fails. *)
RecheckMiss(q) ==
    /\ place[q] = "rechecking"
    /\ cache[key[q]] = "none"
    /\ Goto(q, "fetching")
    /\ (Claim(key[q], q) /\ UNCHANGED disturbed) \/ Refuse(key[q])
    /\ UNCHANGED <<cache, key, waitsOn>>

-----------------------------------------------------------------------------
(* Rate limit and fetch, by the leader, a background refresh, or a query     *)
(* without a guard.  What comes next is the guard's Drop, if there is one.   *)

Holds(t) == slot[key[t]] = t

(* Mutant: the guard is forgotten. *)
EndFetchLeaks(t) == Goto(t, "idle")

EndFetch(t) == Goto(t, IF Holds(t) THEN "releasing" ELSE "idle")

FetchOk(t) ==
    /\ place[t] = "fetching"
    /\ cache' = [cache EXCEPT ![key[t]] = "fresh"]
    /\ EndFetch(t)
    /\ UNCHANGED <<slot, key, waitsOn, disturbed>>

FetchNotFound(t) ==
    /\ place[t] = "fetching"
    /\ IF t \in Queries
         THEN /\ cache' = [cache EXCEPT ![key[t]] = "negative"]
              /\ UNCHANGED disturbed
         ELSE /\ disturbed' = disturbed \cup {key[t]}
              /\ UNCHANGED cache
    /\ EndFetch(t)
    /\ UNCHANGED <<slot, key, waitsOn>>

FetchFails(t) ==
    /\ place[t] = "fetching"
    /\ disturbed' = disturbed \cup {key[t]}
    /\ EndFetch(t)
    /\ UNCHANGED <<cache, slot, key, waitsOn>>

(* The caller drops the future, which stands at an await; a guard it holds   *)
(* is dropped with it.                                                       *)
Cancel(q) ==
    /\ MayCancel
    /\ \/ /\ place[q] = "fetching"
          /\ disturbed' = disturbed \cup {key[q]}
          /\ EndFetch(q)
          /\ UNCHANGED waitsOn
       \/ /\ place[q] = "waiting"
          /\ Goto(q, "idle")
          /\ waitsOn' = [waitsOn EXCEPT ![q] = NoTask]
          /\ UNCHANGED disturbed
    /\ UNCHANGED <<cache, slot, key>>

-----------------------------------------------------------------------------
(* RefreshGuard::drop: the slot is removed, then the waiters are notified. *)

Followers(t, where) == {q \in Queries : waitsOn[q] = t /\ place[q] = where}

(* Mutant: one waiter is notified, not all. *)
NotifyOne(t) ==
    LET woken == IF Followers(t, "waiting") = {} THEN {}
                 ELSE {CHOOSE q \in Followers(t, "waiting") : TRUE}
    IN  /\ place' = [u \in Tasks |->
                        IF u = t THEN "idle"
                        ELSE IF u \in woken THEN "rechecking" ELSE place[u]]
        /\ waitsOn' = [q \in Queries |->
                          IF q \in woken \cup Followers(t, "cloned")
                            THEN NoTask ELSE waitsOn[q]]

(* Those that wait wake up and look again; those that have only cloned the   *)
(* Notify will wait on one that nobody notifies any more.                    *)
NotifyWaiters(t) ==
    /\ place' = [u \in Tasks |->
                    IF u = t THEN "idle"
                    ELSE IF u \in Followers(t, "waiting") THEN "rechecking"
                    ELSE place[u]]
    /\ waitsOn' = [q \in Queries |-> IF waitsOn[q] = t THEN NoTask ELSE waitsOn[q]]

RemoveSlot(t) == slot' = [slot EXCEPT ![key[t]] = NoTask]

DropGuard(t) ==
    /\ place[t] = "releasing"
    /\ RemoveSlot(t)
    /\ IF CurrentThread
         THEN NotifyWaiters(t)
         ELSE Goto(t, "notifying") /\ UNCHANGED waitsOn
    /\ UNCHANGED <<cache, key, disturbed>>

DropGuardNotify(t) ==
    /\ place[t] = "notifying"
    /\ NotifyWaiters(t)
    /\ UNCHANGED <<cache, slot, key, disturbed>>

-----------------------------------------------------------------------------
(* What happens to entries on their own, and clear_cache. *)

Age(k) ==
    /\ \/ cache[k] = "fresh" /\ cache' = [cache EXCEPT ![k] = "stale"] /\ UNCHANGED disturbed
       \/ /\ cache[k] # "none"                \* past its last deadline, or evicted
          /\ cache' = [cache EXCEPT ![k] = "none"]
          /\ disturbed' = disturbed \cup {k}
    /\ UNCHANGED <<slot, place, key, waitsOn>>

Clear ==
    /\ \E k \in Keys : cache[k] # "none"
    /\ cache' = [k \in Keys |-> "none"]
    /\ disturbed' = Keys
    /\ UNCHANGED <<slot, place, key, waitsOn>>

-----------------------------------------------------------------------------
QueryStep(q) ==
    \/ ClaimSlot(q) \/ Subscribe(q) \/ CreateFuture(q)
    \/ RecheckHit(q) \/ RecheckMiss(q)

Fetch(t) == FetchOk(t) \/ FetchNotFound(t) \/ FetchFails(t)

Next ==
    \/ \E q \in Queries :
        \/ \E k \in Keys :
            LookupMiss(q, k) \/ \E r \in Refreshers : LookupStale(q, k, r)
        \/ QueryStep(q)
        \/ Cancel(q)
    \/ \E t \in Tasks : Fetch(t) \/ DropGuard(t) \/ DropGuardNotify(t)
    \/ \E k \in Keys : Age(k)
    \/ Clear

Spec == Init /\ [][Next]_vars

(* A started task is scheduled again whenever it can go on, and a fetch has  *)
(* timeouts and bounded retries.                                             *)
Fairness ==
    /\ \A q \in Queries : WF_vars(QueryStep(q))
    /\ \A t \in Tasks : WF_vars(Fetch(t)) /\ WF_vars(DropGuard(t) \/ DropGuardNotify(t))

LiveSpec == Spec /\ Fairness

-----------------------------------------------------------------------------
(* Properties *)

Waiters(k) == {q \in Queries : place[q] = "waiting" /\ key[q] = k}

SF == INSTANCE SingleFlight WITH leader <- slot, waiting <- [k \in Keys |-> Waiters(k)]

(* Types; and a query holds a Notify only while it follows a leader. *)
TypeOK ==
    /\ cache \in [Keys -> {"none", "fresh", "stale", "negative"}]
    /\ slot \in [Keys -> Tasks \cup {NoTask}]
    /\ place \in [Tasks -> {"idle", "missed", "following", "cloned", "waiting",
                            "rechecking", "fetching", "releasing", "notifying"}]
    /\ key \in [Tasks -> Keys]
    /\ waitsOn \in [Queries -> Tasks \cup {NoTask}]
    /\ disturbed \subseteq Keys
    /\ \A q \in Queries : waitsOn[q] # NoTask => place[q] \in {"cloned", "waiting"}

(* A slot never outlives the task that claimed it: the holder is still at    *)
(* work on that very key, or about to drop its guard.  A leaked slot would   *)
(* stop every later refresh of the key.                                      *)
SlotHolderAtWork ==
    \A k \in Keys : slot[k] # NoTask =>
        place[slot[k]] \in {"fetching", "releasing"} /\ key[slot[k]] = k

(* As long as, in a round of work on a key, every leader leaves an answer    *)
(* and no entry is lost, at most one fetch for the key is out, whatever the  *)
(* interleaving of lookups, claims, wake-ups and late arrivals.              *)
Fetching(k) == {t \in Tasks : place[t] = "fetching" /\ key[t] = k}
SingleFetch == \A k \in Keys \ disturbed : Cardinality(Fetching(k)) <= 1

(* The registry implements its abstract specification: whatever way a leader *)
(* ends, all its waiters are released in the same step.                      *)
ImplementsSingleFlight == SF!Spec

(* No wake-up is lost: whoever waits for a key waits for another task that is *)
(* still to drop its guard, "suspends until the leader's RefreshGuard is      *)
(* dropped" (rdap-cache/src/lib.rs:520).                                      *)
WaitersHaveLeader == SF!WaitersHaveLeader

(* Every query ends. *)
QueriesEnd == \A q \in Queries : place[q] # "idle" ~> place[q] = "idle"
=============================================================================
