------------------------------- MODULE Bootstrap -------------------------------
(***************************************************************************)
(* `Bootstrap::get_resource` (crates/rdap-bootstrap/src/lib.rs): the IANA  *)
(* files, one per resource, kept in memory for a day and refreshed by a    *)
(* single flight of their own.                                             *)
(*                                                                         *)
(* A lookup that finds no fresh file claims the in-flight entry of the     *)
(* resource and leads, or clones the Notify it finds there and follows.    *)
(* The leader gives the entry back in straight-line code after its fetch,  *)
(* not in a destructor: a leader whose future is dropped while it fetches  *)
(* leaves the entry, with a Notify nobody will notify.                     *)
(*                                                                         *)
(* The runtime is multi-threaded: other tasks run between any two          *)
(* statements.  A fresh hit on the first look changes nothing and is not a *)
(* step.                                                                   *)
(***************************************************************************)
EXTENDS FiniteSets, Naturals

CONSTANTS
    Lookups,       \* concurrent callers; each may ask again
    Resources,     \* "dns", "ipv4", "ipv6", "asn"
    Nobody,        \* no leader; as a Notify: one whose leader is through with it
    Orphan,        \* the Notify of a leader that was dropped
    MaxDrops       \* bound: dropped lookups in a behaviour

ASSUME BootstrapAssumption ==
    /\ Nobody \notin Lookups \cup {Orphan}
    /\ Orphan \notin Lookups
    /\ MaxDrops \in Nat

VARIABLES
    fresh,       \* the resources with an unexpired entry in the cache
    in_flight,   \* in_flight[r]: whose Notify is in the registry
    place,       \* where each lookup stands
    resource,    \* the resource it looks up
    waitsOn,     \* whose Notify it has cloned
    drops,       \* dropped lookups so far
    disturbed    \* history: resources with a failed or dropped download, or a lost entry,
                 \* since a lookup last came to one nobody was looking up

vars == <<fresh, in_flight, place, resource, waitsOn, drops, disturbed>>

Init ==
    /\ fresh = {}
    /\ in_flight = [r \in Resources |-> Nobody]
    /\ place = [q \in Lookups |-> "idle"]
    /\ \E r \in Resources : resource = [q \in Lookups |-> r]  \* not used until set
    /\ waitsOn = [q \in Lookups |-> Nobody]
    /\ drops = 0
    /\ disturbed = {}

Goto(q, where) == place' = [place EXCEPT ![q] = where]

-----------------------------------------------------------------------------
LookingUp(r) == {q \in Lookups : place[q] # "idle" /\ resource[q] = r}

(* read_cache_if_fresh finds nothing.  The first to come starts a new round  *)
(* of lookups, and what happened before it is no excuse any more.            *)
Miss(q, r) ==
    /\ place[q] = "idle"
    /\ r \notin fresh
    /\ Goto(q, "missed")
    /\ resource' = [resource EXCEPT ![q] = r]
    /\ disturbed' = IF LookingUp(r) = {} THEN disturbed \ {r} ELSE disturbed
    /\ UNCHANGED <<fresh, in_flight, waitsOn, drops>>

(* Mutant: the registry is looked into before the entry is inserted. *)
ClaimWithoutGuard(q) ==
    /\ place[q] = "missed"
    /\ in_flight' = [in_flight EXCEPT ![resource[q]] = q]
    /\ Goto(q, "leading")
    /\ UNCHANGED <<fresh, resource, waitsOn, drops, disturbed>>

(* The entry is claimed, or its Notify cloned, under one guard of the map.   *)
Claim(q) ==
    /\ place[q] = "missed"
    /\ \/ /\ in_flight[resource[q]] = Nobody
          /\ in_flight' = [in_flight EXCEPT ![resource[q]] = q]
          /\ Goto(q, "leading")
          /\ UNCHANGED waitsOn
       \/ /\ in_flight[resource[q]] # Nobody
          /\ waitsOn' = [waitsOn EXCEPT ![q] = in_flight[resource[q]]]
          /\ Goto(q, "cloned")
          /\ UNCHANGED in_flight
    /\ UNCHANGED <<fresh, resource, drops, disturbed>>

(* notified(): from here on a notification reaches the follower. *)
CreateFuture(q) ==
    /\ place[q] = "cloned"
    /\ Goto(q, "waiting")
    /\ UNCHANGED <<fresh, in_flight, resource, waitsOn, drops, disturbed>>

-----------------------------------------------------------------------------
(* fetch_and_cache, by a leader or by a follower on its own. *)

AfterFetch(q) == Goto(q, IF place[q] = "leading" THEN "releasing" ELSE "idle")

FetchOk(q) ==
    /\ place[q] \in {"leading", "alone"}
    /\ fresh' = fresh \cup {resource[q]}
    /\ AfterFetch(q)
    /\ UNCHANGED <<in_flight, resource, waitsOn, drops, disturbed>>

FetchFails(q) ==
    /\ place[q] \in {"leading", "alone"}
    /\ disturbed' = disturbed \cup {resource[q]}
    /\ AfterFetch(q)
    /\ UNCHANGED <<fresh, in_flight, resource, waitsOn, drops>>

(* Mutant: a leader whose fetch failed returns without giving the entry back. *)
ReleaseForgotten(q) ==
    /\ place[q] = "releasing"
    /\ Goto(q, "notifying")
    /\ in_flight' = IF resource[q] \in fresh
                      THEN [in_flight EXCEPT ![resource[q]] = Nobody]
                      ELSE in_flight
    /\ UNCHANGED <<fresh, resource, waitsOn, drops, disturbed>>

Release(q) ==
    /\ place[q] = "releasing"
    /\ in_flight' = [in_flight EXCEPT ![resource[q]] = Nobody]
    /\ Goto(q, "notifying")
    /\ UNCHANGED <<fresh, resource, waitsOn, drops, disturbed>>

Followers(q) == {f \in Lookups : waitsOn[f] = q}

(* Mutant: notify_one instead of notify_waiters. *)
NotifyOne(q) ==
    LET waiting == {f \in Followers(q) : place[f] = "waiting"}
        woken == IF waiting = {} THEN {} ELSE {CHOOSE f \in waiting : TRUE}
    IN  /\ place[q] = "notifying"
        /\ place' = [f \in Lookups |->
                        IF f = q THEN "idle"
                        ELSE IF f \in woken THEN "woken" ELSE place[f]]
        /\ waitsOn' = [f \in Lookups |->
                          IF f \in woken \/ (waitsOn[f] = q /\ place[f] = "cloned")
                            THEN Nobody ELSE waitsOn[f]]
        /\ UNCHANGED <<fresh, in_flight, resource, drops, disturbed>>

(* Mutant: a leader whose download failed returns before it notifies. *)
NotifyAfterSuccess(q) ==
    LET woken == IF resource[q] \in fresh THEN Followers(q) ELSE {}
    IN  /\ place[q] = "notifying"
        /\ place' = [f \in Lookups |->
                        IF f = q THEN "idle"
                        ELSE IF f \in woken /\ place[f] = "waiting" THEN "woken"
                        ELSE place[f]]
        /\ waitsOn' = [f \in Lookups |-> IF f \in woken THEN Nobody ELSE waitsOn[f]]
        /\ UNCHANGED <<fresh, in_flight, resource, drops, disturbed>>

(* Those that wait are woken; those that have only cloned the Notify will    *)
(* wait on one that nobody notifies any more.                                *)
Notify(q) ==
    /\ place[q] = "notifying"
    /\ place' = [f \in Lookups |->
                    IF f = q THEN "idle"
                    ELSE IF f \in Followers(q) /\ place[f] = "waiting" THEN "woken"
                    ELSE place[f]]
    /\ waitsOn' = [f \in Lookups |-> IF f \in Followers(q) THEN Nobody ELSE waitsOn[f]]
    /\ UNCHANGED <<fresh, in_flight, resource, drops, disturbed>>

(* Mutant: a woken follower fetches without looking at the cache again. *)
RereadSkipped(q) ==
    /\ place[q] = "woken"
    /\ Goto(q, "alone")
    /\ UNCHANGED <<fresh, in_flight, resource, waitsOn, drops, disturbed>>

(* A woken follower reads the cache again, and fetches for itself when there *)
(* is still nothing.                                                         *)
Reread(q) ==
    /\ place[q] = "woken"
    /\ Goto(q, IF resource[q] \in fresh THEN "idle" ELSE "alone")
    /\ UNCHANGED <<fresh, in_flight, resource, waitsOn, drops, disturbed>>

-----------------------------------------------------------------------------
(* The lookup's future is dropped at an await. *)
Drop(q) ==
    /\ drops < MaxDrops
    /\ drops' = drops + 1
    /\ place[q] \in {"leading", "alone", "waiting", "woken"}
    /\ Goto(q, "idle")
    /\ IF place[q] = "leading"
         THEN /\ in_flight' = [in_flight EXCEPT ![resource[q]] = Orphan]
              /\ waitsOn' = [f \in Lookups |->
                                IF f \in Followers(q) THEN Orphan ELSE waitsOn[f]]
              /\ disturbed' = disturbed \cup {resource[q]}
         ELSE /\ waitsOn' = [waitsOn EXCEPT ![q] = Nobody]
              /\ UNCHANGED <<in_flight, disturbed>>
    /\ UNCHANGED <<fresh, resource>>

(* The entry of a resource expires. *)
Expire(r) ==
    /\ r \in fresh
    /\ fresh' = fresh \ {r}
    /\ disturbed' = disturbed \cup {r}
    /\ UNCHANGED <<in_flight, place, resource, waitsOn, drops>>

clear_cache ==
    /\ fresh # {}
    /\ fresh' = {}
    /\ disturbed' = disturbed \cup fresh
    /\ UNCHANGED <<in_flight, place, resource, waitsOn, drops>>

-----------------------------------------------------------------------------
LookupStep(q) ==
    \/ Claim(q) \/ CreateFuture(q)
    \/ FetchOk(q) \/ FetchFails(q)
    \/ Release(q) \/ Notify(q) \/ Reread(q)

Next ==
    \/ \E q \in Lookups :
        LookupStep(q) \/ Drop(q) \/ \E r \in Resources : Miss(q, r)
    \/ \E r \in Resources : Expire(r)
    \/ clear_cache

Spec == Init /\ [][Next]_vars

(* A task that can go on is scheduled, and a download has a timeout. *)
LiveSpec == Spec /\ \A q \in Lookups : WF_vars(LookupStep(q))

-----------------------------------------------------------------------------
(* Properties *)

(* Types; and a Notify is held only by a follower that has not been woken.   *)
TypeOK ==
    /\ fresh \subseteq Resources
    /\ in_flight \in [Resources -> Lookups \cup {Nobody, Orphan}]
    /\ place \in [Lookups -> {"idle", "missed", "cloned", "waiting", "woken",
                              "leading", "alone", "releasing", "notifying"}]
    /\ resource \in [Lookups -> Resources]
    /\ waitsOn \in [Lookups -> Lookups \cup {Nobody, Orphan}]
    /\ drops \in 0..MaxDrops
    /\ disturbed \subseteq Resources
    /\ \A q \in Lookups : waitsOn[q] # Nobody => place[q] \in {"cloned", "waiting"}

(* The entry in the registry belongs to a leader that is still at work on    *)
(* that resource, or to one that was dropped; and every leader is in the     *)
(* registry, so that one lookup at a time leads.                             *)
EntryHasLeader ==
    /\ \A r \in Resources : in_flight[r] \in Lookups =>
            /\ place[in_flight[r]] \in {"leading", "releasing"}
            /\ resource[in_flight[r]] = r
    /\ \A q \in Lookups :
            place[q] \in {"leading", "releasing"} => in_flight[resource[q]] = q

(* A follower downloads for itself only if, since its round of lookups began, *)
(* a download of the file failed or was dropped, or the file was lost again.  *)
AloneOnlyAfterFailure ==
    \A q \in Lookups : place[q] = "alone" => resource[q] \in disturbed

Downloading(r) == {q \in Lookups : place[q] \in {"leading", "alone"} /\ resource[q] = r}

(* However many lookups want a file, it is downloaded by one of them at a     *)
(* time; only "if the leader's fetch fails, followers fall through to their   *)
(* own fetch attempt" (rdap-bootstrap/src/lib.rs:162-164), or if the file is  *)
(* lost before they read it.  It is not downloaded once only: a lookup that   *)
(* missed before the file was stored and claims the entry after its release   *)
(* leads another download, one after the other.                               *)
OneDownloadAtATime ==
    /\ AloneOnlyAfterFailure
    /\ \A r \in Resources \ disturbed : \A q, s \in Downloading(r) : q = s

(* The Notify a follower waits on will never be notified. *)
Forsaken(q) == place[q] = "waiting" /\ waitsOn[q] \in {Nobody, Orphan}

(* Nobody waits in a circle, or for the wrong file: a follower that is not    *)
(* forsaken waits for a lookup of the same resource that leads and has yet to *)
(* notify, and a leader waits for nobody (get_resource).                      *)
FollowsOneAtWork ==
    \A f \in Lookups : place[f] = "waiting" /\ ~Forsaken(f) =>
        /\ place[waitsOn[f]] \in {"leading", "releasing", "notifying"}
        /\ resource[waitsOn[f]] = resource[f]

(* A lookup ends, unless it was forsaken: it came between the leader's        *)
(* removal and notification, or behind a leader that was dropped.  There is  *)
(* no third way to hang.                                                     *)
LookupsEndOrForsaken ==
    \A q \in Lookups : place[q] # "idle" ~> place[q] = "idle" \/ Forsaken(q)

(* "Always release on exit so a failed fetch doesn't permanently block this  *)
(* resource" (rdap-bootstrap/src/lib.rs:372-373).                            *)
EntryReleased == \A r \in Resources : in_flight[r] # Nobody ~> in_flight[r] = Nobody
=============================================================================
