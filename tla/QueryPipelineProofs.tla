-------------------------- MODULE QueryPipelineProofs --------------------------
(***************************************************************************)
(* Proofs about the cached query path, for any queries, refreshes and      *)
(* keys, any cap on the registry and both kinds of runtime.                *)
(*                                                                         *)
(* SingleFetch is far from inductive.  A query may fetch beside the leader *)
(* when it looks again and finds nothing; that it finds something, as long *)
(* as nothing disturbed the key, follows from what leaders leave behind    *)
(* (Answered) and from whom followers follow (FollowersMatch).             *)
(***************************************************************************)
EXTENDS QueryPipeline, FiniteSetTheorems, TLAPS

(* On a key that was not disturbed, only the holder of the slot fetches; and  *)
(* only a holder has a guard to drop.                                         *)
FetchersHold ==
    \A t \in Tasks :
        /\ place[t] = "fetching" => Holds(t) \/ key[t] \in disturbed
        /\ place[t] = "releasing" => Holds(t)

(* Who has cloned a Notify works on the key of its owner, which has a guard   *)
(* and has not notified yet.                                                  *)
FollowersMatch ==
    \A q \in Queries : waitsOn[q] # NoTask =>
        LET t == waitsOn[q] IN
        /\ key[t] = key[q]
        /\ place[t] \in {"fetching", "releasing", "notifying"}
        /\ place[t] = "fetching" => Holds(t)

(* Something is in the cache, or was and got lost, or nobody answered. *)
Known(k) == cache[k] # "none" \/ k \in disturbed

Answered ==
    /\ \A t \in Tasks :
        place[t] \in {"releasing", "notifying", "rechecking"} => Known(key[t])
    /\ \A q \in Queries :
        place[q] = "following" /\ slot[key[q]] = NoTask => Known(key[q])

(* A background refresh only fetches and ends. *)
RefreshersWork ==
    \A r \in Refreshers : place[r] \in {"idle", "fetching", "releasing", "notifying"}

IInv ==
    /\ TypeOK
    /\ SlotHolderAtWork
    /\ FetchersHold
    /\ FollowersMatch
    /\ Answered
    /\ RefreshersWork

LEMMA InitIInv == Init => IInv
  BY PipelineAssumption
     DEF Init, IInv, TypeOK, SlotHolderAtWork, FetchersHold, FollowersMatch, Answered,
         RefreshersWork, Tasks

LEMMA LookupStep ==
  ASSUME IInv, NEW q \in Queries, NEW k \in Keys,
         LookupMiss(q, k) \/ \E r \in Refreshers : LookupStale(q, k, r)
  PROVE  IInv'
  <1> USE PipelineAssumption DEF IInv, Goto, Tasks
  <1>1. CASE LookupMiss(q, k)
    <2> USE <1>1 DEF LookupMiss, Joins
    <2>1. TypeOK' BY DEF TypeOK
    <2>2. SlotHolderAtWork' BY DEF TypeOK, SlotHolderAtWork
    <2>3. FetchersHold' BY DEF TypeOK, FetchersHold, Holds
    <2>4. FollowersMatch' BY DEF TypeOK, FollowersMatch, Holds
    <2>5. Answered' BY DEF TypeOK, Answered, Known
    <2>6. RefreshersWork' BY DEF TypeOK, RefreshersWork
    <2>7. QED BY <2>1, <2>2, <2>3, <2>4, <2>5, <2>6
  <1>2. ASSUME NEW r \in Refreshers, LookupStale(q, k, r) PROVE IInv'
    <2> USE <1>2 DEF LookupStale, Claim, MayClaim, Joins
    <2>1. TypeOK' BY DEF TypeOK
    <2>2. SlotHolderAtWork' BY DEF TypeOK, SlotHolderAtWork
    <2>3. FetchersHold' BY DEF TypeOK, FetchersHold, Holds
    <2>4. FollowersMatch' BY DEF TypeOK, FollowersMatch, Holds
    <2>5. Answered' BY DEF TypeOK, Answered, Known
    <2>6. RefreshersWork' BY DEF TypeOK, RefreshersWork
    <2>7. QED BY <2>1, <2>2, <2>3, <2>4, <2>5, <2>6
  <1>3. QED BY <1>1, <1>2

LEMMA ClaimSlotStep == ASSUME IInv, NEW q \in Queries, ClaimSlot(q) PROVE IInv'
  <1> USE PipelineAssumption DEF IInv, ClaimSlot, Goto, Tasks
  <1>1. CASE Claim(key[q], q) /\ Goto(q, "fetching") /\ UNCHANGED disturbed
    <2> USE <1>1 DEF Claim, MayClaim
    <2>1. TypeOK' BY DEF TypeOK
    <2>2. SlotHolderAtWork' BY DEF TypeOK, SlotHolderAtWork
    <2>3. FetchersHold' BY DEF TypeOK, FetchersHold, Holds
    <2>4. FollowersMatch' BY DEF TypeOK, FollowersMatch, Holds
    <2>5. Answered' BY DEF TypeOK, Answered, Known
    <2>6. RefreshersWork' BY DEF TypeOK, RefreshersWork
    <2>7. QED BY <2>1, <2>2, <2>3, <2>4, <2>5, <2>6
  <1>2. CASE Refuse(key[q]) /\ Goto(q, "following")
    <2> USE <1>2 DEF Refuse
    <2>1. TypeOK' BY DEF TypeOK
    <2>2. SlotHolderAtWork' BY DEF TypeOK, SlotHolderAtWork
    <2>3. FetchersHold' BY DEF TypeOK, FetchersHold, Holds
    <2>4. FollowersMatch' BY DEF TypeOK, FollowersMatch, Holds
    <2>5. Answered' BY DEF TypeOK, Answered, Known
    <2>6. RefreshersWork' BY DEF TypeOK, RefreshersWork
    <2>7. QED BY <2>1, <2>2, <2>3, <2>4, <2>5, <2>6
  <1>3. QED BY <1>1, <1>2

LEMMA SubscribeStep ==
  ASSUME IInv, NEW q \in Queries, Subscribe(q) \/ CreateFuture(q) PROVE IInv'
  <1> USE PipelineAssumption DEF IInv, Subscribe, CreateFuture, Goto, Tasks
  <1>1. TypeOK' BY DEF TypeOK
  <1>2. SlotHolderAtWork' BY DEF TypeOK, SlotHolderAtWork
  <1>3. FetchersHold' BY DEF TypeOK, FetchersHold, Holds
  <1>4. FollowersMatch' BY DEF TypeOK, SlotHolderAtWork, FollowersMatch, Holds
  <1>5. Answered' BY DEF TypeOK, Answered, Known
  <1>6. RefreshersWork' BY DEF TypeOK, RefreshersWork
  <1>7. QED BY <1>1, <1>2, <1>3, <1>4, <1>5, <1>6

LEMMA RecheckStep ==
  ASSUME IInv, NEW q \in Queries, RecheckHit(q) \/ RecheckMiss(q) PROVE IInv'
  <1> USE PipelineAssumption DEF IInv, Goto, Tasks
  <1>1. CASE RecheckHit(q)
    <2> USE <1>1 DEF RecheckHit
    <2>1. TypeOK' BY DEF TypeOK
    <2>2. SlotHolderAtWork' BY DEF TypeOK, SlotHolderAtWork
    <2>3. FetchersHold' BY DEF TypeOK, FetchersHold, Holds
    <2>4. FollowersMatch' BY DEF TypeOK, FollowersMatch, Holds
    <2>5. Answered' BY DEF TypeOK, Answered, Known
    <2>6. RefreshersWork' BY DEF TypeOK, RefreshersWork
    <2>7. QED BY <2>1, <2>2, <2>3, <2>4, <2>5, <2>6
  <1>2. CASE RecheckMiss(q)
    <2> USE <1>2 DEF RecheckMiss, Claim, MayClaim, Refuse
    <2>1. key[q] \in disturbed
      BY DEF TypeOK, Answered, Known
    <2>2. TypeOK' BY DEF TypeOK
    <2>3. SlotHolderAtWork' BY DEF TypeOK, SlotHolderAtWork
    <2>4. FetchersHold' BY <2>1 DEF TypeOK, FetchersHold, Holds
    <2>5. FollowersMatch' BY DEF TypeOK, FollowersMatch, Holds
    <2>6. Answered' BY DEF TypeOK, Answered, Known
    <2>7. RefreshersWork' BY DEF TypeOK, RefreshersWork
    <2>8. QED BY <2>2, <2>3, <2>4, <2>5, <2>6, <2>7
  <1>3. QED BY <1>1, <1>2

(* A fetch ends, by an answer, an error or a dropped future. *)
LEMMA FetchStep ==
  ASSUME IInv, NEW t \in Tasks,
         place[t] = "fetching", EndFetch(t), UNCHANGED <<slot, key, waitsOn>>,
         cache' \in [Keys -> {"none", "fresh", "stale", "negative"}],
         disturbed' \in {disturbed, disturbed \cup {key[t]}},
         \A k \in Keys : cache'[k] = cache[k] \/ cache'[k] # "none",
         Known(key[t])'
  PROVE  IInv'
  <1> USE PipelineAssumption DEF IInv, EndFetch, Goto, Tasks
  <1>1. TypeOK' BY DEF TypeOK
  <1>2. SlotHolderAtWork' BY DEF TypeOK, SlotHolderAtWork, Holds
  <1>3. FetchersHold' BY DEF TypeOK, FetchersHold, Holds
  <1>4. FollowersMatch' BY DEF TypeOK, FollowersMatch, Holds
  <1>5. Answered' BY DEF TypeOK, Answered, Known, Holds
  <1>6. RefreshersWork' BY DEF TypeOK, RefreshersWork
  <1>7. QED BY <1>1, <1>2, <1>3, <1>4, <1>5, <1>6

LEMMA FetchEnds == ASSUME IInv, NEW t \in Tasks, Fetch(t) PROVE IInv'
  <1>1. CASE FetchOk(t)
    BY <1>1, FetchStep DEF IInv, FetchOk, TypeOK, Known
  <1>2. CASE FetchNotFound(t)
    BY <1>2, FetchStep DEF IInv, FetchNotFound, TypeOK, Known
  <1>3. CASE FetchFails(t)
    BY <1>3, FetchStep DEF IInv, FetchFails, TypeOK, Known
  <1>4. QED BY <1>1, <1>2, <1>3 DEF Fetch

LEMMA CancelStep == ASSUME IInv, NEW q \in Queries, Cancel(q) PROVE IInv'
  <1>1. CASE place[q] = "fetching"
    BY <1>1, FetchStep DEF IInv, Cancel, TypeOK, Known, Tasks
  <1>2. CASE place[q] = "waiting"
    <2> USE <1>2, PipelineAssumption DEF IInv, Cancel, Goto, Tasks
    <2>1. TypeOK' BY DEF TypeOK
    <2>2. SlotHolderAtWork' BY DEF TypeOK, SlotHolderAtWork
    <2>3. FetchersHold' BY DEF TypeOK, FetchersHold, Holds
    <2>4. FollowersMatch' BY DEF TypeOK, FollowersMatch, Holds
    <2>5. Answered' BY DEF TypeOK, Answered, Known
    <2>6. RefreshersWork' BY DEF TypeOK, RefreshersWork
    <2>7. QED BY <2>1, <2>2, <2>3, <2>4, <2>5, <2>6
  <1>3. QED BY <1>1, <1>2 DEF Cancel

LEMMA DropGuardStep ==
  ASSUME IInv, NEW t \in Tasks, DropGuard(t) \/ DropGuardNotify(t) PROVE IInv'
  <1> USE PipelineAssumption
      DEF IInv, DropGuard, DropGuardNotify, RemoveSlot, NotifyWaiters, Followers, Goto, Tasks
  <1>1. TypeOK' BY DEF TypeOK
  <1>2. SlotHolderAtWork' BY DEF TypeOK, SlotHolderAtWork, FetchersHold, Holds
  <1>3. FetchersHold' BY DEF TypeOK, FetchersHold, SlotHolderAtWork, Holds
  <1>4. FollowersMatch' BY DEF TypeOK, FollowersMatch, FetchersHold, Holds
  <1>5. Answered' BY DEF TypeOK, Answered, FollowersMatch, Known
  <1>6. RefreshersWork' BY DEF TypeOK, RefreshersWork
  <1>7. QED BY <1>1, <1>2, <1>3, <1>4, <1>5, <1>6

(* Entries age, and get lost. *)
LEMMA LossStep == ASSUME IInv, Clear \/ \E k \in Keys : Age(k) PROVE IInv'
  <1> USE DEF IInv, Clear, Age
  <1>1. TypeOK' BY DEF TypeOK
  <1>2. SlotHolderAtWork' BY DEF SlotHolderAtWork
  <1>3. FetchersHold' BY DEF TypeOK, FetchersHold, Holds
  <1>4. FollowersMatch' BY DEF FollowersMatch, Holds
  <1>5. Answered' BY DEF TypeOK, Answered, Known, Tasks
  <1>6. RefreshersWork' BY DEF RefreshersWork
  <1>7. QED BY <1>1, <1>2, <1>3, <1>4, <1>5, <1>6

LEMMA NextIInv == IInv /\ [Next]_vars => IInv'
  <1> SUFFICES ASSUME IInv, [Next]_vars PROVE IInv'
    OBVIOUS
  <1>1. CASE \E q \in Queries, k \in Keys :
                LookupMiss(q, k) \/ \E r \in Refreshers : LookupStale(q, k, r)
    BY <1>1, LookupStep
  <1>2. CASE \E q \in Queries : QueryStep(q)
    BY <1>2, ClaimSlotStep, SubscribeStep, RecheckStep DEF QueryStep
  <1>3. CASE \E q \in Queries : Cancel(q)
    BY <1>3, CancelStep
  <1>4. CASE \E t \in Tasks : Fetch(t) \/ DropGuard(t) \/ DropGuardNotify(t)
    BY <1>4, FetchEnds, DropGuardStep
  <1>5. CASE Clear \/ \E k \in Keys : Age(k)
    BY <1>5, LossStep
  <1>6. CASE UNCHANGED vars
    BY <1>6 DEF vars, IInv, TypeOK, SlotHolderAtWork, FetchersHold, FollowersMatch,
       Answered, RefreshersWork, Known, Holds
  <1>7. QED BY <1>1, <1>2, <1>3, <1>4, <1>5, <1>6 DEF Next

LEMMA SpecIInv == Spec => []IInv
  BY InitIInv, NextIInv, PTL DEF Spec

-----------------------------------------------------------------------------
(* Every variable keeps its type. *)
THEOREM TypeCorrect == Spec => []TypeOK
  BY SpecIInv, PTL DEF IInv

(* No slot of the registry outlives the task that claimed it. *)
THEOREM NoSlotLeaks == Spec => []SlotHolderAtWork
  BY SpecIInv, PTL DEF IInv

(* One fetch at a time for a key whose leaders leave answers. *)
THEOREM OneFetch == Spec => []SingleFetch
  <1>1. IInv => SingleFetch
    <2> SUFFICES ASSUME IInv, NEW k \in Keys, k \notin disturbed
                 PROVE  Cardinality(Fetching(k)) <= 1
      BY DEF SingleFetch
    <2>1. Fetching(k) \subseteq {slot[k]}
      BY DEF IInv, FetchersHold, Holds, Fetching
    <2>2. IsFiniteSet({slot[k]}) /\ Cardinality({slot[k]}) = 1
      BY FS_Singleton
    <2>3. QED BY <2>1, <2>2, FS_Subset, FS_CardinalityType
  <1>2. QED BY <1>1, SpecIInv, PTL
-----------------------------------------------------------------------------
(* On a current-thread runtime a follower is subscribed and waits at once,    *)
(* and a guard's Drop is one step: the slot is there as long as its waiters.  *)
Connected ==
    /\ \A t \in Tasks : place[t] \notin {"cloned", "notifying"}
    /\ \A q \in Queries :
        place[q] = "waiting" => waitsOn[q] = slot[key[q]] /\ waitsOn[q] # NoTask

CInv == IInv /\ Connected

LEMMA NextConnected ==
  ASSUME CurrentThread, CInv, [Next]_vars PROVE Connected'
  <1> USE PipelineAssumption DEF CInv, IInv, TypeOK, Goto, Tasks, Connected
  <1>1. ASSUME NEW q \in Queries, NEW k \in Keys, LookupMiss(q, k) PROVE Connected'
    BY <1>1 DEF LookupMiss
  <1>2. ASSUME NEW q \in Queries, NEW k \in Keys, NEW r \in Refreshers, LookupStale(q, k, r)
        PROVE  Connected'
    BY <1>2 DEF LookupStale, Claim, MayClaim
  <1>3. ASSUME NEW q \in Queries, QueryStep(q) PROVE Connected'
    <2>1. CASE ClaimSlot(q)
      BY <2>1 DEF ClaimSlot, Claim, MayClaim, Refuse
    <2>2. CASE Subscribe(q) \/ CreateFuture(q)
      BY <2>2 DEF Subscribe, CreateFuture
    <2>3. CASE RecheckHit(q) \/ RecheckMiss(q)
      BY <2>3 DEF RecheckHit, RecheckMiss, Claim, MayClaim, Refuse
    <2>4. QED BY <1>3, <2>1, <2>2, <2>3 DEF QueryStep
  <1>4. ASSUME NEW q \in Queries, Cancel(q) PROVE Connected'
    BY <1>4 DEF Cancel, EndFetch
  <1>5. ASSUME NEW t \in Tasks, Fetch(t) PROVE Connected'
    BY <1>5 DEF Fetch, FetchOk, FetchNotFound, FetchFails, EndFetch
  <1>6. ASSUME NEW t \in Tasks, DropGuard(t) \/ DropGuardNotify(t) PROVE Connected'
    BY <1>6 DEF DropGuard, DropGuardNotify, RemoveSlot, NotifyWaiters, Followers,
       FetchersHold, Holds, SlotHolderAtWork
  <1>7. CASE Clear \/ \E k \in Keys : Age(k)
    BY <1>7 DEF Clear, Age
  <1>8. CASE UNCHANGED vars
    BY <1>8 DEF vars
  <1>9. QED BY <1>1, <1>2, <1>3, <1>4, <1>5, <1>6, <1>7, <1>8 DEF Next

(* The abstract steps, told by slots and waiters. *)
LEMMA AbstractClaim ==
  ASSUME NEW k \in Keys, NEW t \in Tasks, slot[k] = NoTask, t \notin Waiters(k),
         slot' = [slot EXCEPT ![k] = t],
         \A j \in Keys : Waiters(j)' = Waiters(j)
  PROVE  SF!Next
  <1>1. SF!Claim(k, t) BY DEF SF!Claim
  <1>2. QED BY <1>1 DEF SF!Next

LEMMA AbstractJoin ==
  ASSUME NEW k \in Keys, NEW t \in Tasks, slot[k] \notin {NoTask, t}, UNCHANGED slot,
         \A j \in Keys : Waiters(j)' = IF j = k THEN Waiters(j) \cup {t} ELSE Waiters(j)
  PROVE  SF!Next
  <1>1. SF!Join(k, t) BY DEF SF!Join
  <1>2. QED BY <1>1 DEF SF!Next

LEMMA AbstractGiveUp ==
  ASSUME NEW k \in Keys, NEW t \in Tasks, t \in Waiters(k), UNCHANGED slot,
         \A j \in Keys : Waiters(j)' = IF j = k THEN Waiters(j) \ {t} ELSE Waiters(j)
  PROVE  SF!Next
  <1>1. SF!GiveUp(k, t) BY DEF SF!GiveUp
  <1>2. QED BY <1>1 DEF SF!Next

LEMMA AbstractRelease ==
  ASSUME NEW k \in Keys, slot[k] # NoTask, slot' = [slot EXCEPT ![k] = NoTask],
         \A j \in Keys : Waiters(j)' = IF j = k THEN {} ELSE Waiters(j)
  PROVE  SF!Next
  <1>1. SF!Release(k) BY DEF SF!Release
  <1>2. QED BY <1>1 DEF SF!Next

LEMMA AbstractStutter ==
  ASSUME UNCHANGED slot, \A j \in Keys : Waiters(j)' = Waiters(j)
  PROVE  UNCHANGED SF!vars
  BY DEF SF!vars

(* Each step of a query, of a fetch and of a guard, seen in the abstract. *)
LEMMA QueryStepRefines ==
  ASSUME CurrentThread, CInv, NEW q \in Queries, QueryStep(q)
  PROVE  SF!Next \/ UNCHANGED SF!vars
  <1> USE PipelineAssumption DEF CInv, IInv, TypeOK, Goto, Tasks, Waiters
  <1>1. ASSUME place[q] \in {"missed", "rechecking"}, Claim(key[q], q),
               Goto(q, "fetching"), UNCHANGED key
        PROVE  SF!Next
    <2>1. \A j \in Keys : Waiters(j)' = Waiters(j) /\ q \notin Waiters(j)
      BY <1>1
    <2>2. QED BY <1>1, <2>1, AbstractClaim, ZenonT(40) DEF Claim, MayClaim
  <1>2. CASE ClaimSlot(q)
    <2>1. CASE Refuse(key[q]) /\ Goto(q, "following")
      <3>1. \A j \in Keys : Waiters(j)' = Waiters(j)
        BY <1>2, <2>1 DEF ClaimSlot
      <3>2. QED BY <2>1, <3>1, AbstractStutter DEF Refuse
    <2>2. QED BY <1>1, <1>2, <2>1 DEF ClaimSlot
  <1>3. CASE Subscribe(q) /\ slot[key[q]] = NoTask
    <2>1. \A j \in Keys : Waiters(j)' = Waiters(j)
      BY <1>3 DEF Subscribe
    <2>2. QED BY <1>3, <2>1, AbstractStutter DEF Subscribe
  <1>4. CASE Subscribe(q) /\ slot[key[q]] # NoTask
    <2>1. slot[key[q]] # q
      BY <1>4 DEF Subscribe, SlotHolderAtWork
    <2>2. \A j \in Keys :
             Waiters(j)' = IF j = key[q] THEN Waiters(j) \cup {q} ELSE Waiters(j)
      BY <1>4 DEF Subscribe
    <2>3. QED BY <1>4, <2>1, <2>2, AbstractJoin DEF Subscribe
  <1>5. CASE RecheckHit(q)
    <2>1. \A j \in Keys : Waiters(j)' = Waiters(j)
      BY <1>5 DEF RecheckHit
    <2>2. QED BY <1>5, <2>1, AbstractStutter DEF RecheckHit
  <1>6. CASE RecheckMiss(q)
    <2>1. CASE Refuse(key[q])
      <3>1. \A j \in Keys : Waiters(j)' = Waiters(j)
        BY <1>6 DEF RecheckMiss
      <3>2. QED BY <2>1, <3>1, AbstractStutter DEF Refuse
    <2>2. QED BY <1>1, <1>6, <2>1 DEF RecheckMiss
  <1>7. ~ CreateFuture(q)
    BY DEF Connected, CreateFuture
  <1>8. QED BY <1>2, <1>3, <1>4, <1>5, <1>6, <1>7 DEF QueryStep

LEMMA CancelRefines ==
  ASSUME CurrentThread, CInv, NEW q \in Queries, Cancel(q)
  PROVE  SF!Next \/ UNCHANGED SF!vars
  <1> USE PipelineAssumption DEF CInv, IInv, TypeOK, Goto, Tasks, Waiters, Cancel
  <1>1. CASE place[q] = "waiting"
    <2>1. \A j \in Keys :
             Waiters(j)' = IF j = key[q] THEN Waiters(j) \ {q} ELSE Waiters(j)
      BY <1>1
    <2>2. QED BY <1>1, <2>1, AbstractGiveUp
  <1>2. CASE place[q] = "fetching"
    <2>1. \A j \in Keys : Waiters(j)' = Waiters(j)
      BY <1>2 DEF EndFetch
    <2>2. QED BY <2>1, AbstractStutter
  <1>3. QED BY <1>1, <1>2

LEMMA DropGuardRefines ==
  ASSUME CurrentThread, CInv, NEW t \in Tasks, DropGuard(t)
  PROVE  SF!Next
  <1> USE PipelineAssumption DEF CInv, IInv, TypeOK, Tasks
  <1>1. slot[key[t]] = t
    BY DEF DropGuard, FetchersHold, Holds
  <1>2. \A q \in Queries : place[q] = "waiting" => (waitsOn[q] = t <=> key[q] = key[t])
    BY <1>1 DEF Connected, SlotHolderAtWork
  <1>3. \A j \in Keys : Waiters(j)' = IF j = key[t] THEN {} ELSE Waiters(j)
    BY <1>2 DEF DropGuard, NotifyWaiters, Followers, Waiters
  <1>4. key[t] \in Keys /\ slot[key[t]] # NoTask
    BY <1>1
  <1>5. slot' = [slot EXCEPT ![key[t]] = NoTask]
    BY DEF DropGuard, RemoveSlot
  <1>6. QED BY <1>3, <1>4, <1>5, AbstractRelease

LEMMA FetchRefines ==
  ASSUME CInv, NEW t \in Tasks, Fetch(t)
  PROVE  UNCHANGED SF!vars
  <1> USE PipelineAssumption DEF CInv, IInv, TypeOK, Goto, Tasks, Waiters
  <1>1. \A j \in Keys : Waiters(j)' = Waiters(j)
    BY DEF Fetch, FetchOk, FetchNotFound, FetchFails, EndFetch
  <1>2. QED BY <1>1, AbstractStutter DEF Fetch, FetchOk, FetchNotFound, FetchFails

LEMMA LookupRefines ==
  ASSUME CInv, NEW q \in Queries, NEW k \in Keys,
         LookupMiss(q, k) \/ \E r \in Refreshers : LookupStale(q, k, r)
  PROVE  SF!Next \/ UNCHANGED SF!vars
  <1> USE PipelineAssumption DEF CInv, IInv, TypeOK, Goto, Tasks
  <1>1. CASE LookupMiss(q, k)
    <2>1. \A j \in Keys : Waiters(j)' = Waiters(j)
      BY <1>1 DEF LookupMiss, Waiters
    <2>2. QED BY <1>1, <2>1, AbstractStutter DEF LookupMiss
  <1>2. ASSUME NEW r \in Refreshers, LookupStale(q, k, r) PROVE SF!Next
    <2>1. \A j \in Keys : Waiters(j)' = Waiters(j) /\ r \notin Waiters(j)
      BY <1>2 DEF LookupStale, Waiters
    <2>2. slot[k] = NoTask /\ slot' = [slot EXCEPT ![k] = r]
      BY <1>2 DEF LookupStale, Claim, MayClaim
    <2>3. r \in Tasks
      OBVIOUS
    <2>4. QED BY <2>1, <2>2, <2>3, AbstractClaim
  <1>3. QED BY <1>1, <1>2

LEMMA StepRefines ==
  ASSUME CurrentThread, CInv, [Next]_vars PROVE [SF!Next]_(SF!vars)
  <1>1. CASE Clear \/ (\E k \in Keys : Age(k)) \/ UNCHANGED vars
    <2>1. UNCHANGED slot /\ \A j \in Keys : Waiters(j)' = Waiters(j)
      BY <1>1 DEF Clear, Age, vars, Waiters
    <2>2. QED BY <2>1, AbstractStutter
  <1>2. ASSUME NEW t \in Tasks PROVE ~ DropGuardNotify(t)
    BY DEF CInv, Connected, DropGuardNotify
  <1>3. QED
    BY <1>1, <1>2, LookupRefines, QueryStepRefines, CancelRefines, FetchRefines,
       DropGuardRefines DEF Next

(* On a current-thread runtime the registry keeps the promises of a single    *)
(* flight: one leader a key, and nobody waits for a leader that is gone.      *)
THEOREM ImplementsSpec ==
  ASSUME CurrentThread PROVE Spec => ImplementsSingleFlight
  <1>1. Init => CInv /\ SF!Init
    <2>1. Init => Connected /\ \A k \in Keys : Waiters(k) = {}
      BY DEF Init, Connected, Waiters, Tasks
    <2>2. QED BY <2>1, InitIInv DEF CInv, Init, SF!Init
  <1>2. CInv /\ [Next]_vars => CInv'
    BY NextIInv, NextConnected DEF CInv
  <1>3. CInv /\ [Next]_vars => [SF!Next]_(SF!vars)
    BY StepRefines
  <1>4. QED BY <1>1, <1>2, <1>3, PTL DEF Spec, ImplementsSingleFlight, SF!Spec

(* What a single flight promises by itself: its waiters have a leader.        *)
LEMMA AbstractWaiters == SF!Spec => []SF!WaitersHaveLeader
  <1> DEFINE Inv == SF!TypeOK /\ SF!WaitersHaveLeader
  <1>1. SF!Init => Inv
    BY DEF SF!Init, SF!TypeOK, SF!WaitersHaveLeader
  <1>2. Inv /\ [SF!Next]_(SF!vars) => Inv'
    <2> SUFFICES ASSUME Inv, [SF!Next]_(SF!vars) PROVE Inv'
      OBVIOUS
    <2> USE DEF SF!TypeOK, SF!WaitersHaveLeader
    <2>1. ASSUME NEW k \in Keys, NEW t \in Tasks, SF!Claim(k, t) PROVE Inv'
      BY <2>1, PipelineAssumption DEF SF!Claim, Tasks
    <2> DEFINE waiting == [k \in Keys |-> Waiters(k)]
    <2>2. ASSUME NEW k \in Keys, NEW t \in Tasks, SF!Join(k, t) \/ SF!GiveUp(k, t) PROVE Inv'
      <3>1. /\ slot' = slot
            /\ \/ slot[k] \notin {NoTask, t} /\ waiting' = [waiting EXCEPT ![k] = @ \cup {t}]
               \/ waiting' = [waiting EXCEPT ![k] = @ \ {t}]
        BY <2>2 DEF SF!Join, SF!GiveUp
      <3>2. /\ waiting \in [Keys -> SUBSET Tasks]
            /\ \A j \in Keys : waiting[j] # {} => slot[j] \notin waiting[j] \cup {NoTask}
        OBVIOUS
      <3>3. ASSUME NEW w, w = waiting' PROVE Inv'
        <4> HIDE DEF waiting
        <4>1. /\ w \in [Keys -> SUBSET Tasks]
              /\ \A j \in Keys : w[j] # {} => slot[j] \notin w[j] \cup {NoTask}
          BY <3>1, <3>2, <3>3
        <4>2. waiting' = [j \in Keys |-> Waiters(j)'] /\ slot' \in [Keys -> Tasks \cup {NoTask}]
          BY <3>1 DEF waiting
        <4> QED
          BY <3>1, <3>3, <4>1, <4>2
      <3> QED
        BY <3>3
    <2>3. ASSUME NEW k \in Keys, SF!Release(k) PROVE Inv'
      BY <2>3 DEF SF!Release
    <2>4. CASE UNCHANGED SF!vars
      BY <2>4 DEF SF!vars
    <2> QED
      BY <2>1, <2>2, <2>3, <2>4 DEF SF!Next
  <1>3. Inv => SF!WaitersHaveLeader
    OBVIOUS
  <1> HIDE DEF Inv
  <1>4. QED
    BY <1>1, <1>2, <1>3, PTL DEF SF!Spec

(* On a current-thread runtime no wake-up is lost: the registry inherits that *)
(* from the single flight it implements (await_refresh, RefreshGuard::drop).  *)
THEOREM NoLostWakeup ==
  ASSUME CurrentThread PROVE Spec => []WaitersHaveLeader
  BY ImplementsSpec, AbstractWaiters, PTL DEF ImplementsSingleFlight, WaitersHaveLeader
=============================================================================
