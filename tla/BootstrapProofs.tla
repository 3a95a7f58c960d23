---------------------------- MODULE BootstrapProofs ----------------------------
(***************************************************************************)
(* Proofs about the bootstrap single flight, for any lookups and any       *)
(* resources, with leaders that fail or are dropped.                       *)
(*                                                                         *)
(* AloneOnlyAfterFailure is not inductive: that a woken follower which     *)
(* finds nothing is entitled to fetch is known because its leader was      *)
(* through with the same resource.  FollowersMatch carries the resource    *)
(* from the leader to those that hold its Notify, Answered says what a     *)
(* leader leaves behind.                                                   *)
(***************************************************************************)
EXTENDS Bootstrap, TLAPS

(* Who holds the Notify of a lookup asks for the same resource, and the      *)
(* lookup is still to notify.                                                *)
FollowersMatch ==
    \A f \in Lookups : waitsOn[f] \in Lookups =>
        /\ resource[waitsOn[f]] = resource[f]
        /\ place[waitsOn[f]] \in {"leading", "releasing", "notifying"}

(* After a fetch the file is there, or something happened to it. *)
Answered ==
    \A q \in Lookups : place[q] \in {"releasing", "notifying", "woken"} =>
        resource[q] \in fresh \cup disturbed

IInv ==
    /\ TypeOK
    /\ EntryHasLeader
    /\ FollowersMatch
    /\ Answered
    /\ AloneOnlyAfterFailure

LEMMA InitIInv == Init => IInv
  BY BootstrapAssumption
     DEF Init, IInv, TypeOK, EntryHasLeader, FollowersMatch, Answered, AloneOnlyAfterFailure

(* Each action keeps the invariant, one lemma per action. *)

LEMMA MissStep == ASSUME IInv, NEW q \in Lookups, NEW r \in Resources, Miss(q, r) PROVE IInv'
  <1> USE BootstrapAssumption DEF IInv, Miss, Goto, LookingUp
  <1>1. TypeOK' BY DEF TypeOK
  <1>2. EntryHasLeader' BY DEF TypeOK, EntryHasLeader
  <1>3. FollowersMatch' BY DEF TypeOK, FollowersMatch
  <1>4. Answered' BY DEF TypeOK, Answered
  <1>5. AloneOnlyAfterFailure' BY DEF TypeOK, AloneOnlyAfterFailure
  <1>6. QED BY <1>1, <1>2, <1>3, <1>4, <1>5

LEMMA ClaimStep == ASSUME IInv, NEW q \in Lookups, Claim(q) PROVE IInv'
  <1> USE BootstrapAssumption DEF IInv, Claim, Goto
  <1>1. TypeOK' BY DEF TypeOK
  <1>2. EntryHasLeader' BY DEF TypeOK, EntryHasLeader
  <1>3. FollowersMatch' BY DEF TypeOK, FollowersMatch, EntryHasLeader
  <1>4. Answered' BY DEF TypeOK, Answered
  <1>5. AloneOnlyAfterFailure' BY DEF TypeOK, AloneOnlyAfterFailure
  <1>6. QED BY <1>1, <1>2, <1>3, <1>4, <1>5

LEMMA CreateFutureStep == ASSUME IInv, NEW q \in Lookups, CreateFuture(q) PROVE IInv'
  <1> USE BootstrapAssumption DEF IInv, CreateFuture, Goto
  <1>1. TypeOK' BY DEF TypeOK
  <1>2. EntryHasLeader' BY DEF TypeOK, EntryHasLeader
  <1>3. FollowersMatch' BY DEF TypeOK, FollowersMatch
  <1>4. Answered' BY DEF TypeOK, Answered
  <1>5. AloneOnlyAfterFailure' BY DEF TypeOK, AloneOnlyAfterFailure
  <1>6. QED BY <1>1, <1>2, <1>3, <1>4, <1>5

LEMMA FetchStep ==
  ASSUME IInv, NEW q \in Lookups, FetchOk(q) \/ FetchFails(q) PROVE IInv'
  <1> USE BootstrapAssumption DEF IInv, FetchOk, FetchFails, AfterFetch, Goto
  <1>1. TypeOK' BY DEF TypeOK
  <1>2. EntryHasLeader' BY DEF TypeOK, EntryHasLeader
  <1>3. FollowersMatch' BY DEF TypeOK, FollowersMatch
  <1>4. Answered' BY DEF TypeOK, Answered
  <1>5. AloneOnlyAfterFailure' BY DEF TypeOK, AloneOnlyAfterFailure
  <1>6. QED BY <1>1, <1>2, <1>3, <1>4, <1>5

LEMMA ReleaseStep == ASSUME IInv, NEW q \in Lookups, Release(q) PROVE IInv'
  <1> USE BootstrapAssumption DEF IInv, Release, Goto
  <1>1. TypeOK' BY DEF TypeOK
  <1>2. EntryHasLeader' BY DEF TypeOK, EntryHasLeader
  <1>3. FollowersMatch' BY DEF TypeOK, FollowersMatch
  <1>4. Answered' BY DEF TypeOK, Answered
  <1>5. AloneOnlyAfterFailure' BY DEF TypeOK, AloneOnlyAfterFailure
  <1>6. QED BY <1>1, <1>2, <1>3, <1>4, <1>5

LEMMA NotifyStep == ASSUME IInv, NEW q \in Lookups, Notify(q) PROVE IInv'
  <1> USE BootstrapAssumption DEF IInv, Notify, Followers
  <1>1. TypeOK' BY DEF TypeOK
  <1>2. EntryHasLeader' BY DEF TypeOK, EntryHasLeader
  <1>3. FollowersMatch' BY DEF TypeOK, FollowersMatch
  <1>4. Answered' BY DEF TypeOK, FollowersMatch, Answered
  <1>5. AloneOnlyAfterFailure' BY DEF TypeOK, AloneOnlyAfterFailure
  <1>6. QED BY <1>1, <1>2, <1>3, <1>4, <1>5

LEMMA RereadStep == ASSUME IInv, NEW q \in Lookups, Reread(q) PROVE IInv'
  <1> USE BootstrapAssumption DEF IInv, Reread, Goto
  <1>1. TypeOK' BY DEF TypeOK
  <1>2. EntryHasLeader' BY DEF TypeOK, EntryHasLeader
  <1>3. FollowersMatch' BY DEF TypeOK, FollowersMatch
  <1>4. Answered' BY DEF TypeOK, Answered
  <1>5. AloneOnlyAfterFailure' BY DEF TypeOK, Answered, AloneOnlyAfterFailure
  <1>6. QED BY <1>1, <1>2, <1>3, <1>4, <1>5

LEMMA DropStep == ASSUME IInv, NEW q \in Lookups, Drop(q) PROVE IInv'
  <1> USE BootstrapAssumption DEF IInv, Drop, Goto, Followers
  <1>1. CASE place[q] = "leading"
    <2> USE <1>1
    <2>1. TypeOK' BY DEF TypeOK
    <2>2. EntryHasLeader' BY DEF TypeOK, EntryHasLeader
    <2>3. FollowersMatch' BY DEF TypeOK, FollowersMatch
    <2>4. Answered' BY DEF TypeOK, Answered
    <2>5. AloneOnlyAfterFailure' BY DEF TypeOK, AloneOnlyAfterFailure
    <2>6. QED BY <2>1, <2>2, <2>3, <2>4, <2>5
  <1>2. CASE place[q] # "leading"
    <2> USE <1>2
    <2>1. TypeOK' BY DEF TypeOK
    <2>2. EntryHasLeader' BY DEF TypeOK, EntryHasLeader
    <2>3. FollowersMatch' BY DEF TypeOK, FollowersMatch
    <2>4. Answered' BY DEF TypeOK, Answered
    <2>5. AloneOnlyAfterFailure' BY DEF TypeOK, AloneOnlyAfterFailure
    <2>6. QED BY <2>1, <2>2, <2>3, <2>4, <2>5
  <1>3. QED BY <1>1, <1>2

(* The cache loses entries; the lookups stay where they are. *)
LEMMA LossStep ==
  ASSUME IInv, clear_cache \/ \E r \in Resources : Expire(r) PROVE IInv'
  BY DEF IInv, clear_cache, Expire, TypeOK, EntryHasLeader, FollowersMatch, Answered,
     AloneOnlyAfterFailure

LEMMA NextIInv == IInv /\ [Next]_vars => IInv'
  <1> SUFFICES ASSUME IInv, [Next]_vars PROVE IInv'
    OBVIOUS
  <1>1. CASE \E q \in Lookups : LookupStep(q)
    BY <1>1, ClaimStep, CreateFutureStep, FetchStep, ReleaseStep, NotifyStep, RereadStep
       DEF LookupStep
  <1>2. CASE \E q \in Lookups : Drop(q) \/ \E r \in Resources : Miss(q, r)
    BY <1>2, DropStep, MissStep
  <1>3. CASE clear_cache \/ \E r \in Resources : Expire(r)
    BY <1>3, LossStep
  <1>4. CASE UNCHANGED vars
    BY <1>4 DEF vars, IInv, TypeOK, EntryHasLeader, FollowersMatch, Answered,
       AloneOnlyAfterFailure
  <1>5. QED BY <1>1, <1>2, <1>3, <1>4 DEF Next

LEMMA SpecIInv == Spec => []IInv
  BY InitIInv, NextIInv, PTL DEF Spec

(* Every variable keeps its type, and nobody holds a Notify but a follower    *)
(* that has not been woken.                                                   *)
THEOREM TypeCorrect == Spec => []TypeOK
  BY SpecIInv, PTL DEF IInv

(* One lookup at a time leads for a resource, and the registry names it,      *)
(* whatever leaders fail, are dropped or finish between the look at the cache *)
(* and the claim.                                                             *)
THEOREM OneLeader == Spec => []EntryHasLeader
  BY SpecIInv, PTL DEF IInv

(* Of the lookups that want a file one at a time downloads it, and followers  *)
(* download for themselves, only after a failed or dropped download in their  *)
(* own round of lookups, or a loss of the file.                               *)
THEOREM SingleDownload == Spec => []OneDownloadAtATime
  <1>1. IInv => OneDownloadAtATime
    <2> SUFFICES ASSUME IInv, NEW r \in Resources \ disturbed,
                        NEW q \in Downloading(r), NEW s \in Downloading(r)
                 PROVE  q = s
      BY DEF IInv, OneDownloadAtATime
    <2>1. /\ place[q] = "leading" /\ resource[q] = r /\ q \in Lookups
          /\ place[s] = "leading" /\ resource[s] = r /\ s \in Lookups
      BY DEF IInv, AloneOnlyAfterFailure, Downloading
    <2>2. in_flight[r] = q /\ in_flight[r] = s
      BY <2>1 DEF IInv, EntryHasLeader
    <2>3. QED BY <2>2
  <1>2. QED BY <1>1, SpecIInv, PTL

(* A follower waits for a lookup that is at work on its file, unless it came  *)
(* behind the notification or the leader was dropped.                         *)
THEOREM NoCircle == Spec => []FollowsOneAtWork
  <1>1. IInv => FollowsOneAtWork
    BY DEF IInv, TypeOK, FollowersMatch, FollowsOneAtWork, Forsaken
  <1>2. QED
    BY <1>1, SpecIInv, PTL
=============================================================================
