----------------------------- MODULE FetcherProofs -----------------------------
(***************************************************************************)
(* Proofs about the fetcher, for any calls, outcomes, limits and delays.   *)
(*                                                                         *)
(* RetryBudget is not inductive: that an error is not retried too often    *)
(* follows from the loop's one counter, which runs ahead of what has been  *)
(* retried of any single error (Counted).  The queues of the semaphores    *)
(* play no part in it.  PermitsMatchPlace is inductive once it says that   *)
(* a queue holds nobody twice (QueueOf) and that the gates are empty of    *)
(* calls the gate is not for (GateInv); the gauge is a matter of its own   *)
(* (GaugeInv).                                                             *)
(***************************************************************************)
EXTENDS Fetcher, FiniteSetTheorems, SequenceTheorems, TLAPS

(* Before an attempt ends, the attempts before it bound what was retried;    *)
(* after it, it counts itself.                                               *)
Counted(where, n, counts) ==
    /\ where \in {"idle", "locking"} => counts = NoRetries
    /\ where \in {"hostWait", "globalWait", "sending"} =>
        \A e \in Outcomes : counts[e] < n
    /\ where = "backoff" => n < MaxAttempts /\ \A e \in Outcomes : counts[e] <= n

Waited(where, r, w) ==
    where = "backoff" =>
        /\ w >= Smaller(r.retry_after, RetryAfterMax)
        /\ w <= Larger(RetryAfterMax, MaxBackoff)

(* What holds of the locals of one call. *)
CallInv(where, n, r, w, counts) ==
    /\ where \in Places
    /\ n \in 0..MaxAttempts
    /\ r \in Outcomes \cup {Ok}
    /\ w \in Nat
    /\ counts \in [Outcomes -> Nat]
    /\ \A e \in Outcomes : counts[e] <= retry_limit(e) /\ counts[e] <= n
    /\ Counted(where, n, counts)
    /\ Waited(where, r, w)

LocalsOf(c) == CallInv(place[c], attempt[c], result[c], wait[c], retried[c])

IInv ==
    /\ place \in [Tasks -> Places]
    /\ attempt \in [Calls -> 0..MaxAttempts]
    /\ result \in [Calls -> Outcomes \cup {Ok}]
    /\ wait \in [Calls -> Nat]
    /\ retried \in [Calls -> [Outcomes -> Nat]]
    /\ \A c \in Calls : LocalsOf(c)

LEMMA RetryLimitNat == ASSUME NEW e \in Errors PROVE retry_limit(e) \in Nat
  BY DEF retry_limit

LEMMA OutcomesLimited == \A e \in Outcomes : retry_limit(e) \in Nat
  BY RetryLimitNat, FetcherAssumption DEF FetcherAssumption

(* The wait honours the hint up to its cap, and the cap holds for both.      *)
LEMMA DelayBounds ==
  ASSUME NEW e \in Errors, NEW n, NEW backoff \in Backoffs(n)
  PROVE  /\ Delay(e, backoff) \in Nat
         /\ Delay(e, backoff) >= Smaller(e.retry_after, RetryAfterMax)
         /\ Delay(e, backoff) <= Larger(RetryAfterMax, MaxBackoff)
  <1>1. e.retry_after \in Nat \cup {NoHint}
    BY DEF Errors, Network, Timeout, LocalError, Failure
  <1>2. backoff \in 0..MaxBackoff
    BY DEF Backoffs
  <1>3. QED
    BY <1>1, <1>2, DelayAssumption DEF DelayAssumption, Delay, Smaller, Larger, NoHint

(* A call that is not under way. *)
LEMMA FreshLocals == CallInv("idle", 0, Ok, 0, NoRetries)
  <1>1. /\ NoRetries \in [Outcomes -> Nat]
        /\ \A e \in Outcomes : NoRetries[e] <= retry_limit(e) /\ NoRetries[e] <= 0
    BY OutcomesLimited DEF NoRetries
  <1>2. 0 \in 0..MaxAttempts
    BY FetcherAssumption DEF FetcherAssumption
  <1>3. QED BY <1>1, <1>2 DEF CallInv, Counted, Waited, Places

LEMMA InitIInv == Init => IInv
  <1> SUFFICES ASSUME Init PROVE IInv
    OBVIOUS
  <1>1. ASSUME NEW c \in Calls PROVE LocalsOf(c)
    BY FreshLocals DEF Init, LocalsOf, Tasks
  <1>2. place \in [Tasks -> Places]
    BY DEF Init, Places
  <1>3. QED BY <1>1, <1>2, FreshLocals DEF Init, IInv, CallInv

(* A step that gives one call new locals that fit, and nothing to the others. *)
LEMMA OneCall ==
  ASSUME IInv, NEW c \in Calls,
         NEW where, NEW n, NEW r, NEW w, NEW counts,
         CallInv(where, n, r, w, counts),
         place' = [place EXCEPT ![c] = where],
         attempt' = [attempt EXCEPT ![c] = n],
         result' = [result EXCEPT ![c] = r],
         wait' = [wait EXCEPT ![c] = w],
         retried' = [retried EXCEPT ![c] = counts]
  PROVE  IInv'
  <1>1. /\ place' \in [Tasks -> Places]
        /\ attempt' \in [Calls -> 0..MaxAttempts]
        /\ result' \in [Calls -> Outcomes \cup {Ok}]
        /\ wait' \in [Calls -> Nat]
        /\ retried' \in [Calls -> [Outcomes -> Nat]]
    BY DEF IInv, CallInv
  <1>2. ASSUME NEW d \in Calls PROVE LocalsOf(d)'
    <2>1. CASE d = c
      BY <2>1 DEF IInv, LocalsOf, Tasks
    <2>2. CASE d # c
      <3>1. /\ place'[d] = place[d] /\ attempt'[d] = attempt[d] /\ result'[d] = result[d]
            /\ wait'[d] = wait[d] /\ retried'[d] = retried[d]
        BY <2>2 DEF IInv, Tasks
      <3>2. QED BY <3>1 DEF IInv, LocalsOf
    <2>3. QED BY <2>1, <2>2
  <1>3. QED BY <1>1, <1>2 DEF IInv

(* An attempt starts. *)
LEMMA QueueUpStep ==
  ASSUME IInv, NEW c \in Calls, NEW n \in 1..MaxAttempts, QueueUp(c, n),
         UNCHANGED retried, \A e \in Outcomes : retried[c][e] < n
  PROVE  IInv'
  <1>1. ASSUME NEW where \in {"hostWait", "globalWait"}
        PROVE  CallInv(where, n, Ok, 0, retried[c])
    BY DEF IInv, LocalsOf, CallInv, Counted, Waited, Places
  <1>2. retried' = [retried EXCEPT ![c] = retried[c]]
    BY DEF IInv
  <1>3. PICK where \in {"hostWait", "globalWait"} : Goto(c, where)
    BY DEF QueueUp
  <1>4. QED BY <1>1, <1>2, <1>3, OneCall DEF QueueUp, Goto

LEMMA LeaveStep ==
  ASSUME IInv, NEW c \in Calls, Leave(c) PROVE IInv'
  BY FreshLocals, OneCall DEF Leave, Goto

(* The call moves between its waits, its other locals untouched. *)
LEMMA MoveStep ==
  ASSUME IInv, NEW c \in Calls, NEW where \in Places, Goto(c, where),
         Counted(where, attempt[c], retried[c]), where # "backoff",
         UNCHANGED <<attempt, result, wait, retried>>
  PROVE  IInv'
  <1> DEFINE n == attempt[c]  r == result[c]  w == wait[c]  counts == retried[c]
  <1>1. CallInv(where, n, r, w, counts)
    BY DEF IInv, LocalsOf, CallInv, Waited
  <1>2. /\ place' = [place EXCEPT ![c] = where]
        /\ attempt' = [attempt EXCEPT ![c] = n]
        /\ result' = [result EXCEPT ![c] = r]
        /\ wait' = [wait EXCEPT ![c] = w]
        /\ retried' = [retried EXCEPT ![c] = counts]
    BY DEF IInv, Goto
  <1> HIDE DEF n, r, w, counts
  <1>3. QED BY ONLY IInv, c \in Calls, <1>1, <1>2, OneCall

LEMMA ReturnStep ==
  ASSUME IInv, NEW c \in Calls, NEW r \in Outcomes \cup {Ok}, Return(c, r)
  PROVE  IInv'
  <1> DEFINE n == attempt[c]  w == wait[c]  counts == retried[c]  where == "reporting"
  <1>1. CallInv(where, n, r, w, counts)
    BY DEF IInv, LocalsOf, CallInv, Counted, Waited, Places
  <1>2. /\ place' = [place EXCEPT ![c] = where]
        /\ attempt' = [attempt EXCEPT ![c] = n]
        /\ result' = [result EXCEPT ![c] = r]
        /\ wait' = [wait EXCEPT ![c] = w]
        /\ retried' = [retried EXCEPT ![c] = counts]
    BY DEF IInv, Goto, Return
  <1> HIDE DEF n, w, counts, where
  <1>3. QED BY ONLY IInv, c \in Calls, <1>1, <1>2, OneCall

(* The error is within its limit because the counter is. *)
LEMMA SleepStep ==
  ASSUME IInv, NEW c \in Calls, NEW err \in Outcomes, place[c] = "sending",
         Retries(attempt[c], err, MaxAttempts), Sleep(c, err)
  PROVE  IInv'
  <1> DEFINE counts == [retried[c] EXCEPT ![err] = @ + 1]
  <1>1. PICK backoff \in Backoffs(attempt[c]) :
          wait' = [wait EXCEPT ![c] = Delay(err, backoff)]
    BY DEF Sleep
  <1>2. /\ Delay(err, backoff) \in Nat
        /\ Waited("backoff", err, Delay(err, backoff))
    BY DelayBounds, FetcherAssumption DEF FetcherAssumption, Waited
  <1>3. /\ retried[c] \in [Outcomes -> Nat] /\ attempt[c] \in 0..MaxAttempts
        /\ \A e \in Outcomes : retried[c][e] < attempt[c] /\ retried[c][e] <= retry_limit(e)
    BY DEF IInv, LocalsOf, CallInv, Counted
  <1>4. attempt[c] <= retry_limit(err) /\ attempt[c] < MaxAttempts /\ retry_limit(err) \in Nat
    BY OutcomesLimited DEF Retries
  <1>5. /\ counts \in [Outcomes -> Nat]
        /\ \A e \in Outcomes : counts[e] <= attempt[c] /\ counts[e] <= retry_limit(e)
    <2>1. ASSUME NEW e \in Outcomes
          PROVE  counts[e] \in Nat /\ counts[e] <= attempt[c] /\ counts[e] <= retry_limit(e)
      <3>1. CASE e = err
        BY <1>3, <1>4, <3>1
      <3>2. CASE e # err
        <4>1. counts[e] = retried[c][e]
          BY <1>3, <3>2
        <4>2. QED BY <1>3, <4>1
      <3>3. QED BY <3>1, <3>2
    <2>2. QED BY <1>3, <2>1
  <1>6. CallInv("backoff", attempt[c], err, Delay(err, backoff), counts)
    BY <1>2, <1>3, <1>4, <1>5 DEF CallInv, Counted, Places
  <1>7. /\ attempt' = [attempt EXCEPT ![c] = attempt[c]]
        /\ retried' = [retried EXCEPT ![c] = counts]
    BY DEF IInv, Sleep
  <1>8. QED BY <1>1, <1>6, <1>7, OneCall DEF Goto, Sleep
(* Attempts against other origins leave the calls alone. *)
LEMMA OtherLeavesCalls ==
  ASSUME IInv, NEW o \in Others, OtherStep(o)
  PROVE  /\ place' \in [Tasks -> Places]
         /\ \A c \in Calls : place'[c] = place[c]
         /\ UNCHANGED <<attempt, result, wait, retried, breaker>>
  <1>1. PICK where \in Places : Goto(o, where)
    BY DEF OtherStep, OtherQueues, OtherAcquires, OtherEnds, Places
  <1>2. \A c \in Calls : c # o
    BY FetcherAssumption DEF FetcherAssumption
  <1>3. QED BY <1>1, <1>2 DEF IInv, Goto, Tasks, OtherStep

LEMMA NextIInv == IInv /\ [Next]_vars => IInv'
  <1> SUFFICES ASSUME IInv, [Next]_vars PROVE IInv'
    OBVIOUS
  <1>0. \A c \in Calls : LocalsOf(c)
    BY DEF IInv
  <1>1. ASSUME NEW c \in Calls, BeginLoop(c), place[c] \in {"idle", "locking"} PROVE IInv'
    <2>1. \A e \in Outcomes : retried[c][e] < 1
      BY <1>0, <1>1 DEF LocalsOf, CallInv, Counted, NoRetries
    <2>2. 1 \in 1..MaxAttempts
      BY FetcherAssumption DEF FetcherAssumption
    <2>3. QED BY <1>1, <2>1, <2>2, QueueUpStep DEF BeginLoop
  <1>2. ASSUME NEW c \in Calls, Start(c) PROVE IInv'
    <2>1. CASE state = CB!CLOSED
      BY <1>1, <1>2, <2>1 DEF Start
    <2>2. CASE state # CB!CLOSED
      <3>1. Counted("locking", attempt[c], retried[c])
        BY <1>0, <1>2 DEF LocalsOf, CallInv, Counted, Start
      <3>2. QED BY <1>2, <2>2, <3>1, MoveStep DEF Start, Places
    <2>3. QED BY <2>1, <2>2
  <1>3. ASSUME NEW c \in Calls, BeforeCall(c) PROVE IInv'
    BY <1>1, <1>3, LeaveStep DEF BeforeCall, LockedAdmit, LockedRefuse
  <1>4. ASSUME NEW c \in Calls, AcquireHost(c) PROVE IInv'
    <2>1. Counted("globalWait", attempt[c], retried[c])
      BY <1>0, <1>4 DEF LocalsOf, CallInv, Counted, AcquireHost
    <2>2. QED BY <1>4, <2>1, MoveStep DEF AcquireHost, Places
  <1>5. ASSUME NEW c \in Calls, AcquireGlobal(c) PROVE IInv'
    <2>1. Counted("sending", attempt[c], retried[c])
      BY <1>0, <1>5 DEF LocalsOf, CallInv, Counted, AcquireGlobal
    <2>2. QED BY <1>5, <2>1, MoveStep DEF AcquireGlobal, Places
  <1>6. ASSUME NEW c \in Calls, Respond(c) PROVE IInv'
    <2>1. CASE AttemptSucceeds(c)
      BY <2>1, ReturnStep DEF AttemptSucceeds
    <2>2. ASSUME NEW err \in Outcomes, AttemptFails(c, err) PROVE IInv'
      BY <2>2, ReturnStep, SleepStep DEF AttemptFails
    <2>3. QED BY <1>6, <2>1, <2>2 DEF Respond
  <1>7. ASSUME NEW c \in Calls, BackoffEnds(c) PROVE IInv'
    <2>1. /\ retried[c] \in [Outcomes -> Nat] /\ attempt[c] \in 0..MaxAttempts
          /\ attempt[c] < MaxAttempts /\ \A e \in Outcomes : retried[c][e] <= attempt[c]
      BY <1>0, <1>7 DEF LocalsOf, CallInv, Counted, BackoffEnds
    <2>2. attempt[c] + 1 \in 1..MaxAttempts
      BY <2>1, FetcherAssumption DEF FetcherAssumption
    <2>3. \A e \in Outcomes : retried[c][e] < attempt[c] + 1
      BY <2>1, FetcherAssumption DEF FetcherAssumption
    <2>4. QueueUp(c, attempt[c] + 1) /\ UNCHANGED retried
      BY <1>7 DEF BackoffEnds
    <2>5. QED BY <2>2, <2>3, <2>4, QueueUpStep
  <1>8. ASSUME NEW c \in Calls, Report(c) PROVE IInv'
    BY <1>8, LeaveStep DEF Report
  <1>9. ASSUME NEW c \in Calls, Cancel(c) PROVE IInv'
    BY <1>9, LeaveStep DEF Cancel
  <1>10. ASSUME NEW o \in Others, OtherStep(o) PROVE IInv'
    BY <1>10, OtherLeavesCalls DEF IInv, LocalsOf
  <1>11. CASE Clock
    BY <1>11 DEF Clock, IInv, LocalsOf, loop
  <1>12. CASE UNCHANGED vars
    BY <1>12 DEF vars, IInv, LocalsOf, loop
  <1>13. QED
    BY <1>2, <1>3, <1>4, <1>5, <1>6, <1>7, <1>8, <1>9, <1>10, <1>11, <1>12
       DEF Next, CallStep

(* The loop's counter, its guard and its waits keep every error within its   *)
(* limit and every wait within its cap, whatever errors come in what order.  *)
THEOREM RetriesBounded == Spec => []RetryBudget
  <1>1. IInv => RetryBudget
    BY DEF IInv, LocalsOf, CallInv, Waited, RetryBudget, FetcherAssumption
  <1>2. QED BY <1>1, InitIInv, NextIInv, PTL DEF Spec

-----------------------------------------------------------------------------
(* The breaker sees of a step only where the call stands. *)
Seen(where) == IF where \in {"idle", "locking"} THEN where ELSE "running"

LEMMA ViewGoto ==
  ASSUME IInv, NEW c \in Calls, NEW where, Goto(c, where)
  PROVE  BreakerView' = [BreakerView EXCEPT ![c] = Seen(where)]
  BY DEF IInv, BreakerView, Goto, Seen, Tasks

(* A call that goes on running does not show. *)
LEMMA ViewStays ==
  ASSUME IInv, NEW c \in Calls, NEW where, Goto(c, where), Seen(where) = Seen(place[c])
  PROVE  UNCHANGED BreakerView
  BY ViewGoto DEF BreakerView, Seen

LEMMA InitRefines == Init => CB!Init
  BY DEF Init, CB!Init, BreakerView, Tasks

LEMMA StepRefines == IInv /\ [Next]_vars => [CB!Next]_(CB!vars)
  <1> SUFFICES ASSUME IInv, [Next]_vars PROVE [CB!Next]_(CB!vars)
    OBVIOUS
  <1> DEFINE Stutter == UNCHANGED <<breaker, BreakerView>>
  <1>0. Stutter => UNCHANGED CB!vars
    BY DEF CB!vars, CB!breaker, breaker
  <1>1. ASSUME NEW c \in Calls, BeginLoop(c) PROVE CB!Goto(c, "running")
    <2>1. PICK where \in {"hostWait", "globalWait"} : Goto(c, where)
      BY <1>1 DEF BeginLoop, QueueUp
    <2>2. QED BY <2>1, ViewGoto DEF CB!Goto, Seen
  <1>2. ASSUME NEW c \in Calls, Leave(c) PROVE CB!Goto(c, "idle")
    BY <1>2, ViewGoto DEF CB!Goto, Seen, Leave
  <1>3. ASSUME NEW c \in Calls, Start(c) PROVE CB!BeforeCall(c)
    <2>1. BreakerView[c] = "idle"
      BY <1>3 DEF BreakerView, Start
    <2>2. CB!Goto(c, IF state = CB!CLOSED THEN "running" ELSE "locking")
      BY <1>1, <1>3, ViewGoto DEF CB!Goto, Seen, Start
    <2>3. QED BY <1>3, <2>1, <2>2 DEF Start, CB!BeforeCall, CB!FastPath, CB!breaker, breaker
  <1>4. ASSUME NEW c \in Calls, BeforeCall(c) PROVE CB!BeforeCall(c)
    <2>1. BreakerView[c] = "locking"
      BY <1>4 DEF BreakerView, BeforeCall, LockedAdmit, LockedRefuse
    <2>2. CASE LockedAdmit(c)
      BY <1>1, <2>1, <2>2 DEF LockedAdmit, CB!BeforeCall, CB!LockedAdmit, CB!breaker, breaker
    <2>3. CASE LockedRefuse(c)
      BY <1>2, <2>1, <2>3 DEF LockedRefuse, CB!BeforeCall, CB!LockedRefuse, CB!breaker, breaker
    <2>4. QED BY <1>4, <2>2, <2>3 DEF BeforeCall
  <1>5. ASSUME NEW c \in Calls, AcquireHost(c) \/ AcquireGlobal(c) PROVE Stutter
    BY <1>5, ViewStays DEF AcquireHost, AcquireGlobal, Seen
  <1>6. ASSUME NEW c \in Calls, Respond(c) PROVE Stutter
    <2>1. CASE AttemptSucceeds(c)
      BY <2>1, ViewStays DEF AttemptSucceeds, Return, Seen
    <2>2. ASSUME NEW err \in Outcomes, AttemptFails(c, err) PROVE Stutter
      BY <2>2, ViewStays DEF AttemptFails, Return, Sleep, Seen
    <2>3. QED BY <1>6, <2>1, <2>2 DEF Respond
  <1>7. ASSUME NEW c \in Calls, BackoffEnds(c) PROVE Stutter
    <2>1. PICK where \in {"hostWait", "globalWait"} : Goto(c, where)
      BY <1>7 DEF BackoffEnds, QueueUp
    <2>2. QED BY <1>7, <2>1, ViewStays DEF BackoffEnds, Seen
  <1>8. ASSUME NEW c \in Calls, Report(c) PROVE CB!Report(c)
    <2>1. BreakerView[c] = "running"
      BY <1>8 DEF BreakerView, Report
    <2>2. CB!Goto(c, "idle")
      BY <1>2, <1>8 DEF Report
    <2>3. CB!RecordSuccess \/ CB!RecordFailure \/ CB!NoReport(c)
      BY <1>8 DEF Report
    <2>4. QED
      BY <2>1, <2>2, <2>3 DEF CB!Report, CB!OnSuccess, CB!OnFailure, CB!Abandon
  <1>9. ASSUME NEW c \in Calls, Cancel(c) PROVE CB!Report(c)
    <2>1. BreakerView[c] # "idle"
      BY <1>9 DEF BreakerView, Cancel
    <2>2. QED BY <1>2, <1>9, <2>1 DEF Cancel, CB!Report, CB!Abandon
  <1>10. ASSUME NEW o \in Others, OtherStep(o) PROVE Stutter
    BY <1>10, OtherLeavesCalls DEF BreakerView
  <1>11. ASSUME Clock PROVE CB!Next
    <2>1. UNCHANGED BreakerView
      BY <1>11 DEF Clock, loop, BreakerView
    <2>2. QED BY <1>11, <2>1 DEF Clock, CB!Next, CB!Tick, CB!SetClockBack
  <1>12. ASSUME UNCHANGED vars PROVE Stutter
    BY <1>12 DEF vars, loop, BreakerView
  <1> HIDE DEF Stutter
  <1>13. CB!Next \/ Stutter
    <2>1. ASSUME NEW c \in Calls, CallStep(c) PROVE CB!Next \/ Stutter
      <3>1. CB!BeforeCall(c) \/ CB!Report(c) \/ Stutter
        BY <2>1, <1>3, <1>4, <1>5, <1>6, <1>7, <1>8, <1>9 DEF CallStep
      <3>2. QED BY <3>1 DEF CB!Next
    <2>2. QED BY <2>1, <1>10, <1>11, <1>12 DEF Next, CB!Next
  <1>14. QED BY <1>0, <1>13

(* Through retries, gates and dropped futures, the calls use the breaker as  *)
(* its own specification says, so what is proved of it holds behind them.    *)
THEOREM FollowsProtocol == Spec => BreakerProtocol
  <1>1. QED
    BY InitIInv, NextIInv, InitRefines, StepRefines, PTL DEF Spec, BreakerProtocol, CB!Spec
-----------------------------------------------------------------------------
(* The queues of the semaphores.  That each waiter is in its queue once, and *)
(* nobody else is, survives the grant of a permit to the head, and a dropped *)
(* future that leaves from the middle.                                       *)

(* The queue holds every element of S once, and nothing else. *)
QueueOf(queue, S) ==
    /\ queue \in Seq(S)
    /\ InQueue(queue) = S
    /\ \A i, j \in 1 .. Len(queue) : queue[i] = queue[j] => i = j

LEMMA QueueAppend ==
  ASSUME NEW S, NEW queue, QueueOf(queue, S), NEW t, t \notin S
  PROVE  QueueOf(Append(queue, t), S \cup {t})
  <1> DEFINE longer == Append(queue, t)
  <1>1. queue \in Seq(S \cup {t})
    BY DEF QueueOf
  <1>2. /\ longer \in Seq(S \cup {t}) /\ Len(longer) = Len(queue) + 1
        /\ \A i \in 1 .. Len(queue) : longer[i] = queue[i]
        /\ longer[Len(queue) + 1] = t
    BY <1>1
  <1>3. Len(queue) \in Nat /\ \A i \in 1 .. Len(queue) : queue[i] \in S
    BY DEF QueueOf
  <1> HIDE DEF longer
  <1>4. InQueue(longer) = S \cup {t}
    <2>1. InQueue(longer) = {longer[i] : i \in 1 .. Len(queue)} \cup {t}
      BY <1>2, <1>3 DEF InQueue
    <2>2. {longer[i] : i \in 1 .. Len(queue)} = {queue[i] : i \in 1 .. Len(queue)}
      BY <1>2
    <2>3. QED BY <2>1, <2>2 DEF QueueOf, InQueue
  <1>5. ASSUME NEW i \in 1 .. Len(longer), NEW j \in 1 .. Len(longer), longer[i] = longer[j]
        PROVE  i = j
    BY <1>2, <1>3, <1>5 DEF QueueOf
  <1>6. QED BY <1>2, <1>4, <1>5 DEF QueueOf, longer

LEMMA QueueTail ==
  ASSUME NEW S, NEW queue, QueueOf(queue, S), queue # <<>>
  PROVE  QueueOf(Tail(queue), S \ {Head(queue)})
  <1> DEFINE shorter == Tail(queue)
  <1>1. /\ shorter \in Seq(S) /\ Len(shorter) = Len(queue) - 1
        /\ \A i \in 1 .. Len(shorter) : shorter[i] = queue[i + 1]
        /\ Len(queue) \in Nat \ {0} /\ Head(queue) = queue[1]
    BY DEF QueueOf
  <1> HIDE DEF shorter
  <1>2. InQueue(shorter) = S \ {queue[1]}
    <2>1. ASSUME NEW i \in 1 .. Len(shorter) PROVE shorter[i] \in S \ {queue[1]}
      <3>1. i + 1 \in 1 .. Len(queue) /\ 1 \in 1 .. Len(queue) /\ i + 1 # 1
        BY <1>1
      <3>2. QED BY <1>1, <3>1 DEF QueueOf
    <2>2. ASSUME NEW x \in S \ {queue[1]} PROVE x \in InQueue(shorter)
      <3>1. PICK i \in 1 .. Len(queue) : queue[i] = x
        BY DEF QueueOf, InQueue
      <3>2. i - 1 \in 1 .. Len(shorter) /\ shorter[i - 1] = x
        BY <1>1, <2>2, <3>1
      <3>3. QED BY <3>2 DEF InQueue
    <2>3. QED BY <2>1, <2>2 DEF InQueue
  <1>3. shorter \in Seq(S \ {queue[1]})
    BY <1>1, <1>2 DEF InQueue
  <1>4. ASSUME NEW i \in 1 .. Len(shorter), NEW j \in 1 .. Len(shorter), shorter[i] = shorter[j]
        PROVE  i = j
    BY <1>1, <1>4 DEF QueueOf
  <1>5. QED BY <1>1, <1>2, <1>3, <1>4 DEF QueueOf, shorter

(* The position that is found is that of the element: it is its only one. *)
LEMMA QueueSearch ==
  ASSUME NEW S, NEW queue, QueueOf(queue, S), NEW t \in S
  PROVE  \E p \in 1 .. Len(queue) :
            /\ queue[p] = t
            /\ RemoveFirst(queue, t) = SubSeq(queue, 1, p - 1) \o SubSeq(queue, p + 1, Len(queue))
  <1>1. PICK p \in 1 .. Len(queue) : queue[p] = t
    BY DEF QueueOf, InQueue
  <1>2. {i \in 1 .. Len(queue) : queue[i] = t} = {p}
    BY <1>1 DEF QueueOf
  <1>3. Min({p}) = p
    BY DEF Min
  <1>4. SelectInSeq(queue, LAMBDA v : v = t) = p
    BY <1>2, <1>3 DEF SelectInSeq
  <1>5. QED BY <1>1, <1>4 DEF RemoveFirst, RemoveAt

LEMMA QueueRemove ==
  ASSUME NEW S, NEW queue, QueueOf(queue, S), NEW t
  PROVE  QueueOf(RemoveFirst(queue, t), S \ {t})
  <1>1. CASE t \notin S
    <2>1. RemoveFirst(queue, t) = queue
      BY <1>1 DEF RemoveFirst, QueueOf, InQueue
    <2>2. S \ {t} = S
      BY <1>1
    <2>3. QED BY <2>1, <2>2
  <1>2. CASE t \in S
    <2>1. PICK p \in 1 .. Len(queue) :
            /\ queue[p] = t
            /\ RemoveFirst(queue, t) = SubSeq(queue, 1, p - 1) \o SubSeq(queue, p + 1, Len(queue))
      BY <1>2, QueueSearch
    <2> DEFINE before == SubSeq(queue, 1, p - 1)
               after == SubSeq(queue, p + 1, Len(queue))
               rest == RemoveFirst(queue, t)
               n == Len(queue)
    <2>2. n \in Nat /\ queue \in Seq(S) /\ \A i \in 1 .. n : queue[i] \in S
      BY DEF QueueOf
    <2>3. /\ before \in Seq(S) /\ Len(before) = p - 1
          /\ \A i \in 1 .. p - 1 : before[i] = queue[i]
      BY <2>1, <2>2
    <2>4. /\ after \in Seq(S) /\ Len(after) = n - p
          /\ \A i \in 1 .. n - p : after[i] = queue[p + i]
      BY <2>1, <2>2
    <2> HIDE DEF before, after
    <2>5. rest = before \o after
      BY <2>1 DEF before, after
    <2> HIDE DEF rest
    <2>6. /\ rest \in Seq(S) /\ Len(rest) = n - 1
          /\ \A i \in 1 .. n - 1 : rest[i] = IF i < p THEN queue[i] ELSE queue[i + 1]
      <3>1. rest \in Seq(S) /\ Len(rest) = n - 1
        BY <2>1, <2>2, <2>3, <2>4, <2>5, SMTT(30)
      <3>2. ASSUME NEW i \in 1 .. n - 1 PROVE rest[i] = IF i < p THEN queue[i] ELSE queue[i + 1]
        <4>1. rest[i] = IF i <= Len(before) THEN before[i] ELSE after[i - Len(before)]
          BY <2>2, <2>3, <2>4, <2>5, <3>1
        <4>2. CASE i < p
          BY <2>1, <2>3, <4>1, <4>2
        <4>3. CASE i >= p
          <5>1. i - (p - 1) \in 1 .. n - p /\ p + (i - (p - 1)) = i + 1 /\ ~ (i <= p - 1)
            BY <2>1, <2>2, <4>3
          <5>2. QED BY <2>3, <2>4, <4>1, <4>3, <5>1
        <4>4. QED BY <2>1, <4>2, <4>3
      <3>3. QED BY <3>1, <3>2
    <2>7. \A i, j \in 1 .. n : queue[i] = queue[j] => i = j
      BY DEF QueueOf
    <2>8. ASSUME NEW i \in 1 .. n - 1 PROVE rest[i] \in S \ {t}
      BY <2>1, <2>2, <2>6, <2>7
    <2>9. ASSUME NEW x \in S \ {t} PROVE \E i \in 1 .. n - 1 : rest[i] = x
      <3>1. PICK k \in 1 .. n : queue[k] = x
        BY DEF QueueOf, InQueue
      <3>2. CASE k < p
        <4>1. k \in 1 .. n - 1
          BY <2>1, <2>2, <3>1, <3>2
        <4>2. QED BY <2>6, <3>1, <3>2, <4>1
      <3>3. CASE k > p
        <4>1. k - 1 \in 1 .. n - 1 /\ ~ (k - 1 < p) /\ k - 1 + 1 = k
          BY <2>1, <2>2, <3>1, <3>3
        <4>2. QED BY <2>6, <3>1, <4>1
      <3>4. k # p
        BY <2>1, <3>1
      <3>5. k < p \/ k > p
        BY <2>1, <2>2, <3>1, <3>4
      <3>6. QED BY <3>2, <3>3, <3>5
    <2>10. ASSUME NEW i \in 1 .. n - 1, NEW j \in 1 .. n - 1, rest[i] = rest[j]
           PROVE  i = j
      BY <2>1, <2>2, <2>6, <2>7, <2>10
    <2>11. rest \in Seq(S \ {t})
      BY <2>6, <2>8
    <2>12. InQueue(rest) = S \ {t}
      BY <2>6, <2>8, <2>9 DEF InQueue
    <2>13. QED BY <2>6, <2>10, <2>11, <2>12 DEF QueueOf, rest
  <1>3. QED BY <1>1, <1>2

LEMMA QueueLength ==
  ASSUME NEW S, NEW queue, QueueOf(queue, S)
  PROVE  IsFiniteSet(S) /\ Len(queue) = Cardinality(S)
  <1>1. Len(queue) \in Nat /\ queue \in [1 .. Len(queue) -> S]
    BY DEF QueueOf
  <1>2. queue \in Bijection(1 .. Len(queue), S)
    BY <1>1 DEF QueueOf, InQueue, Bijection, Injection, Surjection, IsInjective
  <1>3. ExistsBijection(1 .. Len(queue), S)
    BY <1>2 DEF ExistsBijection
  <1>4. QED BY <1>1, <1>3, FS_NatBijection, FS_CountingElements

(* A task that moves leaves one place and is in another. *)
LEMMA AtGoto ==
  ASSUME place \in [Tasks -> Places], NEW t \in Tasks, NEW where, Goto(t, where)
  PROVE  \A w : At(w)' = IF w = where THEN At(w) \cup {t} ELSE At(w) \ {t}
  BY DEF At, Goto

(* The gates, with the type of what they are made of. *)
GateInv ==
    /\ place \in [Tasks -> Places]
    /\ \A o \in Others : place[o] \in {"idle", "globalWait", "sending"}
    /\ gated \in BOOLEAN
    /\ ~gated => At("hostWait") = {}
    /\ QueueOf(hostQueue, At("hostWait"))
    /\ QueueOf(globalQueue, At("globalWait"))
    /\ globalHeld = At("sending")
    /\ IsFiniteSet(globalHeld)
    /\ hostHeld = IF gated THEN (At("globalWait") \cup At("sending")) \cap Calls ELSE {}

(* How far the gauge runs ahead of the attempts that are out. *)
Sending == At("sending") \cap Calls
GaugeInv ==
    /\ inflight_gauge \in Int
    /\ cancels \in 0 .. MaxCancels
    /\ inflight_gauge - Cardinality(Sending) \in 0 .. cancels

LEMMA InitGates == Init => GateInv /\ GaugeInv
  <1> SUFFICES ASSUME Init PROVE GateInv /\ GaugeInv
    OBVIOUS
  <1>1. At("hostWait") = {} /\ At("globalWait") = {} /\ At("sending") = {} /\ Sending = {}
    BY DEF Init, At, Sending
  <1>2. QueueOf(<<>>, {})
    BY DEF QueueOf, InQueue
  <1>3. place \in [Tasks -> Places] /\ \A o \in Others : place[o] = "idle"
    BY DEF Init, Places, Tasks
  <1>4. IsFiniteSet({}) /\ Cardinality({}) = 0
    BY FS_EmptySet
  <1>5. GateInv
    BY <1>1, <1>2, <1>3, <1>4 DEF Init, GateInv
  <1>6. QED BY <1>1, <1>4, <1>5, FetcherAssumption DEF Init, GaugeInv, FetcherAssumption

(* A call that moves where it neither waits for a permit nor holds one. *)
Apart == {"idle", "locking", "backoff", "reporting"}

LEMMA MoveApart ==
  ASSUME GateInv, GaugeInv, NEW c \in Calls, NEW where \in Apart, Goto(c, where),
         place[c] \in Apart, UNCHANGED <<gates, inflight_gauge, cancels>>
  PROVE  GateInv' /\ GaugeInv'
  <1>1. \A w \in {"hostWait", "globalWait", "sending"} : At(w)' = At(w)
    <2>1. \A w : At(w)' = IF w = where THEN At(w) \cup {c} ELSE At(w) \ {c}
      BY AtGoto DEF GateInv, Tasks
    <2>2. \A w \in {"hostWait", "globalWait", "sending"} : c \notin At(w) /\ w # where
      BY DEF At, Apart
    <2>3. QED BY <2>1, <2>2
  <1>2. place' \in [Tasks -> Places] /\ \A o \in Others : place'[o] = place[o]
    BY FetcherAssumption DEF FetcherAssumption, GateInv, Goto, Apart, Places, Tasks
  <1>3. GateInv'
    BY <1>1, <1>2 DEF GateInv, gates
  <1>4. QED BY <1>1, <1>3 DEF GaugeInv, Sending

LEMMA QueueUpGates ==
  ASSUME GateInv, GaugeInv, NEW c \in Calls, NEW n, QueueUp(c, n), place[c] \in Apart
  PROVE  GateInv' /\ GaugeInv'
  <1> DEFINE where == IF gated THEN "hostWait" ELSE "globalWait"
  <1>1. Goto(c, where) /\ UNCHANGED <<gated, hostHeld, globalHeld, inflight_gauge, cancels>>
    BY DEF QueueUp
  <1>2. \A w : At(w)' = IF w = where THEN At(w) \cup {c} ELSE At(w) \ {c}
    BY <1>1, AtGoto DEF GateInv, Tasks
  <1>3. \A w \in {"hostWait", "globalWait", "sending"} : c \notin At(w)
    BY DEF At, Apart
  <1>4. place' \in [Tasks -> Places] /\ \A o \in Others : place'[o] = place[o]
    BY <1>1, FetcherAssumption DEF FetcherAssumption, GateInv, Goto, Places, Tasks
  <1>5. At("sending")' = At("sending")
    BY <1>2, <1>3
  <1>6. QueueOf(hostQueue, At("hostWait"))' /\ QueueOf(globalQueue, At("globalWait"))'
    <2>1. CASE gated
      <3>1. hostQueue' = Append(hostQueue, c) /\ globalQueue' = globalQueue
        BY <2>1 DEF QueueUp
      <3>2. At("hostWait")' = At("hostWait") \cup {c} /\ At("globalWait")' = At("globalWait")
        BY <1>2, <1>3, <2>1
      <3>3. QED BY <1>3, <3>1, <3>2, QueueAppend DEF GateInv
    <2>2. CASE ~gated
      <3>1. globalQueue' = Append(globalQueue, c) /\ hostQueue' = hostQueue
        BY <2>2 DEF QueueUp
      <3>2. At("globalWait")' = At("globalWait") \cup {c} /\ At("hostWait")' = At("hostWait")
        BY <1>2, <1>3, <2>2
      <3>3. QED BY <1>3, <3>1, <3>2, QueueAppend DEF GateInv
    <2>3. QED BY <2>1, <2>2
  <1>7. ~gated => At("hostWait")' = {}
    BY <1>2, <1>3 DEF GateInv
  <1>8. hostHeld' = IF gated THEN (At("globalWait")' \cup At("sending")') \cap Calls ELSE {}
    BY <1>1, <1>2, <1>3 DEF GateInv
  <1>9. GateInv'
    BY <1>1, <1>4, <1>5, <1>6, <1>7, <1>8 DEF GateInv
  <1>10. QED BY <1>1, <1>5, <1>9 DEF GaugeInv, Sending

LEMMA AcquireHostGates ==
  ASSUME GateInv, GaugeInv, NEW c \in Calls, AcquireHost(c)
  PROVE  GateInv' /\ GaugeInv'
  <1>1. Goto(c, "globalWait") /\ UNCHANGED <<gated, globalHeld, inflight_gauge, cancels>>
    BY DEF AcquireHost
  <1>2. \A w : At(w)' = IF w = "globalWait" THEN At(w) \cup {c} ELSE At(w) \ {c}
    BY <1>1, AtGoto DEF GateInv, Tasks
  <1>3. c \in At("hostWait") /\ c \notin At("globalWait") /\ c \notin At("sending")
    BY DEF AcquireHost, At, Tasks
  <1>4. place' \in [Tasks -> Places] /\ \A o \in Others : place'[o] = place[o]
    BY <1>1, FetcherAssumption DEF FetcherAssumption, GateInv, Goto, Places, Tasks
  <1>5. At("sending")' = At("sending")
    BY <1>2, <1>3
  <1>6. QueueOf(hostQueue, At("hostWait"))'
    <2>1. hostQueue # <<>> /\ Head(hostQueue) = c /\ hostQueue' = Tail(hostQueue)
      BY DEF AcquireHost
    <2>2. At("hostWait")' = At("hostWait") \ {c}
      BY <1>2
    <2>3. QED BY <2>1, <2>2, QueueTail DEF GateInv
  <1>7. QueueOf(globalQueue, At("globalWait"))'
    <2>1. globalQueue' = Append(globalQueue, c)
      BY DEF AcquireHost
    <2>2. QED BY <1>2, <1>3, <2>1, QueueAppend DEF GateInv
  <1>8. hostHeld' = IF gated THEN (At("globalWait")' \cup At("sending")') \cap Calls ELSE {}
    <2>1. gated /\ hostHeld' = hostHeld \cup {c}
      BY <1>3 DEF GateInv, AcquireHost
    <2>2. QED BY <1>2, <1>5, <2>1 DEF GateInv
  <1>9. GateInv'
    BY <1>1, <1>2, <1>4, <1>5, <1>6, <1>7, <1>8 DEF GateInv
  <1>10. QED BY <1>1, <1>5, <1>9 DEF GaugeInv, Sending

(* The head of the global queue is granted a permit, whosever it is. *)
LEMMA GrantGlobal ==
  ASSUME GateInv, NEW t \in Tasks, Goto(t, "sending"),
         place[t] = "globalWait", globalQueue # <<>>, Head(globalQueue) = t,
         globalQueue' = Tail(globalQueue), globalHeld' = globalHeld \cup {t},
         UNCHANGED <<gated, hostQueue, hostHeld>>
  PROVE  GateInv'
  <1>1. \A w : At(w)' = IF w = "sending" THEN At(w) \cup {t} ELSE At(w) \ {t}
    BY AtGoto DEF GateInv
  <1>2. t \in At("globalWait") /\ t \notin At("hostWait")
    BY DEF At
  <1>3. place' \in [Tasks -> Places] /\ \A o \in Others : place'[o] \in {"idle", "globalWait", "sending"}
    BY DEF GateInv, Goto, Places, Tasks
  <1>4. QueueOf(globalQueue, At("globalWait"))'
    <2>1. At("globalWait")' = At("globalWait") \ {t}
      BY <1>1
    <2>2. QED BY <2>1, QueueTail DEF GateInv
  <1>5. At("hostWait")' = At("hostWait")
    BY <1>1, <1>2
  <1>6. IsFiniteSet(globalHeld')
    BY FS_AddElement DEF GateInv
  <1>7. hostHeld' = IF gated THEN (At("globalWait")' \cup At("sending")') \cap Calls ELSE {}
    BY <1>1, <1>2 DEF GateInv
  <1>8. globalHeld' = At("sending")'
    BY <1>1 DEF GateInv
  <1>9. QED BY <1>3, <1>4, <1>5, <1>6, <1>7, <1>8 DEF GateInv

(* A task gives back what it holds and leaves the queues, if it is in any. *)
LEMMA GiveBack ==
  ASSUME GateInv, NEW t \in Tasks, NEW where \in Apart, Goto(t, where),
         t \in Others => where = "idle",
         QueueOf(hostQueue', At("hostWait") \ {t}),
         QueueOf(globalQueue', At("globalWait") \ {t}),
         hostHeld' = hostHeld \ {t}, globalHeld' = globalHeld \ {t}, UNCHANGED gated
  PROVE  GateInv'
  <1>1. \A w \in {"hostWait", "globalWait", "sending"} : At(w)' = At(w) \ {t}
    <2>1. \A w : At(w)' = IF w = where THEN At(w) \cup {t} ELSE At(w) \ {t}
      BY AtGoto DEF GateInv
    <2>2. QED BY <2>1 DEF Apart
  <1>2. place' \in [Tasks -> Places] /\ \A o \in Others : place'[o] \in {"idle", "globalWait", "sending"}
    BY DEF GateInv, Goto, Apart, Places, Tasks
  <1>3. IsFiniteSet(globalHeld')
    BY FS_Subset DEF GateInv
  <1>4. hostHeld' = IF gated THEN (At("globalWait")' \cup At("sending")') \cap Calls ELSE {}
    BY <1>1 DEF GateInv
  <1>5. QED BY <1>1, <1>2, <1>3, <1>4 DEF GateInv

LEMMA SendingFinite == GateInv => IsFiniteSet(Sending) /\ Cardinality(Sending) \in Nat
  BY FS_Subset, FS_CardinalityType DEF GateInv, Sending

(* An attempt that ends returns its permits: it is in no queue. *)
LEMMA RespondGates ==
  ASSUME GateInv, GaugeInv, NEW c \in Calls, NEW where \in {"backoff", "reporting"},
         place[c] = "sending", Goto(c, where), ReleasePermits(c),
         inflight_gauge' = inflight_gauge - 1, UNCHANGED cancels
  PROVE  GateInv' /\ GaugeInv'
  <1>1. c \notin At("hostWait") /\ c \notin At("globalWait")
    BY DEF At
  <1>2. At("hostWait") \ {c} = At("hostWait") /\ At("globalWait") \ {c} = At("globalWait")
    BY <1>1
  <1>3. c \notin Others
    BY FetcherAssumption DEF FetcherAssumption
  <1>4. GateInv'
    BY <1>2, <1>3, GiveBack DEF ReleasePermits, Apart, Tasks, GateInv
  <1>5. Sending' = Sending \ {c} /\ c \in Sending
    BY <1>4 DEF GateInv, Sending, ReleasePermits, At, Tasks
  <1>6. Cardinality(Sending') = Cardinality(Sending) - 1
    BY <1>5, SendingFinite, FS_RemoveElement
  <1>7. QED BY <1>4, <1>6, SendingFinite DEF GaugeInv

LEMMA CancelGates ==
  ASSUME GateInv, GaugeInv, NEW c \in Calls, Cancel(c)
  PROVE  GateInv' /\ GaugeInv'
  <1>1. /\ QueueOf(hostQueue', At("hostWait") \ {c})
        /\ QueueOf(globalQueue', At("globalWait") \ {c})
    BY QueueRemove DEF GateInv, Cancel
  <1>2. c \notin Others
    BY FetcherAssumption DEF FetcherAssumption
  <1>3. GateInv'
    BY <1>1, <1>2, GiveBack DEF Cancel, Leave, Apart, Tasks
  <1>4. Sending' = Sending \ {c}
    BY <1>3 DEF GateInv, Sending, Cancel
  <1>5. Cardinality(Sending') \in Nat
          /\ Cardinality(Sending') \in Cardinality(Sending) - 1 .. Cardinality(Sending)
    <2>1. CASE c \in Sending
      <3>1. IsFiniteSet(Sending \ {c}) /\ Cardinality(Sending \ {c}) = Cardinality(Sending) - 1
        BY <1>4, <2>1, SendingFinite, FS_RemoveElement
      <3>2. Cardinality(Sending \ {c}) \in Nat
        BY <3>1, FS_CardinalityType
      <3>3. QED BY <1>4, <3>1, <3>2, SendingFinite
    <2>2. CASE c \notin Sending
      <3>1. Sending' = Sending
        BY <1>4, <2>2
      <3>2. QED BY <3>1, SendingFinite
    <2>3. QED BY <2>1, <2>2
  <1>6. inflight_gauge' = inflight_gauge /\ cancels' = cancels + 1 /\ cancels < MaxCancels
    BY DEF Cancel
  <1>7. QED BY <1>3, <1>5, <1>6, SendingFinite, FetcherAssumption
              DEF GaugeInv, FetcherAssumption

LEMMA OtherGates ==
  ASSUME GateInv, GaugeInv, NEW o \in Others, OtherStep(o)
  PROVE  GateInv' /\ GaugeInv'
  <1>0. o \in Tasks /\ o \notin Calls /\ gated' = gated
    BY FetcherAssumption DEF FetcherAssumption, Tasks, OtherStep
  <1>1. GateInv'
    <2>1. CASE OtherQueues(o)
      <3>1. \A w : At(w)' = IF w = "globalWait" THEN At(w) \cup {o} ELSE At(w) \ {o}
        BY <1>0, <2>1, AtGoto DEF GateInv, OtherQueues
      <3>2. o \notin At("globalWait") /\ o \notin At("hostWait") /\ o \notin At("sending")
        BY <2>1 DEF At, OtherQueues
      <3>3. QueueOf(globalQueue, At("globalWait"))'
        BY <2>1, <3>1, <3>2, QueueAppend DEF GateInv, OtherQueues
      <3>4. At("hostWait")' = At("hostWait") /\ At("sending")' = At("sending")
        BY <3>1, <3>2
      <3>5. place' \in [Tasks -> Places] /\ \A p \in Others : place'[p] \in {"idle", "globalWait", "sending"}
        BY <1>0, <2>1 DEF GateInv, OtherQueues, Goto, Places, Tasks
      <3>6. hostHeld' = IF gated THEN (At("globalWait")' \cup At("sending")') \cap Calls ELSE {}
        BY <1>0, <2>1, <3>1, <3>4 DEF GateInv, OtherQueues
      <3>7. UNCHANGED <<hostQueue, globalHeld>>
        BY <2>1 DEF OtherQueues
      <3>8. QED BY <1>0, <3>3, <3>4, <3>5, <3>6, <3>7 DEF GateInv
    <2>2. CASE OtherAcquires(o)
      BY <1>0, <2>2, GrantGlobal DEF OtherAcquires
    <2>3. CASE OtherEnds(o)
      <3>1. o \notin At("hostWait") /\ o \notin At("globalWait")
        BY <2>3 DEF At, OtherEnds
      <3>2. At("hostWait") \ {o} = At("hostWait") /\ At("globalWait") \ {o} = At("globalWait")
        BY <3>1
      <3>3. hostHeld' = hostHeld \ {o}
        BY <1>0, <2>3 DEF GateInv, OtherEnds
      <3>4. QED BY <1>0, <2>3, <3>2, <3>3, GiveBack DEF GateInv, OtherEnds, Apart
    <2>4. QED BY <2>1, <2>2, <2>3 DEF OtherStep
  <1>2. Sending' = Sending
    BY <1>0 DEF Sending, At, OtherStep, OtherQueues, OtherAcquires, OtherEnds, Goto, GateInv, Tasks
  <1>3. QED BY <1>1, <1>2 DEF GaugeInv, OtherStep

LEMMA NextGates == GateInv /\ GaugeInv /\ [Next]_vars => GateInv' /\ GaugeInv'
  <1> SUFFICES ASSUME GateInv, GaugeInv, [Next]_vars PROVE GateInv' /\ GaugeInv'
    OBVIOUS
  <1>1. ASSUME NEW c \in Calls, Start(c) PROVE GateInv' /\ GaugeInv'
    <2>1. CASE state = CB!CLOSED
      BY <1>1, <2>1, QueueUpGates DEF Start, BeginLoop, Apart
    <2>2. CASE state # CB!CLOSED
      BY <1>1, <2>2, MoveApart DEF Start, Apart
    <2>3. QED BY <2>1, <2>2
  <1>2. ASSUME NEW c \in Calls, BeforeCall(c) PROVE GateInv' /\ GaugeInv'
    <2>1. CASE LockedAdmit(c)
      BY <2>1, QueueUpGates DEF LockedAdmit, BeginLoop, Apart
    <2>2. CASE LockedRefuse(c)
      BY <2>2, MoveApart DEF LockedRefuse, Leave, Apart
    <2>3. QED BY <1>2, <2>1, <2>2 DEF BeforeCall
  <1>3. ASSUME NEW c \in Calls, AcquireHost(c) PROVE GateInv' /\ GaugeInv'
    BY <1>3, AcquireHostGates
  <1>4. ASSUME NEW c \in Calls, AcquireGlobal(c) PROVE GateInv' /\ GaugeInv'
    <2>1. GateInv'
      BY <1>4, GrantGlobal DEF AcquireGlobal, Tasks
    <2>2. Sending' = Sending \cup {c} /\ c \notin Sending
      BY <1>4, <2>1 DEF AcquireGlobal, GateInv, Sending, At
    <2>3. Cardinality(Sending') = Cardinality(Sending) + 1
      BY <2>2, SendingFinite, FS_AddElement
    <2>4. QED BY <1>4, <2>1, <2>3, SendingFinite DEF GaugeInv, AcquireGlobal
  <1>5. ASSUME NEW c \in Calls, Respond(c) PROVE GateInv' /\ GaugeInv'
    BY <1>5, RespondGates DEF Respond, AttemptSucceeds, AttemptFails, Return, Sleep
  <1>6. ASSUME NEW c \in Calls, BackoffEnds(c) PROVE GateInv' /\ GaugeInv'
    BY <1>6, QueueUpGates DEF BackoffEnds, Apart
  <1>7. ASSUME NEW c \in Calls, Report(c) PROVE GateInv' /\ GaugeInv'
    BY <1>7, MoveApart DEF Report, Leave, Apart
  <1>8. ASSUME NEW c \in Calls, Cancel(c) PROVE GateInv' /\ GaugeInv'
    BY <1>8, CancelGates
  <1>9. ASSUME NEW o \in Others, OtherStep(o) PROVE GateInv' /\ GaugeInv'
    BY <1>9, OtherGates
  <1>10. ASSUME UNCHANGED <<place, gates, inflight_gauge, cancels>> PROVE GateInv' /\ GaugeInv'
    <2>1. \A w : At(w)' = At(w)
      BY <1>10 DEF At
    <2>2. QED BY <1>10, <2>1 DEF GateInv, GaugeInv, Sending, gates
  <1>11. QED
    BY <1>1, <1>2, <1>3, <1>4, <1>5, <1>6, <1>7, <1>8, <1>9, <1>10
       DEF Next, CallStep, Clock, loop, vars

(* Permits, queue places and the gauge follow where the calls stand, through *)
(* queues that lose waiters from their middle, for any limits and any number *)
(* of calls, of other attempts and of dropped futures.                       *)
THEOREM PermitsFollow == Spec => []PermitsMatchPlace
  <1>1. GateInv /\ GaugeInv => PermitsMatchPlace
    BY QueueLength DEF GateInv, GaugeInv, QueueOf, Sending, PermitsMatchPlace
  <1>2. QED BY <1>1, InitGates, NextGates, PTL DEF Spec

(* The gauge and every counter stay in their ranges.                         *)
THEOREM TypeCorrect == Spec => []TypeOK
  <1>1. IInv /\ GateInv /\ GaugeInv => TypeOK
    <2> SUFFICES ASSUME IInv, GateInv, GaugeInv PROVE TypeOK
      OBVIOUS
    <2>1. retried \in [Calls -> [Outcomes -> 0 .. MaxAttempts]]
      BY FetcherAssumption DEF IInv, LocalsOf, CallInv, FetcherAssumption
    <2>2. hostQueue \in Seq(Calls)
      <3>1. At("hostWait") \subseteq Calls
        BY DEF GateInv, At, Tasks
      <3>2. QED BY <3>1 DEF GateInv, QueueOf
    <2>3. globalQueue \in Seq(Tasks) /\ globalHeld \subseteq Tasks /\ hostHeld \subseteq Calls
      BY DEF GateInv, QueueOf, At
    <2>4. inflight_gauge \in Nat
      BY SendingFinite, FetcherAssumption DEF GaugeInv, FetcherAssumption
    <2>5. QED BY <2>1, <2>2, <2>3, <2>4 DEF IInv, GateInv, GaugeInv, TypeOK
  <1>2. QED BY <1>1, InitIInv, NextIInv, InitGates, NextGates, PTL DEF Spec
=============================================================================
