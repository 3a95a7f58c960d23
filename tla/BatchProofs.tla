------------------------------ MODULE BatchProofs ------------------------------
(***************************************************************************)
(* Proofs about the batch executor, for every number of queries,           *)
(* concurrency and channel capacity, in either mode.                       *)
(*                                                                         *)
(* The invariant says what the pool may hold at each point of the          *)
(* producer's loop: a result in the producer's hand still has its place in *)
(* the pool reserved, and a pool in input order is the interval between    *)
(* what has left it and what has been dispatched.                          *)
(*                                                                         *)
(* Then the callers that count: the checks of domain_available_batch and   *)
(* the batch command, which runs this batch (LaunchIsBatch) and so keeps   *)
(* its invariant beside one of its own.                                    *)
(***************************************************************************)
EXTENDS CommandLine, Availability, FiniteSetTheorems, SequenceTheorems, TLAPS

Held == IF hand = None THEN 0 ELSE 1

PoolSound ==
    /\ running \cap finished = {}
    /\ Pool \subseteq 1 .. dispatched
    /\ Cardinality(Pool) + Held <= Concurrency
    /\ Len(channel) <= Buffer

LateSound ==
    /\ consumer # "gone" => late = 0
    /\ producer \in {"starting", "filling"} => late = 0
    /\ late <= Concurrency

Left == Len(received) + Len(channel) + Held

OrderSound ==
    ordered /\ consumer # "gone" =>
        /\ \A i \in 1 .. Len(received) : received[i] = i
        /\ \A i \in 1 .. Len(channel) : channel[i] = Len(received) + i
        /\ hand # None => hand = Left
        /\ Left <= dispatched
        /\ Pool = Left + 1 .. dispatched

IInv == TypeOK /\ PoolSound /\ LateSound /\ OrderSound

-----------------------------------------------------------------------------
(* The pool is finite, and its size is that of its two parts. *)
LEMMA PoolSize ==
  ASSUME TypeOK
  PROVE  /\ IsFiniteSet(running) /\ IsFiniteSet(finished) /\ IsFiniteSet(Pool)
         /\ Cardinality(running) \in Nat /\ Cardinality(finished) \in Nat
         /\ Cardinality(Pool) \in Nat
         /\ running \cap finished = {} =>
                Cardinality(Pool) = Cardinality(running) + Cardinality(finished)
  <1>1. IsFiniteSet(BatchQueries)
    BY BatchAssumption, FS_Interval DEF BatchQueries
  <1>2. IsFiniteSet(running) /\ IsFiniteSet(finished)
    BY <1>1, FS_Subset DEF TypeOK
  <1>3. /\ IsFiniteSet(Pool)
        /\ Cardinality(Pool) = Cardinality(running) + Cardinality(finished)
                                 - Cardinality(running \cap finished)
    BY <1>2, FS_Union DEF Pool
  <1>4. /\ Cardinality(running) \in Nat /\ Cardinality(finished) \in Nat
        /\ Cardinality(Pool) \in Nat
    BY <1>2, <1>3, FS_CardinalityType
  <1>5. running \cap finished = {} =>
            Cardinality(Pool) = Cardinality(running) + Cardinality(finished)
    <2> SUFFICES ASSUME running \cap finished = {}
                 PROVE  Cardinality(Pool) = Cardinality(running) + Cardinality(finished)
      OBVIOUS
    <2>1. Cardinality(running \cap finished) = 0
      BY FS_EmptySet
    <2>2. QED BY <1>3, <1>4, <2>1
  <1>6. QED BY <1>2, <1>3, <1>4, <1>5

LEMMA Lengths ==
  ASSUME TypeOK
  PROVE  Len(received) \in Nat /\ Len(channel) \in Nat /\ Held \in {0, 1} /\ Left \in Nat
  <1>1. Len(received) \in Nat /\ Len(channel) \in Nat
    BY LenProperties DEF TypeOK
  <1>2. QED BY <1>1 DEF Held, Left

LEMMA ElementsOfBoth ==
  ASSUME NEW S, NEW s \in Seq(S), NEW t \in Seq(S)
  PROVE  /\ s \o t \in Seq(S)
         /\ Len(s \o t) = Len(s) + Len(t)
         /\ Elements(s \o t) = Elements(s) \cup Elements(t)
  <1>1. /\ s \o t \in Seq(S)
        /\ Len(s \o t) = Len(s) + Len(t)
        /\ Len(s) \in Nat /\ Len(t) \in Nat
        /\ \A i \in 1 .. Len(s) + Len(t) :
               (s \o t)[i] = IF i <= Len(s) THEN s[i] ELSE t[i - Len(s)]
    BY ConcatProperties, LenProperties
  <1>2. Elements(s \o t) \subseteq Elements(s) \cup Elements(t)
    <2> SUFFICES ASSUME NEW i \in 1 .. Len(s) + Len(t)
                 PROVE  (s \o t)[i] \in Elements(s) \cup Elements(t)
      BY <1>1 DEF Elements
    <2>1. CASE i <= Len(s)
      <3>1. i \in 1 .. Len(s) BY <1>1, <2>1
      <3>2. QED BY <1>1, <2>1, <3>1 DEF Elements
    <2>2. CASE ~(i <= Len(s))
      <3>1. i - Len(s) \in 1 .. Len(t) BY <1>1, <2>2
      <3>2. QED BY <1>1, <2>2, <3>1 DEF Elements
    <2>3. QED BY <2>1, <2>2
  <1>3. ASSUME NEW i \in 1 .. Len(s) PROVE s[i] \in Elements(s \o t)
    <2>1. i \in 1 .. Len(s) + Len(t) /\ i <= Len(s)
      BY <1>1
    <2>2. QED BY <1>1, <2>1 DEF Elements
  <1>4. ASSUME NEW i \in 1 .. Len(t) PROVE t[i] \in Elements(s \o t)
    <2>1. /\ Len(s) + i \in 1 .. Len(s) + Len(t) /\ ~(Len(s) + i <= Len(s))
          /\ (Len(s) + i) - Len(s) = i
      BY <1>1
    <2>2. (s \o t)[Len(s) + i] = t[i]
      BY <1>1, <2>1
    <2>3. QED BY <1>1, <2>1, <2>2 DEF Elements
  <1>5. QED BY <1>1, <1>2, <1>3, <1>4 DEF Elements

LEMMA InitIInv == Init => IInv
  <1> SUFFICES ASSUME Init PROVE IInv
    OBVIOUS
  <1> USE BatchAssumption DEF Init
  <1>1. TypeOK
    BY EmptySeq DEF TypeOK, None, BatchQueries
  <1>2. Pool = {} /\ Cardinality(Pool) = 0
    BY FS_EmptySet DEF Pool
  <1>3. Len(channel) = 0 /\ Len(received) = 0
    OBVIOUS
  <1>4. PoolSound
    BY <1>2, <1>3 DEF PoolSound, Held
  <1>5. LateSound
    BY DEF LateSound
  <1>6. OrderSound
    BY <1>2, <1>3 DEF OrderSound, Held, Left
  <1>7. QED BY <1>1, <1>4, <1>5, <1>6 DEF IInv

Taken == dispatched + 1 .. LastTaken

LEMMA PoolFilled ==
  ASSUME IInv, Fill
  PROVE  /\ Room \in Nat /\ Room <= Concurrency
         /\ LastTaken \in dispatched .. Total /\ LastTaken - dispatched <= Room
         /\ IsFiniteSet(Taken) /\ Cardinality(Taken) = LastTaken - dispatched
         /\ Pool' = Pool \cup Taken /\ Pool \cap Taken = {} /\ running \cap Taken = {}
         /\ Cardinality(Pool') = Cardinality(Pool) + Cardinality(Taken)
  <1>1. Room \in Nat /\ Room <= Concurrency
    BY PoolSize, BatchAssumption DEF IInv, PoolSound, Room, Held
  <1>2. /\ LastTaken \in dispatched .. Total
        /\ LastTaken - dispatched <= Room
    BY <1>1, BatchAssumption DEF IInv, TypeOK, LastTaken
  <1>3. dispatched \in Int /\ LastTaken \in Int /\ LastTaken >= dispatched
    BY <1>2, BatchAssumption DEF IInv, TypeOK
  <1>4. IsFiniteSet(Taken) /\ Cardinality(Taken) = LastTaken - dispatched
    <2> DEFINE first == dispatched + 1
    <2>1. first \in Int /\ ~(first > LastTaken + 1)
      BY <1>3
    <2>2. /\ IsFiniteSet(first .. LastTaken)
          /\ Cardinality(first .. LastTaken)
                = IF first > LastTaken THEN 0 ELSE LastTaken - first + 1
      BY <1>3, <2>1, FS_Interval
    <2>3. QED BY <1>3, <2>2 DEF Taken
  <1>5. Pool' = Pool \cup Taken /\ Pool \cap Taken = {} /\ running \cap Taken = {}
    BY <1>3 DEF IInv, Fill, PoolSound, Pool, Taken
  <1>6. Cardinality(Pool') = Cardinality(Pool) + Cardinality(Taken)
    <2>1. Cardinality(Pool \cap Taken) = 0
      BY <1>5, FS_EmptySet
    <2>2. Cardinality(Pool \cup Taken)
            = Cardinality(Pool) + Cardinality(Taken) - Cardinality(Pool \cap Taken)
      BY <1>4, PoolSize, FS_Union DEF IInv
    <2>3. Cardinality(Pool) \in Nat /\ Cardinality(Taken) \in Nat
      BY <1>4, PoolSize, FS_CardinalityType DEF IInv
    <2>4. QED BY <1>5, <2>1, <2>2, <2>3
  <1>7. QED BY <1>1, <1>2, <1>4, <1>5, <1>6

LEMMA FillStep == ASSUME IInv, Fill PROVE IInv'
  <1> USE BatchAssumption DEF IInv, Fill, counts, Taken
  <1>1. Room \in Nat /\ Room <= Concurrency
    BY PoolFilled
  <1>2. /\ LastTaken \in dispatched .. Total
        /\ LastTaken - dispatched <= Room
    BY PoolFilled
  <1>3. IsFiniteSet(Taken) /\ Cardinality(Taken) = LastTaken - dispatched
    BY PoolFilled
  <1>4. hand = None /\ hand' = None
    BY DEF TypeOK
  <1>5. Pool' = Pool \cup Taken /\ Pool \cap Taken = {} /\ running \cap Taken = {}
    BY PoolFilled
  <1>6. Cardinality(Pool') = Cardinality(Pool) + Cardinality(Taken)
    BY PoolFilled
  <1>7. TypeOK'
    <2>1. running' \subseteq BatchQueries /\ polled' \subseteq running'
      BY <1>2 DEF TypeOK, BatchQueries
    <2>2. dispatched' \in 0 .. Total
      BY <1>2 DEF TypeOK
    <2>3. late' \in Nat
      BY <1>2, <1>3 DEF TypeOK
    <2>4. producer' \in {"polling", "done"}
      BY DEF Filled
    <2>5. QED BY <1>4, <2>1, <2>2, <2>3, <2>4 DEF TypeOK
  <1>8. PoolSound'
    <2>1. running' \cap finished' = {}
      BY <1>5 DEF PoolSound, Pool
    <2>2. Pool' \subseteq 1 .. dispatched'
      BY <1>2, <1>5 DEF PoolSound, TypeOK
    <2>3. Cardinality(Pool') + Held' <= Concurrency
      BY <1>2, <1>3, <1>4, <1>6, PoolSize DEF Room, Held, TypeOK
    <2>4. QED BY <2>1, <2>2, <2>3 DEF PoolSound
  <1>9. LateSound'
    <2>1. producer' \notin {"starting", "filling"}
      BY DEF Filled
    <2>2. late = 0
      BY DEF LateSound
    <2>3. QED BY <1>1, <1>2, <1>3, <2>1, <2>2 DEF LateSound, TypeOK
  <1>10. OrderSound'
    <2> SUFFICES ASSUME ordered, consumer # "gone"
                 PROVE  /\ Left' <= dispatched'
                        /\ Pool' = Left' + 1 .. dispatched'
      BY <1>4 DEF OrderSound
    <2>1. Left' = Left /\ Left \in Nat /\ Left <= dispatched
      BY Lengths DEF OrderSound, Left, Held
    <2>2. Pool = Left + 1 .. dispatched
      BY DEF OrderSound
    <2>3. QED BY <1>2, <1>5, <2>1, <2>2 DEF TypeOK
  <1>11. QED BY <1>7, <1>8, <1>9, <1>10

LEMMA YieldStep == ASSUME IInv, NEW q \in BatchQueries, Yield(q) PROVE IInv'
  <1> USE BatchAssumption DEF IInv, Yield
  <1>1. q \in finished /\ hand = None /\ q # None
    BY DEF TypeOK, Yieldable, BatchQueries, None
  <1>2. Held = 0 /\ Held' = 1
    BY <1>1 DEF Held
  <1>3. Pool' = Pool \ {q} /\ q \in Pool
    BY <1>1 DEF PoolSound, Pool
  <1>4. Cardinality(Pool') = Cardinality(Pool) - 1
    BY <1>3, PoolSize, FS_RemoveElement
  <1>5. TypeOK'
    BY <1>1 DEF TypeOK
  <1>6. PoolSound'
    BY <1>2, <1>3, <1>4, PoolSize DEF PoolSound
  <1>7. LateSound'
    BY DEF LateSound
  <1>8. OrderSound'
    <2> SUFFICES ASSUME ordered, consumer # "gone"
                 PROVE  /\ hand' = Left'
                        /\ Left' <= dispatched'
                        /\ Pool' = Left' + 1 .. dispatched'
      BY DEF OrderSound
    <2>1. Left \in Nat /\ Left' = Left + 1
      BY <1>2, Lengths DEF Left
    <2>2. Pool = Left + 1 .. dispatched /\ dispatched \in Nat
      BY DEF OrderSound, TypeOK
    <2>3. \A r \in Pool : q <= r
      BY DEF Yieldable
    <2>4. q = Left + 1
      BY <1>3, <2>1, <2>2, <2>3
    <2>5. QED BY <1>3, <2>1, <2>2, <2>4
  <1>9. QED BY <1>5, <1>6, <1>7, <1>8

LEMMA PollStep ==
  ASSUME IInv, NEW q \in BatchQueries, Poll(q) \/ Complete(q) PROVE IInv'
  <1> USE DEF IInv, Poll, Complete, Errors, counts
  <1>1. Pool' = Pool /\ Held' = Held
    BY DEF Pool, Held
  <1>2. TypeOK' BY DEF TypeOK
  <1>3. PoolSound' BY <1>1 DEF PoolSound
  <1>4. LateSound' BY DEF LateSound
  <1>5. OrderSound' BY <1>1 DEF OrderSound, Left
  <1>6. QED BY <1>2, <1>3, <1>4, <1>5

LEMMA SendStep == ASSUME IInv, Send PROVE IInv'
  <1> USE BatchAssumption DEF IInv, Send, counts
  <1>1. hand \in BatchQueries /\ hand # None /\ Held = 1 /\ Held' = 0
    BY DEF TypeOK, Held
  <1>2. /\ channel' \in Seq(BatchQueries)
        /\ Len(channel') = Len(channel) + 1
        /\ \A i \in 1 .. Len(channel) : channel'[i] = channel[i]
        /\ channel'[Len(channel) + 1] = hand
    BY <1>1, LenProperties DEF TypeOK
  <1>3. Pool' = Pool
    BY DEF Pool, pool
  <1>4. TypeOK' BY <1>2 DEF TypeOK, pool
  <1>5. PoolSound'
    BY <1>1, <1>2, <1>3, Lengths, PoolSize DEF PoolSound, pool
  <1>6. LateSound' BY DEF LateSound
  <1>7. OrderSound'
    <2> SUFFICES ASSUME ordered, consumer # "gone"
                 PROVE  /\ \A i \in 1 .. Len(channel') : channel'[i] = Len(received) + i
                        /\ Left' <= dispatched
                        /\ Pool = Left' + 1 .. dispatched
      BY <1>3 DEF OrderSound
    <2>1. Left' = Left /\ hand = Len(received) + Len(channel) + 1
      BY <1>1, <1>2, Lengths DEF Left, OrderSound
    <2>2. \A i \in 1 .. Len(channel) + 1 : channel'[i] = Len(received) + i
      <3> SUFFICES ASSUME NEW i \in 1 .. Len(channel) + 1
                   PROVE  channel'[i] = Len(received) + i
        OBVIOUS
      <3>1. CASE i \in 1 .. Len(channel)
        BY <1>2, <3>1 DEF OrderSound
      <3>2. CASE i = Len(channel) + 1
        BY <1>2, <2>1, <3>2, Lengths
      <3>3. QED BY <3>1, <3>2, Lengths
    <2>3. QED BY <1>2, <2>1, <2>2 DEF OrderSound
  <1>8. QED BY <1>4, <1>5, <1>6, <1>7

LEMMA SendFailsStep == ASSUME IInv, SendFails PROVE IInv'
  <1> USE BatchAssumption DEF IInv, SendFails, counts
  <1>1. Pool' = {} /\ Held' = 0 /\ Cardinality(Pool') = 0
    BY FS_EmptySet DEF Pool, Held
  <1>2. TypeOK' BY DEF TypeOK
  <1>3. PoolSound' BY <1>1 DEF PoolSound
  <1>4. LateSound' BY DEF LateSound
  <1>5. OrderSound' BY DEF OrderSound
  <1>6. QED BY <1>2, <1>3, <1>4, <1>5

LEMMA ReceiveStep ==
  ASSUME IInv, NEW q \in BatchQueries \cup {None}, Receive(q) PROVE IInv'
  <1> USE DEF IInv, Receive, counts
  <1>1. Pool' = Pool /\ Held' = Held
    BY DEF Pool, pool, Held
  <1>2. /\ received' \in Seq(BatchQueries)
        /\ Len(received') = Len(received) + 1
        /\ \A i \in 1 .. Len(received) : received'[i] = received[i]
        /\ received'[Len(received) + 1] = channel[1]
    BY HeadTailProperties, LenProperties DEF TypeOK
  <1>3. /\ channel' \in Seq(BatchQueries)
        /\ Len(channel') = Len(channel) - 1
        /\ \A i \in 1 .. Len(channel) - 1 : channel'[i] = channel[i + 1]
    BY HeadTailProperties, LenProperties DEF TypeOK
  <1>4. Len(channel) >= 1
    BY <1>3, LenProperties, EmptySeq DEF TypeOK
  <1>5. TypeOK' BY <1>2, <1>3 DEF TypeOK, pool
  <1>6. PoolSound' BY <1>1, <1>3, Lengths, BatchAssumption DEF PoolSound, pool
  <1>7. LateSound' BY DEF LateSound
  <1>8. OrderSound'
    <2> SUFFICES ASSUME ordered, consumer # "gone"
                 PROVE  /\ \A i \in 1 .. Len(received') : received'[i] = i
                        /\ \A i \in 1 .. Len(channel') : channel'[i] = Len(received') + i
                        /\ hand # None => hand = Left'
                        /\ Left' <= dispatched
                        /\ Pool = Left' + 1 .. dispatched
      BY <1>1 DEF OrderSound
    <2>1. Left' = Left
      BY <1>1, <1>2, <1>3, Lengths DEF Left
    <2>2. channel[1] = Len(received) + 1
      BY <1>4, Lengths DEF OrderSound
    <2>3. \A i \in 1 .. Len(received) + 1 : received'[i] = i
      BY <1>2, <2>2, Lengths DEF OrderSound
    <2>4. \A i \in 1 .. Len(channel) - 1 : channel[i + 1] = Len(received) + (i + 1)
      BY Lengths DEF OrderSound
    <2>5. \A i \in 1 .. Len(channel) - 1 : channel'[i] = Len(received) + 1 + i
      BY <1>3, <2>4, Lengths
    <2>6. QED BY <1>2, <1>3, <2>1, <2>3, <2>5 DEF OrderSound
  <1>9. QED BY <1>5, <1>6, <1>7, <1>8

(* The producer starts; the consumer comes back, sees the end, or goes. *)
LEMMA ConsumerStep ==
  ASSUME IInv, Start \/ Handled \/ EndOfStream \/ DropStream PROVE IInv'
  <1> USE BatchAssumption DEF IInv, Start, Handled, EndOfStream, DropStream, pool, counts
  <1>1. Pool' = Pool /\ Held' = Held /\ Len(channel') <= Len(channel) /\ Len(channel') \in Nat
    BY Lengths DEF Pool, Held
  <1>2. TypeOK'
    <2>1. CASE Start \/ Handled \/ EndOfStream BY <2>1 DEF TypeOK
    <2>2. CASE DropStream
      <3>1. channel' \in Seq(BatchQueries) BY <2>2, EmptySeq
      <3>2. QED BY <2>2, <3>1 DEF TypeOK
    <2>3. QED BY <2>1, <2>2
  <1>3. PoolSound' BY <1>1, Lengths DEF PoolSound
  <1>4. LateSound' BY DEF LateSound
  <1>5. OrderSound' BY <1>1 DEF OrderSound, Left
  <1>6. QED BY <1>2, <1>3, <1>4, <1>5

LEMMA NextIInv == IInv /\ [Next]_vars => IInv'
  <1> SUFFICES ASSUME IInv, [Next]_vars PROVE IInv'
    OBVIOUS
  <1>1. CASE Fill BY <1>1, FillStep
  <1>2. CASE PollPool BY <1>2, YieldStep, PollStep DEF PollPool
  <1>3. CASE Send BY <1>3, SendStep
  <1>4. CASE SendFails BY <1>4, SendFailsStep
  <1>5. CASE ReceiveNext BY <1>5, ReceiveStep DEF ReceiveNext
  <1>6. CASE Start \/ Handled \/ EndOfStream \/ DropStream BY <1>6, ConsumerStep
  <1>7. CASE UNCHANGED vars
    BY <1>7 DEF vars, pool, counts, IInv, TypeOK, PoolSound, LateSound, OrderSound, Pool, Held, Left
  <1>8. QED BY <1>1, <1>2, <1>3, <1>4, <1>5, <1>6, <1>7 DEF Next, Producer

LEMMA SpecIInv == Spec => []IInv
  BY InitIInv, NextIInv, PTL DEF Spec

-----------------------------------------------------------------------------
(* While the stream is there, nothing that was dispatched is lost or doubled,  *)
(* and the counts are those of what has completed and of what has left.        *)
Ended == (1 .. dispatched) \ running

CountSound ==
    consumer \in {"receiving", "handling", "ended"} =>
        /\ done = Left
        /\ Cardinality(Pool) + Left = dispatched
        /\ errors = Cardinality(Failing \cap Ended)
        /\ Pool \cup Elements(received) \cup Elements(channel) \cup Elements(InHand)
               = 1 .. dispatched
        /\ producer = "done" => Pool = {} /\ dispatched = Total
        /\ consumer = "ended" => producer = "done" /\ channel = <<>>

LEMMA InitCount == Init => CountSound
  <1> SUFFICES ASSUME Init PROVE CountSound
    OBVIOUS
  <1>1. Pool = {} /\ Cardinality(Pool) = 0 /\ Cardinality(Failing \cap Ended) = 0
    BY FS_EmptySet DEF Init, Pool, Ended
  <1>2. Left = 0 /\ Elements(received) = {} /\ Elements(channel) = {} /\ Elements(InHand) = {}
    BY DEF Init, Left, Held, Elements, InHand
  <1>3. QED BY <1>1, <1>2 DEF Init, CountSound

(* The pool grows and the set of ended queries does not. *)
LEMMA FillCount == ASSUME IInv, CountSound, Fill PROVE CountSound'
  <1> USE BatchAssumption DEF IInv, Fill, counts, Taken
  <1> SUFFICES ASSUME consumer # "gone" PROVE CountSound'
    BY DEF CountSound
  <1>1. /\ LastTaken \in dispatched .. Total
        /\ Pool' = Pool \cup Taken /\ running \cap Taken = {}
        /\ Cardinality(Pool') = Cardinality(Pool) + (LastTaken - dispatched)
    BY PoolFilled
  <1>6. Ended' = Ended /\ 1 .. dispatched' = (1 .. dispatched) \cup Taken
    BY <1>1 DEF Ended, TypeOK, PoolSound, Pool
  <1>7. Left' = Left /\ InHand' = InHand /\ Left \in Nat
    BY Lengths DEF Left, Held, InHand
  <1>8. producer' = "done" => Pool' = {} /\ dispatched' = Total
    <2> SUFFICES ASSUME producer' = "done" PROVE Pool' = {} /\ dispatched' = Total
      OBVIOUS
    <2>1. Pool = {} /\ Pool' = {} /\ Taken = {}
      BY <1>1 DEF Filled
    <2>2. Room = Concurrency
      BY <2>1, FS_EmptySet DEF Room
    <2>3. LastTaken = dispatched
      BY <1>1, <2>1 DEF TypeOK
    <2>4. QED BY <2>1, <2>2, <2>3 DEF LastTaken, TypeOK
  <1>9. done' = Left' /\ errors' = Cardinality(Failing \cap Ended')
    BY <1>6, <1>7 DEF CountSound, TypeOK
  <1>10. Cardinality(Pool') + Left' = dispatched'
    <2>1. Cardinality(Pool) + Left = dispatched
      BY DEF CountSound, TypeOK
    <2>2. Cardinality(Pool) \in Nat /\ dispatched \in Nat /\ LastTaken \in Nat
      BY <1>1, PoolSize DEF TypeOK
    <2>3. QED BY <1>1, <1>7, <2>1, <2>2
  <1>11. Pool' \cup Elements(received') \cup Elements(channel') \cup Elements(InHand')
           = 1 .. dispatched'
    BY <1>1, <1>6, <1>7 DEF CountSound, TypeOK
  <1>12. consumer' # "ended"
    BY DEF CountSound
  <1>13. QED BY <1>8, <1>9, <1>10, <1>11, <1>12 DEF CountSound

(* A result goes from the pool to the hand. *)
LEMMA YieldCount ==
  ASSUME IInv, CountSound, NEW q \in BatchQueries, Yield(q) PROVE CountSound'
  <1> USE DEF IInv, Yield
  <1> SUFFICES ASSUME consumer # "gone" PROVE CountSound'
    BY DEF CountSound
  <1>1. q \in finished /\ hand = None /\ q # None /\ hand' = q
    BY DEF TypeOK, Yieldable, BatchQueries, None
  <1>2. Pool' = Pool \ {q} /\ q \in Pool
    BY <1>1 DEF PoolSound, Pool
  <1>3. Cardinality(Pool') = Cardinality(Pool) - 1
    BY <1>2, PoolSize, FS_RemoveElement
  <1>4. Left' = Left + 1 /\ Left \in Nat
    BY <1>1, Lengths DEF Left, Held
  <1>5. Elements(InHand) = {} /\ Elements(InHand') = {q}
    BY <1>1 DEF Elements, InHand
  <1>6. Pool' \cup Elements(received') \cup Elements(channel') \cup Elements(InHand')
           = 1 .. dispatched'
    BY <1>2, <1>5 DEF CountSound, TypeOK
  <1>7. done' = Left' /\ Cardinality(Pool') + Left' = dispatched'
    BY <1>3, <1>4, PoolSize, SMTT(30) DEF CountSound, TypeOK
  <1>8. errors' = Cardinality(Failing \cap Ended') /\ consumer' # "ended"
    BY DEF CountSound, TypeOK, Ended
  <1>9. QED BY <1>6, <1>7, <1>8 DEF CountSound

(* An ended query is counted if it failed. *)
LEMMA CompleteCount ==
  ASSUME IInv, CountSound, NEW q \in BatchQueries, Poll(q) \/ Complete(q) PROVE CountSound'
  <1> USE BatchAssumption DEF IInv, Poll, Complete
  <1> SUFFICES ASSUME consumer # "gone" PROVE CountSound'
    BY DEF CountSound
  <1>1. Pool' = Pool /\ Left' = Left /\ InHand' = InHand
    BY DEF Pool, Left, Held, InHand, counts
  <1>2. errors' = Cardinality(Failing \cap Ended')
    <2>1. CASE Poll(q)
      BY <2>1 DEF CountSound, TypeOK, Ended, counts
    <2>2. CASE Complete(q)
      <3>1. q \in running /\ Ended' = Ended \cup {q} /\ q \notin Ended
        BY <2>2 DEF Ended, TypeOK, PoolSound, Pool, BatchQueries
      <3>2. IsFiniteSet(Failing \cap Ended)
        <4>1. IsFiniteSet(1 .. Total)
          BY FS_Interval
        <4>2. QED BY <4>1, FS_Subset
      <3>3. CASE q \in Failing
        <4>1. Failing \cap Ended' = (Failing \cap Ended) \cup {q}
          BY <3>1, <3>3
        <4>2. Cardinality(Failing \cap Ended') = Cardinality(Failing \cap Ended) + 1
          BY <3>1, <3>2, <4>1, FS_AddElement
        <4>3. QED BY <2>2, <3>3, <4>2 DEF CountSound, TypeOK, Errors
      <3>4. CASE q \notin Failing
        <4>1. Failing \cap Ended' = Failing \cap Ended
          BY <3>1, <3>4
        <4>2. QED BY <2>2, <3>4, <4>1 DEF CountSound, TypeOK, Errors
      <3>5. QED BY <3>3, <3>4
    <2>3. QED BY <2>1, <2>2
  <1>3. QED BY <1>1, <1>2 DEF CountSound, TypeOK, counts

(* A result goes from the hand to the channel. *)
LEMMA SendCount == ASSUME IInv, CountSound, Send PROVE CountSound'
  <1> USE DEF IInv, Send, counts, pool
  <1>1. hand \in BatchQueries /\ hand # None /\ Held = 1 /\ Held' = 0
    BY DEF TypeOK, Held
  <1>2. /\ Len(channel') = Len(channel) + 1
        /\ \A i \in 1 .. Len(channel) : channel'[i] = channel[i]
        /\ channel'[Len(channel) + 1] = hand
    BY <1>1, LenProperties DEF TypeOK
  <1>3. Pool' = Pool /\ Left' = Left
    BY <1>1, <1>2, Lengths DEF Pool, Left
  <1>4. Elements(channel') = Elements(channel) \cup {hand}
    BY <1>2, Lengths DEF Elements
  <1>5. Elements(InHand) = {hand} /\ Elements(InHand') = {}
    BY <1>1 DEF Elements, InHand
  <1>6. QED BY <1>3, <1>4, <1>5 DEF CountSound, TypeOK, Ended

(* A result goes from the channel to the consumer. *)
LEMMA ReceiveCount ==
  ASSUME IInv, CountSound, NEW q \in BatchQueries \cup {None}, Receive(q) PROVE CountSound'
  <1> USE DEF IInv, Receive, counts, pool
  <1>1. Pool' = Pool /\ Held' = Held /\ InHand' = InHand
    BY DEF Pool, Held, InHand
  <1>2. /\ Len(received') = Len(received) + 1
        /\ \A i \in 1 .. Len(received) : received'[i] = received[i]
        /\ received'[Len(received) + 1] = channel[1]
    BY HeadTailProperties, LenProperties DEF TypeOK
  <1>3. /\ Len(channel') = Len(channel) - 1
        /\ \A i \in 1 .. Len(channel) - 1 : channel'[i] = channel[i + 1]
        /\ Len(channel) >= 1
    BY HeadTailProperties, LenProperties, EmptySeq DEF TypeOK
  <1>4. Left' = Left
    BY <1>1, <1>2, <1>3, Lengths DEF Left
  <1>5. Elements(received') = Elements(received) \cup {channel[1]}
    BY <1>2, Lengths DEF Elements
  <1>6. Elements(channel) = Elements(channel') \cup {channel[1]}
    <2> DEFINE n == Len(channel)
    <2>1. n \in Nat /\ n >= 1 /\ Len(channel') = n - 1
      BY <1>3, Lengths
    <2>2. ASSUME NEW i \in 1 .. n PROVE channel[i] \in Elements(channel') \cup {channel[1]}
      <3>1. CASE i = 1 BY <3>1
      <3>2. CASE i # 1
        <4>1. i - 1 \in 1 .. n - 1 /\ (i - 1) + 1 = i
          BY <2>1, <3>2
        <4>2. channel'[i - 1] = channel[i]
          BY <1>3, <4>1
        <4>3. QED BY <2>1, <4>1, <4>2 DEF Elements
      <3>3. QED BY <3>1, <3>2
    <2>3. ASSUME NEW i \in 1 .. n - 1 PROVE channel'[i] \in Elements(channel)
      <3>1. i + 1 \in 1 .. n
        BY <2>1
      <3>2. QED BY <1>3, <3>1 DEF Elements
    <2>4. channel[1] \in Elements(channel)
      BY <2>1 DEF Elements
    <2>5. QED BY <2>1, <2>2, <2>3, <2>4 DEF Elements
  <1>7. QED BY <1>1, <1>4, <1>5, <1>6 DEF CountSound, TypeOK, Ended

LEMMA ConsumerCount ==
  ASSUME IInv, CountSound, Start \/ Handled \/ EndOfStream \/ DropStream
  PROVE  CountSound'
  <1> USE DEF IInv, Start, Handled, EndOfStream, pool, counts
  <1>1. CASE DropStream
    BY <1>1 DEF DropStream, CountSound
  <1>2. CASE Start \/ Handled \/ EndOfStream
    <2>1. Pool' = Pool /\ Left' = Left /\ InHand' = InHand /\ Ended' = Ended
      BY <1>2 DEF Pool, Left, Held, InHand, Ended
    <2>2. QED BY <1>2, <2>1 DEF CountSound, TypeOK
  <1>3. QED BY <1>1, <1>2

LEMMA NextCount == IInv /\ CountSound /\ [Next]_vars => CountSound'
  <1> SUFFICES ASSUME IInv, CountSound, [Next]_vars PROVE CountSound'
    OBVIOUS
  <1>1. CASE Fill BY <1>1, FillCount
  <1>2. CASE PollPool BY <1>2, YieldCount, CompleteCount DEF PollPool
  <1>3. CASE Send BY <1>3, SendCount
  <1>4. CASE SendFails BY <1>4 DEF SendFails, CountSound
  <1>5. CASE ReceiveNext BY <1>5, ReceiveCount DEF ReceiveNext
  <1>6. CASE Start \/ Handled \/ EndOfStream \/ DropStream BY <1>6, ConsumerCount
  <1>7. CASE UNCHANGED vars
    BY <1>7 DEF vars, pool, counts, CountSound, Pool, Held, Left, InHand, Ended
  <1>8. QED BY <1>1, <1>2, <1>3, <1>4, <1>5, <1>6, <1>7 DEF Next, Producer

LEMMA SpecCount == Spec => [](IInv /\ CountSound)
  BY InitIInv, NextIInv, InitCount, NextCount, PTL DEF Spec

(* What was dispatched is at one place, until the stream is dropped. *)
THEOREM NothingLost == Spec => []EachQueryOnce
  <1>1. IInv /\ CountSound => EachQueryOnce
    <2> SUFFICES ASSUME IInv, CountSound, consumer # "gone"
                 PROVE  /\ Pool \cup Elements(Output) = 1 .. dispatched
                        /\ Cardinality(running) + Cardinality(finished) + Len(Output)
                              = dispatched
      BY DEF EachQueryOnce
    <2>1. /\ received \in Seq(BatchQueries) /\ channel \in Seq(BatchQueries)
          /\ InHand \in Seq(BatchQueries) /\ Len(InHand) = Held
      BY DEF IInv, TypeOK, InHand, Held
    <2>2. /\ Elements(received \o channel) = Elements(received) \cup Elements(channel)
          /\ received \o channel \in Seq(BatchQueries)
          /\ Len(received \o channel) = Len(received) + Len(channel)
      BY <2>1, ElementsOfBoth
    <2>3. /\ Elements(Output) = Elements(received \o channel) \cup Elements(InHand)
          /\ Len(Output) = Len(received \o channel) + Held
      <3>1. Output = (received \o channel) \o InHand
        BY <2>1, ConcatAssociative DEF Output
      <3> DEFINE sent == received \o channel
      <3> HIDE DEF sent
      <3>2. sent \in Seq(BatchQueries) /\ InHand \in Seq(BatchQueries)
        BY <2>1, <2>2 DEF sent
      <3>3. /\ Elements(sent \o InHand) = Elements(sent) \cup Elements(InHand)
            /\ Len(sent \o InHand) = Len(sent) + Len(InHand)
        BY <3>2, ElementsOfBoth
      <3>4. QED BY <2>1, <3>1, <3>3 DEF sent
    <2>4. /\ Pool \cup Elements(received) \cup Elements(channel) \cup Elements(InHand)
                = 1 .. dispatched
          /\ Cardinality(Pool) + Left = dispatched
      BY DEF IInv, TypeOK, CountSound
    <2>5. Cardinality(Pool) = Cardinality(running) + Cardinality(finished)
      BY PoolSize DEF IInv, PoolSound
    <2>6. QED BY <2>2, <2>3, <2>4, <2>5, PoolSize, Lengths DEF IInv, Left
  <1>2. QED BY <1>1, SpecCount, PTL

(* What has been received and counted when the stream has ended. *)
LEMMA EndedComplete == IInv /\ CountSound => SummaryAgrees
  <1> SUFFICES ASSUME IInv, CountSound, consumer = "ended"
               PROVE  /\ Len(received) = Total /\ done = Total
                      /\ errors = Cardinality(Failing)
    BY DEF SummaryAgrees
  <1>1. /\ Pool = {} /\ dispatched = Total /\ channel = <<>> /\ hand = None
        /\ done = Left /\ Cardinality(Pool) + Left = dispatched
        /\ errors = Cardinality(Failing \cap Ended)
    BY DEF IInv, TypeOK, CountSound
  <1>2. Cardinality(Pool) = 0 /\ Left = Len(received)
    BY <1>1, FS_EmptySet, Lengths DEF Left, Held, IInv
  <1>3. Failing \cap Ended = Failing
    BY <1>1, BatchAssumption DEF Ended, Pool
  <1>4. Len(received) \in Nat /\ Total \in Nat
    BY Lengths, BatchAssumption DEF IInv
  <1>5. errors = Cardinality(Failing)
    BY <1>1, <1>3
  <1>6. Len(received) = Total
    BY <1>1, <1>2, <1>4
  <1>7. QED BY <1>1, <1>2, <1>5, <1>6

(* Who sees the end of the stream has every result, and the sink counted them. *)
THEOREM SummaryComplete == Spec => []SummaryAgrees
  BY EndedComplete, SpecCount, PTL

-----------------------------------------------------------------------------
(* Every variable keeps its type. *)
THEOREM TypeCorrect == Spec => []TypeOK
  BY SpecIInv, PTL DEF IInv

(* Pool, hand and channel together hold no more than the concurrency and the  *)
(* capacity of the channel, whatever the length of the input.                 *)
THEOREM BoundedMemory == Spec => []MemoryBounded
  <1>1. IInv => MemoryBounded
    <2> SUFFICES ASSUME IInv PROVE MemoryBounded
      OBVIOUS
    <2>1. Len(InHand) = Held
      BY DEF InHand, Held
    <2>2. QED
      BY <2>1, PoolSize, Lengths, BatchAssumption DEF IInv, PoolSound, MemoryBounded
  <1>2. QED BY <1>1, SpecIInv, PTL

(* Results leave in input order when that was asked for. *)
THEOREM OrderPreserved == Spec => []InputOrderKept
  <1>1. IInv => InputOrderKept
    <2> SUFFICES ASSUME IInv, ordered, consumer # "gone"
                 PROVE  \A i \in 1 .. Len(Output) : Output[i] = i
      BY DEF InputOrderKept
    <2>1. /\ received \in Seq(BatchQueries) /\ channel \in Seq(BatchQueries)
          /\ InHand \in Seq(BatchQueries) /\ Len(InHand) = Held
          /\ Held = 1 => InHand[1] = hand
      BY DEF IInv, TypeOK, InHand, Held
    <2>2. /\ channel \o InHand \in Seq(BatchQueries)
          /\ Len(channel \o InHand) = Len(channel) + Held
          /\ \A i \in 1 .. Len(channel) + Held :
                (channel \o InHand)[i] =
                    IF i <= Len(channel) THEN channel[i] ELSE InHand[i - Len(channel)]
      BY <2>1, ConcatProperties
    <2>3. \A i \in 1 .. Len(channel) + Held : (channel \o InHand)[i] = Len(received) + i
      <3> SUFFICES ASSUME NEW i \in 1 .. Len(channel) + Held
                   PROVE  (channel \o InHand)[i] = Len(received) + i
        OBVIOUS
      <3>1. CASE i \in 1 .. Len(channel)
        BY <2>2, <3>1, Lengths DEF IInv, OrderSound
      <3>2. CASE ~(i \in 1 .. Len(channel))
        <4>1. Held = 1 /\ i = Len(channel) + 1 /\ hand # None
          BY <3>2, Lengths DEF IInv, Held
        <4>2. hand = Len(received) + i
          BY <4>1, Lengths DEF IInv, OrderSound, Left
        <4>3. i - Len(channel) = 1 /\ ~(i <= Len(channel))
          BY <4>1, Lengths DEF IInv
        <4>4. (channel \o InHand)[i] = InHand[1]
          BY <2>2, <4>3
        <4>5. QED BY <2>1, <4>1, <4>2, <4>4
      <3>3. QED BY <3>1, <3>2
    <2>4. Output = received \o (channel \o InHand)
      BY <2>1, ConcatAssociative, SMTT(30) DEF Output
    <2>5. /\ Len(Output) = Len(received) + Len(channel) + Held
          /\ \A i \in 1 .. Len(received) + (Len(channel) + Held) :
                Output[i] = IF i <= Len(received) THEN received[i]
                            ELSE (channel \o InHand)[i - Len(received)]
      BY <2>1, <2>2, <2>4, ConcatProperties, Lengths DEF IInv
    <2>6. ASSUME NEW i \in 1 .. Len(Output) PROVE Output[i] = i
      <3>1. CASE i <= Len(received)
        <4>1. Output[i] = received[i] /\ i \in 1 .. Len(received)
          BY <2>5, <3>1, Lengths DEF IInv
        <4>2. QED BY <4>1 DEF IInv, OrderSound
      <3>2. CASE ~(i <= Len(received))
        <4>1. Len(received) \in Nat /\ Len(channel) \in Nat /\ Held \in Nat
          BY Lengths DEF IInv
        <4>2. i \in 1 .. Len(received) + (Len(channel) + Held)
          BY <2>5, <4>1
        <4>3. Output[i] = (channel \o InHand)[i - Len(received)]
          BY <2>5, <3>2, <4>2
        <4>4. i - Len(received) \in 1 .. Len(channel) + Held
          BY <3>2, <4>1, <4>2
        <4>5. (channel \o InHand)[i - Len(received)] = Len(received) + (i - Len(received))
          BY <2>3, <4>4
        <4>6. QED BY <4>1, <4>2, <4>3, <4>5
      <3>3. QED BY <3>1, <3>2
    <2>7. QED BY <2>6
  <1>2. QED BY <1>1, SpecIInv, PTL

(* After the stream is dropped the producer fills its pool once more at most. *)
THEOREM DropStopsDispatch == Spec => []DropCancels
  <1>1. IInv => DropCancels
    BY DEF IInv, LateSound, DropCancels
  <1>2. QED BY <1>1, SpecIInv, PTL

-----------------------------------------------------------------------------
(* The rank of a number grows with the number and stays below the size of   *)
(* the set.                                                                  *)
LEMMA BeforeSound ==
    ASSUME NEW S \in SUBSET Nat, IsFiniteSet(S)
    PROVE  /\ \A n \in S : Before(S, n) \in 0 .. Cardinality(S) - 1
           /\ \A n, m \in S : m < n => Before(S, m) < Before(S, n)
<1> DEFINE B(n) == {m \in S : m < n}
<1>1. \A n \in S : IsFiniteSet(B(n)) /\ Cardinality(B(n)) \in Nat
    BY FS_Subset, FS_CardinalityType
<1>2. ASSUME NEW n \in S PROVE Before(S, n) \in 0 .. Cardinality(S) - 1
    <2>1. B(n) \subseteq S /\ B(n) # S
        OBVIOUS
    <2>3. Cardinality(S) \in Nat
        BY FS_CardinalityType
    <2> HIDE DEF B
    <2>2. Cardinality(B(n)) < Cardinality(S)
        BY <1>1, <2>1, <2>3, FS_Subset
    <2>4. Before(S, n) = Cardinality(B(n))
        BY DEF Before, B
    <2>5. Cardinality(B(n)) \in Nat
        BY <1>1
    <2> QED
        BY <2>2, <2>3, <2>4, <2>5
<1>3. ASSUME NEW n \in S, NEW m \in S, m < n PROVE Before(S, m) < Before(S, n)
    <2>1. B(m) \subseteq B(n) /\ m \in B(n) /\ m \notin B(m)
        <3>1. ASSUME NEW x \in B(m) PROVE x \in B(n)
            <4>1. x \in S /\ x \in Nat /\ m \in Nat /\ n \in Nat /\ x < m
                OBVIOUS
            <4>2. x < n
                BY <1>3, <4>1
            <4> QED
                BY <4>1, <4>2
        <3>2. m \in B(n)
            BY <1>3
        <3>3. ~ (m < m)
            OBVIOUS
        <3> QED
            BY <3>1, <3>2, <3>3
    <2>2. IsFiniteSet(B(n)) /\ B(m) # B(n)
        BY <1>1, <2>1
    <2> HIDE DEF B
    <2>3. Cardinality(B(m)) < Cardinality(B(n))
        BY <1>1, <2>1, <2>2, FS_Subset
    <2> QED
        BY <2>3 DEF B, Before
<1> QED
    BY <1>2, <1>3

(* InOrder lists a finite set of numbers, each once, in ascending order.     *)
LEMMA InOrderSorted ==
    ASSUME NEW S \in SUBSET Nat, IsFiniteSet(S)
    PROVE  /\ Cardinality(S) \in Nat
           /\ InOrder(S) \in [1 .. Cardinality(S) -> S]
           /\ \A i, j \in 1 .. Cardinality(S) : i < j => InOrder(S)[i] < InOrder(S)[j]
           /\ \A n \in S : /\ Before(S, n) + 1 \in 1 .. Cardinality(S)
                           /\ InOrder(S)[Before(S, n) + 1] = n
<1> DEFINE k == Cardinality(S)
           ranks == 0 .. k - 1
           rank == [n \in S |-> Before(S, n)]
<1>1. k \in Nat
    BY FS_CardinalityType
<1>2. \A n, m \in S : Before(S, n) = Before(S, m) => n = m
    BY BeforeSound
<1>3. ASSUME NEW i \in ranks PROVE \E n \in S : Before(S, n) = i
    <2>1. rank \in Injection(S, ranks) /\ rank \in [S -> ranks]
        BY <1>2, BeforeSound DEF Injection, IsInjective
    <2>2. IsFiniteSet(ranks) /\ Cardinality(ranks) = k
        BY <1>1, FS_Interval
    <2> DEFINE image == {rank[n] : n \in S}
    <2>3. rank \in Bijection(S, image)
        BY <1>2 DEF Bijection, Injection, Surjection, IsInjective
    <2>4. Cardinality(image) = k /\ IsFiniteSet(image)
        <3> HIDE DEF image, rank, k
        <3> QED
            BY <2>3, FS_Bijection DEF ExistsBijection, k
    <2>5. image \subseteq ranks
        BY <2>1
    <2> HIDE DEF image, ranks
    <2>6. image = ranks
        BY <2>2, <2>4, <2>5, FS_Subset
    <2> QED
        BY <2>6 DEF image
<1>4. ASSUME NEW i \in 1 .. k
      PROVE  InOrder(S)[i] \in S /\ Before(S, InOrder(S)[i]) = i - 1
    <2>1. i - 1 \in ranks
        BY <1>1
    <2>2. \E n \in S : Before(S, n) = i - 1
        BY <1>3, <2>1
    <2> QED
        BY <2>2 DEF InOrder
<1>5. InOrder(S) \in [1 .. k -> S]
    BY <1>4 DEF InOrder
<1>6. ASSUME NEW i \in 1 .. k, NEW j \in 1 .. k, i < j
      PROVE  InOrder(S)[i] < InOrder(S)[j]
    <2> DEFINE a == InOrder(S)[i]
               b == InOrder(S)[j]
    <2>1. a \in S /\ b \in S /\ a \in Nat /\ b \in Nat
        BY <1>4
    <2>2. Before(S, a) < Before(S, b)
        BY <1>1, <1>4, <1>6
    <2>3. ~(b < a) /\ a # b
        <3> HIDE DEF a, b
        <3>1. Before(S, a) \in Nat /\ Before(S, b) \in Nat
            BY <1>1, <2>1, BeforeSound
        <3> QED
            BY <2>1, <2>2, <3>1, BeforeSound
    <2> QED
        BY <2>1, <2>3
<1>7. ASSUME NEW n \in S
      PROVE  Before(S, n) + 1 \in 1 .. k /\ InOrder(S)[Before(S, n) + 1] = n
    <2>1. Before(S, n) \in 0 .. k - 1
        BY BeforeSound
    <2>2. Before(S, n) + 1 \in 1 .. k
        BY <1>1, <2>1
    <2>3. Before(S, InOrder(S)[Before(S, n) + 1]) = Before(S, n)
        BY <1>1, <1>4, <2>1, <2>2
    <2> QED
        BY <1>2, <1>4, <2>2, <2>3
<1> QED
    BY <1>1, <1>5, <1>6, <1>7

(* A selection has the chosen items at their ranks and nothing else.         *)
LEMMA FilteredPlaces ==
    ASSUME NEW list, NEW K \in SUBSET Nat, IsFiniteSet(K)
    PROVE  /\ Cardinality(K) \in Nat
           /\ DOMAIN Filtered(list, K) = 1 .. Cardinality(K)
           /\ Len(Filtered(list, K)) = Cardinality(K)
           /\ \A i \in 1 .. Cardinality(K) :
                 InOrder(K)[i] \in K /\ Filtered(list, K)[i] = list[InOrder(K)[i]]
           /\ \A n \in K : /\ Before(K, n) + 1 \in 1 .. Cardinality(K)
                           /\ Filtered(list, K)[Before(K, n) + 1] = list[n]
<1>1. /\ Cardinality(K) \in Nat
      /\ InOrder(K) \in [1 .. Cardinality(K) -> K]
      /\ \A n \in K : /\ Before(K, n) + 1 \in 1 .. Cardinality(K)
                      /\ InOrder(K)[Before(K, n) + 1] = n
    BY InOrderSorted
<1>2. DOMAIN Filtered(list, K) = 1 .. Cardinality(K)
    BY DEF Filtered
<1>3. \A i \in 1 .. Cardinality(K) : Filtered(list, K)[i] = list[InOrder(K)[i]]
    BY DEF Filtered
<1>4. Len(Filtered(list, K)) = Cardinality(K)
    <2>1. Filtered(list, K) = [i \in 1 .. Cardinality(K) |-> list[InOrder(K)[i]]]
        BY DEF Filtered
    <2> DEFINE item(i) == list[InOrder(K)[i]]
               S == {item(i) : i \in 1 .. Cardinality(K)}
    <2>2. Filtered(list, K) \in [1 .. Cardinality(K) -> S]
        BY <2>1
    <2> HIDE DEF S
    <2>3. Filtered(list, K) \in Seq(S)
        BY <1>1, <2>2
    <2> QED
        BY <1>1, <1>2, <2>3, LenProperties
<1> QED
    BY <1>1, <1>2, <1>3, <1>4

-----------------------------------------------------------------------------
(* The checks of domain_available_batch.  A name is untouched before its     *)
(* chunk is spawned and while its task runs; afterwards its answer is in the *)
(* vector at its own place, or its task has panicked.                        *)
Task(n) == [name |-> n, idx |-> n]

Reached == IF checking = "joining" THEN base + limit ELSE base

Waits(n) == n > Reached \/ Task(n) \in tasks

Placed(n) ==
    IF Waits(n) THEN said[n] = NoAnswer /\ n \notin panicked
                ELSE said[n] # NoAnswer <=> n \notin panicked

CheckInv ==
    /\ limit \in Nat \ {0} /\ base \in Nat
    /\ said \in [Checks -> Answers \cup {NoAnswer}]
    /\ output = said
    /\ tasks \subseteq {Task(n) : n \in {m \in Checks : m <= Reached}}
    /\ checking = "chunking" => tasks = {}
    /\ checking # "dropped" => \A n \in Checks : Placed(n)
    /\ checking = "returned" =>
        /\ tasks = {} /\ base >= Names
        /\ available = Filtered(output, {i \in Checks : output[i] # NoAnswer})

LEMMA InitChecks == CheckInit => CheckInv
  <1> SUFFICES ASSUME CheckInit PROVE CheckInv
    OBVIOUS
  <1>1. limit \in Nat \ {0}
    BY ChecksAssumption DEF CheckInit, ChunkSize, ChecksAssumption, NoLimit
  <1>2. \A n \in Checks : n > Reached
    BY ChecksAssumption DEF CheckInit, Checks, Reached
  <1> QED
    BY <1>1, <1>2 DEF CheckInit, CheckInv, Placed, Waits

LEMMA SpawnSound == CheckInv /\ SpawnChunk => CheckInv'
  <1> SUFFICES ASSUME CheckInv, SpawnChunk PROVE CheckInv'
    OBVIOUS
  <1>1. /\ checking = "chunking" /\ checking' = "joining" /\ tasks = {}
        /\ limit \in Nat \ {0} /\ base \in Nat /\ Names \in Nat
        /\ UNCHANGED <<limit, base, output, available, said, panicked>>
    BY ChecksAssumption DEF SpawnChunk, CheckInv
  <1>2. tasks' = {Task(n) : n \in {m \in Checks : base < m /\ m <= base + limit}}
    <2>1. tasks' = {Task(base + i) : i \in Chunk}
      BY DEF SpawnChunk, Index, Task
    <2>2. {base + i : i \in Chunk} = {m \in Checks : base < m /\ m <= base + limit}
      <3>1. ASSUME NEW m \in Checks, base < m, m <= base + limit
            PROVE  m - base \in Chunk /\ m = base + (m - base)
        BY <1>1, <3>1 DEF Chunk, Checks
      <3>2. ASSUME NEW i \in Chunk
            PROVE  base + i \in Checks /\ base < base + i /\ base + i <= base + limit
        BY <1>1 DEF Chunk, Checks
      <3> QED
        BY <3>1, <3>2
    <2> QED
      BY <2>1, <2>2
  <1>3. Reached = base /\ Reached' = base + limit
    BY <1>1 DEF Reached
  <1>4. tasks' \subseteq {Task(n) : n \in {m \in Checks : m <= Reached'}}
    BY <1>1, <1>2, <1>3
  <1>5. ASSUME NEW n \in Checks PROVE Placed(n)'
    <2>1. n \in Nat
      BY DEF Checks
    <2>2. Waits(n) <=> n > base
      BY <1>1, <1>3 DEF Waits
    <2>3. Waits(n)' <=> n > base
      <3>1. Task(n) \in tasks' <=> base < n /\ n <= base + limit
        BY <1>2 DEF Task
      <3> QED
        BY <1>1, <1>3, <2>1, <3>1 DEF Waits, Task
    <2> QED
      BY <1>1, <2>2, <2>3 DEF Placed, CheckInv
  <1> QED
    BY <1>1, <1>4, <1>5 DEF CheckInv

(* A task that has ended leaves its answer at its place, or has panicked. *)
LEMMA JoinSound ==
  ASSUME CheckInv, NEW t \in tasks,
         JoinPanicked(t) \/ \E a \in Answers : Join(t, a)
  PROVE  CheckInv'
  <1>1. /\ checking = "joining" /\ tasks' = tasks \ {t}
        /\ UNCHANGED <<limit, base, available, checking>>
    BY DEF JoinPanicked, Join
  <1>2. PICK n \in Checks : t = Task(n) /\ n <= Reached
    BY DEF CheckInv
  <1>3. Reached' = Reached /\ Reached \in Nat /\ n \in Nat
    BY <1>1 DEF Reached, CheckInv, Checks
  <1>4. t.name = n /\ t.idx = n /\ \A m : Task(m) = Task(n) => m = n
    BY <1>2 DEF Task
  <1>5. /\ said' \in [Checks -> Answers \cup {NoAnswer}] /\ output' = said'
        /\ said'[n] # NoAnswer <=> n \notin panicked'
        /\ \A m \in Checks : m # n => said'[m] = said[m] /\ (m \in panicked' <=> m \in panicked)
    <2>1. said[n] = NoAnswer /\ n \notin panicked
      BY <1>1, <1>2 DEF CheckInv, Placed, Waits
    <2>2. CASE JoinPanicked(t)
      BY <1>4, <2>1, <2>2 DEF JoinPanicked, CheckInv
    <2>3. CASE \E a \in Answers : Join(t, a)
      <3>1. PICK a \in Answers : Join(t, a)
        BY <2>3
      <3>2. a # NoAnswer
        BY DEF Answers, NoAnswer
      <3> QED
        BY <1>4, <2>1, <3>1, <3>2 DEF Join, CheckInv
    <2> QED
      BY <2>2, <2>3
  <1>6. ASSUME NEW m \in Checks PROVE Placed(m)'
    <2>1. CASE m = n
      <3>1. ~(n > Reached)
        BY <1>2, <1>3
      <3>2. ~Waits(m)'
        BY <1>1, <1>2, <1>3, <2>1, <3>1 DEF Waits, Task
      <3> QED
        BY <1>5, <2>1, <3>2 DEF Placed
    <2>2. CASE m # n
      <3>1. Waits(m)' <=> Waits(m)
        BY <1>1, <1>2, <1>3, <1>4, <2>2 DEF Waits, Task
      <3> QED
        BY <1>1, <1>5, <2>2, <3>1 DEF Placed, CheckInv
    <2> QED
      BY <2>1, <2>2
  <1> QED
    BY <1>1, <1>3, <1>5, <1>6 DEF CheckInv

LEMMA NextChecks == CheckInv /\ [CheckNext]_checkVars => CheckInv'
  <1> SUFFICES ASSUME CheckInv, [CheckNext]_checkVars PROVE CheckInv'
    OBVIOUS
  <1>1. CASE SpawnChunk
    BY <1>1, SpawnSound
  <1>2. CASE JoinNext
    BY <1>2, JoinSound DEF JoinNext
  <1>3. CASE EndChunk
    <2>1. /\ tasks = {} /\ tasks' = {} /\ Reached' = Reached /\ checking = "joining"
          /\ checking' = "chunking" /\ base' \in Nat
          /\ UNCHANGED <<limit, output, available, said, panicked>>
      BY <1>3 DEF EndChunk, Reached, CheckInv
    <2>2. \A n \in Checks : Placed(n)'
      BY <2>1 DEF Placed, Waits, CheckInv
    <2> QED
      BY <2>1, <2>2 DEF CheckInv
  <1>4. CASE ReturnAnswers
    <2>1. /\ tasks = {} /\ tasks' = {} /\ Reached' = Reached /\ base >= Names
          /\ checking = "chunking" /\ checking' = "returned"
          /\ available' = Filtered(output, {i \in Checks : output[i] # NoAnswer})
          /\ UNCHANGED <<limit, base, output, said, panicked>>
      BY <1>4 DEF ReturnAnswers, Reached, CheckInv
    <2>2. \A n \in Checks : Placed(n)'
      BY <2>1 DEF Placed, Waits, CheckInv
    <2> QED
      BY <2>1, <2>2 DEF CheckInv
  <1>5. CASE AbortChecks
    BY <1>5 DEF AbortChecks, CheckInv
  <1>6. CASE UNCHANGED checkVars
    BY <1>6 DEF checkVars, CheckInv, Placed, Waits, Reached
  <1> QED
    BY <1>1, <1>2, <1>3, <1>4, <1>5, <1>6 DEF CheckNext

(* domain_available_batch returns the answers of the names in input order,   *)
(* without those of panicked tasks, for every number of names and whatever   *)
(* concurrency was asked for.                                                *)
THEOREM AnswersInOrder == CheckSpec => []AnswersMatchNames
  <1>1. CheckInv => AnswersMatchNames
    <2> DEFINE kept == Checks \ panicked
    <2> SUFFICES ASSUME CheckInv, checking = "returned"
                 PROVE  /\ Len(available) = Cardinality(kept)
                        /\ \A n \in kept :
                             available[Cardinality({m \in kept : m <= n})] = said[n]
      BY DEF AnswersMatchNames
    <2>1. kept = {i \in Checks : output[i] # NoAnswer} /\ output = said
      <3>1. \A n \in Checks : ~Waits(n)
        <4>1. tasks = {} /\ Reached = base /\ base >= Names /\ base \in Nat /\ Names \in Nat
          BY ChecksAssumption DEF CheckInv, Reached
        <4> QED
          BY <4>1 DEF Waits, Checks
      <3> QED
        BY <3>1 DEF CheckInv, Placed
    <2>2. available = Filtered(said, kept)
      BY <2>1 DEF CheckInv
    <2>3. kept \in SUBSET Nat /\ IsFiniteSet(kept)
      <3>1. IsFiniteSet(Checks) /\ Checks \subseteq Nat
        BY ChecksAssumption, FS_Interval DEF Checks
      <3> QED
        BY <3>1, FS_Subset
    <2> HIDE DEF kept
    <2>4. ASSUME NEW n \in kept
          PROVE  Cardinality({m \in kept : m <= n}) = Before(kept, n) + 1
      <3> DEFINE below == {m \in kept : m < n}
      <3>1. {m \in kept : m <= n} = below \cup {n}
        <4>1. \A m \in kept : m <= n <=> m < n \/ m = n
          BY <2>3
        <4> QED
          BY <4>1
      <3>2. IsFiniteSet(below) /\ n \notin below
        BY <2>3, FS_Subset
      <3>3. Cardinality(below \cup {n}) = Cardinality(below) + 1
        BY <3>2, FS_AddElement
      <3> QED
        BY <3>1, <3>3 DEF Before
    <2>5. /\ Len(Filtered(said, kept)) = Cardinality(kept)
          /\ \A n \in kept : Filtered(said, kept)[Before(kept, n) + 1] = said[n]
      BY <2>3, FilteredPlaces
    <2> QED
      BY <2>2, <2>4, <2>5
  <1> QED
    BY <1>1, InitChecks, NextChecks, PTL DEF CheckSpec

-----------------------------------------------------------------------------
(* The batch command.  While it streams, its counts are those of the results *)
(* it has received; a launch that is refused leaves the batch as it was.     *)
FailedOf(results) == {i \in 1 .. Len(results) : results[i] \in Failing}

Reported ==
    /\ {ok_count, err_count, rows} \subseteq Nat
    /\ ok_count + err_count = Len(received)
    /\ err_count = Cardinality(FailedOf(received))
    /\ rows = IF format \in {"json", "csv"} THEN Len(received) ELSE ok_count

Quiet ==
    /\ ~header /\ rows = 0 /\ ok_count = 0 /\ err_count = 0
    /\ dispatched = 0 /\ received = <<>> /\ consumer = "receiving"

Runs(l) == l.file = Unreadable \/ Queries(l.file) # <<>>

CommandInv ==
    /\ phase \in {"library", "launched", "streaming", "exited"}
    /\ phase = "launched" => launch \in Launches /\ exit = 0 /\ Quiet
    /\ phase = "streaming" =>
        launch = NoLaunch /\ exit = 0 /\ Reported /\ consumer \in {"receiving", "handling"}
    /\ phase = "exited" =>
        \/ launch = NoLaunch /\ exit = 0 /\ Reported /\ consumer = "ended"
        \/ launch \in Launches /\ Quiet /\ exit = IF Runs(launch) THEN 1 ELSE 0

(* What the batch command runs (`batch_cmd::run`) is the batch executor: its *)
(* launches, rows and exit take no step of the pool, the channel or the      *)
(* consumer that `run_stream` would not take.                                *)
THEOREM LaunchIsBatch == LaunchSpec => Spec
  <1>1. LaunchInit => Init
    BY DEF LaunchInit
  <1>2. [LaunchNext]_cliVars => [Next]_vars
    <2> SUFFICES ASSUME [LaunchNext]_cliVars PROVE [Next]_vars
      OBVIOUS
    <2>1. CASE Command
      BY <2>1 DEF Command, RefuseFile, NothingToDo, RefuseClient, BeginBatch, Report,
        Summary, Next, ReceiveNext, BatchQueries
    <2>2. CASE BatchRuns \/ Consumes
      BY <2>2 DEF BatchRuns, Consumes, Next
    <2>3. CASE UNCHANGED cliVars
      BY <2>3 DEF cliVars
    <2> QED
      BY <2>1, <2>2, <2>3 DEF LaunchNext
  <1> QED
    BY <1>1, <1>2, PTL DEF LaunchSpec, Spec

(* A result that has been reported is counted once, by how it ended. *)
LEMMA ReportCounts ==
  ASSUME TypeOK, Reported, Report
  PROVE  Reported'
  <1>1. PICK r \in BatchQueries : r = Head(channel)
    <2>1. channel \in Seq(BatchQueries) /\ channel # <<>>
      BY DEF TypeOK, Report, Receive
    <2> QED
      BY <2>1, HeadTailProperties
  <1>2. /\ received \in Seq(BatchQueries) /\ received' = Append(received, r)
        /\ UNCHANGED format
    BY <1>1 DEF TypeOK, Report, Receive
  <1> DEFINE n == Len(received)
  <1>3. /\ n \in Nat /\ Len(received') = n + 1
        /\ received'[n + 1] = r
        /\ \A i \in 1 .. n : received'[i] = received[i]
    BY <1>2, AppendProperties, LenProperties
  <1>4. IsFiniteSet(FailedOf(received))
    <2>1. IsFiniteSet(1 .. n) /\ FailedOf(received) \subseteq 1 .. n
      BY <1>3, FS_Interval DEF FailedOf
    <2> QED
      BY <2>1, FS_Subset
  <1>5. FailedOf(received') = FailedOf(received) \cup (IF r \in Failing THEN {n + 1} ELSE {})
    <2> HIDE DEF n
    <2>1. \A i : i \in 1 .. n + 1 <=> i \in 1 .. n \/ i = n + 1
      BY <1>3
    <2>2. n + 1 \notin 1 .. n /\ FailedOf(received) = {i \in 1 .. n : received[i] \in Failing}
      BY <1>3 DEF FailedOf, n
    <2> QED
      BY <1>3, <2>1, <2>2 DEF FailedOf
  <1>6. n + 1 \notin FailedOf(received)
    BY <1>3 DEF FailedOf
  <1>7. CASE r \in Failing
    <2>1. Cardinality(FailedOf(received')) = Cardinality(FailedOf(received)) + 1
      BY <1>4, <1>5, <1>6, <1>7, FS_AddElement
    <2>2. err_count' = err_count + 1 /\ ok_count' = ok_count
          /\ rows' = IF format \in {"json", "csv"} THEN rows + 1 ELSE rows
      BY <1>1, <1>7 DEF Report, OnStdout
    <2> HIDE DEF n
    <2> QED
      BY <1>2, <1>3, <2>1, <2>2 DEF Reported, n
  <1>8. CASE r \notin Failing
    <2>1. FailedOf(received') = FailedOf(received)
      BY <1>5, <1>8
    <2>2. err_count' = err_count /\ ok_count' = ok_count + 1 /\ rows' = rows + 1
      BY <1>1, <1>8 DEF Report, OnStdout
    <2> HIDE DEF n
    <2> QED
      BY <1>2, <1>3, <2>1, <2>2 DEF Reported, n
  <1> QED
    BY <1>7, <1>8

LEMMA InitCommand == LaunchInit => CommandInv
  BY DEF LaunchInit, Init, CommandInv, Quiet

LEMMA NextCommand == TypeOK /\ CommandInv /\ [LaunchNext]_cliVars => CommandInv'
  <1> SUFFICES ASSUME TypeOK, CommandInv, [LaunchNext]_cliVars PROVE CommandInv'
    OBVIOUS
  <1>1. CASE RefuseFile \/ NothingToDo \/ RefuseClient
    <2>1. /\ phase' = "exited" /\ launch \in Launches /\ Quiet
          /\ exit' = IF Runs(launch) THEN 1 ELSE 0
      BY <1>1 DEF RefuseFile, NothingToDo, RefuseClient, Exit, Runs, Streams, CommandInv
    <2>2. UNCHANGED <<vars, launch, format, header, rows, ok_count, err_count>>
      BY <1>1 DEF RefuseFile, NothingToDo, RefuseClient
    <2>3. Quiet' /\ launch' = launch
      BY <2>1, <2>2 DEF Quiet, vars
    <2>4. Launches' = Launches /\ Runs(launch') = Runs(launch)
      BY <2>3 DEF Launches, Runs
    <2> QED
      BY <2>1, <2>3, <2>4 DEF CommandInv, Runs
  <1>2. CASE BeginBatch
    <2>1. Quiet /\ exit = 0
      BY <1>2 DEF BeginBatch, CommandInv
    <2>2. /\ phase' = "streaming" /\ launch' = NoLaunch
          /\ UNCHANGED <<vars, format, rows, ok_count, err_count, exit>>
      BY <1>2 DEF BeginBatch
    <2>3. FailedOf(<<>>) = {} /\ Cardinality({}) = 0
      BY FS_EmptySet DEF FailedOf
    <2>4. Reported' /\ consumer' = "receiving"
      BY <2>1, <2>2, <2>3 DEF Quiet, Reported, vars, FailedOf
    <2> QED
      BY <2>1, <2>2, <2>4 DEF CommandInv
  <1>3. CASE Report
    BY <1>3, ReportCounts DEF Report, Receive, CommandInv
  <1>4. CASE Summary
    <2>1. Reported'
      BY <1>4 DEF Summary, Exit, EndOfStream, CommandInv, Reported, FailedOf
    <2> QED
      BY <1>4, <2>1 DEF Summary, Exit, EndOfStream, CommandInv
  <1>5. CASE BatchRuns \/ Consumes
    <2>1. phase \in {"library", "streaming"} /\ UNCHANGED cli
      BY <1>5 DEF BatchRuns, Consumes
    <2>2. CASE phase = "library"
      BY <2>1, <2>2 DEF cli, CommandInv
    <2>3. CASE phase = "streaming"
      <3>1. Producer \/ Handled
        BY <1>5, <2>3 DEF BatchRuns, Consumes
      <3>2. received' = received /\ consumer' \in {"receiving", "handling"}
        BY <2>3, <3>1 DEF Producer, Start, Fill, PollPool, Yield, Poll, Complete, Send,
          SendFails, Handled, CommandInv
      <3>3. Reported'
        BY <2>1, <2>3, <3>2 DEF Reported, FailedOf, cli, CommandInv
      <3> QED
        BY <2>1, <2>3, <3>2, <3>3 DEF cli, CommandInv
    <2> QED
      BY <2>1, <2>2, <2>3
  <1>6. CASE UNCHANGED cliVars
    BY <1>6 DEF cliVars, vars, cli, CommandInv, Quiet, Reported, FailedOf, Runs, Launches
  <1> QED
    BY <1>1, <1>2, <1>3, <1>4, <1>5, <1>6 DEF LaunchNext, Command

(* Once everything has been received, each query has been once: those that   *)
(* failed are the failing ones.                                              *)
LEMMA FailuresOnce ==
  ASSUME NEW s \in Seq(BatchQueries), Len(s) = Total, Elements(s) = BatchQueries
  PROVE  Cardinality(FailedOf(s)) = Cardinality(Failing)
  <1>1. /\ Total \in Nat /\ s \in [BatchQueries -> BatchQueries]
        /\ IsFiniteSet(BatchQueries)
    <2>1. Total \in Nat /\ s \in [1 .. Len(s) -> BatchQueries]
      BY BatchAssumption, LenProperties
    <2>2. IsFiniteSet(1 .. Total)
      BY <2>1, FS_Interval
    <2> QED
      BY <2>1, <2>2 DEF BatchQueries
  <1>2. s \in Surjection(BatchQueries, BatchQueries)
    BY <1>1 DEF Surjection, Elements, BatchQueries
  <1>3. s \in Injection(BatchQueries, BatchQueries)
    BY <1>1, <1>2, FS_SurjSameCardinalityImpliesInj
  <1>4. FailedOf(s) \subseteq BatchQueries /\ Failing \subseteq BatchQueries
        /\ \A i \in BatchQueries : i \in FailedOf(s) <=> s[i] \in Failing
    BY BatchAssumption DEF FailedOf, BatchQueries
  <1> DEFINE f == [i \in FailedOf(s) |-> s[i]]
  <1>5. f \in Bijection(FailedOf(s), Failing)
    <2>1. f \in [FailedOf(s) -> Failing]
      BY <1>4
    <2>2. \A i, j \in FailedOf(s) : f[i] = f[j] => i = j
      BY <1>3, <1>4 DEF Injection, IsInjective
    <2>3. ASSUME NEW q \in Failing PROVE \E i \in FailedOf(s) : f[i] = q
      <3>1. PICK i \in BatchQueries : s[i] = q
        BY <1>2, <1>4 DEF Surjection
      <3> QED
        BY <1>4, <3>1
    <2> HIDE DEF f
    <2> QED
      BY <2>1, <2>2, <2>3 DEF Bijection, Injection, Surjection, IsInjective
  <1>6. IsFiniteSet(FailedOf(s))
    BY <1>1, <1>4, FS_Subset
  <1>7. ExistsBijection(FailedOf(s), Failing)
    BY <1>5 DEF ExistsBijection
  <1> QED
    BY <1>6, <1>7, FS_Bijection

(* The queries of a file are its lines that are neither blank nor comments. *)
LEMMA QueriesOfFile ==
  ASSUME NEW file \in Files
  PROVE  /\ Unreadable # file
         /\ Queries(file) # <<>> <=> \E i \in 1 .. Len(file) : IsQuery(file[i])
  <1> DEFINE K == {i \in DOMAIN file : IsQuery(file[i])}
             lines == Filtered(file, K)
  <1>1. file \in Seq([mark : Marks, reads : BOOLEAN])
    BY FilesAssumption
  <1>2. DOMAIN file = 1 .. Len(file) /\ Len(file) \in Nat
        /\ \A i \in DOMAIN file : file[i].mark \in Marks
    <2>1. file \in [1 .. Len(file) -> [mark : Marks, reads : BOOLEAN]] /\ Len(file) \in Nat
      BY <1>1, LenProperties
    <2> QED
      BY <2>1
  <1>3. K \in SUBSET Nat /\ IsFiniteSet(K)
    <2>1. IsFiniteSet(DOMAIN file) /\ DOMAIN file \subseteq Nat
      BY <1>2, FS_Interval
    <2> QED
      BY <2>1, FS_Subset
  <1>4. Unreadable # file
    BY <1>2 DEF Unreadable, Marks
  <1> HIDE DEF K
  <1>5. DOMAIN lines = 1 .. Cardinality(K) /\ Cardinality(K) \in Nat
    BY <1>3, FilteredPlaces
  <1>6. Queries(file) = [i \in DOMAIN lines |-> parse_query(lines[i])]
    BY DEF Queries, K
  <1>7. Queries(file) = <<>> <=> Cardinality(K) = 0
    <2> HIDE DEF lines
    <2> DEFINE q == [i \in DOMAIN lines |-> parse_query(lines[i])]
    <2>1. DOMAIN q = 1 .. Cardinality(K)
      BY <1>5
    <2>2. q = <<>> => Cardinality(K) = 0
      BY <1>5, <2>1
    <2>3. Cardinality(K) = 0 => q = <<>>
      BY <1>5
    <2> QED
      BY <1>6, <2>2, <2>3
  <1>8. Cardinality(K) = 0 <=> K = {}
    BY <1>3, FS_EmptySet
  <1> QED
    BY <1>2, <1>4, <1>7, <1>8 DEF K

(* When the batch command is over, its summary, rows and exit code are those *)
(* of the queries of the file, for every file, setting and argument, and     *)
(* nothing is printed for a launch that is refused (run_batch).              *)
THEOREM CommandAccounts == LaunchSpec => []CommandReports
  <1>1. LaunchSpec => [](IInv /\ CountSound)
    BY LaunchIsBatch, SpecCount, PTL
  <1>2. LaunchSpec => []CommandInv
    <2>1. IInv /\ CommandInv /\ [LaunchNext]_cliVars => CommandInv'
      BY NextCommand DEF IInv
    <2> QED
      BY <1>1, <2>1, InitCommand, PTL DEF LaunchSpec
  <1>3. IInv /\ CountSound /\ CommandInv => CommandReports
    <2> SUFFICES ASSUME IInv, CountSound, CommandInv, phase = "exited" PROVE CommandReports
      BY DEF CommandReports
    <2>1. CASE launch = NoLaunch
      <3>1. exit = 0 /\ Reported /\ consumer = "ended"
        <4>1. launch \notin Launches
          BY <2>1 DEF NoLaunch, Launches
        <4> QED
          BY <4>1 DEF CommandInv
      <3>2. Len(received) = Total /\ errors = Cardinality(Failing) /\ producer = "done"
        BY <3>1, EndedComplete DEF SummaryAgrees, CountSound
      <3>3. received \in Seq(BatchQueries) /\ Elements(received) = BatchQueries
        <4>1. /\ Pool = {} /\ channel = <<>> /\ dispatched = Total /\ hand = None
              /\ Pool \cup Elements(received) \cup Elements(channel) \cup Elements(InHand)
                    = 1 .. dispatched
          BY <3>1 DEF CountSound, IInv, TypeOK
        <4>2. Elements(channel) = {} /\ Elements(InHand) = {}
          BY <4>1 DEF Elements, InHand
        <4> QED
          BY <4>1, <4>2 DEF IInv, TypeOK, BatchQueries
      <3>4. err_count = Cardinality(Failing)
        BY <3>1, <3>2, <3>3, FailuresOnce DEF Reported
      <3> QED
        BY <2>1, <3>1, <3>2, <3>4 DEF CommandReports, Reported
    <2>2. CASE launch # NoLaunch
      <3>1. launch \in Launches /\ Quiet /\ exit = IF Runs(launch) THEN 1 ELSE 0
        BY <2>2 DEF CommandInv
      <3>2. launch.file \in Files \cup {Unreadable}
        BY <3>1 DEF Launches
      <3>3. Runs(launch) <=> \/ launch.file = Unreadable
                             \/ \E i \in 1 .. Len(launch.file) : IsQuery(launch.file[i])
        BY <3>2, QueriesOfFile DEF Runs
      <3> QED
        BY <2>2, <3>1, <3>3 DEF CommandReports, Quiet
    <2> QED
      BY <2>1, <2>2
  <1> QED
    BY <1>1, <1>2, <1>3, PTL
=============================================================================
