--------------------------------- MODULE Batch ---------------------------------
(***************************************************************************)
(* `BatchExecutor::run_stream` (crates/rdap-batch/src/lib.rs): a producer  *)
(* task keeps at most Concurrency queries in a pool, takes their results   *)
(* as they come or in input order, and sends them through a bounded        *)
(* channel to a consumer that may drop the stream.  The counts are those   *)
(* run_stream_with_progress reports to its sink; run_stream is the same    *)
(* loop without them.                                                      *)
(*                                                                         *)
(* The pool belongs to the producer task: while the producer waits for     *)
(* room in the channel nobody polls the queries, which keep what they      *)
(* hold.  A query that has been polled may lead the single flight of its   *)
(* object; a consumer that asks the same client for that object before it  *)
(* takes the next result waits for a query only its own next receive can   *)
(* set going.                                                              *)
(***************************************************************************)
EXTENDS FiniteSets, Integers, Sequences

CONSTANTS
    Total,         \* queries of the batch, numbered in input order
    Concurrency,
    Buffer,        \* capacity of the channel
    Failing        \* the queries that end with an error

(* Concurrency is clamped to 1; mpsc::channel refuses a capacity of 0. *)
ASSUME BatchAssumption ==
    /\ Total \in Nat
    /\ Concurrency \in Nat \ {0}
    /\ Buffer \in Nat \ {0}
    /\ Failing \subseteq 1 .. Total

BatchQueries == 1 .. Total
None == 0

VARIABLES
    ordered,     \* config.ordered
    dispatched,  \* queries 1 .. dispatched have been taken from the iterator
    running,     \* pool: futures that have not completed
    polled,      \* those of them that have been polled and may lead
    finished,    \* pool: results not yet yielded
    producer,
    hand,        \* the result the producer is sending
    channel,
    received,
    consumer,
    asked,       \* the query whose object the consumer asks for meanwhile
    done,        \* on_progress: results that have left the pool
    errors,      \* calls of on_error
    late         \* history: queries dispatched after the stream was dropped

pool == <<running, polled, finished>>
counts == <<done, errors>>
vars == <<ordered, dispatched, pool, producer, hand, channel, received, consumer, asked, counts, late>>

Init ==
    /\ ordered \in BOOLEAN
    /\ dispatched = 0
    /\ running = {} /\ polled = {} /\ finished = {}
    /\ producer = "starting"
    /\ hand = None
    /\ channel = <<>> /\ received = <<>>
    /\ consumer = "receiving"
    /\ asked = None
    /\ done = 0 /\ errors = 0
    /\ late = 0

-----------------------------------------------------------------------------
(* on_start: the variant with a sink collects the whole input first. *)
Start ==
    /\ producer = "starting"
    /\ producer' = "filling"
    /\ UNCHANGED <<ordered, dispatched, pool, hand, channel, received, consumer, asked, counts, late>>

(* s.next(): the pool is filled first, ... *)

Pool == running \cup finished

(* Mutant: results that wait for their turn do not count. *)
RoomForMore == Concurrency - Cardinality(running)

Room == Concurrency - Cardinality(Pool)

LastTaken == IF dispatched + Room < Total THEN dispatched + Room ELSE Total

(* Mutant: the loop does not end with the stream. *)
FilledForEver(queries) == "polling"

Filled(queries) == IF queries = {} THEN "done" ELSE "polling"

Fill ==
    LET taken == dispatched + 1 .. LastTaken
    IN  /\ producer = "filling"
        /\ running' = running \cup taken
        /\ dispatched' = LastTaken
        /\ late' = IF consumer = "gone" THEN late + Cardinality(taken) ELSE late
        /\ producer' = Filled(Pool \cup taken)
        /\ UNCHANGED <<ordered, polled, finished, hand, channel, received, consumer, asked, counts>>

(* ... a result that may be yielded is, ... *)
Yieldable == {q \in finished : ordered => \A r \in Pool : q <= r}

(* Mutant: in ordered mode too, any finished result is yielded. *)
YieldAny(q) ==
    /\ producer = "polling"
    /\ q \in finished
    /\ finished' = finished \ {q}
    /\ hand' = q
    /\ producer' = "sending"
    /\ done' = done + 1
    /\ UNCHANGED <<ordered, dispatched, running, polled, channel, received,
                   consumer, asked, errors, late>>

Yield(q) ==
    /\ producer = "polling"
    /\ q \in Yieldable
    /\ finished' = finished \ {q}
    /\ hand' = q
    /\ producer' = "sending"
    /\ done' = done + 1
    /\ UNCHANGED <<ordered, dispatched, running, polled, channel, received,
                   consumer, asked, errors, late>>

(* ... and otherwise the queries are polled. *)
Poll(q) ==
    /\ producer = "polling" /\ Yieldable = {}
    /\ q \in running \ polled
    /\ polled' = polled \cup {q}
    /\ UNCHANGED <<ordered, dispatched, running, finished, producer, hand,
                   channel, received, consumer, asked, counts, late>>

(* process_query ends, with a response or an error; on_error belongs to the    *)
(* query's future, on_progress to the loop.                                    *)
(* Mutant: every completion is reported as an error. *)
ErrorsOfAll(q) == errors + 1

Errors(q) == IF q \in Failing THEN errors + 1 ELSE errors

Complete(q) ==
    /\ producer = "polling" /\ Yieldable = {}
    /\ q \in running
    /\ running' = running \ {q}
    /\ polled' = polled \ {q}
    /\ finished' = finished \cup {q}
    /\ errors' = Errors(q)
    /\ UNCHANGED <<ordered, dispatched, producer, hand, channel, received,
                   consumer, asked, done, late>>

(* Mutant: a full channel drops the result (try_send). *)
TrySend ==
    /\ producer = "sending" /\ consumer # "gone"
    /\ channel' = IF Len(channel) < Buffer THEN Append(channel, hand) ELSE channel
    /\ hand' = None
    /\ producer' = "filling"
    /\ UNCHANGED <<ordered, dispatched, pool, received, consumer, asked, counts, late>>

Send ==
    /\ producer = "sending" /\ consumer # "gone"
    /\ Len(channel) < Buffer
    /\ channel' = Append(channel, hand)
    /\ hand' = None
    /\ producer' = "filling"
    /\ UNCHANGED <<ordered, dispatched, pool, received, consumer, asked, counts, late>>

(* Mutant: the error of the send is ignored. *)
SendFailsUnseen ==
    /\ producer = "sending" /\ consumer = "gone"
    /\ hand' = None
    /\ producer' = "filling"
    /\ UNCHANGED <<ordered, dispatched, pool, channel, received, consumer, asked, counts, late>>

(* The stream was dropped: the task ends, and the pool with it.  on_complete   *)
(* is called on this path too.                                                 *)
SendFails ==
    /\ producer = "sending" /\ consumer = "gone"
    /\ hand' = None
    /\ producer' = "done"
    /\ running' = {} /\ polled' = {} /\ finished' = {}
    /\ UNCHANGED <<ordered, dispatched, channel, received, consumer, asked, counts, late>>

-----------------------------------------------------------------------------
(* The consumer (external), the command line's run_batch for one: it takes a *)
(* result and handles it, perhaps with a query of its own.                   *)
Receive(q) ==
    /\ consumer = "receiving" /\ channel # <<>>
    /\ received' = Append(received, Head(channel))
    /\ channel' = Tail(channel)
    /\ consumer' = "handling"
    /\ asked' = q
    /\ UNCHANGED <<ordered, dispatched, pool, producer, hand, counts, late>>

(* A query that leads for the same object is waited for. *)
Handled ==
    /\ consumer = "handling"
    /\ asked \notin polled
    /\ consumer' = "receiving"
    /\ asked' = None
    /\ UNCHANGED <<ordered, dispatched, pool, producer, hand, channel, received, counts, late>>

(* The sender is dropped when the producer ends. *)
EndOfStream ==
    /\ consumer = "receiving" /\ channel = <<>>
    /\ producer = "done"
    /\ consumer' = "ended"
    /\ UNCHANGED <<ordered, dispatched, pool, producer, hand, channel, received, asked, counts, late>>

DropStream ==
    /\ consumer \in {"receiving", "handling"}
    /\ consumer' = "gone"
    /\ asked' = None
    /\ channel' = <<>>
    /\ UNCHANGED <<ordered, dispatched, pool, producer, hand, received, counts, late>>

-----------------------------------------------------------------------------
PollPool == \E q \in BatchQueries : Yield(q) \/ Poll(q) \/ Complete(q)
ReceiveNext == \E q \in BatchQueries \cup {None} : Receive(q)

(* The task that run_stream, run_stream_with_progress and, with a             *)
(* concurrency of 1, the stream_* methods of the client spawn.                *)
Producer == Start \/ Fill \/ PollPool \/ Send \/ SendFails

Next ==
    \/ Producer
    \/ ReceiveNext \/ Handled \/ EndOfStream \/ DropStream

Spec == Init /\ [][Next]_vars

(* The producer is scheduled and every query ends when it is polled; the      *)
(* consumer comes back for the next result when it can.                       *)
Fairness ==
    /\ WF_vars(Producer)
    /\ WF_vars(ReceiveNext) /\ WF_vars(Handled)

LiveSpec == Spec /\ Fairness

-----------------------------------------------------------------------------
(* Properties *)

Elements(s) == {s[i] : i \in 1 .. Len(s)}
InHand == IF hand = None THEN <<>> ELSE <<hand>>

(* What has left the pool, oldest first. *)
Output == received \o channel \o InHand

(* Types; and the place of the producer says whether it holds a result.      *)
TypeOK ==
    /\ ordered \in BOOLEAN
    /\ dispatched \in 0 .. Total
    /\ running \subseteq BatchQueries
    /\ polled \subseteq running
    /\ finished \subseteq BatchQueries
    /\ producer \in {"starting", "filling", "polling", "sending", "done"}
    /\ hand \in BatchQueries \cup {None}
    /\ hand # None <=> producer = "sending"
    /\ channel \in Seq(BatchQueries)
    /\ received \in Seq(BatchQueries)
    /\ consumer \in {"receiving", "handling", "ended", "gone"}
    /\ asked \in BatchQueries \cup {None}
    /\ done \in Nat /\ errors \in Nat
    /\ late \in Nat

(* Every query that was dispatched is at exactly one place, and none is lost  *)
(* or delivered twice while the stream is there.                              *)
EachQueryOnce ==
    consumer # "gone" =>
        /\ Pool \cup Elements(Output) = 1 .. dispatched
        /\ Cardinality(running) + Cardinality(finished) + Len(Output) = dispatched

(* "peak memory = O(concurrency + channel_buffer)" (rdap-batch/src/lib.rs:10): *)
(* results that wait for their turn or for room are counted too.               *)
MemoryBounded ==
    Cardinality(running) + Cardinality(finished) + Len(InHand) + Len(channel)
        <= Concurrency + Buffer

(* "Emit results in the same order as the input queries"                      *)
(* (rdap-batch/src/lib.rs:138).                                               *)
InputOrderKept ==
    ordered /\ consumer # "gone" => \A i \in 1 .. Len(Output) : Output[i] = i

(* "Drop the stream early to cancel remaining queries"                        *)
(* (rdap-batch/src/lib.rs:207-208): what is still dispatched is one filling.   *)
DropCancels == late <= Concurrency

(* A consumer that sees the end of the stream has every result, and the sink  *)
(* was told as much: on_progress(total) and on_error once per failed query    *)
(* (rdap-batch/src/lib.rs:174-180), whichever task counted first.              *)
SummaryAgrees ==
    consumer = "ended" =>
        /\ Len(received) = Total /\ done = Total
        /\ errors = Cardinality(Failing)

(* The channel is full, and the consumer asks for what an unpolled query of   *)
(* the pool leads: each waits for the other.                                  *)
SelfBlocked ==
    /\ producer = "sending" /\ Len(channel) = Buffer
    /\ consumer = "handling" /\ asked \in polled

(* The batch ends, delivered or dropped, unless the consumer blocks it that   *)
(* way: neither the bounded channel nor the bounded pool stalls it.            *)
EndsUnlessSelfBlocked ==
    producer = "filling" ~> (producer = "done" \/ []SelfBlocked)
=============================================================================
