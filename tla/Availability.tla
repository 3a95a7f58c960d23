------------------------------ MODULE Availability ------------------------------
(***************************************************************************)
(* `domain_available_batch` (crates/rdapify-client/src/lib.rs): the names  *)
(* are checked in chunks, each name of a chunk in a task of its own.  The  *)
(* tasks end in any order and leave their answers in one vector, by index; *)
(* a task that panics leaves nothing.  When all chunks are through, the    *)
(* vector is returned without its holes.                                   *)
(***************************************************************************)
EXTENDS Integers, Sequences, FiniteSets, Ordered

CONSTANTS
    Names,           \* names to check, numbered in input order
    AskedLimits      \* the concurrencies a caller may ask for, NoLimit among them

NoLimit == -1

ASSUME ChecksAssumption == Names \in Nat /\ AskedLimits \subseteq Nat \cup {NoLimit}

Checks == 1 .. Names

VARIABLES
    limit,           \* names per chunk
    base,            \* names of the chunks before
    tasks,           \* the JoinSet: the name a task checks and the index it carries
    output,
    available,       \* what the caller gets
    checking,        \* where the caller stands
    said, panicked   \* history: what domain_available said, and who panicked

checkVars == <<limit, base, tasks, output, available, checking, said, panicked>>

(* What domain_available says of a name. *)
Answers == {"registered", "available", "error"}
NoAnswer == "none"

(* concurrency.unwrap_or(10).max(1) *)
ChunkSize(concurrency) ==
    CASE concurrency = NoLimit -> 10
      [] concurrency = 0       -> 1
      [] OTHER                 -> concurrency

CheckInit ==
    /\ \E c \in AskedLimits : limit = ChunkSize(c)
    /\ base = 0
    /\ tasks = {}
    /\ output = [i \in Checks |-> NoAnswer]
    /\ available = <<>>
    /\ checking = "chunking"
    /\ said = [i \in Checks |-> NoAnswer]
    /\ panicked = {}

(* Mutant: the index is that within the chunk. *)
IndexWithinChunk(i) == i

Index(i) == base + i

Chunk == {i \in 1 .. limit : base + i <= Names}

SpawnChunk ==
    /\ checking = "chunking" /\ base < Names
    /\ tasks' = {[name |-> base + i, idx |-> Index(i)] : i \in Chunk}
    /\ checking' = "joining"
    /\ UNCHANGED <<limit, base, output, available, said, panicked>>

(* join_next: a task has ended with an answer, or by a panic. *)
Join(t, answer) ==
    /\ checking = "joining" /\ t \in tasks
    /\ tasks' = tasks \ {t}
    /\ output' = [output EXCEPT ![t.idx] = answer]
    /\ said' = [said EXCEPT ![t.name] = answer]
    /\ UNCHANGED <<limit, base, available, checking, panicked>>

JoinPanicked(t) ==
    /\ checking = "joining" /\ t \in tasks
    /\ tasks' = tasks \ {t}
    /\ panicked' = panicked \cup {t.name}
    /\ UNCHANGED <<limit, base, output, available, checking, said>>

EndChunk ==
    /\ checking = "joining" /\ tasks = {}
    /\ base' = base + limit
    /\ checking' = "chunking"
    /\ UNCHANGED <<limit, tasks, output, available, said, panicked>>

(* output.into_iter().flatten() *)
ReturnAnswers ==
    /\ checking = "chunking" /\ base >= Names
    /\ available' = Filtered(output, {i \in Checks : output[i] # NoAnswer})
    /\ checking' = "returned"
    /\ UNCHANGED <<limit, base, tasks, output, said, panicked>>

(* The caller drops the future at an await: the JoinSet aborts its tasks. *)
AbortChecks ==
    /\ checking = "joining"
    /\ tasks' = {}
    /\ checking' = "dropped"
    /\ UNCHANGED <<limit, base, output, available, said, panicked>>

JoinNext == \E t \in tasks : JoinPanicked(t) \/ \E a \in Answers : Join(t, a)

CheckNext == SpawnChunk \/ JoinNext \/ EndChunk \/ ReturnAnswers \/ AbortChecks

CheckSpec == CheckInit /\ [][CheckNext]_checkVars

-----------------------------------------------------------------------------
(* The answers returned are those of the names, in input order, and only a   *)
(* name whose task panicked has none: whatever the chunks, and in whatever    *)
(* order their tasks end.  An error carries no name, so its place is all a    *)
(* caller has to go by.                                                       *)
AnswersMatchNames ==
    checking = "returned" =>
        LET kept == Checks \ panicked IN
        /\ Len(available) = Cardinality(kept)
        /\ \A n \in kept :
               available[Cardinality({m \in kept : m <= n})] = said[n]
=============================================================================
