------------------------------ MODULE JsonLimits ------------------------------
(***************************************************************************)
(* `validate_rdap_response` (crates/rdap-core/src/validation): the walk    *)
(* over a parsed document with a stack of its own (json.rs), then the      *)
(* limits on the well-known arrays of the top-level object (rdap.rs).      *)
(*                                                                         *)
(* A document is a tree on 1 .. n with root 1: each node's kind, its       *)
(* parent (a lower number; 0 for the root) and the key it has in the       *)
(* top-level object, where a key is there once.  Only what the limits tell *)
(* apart is kept: a string is within the limit or over it.                 *)
(***************************************************************************)
EXTENDS Naturals, FiniteSets, Sequences, SequencesExt, Ordered

CONSTANTS
    Documents,        \* the documents a server may send
    NoDocument,       \* nothing parsed yet
    MaxArray,         \* max_array_length
    MaxFields,        \* max_object_fields
    MaxDepth,         \* max_recursion_depth
    MaxEntities, MaxLinks, MaxEvents

Containers == {"array", "object"}
Kinds == Containers \cup {"scalar", "string", "long_string"}
Keys == {"entities", "links", "events", "remarks", "notices", "nameservers"}
OtherKey == "other"

IsDocument(d) ==
    LET nodes == DOMAIN d.kind IN
    /\ nodes # {}
    /\ IsFiniteSet(nodes) /\ nodes = 1 .. Cardinality(nodes)
    /\ d.kind \in [nodes -> Kinds]
    /\ d.key \in [nodes -> Keys \cup {OtherKey}]
    /\ DOMAIN d.parent = nodes
    /\ d.parent[1] = 0
    /\ \A m \in nodes \ {1} :
        d.parent[m] \in 1 .. (m - 1) /\ d.kind[d.parent[m]] \in Containers
    /\ \A l, m \in nodes :
        d.parent[l] = 1 /\ d.parent[m] = 1 /\ d.key[l] = d.key[m] /\ d.key[m] \in Keys
            => l = m

ASSUME LimitsAssumption ==
    /\ \A d \in Documents : IsDocument(d)
    /\ NoDocument \notin Documents
    /\ {MaxArray, MaxFields} \subseteq Nat \ {0}
    /\ {MaxDepth, MaxEntities, MaxLinks, MaxEvents} \subseteq Nat

VARIABLES
    document,  \* the parsed value
    stack,     \* of <<node, depth>>, the top at the end
    verdict    \* "walking", "walked", "accepted", or the ValidationError

walk == <<document, stack, verdict>>

Nodes == DOMAIN document.kind
Children(n) == {m \in Nodes : document.parent[m] = n}

-----------------------------------------------------------------------------
WalkInit ==
    /\ document = NoDocument
    /\ stack = <<>>
    /\ verdict = "none"

BeginWalk ==
    /\ document' \in Documents
    /\ stack' = <<<<1, 0>>>>
    /\ verdict' = "walking"

Refuse(error) ==
    /\ verdict' = error
    /\ UNCHANGED <<document, stack>>

Width(n) == Cardinality(Children(n))
Widest(n) == IF document.kind[n] = "array" THEN MaxArray ELSE MaxFields
TooWide(n) ==
    IF document.kind[n] = "array" THEN "TooManyArrayItems" ELSE "TooManyObjectFields"

(* What is wrong with a popped node.  An empty container at the last level  *)
(* is fine: only children would be too deep.                                *)
NodeError(n, depth) ==
    CASE /\ document.kind[n] \in Containers
         /\ Width(n) > Widest(n) -> TooWide(n)
      [] /\ document.kind[n] \in Containers
         /\ Width(n) \in 1 .. Widest(n)
         /\ depth + 1 > MaxDepth -> "RecursionTooDeep"
      [] document.kind[n] = "long_string" -> "StringTooLong"
      [] OTHER -> "none"

(* Mutant: the node stays on the stack. *)
PushedOnTop(n, depth) ==
    LET nodes == InOrder(Children(n)) IN
    stack \o [i \in DOMAIN nodes |-> <<nodes[i], depth + 1>>]

(* Mutant: children inherit the depth of their parent. *)
PushedFlat(n, depth) ==
    LET nodes == InOrder(Children(n)) IN
    Front(stack) \o [i \in DOMAIN nodes |-> <<nodes[i], depth>>]

(* The stack without the popped node and with its children on top. *)
Pushed(n, depth) ==
    LET nodes == InOrder(Children(n)) IN
    Front(stack) \o [i \in DOMAIN nodes |-> <<nodes[i], depth + 1>>]

(* One turn of the loop. *)
Visit ==
    /\ verdict = "walking"
    /\ stack # <<>>
    /\ LET n == Last(stack)[1]
           depth == Last(stack)[2] IN
       \/ /\ NodeError(n, depth) # "none"
          /\ Refuse(NodeError(n, depth))
       \/ /\ NodeError(n, depth) = "none"
          /\ stack' = Pushed(n, depth)
          /\ UNCHANGED <<document, verdict>>

WalkEnds ==
    /\ verdict = "walking"
    /\ stack = <<>>
    /\ verdict' = "walked"
    /\ UNCHANGED <<document, stack>>

(* array_len: what is absent or no array has length 0. *)
ListLength(key) ==
    Cardinality(UNION {Children(m) :
        m \in {c \in Children(1) :
                  document.key[c] = key /\ document.kind[c] = "array"}})

FieldChecks == <<
    [key |-> "entities",    limit |-> MaxEntities, error |-> "TooManyEntities"],
    [key |-> "links",       limit |-> MaxLinks,    error |-> "TooManyLinks"],
    [key |-> "events",      limit |-> MaxEvents,   error |-> "TooManyEvents"],
    [key |-> "remarks",     limit |-> MaxArray,    error |-> "TooManyArrayItems"],
    [key |-> "notices",     limit |-> MaxArray,    error |-> "TooManyArrayItems"],
    [key |-> "nameservers", limit |-> MaxArray,    error |-> "TooManyArrayItems"] >>

(* validate_rdap_object: the first check that fails names the error; what   *)
(* is no object passes.                                                     *)
FieldLimits ==
    /\ verdict = "walked"
    /\ LET failed == {i \in DOMAIN FieldChecks :
                        ListLength(FieldChecks[i].key) > FieldChecks[i].limit} IN
       verdict' = IF document.kind[1] = "object" /\ failed # {}
                  THEN FieldChecks[Min(failed)].error ELSE "accepted"
    /\ UNCHANGED <<document, stack>>

WalkNext == Visit \/ WalkEnds \/ FieldLimits

-----------------------------------------------------------------------------
(* The limits, said of the tree as a whole. *)
Depth == LET depth[n \in Nodes] ==
                 IF n = 1 THEN 0 ELSE depth[document.parent[n]] + 1
         IN  depth

WithinLimits ==
    /\ \A n \in Nodes : Depth[n] <= MaxDepth
    /\ \A n \in Nodes : document.kind[n] \in Containers => Width(n) <= Widest(n)
    /\ \A n \in Nodes : document.kind[n] # "long_string"

(* The walk accepts a document if and only if the whole tree is within the  *)
(* limits, whatever node it meets first; and once it has, the checks on     *)
(* remarks, notices and nameservers never fire (validate_json_structure,    *)
(* validate_rdap_object).  Its stack is bounded by the limits and not by    *)
(* the document: at each of max_recursion_depth levels the siblings of one  *)
(* node wait.                                                               *)
WalkDecides ==
    /\ verdict \in {"walked", "accepted"} => WithinLimits
    /\ verdict \in {"TooManyObjectFields", "RecursionTooDeep", "StringTooLong",
                    "TooManyArrayItems"} => stack # <<>> /\ ~WithinLimits
    /\ Len(stack) <= 1 + MaxDepth * (Max({MaxArray, MaxFields}) - 1)

(* A node and the nodes it is in, up to the root. *)
Above == LET above[n \in Nodes] ==
                 IF n = 1 THEN {1} ELSE {n} \cup above[document.parent[n]]
         IN  above

(* What the walk has still to look at: what waits, and all that is in it. *)
Ahead == {m \in Nodes : \E i \in DOMAIN stack : stack[i][1] \in Above[m]}

(* The walk looks at every node once and forgets none, whatever the shape of *)
(* the document: a turn of the loop takes the node on top of the stack off   *)
(* what is ahead, nothing else, and nothing comes back.  So it takes no more  *)
(* turns than the document has nodes.                                        *)
EachNodeOnce ==
    [][verdict = "walking" /\ stack' # stack =>
         Last(stack)[1] \in Ahead /\ Ahead' = Ahead \ {Last(stack)[1]}]_walk
=============================================================================
