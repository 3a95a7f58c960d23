----------------------------- MODULE ServerLookup -----------------------------
(***************************************************************************)
(* Which server a bootstrap file names for a query: `ResourceData::parse`, *)
(* `for_domain`, `for_asn` and `match_ip`                                  *)
(* (crates/rdap-bootstrap/src/lib.rs).                                     *)
(*                                                                         *)
(* A file is a sequence of services, each with its patterns and servers.   *)
(* What the code filters out of a list is named by the places it keeps.    *)
(* A domain name is a sequence of labels, never empty, with its trailing    *)
(* dots trimmed (normalize_domain_input refuses what is left empty); a      *)
(* label is its lower-case text and whether it is written in capitals.  A   *)
(* number stands for an address or an autonomous system number.  A server   *)
(* entry is NoUrl if it is empty once its slashes are trimmed.              *)
(***************************************************************************)
EXTENDS Naturals, Sequences, SequencesExt, FiniteSetsExt, Addresses

CONSTANTS
    NoServer,  \* NoServerFound
    Bits       \* bound: bits of an address

ToLower(name) == [i \in DOMAIN name |-> [name[i] EXCEPT !.capital = FALSE]]

(* `trim_end_matches('/')` and the filter on empty servers. *)
Usable(servers) == {i \in DOMAIN servers : servers[i] # NoUrl}

(* Mutant: a service without a usable server ends the parse. *)
KeptBefore(file) == {i \in DOMAIN file : \A j \in 1 .. i : Usable(file[j].servers) # {}}

(* parse: a service without a usable server is skipped. *)
Kept(file) == {i \in DOMAIN file : Usable(file[i].servers) # {}}

(* `first_server`, `servers.first()`: of some services the first counts, and *)
(* of that the first usable server.                                         *)
FirstServer(file, places) ==
    IF places = {} THEN NoServer
    ELSE LET servers == file[Min(places)].servers IN servers[Min(Usable(servers))]

-----------------------------------------------------------------------------
(* The index of the "dns" file: a key has the servers of every service that *)
(* lists it, in file order.                                                 *)
Lists(service, key) ==
    \E p \in DOMAIN service.patterns : ToLower(service.patterns[p]) = key

IndexKeys(file) == UNION {{ToLower(p) : p \in ToSet(file[i].patterns)} : i \in Kept(file)}

Listing(file, key) == {i \in Kept(file) : Lists(file[i], key)}

Suffix(name, start) == SubSeq(name, start, Len(name))

(* Mutant: the last label first. *)
ShortestSuffix(keys, name) ==
    LET starts == {i \in DOMAIN name : Suffix(ToLower(name), i) \in keys} IN
    IF starts = {} THEN <<>> ELSE Suffix(ToLower(name), Max(starts))

(* longest_suffix: the whole name first, then without its leading labels;   *)
(* <<>> if no suffix is a key.                                              *)
LongestSuffix(keys, name) ==
    LET starts == {i \in DOMAIN name : Suffix(ToLower(name), i) \in keys} IN
    IF starts = {} THEN <<>> ELSE Suffix(ToLower(name), Min(starts))

(* The overrides of set_custom_servers, whose names differ by more than     *)
(* their case, come before the file, however short the override.            *)
Override(custom, name) == LongestSuffix({ToLower(k) : k \in DOMAIN custom}, name)

ForDomain(custom, file, name) ==
    LET override == Override(custom, name)
        key == LongestSuffix(IndexKeys(file), name) IN
    IF override # <<>>
    THEN custom[CHOOSE k \in DOMAIN custom : ToLower(k) = override]
    ELSE IF key # <<>> THEN FirstServer(file, Listing(file, key)) ELSE NoServer

-----------------------------------------------------------------------------
(* A pattern of the other files: an ASN range, a network of `length` fixed  *)
(* bits out of Bits, or text that parses as neither.                        *)
AsnRange(from, to) == [kind |-> "range", from |-> from, to |-> to]
Network(base, length) == [kind |-> "network", base |-> base, length |-> length]
Unparsable == [kind |-> "unparsable"]

Covers(pattern, number) ==
    \/ /\ pattern.kind = "range"
       /\ number \in pattern.from .. pattern.to
    \/ /\ pattern.kind = "network"
       /\ number \div 2^(Bits - pattern.length)
              = pattern.base \div 2^(Bits - pattern.length)

Covering(file, number) ==
    {i \in Kept(file) : \E p \in ToSet(file[i].patterns) : Covers(p, number)}

(* for_asn, match_ip: the first pattern in file order that covers the       *)
(* number, and the first usable server of its service.                      *)
ForNumber(file, number) == FirstServer(file, Covering(file, number))

-----------------------------------------------------------------------------
(* A question is a record: a name with the overrides in force, a number, or *)
(* an entity, whose caller names the server.                                *)
IsList(l) == l \in Seq(ToSet(l))

IsFile(file) ==
    /\ IsList(file)
    /\ \A i \in DOMAIN file : IsList(file[i].patterns) /\ IsList(file[i].servers)

IsQuestion(q) ==
    \/ /\ q.kind = "domain" /\ DOMAIN q = {"kind", "custom", "file", "name"}
       /\ IsFile(q.file) /\ IsList(q.name)
       /\ \A k \in DOMAIN q.custom : IsList(k)
       /\ \A i \in DOMAIN q.file : \A p \in ToSet(q.file[i].patterns) : IsList(p)
    \/ /\ q.kind = "number" /\ DOMAIN q = {"kind", "file", "number"}
       /\ IsFile(q.file)
    \/ /\ q.kind = "entity"

Answer(q) ==
    CASE q.kind = "domain" -> ForDomain(q.custom, q.file, q.name)
      [] q.kind = "number" -> ForNumber(q.file, q.number)
      [] q.kind = "entity" -> q.server

(* An override answers without the file, and an entity needs none. *)
NeedsFile(q) ==
    \/ q.kind = "number"
    \/ q.kind = "domain" /\ Override(q.custom, q.name) = <<>>

(* The keys a name is registered under, with or without overrides. *)
RegisteredFor(name, keys) ==
    {k \in keys : \E i \in DOMAIN name : ToLower(k) = ToLower(Suffix(name, i))}

FileKeys(file) ==
    UNION {ToSet(service.patterns) :
        service \in {s \in ToSet(file) : \E u \in ToSet(s.servers) : u # NoUrl}}

(* A name is answered with an override if there is one, otherwise with a    *)
(* usable server of a service that lists a longest registered suffix of it, *)
(* in whatever case file and query are written.                             *)
IsLongestMatch(q, answer) ==
    LET overrides == RegisteredFor(q.name, DOMAIN q.custom)
        keys == RegisteredFor(q.name, FileKeys(q.file))
        Longest(ks) == {k \in ks : \A other \in ks : Len(other) <= Len(k)} IN
    IF overrides # {} THEN answer \in {q.custom[k] : k \in Longest(overrides)}
    ELSE IF keys = {} THEN answer = NoServer
    ELSE \E i \in DOMAIN q.file :
            /\ ToSet(q.file[i].patterns) \cap Longest(keys) # {}
            /\ answer \in ToSet(q.file[i].servers) \ {NoUrl}

(* A number is answered with a usable server of a service that claims it,   *)
(* and with none only if no service with a usable server does.              *)
IsRegistered(q, answer) ==
    LET claims == {i \in DOMAIN q.file :
                      /\ ToSet(q.file[i].servers) \ {NoUrl} # {}
                      /\ \E p \in ToSet(q.file[i].patterns) : Covers(p, q.number)} IN
    IF claims = {} THEN answer = NoServer
    ELSE \E i \in claims : answer \in ToSet(q.file[i].servers) \ {NoUrl}

(* No key of a name, or no number, is claimed by two services. *)
Unambiguous(q) ==
    \A i, j \in Kept(q.file) : i # j =>
        IF q.kind = "domain"
        THEN ~\E k \in IndexKeys(q.file) : Lists(q.file[i], k) /\ Lists(q.file[j], k)
        ELSE ~({i, j} \subseteq Covering(q.file, q.number))
=============================================================================
