------------------------------- MODULE Normalizer -------------------------------
(***************************************************************************)
(* From an accepted document to a typed response                           *)
(* (crates/rdap-core/src/normalizer.rs).                                   *)
(*                                                                         *)
(* A body is the part of the top-level object the five methods look at:    *)
(* its class, its entities, one list that stands for the others (events,   *)
(* links, remarks, status, roles, nameservers and addresses are read in    *)
(* the same way) and one number.  An absent list and a value that is no    *)
(* array are the empty list.  Elements are known by their place, `id`; one *)
(* is sound if serde can deserialize it with everything nested in it.      *)
(***************************************************************************)
EXTENDS Naturals, Sequences, FiniteSets, SequencesExt, FiniteSetsExt, Ordered

CONSTANTS
    Bodies,    \* the top-level objects a server may send
    NoBody,    \* nothing accepted yet
    Wide       \* 2^32: what an autonomous system number is cut to

Classes == {"domain", "ip network", "autnum", "nameserver", "entity"}

(* objectClassName is absent or no string, or names something else. *)
NoClass == "absent"
OtherClass == "other"

KnownByPlace(list) ==
    /\ DOMAIN list \subseteq Nat
    /\ IsFiniteSet(DOMAIN list)
    /\ \A i \in DOMAIN list : list[i].id = i

(* A property of a vcard is an fn with a text, an fn without one, no list    *)
(* that begins with a name, or another one.                                  *)
Unreadable == {"fn_without_text", "garbled"}

IsVcard(vcard) ==
    /\ DOMAIN vcard \subseteq Nat \ {0}
    /\ \A i \in DOMAIN vcard : vcard[i] \in {"fn", "other"} \cup Unreadable

ASSUME NormalizerAssumption ==
    /\ Wide \in Nat \ {0}
    /\ \A b \in Bodies :
        /\ KnownByPlace(b.entities) /\ KnownByPlace(b.list)
        /\ \A i \in DOMAIN b.entities : IsVcard(b.entities[i].vcard)
        /\ b.number \in Nat

VARIABLES
    asked,     \* the class the method expects
    body,
    response

normal == <<asked, body, response>>

NoResponse == <<>>

(* check_object_class: "ok", or the error. *)
ClassError(expected, class) ==
    CASE class = NoClass -> "MissingObjectClass"
      [] class = expected -> "ok"
      [] OTHER -> "UnknownObjectClass"

(* Mutant: the list is collected into a Result. *)
AllOrNothing(list) == IF \A i \in DOMAIN list : list[i].sound THEN list ELSE <<>>

(* parse_entities, parse_events, ...: what does not deserialize is left out. *)
Parsed(list) == Filtered(list, {i \in DOMAIN list : list[i].sound})

(* Mutant: only the first property is looked at. *)
FirstPropertyName(vcard) ==
    IF vcard # <<>> /\ vcard[1] = "fn" THEN 1 ELSE 0

(* extract_vcard_name: the first property that is not "other" ends the      *)
(* search; one that cannot be read hides an fn behind it.                   *)
VcardName(vcard) ==
    LET first == {i \in DOMAIN vcard : vcard[i] # "other"} IN
    IF first = {} \/ vcard[Min(first)] # "fn" THEN 0 ELSE Min(first)

(* extract_registrar: the first entity with the role, among those parsed;   *)
(* entities nested in it or in others are not looked at.                    *)
Registrar(entities) ==
    LET registrars == {i \in DOMAIN entities : entities[i].registrar} IN
    IF registrars = {} THEN NoResponse
    ELSE [id |-> entities[Min(registrars)].id,
          name |-> VcardName(entities[Min(registrars)].vcard)]

(* What the five methods have in common.                                    *)
Response(class, b) ==
    [class |-> class, entities |-> Parsed(b.entities), list |-> Parsed(b.list),
     registrar |-> NoResponse, number |-> 0]

DomainResponse(b) ==
    [Response("domain", b) EXCEPT !.registrar = Registrar(Parsed(b.entities))]

IpResponse(b) == Response("ip network", b)

(* Mutant: the number is cut to a narrower type. *)
NarrowAsnResponse(b) == [Response("autnum", b) EXCEPT !.number = b.number % (Wide \div 2)]

(* `as u32` keeps the low bits of startAutnum and endAutnum. *)
AsnResponse(b) == [Response("autnum", b) EXCEPT !.number = b.number % Wide]

NameserverResponse(b) == Response("nameserver", b)

EntityResponse(b) == Response("entity", b)

(* The method for the class that was asked for. *)
Normalized(class, b) ==
    CASE class = "domain" -> DomainResponse(b)
      [] class = "ip network" -> IpResponse(b)
      [] class = "autnum" -> AsnResponse(b)
      [] class = "nameserver" -> NameserverResponse(b)
      [] class = "entity" -> EntityResponse(b)

NormalizerInit == asked = NoClass /\ body = NoBody /\ response = NoResponse

-----------------------------------------------------------------------------
Ids(list) == {list[i].id : i \in DOMAIN list}
SoundIds(list) == {list[i].id : i \in {j \in DOMAIN list : list[j].sound}}

(* Nothing but what is unreadable is left out of a list, and the order stays. *)
FaithfulList(list, original) ==
    /\ Ids(list) = SoundIds(original)
    /\ Len(list) = Cardinality(SoundIds(original))
    /\ \A i, j \in DOMAIN list : i < j => list[i].id < list[j].id

(* The name is the first fn of the vcard; there is none only if every fn     *)
(* stands behind a property that cannot be read.                             *)
FaithfulName(vcard, name) ==
    LET named == {i \in DOMAIN vcard : vcard[i] = "fn"} IN
    \/ name \in named /\ \A i \in named : name <= i
    \/ /\ name = 0
       /\ \A i \in named : \E j \in DOMAIN vcard : j < i /\ vcard[j] \in Unreadable

(* The registrar is the first readable entity that has the role. *)
FaithfulRegistrar(registrar, entities) ==
    LET holders == {i \in DOMAIN entities : entities[i].sound /\ entities[i].registrar} IN
    IF holders = {} THEN registrar = NoResponse
    ELSE \E i \in holders :
            /\ \A j \in holders : i <= j
            /\ registrar.id = entities[i].id
            /\ FaithfulName(entities[i].vcard, registrar.name)

(* A response has the class its caller asked for.  One unreadable element    *)
(* costs its list that element only; the registrar of a domain goes without  *)
(* its name only where an unreadable property stands before it; and the      *)
(* number of an autonomous system is another one only if it has more than    *)
(* 32 bits (normalizer.rs).                                                  *)
FaithfulTo(class, b, answer) ==
    /\ answer.class = class /\ b.class = class
    /\ FaithfulList(answer.entities, b.entities)
    /\ FaithfulList(answer.list, b.list)
    /\ class = "domain" => FaithfulRegistrar(answer.registrar, b.entities)
    /\ class = "autnum" /\ b.number < Wide => answer.number = b.number

Faithful == FaithfulTo(asked, body, response)
=============================================================================
