---------------------------- MODULE MCRequestPath ----------------------------
(* Files of up to two services, names of up to three labels, a zone with    *)
(* public and blocked addresses, the documents of up to four nodes, and     *)
(* bodies with up to two entities and list elements.                        *)
EXTENDS RequestPath

L(text) == [text |-> text, capital |-> FALSE]
U(text) == [text |-> text, capital |-> TRUE]

Https(host) == Url("https", FALSE, host)
Example  == Https(Named("rdap.example"))
Literal4 == Https(Literal([family |-> "v4", range |-> "public"]))
Plain    == Url("http", FALSE, Named("rdap.example"))
Garbled  == Https(Literal([family |-> "v4", range |-> "no such number"]))
CustomServer == Https(Literal([family |-> "v6", range |-> "public"]))

Patterns == {<<L("uk")>>, <<U("uk")>>, <<L("co"), L("uk")>>, <<L("com")>>}
ServerLists == {<<>>, <<NoUrl>>, <<NoUrl, Example>>, <<Literal4>>, <<Plain>>, <<Garbled>>}

Services(patternLists) == [patterns : patternLists, servers : ServerLists]
Files(patternLists) ==
    {<<>>} \cup {<<s>> : s \in Services(patternLists)}
           \cup {<<s, t>> : s, t \in Services(patternLists)}

DomainQuestions ==
    [kind : {"domain"},
     custom : {<<>>, (<<U("uk")>> :> CustomServer), (<<L("co"), L("uk")>> :> CustomServer)},
     file : Files({<<p>> : p \in Patterns}),
     name : {<<L("co"), L("uk")>>, <<L("a"), U("co"), L("uk")>>, <<L("a"), L("com")>>}]

NumberPatterns == {AsnRange(1, 1), AsnRange(0, 2), AsnRange(3, 1),
                   Network(0, 0), Network(3, 1), Network(2, 2), Unparsable}
NumberQuestions ==
    [kind : {"number"},
     file : Files({<<p>> : p \in NumberPatterns} \cup {<<Unparsable, AsnRange(2, 2)>>}),
     number : {1, 2}]

EntityQuestions == [kind : {"entity"}, server : {Example, Plain, Https(NoHost)}]

MCQuestions == DomainQuestions \cup NumberQuestions \cup EntityQuestions \cup {Malformed, FileMissing}

MCMirrors == {Https(Named("data.iana.org")), Plain, Literal4, Garbled}

MCLocations == {Literal4, Plain, Garbled, Url("https", TRUE, Named("rdap.example")),
                Https(Named("other.example")), Https(Named("localhost")),
                Https(NoHost), Https(Literal([family |-> "mapped", range |-> "private"]))}

MCZone == {[family |-> "v4", range |-> "public"], [family |-> "v6", range |-> "public"],
           [family |-> "mapped", range |-> "private"], [family |-> "v4", range |-> "cgnat"],
           [family |-> "v6", range |-> "nat64"]}

(* Shapes of trees, by the parents of their nodes: all of up to four nodes,  *)
(* and of those with five the widest, the deepest and the one that keeps    *)
(* most nodes waiting.                                                      *)
Shapes ==
    {<<0>>, <<0, 1>>} \cup {<<0, 1, p>> : p \in 1 .. 2}
        \cup {<<0, 1, p, q>> : p \in 1 .. 2, q \in 1 .. 3}
        \cup {<<0, 1, 1, 1, 1>>, <<0, 1, 2, 3, 4>>, <<0, 1, 1, 3, 3>>}

(* What has children is a container; of five nodes the fifth is like the    *)
(* fourth.  The second is a child of the root, with the key that is named.  *)
Tree(parents, kinds, key) ==
    LET nodes == DOMAIN parents
        inner == {parents[m] : m \in nodes}
        given == [m \in nodes |-> kinds[IF m = 5 THEN 4 ELSE m]] IN
    [kind |-> [m \in nodes |->
                IF m \in inner /\ given[m] # "array" THEN "object" ELSE given[m]],
     parent |-> parents,
     key |-> [m \in nodes |-> IF m = 2 THEN key ELSE OtherKey]]

LeafKinds == {"scalar", "long_string", "array"}

MCDocuments ==
    {Tree(parents, kinds, key) : parents \in Shapes, kinds \in [1 .. 4 -> LeafKinds],
                                 key \in {OtherKey, "entities", "remarks"}}

Vcards == {<<>>, <<"other", "fn">>, <<"fn", "garbled", "fn">>, <<"garbled", "fn">>,
           <<"fn_without_text", "fn">>}
Entity(sound, registrar, vcard) == [sound |-> sound, registrar |-> registrar, vcard |-> vcard]
Contacts == {Entity(FALSE, TRUE, <<>>), Entity(TRUE, FALSE, <<>>)}
                \cup {Entity(TRUE, TRUE, v) : v \in Vcards}

(* Elements are known by their place in the document. *)
Numbered(elements) == [i \in DOMAIN elements |-> [id |-> i] @@ elements[i]]
UpTo(S, n) == UNION {[1 .. m -> S] : m \in 0 .. n}

Body(class, entities, list, number) ==
    [class |-> class, entities |-> Numbered(entities), list |-> Numbered(list),
     number |-> number]

MCBodies ==
    {Body("domain", es, ls, 0) : es \in UpTo(Contacts, 2), ls \in {<<>>, <<[sound |-> FALSE]>>}}
        \cup {Body(class, <<>>, ls, n) :
                  class \in {"domain", "autnum", "entity", NoClass, OtherClass},
                  ls \in UpTo([sound : BOOLEAN], 3), n \in {3, 5}}
=============================================================================
