------------------------------ MODULE Addresses ------------------------------
(***************************************************************************)
(* What the egress path accepts as an address or a URL                     *)
(* (crates/rdap-security/src/ip.rs, dns.rs, url.rs and SsrfGuard of        *)
(* lib.rs).                                                                *)
(*                                                                         *)
(* An address is its family and the range its bits fall in.  The family    *)
(* "mapped" is an IPv6 address that carries an IPv4 one (::ffff:a.b.c.d):  *)
(* its range is that of the IPv4 address, and no rule about IPv6 sees it.  *)
(* A host is a name or an address literal.                                 *)
(***************************************************************************)
CONSTANT NoUrl  \* no URL

V4Ranges == {"public", "loopback", "private", "link_local", "unspecified",
             "broadcast", "cgnat", "test_net"}
V6Ranges == {"public", "loopback", "unique_local", "link_local", "unspecified",
             "nat64"}

Address == [family : {"v4", "mapped"}, range : V4Ranges]
             \cup [family : {"v6"}, range : V6Ranges]

Canonicalize(a) == IF a.family = "mapped" THEN [a EXCEPT !.family = "v4"] ELSE a

(* Each classifier of ip.rs canonicalizes for itself and then applies its   *)
(* rule for the family.                                                     *)
Falls(a, v4, v6) == LET c == Canonicalize(a) IN
    \/ c.family = "v4" /\ c.range \in v4
    \/ c.family = "v6" /\ c.range \in v6

IsLoopback(a)   == Falls(a, {"loopback"}, {"loopback"})
IsPrivate(a)    == Falls(a, {"private"}, {"unique_local"})
IsLinkLocal(a)  == Falls(a, {"link_local"}, {"link_local"})
IsSpecialUse(a) == Falls(a, {"cgnat", "test_net"}, {"nat64"})

IsBlocked(a) ==
    \/ IsLoopback(a)
    \/ IsPrivate(a)
    \/ IsLinkLocal(a)
    \/ IsSpecialUse(a)
    \/ Falls(a, {"unspecified", "broadcast"}, {"unspecified"})

(* validate_resolved_ips: one blocked address condemns the whole answer.    *)
(* Which of its errors comes first is all one to the callers.               *)
AnswerAccepted(ips) ==
    \A a \in ips :
        ~(IsLoopback(a) \/ IsLinkLocal(a) \/ IsPrivate(a) \/ IsBlocked(a))

-----------------------------------------------------------------------------
Named(n)   == [kind |-> "name", name |-> n]
Literal(a) == [kind |-> "literal", address |-> a]
NoHost     == [kind |-> "none"]

Url(scheme, credentials, host) ==
    [scheme |-> scheme, credentials |-> credentials, host |-> host]

(* Url::parse: the text of an address literal must be an address. *)
Parses(url) == url.host.kind = "literal" => url.host.address \in Address

IsLocalhost(host) == host = Named("localhost")
IsBlockedLiteral(host) == host.kind = "literal" /\ IsBlocked(host.address)

(* validate_url: "ok", or the class of the first check that fails.          *)
ValidateUrl(url) ==
    CASE url.scheme # "https" -> "InsecureScheme"
      [] url.scheme = "https" /\ url.credentials -> "SsrfBlocked"
      [] OTHER -> IF \/ url.host = NoHost
                     \/ IsLocalhost(url.host)
                     \/ IsBlockedLiteral(url.host)
                  THEN "SsrfBlocked" ELSE "ok"

(* SsrfGuard::validate with empty allowed and blocked lists, as the default *)
(* configuration has them: it parses the URL and applies the checks of      *)
(* validate_url, except that credentials and the name localhost pass.       *)
GuardValidate(url) ==
    CASE ~Parses(url) -> "InvalidUrl"
      [] Parses(url) /\ url.scheme # "https" -> "InsecureScheme"
      [] Parses(url) /\ url.scheme = "https" /\ url.host = NoHost -> "InvalidInput"
      [] OTHER -> IF IsBlockedLiteral(url.host) THEN "SsrfBlocked" ELSE "ok"
=============================================================================
