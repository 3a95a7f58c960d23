--------------------------- MODULE RequestPathProofs ---------------------------
(***************************************************************************)
(* What RequestPath promises of the wire, for every bootstrap file, every  *)
(* zone, every server and every limit.                                     *)
(*                                                                         *)
(* ReachesOnlyPublic and WireBounded are not inductive.  The first needs   *)
(* that the current URL of a request has passed validate_url, since a      *)
(* literal is not resolved when the client connects; the second needs that *)
(* a redirect is counted between two requests.                             *)
(*                                                                         *)
(* ErrorsAgree needs the list of the errors a lookup can end with.         *)
(* WalkDecides needs that no node is forgotten: each was seen to be within *)
(* the limits, or it or a node above it waits on the stack; and that what  *)
(* waits at one level are the siblings of one node.  EachNodeOnce needs    *)
(* that of what waits nothing is in anything else.  Normalised follows     *)
(* from what a selection by place keeps of a list.  RightServer needs that *)
(* a lookup keeps its question until the request begins; what the answer   *)
(* is worth is then a matter of the file alone.                            *)
(***************************************************************************)
EXTENDS RequestPath, FiniteSetTheorems, SequenceTheorems, WellFoundedInduction, TLAPS

(* Before the first request of an exchange, and once its body is complete,   *)
(* nothing is sent, counted, announced or buffered.                          *)
Fresh ==
    stage \in {"ask", "found", "admit", "parse"} =>
        /\ sent = 0
        /\ redirect_count = 0
        /\ announced = {} /\ buffered = 0 /\ capacity = 0

(* A request is out, or about to be, for a URL that was validated. *)
Validated ==
    stage \in {"check", "send", "sent", "read"} \/ sent > 0 =>
        /\ Parses(url)
        /\ ValidateUrl(url) = "ok"

(* Every request but the one at hand was answered by a counted redirect. *)
Counted ==
    /\ redirect_count \in 0 .. MaxRedirects
    /\ sent \in Nat
    /\ sent <= redirect_count + 1
    /\ stage \in {"check", "send"} => sent <= redirect_count

PublicPeer == peer # NoPeer => peer.range = "public"

(* A buffer grows only when it is full, to twice its size or to what is      *)
(* needed: what it holds then is more than half of it.                       *)
Buffered ==
    /\ buffered \in Nat /\ buffered <= Cap
    /\ capacity \in Nat
    /\ \/ capacity <= InAdvance
       \/ capacity <= SmallBuffer
       \/ capacity < 2 * buffered

WireInv == Fresh /\ Validated /\ Counted /\ PublicPeer /\ Buffered

-----------------------------------------------------------------------------
(* What is_blocked_ip lets through is public, an IPv4 address in IPv6       *)
(* clothes included (ip.rs).                                                *)
LEMMA UnblockedIsPublic ==
    ASSUME NEW a \in Address, ~IsBlocked(a)
    PROVE  a.range = "public"
<1>1. CASE a.family = "v6"
    BY <1>1 DEF Address, V4Ranges, V6Ranges, IsBlocked, IsLoopback, IsPrivate,
        IsLinkLocal, IsSpecialUse, Falls, Canonicalize
<1>2. CASE a.family = "v4"
    BY <1>2 DEF Address, V4Ranges, V6Ranges, IsBlocked, IsLoopback, IsPrivate,
        IsLinkLocal, IsSpecialUse, Falls, Canonicalize
<1>3. CASE a.family = "mapped"
  <2>1. a.range \in V4Ranges
      BY <1>3 DEF Address
  <2>2. Canonicalize(a).family = "v4" /\ Canonicalize(a).range = a.range
      BY <1>3 DEF Address, Canonicalize
  <2>3. QED
      BY <2>1, <2>2 DEF V4Ranges, IsBlocked, IsLoopback, IsPrivate, IsLinkLocal,
          IsSpecialUse, Falls
<1>4. QED
    BY <1>1, <1>2, <1>3 DEF Address

(* Wherever the client may connect for a validated URL is public            *)
(* (SecureResolver, validate_url).                                          *)
LEMMA ReachableIsPublic ==
    ASSUME NEW u, Parses(u), ValidateUrl(u) = "ok", NEW a \in Reachable(u.host)
    PROVE  a.range = "public"
<1>1. CASE u.host.kind = "literal"
  <2>1. a = u.host.address /\ a \in Address
      BY <1>1 DEF Reachable, Parses
  <2>2. ~IsBlockedLiteral(u.host)
      BY DEF ValidateUrl
  <2>3. QED
      BY <1>1, <2>1, <2>2, UnblockedIsPublic DEF IsBlockedLiteral
<1>2. CASE u.host.kind # "literal"
  <2>1. PICK ips \in SUBSET ZoneAddresses : AnswerAccepted(ips) /\ a \in ips
      BY <1>2 DEF Reachable
  <2>2. a \in Address /\ ~IsBlocked(a)
      BY <2>1, EgressAssumption DEF AnswerAccepted, EgressAssumption
  <2>3. QED
      BY <2>2, UnblockedIsPublic
<1>3. QED
    BY <1>1, <1>2

LEMMA FailWithKeepsWire ==
    ASSUME WireInv, NEW error, FailWith(error)
    PROVE  WireInv'
BY DEF WireInv, Fresh, Validated, Counted, PublicPeer, Buffered, Cap,
    InAdvance, download, wire, FailWith, Parses, ValidateUrl

LEMMA FailKeepsWire ==
    ASSUME WireInv, NEW kind, Fail(kind)
    PROVE  WireInv'
BY FailWithKeepsWire DEF Fail

-----------------------------------------------------------------------------
LEMMA InitWire == Init => WireInv
BY EgressAssumption DEF Init, EgressInit, WireInv, Fresh, Validated, Counted,
    PublicPeer, Buffered, Cap, InAdvance, download, EgressAssumption

(* A step that touches neither the URL nor what was sent and read. *)
LEMMA GotoKeepsWire ==
    ASSUME WireInv, stage' \notin {"check", "send", "sent", "read"},
           stage' \in {"ask", "found", "admit", "parse"}
               => stage \in {"ask", "found", "admit", "parse"},
           UNCHANGED wire
    PROVE  WireInv'
BY DEF WireInv, Fresh, Validated, Counted, PublicPeer, Buffered, Cap,
    InAdvance, download, wire, Parses, ValidateUrl

LEMMA AdmitKeepsWire == WireInv /\ Admit => WireInv'
<1> SUFFICES ASSUME WireInv, Admit PROVE WireInv'
    OBVIOUS
<1>1. CASE FirstError(url) # "ok" /\ Fail(FirstError(url))
    BY <1>1, FailKeepsWire
<1>2. CASE FirstError(url) = "ok" /\ Goto("check")
           /\ UNCHANGED wire
  <2>1. GuardValidate(url) = "ok" /\ ValidateUrl(url) = "ok"
      BY <1>2 DEF FirstError
  <2>2. Parses(url)
      BY <2>1 DEF GuardValidate
  <2>3. QED
      BY <1>2, <2>1, <2>2 DEF Admit, Goto, WireInv, Fresh, Validated, Counted,
          PublicPeer, Buffered, Cap, InAdvance, download, wire, Parses, ValidateUrl
<1>3. QED
    BY <1>1, <1>2 DEF Admit

LEMMA CheckKeepsWire == WireInv /\ Check => WireInv'
<1> SUFFICES ASSUME WireInv, Check PROVE WireInv'
    OBVIOUS
<1>1. CASE Fail("SsrfBlocked")
    BY <1>1, FailKeepsWire
<1>2. CASE Goto("send") /\ UNCHANGED wire
    BY <1>2 DEF Check, Goto, WireInv, Fresh, Validated, Counted, PublicPeer, Buffered,
        Cap, InAdvance, download, wire, Parses, ValidateUrl
<1>3. QED
    BY <1>1, <1>2 DEF Check

LEMMA SendKeepsWire == WireInv /\ Send => WireInv'
<1> SUFFICES ASSUME WireInv, Send PROVE WireInv'
    OBVIOUS
<1>1. Parses(url) /\ ValidateUrl(url) = "ok" /\ UNCHANGED url
    BY DEF WireInv, Validated, Send
<1>2. PublicPeer'
  <2>1. PICK a \in Reachable(url.host) : peer' = a
      BY DEF Send
  <2>2. QED
      BY <1>1, <2>1, ReachableIsPublic DEF PublicPeer
<1>3. Validated'
    BY <1>1 DEF Validated, Parses, ValidateUrl
<1>4. Fresh' /\ Counted' /\ Buffered'
    BY DEF WireInv, Fresh, Counted, Buffered, Cap, InAdvance, download, Send, Goto
<1>5. QED
    BY <1>2, <1>3, <1>4 DEF WireInv

LEMMA RedirectKeepsWire == WireInv /\ Redirect => WireInv'
<1> SUFFICES ASSUME WireInv, Redirect PROVE WireInv'
    OBVIOUS
<1>1. PICK to \in {u \in Locations : Parses(u)} \cup {url} :
        \/ ValidateUrl(to) # "ok" /\ Fail(ValidateUrl(to))
        \/ /\ ValidateUrl(to) = "ok"
           /\ Goto("check")
           /\ url' = to
           /\ redirect_count' = redirect_count + 1
           /\ UNCHANGED <<reader, sent, peer, download>>
    BY DEF Redirect
<1>2. CASE ValidateUrl(to) # "ok" /\ Fail(ValidateUrl(to))
    BY <1>2, FailKeepsWire
<1>3. CASE /\ ValidateUrl(to) = "ok"
           /\ Goto("check")
           /\ url' = to
           /\ redirect_count' = redirect_count + 1
           /\ UNCHANGED <<reader, sent, peer, download>>
  <2>1. Parses(to)
      BY DEF WireInv, Validated, Redirect
  <2>2. Validated'
      BY <1>3, <2>1 DEF Validated, Parses, ValidateUrl
  <2>3. Counted'
      BY <1>3, EgressAssumption DEF WireInv, Counted, Redirect, MayFollow, Goto,
          EgressAssumption
  <2>4. Fresh' /\ PublicPeer' /\ Buffered'
      BY <1>3 DEF WireInv, Fresh, PublicPeer, Buffered, Cap, InAdvance, download, Goto
  <2>5. QED
      BY <2>2, <2>3, <2>4 DEF WireInv
<1>4. QED
    BY <1>1, <1>2, <1>3

LEMMA LargestFound ==
    ASSUME NEW a \in Nat, NEW b \in Nat, NEW c \in Nat
    PROVE  Max({a, b, c}) \in {a, b, c}
<1>1. \E x \in {a, b, c} : \A y \in {a, b, c} : x >= y
    BY SMT
<1>2. QED
    BY <1>1 DEF Max

(* The buffer is fresh when a body is announced, and grows when it is full. *)
LEMMA ReadKeepsWire == WireInv /\ (AnnounceFile \/ Announce \/ Chunk) => WireInv'
<1> SUFFICES ASSUME WireInv, AnnounceFile \/ Announce \/ Chunk PROVE WireInv'
    OBVIOUS
<1>1. CASE Fail("ParseError")
    BY <1>1, FailKeepsWire
<1>2. CASE ~Fail("ParseError")
  <2>1. /\ stage \in {"sent", "read"}
        /\ Goto("read")
        /\ UNCHANGED <<reader, url, redirect_count, sent, peer>>
      BY <1>2 DEF AnnounceFile, Announce, Chunk, SameExchange
  <2>2. Fresh' /\ Counted' /\ PublicPeer'
      BY <2>1 DEF WireInv, Fresh, Counted, PublicPeer, Goto
  <2>3. Validated'
      BY <2>1 DEF WireInv, Validated, Goto, Parses, ValidateUrl
  <2>4. Buffered'
    <3>1. CASE AnnounceFile
        BY <2>1, <3>1, EgressAssumption DEF WireInv, Buffered, Cap, InAdvance, AnnounceFile,
            EgressAssumption
    <3>2. CASE Announce
      <4>1. CASE UNCHANGED download
          BY <2>1, <4>1 DEF WireInv, Buffered, Cap, InAdvance, download
      <4>2. CASE ~UNCHANGED download
          BY <1>2, <2>1, <3>2, <4>2, EgressAssumption DEF WireInv, Buffered, Cap, InAdvance,
              Announce, FitsAnnounced, EgressAssumption
      <4>3. QED
          BY <4>1, <4>2
    <3>3. CASE Chunk
      <4>1. PICK chunk \in 1 .. MaxChunk :
                /\ buffered + chunk <= Cap
                /\ buffered' = buffered + chunk
                /\ capacity' = Grown(buffered + chunk)
          BY <1>2, <3>3 DEF Chunk, Fits
      <4>2. buffered \in Nat /\ capacity \in Nat /\ chunk \in Nat /\ chunk >= 1
          BY <4>1, EgressAssumption DEF WireInv, Buffered, EgressAssumption
      <4>3. CASE buffered + chunk <= capacity
          BY <2>1, <4>1, <4>2, <4>3 DEF WireInv, Buffered, Cap, InAdvance, Grown
      <4>4. CASE ~(buffered + chunk <= capacity)
        <5> DEFINE need == buffered + chunk
        <5>1. capacity' \in {need, 2 * capacity, SmallBuffer}
            BY <4>1, <4>2, <4>4, LargestFound, EgressAssumption DEF Grown, EgressAssumption
        <5>2. QED
            BY <2>1, <4>1, <4>2, <4>4, <5>1, EgressAssumption DEF Buffered, Cap, InAdvance,
                EgressAssumption
      <4>5. QED
          BY <4>3, <4>4
    <3>4. QED
        BY <3>1, <3>2, <3>3
  <2>5. QED
      BY <2>2, <2>3, <2>4 DEF WireInv
<1>3. QED
    BY <1>1, <1>2

(* The other steps of the exchange fail, or forget it. *)
LEMMA ExchangeKeepsWire == WireInv /\ EgressNext => WireInv'
<1> SUFFICES ASSUME WireInv, EgressNext PROVE WireInv'
    OBVIOUS
<1>1. CASE Admit
    BY <1>1, AdmitKeepsWire
<1>2. CASE Check
    BY <1>2, CheckKeepsWire
<1>3. CASE Send
    BY <1>3, SendKeepsWire
<1>4. CASE Redirect
    BY <1>4, RedirectKeepsWire
<1>5. CASE AnnounceFile \/ Announce \/ Chunk
    BY <1>5, ReadKeepsWire
<1>6. CASE ConnectFails \/ SendTimesOut \/ SendBreaks \/ RedirectRefused
           \/ ErrorStatus \/ BodyBreaks
    BY <1>6, FailKeepsWire, FailWithKeepsWire DEF ConnectFails, SendTimesOut, SendBreaks,
        RedirectRefused, ErrorStatus, BodyBreaks
<1>7. CASE BodyEnds
    BY <1>7, EgressAssumption DEF BodyEnds, Goto, WireInv, Fresh, Validated, Counted,
        PublicPeer, Buffered, Cap, InAdvance, download, EgressAssumption
<1>8. QED
    BY <1>1, <1>2, <1>3, <1>4, <1>5, <1>6, <1>7 DEF EgressNext

(* The download of a bootstrap file begins and ends like a request.         *)
LEMMA DownloadKeepsWire == WireInv /\ Download => WireInv'
<1> SUFFICES ASSUME WireInv, Download PROVE WireInv'
    OBVIOUS
<1>1. PICK base \in Mirrors :
        \/ ~Parses(base) /\ Fail("InvalidUrl")
        \/ Parses(base) /\ ValidateUrl(base) # "ok" /\ Fail(ValidateUrl(base))
        \/ /\ Parses(base) /\ ValidateUrl(base) = "ok"
           /\ Goto("check")
           /\ url' = base
           /\ reader' = "bootstrap"
           /\ UNCHANGED <<redirect_count, sent, peer, download>>
    BY DEF Download
<1>2. CASE Fail("InvalidUrl") \/ Fail(ValidateUrl(base))
    BY <1>2, FailKeepsWire
<1>3. CASE /\ Parses(base) /\ ValidateUrl(base) = "ok"
           /\ Goto("check")
           /\ url' = base
           /\ reader' = "bootstrap"
           /\ UNCHANGED <<redirect_count, sent, peer, download>>
  <2>1. sent = 0 /\ redirect_count = 0 /\ announced = {} /\ buffered = 0 /\ capacity = 0
      BY DEF Download, WireInv, Fresh
  <2>2. Validated'
      BY <1>3 DEF Validated, Parses, ValidateUrl
  <2>3. Fresh' /\ Counted' /\ PublicPeer'
      BY <1>3, <2>1 DEF WireInv, Fresh, Counted, PublicPeer, Goto
  <2>4. Buffered'
      BY <1>3, <2>1, EgressAssumption DEF WireInv, Buffered, Cap, InAdvance,
          download, EgressAssumption
  <2>5. QED
      BY <2>2, <2>3, <2>4 DEF WireInv
<1>4. QED
    BY <1>1, <1>2, <1>3

LEMMA ParseFileKeepsWire == WireInv /\ ParseFile => WireInv'
<1> SUFFICES ASSUME WireInv, ParseFile PROVE WireInv'
    OBVIOUS
<1>1. CASE Fail("ParseError")
    BY <1>1, FailKeepsWire
<1>2. CASE ~Fail("ParseError")
  <2>1. /\ stage = "parse" /\ Goto("ask") /\ reader' = "query"
        /\ UNCHANGED <<url, redirect_count, sent, peer, download>>
      BY <1>2 DEF ParseFile
  <2>2. sent = 0 /\ redirect_count = 0 /\ announced = {} /\ buffered = 0 /\ capacity = 0
      BY <2>1 DEF WireInv, Fresh
  <2>3. Fresh' /\ Counted' /\ PublicPeer' /\ Validated'
      BY <2>1, <2>2 DEF WireInv, Fresh, Counted, PublicPeer, Validated, Goto,
          download
  <2>4. Buffered'
      BY <2>1, <2>2, EgressAssumption DEF WireInv, Buffered, Cap, InAdvance,
          download, EgressAssumption
  <2>5. QED
      BY <2>3, <2>4 DEF WireInv
<1>3. QED
    BY <1>1, <1>2

(* The other phases of a lookup do not touch the wire; the lookup and the   *)
(* start of the request happen before it.                                   *)
LEMMA NextWire == WireInv /\ [Next]_vars => WireInv'
<1> SUFFICES ASSUME WireInv, [Next]_vars PROVE WireInv'
    OBVIOUS
<1>1. CASE RefuseInput \/ Throttled \/ Refused
    BY <1>1, FailKeepsWire DEF RefuseInput, Throttled, Refused
<1>2. CASE Lookup
  <2>1. CASE Fail("NoServerFound")
      BY <2>1, FailKeepsWire
  <2>2. CASE ~Fail("NoServerFound")
      BY <1>2, <2>2, GotoKeepsWire DEF Lookup, Goto
  <2>3. QED
      BY <2>1, <2>2
<1>3. CASE Begin
  <2>1. CASE Fail(ExtractHost(server))
      BY <2>1, FailKeepsWire
  <2>2. CASE ~Fail(ExtractHost(server))
      BY <1>3, <2>2 DEF Begin, Goto, WireInv, Fresh, Validated, Counted, PublicPeer,
          Buffered, Cap, InAdvance, download
  <2>3. QED
      BY <2>1, <2>2
<1>4. CASE Exchange
    BY <1>4, ExchangeKeepsWire DEF Exchange
<1>5. CASE Parse \/ Accepted
  <2>1. CASE Fail("ParseError")
      BY <2>1, FailKeepsWire
  <2>2. CASE ~Fail("ParseError")
      BY <1>5, <2>2, GotoKeepsWire DEF Parse, Accepted, Goto
  <2>3. QED
      BY <2>1, <2>2
<1>6. CASE Validate \/ UNCHANGED vars
  <2>1. UNCHANGED egress
      BY <1>6 DEF Validate, vars
  <2>2. QED
      BY <2>1 DEF egress, wire, WireInv, Fresh, Validated, Counted, PublicPeer, Buffered,
          Cap, InAdvance, download, Parses, ValidateUrl
<1>7. CASE Normalize
    BY <1>7, FailKeepsWire, FailWithKeepsWire DEF Normalize
<1>8. CASE Download
    BY <1>8, DownloadKeepsWire
<1>9. CASE ParseFile
    BY <1>9, ParseFileKeepsWire
<1>10. QED
    BY <1>1, <1>2, <1>3, <1>4, <1>5, <1>6, <1>7, <1>8, <1>9 DEF Next

LEMMA WireAlways == Spec => []WireInv
<1>1. QED
    BY InitWire, NextWire, PTL DEF Spec

-----------------------------------------------------------------------------
(* Every request of every lookup goes to a public address, over https and   *)
(* without credentials, whatever a zone answers to the second resolution    *)
(* and wherever a redirect leads (secure_request, SecureResolver).          *)
THEOREM OnlyPublicHosts == Spec => []ReachesOnlyPublic
<1>1. WireInv => ReachesOnlyPublic
  <2>1. ASSUME NEW u, ValidateUrl(u) = "ok"
        PROVE  u.scheme = "https" /\ ~u.credentials
      BY <2>1 DEF ValidateUrl
  <2>2. QED
      BY <2>1 DEF WireInv, Counted, Validated, PublicPeer, ReachesOnlyPublic
<1>2. QED
    BY <1>1, WireAlways, PTL

(* An attempt sends at most max_redirects + 1 requests; and of no body,     *)
(* however it is announced and cut into chunks, more than max_json_size is  *)
(* kept, nor of a bootstrap file more than its own limit; the buffer is no  *)
(* larger than what may be allocated in advance, or less than twice as      *)
(* large as what it holds (the loop of secure_request, read_limited,        *)
(* read_capped_bytes).                                                      *)
THEOREM WireWithinLimits == Spec => []WireBounded
<1>1. WireInv => WireBounded
    BY EgressAssumption DEF WireInv, Counted, Buffered, WireBounded, EgressAssumption
<1>2. QED
    BY <1>1, WireAlways, PTL

-----------------------------------------------------------------------------
(* The errors a lookup can end with.  The other variants of RdapError are   *)
(* constructed nowhere on its way (crates/rdap-types/src/error.rs).         *)
OtherKinds == {"InvalidInput", "InvalidUrl", "SsrfBlocked", "InsecureScheme",
               "Timeout", "RateLimited", "ParseError", "MissingObjectClass",
               "UnknownObjectClass", "Network", "CircuitOpen"}

OtherFailures == {Local(k) : k \in OtherKinds} \cup {HttpStatus(s) : s \in 400 .. 599}

LocalKinds == OtherKinds \cup {"NoServerFound"}

Failures == OtherFailures \cup {Local("NoServerFound")}

(* The outcome is open, a success, or an error of this list. *)
OutcomeInv == outcome \in {Pending, Success} \cup Failures

(* What the validations of a URL refuse it with. *)
LEMMA ValidationErrors ==
    ASSUME NEW u
    PROVE  /\ ValidateUrl(u) \in OtherKinds \cup {"ok"}
           /\ GuardValidate(u) \in OtherKinds \cup {"ok"}
           /\ ExtractHost(u) \in OtherKinds \cup {"ok"}
BY DEF ValidateUrl, GuardValidate, ExtractHost, OtherKinds

(* A lookup that fails of itself ends with a failure. *)
LEMMA FailsWithKind ==
    ASSUME NEW kind \in OtherKinds, Fail(kind)
    PROVE  outcome' \in OtherFailures
BY DEF Fail, FailWith, OtherFailures

(* An exchange leaves the outcome alone or ends it with a failure. *)
LEMMA ExchangeOutcome == EgressNext => outcome' \in OtherFailures \cup {outcome}
<1> SUFFICES ASSUME EgressNext PROVE outcome' \in OtherFailures \cup {outcome}
    OBVIOUS
<1>1. CASE Admit
  <2>1. FirstError(url) \in OtherKinds \cup {"ok"}
      BY ValidationErrors DEF FirstError
  <2>2. QED
      BY <1>1, <2>1, FailsWithKind DEF Admit, Goto
<1>2. CASE Redirect
    BY <1>2, ValidationErrors, FailsWithKind DEF Redirect, Goto
<1>3. CASE ErrorStatus
  <2>1. PICK status \in ErrorStatuses : FailWith(HttpStatus(status))
      BY <1>3 DEF ErrorStatus
  <2>2. QED
      BY <2>1, EgressAssumption DEF FailWith, OtherFailures, EgressAssumption
<1>4. CASE Send \/ AnnounceFile \/ BodyEnds
    BY <1>4 DEF Send, AnnounceFile, BodyEnds, Goto
<1>5. \A kind \in {"SsrfBlocked", "Network", "Timeout", "ParseError"} :
        Fail(kind) => outcome' \in OtherFailures
    BY FailsWithKind DEF OtherKinds
<1>6. CASE Check \/ ConnectFails \/ SendTimesOut \/ SendBreaks \/ RedirectRefused
            \/ Announce \/ Chunk \/ BodyBreaks
    BY <1>5, <1>6 DEF Check, ConnectFails, SendTimesOut, SendBreaks, RedirectRefused,
        Announce, Chunk, BodyBreaks, Goto
<1>7. QED
    BY <1>1, <1>2, <1>3, <1>4, <1>6 DEF EgressNext

(* Only the normalizer ends a lookup with success, and only the lookup in a *)
(* file or the overrides finds no server.                                    *)
LEMMA NextOutcome ==
    ASSUME [Next]_vars
    PROVE  \/ outcome' \in OtherFailures \cup {outcome}
           \/ Normalize /\ FailWith(Success)
           \/ Lookup /\ Fail("NoServerFound")
<1>1. \A kind \in OtherKinds : Fail(kind) => outcome' \in OtherFailures
    BY FailsWithKind
<1>2. CASE RefuseInput \/ Refused \/ ParseFile \/ Parse \/ Accepted \/ Throttled
    BY <1>1, <1>2 DEF RefuseInput, Refused, ParseFile, Parse, Accepted, Throttled,
        Goto, OtherKinds
<1>3. CASE Download
  <2>1. "InvalidUrl" \in OtherKinds
      BY DEF OtherKinds
  <2>2. QED
      BY <1>1, <1>3, <2>1, ValidationErrors DEF Download, Goto
<1>4. CASE Begin
    BY <1>1, <1>4, ValidationErrors DEF Begin, Goto
<1>5. CASE Exchange
    BY <1>5, ExchangeOutcome DEF Exchange
<1>6. CASE Validate \/ UNCHANGED vars
    BY <1>6 DEF Validate, vars, egress
<1>7. CASE Normalize
  <2>1. ClassError(asked', body'.class) \in OtherKinds \cup {"ok"}
      BY DEF ClassError, OtherKinds
  <2>2. QED
      BY <1>1, <1>7, <2>1 DEF Normalize
<1>8. CASE Lookup
    BY <1>8 DEF Lookup, Goto
<1>9. QED
    BY <1>2, <1>3, <1>4, <1>5, <1>6, <1>7, <1>8 DEF Next

(* The surfaces agree on every error there is.                              *)
LEMMA StatusAgrees ==
    ASSUME NEW s \in 400 .. 599
    PROVE  Agree(HttpStatus(s))
<1> DEFINE e == HttpStatus(s)
           a == R!HttpStatus(s)
<1>1. e.kind = "HttpStatus" /\ e.status = s
    BY DEF HttpStatus
<1>2. \A t \in Nat : e = HttpStatus(t) <=> s = t
    BY DEF HttpStatus
<1>3. AsAttempt(e) = a /\ a.kind = "http_status" /\ a.status = s
    BY <1>1 DEF AsAttempt, R!HttpStatus, R!Answered
<1>4. /\ status_code(e) = s
      /\ Category(e) = IF s = 404 THEN "NotFound" ELSE "Fatal"
      /\ exit_code(e) = IF s = 404 THEN 3 ELSE 1
      /\ error_code(e) = IF s = 404 THEN "not_found" ELSE "upstream_error"
      /\ classify_error(e) = IF s = 429 THEN "rate_limited" ELSE "invalid_response"
      /\ classify_retry(e) = IF s = 429 THEN "rate_limited"
                             ELSE IF s >= 500 THEN "http_5xx" ELSE "http_4xx"
      /\ MeansAvailable(e) <=> s = 404
    BY <1>1, <1>2 DEF status_code, Category, exit_code, error_code, classify_error,
        classify_retry, MeansAvailable, is_ssrf_blocked
<1>5. Retried(e) <=> s = 429 \/ s = 500 \/ s \in 502 .. 504
    BY <1>3 DEF Retried, R!retry_limit
<1>6. MovesBreaker(e) <=> s >= 500
    BY <1>3 DEF MovesBreaker, R!is_breaker_failure
<1> HIDE DEF e
<1>7. QED
    BY <1>4, <1>5, <1>6 DEF Agree, NotFoundAlike, RetriesCounted, RetryableIsRetried,
        FinalForAll, ThrottlingIsHealthy, e

LEMMA LocalAgrees ==
    ASSUME NEW k \in LocalKinds
    PROVE  Agree(Local(k))
<1> DEFINE e == Local(k)
<1>1. e.kind = k /\ e.status = 0 /\ k # "HttpStatus"
    BY DEF Local, LocalKinds, OtherKinds
<1>2. e # HttpStatus(404) /\ e # HttpStatus(429)
    BY <1>1 DEF HttpStatus
<1>3. Retried(e) <=> k \in {"Network", "Timeout"}
    BY <1>1 DEF Retried, AsAttempt, R!retry_limit, R!Network, R!Timeout, R!LocalError,
        R!Failure
<1>4. MovesBreaker(e) <=> k \in {"Network", "Timeout"}
    BY <1>1 DEF MovesBreaker, AsAttempt, R!is_breaker_failure, R!Network, R!Timeout,
        R!LocalError, R!Failure
<1> HIDE DEF e
<1>5. /\ status_code(e) = 404 <=> k = "NoServerFound"
      /\ k \in {"NoServerFound", "InvalidInput", "InvalidUrl", "InsecureScheme"}
            => status_code(e) < 500
    BY <1>1 DEF status_code, LocalKinds, OtherKinds
<1>6. /\ Category(e) = "NotFound" <=> k = "NoServerFound"
      /\ Category(e) = "Retryable" <=> k \in {"Network", "Timeout"}
      /\ Category(e) = "InvalidInput" <=> k \in {"InvalidInput", "InvalidUrl", "InsecureScheme"}
    BY <1>1, <1>2 DEF Category, LocalKinds, OtherKinds
<1>7. /\ exit_code(e) = 3 <=> k = "NoServerFound"
      /\ exit_code(e) = 2 <=> k \in {"InvalidInput", "InvalidUrl"}
      /\ error_code(e) = "not_found" <=> k = "NoServerFound"
    BY <1>1, <1>2 DEF exit_code, error_code, is_ssrf_blocked, LocalKinds, OtherKinds
<1>8. /\ classify_error(e) = "rate_limited" <=> k = "RateLimited"
      /\ k \in {"Network", "Timeout"} => classify_retry(e) # "http_4xx"
    BY <1>1, <1>2 DEF classify_error, classify_retry, LocalKinds, OtherKinds
<1>9. ~MeansAvailable(e)
    BY <1>2 DEF MeansAvailable
<1>10. Agree(e)
    BY <1>3, <1>4, <1>5, <1>6, <1>7, <1>8, <1>9 DEF Agree, NotFoundAlike, RetriesCounted,
        RetryableIsRetried, FinalForAll, ThrottlingIsHealthy
<1>11. QED
    BY <1>10 DEF e

(* Whatever error ends a lookup, the status code, the metric classes, the   *)
(* category of a batch result, the answer of the service and the exit code  *)
(* of the command line agree with one another, the retry loop and the       *)
(* breaker on whether an object is absent, an error final, a retry counted  *)
(* and throttling no failure (the matches over RdapError).                  *)
THEOREM SurfacesAgree == Spec => []ErrorsAgree
<1>1. Init => OutcomeInv
    BY DEF Init, EgressInit, OutcomeInv
<1>2. OutcomeInv => ErrorsAgree
    BY StatusAgrees, LocalAgrees DEF OutcomeInv, Failures, OtherFailures, LocalKinds, ErrorsAgree
<1>3. OutcomeInv /\ [Next]_vars => OutcomeInv'
    BY NextOutcome DEF OutcomeInv, Fail, FailWith, Failures
<1>4. QED
    BY <1>1, <1>2, <1>3, PTL DEF Spec

(* A non-empty set of natural numbers has a least member. *)
LEMMA LeastNatural ==
    ASSUME NEW N \in SUBSET Nat, N # {}
    PROVE  \E n \in N : \A m \in N : n <= m
<1>1. PICK n \in N : \A m \in N : ~ (<<m, n>> \in OpToRel(<, Nat))
    BY NatLessThanWellFounded, WFMin
<1>2. \A m \in N : ~ (m < n)
    BY <1>1 DEF OpToRel
<1> QED
    BY <1>2

(* A set of natural numbers that has 0 and all successors has them all.      *)
LEMMA NaturalSteps ==
    ASSUME NEW N \in SUBSET Nat, 0 \in N, \A n \in N : n + 1 \in N
    PROVE  N = Nat
<1> DEFINE rest == Nat \ N
<1> SUFFICES ASSUME rest # {} PROVE FALSE
    OBVIOUS
<1> HIDE DEF rest
<1>1. PICK n \in rest : \A m \in rest : n <= m
    BY LeastNatural DEF rest
<1>2. n \in Nat /\ n # 0 /\ n - 1 \in Nat
    BY <1>1 DEF rest
<1>3. n - 1 \in N
    BY <1>1, <1>2 DEF rest
<1> QED
    BY <1>1, <1>2, <1>3 DEF rest

(* The rank of a number grows with the number and stays below the size of   *)
(* the set.                                                                  *)
LEMMA BeforeSound ==
    ASSUME NEW S \in SUBSET Nat, IsFiniteSet(S)
    PROVE  /\ \A n \in S : Before(S, n) \in 0 .. Cardinality(S) - 1
           /\ \A n, m \in S : m < n => Before(S, m) < Before(S, n)
<1> DEFINE B(n) == {m \in S : m < n}
<1>1. \A n \in S : IsFiniteSet(B(n)) /\ Cardinality(B(n)) \in Nat
    BY FS_Subset, FS_CardinalityType
<1>2. ASSUME NEW n \in S PROVE Before(S, n) \in 0 .. Cardinality(S) - 1
    <2>1. B(n) \subseteq S /\ B(n) # S
        OBVIOUS
    <2>3. Cardinality(S) \in Nat
        BY FS_CardinalityType
    <2> HIDE DEF B
    <2>2. Cardinality(B(n)) < Cardinality(S)
        BY <1>1, <2>1, <2>3, FS_Subset
    <2>4. Before(S, n) = Cardinality(B(n))
        BY DEF Before, B
    <2>5. Cardinality(B(n)) \in Nat
        BY <1>1
    <2> QED
        BY <2>2, <2>3, <2>4, <2>5
<1>3. ASSUME NEW n \in S, NEW m \in S, m < n PROVE Before(S, m) < Before(S, n)
    <2>1. B(m) \subseteq B(n) /\ m \in B(n) /\ m \notin B(m)
        <3>1. ASSUME NEW x \in B(m) PROVE x \in B(n)
            <4>1. x \in S /\ x \in Nat /\ m \in Nat /\ n \in Nat /\ x < m
                OBVIOUS
            <4>2. x < n
                BY <1>3, <4>1
            <4> QED
                BY <4>1, <4>2
        <3>2. m \in B(n)
            BY <1>3
        <3>3. ~ (m < m)
            OBVIOUS
        <3> QED
            BY <3>1, <3>2, <3>3
    <2>2. IsFiniteSet(B(n)) /\ B(m) # B(n)
        BY <1>1, <2>1
    <2> HIDE DEF B
    <2>3. Cardinality(B(m)) < Cardinality(B(n))
        BY <1>1, <2>1, <2>2, FS_Subset
    <2> QED
        BY <2>3 DEF B, Before
<1> QED
    BY <1>2, <1>3

(* InOrder lists a finite set of numbers, each once, in ascending order.     *)
LEMMA InOrderSorted ==
    ASSUME NEW S \in SUBSET Nat, IsFiniteSet(S)
    PROVE  /\ Cardinality(S) \in Nat
           /\ InOrder(S) \in [1 .. Cardinality(S) -> S]
           /\ \A i, j \in 1 .. Cardinality(S) : i < j => InOrder(S)[i] < InOrder(S)[j]
           /\ \A n \in S : /\ Before(S, n) + 1 \in 1 .. Cardinality(S)
                           /\ InOrder(S)[Before(S, n) + 1] = n
<1> DEFINE k == Cardinality(S)
           ranks == 0 .. k - 1
           rank == [n \in S |-> Before(S, n)]
<1>1. k \in Nat
    BY FS_CardinalityType
<1>2. \A n, m \in S : Before(S, n) = Before(S, m) => n = m
    BY BeforeSound
<1>3. ASSUME NEW i \in ranks PROVE \E n \in S : Before(S, n) = i
    <2>1. rank \in Injection(S, ranks) /\ rank \in [S -> ranks]
        BY <1>2, BeforeSound DEF Injection, IsInjective
    <2>2. IsFiniteSet(ranks) /\ Cardinality(ranks) = k
        BY <1>1, FS_Interval
    <2> DEFINE image == {rank[n] : n \in S}
    <2>3. rank \in Bijection(S, image)
        BY <1>2 DEF Bijection, Injection, Surjection, IsInjective
    <2>4. Cardinality(image) = k /\ IsFiniteSet(image)
        <3> HIDE DEF image, rank, k
        <3> QED
            BY <2>3, FS_Bijection DEF ExistsBijection, k
    <2>5. image \subseteq ranks
        BY <2>1
    <2> HIDE DEF image, ranks
    <2>6. image = ranks
        BY <2>2, <2>4, <2>5, FS_Subset
    <2> QED
        BY <2>6 DEF image
<1>4. ASSUME NEW i \in 1 .. k
      PROVE  InOrder(S)[i] \in S /\ Before(S, InOrder(S)[i]) = i - 1
    <2>1. i - 1 \in ranks
        BY <1>1
    <2>2. \E n \in S : Before(S, n) = i - 1
        BY <1>3, <2>1
    <2> QED
        BY <2>2 DEF InOrder
<1>5. InOrder(S) \in [1 .. k -> S]
    BY <1>4 DEF InOrder
<1>6. ASSUME NEW i \in 1 .. k, NEW j \in 1 .. k, i < j
      PROVE  InOrder(S)[i] < InOrder(S)[j]
    <2> DEFINE a == InOrder(S)[i]
               b == InOrder(S)[j]
    <2>1. a \in S /\ b \in S /\ a \in Nat /\ b \in Nat
        BY <1>4
    <2>2. Before(S, a) < Before(S, b)
        BY <1>1, <1>4, <1>6
    <2>3. ~(b < a) /\ a # b
        <3> HIDE DEF a, b
        <3>1. Before(S, a) \in Nat /\ Before(S, b) \in Nat
            BY <1>1, <2>1, BeforeSound
        <3> QED
            BY <2>1, <2>2, <3>1, BeforeSound
    <2> QED
        BY <2>1, <2>3
<1>7. ASSUME NEW n \in S
      PROVE  Before(S, n) + 1 \in 1 .. k /\ InOrder(S)[Before(S, n) + 1] = n
    <2>1. Before(S, n) \in 0 .. k - 1
        BY BeforeSound
    <2>2. Before(S, n) + 1 \in 1 .. k
        BY <1>1, <2>1
    <2>3. Before(S, InOrder(S)[Before(S, n) + 1]) = Before(S, n)
        BY <1>1, <1>4, <2>1, <2>2
    <2> QED
        BY <1>2, <1>4, <2>2, <2>3
<1> QED
    BY <1>1, <1>5, <1>6, <1>7

(* A selection has the chosen items at their ranks and nothing else.         *)
LEMMA FilteredPlaces ==
    ASSUME NEW list, NEW K \in SUBSET Nat, IsFiniteSet(K)
    PROVE  /\ Cardinality(K) \in Nat
           /\ DOMAIN Filtered(list, K) = 1 .. Cardinality(K)
           /\ Len(Filtered(list, K)) = Cardinality(K)
           /\ \A i \in 1 .. Cardinality(K) :
                 InOrder(K)[i] \in K /\ Filtered(list, K)[i] = list[InOrder(K)[i]]
           /\ \A n \in K : /\ Before(K, n) + 1 \in 1 .. Cardinality(K)
                           /\ Filtered(list, K)[Before(K, n) + 1] = list[n]
<1>1. /\ Cardinality(K) \in Nat
      /\ InOrder(K) \in [1 .. Cardinality(K) -> K]
      /\ \A n \in K : /\ Before(K, n) + 1 \in 1 .. Cardinality(K)
                      /\ InOrder(K)[Before(K, n) + 1] = n
    BY InOrderSorted
<1>2. DOMAIN Filtered(list, K) = 1 .. Cardinality(K)
    BY DEF Filtered
<1>3. \A i \in 1 .. Cardinality(K) : Filtered(list, K)[i] = list[InOrder(K)[i]]
    BY DEF Filtered
<1>4. Len(Filtered(list, K)) = Cardinality(K)
    <2>1. Filtered(list, K) = [i \in 1 .. Cardinality(K) |-> list[InOrder(K)[i]]]
        BY DEF Filtered
    <2> DEFINE item(i) == list[InOrder(K)[i]]
               S == {item(i) : i \in 1 .. Cardinality(K)}
    <2>2. Filtered(list, K) \in [1 .. Cardinality(K) -> S]
        BY <2>1
    <2> HIDE DEF S
    <2>3. Filtered(list, K) \in Seq(S)
        BY <1>1, <2>2
    <2> QED
        BY <1>1, <1>2, <2>3, LenProperties
<1> QED
    BY <1>1, <1>2, <1>3, <1>4

-----------------------------------------------------------------------------
(* The depth of a node is defined along its parents, which have lower        *)
(* numbers: on the nodes 1 .. n for every n, and so on the document.         *)
DepthIn(d) ==
    LET depth[n \in DOMAIN d.kind] == IF n = 1 THEN 0 ELSE depth[d.parent[n]] + 1
    IN  depth

Deepens(f, d, n) == f = [m \in 1 .. n |-> IF m = 1 THEN 0 ELSE f[d.parent[m]] + 1]

(* Such a definition has a solution, by induction on n. *)
LEMMA DepthExists ==
    ASSUME NEW d, IsDocument(d), NEW n \in Nat, n <= Cardinality(DOMAIN d.kind)
    PROVE  \E f : Deepens(f, d, n)
<1> DEFINE k == Cardinality(DOMAIN d.kind)
           N == {l \in Nat : l <= k => \E f : Deepens(f, d, l)}
<1>1. k \in Nat /\ \A m \in 1 .. k : m # 1 => d.parent[m] \in 1 .. m - 1
    BY FS_CardinalityType DEF IsDocument
<1>2. 0 \in N
    <2> DEFINE f == [m \in 1 .. 0 |-> 0]
    <2>1. Deepens(f, d, 0)
        BY DEF Deepens
    <2> QED
        BY <2>1
<1>3. ASSUME NEW l \in N PROVE l + 1 \in N
    <2> SUFFICES ASSUME l + 1 <= k PROVE \E f : Deepens(f, d, l + 1)
        OBVIOUS
    <2>1. PICK f : Deepens(f, d, l)
        BY <1>1
    <2> DEFINE g == [m \in 1 .. l + 1 |-> IF m = 1 THEN 0 ELSE f[d.parent[m]] + 1]
    <2>2. \A m \in 1 .. l : g[m] = f[m]
        BY <2>1 DEF Deepens
    <2>3. \A m \in 1 .. l + 1 : m # 1 => d.parent[m] \in 1 .. l
        BY <1>1
    <2>4. \A m \in 1 .. l + 1 : g[m] = IF m = 1 THEN 0 ELSE g[d.parent[m]] + 1
        BY <2>2, <2>3
    <2>5. g = [m \in 1 .. l + 1 |-> g[m]]
        OBVIOUS
    <2> HIDE DEF g
    <2> QED
        BY <2>4, <2>5 DEF Deepens
<1>4. N = Nat
    <2> HIDE DEF N
    <2>1. N \subseteq Nat
        BY DEF N
    <2> QED
        BY <1>2, <1>3, <2>1, NaturalSteps
<1> QED
    BY <1>4

(* The depth of the document is that solution: 0 at the root, one more than  *)
(* the parent everywhere else.                                               *)
LEMMA DepthSound ==
    ASSUME NEW d, IsDocument(d)
    PROVE  /\ DepthIn(d)[1] = 0
           /\ \A m \in DOMAIN d.kind : /\ DepthIn(d)[m] \in Nat
                                       /\ m # 1 => DepthIn(d)[m] = DepthIn(d)[d.parent[m]] + 1
<1> DEFINE k == Cardinality(DOMAIN d.kind)
           f == DepthIn(d)
<1>1. /\ k \in Nat /\ DOMAIN d.kind = 1 .. k /\ 1 \in 1 .. k
      /\ \A m \in 1 .. k : m # 1 => d.parent[m] \in 1 .. m - 1
    BY FS_CardinalityType DEF IsDocument
<1>2. \E g : Deepens(g, d, k)
    BY <1>1, DepthExists
<1>3. f = CHOOSE g : Deepens(g, d, k)
    BY <1>1 DEF DepthIn, Deepens
<1>4. Deepens(f, d, k)
    BY <1>2, <1>3
<1> HIDE DEF f
<1>5. f[1] = 0 /\ \A m \in 1 .. k : m # 1 => f[m] = f[d.parent[m]] + 1
    BY <1>1, <1>4 DEF Deepens
<1> DEFINE N == {n \in Nat : \A m \in 1 .. k : m <= n => f[m] \in Nat}
<1>6. 0 \in N
    OBVIOUS
<1>7. ASSUME NEW n \in N PROVE n + 1 \in N
    <2> SUFFICES ASSUME NEW m \in 1 .. k, m <= n + 1 PROVE f[m] \in Nat
        OBVIOUS
    <2>1. CASE m = 1
        BY <1>5, <2>1
    <2>2. CASE m # 1
        <3>1. d.parent[m] \in 1 .. k /\ d.parent[m] <= n
            BY <1>1, <2>2
        <3> QED
            BY <1>5, <2>2, <3>1
    <2> QED
        BY <2>1, <2>2
<1>8. N = Nat
    <2> HIDE DEF N
    <2>1. N \subseteq Nat
        BY DEF N
    <2> QED
        BY <1>6, <1>7, <2>1, NaturalSteps
<1>9. \A m \in 1 .. k : f[m] \in Nat
    BY <1>1, <1>8
<1> QED
    BY <1>1, <1>5, <1>9 DEF f

(* What holds of the root, and of a node when it holds of its parent, holds *)
(* of every node.                                                            *)
LEMMA FromTheRoot ==
    ASSUME NEW d, IsDocument(d), NEW T, 1 \in T,
           \A m \in DOMAIN d.kind : m # 1 /\ d.parent[m] \in T => m \in T
    PROVE  DOMAIN d.kind \subseteq T
<1> DEFINE k == Cardinality(DOMAIN d.kind)
           N == {n \in Nat : \A m \in 1 .. k : m <= n => m \in T}
<1>1. /\ k \in Nat /\ DOMAIN d.kind = 1 .. k
      /\ \A m \in 1 .. k : m # 1 => d.parent[m] \in 1 .. m - 1
    BY FS_CardinalityType DEF IsDocument
<1>2. 0 \in N
    OBVIOUS
<1>3. ASSUME NEW n \in N PROVE n + 1 \in N
    <2> SUFFICES ASSUME NEW m \in 1 .. k, m <= n + 1, m # 1 PROVE m \in T
        OBVIOUS
    <2>1. d.parent[m] \in 1 .. k /\ d.parent[m] <= n
        BY <1>1
    <2> QED
        BY <1>1, <2>1
<1>4. N = Nat
    <2> HIDE DEF N
    <2>1. N \subseteq Nat
        BY DEF N
    <2> QED
        BY <1>2, <1>3, <2>1, NaturalSteps
<1> QED
    BY <1>1, <1>4

-----------------------------------------------------------------------------
(* The walk.  Every node waits on the stack, or has been seen to be within   *)
(* the limits with its children waiting or seen; and no more wait below a    *)
(* node than the siblings of one node at each level above it.                *)
Fanout == Max({MaxArray, MaxFields})

Waiting == {stack[i][1] : i \in 1 .. Len(stack)}

SoundNode(m) ==
    /\ DepthIn(document)[m] <= MaxDepth
    /\ document.kind[m] \in Containers => Width(m) <= Widest(m)
    /\ document.kind[m] # "long_string"

StackSound ==
    /\ stack \in Seq(Nodes \X Nat)
    /\ \A i \in 1 .. Len(stack) :
        /\ stack[i][2] = DepthIn(document)[stack[i][1]]
        /\ stack[i][2] <= MaxDepth
        /\ i <= 1 + stack[i][2] * (Fanout - 1)

SeenSound ==
    \E seen \in SUBSET Nodes :
        /\ 1 \in seen \cup Waiting
        /\ \A m \in seen : SoundNode(m) /\ Children(m) \subseteq seen \cup Waiting

LimitErrors == {"TooManyObjectFields", "RecursionTooDeep", "StringTooLong", "TooManyArrayItems"}

WalkInv ==
    /\ verdict = "none" => stack = <<>>
    /\ verdict # "none" => document \in Documents /\ StackSound
    /\ verdict = "walking" => SeenSound
    /\ verdict \in {"walked", "accepted"} => WithinLimits
    /\ verdict \in LimitErrors => stack # <<>> /\ ~WithinLimits

(* Fanout is the larger of the two limits on the width of a container. *)
LEMMA FanoutBounds == Fanout \in Nat /\ Fanout >= 1 /\ MaxArray <= Fanout /\ MaxFields <= Fanout
<1>1. MaxArray \in Nat /\ MaxFields \in Nat /\ MaxArray >= 1 /\ MaxFields >= 1
    BY LimitsAssumption
<1>2. \E x \in {MaxArray, MaxFields} : \A y \in {MaxArray, MaxFields} : x >= y
    BY <1>1
<1>3. Fanout \in {MaxArray, MaxFields} /\ \A y \in {MaxArray, MaxFields} : Fanout >= y
    BY <1>2 DEF Fanout, Max
<1> QED
    BY <1>1, <1>3

(* Of a document the model knows: children come after their parent, one
   level below it.                                                           *)
LEMMA DocumentTree ==
    ASSUME document \in Documents
    PROVE  /\ IsDocument(document)
           /\ Depth = DepthIn(document)
           /\ 1 \in Nodes /\ Nodes \in SUBSET Nat
           /\ \A n \in Nodes : /\ Children(n) \in SUBSET Nodes
                               /\ IsFiniteSet(Children(n))
                               /\ Width(n) \in Nat
                               /\ Children(n) # {} <=> Width(n) >= 1
                               /\ Children(n) # {} => document.kind[n] \in Containers
                               /\ \A m \in Children(n) :
                                    DepthIn(document)[m] = DepthIn(document)[n] + 1
<1>1. IsDocument(document)
    BY LimitsAssumption
<1>2. Depth = DepthIn(document)
    BY DEF Depth, DepthIn, Nodes
<1> DEFINE k == Cardinality(Nodes)
<1>3. IsFiniteSet(Nodes) /\ k \in Nat /\ Nodes = 1 .. k /\ 1 \in Nodes
    BY <1>1, FS_CardinalityType DEF IsDocument, Nodes
<1>4. ASSUME NEW n \in Nodes
      PROVE  /\ Children(n) \in SUBSET Nodes
             /\ IsFiniteSet(Children(n))
             /\ Width(n) \in Nat
             /\ Children(n) # {} <=> Width(n) >= 1
             /\ Children(n) # {} => document.kind[n] \in Containers
             /\ \A m \in Children(n) : DepthIn(document)[m] = DepthIn(document)[n] + 1
    <2>1. Children(n) \in SUBSET Nodes
        BY DEF Children
    <2>2. IsFiniteSet(Children(n)) /\ Width(n) \in Nat
        BY <1>3, <2>1, FS_Subset, FS_CardinalityType DEF Width
    <2>3. Children(n) # {} <=> Width(n) >= 1
        BY <2>2, FS_EmptySet DEF Width
    <2>4. ASSUME NEW m \in Children(n) PROVE m \in Nodes /\ m # 1 /\ document.parent[m] = n
        BY <1>1, <1>3 DEF Children, IsDocument
    <2>5. Children(n) # {} => document.kind[n] \in Containers
        BY <1>1, <2>4 DEF IsDocument, Nodes
    <2>6. \A m \in Children(n) : DepthIn(document)[m] = DepthIn(document)[n] + 1
        BY <1>1, <2>4, DepthSound DEF Nodes
    <2> QED
        BY <2>1, <2>2, <2>3, <2>5, <2>6
<1> QED
    BY <1>1, <1>2, <1>3, <1>4

(* The limits, said node by node. *)
LEMMA LimitsByNode ==
    ASSUME document \in Documents
    PROVE  WithinLimits <=> \A m \in Nodes : SoundNode(m)
BY DocumentTree DEF WithinLimits, SoundNode

(* The children of a node in the order of the document. *)
LEMMA Siblings ==
    ASSUME document \in Documents, NEW n \in Nodes
    PROVE  /\ InOrder(Children(n)) \in [1 .. Width(n) -> Children(n)]
           /\ \A m \in Children(n) : \E i \in 1 .. Width(n) : InOrder(Children(n))[i] = m
           /\ \A i, j \in 1 .. Width(n) :
                InOrder(Children(n))[i] = InOrder(Children(n))[j] => i = j
<1>1. Children(n) \in SUBSET Nat /\ IsFiniteSet(Children(n)) /\ Width(n) \in Nat
    BY DocumentTree
<1> DEFINE nodes == InOrder(Children(n))
<1>2. /\ nodes \in [1 .. Width(n) -> Children(n)]
      /\ \A i, j \in 1 .. Width(n) : i < j => nodes[i] < nodes[j]
      /\ \A m \in Children(n) : \E i \in 1 .. Width(n) : nodes[i] = m
    BY <1>1, InOrderSorted DEF Width
<1> HIDE DEF nodes
<1>3. ASSUME NEW i \in 1 .. Width(n), NEW j \in 1 .. Width(n), nodes[i] = nodes[j] PROVE i = j
    <2>1. nodes[i] \in Nat /\ ~(nodes[i] < nodes[j]) /\ ~(nodes[j] < nodes[i])
        BY <1>1, <1>2, <1>3
    <2> QED
        BY <1>1, <1>2, <2>1
<1> QED
    BY <1>2, <1>3 DEF nodes

(* What a turn of the loop makes of the stack. *)
LEMMA PushedStack ==
    ASSUME document \in Documents, stack \in Seq(Nodes \X Nat), stack # <<>>,
           NEW n \in Nodes, NEW depth \in Nat
    PROVE  /\ Pushed(n, depth) \in Seq(Nodes \X Nat)
           /\ Len(Pushed(n, depth)) = Len(stack) - 1 + Width(n)
           /\ \A i \in 1 .. Len(stack) - 1 : Pushed(n, depth)[i] = stack[i]
           /\ \A i \in Len(stack) .. Len(stack) - 1 + Width(n) :
                \E m \in Children(n) : Pushed(n, depth)[i] = <<m, depth + 1>>
           /\ \A m \in Children(n) :
                \E i \in Len(stack) .. Len(stack) - 1 + Width(n) :
                    Pushed(n, depth)[i] = <<m, depth + 1>>
           /\ \A i, j \in Len(stack) .. Len(stack) - 1 + Width(n) :
                Pushed(n, depth)[i] = Pushed(n, depth)[j] => i = j
<1> DEFINE nodes == InOrder(Children(n))
           items == [i \in DOMAIN nodes |-> <<nodes[i], depth + 1>>]
           l == Len(stack) - 1
           w == Width(n)
<1>1. /\ nodes \in [1 .. w -> Children(n)] /\ w \in Nat /\ Children(n) \in SUBSET Nodes
      /\ \A m \in Children(n) : \E i \in 1 .. w : nodes[i] = m
      /\ \A i, j \in 1 .. w : nodes[i] = nodes[j] => i = j
    BY Siblings, DocumentTree
<1> HIDE DEF nodes, w
<1>2. /\ items \in Seq(Nodes \X Nat) /\ Len(items) = w
      /\ \A i \in 1 .. w : items[i] = <<nodes[i], depth + 1>>
    <2>1. DOMAIN nodes = 1 .. w
        BY <1>1
    <2>2. items \in [1 .. w -> Nodes \X Nat]
        BY <1>1, <2>1
    <2>3. \A i \in 1 .. w : items[i] = <<nodes[i], depth + 1>>
        BY <2>1
    <2>4. DOMAIN items = 1 .. w
        BY <2>1
    <2> HIDE DEF items
    <2>5. items \in Seq(Nodes \X Nat)
        BY <1>1, <2>2
    <2>6. Len(items) = w
        BY <1>1, <2>4, <2>5, LenProperties
    <2> QED
        BY <2>3, <2>5, <2>6
<1>3. /\ l \in Nat /\ Front(stack) \in Seq(Nodes \X Nat) /\ Len(Front(stack)) = l
      /\ \A i \in 1 .. l : Front(stack)[i] = stack[i]
    <2>1. Len(stack) \in Nat /\ Len(stack) >= 1
        BY EmptySeq, LenProperties
    <2>2. \A i \in 1 .. Len(stack) - 1 : stack[i] \in Nodes \X Nat
        BY <2>1, ElementOfSeq
    <2> QED
        <3>1. l \in Nat /\ l = Len(stack) - 1 /\ Front(stack) = SubSeq(stack, 1, l)
            BY <2>1 DEF Front
        <3> HIDE DEF l
        <3>2. \A i \in 1 .. l : stack[i] \in Nodes \X Nat
            BY <2>2, <3>1
        <3>3. /\ SubSeq(stack, 1, l) \in Seq(Nodes \X Nat)
              /\ Len(SubSeq(stack, 1, l)) = l
              /\ \A i \in 1 .. l : SubSeq(stack, 1, l)[i] = stack[i]
            BY <2>1, <3>1, <3>2, SubSeqProperties
        <3> QED
            BY <3>1, <3>3
<1> HIDE DEF items
<1>4. Pushed(n, depth) = Front(stack) \o items
    BY DEF Pushed, items, nodes
<1> DEFINE next == Front(stack) \o items
<1>5. /\ next \in Seq(Nodes \X Nat) /\ Len(next) = l + w
      /\ \A i \in 1 .. l + w :
            next[i] = IF i <= l THEN Front(stack)[i] ELSE items[i - l]
    BY <1>2, <1>3, ConcatProperties, SMTT(30)
<1> HIDE DEF next, l
<1>6. \A i \in 1 .. l : next[i] = stack[i]
    BY <1>1, <1>3, <1>5
<1>7. \A i \in l + 1 .. l + w : i - l \in 1 .. w /\ next[i] = <<nodes[i - l], depth + 1>>
    <2> SUFFICES ASSUME NEW i \in l + 1 .. l + w
                 PROVE  i - l \in 1 .. w /\ next[i] = <<nodes[i - l], depth + 1>>
        OBVIOUS
    <2>1. i \in 1 .. l + w /\ ~ (i <= l) /\ i - l \in 1 .. w
        BY <1>1, <1>3
    <2>2. next[i] = items[i - l]
        BY <1>5, <2>1
    <2> QED
        BY <1>2, <2>1, <2>2
<1>8. \A i \in l + 1 .. l + w : \E m \in Children(n) : next[i] = <<m, depth + 1>>
    BY <1>1, <1>7
<1>9. ASSUME NEW m \in Children(n)
      PROVE  \E i \in l + 1 .. l + w : next[i] = <<m, depth + 1>>
    <2>1. PICK i \in 1 .. w : nodes[i] = m
        BY <1>1
    <2>2. l + i \in l + 1 .. l + w /\ (l + i) - l = i
        BY <1>1, <1>3
    <2> QED
        BY <1>7, <2>1, <2>2
<1>10. ASSUME NEW i \in l + 1 .. l + w, NEW j \in l + 1 .. l + w, next[i] = next[j] PROVE i = j
    <2>1. /\ i - l \in 1 .. w /\ next[i] = <<nodes[i - l], depth + 1>>
          /\ j - l \in 1 .. w /\ next[j] = <<nodes[j - l], depth + 1>>
        BY <1>7
    <2>2. <<nodes[i - l], depth + 1>> = <<nodes[j - l], depth + 1>>
        BY <1>10, <2>1
    <2>3. i - l = j - l
        BY <1>1, <2>1, <2>2
    <2> QED
        BY <1>1, <1>3, <2>3
<1>11. /\ l + 1 = Len(stack) /\ l + w = Len(stack) - 1 + w
       /\ \A i \in 1 .. Len(stack) - 1 : i \in 1 .. l
    BY <1>1, <1>3, LenProperties DEF l
<1>12. \A i, j \in Len(stack) .. Len(stack) - 1 + w : next[i] = next[j] => i = j
    BY <1>10, <1>11
<1>13. /\ next \in Seq(Nodes \X Nat)
       /\ Len(next) = Len(stack) - 1 + w
       /\ \A i \in 1 .. Len(stack) - 1 : next[i] = stack[i]
       /\ \A i \in Len(stack) .. Len(stack) - 1 + w :
            \E m \in Children(n) : next[i] = <<m, depth + 1>>
       /\ \A m \in Children(n) :
            \E i \in Len(stack) .. Len(stack) - 1 + w : next[i] = <<m, depth + 1>>
    BY <1>5, <1>6, <1>8, <1>9, <1>11
<1> QED
    BY <1>4, <1>12, <1>13, ZenonT(40) DEF next, w

(* What is said of a document alone does not change while it is walked. *)
LEMMA SameDocument ==
    ASSUME UNCHANGED document
    PROVE  /\ WithinLimits' <=> WithinLimits
           /\ Nodes' = Nodes
           /\ \A m : SoundNode(m)' <=> SoundNode(m)
           /\ \A m : Children(m)' = Children(m)
<1>1. Nodes' = Nodes /\ Depth' = Depth
    BY DEF Nodes, Depth
<1>2. \A m : Children(m)' = Children(m) /\ Width(m)' = Width(m) /\ Widest(m)' = Widest(m)
    BY <1>1 DEF Children, Width, Widest
<1> QED
    BY <1>1, <1>2 DEF WithinLimits, SoundNode

(* What the top of the stack is. *)
LEMMA TopOfStack ==
    ASSUME StackSound, stack # <<>>, document \in Documents
    PROVE  LET n == Last(stack)[1]  depth == Last(stack)[2] IN
           /\ Len(stack) \in Nat /\ Len(stack) >= 1
           /\ stack[Len(stack)][1] = n
           /\ n \in Nodes /\ depth \in Nat
           /\ depth = DepthIn(document)[n] /\ depth <= MaxDepth
           /\ Len(stack) <= 1 + depth * (Fanout - 1)
<1>1. Len(stack) \in Nat /\ Len(stack) >= 1
    BY EmptySeq, LenProperties DEF StackSound
<1>2. stack[Len(stack)] \in Nodes \X Nat
    BY <1>1, ElementOfSeq DEF StackSound
<1> QED
    BY <1>1, <1>2 DEF StackSound, Last

(* A node that is refused breaks a limit, and the tree with it. *)
LEMMA RefusedRightly ==
    ASSUME WalkInv, Visit,
           NodeError(Last(stack)[1], Last(stack)[2]) # "none"
    PROVE  WalkInv'
<1> DEFINE n == Last(stack)[1]
           depth == Last(stack)[2]
<1>1. /\ verdict = "walking" /\ stack # <<>> /\ document \in Documents /\ StackSound
      /\ verdict' = NodeError(n, depth) /\ UNCHANGED <<document, stack>>
    BY DEF Visit, Refuse, WalkInv
<1>2. n \in Nodes /\ depth \in Nat /\ depth = DepthIn(document)[n] /\ MaxDepth \in Nat
    BY <1>1, TopOfStack, LimitsAssumption
<1> HIDE DEF n, depth
<1>3. \E m \in Nodes : ~SoundNode(m)
    <2>1. CASE document.kind[n] \in Containers /\ Width(n) > Widest(n)
        <3>1. Width(n) \in Nat /\ Widest(n) \in Nat
            BY <1>1, <1>2, DocumentTree, LimitsAssumption DEF Widest
        <3>2. ~ (Width(n) <= Widest(n))
            BY <2>1, <3>1
        <3> QED
            BY <1>2, <2>1, <3>2 DEF SoundNode
    <2>2. CASE /\ document.kind[n] \in Containers
               /\ Width(n) \in 1 .. Widest(n)
               /\ depth + 1 > MaxDepth
        <3>1. PICK m \in Children(n) : TRUE
            BY <1>1, <1>2, <2>2, DocumentTree
        <3>2. m \in Nodes /\ DepthIn(document)[m] = depth + 1
            BY <1>1, <1>2, DocumentTree
        <3>3. ~ (depth + 1 <= MaxDepth)
            BY <1>2, <2>2
        <3> QED
            BY <3>2, <3>3 DEF SoundNode
    <2>3. CASE document.kind[n] = "long_string"
        BY <1>2, <2>3 DEF SoundNode
    <2> QED
        BY <2>1, <2>2, <2>3 DEF NodeError, n, depth
<1>4. ~WithinLimits
    BY <1>1, <1>3, LimitsByNode
<1>5. NodeError(n, depth) \in LimitErrors
    BY DEF NodeError, TooWide, LimitErrors, n, depth
<1>6. StackSound'
    BY <1>1, SameDocument DEF StackSound
<1> QED
    BY <1>1, <1>4, <1>5, <1>6, SameDocument DEF WalkInv, LimitErrors

(* A node that is not refused is seen, and its children wait. *)
LEMMA PushedRightly ==
    ASSUME WalkInv, Visit,
           NodeError(Last(stack)[1], Last(stack)[2]) = "none"
    PROVE  WalkInv'
<1> DEFINE n == Last(stack)[1]
           depth == Last(stack)[2]
           l == Len(stack) - 1
           w == Width(n)
<1>1. /\ verdict = "walking" /\ stack # <<>> /\ document \in Documents /\ StackSound
      /\ stack' = Pushed(n, depth) /\ UNCHANGED <<document, verdict>>
    BY DEF Visit, Refuse, WalkInv
<1>2. /\ n \in Nodes /\ depth \in Nat /\ depth = DepthIn(document)[n] /\ depth <= MaxDepth
      /\ l \in Nat /\ l + 1 = Len(stack) /\ stack[l + 1][1] = n
      /\ l <= depth * (Fanout - 1)
      /\ MaxDepth \in Nat
    <2>1. depth * (Fanout - 1) \in Int
        BY <1>1, TopOfStack, FanoutBounds
    <2> QED
        BY <1>1, <2>1, TopOfStack, LimitsAssumption
<1>3. /\ stack' \in Seq(Nodes \X Nat)
      /\ Len(stack') = l + w /\ w \in Nat
      /\ \A i \in 1 .. l : stack'[i] = stack[i]
      /\ \A i \in l + 1 .. l + w : \E m \in Children(n) : stack'[i] = <<m, depth + 1>>
      /\ \A m \in Children(n) : \E i \in l + 1 .. l + w : stack'[i] = <<m, depth + 1>>
    <2>1. w \in Nat
        BY <1>1, <1>2, DocumentTree
    <2>2. l + 1 = Len(stack) /\ l + w = Len(stack) - 1 + Width(n)
        BY <1>2, <2>1
    <2>3. stack \in Seq(Nodes \X Nat)
        BY <1>1 DEF StackSound
    <2> DEFINE next == Pushed(n, depth)
    <2> HIDE DEF n, depth
    <2>4. /\ next \in Seq(Nodes \X Nat)
          /\ Len(next) = Len(stack) - 1 + Width(n)
          /\ \A i \in 1 .. Len(stack) - 1 : next[i] = stack[i]
          /\ \A i \in Len(stack) .. Len(stack) - 1 + Width(n) :
                \E m \in Children(n) : next[i] = <<m, depth + 1>>
          /\ \A m \in Children(n) :
                \E i \in Len(stack) .. Len(stack) - 1 + Width(n) : next[i] = <<m, depth + 1>>
          /\ \A i, j \in Len(stack) .. Len(stack) - 1 + Width(n) : next[i] = next[j] => i = j
        BY <1>1, <1>2, <2>3, PushedStack
    <2>5. stack' = next
        BY <1>1
    <2> HIDE DEF next
    <2> QED
        BY <2>1, <2>2, <2>4, <2>5
<1> HIDE DEF n, depth, l, w
<1>4. /\ document.kind[n] # "long_string"
      /\ document.kind[n] \in Containers => w <= Widest(n) /\ (w >= 1 => depth + 1 <= MaxDepth)
      /\ document.kind[n] \notin Containers => w = 0
    <2>1. Width(n) \in Nat /\ Widest(n) \in Nat
        BY <1>1, <1>2, DocumentTree, LimitsAssumption DEF Widest
    <2>2. document.kind[n] \notin Containers => Width(n) = 0
        BY <1>1, <1>2, <2>1, DocumentTree
    <2>3. NodeError(n, depth) = "none"
        BY DEF n, depth
    <2> QED
        BY <1>2, <2>1, <2>2, <2>3 DEF NodeError, TooWide, Containers, w
<1>5. SoundNode(n)
    BY <1>2, <1>4 DEF SoundNode, w
<1>6. w <= Fanout /\ (w >= 1 => depth + 1 <= MaxDepth)
    <2>1. Widest(n) \in Nat /\ Widest(n) <= Fanout
        BY FanoutBounds, LimitsAssumption DEF Widest
    <2>2. Fanout \in Nat /\ w \in Nat
        BY <1>3, FanoutBounds
    <2> QED
        BY <1>4, <2>1, <2>2
<1>7. ASSUME NEW i \in 1 .. l + w
      PROVE  /\ stack'[i][2] = DepthIn(document)[stack'[i][1]]
             /\ stack'[i][2] <= MaxDepth
             /\ i <= 1 + stack'[i][2] * (Fanout - 1)
    <2>1. CASE i \in 1 .. l
        <3>1. i \in 1 .. Len(stack) /\ stack'[i] = stack[i]
            BY <1>2, <1>3, <2>1
        <3> QED
            BY <1>1, <3>1 DEF StackSound
    <2>2. CASE i \in l + 1 .. l + w
        <3>1. PICK m \in Children(n) : stack'[i] = <<m, depth + 1>>
            BY <1>3, <2>2
        <3>2. DepthIn(document)[m] = depth + 1
            BY <1>1, <1>2, DocumentTree
        <3>3. i <= l + w /\ w >= 1
            BY <1>2, <1>3, <2>2
        <3>4. (depth + 1) * (Fanout - 1) = depth * (Fanout - 1) + (Fanout - 1)
            BY <1>2, FanoutBounds
        <3>5. i <= 1 + (depth + 1) * (Fanout - 1)
            <4> DEFINE below == depth * (Fanout - 1)
            <4>1. below \in Int /\ l <= below
                BY <1>2, FanoutBounds
            <4> HIDE DEF below
            <4>2. i <= 1 + (below + (Fanout - 1))
                BY <1>2, <1>3, <1>6, <3>3, <4>1, FanoutBounds
            <4> QED
                BY <3>4, <4>2 DEF below
        <3> QED
            BY <1>6, <3>1, <3>2, <3>3, <3>5
    <2> QED
        BY <1>2, <1>3, <2>1, <2>2
<1>8. StackSound'
    BY <1>1, <1>3, <1>7, SameDocument DEF StackSound
<1>9. SeenSound'
    <2>1. PICK seen \in SUBSET Nodes :
            /\ 1 \in seen \cup Waiting
            /\ \A m \in seen : SoundNode(m) /\ Children(m) \subseteq seen \cup Waiting
        BY <1>1 DEF WalkInv, SeenSound
    <2>2. Waiting \subseteq Waiting' \cup {n}
        <3> SUFFICES ASSUME NEW i \in 1 .. Len(stack), stack[i][1] # n
                     PROVE  stack[i][1] \in Waiting'
            BY DEF Waiting
        <3>1. i \in 1 .. l
            BY <1>2
        <3>2. i \in 1 .. Len(stack') /\ stack'[i] = stack[i]
            BY <1>2, <1>3, <3>1
        <3> QED
            BY <3>2 DEF Waiting
    <2>3. Children(n) \subseteq Waiting'
        <3> SUFFICES ASSUME NEW m \in Children(n) PROVE m \in Waiting'
            OBVIOUS
        <3>1. PICK i \in l + 1 .. l + w : stack'[i] = <<m, depth + 1>>
            BY <1>3
        <3>2. i \in 1 .. Len(stack') /\ stack'[i][1] = m
            BY <1>2, <1>3, <3>1
        <3> QED
            BY <3>2 DEF Waiting
    <2> DEFINE more == seen \cup {n}
    <2>4. more \in SUBSET Nodes /\ 1 \in more \cup Waiting'
        BY <1>2, <2>1, <2>2
    <2>5. \A m \in more : SoundNode(m) /\ Children(m) \subseteq more \cup Waiting'
        BY <1>5, <2>1, <2>2, <2>3
    <2>6. more \in SUBSET Nodes'
        BY <1>1, <2>4, SameDocument
    <2>7. \A m \in more : SoundNode(m)' /\ Children(m)' \subseteq more \cup Waiting'
        BY <1>1, <2>5, SameDocument
    <2> HIDE DEF more
    <2> QED
        BY <2>4, <2>6, <2>7 DEF SeenSound
<1> QED
    BY <1>1, <1>8, <1>9 DEF WalkInv, LimitErrors

(* When nothing waits any more everything has been seen. *)
LEMMA WalkEndsRightly ==
    ASSUME WalkInv, WalkEnds
    PROVE  WalkInv'
<1>1. /\ verdict = "walking" /\ stack = <<>> /\ document \in Documents /\ StackSound
      /\ verdict' = "walked" /\ UNCHANGED <<document, stack>>
    BY DEF WalkEnds, WalkInv
<1>2. Waiting = {}
    BY <1>1 DEF Waiting
<1>3. PICK seen \in SUBSET Nodes :
        1 \in seen /\ \A m \in seen : SoundNode(m) /\ Children(m) \subseteq seen
    BY <1>1, <1>2 DEF WalkInv, SeenSound
<1>4. Nodes \subseteq seen
    <2>1. \A m \in Nodes : document.parent[m] \in seen => m \in seen
        BY <1>3 DEF Children
    <2> QED
        BY <1>1, <1>3, <2>1, DocumentTree, FromTheRoot DEF Nodes
<1>5. WithinLimits
    BY <1>1, <1>3, <1>4, LimitsByNode
<1>6. StackSound'
    BY <1>1, SameDocument DEF StackSound
<1> QED
    BY <1>1, <1>5, <1>6, SameDocument DEF WalkInv, LimitErrors

(* A list of the top-level object is one node's children. *)
LEMMA ListWithin ==
    ASSUME document \in Documents, WithinLimits, NEW key \in Keys
    PROVE  ListLength(key) \in Nat /\ ListLength(key) <= MaxArray
<1> DEFINE lists == {c \in Children(1) : document.key[c] = key /\ document.kind[c] = "array"}
<1>1. MaxArray \in Nat
    BY LimitsAssumption
<1>2. CASE lists = {}
    <2>1. UNION {Children(m) : m \in lists} = {}
        BY <1>2
    <2> QED
        BY <1>1, <2>1, FS_EmptySet DEF ListLength
<1>3. CASE lists # {}
    <2>1. PICK c \in lists : TRUE
        BY <1>3
    <2>2. \A m \in lists : m = c
        BY <2>1, DocumentTree DEF IsDocument, Children, Nodes
    <2>3. lists = {c}
        BY <2>1, <2>2
    <2>4. UNION {Children(m) : m \in lists} = Children(c)
        BY <2>3
    <2>5. c \in Nodes /\ document.kind[c] = "array"
        BY <2>1, DocumentTree
    <2>6. Width(c) <= Widest(c) /\ Widest(c) = MaxArray /\ Width(c) \in Nat
        BY <2>5, DocumentTree DEF WithinLimits, Containers, Widest
    <2> QED
        BY <2>4, <2>6 DEF ListLength, Width
<1> QED
    BY <1>2, <1>3

(* Within the limits of the walk only entities, links and events can be too
   many.                                                                     *)
LEMMA FieldsRightly ==
    ASSUME WalkInv, FieldLimits
    PROVE  WalkInv' /\ verdict' # "walking"
<1>1. /\ verdict = "walked" /\ document \in Documents /\ StackSound /\ WithinLimits
      /\ UNCHANGED <<document, stack>>
    BY DEF FieldLimits, WalkInv
<1> DEFINE failed == {i \in DOMAIN FieldChecks :
                        ListLength(FieldChecks[i].key) > FieldChecks[i].limit}
<1>2. DOMAIN FieldChecks = 1 .. 6
    BY DEF FieldChecks
<1>3. \A i \in failed : i \in 1 .. 3
    <2>1. ASSUME NEW i \in 4 .. 6 PROVE i \notin failed
        <3>1. FieldChecks[i].key \in Keys /\ FieldChecks[i].limit = MaxArray
            BY DEF FieldChecks, Keys
        <3>2. /\ ListLength(FieldChecks[i].key) \in Nat
              /\ ListLength(FieldChecks[i].key) <= MaxArray
            BY <1>1, <3>1, ListWithin
        <3>3. MaxArray \in Nat
            BY LimitsAssumption
        <3> QED
            BY <3>1, <3>2, <3>3
    <2> QED
        BY <1>2, <2>1
<1>4. failed # {} => FieldChecks[Min(failed)].error
                        \in {"TooManyEntities", "TooManyLinks", "TooManyEvents"}
    <2> SUFFICES ASSUME failed # {}
                 PROVE  FieldChecks[Min(failed)].error
                            \in {"TooManyEntities", "TooManyLinks", "TooManyEvents"}
        OBVIOUS
    <2>1. failed \in SUBSET Nat
        BY <1>3
    <2> HIDE DEF failed
    <2>2. \E n \in failed : \A m \in failed : n <= m
        BY <2>1, LeastNatural
    <2>3. Min(failed) \in failed
        BY <2>2 DEF Min
    <2>4. Min(failed) \in 1 .. 3
        BY <1>3, <2>3
    <2> QED
        BY <2>4 DEF FieldChecks
<1>5. verdict' \in {"accepted", "TooManyEntities", "TooManyLinks", "TooManyEvents"}
    BY <1>4 DEF FieldLimits
<1>6. StackSound'
    BY <1>1, SameDocument DEF StackSound
<1> QED
    BY <1>1, <1>5, <1>6, SameDocument DEF WalkInv, LimitErrors

(* The walk begins with the root alone on the stack. *)
LEMMA WalkBegins ==
    ASSUME BeginWalk
    PROVE  WalkInv'
<1>1. document' \in Documents /\ stack' = <<<<1, 0>>>> /\ verdict' = "walking"
    BY DEF BeginWalk
<1>2. IsDocument(document')
    BY <1>1, LimitsAssumption
<1>3. 1 \in Nodes' /\ DepthIn(document')[1] = 0
    <2>1. 1 \in DOMAIN document'.kind
        BY <1>2, FS_CardinalityType DEF IsDocument
    <2> QED
        BY <1>2, <2>1, DepthSound DEF Nodes
<1>4. Len(stack') = 1 /\ stack'[1] = <<1, 0>> /\ stack' \in Seq(Nodes' \X Nat)
    BY <1>1, <1>3
<1>5. StackSound'
    <2>1. 1 <= 1 + 0 * (Fanout - 1) /\ 0 <= MaxDepth
        BY FanoutBounds, LimitsAssumption
    <2>2. \A i \in 1 .. Len(stack') : i = 1
        BY <1>4
    <2> QED
        BY <1>3, <1>4, <2>1, <2>2 DEF StackSound
<1>6. SeenSound'
    <2>1. 1 \in Waiting'
        BY <1>4 DEF Waiting
    <2> QED
        <3>1. /\ {} \in SUBSET Nodes'
              /\ 1 \in {} \cup Waiting'
              /\ \A m \in {} : SoundNode(m)' /\ Children(m)' \subseteq {} \cup Waiting'
            BY <2>1
        <3> QED
            BY <3>1 DEF SeenSound
<1> QED
    BY <1>1, <1>5, <1>6 DEF WalkInv, LimitErrors

(* Steps that do not walk. *)
LEMMA WalkStays ==
    ASSUME WalkInv, UNCHANGED walk
    PROVE  WalkInv'
<1>1. UNCHANGED <<document, stack, verdict>>
    BY DEF walk
<1>2. StackSound' <=> StackSound
    BY <1>1, SameDocument DEF StackSound
<1>3. SeenSound' <=> SeenSound
    <2>1. Waiting' = Waiting
        BY <1>1 DEF Waiting
    <2> QED
        BY <1>1, <2>1, SameDocument DEF SeenSound
<1> QED
    BY <1>1, <1>2, <1>3, SameDocument DEF WalkInv

(* Steps of the walk. *)
LEMMA WalkGoesOn ==
    ASSUME WalkInv, WalkNext
    PROVE  WalkInv'
BY RefusedRightly, PushedRightly, WalkEndsRightly, FieldsRightly DEF WalkNext, Visit

(* Steps of a request. *)
LEMMA NextWalk == WalkInv /\ [Next]_vars => WalkInv'
<1> SUFFICES ASSUME WalkInv, [Next]_vars PROVE WalkInv'
    OBVIOUS
<1>1. CASE UNCHANGED walk
    BY <1>1, WalkStays
<1>2. CASE Parse
    BY <1>1, <1>2, WalkBegins DEF Parse
<1>3. CASE Validate
    BY <1>3, WalkGoesOn DEF Validate
<1>4. CASE Accepted
    BY <1>4 DEF Accepted, WalkInv, LimitErrors
<1>5. CASE RefuseInput \/ Download \/ ParseFile \/ Lookup \/ Throttled \/ Begin
           \/ Exchange \/ Refused \/ Normalize \/ UNCHANGED vars
    BY <1>1, <1>5 DEF RefuseInput, Download, ParseFile, Lookup, Throttled, Begin, Exchange,
        Refused, Normalize, vars
<1> QED
    BY <1>2, <1>3, <1>4, <1>5 DEF Next

(* The walk accepts exactly the documents that are within the limits as a    *)
(* whole, the checks of the well-known lists that repeat a limit of the walk *)
(* never fire, and the stack stays within what the limits allow              *)
(* (validate_json_structure, validate_rdap_object).                          *)
THEOREM LimitsDecided == Spec => []WalkDecides
<1>1. Init => WalkInv
    BY DEF Init, WalkInit, WalkInv, LimitErrors
<1>2. ASSUME WalkInv PROVE Len(stack) <= 1 + MaxDepth * (Fanout - 1)
    <2> DEFINE most == MaxDepth * (Fanout - 1)
    <2>1. MaxDepth \in Nat /\ Fanout - 1 \in Nat
        BY FanoutBounds, LimitsAssumption
    <2>2. most \in Nat
        BY <2>1
    <2>3. CASE stack = <<>>
        BY <2>2, <2>3
    <2>4. CASE stack # <<>>
        <3>1. verdict # "none" /\ StackSound /\ document \in Documents
            BY <1>2, <2>4 DEF WalkInv
        <3> DEFINE depth == Last(stack)[2]
        <3>2. /\ depth \in Nat /\ depth <= MaxDepth /\ Len(stack) \in Nat
              /\ Len(stack) <= 1 + depth * (Fanout - 1)
            BY <2>4, <3>1, TopOfStack
        <3> HIDE DEF depth
        <3>3. depth * (Fanout - 1) \in Nat /\ depth * (Fanout - 1) <= most
            <4>1. MaxDepth - depth \in Nat
                BY <2>1, <3>2
            <4>2. most = depth * (Fanout - 1) + (MaxDepth - depth) * (Fanout - 1)
                BY <2>1, <3>2
            <4>3. (MaxDepth - depth) * (Fanout - 1) \in Nat /\ depth * (Fanout - 1) \in Nat
                BY <2>1, <3>2, <4>1
            <4> QED
                BY <2>2, <4>2, <4>3
        <3>4. Len(stack) <= 1 + most
            <4> DEFINE least == depth * (Fanout - 1)
            <4>1. least \in Nat /\ least <= most /\ Len(stack) \in Nat /\ Len(stack) <= 1 + least
                BY <3>2, <3>3
            <4> HIDE DEF least, most
            <4> QED
                BY <2>2, <4>1
        <3> QED
            BY <3>4
    <2> QED
        BY <2>3, <2>4
<1>3. WalkInv => WalkDecides
    BY <1>2 DEF WalkInv, WalkDecides, LimitErrors, Fanout
<1> QED
    BY <1>1, <1>3, NextWalk, PTL DEF Spec

-----------------------------------------------------------------------------
(* The nodes above a node, like its depth, are defined along its parents.    *)
AboveIn(d) ==
    LET above[n \in DOMAIN d.kind] ==
            IF n = 1 THEN {1} ELSE {n} \cup above[d.parent[n]]
    IN  above

Climbs(f, d, n) ==
    f = [m \in 1 .. n |-> IF m = 1 THEN {1} ELSE {m} \cup f[d.parent[m]]]

(* Such a definition has a solution, by induction on n. *)
LEMMA AboveExists ==
    ASSUME NEW d, IsDocument(d), NEW n \in Nat, n <= Cardinality(DOMAIN d.kind)
    PROVE  \E f : Climbs(f, d, n)
<1> DEFINE k == Cardinality(DOMAIN d.kind)
           N == {l \in Nat : l <= k => \E f : Climbs(f, d, l)}
<1>1. k \in Nat /\ \A m \in 1 .. k : m # 1 => d.parent[m] \in 1 .. m - 1
    BY FS_CardinalityType DEF IsDocument
<1>2. 0 \in N
    <2> DEFINE f == [m \in 1 .. 0 |-> {}]
    <2>1. Climbs(f, d, 0)
        BY DEF Climbs
    <2> QED
        BY <2>1
<1>3. ASSUME NEW l \in N PROVE l + 1 \in N
    <2> SUFFICES ASSUME l + 1 <= k PROVE \E f : Climbs(f, d, l + 1)
        OBVIOUS
    <2>1. PICK f : Climbs(f, d, l)
        BY <1>1
    <2> DEFINE g == [m \in 1 .. l + 1 |-> IF m = 1 THEN {1} ELSE {m} \cup f[d.parent[m]]]
    <2>2. \A m \in 1 .. l : g[m] = f[m]
        <3>1. \A m \in 1 .. l : f[m] = IF m = 1 THEN {1} ELSE {m} \cup f[d.parent[m]]
            BY <2>1 DEF Climbs
        <3>2. \A m \in 1 .. l : m \in 1 .. l + 1
            OBVIOUS
        <3> QED
            BY <3>1, <3>2
    <2>3. \A m \in 1 .. l + 1 : m # 1 => d.parent[m] \in 1 .. l
        BY <1>1
    <2>4. \A m \in 1 .. l + 1 : g[m] = IF m = 1 THEN {1} ELSE {m} \cup g[d.parent[m]]
        BY <2>2, <2>3
    <2>5. g = [m \in 1 .. l + 1 |-> g[m]]
        OBVIOUS
    <2> HIDE DEF g
    <2> QED
        BY <2>4, <2>5 DEF Climbs
<1>4. N = Nat
    <2> HIDE DEF N
    <2>1. N \subseteq Nat
        BY DEF N
    <2> QED
        BY <1>2, <1>3, <2>1, NaturalSteps
<1> QED
    BY <1>4

(* What is above a node: itself, and all that is above its parent. *)
LEMMA AboveSound ==
    ASSUME NEW d, IsDocument(d)
    PROVE  /\ AboveIn(d)[1] = {1}
           /\ \A m \in DOMAIN d.kind :
                m # 1 => AboveIn(d)[m] = {m} \cup AboveIn(d)[d.parent[m]]
<1> DEFINE k == Cardinality(DOMAIN d.kind)
           f == AboveIn(d)
<1>1. k \in Nat /\ DOMAIN d.kind = 1 .. k /\ 1 \in 1 .. k
    BY FS_CardinalityType DEF IsDocument
<1>2. \E g : Climbs(g, d, k)
    BY <1>1, AboveExists
<1>3. f = CHOOSE g : Climbs(g, d, k)
    BY <1>1 DEF AboveIn, Climbs
<1>4. Climbs(f, d, k)
    BY <1>2, <1>3
<1> HIDE DEF f
<1>5. f[1] = {1} /\ \A m \in 1 .. k : m # 1 => f[m] = {m} \cup f[d.parent[m]]
    BY <1>1, <1>4 DEF Climbs
<1> QED
    BY <1>1, <1>5 DEF f

(* A child comes after its parent.                                           *)
LEMMA ChildAfter ==
    ASSUME document \in Documents, NEW n \in Nodes, NEW c \in Children(n)
    PROVE  c \in Nat /\ n \in Nat /\ n < c
<1>1. IsDocument(document) /\ Nodes \in SUBSET Nat
    BY DocumentTree DEF Nodes
<1>2. /\ 0 \notin Nodes /\ document.parent[1] = 0
      /\ \A l \in Nodes : l # 1 => document.parent[l] \in Nodes /\ document.parent[l] < l
    BY <1>1, FS_CardinalityType DEF IsDocument, Nodes
<1>3. c \in Nodes /\ document.parent[c] = n
    BY DEF Children
<1>4. c # 1
    BY <1>2, <1>3
<1> QED
    BY <1>1, <1>2, <1>3, <1>4

(* What is above a node comes before it; and between a node and one above it *)
(* stands a child of the latter.                                             *)
LEMMA Lineage ==
    ASSUME document \in Documents, NEW m \in Nodes
    PROVE  /\ m \in Above[m]
           /\ \A x \in Above[m] : x \in Nodes /\ x <= m
           /\ \A n \in Nodes : n \in Above[m] /\ n # m =>
                \E c \in Children(n) : c \in Above[m]
           /\ \A n \in Nodes : \A c \in Children(n) : c \in Above[m] => n \in Above[m]
<1> DEFINE Placed(l) ==
            /\ l \in Above[l]
            /\ \A x \in Above[l] : x \in Nodes /\ x <= l
            /\ \A n \in Nodes : n \in Above[l] /\ n # l =>
                 \E c \in Children(n) : c \in Above[l]
            /\ \A n \in Nodes : \A c \in Children(n) : c \in Above[l] => n \in Above[l]
           T == {l \in Nodes : Placed(l)}
<1>1. /\ IsDocument(document) /\ Above = AboveIn(document)
      /\ 1 \in Nodes /\ Nodes \in SUBSET Nat
    BY DocumentTree DEF Above, AboveIn, Nodes
<1>2. /\ 0 \notin Nodes /\ document.parent[1] = 0
      /\ \A l \in Nodes : l # 1 => document.parent[l] \in Nodes /\ document.parent[l] < l
    BY <1>1, FS_CardinalityType DEF IsDocument, Nodes
<1>3. Above[1] = {1} /\ \A l \in Nodes : l # 1 => Above[l] = {l} \cup Above[document.parent[l]]
    BY <1>1, AboveSound DEF Nodes
<1>4. 1 \in T
    <2>1. \A n \in Nodes : 1 \notin Children(n)
        BY <1>2 DEF Children
    <2>2. Placed(1)
        BY <1>1, <1>3, <2>1
    <2> QED
        BY <1>1, <2>2
<1>5. ASSUME NEW l \in Nodes, l # 1, document.parent[l] \in T PROVE l \in T
    <2> DEFINE p == document.parent[l]
    <2>1. p \in Nodes /\ p < l /\ Above[l] = {l} \cup Above[p] /\ l \in Children(p)
        BY <1>2, <1>3, <1>5 DEF Children
    <2>2. Placed(p)
        BY <1>5
    <2> HIDE DEF p
    <2>3. ASSUME NEW x \in Above[l] PROVE x \in Nodes /\ x <= l
        <3>1. CASE x = l
            <4>1. l \in Nat
                BY <1>1
            <4> QED
                BY <3>1, <4>1
        <3>2. CASE x # l
            <4>1. x \in Above[p]
                BY <2>1, <3>2
            <4>2. x \in Nodes /\ x <= p
                BY <2>2, <4>1
            <4>3. p \in Nodes /\ p < l
                BY <2>1
            <4>4. x \in Nat /\ p \in Nat /\ l \in Nat
                BY <1>1, <4>2, <4>3
            <4> QED
                BY ONLY <4>2, <4>3, <4>4
        <3> QED
            BY <3>1, <3>2
    <2>4. ASSUME NEW n \in Nodes, n \in Above[l], n # l
          PROVE  \E c \in Children(n) : c \in Above[l]
        <3>1. CASE n = p
            BY <2>1, <3>1
        <3>2. CASE n # p
            BY <2>1, <2>2, <2>4, <3>2
        <3> QED
            BY <3>1, <3>2
    <2>5. ASSUME NEW n \in Nodes, NEW c \in Children(n), c \in Above[l]
          PROVE  n \in Above[l]
        <3>1. CASE c = l
            <4>1. n = p
                BY <3>1 DEF Children, p
            <4> QED
                BY <2>1, <2>2, <4>1
        <3>2. CASE c # l
            BY <2>1, <2>2, <2>5, <3>2
        <3> QED
            BY <3>1, <3>2
    <2>6. Placed(l)
        BY <2>1, <2>3, <2>4, <2>5
    <2> QED
        BY <1>5, <2>6
<1> HIDE DEF T
<1>6. Nodes \subseteq T
    BY <1>1, <1>4, <1>5, FromTheRoot DEF Nodes
<1> QED
    BY <1>6 DEF T

(* Of the nodes that wait none is in another, and none waits twice. *)
Apart ==
    \A i, j \in 1 .. Len(stack) : stack[i][1] \in Above[stack[j][1]] => i = j

ApartInv == verdict = "walking" => Apart

(* What is said of a document alone does not change while it is walked. *)
LEMMA SameAbove == ASSUME UNCHANGED document PROVE Above' = Above /\ Nodes' = Nodes
BY DEF Above, Nodes

(* A turn of the loop that refuses nothing. *)
LEMMA Turned ==
    ASSUME WalkInv, Visit, NodeError(Last(stack)[1], Last(stack)[2]) = "none"
    PROVE  LET n == Last(stack)[1]
               l == Len(stack) - 1
               w == Width(n) IN
           /\ document \in Documents /\ UNCHANGED document
           /\ n \in Nodes /\ l \in Nat /\ w \in Nat
           /\ Len(stack) = l + 1 /\ stack[l + 1][1] = n
           /\ \A i \in 1 .. l : stack[i][1] \in Nodes
           /\ Len(stack') = l + w
           /\ DOMAIN stack = 1 .. l + 1 /\ DOMAIN stack' = 1 .. l + w
           /\ \A i \in 1 .. l : stack'[i] = stack[i]
           /\ \A i \in l + 1 .. l + w : stack'[i][1] \in Children(n)
           /\ \A m \in Children(n) : \E i \in l + 1 .. l + w : stack'[i][1] = m
           /\ \A i, j \in l + 1 .. l + w : stack'[i][1] = stack'[j][1] => i = j
<1> DEFINE n == Last(stack)[1]
           depth == Last(stack)[2]
           l == Len(stack) - 1
           w == Width(n)
<1>1. /\ stack # <<>> /\ document \in Documents /\ StackSound
      /\ stack' = Pushed(n, depth) /\ UNCHANGED document
    BY DEF Visit, Refuse, WalkInv
<1>2. /\ n \in Nodes /\ depth \in Nat
      /\ l \in Nat /\ l + 1 = Len(stack) /\ stack[l + 1][1] = n
    BY <1>1, TopOfStack
<1>3. stack \in Seq(Nodes \X Nat) /\ w \in Nat
    BY <1>1, <1>2, DocumentTree DEF StackSound
<1> DEFINE next == Pushed(n, depth)
<1> HIDE DEF n, depth, l, w
<1>4. /\ next \in Seq(Nodes \X Nat)
      /\ Len(next) = Len(stack) - 1 + Width(n)
      /\ \A i \in 1 .. Len(stack) - 1 : next[i] = stack[i]
      /\ \A i \in Len(stack) .. Len(stack) - 1 + Width(n) :
            \E m \in Children(n) : next[i] = <<m, depth + 1>>
      /\ \A m \in Children(n) :
            \E i \in Len(stack) .. Len(stack) - 1 + Width(n) : next[i] = <<m, depth + 1>>
      /\ \A i, j \in Len(stack) .. Len(stack) - 1 + Width(n) : next[i] = next[j] => i = j
    BY <1>1, <1>2, <1>3, PushedStack
<1> HIDE DEF next
<1>5. Len(stack) - 1 = l /\ Len(stack) = l + 1 /\ Width(n) = w /\ stack' = next
    BY <1>1, <1>2 DEF l, w, next
<1>6. /\ Len(stack') = l + w
      /\ \A i \in 1 .. l : stack'[i] = stack[i]
      /\ \A i \in l + 1 .. l + w : \E m \in Children(n) : stack'[i] = <<m, depth + 1>>
      /\ \A m \in Children(n) : \E i \in l + 1 .. l + w : stack'[i] = <<m, depth + 1>>
      /\ \A i, j \in l + 1 .. l + w : stack'[i] = stack'[j] => i = j
    <2>1. /\ Len(stack) .. Len(stack) - 1 + Width(n) = l + 1 .. l + w
          /\ 1 .. Len(stack) - 1 = 1 .. l
        BY <1>5
    <2>2. Len(next) = l + w /\ \A i \in 1 .. l : next[i] = stack[i]
        BY <1>4, <1>5, <2>1
    <2>3. /\ \A i \in l + 1 .. l + w : \E m \in Children(n) : next[i] = <<m, depth + 1>>
          /\ \A m \in Children(n) : \E i \in l + 1 .. l + w : next[i] = <<m, depth + 1>>
        BY <1>4, <2>1
    <2>4. \A i, j \in l + 1 .. l + w : next[i] = next[j] => i = j
        BY <1>4, <2>1
    <2> QED
        BY <1>5, <2>2, <2>3, <2>4
<1>7. DOMAIN stack = 1 .. l + 1 /\ DOMAIN stack' = 1 .. l + w
    BY <1>3, <1>4, <1>5, LenProperties
<1>8. \A i \in 1 .. l : stack[i][1] \in Nodes
    <2> SUFFICES ASSUME NEW i \in 1 .. l PROVE stack[i][1] \in Nodes
        OBVIOUS
    <2>1. i \in 1 .. Len(stack)
        BY <1>2
    <2>2. stack[i] \in Nodes \X Nat
        BY <1>3, <2>1, ElementOfSeq
    <2> QED
        BY <2>2
<1>9. ASSUME NEW i \in l + 1 .. l + w, NEW j \in l + 1 .. l + w, stack'[i][1] = stack'[j][1]
      PROVE  i = j
    BY <1>6, <1>9
<1>10. /\ \A i \in l + 1 .. l + w : stack'[i][1] \in Children(n)
       /\ \A m \in Children(n) : \E i \in l + 1 .. l + w : stack'[i][1] = m
    BY <1>6
<1> QED
    BY <1>1, <1>2, <1>3, <1>5, <1>6, <1>7, <1>8, <1>9, <1>10 DEF n, l, w

(* Children of one node stand apart, and apart from what their parent stood  *)
(* apart from.                                                               *)
LEMMA TurnKeepsApart ==
    ASSUME WalkInv, Apart, Visit, NodeError(Last(stack)[1], Last(stack)[2]) = "none"
    PROVE  Apart'
<1> DEFINE n == Last(stack)[1]
           l == Len(stack) - 1
           w == Width(n)
<1>1. /\ document \in Documents /\ UNCHANGED document
      /\ n \in Nodes /\ l \in Nat /\ w \in Nat
      /\ Len(stack) = l + 1 /\ stack[l + 1][1] = n
      /\ \A i \in 1 .. l : stack[i][1] \in Nodes
      /\ Len(stack') = l + w
      /\ \A i \in 1 .. l : stack'[i] = stack[i]
      /\ \A i \in l + 1 .. l + w : stack'[i][1] \in Children(n)
      /\ \A i, j \in l + 1 .. l + w : stack'[i][1] = stack'[j][1] => i = j
    BY Turned
<1> HIDE DEF n, l, w
<1>2. /\ Above' = Above
      /\ \A c \in Children(n) : c \in Nodes /\ c > n /\ Above[c] = {c} \cup Above[n]
    <2>1. IsDocument(document) /\ Above = AboveIn(document) /\ Above' = Above
        BY <1>1, DocumentTree, SameAbove DEF Above, AboveIn, Nodes
    <2>2. ASSUME NEW c \in Children(n) PROVE c \in Nodes /\ c # 1 /\ document.parent[c] = n /\ c > n
        BY <1>1, <2>1, FS_CardinalityType DEF Children, IsDocument, Nodes
    <2> QED
        BY <2>1, <2>2, AboveSound DEF Nodes
<1>3. \A i, j \in 1 .. l + 1 : stack[i][1] \in Above[stack[j][1]] => i = j
    BY <1>1 DEF Apart
<1>4. \A i \in 1 .. l : stack[i][1] \notin Above[n] /\ n \notin Above[stack[i][1]]
    <2> SUFFICES ASSUME NEW i \in 1 .. l
                 PROVE  stack[i][1] \notin Above[n] /\ n \notin Above[stack[i][1]]
        OBVIOUS
    <2>1. i \in 1 .. l + 1 /\ l + 1 \in 1 .. l + 1 /\ i # l + 1
        BY <1>1
    <2> QED
        BY <1>1, <1>3, <2>1
<1>5. ASSUME NEW i \in 1 .. l + w, NEW j \in 1 .. l + w,
             stack'[i][1] \in Above[stack'[j][1]]
      PROVE  i = j
    <2>1. CASE i \in 1 .. l /\ j \in 1 .. l
        <3>1. i \in 1 .. l + 1 /\ j \in 1 .. l + 1
            BY <1>1, <2>1
        <3> QED
            BY <1>1, <1>3, <1>5, <2>1, <3>1
    <2>2. CASE i \in 1 .. l /\ j \in l + 1 .. l + w
        <3> DEFINE x == stack[i][1]
                   c == stack'[j][1]
        <3>1. x \in Nodes /\ c \in Children(n) /\ x \in Above[c]
            BY <1>1, <1>5, <2>2
        <3> HIDE DEF c
        <3>2. x = c
            BY <1>2, <1>4, <2>2, <3>1
        <3>3. n \in Above[n]
            BY <1>1, Lineage
        <3>4. n \in Above[x]
            BY <1>2, <3>1, <3>2, <3>3
        <3> QED
            BY <1>4, <2>2, <3>4
    <2>3. CASE i \in l + 1 .. l + w /\ j \in 1 .. l
        <3> DEFINE c == stack'[i][1]
                   x == stack[j][1]
        <3>1. x \in Nodes /\ c \in Children(n) /\ c \in Above[x]
            BY <1>1, <1>5, <2>3
        <3> HIDE DEF c
        <3>2. n \in Above[x]
            BY <1>1, <3>1, Lineage
        <3> QED
            BY <1>4, <2>3, <3>2
    <2>4. CASE i \in l + 1 .. l + w /\ j \in l + 1 .. l + w
        <3> DEFINE c == stack'[i][1]
                   b == stack'[j][1]
        <3>1. c \in Children(n) /\ b \in Children(n) /\ c \in Above[b]
            BY <1>1, <1>5, <2>4
        <3>2. \A x \in Above[n] : x <= n
            BY <1>1, Lineage
        <3>3. c \notin Above[n]
            <4>1. c \in Nat /\ n \in Nat /\ c > n
                BY <1>1, <1>2, <3>1, DocumentTree
            <4> HIDE DEF c
            <4> QED
                BY <3>2, <4>1
        <3>4. c = b
            BY <1>2, <3>1, <3>3
        <3> QED
            BY <1>1, <2>4, <3>4
    <2> QED
        BY <1>1, <2>1, <2>2, <2>3, <2>4
<1> QED
    BY <1>1, <1>2, <1>5 DEF Apart

(* A turn takes one node off what is ahead: what is below it is below one of *)
(* its children, and nothing else that waits is above or below it.           *)
LEMMA TurnTakesOne ==
    ASSUME WalkInv, Apart, Visit, NodeError(Last(stack)[1], Last(stack)[2]) = "none"
    PROVE  Last(stack)[1] \in Ahead /\ Ahead' = Ahead \ {Last(stack)[1]}
<1> DEFINE n == Last(stack)[1]
           l == Len(stack) - 1
           w == Width(n)
<1>1. /\ document \in Documents /\ UNCHANGED document
      /\ n \in Nodes /\ l \in Nat /\ w \in Nat
      /\ Len(stack) = l + 1 /\ stack[l + 1][1] = n
      /\ DOMAIN stack = 1 .. l + 1 /\ DOMAIN stack' = 1 .. l + w
      /\ \A i \in 1 .. l : stack'[i] = stack[i]
      /\ \A i \in l + 1 .. l + w : stack'[i][1] \in Children(n)
      /\ \A m \in Children(n) : \E i \in l + 1 .. l + w : stack'[i][1] = m
    BY Turned
<1> HIDE DEF n, l, w
<1>2. Above' = Above /\ Nodes' = Nodes
    BY <1>1, SameAbove
<1>3. /\ Ahead = {m \in Nodes : \E i \in 1 .. l + 1 : stack[i][1] \in Above[m]}
      /\ Ahead' = {m \in Nodes : \E i \in 1 .. l + w : stack'[i][1] \in Above[m]}
    BY <1>1, <1>2 DEF Ahead
<1>4. n \in Ahead
    <2>1. l + 1 \in 1 .. l + 1 /\ n \in Above[n]
        BY <1>1, Lineage
    <2> QED
        BY <1>1, <1>3, <2>1
<1>5. ASSUME NEW m \in Ahead' PROVE m \in Ahead /\ m # n
    <2>1. PICK i \in 1 .. l + w : stack'[i][1] \in Above[m]
        BY <1>3
    <2>2. m \in Nodes
        BY <1>3
    <2>3. CASE i \in 1 .. l
        <3>1. i \in 1 .. l + 1 /\ l + 1 \in 1 .. l + 1 /\ i # l + 1
            BY <1>1, <2>3
        <3>2. stack[i][1] \in Above[m]
            BY <1>1, <2>1, <2>3
        <3>3. stack[i][1] \notin Above[n]
            BY <1>1, <3>1 DEF Apart
        <3> QED
            BY <1>3, <2>2, <3>1, <3>2, <3>3
    <2>4. CASE i \in l + 1 .. l + w
        <3> DEFINE c == stack'[i][1]
        <3>1. c \in Children(n) /\ c \in Above[m]
            BY <1>1, <2>1, <2>4
        <3> HIDE DEF c
        <3>2. n \in Above[m]
            BY <1>1, <2>2, <3>1, Lineage
        <3>3. m # n
            <4>1. c \in Nat /\ n \in Nat /\ n < c
                BY <1>1, <3>1, ChildAfter
            <4>2. \A x \in Above[n] : x <= n
                BY <1>1, Lineage
            <4> QED
                BY <3>1, <4>1, <4>2
        <3>4. l + 1 \in 1 .. l + 1
            BY <1>1
        <3> QED
            BY <1>1, <1>3, <2>2, <3>2, <3>3, <3>4
    <2> QED
        BY <1>1, <2>3, <2>4
<1>6. ASSUME NEW m \in Ahead, m # n PROVE m \in Ahead'
    <2>1. PICK i \in 1 .. l + 1 : stack[i][1] \in Above[m]
        BY <1>3
    <2>2. m \in Nodes
        BY <1>3
    <2>3. CASE i \in 1 .. l
        <3>1. i \in 1 .. l + w /\ stack'[i][1] \in Above[m]
            BY <1>1, <2>1, <2>3
        <3> QED
            BY <1>3, <2>2, <3>1
    <2>4. CASE i = l + 1
        <3>1. PICK c \in Children(n) : c \in Above[m]
            BY <1>1, <1>6, <2>1, <2>2, <2>4, Lineage
        <3>2. PICK j \in l + 1 .. l + w : stack'[j][1] = c
            BY <1>1
        <3>3. j \in 1 .. l + w
            BY <1>1
        <3> QED
            BY <1>3, <2>2, <3>1, <3>2, <3>3
    <2> QED
        BY <1>1, <2>3, <2>4
<1> QED
    BY <1>4, <1>5, <1>6 DEF n

(* Only in its own stage does a request walk. *)
Walks == verdict = "walking" => stage = "walk"

LEMMA NextWalks == Walks /\ [Next]_vars => Walks'
<1> SUFFICES ASSUME Walks, [Next]_vars PROVE Walks'
    OBVIOUS
<1> USE DEF Walks
<1>1. CASE Parse
    BY <1>1 DEF Parse, Goto, BeginWalk, walk
<1>2. CASE Validate
    BY <1>2 DEF Validate, egress, wire
<1>3. CASE Accepted
    BY <1>3 DEF Accepted
<1>4. CASE Refused
    BY <1>4 DEF Refused, walk
<1>5. CASE Exchange
    BY <1>5 DEF Exchange, EgressNext, Admit, Check, Send, ConnectFails, SendTimesOut,
        SendBreaks, RedirectRefused, Redirect, ErrorStatus, AnnounceFile, Announce, Chunk,
        BodyBreaks, BodyEnds, walk
<1>6. CASE RefuseInput \/ Download \/ ParseFile \/ Lookup \/ Throttled \/ Begin
    BY <1>6 DEF RefuseInput, Download, ParseFile, Lookup, Throttled, Begin, walk
<1>7. CASE Normalize \/ UNCHANGED vars
    BY <1>7 DEF Normalize, walk, vars, egress
<1> QED
    BY <1>1, <1>2, <1>3, <1>4, <1>5, <1>6, <1>7 DEF Next

(* The root stands alone, and a walk keeps apart what waits. *)
LEMMA NextApart == WalkInv /\ Walks /\ ApartInv /\ [Next]_vars => ApartInv'
<1> SUFFICES ASSUME WalkInv, Walks, ApartInv, [Next]_vars, verdict' = "walking" PROVE Apart'
    BY DEF ApartInv
<1>1. CASE UNCHANGED walk
    BY <1>1, SameAbove DEF walk, ApartInv, Apart
<1>2. CASE Parse /\ ~UNCHANGED walk
    <2>1. stack' = <<<<1, 0>>>>
        BY <1>2 DEF Parse, BeginWalk
    <2>2. \A i \in 1 .. Len(stack') : i = 1
        BY <2>1
    <2> QED
        BY <2>2 DEF Apart
<1>3. CASE Validate
    <2>1. CASE Visit /\ NodeError(Last(stack)[1], Last(stack)[2]) = "none"
        BY <2>1, TurnKeepsApart DEF Visit, ApartInv
    <2>2. CASE Visit /\ NodeError(Last(stack)[1], Last(stack)[2]) # "none"
        BY <1>1, <2>2 DEF Visit, Refuse, walk, NodeError, TooWide
    <2>3. CASE WalkEnds \/ FieldLimits
        BY <2>3, FieldsRightly DEF WalkEnds
    <2> QED
        BY <1>3, <2>1, <2>2, <2>3 DEF Validate, WalkNext
<1>4. CASE Accepted
    BY <1>4 DEF Accepted
<1>5. CASE RefuseInput \/ Download \/ ParseFile \/ Lookup \/ Throttled \/ Begin
           \/ Exchange \/ Refused \/ Normalize \/ UNCHANGED vars
    BY <1>1, <1>5 DEF RefuseInput, Download, ParseFile, Lookup, Throttled, Begin, Exchange,
        Refused, Normalize, vars
<1> QED
    BY <1>1, <1>2, <1>3, <1>4, <1>5 DEF Next

(* Only a turn of the loop moves the stack of a walk. *)
LEMMA StepTakesOne ==
    ASSUME WalkInv, Walks, ApartInv, [Next]_vars, verdict = "walking", stack' # stack
    PROVE  Last(stack)[1] \in Ahead /\ Ahead' = Ahead \ {Last(stack)[1]}
<1>1. stage = "walk" /\ Apart
    BY DEF Walks, ApartInv
<1>2. ~UNCHANGED walk
    BY DEF walk
<1>3. Visit /\ NodeError(Last(stack)[1], Last(stack)[2]) = "none"
    <2>1. CASE Validate
        BY <2>1 DEF Validate, WalkNext, Visit, Refuse, WalkEnds, FieldLimits
    <2>2. CASE Parse \/ Accepted
        BY <1>1, <2>2 DEF Parse, Accepted
    <2>3. CASE RefuseInput \/ Download \/ ParseFile \/ Lookup \/ Throttled \/ Begin
               \/ Exchange \/ Refused \/ Normalize \/ UNCHANGED vars
        BY <1>2, <2>3 DEF RefuseInput, Download, ParseFile, Lookup, Throttled, Begin, Exchange,
            Refused, Normalize, vars
    <2> QED
        BY <2>1, <2>2, <2>3 DEF Next
<1> QED
    BY <1>1, <1>3, TurnTakesOne

(* The walk looks at every node of every document once, and at all of it     *)
(* unless it refuses it: each turn takes the top of the stack, and nothing   *)
(* else, off what it has ahead (validate_json_structure).                    *)
THEOREM VisitedOnce == Spec => EachNodeOnce
<1>1. Init => WalkInv /\ Walks /\ ApartInv
    BY DEF Init, WalkInit, WalkInv, Walks, ApartInv, LimitErrors
<1>2. WalkInv /\ Walks /\ ApartInv /\ [Next]_vars => (WalkInv /\ Walks /\ ApartInv)'
    BY NextWalk, NextWalks, NextApart
<1>3. WalkInv /\ Walks /\ ApartInv /\ [Next]_vars =>
        [verdict = "walking" /\ stack' # stack =>
            Last(stack)[1] \in Ahead /\ Ahead' = Ahead \ {Last(stack)[1]}]_walk
    BY StepTakesOne
<1>4. QED
    BY <1>1, <1>2, <1>3, PTL DEF Spec, EachNodeOnce

-----------------------------------------------------------------------------
(* From the document to the response.                                        *)

LEMMA MinFound ==
    ASSUME NEW S \in SUBSET Nat, S # {}
    PROVE  Min(S) \in S /\ \A n \in S : Min(S) <= n
<1>1. \E n \in S : \A m \in S : n <= m
    BY LeastNatural
<1> QED
    BY <1>1 DEF Min

(* What is left of a list is what can be read, in its order. *)
LEMMA ParsedFaithfully ==
    ASSUME NEW list, KnownByPlace(list)
    PROVE  FaithfulList(Parsed(list), list)
<1> DEFINE K == {i \in DOMAIN list : list[i].sound}
           k == Cardinality(K)
           P == Parsed(list)
<1>1. K \in SUBSET Nat /\ IsFiniteSet(K)
    BY FS_Subset DEF KnownByPlace
<1>2. \A i \in K : i \in DOMAIN list /\ list[i].id = i
    BY DEF KnownByPlace
<1>3. SoundIds(list) = K
    BY <1>2 DEF SoundIds
<1>4. P = Filtered(list, K)
    BY DEF Parsed
<1> HIDE DEF K, P
<1>5. /\ k \in Nat /\ DOMAIN P = 1 .. k /\ Len(P) = k
      /\ \A i \in 1 .. k : InOrder(K)[i] \in K /\ P[i] = list[InOrder(K)[i]]
      /\ \A n \in K : Before(K, n) + 1 \in 1 .. k /\ P[Before(K, n) + 1] = list[n]
    BY <1>1, <1>4, FilteredPlaces
<1>6. \A i \in 1 .. k : P[i].id = InOrder(K)[i]
    BY <1>2, <1>5
<1>7. Ids(P) = K
    <2>1. Ids(P) \subseteq K
        BY <1>5, <1>6 DEF Ids
    <2>2. ASSUME NEW n \in K PROVE n \in Ids(P)
        <3>1. Before(K, n) + 1 \in DOMAIN P /\ P[Before(K, n) + 1].id = n
            BY <1>2, <1>5
        <3> QED
            BY <3>1 DEF Ids
    <2> QED
        BY <2>1, <2>2
<1>8. \A i, j \in DOMAIN P : i < j => P[i].id < P[j].id
    BY <1>1, <1>5, <1>6, InOrderSorted
<1> QED
    BY <1>3, <1>5, <1>7, <1>8 DEF FaithfulList, P

(* The first property that is no other one is an fn, or hides every fn.      *)
LEMMA NameFaithful ==
    ASSUME NEW vcard, IsVcard(vcard)
    PROVE  FaithfulName(vcard, VcardName(vcard))
<1> DEFINE first == {i \in DOMAIN vcard : vcard[i] # "other"}
           named == {i \in DOMAIN vcard : vcard[i] = "fn"}
           m == Min(first)
<1>1. first \in SUBSET Nat /\ named \in SUBSET first
    BY DEF IsVcard
<1>2. CASE first = {}
    <2>1. VcardName(vcard) = 0 /\ named = {}
        BY <1>1, <1>2 DEF VcardName
    <2> QED
        BY <2>1 DEF FaithfulName
<1>3. CASE first # {}
    <2> HIDE DEF first
    <2>1. m \in first /\ m \in Nat /\ \A i \in first : m <= i
        BY <1>1, <1>3, MinFound
    <2> HIDE DEF m
    <2>2. m \in DOMAIN vcard /\ m # 0 /\ vcard[m] \in {"fn"} \cup Unreadable
        BY <2>1 DEF first, IsVcard
    <2>3. CASE vcard[m] = "fn"
        <3>1. VcardName(vcard) = m
            BY <1>3, <2>3 DEF VcardName, first, m
        <3> QED
            BY <1>1, <2>1, <2>2, <2>3, <3>1 DEF FaithfulName
    <2>4. CASE vcard[m] # "fn"
        <3>1. VcardName(vcard) = 0
            BY <2>4 DEF VcardName, first, m
        <3>2. ASSUME NEW i \in named PROVE m < i
            <4>1. i \in first /\ i \in Nat /\ i # m
                BY <1>1, <2>4
            <4> QED
                BY <2>1, <4>1
        <3> QED
            BY <2>2, <2>4, <3>1, <3>2 DEF FaithfulName
    <2> QED
        BY <2>3, <2>4
<1> QED
    BY <1>2, <1>3

(* The first of the parsed entities with the role is the first readable one. *)
LEMMA RegistrarFaithful ==
    ASSUME NEW list, KnownByPlace(list), \A i \in DOMAIN list : IsVcard(list[i].vcard)
    PROVE  FaithfulRegistrar(Registrar(Parsed(list)), list)
<1> DEFINE K == {i \in DOMAIN list : list[i].sound}
           k == Cardinality(K)
           P == Parsed(list)
           holders == {i \in DOMAIN list : list[i].sound /\ list[i].registrar}
           registrars == {i \in DOMAIN P : P[i].registrar}
<1>1. K \in SUBSET Nat /\ IsFiniteSet(K)
    BY FS_Subset DEF KnownByPlace
<1>2. \A i \in holders : i \in K /\ list[i].registrar /\ list[i].id = i
    BY DEF KnownByPlace
<1>3. \A i \in K : list[i].registrar => i \in holders
    OBVIOUS
<1>4. P = Filtered(list, K)
    BY DEF Parsed
<1> HIDE DEF K, P, holders
<1>5. /\ k \in Nat /\ DOMAIN P = 1 .. k
      /\ \A i \in 1 .. k : InOrder(K)[i] \in K /\ P[i] = list[InOrder(K)[i]]
      /\ \A n \in K : Before(K, n) + 1 \in 1 .. k /\ P[Before(K, n) + 1] = list[n]
    BY <1>1, <1>4, FilteredPlaces
<1>6. \A n \in holders : Before(K, n) + 1 \in registrars
    BY <1>2, <1>5
<1>7. \A i \in registrars : InOrder(K)[i] \in holders
    BY <1>3, <1>5
<1>8. CASE registrars = {}
    <2>1. holders = {} /\ Registrar(P) = NoResponse
        BY <1>6, <1>8 DEF Registrar
    <2> QED
        BY <2>1 DEF FaithfulRegistrar, holders, P
<1>9. CASE registrars # {}
    <2> DEFINE r == Min(registrars)
               h == InOrder(K)[r]
               vcard == P[r].vcard
    <2>1. registrars \in SUBSET Nat
        BY <1>5
    <2> HIDE DEF registrars
    <2>2. r \in registrars /\ \A i \in registrars : r <= i
        BY <1>9, <2>1, LeastNatural DEF Min
    <2>3. h \in holders /\ r \in 1 .. k /\ P[r] = list[h]
        BY <1>5, <1>7, <2>2 DEF registrars
    <2>4. ASSUME NEW j \in holders PROVE h <= j
        <3> DEFINE s == Before(K, j) + 1
        <3>1. s \in registrars /\ s \in 1 .. k /\ InOrder(K)[s] = j
            BY <1>1, <1>2, <1>5, <1>6, InOrderSorted
        <3>2. r <= s
            BY <2>2, <3>1
        <3> HIDE DEF s, r
        <3>3. r = s \/ r < s
            BY <1>5, <2>3, <3>1, <3>2
        <3>4. h \in Nat /\ j \in Nat
            BY <1>1, <1>2, <2>3
        <3>5. r < s => h < j
            BY <1>1, <2>3, <3>1, InOrderSorted
        <3> QED
            BY <3>1, <3>3, <3>4, <3>5
    <2>5. Registrar(P) = [id |-> P[r].id, name |-> VcardName(vcard)]
        BY <1>9 DEF Registrar, registrars
    <2> HIDE DEF r, h
    <2>7. Registrar(P).id = list[h].id /\ Registrar(P).name = VcardName(vcard)
        BY <2>3, <2>5
    <2>8. vcard = list[h].vcard /\ FaithfulName(vcard, VcardName(vcard))
        BY <2>3, NameFaithful DEF holders
    <2> QED
        BY <2>3, <2>4, <2>7, <2>8 DEF FaithfulRegistrar, holders, P
<1> QED
    BY <1>8, <1>9

(* A number that fits is not altered by the cut. *)
LEMMA SmallNumberKept ==
    ASSUME NEW w \in Nat \ {0}, NEW n \in Nat, n < w
    PROVE  n % w = n
BY SMT

(* What the normalizer makes of a body of the class asked for. *)
LEMMA NormalizedFaithful ==
    ASSUME NEW class \in Classes, NEW b \in Bodies, ClassError(class, b.class) = "ok"
    PROVE  FaithfulTo(class, b, Normalized(class, b))
<1>1. b.class = class
    BY DEF ClassError
<1>2. /\ FaithfulList(Parsed(b.entities), b.entities)
      /\ FaithfulList(Parsed(b.list), b.list)
      /\ FaithfulRegistrar(Registrar(Parsed(b.entities)), b.entities)
    BY NormalizerAssumption, ParsedFaithfully, RegistrarFaithful
<1>3. /\ Normalized(class, b).class = class
      /\ Normalized(class, b).entities = Parsed(b.entities)
      /\ Normalized(class, b).list = Parsed(b.list)
      /\ class = "domain" =>
            Normalized(class, b).registrar = Registrar(Parsed(b.entities))
      /\ class = "autnum" => Normalized(class, b).number = b.number % Wide
    BY DEF Normalized, Classes, DomainResponse, IpResponse, AsnResponse,
        NameserverResponse, EntityResponse, Response
<1>4. b.number < Wide => b.number % Wide = b.number
    BY NormalizerAssumption, SmallNumberKept
<1> QED
    BY <1>1, <1>2, <1>3, <1>4 DEF FaithfulTo

(* A response has the class that was asked for, every element of the lists   *)
(* that can be read in its order, of the entities the first with the role as *)
(* registrar, with the first name in its vcard unless an unreadable property *)
(* stands before all of them, and a number of up to 32 bits unaltered,       *)
(* whatever else in the document cannot be read (the five normalize methods, *)
(* parse_entities, extract_registrar, extract_vcard_name).                   *)
THEOREM ResponseFaithful == Spec => []Normalised
<1>1. Init => Normalised
    BY DEF Init, EgressInit, Normalised, Pending, Success, Local
<1>2. ASSUME Normalised, [Next]_vars PROVE Normalised'
    <2>1. Success \notin OtherFailures
        BY SMTT(30) DEF Success, OtherFailures, Local, HttpStatus, OtherKinds
    <2>2. CASE Normalize
        <3>1. /\ asked' \in Classes /\ body' \in Bodies
              /\ \/ /\ ClassError(asked', body'.class) = "ok"
                    /\ response' = Normalized(asked', body')
                 \/ /\ ClassError(asked', body'.class) # "ok"
                    /\ Fail(ClassError(asked', body'.class))
            BY <2>2 DEF Normalize
        <3>2. CASE ClassError(asked', body'.class) = "ok"
            <4>1. FaithfulTo(asked', body', response')
                BY <3>1, <3>2, NormalizedFaithful
            <4> QED
                BY <4>1 DEF Normalised, Faithful
        <3>3. CASE ClassError(asked', body'.class) # "ok"
            <4>1. ClassError(asked', body'.class) \in OtherKinds
                BY <3>3 DEF ClassError, OtherKinds
            <4>2. outcome' \in OtherFailures
                BY <3>1, <3>3, <4>1, FailsWithKind
            <4> QED
                BY <2>1, <4>2 DEF Normalised
        <3> QED
            BY <3>2, <3>3
    <2>3. CASE outcome' \in OtherFailures
        BY <2>1, <2>3 DEF Normalised
    <2>4. CASE Fail("NoServerFound")
        BY <2>4 DEF Fail, FailWith, Normalised, Success, Local
    <2>5. CASE outcome' = outcome /\ ~ Normalize
        <3>1. UNCHANGED normal
            BY <1>2, <2>5 DEF Next, RefuseInput, Refused, ParseFile, Parse, Accepted, Lookup,
                Throttled, Download, Begin, Exchange, Validate, vars
        <3> QED
            BY <1>2, <2>5, <3>1 DEF Normalised, Faithful, normal
    <2> QED
        BY <1>2, <2>2, <2>3, <2>4, <2>5, NextOutcome
<1> QED
    BY <1>1, <1>2, PTL DEF Spec

-----------------------------------------------------------------------------
(* The server of a question. *)

LEMMA ListPlaces ==
    ASSUME NEW l, IsList(l)
    PROVE  /\ Len(l) \in Nat /\ DOMAIN l = 1 .. Len(l) /\ DOMAIN l \in SUBSET Nat
           /\ l = [i \in 1 .. Len(l) |-> l[i]]
<1>1. l \in Seq(ToSet(l))
    BY DEF IsList
<1>2. l \in [1 .. Len(l) -> ToSet(l)] /\ Len(l) \in Nat /\ DOMAIN l = 1 .. Len(l)
    BY <1>1, LenProperties
<1> QED
    BY <1>2

(* A sequence is known by its length and its items. *)
LEMMA ListBuilt ==
    ASSUME NEW l, NEW n \in Nat, DOMAIN l = 1 .. n, l = [i \in 1 .. n |-> l[i]]
    PROVE  IsList(l) /\ Len(l) = n
<1> DEFINE S == ToSet(l)
<1>1. l \in [1 .. n -> S]
    BY DEF ToSet
<1> HIDE DEF S
<1>2. l \in Seq(S)
    BY <1>1
<1>3. Len(l) \in Nat /\ DOMAIN l = 1 .. Len(l)
    BY <1>2, LenProperties
<1>4. Len(l) = n
    BY <1>3
<1> QED
    BY <1>2, <1>4 DEF IsList, S

(* Lowering a name keeps its length and commutes with taking a suffix. *)
LEMMA LowerLength ==
    ASSUME NEW name, IsList(name)
    PROVE  /\ IsList(ToLower(name)) /\ Len(ToLower(name)) = Len(name)
           /\ DOMAIN ToLower(name) = DOMAIN name
<1>1. Len(name) \in Nat /\ DOMAIN name = 1 .. Len(name)
    BY ListPlaces
<1> DEFINE l == ToLower(name)
<1>2. DOMAIN l = 1 .. Len(name) /\ l = [i \in 1 .. Len(name) |-> l[i]]
    BY <1>1 DEF ToLower
<1> HIDE DEF l
<1>3. IsList(l) /\ Len(l) = Len(name)
    BY <1>1, <1>2, ListBuilt
<1> QED
    BY <1>1, <1>2, <1>3 DEF l

LEMMA SuffixOf ==
    ASSUME NEW name, IsList(name), NEW i \in DOMAIN name
    PROVE  /\ IsList(Suffix(name, i))
           /\ Len(Suffix(name, i)) = Len(name) - i + 1
           /\ \A j \in 1 .. Len(name) - i + 1 : Suffix(name, i)[j] = name[i + j - 1]
<1>1. Len(name) \in Nat /\ i \in 1 .. Len(name)
    BY ListPlaces
<1>2. \A j \in i .. Len(name) : name[j] \in ToSet(name)
    BY <1>1, ListPlaces DEF ToSet
<1> DEFINE s == Suffix(name, i)
           n == Len(name) - i + 1
<1>3. /\ s \in Seq(ToSet(name))
      /\ Len(s) = n /\ n \in Nat
      /\ \A j \in 1 .. n : s[j] = name[i + j - 1]
    BY <1>1, <1>2, SubSeqProperties DEF Suffix
<1> HIDE DEF s
<1>4. DOMAIN s = 1 .. n /\ s \in [1 .. n -> ToSet(name)]
    BY <1>3, LenProperties
<1>5. s = [j \in 1 .. n |-> s[j]]
    BY <1>4
<1>6. IsList(s)
    BY <1>3, <1>4, <1>5, ListBuilt
<1> QED
    BY <1>3, <1>6 DEF s

LEMMA SuffixLower ==
    ASSUME NEW name, IsList(name), NEW i \in DOMAIN name
    PROVE  /\ Suffix(ToLower(name), i) = ToLower(Suffix(name, i))
           /\ Len(ToLower(Suffix(name, i))) = Len(name) - i + 1
<1> DEFINE low == ToLower(name)
           s == Suffix(low, i)
           t == ToLower(Suffix(name, i))
           n == Len(name) - i + 1
<1>1. Len(name) \in Nat /\ i \in 1 .. Len(name) /\ DOMAIN name = 1 .. Len(name)
    BY ListPlaces
<1>2. IsList(low) /\ Len(low) = Len(name) /\ i \in DOMAIN low
    BY LowerLength
<1>3. IsList(s) /\ Len(s) = n /\ \A j \in 1 .. n : s[j] = low[i + j - 1]
    BY <1>2, SuffixOf
<1>4. IsList(t) /\ Len(t) = n /\ DOMAIN t = DOMAIN Suffix(name, i)
    BY SuffixOf, LowerLength
<1>5. DOMAIN t = 1 .. n /\ DOMAIN s = 1 .. n
      /\ s = [j \in 1 .. n |-> s[j]] /\ t = [j \in 1 .. n |-> t[j]]
    BY <1>3, <1>4, ListPlaces
<1>6. ASSUME NEW j \in 1 .. n PROVE s[j] = t[j]
    <2>1. i + j - 1 \in DOMAIN name
        BY <1>1
    <2>2. low[i + j - 1] = [name[i + j - 1] EXCEPT !.capital = FALSE]
        BY <2>1 DEF ToLower
    <2>3. Suffix(name, i)[j] = name[i + j - 1] /\ j \in DOMAIN Suffix(name, i)
        BY <1>4, <1>5, SuffixOf
    <2>4. t[j] = [Suffix(name, i)[j] EXCEPT !.capital = FALSE]
        BY <2>3 DEF ToLower
    <2> QED
        BY <1>3, <2>2, <2>3, <2>4
<1> HIDE DEF s, t, n
<1>7. s = t
    BY <1>5, <1>6
<1> QED
    BY <1>4, <1>7 DEF s, t, n, low

(* What longest_suffix finds: nothing if no pattern is a suffix of the name, *)
(* and otherwise a pattern such that no other suffix is longer.              *)
LEMMA LongestFound ==
    ASSUME NEW name, IsList(name),
           NEW patterns, \A p \in patterns : IsList(p),
           NEW keys, \A k : k \in keys <=> \E p \in patterns : ToLower(p) = k,
           NEW found, found = LongestSuffix(keys, name)
    PROVE  /\ found = <<>> <=> RegisteredFor(name, patterns) = {}
           /\ found # <<>> => \E p \in patterns : ToLower(p) = found
           /\ \A p \in patterns :
                found # <<>> /\ ToLower(p) = found
                    => /\ p \in RegisteredFor(name, patterns)
                       /\ \A other \in RegisteredFor(name, patterns) : Len(other) <= Len(p)
<1> DEFINE starts == {i \in DOMAIN name : Suffix(ToLower(name), i) \in keys}
           registered == RegisteredFor(name, patterns)
<1>1. Len(name) \in Nat /\ DOMAIN name = 1 .. Len(name)
    BY ListPlaces
<1>2. ASSUME NEW p \in patterns, NEW i \in DOMAIN name,
             ToLower(p) = ToLower(Suffix(name, i))
      PROVE  i \in starts /\ p \in registered /\ Len(p) = Len(name) - i + 1
    <2>1. Suffix(ToLower(name), i) = ToLower(p)
        BY <1>2, SuffixLower
    <2>2. Len(ToLower(p)) = Len(p) /\ Len(ToLower(p)) = Len(name) - i + 1
        BY <1>2, SuffixLower, LowerLength
    <2> QED
        BY <1>2, <2>1, <2>2 DEF RegisteredFor
<1>3. ASSUME NEW i \in starts
      PROVE  \E p \in patterns : ToLower(p) = Suffix(ToLower(name), i)
                                 /\ ToLower(p) = ToLower(Suffix(name, i))
    BY <1>3, SuffixLower
<1>4. registered = {} <=> starts = {}
    BY <1>2, <1>3 DEF RegisteredFor
<1>5. CASE starts = {}
    <2>1. found = <<>>
        BY <1>5 DEF LongestSuffix
    <2> QED
        BY <1>4, <1>5, <2>1
<1>6. CASE starts # {}
    <2> DEFINE m == Min(starts)
    <2>1. m \in starts /\ \A i \in starts : m <= i
        <3>1. starts \in SUBSET Nat
            BY <1>1
        <3> HIDE DEF starts
        <3> QED
            BY <1>6, <3>1, MinFound
    <2>2. found = Suffix(ToLower(name), m)
        BY <1>6 DEF LongestSuffix
    <2> HIDE DEF m, starts
    <2>3. m \in DOMAIN name
        BY <2>1 DEF starts
    <2>4. found = ToLower(Suffix(name, m)) /\ Len(found) = Len(name) - m + 1
        BY <2>2, <2>3, SuffixLower
    <2>5. found # <<>>
        <3>1. Len(found) # 0
            BY <1>1, <2>3, <2>4
        <3>2. Len(<<>>) = 0
            OBVIOUS
        <3> QED
            BY <3>1, <3>2
    <2>6. \E p \in patterns : ToLower(p) = found
        BY <1>3, <2>1, <2>2
    <2>7. ASSUME NEW p \in patterns, ToLower(p) = found
          PROVE  p \in registered /\ \A other \in registered : Len(other) <= Len(p)
        <3>1. p \in registered /\ Len(p) = Len(name) - m + 1
            BY <1>2, <2>3, <2>4, <2>7
        <3>2. ASSUME NEW other \in registered PROVE Len(other) <= Len(p)
            <4>1. PICK i \in DOMAIN name : ToLower(other) = ToLower(Suffix(name, i))
                BY DEF RegisteredFor
            <4>2. other \in patterns
                BY DEF RegisteredFor
            <4>3. i \in starts /\ Len(other) = Len(name) - i + 1
                BY <1>2, <4>1, <4>2
            <4>4. m <= i /\ i \in Nat /\ m \in Nat
                BY <1>1, <2>1, <2>3, <4>1, <4>3
            <4> QED
                BY <1>1, <3>1, <4>3, <4>4
        <3> QED
            BY <3>1, <3>2
    <2> QED
        BY <1>4, <1>6, <2>5, <2>6, <2>7
<1> QED
    BY <1>5, <1>6

(* A service that is named first is answered with a usable server of its own. *)
LEMMA FirstServerUsable ==
    ASSUME NEW file, IsFile(file), NEW places \in SUBSET Kept(file), places # {}
    PROVE  \E i \in places : FirstServer(file, places) \in ToSet(file[i].servers) \ {NoUrl}
<1> DEFINE i == Min(places)
           servers == file[i].servers
           u == Min(Usable(servers))
<1>1. places \in SUBSET Nat
    BY ListPlaces DEF IsFile, Kept
<1>2. i \in places
    BY <1>1, MinFound
<1>3. IsList(servers) /\ Usable(servers) # {}
    BY <1>2 DEF IsFile, Kept
<1>4. Usable(servers) \in SUBSET Nat
    BY <1>3, ListPlaces DEF Usable
<1>5. u \in Usable(servers)
    BY <1>3, <1>4, MinFound
<1>6. FirstServer(file, places) = servers[u]
    BY DEF FirstServer
<1> HIDE DEF u, servers, i
<1>7. servers[u] \in ToSet(servers) \ {NoUrl}
    BY <1>5 DEF Usable, ToSet
<1> QED
    BY <1>2, <1>6, <1>7 DEF servers

(* The keys of the index are the patterns of the file in lower case. *)
LEMMA IndexedKeys ==
    ASSUME NEW file, IsFile(file)
    PROVE  IndexKeys(file) = {ToLower(p) : p \in FileKeys(file)}
<1>1. ASSUME NEW i \in Kept(file), NEW p \in ToSet(file[i].patterns)
      PROVE  p \in FileKeys(file)
    <2>1. i \in DOMAIN file /\ file[i] \in ToSet(file)
        BY DEF Kept, ToSet
    <2>2. \E u \in ToSet(file[i].servers) : u # NoUrl
        BY DEF Kept, Usable, ToSet
    <2> QED
        BY <2>1, <2>2 DEF FileKeys
<1>2. ASSUME NEW p \in FileKeys(file)
      PROVE  \E i \in Kept(file) : p \in ToSet(file[i].patterns)
    <2>1. PICK s \in ToSet(file) : /\ \E u \in ToSet(s.servers) : u # NoUrl
                                   /\ p \in ToSet(s.patterns)
        BY DEF FileKeys
    <2>2. PICK i \in DOMAIN file : s = file[i]
        BY DEF ToSet
    <2>3. i \in Kept(file)
        BY <2>1, <2>2 DEF Kept, Usable, ToSet
    <2> QED
        BY <2>1, <2>2, <2>3
<1> QED
    BY <1>1, <1>2 DEF IndexKeys

LEMMA LongestMatchFound ==
    ASSUME NEW q, IsQuestion(q), q.kind = "domain"
    PROVE  IsLongestMatch(q, Answer(q))
<1> DEFINE overrides == RegisteredFor(q.name, DOMAIN q.custom)
           keys == RegisteredFor(q.name, FileKeys(q.file))
           Longest(ks) == {k \in ks : \A other \in ks : Len(other) <= Len(k)}
           override == Override(q.custom, q.name)
           key == LongestSuffix(IndexKeys(q.file), q.name)
<1>1. /\ IsFile(q.file) /\ IsList(q.name)
      /\ \A k \in DOMAIN q.custom : IsList(k)
      /\ \A i \in DOMAIN q.file : \A p \in ToSet(q.file[i].patterns) : IsList(p)
    BY DEF IsQuestion
<1>2. Answer(q) = IF override # <<>>
                  THEN q.custom[CHOOSE k \in DOMAIN q.custom : ToLower(k) = override]
                  ELSE IF key # <<>> THEN FirstServer(q.file, Listing(q.file, key))
                  ELSE NoServer
    BY DEF Answer, ForDomain
<1>3. \A p \in FileKeys(q.file) : IsList(p)
    BY <1>1 DEF FileKeys, ToSet
<1>4. key = LongestSuffix({ToLower(p) : p \in FileKeys(q.file)}, q.name)
    BY <1>1, IndexedKeys
<1>5. override = LongestSuffix({ToLower(k) : k \in DOMAIN q.custom}, q.name)
    BY DEF Override
<1> HIDE DEF override, key
<1>6. /\ override = <<>> <=> overrides = {}
      /\ override # <<>> => \E k \in DOMAIN q.custom : ToLower(k) = override
      /\ \A k \in DOMAIN q.custom :
            override # <<>> /\ ToLower(k) = override => k \in Longest(overrides)
    <2> DEFINE P == DOMAIN q.custom
               K == {ToLower(p) : p \in P}
    <2>1. /\ IsList(q.name) /\ \A p \in P : IsList(p)
          /\ \A k : k \in K <=> \E p \in P : ToLower(p) = k
          /\ override = LongestSuffix(K, q.name)
        BY <1>1, <1>5
    <2> HIDE DEF P, K
    <2>2. /\ override = <<>> <=> RegisteredFor(q.name, P) = {}
          /\ override # <<>> => \E p \in P : ToLower(p) = override
          /\ \A p \in P :
                override # <<>> /\ ToLower(p) = override
                    => /\ p \in RegisteredFor(q.name, P)
                       /\ \A other \in RegisteredFor(q.name, P) : Len(other) <= Len(p)
        BY <2>1, LongestFound
    <2> QED
        BY <2>2 DEF P
<1>7. /\ key = <<>> <=> keys = {}
      /\ key # <<>> => \E k \in FileKeys(q.file) : ToLower(k) = key
      /\ \A k \in FileKeys(q.file) : key # <<>> /\ ToLower(k) = key => k \in Longest(keys)
    <2> DEFINE P == FileKeys(q.file)
               K == {ToLower(p) : p \in P}
    <2>1. /\ IsList(q.name) /\ \A p \in P : IsList(p)
          /\ \A k : k \in K <=> \E p \in P : ToLower(p) = k
          /\ key = LongestSuffix(K, q.name)
        BY <1>1, <1>3, <1>4
    <2> HIDE DEF P, K
    <2>2. /\ key = <<>> <=> RegisteredFor(q.name, P) = {}
          /\ key # <<>> => \E p \in P : ToLower(p) = key
          /\ \A p \in P :
                key # <<>> /\ ToLower(p) = key
                    => /\ p \in RegisteredFor(q.name, P)
                       /\ \A other \in RegisteredFor(q.name, P) : Len(other) <= Len(p)
        BY <2>1, LongestFound
    <2> QED
        BY <2>2 DEF P
<1> HIDE DEF overrides, keys, Longest
<1>8. CASE overrides # {}
    <2> DEFINE k == CHOOSE k \in DOMAIN q.custom : ToLower(k) = override
    <2>1. k \in DOMAIN q.custom /\ ToLower(k) = override
        BY <1>6, <1>8
    <2>2. k \in Longest(overrides) /\ Answer(q) = q.custom[k]
        BY <1>2, <1>6, <1>8, <2>1
    <2> QED
        BY <1>8, <2>2 DEF IsLongestMatch, overrides, Longest
<1>9. CASE overrides = {} /\ keys = {}
    BY <1>2, <1>6, <1>7, <1>9 DEF IsLongestMatch, overrides, keys
<1>10. CASE overrides = {} /\ keys # {}
    <2> DEFINE places == Listing(q.file, key)
    <2>1. key # <<>> /\ Answer(q) = FirstServer(q.file, places)
        BY <1>2, <1>6, <1>7, <1>10
    <2>2. key \in IndexKeys(q.file)
        BY <1>1, <1>7, <2>1, IndexedKeys
    <2>3. PICK j \in Kept(q.file) : \E p \in ToSet(q.file[j].patterns) : ToLower(p) = key
        BY <2>2 DEF IndexKeys
    <2>4. places # {} /\ places \in SUBSET Kept(q.file)
        BY <2>3 DEF Listing, Lists, ToSet
    <2>5. PICK i \in places : FirstServer(q.file, places) \in ToSet(q.file[i].servers) \ {NoUrl}
        BY <1>1, <2>4, FirstServerUsable
    <2>6. i \in Kept(q.file) /\ i \in DOMAIN q.file
        BY <2>4 DEF Kept
    <2>7. PICK p \in ToSet(q.file[i].patterns) : ToLower(p) = key
        BY DEF Listing, Lists, ToSet
    <2>8. p \in FileKeys(q.file)
        <3>1. q.file[i] \in ToSet(q.file) /\ \E u \in ToSet(q.file[i].servers) : u # NoUrl
            BY <2>5, <2>6 DEF ToSet
        <3> QED
            BY <2>7, <3>1 DEF FileKeys
    <2>9. p \in Longest(keys)
        BY <1>7, <2>1, <2>7, <2>8
    <2> HIDE DEF places
    <2> QED
        BY <1>10, <2>1, <2>5, <2>6, <2>7, <2>9 DEF IsLongestMatch, overrides, keys, Longest
<1> QED
    BY <1>8, <1>9, <1>10

(* The services a number is looked up in are those that claim it and name a  *)
(* server.                                                                   *)
LEMMA RegisteredFound ==
    ASSUME NEW q, IsQuestion(q), q.kind = "number"
    PROVE  IsRegistered(q, Answer(q))
<1> DEFINE claims == {i \in DOMAIN q.file :
                        /\ ToSet(q.file[i].servers) \ {NoUrl} # {}
                        /\ \E p \in ToSet(q.file[i].patterns) : Covers(p, q.number)}
           places == Covering(q.file, q.number)
<1>1. IsFile(q.file) /\ Answer(q) = FirstServer(q.file, places)
    BY DEF IsQuestion, Answer, ForNumber
<1>2. places \in SUBSET Kept(q.file)
    BY DEF Covering
<1>3. \A i \in DOMAIN q.file :
        Usable(q.file[i].servers) # {} <=> ToSet(q.file[i].servers) \ {NoUrl} # {}
    BY DEF Usable, ToSet
<1>4. claims = places
    BY <1>3 DEF Covering, Kept
<1> HIDE DEF claims, places
<1>5. CASE places = {}
    BY <1>1, <1>4, <1>5 DEF IsRegistered, claims, FirstServer
<1>6. CASE places # {}
    BY <1>1, <1>2, <1>4, <1>6, FirstServerUsable DEF IsRegistered, claims
<1> QED
    BY <1>5, <1>6

-----------------------------------------------------------------------------
(* The order of the services.  A place and the one that takes it in the      *)
(* reversed file hold the same service.                                      *)
Flipped(file, i) == Len(file) - i + 1

LEMMA ReversedFile ==
    ASSUME NEW file, IsFile(file)
    PROVE  /\ DOMAIN Reverse(file) = DOMAIN file
           /\ \A i \in DOMAIN file :
                /\ Flipped(file, i) \in DOMAIN file
                /\ Flipped(file, Flipped(file, i)) = i
                /\ Reverse(file)[i] = file[Flipped(file, i)]
           /\ \A i \in DOMAIN file : i \in Kept(Reverse(file)) <=> Flipped(file, i) \in Kept(file)
           /\ IndexKeys(Reverse(file)) = IndexKeys(file)
<1> DEFINE r == Reverse(file)
<1>1. Len(file) \in Nat /\ DOMAIN file = 1 .. Len(file)
    BY ListPlaces DEF IsFile
<1>2. DOMAIN r = DOMAIN file /\ \A i \in DOMAIN file : r[i] = file[Flipped(file, i)]
    BY <1>1 DEF Reverse, Flipped
<1>3. ASSUME NEW i \in DOMAIN file
      PROVE  Flipped(file, i) \in DOMAIN file /\ Flipped(file, Flipped(file, i)) = i
    BY <1>1 DEF Flipped
<1> HIDE DEF r
<1>4. \A i \in DOMAIN file : i \in Kept(r) <=> Flipped(file, i) \in Kept(file)
    BY <1>2, <1>3 DEF Kept
<1>5. ASSUME NEW k PROVE k \in IndexKeys(r) <=> k \in IndexKeys(file)
    <2>1. ASSUME NEW i \in Kept(r), NEW p \in ToSet(r[i].patterns), k = ToLower(p)
          PROVE  k \in IndexKeys(file)
        <3>1. i \in DOMAIN file /\ Flipped(file, i) \in Kept(file)
              /\ p \in ToSet(file[Flipped(file, i)].patterns)
            BY <1>2, <1>4 DEF Kept
        <3> QED
            BY <2>1, <3>1 DEF IndexKeys
    <2>2. ASSUME NEW i \in Kept(file), NEW p \in ToSet(file[i].patterns), k = ToLower(p)
          PROVE  k \in IndexKeys(r)
        <3> DEFINE f == Flipped(file, i)
        <3>1. i \in DOMAIN file /\ f \in DOMAIN file /\ Flipped(file, f) = i
            BY <1>3 DEF Kept
        <3> HIDE DEF f
        <3>2. f \in Kept(r) /\ r[f] = file[i]
            BY <1>2, <1>4, <3>1
        <3> QED
            BY <2>2, <3>2 DEF IndexKeys
    <2> QED
        BY <2>1, <2>2 DEF IndexKeys
<1> QED
    BY <1>2, <1>3, <1>4, <1>5 DEF r

(* If only one service qualifies, it does not matter where it stands. *)
LEMMA OnlyService ==
    ASSUME NEW file, IsFile(file),
           NEW places \in SUBSET Kept(file), \A i, j \in places : i = j,
           NEW flipped, flipped = {i \in DOMAIN file : Flipped(file, i) \in places}
    PROVE  FirstServer(Reverse(file), flipped) = FirstServer(file, places)
<1>1. places \in SUBSET DOMAIN file /\ DOMAIN file \in SUBSET Nat
    BY ListPlaces DEF Kept, IsFile
<1>2. CASE places = {}
    BY <1>2 DEF FirstServer
<1>3. CASE places # {}
    <2>1. PICK i \in places : TRUE
        BY <1>3
    <2> DEFINE f == Flipped(file, i)
    <2>2. f \in DOMAIN file /\ Flipped(file, f) = i /\ Reverse(file)[f] = file[i]
        BY <1>1, <2>1, ReversedFile
    <2> HIDE DEF f
    <2>3. ASSUME NEW j \in flipped PROVE j = f
        <3>1. Flipped(file, j) = i /\ j \in DOMAIN file
            BY <2>1
        <3> QED
            BY <3>1, ReversedFile DEF f
    <2>4. flipped = {f} /\ places = {i}
        BY <2>1, <2>2, <2>3
    <2>5. Min(flipped) = f /\ Min(places) = i
        BY <1>1, <2>2, <2>4, MinFound
    <2> QED
        BY <2>2, <2>4, <2>5 DEF FirstServer
<1> QED
    BY <1>2, <1>3

LEMMA OrderDecidesNothing ==
    ASSUME NEW q, IsQuestion(q), q.kind # "entity", Unambiguous(q)
    PROVE  Answer([q EXCEPT !.file = Reverse(@)]) = Answer(q)
<1> DEFINE file == q.file
           r == Reverse(file)
           p == [q EXCEPT !.file = Reverse(@)]
<1>1. IsFile(file) /\ q.kind \in {"domain", "number"}
    BY DEF IsQuestion
<1>2. CASE q.kind = "domain"
    <2> DEFINE override == Override(q.custom, q.name)
               key == LongestSuffix(IndexKeys(file), q.name)
    <2>1. p.kind = "domain" /\ p.file = r /\ p.custom = q.custom /\ p.name = q.name
        BY <1>2 DEF IsQuestion
    <2>2. LongestSuffix(IndexKeys(r), q.name) = key
        BY <1>1, ReversedFile
    <2>3. ASSUME key # <<>>
          PROVE  FirstServer(r, Listing(r, key)) = FirstServer(file, Listing(file, key))
        <3>1. key \in IndexKeys(file)
            <4> DEFINE starts == {i \in DOMAIN q.name :
                                    Suffix(ToLower(q.name), i) \in IndexKeys(file)}
            <4>1. IsList(q.name)
                BY <1>2 DEF IsQuestion
            <4>2. starts \in SUBSET Nat
                BY <4>1, ListPlaces
            <4>3. starts # {} /\ key = Suffix(ToLower(q.name), Min(starts))
                BY <2>3 DEF LongestSuffix
            <4>4. Min(starts) \in starts
                <5> HIDE DEF starts
                <5> QED
                    BY <4>2, <4>3, MinFound
            <4> QED
                BY <4>3, <4>4
        <3> HIDE DEF key
        <3>2. \A i, j \in Listing(file, key) : i = j
            BY <1>2, <3>1 DEF Unambiguous, Listing
        <3>3. Listing(r, key) = {i \in DOMAIN file : Flipped(file, i) \in Listing(file, key)}
            <4>1. ASSUME NEW i \in DOMAIN file
                  PROVE  i \in Listing(r, key) <=> Flipped(file, i) \in Listing(file, key)
                BY <1>1, ReversedFile DEF Listing
            <4>2. Listing(r, key) \subseteq DOMAIN file
                BY <1>1, ReversedFile DEF Listing, Kept
            <4> QED
                BY <4>1, <4>2
        <3>4. Listing(file, key) \in SUBSET Kept(file)
            BY DEF Listing
        <3> QED
            BY <1>1, <3>2, <3>3, <3>4, OnlyService
    <2> HIDE DEF key, override, p
    <2> QED
        BY <1>2, <2>1, <2>2, <2>3 DEF Answer, ForDomain, key, p
<1>3. CASE q.kind = "number"
    <2> DEFINE n == q.number
    <2>1. p.kind = "number" /\ p.file = r /\ p.number = n
        BY <1>3 DEF IsQuestion
    <2>2. \A i, j \in Covering(file, n) : i = j
        BY <1>3 DEF Unambiguous, Covering
    <2>3. Covering(r, n) = {i \in DOMAIN file : Flipped(file, i) \in Covering(file, n)}
        <3>1. ASSUME NEW i \in DOMAIN file
              PROVE  i \in Covering(r, n) <=> Flipped(file, i) \in Covering(file, n)
            BY <1>1, ReversedFile DEF Covering
        <3>2. Covering(r, n) \subseteq DOMAIN file
            BY <1>1, ReversedFile DEF Covering, Kept
        <3> QED
            BY <3>1, <3>2
    <2>4. Covering(file, n) \in SUBSET Kept(file)
        BY DEF Covering
    <2>5. FirstServer(r, Covering(r, n)) = FirstServer(file, Covering(file, n))
        BY <1>1, <2>2, <2>3, <2>4, OnlyService
    <2> HIDE DEF p, n
    <2> QED
        BY <1>3, <2>1, <2>5 DEF Answer, ForNumber, n, p
<1> QED
    BY <1>1, <1>2, <1>3

-----------------------------------------------------------------------------
(* The server that was found is the answer to the question, until the        *)
(* request for it begins; and only the lookup itself finds no server.        *)
LookupInv ==
    /\ outcome # Pending => stage = "done"
    /\ stage = "ask" => question \in Questions
    /\ Answered => question \in Questions \ {Malformed, FileMissing} /\ server = Answer(question)

(* A step ends the lookup or leaves its outcome open. *)
LEMMA NextEndsOrGoes ==
    ASSUME Next
    PROVE  stage # "done" /\ (stage' = "done" \/ UNCHANGED outcome)
<1>1. ASSUME RefuseInput \/ Download \/ ParseFile \/ Lookup \/ Throttled \/ Begin
      PROVE  stage # "done" /\ (stage' = "done" \/ UNCHANGED outcome)
    BY <1>1 DEF RefuseInput, Download, ParseFile, Lookup, Throttled, Begin, Fail, FailWith, Goto
<1>2. ASSUME EgressNext
      PROVE  stage # "done" /\ (stage' = "done" \/ UNCHANGED outcome)
    BY <1>2 DEF EgressNext, Admit, Check, Send, ConnectFails, SendTimesOut, SendBreaks,
        RedirectRefused, Redirect, ErrorStatus, AnnounceFile, Announce, Chunk, BodyBreaks,
        BodyEnds, Fail, FailWith, Goto
<1>3. ASSUME Parse \/ Validate \/ Refused \/ Accepted \/ Normalize
      PROVE  stage # "done" /\ (stage' = "done" \/ UNCHANGED outcome)
    BY <1>3 DEF Parse, Validate, Refused, Accepted, Normalize, egress, Fail, FailWith, Goto
<1> QED
    BY <1>1, <1>2, <1>3 DEF Next, Exchange

(* Any other step than the lookup forgets the server, or has another to ask   *)
(* for.                                                                       *)
LEMMA OthersFindNothing ==
    ASSUME Next, ~Lookup
    PROVE  stage' # "found" /\ (stage' = "ask" => question' \in Questions)
<1>1. CASE RefuseInput \/ Download \/ ParseFile \/ Throttled \/ Begin
    BY <1>1 DEF RefuseInput, Download, ParseFile, Throttled, Begin, Fail, FailWith, Goto
<1>2. CASE EgressNext
    BY <1>2 DEF EgressNext, Admit, Check, Send, ConnectFails, SendTimesOut, SendBreaks,
        RedirectRefused, Redirect, ErrorStatus, AnnounceFile, Announce, Chunk, BodyBreaks,
        BodyEnds, Fail, FailWith, Goto
<1>3. CASE Parse \/ Validate \/ Refused \/ Accepted \/ Normalize
    BY <1>3 DEF Parse, Validate, Refused, Accepted, Normalize, egress, Fail, FailWith, Goto
<1> QED
    BY <1>1, <1>2, <1>3 DEF Next, Exchange

LEMMA NextLookup == LookupInv /\ [Next]_vars => LookupInv'
<1> SUFFICES ASSUME LookupInv, [Next]_vars PROVE LookupInv'
    OBVIOUS
<1>1. CASE UNCHANGED vars
    BY <1>1 DEF vars, egress, LookupInv, Answered
<1>2. CASE Next
    <2>1. stage # "done" /\ (stage' = "done" \/ UNCHANGED outcome) /\ outcome = Pending
        BY <1>2, NextEndsOrGoes DEF LookupInv
    <2>2. Pending # Local("NoServerFound")
        BY DEF Pending, Local
    <2>3. CASE Lookup
        <3>1. /\ question \in Questions \ {Malformed, FileMissing} /\ question' = question
              /\ server' = Answer(question) /\ stage' \in {"found", "done"}
            BY <2>3 DEF Lookup, LookupInv, Fail, FailWith, Goto
        <3> QED
            BY <2>1, <3>1 DEF LookupInv
    <2>4. CASE ~Lookup
        <3>1. outcome' # Local("NoServerFound")
            <4>1. Local("NoServerFound") \notin OtherFailures
                BY DEF OtherFailures, OtherKinds, Local, HttpStatus
            <4>2. Success # Local("NoServerFound")
                BY DEF Success, Local
            <4> QED
                BY <2>1, <2>2, <2>4, <4>1, <4>2, NextOutcome DEF FailWith
        <3> QED
            BY <1>2, <2>1, <2>4, <3>1, OthersFindNothing DEF LookupInv, Answered
    <2> QED
        BY <2>3, <2>4
<1> QED
    BY <1>1, <1>2

(* Every name is answered with the server of the longest registered suffix,   *)
(* overrides first, whatever the case it is written in, and every number with *)
(* that of a service that claims it, if there is one; and in a file           *)
(* that claims nothing twice the order of the services decides nothing        *)
(* (parse, for_domain, for_asn, match_ip): for every file and every question. *)
THEOREM ServerFound == Spec => []RightServer
<1>1. Init => LookupInv
    BY DEF Init, EgressInit, LookupInv, Answered, Pending, Local
<1>2. LookupInv => RightServer
    <2> SUFFICES ASSUME LookupInv, Answered
                 PROVE  /\ question.kind = "domain" => IsLongestMatch(question, server)
                        /\ question.kind = "number" => IsRegistered(question, server)
                        /\ question.kind # "entity" /\ Unambiguous(question) =>
                              server = Answer([question EXCEPT !.file = Reverse(@)])
        BY DEF RightServer
    <2>1. IsQuestion(question) /\ server = Answer(question)
        BY RequestAssumption DEF LookupInv
    <2> QED
        BY <2>1, LongestMatchFound, RegisteredFound, OrderDecidesNothing
<1> QED
    BY <1>1, <1>2, NextLookup, PTL DEF Spec
=============================================================================
