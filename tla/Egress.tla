-------------------------------- MODULE Egress --------------------------------
(***************************************************************************)
(* One attempt of the fetcher on the wire: `do_fetch_with_headers`         *)
(* (crates/rdap-core/src/fetcher.rs) over `secure_request`                 *)
(* (crates/rdap-security/src/lib.rs) and `read_limited` (limits.rs), up to *)
(* the bytes of the body.  The download of a bootstrap file takes the same *)
(* way with a reader and a limit of its own (crates/rdap-bootstrap).       *)
(*                                                                         *)
(* A host name is resolved twice for every request: by secure_request      *)
(* before it asks for a connection, and by the client (SecureResolver)     *)
(* when it connects.  Between the two the zone may change: every           *)
(* resolution answers with whatever set of addresses it likes, and the     *)
(* empty set is a failed lookup.                                           *)
(***************************************************************************)
EXTENDS FiniteSetsExt, Addresses, ErrorClasses

CONSTANTS
    Locations,      \* URLs a server may redirect to
    ZoneAddresses,  \* addresses a name may resolve to
    ErrorStatuses,  \* bound: the statuses of final answers that are no success
    MaxRedirects,   \* policy.max_redirects
    MaxBody,        \* validation_limits.max_json_size
    MaxFile,        \* MAX_BOOTSTRAP_BODY_BYTES
    FileBuffer,     \* what read_capped_bytes allocates in advance: 8 KiB
    SmallBuffer,    \* the least a Vec<u8> allocates: 8 bytes
    MaxChunk        \* bound: the longest chunk of a body

ASSUME EgressAssumption ==
    /\ ZoneAddresses \subseteq Address
    /\ ErrorStatuses \subseteq 400 .. 599
    /\ MaxRedirects \in Nat
    /\ MaxBody \in Nat
    /\ MaxFile \in Nat
    /\ FileBuffer \in Nat
    /\ SmallBuffer \in Nat
    /\ MaxChunk \in Nat \ {0}

NoPeer == [family |-> "none", range |-> "none"]

VARIABLES
    reader,          \* whose exchange it is: "query" or "bootstrap"
    stage,           \* where the attempt stands
    url,             \* current_url
    redirect_count,  \* redirects followed so far
    sent,            \* history: requests sent
    peer,            \* the address the last request went to
    announced,       \* content_length: none or one number
    buffered,        \* bytes of the body in the buffer
    capacity,        \* bytes the buffer is allocated for
    outcome          \* Pending, Success, or the RdapError

(* read_limited and read_capped_bytes *)
download == <<announced, buffered, capacity>>

(* What the exchange itself is about. *)
wire == <<reader, url, redirect_count, sent, peer, download>>

egress == <<stage, outcome, wire>>

Pending == Local("pending")
Success == Local("Ok")

(* The attempt ends with an error; nothing else changes. *)
FailWith(error) ==
    /\ stage' = "done"
    /\ outcome' = error
    /\ UNCHANGED wire

Fail(kind) == FailWith(Local(kind))

Goto(where) ==
    /\ stage' = where
    /\ UNCHANGED outcome

-----------------------------------------------------------------------------
(* The guard of fetch_with_cache_hint, then the scheme and the URL checks   *)
(* of secure_request.                                                       *)
FirstError(u) == IF GuardValidate(u) # "ok" THEN GuardValidate(u) ELSE ValidateUrl(u)

Admit ==
    /\ stage = "admit"
    /\ \/ /\ FirstError(url) # "ok"
          /\ Fail(FirstError(url))
       \/ /\ FirstError(url) = "ok"
          /\ Goto("check")
          /\ UNCHANGED wire

(* resolve_host: a literal resolves to itself, a name to anything. *)
Resolutions(host) ==
    IF host.kind = "literal" THEN {{host.address}} ELSE SUBSET ZoneAddresses

(* The early check of the resolved addresses, for the first URL and for     *)
(* every redirect (validate_redirect).  A failed lookup counts as blocked.  *)
Check ==
    /\ stage = "check"
    /\ \E ips \in Resolutions(url.host) :
        \/ /\ ips = {} \/ ~AnswerAccepted(ips)
           /\ Fail("SsrfBlocked")
        \/ /\ ips # {} /\ AnswerAccepted(ips)
           /\ Goto("send")
           /\ UNCHANGED wire

(* Mutant: the client resolves with the system resolver. *)
ReachableUnvetted(host) ==
    IF host.kind = "literal" THEN {host.address} ELSE ZoneAddresses

(* Where the client may connect: SecureResolver vets a name once more; a    *)
(* literal is not resolved at all.                                          *)
Reachable(host) ==
    IF host.kind = "literal" THEN {host.address}
    ELSE UNION {ips \in SUBSET ZoneAddresses : AnswerAccepted(ips)}

(* The request leaves for one of those addresses. *)
Send ==
    /\ stage = "send"
    /\ \E a \in Reachable(url.host) :
        /\ peer' = a
        /\ sent' = sent + 1
        /\ Goto("sent")
        /\ UNCHANGED <<reader, url, redirect_count, download>>

(* No connection: refused, or the second lookup fails or is condemned. *)
ConnectFails == stage = "send" /\ Fail("Network")

(* The deadline passes before the headers are there.  secure_request and    *)
(* the client have the same deadline each: the first to fire names the      *)
(* error.                                                                   *)
SendTimesOut ==
    /\ stage \in {"send", "sent"}
    /\ \E error \in {"Timeout", "Network"} : Fail(error)

SendBreaks == stage = "sent" /\ Fail("Network")

(* Mutant: the limit is compared one too late. *)
MayFollowOneMore == redirect_count <= MaxRedirects

MayFollow == redirect_count < MaxRedirects

(* A redirect without a usable Location, or one too many. *)
RedirectRefused ==
    /\ stage = "sent"
    /\ Fail("SsrfBlocked")

(* A redirect within the limit: the target, which may be the same URL, is   *)
(* validated like a first URL.                                              *)
Redirect ==
    /\ stage = "sent"
    /\ MayFollow
    /\ \E to \in {u \in Locations : Parses(u)} \cup {url} :
        \/ /\ ValidateUrl(to) # "ok"
           /\ Fail(ValidateUrl(to))
        \/ /\ ValidateUrl(to) = "ok"
           /\ Goto("check")
           /\ url' = to
           /\ redirect_count' = redirect_count + 1
           /\ UNCHANGED <<reader, sent, peer, download>>

(* A final status that is not a success; its body is not read. *)
ErrorStatus ==
    /\ stage = "sent"
    /\ \E status \in ErrorStatuses : FailWith(HttpStatus(status))

-----------------------------------------------------------------------------
(* What a body does not change. *)
SameExchange == UNCHANGED <<reader, url, redirect_count, sent, peer>>

(* 2xx: read_limited looks at Content-Length, if there is one, and          *)
(* allocates that much.  read_capped_bytes does not look at it.             *)
AnnounceFile ==
    /\ stage = "sent" /\ reader = "bootstrap"
    /\ Goto("read")
    /\ capacity' = FileBuffer
    /\ UNCHANGED <<announced, buffered>> /\ SameExchange

(* Mutant: Content-Length is believed. *)
TakenOnTrust(length) == length \in Nat

FitsAnnounced(length) == length <= MaxBody

Announce ==
    /\ stage = "sent" /\ reader = "query"
    /\ \/ /\ Goto("read")
          /\ UNCHANGED download /\ SameExchange
       \/ \E length \in 0 .. MaxBody + 1 :
            \/ /\ ~FitsAnnounced(length)
               /\ Fail("ParseError")
            \/ /\ FitsAnnounced(length)
               /\ Goto("read")
               /\ announced' = {length}
               /\ capacity' = length
               /\ UNCHANGED buffered /\ SameExchange

(* Then either adds chunk after chunk as long as they fit.  HTTP delivers   *)
(* no more than was announced.                                              *)
Delivered(chunk) == \A length \in announced : buffered + chunk <= length

Cap == IF reader = "bootstrap" THEN MaxFile ELSE MaxBody

(* Mutant: the chunk at hand is not counted. *)
FitsSoFar(chunk) == buffered <= Cap /\ chunk \in Nat

Fits(chunk) == buffered + chunk <= Cap

(* extend_from_slice: a Vec that is too small at least doubles. *)
Grown(need) ==
    IF need <= capacity THEN capacity ELSE Max({need, 2 * capacity, SmallBuffer})

Chunk ==
    /\ stage = "read"
    /\ \E chunk \in 1 .. MaxChunk :
        /\ Delivered(chunk)
        /\ \/ /\ ~Fits(chunk)
              /\ Fail("ParseError")
           \/ /\ Fits(chunk)
              /\ Goto("read")
              /\ buffered' = buffered + chunk
              /\ capacity' = Grown(buffered + chunk)
              /\ UNCHANGED announced /\ SameExchange

(* The stream breaks, or the deadline of the client passes in the body. *)
BodyBreaks == stage = "read" /\ Fail("Network")

(* The body is complete.  The exchange is over, and what is known of it is  *)
(* forgotten.                                                               *)
BodyEnds ==
    /\ stage = "read"
    /\ \A length \in announced : buffered = length
    /\ Goto("parse")
    /\ redirect_count' = 0
    /\ sent' = 0
    /\ peer' = NoPeer
    /\ announced' = {}
    /\ buffered' = 0
    /\ capacity' = 0
    /\ url' = NoUrl
    /\ UNCHANGED reader

EgressInit(first) ==
    /\ reader = "query"
    /\ stage = "ask"
    /\ url = first
    /\ redirect_count = 0
    /\ sent = 0
    /\ peer = NoPeer
    /\ announced = {}
    /\ buffered = 0
    /\ capacity = 0
    /\ outcome = Pending

EgressNext ==
    \/ Admit \/ Check \/ Send \/ ConnectFails \/ SendTimesOut \/ SendBreaks
    \/ RedirectRefused \/ Redirect \/ ErrorStatus
    \/ AnnounceFile \/ Announce \/ Chunk \/ BodyBreaks \/ BodyEnds

-----------------------------------------------------------------------------
(* The zone may change between the check of a name and the connection, and  *)
(* a redirect may lead anywhere: still every request goes to a public       *)
(* address, over https and without credentials (secure_request and          *)
(* SecureResolver).                                                         *)
ReachesOnlyPublic ==
    /\ peer # NoPeer => peer.range = "public"
    /\ sent > 0 => url.scheme = "https" /\ ~url.credentials

(* What may be allocated before a byte of the body is there. *)
InAdvance == IF reader = "bootstrap" THEN FileBuffer ELSE MaxBody

(* An attempt sends one request for its first URL and one for each of at    *)
(* most max_redirects redirects (the loop of secure_request).  Whatever     *)
(* length is announced and however the body is cut into chunks,             *)
(* read_limited keeps no more than max_json_size bytes, and                 *)
(* read_capped_bytes no more than its own limit; and neither reserves more  *)
(* than the limit, or its first 8 KiB, on the word of the server: beyond    *)
(* that a buffer is less than twice as large as what has come in.           *)
WireBounded ==
    /\ sent <= MaxRedirects + 1
    /\ buffered <= Cap
    /\ \/ capacity <= InAdvance
       \/ capacity <= SmallBuffer
       \/ capacity < 2 * buffered
=============================================================================
