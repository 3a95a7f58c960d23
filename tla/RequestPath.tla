----------------------------- MODULE RequestPath -----------------------------
(***************************************************************************)
(* A lookup from the question to the typed answer, one attempt and no      *)
(* cache of answers: the bootstrap file, in memory or downloaded (Egress), *)
(* names the server (ServerLookup), the request goes out hop by hop and    *)
(* the body comes in (Egress), the document is walked and accepted or      *)
(* refused (JsonLimits) and becomes a response (Normalizer); what goes     *)
(* wrong is classified (ErrorClasses).  One task does all of it; what it   *)
(* meets is up to the file, the zone and the servers.                      *)
(***************************************************************************)
EXTENDS ServerLookup, Egress, JsonLimits, Normalizer

CONSTANTS
    Questions,   \* what may be asked, with the file and the overrides in force
    Mirrors,     \* base URLs of the bootstrap files
    NoQuestion   \* the question once it has served its purpose

Malformed == [kind |-> "malformed"]
FileMissing == [kind |-> "file missing"]

ASSUME RequestAssumption ==
    \A q \in Questions : q \in {Malformed, FileMissing} \/ IsQuestion(q)

VARIABLES
    question,
    server   \* what the lookup found

vars == <<question, server, egress, walk, normal>>

Init ==
    /\ question \in Questions
    /\ server = NoServer
    /\ EgressInit(NoUrl)
    /\ WalkInit
    /\ NormalizerInit

(* The name, address, number or handle is refused before anything is done.  *)
RefuseInput ==
    /\ stage = "ask"
    /\ question = Malformed
    /\ Fail("InvalidInput")
    /\ question' = NoQuestion
    /\ UNCHANGED <<server, walk, normal>>

(* The bootstrap file is not there: it is downloaded through the same        *)
(* pipeline, from the base URL in force, without the guard of the fetcher.   *)
(* An error of the download is the error of the lookup.                      *)
Download ==
    /\ stage = "ask" /\ question = FileMissing
    /\ \E base \in Mirrors :
        \/ ~Parses(base) /\ Fail("InvalidUrl")
        \/ Parses(base) /\ ValidateUrl(base) # "ok" /\ Fail(ValidateUrl(base))
        \/ /\ Parses(base) /\ ValidateUrl(base) = "ok"
           /\ Goto("check")
           /\ url' = base
           /\ reader' = "bootstrap"
           /\ UNCHANGED <<redirect_count, sent, peer, download>>
    /\ question' = NoQuestion
    /\ UNCHANGED <<server, walk, normal>>

(* The bytes are a file or they are not.  What was asked is only now looked  *)
(* at: it mattered to nothing before.                                        *)
ParseFile ==
    /\ stage = "parse" /\ reader = "bootstrap"
    /\ \/ Fail("ParseError") /\ UNCHANGED question
       \/ /\ question' \in {q \in Questions : NeedsFile(q)}
          /\ Goto("ask")
          /\ reader' = "query"
          /\ UNCHANGED <<url, redirect_count, sent, peer, download>>
    /\ UNCHANGED <<server, walk, normal>>

Lookup ==
    /\ stage = "ask"
    /\ question \notin {Malformed, FileMissing}
    /\ server' = Answer(question)
    /\ \/ /\ Answer(question) = NoServer
          /\ Fail("NoServerFound")
       \/ /\ Answer(question) # NoServer
          /\ Goto("found")
          /\ UNCHANGED wire
    /\ UNCHANGED <<question, walk, normal>>

(* The rate limiter refuses the host, or the circuit breaker the origin;    *)
(* the breaker is asked once the guard has accepted the URL.                *)
Throttled ==
    /\ \/ stage = "found" /\ Fail("RateLimited")
       \/ stage = "admit" /\ GuardValidate(url) = "ok" /\ Fail("CircuitOpen")
    /\ question' = NoQuestion /\ server' = NoServer
    /\ UNCHANGED <<walk, normal>>

(* extract_host: "ok", or why the rate limiter has no host to ask for.      *)
ExtractHost(u) ==
    CASE ~Parses(u) -> "InvalidUrl"
      [] Parses(u) /\ u.host = NoHost -> "InvalidInput"
      [] OTHER -> "ok"

(* The client builds the URL of the query on the server's.  A host is taken  *)
(* out of it only where a rate limiter is configured.                        *)
Begin ==
    /\ stage = "found"
    /\ \/ /\ ExtractHost(server) # "ok"
          /\ Fail(ExtractHost(server))
       \/ /\ Goto("admit")
          /\ url' = server
          /\ UNCHANGED <<reader, redirect_count, sent, peer, download>>
    /\ question' = NoQuestion
    /\ server' = NoServer
    /\ UNCHANGED <<walk, normal>>

Exchange == EgressNext /\ UNCHANGED <<question, server, walk, normal>>

(* The bytes become a document, or they are no JSON.  Their size is checked *)
(* once more before that; WireBounded says that they pass.                  *)
Parse ==
    /\ stage = "parse" /\ reader = "query"
    /\ \/ /\ Fail("ParseError")
          /\ UNCHANGED walk
       \/ /\ BeginWalk
          /\ Goto("walk")
          /\ UNCHANGED wire
    /\ UNCHANGED <<question, server, normal>>

Validate ==
    stage = "walk" /\ WalkNext /\ UNCHANGED <<question, server, egress, normal>>

(* A ValidationError becomes a ParseError. *)
Refused ==
    /\ stage = "walk"
    /\ verdict \notin {"walking", "walked", "accepted"}
    /\ Fail("ParseError")
    /\ UNCHANGED <<question, server, walk, normal>>

(* require_object; what the walk knew of the document is forgotten. *)
Accepted ==
    /\ stage = "walk"
    /\ verdict = "accepted"
    /\ \/ document.kind[1] # "object" /\ Fail("ParseError")
       \/ /\ document.kind[1] = "object"
          /\ Goto("normalize")
          /\ UNCHANGED wire
    /\ document' = NoDocument /\ stack' = <<>> /\ verdict' = "none"
    /\ UNCHANGED <<question, server, normal>>

(* Which of the five methods asked mattered to nothing before.  The cache   *)
(* has stored the document by now, whatever becomes of it here.             *)
Normalize ==
    /\ stage = "normalize"
    /\ asked' \in Classes
    /\ body' \in Bodies
    /\ \/ /\ ClassError(asked', body'.class) = "ok"
          /\ FailWith(Success)
          /\ response' = Normalized(asked', body')
       \/ /\ ClassError(asked', body'.class) # "ok"
          /\ Fail(ClassError(asked', body'.class))
          /\ UNCHANGED response
    /\ UNCHANGED <<question, server, walk>>

Next ==
    \/ RefuseInput \/ Download \/ ParseFile \/ Lookup \/ Throttled \/ Begin
    \/ Exchange \/ Parse \/ Validate \/ Refused \/ Accepted \/ Normalize

(* The task runs on, and every wait has a deadline: the resolver's, that of *)
(* secure_request around the send, that of the client around the body.      *)
Spec == Init /\ [][Next]_vars /\ WF_vars(Next)

-----------------------------------------------------------------------------
Answered == stage = "found" \/ outcome = Local("NoServerFound")

(* The server that was found is that of the longest registered suffix, or of  *)
(* the override, in whatever case they are written, or one of a service that  *)
(* claims the number; and the order of the services in a file decides only    *)
(* between services that claim the same key or number (parse, for_domain,     *)
(* for_asn, match_ip).                                                        *)
RightServer ==
    Answered =>
        /\ question.kind = "domain" => IsLongestMatch(question, server)
        /\ question.kind = "number" => IsRegistered(question, server)
        /\ question.kind # "entity" /\ Unambiguous(question) =>
              server = Answer([question EXCEPT !.file = Reverse(@)])

(* A lookup that succeeds returns what the server said of an object of the    *)
(* class that was asked for, and what is damaged costs no more than what      *)
(* FaithfulTo names: the element of a list it is in, the name of a registrar  *)
(* behind it, the high bits of a number beyond 32.                            *)
Normalised == outcome = Success => Faithful

(* Whatever ends a lookup, the surfaces that classify it agree on what is     *)
(* absent, retryable, final or throttled (Agree); on the rest they may        *)
(* differ, as they do on a remote 429.                                        *)
ErrorsAgree == outcome \notin {Pending, Success} => Agree(outcome)

(* Every lookup ends, with an answer or an error, whatever redirects the      *)
(* servers send and however deep the document is.                             *)
RequestEnds == <>(stage = "done")
=============================================================================
