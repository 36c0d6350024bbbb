---------------------------- MODULE ExtractFetch ----------------------------
(***************************************************************************)
(* What one extract does on the network: fetch_extract_target with its     *)
(* loop over redirects (src/src/util/ssrf.rs), the checks of the response  *)
(* in run_extract (src/src/util/extract.rs) and read_capped_body           *)
(* (src/src/util/fetch.rs).                                                *)
(*                                                                         *)
(* The host names resolve to whatever their owners like, at any moment,    *)
(* and servers answer whatever they like.                                  *)
(***************************************************************************)
EXTENDS Naturals, FiniteSets

CONSTANTS
    Hosts,            \* host names
    Addresses,        \* IP addresses
    Forbidden,        \* those of which is_forbidden_target holds
    NoAddress,        \* no address
    MaxRedirectHops,  \* MAX_REDIRECT_HOPS
    MaxRawBytes,      \* extract.max_raw_bytes, in chunks
    MaxChunk,         \* the most one chunk of a response holds
    HopBudget         \* EXTRACT_TIMEOUT, in ticks

ASSUME FetchAssumption ==
    /\ IsFiniteSet(Addresses) /\ Forbidden \subseteq Addresses
    /\ NoAddress \notin Addresses
    /\ MaxRedirectHops \in Nat
    /\ MaxRawBytes \in Nat
    /\ MaxChunk \in Nat \ {0}
    /\ HopBudget \in Nat \ {0}

VARIABLES
    pc,         \* where the fetch stands
    url,        \* current
    redirects,  \* redirects_followed
    pinned,     \* validated_addr
    dns,        \* what each name resolves to now
    dialled,    \* the connections made: to which address, for which URL
    size,       \* buf.len()
    hopLeft,    \* ticks left of the hop's request
    result      \* what run_extract gets

vars == <<pc, url, redirects, pinned, dns, dialled, size, hopLeft, result>>

-----------------------------------------------------------------------------
\* A URL: its scheme, its host if any, and whether it carries a fragment or
\* tracking parameters.
Urls == [https : BOOLEAN, host : Hosts \cup {"none"}, tracked : BOOLEAN]

\* Bug: only the entry URL is normalized.
Bug_NormalizeNothing(u) == u

normalize_extract_url(u) == [u EXCEPT !.tracked = FALSE]

\* lookup_host fails when the name has no addresses.
Validates(u) ==
    /\ u.https
    /\ u.host # "none"
    /\ dns[u.host] # {}
    /\ dns[u.host] \cap Forbidden = {}

Pcs == {"validate", "connect", "respond", "read", "done", "failed"}
Sent == {"respond", "read"}     \* the request is out and its timeout runs

Fail(e) ==
    /\ pc' = "failed"
    /\ result' = e
    /\ hopLeft' = 0
    /\ UNCHANGED <<url, redirects, pinned, dns, dialled, size>>

-----------------------------------------------------------------------------
(* One hop                                                                 *)

\* Every candidate was checked; the first of them is kept.
Validate ==
    /\ pc = "validate"
    /\ Validates(url)
    /\ \E a \in dns[url.host] : pinned' = a
    /\ pc' = "connect"
    /\ UNCHANGED <<url, redirects, dns, dialled, size, hopLeft, result>>

Invalid ==
    /\ pc = "validate"
    /\ ~Validates(url)
    /\ Fail("InvalidQuery")

\* Bug: the client resolves the name again.
Bug_ConnectByName ==
    /\ pc = "connect"
    /\ \E a \in dns[url.host] : dialled' = dialled \cup {<<a, url, redirects>>}
    /\ hopLeft' = HopBudget
    /\ pc' = "respond"
    /\ UNCHANGED <<url, redirects, pinned, dns, size, result>>

\* A client of its own, pinned to the address, sends the request.
Connect ==
    /\ pc = "connect"
    /\ dialled' = dialled \cup {<<pinned, url, redirects>>}
    /\ hopLeft' = HopBudget
    /\ pc' = "respond"
    /\ UNCHANGED <<url, redirects, pinned, dns, size, result>>

\* The client of this hop cannot be built: nothing is dialled.
BuildFails ==
    /\ pc = "connect"
    /\ Fail("Internal")

\* The connection fails, or the client's timeout elapses.
SendFails ==
    /\ pc = "respond"
    /\ Fail("ServiceUnavailable")

\* Bug: the count starts again when the redirect leads to another host.
Bug_CountPerHost ==
    /\ pc = "respond"
    /\ redirects < MaxRedirectHops
    /\ \E next \in Urls :
          /\ url' = normalize_extract_url(next)
          /\ redirects' = IF next.host = url.host THEN redirects + 1 ELSE 1
    /\ pinned' = NoAddress
    /\ hopLeft' = 0
    /\ pc' = "validate"
    /\ UNCHANGED <<dns, dialled, size, result>>

\* Bug: the redirect that reaches the limit is still followed.
Bug_OneHopMore ==
    /\ pc = "respond"
    /\ redirects <= MaxRedirectHops
    /\ \E next \in Urls : url' = normalize_extract_url(next)
    /\ redirects' = redirects + 1
    /\ pinned' = NoAddress
    /\ hopLeft' = 0
    /\ pc' = "validate"
    /\ UNCHANGED <<dns, dialled, size, result>>

\* A 3xx with a Location that parses.
Redirect ==
    /\ pc = "respond"
    /\ redirects < MaxRedirectHops
    /\ \E next \in Urls : url' = normalize_extract_url(next)
    /\ redirects' = redirects + 1
    /\ pinned' = NoAddress
    /\ hopLeft' = 0
    /\ pc' = "validate"
    /\ UNCHANGED <<dns, dialled, size, result>>

\* One redirect too many, or one without a usable Location; or a response
\* whose Content-Type is not HTML.
BadResponse ==
    /\ pc = "respond"
    /\ Fail("InvalidQuery")

\* A status that is neither a redirect nor a success.
BadStatus ==
    /\ pc = "respond"
    /\ Fail("ServiceUnavailable")

-----------------------------------------------------------------------------
(* The body                                                                *)

\* A Content-Length over the limit, believed before anything is read.
DeclaredTooLarge ==
    /\ pc = "respond"
    /\ Fail("ContentTooLarge")

StartReading ==
    /\ pc = "respond"
    /\ pc' = "read"
    /\ size' = 0
    /\ UNCHANGED <<url, redirects, pinned, dns, dialled, hopLeft, result>>

\* Bug: the limit is only looked at when the body is complete.
Bug_ChunkUnchecked ==
    /\ pc = "read"
    /\ size <= MaxRawBytes + MaxChunk
    /\ \E n \in 0..MaxChunk : size' = size + n
    /\ UNCHANGED <<pc, url, redirects, pinned, dns, dialled, hopLeft, result>>

\* One more chunk; over the limit the rest is not read.
Chunk ==
    /\ pc = "read"
    /\ \E n \in 0..MaxChunk : size' = size + n
    /\ IF size' > MaxRawBytes
       THEN pc' = "failed" /\ result' = "ContentTooLarge" /\ hopLeft' = 0
       ELSE UNCHANGED <<pc, result, hopLeft>>
    /\ UNCHANGED <<url, redirects, pinned, dns, dialled>>

BodyEnds ==
    /\ pc = "read"
    /\ pc' = "done"
    /\ result' = "ok"
    /\ hopLeft' = 0
    /\ UNCHANGED <<url, redirects, pinned, dns, dialled, size>>

\* The stream breaks, or the client's timeout elapses while it is read.
BodyFails ==
    /\ pc = "read"
    /\ Fail("Internal")

-----------------------------------------------------------------------------
(* Names change hands, and time passes                                     *)

DnsChanges(h) ==
    /\ \E as \in SUBSET Addresses : dns' = [dns EXCEPT ![h] = as]
    /\ UNCHANGED <<pc, url, redirects, pinned, dialled, size, hopLeft, result>>

Tick ==
    /\ pc \in Sent
    /\ hopLeft > 0
    /\ hopLeft' = hopLeft - 1
    /\ UNCHANGED <<pc, url, redirects, pinned, dns, dialled, size, result>>

Init ==
    /\ pc = "validate"
    /\ url \in {normalize_extract_url(u) : u \in Urls}
    /\ redirects = 0
    /\ pinned = NoAddress
    /\ dns \in [Hosts -> SUBSET Addresses]
    /\ dialled = {}
    /\ size = 0
    /\ hopLeft = 0
    /\ result = "none"

Next ==
    \/ Validate \/ Invalid \/ Connect \/ BuildFails \/ SendFails \/ Redirect
    \/ BadResponse \/ BadStatus \/ DeclaredTooLarge \/ StartReading \/ Chunk \/ BodyEnds
    \/ BodyFails \/ Tick
    \/ \E h \in Hosts : DnsChanges(h)

(* Resolvers return and timers fire; servers need not answer.              *)
Fairness ==
    /\ WF_vars(Validate \/ Invalid)
    /\ WF_vars(Connect)
    /\ WF_vars(Tick)
    /\ WF_vars(hopLeft = 0 /\ (SendFails \/ BodyFails))

Spec == Init /\ [][Next]_vars /\ Fairness

-----------------------------------------------------------------------------
(* Properties                                                              *)

\* Types; the redirect counter and the timer stay within their bounds, and
\* an address is pinned exactly while a hop is under way (ssrf.rs:264-333).
TypeOK ==
    /\ pc \in Pcs
    /\ url \in Urls /\ ~url.tracked
    /\ redirects \in 0..MaxRedirectHops
    /\ pinned \in Addresses \cup {NoAddress}
    /\ dns \in [Hosts -> SUBSET Addresses]
    /\ dialled \subseteq Addresses \X Urls \X (0..MaxRedirectHops)
    /\ size \in Nat
    /\ hopLeft \in 0..HopBudget
    /\ result \in {"none", "ok", "InvalidQuery", "ServiceUnavailable",
                   "ContentTooLarge", "Internal"}
    /\ pc \in {"connect"} \cup Sent => pinned # NoAddress

\* Whatever names resolve to between the check and the connection, and from
\* one hop to the next, no connection goes to an address that the check
\* refuses, nor to a URL that is not https (ssrf.rs:66-102, 246-256).
DialsOnlyValidated ==
    \A d \in dialled : d[1] \notin Forbidden /\ d[2].https

\* A chain of redirects costs at most MAX_REDIRECT_HOPS + 1 connections, and
\* the content returned is what the last of them fetched, whose URL is the
\* one reported (ssrf.rs:258-262, 294-306).
ChainBounded ==
    /\ Cardinality(dialled) <= MaxRedirectHops + 1
    /\ pc \in {"read", "done"} => <<pinned, url, redirects>> \in dialled

\* The buffer never exceeds the limit by more than the last chunk, and a body
\* over the limit is never handed to the parser, whatever length it declared
\* (fetch.rs:53-83).
BodyBounded ==
    /\ size <= MaxRawBytes + MaxChunk
    /\ result = "ok" => size <= MaxRawBytes

\* However slow each hop is, and wherever it leads, the fetch ends by itself:
\* each hop is timed and there are finitely many (ssrf.rs:264-333).
FetchEnds == <>(pc \in {"done", "failed"})
=============================================================================
