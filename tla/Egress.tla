-------------------------------- MODULE Egress --------------------------------
(***************************************************************************)
(* One request a guest makes over host-http, with its redirects, while the *)
(* names it uses resolve now to this and now to that.  Modelled from       *)
(* pkgs/host/wasm/src/http.rs and egress.rs.                               *)
(*                                                                         *)
(* An address is "public" or "private", as is_public classifies it; a host *)
(* is an address literal, a name, or "none" for a URL that has no host.    *)
(* Resolvers and servers are external.                                     *)
(***************************************************************************)
EXTENDS Integers, FiniteSets

CONSTANTS
    Literals,       \* hosts that are addresses: host -> its class
    Hosts,          \* hosts that are names
    Allowed,        \* EgressPolicy.allowed: hosts whose origin the operator named
    Secrets,        \* headers in which guests send credentials
    MaxRedirects,   \* MAX_REDIRECTS
    MaxRebinds      \* bound: times a name changes what it resolves to

VARIABLES
    resolves,       \* host -> the classes of the addresses its resolver answers with
    rebinds,
    pc,             \* idle | check | connect | wait | followed | ok | failed
    target,         \* the host of this hop
    method,         \* as given, or "GET" since a redirect
    body,           \* whether the body is sent
    secret,         \* those of the request
    pinned,         \* the classes of the addresses checked, or AsNamed
    hop,            \* exchanges begun
    sent            \* history: the requests that left: [host, address, method, body, secret, hop]

vars == <<resolves, rebinds, pc, target, method, body, secret, pinned, hop, sent>>
request == <<method, body, secret>>

Targets == DOMAIN Literals \cup Hosts \cup {"none"}
Classes == {"public", "private"}
AsNamed == {"as named"}
Methods == {"GET", "HEAD", "POST"}

\* STRIPPED_ON_REDIRECT.
Stripped == {"authorization", "cookie", "proxy-authorization"}

TypeOK ==
    /\ resolves \in [Hosts -> SUBSET Classes] /\ rebinds \in 0..MaxRebinds
    /\ pc \in {"idle", "check", "connect", "wait", "ok", "failed"}
    /\ target \in Targets /\ method \in Methods /\ body \in BOOLEAN /\ secret \subseteq Secrets
    /\ pinned \subseteq Classes \/ pinned = AsNamed
    /\ hop \in 0..MaxRedirects + 1 /\ Cardinality(sent) <= hop
    /\ pc \in {"idle", "ok", "failed"} => pinned = {}

Init ==
    /\ resolves \in [Hosts -> SUBSET Classes] /\ rebinds = 0
    /\ pc = "idle" /\ target = "none" /\ method = "GET" /\ body = FALSE /\ secret = {}
    /\ pinned = {} /\ hop = 0 /\ sent = {}

\* A name's owner changes its addresses.
Rebind(h, classes) ==
    /\ rebinds < MaxRebinds /\ rebinds' = rebinds + 1 /\ resolves[h] # classes
    /\ resolves' = [resolves EXCEPT ![h] = classes]
    /\ UNCHANGED <<pc, target, request, pinned, hop, sent>>

---------------------------------------------------------------------------
(* fetch_within.                                                           *)

\* The guest sends every credential it has.
Fetch(host, m, withBody) ==
    /\ pc = "idle" /\ pc' = "check" /\ target' = host
    /\ method' = m /\ body' = withBody /\ secret' = Secrets
    /\ UNCHANGED <<resolves, rebinds, pinned, hop, sent>>

Fails == pc' = "failed" /\ pinned' = {} /\ UNCHANGED <<resolves, rebinds, target, request, sent>>

\* EgressPolicy::check, of this hop: what it may connect to, none if refused.
Destination ==
    CASE target = "none" -> {}
      [] target \in Allowed -> AsNamed
      [] target \in DOMAIN Literals \ Allowed ->
           IF Literals[target] = "public" THEN AsNamed ELSE {}
      [] OTHER -> IF "private" \in resolves[target] THEN {} ELSE resolves[target]

Check ==
    /\ pc = "check" /\ hop <= MaxRedirects /\ hop' = hop + 1
    /\ IF Destination = {} THEN Fails
       ELSE /\ pc' = "connect" /\ pinned' = Destination
            /\ UNCHANGED <<resolves, rebinds, target, request, sent>>

\* One exchange more than redirects: then it is given up.
TooManyRedirects ==
    /\ pc = "check" /\ hop > MaxRedirects /\ Fails /\ UNCHANGED hop

Resolved(host) == IF host \in DOMAIN Literals THEN {Literals[host]} ELSE resolves[host]

\* Mutant: the name is resolved once more.
ReachableAgain == Resolved(target)

\* Pinned: the addresses that were checked, whatever the name resolves to by now;
\* what needed no check is resolved here.
Reachable == IF pinned = AsNamed THEN Resolved(target) ELSE pinned

Connect(address) ==
    /\ pc = "connect" /\ address \in Reachable /\ pc' = "wait"
    /\ sent' = sent \cup {[host |-> target, address |-> address, method |-> method,
                           body |-> body, secret |-> secret, hop |-> hop]}
    /\ UNCHANGED <<resolves, rebinds, target, request, pinned, hop>>

\* No connection, no answer in time, or none that can be read.
ExchangeFails == pc \in {"connect", "wait"} /\ Fails /\ UNCHANGED hop

\* A status below 400 that is no redirect, or one without a place to go.
Answered ==
    /\ pc = "wait" /\ pc' = "ok" /\ pinned' = {}
    /\ UNCHANGED <<resolves, rebinds, target, request, hop, sent>>

\* A redirect: three headers are left out from here on, the others are sent again; 301 to
\* 303 turn a POST into a GET without its body, 307 and 308 keep both.
Redirect(host, seeOther) ==
    /\ pc = "wait" /\ pc' = "check" /\ pinned' = {}
    /\ target' = host /\ secret' = secret \ Stripped
    /\ IF seeOther /\ method \notin {"GET", "HEAD"}
         THEN method' = "GET" /\ body' = FALSE
         ELSE UNCHANGED <<method, body>>
    /\ UNCHANGED <<resolves, rebinds, hop, sent>>

Host == Check \/ TooManyRedirects \/ ExchangeFails \/ Answered
          \/ \E a \in Classes : Connect(a)

Next ==
    \/ \E h \in Hosts, classes \in SUBSET Classes : Rebind(h, classes)
    \/ \E h \in Targets, m \in Methods, b \in BOOLEAN : Fetch(h, m, b)
    \/ Host \/ \E h \in Targets, seeOther \in BOOLEAN : Redirect(h, seeOther)

Spec == Init /\ [][Next]_vars

\* Every exchange has a time limit.
FairSpec == Spec /\ WF_vars(Host)

---------------------------------------------------------------------------

\* A request leaves only for a public address or an origin the operator named,
\* whatever its name resolves to between the check and the connection; credentials
\* in a stripped header are sent to the first target alone, and the body only while the
\* method is the one it was given for.
SentAsAllowed ==
    \A r \in sent :
        /\ r.address = "public" \/ r.host \in Allowed
        /\ r.secret \cap Stripped # {} => r.hop = 1
        /\ r.body => \A q \in sent : q.hop < r.hop => q.body /\ q.method = r.method

\* However far it is sent on, a request ends.
FetchEnds == (pc = "check") ~> (pc \in {"ok", "failed"})

\* Violated: forwarding headers "would leak a provider's API key to the redirect target"
\* (http.rs:72), so no credential goes on; one in a header of another name, as a
\* provider's `x-api-key` (provider-anthropic lib.rs:328), does.
CredentialsStay == \A r \in sent : r.secret # {} => r.hop = 1
=============================================================================
