--------------------------- MODULE BrowserGateway ---------------------------
(***************************************************************************)
(* How a Run reaches the web.  Three parties share one Run: the worker     *)
(* (job), the gateway thread it starts (gate) and the browser container    *)
(* (page), whose only way out is the gateway's Unix socket.  In mode "web" *)
(* there is no browser and the worker fetches the requested URLs itself.   *)
(* "selftest" and "transport" are the two modes that forward nothing.      *)
(*                                                                         *)
(* A URL is the host it names; hosts outside AllowedHosts stand for every  *)
(* URL that validate_target refuses for its text.  DNS is the environment: *)
(* a host's records may change between any two steps.  A body is its size, *)
(* MaxResponse + 1 being any longer one.                                   *)
(***************************************************************************)
EXTENDS Naturals, Sequences

CONSTANTS
    Hosts, AllowedHosts,
    Addresses, Global,      \* Global: the addresses with is_global
    Lookups,               \* DNS answers: the sets of records a lookup may return
    MaxRequests, MaxResponse, MaxTotal, MaxRedirects,
    SpareConnections,       \* connections a gateway serves beyond MaxRequests: 4
    MaxPageRequests,        \* bound: requests the pages make
    MaxDnsChanges,          \* bound
    Nowhere                 \* a redirect without Location

ASSUME GatewayAssumption ==
  /\ Global \subseteq Addresses /\ AllowedHosts \subseteq Hosts
  /\ Lookups \subseteq SUBSET Addresses
  /\ MaxRequests \in Nat \ {0} /\ MaxResponse \in Nat \ {0} /\ MaxRedirects \in Nat
  /\ MaxTotal \in Nat /\ MaxResponse <= MaxTotal
  /\ SpareConnections \in Nat

VARIABLES
    mode,       \* what the Run asked for
    job,        \* the worker thread
    gate,       \* the gateway thread, or in mode "web" the worker's fetch loop
    queue,      \* connections not yet accepted: TRUE while the client still waits
    wire,       \* the reply written to the connection the page waits on
    budget,     \* BrowserGatewayBudget
    page,       \* the container: place, requests made, last_budget
    dns,        \* records of each host
    changes,
    traffic     \* what really crossed: requests sent, addresses reached, bytes the page got

gatewayVars == <<mode, job, gate, queue, wire, budget, page, dns, changes, traffic>>

NoBudget == [requests |-> 0, bytes |-> 0, redirects |-> 0]
Denied == [ok |-> FALSE, size |-> 0, budget |-> NoBudget]
NoTarget == [host |-> Nowhere, pinned |-> {}]

GatewayInit ==
  /\ mode \in {"selftest", "transport", "live", "web"} /\ job = "start"
  /\ gate = [at |-> "off", conns |-> 0, open |-> TRUE, error |-> FALSE, stop |-> FALSE,
             reply |-> Denied, target |-> NoTarget, hops |-> 0]
  /\ queue = <<>> /\ wire = <<>> /\ budget = NoBudget
  /\ page = [at |-> "off", asked |-> 0, last |-> NoBudget]
  /\ dns \in [Hosts -> Lookups] /\ changes = 0
  /\ traffic = [requests |-> 0, reached |-> {}, got |-> 0]

DnsChanges ==
  /\ changes < MaxDnsChanges /\ changes' = changes + 1
  /\ \E h \in Hosts, a \in Lookups : dns' = [dns EXCEPT ![h] = a]
  /\ UNCHANGED <<mode, job, gate, queue, wire, budget, page, traffic>>

-----------------------------------------------------------------------------
(* The policy *)

\* Every record must be a global address, and there must be one.
ResolvesPublic(h) == dns[h] # {} /\ dns[h] \subseteq Global
ValidTarget(h) == h \in AllowedHosts /\ ResolvesPublic(h)

\* Mutant: the connection resolves the name again.
DialAgain(target) == dns[target.host]

\* The addresses a connection may go to: those the validation resolved.
Dial(target) == target.pinned

\* Mutant: a forwarded request is not charged.
ChargedNever(b) == b

Charged(b) == [b EXCEPT !.requests = @ + 1]

Sizes == 0..(MaxResponse + 1)
UpstreamAnswers ==
  [kind : {"failed"}, size : {0}, to : {Nowhere}]
    \cup [kind : {"body"}, size : Sizes, to : {Nowhere}]
    \cup [kind : {"redirect"}, size : {0}, to : Hosts \cup {Nowhere}]

\* A body that fits the response limit, against the total of the Run
BodyReply(b, size) ==
  IF b.bytes + size > MaxTotal THEN Denied
  ELSE [ok |-> TRUE, size |-> size, budget |-> [b EXCEPT !.bytes = @ + size]]

\* A request on its way: charged, and bound to the addresses just validated.
Forward(h) ==
  /\ budget' = Charged(budget)
  /\ gate' = [gate EXCEPT !.at = "upstream", !.target = [host |-> h, pinned |-> dns[h]]]

\* _request_once reaches one address; the name is not resolved again.
Reach(a) ==
  /\ a \in Dial(gate.target)
  /\ traffic' = [traffic EXCEPT !.requests = @ + 1, !.reached = @ \cup {a}]

-----------------------------------------------------------------------------
(* The gateway thread *)

Fails == [gate EXCEPT !.at = "ended", !.error = TRUE]

\* One connection at a time; the connection budget also counts denied requests.
Accept ==
  /\ mode = "live" /\ gate.at = "accept" /\ queue # <<>>
  /\ queue' = Tail(queue)
  /\ gate' = IF gate.conns + 1 > MaxRequests + SpareConnections
             THEN [Fails EXCEPT !.conns = @ + 1]
             ELSE [gate EXCEPT !.at = "serve", !.conns = @ + 1, !.open = Head(queue)]
  /\ UNCHANGED <<mode, job, wire, budget, page, dns, changes, traffic>>

Deny == gate' = [gate EXCEPT !.at = "send", !.reply = Denied]

HandleRequest(h) ==
  /\ mode = "live" /\ gate.at = "serve"
  /\ \/ /\ budget.requests < MaxRequests /\ ValidTarget(h)
        /\ Forward(h)
     \/ /\ budget.requests >= MaxRequests \/ ~ValidTarget(h)
        /\ Deny /\ UNCHANGED budget
  /\ UNCHANGED <<mode, job, queue, wire, page, dns, changes, traffic>>

\* Bytes stay on the account even when the reply is denied for them; a redirect
\* target is resolved and judged again.
AnswerRequest(ans, a) ==
  /\ mode = "live" /\ gate.at = "upstream"
  /\ Reach(a)
  /\ \/ /\ ans.kind = "body" /\ ans.size <= MaxResponse
        /\ budget' = [budget EXCEPT !.bytes = @ + ans.size]
        /\ gate' = [gate EXCEPT !.at = "send", !.reply = BodyReply(budget, ans.size)]
     \/ /\ ans.kind = "redirect" /\ ans.to # Nowhere /\ ValidTarget(ans.to)
        /\ budget.redirects < MaxRedirects
        /\ budget' = [budget EXCEPT !.redirects = @ + 1]
        /\ gate' = [gate EXCEPT !.at = "send",
                                !.reply = [ok |-> TRUE, size |-> 0, budget |-> budget']]
     \/ /\ \/ ans.kind = "failed" \/ ans.size > MaxResponse
           \/ /\ ans.kind = "redirect"
              /\ \/ budget.redirects >= MaxRedirects
                 \/ ans.to = Nowhere
                 \/ ans.to # Nowhere /\ ~ValidTarget(ans.to)
        /\ Deny /\ UNCHANGED budget
  /\ UNCHANGED <<mode, job, queue, wire, page, dns, changes>>

\* A client that has gone breaks sendall, which ends the thread.
Send ==
  /\ gate.at = "send"
  /\ \/ /\ gate.open /\ wire' = <<gate.reply>>
        /\ gate' = [gate EXCEPT !.at = IF gate.stop THEN "ended" ELSE "accept"]
     \/ ~gate.open /\ gate' = Fails /\ UNCHANGED wire
  /\ UNCHANGED <<mode, job, queue, budget, page, dns, changes, traffic>>

\* The loop sees stop between two connections.
GateStops ==
  /\ mode = "live" /\ gate.at = "accept" /\ gate.stop
  /\ gate' = [gate EXCEPT !.at = "ended"]
  /\ UNCHANGED <<mode, job, queue, wire, budget, page, dns, changes, traffic>>

\* The self-test server serves one ping, or gives up waiting for it.
ServePing ==
  /\ mode = "transport" /\ gate.at = "accept"
  /\ \/ /\ queue # <<>> /\ queue' = <<>> /\ Head(queue)
        /\ wire' = <<[ok |-> TRUE, size |-> 0, budget |-> NoBudget]>>
        /\ gate' = [gate EXCEPT !.at = "ended"]
     \/ /\ gate' = Fails /\ queue' = <<>> /\ UNCHANGED wire
  /\ UNCHANGED <<mode, job, budget, page, dns, changes, traffic>>

-----------------------------------------------------------------------------
(* The browser container *)

Exit(code) == page' = [page EXCEPT !.at = code]
Gone == [i \in DOMAIN queue |-> FALSE]

\* _route_request, or the ping: connect, unless the socket is gone.  A type that
\* the runtime blocks makes no connection.
PageAsks ==
  /\ page.at = "run" /\ mode \in {"live", "transport"}
  /\ page.asked < (IF mode = "live" THEN MaxPageRequests ELSE 1)
  /\ \/ /\ gate.at # "ended"
        /\ page' = [page EXCEPT !.at = "wait", !.asked = @ + 1]
        /\ queue' = Append(queue, TRUE)
     \/ /\ mode = "live" /\ page' = [page EXCEPT !.asked = @ + 1] /\ UNCHANGED queue
  /\ UNCHANGED <<mode, job, gate, wire, budget, dns, changes, traffic>>

\* Mutant: the page keeps the first budget it was told.
LastBudgetFirst(last, reply) == IF reply.ok /\ last = NoBudget THEN reply.budget ELSE last

LastBudget(last, reply) == IF reply.ok THEN reply.budget ELSE last

\* The reply is read; a denial aborts the page's request and leaves last_budget.
PageReceives ==
  /\ page.at = "wait" /\ wire # <<>> /\ wire' = <<>>
  /\ page' = [page EXCEPT !.at = "run", !.last = LastBudget(@, Head(wire))]
  /\ traffic' = [traffic EXCEPT !.got = @ + Head(wire).size]
  /\ UNCHANGED <<mode, job, gate, queue, budget, dns, changes>>

\* The 30 s of the client's socket pass, or the gateway closed it: the request stays
\* unanswered and the page goes on without it, which the ping cannot.
PageLosesReply ==
  /\ page.at = "wait"
  /\ Exit(IF mode = "live" THEN "run" ELSE "exit1") /\ wire' = <<>> /\ queue' = Gone
  /\ gate' = [gate EXCEPT !.open = FALSE]
  /\ UNCHANGED <<mode, job, budget, dns, changes, traffic>>

\* The plan ends, with a result or with an error; a ping needs its pong.
PageExits ==
  /\ page.at = "run"
  /\ \/ Exit("exit1")
     \/ (mode = "transport" => page.asked > 0) /\ Exit("exit0")
  /\ UNCHANGED <<mode, job, gate, queue, wire, budget, dns, changes, traffic>>

-----------------------------------------------------------------------------
(* The worker *)

Start ==
  /\ job = "start" /\ job' = "running"
  /\ page' = IF mode = "web" THEN page ELSE [page EXCEPT !.at = "run"]
  /\ gate' = CASE mode = "web" -> [gate EXCEPT !.at = "serve"]
               [] mode = "selftest" -> gate
               [] OTHER -> [gate EXCEPT !.at = "accept"]
  /\ UNCHANGED <<mode, queue, wire, budget, dns, changes, traffic>>

\* The Run's timeout: the container is removed and the gateway told to stop.
TimesOut ==
  /\ mode # "web" /\ job = "running" /\ page.at \in {"run", "wait"} /\ job' = "failed"
  /\ Exit("exit1") /\ queue' = Gone /\ wire' = <<>>
  /\ gate' = IF mode = "live" THEN [gate EXCEPT !.open = FALSE, !.stop = TRUE]
             ELSE [gate EXCEPT !.at = "ended"]
  /\ UNCHANGED <<mode, budget, dns, changes, traffic>>

\* The container has exited: stop() closes the socket and waits at most two seconds.
Stop ==
  /\ mode # "web" /\ job = "running" /\ page.at \in {"exit0", "exit1"} /\ job' = "stopped"
  /\ gate' = IF mode = "live" THEN [gate EXCEPT !.stop = TRUE] ELSE gate
  /\ UNCHANGED <<mode, queue, wire, budget, page, dns, changes, traffic>>

WithinPolicy(b) ==
  b.requests <= MaxRequests /\ b.bytes <= MaxTotal /\ b.redirects <= MaxRedirects

\* raise_if_failed, the exit code and the validation of the result.  Only a thread
\* busy with a request can outlast the wait.
Judge ==
  /\ job = "stopped" /\ gate.at \notin {"accept"}
  /\ job' = IF ~gate.error /\ page.at = "exit0" /\ WithinPolicy(page.last)
            THEN "accepted" ELSE "failed"
  /\ UNCHANGED <<mode, gate, queue, wire, budget, page, dns, changes, traffic>>

-----------------------------------------------------------------------------
(* The broker of requests without a browser *)

\* One hop of _fetch: of a request of the input, or to where the last hop redirected
Fetch(h) ==
  /\ mode = "web" /\ job = "running" /\ gate.at = "serve"
  /\ gate.hops > 0 => h = gate.target.host
  /\ \/ /\ budget.requests < MaxRequests /\ ValidTarget(h)
        /\ Forward(h) /\ UNCHANGED job
     \/ /\ budget.requests >= MaxRequests \/ ~ValidTarget(h)
        /\ job' = "failed" /\ UNCHANGED <<gate, budget>>
  /\ UNCHANGED <<mode, queue, wire, page, dns, changes, traffic>>

\* A redirect loops, a body ends one request, everything else ends the Run,
\* an unknown charset of the body included.
AnswerFetch(ans, a) ==
  /\ mode = "web" /\ job = "running" /\ gate.at = "upstream"
  /\ a \in Dial(gate.target)
  /\ \/ /\ ans.kind = "redirect" /\ ans.to # Nowhere /\ gate.hops < MaxRedirects
        /\ gate' = [gate EXCEPT !.at = "serve", !.hops = @ + 1,
                                !.target = [host |-> ans.to, pinned |-> {}]]
        /\ UNCHANGED <<job, budget>>
     \/ /\ ans.kind = "body" /\ ans.size <= MaxResponse
        /\ budget' = [budget EXCEPT !.bytes = @ + ans.size]
        /\ job' \in {"failed"} \cup (IF BodyReply(budget, ans.size).ok THEN {job} ELSE {})
        /\ gate' = [gate EXCEPT !.at = "serve", !.hops = 0]
     \/ /\ \/ ans.kind = "failed" \/ ans.size > MaxResponse
           \/ ans.kind = "redirect" /\ (ans.to = Nowhere \/ gate.hops >= MaxRedirects)
        /\ job' = "failed" /\ UNCHANGED <<gate, budget>>
  /\ traffic' = [traffic EXCEPT !.requests = @ + 1, !.reached = @ \cup {a},
                                !.got = @ + IF job' = "running" THEN ans.size ELSE 0]
  /\ UNCHANGED <<mode, queue, wire, page, dns, changes>>

\* The last request of the input is answered.
FetchesDone ==
  /\ mode = "web" /\ job = "running" /\ gate.at = "serve" /\ gate.hops = 0
  /\ job' = "accepted"
  /\ UNCHANGED <<mode, gate, queue, wire, budget, page, dns, changes, traffic>>

GatewayNext ==
  \/ DnsChanges \/ Accept \/ Send \/ GateStops \/ ServePing
  \/ PageAsks \/ PageReceives \/ PageLosesReply \/ PageExits
  \/ Start \/ TimesOut \/ Stop \/ Judge \/ FetchesDone
  \/ \E h \in Hosts : HandleRequest(h) \/ Fetch(h)
  \/ \E ans \in UpstreamAnswers, a \in Addresses : AnswerRequest(ans, a) \/ AnswerFetch(ans, a)

GatewaySpec == GatewayInit /\ [][GatewayNext]_gatewayVars

-----------------------------------------------------------------------------
(* Properties *)

\* However the replies, timeouts, redirects and denials fall out, no more requests
\* leave the worker than the policy's max_requests and the Run receives no more
\* bytes than max_total_bytes (handle_request and _fetch).
TrafficWithinBudget == traffic.requests <= MaxRequests /\ traffic.got <= MaxTotal

\* A request reaches only addresses that were global when its target was validated,
\* whatever DNS says by the time the connection is made (_PinnedHTTPSConnection).
ReachesValidated == traffic.reached \subseteq Global

\* The egress_budget of a live navigation that the worker accepts accounts for every
\* byte the page received, although replies may be lost, denied or answered after the
\* page gave up (run_browser_live_navigation, last_budget of _route_request).
ReportCoversPage == job = "accepted" /\ mode = "live" => traffic.got <= page.last.bytes
=============================================================================
