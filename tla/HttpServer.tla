---------------------------- MODULE HttpServer ----------------------------
(***************************************************************************)
(* HttpServer::run of server/mod.rs and route of server/handler.rs: what   *)
(* concurrent requests do to the shared counters, what a scrape reads of   *)
(* them, and what becomes of requests at the shutdown.  A request is       *)
(* handled by one task; the tasks run in parallel and touch one atomic     *)
(* counter at a time.  A client that hangs up takes its handler with it,   *)
(* where the handler waits: in the health check, between its counters.     *)
(*                                                                         *)
(* Whether the limiter admits a request is RateLimiter's matter, and what  *)
(* a health check reports HealthCheck's: here both are free.               *)
(***************************************************************************)
EXTENDS Integers, Sequences, FiniteSets, FiniteSetsExt

CONSTANTS Requests,     \* the requests that arrive, in any order
          Asked,        \* what they may ask for
          SignalMayCome,
          Durations,    \* how long a health check may take, in ms
          MockEnabled,  \* whether the LLM is the built-in mock (main.rs)
          Nobody        \* no request

\* The routes, and everything that has none: an unknown path or a wrong method.
HealthRoutes == {"healthz", "readyz"}
Routes == HealthRoutes \union {"metrics", "mock"}
Targets == Routes \union {"unrouted"}

ASSUME ServerAssumption ==
    /\ Asked \subseteq Targets
    /\ IsFiniteSet(Requests) /\ Nobody \notin Requests
    /\ Durations # {} /\ Durations \subseteq Nat
    /\ MockEnabled \in BOOLEAN /\ SignalMayCome \in BOOLEAN

\* ServiceMetrics, in the order in which render_prometheus reads it.
Rendered == <<"http", "healthz", "readyz", "metrics", "mock", "checks", "failed",
              "sum", "lastDuration", "lastOk", "limited">>
Metrics == {Rendered[i] : i \in DOMAIN Rendered}
Gauges == {"lastDuration", "lastOk"}

VARIABLES
    server,     \* HttpServer::run
    signalled,  \* the shutdown signal has been sent
    pc,         \* pc[r]: where the handler of r stands, "abandoned" if its client hung up
    target,     \* target[r]: what r asks for
    check,      \* check[r]: what its health check found
    count,      \* the counters and gauges
    scrape,     \* scrape[r]: the values a metrics request has read
    answer,     \* answer[r]: the status of the response
    before,     \* before[r]: the requests answered before r arrived
    setter      \* setter[g]: the request that wrote the gauge g

memory == <<count, setter>>
vars == <<server, signalled, pc, target, check, memory, scrape, answer, before>>

Handling == {"arrived", "route", "check", "checks", "sum",
             "lastDuration", "lastOk", "failed", "scrape"}
Answers == {"none", "200", "404 or 405", "413", "429", "503"}

TypeOK ==
    /\ server \in {"starting", "listening", "unbound", "stopping", "ended"}
    /\ signalled \in BOOLEAN
    /\ pc \in [Requests -> {"new", "done", "abandoned", "dropped"} \union Handling]
    /\ target \in [Requests -> Targets]
    /\ check \in [Requests -> [ok : BOOLEAN, duration : Durations \union {0}]]
    /\ count \in [Metrics -> Nat]
    /\ count["lastOk"] \in {0, 1}
    /\ scrape \in [Requests -> Seq(Nat)]
    /\ \A r \in Requests : Len(scrape[r]) <= Len(Rendered)
    /\ answer \in [Requests -> Answers]
    /\ before \in [Requests -> SUBSET Requests]
    /\ setter \in [Gauges -> Requests \union {Nobody}]

Init ==
    /\ server = "starting"
    /\ signalled = FALSE
    /\ pc = [r \in Requests |-> "new"]
    /\ target = [r \in Requests |-> "unrouted"]
    /\ check = [r \in Requests |-> [ok |-> FALSE, duration |-> 0]]
    /\ count = [m \in Metrics |-> 0]
    /\ scrape = [r \in Requests |-> <<>>]
    /\ answer = [r \in Requests |-> "none"]
    /\ before = [r \in Requests |-> {}]
    /\ setter = [g \in Gauges |-> Nobody]

-----------------------------------------------------------------------------
\* The server.

\* A port that is taken is logged, and the service runs on without its server.
Bind ==
    /\ server = "starting"
    /\ server' \in {"listening", "unbound"}
    /\ UNCHANGED <<signalled, pc, target, check, memory, scrape, answer, before>>

Signal ==
    /\ SignalMayCome /\ ~signalled
    /\ signalled' = TRUE
    /\ UNCHANGED <<server, pc, target, check, memory, scrape, answer, before>>

\* with_graceful_shutdown: no new requests, those under way go on.
ServerStops ==
    /\ server = "listening" /\ signalled
    /\ server' = "stopping"
    /\ UNCHANGED <<signalled, pc, target, check, memory, scrape, answer, before>>

\* The consumer is done: main aborts the server, and the runtime drops what still runs.
ProcessEnds ==
    /\ signalled /\ server # "ended"
    /\ server' = "ended"
    /\ pc' = [r \in Requests |-> IF pc[r] \in Handling THEN "dropped" ELSE pc[r]]
    /\ UNCHANGED <<signalled, target, check, memory, scrape, answer, before>>

-----------------------------------------------------------------------------
\* The handler of one request.

At(r, label) == pc[r] = label
Goto(r, label) ==
    /\ pc' = [pc EXCEPT ![r] = label]
    /\ UNCHANGED <<server, signalled, target, before>>
Respond(r, status) ==
    /\ answer' = [answer EXCEPT ![r] = status]
    /\ Goto(r, "done")

\* fetch_add on a counter.
Add(m, n) ==
    /\ count' = [count EXCEPT ![m] = @ + n]
    /\ UNCHANGED setter

Set(g, n, r) ==
    /\ count' = [count EXCEPT ![g] = n]
    /\ setter' = [setter EXCEPT ![g] = r]

Arrive(r, t) ==
    /\ server = "listening"
    /\ At(r, "new")
    /\ pc' = [pc EXCEPT ![r] = "arrived"]
    /\ target' = [target EXCEPT ![r] = t]
    /\ before' = [before EXCEPT ![r] = {q \in Requests : At(q, "done")}]
    /\ UNCHANGED <<server, signalled, check, memory, scrape, answer>>

\* limiter.allow(remote_addr.ip()) says no: 429.
RateLimited(r) ==
    /\ At(r, "arrived")
    /\ Add("limited", 1)
    /\ Respond(r, "429")
    /\ UNCHANGED <<check, scrape>>

\* A body announced as longer than 64 KiB is refused, and not counted anywhere.
TooLarge(r) ==
    /\ At(r, "arrived")
    /\ Respond(r, "413")
    /\ UNCHANGED <<check, memory, scrape>>

\* Mutant: the total is counted before the length is looked at.
CountRequestFirst(r) ==
    /\ At(r, "arrived")
    /\ Add("http", 1)
    /\ \/ Goto(r, "route") /\ UNCHANGED answer
       \/ Respond(r, "413")
    /\ UNCHANGED <<check, scrape>>

CountRequest(r) ==
    /\ At(r, "arrived")
    /\ Add("http", 1)
    /\ Goto(r, "route")
    /\ UNCHANGED <<check, scrape, answer>>

\* The match on method and path, and the counter of the route it finds.
Unrouted(r) ==
    /\ At(r, "route")
    /\ target[r] \in {"unrouted"} \union (IF MockEnabled THEN {} ELSE {"mock"})
    /\ Respond(r, "404 or 405")
    /\ UNCHANGED <<check, memory, scrape>>

RouteHealth(r) ==
    /\ At(r, "route") /\ target[r] \in HealthRoutes
    /\ Add(target[r], 1)
    /\ Goto(r, "check")
    /\ UNCHANGED <<check, scrape, answer>>

RouteMetrics(r) ==
    /\ At(r, "route") /\ target[r] = "metrics"
    /\ Add("metrics", 1)
    /\ Goto(r, "scrape")
    /\ UNCHANGED <<check, scrape, answer>>

RouteMock(r) ==
    /\ At(r, "route") /\ target[r] = "mock" /\ MockEnabled
    /\ Add("mock", 1)
    /\ Respond(r, "200")
    /\ UNCHANGED <<check, scrape>>

\* handle_health: state.check().await, then one counter after the other.
Checked(r, ok, duration) ==
    /\ At(r, "check")
    /\ check' = [check EXCEPT ![r] = [ok |-> ok, duration |-> duration]]
    /\ Goto(r, "checks")
    /\ UNCHANGED <<memory, scrape, answer>>

\* The client closes its connection while the check is under way: hyper, which is not told
\* to keep a connection half-open, drops the future of the handler at its await.
HangUp(r) ==
    /\ At(r, "check")
    /\ Goto(r, "abandoned")
    /\ UNCHANGED <<check, memory, scrape, answer>>

\* Mutant: a failed check is not counted as a check.
CountCheckIfOk(r) ==
    /\ At(r, "checks")
    /\ Add("checks", IF check[r].ok THEN 1 ELSE 0)
    /\ Goto(r, "sum")
    /\ UNCHANGED <<check, scrape, answer>>

CountCheck(r) ==
    /\ At(r, "checks")
    /\ Add("checks", 1)
    /\ Goto(r, "sum")
    /\ UNCHANGED <<check, scrape, answer>>

AddDuration(r) ==
    /\ At(r, "sum")
    /\ Add("sum", check[r].duration)
    /\ Goto(r, "lastDuration")
    /\ UNCHANGED <<check, scrape, answer>>

StoreDuration(r) ==
    /\ At(r, "lastDuration")
    /\ Set("lastDuration", check[r].duration, r)
    /\ Goto(r, "lastOk")
    /\ UNCHANGED <<check, scrape, answer>>

HealthAnswer(r) ==
    IF check[r].ok THEN Respond(r, "200") ELSE (Goto(r, "failed") /\ UNCHANGED answer)

\* Mutant: only a failure is written.
StoreOkIfFailed(r) ==
    /\ At(r, "lastOk")
    /\ IF check[r].ok THEN UNCHANGED memory ELSE Set("lastOk", 0, r)
    /\ HealthAnswer(r)
    /\ UNCHANGED <<check, scrape>>

StoreOk(r) ==
    /\ At(r, "lastOk")
    /\ Set("lastOk", IF check[r].ok THEN 1 ELSE 0, r)
    /\ HealthAnswer(r)
    /\ UNCHANGED <<check, scrape>>

CountFailed(r) ==
    /\ At(r, "failed")
    /\ Add("failed", 1)
    /\ Respond(r, "503")
    /\ UNCHANGED <<check, scrape>>

\* render_prometheus: the loads, in the order of its arguments.
Read(r) == scrape' = [scrape EXCEPT ![r] = Append(@, count[Rendered[Len(@) + 1]])]

\* Mutant: a counter starts anew after it has been read.
LoadTaking(r) ==
    LET m == Rendered[Len(scrape[r]) + 1]
    IN  /\ At(r, "scrape") /\ Len(scrape[r]) + 1 < Len(Rendered)
        /\ Read(r)
        /\ IF m \in Gauges THEN UNCHANGED memory ELSE Add(m, 0 - count[m])
        /\ UNCHANGED <<server, signalled, pc, target, check, answer, before>>

Load(r) ==
    /\ At(r, "scrape") /\ Len(scrape[r]) + 1 < Len(Rendered)
    /\ Read(r)
    /\ UNCHANGED <<server, signalled, pc, target, check, memory, answer, before>>

Render(r) ==
    /\ At(r, "scrape") /\ Len(scrape[r]) + 1 = Len(Rendered)
    /\ Read(r)
    /\ Respond(r, "200")
    /\ UNCHANGED <<check, memory>>

Handle(r) ==
    \/ \E t \in Asked : Arrive(r, t)
    \/ RateLimited(r) \/ TooLarge(r) \/ CountRequest(r)
    \/ Unrouted(r) \/ RouteHealth(r) \/ RouteMetrics(r) \/ RouteMock(r)
    \/ \E ok \in BOOLEAN, duration \in Durations : Checked(r, ok, duration)
    \/ HangUp(r)
    \/ CountCheck(r) \/ AddDuration(r) \/ StoreDuration(r) \/ StoreOk(r) \/ CountFailed(r)
    \/ Load(r) \/ Render(r)

Next ==
    \/ Bind \/ Signal \/ ServerStops \/ ProcessEnds
    \/ \E r \in Requests : Handle(r)

Spec == Init /\ [][Next]_vars

-----------------------------------------------------------------------------
\* When no handler is at work the counters are the tally of what became of the requests.  One
\* whose client hung up was counted as a request, and for its route, but as no check: only
\* so do the routes and the checks differ.
Quiet == \A r \in Requests : pc[r] \in {"new", "done", "abandoned"}
Answered(statuses) == {r \in Requests : pc[r] = "done" /\ answer[r] \in statuses}
Abandoned == {r \in Requests : pc[r] = "abandoned"}
HealthAnswered == {r \in Answered({"200", "503"}) : target[r] \in HealthRoutes}
Duration(r) == check[r].duration

TallyIsRight ==
    Quiet =>
        /\ count["limited"] = Cardinality(Answered({"429"}))
        /\ count["http"] = Cardinality(Answered({"200", "404 or 405", "503"}) \union Abandoned)
        /\ \A route \in HealthRoutes :
              count[route] = Cardinality({r \in HealthAnswered \union Abandoned : target[r] = route})
        /\ count["checks"] = Cardinality(HealthAnswered)
        /\ count["failed"] = Cardinality(Answered({"503"}))
        /\ count["sum"] = MapThenSumSet(Duration, HealthAnswered)

\* A counter never falls from one scrape to a later one, although each is read while
\* the other requests write.
CounterPositions == {i \in DOMAIN Rendered : Rendered[i] \notin Gauges}
ScrapesDone == {r \in Answered({"200"}) : target[r] = "metrics"}

ScrapesRise ==
    \A r, q \in ScrapesDone :
        r \in before[q] => \A i \in CounterPositions : scrape[r][i] <= scrape[q][i]

\* A report may show more failed checks than checks, since it reads the checks first, but no
\* more than failed while it was being read: those that were answered before are in both.
Shown(r, m) == LET i == CHOOSE k \in DOMAIN Rendered : Rendered[k] = m IN scrape[r][i]

FailuresAreChecks ==
    \A r \in ScrapesDone :
        Shown(r, "failed") <= Shown(r, "checks") + Cardinality(Answered({"503"}) \ before[r])

\* A gauge is not older than a whole check: no check that began after the one that set
\* it has been answered.
GaugesFresh ==
    \A g \in Gauges, r \in HealthAnswered :
        setter[g] # Nobody => setter[g] \notin before[r]
=============================================================================
