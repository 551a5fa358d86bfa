------------------------- MODULE HttpServer_proofs -------------------------
(***************************************************************************)
(* Proofs about HttpServer, for any number of requests: what scrapes and   *)
(* gauges may show of counters that are read and written one by one.       *)
(***************************************************************************)
EXTENDS HttpServer, SequenceTheorems, FiniteSetTheorems, TLAPS

\* What Rendered is, spelled out once.
LEMMA RenderedNames ==
  /\ Len(Rendered) = 11
  /\ DOMAIN Rendered = 1 .. 11
  /\ \A i \in 1 .. 11 : Rendered[i] \in Metrics
  /\ Metrics = {"http", "healthz", "readyz", "metrics", "mock", "checks", "failed",
                "sum", "lastDuration", "lastOk", "limited"}
<1>1. Len(Rendered) = 11 /\ DOMAIN Rendered = 1 .. 11
  BY DEF Rendered
<1>2. \A i \in 1 .. 11 : Rendered[i] \in Metrics
  BY <1>1 DEF Metrics
<1>3. Metrics = {"http", "healthz", "readyz", "metrics", "mock", "checks", "failed",
                 "sum", "lastDuration", "lastOk", "limited"}
  <2>1. 1 .. 11 = {1, 2, 3, 4, 5, 6, 7, 8, 9, 10, 11}
    OBVIOUS
  <2> QED
    BY <1>1, <2>1 DEF Metrics, Rendered
<1> QED
  BY <1>1, <1>2, <1>3

LEMMA WithinBound ==
  ASSUME NEW n \in Nat, n <= 11, NEW i \in 1 .. n
  PROVE  i \in 1 .. 11
OBVIOUS

LEMMA NextPosition ==
  ASSUME NEW n \in Nat
  PROVE  /\ n < 11 => n + 1 \in 1 .. 11 /\ n + 1 <= 11
         /\ n + 1 < 11 => n < 11
         /\ n + 1 = 11 => n < 11 /\ n = 10
OBVIOUS

-----------------------------------------------------------------------------
\* The inductive invariant.

Past(g) ==
    {r \in Requests : target[r] \in HealthRoutes
        /\ \/ pc[r] = "failed"
           \/ pc[r] = "lastOk" /\ g = "lastDuration"
           \/ pc[r] = "done" /\ answer[r] \in {"200", "503"}}

\* Only what has been answered is before anything, and it stays so.
BeforeIsDone == \A r \in Requests : before[r] \subseteq {q \in Requests : pc[q] = "done"}

\* A gauge was last written by the check itself, or by one that ran beside or after it.
SetLater ==
    \A g \in Gauges : \A r \in Past(g) : setter[g] \in Requests \ before[r]

\* Nobody has read more than there is by now.
ReadSoFar ==
    \A r \in Requests : \A i \in 1 .. Len(scrape[r]) :
        Rendered[i] \notin Gauges => scrape[r][i] <= count[Rendered[i]]

\* A finished scrape is complete, and bounds from below what a later one reads.
LaterReadsMore ==
    \A r \in ScrapesDone :
        /\ Len(scrape[r]) = 11
        /\ \A q \in Requests : r \in before[q] =>
             \A i \in 1 .. Len(scrape[q]) :
                 Rendered[i] \notin Gauges => scrape[r][i] <= scrape[q][i]

\* A request that has not got to the counters has read nothing.
Untouched ==
    \A r \in Requests :
        /\ pc[r] \in {"new", "arrived", "route"} => scrape[r] = <<>>
        /\ pc[r] \notin {"done", "dropped"} => answer[r] = "none"
        /\ pc[r] \in {"check", "checks", "sum", "lastDuration", "lastOk", "failed", "abandoned"}
             => target[r] \in HealthRoutes
        /\ pc[r] = "scrape" => target[r] = "metrics"

IInv == TypeOK /\ BeforeIsDone /\ SetLater /\ ReadSoFar /\ LaterReadsMore /\ Untouched


LEMMA InitIInv == Init => IInv
<1> SUFFICES ASSUME Init PROVE IInv
  OBVIOUS
<1>1. TypeOK
  <2>1. count \in [Metrics -> Nat] /\ count["lastOk"] \in {0, 1}
    BY RenderedNames DEF Init
  <2>2. \A r \in Requests : scrape[r] = <<>>
    BY DEF Init
  <2>3. scrape \in [Requests -> Seq(Nat)] /\ \A r \in Requests : Len(scrape[r]) <= Len(Rendered)
    BY <2>2, RenderedNames DEF Init
  <2> QED
    BY <2>1, <2>3 DEF Init, TypeOK, Targets, Routes, Answers, Handling
<1>2. ScrapesDone = {}
  BY DEF Init, ScrapesDone, Answered
<1>3. \A r \in Requests : scrape[r] = <<>> /\ Len(scrape[r]) = 0
  BY DEF Init
<1>4. BeforeIsDone /\ SetLater /\ Untouched
  BY DEF Init, BeforeIsDone, SetLater, Past, Untouched
<1>5. ReadSoFar
  BY <1>3 DEF ReadSoFar
<1> QED
  BY <1>1, <1>2, <1>4, <1>5 DEF IInv, LaterReadsMore

\* A step of one handler that reads nothing, lets no counter fall, and writes a gauge,
\* if at all, in its own name.
LEMMA HandlerStepKeeps ==
  ASSUME IInv, NEW r \in Requests, NEW label,
         pc[r] \in Handling, pc' = [pc EXCEPT ![r] = label],
         UNCHANGED <<target, before, scrape>>,
         \A q \in Requests : q # r => answer'[q] = answer[q],
         \A m \in Metrics \ Gauges : count'[m] >= count[m],
         \A g \in Gauges : setter'[g] \in {setter[g], r},
         \A g \in Gauges : r \in Past(g)' => r \in Past(g) \/ setter'[g] = r,
         r \notin ScrapesDone',
         TypeOK', Untouched'
  PROVE  IInv'
<1>1. \A q \in Requests : q # r => pc'[q] = pc[q]
  BY DEF IInv, TypeOK
<1>2. \A q \in Requests : r \notin before[q]
  BY DEF IInv, BeforeIsDone, Handling
<1>3. BeforeIsDone'
  BY <1>1, <1>2 DEF IInv, BeforeIsDone
<1>4. SetLater'
  <2> SUFFICES ASSUME NEW g \in Gauges, NEW q \in Past(g)'
               PROVE  setter'[g] \in Requests \ before'[q]
    BY DEF SetLater
  <2>1. q \in Requests
    BY DEF Past
  <2>2. CASE q = r
    BY <2>2, <1>2, <2>1 DEF IInv, SetLater
  <2>3. CASE q # r
    <3>1. q \in Past(g)
      BY <2>1, <2>3, <1>1 DEF Past
    <3> QED
      BY <3>1, <2>1, <1>2 DEF IInv, SetLater
  <2> QED
    BY <2>2, <2>3
<1>5. ReadSoFar'
  <2> SUFFICES ASSUME NEW q \in Requests, NEW i \in 1 .. Len(scrape[q]), Rendered[i] \notin Gauges
               PROVE  scrape[q][i] <= count'[Rendered[i]]
    BY DEF ReadSoFar
  <2>0. scrape[q] \in Seq(Nat) /\ Len(scrape[q]) <= 11
    BY RenderedNames DEF IInv, TypeOK
  <2>1. Len(scrape[q]) \in Nat /\ scrape[q][i] \in Nat
    BY <2>0, ElementOfSeq, LenProperties
  <2>2. Rendered[i] \in Metrics
    <3>1. i \in 1 .. 11
      BY <2>0, <2>1, WithinBound
    <3> QED
      BY <3>1, RenderedNames
  <2>3. count[Rendered[i]] \in Nat /\ count'[Rendered[i]] \in Nat
    BY <2>2 DEF IInv, TypeOK
  <2>4. scrape[q][i] <= count[Rendered[i]] /\ count'[Rendered[i]] >= count[Rendered[i]]
    BY <2>2 DEF IInv, ReadSoFar
  <2> QED
    BY <2>1, <2>3, <2>4
<1>6. ScrapesDone' \subseteq ScrapesDone
  BY <1>1 DEF ScrapesDone, Answered
<1>7. LaterReadsMore'
  BY <1>6 DEF IInv, LaterReadsMore
<1> QED
  BY <1>3, <1>4, <1>5, <1>7 DEF IInv

\* Steps that change no handler, or drop them all.
LEMMA ServerStepKeeps ==
  ASSUME IInv, Bind \/ Signal \/ ServerStops \/ ProcessEnds
  PROVE  IInv'
<1>1. /\ server \in {"starting", "listening", "unbound", "stopping", "ended"}
      /\ signalled \in BOOLEAN
      /\ pc \in [Requests -> {"new", "done", "abandoned", "dropped"} \union Handling]
  BY DEF IInv, TypeOK
<1>2. /\ target' = target /\ check' = check /\ count' = count /\ setter' = setter
      /\ scrape' = scrape /\ answer' = answer /\ before' = before
  BY DEF Bind, Signal, ServerStops, ProcessEnds, memory
<1>3. signalled' \in BOOLEAN
  BY <1>1 DEF Bind, Signal, ServerStops, ProcessEnds
<1>4. server' \in {"starting", "listening", "unbound", "stopping", "ended"}
  BY <1>1 DEF Bind, Signal, ServerStops, ProcessEnds
<1>5. \/ pc' = pc
       \/ pc' = [q \in Requests |-> IF pc[q] \in Handling THEN "dropped" ELSE pc[q]]
  BY DEF Bind, Signal, ServerStops, ProcessEnds
<1>6. /\ pc' \in [Requests -> {"new", "done", "abandoned", "dropped"} \union Handling]
       /\ \A q \in Requests : pc'[q] = pc[q] \/ (pc[q] \in Handling /\ pc'[q] = "dropped")
  BY <1>1, <1>5
<1>7. TypeOK'
  BY <1>2, <1>3, <1>4, <1>6 DEF IInv, TypeOK
<1>8. BeforeIsDone' /\ SetLater' /\ Untouched'
  BY <1>2, <1>6 DEF IInv, BeforeIsDone, SetLater, Untouched, Past, Handling
<1>9. ReadSoFar'
  BY <1>2, <1>6 DEF IInv, ReadSoFar
<1>10. ScrapesDone' = ScrapesDone
  BY <1>2, <1>6 DEF ScrapesDone, Answered, Handling
<1>11. LaterReadsMore'
  BY <1>2, <1>6, <1>10 DEF IInv, LaterReadsMore
<1> QED
  BY <1>7, <1>8, <1>9, <1>11 DEF IInv

LEMMA ArriveKeeps ==
  ASSUME IInv, NEW r \in Requests, NEW t \in Asked, Arrive(r, t)
  PROVE  IInv'
<1>1. t \in Targets
  BY ServerAssumption
<1>2. /\ pc[r] = "new" /\ pc' = [pc EXCEPT ![r] = "arrived"]
      /\ target' = [target EXCEPT ![r] = t]
      /\ before' = [before EXCEPT ![r] = {q \in Requests : pc[q] = "done"}]
      /\ UNCHANGED <<server, signalled, check, memory, scrape, answer>>
  BY DEF Arrive, At
<1>3. TypeOK'
  BY <1>1, <1>2 DEF IInv, TypeOK, memory, Handling
<1>4. BeforeIsDone' /\ Untouched'
  BY <1>2 DEF IInv, TypeOK, BeforeIsDone, Untouched
<1>5. SetLater'
  <2>1. \A g : Past(g)' = Past(g)
    BY <1>2 DEF IInv, TypeOK, Past
  <2>2. \A g : r \notin Past(g)
    BY <1>2 DEF Past
  <2> QED
    BY <1>2, <2>1, <2>2 DEF IInv, TypeOK, SetLater, Past, memory
<1>6. ReadSoFar'
  BY <1>2 DEF IInv, ReadSoFar, memory
<1>7. LaterReadsMore'
  <2>1. ScrapesDone' = ScrapesDone
    BY <1>2 DEF IInv, TypeOK, ScrapesDone, Answered
  <2>2. scrape[r] = <<>> /\ scrape' = scrape
    BY <1>2 DEF IInv, Untouched
  <2>3. \A q \in Requests : q # r => before'[q] = before[q]
    BY <1>2 DEF IInv, TypeOK
  <2> QED
    BY <2>1, <2>2, <2>3 DEF IInv, LaterReadsMore
<1> QED
  BY <1>3, <1>4, <1>5, <1>6, <1>7 DEF IInv

-----------------------------------------------------------------------------
\* The steps of a handler.

LEMMA DurationIsNat ==
  ASSUME IInv, NEW r \in Requests
  PROVE  check[r].duration \in Nat
<1>1. check[r] \in [ok : BOOLEAN, duration : Durations \union {0}]
  BY DEF IInv, TypeOK
<1>2. check[r].duration \in Durations \union {0}
  BY <1>1
<1>3. \A d \in Durations \union {0} : d \in Nat
  BY ServerAssumption
<1> QED
  BY <1>2, <1>3

LEMMA CountersGrow ==
  ASSUME IInv, NEW m \in Metrics \ Gauges, NEW n \in Nat, Add(m, n)
  PROVE  /\ count' \in [Metrics -> Nat]
         /\ count'["lastOk"] = count["lastOk"]
         /\ \A k \in Metrics : count'[k] >= count[k]
         /\ setter' = setter
<1>1. count \in [Metrics -> Nat] /\ count' = [count EXCEPT ![m] = @ + n] /\ setter' = setter
  BY DEF Add, IInv, TypeOK
<1>2. m # "lastOk" /\ "lastOk" \in Metrics
  BY RenderedNames DEF Gauges
<1>3. \A k \in Metrics : count'[k] = IF k = m THEN count[m] + n ELSE count[k]
  BY <1>1
<1>4. \A k \in Metrics : count[k] \in Nat /\ count'[k] \in Nat /\ count'[k] >= count[k]
  BY <1>1, <1>3
<1> QED
  BY <1>1, <1>2, <1>3, <1>4

LEMMA RefusalsKeep ==
  ASSUME IInv, NEW r \in Requests, RateLimited(r) \/ TooLarge(r) \/ Unrouted(r)
  PROVE  IInv'
<1>1. /\ pc[r] \in {"arrived", "route"} /\ pc' = [pc EXCEPT ![r] = "done"]
      /\ UNCHANGED <<server, signalled, target, before, scrape, check>>
      /\ \E s \in {"429", "413", "404 or 405"} : answer' = [answer EXCEPT ![r] = s]
  BY DEF RateLimited, TooLarge, Unrouted, At, Respond, Goto
<1>2. /\ count' \in [Metrics -> Nat] /\ count'["lastOk"] = count["lastOk"]
      /\ \A k \in Metrics : count'[k] >= count[k]
      /\ setter' = setter
  <2>1. CASE RateLimited(r)
    BY <2>1, CountersGrow, RenderedNames DEF RateLimited, Gauges
  <2>2. CASE TooLarge(r) \/ Unrouted(r)
    <3>1. count' = count /\ setter' = setter
      BY <2>2 DEF TooLarge, Unrouted, memory
    <3>2. count \in [Metrics -> Nat] /\ \A k \in Metrics : count[k] >= count[k]
      BY DEF IInv, TypeOK
    <3> QED
      BY <3>1, <3>2
  <2> QED
    BY <2>1, <2>2
<1>3. TypeOK'
  BY <1>1, <1>2 DEF IInv, TypeOK, Answers
<1>4. Untouched'
  BY <1>1 DEF IInv, TypeOK, Untouched
<1>5. /\ r \notin ScrapesDone'
      /\ \A g : r \notin Past(g)'
  BY <1>1 DEF IInv, TypeOK, ScrapesDone, Answered, Past
<1>6. \A q \in Requests : q # r => answer'[q] = answer[q]
  BY <1>1 DEF IInv, TypeOK
<1>7. /\ pc[r] \in Handling
      /\ \A g \in Gauges : setter'[g] \in {setter[g], r}
      /\ \A m \in Metrics \ Gauges : count'[m] >= count[m]
  BY <1>1, <1>2 DEF Handling
<1> QED
  BY <1>1, <1>3, <1>4, <1>5, <1>6, <1>7, HandlerStepKeeps

LEMMA CountingKeeps ==
  ASSUME IInv, NEW r \in Requests,
         CountRequest(r) \/ RouteHealth(r) \/ RouteMetrics(r) \/ CountCheck(r) \/ AddDuration(r)
  PROVE  IInv'
<1>1. \E l \in {"route", "check", "scrape", "sum", "lastDuration"} :
        /\ pc' = [pc EXCEPT ![r] = l]
        /\ pc[r] \in {"arrived", "route", "checks", "sum"}
        /\ l = "route" => pc[r] = "arrived"
        /\ l \in {"sum", "lastDuration", "check"} => target[r] \in HealthRoutes
        /\ l = "scrape" => target[r] = "metrics"
        /\ UNCHANGED <<server, signalled, target, before, scrape, check, answer>>
  BY DEF CountRequest, RouteHealth, RouteMetrics, CountCheck, AddDuration, At, Goto,
         IInv, Untouched
<1>2. \E m \in Metrics \ Gauges, n \in Nat : Add(m, n)
  <2>1. {"http", "healthz", "readyz", "metrics", "checks", "sum"} \subseteq Metrics \ Gauges
    BY RenderedNames DEF Gauges
  <2>2. check[r].duration \in Nat
    BY DurationIsNat
  <2>3. CASE CountRequest(r) \/ RouteMetrics(r) \/ CountCheck(r)
    BY <2>3, <2>1 DEF CountRequest, RouteMetrics, CountCheck
  <2>4. CASE RouteHealth(r)
    BY <2>4, <2>1 DEF RouteHealth, HealthRoutes
  <2>5. CASE AddDuration(r)
    BY <2>5, <2>1, <2>2 DEF AddDuration
  <2> QED
    BY <2>3, <2>4, <2>5
<1>3. /\ count' \in [Metrics -> Nat] /\ count'["lastOk"] = count["lastOk"]
      /\ \A k \in Metrics : count'[k] >= count[k]
      /\ setter' = setter
  BY <1>2, CountersGrow
<1>4. TypeOK'
  BY <1>1, <1>3 DEF IInv, TypeOK, Handling
<1>5. Untouched'
  BY <1>1 DEF IInv, TypeOK, Untouched
<1>6. /\ r \notin ScrapesDone'
      /\ \A g : r \notin Past(g)'
  BY <1>1 DEF IInv, TypeOK, ScrapesDone, Answered, Past
<1> QED
  BY <1>1, <1>3, <1>4, <1>5, <1>6, HandlerStepKeeps DEF IInv, TypeOK, Handling

LEMMA MockKeeps ==
  ASSUME IInv, NEW r \in Requests, RouteMock(r)
  PROVE  IInv'
<1>1. /\ pc[r] = "route" /\ pc' = [pc EXCEPT ![r] = "done"] /\ target[r] = "mock"
      /\ UNCHANGED <<server, signalled, target, before, scrape, check>>
      /\ answer' = [answer EXCEPT ![r] = "200"]
  BY DEF RouteMock, At, Respond, Goto
<1>2. /\ count' \in [Metrics -> Nat] /\ count'["lastOk"] = count["lastOk"]
      /\ \A k \in Metrics : count'[k] >= count[k]
      /\ setter' = setter
  BY CountersGrow, RenderedNames DEF RouteMock, Gauges
<1>3. TypeOK'
  BY <1>1, <1>2 DEF IInv, TypeOK, Answers
<1>4. Untouched'
  BY <1>1 DEF IInv, TypeOK, Untouched
<1>5. /\ r \notin ScrapesDone'
      /\ \A g : r \notin Past(g)'
  BY <1>1 DEF IInv, TypeOK, ScrapesDone, Past, HealthRoutes
<1>6. \A q \in Requests : q # r => answer'[q] = answer[q]
  BY <1>1 DEF IInv, TypeOK
<1>7. /\ pc[r] \in Handling
      /\ \A g \in Gauges : setter'[g] \in {setter[g], r}
      /\ \A m \in Metrics \ Gauges : count'[m] >= count[m]
  BY <1>1, <1>2 DEF Handling
<1> QED
  BY <1>1, <1>3, <1>4, <1>5, <1>6, <1>7, HandlerStepKeeps

LEMMA CheckedKeeps ==
  ASSUME IInv, NEW r \in Requests, NEW ok \in BOOLEAN, NEW duration \in Durations,
         Checked(r, ok, duration)
  PROVE  IInv'
<1>1. /\ pc[r] = "check" /\ pc' = [pc EXCEPT ![r] = "checks"]
      /\ UNCHANGED <<server, signalled, target, before, scrape, answer, count, setter>>
  BY DEF Checked, At, Goto, memory
<1>2. TypeOK'
  BY <1>1 DEF IInv, TypeOK, Handling, Checked
<1>3. Untouched'
  BY <1>1 DEF IInv, TypeOK, Untouched
<1>4. /\ r \notin ScrapesDone'
      /\ \A g : r \notin Past(g)'
  BY <1>1 DEF IInv, TypeOK, ScrapesDone, Answered, Past
<1>5. \A m \in Metrics \ Gauges : count'[m] >= count[m]
  BY <1>1 DEF IInv, TypeOK
<1> QED
  BY <1>1, <1>2, <1>3, <1>4, <1>5, HandlerStepKeeps DEF IInv, TypeOK, Handling

LEMMA HangUpKeeps ==
  ASSUME IInv, NEW r \in Requests, HangUp(r)
  PROVE  IInv'
<1>1. /\ pc[r] = "check" /\ pc' = [pc EXCEPT ![r] = "abandoned"]
      /\ UNCHANGED <<server, signalled, target, before, scrape, check, answer, count, setter>>
  BY DEF HangUp, At, Goto, memory
<1>2. TypeOK'
  BY <1>1 DEF IInv, TypeOK
<1>3. Untouched'
  BY <1>1 DEF IInv, TypeOK, Untouched
<1>4. /\ r \notin ScrapesDone'
      /\ \A g : r \notin Past(g)'
  BY <1>1 DEF IInv, TypeOK, ScrapesDone, Answered, Past
<1>5. \A m \in Metrics \ Gauges : count'[m] >= count[m]
  BY <1>1 DEF IInv, TypeOK
<1>6. /\ pc[r] \in Handling
      /\ \A g \in Gauges : setter'[g] \in {setter[g], r}
      /\ \A q \in Requests : q # r => answer'[q] = answer[q]
  BY <1>1 DEF Handling
<1> QED
  BY <1>1, <1>2, <1>3, <1>4, <1>5, <1>6, HandlerStepKeeps

LEMMA StoreDurationKeeps ==
  ASSUME IInv, NEW r \in Requests, StoreDuration(r)
  PROVE  IInv'
<1>1. /\ pc[r] = "lastDuration" /\ pc' = [pc EXCEPT ![r] = "lastOk"]
      /\ target[r] \in HealthRoutes
      /\ UNCHANGED <<server, signalled, target, before, scrape, answer, check>>
      /\ count' = [count EXCEPT !["lastDuration"] = check[r].duration]
      /\ setter' = [setter EXCEPT !["lastDuration"] = r]
  BY DEF StoreDuration, At, Goto, Set, IInv, Untouched
<1>0. check[r].duration \in Nat
  BY DurationIsNat
<1>2. /\ count' \in [Metrics -> Nat] /\ count'["lastOk"] = count["lastOk"]
      /\ \A m \in Metrics \ Gauges : count'[m] = count[m]
  BY <1>0, <1>1, RenderedNames DEF IInv, TypeOK, Gauges
<1>3. TypeOK'
  BY <1>1, <1>2 DEF IInv, TypeOK, Handling, Gauges
<1>4. Untouched'
  BY <1>1 DEF IInv, TypeOK, Untouched
<1>5. r \notin ScrapesDone'
  BY <1>1 DEF IInv, TypeOK, ScrapesDone, Answered
<1>6. \A g \in Gauges : setter'[g] \in {setter[g], r} /\ (r \in Past(g)' => setter'[g] = r)
  BY <1>1 DEF IInv, TypeOK, Past, Gauges
<1>7. \A m \in Metrics \ Gauges : count'[m] >= count[m]
  BY <1>2 DEF IInv, TypeOK
<1> QED
  BY <1>1, <1>3, <1>4, <1>5, <1>6, <1>7, HandlerStepKeeps DEF Handling

LEMMA StoreOkKeeps ==
  ASSUME IInv, NEW r \in Requests, StoreOk(r)
  PROVE  IInv'
<1>1. /\ pc[r] = "lastOk" /\ target[r] \in HealthRoutes
      /\ UNCHANGED <<server, signalled, target, before, scrape, check>>
      /\ \E n \in {0, 1} : count' = [count EXCEPT !["lastOk"] = n]
      /\ setter' = [setter EXCEPT !["lastOk"] = r]
  BY DEF StoreOk, HealthAnswer, Respond, At, Goto, Set, IInv, Untouched
<1>2. \/ pc' = [pc EXCEPT ![r] = "done"] /\ answer' = [answer EXCEPT ![r] = "200"]
      \/ pc' = [pc EXCEPT ![r] = "failed"] /\ answer' = answer
  BY DEF StoreOk, HealthAnswer, Respond, Goto
<1>3. /\ count' \in [Metrics -> Nat] /\ count'["lastOk"] \in {0, 1}
      /\ \A m \in Metrics \ Gauges : count'[m] = count[m]
  <2>1. count \in [Metrics -> Nat] /\ "lastOk" \in Metrics
    BY RenderedNames DEF IInv, TypeOK
  <2> QED
    BY <1>1, <2>1 DEF Gauges
<1>4. TypeOK'
  <2>1. setter' \in [Gauges -> Requests \union {Nobody}]
    BY <1>1 DEF IInv, TypeOK
  <2>2. answer' \in [Requests -> Answers]
    BY <1>2 DEF IInv, TypeOK, Answers
  <2>3. pc' \in [Requests -> {"new", "done", "abandoned", "dropped"} \union Handling]
    BY <1>2 DEF IInv, TypeOK, Handling
  <2> QED
    BY <1>1, <1>3, <2>1, <2>2, <2>3 DEF IInv, TypeOK
<1>5. Untouched'
  BY <1>1, <1>2 DEF IInv, TypeOK, Untouched
<1>6. r \notin ScrapesDone'
  BY <1>1 DEF IInv, TypeOK, ScrapesDone, HealthRoutes
<1>7. \A g \in Gauges :
        setter'[g] \in {setter[g], r} /\ (r \in Past(g)' => r \in Past(g) \/ setter'[g] = r)
  BY <1>1, <1>2 DEF IInv, TypeOK, Past, Gauges
<1>8. \A m \in Metrics \ Gauges : count'[m] >= count[m]
  BY <1>3 DEF IInv, TypeOK
<1>9. \A q \in Requests : q # r => answer'[q] = answer[q]
  BY <1>2 DEF IInv, TypeOK
<1> QED
  BY <1>1, <1>2, <1>4, <1>5, <1>6, <1>7, <1>8, <1>9, HandlerStepKeeps DEF Handling

LEMMA CountFailedKeeps ==
  ASSUME IInv, NEW r \in Requests, CountFailed(r)
  PROVE  IInv'
<1>1. /\ pc[r] = "failed" /\ pc' = [pc EXCEPT ![r] = "done"]
      /\ target[r] \in HealthRoutes
      /\ UNCHANGED <<server, signalled, target, before, scrape, check>>
      /\ answer' = [answer EXCEPT ![r] = "503"]
  BY DEF CountFailed, At, Respond, Goto, IInv, Untouched
<1>2. /\ count' \in [Metrics -> Nat] /\ count'["lastOk"] = count["lastOk"]
      /\ \A k \in Metrics : count'[k] >= count[k]
      /\ setter' = setter
  BY CountersGrow, RenderedNames DEF CountFailed, Gauges
<1>3. TypeOK'
  BY <1>1, <1>2 DEF IInv, TypeOK, Answers
<1>4. Untouched'
  BY <1>1 DEF IInv, TypeOK, Untouched
<1>5. /\ r \notin ScrapesDone'
      /\ \A g : r \in Past(g)
  BY <1>1 DEF IInv, TypeOK, ScrapesDone, Past, HealthRoutes
<1>6. \A q \in Requests : q # r => answer'[q] = answer[q]
  BY <1>1 DEF IInv, TypeOK
<1>7. /\ pc[r] \in Handling
      /\ \A g \in Gauges : setter'[g] \in {setter[g], r}
      /\ \A m \in Metrics \ Gauges : count'[m] >= count[m]
  BY <1>1, <1>2 DEF Handling
<1> QED
  BY <1>1, <1>3, <1>4, <1>5, <1>6, <1>7, HandlerStepKeeps

\* A load reads at least what an earlier scrape has read of the same counter.
LEMMA ReadKeeps ==
  ASSUME IInv, NEW r \in Requests, pc[r] = "scrape", Len(scrape[r]) < 11, Read(r),
         UNCHANGED <<target, before, count, setter>>,
         \/ UNCHANGED <<pc, answer>>
         \/ /\ Len(scrape[r]) = 10
            /\ pc' = [pc EXCEPT ![r] = "done"]
            /\ answer' = [answer EXCEPT ![r] = "200"]
  PROVE  /\ scrape' \in [Requests -> Seq(Nat)]
         /\ \A q \in Requests : Len(scrape'[q]) <= 11
         /\ BeforeIsDone' /\ SetLater' /\ ReadSoFar' /\ LaterReadsMore' /\ Untouched'
<1> DEFINE n == Len(scrape[r]) + 1
<1>1. /\ scrape \in [Requests -> Seq(Nat)] /\ scrape[r] \in Seq(Nat)
      /\ Len(scrape[r]) \in Nat /\ n \in 1 .. 11
      /\ target[r] = "metrics"
  <2>1. scrape \in [Requests -> Seq(Nat)] /\ target[r] = "metrics"
    BY DEF IInv, TypeOK, Untouched
  <2>2. scrape[r] \in Seq(Nat)
    BY <2>1
  <2>3. Len(scrape[r]) \in Nat
    BY <2>2, LenProperties
  <2>4. n \in 1 .. 11
    BY <2>3, NextPosition
  <2> QED
    BY <2>1, <2>2, <2>3, <2>4
<1>2. Rendered[n] \in Metrics /\ count[Rendered[n]] \in Nat
  BY <1>1, RenderedNames DEF IInv, TypeOK
<1>3. /\ scrape' \in [Requests -> Seq(Nat)]
      /\ \A q \in Requests : q # r => scrape'[q] = scrape[q]
      /\ Len(scrape'[r]) = n
      /\ scrape'[r][n] = count[Rendered[n]]
      /\ \A i \in 1 .. Len(scrape[r]) : scrape'[r][i] = scrape[r][i]
  <2>1. scrape'[r] = Append(scrape[r], count[Rendered[n]])
    BY <1>1 DEF Read
  <2>2. /\ scrape'[r] \in Seq(Nat)
        /\ Len(scrape'[r]) = n
        /\ scrape'[r][n] = count[Rendered[n]]
        /\ \A i \in 1 .. Len(scrape[r]) : scrape'[r][i] = scrape[r][i]
    BY <1>1, <1>2, <2>1, AppendProperties
  <2> QED
    BY <1>1, <2>2 DEF Read
<1>4. \A i \in 1 .. n : i = n \/ i \in 1 .. Len(scrape[r])
  BY <1>1
<1>5. \A q \in Requests : Len(scrape'[q]) <= 11
  <2>1. \A q \in Requests : Len(scrape[q]) <= 11
    BY RenderedNames DEF IInv, TypeOK
  <2>2. Len(scrape'[r]) <= 11
    BY <1>1, <1>3, NextPosition
  <2> QED
    BY <1>3, <2>1, <2>2
<1>6. \A q \in Requests : q # r => pc'[q] = pc[q] /\ answer'[q] = answer[q]
  BY DEF IInv, TypeOK
<1>7. \A q \in Requests : r \notin before[q]
  BY DEF IInv, BeforeIsDone
<1>8. BeforeIsDone' /\ Untouched'
  <2>1. pc'[r] \in {"scrape", "done"} /\ (pc'[r] = "scrape" => answer'[r] = answer[r])
    BY DEF IInv, TypeOK
  <2>2. BeforeIsDone'
    BY <1>6, <1>7 DEF IInv, BeforeIsDone
  <2>3. Untouched'
    <3>1. target' = target
      OBVIOUS
    <3>2. pc[r] = "scrape" /\ answer[r] = "none"
      BY DEF IInv, Untouched
    <3>3. SUFFICES ASSUME NEW q \in Requests
                   PROVE  /\ pc'[q] \in {"new", "arrived", "route"} => scrape'[q] = <<>>
                          /\ pc'[q] \notin {"done", "dropped"} => answer'[q] = "none"
                          /\ pc'[q] \in {"check", "checks", "sum", "lastDuration", "lastOk", "failed", "abandoned"}
                               => target'[q] \in HealthRoutes
                          /\ pc'[q] = "scrape" => target'[q] = "metrics"
      BY DEF Untouched, HealthRoutes
    <3>4. CASE q = r
      BY <1>1, <2>1, <3>1, <3>2, <3>4
    <3>5. CASE q # r
      BY <1>3, <1>6, <3>1, <3>5 DEF IInv, Untouched
    <3> QED
      BY <3>4, <3>5
  <2> QED
    BY <2>2, <2>3
<1>9. SetLater'
  <2>1. \A g : Past(g)' \subseteq Past(g)
    BY <1>1, <1>6 DEF Past, HealthRoutes
  <2> QED
    BY <2>1 DEF IInv, SetLater
<1>10. ReadSoFar'
  <2> SUFFICES ASSUME NEW q \in Requests, NEW i \in 1 .. Len(scrape'[q]), Rendered[i] \notin Gauges
               PROVE  scrape'[q][i] <= count[Rendered[i]]
    BY DEF ReadSoFar
  <2>1. CASE q # r
    BY <2>1, <1>3 DEF IInv, ReadSoFar
  <2>2. CASE q = r /\ i = n
    BY <2>2, <1>2, <1>3
  <2>3. CASE q = r /\ i \in 1 .. Len(scrape[r])
    BY <2>3, <1>3 DEF IInv, ReadSoFar
  <2> QED
    BY <2>1, <2>2, <2>3, <1>3, <1>4
<1>11. LaterReadsMore'
  <2>1. ASSUME NEW q \in ScrapesDone'
        PROVE  Len(scrape'[q]) = 11
    <3>0. q \in Requests /\ pc'[q] = "done"
      BY <2>1 DEF ScrapesDone, Answered
    <3>1. CASE q # r
      <4>1. q \in ScrapesDone /\ scrape'[q] = scrape[q]
        BY <2>1, <3>0, <3>1, <1>3, <1>6 DEF ScrapesDone, Answered
      <4> QED
        BY <4>1 DEF IInv, LaterReadsMore
    <3>2. CASE q = r
      <4>1. Len(scrape[r]) = 10
        BY <3>0, <3>2
      <4> QED
        BY <3>2, <4>1, <1>3
    <3> QED
      BY <3>1, <3>2
  <2>2. ASSUME NEW q \in ScrapesDone', NEW p \in Requests, q \in before[p],
               NEW i \in 1 .. Len(scrape'[p]), Rendered[i] \notin Gauges
        PROVE  scrape'[q][i] <= scrape'[p][i]
    <3>1. q \in Requests /\ q # r /\ scrape'[q] = scrape[q]
      BY <2>2, <1>3, <1>7 DEF ScrapesDone, Answered
    <3>2. q \in ScrapesDone
      BY <3>1, <1>6 DEF ScrapesDone, Answered
    <3>3. CASE p # r
      BY <2>2, <3>1, <3>2, <3>3, <1>3 DEF IInv, LaterReadsMore
    <3>4. CASE p = r /\ i \in 1 .. Len(scrape[r])
      BY <2>2, <3>1, <3>2, <3>4, <1>3 DEF IInv, LaterReadsMore
    <3>5. CASE p = r /\ i = n
      <4>1. i \in 1 .. Len(scrape[q])
        BY <3>2, <3>5, <1>1 DEF IInv, LaterReadsMore
      <4> QED
        BY <2>2, <3>1, <3>5, <4>1, <1>3 DEF IInv, ReadSoFar
    <3> QED
      BY <3>3, <3>4, <3>5, <1>3, <1>4
  <2> QED
    BY <2>1, <2>2 DEF LaterReadsMore
<1> QED
  BY <1>3, <1>5, <1>8, <1>9, <1>10, <1>11

LEMMA ScrapeKeeps ==
  ASSUME IInv, NEW r \in Requests, Load(r) \/ Render(r)
  PROVE  IInv'
<1>1. /\ pc[r] = "scrape" /\ Read(r)
      /\ UNCHANGED <<server, signalled, target, before, count, setter, check>>
      /\ \/ Len(scrape[r]) + 1 < 11 /\ UNCHANGED <<pc, answer>>
         \/ /\ Len(scrape[r]) + 1 = 11
            /\ pc' = [pc EXCEPT ![r] = "done"]
            /\ answer' = [answer EXCEPT ![r] = "200"]
  BY RenderedNames DEF Load, Render, At, Respond, Goto, memory
<1>2. Len(scrape[r]) \in Nat
  BY LenProperties DEF IInv, TypeOK
<1>3. /\ scrape' \in [Requests -> Seq(Nat)]
      /\ \A q \in Requests : Len(scrape'[q]) <= 11
      /\ BeforeIsDone' /\ SetLater' /\ ReadSoFar' /\ LaterReadsMore' /\ Untouched'
  <2>1. /\ Len(scrape[r]) < 11
        /\ Len(scrape[r]) + 1 = 11 => Len(scrape[r]) = 10
    BY <1>1, <1>2, NextPosition
  <2> QED
    BY <1>1, <2>1, ReadKeeps
<1>4. TypeOK'
  <2>1. pc' \in [Requests -> {"new", "done", "abandoned", "dropped"} \union Handling]
    BY <1>1 DEF IInv, TypeOK
  <2>2. answer' \in [Requests -> Answers]
    BY <1>1 DEF IInv, TypeOK, Answers
  <2>3. /\ server \in {"starting", "listening", "unbound", "stopping", "ended"}
        /\ signalled \in BOOLEAN
        /\ target \in [Requests -> Targets]
        /\ check \in [Requests -> [ok : BOOLEAN, duration : Durations \union {0}]]
        /\ count \in [Metrics -> Nat] /\ count["lastOk"] \in {0, 1}
        /\ before \in [Requests -> SUBSET Requests]
        /\ setter \in [Gauges -> Requests \union {Nobody}]
    BY DEF IInv, TypeOK
  <2>4. Len(Rendered) = 11
    BY RenderedNames
  <2> QED
    BY <1>1, <1>3, <2>1, <2>2, <2>3, <2>4 DEF TypeOK
<1> QED
  BY <1>3, <1>4 DEF IInv

-----------------------------------------------------------------------------
LEMMA HandleKeeps ==
  ASSUME IInv, NEW r \in Requests, Handle(r)
  PROVE  IInv'
<1>1. ASSUME NEW t \in Asked, Arrive(r, t) PROVE IInv'
  BY <1>1, ArriveKeeps
<1>2. CASE RateLimited(r) \/ TooLarge(r) \/ Unrouted(r)
  BY <1>2, RefusalsKeep
<1>3. CASE CountRequest(r) \/ RouteHealth(r) \/ RouteMetrics(r) \/ CountCheck(r) \/ AddDuration(r)
  BY <1>3, CountingKeeps
<1>4. CASE RouteMock(r)
  BY <1>4, MockKeeps
<1>5. ASSUME NEW ok \in BOOLEAN, NEW duration \in Durations, Checked(r, ok, duration) PROVE IInv'
  BY <1>5, CheckedKeeps
<1>6. CASE StoreDuration(r) \/ StoreOk(r) \/ CountFailed(r)
  BY <1>6, StoreDurationKeeps, StoreOkKeeps, CountFailedKeeps
<1>7. CASE Load(r) \/ Render(r)
  BY <1>7, ScrapeKeeps
<1>8. CASE HangUp(r)
  BY <1>8, HangUpKeeps
<1> QED
  BY <1>1, <1>2, <1>3, <1>4, <1>5, <1>6, <1>7, <1>8 DEF Handle

LEMMA NextIInv == IInv /\ [Next]_vars => IInv'
<1> SUFFICES ASSUME IInv, [Next]_vars
             PROVE  IInv'
  OBVIOUS
<1>1. CASE UNCHANGED vars
  <2>1. TypeOK'
    BY <1>1 DEF vars, memory, IInv, TypeOK
  <2>2. BeforeIsDone' /\ SetLater' /\ Untouched'
    BY <1>1 DEF vars, memory, IInv, BeforeIsDone, SetLater, Past, Untouched
  <2>3. ReadSoFar' /\ LaterReadsMore'
    BY <1>1 DEF vars, memory, IInv, ReadSoFar, LaterReadsMore, ScrapesDone, Answered
  <2> QED
    BY <2>1, <2>2, <2>3 DEF IInv
<1>2. CASE Bind \/ Signal \/ ServerStops \/ ProcessEnds
  BY <1>2, ServerStepKeeps
<1>3. ASSUME NEW r \in Requests, Handle(r) PROVE IInv'
  BY <1>3, HandleKeeps
<1> QED
  BY <1>1, <1>2, <1>3 DEF Next

LEMMA Invariance == Spec => []IInv
<1> QED
  BY InitIInv, NextIInv, PTL DEF Spec

\* Type correctness: the counters stay naturals and the status gauge 0 or 1.
THEOREM TypeCorrect == Spec => []TypeOK
<1>1. IInv => TypeOK
  BY DEF IInv
<1> QED
  BY <1>1, Invariance, PTL

\* No counter of a scrape is below that of a scrape that was answered before it arrived.
THEOREM CountersNeverFall == Spec => []ScrapesRise
<1>1. ASSUME IInv
      PROVE  ScrapesRise
  <2>1. ScrapesDone \subseteq Requests
    BY DEF ScrapesDone, Answered
  <2>2. CounterPositions \subseteq 1 .. 11 /\ \A i \in CounterPositions : Rendered[i] \notin Gauges
    BY RenderedNames DEF CounterPositions
  <2>3. \A q \in ScrapesDone : Len(scrape[q]) = 11
    BY <1>1 DEF IInv, LaterReadsMore
  <2> QED
    BY <1>1, <2>1, <2>2, <2>3 DEF IInv, LaterReadsMore, ScrapesRise
<1> QED
  BY <1>1, Invariance, PTL

\* A gauge is never older than a whole check that has been answered.
THEOREM GaugesAreFresh == Spec => []GaugesFresh
<1>1. ASSUME IInv
      PROVE  GaugesFresh
  <2>1. \A g \in Gauges : HealthAnswered \subseteq Past(g)
    BY DEF HealthAnswered, Answered, Past
  <2> QED
    BY <1>1, <2>1 DEF IInv, SetLater, GaugesFresh
<1> QED
  BY <1>1, Invariance, PTL

-----------------------------------------------------------------------------
\* The tally: what every counter stands for at any time, not only between requests.

AnsweredWith(r, statuses) == pc[r] = "done" /\ answer[r] \in statuses
HealthAt(r, labels) ==
    target[r] \in HealthRoutes /\ (pc[r] \in labels \/ AnsweredWith(r, {"200", "503"}))

\* Whether r has passed the step that counts it in m.
IsCounted(m, r) ==
    \/ m = "limited" /\ AnsweredWith(r, {"429"})
    \/ m = "http" /\ \/ pc[r] \in (Handling \ {"arrived"}) \union {"abandoned"}
                     \/ AnsweredWith(r, {"200", "404 or 405", "503"})
    \/ m \in HealthRoutes /\ target[r] = m
         /\ HealthAt(r, {"check", "checks", "sum", "lastDuration", "lastOk", "failed", "abandoned"})
    \/ m = "checks" /\ HealthAt(r, {"sum", "lastDuration", "lastOk", "failed"})
    \/ m = "sum" /\ HealthAt(r, {"lastDuration", "lastOk", "failed"})
    \/ m = "failed" /\ AnsweredWith(r, {"503"})

Tallied == HealthRoutes \union {"limited", "http", "checks", "failed"}
Counted(m) == {r \in Requests : IsCounted(m, r)}

\* The sum of the durations that c gives to the requests of s, as the size of a set.
Ticks(c, s) == {p \in s \X Nat : p[2] < c[p[1]].duration}

NothingDropped == \A r \in Requests : pc[r] # "dropped"

\* Until the process ends, a counter is the number of requests that have passed it, and the
\* sum of the durations is that of the checks that were added to it.
TallyInv ==
    NothingDropped =>
        /\ \A m \in Tallied : count[m] = Cardinality(Counted(m))
        /\ count["sum"] = Cardinality(Ticks(check, Counted("sum")))

\* A set of subsets of a finite set has one from which no element can be taken: what stands
\* in for induction on the size of a set.
LEMMA SmallestSubset ==
    ASSUME NEW S, IsFiniteSet(S), NEW T \in SUBSET (SUBSET S), T # {}
    PROVE  \E s \in T : \A x \in s : s \ {x} \notin T
<1>1. T \subseteq FiniteSubsetsOf(S)
  BY FS_FiniteSubsetsOfFinite
<1>2. PICK s \in T : \A t \in T : ~ (<<t, s>> \in StrictSubsetOrdering(S))
  BY <1>1, FS_StrictSubsetOrderingWellFounded, WFMin
<1>3. ASSUME NEW x \in s, s \ {x} \in T PROVE FALSE
  <2>1. <<s \ {x}, s>> \in StrictSubsetOrdering(S)
    BY DEF StrictSubsetOrdering
  <2> QED
    BY <2>1, <1>2, <1>3
<1> QED
  BY <1>3

\* One more request adds its duration.
LEMMA TicksAdd ==
    ASSUME NEW c, NEW s, NEW x, x \notin s, c[x].duration \in Nat, IsFiniteSet(Ticks(c, s))
    PROVE  /\ IsFiniteSet(Ticks(c, s \union {x}))
           /\ Cardinality(Ticks(c, s \union {x})) = Cardinality(Ticks(c, s)) + c[x].duration
<1> DEFINE below == 0 .. c[x].duration - 1
           own == {x} \X below
<1>1. Ticks(c, s \union {x}) = Ticks(c, s) \union own /\ Ticks(c, s) \cap own = {}
  BY DEF Ticks
<1>2. IsFiniteSet(below) /\ Cardinality(below) = c[x].duration
  <2>1. 0 \in Int /\ c[x].duration - 1 \in Int
    OBVIOUS
  <2>2. /\ IsFiniteSet(below)
        /\ Cardinality(below) = IF 0 > c[x].duration - 1 THEN 0 ELSE (c[x].duration - 1) - 0 + 1
    BY <2>1, FS_Interval
  <2> QED
    BY <2>2
<1> HIDE DEF below
<1>3. IsFiniteSet({x}) /\ Cardinality({x}) = 1
  BY FS_Singleton
<1>4. IsFiniteSet(own) /\ Cardinality(own) = 1 * c[x].duration
  BY <1>2, <1>3, FS_Product
<1> HIDE DEF own
<1>5. Cardinality(Ticks(c, s)) \in Nat /\ Cardinality({}) = 0
  BY FS_CardinalityType, FS_EmptySet
<1>6. /\ IsFiniteSet(Ticks(c, s) \union own)
      /\ Cardinality(Ticks(c, s) \union own)
           = Cardinality(Ticks(c, s)) + Cardinality(own) - Cardinality(Ticks(c, s) \cap own)
  BY <1>4, FS_Union
<1>7. Cardinality(Ticks(c, s) \cap own) = 0
  BY <1>1, <1>5
<1>8. Cardinality(Ticks(c, s) \union own) = Cardinality(Ticks(c, s)) + c[x].duration
  BY <1>4, <1>5, <1>6, <1>7
<1> QED
  BY <1>1, <1>6, <1>8

LEMMA TicksEmpty == ASSUME NEW c PROVE Ticks(c, {}) = {}
BY DEF Ticks

LEMMA TicksFinite ==
    ASSUME NEW S, IsFiniteSet(S), NEW c, \A x \in S : c[x].duration \in Nat
    PROVE  \A s \in SUBSET S : IsFiniteSet(Ticks(c, s))
<1> DEFINE bad == {s \in SUBSET S : ~ IsFiniteSet(Ticks(c, s))}
<1> SUFFICES ASSUME bad # {} PROVE FALSE
  OBVIOUS
<1>1. PICK s \in bad : \A x \in s : s \ {x} \notin bad
  BY SmallestSubset
<1>2. s # {}
  BY <1>1, TicksEmpty, FS_EmptySet
<1>3. PICK x \in s : TRUE
  BY <1>2
<1>4. IsFiniteSet(Ticks(c, s \ {x}))
  BY <1>1, <1>3
<1>5. s = (s \ {x}) \union {x} /\ x \notin s \ {x} /\ c[x].duration \in Nat
  BY <1>1, <1>3
<1> QED
  BY <1>1, <1>4, <1>5, TicksAdd

\* The fold of the model is that sum.
LEMMA SumIsTicks ==
    ASSUME NEW S, IsFiniteSet(S), NEW c, \A x \in S : c[x].duration \in Nat
    PROVE  MapThenSumSet(LAMBDA x : c[x].duration, S) = Cardinality(Ticks(c, S))
<1> DEFINE first(s) == CHOOSE x \in s : TRUE
           F(g) == [s \in SUBSET S |-> IF s = {} THEN 0 ELSE c[first(s)].duration + g[s \ {first(s)}]]
           iter == CHOOSE g : g = F(g)
           h == [s \in SUBSET S |-> Cardinality(Ticks(c, s))]
<1>1. MapThenSumSet(LAMBDA x : c[x].duration, S) = iter[S]
  BY DEF MapThenSumSet, MapThenFoldSet
<1>2. \A s \in SUBSET S : s # {} =>
        /\ first(s) \in s /\ s \ {first(s)} \in SUBSET S
        /\ h[s] = c[first(s)].duration + h[s \ {first(s)}]
  <2> SUFFICES ASSUME NEW s \in SUBSET S, s # {}
               PROVE  /\ first(s) \in s /\ s \ {first(s)} \in SUBSET S
                      /\ h[s] = c[first(s)].duration + h[s \ {first(s)}]
    OBVIOUS
  <2>1. first(s) \in s /\ s \ {first(s)} \in SUBSET S
    OBVIOUS
  <2> HIDE DEF first
  <2> DEFINE rest == s \ {first(s)}
  <2>2. rest \union {first(s)} = s /\ first(s) \notin rest /\ c[first(s)].duration \in Nat
    BY <2>1
  <2>3. IsFiniteSet(Ticks(c, rest))
    BY <2>1, TicksFinite
  <2>4. Cardinality(Ticks(c, s)) = Cardinality(Ticks(c, rest)) + c[first(s)].duration
    BY <2>2, <2>3, TicksAdd
  <2>5. Cardinality(Ticks(c, rest)) \in Nat
    BY <2>3, FS_CardinalityType
  <2> QED
    BY <2>1, <2>2, <2>4, <2>5
<1>3. h[{}] = 0
  BY TicksEmpty, FS_EmptySet
<1> HIDE DEF first
<1>4. h = F(h)
  BY <1>2, <1>3
<1>5. iter = F(iter)
  BY <1>4
<1> HIDE DEF iter, h
<1>6. iter[{}] = 0 /\ \A s \in SUBSET S : s # {} => iter[s] = c[first(s)].duration + iter[s \ {first(s)}]
  BY <1>5
<1> DEFINE wrong == {s \in SUBSET S : iter[s] # h[s]}
<1>7. wrong = {}
  <2> SUFFICES ASSUME wrong # {} PROVE FALSE
    OBVIOUS
  <2>1. PICK s \in wrong : \A x \in s : s \ {x} \notin wrong
    BY SmallestSubset
  <2>2. s # {}
    BY <2>1, <1>3, <1>6
  <2>3. iter[s \ {first(s)}] = h[s \ {first(s)}]
    BY <2>1, <2>2, <1>2
  <2> QED
    BY <2>1, <2>2, <2>3, <1>2, <1>6
<1>8. iter[S] = h[S]
  BY <1>7
<1>9. h[S] = Cardinality(Ticks(c, S))
  BY DEF h
<1> QED
  BY <1>1, <1>8, <1>9

LEMMA DurationsAreNat ==
  ASSUME NEW c \in [Requests -> [ok : BOOLEAN, duration : Durations \union {0}]]
  PROVE  \A q \in Requests : c[q].duration \in Nat
<1>1. \A d \in Durations \union {0} : d \in Nat
  BY ServerAssumption
<1> QED
  BY <1>1

LEMMA CountedFinite ==
  ASSUME NEW m
  PROVE  IsFiniteSet(Counted(m)) /\ Cardinality(Counted(m)) \in Nat
BY ServerAssumption, FS_Subset, FS_CardinalityType DEF Counted

LEMMA TalliedCounters ==
  /\ Tallied \subseteq Metrics /\ "sum" \in Metrics
  /\ Tallied = {"healthz", "readyz", "limited", "http", "checks", "failed"}
BY RenderedNames DEF Tallied, HealthRoutes

LEMMA InitTally == Init => TallyInv
<1> SUFFICES ASSUME Init PROVE TallyInv
  OBVIOUS
<1>1. \A m \in Metrics : count[m] = 0
  BY DEF Init
<1>2. \A m : Counted(m) = {}
  BY DEF Init, Counted, IsCounted, HealthAt, AnsweredWith, Handling
<1>3. Ticks(check, Counted("sum")) = {}
  BY <1>2, TicksEmpty
<1> QED
  BY <1>1, <1>2, <1>3, TalliedCounters, FS_EmptySet DEF TallyInv

\* A step of r that counts r where it joins those who have been counted, and nobody else.
LEMMA TallyStep ==
  ASSUME TypeOK, TypeOK', TallyInv, NEW r \in Requests,
         pc[r] # "dropped",
         \A q \in Requests \ {r} :
           pc'[q] = pc[q] /\ target'[q] = target[q] /\ answer'[q] = answer[q] /\ check'[q] = check[q],
         \A m \in Tallied \union {"sum"} : IsCounted(m, r) => IsCounted(m, r)',
         IsCounted("sum", r) => check'[r] = check[r],
         \A m \in Tallied :
           count'[m] = count[m] + (IF IsCounted(m, r)' /\ ~ IsCounted(m, r) THEN 1 ELSE 0),
         count'["sum"] = count["sum"] + (IF IsCounted("sum", r)' /\ ~ IsCounted("sum", r)
                                         THEN check'[r].duration ELSE 0)
  PROVE  TallyInv'
<1> SUFFICES ASSUME NothingDropped'
             PROVE  /\ \A m \in Tallied : count'[m] = Cardinality(Counted(m)')
                    /\ count'["sum"] = Cardinality(Ticks(check, Counted("sum"))')
  BY DEF TallyInv
<1>1. NothingDropped
  BY DEF NothingDropped
<1>2. ASSUME NEW m, NEW q \in Requests \ {r} PROVE IsCounted(m, q)' <=> IsCounted(m, q)
  <2>1. pc'[q] = pc[q] /\ target'[q] = target[q] /\ answer'[q] = answer[q]
    OBVIOUS
  <2> QED
    BY <2>1 DEF IsCounted, HealthAt, AnsweredWith
<1>3. \A m \in Tallied \union {"sum"} :
        Counted(m)' = IF IsCounted(m, r)' /\ ~ IsCounted(m, r)
                      THEN Counted(m) \union {r} ELSE Counted(m)
  BY <1>2 DEF Counted
<1>4. \A m : ~ IsCounted(m, r) => r \notin Counted(m)
  BY DEF Counted
<1>5. \A m \in Tallied : count'[m] = Cardinality(Counted(m)')
  <2> SUFFICES ASSUME NEW m \in Tallied PROVE count'[m] = Cardinality(Counted(m)')
    OBVIOUS
  <2>1. count[m] = Cardinality(Counted(m)) /\ count[m] \in Nat
    BY <1>1, CountedFinite DEF TallyInv
  <2>2. CASE IsCounted(m, r)' /\ ~ IsCounted(m, r)
    <3>1. Cardinality(Counted(m) \union {r}) = Cardinality(Counted(m)) + 1
      BY <2>2, <1>4, CountedFinite, FS_AddElement
    <3> QED
      BY <2>1, <2>2, <3>1, <1>3
  <2>3. CASE ~ (IsCounted(m, r)' /\ ~ IsCounted(m, r))
    BY <2>1, <2>3, <1>3
  <2> QED
    BY <2>2, <2>3
<1>6. count'["sum"] = Cardinality(Ticks(check', Counted("sum")'))
  <2> DEFINE S == Counted("sum")
  <2>1. S \subseteq Requests /\ IsFiniteSet(S)
    BY CountedFinite DEF Counted
  <2>2. \A q \in Requests : check[q].duration \in Nat /\ check'[q].duration \in Nat
    BY DurationsAreNat DEF TypeOK
  <2>3. IsFiniteSet(Ticks(check, S))
    BY <2>1, <2>2, TicksFinite
  <2>4. \A q \in S : check'[q] = check[q]
    BY DEF Counted
  <2>5. Ticks(check', S) = Ticks(check, S)
    BY <2>4 DEF Ticks
  <2>6. count["sum"] = Cardinality(Ticks(check, S)) /\ count["sum"] \in Nat
    BY <1>1, <2>3, FS_CardinalityType DEF TallyInv
  <2>7. CASE IsCounted("sum", r)' /\ ~ IsCounted("sum", r)
    <3>1. S' = S \union {r} /\ r \notin S
      BY <2>7, <1>3, <1>4
    <3> HIDE DEF S
    <3>2. Cardinality(Ticks(check', S \union {r})) = Cardinality(Ticks(check', S)) + check'[r].duration
      BY <3>1, <2>2, <2>3, <2>5, TicksAdd
    <3> QED
      BY <2>5, <2>6, <2>7, <3>1, <3>2 DEF S
  <2>8. CASE ~ (IsCounted("sum", r)' /\ ~ IsCounted("sum", r))
    <3>1. S' = S
      BY <2>8, <1>3
    <3> QED
      BY <2>5, <2>6, <2>8, <3>1
  <2> QED
    BY <2>7, <2>8
<1> QED
  BY <1>5, <1>6

\* What a step adds to the counters of the tally, as IF-THEN-ELSE by counter.
LEMMA AddTo ==
  ASSUME TypeOK, NEW k \in Metrics \ Gauges, NEW n \in Nat, Add(k, n)
  PROVE  \A m \in Tallied \union {"sum"} : count'[m] = count[m] + (IF m = k THEN n ELSE 0)
<1>1. count \in [Metrics -> Nat] /\ count' = [count EXCEPT ![k] = @ + n]
  BY DEF Add, TypeOK
<1>2. \A m \in Metrics : count[m] \in Nat /\ count'[m] = IF m = k THEN count[m] + n ELSE count[m]
  BY <1>1
<1> QED
  BY <1>2, TalliedCounters

LEMMA NoneAdded ==
  ASSUME TypeOK, \A m \in Metrics \ Gauges : count'[m] = count[m]
  PROVE  \A m \in Tallied \union {"sum"} : count'[m] = count[m] + 0
<1>1. \A m \in Metrics : count[m] \in Nat
  BY DEF TypeOK
<1>2. \A m \in Tallied \union {"sum"} : m \in Metrics \ Gauges
  BY TalliedCounters DEF Gauges
<1> QED
  BY <1>1, <1>2

\* The frame of every handler step: it touches its own request only.
LEMMA OwnRequestOnly ==
  ASSUME TypeOK, NEW r \in Requests, Handle(r)
  PROVE  /\ pc[r] # "dropped"
         /\ \A q \in Requests \ {r} :
              pc'[q] = pc[q] /\ target'[q] = target[q] /\ answer'[q] = answer[q] /\ check'[q] = check[q]
<1>1. ASSUME NEW t \in Asked, Arrive(r, t)
      PROVE  /\ pc[r] # "dropped"
             /\ \A q \in Requests \ {r} :
                  pc'[q] = pc[q] /\ target'[q] = target[q] /\ answer'[q] = answer[q] /\ check'[q] = check[q]
  BY <1>1 DEF Arrive, At, TypeOK
<1>2. ASSUME NEW ok \in BOOLEAN, NEW duration \in Durations, Checked(r, ok, duration)
      PROVE  /\ pc[r] # "dropped"
             /\ \A q \in Requests \ {r} :
                  pc'[q] = pc[q] /\ target'[q] = target[q] /\ answer'[q] = answer[q] /\ check'[q] = check[q]
  BY <1>2 DEF Checked, At, Goto, TypeOK
<1>3. CASE RateLimited(r) \/ TooLarge(r) \/ CountRequest(r) \/ Unrouted(r) \/ RouteMock(r)
  BY <1>3 DEF RateLimited, TooLarge, CountRequest, Unrouted, RouteMock, At, Respond, Goto, TypeOK
<1>4. CASE RouteHealth(r) \/ RouteMetrics(r) \/ CountCheck(r) \/ AddDuration(r) \/ StoreDuration(r)
  BY <1>4 DEF RouteHealth, RouteMetrics, CountCheck, AddDuration, StoreDuration, At, Goto, TypeOK
<1>5. CASE StoreOk(r) \/ CountFailed(r) \/ Load(r) \/ Render(r) \/ HangUp(r)
  BY <1>5 DEF StoreOk, HealthAnswer, CountFailed, Load, Render, HangUp, At, Respond, Goto, TypeOK
<1> QED
  BY <1>1, <1>2, <1>3, <1>4, <1>5 DEF Handle

\* What a handler step counts: the counters it adds to are those its request now passes.
StepCounts(r) ==
  /\ \A m \in Tallied \union {"sum"} : IsCounted(m, r) => IsCounted(m, r)'
  /\ IsCounted("sum", r) => check'[r] = check[r]
  /\ \A m \in Tallied :
       count'[m] = count[m] + (IF IsCounted(m, r)' /\ ~ IsCounted(m, r) THEN 1 ELSE 0)
  /\ count'["sum"] = count["sum"] + (IF IsCounted("sum", r)' /\ ~ IsCounted("sum", r)
                                     THEN check'[r].duration ELSE 0)

LEMMA UncountedStep ==
  ASSUME TypeOK, NEW r \in Requests,
         \A m \in Metrics \ Gauges : count'[m] = count[m],
         \A m \in Tallied \union {"sum"} : IsCounted(m, r)' <=> IsCounted(m, r),
         IsCounted("sum", r) => check'[r] = check[r]
  PROVE  StepCounts(r)
<1>1. \A m \in Tallied \union {"sum"} : count'[m] = count[m] + 0
  BY NoneAdded
<1> QED
  BY <1>1 DEF StepCounts

LEMMA CountedStep ==
  ASSUME TypeOK, NEW r \in Requests, NEW k \in Tallied, Add(k, 1),
         check'[r] = check[r],
         ~ IsCounted(k, r), IsCounted(k, r)',
         \A m \in (Tallied \union {"sum"}) \ {k} : IsCounted(m, r)' <=> IsCounted(m, r)
  PROVE  StepCounts(r)
<1>1. \A m \in Tallied \union {"sum"} : count'[m] = count[m] + (IF m = k THEN 1 ELSE 0)
  BY AddTo, TalliedCounters DEF Gauges
<1>2. k # "sum"
  BY TalliedCounters
<1> QED
  BY <1>1, <1>2 DEF StepCounts

LEMMA UncountedAdd ==
  ASSUME TypeOK, NEW r \in Requests, NEW k \in {"metrics", "mock"}, Add(k, 1),
         check'[r] = check[r],
         \A m \in Tallied \union {"sum"} : IsCounted(m, r)' <=> IsCounted(m, r)
  PROVE  StepCounts(r)
<1>1. k \in Metrics \ Gauges
  BY RenderedNames DEF Gauges
<1>2. \A m \in Tallied \union {"sum"} : count'[m] = count[m] + (IF m = k THEN 1 ELSE 0)
  BY <1>1, AddTo
<1>3. \A m \in Tallied \union {"sum"} : m # k
  BY TalliedCounters
<1> QED
  BY <1>2, <1>3 DEF StepCounts

LEMMA HandleCounts ==
  ASSUME IInv, NEW r \in Requests, Handle(r)
  PROVE  StepCounts(r)
<1> USE DEF IsCounted, HealthAt, AnsweredWith, Handling, HealthRoutes, Tallied
<1>0. TypeOK /\ Untouched
  BY DEF IInv
<1>1. ASSUME NEW t \in Asked, Arrive(r, t) PROVE StepCounts(r)
  <2>1. /\ pc[r] = "new" /\ pc'[r] = "arrived" /\ UNCHANGED <<count, check>>
    BY <1>0, <1>1 DEF Arrive, At, TypeOK, memory
  <2> QED
    BY <1>0, <2>1, UncountedStep
<1>2. CASE RateLimited(r)
  <2>1. /\ pc[r] = "arrived" /\ pc'[r] = "done" /\ answer'[r] = "429"
        /\ target' = target /\ check' = check /\ Add("limited", 1)
    BY <1>0, <1>2 DEF RateLimited, At, Respond, Goto, TypeOK
  <2> QED
    BY <1>0, <2>1, CountedStep
<1>3. CASE TooLarge(r)
  <2>1. /\ pc[r] = "arrived" /\ pc'[r] = "done" /\ answer'[r] = "413"
        /\ target' = target /\ check' = check /\ count' = count
    BY <1>0, <1>3 DEF TooLarge, At, Respond, Goto, TypeOK, memory
  <2> QED
    BY <1>0, <2>1, UncountedStep
<1>4. CASE CountRequest(r)
  <2>1. /\ pc[r] = "arrived" /\ pc'[r] = "route"
        /\ target' = target /\ check' = check /\ answer' = answer /\ Add("http", 1)
    BY <1>0, <1>4 DEF CountRequest, At, Goto, TypeOK
  <2> QED
    BY <1>0, <2>1, CountedStep
<1>5. CASE Unrouted(r)
  <2>1. /\ pc[r] = "route" /\ pc'[r] = "done" /\ answer'[r] = "404 or 405"
        /\ target' = target /\ check' = check /\ count' = count
    BY <1>0, <1>5 DEF Unrouted, At, Respond, Goto, TypeOK, memory
  <2> QED
    BY <1>0, <2>1, UncountedStep
<1>6. CASE RouteHealth(r)
  <2>1. /\ pc[r] = "route" /\ pc'[r] = "check" /\ target[r] \in HealthRoutes
        /\ target' = target /\ check' = check /\ answer' = answer /\ Add(target[r], 1)
    BY <1>0, <1>6 DEF RouteHealth, At, Goto, TypeOK
  <2> QED
    BY <1>0, <2>1, CountedStep
<1>7. CASE RouteMetrics(r)
  <2>1. /\ pc[r] = "route" /\ pc'[r] = "scrape" /\ target[r] = "metrics"
        /\ target' = target /\ check' = check /\ answer' = answer /\ Add("metrics", 1)
    BY <1>0, <1>7 DEF RouteMetrics, At, Goto, TypeOK
  <2> QED
    BY <1>0, <2>1, UncountedAdd
<1>8. CASE RouteMock(r)
  <2>1. /\ pc[r] = "route" /\ pc'[r] = "done" /\ target[r] = "mock" /\ answer'[r] = "200"
        /\ target' = target /\ check' = check /\ Add("mock", 1)
    BY <1>0, <1>8 DEF RouteMock, At, Respond, Goto, TypeOK
  <2> QED
    BY <1>0, <2>1, UncountedAdd
<1>9. ASSUME NEW ok \in BOOLEAN, NEW duration \in Durations, Checked(r, ok, duration)
      PROVE  StepCounts(r)
  <2>1. /\ pc[r] = "check" /\ pc'[r] = "checks"
        /\ target' = target /\ answer' = answer /\ count' = count
    BY <1>0, <1>9 DEF Checked, At, Goto, TypeOK, memory
  <2> QED
    BY <1>0, <2>1, UncountedStep
<1>10. CASE CountCheck(r)
  <2>1. /\ pc[r] = "checks" /\ pc'[r] = "sum" /\ target[r] \in HealthRoutes
        /\ target' = target /\ check' = check /\ answer' = answer /\ Add("checks", 1)
    BY <1>0, <1>10 DEF CountCheck, At, Goto, TypeOK, Untouched
  <2> QED
    BY <1>0, <2>1, CountedStep
<1>11. CASE AddDuration(r)
  <2>1. /\ pc[r] = "sum" /\ pc'[r] = "lastDuration" /\ target[r] \in HealthRoutes
        /\ target' = target /\ check' = check /\ answer' = answer /\ Add("sum", check[r].duration)
    BY <1>0, <1>11 DEF AddDuration, At, Goto, TypeOK, Untouched
  <2>2. \A m \in Tallied \union {"sum"} :
           count'[m] = count[m] + (IF m = "sum" THEN check[r].duration ELSE 0)
    BY <1>0, <2>1, AddTo, DurationIsNat, TalliedCounters DEF Gauges
  <2>3. /\ ~ IsCounted("sum", r) /\ IsCounted("sum", r)'
        /\ \A m \in Tallied : IsCounted(m, r)' <=> IsCounted(m, r)
    BY <2>1
  <2>4. "sum" \notin Tallied
    BY TalliedCounters
  <2> QED
    BY <2>1, <2>2, <2>3, <2>4 DEF StepCounts
<1>12. CASE StoreDuration(r)
  <2>1. /\ pc[r] = "lastDuration" /\ pc'[r] = "lastOk"
        /\ target' = target /\ check' = check /\ answer' = answer
        /\ \A m \in Metrics \ Gauges : count'[m] = count[m]
    BY <1>0, <1>12 DEF StoreDuration, At, Goto, TypeOK, Set, Gauges
  <2> QED
    BY <1>0, <2>1, UncountedStep
<1>13. CASE StoreOk(r)
  <2>1. /\ pc[r] = "lastOk" /\ target[r] \in HealthRoutes
        /\ target' = target /\ check' = check
        /\ \/ pc'[r] = "done" /\ answer'[r] = "200"
           \/ pc'[r] = "failed"
        /\ \A m \in Metrics \ Gauges : count'[m] = count[m]
    BY <1>0, <1>13 DEF StoreOk, HealthAnswer, At, Respond, Goto, TypeOK, Set, Gauges, Untouched
  <2> QED
    BY <1>0, <2>1, UncountedStep
<1>14. CASE CountFailed(r)
  <2>1. /\ pc[r] = "failed" /\ pc'[r] = "done" /\ answer'[r] = "503" /\ target[r] \in HealthRoutes
        /\ target' = target /\ check' = check /\ Add("failed", 1)
    BY <1>0, <1>14 DEF CountFailed, At, Respond, Goto, TypeOK, Untouched
  <2> QED
    BY <1>0, <2>1, CountedStep
<1>15. CASE Load(r)
  <2>1. UNCHANGED <<pc, target, check, answer, count>>
    BY <1>15 DEF Load, memory
  <2> QED
    BY <1>0, <2>1, UncountedStep
<1>16. CASE Render(r)
  <2>1. /\ pc[r] = "scrape" /\ pc'[r] = "done" /\ answer'[r] = "200" /\ target[r] = "metrics"
        /\ target' = target /\ check' = check /\ count' = count
    BY <1>0, <1>16 DEF Render, At, Respond, Goto, TypeOK, memory, Untouched
  <2> QED
    BY <1>0, <2>1, UncountedStep
<1>17. CASE HangUp(r)
  <2>1. /\ pc[r] = "check" /\ pc'[r] = "abandoned" /\ target[r] \in HealthRoutes
        /\ target' = target /\ check' = check /\ answer' = answer /\ count' = count
    BY <1>0, <1>17 DEF HangUp, At, Goto, TypeOK, memory, Untouched
  <2> QED
    BY <1>0, <2>1, UncountedStep
<1> QED
  BY <1>1, <1>2, <1>3, <1>4, <1>5, <1>6, <1>7, <1>8, <1>9, <1>10, <1>11, <1>12, <1>13, <1>14,
     <1>15, <1>16, <1>17 DEF Handle

LEMMA NextTally == IInv /\ IInv' /\ TallyInv /\ [Next]_vars => TallyInv'
<1> SUFFICES ASSUME IInv, IInv', TallyInv, [Next]_vars
             PROVE  TallyInv'
  OBVIOUS
<1>1. ASSUME NEW r \in Requests, Handle(r) PROVE TallyInv'
  <2>1. TypeOK /\ TypeOK'
    BY DEF IInv
  <2>2. /\ pc[r] # "dropped"
        /\ \A q \in Requests \ {r} :
             pc'[q] = pc[q] /\ target'[q] = target[q] /\ answer'[q] = answer[q] /\ check'[q] = check[q]
    BY <1>1, <2>1, OwnRequestOnly
  <2>3. StepCounts(r)
    BY <1>1, HandleCounts
  <2> QED
    BY <2>1, <2>2, <2>3, TallyStep DEF StepCounts
<1>2. CASE Bind \/ Signal \/ ServerStops \/ ProcessEnds \/ UNCHANGED vars
  <2> SUFFICES ASSUME NothingDropped' PROVE TallyInv'
    BY DEF TallyInv
  <2>1. UNCHANGED <<target, check, count, answer>>
    BY <1>2 DEF Bind, Signal, ServerStops, ProcessEnds, vars, memory
  <2>2. \A r \in Requests : pc'[r] = pc[r]
    <3>1. CASE Bind \/ Signal \/ ServerStops \/ UNCHANGED vars
      BY <3>1 DEF Bind, Signal, ServerStops, vars
    <3>2. CASE ProcessEnds
      BY <3>2 DEF ProcessEnds, NothingDropped
    <3> QED
      BY <1>2, <3>1, <3>2
  <2>3. NothingDropped
    BY <2>2 DEF NothingDropped
  <2>4. ASSUME NEW m PROVE Counted(m)' = Counted(m)
    <3>1. ASSUME NEW r \in Requests PROVE IsCounted(m, r)' <=> IsCounted(m, r)
      BY <2>1, <2>2 DEF IsCounted, HealthAt, AnsweredWith
    <3> QED
      BY <3>1 DEF Counted
  <2> QED
    BY <2>1, <2>3, <2>4 DEF TallyInv
<1> QED
  BY <1>1, <1>2 DEF Next

\* When no handler is at work, every counter is the tally of the requests that were answered
\* or given up by their clients, and the sum of the durations that of the checks answered.
THEOREM CountersAreTheTally == Spec => []TallyIsRight
<1>1. ASSUME IInv, TallyInv
      PROVE  TallyIsRight
  <2> SUFFICES ASSUME Quiet PROVE TallyIsRight
    BY DEF TallyIsRight
  <2>1. NothingDropped
    BY DEF Quiet, NothingDropped
  <2>2. /\ Counted("limited") = Answered({"429"})
        /\ Counted("http") = Answered({"200", "404 or 405", "503"}) \union Abandoned
        /\ Counted("failed") = Answered({"503"})
    BY DEF Quiet, Counted, IsCounted, HealthAt, AnsweredWith, Answered, Abandoned, Handling,
           HealthRoutes
  <2>3. Counted("checks") = HealthAnswered /\ Counted("sum") = HealthAnswered
    BY DEF Quiet, Counted, IsCounted, HealthAt, AnsweredWith, Answered, HealthAnswered, HealthRoutes
  <2>4. \A route \in HealthRoutes :
           Counted(route) = {r \in HealthAnswered \union Abandoned : target[r] = route}
    BY DEF Quiet, Counted, IsCounted, HealthAt, AnsweredWith, Answered, Abandoned,
           HealthAnswered, HealthRoutes
  <2>5. \A m \in Tallied : count[m] = Cardinality(Counted(m))
    BY <1>1, <2>1 DEF TallyInv
  <2>6. count["sum"] = MapThenSumSet(Duration, HealthAnswered)
    <3>1. HealthAnswered \subseteq Requests /\ IsFiniteSet(HealthAnswered)
      BY <2>3, CountedFinite DEF Counted
    <3>2. \A q \in HealthAnswered : check[q].duration \in Nat
      BY <1>1, <3>1, DurationIsNat
    <3>3. MapThenSumSet(LAMBDA x : check[x].duration, HealthAnswered)
            = Cardinality(Ticks(check, HealthAnswered))
      BY <3>1, <3>2, SumIsTicks
    <3>4. MapThenSumSet(Duration, HealthAnswered)
            = MapThenSumSet(LAMBDA x : check[x].duration, HealthAnswered)
      BY DEF MapThenSumSet, MapThenFoldSet, Duration
    <3> QED
      BY <1>1, <2>1, <2>3, <3>3, <3>4 DEF TallyInv
  <2>7. "limited" \in Tallied /\ "http" \in Tallied /\ "checks" \in Tallied /\ "failed" \in Tallied
        /\ HealthRoutes \subseteq Tallied
    BY TalliedCounters DEF HealthRoutes
  <2> QED
    BY <2>2, <2>3, <2>4, <2>5, <2>6, <2>7 DEF TallyIsRight
<1>2. Spec => []TallyInv
  BY InitTally, NextTally, Invariance, PTL DEF Spec
<1> QED
  BY <1>1, <1>2, Invariance, PTL

-----------------------------------------------------------------------------
\* What a report may show of failed checks.

Failed == Answered({"503"})

\* The process ends for all requests at once.
EndsForAll ==
    (\E r \in Requests : pc[r] = "dropped") =>
        server = "ended" /\ \A r \in Requests : pc[r] \notin Handling

FailedAreHealth == \A r \in Failed : target[r] \in HealthRoutes

\* "checks" is the sixth value read and "failed" the seventh.
ReadInOrder ==
    \A r \in Requests :
        /\ 6 \in 1 .. Len(scrape[r]) => Cardinality(Failed \cap before[r]) <= scrape[r][6]
        /\ 7 \in 1 .. Len(scrape[r]) => scrape[r][7] <= Cardinality(Failed)

FailInv == EndsForAll /\ FailedAreHealth /\ ReadInOrder

LEMMA FailedFinite ==
  ASSUME NEW S
  PROVE  /\ IsFiniteSet(Failed) /\ IsFiniteSet(Failed \cap S) /\ IsFiniteSet(Failed \ S)
         /\ Cardinality(Failed) \in Nat /\ Cardinality(Failed \cap S) \in Nat
         /\ Cardinality(Failed \ S) \in Nat
<1>1. Failed \subseteq Requests /\ IsFiniteSet(Requests)
  BY ServerAssumption DEF Failed, Answered
<1>2. IsFiniteSet(Failed)
  BY <1>1, FS_Subset
<1>3. IsFiniteSet(Failed \cap S) /\ IsFiniteSet(Failed \ S)
  BY <1>2, FS_Subset
<1> QED
  BY <1>2, <1>3, FS_CardinalityType

LEMMA InitFailInv == Init => FailInv
<1> SUFFICES ASSUME Init PROVE FailInv
  OBVIOUS
<1>1. \A r \in Requests : pc[r] = "new" /\ Len(scrape[r]) = 0
  BY DEF Init
<1>2. Failed = {}
  BY <1>1 DEF Failed, Answered
<1> QED
  BY <1>1, <1>2 DEF FailInv, EndsForAll, FailedAreHealth, ReadInOrder

\* What a handler step may do to the requests, as far as reports and failures go.
HandlerFrame(r) ==
  /\ server' = server
  /\ pc[r] \in Handling \/ (pc[r] = "new" /\ server = "listening")
  /\ pc'[r] # "dropped"
  /\ pc'[r] = "done" /\ answer'[r] = "503" => target'[r] \in HealthRoutes
  /\ \A q \in Requests \ {r} :
       /\ pc'[q] = pc[q] /\ answer'[q] = answer[q] /\ target'[q] = target[q]
       /\ scrape'[q] = scrape[q] /\ before'[q] = before[q]
  /\ \/ scrape'[r] = <<>>
     \/ scrape'[r] = scrape[r] /\ before'[r] = before[r]
     \/ /\ pc[r] = "scrape" /\ before'[r] = before[r]
        /\ scrape'[r] = Append(scrape[r], count[Rendered[Len(scrape[r]) + 1]])
        /\ ~ (pc'[r] = "done" /\ answer'[r] = "503")

LEMMA HandleIsFramed ==
  ASSUME IInv, NEW r \in Requests, Handle(r)
  PROVE  HandlerFrame(r)
<1> USE DEF HandlerFrame, At, Respond, Goto, Handling
<1>0. TypeOK /\ Untouched
  BY DEF IInv
<1>1. ASSUME NEW t \in Asked, Arrive(r, t) PROVE HandlerFrame(r)
  BY <1>0, <1>1 DEF Arrive, TypeOK, Untouched
<1>2. ASSUME NEW ok \in BOOLEAN, NEW duration \in Durations, Checked(r, ok, duration)
      PROVE  HandlerFrame(r)
  BY <1>0, <1>2 DEF Checked, TypeOK
<1>3. CASE RateLimited(r) \/ TooLarge(r) \/ CountRequest(r)
  BY <1>0, <1>3 DEF RateLimited, TooLarge, CountRequest, TypeOK
<1>4. CASE Unrouted(r) \/ RouteMock(r)
  BY <1>0, <1>4 DEF Unrouted, RouteMock, TypeOK
<1>5. CASE RouteHealth(r) \/ RouteMetrics(r) \/ HangUp(r)
  BY <1>0, <1>5 DEF RouteHealth, RouteMetrics, HangUp, TypeOK
<1>6. CASE CountCheck(r) \/ AddDuration(r) \/ StoreDuration(r)
  BY <1>0, <1>6 DEF CountCheck, AddDuration, StoreDuration, TypeOK
<1>7. CASE StoreOk(r) \/ CountFailed(r)
  BY <1>0, <1>7 DEF StoreOk, HealthAnswer, CountFailed, TypeOK, Untouched
<1>8. CASE Load(r) \/ Render(r)
  BY <1>0, <1>8 DEF Load, Render, Read, TypeOK, Untouched
<1> QED
  BY <1>1, <1>2, <1>3, <1>4, <1>5, <1>6, <1>7, <1>8 DEF Handle

\* While a handler is at work, the failures answered are counted, and as checks as well.
LEMMA FailuresCounted ==
  ASSUME IInv, TallyInv, EndsForAll, FailedAreHealth, NEW r \in Requests, pc[r] \in Handling
  PROVE  count["failed"] = Cardinality(Failed) /\ Cardinality(Failed) <= count["checks"]
<1>1. NothingDropped
  BY DEF EndsForAll, NothingDropped
<1>2. /\ count["failed"] = Cardinality(Counted("failed"))
      /\ count["checks"] = Cardinality(Counted("checks"))
  BY <1>1, TalliedCounters DEF TallyInv
<1>3. Counted("failed") = Failed
  BY DEF Counted, IsCounted, HealthAt, AnsweredWith, Failed, Answered, HealthRoutes
<1>4. Failed \subseteq Counted("checks")
  BY DEF Counted, IsCounted, HealthAt, AnsweredWith, Failed, Answered, FailedAreHealth
<1>5. Cardinality(Failed) <= Cardinality(Counted("checks"))
  BY <1>4, CountedFinite, FS_Subset
<1> QED
  BY <1>2, <1>3, <1>5

LEMMA HandleKeepsFailInv ==
  ASSUME IInv, TallyInv, FailInv, NEW r \in Requests, Handle(r)
  PROVE  FailInv'
<1>1. HandlerFrame(r)
  BY HandleIsFramed
<1>2. /\ r \notin Failed
      /\ \A q \in Requests : r \notin before[q]
  BY <1>1 DEF HandlerFrame, Failed, Answered, Handling, IInv, BeforeIsDone
<1>3. /\ Failed \subseteq Failed' /\ Failed' \subseteq Failed \union {r}
      /\ (pc'[r] = "done" /\ answer'[r] = "503") \/ Failed' = Failed
  BY <1>1, <1>2 DEF HandlerFrame, Failed, Answered
<1>4. EndsForAll'
  BY <1>1 DEF HandlerFrame, FailInv, EndsForAll, Handling
<1>5. FailedAreHealth'
  BY <1>1, <1>3 DEF HandlerFrame, FailInv, FailedAreHealth, Failed, Answered
<1>6. Cardinality(Failed) <= Cardinality(Failed')
  <2>1. IsFiniteSet(Failed')
    BY ServerAssumption, FS_Subset DEF Failed, Answered
  <2> QED
    BY <1>3, <2>1, FS_Subset
<1>7. Cardinality(Failed) \in Nat /\ Cardinality(Failed') \in Nat
  <2>1. IsFiniteSet(Failed')
    BY ServerAssumption, FS_Subset DEF Failed, Answered
  <2> QED
    BY <2>1, FailedFinite, FS_CardinalityType
<1>8. ASSUME NEW q \in Requests, before'[q] = before[q]
      PROVE  Failed' \cap before'[q] = Failed \cap before[q]
  BY <1>2, <1>3, <1>8
<1>9. \A q \in Requests : scrape[q] \in Seq(Nat) /\ Len(scrape[q]) \in Nat
  <2>1. \A q \in Requests : scrape[q] \in Seq(Nat)
    BY DEF IInv, TypeOK
  <2> QED
    BY <2>1, LenProperties
<1>10. ASSUME NEW q \in Requests, scrape'[q] = scrape[q], before'[q] = before[q]
       PROVE  /\ 6 \in 1 .. Len(scrape'[q]) => Cardinality(Failed' \cap before'[q]) <= scrape'[q][6]
              /\ 7 \in 1 .. Len(scrape'[q]) => scrape'[q][7] <= Cardinality(Failed')
  <2>1. 6 \in 1 .. Len(scrape[q]) => Cardinality(Failed \cap before[q]) <= scrape[q][6]
    BY DEF FailInv, ReadInOrder
  <2>2. 7 \in 1 .. Len(scrape[q]) =>
          scrape[q][7] \in Nat /\ scrape[q][7] <= Cardinality(Failed)
    BY <1>9, ElementOfSeq DEF FailInv, ReadInOrder
  <2>3. Cardinality(Failed' \cap before'[q]) = Cardinality(Failed \cap before[q])
    BY <1>8, <1>10
  <2>4. 7 \in 1 .. Len(scrape[q]) => scrape[q][7] <= Cardinality(Failed')
    BY <2>2, <1>6, <1>7
  <2> QED
    BY <2>1, <2>3, <2>4, <1>10
<1>11. CASE scrape'[r] = <<>>
  <2>1. Len(scrape'[r]) = 0
    BY <1>11
  <2> QED
    BY <1>1, <1>4, <1>5, <1>10, <2>1 DEF HandlerFrame, FailInv, ReadInOrder
<1>12. CASE scrape'[r] = scrape[r] /\ before'[r] = before[r]
  BY <1>1, <1>4, <1>5, <1>10, <1>12 DEF HandlerFrame, FailInv, ReadInOrder
<1>13. CASE /\ pc[r] = "scrape" /\ before'[r] = before[r]
            /\ scrape'[r] = Append(scrape[r], count[Rendered[Len(scrape[r]) + 1]])
            /\ ~ (pc'[r] = "done" /\ answer'[r] = "503")
  <2> DEFINE n == Len(scrape[r]) + 1
  <2>1. Failed' = Failed
    BY <1>3, <1>13
  <2>2. /\ count["failed"] = Cardinality(Failed) /\ Cardinality(Failed) <= count["checks"]
        /\ count["checks"] \in Nat
    BY <1>13, FailuresCounted, RenderedNames DEF FailInv, Handling, IInv, TypeOK
  <2>3. Rendered[6] = "checks" /\ Rendered[7] = "failed"
    BY DEF Rendered
  <2>4. /\ Len(scrape'[r]) = n /\ scrape'[r][n] = count[Rendered[n]]
        /\ \A i \in 1 .. Len(scrape[r]) : scrape'[r][i] = scrape[r][i]
    BY <1>9, <1>13
  <2>5. Cardinality(Failed \cap before[r]) <= Cardinality(Failed)
        /\ Cardinality(Failed \cap before[r]) \in Nat
    BY FailedFinite, FS_Subset
  <2>6. 6 \in 1 .. Len(scrape'[r]) => Cardinality(Failed' \cap before'[r]) <= scrape'[r][6]
    <3>1. CASE n = 6
      <4>1. scrape'[r][6] = count["checks"]
        BY <3>1, <2>3, <2>4
      <4>2. Cardinality(Failed' \cap before'[r]) = Cardinality(Failed \cap before[r])
        BY <1>8, <1>13
      <4> QED
        BY <4>1, <4>2, <1>7, <2>2, <2>5
    <3>2. CASE n # 6
      <4>1. 6 \in 1 .. Len(scrape'[r]) => 6 \in 1 .. Len(scrape[r])
        BY <3>2, <1>9, <2>4
      <4> QED
        BY <4>1, <1>8, <1>13, <2>4 DEF FailInv, ReadInOrder
    <3> QED
      BY <3>1, <3>2
  <2>7. 7 \in 1 .. Len(scrape'[r]) => scrape'[r][7] <= Cardinality(Failed')
    <3>1. CASE n = 7
      BY <3>1, <1>7, <2>1, <2>2, <2>3, <2>4
    <3>2. CASE n # 7
      <4>1. 7 \in 1 .. Len(scrape'[r]) => 7 \in 1 .. Len(scrape[r])
        BY <3>2, <1>9, <2>4
      <4> QED
        BY <4>1, <2>1, <2>4 DEF FailInv, ReadInOrder
    <3> QED
      BY <3>1, <3>2
  <2> HIDE DEF n
  <2> QED
    BY <1>1, <1>4, <1>5, <1>10, <2>6, <2>7 DEF HandlerFrame, FailInv, ReadInOrder
<1> QED
  BY <1>1, <1>11, <1>12, <1>13 DEF HandlerFrame

LEMMA NextFailInv == IInv /\ TallyInv /\ FailInv /\ [Next]_vars => FailInv'
<1> SUFFICES ASSUME IInv, TallyInv, FailInv, [Next]_vars
             PROVE  FailInv'
  OBVIOUS
<1>1. ASSUME NEW r \in Requests, Handle(r) PROVE FailInv'
  BY <1>1, HandleKeepsFailInv
<1>2. CASE Bind \/ Signal \/ ServerStops \/ ProcessEnds \/ UNCHANGED vars
  <2>1. UNCHANGED <<target, count, answer, before, scrape>>
    BY <1>2 DEF Bind, Signal, ServerStops, ProcessEnds, vars, memory
  <2>2. \A r \in Requests :
           pc'[r] = pc[r] \/ (pc[r] \in Handling /\ pc'[r] = "dropped" /\ ProcessEnds)
    BY <1>2 DEF Bind, Signal, ServerStops, ProcessEnds, vars
  <2>3. Failed' = Failed
    BY <2>1, <2>2 DEF Failed, Answered, Handling
  <2>4. EndsForAll'
    <3>1. CASE ProcessEnds
      BY <3>1 DEF ProcessEnds, EndsForAll, Handling
    <3>2. CASE Bind \/ Signal \/ ServerStops \/ UNCHANGED vars
      BY <3>2 DEF Bind, Signal, ServerStops, vars, FailInv, EndsForAll
    <3> QED
      BY <1>2, <3>1, <3>2
  <2> QED
    BY <2>1, <2>3, <2>4 DEF FailInv, FailedAreHealth, ReadInOrder
<1> QED
  BY <1>1, <1>2 DEF Next

\* A report shows at most as many failures beyond checks as were answered while it was being
\* put together, whatever the order in which the handlers count.
THEOREM FailuresShownAreChecks == Spec => []FailuresAreChecks
<1>1. ASSUME IInv, FailInv
      PROVE  FailuresAreChecks
  <2> SUFFICES ASSUME NEW r \in ScrapesDone
               PROVE  Shown(r, "failed") <= Shown(r, "checks") + Cardinality(Failed \ before[r])
    BY DEF FailuresAreChecks, Failed
  <2>1. r \in Requests /\ Len(scrape[r]) = 11 /\ scrape[r] \in Seq(Nat)
    BY <1>1 DEF ScrapesDone, Answered, IInv, LaterReadsMore, TypeOK
  <2>2. Shown(r, "checks") = scrape[r][6] /\ Shown(r, "failed") = scrape[r][7]
    <3>1. \A k \in 1 .. 11 : /\ Rendered[k] = "checks" <=> k = 6
                             /\ Rendered[k] = "failed" <=> k = 7
      BY DEF Rendered
    <3>2. (CHOOSE k \in DOMAIN Rendered : Rendered[k] = "checks") = 6
      BY <3>1, RenderedNames
    <3>3. (CHOOSE k \in DOMAIN Rendered : Rendered[k] = "failed") = 7
      BY <3>1, RenderedNames
    <3> QED
      BY <3>2, <3>3 DEF Shown
  <2>3. scrape[r][6] \in Nat /\ scrape[r][7] \in Nat
    BY <2>1, ElementOfSeq
  <2>4. /\ Cardinality(Failed \cap before[r]) <= scrape[r][6]
        /\ scrape[r][7] <= Cardinality(Failed)
    <3>1. 6 \in 1 .. Len(scrape[r]) /\ 7 \in 1 .. Len(scrape[r])
      BY <2>1
    <3> QED
      BY <1>1, <2>1, <3>1 DEF FailInv, ReadInOrder
  <2>5. Cardinality(Failed) = Cardinality(Failed \cap before[r]) + Cardinality(Failed \ before[r])
    <3>1. Cardinality(Failed \ before[r])
            = Cardinality(Failed) - Cardinality(Failed \cap before[r])
      BY FailedFinite, FS_Difference
    <3>2. Cardinality(Failed) \in Nat /\ Cardinality(Failed \cap before[r]) \in Nat
      BY FailedFinite
    <3> QED
      BY <3>1, <3>2
  <2> QED
    BY <2>2, <2>3, <2>4, <2>5, FailedFinite
<1>2. Spec => []TallyInv
  BY InitTally, NextTally, Invariance, PTL DEF Spec
<1>3. Spec => []FailInv
  BY <1>2, InitFailInv, NextFailInv, Invariance, PTL DEF Spec
<1> QED
  BY <1>1, <1>3, Invariance, PTL
=============================================================================
