---------------------------- MODULE HealthCheck ----------------------------
(***************************************************************************)
(* HealthState::check of server/state.rs: a health request checks all      *)
(* dependencies at once, each for no longer than a timeout, and reports    *)
(* "ok" when all of them answered.  The check of the downstream queue      *)
(* declares it passively on the channel that MqProducer publishes on; a    *)
(* broker answers the declaration of a missing queue by closing the        *)
(* channel.  A check that times out, or whose client hangs up, leaves its  *)
(* declaration behind, and the answer to that still comes.                 *)
(***************************************************************************)
EXTENDS Naturals, FiniteSets

CONSTANTS Requests,      \* the health requests that can run at once
          Dependencies,  \* what is checked
          Downstream,    \* the one that is the downstream queue
          Timeout,       \* the timeout of dependency_status, in ticks
          QueueMayGo     \* whether somebody may delete the downstream queue

ASSUME HealthAssumption ==
    /\ Downstream \in Dependencies
    /\ Timeout \in Nat \ {0}
    /\ QueueMayGo \in BOOLEAN

VARIABLES
    status,    \* status[d]: the dependency answers, says no, or says nothing
    channel,   \* the channel of MqProducer
    orphan,    \* whether a declaration that nobody waits for is under way on it
    checking,  \* the requests under way
    age,       \* age[r]: the ticks since its check began
    result,    \* result[r][d]: the DependencyStatus, or "pending"
    report,    \* report[r]: the report, if the check is over
    seenUp,    \* the dependencies that were up at some time during the check
    steady     \* whether all of them were up all the time

answers == <<age, result, report>>
world == <<status, seenUp, steady>>
producer == <<channel, orphan>>
vars == <<status, producer, checking, age, result, report, seenUp, steady>>

Status == {"up", "down", "hung"}
Results == {"pending", "healthy", "unhealthy"}

TypeOK ==
    /\ status \in [Dependencies -> Status]
    /\ channel \in {"open", "closed"}
    /\ orphan \in BOOLEAN
    /\ checking \subseteq Requests
    /\ age \in [Requests -> 0 .. Timeout]
    /\ result \in [Requests -> [Dependencies -> Results]]
    /\ report \in [Requests -> {"none", "ok", "degraded"}]
    /\ seenUp \in [Requests -> SUBSET Dependencies]
    /\ steady \in [Requests -> BOOLEAN]

Init ==
    /\ status = [d \in Dependencies |-> "up"]
    /\ channel = "open" /\ orphan = FALSE
    /\ checking = {}
    /\ age = [r \in Requests |-> 0]
    /\ result = [r \in Requests |-> [d \in Dependencies |-> "pending"]]
    /\ report = [r \in Requests |-> "none"]
    /\ seenUp = [r \in Requests |-> {}]
    /\ steady = [r \in Requests |-> FALSE]

Up == {d \in Dependencies : status[d] = "up"}

-----------------------------------------------------------------------------
\* The five checks start together (tokio::join!), and so do their timeouts.
CheckStarts(r) ==
    /\ r \notin checking
    /\ checking' = checking \union {r}
    /\ seenUp' = [seenUp EXCEPT ![r] = Up]
    /\ steady' = [steady EXCEPT ![r] = Up = Dependencies]
    /\ report' = [report EXCEPT ![r] = "none"]
    /\ UNCHANGED <<status, producer, age, result>>

Resolve(r, d, outcome) ==
    /\ r \in checking /\ result[r][d] = "pending"
    /\ result' = [result EXCEPT ![r][d] = outcome]
    /\ UNCHANGED <<world, checking, age, report>>

\* A connection, a ping or a declaration on a connection of its own.
CheckAnswers(r, d) ==
    /\ d # Downstream
    /\ status[d] # "hung"
    /\ Resolve(r, d, IF status[d] = "up" THEN "healthy" ELSE "unhealthy")
    /\ UNCHANGED producer

\* The broker answers a declaration: it closes the channel if the queue is missing.
Declared ==
    /\ channel = "open" /\ status[Downstream] # "hung"
    /\ channel' = IF status[Downstream] = "down" THEN "closed" ELSE "open"

\* check_publish_queue.  A channel that is closed fails every use of it.
ProbeAnswers(r) ==
    /\ \/ /\ Declared
          /\ Resolve(r, Downstream, IF status[Downstream] = "up" THEN "healthy" ELSE "unhealthy")
       \/ /\ channel = "closed"
          /\ Resolve(r, Downstream, "unhealthy")
          /\ UNCHANGED channel
    /\ UNCHANGED orphan

\* The answer to a declaration whose check is over.
OrphanAnswers ==
    /\ orphan
    /\ Declared
    /\ orphan' = FALSE
    /\ UNCHANGED <<world, checking, answers>>

\* The future of check_publish_queue is dropped while its declaration is under way.
Orphaned == orphan' = (orphan \/ channel = "open")

\* Mutant: the check of the downstream queue has no timeout.
CheckTimesOutExceptProbe(r, d) ==
    /\ d # Downstream
    /\ age[r] = Timeout
    /\ Resolve(r, d, "unhealthy")
    /\ UNCHANGED producer

CheckTimesOut(r, d) ==
    /\ age[r] = Timeout
    /\ Resolve(r, d, "unhealthy")
    /\ IF d = Downstream THEN Orphaned ELSE UNCHANGED orphan
    /\ UNCHANGED channel

ReportIf(r, ok) ==
    /\ r \in checking
    /\ \A d \in Dependencies : result[r][d] # "pending"
    /\ report' = [report EXCEPT ![r] = IF ok THEN "ok" ELSE "degraded"]
    /\ checking' = checking \ {r}
    /\ UNCHANGED <<world, producer>>

\* What the check had found out is dropped with it.
Forget(r) ==
    /\ age' = [age EXCEPT ![r] = 0]
    /\ result' = [result EXCEPT ![r] = [d \in Dependencies |-> "pending"]]

Healthy(r) == {d \in Dependencies : result[r][d] = "healthy"}

\* Mutants: one unhealthy dependency is overlooked; the next check finds these results.
CheckReportsMost(r) ==
    ReportIf(r, Cardinality(Healthy(r)) + 1 >= Cardinality(Dependencies)) /\ Forget(r)
CheckReportsCaching(r) ==
    ReportIf(r, Healthy(r) = Dependencies) /\ UNCHANGED <<age, result>>

\* All five are in: "ok" if all of them are healthy.
CheckReports(r) == ReportIf(r, Healthy(r) = Dependencies) /\ Forget(r)

\* The client hangs up, and hyper drops the handler with its check.
HangUp(r) ==
    /\ r \in checking
    /\ checking' = checking \ {r}
    /\ Forget(r)
    /\ IF result[r][Downstream] = "pending" THEN Orphaned ELSE UNCHANGED orphan
    /\ seenUp' = [seenUp EXCEPT ![r] = {}]
    /\ steady' = [steady EXCEPT ![r] = FALSE]
    /\ UNCHANGED <<status, channel, report>>

Step(r) ==
    \/ ProbeAnswers(r)
    \/ \E d \in Dependencies : CheckAnswers(r, d) \/ CheckTimesOut(r, d)
    \/ CheckReports(r)

-----------------------------------------------------------------------------
\* A dependency that answers at all does so before the timeout: a slower one counts
\* as hung.
Silent(r, d) == status[d] = "hung" /\ ~(d = Downstream /\ channel = "closed")

Tick ==
    /\ checking # {}
    /\ \A r \in checking :
         /\ age[r] < Timeout
         /\ \E d \in Dependencies : result[r][d] = "pending"
         /\ \A d \in Dependencies : result[r][d] = "pending" => Silent(r, d)
    /\ age' = [r \in Requests |-> IF r \in checking THEN age[r] + 1 ELSE age[r]]
    /\ UNCHANGED <<world, producer, checking, result, report>>

\* A dependency changes; a queue can be missing only if somebody deletes it.
Change(d, s) ==
    /\ s # status[d]
    /\ d = Downstream /\ s = "down" => QueueMayGo
    /\ status' = [status EXCEPT ![d] = s]
    /\ seenUp' = [r \in Requests |->
                    IF r \in checking /\ s = "up" THEN seenUp[r] \union {d} ELSE seenUp[r]]
    /\ steady' = [r \in Requests |-> steady[r] /\ (r \in checking => s = "up")]
    /\ UNCHANGED <<producer, checking, answers>>

Next ==
    \/ \E r \in Requests : CheckStarts(r) \/ Step(r) \/ HangUp(r)
    \/ OrphanAnswers \/ Tick
    \/ \E d \in Dependencies, s \in Status : Change(d, s)

Spec == Init /\ [][Next]_vars

\* Time passes however often a request is started, and an answer that has arrived stays
\* in the socket until its task is polled, even if the dependency falls silent again.
FairSpec == Spec /\ SF_vars(Tick) /\ \A r \in Requests : SF_vars(Step(r))

-----------------------------------------------------------------------------
\* A request that reports "ok" has seen every dependency up while it ran: nothing is
\* remembered from an earlier check or taken from one that runs beside it.
OkIsTrue ==
    \A r \in Requests \ checking : report[r] = "ok" => seenUp[r] = Dependencies

\* When every dependency answers during the whole check, the report is "ok" - as long as the
\* producer's channel is open: no other request, no timeout and no client that hung up
\* spoils the answer.  The exception is real: a probe that finds the queue missing closes
\* the channel.
SteadyIsOkWhileOpen ==
    \A r \in Requests \ checking : steady[r] /\ channel = "open" => report[r] = "ok"

\* Every health check ends, even if no dependency ever says a word.
CheckEnds == \A r \in Requests : r \in checking ~> r \notin checking
=============================================================================
