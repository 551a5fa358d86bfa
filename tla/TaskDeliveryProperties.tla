----------------------- MODULE TaskDeliveryProperties -----------------------
(* What is claimed of TaskDelivery.                                        *)
EXTENDS TaskDelivery

-----------------------------------------------------------------------------
(* Safety.                                                                 *)

\* A task leaves the queue as done only if the very attempt that was
\* acknowledged had committed its rows and then sent the completion message:
\* no other attempt's work, and no failed one, is ever acknowledged.
AckedWorkIsDone ==
    \A m \in Tasks : queue[m] = "acked" =>
        \E s \in Sessions :
            phase[s][m] = "acked" /\ m \in rows[s] /\ completion[s][m] # "none"

\* A task is never worked on twice at once, nor once its fate is settled: the
\* loop drains a dead session before it opens the next one, which is what keeps
\* the broker's redelivery from racing the attempt that is still running.
ExclusiveAttempt ==
    \A m \in Tasks, s \in Sessions : phase[s][m] \in Active =>
        /\ queue[m] \in {"ready", "unacked"}
        /\ \A t \in Sessions \ {s} : phase[t][m] \notin Active \union Sent

\* A message is delivered again only when the earlier delivery was dropped
\* unread, died with the process, or had its settlement lost: this is the only
\* way the rows of a task, which have no unique key, get duplicated.
RedeliveryNeedsLoss ==
    \A m \in Tasks, s, t \in Sessions :
        s < t /\ phase[t][m] # "none" => phase[s][m] \in {"none", "dropped", "dead", "lost"}

\* The task semaphore outlives the consumer sessions: across reconnects, failures
\* and draining, each permit is free or held by exactly one running task.
PermitsAccounted ==
    loop # "down" => permits + Cardinality(RunningTasks) = MaxTasks

\* The completion message of an acknowledged task is queued downstream or on its
\* way: "on success send a message to the next queue and ACK" (README).
AckedIsAnnounced ==
    \A m \in Tasks : queue[m] = "acked" =>
        \E s \in Sessions : completion[s][m] \in {"wire", "queued"}

-----------------------------------------------------------------------------
(* Why the safety properties hold: an inductive invariant.                 *)

\* Where the loop stands, the connection and the sessions used up: a session
\* beyond the number of faults is live, and a shutdown has cost a fault too.
Control ==
    /\ (conn = "none") <=> (loop \in {"down", "top", "connecting", "backoff"})
    /\ conn # "none" => session # 0
    /\ loop = "stopping" => shutdown
    /\ loop = "restarting" => conn = "lost"
    /\ session + (IF shutdown /\ loop # "down" THEN 1 ELSE 0)
          <= faults + (IF conn = "live" THEN 1 ELSE 0)

\* Only the current session has work in progress, and only the loop waiting for a
\* permit holds a delivery itself, one at a time.
OnlyCurrent ==
    \A s \in Sessions, m \in Tasks :
        /\ phase[s][m] \in Active \union Sent => s = session /\ conn # "none"
        /\ s > session => phase[s][m] = "none"
        /\ phase[s][m] = "held" =>
              /\ loop = "acquire"
              /\ \A n \in Tasks \ {m} : phase[s][n] # "held"

\* The broker's view of the current session against the process's.
QueueMatches ==
    \A m \in Tasks :
        /\ queue[m] = "unacked" <=> conn = "live" /\ phase[session][m] \in Active \union Sent
        /\ queue[m] = "ready" /\ conn = "live" => phase[session][m] = "none"
        /\ conn = "lost" => phase[session][m] \notin Sent
        /\ conn = "lost" /\ phase[session][m] \in Active => queue[m] = "ready"

\* What the broker has settled, and what a delivery has behind it.
SettledOnce ==
    \A s \in Sessions, m \in Tasks :
        /\ queue[m] = "absent" => phase[s][m] = "none"
        /\ phase[s][m] = "acked" => queue[m] = "acked"
        /\ phase[s][m] = "nacked" => queue[m] = "discarded"

Evidence ==
    \A s \in Sessions, m \in Tasks :
        /\ phase[s][m] = "publish" => m \in rows[s]
        /\ phase[s][m] \in {"sending", "succeeded", "ack_sent", "acked"}
              => completion[s][m] # "none"
        /\ completion[s][m] # "none" => m \in rows[s]

AckedHasAttempt ==
    \A m \in Tasks : queue[m] = "acked" => \E s \in Sessions : phase[s][m] = "acked"

\* All of it together is preserved by every step.
IInv ==
    /\ TypeOK
    /\ Control
    /\ OnlyCurrent
    /\ QueueMatches
    /\ SettledOnce
    /\ Evidence
    /\ AckedHasAttempt
    /\ RedeliveryNeedsLoss

-----------------------------------------------------------------------------
(* What the service promises: see AtLeastOnce.                             *)

StatusOf == [absent |-> "absent", ready |-> "pending", unacked |-> "pending",
             acked |-> "done", discarded |-> "dropped"]

Status == [m \in Tasks |-> StatusOf[queue[m]]]
Saved == [m \in Tasks |-> {s \in Sessions : m \in rows[s]}]
Announced == [m \in Tasks |-> {s \in Sessions : completion[s][m] # "none"}]

Promise == INSTANCE AtLeastOnce WITH
    Attempts <- Sessions, status <- Status, saved <- Saved, announced <- Announced

\* Every step of queue, consumer and pipeline is a step of the promise or
\* changes nothing it speaks of.
KeepsPromise == Promise!Spec

-----------------------------------------------------------------------------
(* Liveness.                                                               *)

\* A submitted message is acknowledged or discarded in the end: it is not
\* stuck in a dead session, behind a permit, or in a loop that stopped.
EventuallySettled ==
    \A m \in Tasks : queue[m] = "ready" ~> queue[m] \in {"acked", "discarded"}

\* Once the shutdown is signalled the process ends, wherever it stood.
ShutdownCompletes == shutdown /\ loop # "down" ~> loop = "down"

\* With databases and LLM in order, every well-formed task that waits in the
\* queue is completed, in this process or after a restart: only a producer that
\* has lost its channel makes the loop discard it instead.
TasksSucceed ==
    \A m \in Tasks \ Malformed :
        queue[m] = "ready" ~> queue[m] = "acked" \/ (loop # "down" /\ producer = "closed")

\* The same without the exception, of a task no session has seen yet when the last
\* fault is over: what the end-to-end test expects after it restarts the broker.
TasksSucceedAfterFaults ==
    \A m \in Tasks \ Malformed :
        /\ faults = MaxFaults /\ queue[m] = "ready"
        /\ \A s \in Sessions : phase[s][m] = "none"
        ~> queue[m] = "acked"
=============================================================================
