---------------------------- MODULE TaskDelivery ----------------------------
(***************************************************************************)
(* The life of a task message: the RabbitMQ queues, the consumer loop of   *)
(* mq/consumer.rs with its sessions, its task semaphore and its shutdown,  *)
(* the pipeline of task/processor.rs, the producer of mq/producer.rs and   *)
(* the process of main.rs that starts them, under lost connections, broker *)
(* restarts, shutdown signals and crashes.                                 *)
(*                                                                         *)
(* A delivery is named by the consumer session that received it and by its *)
(* message: a session never receives a message twice, because the code     *)
(* never requeues one, so the broker does so only when the session ends.   *)
(***************************************************************************)
EXTENDS Naturals, FiniteSets

CONSTANTS
    Tasks,       \* the messages other services put into consume_queue
    Malformed,   \* those that do not deserialize to a TaskMessage
    MaxTasks,    \* concurrency.max_tasks, permits of the task semaphore
    Prefetch,    \* rabbitmq.prefetch_count
    Faults,      \* which of Kinds may happen
    Failing,     \* which of Steps may fail
    MaxFaults    \* bound on the number of faults of a behaviour

Kinds == {"consumer", "producer", "broker", "signal", "crash"}
Steps == {"prepare", "insert"}

\* config.rs refuses a zero max_tasks or prefetch_count.
ASSUME ConfigValidated ==
    /\ MaxTasks \in Nat \ {0}
    /\ Prefetch \in Nat \ {0}
ASSUME ScopeAssumption ==
    /\ IsFiniteSet(Tasks) /\ Malformed \subseteq Tasks
    /\ Faults \subseteq Kinds
    /\ Failing \subseteq Steps
    /\ MaxFaults \in Nat

\* Every session but the last one was ended by a fault of its own.
Sessions == 1 .. MaxFaults + 1

VARIABLES
    queue,       \* queue[m]: where consume_queue has m
    completion,  \* completion[s][m]: the completion message of a delivery
    rows,        \* rows[s]: the tasks whose rows session s has committed
    phase,       \* phase[s][m]: how far the delivery of m to session s is
    loop,        \* where MqConsumer::run stands
    session,     \* the latest session, 0 before the first
    conn,        \* the consumer's AMQP connection
    permits,     \* free permits of task_semaphore
    shutdown,    \* the value of the shutdown watch channel
    producer,    \* the producer's AMQP channel
    faults       \* the number of faults so far

broker == <<queue, completion>>
process == <<loop, session, conn, permits, shutdown, producer>>
vars == <<queue, completion, rows, phase, loop, session, conn, permits,
          shutdown, producer, faults>>

Running == {"prepare", "insert", "publish", "sending", "succeeded", "failed"}
Active == Running \union {"buffered", "held"}
Sent == {"ack_sent", "nack_sent"}
Closed == {"none", "acked", "nacked", "lost", "dropped", "dead"}

TypeOK ==
    /\ queue \in [Tasks -> {"absent", "ready", "unacked", "acked", "discarded"}]
    /\ completion \in [Sessions -> [Tasks -> {"none", "wire", "queued", "lost"}]]
    /\ rows \in [Sessions -> SUBSET Tasks]
    /\ phase \in [Sessions -> [Tasks -> Active \union Sent \union Closed]]
    /\ loop \in {"down", "top", "connecting", "select", "acquire",
                 "stopping", "restarting", "backoff"}
    /\ session \in 0 .. MaxFaults + 1
    /\ conn \in {"none", "live", "lost"}
    /\ permits \in Nat
    /\ shutdown \in BOOLEAN
    /\ producer \in {"open", "closed"}
    /\ faults \in 0 .. MaxFaults

Init ==
    /\ queue = [m \in Tasks |-> "absent"]
    /\ completion = [s \in Sessions |-> [m \in Tasks |-> "none"]]
    /\ rows = [s \in Sessions |-> {}]
    /\ phase = [s \in Sessions |-> [m \in Tasks |-> "none"]]
    /\ loop = "down"
    /\ session = 0
    /\ conn = "none"
    /\ permits = MaxTasks
    /\ shutdown = FALSE
    /\ producer = "closed"
    /\ faults = 0

-----------------------------------------------------------------------------
(* Shorthands: the deliveries of the current session.                      *)

Phase(m) == IF session = 0 THEN "none" ELSE phase[session][m]
Move(m, p) == phase' = [phase EXCEPT ![session][m] = p]
RunningTasks == {m \in Tasks : Phase(m) \in Running}
Idle == RunningTasks = {}
NoneBuffered == \A m \in Tasks : Phase(m) # "buffered"

\* A settlement is a frame: it leaves on a live channel, and is lost (the error
\* is only logged) on a dead one.
SettleFrame(p) == IF conn = "live" THEN p ELSE "lost"

\* The broker sees the consumer connection end: what it has not settled is
\* ready again.
Requeued == [m \in Tasks |-> IF queue[m] = "unacked" THEN "ready" ELSE queue[m]]

\* What a session end makes of a delivery: settlements on their way are lost;
\* with the stream dropped, so is what it had buffered; when the process dies,
\* so is everything it was working on.
Cut(p) == IF p \in Sent THEN "lost" ELSE p
CutAndDropped(p) == IF p = "buffered" THEN "dropped" ELSE Cut(p)
CutAndKilled(p) == IF p \in Active \ {"buffered"} THEN "dead" ELSE CutAndDropped(p)
EndDeliveries(Fate(_)) ==
    phase' = [s \in Sessions |->
                 IF s = session THEN [m \in Tasks |-> Fate(phase[s][m])] ELSE phase[s]]

\* Completion messages the producer handed over and the broker has not queued.
OnWire == {d \in Sessions \X Tasks : completion[d[1]][d[2]] = "wire"}
LoseCompletions(gone) ==
    completion' = [s \in Sessions |-> [m \in Tasks |->
                      IF <<s, m>> \in gone THEN "lost" ELSE completion[s][m]]]

\* The process is gone, with any part of what the producer still had to send.
ProcessEnds ==
    /\ loop' = "down"
    /\ producer' = "closed"
    /\ \E gone \in SUBSET OnWire : LoseCompletions(gone)

-----------------------------------------------------------------------------
(* The broker.  consume_queue is durable and this process its only         *)
(* consumer.                                                               *)

Submit(m) ==
    /\ queue[m] = "absent"
    /\ queue' = [queue EXCEPT ![m] = "ready"]
    /\ UNCHANGED <<completion, rows, phase, process, faults>>

\* It pushes a ready message while fewer than Prefetch are unsettled.
Push(m) ==
    /\ conn = "live"
    /\ queue[m] = "ready"
    /\ Cardinality({n \in Tasks : queue[n] = "unacked"}) < Prefetch
    /\ queue' = [queue EXCEPT ![m] = "unacked"]
    /\ Move(m, "buffered")
    /\ UNCHANGED <<completion, rows, process, faults>>

\* An ack or a nack(requeue = false) reaches it.
Settlement(m) ==
    /\ Phase(m) \in Sent
    /\ queue' = [queue EXCEPT ![m] = IF Phase(m) = "ack_sent" THEN "acked" ELSE "discarded"]
    /\ Move(m, IF Phase(m) = "ack_sent" THEN "acked" ELSE "nacked")
    /\ UNCHANGED <<completion, rows, process, faults>>

DeliverCompletion(s, m) ==
    /\ completion[s][m] = "wire"
    /\ completion' = [completion EXCEPT ![s][m] = "queued"]
    /\ UNCHANGED <<queue, rows, phase, process, faults>>

-----------------------------------------------------------------------------
(* Faults.                                                                 *)

Fault(kind) ==
    /\ kind \in Faults
    /\ faults < MaxFaults
    /\ faults' = faults + 1

\* The consumer's connection breaks.  Deliveries already buffered stay in the
\* stream, in front of its error, and running tasks go on.
ConsumerLost ==
    /\ Fault("consumer")
    /\ conn = "live"
    /\ conn' = "lost"
    /\ queue' = Requeued
    /\ EndDeliveries(Cut)
    /\ UNCHANGED <<completion, rows, loop, session, permits, shutdown, producer>>

\* The producer's connection breaks: what it had sent is lost.
ProducerLost ==
    /\ Fault("producer")
    /\ producer = "open"
    /\ producer' = "closed"
    /\ LoseCompletions(OnWire)
    /\ UNCHANGED <<queue, rows, phase, loop, session, conn, permits, shutdown>>

\* The broker restarts: both connections break.  The queues are durable and the
\* completion messages persistent, so what they hold survives.
BrokerRestart ==
    /\ Fault("broker")
    /\ producer' = "closed"
    /\ LoseCompletions(OnWire)
    /\ conn' = IF conn = "live" THEN "lost" ELSE conn
    /\ queue' = Requeued
    /\ EndDeliveries(Cut)
    /\ UNCHANGED <<rows, loop, session, permits, shutdown>>

\* The signal task of main sends TRUE, once.
Signal ==
    /\ Fault("signal")
    /\ loop # "down"
    /\ ~shutdown
    /\ shutdown' = TRUE
    /\ UNCHANGED <<broker, rows, phase, loop, session, conn, permits, producer>>

Crash ==
    /\ Fault("crash")
    /\ loop # "down"
    /\ ProcessEnds
    /\ conn' = "none"
    /\ queue' = Requeued
    /\ EndDeliveries(CutAndKilled)
    /\ UNCHANGED <<rows, session, permits, shutdown>>

-----------------------------------------------------------------------------
(* main::run and MqConsumer::run.                                          *)

\* A new process: the producer connects before the consumer starts (when it
\* cannot, the process exits and is started again).
Start ==
    /\ loop = "down"
    /\ loop' = "top"
    /\ permits' = MaxTasks
    /\ shutdown' = FALSE
    /\ producer' = "open"
    /\ UNCHANGED <<broker, rows, phase, session, conn, faults>>

\* The head of the loop.
CheckShutdown ==
    /\ loop = "top"
    /\ \/ shutdown /\ ProcessEnds
       \/ ~shutdown /\ loop' = "connecting" /\ UNCHANGED <<producer, completion>>
    /\ UNCHANGED <<queue, rows, phase, session, conn, permits, shutdown, faults>>

\* connect, create_channel, basic_qos, queue_declare, basic_consume.
Connected ==
    /\ loop = "connecting"
    /\ loop' = "select"
    /\ session' = session + 1
    /\ conn' = "live"
    /\ UNCHANGED <<broker, rows, phase, permits, shutdown, producer, faults>>

ConnectFailed ==
    /\ loop = "connecting"
    /\ loop' = "backoff"
    /\ UNCHANGED <<broker, rows, phase, session, conn, permits, shutdown, producer, faults>>

\* wait_before_reconnect: the delay elapses, or the shutdown signal ends it.
BackoffElapsed ==
    /\ loop = "backoff"
    /\ loop' = "top"
    /\ UNCHANGED <<broker, rows, phase, session, conn, permits, shutdown, producer, faults>>

BackoffShutdown ==
    /\ loop = "backoff"
    /\ shutdown
    /\ ProcessEnds
    /\ UNCHANGED <<queue, rows, phase, session, conn, permits, shutdown, faults>>

-----------------------------------------------------------------------------
(* consume_loop.  Its select! takes either branch when both are ready.     *)

\* Mutant: the loop listens to its stream only.
SelectDeaf == FALSE

SelectShutdown ==
    /\ loop = "select"
    /\ shutdown
    /\ loop' = "stopping"
    /\ UNCHANGED <<broker, rows, phase, session, conn, permits, shutdown, producer, faults>>

TakeTask(m) ==
    /\ loop = "select"
    /\ Phase(m) = "buffered"
    /\ m \notin Malformed
    /\ Move(m, "held")
    /\ loop' = "acquire"
    /\ UNCHANGED <<broker, rows, session, conn, permits, shutdown, producer, faults>>

TakeMalformed(m) ==
    /\ loop = "select"
    /\ Phase(m) = "buffered"
    /\ m \in Malformed
    /\ Move(m, SettleFrame("nack_sent"))
    /\ UNCHANGED <<broker, rows, process, faults>>

\* Mutant: an error of the stream is skipped like a bad message.
StreamErrorSkipped == loop = "select" /\ conn = "lost" /\ NoneBuffered /\ UNCHANGED vars

\* The stream yields its error, or its end, behind the buffered deliveries.
SessionEnded ==
    /\ loop = "select"
    /\ conn = "lost"
    /\ NoneBuffered
    /\ loop' = "restarting"
    /\ UNCHANGED <<broker, rows, phase, session, conn, permits, shutdown, producer, faults>>

\* acquire_owned returns and the task is spawned: nothing else is listened to
\* while the loop waits here.
AcquirePermit(m) ==
    /\ loop = "acquire"
    /\ Phase(m) = "held"
    /\ permits > 0
    /\ permits' = permits - 1
    /\ Move(m, "prepare")
    /\ loop' = "select"
    /\ UNCHANGED <<broker, rows, session, conn, shutdown, producer, faults>>

\* consume_loop returns, connection and channel are dropped; nobody waits for
\* what they had still to send.
EndSession ==
    /\ loop \in {"stopping", "restarting"}
    /\ conn' = "none"
    /\ queue' = Requeued
    /\ EndDeliveries(CutAndDropped)
    /\ \/ loop = "stopping" /\ ProcessEnds
       \/ /\ loop = "restarting"
          /\ loop' = "backoff"
          /\ UNCHANGED <<producer, completion>>
    /\ UNCHANGED <<rows, session, permits, shutdown, faults>>

\* Not before join_next has drained the in-flight tasks.
CloseSession == Idle /\ EndSession

-----------------------------------------------------------------------------
(* A spawned task: TaskProcessor::process, then the settlement.            *)

\* Mutant: the completion is published first and the rows are never written.
PrepareThenPublish(m) ==
    /\ Phase(m) = "prepare"
    /\ Move(m, "publish")
    /\ UNCHANGED <<broker, rows, process, faults>>

\* The script is fetched and its scenes are processed (LLM calls included).
Prepare(m) ==
    /\ Phase(m) = "prepare"
    /\ \/ Move(m, "insert")
       \/ "prepare" \in Failing /\ Move(m, "failed")
    /\ UNCHANGED <<broker, rows, process, faults>>

\* batch_insert_prompts commits its transaction.
Insert(m) ==
    /\ Phase(m) = "insert"
    /\ Move(m, "publish")
    /\ rows' = [rows EXCEPT ![session] = @ \union {m}]
    /\ UNCHANGED <<broker, process, faults>>

\* It returns an error; when that came from the commit, the rows may be stored.
InsertFailed(m) ==
    /\ Phase(m) = "insert"
    /\ "insert" \in Failing
    /\ Move(m, "failed")
    /\ \/ UNCHANGED rows
       \/ rows' = [rows EXCEPT ![session] = @ \union {m}]
    /\ UNCHANGED <<broker, process, faults>>

\* The first await of basic_publish: the frame is handed to the connection, or
\* refused because the channel is closed.
Publish(m) ==
    /\ Phase(m) = "publish"
    /\ IF producer = "open"
       THEN /\ Move(m, "sending")
            /\ completion' = [completion EXCEPT ![session][m] = "wire"]
       ELSE /\ Move(m, "failed")
            /\ UNCHANGED completion
    /\ UNCHANGED <<queue, rows, process, faults>>

\* The second await.  confirm_select was never called, so the "confirmation" is
\* there at once and says nothing about the broker; only a connection that broke
\* meanwhile may turn it into an error.
Published(m) ==
    /\ Phase(m) = "sending"
    /\ \/ Move(m, "succeeded")
       \/ producer = "closed" /\ Move(m, "failed")
    /\ UNCHANGED <<broker, rows, process, faults>>

\* Mutant: a failed task is acknowledged too.
SettleAlwaysAcks(m) ==
    /\ Phase(m) \in {"succeeded", "failed"}
    /\ Move(m, SettleFrame("ack_sent"))
    /\ permits' = permits + 1
    /\ UNCHANGED <<broker, rows, loop, session, conn, shutdown, producer, faults>>

\* Mutant: a failed task keeps its permit.
SettleLeaks(m) ==
    /\ \/ /\ Phase(m) = "succeeded"
          /\ Move(m, SettleFrame("ack_sent"))
          /\ permits' = permits + 1
       \/ Phase(m) = "failed" /\ Move(m, SettleFrame("nack_sent")) /\ UNCHANGED permits
    /\ UNCHANGED <<broker, rows, loop, session, conn, shutdown, producer, faults>>

\* basic_ack or basic_nack; the task ends and drops its permit.
Settle(m) ==
    /\ \/ Phase(m) = "succeeded" /\ Move(m, SettleFrame("ack_sent"))
       \/ Phase(m) = "failed" /\ Move(m, SettleFrame("nack_sent"))
    /\ permits' = permits + 1
    /\ UNCHANGED <<broker, rows, loop, session, conn, shutdown, producer, faults>>

-----------------------------------------------------------------------------
External ==
    \/ \E m \in Tasks : Submit(m) \/ Push(m) \/ Settlement(m)
    \/ \E s \in Sessions, m \in Tasks : DeliverCompletion(s, m)

AnyFault == ConsumerLost \/ ProducerLost \/ BrokerRestart \/ Signal \/ Crash

ConsumerStep ==
    \/ CheckShutdown \/ BackoffElapsed \/ BackoffShutdown
    \/ SelectShutdown \/ SessionEnded \/ CloseSession
    \/ \E m \in Tasks : TakeTask(m) \/ TakeMalformed(m) \/ AcquirePermit(m)

TaskStep(m) ==
    \/ Prepare(m) \/ Insert(m) \/ InsertFailed(m)
    \/ Publish(m) \/ Published(m) \/ Settle(m)

Next ==
    \/ External
    \/ AnyFault
    \/ Start \/ Connected \/ ConnectFailed
    \/ ConsumerStep
    \/ \E m \in Tasks : TaskStep(m)

\* The tokio scheduler runs what is ready; the databases and the LLM answer or
\* fail; the broker pushes and applies frames; a stopped process is started
\* again; the broker, tried again and again, is reachable at last.
Fairness ==
    /\ WF_vars(Start) /\ WF_vars(ConsumerStep) /\ SF_vars(Connected)
    /\ \A m \in Tasks : /\ WF_vars(TaskStep(m))
                        /\ WF_vars(Push(m)) /\ WF_vars(Settlement(m))

Spec == Init /\ [][Next]_vars
FairSpec == Spec /\ Fairness
=============================================================================
