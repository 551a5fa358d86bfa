# Verification of the media prompt service

TLA+ models of the Rust service in `src/backend`, checked with TLC, and theorems
about them, proved with TLAPS. Paths below are relative to `src/backend/src`
unless they start with another directory of the repository.

The service takes task messages from a RabbitMQ queue, fetches the script of the
task from MongoDB, has an LLM write the prompts of every scene and storyboard,
stores them in MySQL in one transaction, sends a completion message to a second
queue and acknowledges the task; a task that fails is discarded.

## 1. Inventory

| Component | State it keeps | Operations | Talks to |
|---|---|---|---|
| consumer (`mq/consumer.rs`) | loop position, session (connection, channel, stream), reconnect attempt, in-flight tasks | `run`, `connect_and_consume`, `consume_loop`, `wait_before_reconnect`, spawned tasks | broker (deliveries, acks), task semaphore, shutdown channel, pipeline |
| producer (`mq/producer.rs`) | one channel, opened at start | `connect`, `publish_completion`, `check_publish_queue` | broker, pipeline, readiness probe |
| pipeline (`task/*.rs`) | the rows generated so far | `process`, `process_scene`, `process_storyboard` | MongoDB, LLM client, MySQL, producer |
| LLM client (`llm/client.rs`) | LLM semaphore; per call: attempt, retries, last error | `generate`, `do_request` | LLM over HTTP, pipeline |
| LLM adapters (`llm/types.rs`) | none | `build_request`, `parse_response`, `build_system_prompt` | LLM client |
| repositories (`db/*.rs`) | connection pools | `find_script_by_task_id`, `batch_insert_prompts`, pings | databases |
| process (`main.rs`) | semaphores, shutdown channel | `run`, signal task | everything |
| configuration (`config.rs`) | none after start | `load`, `validate`, `substitute_env_vars` | process |
| HTTP server (`server/mod.rs`, `handler.rs`) | listener | routes, mock LLM, graceful stop | rate limiter, health, metrics |
| rate limiter (`server/rate_limit.rs`) | a bucket per address | `allow`, `evict_idle` | HTTP server |
| health and metrics (`server/state.rs`) | atomic counters | `check`, `render_prometheus` | databases, broker, producer |

What makes them correct:

* **Consumer, producer, pipeline together**: a message that was acknowledged was
  stored and announced by the attempt that was acknowledged; no task is worked on
  twice at once although the broker redelivers when a session dies; permits of the
  task semaphore survive sessions; every message is settled; a shutdown ends the
  process.
* **Pipeline**: all of a result or nothing is stored; it is announced only then;
  prompts are generated in an order in which everything quoted exists; a failing
  storyboard is cut short, recorded, and costs nobody else.
* **LLM client**: at most `max_llm_requests` calls between first request and
  return, each permit returned exactly once; the retry policy; every call returns.
* **Rate limiter**: in any interval an address gets no more than a full bucket and the
  refill; the map forgets who stays away; `Retry-After` is true.
* **Health checks**: "ok" means that every dependency was up during this check; a check
  during which all were up says so; every check is answered.
* **HTTP server and metrics**: between requests the counters are the tally of what was
  answered and of what clients gave up during a health check; no counter falls from one scrape
  to the next; a scrape shows more failed checks than checks only by what failed meanwhile; no
  gauge is older than a whole check; requests under way when the process ends are dropped
  (section 3).
* **Demo configuration**: a prompt that meets the service as its own LLM fails only when the
  limiter or the shutdown forces it to; the tasks drain all the same, even if the service
  never gets its port.
* **Configuration and adapters**: each placeholder is replaced once and no value is taken
  for one; both adapters read an answer the same way, and report the token count in it.

The hard behaviours are interleavings (tasks of a dead session against the
redelivery of their messages; a loop that listens to nothing while it waits for a
permit), lost connections and lost frames, crashes between commit, publish and
acknowledgement, a shutdown at any moment, and retries that hold a shared permit.
`PROJECT.json` lists each with its line under "hazards".

## 2. Modules

```
AtLeastOnce              what the service promises for each message
   ^ implemented by
TaskDelivery             broker + consumer + task semaphore + producer + process
   |- TaskDeliveryProperties   properties, inductive invariant, refinement
   |- MCTaskDelivery           instances for TLC
   '- TaskDelivery_proofs      theorems
        one attempt at a task is summed up by
TaskAttempt
   ^ implemented by
Pipeline                 one run of process: script, prompts, transaction, message
   |- MCPipeline, Pipeline_proofs
        one LLM call of it is
LlmClient                the calls of generate and the semaphore they share
   |- MCLlmClient, LlmClient_proofs
   '- DemoMode           LlmClient against the mock LLM of its own HTTP server:
                         limiter, server and shutdown composed with the calls
                         (MCDemoMode; theorems in LlmClient_proofs)

RunLoop                  what the loop of run promises about stopping
   ^ implemented by
ConsumerRun              reconnect delays in their widths, and the watch channel
   '- MCConsumerRun, ConsumerRun_proofs

RateLimiter              allow and evict_idle, clock and lock apart
   '- MCRateLimiter, RateLimiter_proofs
HealthCheck              one check of five dependencies, with the publish channel
   '- MCHealthCheck, HealthCheck_proofs
HttpServer               requests, counters, scrapes, gauges, shutdown
   '- MCHttpServer, HttpServer_proofs
EnvSubstitution          placeholders of the configuration file
LlmResponse              parse_response of the two adapters
   |- MCTexts            both: a behaviour is about one of the two texts
   '- Texts_proofs       theorems about each of them
```

Most of the modules contain operators marked "Mutant": a definition as a bug might have
left it. No run and no proof uses them; each shows that a property would notice.

### TaskDelivery

| Model | Code |
|---|---|
| `loop` = `top`, `connecting`, `backoff` | `run`, consumer.rs 46-90; `connect_and_consume` 92-130; `wait_before_reconnect` 143-159 |
| `loop` = `select`, `acquire` | the `select!` of `consume_loop` 166, and `acquire_owned` 193 |
| `loop` = `stopping`, `restarting` | the drain 246-253, with exit `Shutdown` or `Reconnect` |
| `session`, `conn` | `_conn` and `channel` of `connect_and_consume` |
| `phase[s][m]` | one delivery: `buffered` in the stream, `held` by the loop, `prepare` .. `failed` in the spawned task 210-231, then the settlement |
| `permits` | `task_semaphore`, created by main.rs 56, shared by all sessions |
| `shutdown` | the watch channel of main.rs 87. `consume_loop` clones a receiver that has seen nothing, so a signal sent before the session started is seen too |
| `producer`, `completion` | the channel of `MqProducer` and the messages published on it |
| `queue` | `consume_queue` as the broker has it |
| `rows[s]` | tasks whose transaction committed in session `s` |

Each await at which something else can happen separates two actions. `Prepare`
sums up everything before the transaction and `Insert` the transaction;
`Pipeline` refines both. `Publish` and `Published` are the two awaits of
`basic_publish(..).await?.await?`.

Outside `src/`, taken from how the code uses it and from AMQP: the broker pushes
at most `prefetch_count` unsettled messages, in any order; when the consumer's
connection ends it makes all unsettled messages ready again; a settlement is a
frame that a broken connection loses, and dropping a lapin connection does not
wait for its frames; lapin (2.x, without recovery) hands out the deliveries it has
buffered before it yields the error of the stream; without `confirm_select` the
confirmation future of `basic_publish` is ready at once. The queues are durable
and the messages persistent (delivery mode 2), so a broker restart loses neither.
One instance of the service consumes the queue.

A delivery is named by session and message. That is enough because a session
never gets a message twice: the code nacks with `requeue: false` only, so the
broker requeues only when the session ends.

### Pipeline

A script is the sequence of the numbers of storyboards of its scenes. One action
per LLM call and per statement of the transaction; each call, statement and
message may fail. The content of a prompt is its type; the rows carry what the
table keeps of position, type and status. A commit may fail with the rows stored
(`CommitUnknown`). `TaskAttempt` is the same run as TaskDelivery sees it.

### LlmClient

`Calls` calls share the semaphore of `max_llm_requests` permits; tokio's semaphore
is fair, so waiters are a queue. Five classes of failure: no response, a 2xx body
that breaks off, a body that does not parse, a 4xx, any other status (a 3xx is
retried like a 5xx by the code's last branch). The HTTP client has a timeout, so a
request is always answered.

### ConsumerRun

`run`, `reconnect_backoff` and `wait_before_reconnect` with a session as one step.
`Increment` and `Times` saturate at `U32Max` and `U64Max`; the shift stops at 16. The watch
channel is a version and, for each receiver, the version it has seen: `run` keeps one
receiver, `consume_loop` clones one that has seen nothing (the consumer's own is never
awaited). A signal task that ends without sending drops the sender (main.rs 141-142, where
`expect` may panic); `changed()` then fails. `RunLoop` is the same loop with a flag `asked`.

### RateLimiter

Each request is two steps, since `allow` reads the clock (36) before it takes the lock (37):
`Arrive` and `Allow`; `evict_idle` likewise is `SweepStart` and `EvictIdle`. Time is
discrete, tokens are multiples of `1/Unit`; `duration_since` of an earlier instant is zero,
as it is in std since Rust 1.60. `watched`, `from`, `newest`, `regress` and `admitted`
observe one client from an arbitrary moment on and feed back into nothing.

### HealthCheck

A request starts all its checks at once (`tokio::join!`) and each of them ends with an answer
or at the timeout. One timer serves all checks of a request, since they start in the same
poll; what a check found out is dropped with it (`Forget`). `ProbeAnswers` is
`check_publish_queue` on the channel of `MqProducer`: a missing queue closes it, as AMQP 0-9-1
has it for a failed passive declaration. A client may hang up at any moment of the check
(`HangUp`, handler.rs 71). That, like a timeout, drops the future of the declaration but not
the declaration, whose answer still comes to the channel (`orphan`, `OrphanAnswers`); whether
it was sent before it was dropped is the same as no answer coming. `seenUp` and `steady`
observe. `Tick` passes only while nothing else can answer, which makes a slow answer a
silent dependency.

### HttpServer

Each access to an atomic is one step; the orderings are `Relaxed`, and since each property
speaks of one counter at a time, or of a state in which every handler is done, or of
requests of which one was answered before the other arrived, interleaving the accesses is
enough. What the limiter and a health check decide is free. `ProcessEnds` is main.rs
116-119 and the end of the runtime. `HangUp` is a client that closes its connection: hyper
(0.14, not told to keep a connection half-open, server/mod.rs 115-118) then drops the future of
the handler where it waits, which is only at `state.check().await` (handler.rs 71), after the
request was counted and before the check is; such a request stays `abandoned`. `before` and
`setter` observe.

### DemoMode

EXTENDS LlmClient: the outcome of a request is no longer free but given by the bucket of
127.0.0.1 and by the state of the server. main.rs 95 spawns the server and goes on, so the
first requests may come before `Bind`, and `Bind` may fail, which is only logged (server/mod.rs
109): then nobody answers at the port, or whoever holds it does, as it likes (`Strays`).
`OtherRequest` is whatever else comes from that address, a probe, a scrape or a request by
hand, and is charged to the same bucket (server/mod.rs 82). A task has one storyboard, so its
prompts come one after the other and the first failure is its last. Assumed: while the server
listens, the connection to the own process does not fail, and once it has closed nobody else
takes the port before the drain is over. `others` and `strayed` observe: the requests of
others that were admitted, and the calls that sent a request to the port while it was not
the server's.

### EnvSubstitution, LlmResponse

A text is a sequence of characters, with three that matter (`$`, `{`, `}`) and others; a
character stands for its bytes, since the search is for ASCII. A response body is a record of what the adapters look
for, each part present, missing or of a wrong type; blank is one string, and the counts
have `Bits` bits next to wider numbers. `Answers` are all answers of that shape, with any
number of parts and any strings; a run takes some of them as `Bodies` (`AnswerScope`).

## 3. Runs

| Run | Instance | Shows |
|---|---|---|
| `safety` | 2 tasks + 1 malformed message, 2 permits, prefetch 2, any 1 fault, any step failing | inductive invariant, acknowledged work is done, exclusive attempts, redelivery only after a loss, permits accounted; TaskDelivery implements AtLeastOnce |
| `settles` | 2 tasks, 1 permit, prefetch 2, 2 faults among lost connections and signals, databases and LLM in order | every queued message is settled; shutdown ends the process; tasks are completed unless the producer has lost its channel |
| `broker_restart` | 2 tasks, 1 broker restart | **violated**: the producer never reconnects |
| `lost_completion` | 1 task, 1 lost producer connection | **violated**: acknowledged, announced to nobody |
| `retries` | 3 calls, 2 permits, 2 retries | permits held and returned, retry policy, reported retries; every call returns |
| `results` | 6 scripts of 1 or 2 scenes, 0 to 2 storyboards, chunks of 3 rows | complete results or none, quotes available, failures counted, runs end, runs are attempts |
| `reconnects` | delays 3 .. 90000 ms, attempts up to 20, products up to 98303 | the delays double up to the cap and start over; `run` implements RunLoop, stopping included |
| `limiter` | 1 client, 2 threads, burst 2, half a token a tick, 10 ticks | admissions bounded, idle clients forgotten, `Retry-After` true |
| `health` | 2 requests, the downstream queue and one more dependency, timeout 1, the queue may be deleted, clients may hang up | an "ok" is true; a steady check with an open channel is "ok"; every check ends |
| `http` | 3 requests for readiness, metrics, the mock LLM or no route, clients that hang up, a signal | the counters are the tally of answers and hang-ups; scrapes never fall; failures shown are checks shown, or new; gauges are fresh |
| `demo` | 2 tasks of 2 prompts, burst 2, 1 request of others, 1 retry, a port that may be taken, a signal | prompts that met the server fail only when limiter or shutdown force it; the drain ends |
| `texts` | every file of up to 5 characters, a placeholder with up to 4 behind it, 5 environments; answers with each combination of one own text, two choices, token counts | the loop computes the expansion and ends; counts are those of the answer; the adapters agree |

Why the bounds are enough. In `safety` two permits give two tasks at once; prefetch 2 gives
deliveries still buffered when the session dies; a malformed message next to a task exercises
the nack inside the loop; one fault, at any step, gives a second session or process, and the
theorems remove the bound for every property of this run. In `settles` two tasks and one permit
give the loop that waits for a permit behind a running task, and two faults a redelivery that
is cut again, a shutdown while a lost session is drained, or a producer that is dead when the
session is lost. Crashes are in `safety` only: after one the process starts as it does after a
shutdown, and two of them beside two tasks make the liveness check too large. Three calls for
two permits queue. Chunks of 3 rows make results of
one chunk, of full chunks only and of a last short chunk: the code's 100 is only larger.

In `reconnects`, 20 attempts go beyond the shift of 16 and 98303 is below 3 * 65536, so
counter, shift, product and cap all saturate. Ten ticks of `limiter` contain an idle period,
two sweeps and a burst after them; two threads are what it takes to overtake, and clients share
nothing but the lock. In `health` one other dependency stands for four that are checked alike,
and two requests share the channel; the timeout of one tick is a moment at which nothing else
can answer. Three requests of `http` are a scrape, a writer and a later scrape, or three checks
that write the same gauges; `/healthz` differs from `/readyz` in its own counter only. Burst 2
under 4 prompts and one request of others is the 60 under hundreds; a server that is late, or
never there, is in every instance. The constants of the code
(60 + 10/s, 600 s idle, 300 s sweeps, 3 s timeout, 1 s `Retry-After`) satisfy the assumptions
of the theorems, which need no bounds.

`MaxFaults` bounds the faults, and with them the sessions, of a behaviour, `MaxTime` the clock
of RateLimiter, `MaxOthers` the requests of others in DemoMode; they are the only bounds that are not a limit of the code or a choice of
inputs. Symmetry is used over tasks, threads and requests, in runs without liveness properties
only. Deadlock is not checked because each instance ends: all messages settled, all calls
returned, the process stopped. The type invariants of TaskDelivery (inside `IInv`), LlmClient
and Pipeline are checked by their runs; those of the other modules with proofs are theorems.

The two runs with expectation "violation" state what the repository says of itself:

* `broker_restart`: `scripts/e2e_full_test.sh:394-398` restarts RabbitMQ and expects
  the service to become healthy and to complete a new task. The producer's channel
  (producer.rs 14, main.rs 53) stays dead, publishing fails and the task is
  discarded; `/healthz` stays degraded too, since its check of the downstream queue
  uses the same channel.
* `lost_completion`: `README.md:216` of the repository: on success send the message
  and acknowledge. The message can be lost without anybody noticing.

### Where the code keeps less than is said of it

The models show some more differences between the code and its words. They are visible in the
actions named here, and the properties say what is kept instead; there is no run for each.

| Said | Done | In the model |
|---|---|---|
| client.rs 50, `README.md:213`: network errors are retried | a 2xx body that breaks off is final (client.rs 185) | `"body"` is in `NetworkErrors` of LlmClient and not in `Retryable` |
| server/mod.rs 54: burst 60, then 10 a second | readings applied out of order credit time twice (rate_limit.rs 36, 46), by as much as a thread lags at the lock | `regress` in `AdmissionsBounded` of RateLimiter; what one overtaken request adds is bounded by theorem `BurstHoldsButForOvertaking` |
| `README.md:202`: 200 if everything is in order | the probe of a missing queue closes the channel of all completions (producer.rs 68); once the queue is back, reports stay degraded | `ProbeAnswers` of HealthCheck; `channel = "open"` in `SteadyIsOkWhileOpen` |
| state.rs 67, 70: duration and status of the last check | two stores (handler.rs 82-91): two concurrent checks may leave the duration of one by the status of the other | `StoreDuration` and `StoreOk` of HttpServer are two steps |
| state.rs 43: total HTTP requests | requests answered with 429 or 413 are not counted (handler.rs 25-31); one whose client hangs up during the check (handler.rs 71) is, and for its route, but never as a check | `TallyIsRight` counts the others, `Abandoned` those |
| state.rs 61, 64: checks, and failed checks | a scrape reads the first before the second (state.rs 76-88), so it may show more failed ones than there are | the last term of `FailuresAreChecks` |
| server/mod.rs 29: graceful shutdown | main.rs 119 ends the process when the consumer is done, whatever the server is answering | `ProcessEnds` of HttpServer |
| `README.md:103`: the demo runs through | its LLM calls share the bucket of 127.0.0.1 with each other and with probes and scrapes, and a 429 is final (client.rs 203) | first case of `FailsOnlyWhenDue` |
| the same | if the port is taken, that is only logged (server/mod.rs 109), and the prompts go to whoever has it | `Bind` and `Strays` of DemoMode; `strayed` in `FailsOnlyWhenDue` |
| consumer.rs 45: blocks until in-flight tasks complete | in the demo the LLM of these tasks closes at the same signal (server/mod.rs 120) | second case of `FailsOnlyWhenDue` |

## 4. Fairness

`FairSpec` of TaskDelivery assumes, besides `Spec`:

* weak fairness of the loop and of each task: tokio runs what is ready, and each
  await of a task ends (the LLM client has a timeout and finitely many retries, see
  `CallsReturn` and `RunEnds`; the databases answer or fail);
* weak fairness of `Push` and `Settlement` for each message: a live broker delivers
  and takes frames;
* weak fairness of `Start`: `restart: unless-stopped` in `docker-compose.yml`
  starts the process again;
* strong fairness of `Connected`: the loop tries for ever, each attempt may fail, but
  the broker is not unreachable at every attempt. Weak fairness would say nothing,
  as the backoff disables the step between the attempts.

Not assumed: that the signal comes, that the producer's messages arrive, which branch
`select!` takes, that a fault happens. `LlmClient` assumes weak fairness of each
call, and the queue of the semaphore does the rest; `Pipeline` of the run.

`ConsumerRun`: weak fairness of the loop; strong fairness of the branch that sees the signal,
because sessions and waits may end before it is taken, and `select!` chooses at random among
what is ready, so a signal that is ready again and again is not passed over for ever.
`HealthCheck`: strong fairness of each request's steps (an answer that has arrived stays in
the socket until it is polled, even if the dependency has fallen silent since) and of the
clock (requests that keep starting do not stop time). `DemoMode`: weak fairness of each call
and of the server's stop; not of `Refill`, as nobody promises that the bucket refills in time.

## 5. Proofs

All for arbitrary constants (any finite set of messages, any limits, any faults).

**TaskDelivery_proofs.** None of the safety properties is inductive. `IInv` adds what
they rest on:

* `Control`: loop, connection and session agree; a session beyond the number of
  faults so far is live (so the bound on sessions is never hit);
* `OnlyCurrent`: work in progress belongs to the current session, and the loop holds
  at most one delivery, only while it waits for a permit;
* `QueueMatches`: a message is unacked at the broker exactly when the live session
  has it in progress, and ready when a lost session still works on it. This is where
  the drain matters: without it `Connected` would break it;
* `SettledOnce`, `Evidence`, `AckedHasAttempt`: what is settled was settled by one
  delivery, and a delivery past `insert`, past `publish` has its rows, its message;
* `RedeliveryNeedsLoss` itself.

`Invariance` has one lemma per action. Most actions need only one of two frames:
`Quiet` steps leave the deliveries alone (`QuietKeeps`), `Advance` steps move one
delivery on (`AdvanceKeeps`). The remaining ones, at which the broker acts or the
session is cut, are proved conjunct by conjunct. From `Invariance` follow
`TypeCorrect`, `AckedIsDone`, `AttemptsAreExclusive`, `RedeliveriesNeedLoss`, and,
with the refinement mapping of `Promise` taken action by action, `PromiseKept`
(the whole of `KeepsPromise`, which is safety only). `PermitsAreAccounted` adds one
invariant over the cardinality of the running tasks.

`NobodyIsStuck` is about deadlock: the guards of the steps of the loop, the broker and the
tasks, written out, since `ENABLED` is out of the prover's reach. Where none of them holds,
nothing runs, so by `PermitsAreAccounted` all permits are free, and by `HoldsOne` the loop
that waits for one has a delivery to take it for; nothing is unsettled, so the prefetch limit
keeps nothing back; what remains is the service at rest.

**LlmClient_proofs.** `Counters` relates attempt, retries and requests at each place
of the loop; `PermitsAreHeld` is again about a cardinality. `Queue` says that those who wait
stand in the queue, once each; with it either a permit is free for the first in
it or a holder goes on (`NobodyIsStuck`). `CallsRunOut` counts the steps that a call has left:
each step of it makes them fewer and leaves those of the others alone.

For DemoMode, `DemoRefinesClient` shows that a step of the demo is one of the client or none,
so the client's theorems hold in it. `DemoInv` adds what its failures rest on: a token is
taken only by a prompt that succeeds or by a request of others (`TokensTaken`), the server
closes only after the signal (`ClosedBySignal`), and for a call that never met another at the
port a refusal means that a burst has been taken already, a lost connection that the server
has closed (`FailuresHaveCause`). Calls in `strayed` are set apart, since nothing is known of
what answered them; a step outside the server's time puts the call there (`StrayKeeps`), and
`MoreIsEnough` says that neither later successes nor a growing `strayed` undoes a cause.

**Pipeline_proofs.** `Cursor` says that the position is in the script and that
`previous` is the part of the sequence that is behind it, `Store` what is in the
table at each stage. They give `TypeCorrect`, `QuotesAreAvailable` and
`RunsAreAttempts`, the implementation of TaskAttempt. `StoredResultsAreComplete` needs
`RowsInv`: while prompts are generated, no row is ahead of the cursor, the rows of the group
in work are a block at the end and the groups behind it are complete. Appending a row makes
one block longer and leaves the others alone (`BlockGrows`, `BlockKept`); what is left is where
the cursor goes. `AnnouncedResultsAreStored` follows from it, and `FailuresAreCounted` from
`FailInv`: every failed row lies behind the cursor, so the group in work has none yet. `RunsGoForward`
orders the places of a run: every step goes to a later stage or, within one, to a later prompt
of the script or a later chunk of the rows.

**ConsumerRun_proofs.** `LatestWait` ties the delay to the counter; the arithmetic is in
`FactorLow`, `FactorHigh` and `NextBackoff` (saturation commutes with doubling up to the
longest wait). `RunKeepsRunning` is the safety part of the refinement of RunLoop.

**RateLimiter_proofs.** `Timing` bounds where clock readings can be (`Past`, `Prompt`) and
says that each bucket has a sweep coming for it (`Scheduled`), which is `IdleIsForgotten`.
`AdmissionsAreBounded` is inductive only with the level of the bucket in it: what has been
admitted plus what the bucket still holds never exceeds what has flowed in. The two lemmas
`ReadingArithmetic` and `EvictionArithmetic` are the two ways in which a reading changes the
level; the second needs that a bucket fills while it idles (`Refill * MaxIdle >= Full`).
`BurstHoldsButForOvertaking` puts the bound as the documentation has it, up to now, with the
one exception the code makes, and says what the exception costs: only a request of the client
that was overtaken between clock and lock adds to it, and no more than `Lag`, the longest time
a thread stays there. `Lag` is any number below the idle time, not a claim that it is zero.

**HealthCheck_proofs.** `Witnessed`: what was found healthy was up during the check.
`Undisturbed`: while all dependencies have been up throughout, no tick has passed, so nothing
timed out, and only a closed channel can have made a result unhealthy. `Forgotten`: a check
begins with nothing found out. `Unreported`: a check under way has no report yet, so that one
that is dropped leaves none behind.

**HttpServer_proofs.** `ReadSoFar` (nobody has read more than there is), `LaterReadsMore` (a
finished scrape bounds a later one from below while it is still reading) and `SetLater` (a
gauge was last written by a check that was not over before this one began) are preserved by
any step that lets no counter fall and writes gauges in its own name (`HandlerStepKeeps`).

`CountersAreTheTally` speaks of moments at which no handler is at work; `TallyInv` says what a
counter stands for at any time: the requests that have passed the step that counts them.
A request whose client hung up has passed those of its route for good and the others never.
It rests on one step counting one request in the counters it touches (`TallyStep`,
`OwnRequestOnly`), and stops with the process, which drops requests that were counted. The sum
of the durations is a fold over a set of requests; it is the cardinality of a set of ticks,
one for each unit of each duration (`SumIsTicks`), and cardinalities the prover can add.

`FailuresShownAreChecks` rests on `TallyInv`, by which the checks are never fewer than the
failures, and on `FailInv`: the checks that a scrape has read are no fewer than the failures
answered before it arrived, and the failures it reads after them no more than those answered by
then (`ReadInOrder`). `EndsForAll`, the process ends for all requests at once, carries this to
states in which `TallyInv` says nothing any more.

**Texts_proofs.** For EnvSubstitution, `RestIsUntouched` is inductive with the types: a
replacement cuts off the front of what is still to be searched (`ReplaceStep`). Then
`PlaceholdersAreReplacedOnce`: `ExpansionInv` says that what has been searched, followed by the
expansion of the rest of the file, is the expansion of the file. The expansion is a recursive
function of the position; induction theorems that take an operator cannot be used, so that the
function exists (`FromExists`), is a text (`FromType`) and copies what is not a placeholder
(`Copied`) are each proved from a least counterexample (`LeastElement`), which is there because
< is well-founded. `NextPlaceholder` ties the search in the edited text to places in the file.

For LlmResponse the theorems hold for answers with any strings, any numbers and any number of
choices. `TokenCountsAreReported` rests on what the first of several parts is (`FirstInIsOne`),
`BothAdaptersAgree` on the list of texts that the simple adapter tries (`TextsAre`): if all but
the last are blank, the last is taken (`OnlyTextTaken`).

**Only model-checked**: the eight liveness properties, `EventuallySettled`, `ShutdownCompletes`,
`TasksSucceed`, `CallsReturn`, `RunEnds`, `NoSignalMissed`, `CheckEnds` and `DrainEnds`, since
liveness under fairness is out of the prover's reach. What is proved is part of the ground they
stand on: that there is always a step to take (`NobodyIsStuck` of TaskDelivery and of
LlmClient), that there are not infinitely many (`CallsRunOut`, `RunsGoForward`), that nothing but
a signal stops the loop (`RunKeepsRunning`); that fairness turns this into an end is not. Every
other property of a passing run is stated by a theorem.

Assumptions used: `ConfigValidated` and `LlmConfigValidated` (what `config.rs`
refuses), `ScopeAssumption`, `CallsFinite` and `PipelineScope` (the shape of the
constants); `DelaysAssumption` (what `config.rs` accepts of the delays, and widths that are
wide enough), `LimiterAssumption` (a bucket fills while it idles and gains a token while a
client waits as told; nobody waits at the lock for as long as it takes to idle),
`HealthAssumption`, `ServerAssumption`, `DemoAssumption`, `TextScope` and `AnswerScope` (shapes).

## 6. Plan

Done: everything that was planned: TaskDelivery with AtLeastOnce, Pipeline with TaskAttempt,
LlmClient, ConsumerRun with RunLoop, RateLimiter, HealthCheck, HttpServer, DemoMode,
EnvSubstitution, LlmResponse, and the proofs of section 5.

What could follow: measures that decrease, as in `CallsRunOut`, for HealthCheck, for the prompts
of a DemoMode task and for a session of TaskDelivery between two faults; a producer that loses
its queue in TaskDelivery, next to the one that loses its connection.

## 7. Not modelled

* `AppConfig::validate` beyond its numbers, and the YAML parser: they refuse a start, and
  nothing later depends on them. What it demands of numbers is assumed where it is used.
* `build_request`, the wording of prompts, the text of errors (`Display`, `From`), JSON and
  SQL texts, response headers, logging: no property speaks of them. The one conversion that
  matters, from response to text and token count, is LlmResponse.
* The lengths of the delays of `generate`: `1000 * 2^(attempt - 1)` with the at most 10 retries
  that the configuration admits cannot overflow; LlmClient has their number and order.
* The 5 s timeout for request headers, keep-alive and connection handling of hyper, the pools
  of the drivers, TLS: internals of libraries.
* Deployment, schema and the end-to-end script: not program state; quoted where a property
  rests on them (no unique key on the rows of a task, `restart: unless-stopped`).
