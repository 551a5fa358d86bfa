----------------------------- MODULE DemoMode -----------------------------
(***************************************************************************)
(* The service with config.demo.yaml: the LLM it calls is the /mock-llm    *)
(* route of its own HTTP server.  LlmClient's calls meet a server that may *)
(* not have got its port, a rate limiter whose bucket they share with all  *)
(* else that comes from 127.0.0.1, and a shutdown at which the server      *)
(* closes while the consumer still drains its tasks.                       *)
(***************************************************************************)
EXTENDS LlmClient

CONSTANTS Tasks,      \* the messages
          Prompts,    \* the prompts of each script, which has one storyboard
          Burst,      \* the capacity of the limiter
          MaxOthers,  \* bounds the requests of others from 127.0.0.1
          SignalMayCome

\* A task generates one prompt after the other; with one storyboard, the first prompt
\* that fails is its last.
ASSUME DemoAssumption ==
    /\ Prompts \in Nat \ {0}
    /\ Calls = Tasks \X (1 .. Prompts)
    /\ Burst \in Nat \ {0}
    /\ MaxOthers \in Nat
    /\ SignalMayCome \in BOOLEAN

VARIABLES
    server,     \* HttpServer::run
    tokens,     \* what the bucket of 127.0.0.1 holds, 0 .. Burst
    others,     \* the requests of others that the bucket has admitted
    signalled,  \* whether the shutdown signal has been sent
    strayed     \* the calls that sent a request to the port before it was the server's

service == <<server, tokens, others, signalled, strayed>>
demoVars == <<vars, service>>

\* main has spawned the server, and goes on to the consumer without waiting for it.
DemoInit ==
    /\ Init
    /\ server = "starting"
    /\ tokens = Burst
    /\ others = 0
    /\ signalled = FALSE
    /\ strayed = {}

Begun(t) == pc[<<t, 1>>] # "new"
Over(t) ==
    \/ \E n \in 1 .. Prompts : pc[<<t, n>>] = "failed"
    \/ pc[<<t, Prompts>>] = "ok"

-----------------------------------------------------------------------------
\* A port that cannot be had is logged, and the consumer runs on without its LLM.
Bind ==
    /\ server = "starting"
    /\ server' \in {"listening", "unbound"}
    /\ UNCHANGED <<vars, tokens, others, signalled, strayed>>

\* The next prompt of a task.  One that was taken before the signal, or by the loop's select!
\* in spite of it, may send its first request after it.
NextPrompt(c) ==
    /\ c[2] > 1 => pc[<<c[1], c[2] - 1>>] = "ok"
    /\ Acquire(c)
    /\ UNCHANGED service

ClientStep(c) ==
    /\ Granted(c) \/ Send(c) \/ BackoffElapsed(c)
    /\ UNCHANGED service

\* Mutant: two tokens are taken.
MockAnswersPaidTwice(c) ==
    /\ server = "listening" /\ tokens > 0
    /\ Succeeded(c)
    /\ tokens' = IF tokens > 1 THEN tokens - 2 ELSE 0
    /\ UNCHANGED <<server, others, signalled, strayed>>

\* The handler of /mock-llm awaits nothing: a request is admitted and answered at once.
MockAnswers(c) ==
    /\ server = "listening" /\ tokens > 0
    /\ Succeeded(c)
    /\ tokens' = tokens - 1
    /\ UNCHANGED <<server, others, signalled, strayed>>

\* 429 is a client error, which is not retried.
MockRefuses(c) ==
    /\ server = "listening" /\ tokens = 0
    /\ Refused(c, "client")
    /\ UNCHANGED service

\* Whatever else comes from the address is charged to the same bucket: a probe, a scrape, a
\* request by hand.  One that is refused leaves it alone.
OtherRequest ==
    /\ server = "listening" /\ tokens > 0
    /\ others < MaxOthers
    /\ tokens' = tokens - 1
    /\ others' = others + 1
    /\ UNCHANGED <<vars, server, signalled, strayed>>

\* Nobody listens at the port before the server has it, and for good if it never gets it, or
\* another program does and answers as it likes.
Strays(c) ==
    /\ server \in {"starting", "unbound"}
    /\ Succeeded(c) \/ \E e \in Errors : Refused(c, e) \/ Retry(c, e)
    /\ strayed' = strayed \union {c}
    /\ UNCHANGED <<server, tokens, others, signalled>>

\* Mutant: a refused connection is not counted as an attempt.
NoServerForever(c) ==
    /\ server = "closed"
    /\ pc[c] = "inflight"
    /\ Goto(c, "request")
    /\ sent' = [sent EXCEPT ![c] = @ - 1]
    /\ UNCHANGED <<waiting, permits, attempt, retries, last, service>>

\* The connection is refused, or closed as idle before the request is read.
NoServer(c) ==
    /\ server = "closed"
    /\ Retry(c, "network")
    /\ UNCHANGED service

Refill ==
    /\ tokens < Burst
    /\ tokens' = tokens + 1
    /\ UNCHANGED <<vars, server, others, signalled, strayed>>

Signal ==
    /\ SignalMayCome /\ ~signalled
    /\ signalled' = TRUE
    /\ UNCHANGED <<vars, server, tokens, others, strayed>>

\* with_graceful_shutdown: at the same signal that the consumer drains at.
ServerCloses ==
    /\ signalled /\ server = "listening"
    /\ server' = "closed"
    /\ UNCHANGED <<vars, tokens, others, signalled, strayed>>

DemoStep(c) ==
    \/ NextPrompt(c) \/ ClientStep(c)
    \/ MockAnswers(c) \/ MockRefuses(c) \/ Strays(c) \/ NoServer(c)

DemoNext ==
    \/ \E c \in Calls : DemoStep(c)
    \/ Bind \/ OtherRequest \/ Refill \/ Signal \/ ServerCloses

DemoSpec == DemoInit /\ [][DemoNext]_demoVars

\* What is ready to run is run; the bucket need not be refilled in time.
DemoFairSpec ==
    /\ DemoSpec
    /\ \A c \in Calls : WF_demoVars(DemoStep(c))
    /\ WF_demoVars(ServerCloses)

-----------------------------------------------------------------------------
Succeeding == {c \in Calls : pc[c] = "ok"}

\* The mock is no worse than it has to be: a prompt that met the server from its first request
\* is refused only after a whole burst of requests, its own kind's and others', and misses
\* the server only in a shutdown, after as many retries as there are.
FailsOnlyWhenDue ==
    \A c \in Calls \ strayed : pc[c] = "failed" =>
        \/ last[c] = "client" /\ Cardinality(Succeeding) + others >= Burst
        \/ last[c] = "network" /\ signalled /\ sent[c] = MaxRetries + 1

\* The drain ends although the LLM of the tasks is gone, or was never there.
DrainEnds == signalled ~> \A t \in Tasks : Begun(t) => Over(t)
=============================================================================
