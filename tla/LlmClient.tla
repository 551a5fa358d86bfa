----------------------------- MODULE LlmClient -----------------------------
(***************************************************************************)
(* LlmClient::generate of llm/client.rs: concurrent calls share a fair     *)
(* semaphore, and each sends requests until one succeeds, one fails in a   *)
(* way that is not retried, or the retries are used up.                    *)
(***************************************************************************)
EXTENDS Naturals, Sequences, FiniteSets

CONSTANTS Calls,      \* the calls of generate, by whichever task
          MaxLlm,     \* concurrency.max_llm_requests
          MaxRetries  \* llm.max_retries

\* config.rs refuses no permits and more than ten retries.
ASSUME LlmConfigValidated ==
    /\ MaxLlm \in Nat \ {0}
    /\ MaxRetries \in 0 .. 10
ASSUME CallsFinite == IsFiniteSet(Calls)

\* How do_request can fail: no response at all, a response body that breaks off,
\* a body the adapter cannot parse, a 4xx status, any other status outside 2xx.
NetworkErrors == {"network", "body"}
Errors == NetworkErrors \union {"parse", "client", "server"}

\* LlmError::retryable as do_request and parse_response set it.
Retryable == {"network", "server"}

VARIABLES
    pc,        \* pc[c]: where the call stands
    waiting,   \* the calls queued for a permit, longest first
    permits,   \* free permits of the semaphore
    attempt,   \* attempt[c]: the loop variable
    retries,   \* retries[c]: what the metrics and the error report
    sent,      \* sent[c]: the requests sent
    last       \* last[c]: the latest error, if any

vars == <<pc, waiting, permits, attempt, retries, sent, last>>

Holding == {"request", "inflight", "backoff"}
Done == {"ok", "failed"}
Holders == {c \in Calls : pc[c] \in Holding}

TypeOK ==
    /\ pc \in [Calls -> {"new", "waiting"} \union Holding \union Done]
    /\ waiting \in Seq(Calls)
    /\ permits \in Nat
    /\ attempt \in [Calls -> 0 .. MaxRetries]
    /\ retries \in [Calls -> 0 .. MaxRetries]
    /\ sent \in [Calls -> 0 .. MaxRetries + 1]
    /\ last \in [Calls -> Errors \union {"none"}]

Init ==
    /\ pc = [c \in Calls |-> "new"]
    /\ waiting = <<>>
    /\ permits = MaxLlm
    /\ attempt = [c \in Calls |-> 0]
    /\ retries = [c \in Calls |-> 0]
    /\ sent = [c \in Calls |-> 0]
    /\ last = [c \in Calls |-> "none"]

Goto(c, label) == pc' = [pc EXCEPT ![c] = label]

\* semaphore.acquire(): the tokio semaphore serves its waiters in order.
Acquire(c) ==
    /\ pc[c] = "new"
    /\ Goto(c, "waiting")
    /\ waiting' = Append(waiting, c)
    /\ UNCHANGED <<permits, attempt, retries, sent, last>>

Granted(c) ==
    /\ pc[c] = "waiting"
    /\ permits > 0
    /\ waiting # <<>> /\ c = Head(waiting)
    /\ waiting' = Tail(waiting)
    /\ permits' = permits - 1
    /\ Goto(c, "request")
    /\ UNCHANGED <<attempt, retries, sent, last>>

\* do_request posts the body.
Send(c) ==
    /\ pc[c] = "request"
    /\ sent' = [sent EXCEPT ![c] = @ + 1]
    /\ Goto(c, "inflight")
    /\ UNCHANGED <<waiting, permits, attempt, retries, last>>

\* generate returns, which drops the permit.
Return(c, result) ==
    /\ Goto(c, result)
    /\ permits' = permits + 1
    /\ UNCHANGED <<waiting, attempt, retries, sent>>

Succeeded(c) ==
    /\ pc[c] = "inflight"
    /\ Return(c, "ok")
    /\ UNCHANGED last

Refused(c, e) ==
    /\ pc[c] = "inflight"
    /\ e \notin Retryable
    /\ last' = [last EXCEPT ![c] = e]
    /\ Return(c, "failed")

\* A retryable error: the next round of the loop, or none after the bound.
RetryUpTo(c, e, bound) ==
    /\ pc[c] = "inflight"
    /\ e \in Retryable
    /\ last' = [last EXCEPT ![c] = e]
    /\ \/ /\ attempt[c] < bound
          /\ attempt' = [attempt EXCEPT ![c] = @ + 1]
          /\ Goto(c, "backoff")
          /\ UNCHANGED <<waiting, permits, retries, sent>>
       \/ attempt[c] = bound /\ Return(c, "failed")

\* Mutants: the loop runs once too few, and once too often.
RetryOneLess(c, e) == RetryUpTo(c, e, MaxRetries - 1)
RetryOneMore(c, e) == RetryUpTo(c, e, MaxRetries + 1)

\* Mutant: the permit is given back for the delay as well as at the end.
RetryReleasing(c, e) ==
    /\ pc[c] = "inflight"
    /\ e \in Retryable
    /\ last' = [last EXCEPT ![c] = e]
    /\ \/ /\ attempt[c] < MaxRetries
          /\ attempt' = [attempt EXCEPT ![c] = @ + 1]
          /\ Goto(c, "backoff")
          /\ permits' = permits + 1
          /\ UNCHANGED <<waiting, retries, sent>>
       \/ attempt[c] = MaxRetries /\ Return(c, "failed")

\* Mutant: the permit is lost when the retries are used up.
RetryLeaking(c, e) ==
    /\ pc[c] = "inflight"
    /\ e \in Retryable
    /\ last' = [last EXCEPT ![c] = e]
    /\ \/ /\ attempt[c] < MaxRetries
          /\ attempt' = [attempt EXCEPT ![c] = @ + 1]
          /\ Goto(c, "backoff")
       \/ /\ attempt[c] = MaxRetries
          /\ Goto(c, "failed")
          /\ UNCHANGED attempt
    /\ UNCHANGED <<waiting, permits, retries, sent>>

\* for attempt in 0..=max_retries, then "all retries exhausted".
Retry(c, e) == RetryUpTo(c, e, MaxRetries)

\* Mutant: retries counts the rounds before this one only.
BackoffMiscounted(c) ==
    /\ pc[c] = "backoff"
    /\ retries' = [retries EXCEPT ![c] = attempt[c] - 1]
    /\ Goto(c, "request")
    /\ UNCHANGED <<waiting, permits, attempt, sent, last>>

\* The delay of a round is over; the permit was held all along.
BackoffElapsed(c) ==
    /\ pc[c] = "backoff"
    /\ retries' = [retries EXCEPT ![c] = attempt[c]]
    /\ Goto(c, "request")
    /\ UNCHANGED <<waiting, permits, attempt, sent, last>>

Step(c) ==
    \/ Acquire(c) \/ Granted(c) \/ Send(c) \/ Succeeded(c) \/ BackoffElapsed(c)
    \/ \E e \in Errors : Refused(c, e) \/ Retry(c, e)

Next == \E c \in Calls : Step(c)

\* A request is answered or times out (the HTTP client has a timeout), and what
\* is ready to run is run.
Spec == Init /\ [][Next]_vars
FairSpec == Spec /\ \A c \in Calls : WF_vars(Step(c))

-----------------------------------------------------------------------------
\* A permit belongs to one call from its grant to its return, its delays between
\* two requests included; none is lost on any way out of the loop, so no more
\* than MaxLlm requests are ever in flight.
PermitsHeldThroughout == permits + Cardinality(Holders) = MaxLlm

\* The retries a finished call reports, which end up in the row of the prompt,
\* are the requests it sent after the first.
RetriesReported ==
    \A c \in Calls : pc[c] \in Done => sent[c] = retries[c] + 1

\* A call fails at once on an error that is not retried, and otherwise only
\* after MaxRetries retries; it never sends anything after the former.
GivesUpOnlyWhenDue ==
    \A c \in Calls :
        /\ pc[c] = "failed" =>
              last[c] # "none" /\ (last[c] \in Retryable => sent[c] = MaxRetries + 1)
        /\ pc[c] \in Holding => last[c] \in Retryable \union {"none"}

\* Every call returns, however long the others retry while holding permits.
CallsReturn == \A c \in Calls : pc[c] = "waiting" ~> pc[c] \in Done
=============================================================================
