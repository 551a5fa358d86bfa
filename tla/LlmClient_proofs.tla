-------------------------- MODULE LlmClient_proofs --------------------------
(***************************************************************************)
(* Proofs about LlmClient, for any calls, permits and number of retries,   *)
(* and about DemoMode, where its calls meet the mock LLM.  DemoAssumption  *)
(* is used for DemoMode only.                                              *)
(***************************************************************************)
EXTENDS DemoMode, FiniteSetTheorems, TLAPS

\* How the counters of a call go together at each point of the loop.
Counters ==
    \A c \in Calls :
        /\ pc[c] \in {"new", "waiting"} => attempt[c] = 0
        /\ pc[c] \in {"new", "waiting", "request", "backoff"} => sent[c] = attempt[c]
        /\ pc[c] \in {"inflight"} \union Done => sent[c] = attempt[c] + 1
        /\ pc[c] \in {"new", "waiting", "request", "inflight"} \union Done => retries[c] = attempt[c]
        /\ pc[c] = "backoff" => attempt[c] > 0
        /\ pc[c] \in {"new", "waiting"} => last[c] = "none"

Inv == TypeOK /\ Counters /\ PermitsHeldThroughout /\ GivesUpOnlyWhenDue

\* There are finitely many calls holding a permit.
LEMMA HoldersFinite == IsFiniteSet(Holders) /\ Cardinality(Holders) \in Nat
  BY CallsFinite, FS_Subset, FS_CardinalityType DEF Holders

\* The invariant holds before any call.
LEMMA InitInv == Init => Inv
<1> SUFFICES ASSUME Init PROVE Inv
  OBVIOUS
<1>1. TypeOK
  BY LlmConfigValidated DEF Init, TypeOK
<1>2. Counters /\ GivesUpOnlyWhenDue
  BY DEF Init, Counters, GivesUpOnlyWhenDue, Done, Holding, Retryable
<1>3. PermitsHeldThroughout
  <2>1. Holders = {}
    BY DEF Init, Holders, Holding
  <2> QED BY <2>1, FS_EmptySet, LlmConfigValidated DEF Init, PermitsHeldThroughout
<1> QED BY <1>1, <1>2, <1>3 DEF Inv

\* Every step keeps the variables in their ranges.
LEMMA TypeStep == ASSUME Inv, NEW c \in Calls, Step(c) PROVE TypeOK'
<1> USE LlmConfigValidated DEF Inv, TypeOK, Counters, Goto, Holding, Done
<1>1. CASE Acquire(c)
  BY <1>1 DEF Acquire
<1>2. CASE Granted(c)
  BY <1>2 DEF Granted
<1>3. CASE Send(c)
  BY <1>3 DEF Send
<1>4. CASE Succeeded(c)
  BY <1>4 DEF Succeeded, Return
<1>5. CASE BackoffElapsed(c)
  BY <1>5 DEF BackoffElapsed
<1>6. ASSUME NEW e \in Errors, Refused(c, e) PROVE TypeOK'
  BY <1>6 DEF Refused, Return
<1>7. ASSUME NEW e \in Errors, Retry(c, e) PROVE TypeOK'
  <2>1. last' \in [Calls -> Errors \union {"none"}] /\ waiting' = waiting /\ retries' = retries
    BY <1>7 DEF Retry, RetryUpTo, Return
  <2>2. CASE attempt[c] < MaxRetries
    <3>1. /\ attempt' = [attempt EXCEPT ![c] = @ + 1] /\ pc' = [pc EXCEPT ![c] = "backoff"]
          /\ permits' = permits /\ sent' = sent
      BY <1>7, <2>2 DEF Retry, RetryUpTo
    <3> QED BY <2>1, <2>2, <3>1
  <2>3. CASE attempt[c] = MaxRetries
    <3>1. /\ attempt' = attempt /\ pc' = [pc EXCEPT ![c] = "failed"]
          /\ permits' = permits + 1 /\ sent' = sent
      BY <1>7, <2>3 DEF Retry, RetryUpTo, Return
    <3> QED BY <2>1, <3>1
  <2> QED BY <1>7, <2>2, <2>3 DEF Retry, RetryUpTo
<1> QED BY <1>1, <1>2, <1>3, <1>4, <1>5, <1>6, <1>7 DEF Step

\* Every step keeps the counters of its call together.
LEMMA CountersStep == ASSUME Inv, NEW c \in Calls, Step(c) PROVE Counters'
<1> USE DEF Inv, TypeOK, Counters, Goto, Holding, Done
<1>1. CASE Acquire(c)
  BY <1>1 DEF Acquire
<1>2. CASE Granted(c)
  BY <1>2 DEF Granted
<1>3. CASE Send(c)
  BY <1>3 DEF Send
<1>4. CASE Succeeded(c)
  BY <1>4 DEF Succeeded, Return
<1>5. CASE BackoffElapsed(c)
  BY <1>5 DEF BackoffElapsed
<1>6. ASSUME NEW e \in Errors, Refused(c, e) PROVE Counters'
  BY <1>6 DEF Refused, Return
<1>7. ASSUME NEW e \in Errors, Retry(c, e) PROVE Counters'
  BY <1>7 DEF Retry, RetryUpTo, Return
<1> QED BY <1>1, <1>2, <1>3, <1>4, <1>5, <1>6, <1>7 DEF Step

\* No step gives a call up early or carries on after an error that is final.
LEMMA GivesUpStep == ASSUME Inv, NEW c \in Calls, Step(c) PROVE GivesUpOnlyWhenDue'
<1> USE DEF Inv, TypeOK, Counters, GivesUpOnlyWhenDue, Goto, Holding, Done, Retryable
<1>1. CASE Acquire(c)
  BY <1>1 DEF Acquire
<1>2. CASE Granted(c)
  BY <1>2 DEF Granted
<1>3. CASE Send(c)
  BY <1>3 DEF Send
<1>4. CASE Succeeded(c)
  BY <1>4 DEF Succeeded, Return
<1>5. CASE BackoffElapsed(c)
  BY <1>5 DEF BackoffElapsed
<1>6. ASSUME NEW e \in Errors, Refused(c, e) PROVE GivesUpOnlyWhenDue'
  BY <1>6 DEF Refused, Return, Errors, NetworkErrors
<1>7. ASSUME NEW e \in Errors, Retry(c, e) PROVE GivesUpOnlyWhenDue'
  BY <1>7 DEF Retry, RetryUpTo, Return, Errors, NetworkErrors
<1> QED BY <1>1, <1>2, <1>3, <1>4, <1>5, <1>6, <1>7 DEF Step

\* A call that moves within the loop changes neither side of the account.
LEMMA SameHolders ==
    ASSUME Inv, NEW c \in Calls, NEW label, Goto(c, label), UNCHANGED permits,
           pc[c] \in Holding <=> label \in Holding
    PROVE  PermitsHeldThroughout'
<1>1. Holders' = Holders
  BY DEF Inv, TypeOK, Goto, Holders
<1> QED BY <1>1 DEF Inv, PermitsHeldThroughout

\* A call that returns gives back the permit it held.
LEMMA ReturnFrees ==
    ASSUME Inv, NEW c \in Calls, NEW result \in Done, pc[c] = "inflight", Return(c, result)
    PROVE  PermitsHeldThroughout'
<1>1. c \in Holders /\ Holders' = Holders \ {c}
  BY DEF Inv, TypeOK, Return, Goto, Holders, Holding, Done
<1>2. Cardinality(Holders') = Cardinality(Holders) - 1
  BY <1>1, HoldersFinite, FS_RemoveElement
<1>3. permits' = permits + 1 /\ permits \in Nat
  BY DEF Return, Inv, TypeOK
<1> QED BY <1>2, <1>3, HoldersFinite, LlmConfigValidated DEF Inv, PermitsHeldThroughout

\* Every step keeps the account of permits balanced.
LEMMA PermitStep == ASSUME Inv, NEW c \in Calls, Step(c) PROVE PermitsHeldThroughout'
<1>1. CASE Acquire(c)
  BY <1>1, SameHolders DEF Acquire, Holding
<1>2. CASE Granted(c)
  <2>1. c \notin Holders /\ Holders' = Holders \union {c}
    BY <1>2 DEF Granted, Inv, TypeOK, Goto, Holders, Holding
  <2>2. Cardinality(Holders') = Cardinality(Holders) + 1
    BY <2>1, HoldersFinite, FS_AddElement
  <2>3. permits' = permits - 1 /\ permits \in Nat
    BY <1>2 DEF Granted, Inv, TypeOK
  <2> QED BY <2>2, <2>3, HoldersFinite, LlmConfigValidated DEF Inv, PermitsHeldThroughout
<1>3. CASE Send(c)
  BY <1>3, SameHolders DEF Send, Holding
<1>4. CASE Succeeded(c)
  BY <1>4, ReturnFrees DEF Succeeded, Done
<1>5. CASE BackoffElapsed(c)
  BY <1>5, SameHolders DEF BackoffElapsed, Holding
<1>6. ASSUME NEW e \in Errors, Refused(c, e) PROVE PermitsHeldThroughout'
  BY <1>6, ReturnFrees DEF Refused, Done
<1>7. ASSUME NEW e \in Errors, Retry(c, e) PROVE PermitsHeldThroughout'
  BY <1>7, ReturnFrees, SameHolders DEF Retry, RetryUpTo, Done, Holding
<1> QED BY <1>1, <1>2, <1>3, <1>4, <1>5, <1>6, <1>7 DEF Step

\* The invariant holds in every reachable state.
THEOREM Invariance == Spec => []Inv
<1>1. Init => Inv
  BY InitInv
<1>2. Inv /\ [Next]_vars => Inv'
  <2> SUFFICES ASSUME Inv, [Next]_vars PROVE Inv'
    OBVIOUS
  <2>1. CASE Next
    BY <2>1, TypeStep, CountersStep, GivesUpStep, PermitStep DEF Next, Inv
  <2>2. CASE UNCHANGED vars
    BY <2>2 DEF vars, Inv, TypeOK, Counters, GivesUpOnlyWhenDue, PermitsHeldThroughout, Holders
  <2> QED BY <2>1, <2>2
<1> QED BY <1>1, <1>2, PTL DEF Spec

\* Every counter of a call stays within the retries it is allowed.
THEOREM TypeCorrect == Spec => []TypeOK
<1>1. Inv => TypeOK
  BY DEF Inv
<1> QED BY <1>1, Invariance, PTL

\* No permit is lost or shared: at most MaxLlm requests are ever in flight.
THEOREM PermitsAreHeld == Spec => []PermitsHeldThroughout
<1>1. Inv => PermitsHeldThroughout
  BY DEF Inv
<1> QED BY <1>1, Invariance, PTL

\* The retries reported are the retries made.
THEOREM RetriesAreReported == Spec => []RetriesReported
<1>1. Inv => RetriesReported
  BY DEF Inv, Counters, RetriesReported
<1> QED BY <1>1, Invariance, PTL

\* Retries are neither skipped nor exceeded, and final errors are final.
THEOREM GivingUpIsDue == Spec => []GivesUpOnlyWhenDue
<1>1. Inv => GivesUpOnlyWhenDue
  BY DEF Inv
<1> QED BY <1>1, Invariance, PTL

-----------------------------------------------------------------------------
\* What CallsReturn rests on, without fairness: as long as a call has not returned, some
\* call can go on, and none goes on for ever.

\* The calls that wait are those in the queue, each of them once.
Queue ==
    /\ \A c \in Calls : pc[c] = "waiting" <=> \E k \in 1 .. Len(waiting) : waiting[k] = c
    /\ \A j, k \in 1 .. Len(waiting) : waiting[j] = waiting[k] => j = k

QueueInv == Inv /\ Queue

\* A call in the loop depends on nobody else; one that waits, on a permit and its turn.
CanStep(c) ==
    \/ pc[c] \in {"new"} \union Holding
    \/ pc[c] = "waiting" /\ permits > 0 /\ waiting # <<>> /\ c = Head(waiting)

AllReturned == \A c \in Calls : pc[c] \in Done

\* The steps a call has before it at most: three to a round, and two to get a permit.
StepsLeft(c) ==
    LET rounds == 3 * (MaxRetries - attempt[c])
    IN  CASE pc[c] = "new" -> rounds + 4
          [] pc[c] = "waiting" -> rounds + 3
          [] pc[c] = "backoff" -> rounds + 3
          [] pc[c] = "request" -> rounds + 2
          [] pc[c] = "inflight" -> rounds + 1
          [] OTHER -> 0

\* A call that is not in the queue, and does not join it, leaves the queue as it is.
LEMMA QueueKept ==
    ASSUME QueueInv, NEW c \in Calls, NEW label, Goto(c, label), UNCHANGED waiting,
           pc[c] # "waiting", label # "waiting"
    PROVE  Queue'
<1>1. \A d \in Calls : pc'[d] = "waiting" <=> pc[d] = "waiting"
  BY DEF QueueInv, Inv, TypeOK, Goto
<1> QED BY <1>1 DEF QueueInv, Queue

LEMMA QueueStep == ASSUME QueueInv, NEW c \in Calls, Step(c) PROVE Queue'
<1>1. waiting \in Seq(Calls) /\ Len(waiting) \in Nat
  BY DEF QueueInv, Inv, TypeOK
<1>2. CASE Acquire(c)
  <2>1. /\ waiting' = Append(waiting, c) /\ pc' = [pc EXCEPT ![c] = "waiting"]
        /\ pc \in [Calls -> {"new", "waiting"} \union Holding \union Done]
        /\ pc[c] # "waiting"
    BY <1>2 DEF Acquire, Goto, QueueInv, Inv, TypeOK
  <2>2. /\ Len(waiting') = Len(waiting) + 1 /\ waiting'[Len(waiting) + 1] = c
        /\ \A k \in 1 .. Len(waiting) : waiting'[k] = waiting[k] /\ waiting[k] # c
    BY <1>1, <2>1 DEF QueueInv, Queue
  <2>3. \A j, k \in 1 .. Len(waiting') : waiting'[j] = waiting'[k] => j = k
    BY <1>1, <2>2 DEF QueueInv, Queue
  <2>4. ASSUME NEW d \in Calls
        PROVE  pc'[d] = "waiting" <=> \E k \in 1 .. Len(waiting') : waiting'[k] = d
    <3>1. CASE d = c
      <4>1. Len(waiting) + 1 \in 1 .. Len(waiting')
        BY <1>1, <2>2
      <4> QED BY <2>1, <2>2, <3>1, <4>1
    <3>2. CASE d # c
      <4>1. pc'[d] = "waiting" <=> \E k \in 1 .. Len(waiting) : waiting[k] = d
        BY <2>1, <3>2 DEF QueueInv, Queue
      <4>2. \A k \in 1 .. Len(waiting') : waiting'[k] = d => k \in 1 .. Len(waiting)
        BY <1>1, <2>2, <3>2
      <4>3. \A k \in 1 .. Len(waiting) : k \in 1 .. Len(waiting')
        BY <1>1, <2>2
      <4> QED BY <2>2, <4>1, <4>2, <4>3
    <3> QED BY <3>1, <3>2
  <2> QED BY <2>3, <2>4 DEF Queue
<1>3. CASE Granted(c)
  <2>1. /\ waiting # <<>> /\ c = Head(waiting) /\ waiting' = Tail(waiting)
        /\ pc' = [pc EXCEPT ![c] = "request"]
        /\ pc \in [Calls -> {"new", "waiting"} \union Holding \union Done]
    BY <1>3 DEF Granted, Goto, QueueInv, Inv, TypeOK
  <2>2. /\ Len(waiting) >= 1 /\ Len(waiting') = Len(waiting) - 1 /\ c = waiting[1]
        /\ \A k \in 1 .. Len(waiting') : k + 1 \in 1 .. Len(waiting) /\ waiting'[k] = waiting[k + 1]
    BY <1>1, <2>1
  <2>3. \A j, k \in 1 .. Len(waiting') : waiting'[j] = waiting'[k] => j = k
    <3>1. SUFFICES ASSUME NEW j \in 1 .. Len(waiting'), NEW k \in 1 .. Len(waiting'),
                          waiting'[j] = waiting'[k]
                   PROVE  j = k
      OBVIOUS
    <3>2. j + 1 = k + 1
      BY <2>2, <3>1 DEF QueueInv, Queue
    <3> QED BY <1>1, <2>2, <3>2
  <2>4. ASSUME NEW d \in Calls
        PROVE  pc'[d] = "waiting" <=> \E k \in 1 .. Len(waiting') : waiting'[k] = d
    <3>1. CASE d = c
      <4>1. \A k \in 1 .. Len(waiting') : waiting'[k] # c
        <5>1. 1 \in 1 .. Len(waiting)
          BY <1>1, <2>2
        <5>2. \A k \in 1 .. Len(waiting') : k + 1 # 1
          BY <1>1, <2>2
        <5> QED BY <2>2, <5>1, <5>2 DEF QueueInv, Queue
      <4> QED BY <2>1, <3>1, <4>1
    <3>2. CASE d # c
      <4>1. pc'[d] = "waiting" <=> \E k \in 1 .. Len(waiting) : waiting[k] = d
        BY <2>1, <3>2 DEF QueueInv, Queue
      <4>2. ASSUME NEW k \in 1 .. Len(waiting), waiting[k] = d
            PROVE  \E j \in 1 .. Len(waiting') : waiting'[j] = d
        <5>1. k # 1
          BY <2>2, <3>2, <4>2
        <5>2. k - 1 \in 1 .. Len(waiting') /\ (k - 1) + 1 = k
          BY <1>1, <2>2, <5>1
        <5> QED BY <2>2, <4>2, <5>2
      <4> QED BY <2>2, <4>1, <4>2
    <3> QED BY <3>1, <3>2
  <2> QED BY <2>3, <2>4 DEF Queue
<1>4. CASE Send(c) \/ Succeeded(c) \/ BackoffElapsed(c)
  BY <1>4, QueueKept DEF Send, Succeeded, BackoffElapsed, Return
<1>5. ASSUME NEW e \in Errors, Refused(c, e) PROVE Queue'
  BY <1>5, QueueKept DEF Refused, Return
<1>6. ASSUME NEW e \in Errors, Retry(c, e) PROVE Queue'
  BY <1>6, QueueKept DEF Retry, RetryUpTo, Return
<1> QED BY <1>2, <1>3, <1>4, <1>5, <1>6 DEF Step

LEMMA QueueInvariance == Spec => []QueueInv
<1>1. Init => Queue
  BY DEF Init, Queue
<1>2. QueueInv /\ [Next]_vars => Queue'
  <2> SUFFICES ASSUME QueueInv, [Next]_vars PROVE Queue'
    OBVIOUS
  <2>1. CASE Next
    BY <2>1, QueueStep DEF Next
  <2>2. CASE UNCHANGED vars
    BY <2>2 DEF vars, QueueInv, Queue
  <2> QED BY <2>1, <2>2
<1> QED BY <1>1, <1>2, Invariance, PTL DEF Spec, QueueInv

\* The calls never all wait for one another: whoever waits in vain for a permit does so
\* because a call that holds one can go on.
THEOREM NobodyIsStuck == Spec => [](AllReturned \/ \E c \in Calls : CanStep(c))
<1>1. ASSUME QueueInv, NEW d \in Calls, pc[d] \notin Done
      PROVE  \E c \in Calls : CanStep(c)
  <2>1. CASE pc[d] # "waiting"
    BY <1>1, <2>1 DEF QueueInv, Inv, TypeOK, CanStep
  <2>2. CASE pc[d] = "waiting" /\ permits > 0
    <3>1. waiting \in Seq(Calls) /\ Len(waiting) \in Nat
      BY <1>1 DEF QueueInv, Inv, TypeOK
    <3>2. PICK k \in 1 .. Len(waiting) : waiting[k] = d
      BY <1>1, <2>2 DEF QueueInv, Queue
    <3>3. /\ waiting # <<>> /\ Head(waiting) \in Calls
          /\ 1 \in 1 .. Len(waiting) /\ Head(waiting) = waiting[1]
      BY <3>1, <3>2
    <3>4. pc[Head(waiting)] = "waiting"
      BY <1>1, <3>3 DEF QueueInv, Queue
    <3> QED BY <2>2, <3>3, <3>4 DEF CanStep
  <2>3. CASE permits = 0
    <3>1. Cardinality(Holders) = MaxLlm
      BY <1>1, <2>3, HoldersFinite DEF QueueInv, Inv, PermitsHeldThroughout
    <3>2. Holders # {}
      BY <3>1, FS_EmptySet, LlmConfigValidated
    <3> QED BY <3>2 DEF Holders, CanStep
  <2> QED BY <1>1, <2>1, <2>2, <2>3 DEF QueueInv, Inv, TypeOK
<1>2. QueueInv => (AllReturned \/ \E c \in Calls : CanStep(c))
  BY <1>1 DEF AllReturned
<1> QED BY <1>2, QueueInvariance, PTL

\* No call goes on for ever: every step brings its call nearer to its return, and no other
\* call further from it.
LEMMA StepCostsOne ==
    ASSUME Inv, NEW c \in Calls, Step(c)
    PROVE  StepsLeft(c)' < StepsLeft(c) /\ \A d \in Calls \ {c} : StepsLeft(d)' = StepsLeft(d)
<1> DEFINE left == MaxRetries - attempt[c]
<1>1. /\ attempt \in [Calls -> 0 .. MaxRetries] /\ MaxRetries \in Nat /\ attempt[c] \in Nat
      /\ left \in Nat
      /\ pc \in [Calls -> {"new", "waiting"} \union Holding \union Done]
  BY LlmConfigValidated DEF Inv, TypeOK
<1>2. ASSUME UNCHANGED attempt, NEW label, Goto(c, label)
      PROVE  \A d \in Calls \ {c} : StepsLeft(d)' = StepsLeft(d)
  BY <1>1, <1>2 DEF Goto, StepsLeft
<1>3. CASE Acquire(c)
  BY <1>1, <1>2, <1>3 DEF Acquire, Goto, StepsLeft
<1>4. CASE Granted(c)
  BY <1>1, <1>2, <1>4 DEF Granted, Goto, StepsLeft
<1>5. CASE Send(c)
  BY <1>1, <1>2, <1>5 DEF Send, Goto, StepsLeft
<1>6. CASE Succeeded(c)
  BY <1>1, <1>2, <1>6 DEF Succeeded, Return, Goto, StepsLeft
<1>7. CASE BackoffElapsed(c)
  BY <1>1, <1>2, <1>7 DEF BackoffElapsed, Goto, StepsLeft
<1>8. ASSUME NEW e \in Errors, Refused(c, e)
      PROVE  StepsLeft(c)' < StepsLeft(c) /\ \A d \in Calls \ {c} : StepsLeft(d)' = StepsLeft(d)
  BY <1>1, <1>2, <1>8 DEF Refused, Return, Goto, StepsLeft
<1>9. ASSUME NEW e \in Errors, Retry(c, e)
      PROVE  StepsLeft(c)' < StepsLeft(c) /\ \A d \in Calls \ {c} : StepsLeft(d)' = StepsLeft(d)
  <2>1. CASE /\ attempt[c] < MaxRetries /\ attempt' = [attempt EXCEPT ![c] = @ + 1]
             /\ Goto(c, "backoff")
    <3>1. StepsLeft(c)' = 3 * (MaxRetries - (attempt[c] + 1)) + 3
      BY <1>1, <2>1 DEF Goto, StepsLeft
    <3>2. StepsLeft(c) = 3 * (MaxRetries - attempt[c]) + 1
      BY <1>1, <1>9 DEF Retry, RetryUpTo, StepsLeft
    <3>3. \A d \in Calls \ {c} : StepsLeft(d)' = StepsLeft(d)
      BY <1>1, <2>1 DEF Goto, StepsLeft
    <3> QED BY <1>1, <3>1, <3>2, <3>3
  <2>2. CASE Return(c, "failed")
    BY <1>1, <1>2, <1>9, <2>2 DEF Retry, RetryUpTo, Return, Goto, StepsLeft
  <2> QED BY <1>9, <2>1, <2>2 DEF Retry, RetryUpTo
<1> QED BY <1>3, <1>4, <1>5, <1>6, <1>7, <1>8, <1>9 DEF Step

\* Each call has at most 3 * MaxRetries + 4 steps, so that the calls can take no more than
\* Cardinality(Calls) times as many between them.
THEOREM CallsRunOut ==
    Spec => /\ [](\A c \in Calls : StepsLeft(c) \in 0 .. 3 * MaxRetries + 4)
            /\ [][\E c \in Calls : /\ StepsLeft(c)' < StepsLeft(c)
                                   /\ \A d \in Calls \ {c} : StepsLeft(d)' = StepsLeft(d)]_vars
<1>1. ASSUME Inv, NEW c \in Calls PROVE StepsLeft(c) \in 0 .. 3 * MaxRetries + 4
  <2>1. attempt[c] \in 0 .. MaxRetries /\ MaxRetries \in Nat
    BY <1>1, LlmConfigValidated DEF Inv, TypeOK
  <2> QED BY <2>1 DEF StepsLeft
<1>2. Inv => \A c \in Calls : StepsLeft(c) \in 0 .. 3 * MaxRetries + 4
  BY <1>1
<1>3. Inv /\ [Next]_vars =>
        [\E c \in Calls : /\ StepsLeft(c)' < StepsLeft(c)
                          /\ \A d \in Calls \ {c} : StepsLeft(d)' = StepsLeft(d)]_vars
  BY StepCostsOne DEF Next
<1> QED BY <1>2, <1>3, Invariance, PTL DEF Spec

-----------------------------------------------------------------------------
\* DemoMode: LlmClient with its environment.

DemoTypeOK ==
    /\ server \in {"starting", "listening", "unbound", "closed"}
    /\ tokens \in 0 .. Burst
    /\ others \in Nat
    /\ signalled \in BOOLEAN
    /\ strayed \subseteq Calls

\* A prompt that the mock generated has taken a token, as has any other request it admitted;
\* the token may have been refilled since.
TokensTaken == tokens + Cardinality(Succeeding) + others >= Burst

ClosedBySignal == server = "closed" => signalled

\* The mock knows two ways to fail, and each leaves a trace in the service.
FailuresHaveCause ==
    \A c \in Calls \ strayed :
        /\ last[c] \in {"none", "client", "network"}
        /\ last[c] = "client" => Cardinality(Succeeding) + others >= Burst
        /\ last[c] = "network" => server = "closed"

DemoInv == Inv /\ DemoTypeOK /\ TokensTaken /\ ClosedBySignal /\ FailuresHaveCause

\* A step of the demo is a step of the client, or leaves the client alone.
LEMMA DemoStepRefines == ASSUME [DemoNext]_demoVars PROVE [Next]_vars
<1>1. ASSUME NEW c \in Calls, DemoStep(c) PROVE Step(c)
  <2>1. "client" \in Errors /\ "network" \in Errors
    BY DEF Errors, NetworkErrors
  <2> QED
    BY <1>1, <2>1 DEF DemoStep, NextPrompt, ClientStep, MockAnswers, MockRefuses, Strays, NoServer,
                      Step
<1>2. CASE Bind \/ OtherRequest \/ Refill \/ Signal \/ ServerCloses
  BY <1>2 DEF Bind, OtherRequest, Refill, Signal, ServerCloses
<1>3. CASE UNCHANGED demoVars
  BY <1>3 DEF demoVars
<1> QED BY <1>1, <1>2, <1>3 DEF DemoNext, Next

\* The demo runs the client as it is: whatever holds of LlmClient holds of it.
THEOREM DemoRefinesClient == DemoSpec => Spec
<1>1. DemoInit => Init
  BY DEF DemoInit
<1> QED BY <1>1, DemoStepRefines, PTL DEF DemoSpec, Spec

LEMMA SucceedingFinite == IsFiniteSet(Succeeding) /\ Cardinality(Succeeding) \in Nat
  BY CallsFinite, FS_Subset, FS_CardinalityType DEF Succeeding

LEMMA DemoInitInv == DemoInit => DemoInv
<1> SUFFICES ASSUME DemoInit PROVE DemoInv
  OBVIOUS
<1>1. Inv
  BY InitInv DEF DemoInit
<1>2. DemoTypeOK /\ ClosedBySignal
  <2>1. Burst \in 0 .. Burst
    BY DemoAssumption
  <2> QED BY <2>1 DEF DemoInit, DemoTypeOK, ClosedBySignal
<1>3. TokensTaken
  BY SucceedingFinite, DemoAssumption DEF DemoInit, TokensTaken
<1>4. FailuresHaveCause
  BY DEF DemoInit, Init, FailuresHaveCause
<1> QED BY <1>1, <1>2, <1>3, <1>4 DEF DemoInv

\* What a step of the client, with or without the server, does to a call other than
\* to make it succeed.
LEMMA OthersKeepSucceeding ==
    ASSUME DemoInv, NEW c \in Calls, NEW label, label # "ok", pc[c] # "ok", Goto(c, label)
    PROVE  Succeeding' = Succeeding
  BY DEF DemoInv, Inv, TypeOK, Goto, Succeeding

LEMMA OneMoreSucceeds ==
    ASSUME DemoInv, NEW c \in Calls, pc[c] = "inflight", Goto(c, "ok")
    PROVE  Cardinality(Succeeding') = Cardinality(Succeeding) + 1
<1>1. c \notin Succeeding /\ Succeeding' = Succeeding \union {c}
  BY DEF DemoInv, Inv, TypeOK, Goto, Succeeding
<1> QED BY <1>1, SucceedingFinite, FS_AddElement

LEMMA ClientKeeps ==
    ASSUME DemoInv, NEW c \in Calls, NextPrompt(c) \/ ClientStep(c)
    PROVE  TokensTaken' /\ FailuresHaveCause'
<1>1. /\ UNCHANGED <<server, tokens, others, signalled, strayed, last>>
      /\ \E label \in {"waiting", "request", "inflight"} : pc[c] # "ok" /\ Goto(c, label)
  BY DEF NextPrompt, ClientStep, Acquire, Granted, Send, BackoffElapsed, service
<1>2. Succeeding' = Succeeding
  BY <1>1, OthersKeepSucceeding
<1> QED BY <1>1, <1>2 DEF DemoInv, TokensTaken, FailuresHaveCause

\* An answer costs a token, and is one more prompt that was generated.
LEMMA AnswerKeeps ==
    ASSUME DemoInv, NEW c \in Calls, MockAnswers(c)
    PROVE  DemoTypeOK' /\ ClosedBySignal' /\ TokensTaken' /\ FailuresHaveCause'
<1>1. /\ tokens > 0 /\ tokens' = tokens - 1 /\ last' = last
      /\ UNCHANGED <<server, others, signalled, strayed>>
      /\ pc[c] = "inflight" /\ Goto(c, "ok")
  BY DEF MockAnswers, Succeeded, Return
<1>2. Cardinality(Succeeding') = Cardinality(Succeeding) + 1
  BY <1>1, OneMoreSucceeds
<1>3. tokens \in 0 .. Burst /\ Burst \in Nat /\ others \in Nat
  BY DemoAssumption DEF DemoInv, DemoTypeOK
<1>4. DemoTypeOK' /\ ClosedBySignal'
  BY <1>1, <1>3 DEF DemoInv, DemoTypeOK, ClosedBySignal
<1>5. TokensTaken'
  BY <1>1, <1>2, <1>3, SucceedingFinite DEF DemoInv, TokensTaken
<1>6. FailuresHaveCause'
  <2>1. Cardinality(Succeeding) + others >= Burst => Cardinality(Succeeding') + others >= Burst
    BY <1>2, <1>3, SucceedingFinite
  <2> QED BY <1>1, <2>1 DEF DemoInv, FailuresHaveCause
<1> QED BY <1>4, <1>5, <1>6

\* The mock refuses when the bucket is empty: as many requests as it holds were admitted.
LEMMA RefusalKeeps ==
    ASSUME DemoInv, NEW c \in Calls, MockRefuses(c)
    PROVE  TokensTaken' /\ FailuresHaveCause'
<1>1. /\ tokens = 0 /\ last' = [last EXCEPT ![c] = "client"]
      /\ UNCHANGED <<server, tokens, others, signalled, strayed>>
      /\ pc[c] = "inflight" /\ Goto(c, "failed")
  BY DEF MockRefuses, Refused, Return, service
<1>2. Succeeding' = Succeeding
  BY <1>1, OthersKeepSucceeding
<1>3. Cardinality(Succeeding) + others >= Burst
  BY <1>1, SucceedingFinite DEF DemoInv, DemoTypeOK, TokensTaken
<1>4. last \in [Calls -> Errors \union {"none"}]
  BY DEF DemoInv, Inv, TypeOK
<1> QED BY <1>1, <1>2, <1>3, <1>4 DEF DemoInv, TokensTaken, FailuresHaveCause

\* A request that meets no server any more fails in the network, during a shutdown.
LEMMA NoServerKeeps ==
    ASSUME DemoInv, NEW c \in Calls, NoServer(c)
    PROVE  TokensTaken' /\ FailuresHaveCause'
<1>1. /\ server = "closed" /\ last' = [last EXCEPT ![c] = "network"]
      /\ UNCHANGED <<server, tokens, others, signalled, strayed>>
      /\ pc[c] = "inflight" /\ \E label \in {"backoff", "failed"} : Goto(c, label)
  BY DEF NoServer, Retry, RetryUpTo, Return, service
<1>2. Succeeding' = Succeeding
  BY <1>1, OthersKeepSucceeding
<1>3. last \in [Calls -> Errors \union {"none"}]
  BY DEF DemoInv, Inv, TypeOK
<1> QED BY <1>1, <1>2, <1>3 DEF DemoInv, TokensTaken, FailuresHaveCause

\* A request that strays may succeed without a token, and is set apart whatever its answer.
LEMMA StrayKeeps ==
    ASSUME DemoInv, NEW c \in Calls, Strays(c)
    PROVE  DemoTypeOK' /\ ClosedBySignal' /\ TokensTaken' /\ FailuresHaveCause'
<1>1. /\ UNCHANGED <<server, tokens, others, signalled>> /\ strayed' = strayed \union {c}
      /\ pc[c] = "inflight"
      /\ last' = last \/ \E e \in Errors : last' = [last EXCEPT ![c] = e]
      /\ \E label \in {"ok", "backoff", "failed"} : Goto(c, label)
  BY DEF Strays, Succeeded, Refused, Retry, RetryUpTo, Return
<1>2. /\ Cardinality(Succeeding) \in Nat /\ Cardinality(Succeeding') \in Nat
      /\ Cardinality(Succeeding') >= Cardinality(Succeeding)
  <2>1. CASE Goto(c, "ok")
    BY <1>1, <2>1, OneMoreSucceeds, SucceedingFinite
  <2>2. CASE \E label \in {"backoff", "failed"} : Goto(c, label)
    <3>1. Succeeding' = Succeeding
      BY <1>1, <2>2, OthersKeepSucceeding
    <3> QED BY <3>1, SucceedingFinite
  <2> QED BY <1>1, <2>1, <2>2
<1>3. tokens \in 0 .. Burst /\ Burst \in Nat /\ others \in Nat
  BY DemoAssumption DEF DemoInv, DemoTypeOK
<1>4. DemoTypeOK' /\ ClosedBySignal'
  BY <1>1 DEF DemoInv, DemoTypeOK, ClosedBySignal
<1>5. TokensTaken'
  BY <1>1, <1>2, <1>3 DEF DemoInv, TokensTaken
<1>6. FailuresHaveCause'
  <2>1. \A d \in Calls \ strayed' : d \in Calls \ strayed /\ last'[d] = last[d]
    BY <1>1 DEF DemoInv, Inv, TypeOK
  <2>2. Cardinality(Succeeding) + others >= Burst => Cardinality(Succeeding') + others >= Burst
    BY <1>2, <1>3
  <2> QED BY <1>1, <2>1, <2>2 DEF DemoInv, FailuresHaveCause
<1> QED BY <1>4, <1>5, <1>6

LEMMA MoreIsEnough ==
    ASSUME NEW t \in Nat, NEW o \in Nat, NEW k \in Nat, NEW b \in Nat, t + k + o >= b,
           NEW t2 \in Nat, NEW o2 \in Nat, t2 + o2 >= t + o
    PROVE  t2 + o2 + k >= b /\ t2 + k + o2 >= b
OBVIOUS

\* Time, the signal, the server and the requests of others change nothing about the calls.
LEMMA ServiceKeeps ==
    ASSUME DemoInv, Bind \/ OtherRequest \/ Refill \/ Signal \/ ServerCloses
    PROVE  DemoTypeOK' /\ ClosedBySignal' /\ TokensTaken' /\ FailuresHaveCause'
<1>1. UNCHANGED <<vars, strayed>>
  BY DEF Bind, OtherRequest, Refill, Signal, ServerCloses
<1>2. Succeeding' = Succeeding /\ last' = last
  BY <1>1 DEF vars, Succeeding
<1>3. tokens \in 0 .. Burst /\ Burst \in Nat /\ others \in Nat
  BY DemoAssumption DEF DemoInv, DemoTypeOK
<1>4. /\ tokens' + others' >= tokens + others /\ tokens' \in 0 .. Burst
      /\ others' \in Nat /\ others' >= others
  BY <1>3 DEF Bind, OtherRequest, Refill, Signal, ServerCloses
<1>5. DemoTypeOK'
  BY <1>1, <1>4 DEF DemoInv, DemoTypeOK, Bind, OtherRequest, Refill, Signal, ServerCloses
<1>6. ClosedBySignal'
  BY DEF DemoInv, ClosedBySignal, Bind, OtherRequest, Refill, Signal, ServerCloses
<1>7. TokensTaken'
  <2>1. /\ tokens \in Nat /\ others \in Nat /\ Burst \in Nat
        /\ tokens' \in Nat /\ others' \in Nat /\ tokens' + others' >= tokens + others
    <3>1. tokens \in Nat /\ others \in Nat /\ Burst \in Nat
      BY <1>3
    <3>2. tokens' \in Nat /\ others' \in Nat
      BY <1>3, <1>4
    <3>3. tokens' + others' >= tokens + others
      BY <1>4
    <3> QED BY <3>1, <3>2, <3>3
  <2>2. tokens + Cardinality(Succeeding) + others >= Burst /\ Cardinality(Succeeding) \in Nat
    BY SucceedingFinite DEF DemoInv, TokensTaken
  <2>3. tokens' + Cardinality(Succeeding) + others' >= Burst
    BY <2>1, <2>2, MoreIsEnough
  <2> QED BY <1>2, <2>3 DEF TokensTaken
<1>8. server = "closed" => server' = "closed"
  BY DEF Bind, OtherRequest, Refill, Signal, ServerCloses
<1>9. Cardinality(Succeeding) + others >= Burst => Cardinality(Succeeding') + others' >= Burst
  BY <1>2, <1>3, <1>4, SucceedingFinite
<1>10. FailuresHaveCause'
  BY <1>1, <1>2, <1>8, <1>9 DEF DemoInv, FailuresHaveCause
<1> QED BY <1>5, <1>6, <1>7, <1>10

THEOREM DemoInvariance == DemoSpec => []DemoInv
<1>1. DemoInv /\ Inv' /\ [DemoNext]_demoVars => DemoInv'
  <2> SUFFICES ASSUME DemoInv, Inv', [DemoNext]_demoVars PROVE DemoInv'
    OBVIOUS
  <2>1. ASSUME NEW c \in Calls, NextPrompt(c) \/ ClientStep(c) \/ MockRefuses(c) \/ NoServer(c)
        PROVE  DemoInv'
    <3>1. UNCHANGED service
      BY <2>1 DEF NextPrompt, ClientStep, MockRefuses, NoServer
    <3>2. DemoTypeOK' /\ ClosedBySignal'
      BY <3>1 DEF DemoInv, DemoTypeOK, ClosedBySignal, service
    <3> QED BY <2>1, <3>2, ClientKeeps, RefusalKeeps, NoServerKeeps DEF DemoInv
  <2>2. ASSUME NEW c \in Calls, MockAnswers(c) \/ Strays(c) PROVE DemoInv'
    BY <2>2, AnswerKeeps, StrayKeeps DEF DemoInv
  <2>3. CASE Bind \/ OtherRequest \/ Refill \/ Signal \/ ServerCloses
    BY <2>3, ServiceKeeps DEF DemoInv
  <2>4. CASE UNCHANGED demoVars
    BY <2>4 DEF demoVars, vars, service, DemoInv, DemoTypeOK, TokensTaken, ClosedBySignal,
                FailuresHaveCause, Succeeding
  <2> QED BY <2>1, <2>2, <2>3, <2>4 DEF DemoNext, DemoStep
<1>2. Spec => []Inv
  BY Invariance
<1> QED BY <1>1, <1>2, DemoInitInv, DemoRefinesClient, PTL DEF DemoSpec

\* A prompt of the demo that met its server from the start fails only when a whole burst of
\* requests has been admitted, or the shutdown has taken the mock away and all retries were
\* made.
THEOREM DemoFailsOnlyWhenDue == DemoSpec => []FailsOnlyWhenDue
<1>1. DemoInv => FailsOnlyWhenDue
  <2> SUFFICES ASSUME DemoInv, NEW c \in Calls \ strayed, pc[c] = "failed"
               PROVE  \/ last[c] = "client" /\ Cardinality(Succeeding) + others >= Burst
                      \/ last[c] = "network" /\ signalled /\ sent[c] = MaxRetries + 1
    BY DEF FailsOnlyWhenDue
  <2>1. last[c] # "none" /\ (last[c] \in Retryable => sent[c] = MaxRetries + 1)
    BY DEF DemoInv, Inv, GivesUpOnlyWhenDue
  <2>2. CASE last[c] = "client"
    BY <2>2 DEF DemoInv, FailuresHaveCause
  <2>3. CASE last[c] = "network"
    BY <2>1, <2>3 DEF DemoInv, FailuresHaveCause, ClosedBySignal, Retryable
  <2> QED BY <2>1, <2>2, <2>3 DEF DemoInv, FailuresHaveCause
<1> QED BY <1>1, DemoInvariance, PTL
=============================================================================
