------------------------ MODULE HealthCheck_proofs ------------------------
(***************************************************************************)
(* Proofs about HealthCheck, for any number of requests and dependencies   *)
(* and any timeout: what a report of "ok" means, and when it is given.     *)
(***************************************************************************)
EXTENDS HealthCheck, TLAPS

\* A check that runs has seen what is up now and what it has found healthy.
Witnessed ==
    \A r \in checking, d \in Dependencies :
        status[d] = "up" \/ result[r][d] = "healthy" => d \in seenUp[r]

\* While every dependency has been up throughout, no tick has passed, so nothing has
\* timed out, and only a closed channel can have made a result unhealthy.
Undisturbed ==
    \A r \in checking : steady[r] =>
        /\ age[r] = 0
        /\ \A d \in Dependencies :
             /\ status[d] = "up"
             /\ result[r][d] = "unhealthy" => channel = "closed"

\* A check that runs has no report, so one that is dropped leaves none.
Unreported == \A r \in checking : report[r] = "none"

\* A check begins with nothing found out.
Forgotten ==
    \A r \in Requests \ checking :
        age[r] = 0 /\ \A d \in Dependencies : result[r][d] = "pending"

IInv ==
    /\ TypeOK /\ Witnessed /\ Undisturbed /\ Unreported /\ Forgotten
    /\ OkIsTrue /\ SteadyIsOkWhileOpen

LEMMA InitIInv == Init => IInv
<1> SUFFICES ASSUME Init PROVE IInv
  OBVIOUS
<1>1. TypeOK
  <2>1. orphan \in BOOLEAN
    BY DEF Init
  <2> QED
    BY <2>1, HealthAssumption DEF Init, TypeOK, Status, Results
<1>2. Witnessed /\ Undisturbed /\ Unreported /\ Forgotten
  BY DEF Init, Witnessed, Undisturbed, Unreported, Forgotten
<1>3. OkIsTrue /\ SteadyIsOkWhileOpen
  BY DEF Init, OkIsTrue, SteadyIsOkWhileOpen
<1> QED
  BY <1>1, <1>2, <1>3 DEF IInv

\* What a resolved check leaves alone, and what it writes.
LEMMA ResolveKeeps ==
  ASSUME IInv, NEW r \in Requests, NEW d \in Dependencies,
         NEW outcome \in {"healthy", "unhealthy"}, Resolve(r, d, outcome),
         outcome = "healthy" => status[d] = "up",
         steady[r] /\ outcome = "unhealthy" => channel' = "closed",
         channel' \in {"open", "closed"}, channel = "closed" => channel' = "closed",
         orphan' \in BOOLEAN
  PROVE  IInv'
<1>1. /\ r \in checking
      /\ result' = [result EXCEPT ![r][d] = outcome]
      /\ status' = status /\ seenUp' = seenUp /\ steady' = steady
      /\ checking' = checking /\ age' = age /\ report' = report
  BY DEF Resolve, world
<1>2. TypeOK'
  BY <1>1 DEF IInv, TypeOK, Results
<1>3. \A q \in Requests, e \in Dependencies :
        result'[q][e] = IF q = r /\ e = d THEN outcome ELSE result[q][e]
  BY <1>1 DEF IInv, TypeOK
<1>4. checking \subseteq Requests
  BY DEF IInv, TypeOK
<1>5. Witnessed'
  BY <1>1, <1>3, <1>4 DEF IInv, Witnessed
<1>6. Undisturbed'
  BY <1>1, <1>3, <1>4 DEF IInv, Undisturbed
<1>7. OkIsTrue' /\ SteadyIsOkWhileOpen'
  BY <1>1 DEF IInv, TypeOK, OkIsTrue, SteadyIsOkWhileOpen
<1>8. Forgotten' /\ Unreported'
  BY <1>1, <1>3 DEF IInv, Forgotten, Unreported
<1> QED
  BY <1>2, <1>5, <1>6, <1>7, <1>8 DEF IInv

LEMMA StartKeeps ==
  ASSUME IInv, NEW r \in Requests, CheckStarts(r)
  PROVE  IInv'
<1>1. TypeOK'
  BY DEF CheckStarts, IInv, TypeOK, Up, producer
<1>2. Witnessed'
  BY DEF CheckStarts, IInv, TypeOK, Witnessed, Forgotten, Up, producer
<1>4. Undisturbed'
  <2>1. /\ checking' = checking \union {r} /\ status' = status /\ channel' = channel
        /\ age' = age /\ result' = result
        /\ \A q \in Requests \ {r} : steady'[q] = steady[q]
    BY DEF CheckStarts, IInv, TypeOK, producer
  <2>2. steady'[r] => \A d \in Dependencies : status[d] = "up"
    BY DEF CheckStarts, IInv, TypeOK, Up
  <2>3. age[r] = 0 /\ \A d \in Dependencies : result[r][d] = "pending"
    BY DEF CheckStarts, IInv, Forgotten
  <2> QED
    BY <2>1, <2>2, <2>3 DEF IInv, TypeOK, Undisturbed
<1>5. Forgotten' /\ Unreported'
  BY DEF CheckStarts, IInv, TypeOK, Forgotten, Unreported, producer
<1>3. OkIsTrue' /\ SteadyIsOkWhileOpen'
  BY DEF CheckStarts, IInv, TypeOK, OkIsTrue, SteadyIsOkWhileOpen, producer
<1> QED
  BY <1>1, <1>2, <1>3, <1>4, <1>5 DEF IInv

LEMMA ReportKeeps ==
  ASSUME IInv, NEW r \in Requests, CheckReports(r)
  PROVE  IInv'
<1> USE DEF CheckReports, ReportIf, Forget, Healthy, world, producer
<1>1. TypeOK'
  BY HealthAssumption DEF IInv, TypeOK, Results
<1>2. Witnessed' /\ Undisturbed'
  BY DEF IInv, TypeOK, Witnessed, Undisturbed
<1>3. Forgotten' /\ Unreported'
  BY DEF IInv, TypeOK, Forgotten, Unreported
<1>4. OkIsTrue'
  <2>1. report'[r] = "ok" => seenUp[r] = Dependencies
    BY DEF IInv, TypeOK, Witnessed
  <2> QED
    BY <2>1 DEF IInv, TypeOK, OkIsTrue
<1>5. SteadyIsOkWhileOpen'
  <2>1. steady[r] /\ channel = "open" => report'[r] = "ok"
    BY DEF IInv, TypeOK, Results, Undisturbed
  <2> QED
    BY <2>1 DEF IInv, TypeOK, SteadyIsOkWhileOpen
<1> QED
  BY <1>1, <1>2, <1>3, <1>4, <1>5 DEF IInv

LEMMA HangUpKeeps ==
  ASSUME IInv, NEW r \in Requests, HangUp(r)
  PROVE  IInv'
<1> USE DEF HangUp, Forget
<1>1. TypeOK'
  <2>1. orphan' \in BOOLEAN
    BY DEF IInv, TypeOK, Orphaned
  <2> QED
    BY <2>1, HealthAssumption DEF IInv, TypeOK, Results
<1>2. Witnessed' /\ Undisturbed'
  BY DEF IInv, TypeOK, Witnessed, Undisturbed
<1>3. Forgotten' /\ Unreported'
  BY DEF IInv, TypeOK, Forgotten, Unreported
<1>4. OkIsTrue' /\ SteadyIsOkWhileOpen'
  <2>1. report[r] = "none" /\ ~steady'[r] /\ r \in checking
    BY DEF IInv, TypeOK, Unreported
  <2>2. \A q \in Requests \ {r} : seenUp'[q] = seenUp[q] /\ steady'[q] = steady[q]
    BY DEF IInv, TypeOK
  <2> QED
    BY <2>1, <2>2 DEF IInv, OkIsTrue, SteadyIsOkWhileOpen
<1> QED
  BY <1>1, <1>2, <1>3, <1>4 DEF IInv

\* Whoever waits for it, an answer of the broker at most closes the channel.
LEMMA OrphanKeeps ==
  ASSUME IInv, OrphanAnswers
  PROVE  IInv'
<1>1. /\ UNCHANGED <<status, seenUp, steady, checking, age, result, report>>
      /\ channel' \in {"open", "closed"} /\ channel = "open" /\ orphan' \in BOOLEAN
  BY DEF OrphanAnswers, Declared, world, answers
<1> QED
  BY <1>1 DEF IInv, TypeOK, Witnessed, Undisturbed, Unreported, Forgotten, OkIsTrue, SteadyIsOkWhileOpen

LEMMA ProbeKeeps ==
  ASSUME IInv, NEW r \in Requests, ProbeAnswers(r)
  PROVE  IInv'
<1>1. Downstream \in Dependencies /\ orphan' \in BOOLEAN
  BY HealthAssumption DEF ProbeAnswers, IInv, TypeOK
<1>2. CASE Declared /\ status[Downstream] = "up"
  <2>1. Resolve(r, Downstream, "healthy") /\ channel' = channel /\ channel' \in {"open", "closed"}
    BY <1>2 DEF ProbeAnswers, Declared
  <2> QED
    BY <1>1, <1>2, <2>1, ResolveKeeps
<1>3. CASE Declared /\ status[Downstream] # "up"
  <2>1. Resolve(r, Downstream, "unhealthy") /\ channel' = "closed"
    BY <1>1, <1>3 DEF ProbeAnswers, Declared, IInv, TypeOK, Status
  <2> QED
    BY <1>1, <2>1, ResolveKeeps
<1>4. CASE /\ channel = "closed"
           /\ Resolve(r, Downstream, "unhealthy")
           /\ UNCHANGED channel
  BY <1>1, <1>4, ResolveKeeps
<1> QED
  BY <1>2, <1>3, <1>4 DEF ProbeAnswers

LEMMA AnswerKeeps ==
  ASSUME IInv, NEW r \in Requests, NEW d \in Dependencies, CheckAnswers(r, d)
  PROVE  IInv'
<1>1. channel' = channel /\ channel \in {"open", "closed"} /\ orphan' \in BOOLEAN
  BY DEF CheckAnswers, IInv, TypeOK, producer
<1>2. CASE status[d] = "up"
  BY <1>1, <1>2, ResolveKeeps DEF CheckAnswers
<1>3. CASE status[d] # "up"
  <2>1. Resolve(r, d, "unhealthy")
    BY <1>3 DEF CheckAnswers
  <2>2. ~steady[r]
    BY <1>3, <2>1 DEF Resolve, IInv, Undisturbed
  <2> QED
    BY <1>1, <2>1, <2>2, ResolveKeeps
<1> QED
  BY <1>2, <1>3

\* A check that times out has seen a dependency fall silent: it is not steady.
LEMMA TimeoutKeeps ==
  ASSUME IInv, NEW r \in Requests, NEW d \in Dependencies, CheckTimesOut(r, d)
  PROVE  IInv'
<1>1. /\ channel' = channel /\ channel \in {"open", "closed"} /\ orphan' \in BOOLEAN
      /\ Resolve(r, d, "unhealthy")
  BY DEF CheckTimesOut, Orphaned, IInv, TypeOK
<1>2. ~steady[r]
  BY <1>1, HealthAssumption DEF CheckTimesOut, Resolve, IInv, Undisturbed
<1> QED
  BY <1>1, <1>2, ResolveKeeps

LEMMA TickKeeps ==
  ASSUME IInv, Tick
  PROVE  IInv'
<1>1. \A r \in checking : ~steady[r]
  BY DEF Tick, Silent, IInv, Undisturbed
<1>2. TypeOK'
  BY HealthAssumption DEF Tick, IInv, TypeOK, world, producer
<1>3. Witnessed' /\ Undisturbed'
  BY <1>1 DEF Tick, IInv, Witnessed, Undisturbed, world, producer
<1>4. OkIsTrue' /\ SteadyIsOkWhileOpen'
  BY DEF Tick, IInv, OkIsTrue, SteadyIsOkWhileOpen, world, producer
<1>5. Forgotten' /\ Unreported'
  BY DEF Tick, IInv, TypeOK, Forgotten, Unreported, world, producer
<1> QED
  BY <1>2, <1>3, <1>4, <1>5 DEF IInv

LEMMA ChangeKeeps ==
  ASSUME IInv, NEW d \in Dependencies, NEW s \in Status, Change(d, s)
  PROVE  IInv'
<1>1. TypeOK'
  BY DEF Change, IInv, TypeOK, answers, producer
<1>2. Witnessed'
  BY DEF Change, IInv, TypeOK, Witnessed, answers, producer
<1>3. Undisturbed'
  BY DEF Change, IInv, TypeOK, Undisturbed, answers, producer
<1>4. OkIsTrue' /\ SteadyIsOkWhileOpen'
  BY DEF Change, IInv, TypeOK, OkIsTrue, SteadyIsOkWhileOpen, answers, producer
<1>5. Forgotten' /\ Unreported'
  BY DEF Change, IInv, Forgotten, Unreported, answers, producer
<1> QED
  BY <1>1, <1>2, <1>3, <1>4, <1>5 DEF IInv

LEMMA NextIInv == IInv /\ [Next]_vars => IInv'
<1> SUFFICES ASSUME IInv, [Next]_vars
             PROVE  IInv'
  OBVIOUS
<1>1. CASE UNCHANGED vars
  BY <1>1 DEF vars, producer, IInv, TypeOK, Witnessed, Undisturbed, Unreported, Forgotten, OkIsTrue, SteadyIsOkWhileOpen
<1>2. ASSUME NEW r \in Requests, CheckStarts(r) PROVE IInv'
  BY <1>2, StartKeeps
<1>3. ASSUME NEW r \in Requests, Step(r) PROVE IInv'
  BY <1>3, ProbeKeeps, AnswerKeeps, TimeoutKeeps, ReportKeeps DEF Step
<1>4. CASE Tick \/ OrphanAnswers \/ \E r \in Requests : HangUp(r)
  BY <1>4, TickKeeps, OrphanKeeps, HangUpKeeps
<1>5. ASSUME NEW d \in Dependencies, NEW s \in Status, Change(d, s) PROVE IInv'
  BY <1>5, ChangeKeeps
<1> QED
  BY <1>1, <1>2, <1>3, <1>4, <1>5 DEF Next

LEMMA Invariance == Spec => []IInv
<1>1. Init => IInv
  BY InitIInv
<1>2. IInv /\ [Next]_vars => IInv'
  BY NextIInv
<1> QED
  BY <1>1, <1>2, PTL DEF Spec

\* Type correctness: in particular no check outlives its timeout.
THEOREM TypeCorrect == Spec => []TypeOK
<1>1. IInv => TypeOK
  BY DEF IInv
<1> QED
  BY <1>1, Invariance, PTL

\* A report of "ok" means that every dependency was up at some moment of that check.
THEOREM OkReportsAreTrue == Spec => []OkIsTrue
<1>1. IInv => OkIsTrue
  BY DEF IInv
<1> QED
  BY <1>1, Invariance, PTL

\* While the producer's channel is open, a check during which everything was up reports
\* "ok", whatever else runs beside it.
THEOREM SteadyReportsAreOk == Spec => []SteadyIsOkWhileOpen
<1>1. IInv => SteadyIsOkWhileOpen
  BY DEF IInv
<1> QED
  BY <1>1, Invariance, PTL
=============================================================================
