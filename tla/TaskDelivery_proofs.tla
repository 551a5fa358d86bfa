------------------------ MODULE TaskDelivery_proofs ------------------------
(***************************************************************************)
(* Proofs about TaskDelivery, for all messages, limits and sets of faults. *)
(*                                                                         *)
(* IInv is inductive.  Most steps disturb it in one of three ways, each    *)
(* with a lemma of its own: a quiet step leaves the deliveries alone, an   *)
(* advance moves one delivery the loop or a task is working on, and a cut  *)
(* ends the broker's view of the session.  The lemmas after them take the  *)
(* actions one by one.                                                     *)
(***************************************************************************)
EXTENDS TaskDeliveryProperties, FiniteSetTheorems, TLAPS

Phases == Active \union Sent \union Closed

\* No completion message appears or is forgotten.
CompletionsKept ==
    /\ completion' \in [Sessions -> [Tasks -> {"none", "wire", "queued", "lost"}]]
    /\ \A s \in Sessions, m \in Tasks :
          completion'[s][m] = "none" <=> completion[s][m] = "none"

\* The deliveries, the queue and the connection stay as they are.
Quiet ==
    /\ UNCHANGED <<queue, rows, phase, session, conn>>
    /\ CompletionsKept
    /\ loop = "acquire" => loop' = "acquire"

\* The process moves one delivery on; the broker has not been told yet.
Advance(m) ==
    /\ Phase(m) \in Active
    /\ \E p \in Active \union Sent \union {"lost"} :
          /\ Move(m, p)
          /\ p \in Sent => conn = "live"
          /\ p = "lost" => conn # "live"
    /\ UNCHANGED <<queue, session, conn>>

\* LoseCompletions only ever changes what was on the wire.
LEMMA LosingKeeps ==
    ASSUME TypeOK, NEW gone \in SUBSET OnWire, LoseCompletions(gone)
    PROVE  CompletionsKept
  BY DEF TypeOK, OnWire, LoseCompletions, CompletionsKept

\* A process that ends loses some of the completions on the wire and no other.
LEMMA ProcessEndKeeps ==
    ASSUME TypeOK, ProcessEnds
    PROVE  CompletionsKept
  BY LosingKeeps DEF ProcessEnds

\* The current session is one of Sessions as soon as it has a delivery.
LEMMA CurrentSession ==
    ASSUME TypeOK, NEW m \in Tasks, Phase(m) # "none"
    PROVE  session \in Sessions /\ Phase(m) = phase[session][m]
  BY ScopeAssumption DEF TypeOK, Phase, Sessions

\* Quiet steps preserve everything said of deliveries.
LEMMA QuietKeeps ==
    ASSUME IInv, Quiet
    PROVE  /\ OnlyCurrent' /\ QueueMatches' /\ SettledOnce'
           /\ Evidence' /\ AckedHasAttempt' /\ RedeliveryNeedsLoss'
<1> USE DEF Quiet, IInv
<1>1. OnlyCurrent'
  BY DEF OnlyCurrent
<1>2. QueueMatches'
  BY DEF QueueMatches
<1>3. SettledOnce'
  BY DEF SettledOnce
<1>4. Evidence'
  BY DEF Evidence, CompletionsKept
<1>5. AckedHasAttempt'
  BY DEF AckedHasAttempt
<1>6. RedeliveryNeedsLoss'
  BY DEF RedeliveryNeedsLoss
<1> QED BY <1>1, <1>2, <1>3, <1>4, <1>5, <1>6

\* An advance keeps the queue and the process in agreement: an acknowledged
\* attempt is none of those still moving.
LEMMA AdvanceKeeps ==
    ASSUME IInv, NEW m \in Tasks, Advance(m)
    PROVE  /\ phase' \in [Sessions -> [Tasks -> Phases]]
           /\ QueueMatches' /\ SettledOnce' /\ AckedHasAttempt' /\ RedeliveryNeedsLoss'
<1>1. session \in Sessions /\ Phase(m) = phase[session][m]
  BY CurrentSession DEF IInv, Advance, Active, Running
<1>2. PICK p \in Active \union Sent \union {"lost"} :
         /\ Move(m, p)
         /\ p \in Sent => conn = "live"
         /\ p = "lost" => conn # "live"
  BY DEF Advance
<1>3. /\ phase' = [phase EXCEPT ![session][m] = p]
      /\ phase[session][m] \in Active
      /\ UNCHANGED <<queue, session, conn>>
  BY <1>1, <1>2 DEF Move, Advance
<1>4. phase' \in [Sessions -> [Tasks -> Phases]]
  BY <1>1, <1>3 DEF IInv, TypeOK, Phases, Closed
<1>5. conn \in {"live", "lost"}
  BY <1>1, <1>3 DEF IInv, TypeOK, OnlyCurrent
<1>6. p \notin {"none", "acked", "nacked"} /\ (p = "lost" => p \notin Active \union Sent)
  BY DEF Active, Running, Sent
<1>7. phase[session][m] \notin {"none", "acked", "nacked", "lost", "dropped", "dead"}
  BY <1>3 DEF Active, Running
<1>8. QueueMatches'
  BY <1>1, <1>2, <1>3, <1>5, <1>6, <1>7 DEF IInv, TypeOK, QueueMatches
<1>9. SettledOnce'
  BY <1>1, <1>3, <1>6, <1>7 DEF IInv, TypeOK, SettledOnce
<1>10. AckedHasAttempt'
  <2> SUFFICES ASSUME NEW n \in Tasks, queue'[n] = "acked"
               PROVE  \E s \in Sessions : phase'[s][n] = "acked"
    BY DEF AckedHasAttempt
  <2>1. PICK s \in Sessions : phase[s][n] = "acked"
    BY <1>3 DEF IInv, AckedHasAttempt
  <2>2. phase'[s][n] = "acked"
    BY <1>1, <1>3, <1>7, <2>1 DEF IInv, TypeOK
  <2> QED BY <2>2
<1>11. RedeliveryNeedsLoss'
  <2> SUFFICES ASSUME NEW n \in Tasks, NEW s \in Sessions, NEW t \in Sessions,
                      s < t, phase'[t][n] # "none"
               PROVE  phase'[s][n] \in {"none", "dropped", "dead", "lost"}
    BY DEF RedeliveryNeedsLoss
  <2>1. phase[t][n] # "none"
    BY <1>1, <1>3, <1>7 DEF IInv, TypeOK
  <2>2. phase[s][n] \in {"none", "dropped", "dead", "lost"}
    BY <2>1 DEF IInv, RedeliveryNeedsLoss
  <2>3. phase'[s][n] = phase[s][n]
    BY <1>1, <1>3, <1>7, <2>2 DEF IInv, TypeOK
  <2> QED BY <2>2, <2>3
<1> QED BY <1>4, <1>8, <1>9, <1>10, <1>11

-----------------------------------------------------------------------------
\* The invariant holds before the first process starts.
LEMMA InitIInv == Init => IInv
<1> SUFFICES ASSUME Init PROVE IInv
  OBVIOUS
<1>1. TypeOK
  <2>1. session \in 0 .. MaxFaults + 1 /\ faults \in 0 .. MaxFaults /\ permits \in Nat
    BY ConfigValidated, ScopeAssumption DEF Init
  <2>2. queue \in [Tasks -> {"absent", "ready", "unacked", "acked", "discarded"}]
    BY DEF Init
  <2>3. completion \in [Sessions -> [Tasks -> {"none", "wire", "queued", "lost"}]]
    BY DEF Init
  <2>4. rows \in [Sessions -> SUBSET Tasks]
    BY DEF Init
  <2>5. phase \in [Sessions -> [Tasks -> Active \union Sent \union Closed]]
    BY DEF Init, Closed
  <2> QED BY <2>1, <2>2, <2>3, <2>4, <2>5 DEF Init, TypeOK
<1>2. Control
  BY DEF Init, Control
<1>3. OnlyCurrent /\ QueueMatches /\ SettledOnce /\ Evidence /\ AckedHasAttempt /\ RedeliveryNeedsLoss
  BY DEF Init, OnlyCurrent, QueueMatches, SettledOnce, Evidence, AckedHasAttempt,
         RedeliveryNeedsLoss, Active, Running, Sent
<1> QED BY <1>1, <1>2, <1>3 DEF IInv

-----------------------------------------------------------------------------
(* The steps that leave the deliveries alone.                              *)

\* A completion message reaches its queue.
LEMMA DeliverCompletionKeeps ==
    ASSUME IInv, NEW s \in Sessions, NEW m \in Tasks, DeliverCompletion(s, m)
    PROVE IInv'
<1> USE DEF DeliverCompletion, broker, process
<1>1. Quiet
  BY DEF IInv, TypeOK, Quiet, CompletionsKept
<1>2. TypeOK'
  BY <1>1, ConfigValidated, ScopeAssumption DEF IInv, TypeOK, Quiet, CompletionsKept, ProcessEnds
<1>3. Control'
  BY ScopeAssumption DEF IInv, TypeOK, Control, ProcessEnds
<1> QED BY <1>1, <1>2, <1>3, QuietKeeps DEF IInv

\* The producer loses its connection; the consumer does not notice.
LEMMA ProducerLostKeeps == ASSUME IInv, ProducerLost PROVE IInv'
<1> USE DEF ProducerLost, Fault, broker, process
<1>1. Quiet
  BY LosingKeeps DEF IInv, Quiet
<1>2. TypeOK'
  BY <1>1, ConfigValidated, ScopeAssumption DEF IInv, TypeOK, Quiet, CompletionsKept, ProcessEnds
<1>3. Control'
  BY ScopeAssumption DEF IInv, TypeOK, Control, ProcessEnds
<1> QED BY <1>1, <1>2, <1>3, QuietKeeps DEF IInv

\* A shutdown signal costs a fault, as the bound on sessions needs.
LEMMA SignalKeeps == ASSUME IInv, Signal PROVE IInv'
<1> USE DEF Signal, Fault, broker, process
<1>1. Quiet
  BY DEF IInv, TypeOK, Quiet, CompletionsKept
<1>2. TypeOK'
  BY <1>1, ConfigValidated, ScopeAssumption DEF IInv, TypeOK, Quiet, CompletionsKept, ProcessEnds
<1>3. Control'
  BY ScopeAssumption DEF IInv, TypeOK, Control, ProcessEnds
<1> QED BY <1>1, <1>2, <1>3, QuietKeeps DEF IInv

\* A new process starts with all permits and no session.
LEMMA StartKeeps == ASSUME IInv, Start PROVE IInv'
<1> USE DEF Start, broker, process
<1>1. Quiet
  BY DEF IInv, TypeOK, Quiet, CompletionsKept
<1>2. TypeOK'
  BY <1>1, ConfigValidated, ScopeAssumption DEF IInv, TypeOK, Quiet, CompletionsKept, ProcessEnds
<1>3. Control'
  BY ScopeAssumption DEF IInv, TypeOK, Control, ProcessEnds
<1> QED BY <1>1, <1>2, <1>3, QuietKeeps DEF IInv

\* The head of the loop, which ends the process or goes on to connect.
LEMMA CheckShutdownKeeps == ASSUME IInv, CheckShutdown PROVE IInv'
<1> USE DEF CheckShutdown, broker, process
<1>1. Quiet
  BY ProcessEndKeeps DEF IInv, TypeOK, Quiet, CompletionsKept, ProcessEnds
<1>2. TypeOK'
  BY <1>1, ConfigValidated, ScopeAssumption DEF IInv, TypeOK, Quiet, CompletionsKept, ProcessEnds
<1>3. Control'
  BY ScopeAssumption DEF IInv, TypeOK, Control, ProcessEnds
<1> QED BY <1>1, <1>2, <1>3, QuietKeeps DEF IInv

\* The shutdown ends the process in the middle of a reconnect delay.
LEMMA BackoffShutdownKeeps == ASSUME IInv, BackoffShutdown PROVE IInv'
<1> USE DEF BackoffShutdown, broker, process
<1>1. Quiet
  BY ProcessEndKeeps DEF IInv, TypeOK, Quiet, CompletionsKept, ProcessEnds
<1>2. TypeOK'
  BY <1>1, ConfigValidated, ScopeAssumption DEF IInv, TypeOK, Quiet, CompletionsKept, ProcessEnds
<1>3. Control'
  BY ScopeAssumption DEF IInv, TypeOK, Control, ProcessEnds
<1> QED BY <1>1, <1>2, <1>3, QuietKeeps DEF IInv

\* A failed connection opens no session.
LEMMA ConnectFailedKeeps == ASSUME IInv, ConnectFailed PROVE IInv'
<1> USE DEF ConnectFailed, broker, process
<1>1. Quiet
  BY DEF IInv, TypeOK, Quiet, CompletionsKept
<1>2. TypeOK'
  BY <1>1, ConfigValidated, ScopeAssumption DEF IInv, TypeOK, Quiet, CompletionsKept, ProcessEnds
<1>3. Control'
  BY ScopeAssumption DEF IInv, TypeOK, Control, ProcessEnds
<1> QED BY <1>1, <1>2, <1>3, QuietKeeps DEF IInv

\* The reconnect delay elapses.
LEMMA BackoffElapsedKeeps == ASSUME IInv, BackoffElapsed PROVE IInv'
<1> USE DEF BackoffElapsed, broker, process
<1>1. Quiet
  BY DEF IInv, TypeOK, Quiet, CompletionsKept
<1>2. TypeOK'
  BY <1>1, ConfigValidated, ScopeAssumption DEF IInv, TypeOK, Quiet, CompletionsKept, ProcessEnds
<1>3. Control'
  BY ScopeAssumption DEF IInv, TypeOK, Control, ProcessEnds
<1> QED BY <1>1, <1>2, <1>3, QuietKeeps DEF IInv

\* The loop stops taking deliveries once it sees the shutdown.
LEMMA SelectShutdownKeeps == ASSUME IInv, SelectShutdown PROVE IInv'
<1> USE DEF SelectShutdown, broker, process
<1>1. Quiet
  BY DEF IInv, TypeOK, Quiet, CompletionsKept
<1>2. TypeOK'
  BY <1>1, ConfigValidated, ScopeAssumption DEF IInv, TypeOK, Quiet, CompletionsKept, ProcessEnds
<1>3. Control'
  BY ScopeAssumption DEF IInv, TypeOK, Control, ProcessEnds
<1> QED BY <1>1, <1>2, <1>3, QuietKeeps DEF IInv

\* The loop leaves a dead session.
LEMMA SessionEndedKeeps == ASSUME IInv, SessionEnded PROVE IInv'
<1> USE DEF SessionEnded, broker, process
<1>1. Quiet
  BY DEF IInv, TypeOK, Quiet, CompletionsKept
<1>2. TypeOK'
  BY <1>1, ConfigValidated, ScopeAssumption DEF IInv, TypeOK, Quiet, CompletionsKept, ProcessEnds
<1>3. Control'
  BY ScopeAssumption DEF IInv, TypeOK, Control, ProcessEnds
<1> QED BY <1>1, <1>2, <1>3, QuietKeeps DEF IInv

-----------------------------------------------------------------------------
(* The steps of the loop and of a task on one delivery.                    *)

\* The loop takes a delivery: it held none before, as it stood in select!.
LEMMA TakeTaskKeeps == ASSUME IInv, NEW m \in Tasks, TakeTask(m) PROVE IInv'
<1> USE DEF TakeTask, broker, process
<1>0. Phase(m) # "none" /\ Phase(m) \in Active
  BY DEF Active, Running
<1>1. session \in Sessions /\ Phase(m) = phase[session][m] /\ conn \in {"live", "lost"}
  BY <1>0, CurrentSession DEF IInv, TypeOK, OnlyCurrent
<1>2. Advance(m)
  BY <1>0, <1>1 DEF Advance, Move, Active, Running, Sent
<1>3. TypeOK'
  BY <1>1, <1>2, AdvanceKeeps DEF IInv, TypeOK, Phases
<1>4. Control'
  BY DEF IInv, Control
<1>5. OnlyCurrent'
  BY <1>1 DEF Move, IInv, TypeOK, OnlyCurrent, Active, Running, Sent
<1>6. Evidence'
  BY <1>1 DEF Move, IInv, TypeOK, Evidence
<1> QED BY <1>2, <1>3, <1>4, <1>5, <1>6, AdvanceKeeps DEF IInv

\* The loop refuses a malformed message.
LEMMA TakeMalformedKeeps == ASSUME IInv, NEW m \in Tasks, TakeMalformed(m) PROVE IInv'
<1> USE DEF TakeMalformed, broker, process
<1>0. Phase(m) # "none" /\ Phase(m) \in Active
  BY DEF Active, Running
<1>1. session \in Sessions /\ Phase(m) = phase[session][m] /\ conn \in {"live", "lost"}
  BY <1>0, CurrentSession DEF IInv, TypeOK, OnlyCurrent
<1>2. Advance(m)
  <2>1. UNCHANGED <<queue, session, conn>> /\ Move(m, SettleFrame("nack_sent"))
    OBVIOUS
  <2>2. CASE conn = "live"
    <3>1. Move(m, "nack_sent")
      BY <2>1, <2>2 DEF SettleFrame
    <3> QED BY <1>0, <2>1, <2>2, <3>1 DEF Advance, Sent
  <2>3. CASE conn = "lost"
    <3>1. Move(m, "lost")
      BY <2>1, <2>3 DEF SettleFrame
    <3> QED BY <1>0, <2>1, <2>3, <3>1 DEF Advance, Sent
  <2> QED BY <1>1, <2>2, <2>3
<1>3. TypeOK'
  BY <1>1, <1>2, AdvanceKeeps DEF IInv, TypeOK, Phases
<1>4. Control'
  BY DEF IInv, Control
<1>5. OnlyCurrent'
  BY <1>1 DEF Move, SettleFrame, IInv, TypeOK, OnlyCurrent, Active, Running, Sent
<1>6. Evidence'
  BY <1>1 DEF Move, SettleFrame, IInv, TypeOK, Evidence
<1> QED BY <1>2, <1>3, <1>4, <1>5, <1>6, AdvanceKeeps DEF IInv

\* The loop hands the one delivery it holds to a task.
LEMMA AcquirePermitKeeps == ASSUME IInv, NEW m \in Tasks, AcquirePermit(m) PROVE IInv'
<1> USE DEF AcquirePermit, broker, process
<1>0. Phase(m) # "none" /\ Phase(m) \in Active
  BY DEF Active, Running
<1>1. session \in Sessions /\ Phase(m) = phase[session][m] /\ conn \in {"live", "lost"}
  BY <1>0, CurrentSession DEF IInv, TypeOK, OnlyCurrent
<1>2. Advance(m)
  BY <1>0, <1>1 DEF Advance, Move, Active, Running, Sent
<1>3. TypeOK'
  BY <1>1, <1>2, AdvanceKeeps DEF IInv, TypeOK, Phases
<1>4. Control'
  BY DEF IInv, Control
<1>5. OnlyCurrent'
  BY <1>1 DEF Move, IInv, TypeOK, OnlyCurrent, Active, Running, Sent
<1>6. Evidence'
  BY <1>1 DEF Move, IInv, TypeOK, Evidence
<1> QED BY <1>2, <1>3, <1>4, <1>5, <1>6, AdvanceKeeps DEF IInv

\* The script is fetched and its prompts are generated.
LEMMA PrepareKeeps == ASSUME IInv, NEW m \in Tasks, Prepare(m) PROVE IInv'
<1> USE DEF Prepare, broker, process
<1>0. Phase(m) # "none" /\ Phase(m) \in Active
  BY DEF Active, Running
<1>1. session \in Sessions /\ Phase(m) = phase[session][m] /\ conn \in {"live", "lost"}
  BY <1>0, CurrentSession DEF IInv, TypeOK, OnlyCurrent
<1>2. Advance(m)
  BY <1>0, <1>1 DEF Advance, Move, Active, Running, Sent
<1>3. TypeOK'
  BY <1>1, <1>2, AdvanceKeeps DEF IInv, TypeOK, Phases
<1>4. Control'
  BY DEF IInv, Control
<1>5. OnlyCurrent'
  BY <1>1 DEF Move, IInv, TypeOK, OnlyCurrent, Active, Running, Sent
<1>6. Evidence'
  BY <1>1 DEF Move, IInv, TypeOK, Evidence
<1> QED BY <1>2, <1>3, <1>4, <1>5, <1>6, AdvanceKeeps DEF IInv

\* The rows are committed.
LEMMA InsertKeeps == ASSUME IInv, NEW m \in Tasks, Insert(m) PROVE IInv'
<1> USE DEF Insert, broker, process
<1>0. Phase(m) # "none" /\ Phase(m) \in Active
  BY DEF Active, Running
<1>1. session \in Sessions /\ Phase(m) = phase[session][m] /\ conn \in {"live", "lost"}
  BY <1>0, CurrentSession DEF IInv, TypeOK, OnlyCurrent
<1>2. Advance(m)
  BY <1>0, <1>1 DEF Advance, Move, Active, Running, Sent
<1>3. TypeOK'
  BY <1>1, <1>2, AdvanceKeeps DEF IInv, TypeOK, Phases
<1>4. Control'
  BY DEF IInv, Control
<1>5. OnlyCurrent'
  BY <1>1 DEF Move, IInv, TypeOK, OnlyCurrent, Active, Running, Sent
<1>6. Evidence'
  BY <1>1 DEF Move, IInv, TypeOK, Evidence
<1> QED BY <1>2, <1>3, <1>4, <1>5, <1>6, AdvanceKeeps DEF IInv

\* The insert fails, with or without rows committed.
LEMMA InsertFailedKeeps == ASSUME IInv, NEW m \in Tasks, InsertFailed(m) PROVE IInv'
<1> USE DEF InsertFailed, broker, process
<1>0. Phase(m) # "none" /\ Phase(m) \in Active
  BY DEF Active, Running
<1>1. session \in Sessions /\ Phase(m) = phase[session][m] /\ conn \in {"live", "lost"}
  BY <1>0, CurrentSession DEF IInv, TypeOK, OnlyCurrent
<1>2. Advance(m)
  BY <1>0, <1>1 DEF Advance, Move, Active, Running, Sent
<1>3. TypeOK'
  BY <1>1, <1>2, AdvanceKeeps DEF IInv, TypeOK, Phases
<1>4. Control'
  BY DEF IInv, Control
<1>5. OnlyCurrent'
  BY <1>1 DEF Move, IInv, TypeOK, OnlyCurrent, Active, Running, Sent
<1>6. Evidence'
  BY <1>1 DEF Move, IInv, TypeOK, Evidence
<1> QED BY <1>2, <1>3, <1>4, <1>5, <1>6, AdvanceKeeps DEF IInv

\* The completion message is sent for rows that are stored.
LEMMA PublishKeeps == ASSUME IInv, NEW m \in Tasks, Publish(m) PROVE IInv'
<1> USE DEF Publish, broker, process
<1>0. Phase(m) # "none" /\ Phase(m) \in Active
  BY DEF Active, Running
<1>1. session \in Sessions /\ Phase(m) = phase[session][m] /\ conn \in {"live", "lost"}
  BY <1>0, CurrentSession DEF IInv, TypeOK, OnlyCurrent
<1>2. Advance(m)
  BY <1>0, <1>1 DEF Advance, Move, Active, Running, Sent
<1>3. TypeOK'
  BY <1>1, <1>2, AdvanceKeeps DEF IInv, TypeOK, Phases
<1>4. Control'
  BY DEF IInv, Control
<1>5. OnlyCurrent'
  BY <1>1 DEF Move, IInv, TypeOK, OnlyCurrent, Active, Running, Sent
<1>6. Evidence'
  BY <1>1 DEF Move, IInv, TypeOK, Evidence
<1> QED BY <1>2, <1>3, <1>4, <1>5, <1>6, AdvanceKeeps DEF IInv

\* The publish returns; only what was sent can have succeeded.
LEMMA PublishedKeeps == ASSUME IInv, NEW m \in Tasks, Published(m) PROVE IInv'
<1> USE DEF Published, broker, process
<1>0. Phase(m) # "none" /\ Phase(m) \in Active
  BY DEF Active, Running
<1>1. session \in Sessions /\ Phase(m) = phase[session][m] /\ conn \in {"live", "lost"}
  BY <1>0, CurrentSession DEF IInv, TypeOK, OnlyCurrent
<1>2. Advance(m)
  BY <1>0, <1>1 DEF Advance, Move, Active, Running, Sent
<1>3. TypeOK'
  BY <1>1, <1>2, AdvanceKeeps DEF IInv, TypeOK, Phases
<1>4. Control'
  BY DEF IInv, Control
<1>5. OnlyCurrent'
  BY <1>1 DEF Move, IInv, TypeOK, OnlyCurrent, Active, Running, Sent
<1>6. Evidence'
  BY <1>1 DEF Move, IInv, TypeOK, Evidence
<1> QED BY <1>2, <1>3, <1>4, <1>5, <1>6, AdvanceKeeps DEF IInv

\* The task settles its delivery, which fails on a dead channel.
LEMMA SettleKeeps == ASSUME IInv, NEW m \in Tasks, Settle(m) PROVE IInv'
<1> USE DEF Settle, broker, process
<1>0. Phase(m) # "none" /\ Phase(m) \in Active
  BY DEF Active, Running
<1>1. session \in Sessions /\ Phase(m) = phase[session][m] /\ conn \in {"live", "lost"}
  BY <1>0, CurrentSession DEF IInv, TypeOK, OnlyCurrent
<1>2. Advance(m)
  BY <1>0, <1>1 DEF Advance, Move, SettleFrame, Active, Running, Sent
<1>3. TypeOK'
  BY <1>1, <1>2, AdvanceKeeps DEF IInv, TypeOK, Phases
<1>4. Control'
  BY DEF IInv, Control
<1>5. OnlyCurrent'
  BY <1>1 DEF Move, SettleFrame, IInv, TypeOK, OnlyCurrent, Active, Running, Sent
<1>6. Evidence'
  BY <1>1 DEF Move, SettleFrame, IInv, TypeOK, Evidence
<1> QED BY <1>2, <1>3, <1>4, <1>5, <1>6, AdvanceKeeps DEF IInv

-----------------------------------------------------------------------------
(* The steps of the broker.                                                *)

\* A new message has no delivery yet.
LEMMA SubmitKeeps == ASSUME IInv, NEW m \in Tasks, Submit(m) PROVE IInv'
<1> USE ConfigValidated, ScopeAssumption
        DEF IInv, TypeOK, Sessions, Active, Running, Sent, Submit, broker, process
<1>0. CompletionsKept
  BY DEF CompletionsKept
<1>1. TypeOK'
  BY <1>0 DEF Control, Closed, CompletionsKept
<1>2. Control'
  BY DEF Control
<1>3. OnlyCurrent'
  BY DEF Control, OnlyCurrent
<1>4. QueueMatches'
  BY DEF Control, OnlyCurrent, QueueMatches, SettledOnce
<1>5. SettledOnce'
  BY DEF Control, OnlyCurrent, QueueMatches, SettledOnce
<1>6. Evidence'
  BY <1>0 DEF OnlyCurrent, QueueMatches, Evidence, CompletionsKept
<1>7. AckedHasAttempt'
  BY DEF AckedHasAttempt, OnlyCurrent
<1>8. RedeliveryNeedsLoss'
  BY DEF Control, OnlyCurrent, QueueMatches, SettledOnce, RedeliveryNeedsLoss
<1> QED BY <1>1, <1>2, <1>3, <1>4, <1>5, <1>6, <1>7, <1>8

\* The broker delivers a message new to the session; earlier deliveries were cut short.
LEMMA PushKeeps == ASSUME IInv, NEW m \in Tasks, Push(m) PROVE IInv'
<1> USE ConfigValidated, ScopeAssumption
        DEF IInv, TypeOK, Sessions, Active, Running, Sent, Push, Move, process
<1>0. CompletionsKept
  BY DEF CompletionsKept
<1>1. TypeOK'
  BY <1>0 DEF Control, Closed, CompletionsKept
<1>2. Control'
  BY DEF Control
<1>3. OnlyCurrent'
  BY DEF Control, OnlyCurrent
<1>4. QueueMatches'
  BY DEF Control, OnlyCurrent, QueueMatches, SettledOnce
<1>5. SettledOnce'
  BY DEF Control, OnlyCurrent, QueueMatches, SettledOnce
<1>6. Evidence'
  BY <1>0 DEF OnlyCurrent, QueueMatches, Evidence, CompletionsKept
<1>7. AckedHasAttempt'
  BY DEF AckedHasAttempt, OnlyCurrent
<1>8. RedeliveryNeedsLoss'
  <2> SUFFICES ASSUME NEW n \in Tasks, NEW s \in Sessions, NEW t \in Sessions,
                      s < t, phase'[t][n] # "none"
               PROVE  phase'[s][n] \in {"none", "dropped", "dead", "lost"}
    BY DEF RedeliveryNeedsLoss
  <2>1. session \in Sessions
    BY DEF Control
  <2>2. CASE t = session /\ n = m
    <3>1. phase'[s][n] = phase[s][n] /\ phase[s][n] \notin Active \union Sent
      BY <2>1, <2>2 DEF OnlyCurrent
    <3>2. phase[s][n] \notin {"acked", "nacked"}
      BY <2>2 DEF SettledOnce
    <3> QED BY <3>1, <3>2 DEF Closed
  <2>3. CASE ~(t = session /\ n = m)
    <3>1. phase[t][n] # "none"
      BY <2>1, <2>3
    <3>2. phase[s][n] \in {"none", "dropped", "dead", "lost"}
      BY <3>1 DEF RedeliveryNeedsLoss
    <3>3. ~(s = session /\ n = m)
      BY <3>1 DEF OnlyCurrent
    <3> QED BY <2>1, <3>2, <3>3
  <2> QED BY <2>2, <2>3
<1> QED BY <1>1, <1>2, <1>3, <1>4, <1>5, <1>6, <1>7, <1>8

\* The broker applies a settlement; it can only come from the live session.
LEMMA SettlementKeeps == ASSUME IInv, NEW m \in Tasks, Settlement(m) PROVE IInv'
<1> USE ConfigValidated, ScopeAssumption
        DEF IInv, TypeOK, Sessions, Active, Running, Sent, Settlement, Move, Phase, process
<1>0. CompletionsKept
  BY DEF CompletionsKept
<1>1. TypeOK'
  BY <1>0 DEF Control, Closed, CompletionsKept
<1>2. Control'
  BY DEF Control
<1>3. OnlyCurrent'
  BY DEF Control, OnlyCurrent
<1>4. QueueMatches'
  BY DEF Control, OnlyCurrent, QueueMatches, SettledOnce
<1>5. SettledOnce'
  BY DEF Control, OnlyCurrent, QueueMatches, SettledOnce
<1>6. Evidence'
  BY <1>0 DEF OnlyCurrent, QueueMatches, Evidence, CompletionsKept
<1>7. AckedHasAttempt'
  BY DEF AckedHasAttempt, OnlyCurrent
<1>8. RedeliveryNeedsLoss'
  BY DEF Control, OnlyCurrent, QueueMatches, SettledOnce, RedeliveryNeedsLoss
<1> QED BY <1>1, <1>2, <1>3, <1>4, <1>5, <1>6, <1>7, <1>8

\* A new session starts empty.
LEMMA ConnectedKeeps == ASSUME IInv, Connected PROVE IInv'
<1> USE ConfigValidated, ScopeAssumption
        DEF IInv, TypeOK, Sessions, Active, Running, Sent, Connected, broker
<1>0. CompletionsKept
  BY DEF CompletionsKept
<1>1. TypeOK'
  BY <1>0 DEF Control, Closed, CompletionsKept
<1>2. Control'
  BY DEF Control
<1>3. OnlyCurrent'
  BY DEF Control, OnlyCurrent
<1>4. QueueMatches'
  BY DEF Control, OnlyCurrent, QueueMatches, SettledOnce
<1>5. SettledOnce'
  BY DEF Control, OnlyCurrent, QueueMatches, SettledOnce
<1>6. Evidence'
  BY <1>0 DEF OnlyCurrent, QueueMatches, Evidence, CompletionsKept
<1>7. AckedHasAttempt'
  BY DEF AckedHasAttempt, OnlyCurrent
<1>8. RedeliveryNeedsLoss'
  BY DEF Control, OnlyCurrent, QueueMatches, SettledOnce, RedeliveryNeedsLoss
<1> QED BY <1>1, <1>2, <1>3, <1>4, <1>5, <1>6, <1>7, <1>8

-----------------------------------------------------------------------------
(* The steps that end a connection.                                        *)

\* The connection breaks under buffered, held and running deliveries.
LEMMA ConsumerLostKeeps == ASSUME IInv, ConsumerLost PROVE IInv'
<1> USE ConfigValidated, ScopeAssumption
        DEF IInv, TypeOK, Sessions, Active, Running, Sent, ConsumerLost, Fault, Requeued, EndDeliveries, Cut
<1>0. CompletionsKept
  BY DEF CompletionsKept
<1>1. TypeOK'
  BY <1>0 DEF Control, Closed, CompletionsKept
<1>2. Control'
  BY DEF Control
<1>3. OnlyCurrent'
  BY DEF Control, OnlyCurrent
<1>4. QueueMatches'
  BY DEF Control, OnlyCurrent, QueueMatches, SettledOnce
<1>5. SettledOnce'
  BY DEF Control, OnlyCurrent, QueueMatches, SettledOnce
<1>6. Evidence'
  BY <1>0 DEF OnlyCurrent, QueueMatches, Evidence, CompletionsKept
<1>7. AckedHasAttempt'
  BY DEF AckedHasAttempt, OnlyCurrent
<1>8. RedeliveryNeedsLoss'
  BY DEF Control, OnlyCurrent, QueueMatches, SettledOnce, RedeliveryNeedsLoss
<1> QED BY <1>1, <1>2, <1>3, <1>4, <1>5, <1>6, <1>7, <1>8

\* A broker restart breaks both connections.
LEMMA BrokerRestartKeeps == ASSUME IInv, BrokerRestart PROVE IInv'
<1> USE ConfigValidated, ScopeAssumption
        DEF IInv, TypeOK, Sessions, Active, Running, Sent, BrokerRestart, Fault, Requeued, EndDeliveries, Cut
<1>0. CompletionsKept
  BY LosingKeeps
<1>1. TypeOK'
  BY <1>0 DEF Control, Closed, CompletionsKept
<1>2. Control'
  BY DEF Control
<1>3. OnlyCurrent'
  BY DEF Control, OnlyCurrent
<1>4. QueueMatches'
  BY DEF Control, OnlyCurrent, QueueMatches, SettledOnce
<1>5. SettledOnce'
  BY DEF Control, OnlyCurrent, QueueMatches, SettledOnce
<1>6. Evidence'
  BY <1>0 DEF OnlyCurrent, QueueMatches, Evidence, CompletionsKept
<1>7. AckedHasAttempt'
  BY DEF AckedHasAttempt, OnlyCurrent
<1>8. RedeliveryNeedsLoss'
  BY DEF Control, OnlyCurrent, QueueMatches, SettledOnce, RedeliveryNeedsLoss
<1> QED BY <1>1, <1>2, <1>3, <1>4, <1>5, <1>6, <1>7, <1>8

\* The process dies: all deliveries of the session end with it.
LEMMA CrashKeeps == ASSUME IInv, Crash PROVE IInv'
<1> USE ConfigValidated, ScopeAssumption
        DEF IInv, TypeOK, Sessions, Active, Running, Sent, Crash, ProcessEnds, Fault, Requeued, EndDeliveries, Cut,
            CutAndDropped, CutAndKilled
<1>0. CompletionsKept
  BY ProcessEndKeeps
<1>1. TypeOK'
  BY <1>0 DEF Control, Closed, CompletionsKept
<1>2. Control'
  BY DEF Control
<1>3. OnlyCurrent'
  BY DEF Control, OnlyCurrent
<1>4. QueueMatches'
  BY DEF Control, OnlyCurrent, QueueMatches, SettledOnce
<1>5. SettledOnce'
  BY DEF Control, OnlyCurrent, QueueMatches, SettledOnce
<1>6. Evidence'
  BY <1>0 DEF OnlyCurrent, QueueMatches, Evidence, CompletionsKept
<1>7. AckedHasAttempt'
  BY DEF AckedHasAttempt, OnlyCurrent
<1>8. RedeliveryNeedsLoss'
  BY DEF Control, OnlyCurrent, QueueMatches, SettledOnce, RedeliveryNeedsLoss
<1> QED BY <1>1, <1>2, <1>3, <1>4, <1>5, <1>6, <1>7, <1>8

\* A drained session is closed: no task of it is left running.
LEMMA CloseSessionKeeps == ASSUME IInv, CloseSession PROVE IInv'
<1> USE ConfigValidated, ScopeAssumption
        DEF IInv, TypeOK, Sessions, Active, Running, Sent, CloseSession, EndSession, Idle, RunningTasks, Phase, ProcessEnds, Requeued,
            EndDeliveries, Cut, CutAndDropped
<1>0. CompletionsKept
  BY ProcessEndKeeps DEF CompletionsKept
<1>1. TypeOK'
  BY <1>0 DEF Control, Closed, CompletionsKept
<1>2. Control'
  BY DEF Control
<1>3. OnlyCurrent'
  BY DEF Control, OnlyCurrent
<1>4. QueueMatches'
  BY DEF Control, OnlyCurrent, QueueMatches, SettledOnce
<1>5. SettledOnce'
  BY DEF Control, OnlyCurrent, QueueMatches, SettledOnce
<1>6. Evidence'
  BY <1>0 DEF OnlyCurrent, QueueMatches, Evidence, CompletionsKept
<1>7. AckedHasAttempt'
  BY DEF AckedHasAttempt, OnlyCurrent
<1>8. RedeliveryNeedsLoss'
  BY DEF Control, OnlyCurrent, QueueMatches, SettledOnce, RedeliveryNeedsLoss
<1> QED BY <1>1, <1>2, <1>3, <1>4, <1>5, <1>6, <1>7, <1>8

-----------------------------------------------------------------------------
(* The invariant.                                                          *)

\* Every step preserves the invariant.
LEMMA StepIInv == ASSUME IInv, [Next]_vars PROVE IInv'
<1>1. CASE External
  <2>1. ASSUME NEW m \in Tasks, Submit(m) \/ Push(m) \/ Settlement(m) PROVE IInv'
    BY <2>1, SubmitKeeps, PushKeeps, SettlementKeeps
  <2>2. ASSUME NEW s \in Sessions, NEW m \in Tasks, DeliverCompletion(s, m) PROVE IInv'
    BY <2>2, DeliverCompletionKeeps
  <2> QED BY <1>1, <2>1, <2>2 DEF External
<1>2. CASE AnyFault
  BY <1>2, ConsumerLostKeeps, ProducerLostKeeps, BrokerRestartKeeps, SignalKeeps, CrashKeeps
     DEF AnyFault
<1>3. CASE Start \/ Connected \/ ConnectFailed
  BY <1>3, StartKeeps, ConnectedKeeps, ConnectFailedKeeps
<1>4. CASE ConsumerStep
  <2>1. ASSUME NEW m \in Tasks, TakeTask(m) \/ TakeMalformed(m) \/ AcquirePermit(m) PROVE IInv'
    BY <2>1, TakeTaskKeeps, TakeMalformedKeeps, AcquirePermitKeeps
  <2>2. ASSUME CheckShutdown \/ BackoffElapsed \/ BackoffShutdown PROVE IInv'
    BY <2>2, CheckShutdownKeeps, BackoffElapsedKeeps, BackoffShutdownKeeps
  <2>3. ASSUME SelectShutdown \/ SessionEnded \/ CloseSession PROVE IInv'
    BY <2>3, SelectShutdownKeeps, SessionEndedKeeps, CloseSessionKeeps
  <2> QED BY <1>4, <2>1, <2>2, <2>3 DEF ConsumerStep
<1>5. ASSUME NEW m \in Tasks, TaskStep(m) PROVE IInv'
  BY <1>5, PrepareKeeps, InsertKeeps, InsertFailedKeeps, PublishKeeps, PublishedKeeps,
     SettleKeeps DEF TaskStep
<1>6. CASE UNCHANGED vars
  <2> USE <1>6 DEF vars, IInv
  <2>1. TypeOK' /\ Control'
    BY DEF TypeOK, Control
  <2>2. Quiet
    BY DEF Quiet, CompletionsKept, TypeOK
  <2> QED BY <2>1, <2>2, QuietKeeps
<1> QED BY <1>1, <1>2, <1>3, <1>4, <1>5, <1>6 DEF Next

\* The inductive invariant holds in every reachable state, for any messages,
\* limits, faults and failures: what the queue shows and what the process
\* believes of its deliveries never disagree.
THEOREM Invariance == Spec => []IInv
<1>1. Init => IInv
  BY InitIInv
<1>2. IInv /\ [Next]_vars => IInv'
  BY StepIInv
<1> QED BY <1>1, <1>2, PTL DEF Spec

\* Every variable stays in its range; of the sessions, MaxFaults + 1 are enough:
\* no session ends without a fault that was counted.
THEOREM TypeCorrect == Spec => []TypeOK
<1>1. IInv => TypeOK
  BY DEF IInv
<1> QED BY <1>1, Invariance, PTL

\* An acknowledged task was stored and announced by the acknowledged attempt.
THEOREM AckedIsDone == Spec => []AckedWorkIsDone
<1>1. IInv => AckedWorkIsDone
  <2> SUFFICES ASSUME IInv, NEW m \in Tasks, queue[m] = "acked"
               PROVE  \E s \in Sessions : /\ phase[s][m] = "acked" /\ m \in rows[s]
                                          /\ completion[s][m] # "none"
    BY DEF AckedWorkIsDone
  <2>1. PICK s \in Sessions : phase[s][m] = "acked"
    BY DEF IInv, AckedHasAttempt
  <2>2. m \in rows[s] /\ completion[s][m] # "none"
    BY <2>1 DEF IInv, Evidence
  <2> QED BY <2>1, <2>2
<1> QED BY <1>1, Invariance, PTL

\* No two attempts at a task overlap, and none outlives the task's settlement.
THEOREM AttemptsAreExclusive == Spec => []ExclusiveAttempt
<1>1. IInv => ExclusiveAttempt
  <2> SUFFICES ASSUME IInv, NEW m \in Tasks, NEW s \in Sessions, phase[s][m] \in Active
               PROVE  /\ queue[m] \in {"ready", "unacked"}
                      /\ \A t \in Sessions \ {s} : phase[t][m] \notin Active \union Sent
    BY DEF ExclusiveAttempt
  <2>1. s = session /\ conn \in {"live", "lost"}
    BY DEF IInv, TypeOK, OnlyCurrent
  <2>2. queue[m] \in {"ready", "unacked"}
    BY <2>1 DEF IInv, QueueMatches
  <2>3. \A t \in Sessions \ {s} : phase[t][m] \notin Active \union Sent
    BY <2>1 DEF IInv, OnlyCurrent
  <2> QED BY <2>2, <2>3
<1> QED BY <1>1, Invariance, PTL

\* A message is redelivered only after its earlier delivery was cut short.
THEOREM RedeliveriesNeedLoss == Spec => []RedeliveryNeedsLoss
<1>1. IInv => RedeliveryNeedsLoss
  BY DEF IInv
<1> QED BY <1>1, Invariance, PTL

-----------------------------------------------------------------------------
(* The promise of AtLeastOnce is kept.                                     *)

\* A step that settles nothing, stores nothing and announces nothing is a
\* stuttering step of the promise.
LEMMA Stutters ==
    ASSUME UNCHANGED rows, CompletionsKept,
           \A m \in Tasks : StatusOf[queue'[m]] = StatusOf[queue[m]]
    PROVE  UNCHANGED <<Status, Saved, Announced>>
  BY DEF Status, Saved, Announced, CompletionsKept

\* Completions left alone are kept.
LEMMA KeptWhenUnchanged == ASSUME TypeOK, UNCHANGED completion PROVE CompletionsKept
  BY DEF TypeOK, CompletionsKept

\* For the promise a requeued message is as pending as before.
LEMMA RequeuedIsPending ==
    ASSUME TypeOK, queue' = Requeued
    PROVE  \A m \in Tasks : StatusOf[queue'[m]] = StatusOf[queue[m]]
  BY DEF TypeOK, Requeued, StatusOf

\* Initially nothing is submitted, stored or announced.
LEMMA PromiseInit == Init => Promise!Init
  BY DEF Init, Promise!Init, Status, Saved, Announced, StatusOf

\* A submitted message becomes pending.
LEMMA SubmitIsSubmit ==
    ASSUME IInv, NEW m \in Tasks, Submit(m)
    PROVE  Promise!Submit(m)
<1>1. Status[m] = "absent"
  BY DEF Submit, Status, StatusOf
<1>2. Status' = [Status EXCEPT ![m] = "pending"]
  BY DEF IInv, TypeOK, Submit, Status, StatusOf
<1>3. UNCHANGED <<Saved, Announced>>
  BY DEF Submit, Saved, Announced
<1> QED BY <1>1, <1>2, <1>3 DEF Promise!Submit

\* Delivery is invisible to the promise.
LEMMA PushStutters ==
    ASSUME IInv, NEW m \in Tasks, Push(m)
    PROVE  UNCHANGED <<Status, Saved, Announced>>
  BY Stutters, KeptWhenUnchanged DEF IInv, TypeOK, Push, StatusOf

\* A settlement finishes or drops a pending task, and finishes only announced ones.
LEMMA SettlementSettles ==
    ASSUME IInv, NEW m \in Tasks, Settlement(m)
    PROVE  Promise!Finish(m) \/ Promise!Drop(m)
<1>1. session \in Sessions /\ phase[session][m] = Phase(m) /\ Phase(m) \in Sent
  BY CurrentSession DEF Settlement, IInv, Sent
<1>2. conn = "live"
  BY <1>1 DEF IInv, TypeOK, OnlyCurrent, QueueMatches
<1>3. queue[m] = "unacked"
  BY <1>1, <1>2 DEF IInv, QueueMatches
<1>4. Status[m] = "pending" /\ UNCHANGED <<Saved, Announced>>
  BY <1>3 DEF Settlement, Status, StatusOf, Saved, Announced
<1>5. CASE Phase(m) = "ack_sent"
  <2>1. session \in Announced[m]
    BY <1>1, <1>5 DEF IInv, Evidence, Announced
  <2>2. Status' = [Status EXCEPT ![m] = "done"]
    BY <1>5 DEF IInv, TypeOK, Settlement, Status, StatusOf
  <2> QED BY <1>4, <2>1, <2>2 DEF Promise!Finish
<1>6. CASE Phase(m) # "ack_sent"
  <2>1. Status' = [Status EXCEPT ![m] = "dropped"]
    BY <1>6 DEF IInv, TypeOK, Settlement, Status, StatusOf
  <2> QED BY <1>4, <2>1 DEF Promise!Drop
<1> QED BY <1>5, <1>6

\* What a running task works on is pending.
LEMMA RunningIsPending ==
    ASSUME IInv, NEW m \in Tasks, Phase(m) \in Running
    PROVE  session \in Sessions /\ Phase(m) = phase[session][m] /\ Status[m] = "pending"
<1>1. session \in Sessions /\ phase[session][m] = Phase(m) /\ Phase(m) \in Active
  BY CurrentSession DEF IInv, Running, Active
<1>2. conn \in {"live", "lost"}
  BY <1>1 DEF IInv, TypeOK, OnlyCurrent
<1>3. queue[m] \in {"ready", "unacked"}
  BY <1>1, <1>2 DEF IInv, QueueMatches
<1> QED BY <1>1, <1>3 DEF Status, StatusOf

\* A commit saves the task under its session.
LEMMA StoringSaves ==
    ASSUME IInv, NEW m \in Tasks, Phase(m) = "insert",
           UNCHANGED <<queue, completion>>, rows' = [rows EXCEPT ![session] = @ \union {m}]
    PROVE  Promise!Save(m, session)
<1>1. session \in Sessions /\ Status[m] = "pending"
  BY RunningIsPending DEF Running
<1>2. Saved' = [Saved EXCEPT ![m] = @ \union {session}]
  BY <1>1 DEF IInv, TypeOK, Saved
<1>3. UNCHANGED <<Status, Announced>>
  BY DEF Status, Announced
<1> QED BY <1>1, <1>2, <1>3 DEF Promise!Save

\* A publish announces a task the same session has saved.
LEMMA PublishAnnounces ==
    ASSUME IInv, NEW m \in Tasks, Publish(m), producer = "open"
    PROVE  Promise!Announce(m, session)
<1>1. /\ session \in Sessions
      /\ phase[session][m] = "publish"
      /\ Status[m] = "pending"
  BY RunningIsPending DEF Publish, Running
<1>2. session \in Saved[m]
  BY <1>1 DEF IInv, Evidence, Saved
<1>3. Announced' = [Announced EXCEPT ![m] = @ \union {session}]
  <2>1. completion' = [completion EXCEPT ![session][m] = "wire"]
    BY DEF Publish
  <2>2. \A s \in Sessions, n \in Tasks :
          completion'[s][n] = IF s = session /\ n = m THEN "wire" ELSE completion[s][n]
    BY <1>1, <2>1 DEF IInv, TypeOK
  <2>3. \A n \in Tasks :
          Announced'[n] = IF n = m THEN Announced[n] \union {session} ELSE Announced[n]
    BY <1>1, <2>2 DEF Announced
  <2> QED BY <2>3 DEF Announced
<1>4. UNCHANGED <<Status, Saved>>
  BY DEF Publish, Status, Saved
<1> QED BY <1>1, <1>2, <1>3, <1>4 DEF Promise!Announce

\* No fault settles, stores or announces anything.
LEMMA FaultsStutter ==
    ASSUME IInv, AnyFault
    PROVE  UNCHANGED <<Status, Saved, Announced>>
<1>1. UNCHANGED rows
  BY DEF AnyFault, ConsumerLost, ProducerLost, BrokerRestart, Signal, Crash
<1>2. CompletionsKept
  BY KeptWhenUnchanged, LosingKeeps, ProcessEndKeeps
     DEF IInv, AnyFault, ConsumerLost, ProducerLost, BrokerRestart, Signal, Crash, broker
<1>3. \A m \in Tasks : StatusOf[queue'[m]] = StatusOf[queue[m]]
  BY RequeuedIsPending
     DEF IInv, AnyFault, ConsumerLost, ProducerLost, BrokerRestart, Signal, Crash, broker
<1> QED BY <1>1, <1>2, <1>3, Stutters

\* Nor does the consumer loop by itself.
LEMMA LoopStutters ==
    ASSUME IInv, Start \/ Connected \/ ConnectFailed \/ ConsumerStep
    PROVE  UNCHANGED <<Status, Saved, Announced>>
<1> USE DEF ConsumerStep, Start, Connected, ConnectFailed, CheckShutdown, BackoffElapsed,
            BackoffShutdown, SelectShutdown, SessionEnded, CloseSession, EndSession,
            TakeTask, TakeMalformed, AcquirePermit, broker
<1>1. UNCHANGED rows
  OBVIOUS
<1>2. CompletionsKept
  BY KeptWhenUnchanged, ProcessEndKeeps DEF IInv
<1>3. \A m \in Tasks : StatusOf[queue'[m]] = StatusOf[queue[m]]
  BY RequeuedIsPending DEF IInv
<1> QED BY <1>1, <1>2, <1>3, Stutters

\* A step of a task saves, announces or is invisible.
LEMMA TaskStepKeepsPromise ==
    ASSUME IInv, NEW m \in Tasks, TaskStep(m)
    PROVE  Promise!Next \/ UNCHANGED <<Status, Saved, Announced>>
<1>1. CASE /\ Insert(m) \/ InsertFailed(m)
           /\ rows' = [rows EXCEPT ![session] = @ \union {m}]
  <2>1. session \in Sessions /\ Promise!Save(m, session)
    BY <1>1, StoringSaves, RunningIsPending DEF Insert, InsertFailed, broker, Running
  <2> QED BY <2>1 DEF Promise!Next
<1>2. CASE Publish(m) /\ producer = "open"
  <2>1. session \in Sessions /\ Promise!Announce(m, session)
    BY <1>2, PublishAnnounces, RunningIsPending DEF Publish, Running
  <2> QED BY <2>1 DEF Promise!Next
<1>3. CASE UNCHANGED <<queue, completion, rows>>
  BY <1>3, Stutters, KeptWhenUnchanged DEF IInv
<1> QED BY <1>1, <1>2, <1>3
        DEF TaskStep, Prepare, Insert, InsertFailed, Publish, Published, Settle, broker

\* Every step is one of the promise or invisible to it.
LEMMA StepKeepsPromise ==
    ASSUME IInv, [Next]_vars
    PROVE  Promise!Next \/ UNCHANGED <<Status, Saved, Announced>>
<1>1. ASSUME NEW m \in Tasks, Submit(m) \/ Push(m) \/ Settlement(m)
      PROVE  Promise!Next \/ UNCHANGED <<Status, Saved, Announced>>
  BY <1>1, SubmitIsSubmit, PushStutters, SettlementSettles DEF Promise!Next
<1>2. ASSUME NEW s \in Sessions, NEW m \in Tasks, DeliverCompletion(s, m)
      PROVE  UNCHANGED <<Status, Saved, Announced>>
  <2>1. CompletionsKept
    BY <1>2 DEF IInv, TypeOK, DeliverCompletion, CompletionsKept
  <2> QED BY <1>2, <2>1, Stutters DEF DeliverCompletion
<1>3. ASSUME NEW m \in Tasks, TaskStep(m)
      PROVE  Promise!Next \/ UNCHANGED <<Status, Saved, Announced>>
  BY <1>3, TaskStepKeepsPromise
<1>4. CASE UNCHANGED vars
  BY <1>4 DEF vars, Status, Saved, Announced
<1> QED BY <1>1, <1>2, <1>3, <1>4, FaultsStutter, LoopStutters DEF Next, External

\* The service keeps its promise whatever fails: a submitted task is settled at
\* most once, as done only when stored and announced, and after that it is
\* neither stored nor announced again.
THEOREM PromiseKept == Spec => KeepsPromise
<1>1. Init => Promise!Init
  BY PromiseInit
<1>2. IInv /\ [Next]_vars => [Promise!Next]_(Promise!promise)
  BY StepKeepsPromise DEF Promise!promise
<1> QED BY <1>1, <1>2, Invariance, PTL DEF Spec, KeepsPromise, Promise!Spec

-----------------------------------------------------------------------------
(* The permits of the task semaphore.                                      *)

\* There are finitely many running tasks.
LEMMA RunningFinite == IsFiniteSet(RunningTasks) /\ Cardinality(RunningTasks) \in Nat
  BY ScopeAssumption, FS_Subset, FS_CardinalityType DEF RunningTasks

\* Without a connection nothing runs.
LEMMA NoneRunning == ASSUME IInv, conn = "none" PROVE RunningTasks = {}
<1> SUFFICES ASSUME NEW m \in Tasks, Phase(m) \in Running PROVE FALSE
  BY DEF RunningTasks
<1>1. session \in Sessions /\ phase[session][m] \in Active
  BY CurrentSession DEF IInv, Running, Active
<1> QED BY <1>1 DEF IInv, OnlyCurrent

\* Steps that start or end no task, in a session that stays.
LEMMA SameRunning ==
    ASSUME IInv, UNCHANGED session,
           \A m \in Tasks : phase'[session][m] \in Running <=> phase[session][m] \in Running
    PROVE  RunningTasks' = RunningTasks
  BY DEF RunningTasks, Phase, Running

\* A delivery moved between two phases of which both or neither is Running.
LEMMA MoveSameRunning ==
    ASSUME IInv, NEW m \in Tasks, NEW p, Phase(m) # "none", Move(m, p), UNCHANGED session,
           p \in Running <=> Phase(m) \in Running
    PROVE  RunningTasks' = RunningTasks
<1>1. session \in Sessions /\ Phase(m) = phase[session][m]
  BY CurrentSession DEF IInv
<1>2. phase' = [phase EXCEPT ![session][m] = p]
  BY DEF Move
<1>3. \A n \in Tasks : phase'[session][n] \in Running <=> phase[session][n] \in Running
  BY <1>1, <1>2 DEF IInv, TypeOK
<1> QED BY <1>3, SameRunning

\* A permit is taken for one more running task.
LEMMA AcquireAdds ==
    ASSUME IInv, NEW m \in Tasks, AcquirePermit(m)
    PROVE  m \notin RunningTasks /\ RunningTasks' = RunningTasks \union {m}
<1>1. session \in Sessions /\ Phase(m) = phase[session][m] /\ session # 0
  BY CurrentSession DEF IInv, AcquirePermit, Sessions
<1>2. phase' = [phase EXCEPT ![session][m] = "prepare"] /\ session' = session
  BY DEF AcquirePermit, Move
<1>3. \A n \in Tasks : phase'[session][n] = IF n = m THEN "prepare" ELSE phase[session][n]
  BY <1>1, <1>2 DEF IInv, TypeOK
<1>4. m \notin RunningTasks
  BY DEF AcquirePermit, RunningTasks, Running
<1> QED BY <1>1, <1>2, <1>3, <1>4 DEF RunningTasks, Phase, Running

\* A permit is returned for one running task less.
LEMMA SettleRemoves ==
    ASSUME IInv, NEW m \in Tasks, Settle(m)
    PROVE  m \in RunningTasks /\ RunningTasks' = RunningTasks \ {m}
<1>1. session \in Sessions /\ Phase(m) = phase[session][m] /\ session # 0
  BY CurrentSession DEF IInv, Settle, Sessions
<1>2. PICK p \in {"ack_sent", "nack_sent", "lost"} :
         phase' = [phase EXCEPT ![session][m] = p] /\ session' = session
  BY DEF Settle, Move, SettleFrame
<1>3. \A n \in Tasks : phase'[session][n] = IF n = m THEN p ELSE phase[session][n]
  BY <1>1, <1>2 DEF IInv, TypeOK
<1>4. m \in RunningTasks
  BY DEF Settle, RunningTasks, Running
<1> QED BY <1>1, <1>2, <1>3, <1>4 DEF RunningTasks, Phase, Running

\* The account stays balanced when neither side of it changes.
LEMMA Balanced ==
    ASSUME PermitsAccounted, RunningTasks' = RunningTasks, UNCHANGED permits,
           loop = "down" => loop' = "down"
    PROVE  PermitsAccounted'
  BY DEF PermitsAccounted

\* Every step keeps the account of permits balanced.
LEMMA StepPermits ==
    ASSUME IInv, PermitsAccounted, [Next]_vars
    PROVE  PermitsAccounted'
<1>1. CASE \E m \in Tasks : AcquirePermit(m)
  <2>1. PICK m \in Tasks : AcquirePermit(m)
    BY <1>1
  <2>2. Cardinality(RunningTasks') = Cardinality(RunningTasks) + 1
    BY <2>1, AcquireAdds, RunningFinite, FS_AddElement
  <2>3. permits' = permits - 1 /\ permits \in Nat /\ loop = "acquire"
    BY <2>1 DEF AcquirePermit, IInv, TypeOK
  <2> QED BY <2>2, <2>3, RunningFinite, ConfigValidated DEF PermitsAccounted
<1>2. CASE \E m \in Tasks : Settle(m)
  <2>1. PICK m \in Tasks : Settle(m)
    BY <1>2
  <2>2. Cardinality(RunningTasks') = Cardinality(RunningTasks) - 1
    BY <2>1, SettleRemoves, RunningFinite, FS_RemoveElement
  <2>3. permits' = permits + 1 /\ permits \in Nat /\ loop' = loop
    BY <2>1 DEF Settle, IInv, TypeOK
  <2> QED BY <2>2, <2>3, RunningFinite, ConfigValidated DEF PermitsAccounted
<1>3. CASE Crash \/ ProcessEnds
  BY <1>3 DEF Crash, ProcessEnds, PermitsAccounted
<1>4. CASE Start
  <2>1. RunningTasks' = {}
    BY <1>4, StartKeeps, NoneRunning DEF Start, IInv, Control, RunningTasks, Phase
  <2> QED BY <1>4, <2>1, FS_EmptySet, ConfigValidated DEF Start, PermitsAccounted
<1>5. CASE Connected
  <2>1. RunningTasks = {}
    BY <1>5, NoneRunning DEF Connected, IInv, Control
  <2>2. RunningTasks' = {}
    <3> SUFFICES ASSUME NEW m \in Tasks, phase'[session'][m] \in Running PROVE FALSE
      BY <1>5 DEF Connected, RunningTasks, Phase, Running, IInv, TypeOK
    <3>1. session + 1 \in Sessions /\ session + 1 > session
      BY <1>5, ScopeAssumption DEF Connected, IInv, TypeOK, Control, Sessions
    <3> QED BY <1>5, <3>1 DEF Connected, IInv, OnlyCurrent, Running
  <2> QED BY <1>5, <2>1, <2>2, Balanced DEF Connected
<1>6. CASE CloseSession /\ loop = "restarting"
  <2>1. RunningTasks' = {}
    BY <1>6 DEF CloseSession, EndSession, Idle, RunningTasks, Phase, EndDeliveries,
                CutAndDropped, Cut, Running, Sent, IInv, TypeOK, Sessions
  <2> QED BY <1>6, <2>1, Balanced DEF CloseSession, EndSession, Idle
<1>7. CASE ConsumerLost \/ BrokerRestart
  <2>1. \A m \in Tasks : session # 0 =>
          (phase'[session][m] \in Running <=> phase[session][m] \in Running)
    BY <1>7, ScopeAssumption DEF ConsumerLost, BrokerRestart, EndDeliveries, Cut, Running,
             Sent, IInv, TypeOK, Sessions
  <2>2. RunningTasks' = RunningTasks
    BY <1>7, <2>1 DEF ConsumerLost, BrokerRestart, RunningTasks, Phase, Running
  <2> QED BY <1>7, <2>2, Balanced DEF ConsumerLost, BrokerRestart
<1>8. ASSUME NEW m \in Tasks,
             \/ Push(m) \/ Settlement(m) \/ TakeTask(m) \/ TakeMalformed(m)
             \/ Prepare(m) \/ Insert(m) \/ InsertFailed(m) \/ Publish(m) \/ Published(m)
      PROVE  PermitsAccounted'
  <2>1. UNCHANGED <<session, permits>> /\ (loop = "down" => loop' = "down")
    BY <1>8 DEF Push, Settlement, TakeTask, TakeMalformed, Prepare, Insert, InsertFailed,
                Publish, Published, process, broker
  <2>2. CASE Push(m)
    <3>1. session \in Sessions /\ phase[session][m] = "none"
      BY <2>2, ScopeAssumption DEF Push, IInv, TypeOK, Control, QueueMatches, Sessions
    <3>2. \A n \in Tasks : phase'[session][n] \in Running <=> phase[session][n] \in Running
      BY <2>2, <3>1 DEF Push, Move, Running, IInv, TypeOK
    <3> QED BY <2>1, <3>2, SameRunning, Balanced
  <2>3. CASE Settlement(m)
    BY <2>1, <2>3, MoveSameRunning, Balanced DEF Settlement, Sent, Running
  <2>4. CASE TakeTask(m)
    BY <2>1, <2>4, MoveSameRunning, Balanced DEF TakeTask, Running
  <2>5. CASE TakeMalformed(m)
    BY <2>1, <2>5, MoveSameRunning, Balanced DEF TakeMalformed, SettleFrame, Running
  <2>6. CASE Prepare(m) \/ Insert(m) \/ InsertFailed(m) \/ Publish(m) \/ Published(m)
    <3>1. PICK p \in Running : Move(m, p)
      BY <2>6 DEF Prepare, Insert, InsertFailed, Publish, Published, Running
    <3>2. Phase(m) \in Running
      BY <2>6 DEF Prepare, Insert, InsertFailed, Publish, Published, Running
    <3> QED BY <2>1, <3>1, <3>2, MoveSameRunning, Balanced DEF Running
  <2> QED BY <1>8, <2>2, <2>3, <2>4, <2>5, <2>6
<1>9. CASE UNCHANGED <<phase, session, permits>> /\ (loop = "down" => loop' = "down")
  <2>1. RunningTasks' = RunningTasks
    BY <1>9 DEF RunningTasks, Phase
  <2> QED BY <1>9, <2>1, Balanced
<1>10. ASSUME NEW m \in Tasks, Submit(m) PROVE PermitsAccounted'
  BY <1>9, <1>10 DEF Submit, process
<1>11. ASSUME NEW s \in Sessions, NEW m \in Tasks, DeliverCompletion(s, m)
       PROVE  PermitsAccounted'
  BY <1>9, <1>11 DEF DeliverCompletion, process
<1>12. CASE AnyFault
  BY <1>3, <1>7, <1>9, <1>12 DEF AnyFault, ProducerLost, Signal
<1>13. CASE ConsumerStep
  BY <1>1, <1>3, <1>6, <1>8, <1>9, <1>13
     DEF ConsumerStep, CheckShutdown, BackoffElapsed, BackoffShutdown, SelectShutdown,
         SessionEnded, CloseSession, EndSession
<1>14. CASE ConnectFailed \/ UNCHANGED vars
  BY <1>9, <1>14 DEF ConnectFailed, vars
<1> QED BY <1>2, <1>4, <1>5, <1>8, <1>10, <1>11, <1>12, <1>13, <1>14
        DEF Next, External, TaskStep

\* Each permit is free or held by exactly one running task, across reconnects,
\* failures and shutdowns: none leaks and no more than MaxTasks tasks ever run.
THEOREM PermitsAreAccounted == Spec => []PermitsAccounted
<1>1. Init => PermitsAccounted
  BY DEF Init, PermitsAccounted
<1>2. IInv /\ PermitsAccounted /\ [Next]_vars => PermitsAccounted'
  BY StepPermits
<1> QED BY <1>1, <1>2, Invariance, PTL DEF Spec

-----------------------------------------------------------------------------
\* What EventuallySettled and ShutdownCompletes rest on, without fairness: there is always
\* somebody who can go on.

\* The loop waits for a permit with a delivery in its hands.
HoldsOne == loop = "acquire" => \E m \in Tasks : Phase(m) = "held"

\* The guards of what the process and the broker do by themselves: neither a fault nor a new
\* message is among it.
LoopCanStep ==
    \/ loop \in {"down", "top", "connecting", "backoff"}
    \/ loop = "select" /\ (shutdown \/ conn = "lost" \/ ~NoneBuffered)
    \/ loop = "acquire" /\ permits > 0 /\ \E m \in Tasks : Phase(m) = "held"
    \/ loop \in {"stopping", "restarting"} /\ Idle

BrokerCanStep ==
    \/ \E m \in Tasks : Phase(m) \in Sent
    \/ /\ conn = "live" /\ \E m \in Tasks : queue[m] = "ready"
       /\ Cardinality({n \in Tasks : queue[n] = "unacked"}) < Prefetch

TaskCanStep == \E m \in Tasks : Phase(m) \in Running

\* The service at rest: connected, asked for nothing, with no message to be settled.
AtRest ==
    /\ loop = "select" /\ conn = "live" /\ ~shutdown
    /\ \A m \in Tasks : queue[m] \in {"absent", "acked", "discarded"}

\* What is held is moved by nobody but the loop that holds it, or dies with the process.
LEMMA HeldStays ==
    ASSUME IInv, [Next]_vars, loop = "acquire", loop' = "acquire",
           NEW h \in Tasks, Phase(h) = "held"
    PROVE  Phase(h)' = "held"
<1>1. session \in Sessions /\ session # 0 /\ phase[session][h] = "held"
  BY CurrentSession DEF IInv, Sessions
<1>2. phase \in [Sessions -> [Tasks -> Phases]]
  BY DEF IInv, TypeOK, Phases
<1>3. ASSUME UNCHANGED <<phase, session>> PROVE Phase(h)' = "held"
  BY <1>1, <1>3 DEF Phase
<1>4. ASSUME NEW m \in Tasks, m # h, NEW p, Move(m, p), UNCHANGED session
      PROVE  Phase(h)' = "held"
  BY <1>1, <1>2, <1>4 DEF Phase, Move
<1>5. ASSUME NEW m \in Tasks, Push(m) PROVE Phase(h)' = "held"
  <2>1. phase[session][m] = "none"
    BY <1>5 DEF Push, IInv, QueueMatches
  <2>2. m # h
    BY <1>1, <2>1
  <2> QED BY <1>4, <1>5, <2>2 DEF Push, process
<1>6. ASSUME NEW m \in Tasks, Settlement(m) \/ TaskStep(m) PROVE Phase(h)' = "held"
  <2>1. m # h
    BY <1>1, <1>6 DEF Settlement, TaskStep, Prepare, Insert, InsertFailed, Publish, Published,
                      Settle, Sent
  <2>2. \E p : Move(m, p)
    BY <1>6 DEF Settlement, TaskStep, Prepare, Insert, InsertFailed, Publish, Published, Settle
  <2>3. UNCHANGED session
    BY <1>6 DEF Settlement, TaskStep, Prepare, Insert, InsertFailed, Publish, Published, Settle,
                process
  <2> QED BY <1>4, <2>1, <2>2, <2>3
<1>7. CASE ConsumerLost \/ BrokerRestart
  <2>1. phase'[session][h] = "held" /\ session' = session
    BY <1>1, <1>7 DEF ConsumerLost, BrokerRestart, EndDeliveries, Cut, Sent
  <2> QED BY <1>1, <2>1 DEF Phase
<1>8. CASE ProducerLost \/ Signal
  BY <1>3, <1>8 DEF ProducerLost, Signal
<1>9. CASE Crash
  BY <1>9 DEF Crash, ProcessEnds
<1>10. CASE ConsumerStep \/ Start \/ Connected \/ ConnectFailed
  BY <1>10 DEF ConsumerStep, CheckShutdown, BackoffElapsed, BackoffShutdown, SelectShutdown,
               SessionEnded, CloseSession, EndSession, TakeTask, TakeMalformed, AcquirePermit,
               Start, Connected, ConnectFailed
<1>11. CASE External
  BY <1>3, <1>5, <1>6, <1>11 DEF External, Submit, DeliverCompletion, process
<1>12. CASE UNCHANGED vars
  BY <1>3, <1>12 DEF vars
<1> QED BY <1>6, <1>7, <1>8, <1>9, <1>10, <1>11, <1>12 DEF Next, AnyFault

\* The loop comes to wait for a permit by taking a delivery, and in no other way.
LEMMA StepHolds == ASSUME IInv, HoldsOne, [Next]_vars PROVE HoldsOne'
<1> SUFFICES ASSUME loop' = "acquire" PROVE \E m \in Tasks : Phase(m)' = "held"
  BY DEF HoldsOne
<1>1. CASE loop = "acquire"
  BY <1>1, HeldStays DEF HoldsOne
<1>2. CASE loop # "acquire"
  <2>1. PICK m \in Tasks : TakeTask(m)
    BY <1>2 DEF Next, vars, External, Submit, Push, Settlement, DeliverCompletion, AnyFault,
                ConsumerLost, ProducerLost, BrokerRestart, Signal, Crash, ProcessEnds,
                Start, Connected, ConnectFailed, ConsumerStep, CheckShutdown, BackoffElapsed,
                BackoffShutdown, SelectShutdown, SessionEnded, CloseSession, EndSession,
                TakeMalformed, AcquirePermit, TaskStep, Prepare, Insert, InsertFailed, Publish,
                Published, Settle, process
  <2>2. session \in Sessions /\ session # 0
    BY <2>1, CurrentSession DEF TakeTask, IInv, Sessions
  <2>3. phase'[session'][m] = "held" /\ session' = session
    BY <2>1, <2>2 DEF TakeTask, Move, IInv, TypeOK
  <2> QED BY <2>2, <2>3 DEF Phase
<1> QED BY <1>1, <1>2

\* Nobody waits for somebody who waits for him: not the loop for a permit, not the drain for
\* a task, not a message for a place among the unsettled ones.  Where nothing goes on, there
\* is nothing to do.
THEOREM NobodyIsStuck == Spec => [](AtRest \/ LoopCanStep \/ BrokerCanStep \/ TaskCanStep)
<1>1. Init => HoldsOne
  BY DEF Init, HoldsOne
<1>2. Spec => []HoldsOne
  BY <1>1, StepHolds, Invariance, PTL DEF Spec
<1>3. ASSUME IInv, PermitsAccounted, HoldsOne, ~TaskCanStep, ~BrokerCanStep, ~LoopCanStep
      PROVE  AtRest
  <2>1. RunningTasks = {} /\ Idle
    BY <1>3 DEF TaskCanStep, RunningTasks, Idle
  <2>2. loop = "select" \/ loop = "acquire"
    BY <1>3, <2>1 DEF IInv, TypeOK, LoopCanStep
  <2>3. loop # "acquire"
    <3> SUFFICES ASSUME loop = "acquire" PROVE FALSE
      OBVIOUS
    <3>1. Cardinality(RunningTasks) = 0
      BY <2>1, FS_EmptySet
    <3>2. permits = MaxTasks /\ permits > 0
      BY <1>3, <3>1, ConfigValidated DEF PermitsAccounted, IInv, TypeOK
    <3> QED BY <1>3, <3>2 DEF HoldsOne, LoopCanStep
  <2>4. loop = "select" /\ ~shutdown /\ NoneBuffered /\ conn = "live"
    BY <1>3, <2>2, <2>3 DEF LoopCanStep, IInv, TypeOK, Control
  <2>5. session # 0 /\ session \in Sessions
    BY <1>3, <2>4, ScopeAssumption DEF IInv, TypeOK, Control, Sessions
  <2>6. \A m \in Tasks : queue[m] # "unacked"
    <3> SUFFICES ASSUME NEW m \in Tasks, phase[session][m] \in Active \union Sent PROVE FALSE
      BY <1>3 DEF IInv, QueueMatches
    <3>1. Phase(m) \in Active \union Sent
      BY <2>5 DEF Phase
    <3>2. Phase(m) \notin Sent
      BY <1>3 DEF BrokerCanStep
    <3>3. Phase(m) \notin Running
      BY <1>3 DEF TaskCanStep
    <3>4. Phase(m) # "buffered"
      BY <2>4 DEF NoneBuffered
    <3>5. Phase(m) # "held"
      BY <1>3, <2>4, <2>5 DEF IInv, OnlyCurrent, Phase
    <3> QED BY <3>1, <3>2, <3>3, <3>4, <3>5 DEF Active
  <2>7. \A m \in Tasks : queue[m] # "ready"
    <3>1. {n \in Tasks : queue[n] = "unacked"} = {}
      BY <2>6
    <3>2. Cardinality({n \in Tasks : queue[n] = "unacked"}) = 0
      BY <3>1, FS_EmptySet
    <3> QED BY <1>3, <2>4, <3>2, ConfigValidated DEF BrokerCanStep
  <2> QED BY <1>3, <2>4, <2>6, <2>7 DEF AtRest, IInv, TypeOK
<1>4. IInv /\ PermitsAccounted /\ HoldsOne =>
        (AtRest \/ LoopCanStep \/ BrokerCanStep \/ TaskCanStep)
  BY <1>3
<1> QED BY <1>2, <1>4, Invariance, PermitsAreAccounted, PTL
=============================================================================
