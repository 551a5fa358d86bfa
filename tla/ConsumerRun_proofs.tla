------------------------- MODULE ConsumerRun_proofs -------------------------
(* Theorems about ConsumerRun, for any delays that validate accepts and any *)
(* widths in which sixteen shifts fit.                                      *)
EXTENDS ConsumerRun, TLAPS

\* The latest wait is the backoff of the counter, once there has been one.
LatestWait ==
    /\ attempt = 0 => delay = 0
    /\ attempt > 0 => delay = Backoff(attempt)
    /\ place = "waiting" => attempt > 0

IInv == TypeOK /\ LatestWait

-----------------------------------------------------------------------------
LEMMA Powers ==
    /\ PowersOfTwo[1] = 1 /\ PowersOfTwo[2] = 2 /\ PowersOfTwo[3] = 4
    /\ PowersOfTwo[4] = 8 /\ PowersOfTwo[5] = 16 /\ PowersOfTwo[6] = 32
    /\ PowersOfTwo[7] = 64 /\ PowersOfTwo[8] = 128 /\ PowersOfTwo[9] = 256
    /\ PowersOfTwo[10] = 512 /\ PowersOfTwo[11] = 1024 /\ PowersOfTwo[12] = 2048
    /\ PowersOfTwo[13] = 4096 /\ PowersOfTwo[14] = 8192 /\ PowersOfTwo[15] = 16384
    /\ PowersOfTwo[16] = 32768 /\ PowersOfTwo[17] = 65536
  BY DEF PowersOfTwo

LEMMA FactorLow ==
    ASSUME NEW n \in Nat, n > 0, n <= 16
    PROVE  /\ Factor(n) \in Nat /\ Factor(n) >= 1 /\ Factor(n) <= 32768
           /\ Factor(n + 1) = 2 * Factor(n)
<1>1. Factor(n) = PowersOfTwo[n] /\ Factor(n + 1) = PowersOfTwo[n + 1]
  <2>1. Shift(n) + 1 = n /\ Shift(n + 1) + 1 = n + 1
    BY DEF Shift, Least
  <2> QED
    BY <2>1 DEF Factor
<1>2. \/ n = 1 \/ n = 2 \/ n = 3 \/ n = 4 \/ n = 5 \/ n = 6 \/ n = 7 \/ n = 8
      \/ n = 9 \/ n = 10 \/ n = 11 \/ n = 12 \/ n = 13 \/ n = 14 \/ n = 15 \/ n = 16
  OBVIOUS
<1> QED
  BY <1>1, <1>2, Powers

LEMMA FactorHigh ==
    ASSUME NEW n \in Nat, n > 16
    PROVE  Factor(n) = 65536
<1>1. Shift(n) = 16
  BY DEF Shift, Least
<1>2. Shift(n) + 1 = 17
  BY <1>1
<1> QED
  BY <1>2, Powers DEF Factor

LEMMA FactorRange ==
    ASSUME NEW n \in Nat, n > 0
    PROVE  Factor(n) \in Nat /\ Factor(n) >= 1 /\ Factor(n) <= 65536
<1>1. CASE n > 16
  BY <1>1, FactorHigh
<1>2. CASE n <= 16
  BY <1>2, FactorLow
<1> QED
  BY <1>1, <1>2

LEMMA ProductBounds ==
    ASSUME NEW a \in Nat, NEW f \in Nat, f >= 1
    PROVE  /\ a * f \in Nat /\ a * f >= a
           /\ a * (2 * f) = 2 * (a * f)
           /\ f <= 32768 => 2 * (a * f) <= 65536 * a
OBVIOUS

LEMMA BackoffRange ==
    ASSUME NEW n \in Nat, n > 0
    PROVE  Backoff(n) \in InitialDelay .. MaxDelay
<1> DEFINE P == InitialDelay * Factor(n)
<1>1. P \in Nat /\ P >= InitialDelay
  BY FactorRange, ProductBounds, DelaysAssumption
<1>2. Backoff(n) = Least(Least(P, U64Max), MaxDelay)
  BY DEF Backoff, Times
<1> HIDE DEF P
<1> QED
  BY <1>1, <1>2, DelaysAssumption DEF Least, ValidDelays

LEMMA FirstBackoff == Backoff(1) = InitialDelay
<1>1. Factor(1) = 1
  BY DEF Factor, Shift, Least, PowersOfTwo
<1>2. InitialDelay * Factor(1) = InitialDelay
  BY <1>1, DelaysAssumption
<1> QED
  BY <1>2, DelaysAssumption DEF Backoff, Times, Least, ValidDelays

LEMMA NextBackoff ==
    ASSUME NEW n \in 1 .. U32Max
    PROVE  Backoff(Increment(n)) = Least(2 * Backoff(n), Longest)
<1> DEFINE P == InitialDelay * Factor(n)
           Q == InitialDelay * Factor(Increment(n))
           L == 65536 * InitialDelay
<1>0. n \in Nat /\ n > 0
  BY DelaysAssumption
<1>1. Factor(n) \in Nat /\ Factor(n) >= 1 /\ P \in Nat
  BY <1>0, FactorRange, ProductBounds, DelaysAssumption
<1>2. CASE n <= 16
  <2>1. Increment(n) = n + 1
    BY <1>0, <1>2, DelaysAssumption DEF Increment, Least
  <2>2. Factor(n + 1) = 2 * Factor(n) /\ Factor(n) <= 32768
    BY <1>0, <1>2, FactorLow
  <2>3. Q = 2 * P /\ 2 * P <= L
    BY <1>1, <2>1, <2>2, ProductBounds, DelaysAssumption
  <2> HIDE DEF P, Q, L
  <2>4. Backoff(n) = Least(Least(P, U64Max), MaxDelay)
    BY DEF Backoff, Times, P
  <2>5. Backoff(Increment(n)) = Least(Least(Q, U64Max), MaxDelay)
    BY DEF Backoff, Times, Q
  <2>6. Longest = Least(L, MaxDelay) /\ L \in Nat
    BY DelaysAssumption DEF Longest, L
  <2> QED
    BY <1>1, <2>3, <2>4, <2>5, <2>6, DelaysAssumption DEF Least
<1>3. CASE n > 16
  <2>1. Increment(n) \in {n, n + 1}
    BY <1>0, DelaysAssumption DEF Increment, Least
  <2>2. Factor(n) = 65536 /\ Factor(Increment(n)) = 65536
    BY <1>0, <1>3, <2>1, FactorHigh
  <2>3. Q = P /\ P = L
    BY <2>2, DelaysAssumption
  <2> HIDE DEF P, Q, L
  <2>4. Backoff(n) = Least(Least(P, U64Max), MaxDelay)
    BY DEF Backoff, Times, P
  <2>5. Backoff(Increment(n)) = Least(Least(Q, U64Max), MaxDelay)
    BY DEF Backoff, Times, Q
  <2>6. Longest = Least(L, MaxDelay) /\ L \in Nat
    BY DelaysAssumption DEF Longest, L
  <2> QED
    BY <1>1, <2>3, <2>4, <2>5, <2>6, DelaysAssumption DEF Least
<1> QED
  BY <1>0, <1>2, <1>3

-----------------------------------------------------------------------------
LEMMA InitHolds == Init => IInv
  BY DelaysAssumption DEF Init, IInv, TypeOK, LatestWait, Places

LEMMA WaitKeeps ==
    ASSUME IInv, NEW n \in 1 .. U32Max, WaitAfter(n)
    PROVE  IInv'
<1>1. delay' \in 0 .. MaxDelay /\ delay' = Backoff(n) /\ attempt' = n
  BY BackoffRange, DelaysAssumption DEF WaitAfter
<1>2. TypeOK'
  BY <1>1 DEF IInv, TypeOK, WaitAfter, Places, Channel
<1>3. LatestWait'
  BY <1>1 DEF LatestWait, Backoff, Times, Factor, Shift, Least
<1> QED
  BY <1>2, <1>3 DEF IInv

LEMMA StepKeeps == IInv /\ [Next]_vars => IInv'
<1> SUFFICES ASSUME IInv, [Next]_vars PROVE IInv'
  OBVIOUS
<1>1. CASE ConnectFails
  <2>1. Increment(attempt) \in 1 .. U32Max
    BY DelaysAssumption DEF IInv, TypeOK, Increment, Least
  <2> QED
    BY <1>1, <2>1, WaitKeeps DEF ConnectFails
<1>2. CASE SessionEnds
  <2>1. 1 \in 1 .. U32Max
    BY DelaysAssumption
  <2> QED
    BY <1>2, <2>1, WaitKeeps DEF SessionEnds
<1>3. CASE \/ Signal \/ SenderDropped \/ Top \/ Connected \/ SessionStops
           \/ WaitStops \/ WaitElapsed \/ UNCHANGED vars
  <2>1. UNCHANGED <<attempt, delay>> /\ (place' = "waiting" => place = "waiting")
    BY <1>3 DEF Signal, SenderDropped, Top, Connected, SessionStops, WaitStops, StopIn,
                WaitElapsed, Channel, vars
  <2>2. TypeOK'
    BY <1>3, <2>1 DEF IInv, TypeOK, Places, Signal, SenderDropped, Top, Connected,
                      SessionStops, WaitStops, StopIn, WaitElapsed, Channel, vars
  <2>3. LatestWait'
    BY <2>1 DEF IInv, LatestWait, Backoff, Times, Factor, Shift, Least
  <2> QED
    BY <2>2, <2>3 DEF IInv
<1> QED
  BY <1>1, <1>2, <1>3 DEF Next

THEOREM Invariance == Spec => []IInv
  BY InitHolds, StepKeeps, PTL DEF Spec

\* The variables of run keep their types: the counter and the delay stay in their
\* widths, whatever the configuration.
THEOREM TypeCorrect == Spec => []TypeOK
  BY Invariance, PTL DEF IInv

\* No wait is shorter than the initial delay or longer than the largest.
THEOREM WaitsAreInRange == Spec => []WaitsInRange
<1>1. IInv => WaitsInRange
  <2> SUFFICES ASSUME IInv, place = "waiting"
               PROVE  delay >= InitialDelay /\ delay <= MaxDelay
    BY DEF WaitsInRange
  <2>1. attempt \in Nat /\ attempt > 0 /\ delay = Backoff(attempt)
    BY DEF IInv, TypeOK, LatestWait
  <2> QED
    BY <2>1, BackoffRange, DelaysAssumption
<1> QED
  BY <1>1, Invariance, PTL

\* The waits double up to the longest one while no session comes about, however long
\* that takes, and start over after a session.
THEOREM DelaysAreDoubled == Spec => DelaysDouble
<1> DEFINE Policy ==
      /\ ConnectFails =>
           delay' = IF delay = 0 THEN InitialDelay ELSE Least(2 * delay, Longest)
      /\ SessionEnds => delay' = InitialDelay
<1>1. IInv => Policy
  <2> SUFFICES ASSUME IInv PROVE Policy
    OBVIOUS
  <2>1. ASSUME SessionEnds PROVE delay' = InitialDelay
    BY <2>1, FirstBackoff DEF SessionEnds, WaitAfter
  <2>2. ASSUME ConnectFails
        PROVE  delay' = IF delay = 0 THEN InitialDelay ELSE Least(2 * delay, Longest)
    <3>1. delay' = Backoff(Increment(attempt))
      BY <2>2 DEF ConnectFails, WaitAfter
    <3>2. CASE attempt = 0
      <4>1. Increment(attempt) = 1 /\ delay = 0
        BY <3>2, DelaysAssumption DEF IInv, LatestWait, Increment, Least
      <4> QED
        BY <3>1, <4>1, FirstBackoff
    <3>3. CASE attempt > 0
      <4>1. attempt \in 1 .. U32Max /\ delay = Backoff(attempt)
        BY <3>3, DelaysAssumption DEF IInv, TypeOK, LatestWait
      <4>2. delay # 0
        BY <4>1, BackoffRange, DelaysAssumption DEF ValidDelays
      <4> QED
        BY <3>1, <4>1, <4>2, NextBackoff
    <3> QED
      BY <3>2, <3>3 DEF IInv, TypeOK
  <2> QED
    BY <2>1, <2>2
<1> QED
  BY <1>1, Invariance, PTL DEF DelaysDouble, Policy

\* run stops only when it was asked to or the signal task is gone, and otherwise goes
\* through the steps of RunLoop, however the signal, the sessions and the waits meet.
THEOREM RunKeepsRunning == Spec => KeepsRunning
<1>1. Init => Abstract!Init
  BY DEF Init, Abstract!Init, Asked
<1>2. TypeOK /\ [Next]_vars => [Abstract!Next]_(Abstract!vars)
  <2> SUFFICES ASSUME TypeOK, [Next]_vars
               PROVE  Abstract!Next \/ UNCHANGED <<place, Asked>>
    BY DEF Abstract!vars
  <2> USE DEF Abstract!Next, Abstract!Move, Asked
  <2>1. CASE Signal
    BY <2>1 DEF Signal, Abstract!Ask
  <2>2. CASE SenderDropped
    BY <2>2 DEF SenderDropped, Abstract!Ask
  <2>3. CASE Top
    BY <2>3 DEF Top, Channel, Abstract!Connect, Abstract!Stop
  <2>4. CASE Connected
    BY <2>4 DEF Connected, Channel, Abstract!Answer
  <2>5. CASE ConnectFails
    BY <2>5 DEF ConnectFails, WaitAfter, Channel, Abstract!Answer
  <2>6. CASE SessionEnds
    BY <2>6 DEF SessionEnds, WaitAfter, Channel, Abstract!Lose
  <2>7. CASE WaitElapsed
    BY <2>7 DEF WaitElapsed, Channel, Abstract!Again
  <2>8. CASE SessionStops \/ WaitStops
    BY <2>8 DEF SessionStops, WaitStops, StopIn, StopNoticed, Channel, Abstract!Stop
  <2>9. CASE UNCHANGED vars
    BY <2>9 DEF vars
  <2> QED
    BY <2>1, <2>2, <2>3, <2>4, <2>5, <2>6, <2>7, <2>8, <2>9 DEF Next
<1> QED
  BY <1>1, <1>2, TypeCorrect, PTL DEF Spec, KeepsRunning, Abstract!Safety
=============================================================================
