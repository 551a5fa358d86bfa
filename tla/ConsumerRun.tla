---------------------------- MODULE ConsumerRun ----------------------------
(***************************************************************************)
(* MqConsumer::run of mq/consumer.rs by itself: the reconnect delays in    *)
(* the widths of the code, and the watch channel by which main.rs asks     *)
(* the loop to stop.  A session is one step here; TaskDelivery has what    *)
(* happens in it.                                                          *)
(***************************************************************************)
EXTENDS Naturals, Sequences

CONSTANTS InitialDelay,  \* rabbitmq.reconnect_initial_delay_ms
          MaxDelay,      \* rabbitmq.reconnect_max_delay_ms
          U32Max,        \* the largest value of the attempt counter
          U64Max         \* the largest value of a delay

\* What validate accepts of the two delays.
ValidDelays == InitialDelay > 0 /\ MaxDelay >= InitialDelay

\* Any widths in which the attempts outlast the shift are wide enough.
ASSUME DelaysAssumption ==
    /\ InitialDelay \in Nat /\ MaxDelay \in Nat /\ U32Max \in Nat /\ U64Max \in Nat
    /\ ValidDelays
    /\ MaxDelay <= U64Max /\ U32Max > 16

VARIABLES
    place,    \* where the loop of run is
    attempt,  \* reconnect_attempt
    delay,    \* the latest backoff, 0 before the first
    version,  \* the version of the watch channel; version 1 holds true
    sender,   \* shutdown_tx: "open", or "dropped" with the signal task
    seen      \* the version that a receiver has seen: of run, and of consume_loop

vars == <<place, attempt, delay, version, sender, seen>>

Places == {"top", "connecting", "session", "waiting", "stopped"}

TypeOK ==
    /\ place \in Places
    /\ attempt \in 0 .. U32Max
    /\ delay \in 0 .. MaxDelay
    /\ version \in {0, 1}
    /\ sender \in {"open", "dropped"}
    /\ seen \in [{"run", "session"} -> {0, 1}]

Init ==
    /\ place = "top"
    /\ attempt = 0
    /\ delay = 0
    /\ version = 0
    /\ sender = "open"
    /\ seen = [r \in {"run", "session"} |-> 0]

-----------------------------------------------------------------------------
\* The arithmetic of reconnect_backoff.

Least(a, b) == IF a <= b THEN a ELSE b

\* Mutants: the counter wraps round; the product does.
IncrementWrapping(n) == (n + 1) % (U32Max + 1)
TimesWrapping(a, b) == (a * b) % (U64Max + 1)

Increment(n) == Least(n + 1, U32Max)
Times(a, b) == Least(a * b, U64Max)

\* 1u64 << shift for the shifts that can occur.
PowersOfTwo == <<1, 2, 4, 8, 16, 32, 64, 128, 256, 512, 1024, 2048, 4096, 8192,
                 16384, 32768, 65536>>
Shift(n) == Least(IF n = 0 THEN 0 ELSE n - 1, 16)
Factor(n) == PowersOfTwo[Shift(n) + 1]

Backoff(n) == Least(Times(InitialDelay, Factor(n)), MaxDelay)

-----------------------------------------------------------------------------
\* The watch channel: changed() returns when there is a version to see, and
\* fails when there is none and the sender is gone.

\* Mutant: the failure of changed() is not looked at.
StopNoticedUnlessDropped(r) == seen[r] # version /\ version = 1

StopNoticed(r) == IF seen[r] # version THEN version = 1 ELSE sender = "dropped"

Channel == <<version, sender>>

\* The signal task sends true and ends ...
Signal ==
    /\ sender = "open" /\ version = 0
    /\ version' = 1
    /\ UNCHANGED <<place, attempt, delay, sender, seen>>

\* ... or ends without having sent, when it cannot listen for the signals.
SenderDropped ==
    /\ sender = "open"
    /\ sender' = "dropped"
    /\ UNCHANGED <<place, attempt, delay, version, seen>>

-----------------------------------------------------------------------------
\* The check at the top of the loop, which marks nothing as seen.
Top ==
    /\ place = "top"
    /\ place' = IF version = 1 THEN "stopped" ELSE "connecting"
    /\ UNCHANGED <<attempt, delay, Channel, seen>>

\* consume_loop clones the receiver of the consumer, which has seen nothing.
Connected ==
    /\ place = "connecting"
    /\ place' = "session"
    /\ seen' = [seen EXCEPT !["session"] = 0]
    /\ UNCHANGED <<attempt, delay, Channel>>

WaitAfter(n) ==
    /\ place' = "waiting"
    /\ attempt' = n
    /\ delay' = Backoff(n)
    /\ UNCHANGED <<Channel, seen>>

ConnectFails == place = "connecting" /\ WaitAfter(Increment(attempt))

\* Reconnect: the session was live, so the backoff starts again.
SessionEnds == place = "session" /\ WaitAfter(1)

\* The branch of select! that waits for changed(): in consume_loop, and in
\* wait_before_reconnect.
StopIn(where, r) ==
    /\ place = where
    /\ StopNoticed(r)
    /\ place' = "stopped"
    /\ seen' = [seen EXCEPT ![r] = version]
    /\ UNCHANGED <<attempt, delay, Channel>>

SessionStops == StopIn("session", "session")
WaitStops == StopIn("waiting", "run")

WaitElapsed ==
    /\ place = "waiting"
    /\ place' = "top"
    /\ UNCHANGED <<attempt, delay, Channel, seen>>

Next ==
    \/ Signal \/ SenderDropped
    \/ Top \/ Connected \/ ConnectFails
    \/ SessionEnds \/ SessionStops \/ WaitElapsed \/ WaitStops

\* Connecting and waiting end; select! chooses at random among what is ready, so
\* a shutdown that stays ready is not passed over for ever.
Spec == Init /\ [][Next]_vars
FairSpec ==
    /\ Spec
    /\ WF_vars(Top) /\ WF_vars(WaitElapsed)
    /\ WF_vars(Connected \/ ConnectFails)
    /\ SF_vars(SessionStops \/ WaitStops)

-----------------------------------------------------------------------------
\* The longest wait: sixteen doublings, or the configured maximum.
Longest == Least(65536 * InitialDelay, MaxDelay)

\* Each wait is twice the one before, up to the longest, for as long as no session
\* comes about, however often that is: neither the counter nor the product may
\* overflow into a short wait.  After a live session the waits start over.
DelaysDouble ==
    [][/\ ConnectFails =>
             delay' = IF delay = 0 THEN InitialDelay ELSE Least(2 * delay, Longest)
       /\ SessionEnds => delay' = InitialDelay]_vars

\* The service never hammers the broker, and never stays away longer than it was
\* configured to.
WaitsInRange == place = "waiting" => delay >= InitialDelay /\ delay <= MaxDelay

\* The versions of the channel, seen by one receiver of run and one of each session,
\* amount to a flag that cannot be missed: run keeps the promise of RunLoop, a
\* signal sent between two sessions or to a loop that was never told included.
Asked == version = 1 \/ sender = "dropped"
Abstract == INSTANCE RunLoop WITH asked <- Asked
NoSignalMissed == Abstract!Spec
KeepsRunning == Abstract!Safety
=============================================================================
