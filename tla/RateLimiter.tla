---------------------------- MODULE RateLimiter ----------------------------
(***************************************************************************)
(* RateLimiter of server/rate_limit.rs, as server/mod.rs runs it: worker   *)
(* threads that handle requests, and a task that sweeps the map.  Both     *)
(* read the clock before they wait for the lock.                           *)
(*                                                                         *)
(* Time is counted in ticks, what a bucket holds in units: a token is Unit *)
(* units, and a tick brings Refill units.                                  *)
(***************************************************************************)
EXTENDS Integers, FiniteSets

CONSTANTS Clients,   \* the addresses of clients
          Workers,   \* the threads of the runtime
          Capacity,  \* the burst, in tokens
          Unit, Refill,
          Second,    \* the Retry-After of a refusal, in ticks
          MaxIdle,   \* the argument of evict_idle, in ticks
          Period,    \* the interval of the sweeps, in ticks
          Lag,       \* the longest time from a clock reading to the lock, and
                     \* from the due time of a sweep to its start
          MaxTime,   \* the end of the clock
          Nobody     \* no client

\* new(60, 10.0), evict_idle(600) and Retry-After 1 satisfy this: a bucket fills up
\* while it idles, and gains a token while a client waits as it is told to.  Nobody
\* stays at the lock for as long as it takes to idle.
ASSUME LimiterAssumption ==
    /\ {Capacity, Unit, Refill, Second, MaxIdle, Period} \subseteq Nat \ {0}
    /\ {Lag, MaxTime} \subseteq Nat
    /\ Refill * MaxIdle >= Capacity * Unit
    /\ Refill * Second >= Unit
    /\ Lag < MaxIdle
    /\ Nobody \notin Clients

Full == Capacity * Unit

VARIABLES
    now,      \* the clock
    buckets,  \* the map: for some clients, the units they have and since when
    request,  \* request[w]: the client w serves and its reading of the clock
    sweep,    \* the sweep's reading of the clock, -1 outside evict_idle
    due,      \* when the next sweep is due
    watched,  \* a client whose requests are counted from some moment on ...
    from,     \* ... that moment
    newest,   \* the time up to which its bucket has been credited
    regress,  \* by how much the readings applied to it went back, in all
    admitted  \* its requests admitted since

shared == <<buckets, request, sweep, due>>
watch == <<watched, from, newest, regress, admitted>>
vars == <<now, shared, watch>>

Idle == [client |-> Nobody, at |-> 0]
Bucket == [tokens : 0 .. Full, last : Nat]

TypeOK ==
    /\ now \in Nat
    /\ \E known \in SUBSET Clients : buckets \in [known -> Bucket]
    /\ request \in [Workers -> {Idle} \union [client : Clients, at : Nat]]
    /\ sweep \in Nat \union {-1}
    /\ due \in Nat
    /\ watched \in Clients \union {Nobody}
    /\ {from, newest, regress, admitted} \subseteq Nat

Init ==
    /\ now = 0
    /\ buckets = [c \in {} |-> Idle]
    /\ request = [w \in Workers |-> Idle]
    /\ sweep = -1
    /\ due = 0
    /\ watched = Nobody
    /\ from = 0 /\ newest = 0 /\ regress = 0 /\ admitted = 0

-----------------------------------------------------------------------------
Greater(a, b) == IF a >= b THEN a ELSE b
Lesser(a, b) == IF a <= b THEN a ELSE b

\* Instant::duration_since is zero for a later instant.
Since(t, last) == Greater(t - last, 0)

\* No thread stays longer than Lag at the lock, and no sweep starts later.
Timely ==
    /\ \A w \in Workers : request[w] # Idle => now < request[w].at + Lag
    /\ sweep # -1 => now < sweep + Lag
    /\ now < due + Lag

Tick ==
    /\ now < MaxTime
    /\ Timely
    /\ now' = now + 1
    /\ UNCHANGED <<shared, watch>>

\* allow, before the lock.
Arrive(w, c) ==
    /\ request[w] = Idle
    /\ request' = [request EXCEPT ![w] = [client |-> c, at |-> now]]
    /\ UNCHANGED <<now, buckets, sweep, due, watch>>

\* map.entry(addr).or_insert(..)
Entry(c, t) == IF c \in DOMAIN buckets THEN buckets[c] ELSE [tokens |-> Full, last |-> t]

\* What the bucket of c holds for a request that read the clock at t.
Refilled(c, t) == Lesser(Entry(c, t).tokens + Refill * Since(t, Entry(c, t).last), Full)

Store(c, b) ==
    buckets' = [d \in DOMAIN buckets \union {c} |-> IF d = c THEN b ELSE buckets[d]]

\* The part of a request that counts for the watched client.
Count(c, t, ok) ==
    IF c = watched
    THEN /\ newest' = t
         /\ regress' = regress + Since(newest, t)
         /\ admitted' = admitted + (IF ok THEN 1 ELSE 0)
         /\ UNCHANGED <<watched, from>>
    ELSE UNCHANGED watch

\* allow, under the lock, with the price that is taken off when it says no.
AllowAt(w, price) ==
    LET c == request[w].client
        t == request[w].at
        ok == Refilled(c, t) >= Unit
    IN  /\ request[w] # Idle
        /\ Store(c, [tokens |-> Refilled(c, t) - (IF ok THEN Unit ELSE price), last |-> t])
        /\ Count(c, t, ok)
        /\ request' = [request EXCEPT ![w] = Idle]
        /\ UNCHANGED <<now, sweep, due>>

\* Mutant: a refusal is charged like an admission.
AllowCharging(w) == AllowAt(w, Unit)

Allow(w) == AllowAt(w, 0)

\* evict_idle, before the lock.
SweepStart ==
    /\ sweep = -1
    /\ now >= due
    /\ sweep' = now
    /\ due' = due + Period
    /\ UNCHANGED <<now, buckets, request, watch>>

EvictIdleFor(idle) ==
    LET kept == {c \in DOMAIN buckets : Since(sweep, buckets[c].last) < idle}
    IN  /\ sweep # -1
        /\ sweep' = -1
        /\ buckets' = [c \in kept |-> buckets[c]]
        /\ newest' = IF watched \in DOMAIN buckets \ kept THEN Greater(newest, sweep) ELSE newest
        /\ UNCHANGED <<now, request, due, watched, from, regress, admitted>>

\* Mutants: buckets are dropped one period early, and one tick late.
EvictEarly == EvictIdleFor(MaxIdle - Period)
EvictLate == EvictIdleFor(MaxIdle + 1)

\* evict_idle, under the lock.
EvictIdle == EvictIdleFor(MaxIdle)

\* Start counting the requests of c; not a step of the program.
Watch(c) ==
    /\ watched = Nobody
    /\ watched' = c
    /\ from' = now /\ newest' = now
    /\ UNCHANGED <<now, shared, regress, admitted>>

Next ==
    \/ Tick
    \/ SweepStart
    \/ EvictIdle
    \/ \E c \in Clients : Watch(c)
    \/ \E w \in Workers : Allow(w) \/ \E c \in Clients : Arrive(w, c)

Spec == Init /\ [][Next]_vars

-----------------------------------------------------------------------------
\* In any interval a client gets no more than a full bucket and what flows in while
\* the clock runs, except that time by which a reading goes back (one thread
\* overtakes another between clock and lock, or a sweep does) flows in twice.
\* Forgetting a bucket and starting a fresh one gives nothing away.
Level ==
    IF watched \in DOMAIN buckets
    THEN Lesser(buckets[watched].tokens + Refill * Since(newest, buckets[watched].last), Full)
    ELSE Full

AdmissionsBounded ==
    watched # Nobody =>
        Unit * admitted + Level <= Full + Refill * (newest - from + regress)

\* A client that was refused and does as Retry-After tells it is admitted.
RetryAfterHonest ==
    [][\A w \in Workers :
          LET c == request[w].client
          IN  Allow(w) /\ c = watched /\ c \in DOMAIN buckets
                 /\ request[w].at >= buckets[c].last + Second
              => admitted' = admitted + 1]_vars

\* The memory of the map is bounded: it forgets a client at the first sweep that
\* finds it idle for MaxIdle, however sweeps and requests overtake each other.
IdleForgotten ==
    \A c \in DOMAIN buckets : now - buckets[c].last < MaxIdle + Period + 2 * Lag
=============================================================================
