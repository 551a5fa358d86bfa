------------------------- MODULE RateLimiter_proofs -------------------------
(* Theorems about RateLimiter, for any clients, threads, rates and delays.  *)
EXTENDS RateLimiter, TLAPS

-----------------------------------------------------------------------------
(* The inductive invariant. *)

\* Nothing has been read from the clock that it has not shown.
Past ==
    /\ \A w \in Workers : request[w].at <= now
    /\ sweep <= now
    /\ \A c \in DOMAIN buckets : buckets[c].last <= now
    /\ newest <= now /\ from <= now

\* The bucket of the watched client has not been credited beyond newest.
Credited == watched \in DOMAIN buckets => buckets[watched].last <= newest

\* Who is at the lock has not been there for longer than Lag.
Prompt ==
    /\ \A w \in Workers : request[w] # Idle => now <= request[w].at + Lag
    /\ sweep # -1 => now <= sweep + Lag
    /\ now <= due + Lag
    /\ due <= now + Period

\* Each bucket will go: to the sweep that is under way, or to the next one.
Scheduled ==
    \A c \in DOMAIN buckets :
        \/ /\ sweep # -1
           /\ sweep >= buckets[c].last + MaxIdle
           /\ sweep < buckets[c].last + MaxIdle + Period + Lag
        \/ due < buckets[c].last + MaxIdle + Period

Timing == Past /\ Prompt /\ Scheduled

-----------------------------------------------------------------------------
LEMMA FullPositive == Full \in Nat /\ Full >= Unit /\ Full > 0
  BY LimiterAssumption DEF Full

LEMMA Product ==
    ASSUME NEW r \in Nat, NEW x \in Int, NEW y \in Int
    PROVE  /\ r * x \in Int /\ r * (x - y) = r * x - r * y /\ r * (x + y) = r * x + r * y
           /\ x >= y => r * x >= r * y
           /\ x >= 0 => r * x >= 0
OBVIOUS

LEMMA SinceNat ==
    ASSUME NEW t \in Int, NEW u \in Int
    PROVE  /\ Since(t, u) \in Nat
           /\ t >= u => Since(t, u) = t - u
           /\ t < u => Since(t, u) = 0
  BY DEF Since, Greater

LEMMA EntryType ==
    ASSUME TypeOK, NEW c \in Clients, NEW t \in Nat
    PROVE  Entry(c, t) \in Bucket /\ Refilled(c, t) \in 0 .. Full
<1>1. Entry(c, t) \in Bucket
  BY FullPositive DEF TypeOK, Entry, Bucket
<1> DEFINE f == Refill * Since(t, Entry(c, t).last)
<1>2. Entry(c, t).tokens \in 0 .. Full /\ Entry(c, t).last \in Nat
  BY <1>1 DEF Bucket
<1>3. f \in Nat
  <2>1. Since(t, Entry(c, t).last) \in Nat
    BY <1>2 DEF Since, Greater
  <2> QED
    BY <2>1, LimiterAssumption
<1>4. Refilled(c, t) = Lesser(Entry(c, t).tokens + f, Full)
  BY DEF Refilled
<1> HIDE DEF f
<1>5. Refilled(c, t) \in 0 .. Full
  BY <1>2, <1>3, <1>4, FullPositive DEF Lesser
<1> QED
  BY <1>1, <1>5

\* What Allow(w) does, with the names of its LETs.
LEMMA AllowEffect ==
    ASSUME TypeOK, NEW w \in Workers, Allow(w),
           NEW c, c = request[w].client, NEW t, t = request[w].at
    PROVE  /\ c \in Clients /\ t \in Nat
           /\ \E b \in Bucket :
                /\ b.last = t
                /\ b.tokens = IF Refilled(c, t) >= Unit THEN Refilled(c, t) - Unit
                              ELSE Refilled(c, t)
                /\ buckets' = [d \in DOMAIN buckets \union {c} |->
                                 IF d = c THEN b ELSE buckets[d]]
           /\ Count(c, t, Refilled(c, t) >= Unit)
           /\ request' = [request EXCEPT ![w] = Idle]
           /\ UNCHANGED <<now, sweep, due>>
<1>1. c \in Clients /\ t \in Nat
  BY DEF Allow, AllowAt, TypeOK, Idle
<1>2. Refilled(c, t) \in 0 .. Full
  BY <1>1, EntryType
<1> DEFINE left == IF Refilled(c, t) >= Unit THEN Refilled(c, t) - Unit ELSE Refilled(c, t)
           b == [tokens |-> left, last |-> t]
<1>3. b \in Bucket
  <2>1. left \in 0 .. Full
    BY <1>2, FullPositive, LimiterAssumption
  <2> QED
    BY <1>1, <2>1 DEF Bucket
<1>4. /\ Store(c, [tokens |-> Refilled(c, t) - (IF Refilled(c, t) >= Unit THEN Unit ELSE 0),
                    last |-> t])
      /\ Count(c, t, Refilled(c, t) >= Unit)
      /\ request' = [request EXCEPT ![w] = Idle]
      /\ UNCHANGED <<now, sweep, due>>
  BY DEF Allow, AllowAt
<1>5. b = [tokens |-> Refilled(c, t) - (IF Refilled(c, t) >= Unit THEN Unit ELSE 0), last |-> t]
  BY <1>2, FullPositive
<1>6. Store(c, b)
  BY <1>4, <1>5
<1>7. buckets' = [d \in DOMAIN buckets \union {c} |-> IF d = c THEN b ELSE buckets[d]]
  BY <1>6 DEF Store
<1>8. b.last = t /\ b.tokens = left
  OBVIOUS
<1> HIDE DEF b
<1> QED
  BY <1>1, <1>3, <1>4, <1>7, <1>8

-----------------------------------------------------------------------------
(* Types. *)

LEMMA TypeInit == Init => TypeOK
<1> SUFFICES ASSUME Init PROVE TypeOK
  OBVIOUS
<1>1. buckets \in [{} -> Bucket]
  BY DEF Init
<1>2. \E known \in SUBSET Clients : buckets \in [known -> Bucket]
  BY <1>1
<1>3. 0 \in Nat /\ -1 \in Nat \union {-1}
  OBVIOUS
<1> QED
  BY <1>2, <1>3 DEF Init, TypeOK

LEMMA TypeStep == TypeOK /\ [Next]_vars => TypeOK'
<1> SUFFICES ASSUME TypeOK, [Next]_vars PROVE TypeOK'
  OBVIOUS
<1> USE DEF TypeOK
<1>1. CASE Tick
  BY <1>1 DEF Tick, shared, watch
<1>2. CASE SweepStart
  BY <1>2, LimiterAssumption DEF SweepStart, watch
<1>3. CASE EvictIdle
  <2> DEFINE kept == {c \in DOMAIN buckets : Since(sweep, buckets[c].last) < MaxIdle}
  <2>1. kept \in SUBSET Clients /\ buckets' \in [kept -> Bucket]
    BY <1>3 DEF EvictIdle, EvictIdleFor
  <2>2. newest' \in Nat
    BY <1>3 DEF EvictIdle, EvictIdleFor, Greater
  <2> QED
    BY <1>3, <2>1, <2>2 DEF EvictIdle, EvictIdleFor
<1>4. ASSUME NEW c \in Clients, Watch(c) PROVE TypeOK'
  BY <1>4 DEF Watch, shared
<1>5. ASSUME NEW w \in Workers, Allow(w) PROVE TypeOK'
  <2> DEFINE c == request[w].client
             t == request[w].at
  <2>1. /\ c \in Clients /\ t \in Nat
        /\ \E b \in Bucket :
             buckets' = [d \in DOMAIN buckets \union {c} |-> IF d = c THEN b ELSE buckets[d]]
        /\ Count(c, t, Refilled(c, t) >= Unit)
        /\ request' = [request EXCEPT ![w] = Idle]
        /\ UNCHANGED <<now, sweep, due>>
    BY <1>5, AllowEffect
  <2> HIDE DEF c, t
  <2>2. DOMAIN buckets \union {c} \in SUBSET Clients
    BY <2>1
  <2>3. buckets' \in [DOMAIN buckets \union {c} -> Bucket]
    BY <2>1
  <2>4. newest' \in Nat /\ regress' \in Nat /\ admitted' \in Nat
        /\ UNCHANGED <<watched, from>>
    <3>1. CASE c = watched
      <4>1. Since(newest, t) \in Nat
        BY <2>1, SinceNat
      <4>2. /\ newest' = t /\ regress' = regress + Since(newest, t)
            /\ admitted' = admitted + (IF Refilled(c, t) >= Unit THEN 1 ELSE 0)
            /\ UNCHANGED <<watched, from>>
        BY <2>1, <3>1 DEF Count
      <4> QED
        BY <2>1, <4>1, <4>2
    <3>2. CASE c # watched
      BY <2>1, <3>2 DEF Count, watch
    <3> QED
      BY <3>1, <3>2
  <2>5. request' \in [Workers -> {Idle} \union [client : Clients, at : Nat]]
    BY <2>1 DEF Idle
  <2> QED
    BY <2>1, <2>2, <2>3, <2>4, <2>5
<1>6. ASSUME NEW w \in Workers, NEW c \in Clients, Arrive(w, c) PROVE TypeOK'
  BY <1>6 DEF Arrive, watch
<1>7. CASE UNCHANGED vars
  BY <1>7 DEF vars, shared, watch
<1> QED
  BY <1>1, <1>2, <1>3, <1>4, <1>5, <1>6, <1>7 DEF Next

\* The limiter's state keeps its types: no bucket holds less than nothing or more than
\* its capacity.
THEOREM TypeCorrect == Spec => []TypeOK
  BY TypeInit, TypeStep, PTL DEF Spec

-----------------------------------------------------------------------------
(* Readings of the clock. *)

LEMMA TimingInit == Init => Timing
<1> SUFFICES ASSUME Init PROVE Timing
  OBVIOUS
<1>1. DOMAIN buckets = {}
  BY DEF Init
<1>2. Past
  BY <1>1 DEF Init, Past, Idle
<1>3. Prompt
  BY <1>1, LimiterAssumption DEF Init, Prompt, Idle
<1>4. Scheduled
  BY <1>1 DEF Scheduled
<1> QED
  BY <1>2, <1>3, <1>4 DEF Timing

LEMMA PastStep ==
    ASSUME TypeOK, TypeOK', Past, [Next]_vars
    PROVE  Past'
<1> USE DEF TypeOK
<1>1. CASE Tick
  <2>1. \A c \in DOMAIN buckets : buckets[c].last \in Nat
    BY DEF Bucket
  <2>2. \A w \in Workers : request[w].at \in Nat
    BY DEF Idle
  <2>3. now' = now + 1 /\ UNCHANGED <<buckets, request, sweep, newest, from>>
    BY <1>1 DEF Tick, shared, watch
  <2> QED
    BY <2>1, <2>2, <2>3 DEF Past
<1>2. CASE SweepStart
  BY <1>2 DEF Past, SweepStart, watch
<1>3. CASE EvictIdle
  <2>1. /\ \A c \in DOMAIN buckets' : c \in DOMAIN buckets /\ buckets'[c] = buckets[c]
        /\ newest' \in {newest, sweep} \/ newest' = newest
        /\ sweep' = -1 /\ UNCHANGED <<now, request, from>>
    BY <1>3 DEF EvictIdle, EvictIdleFor, Greater
  <2> QED
    BY <2>1 DEF Past
<1>4. ASSUME NEW c \in Clients, Watch(c) PROVE Past'
  BY <1>4 DEF Past, Watch, shared
<1>5. ASSUME NEW w \in Workers, Allow(w) PROVE Past'
  <2> DEFINE c == request[w].client
             t == request[w].at
  <2>1. /\ c \in Clients /\ t \in Nat
        /\ \E b \in Bucket :
             /\ b.last = t
             /\ buckets' = [d \in DOMAIN buckets \union {c} |-> IF d = c THEN b ELSE buckets[d]]
        /\ Count(c, t, Refilled(c, t) >= Unit)
        /\ request' = [request EXCEPT ![w] = Idle]
        /\ UNCHANGED <<now, sweep, due>>
    BY <1>5, AllowEffect
  <2>2. t <= now
    BY DEF Past
  <2> HIDE DEF c, t
  <2>3. \A d \in DOMAIN buckets' : buckets'[d].last <= now'
    BY <2>1, <2>2 DEF Past
  <2>4. newest' <= now' /\ from' <= now'
    BY <2>1, <2>2 DEF Past, Count, watch
  <2>5. \A v \in Workers : request'[v].at <= now'
    BY <2>1 DEF Past, Idle
  <2> QED
    BY <2>1, <2>3, <2>4, <2>5 DEF Past
<1>6. ASSUME NEW w \in Workers, NEW c \in Clients, Arrive(w, c) PROVE Past'
  BY <1>6 DEF Past, Arrive, watch
<1>7. CASE UNCHANGED vars
  BY <1>7 DEF Past, vars, shared, watch
<1> QED
  BY <1>1, <1>2, <1>3, <1>4, <1>5, <1>6, <1>7 DEF Next

LEMMA PromptStep ==
    ASSUME TypeOK, TypeOK', Past, Prompt, [Next]_vars
    PROVE  Prompt'
<1> USE DEF TypeOK
<1>1. CASE Tick
  <2>1. Timely /\ now' = now + 1 /\ UNCHANGED <<request, sweep, due>>
    BY <1>1 DEF Tick, shared
  <2> QED
    BY <2>1, LimiterAssumption DEF Prompt, Timely
<1>2. CASE SweepStart
  BY <1>2, LimiterAssumption DEF Prompt, SweepStart
<1>3. CASE EvictIdle
  BY <1>3 DEF Prompt, EvictIdle, EvictIdleFor
<1>4. ASSUME NEW c \in Clients, Watch(c) PROVE Prompt'
  BY <1>4 DEF Prompt, Watch, shared
<1>5. ASSUME NEW w \in Workers, Allow(w) PROVE Prompt'
  <2>1. request' = [request EXCEPT ![w] = Idle] /\ UNCHANGED <<now, sweep, due>>
    BY <1>5, AllowEffect
  <2> QED
    BY <2>1 DEF Prompt
<1>6. ASSUME NEW w \in Workers, NEW c \in Clients, Arrive(w, c) PROVE Prompt'
  BY <1>6, LimiterAssumption DEF Prompt, Arrive
<1>7. CASE UNCHANGED vars
  BY <1>7 DEF Prompt, vars, shared
<1> QED
  BY <1>1, <1>2, <1>3, <1>4, <1>5, <1>6, <1>7 DEF Next

LEMMA ScheduledStep ==
    ASSUME TypeOK, TypeOK', Past, Prompt, Scheduled, [Next]_vars
    PROVE  Scheduled'
<1> USE DEF TypeOK
<1>0. \A c \in DOMAIN buckets : buckets[c].last \in Nat
  BY DEF Bucket
<1>1. CASE UNCHANGED <<buckets, sweep, due>>
  BY <1>1 DEF Scheduled
<1>2. CASE SweepStart
  <2>1. /\ sweep = -1 /\ now >= due /\ sweep' = now /\ due' = due + Period
        /\ buckets' = buckets /\ now <= due + Lag
    BY <1>2 DEF SweepStart, Prompt
  <2> QED
    BY <1>0, <2>1, LimiterAssumption DEF Scheduled
<1>3. CASE EvictIdle
  <2>1. \A c \in DOMAIN buckets' :
           /\ c \in DOMAIN buckets /\ buckets'[c] = buckets[c]
           /\ Since(sweep, buckets[c].last) < MaxIdle
    BY <1>3 DEF EvictIdle, EvictIdleFor
  <2>2. sweep # -1 /\ due' = due /\ sweep \in Nat
    BY <1>3 DEF EvictIdle, EvictIdleFor
  <2>3. ASSUME NEW c \in DOMAIN buckets, Since(sweep, buckets[c].last) < MaxIdle
        PROVE  ~(sweep >= buckets[c].last + MaxIdle)
    BY <1>0, <2>2, <2>3, LimiterAssumption DEF Since, Greater
  <2> QED
    BY <2>1, <2>2, <2>3 DEF Scheduled
<1>4. ASSUME NEW w \in Workers, Allow(w) PROVE Scheduled'
  <2> DEFINE c == request[w].client
             t == request[w].at
  <2>1. /\ c \in Clients /\ t \in Nat
        /\ \E b \in Bucket :
             /\ b.last = t
             /\ buckets' = [d \in DOMAIN buckets \union {c} |-> IF d = c THEN b ELSE buckets[d]]
        /\ UNCHANGED <<now, sweep, due>>
    BY <1>4, AllowEffect
  <2>2. now <= t + Lag /\ due <= now + Period
    BY <1>4 DEF Prompt, Allow, AllowAt
  <2> HIDE DEF c, t
  <2>3. due < t + MaxIdle + Period
    BY <2>1, <2>2, LimiterAssumption
  <2> QED
    BY <2>1, <2>3 DEF Scheduled
<1>5. CASE Tick \/ (\E c \in Clients : Watch(c))
           \/ (\E w \in Workers, c \in Clients : Arrive(w, c)) \/ UNCHANGED vars
  <2>1. UNCHANGED <<buckets, sweep, due>>
    BY <1>5 DEF Tick, Watch, Arrive, vars, shared
  <2> QED
    BY <1>1, <2>1
<1> QED
  BY <1>2, <1>3, <1>4, <1>5 DEF Next

LEMMA TimingHolds == Spec => [](TypeOK /\ Timing)
<1>1. TypeOK /\ Timing /\ [Next]_vars => (TypeOK /\ Timing)'
  BY TypeStep, PastStep, PromptStep, ScheduledStep DEF Timing
<1> QED
  BY TypeInit, TimingInit, <1>1, PTL DEF Spec

\* A client that stays away is forgotten in bounded time, however sweeps and requests
\* overtake each other between clock and lock.
THEOREM IdleIsForgotten == Spec => []IdleForgotten
<1>1. TypeOK /\ Timing => IdleForgotten
  <2> SUFFICES ASSUME TypeOK, Timing, NEW c \in DOMAIN buckets
               PROVE  now - buckets[c].last < MaxIdle + Period + 2 * Lag
    BY DEF IdleForgotten
  <2>1. buckets[c].last \in Nat /\ now \in Nat /\ due \in Nat /\ sweep \in Int
    BY DEF TypeOK, Bucket
  <2>2. now <= due + Lag /\ (sweep # -1 => now <= sweep + Lag)
    BY DEF Timing, Prompt
  <2>3. \/ /\ sweep # -1
           /\ sweep < buckets[c].last + MaxIdle + Period + Lag
        \/ due < buckets[c].last + MaxIdle + Period
    BY DEF Timing, Scheduled
  <2> QED
    BY <2>1, <2>2, <2>3, LimiterAssumption
<1> QED
  BY <1>1, TimingHolds, PTL

-----------------------------------------------------------------------------
(* Admissions. *)

\* A refused client that waits as long as Retry-After says is admitted: a refusal costs
\* nothing and the refill of that time is worth a token.
THEOREM RetryAfterIsHonest == Spec => RetryAfterHonest
<1>1. ASSUME TypeOK, NEW w \in Workers, NEW c, c = request[w].client,
             Allow(w), c = watched, c \in DOMAIN buckets,
             request[w].at >= buckets[c].last + Second
      PROVE  admitted' = admitted + 1
  <2> DEFINE t == request[w].at
  <2>1. c \in Clients /\ t \in Nat /\ Count(c, t, Refilled(c, t) >= Unit)
    BY <1>1, AllowEffect
  <2>2. buckets[c].tokens \in 0 .. Full /\ buckets[c].last \in Nat
    BY <1>1 DEF TypeOK, Bucket
  <2>3. Since(t, buckets[c].last) \in Nat /\ Since(t, buckets[c].last) >= Second
    BY <1>1, <2>1, <2>2, LimiterAssumption DEF Since, Greater
  <2> DEFINE f == Refill * Since(t, buckets[c].last)
  <2>4. f \in Int /\ f >= Refill * Second
    <3>1. Second \in Int /\ Since(t, buckets[c].last) \in Int /\ Refill \in Nat
      BY <2>3, LimiterAssumption
    <3> QED
      BY <2>3, <3>1, Product
  <2>5. f >= Unit /\ f \in Int
    BY <2>4, LimiterAssumption
  <2>6. Refilled(c, t) = Lesser(buckets[c].tokens + f, Full)
    BY <1>1 DEF Refilled, Entry
  <2> HIDE DEF f
  <2>7. Refilled(c, t) >= Unit
    BY <2>2, <2>5, <2>6, FullPositive, LimiterAssumption DEF Lesser
  <2> HIDE DEF t
  <2> QED
    BY <1>1, <2>1, <2>7 DEF Count
<1> DEFINE Honest == \A w \in Workers :
             LET c == request[w].client
             IN  Allow(w) /\ c = watched /\ c \in DOMAIN buckets
                    /\ request[w].at >= buckets[c].last + Second
                 => admitted' = admitted + 1
<1>2. TypeOK => Honest
  BY <1>1
<1> QED
  BY <1>2, TypeCorrect, PTL DEF RetryAfterHonest, Honest

\* What a reading t of the clock makes of the bound, when the bucket was credited up
\* to last and the client's time up to n.
LEMMA ReadingArithmetic ==
    ASSUME NEW tokens \in Nat, NEW last \in Nat, NEW n \in Nat, NEW t \in Nat,
           NEW f \in Nat, NEW r \in Nat, NEW taken \in Nat,
           last <= n, tokens <= Full,
           taken + Lesser(tokens + Refill * Since(n, last), Full)
               <= Full + Refill * (n - f + r)
    PROVE  taken + Lesser(tokens + Refill * Since(t, last), Full)
               <= Full + Refill * (t - f + (r + Since(n, t)))
<1> DEFINE old == Refill * Since(n, last)
           new == Refill * Since(t, last)
           before == Refill * (n - f + r)
           after == Refill * (t - f + (r + Since(n, t)))
<1>0. Refill \in Nat /\ Full \in Nat
  BY FullPositive, LimiterAssumption
<1>1. old \in Nat /\ new \in Nat /\ before \in Int /\ after \in Int
  <2>1. Since(n, last) \in Nat /\ Since(t, last) \in Nat /\ Since(n, t) \in Nat
    BY DEF Since, Greater
  <2>2. n - f + r \in Int /\ t - f + (r + Since(n, t)) \in Int
    BY <2>1
  <2> QED
    BY <1>0, <2>1, <2>2, Product
<1>2. CASE t >= n
  <2>1. Since(n, last) = n - last /\ Since(t, last) = t - last
    BY <1>2 DEF Since, Greater
  <2>2. t - last = (n - last) + (t - n) /\ t - f + (r + Since(n, t)) = (n - f + r) + (t - n)
    BY <1>2 DEF Since, Greater
  <2>3. new = old + Refill * (t - n)
    BY <1>0, <2>1, <2>2, Product
  <2>4. after = before + Refill * (t - n)
    BY <1>0, <2>2, Product
  <2>5. Refill * (t - n) \in Nat
    BY <1>0, <1>2, Product
  <2> HIDE DEF old, new, before, after
  <2> DEFINE gain == Refill * (t - n)
  <2>6. gain \in Nat /\ new = old + gain /\ after = before + gain
    BY <2>3, <2>4, <2>5
  <2>7. taken + Lesser(tokens + old, Full) <= Full + before
    BY DEF old, before
  <2> HIDE DEF gain
  <2>8. taken + Lesser(tokens + new, Full) <= Full + after
    BY <1>0, <1>1, <2>6, <2>7 DEF Lesser
  <2> QED
    BY <2>8 DEF new, after
<1>3. CASE t < n
  <2>1. Since(t, last) <= Since(n, last)
    BY <1>3 DEF Since, Greater
  <2>2. t - f + (r + Since(n, t)) = n - f + r
    BY <1>3 DEF Since, Greater
  <2>3. new <= old
    BY <1>0, <2>1, SinceNat, Product
  <2>4. after = before
    BY <2>2
  <2>5. taken + Lesser(tokens + old, Full) <= Full + before
    OBVIOUS
  <2> HIDE DEF old, new, before, after
  <2>6. taken + Lesser(tokens + new, Full) <= Full + after
    BY <1>0, <1>1, <2>3, <2>4, <2>5 DEF Lesser
  <2> QED
    BY <2>6 DEF new, after
<1> QED
  BY <1>2, <1>3

\* What the end of a bucket that idled for MaxIdle makes of it.
LEMMA EvictionArithmetic ==
    ASSUME NEW tokens \in Nat, NEW last \in Nat, NEW n \in Nat, NEW e \in Nat,
           NEW f \in Nat, NEW r \in Nat, NEW taken \in Nat,
           last <= n, tokens <= Full, e - last >= MaxIdle,
           taken + Lesser(tokens + Refill * Since(n, last), Full)
               <= Full + Refill * (n - f + r)
    PROVE  taken + Full <= Full + Refill * (Greater(n, e) - f + r)
<1> DEFINE g == Greater(n, e)
<1>0. Refill \in Nat /\ Full \in Nat /\ MaxIdle \in Nat /\ Refill * MaxIdle >= Full
  BY FullPositive, LimiterAssumption DEF Full
<1>1. g \in Nat /\ g >= n /\ g >= e /\ g - last >= MaxIdle
  BY <1>0 DEF Greater
<1>2. taken + Lesser(tokens + Refill * Since(g, last), Full)
        <= Full + Refill * (g - f + (r + Since(n, g)))
  <2> HIDE DEF g
  <2> QED
    BY <1>1, ReadingArithmetic
<1>3. Since(n, g) = 0 /\ Since(g, last) = g - last
  BY <1>0, <1>1 DEF Since, Greater
<1> HIDE DEF g
<1>4. Refill * (g - last) \in Int /\ Refill * (g - last) >= Full
  <2>1. Refill * (g - last) >= Refill * MaxIdle
    BY <1>0, <1>1, Product
  <2>2. Refill * (g - last) \in Int /\ Refill * MaxIdle \in Int
    BY <1>0, <1>1, Product
  <2> QED
    BY <1>0, <2>1, <2>2
<1>5. Lesser(tokens + Refill * Since(g, last), Full) = Full
  BY <1>0, <1>3, <1>4 DEF Lesser
<1>6. g - f + (r + Since(n, g)) = g - f + r
  BY <1>1, <1>3
<1> QED
  BY <1>2, <1>5, <1>6 DEF g

\* Nothing has been counted before somebody is watched.
Unwatched == watched = Nobody => admitted = 0 /\ regress = 0

Bounded == Credited /\ AdmissionsBounded /\ Unwatched

LEMMA BoundedInit == Init => Bounded
  BY LimiterAssumption DEF Init, Bounded, Credited, AdmissionsBounded, Unwatched

\* The bound in terms of the entry of the watched client, if it has one.
LEMMA LevelEntry ==
    ASSUME TypeOK
    PROVE  /\ watched \in DOMAIN buckets =>
                /\ buckets[watched].tokens \in Nat /\ buckets[watched].tokens <= Full
                /\ buckets[watched].last \in Nat
                /\ Level = Lesser(buckets[watched].tokens
                                    + Refill * Since(newest, buckets[watched].last), Full)
           /\ watched \notin DOMAIN buckets => Level = Full
           /\ Level \in 0 .. Full
<1>1. ASSUME watched \in DOMAIN buckets
      PROVE  buckets[watched].tokens \in 0 .. Full /\ buckets[watched].last \in Nat
  BY <1>1 DEF TypeOK, Bucket
<1>2. CASE watched \in DOMAIN buckets
  <2> DEFINE f == Refill * Since(newest, buckets[watched].last)
  <2>1. Since(newest, buckets[watched].last) \in Nat
    BY <1>1, <1>2 DEF TypeOK, Since, Greater
  <2>2. f \in Nat
    BY <2>1, LimiterAssumption
  <2>3. Level = Lesser(buckets[watched].tokens + f, Full)
    BY <1>2 DEF Level
  <2> HIDE DEF f
  <2>4. Level \in 0 .. Full
    BY <1>1, <1>2, <2>2, <2>3, FullPositive DEF Lesser
  <2> QED
    BY <1>1, <1>2, <2>3, <2>4, FullPositive DEF f
<1>3. CASE watched \notin DOMAIN buckets
  BY <1>3, FullPositive DEF Level
<1> QED
  BY <1>2, <1>3

LEMMA BoundedAllow ==
    ASSUME TypeOK, TypeOK', Bounded, NEW w \in Workers, Allow(w)
    PROVE  Bounded'
<1> DEFINE c == request[w].client
           t == request[w].at
<1>1. PICK b \in Bucket :
        /\ b.last = t
        /\ b.tokens = IF Refilled(c, t) >= Unit THEN Refilled(c, t) - Unit ELSE Refilled(c, t)
        /\ buckets' = [d \in DOMAIN buckets \union {c} |-> IF d = c THEN b ELSE buckets[d]]
  BY AllowEffect
<1>2. c \in Clients /\ t \in Nat /\ Count(c, t, Refilled(c, t) >= Unit)
  BY AllowEffect
<1>3. Refilled(c, t) \in 0 .. Full
  BY <1>2, EntryType
<1> HIDE DEF c, t
<1>4. CASE c # watched
  <2>1. UNCHANGED <<watched, from, newest, regress, admitted>>
    BY <1>2, <1>4 DEF Count, watch
  <2>2. /\ (watched \in DOMAIN buckets') = (watched \in DOMAIN buckets)
        /\ watched \in DOMAIN buckets => buckets'[watched] = buckets[watched]
    BY <1>1, <1>4
  <2>3. Level' = Level
    BY <2>1, <2>2 DEF Level
  <2> QED
    BY <2>1, <2>2, <2>3 DEF Bounded, Credited, AdmissionsBounded, Unwatched
<1>5. CASE c = watched
  <2>1. /\ newest' = t
        /\ regress' = regress + Since(newest, t)
        /\ admitted' = admitted + (IF Refilled(c, t) >= Unit THEN 1 ELSE 0)
        /\ watched' = watched /\ from' = from
    BY <1>2, <1>5 DEF Count
  <2>2. watched # Nobody
    BY <1>2, <1>5, LimiterAssumption
  <2>3. c \in DOMAIN buckets' /\ buckets'[c] = b
    BY <1>1
  <2>4. Credited' /\ Unwatched'
    BY <1>1, <1>2, <1>5, <2>1, <2>2, <2>3 DEF Credited, Unwatched
  <2>5. {newest, from, regress, admitted} \subseteq Nat
    BY DEF TypeOK
  <2> DEFINE taken == Unit * admitted
  <2>6. taken \in Nat /\ Unit \in Nat /\ Unit * (admitted + 1) = taken + Unit
    BY <2>5, LimiterAssumption
  <2>7. taken + Refilled(c, t) <= Full + Refill * (t - from + (regress + Since(newest, t)))
    <3>1. taken + Level <= Full + Refill * (newest - from + regress)
      BY <2>2 DEF Bounded, AdmissionsBounded
    <3> HIDE DEF taken
    <3>2. CASE c \in DOMAIN buckets
      <4> DEFINE T == buckets[c].tokens
                 L == buckets[c].last
      <4>1. T \in Nat /\ T <= Full /\ L \in Nat /\ L <= newest
            /\ Level = Lesser(T + Refill * Since(newest, L), Full)
        BY <1>5, <3>2, LevelEntry DEF Bounded, Credited
      <4>2. Refilled(c, t) = Lesser(T + Refill * Since(t, L), Full)
        BY <3>2 DEF Refilled, Entry
      <4> HIDE DEF T, L
      <4>3. taken + Lesser(T + Refill * Since(newest, L), Full)
              <= Full + Refill * (newest - from + regress)
        BY <3>1, <4>1
      <4>4. taken + Lesser(T + Refill * Since(t, L), Full)
              <= Full + Refill * (t - from + (regress + Since(newest, t)))
        BY <1>2, <2>5, <2>6, <4>1, <4>3, ReadingArithmetic
      <4> QED
        BY <4>2, <4>4
    <3>3. CASE c \notin DOMAIN buckets
      <4>1. Level = Full
        BY <1>5, <3>3, LevelEntry
      <4>2. t - from + (regress + Since(newest, t)) >= newest - from + regress
        BY <1>2, <2>5 DEF Since, Greater
      <4>3. /\ t - from + (regress + Since(newest, t)) \in Int
            /\ newest - from + regress \in Int
        BY <1>2, <2>5 DEF Since, Greater
      <4>4. Refill * (t - from + (regress + Since(newest, t)))
              >= Refill * (newest - from + regress)
        BY <4>2, <4>3, Product, LimiterAssumption
      <4>5. /\ Refill * (t - from + (regress + Since(newest, t))) \in Int
            /\ Refill * (newest - from + regress) \in Int
        BY <4>3, Product, LimiterAssumption
      <4> QED
        BY <1>3, <2>6, <3>1, <4>1, <4>4, <4>5, FullPositive
    <3> QED
      BY <3>2, <3>3
  <2>8. Level' = b.tokens
    <3>1. Since(t, t) = 0
      BY <1>2 DEF Since, Greater
    <3>2. Level' = Lesser(b.tokens + Refill * 0, Full)
      BY <1>1, <1>5, <2>1, <2>3, <3>1 DEF Level
    <3>3. b.tokens \in 0 .. Full /\ Refill * 0 = 0
      BY LimiterAssumption DEF Bucket
    <3> QED
      BY <3>2, <3>3, FullPositive DEF Lesser
  <2>9. Unit * admitted' + b.tokens = taken + Refilled(c, t)
    <3> HIDE DEF taken
    <3>1. CASE Refilled(c, t) >= Unit
      BY <1>1, <1>3, <2>1, <2>6, <3>1
    <3>2. CASE ~(Refilled(c, t) >= Unit)
      <4>1. admitted' = admitted /\ b.tokens = Refilled(c, t)
        BY <1>1, <2>1, <2>5, <3>2
      <4> QED
        BY <4>1 DEF taken
    <3> QED
      BY <3>1, <3>2
  <2>10. Unit * admitted' + Level' <= Full + Refill * (newest' - from' + regress')
    <3>1. Unit * admitted' + Level' = taken + Refilled(c, t)
      BY <2>8, <2>9
    <3>2. Refill * (newest' - from' + regress')
            = Refill * (t - from + (regress + Since(newest, t)))
      BY <2>1
    <3> QED
      BY <2>7, <3>1, <3>2
  <2> QED
    BY <2>4, <2>10 DEF Bounded, AdmissionsBounded
<1> QED
  BY <1>4, <1>5

LEMMA BoundedEvict ==
    ASSUME TypeOK, TypeOK', Bounded, EvictIdle
    PROVE  Bounded'
<1>1. /\ \A d \in DOMAIN buckets' : d \in DOMAIN buckets /\ buckets'[d] = buckets[d]
      /\ \A d \in DOMAIN buckets :
            Since(sweep, buckets[d].last) < MaxIdle => d \in DOMAIN buckets'
      /\ sweep # -1
      /\ newest' = IF watched \in DOMAIN buckets /\ watched \notin DOMAIN buckets'
                   THEN Greater(newest, sweep) ELSE newest
      /\ UNCHANGED <<watched, from, regress, admitted>>
  BY DEF EvictIdle, EvictIdleFor
<1>2. CASE watched \in DOMAIN buckets /\ watched \notin DOMAIN buckets'
  <2> DEFINE T == buckets[watched].tokens
             L == buckets[watched].last
             taken == Unit * admitted
  <2>0. {newest, from, regress, admitted, sweep} \subseteq Nat
    BY <1>1 DEF TypeOK
  <2>1. taken \in Nat
    BY <2>0, LimiterAssumption
  <2>2. watched # Nobody
    BY <1>2, LimiterAssumption DEF TypeOK
  <2>3. T \in Nat /\ T <= Full /\ L \in Nat /\ L <= newest
        /\ Level = Lesser(T + Refill * Since(newest, L), Full)
    BY <1>2, LevelEntry DEF Bounded, Credited
  <2>4. sweep - L >= MaxIdle
    <3>1. ~(Since(sweep, L) < MaxIdle)
      BY <1>1, <1>2
    <3> QED
      BY <2>0, <2>3, <3>1, LimiterAssumption DEF Since, Greater
  <2>5. taken + Level <= Full + Refill * (newest - from + regress)
    BY <2>2 DEF Bounded, AdmissionsBounded
  <2> HIDE DEF T, L, taken
  <2>6. taken + Full <= Full + Refill * (Greater(newest, sweep) - from + regress)
    BY <2>0, <2>1, <2>3, <2>4, <2>5, EvictionArithmetic
  <2>7. Level' = Full
    BY <1>1, <1>2 DEF Level, Full
  <2>8. Unit * admitted' = taken /\ newest' = Greater(newest, sweep)
    BY <1>1, <1>2 DEF taken
  <2> QED
    BY <1>1, <1>2, <2>2, <2>6, <2>7, <2>8
       DEF Bounded, AdmissionsBounded, Credited, Unwatched
<1>3. CASE ~(watched \in DOMAIN buckets /\ watched \notin DOMAIN buckets')
  <2>1. UNCHANGED watch
    BY <1>1, <1>3 DEF watch
  <2>2. /\ (watched \in DOMAIN buckets') = (watched \in DOMAIN buckets)
        /\ watched \in DOMAIN buckets => buckets'[watched] = buckets[watched]
    BY <1>1, <1>3
  <2>3. Level' = Level
    BY <2>1, <2>2 DEF Level, watch
  <2> QED
    BY <2>1, <2>2, <2>3 DEF Bounded, Credited, AdmissionsBounded, Unwatched, watch
<1> QED
  BY <1>2, <1>3

LEMMA BoundedStep ==
    ASSUME TypeOK, TypeOK', Past, Bounded, [Next]_vars
    PROVE  Bounded'
<1>1. CASE UNCHANGED <<buckets, watch>>
  BY <1>1 DEF Bounded, Credited, AdmissionsBounded, Unwatched, Level, watch
<1>2. CASE EvictIdle
  BY <1>2, BoundedEvict
<1>3. ASSUME NEW w \in Workers, Allow(w) PROVE Bounded'
  BY <1>3, BoundedAllow
<1>4. ASSUME NEW c \in Clients, Watch(c) PROVE Bounded'
  <2>1. /\ watched' = c /\ from' = now /\ newest' = now /\ buckets' = buckets
        /\ regress' = 0 /\ admitted' = 0
    BY <1>4 DEF Watch, shared, Bounded, Unwatched
  <2>2. Credited' /\ Unwatched'
    BY <1>4, <2>1, LimiterAssumption DEF Credited, Unwatched, Past
  <2>3. Level' \in 0 .. Full
    <3>1. (Level \in 0 .. Full)'
      BY LevelEntry, PTL
    <3> QED
      BY <3>1 DEF Full
  <2>4. Unit * admitted' = 0 /\ Refill * (newest' - from' + regress') = 0
    BY <2>1, LimiterAssumption DEF TypeOK
  <2> QED
    BY <2>2, <2>3, <2>4, FullPositive DEF Bounded, AdmissionsBounded
<1>5. CASE Tick \/ SweepStart \/ (\E w \in Workers, c \in Clients : Arrive(w, c))
           \/ UNCHANGED vars
  <2>1. UNCHANGED <<buckets, watch>>
    BY <1>5 DEF Tick, SweepStart, Arrive, vars, shared
  <2> QED
    BY <1>1, <2>1
<1> QED
  BY <1>2, <1>3, <1>4, <1>5 DEF Next

THEOREM Invariance == Spec => [](TypeOK /\ Timing /\ Bounded)
<1>1. TypeOK /\ Timing /\ Bounded /\ [Next]_vars => Bounded'
  BY TypeStep, BoundedStep DEF Timing
<1>2. Init => Bounded
  BY BoundedInit
<1> QED
  BY <1>1, <1>2, TimingHolds, PTL DEF Spec

\* In any interval a client gets a full bucket and what flows in, and what flows in twice
\* because the clock is read outside the lock; eviction gives nothing away.
THEOREM AdmissionsAreBounded == Spec => []AdmissionsBounded
  BY Invariance, PTL DEF Bounded

-----------------------------------------------------------------------------
(* The burst and the rate. *)

\* "60 burst capacity, refills at 10 req/s per IP" (server/mod.rs, run), with what the code
\* adds to it: the time by which readings of the clock, taken before the lock, went back.
BurstAndRate ==
    watched # Nobody => Unit * admitted <= Full + Refill * (now - from + regress)

\* Only a request of the client that was overtaken at the lock adds to it, and no more than
\* a thread may lag there.
OvertakingCostsLag ==
    [][regress' # regress =>
          /\ regress' <= regress + Lag
          /\ \E w \in Workers :
                Allow(w) /\ request[w].client = watched /\ request[w].at < newest]_vars

\* The burst and the rate hold but for overtaking, and each request that is overtaken between
\* clock and lock costs at most the refill of the time it lagged.
THEOREM BurstHoldsButForOvertaking == Spec => []BurstAndRate /\ OvertakingCostsLag
<1>1. TypeOK /\ Timing /\ Bounded => BurstAndRate
  <2> SUFFICES ASSUME TypeOK, Timing, Bounded, watched # Nobody
               PROVE  Unit * admitted <= Full + Refill * (now - from + regress)
    BY DEF BurstAndRate
  <2>1. {newest, from, regress, admitted, now} \subseteq Nat /\ newest <= now
    BY DEF TypeOK, Timing, Past
  <2>2. Unit * admitted + Level <= Full + Refill * (newest - from + regress)
    BY DEF Bounded, AdmissionsBounded
  <2>3. /\ newest - from + regress \in Int /\ now - from + regress \in Int
        /\ now - from + regress >= newest - from + regress
    BY <2>1
  <2>4. /\ Refill * (newest - from + regress) \in Int /\ Refill * (now - from + regress) \in Int
        /\ Refill * (newest - from + regress) <= Refill * (now - from + regress)
    BY <2>3, Product, LimiterAssumption
  <2>5. Unit * admitted \in Int
    BY <2>1, Product, LimiterAssumption
  <2> QED
    BY <2>2, <2>4, <2>5, LevelEntry, FullPositive
<1>2. ASSUME TypeOK, Timing, [Next]_vars, regress' # regress
      PROVE  /\ regress' <= regress + Lag
             /\ \E w \in Workers :
                   Allow(w) /\ request[w].client = watched /\ request[w].at < newest
  <2>1. ASSUME NEW w \in Workers, Allow(w)
        PROVE  regress' <= regress + Lag /\ request[w].client = watched /\ request[w].at < newest
    <3> DEFINE c == request[w].client
               t == request[w].at
    <3>1. c \in Clients /\ t \in Nat /\ Count(c, t, Refilled(c, t) >= Unit)
      BY <1>2, <2>1, AllowEffect
    <3>2. now <= t + Lag /\ newest <= now /\ {now, newest, regress, Lag} \subseteq Nat
      BY <1>2, <2>1, LimiterAssumption DEF TypeOK, Timing, Prompt, Past, Allow, AllowAt
    <3> HIDE DEF c, t
    <3>3. c = watched /\ regress' = regress + Since(newest, t)
      BY <1>2, <3>1 DEF Count, watch
    <3>4. t < newest
      <4>1. ~ (t < newest) => Since(newest, t) = 0
        BY <3>1, <3>2 DEF Since, Greater
      <4> QED
        BY <1>2, <3>2, <3>3, <4>1
    <3>5. Since(newest, t) = newest - t
      BY <3>1, <3>2, <3>4 DEF Since, Greater
    <3>6. regress' <= regress + Lag
      BY <3>1, <3>2, <3>3, <3>5
    <3> QED
      BY <3>3, <3>4, <3>6 DEF c, t
  <2>2. CASE \/ Tick \/ SweepStart \/ EvictIdle \/ (\E c \in Clients : Watch(c))
             \/ (\E w \in Workers, c \in Clients : Arrive(w, c)) \/ UNCHANGED vars
    BY <1>2, <2>2 DEF Tick, SweepStart, EvictIdle, EvictIdleFor, Watch, Arrive, vars, watch
  <2> QED
    BY <1>2, <2>1, <2>2 DEF Next
<1>3. TypeOK /\ Timing /\ [Next]_vars =>
        [regress' # regress =>
           /\ regress' <= regress + Lag
           /\ \E w \in Workers :
                 Allow(w) /\ request[w].client = watched /\ request[w].at < newest]_vars
  BY <1>2
<1> QED
  BY <1>1, <1>3, Invariance, PTL DEF Spec, OvertakingCostsLag
=============================================================================
