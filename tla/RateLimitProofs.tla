-------------------------- MODULE RateLimitProofs --------------------------
(***************************************************************************)
(* Proofs about RateLimit, for any limits, any window, any number of       *)
(* requests and any calls, over each of the backends.                      *)
(***************************************************************************)
EXTENDS RateLimit, TLAPS

(***************************************************************************)
(* The keys of a call are numbered from 1, are keys, and have a limit.     *)
(***************************************************************************)
LEMMA KeyShape ==
    ASSUME NEW c \in Calls
    PROVE  /\ DOMAIN KeysOf(c) \in {1..1, 1..2}
           /\ \A i \in DOMAIN KeysOf(c) :
                 KeysOf(c)[i] \in Keys /\ Limit(KeysOf(c)[i]) = Limits[c.scope]
<1>1. \E a, b : /\ a[2] = c.scope /\ b[2] = c.scope
                /\ KeysOf(c) = <<a>> \/ KeysOf(c) = <<a, b>>
  <2>1. CASE c.family = "auth"
    <3> DEFINE a == <<"auth", c.scope, "ip", c.ip>>
               b == <<"auth", c.scope, "identifier", c.identifier>>
    <3>1. a[2] = c.scope /\ b[2] = c.scope
      OBVIOUS
    <3>2. KeysOf(c) = <<a>> \/ KeysOf(c) = <<a, b>>
      BY <2>1 DEF KeysOf
    <3> QED BY <3>1, <3>2
  <2>2. CASE c.family = "authenticated"
    <3> DEFINE a == <<"authenticated", c.scope, c.organization,
                      IF c.shared THEN None ELSE c.actor, c.resource>>
    <3>1. a[2] = c.scope
      OBVIOUS
    <3>2. KeysOf(c) = <<a>>
      BY <2>2 DEF KeysOf
    <3> QED BY <3>1, <3>2
  <2>3. CASE c.family = "gateway"
    <3> DEFINE a == <<"gateway", c.scope, c.organization, c.token, c.resource>>
    <3>1. a[2] = c.scope
      OBVIOUS
    <3>2. KeysOf(c) = <<a>>
      BY <2>3 DEF KeysOf
    <3> QED BY <3>1, <3>2
  <2> QED BY <2>1, <2>2, <2>3, RateAssumption DEF Families
<1>2. PICK a, b : /\ a[2] = c.scope /\ b[2] = c.scope
                  /\ KeysOf(c) = <<a>> \/ KeysOf(c) = <<a, b>>
  BY <1>1
<1>3. DOMAIN KeysOf(c) \in {1..1, 1..2}
  BY <1>2
<1>4. \A i \in DOMAIN KeysOf(c) : KeysOf(c)[i] \in {a, b}
  BY <1>2
<1>5. \A i \in DOMAIN KeysOf(c) : KeysOf(c)[i] \in Keys
  BY DEF Keys
<1> QED BY <1>2, <1>3, <1>4, <1>5 DEF Limit

LEMMA LimitIsPositive ==
    ASSUME NEW k \in Keys
    PROVE  Limit(k) \in Nat /\ Limit(k) >= 1
<1>1. PICK c \in Calls : k \in {KeysOf(c)[i] : i \in DOMAIN KeysOf(c)}
  BY DEF Keys
<1>2. PICK i \in DOMAIN KeysOf(c) : k = KeysOf(c)[i]
  BY <1>1
<1>3. Limit(k) = Limits[c.scope]
  BY <1>2, KeyShape
<1> QED BY <1>3, RateAssumption

-----------------------------------------------------------------------------
\* The consumptions of a key are in the order they took effect.
LogInv ==
    \A k \in Keys :
        /\ \A i \in DOMAIN log[k] :
              log[k][i].read <= log[k][i].at /\ log[k][i].at <= clock
        /\ \A i, j \in DOMAIN log[k] : i <= j => log[k][i].at <= log[k][j].at

\* What the deque has popped is a window old.
DequeInv ==
    backend = "memory" =>
        \A k \in Keys :
            /\ head[k] <= Len(log[k])
            /\ \A i \in 1..head[k] : log[k][i].read + Window <= clock

\* How many consumptions the counter of k has allowed.
Granted(k) == IF count[k] <= Limit(k) THEN count[k] ELSE Limit(k)

\* The last Granted(k) consumptions are those of the counter, the first of
\* them made as it was opened.  The ones before are older than it, and all
\* but the last Limit(k) - 1 of them are older by a window.
CounterInv ==
    backend = "redis" =>
        \A k \in Keys :
            /\ Granted(k) <= Len(log[k])
            /\ opened[k] <= clock
            /\ \A i \in DOMAIN log[k] :
                  /\ i <= Len(log[k]) - Granted(k) + 1 => log[k][i].at <= opened[k]
                  /\ i > Len(log[k]) - Granted(k) => log[k][i].at >= opened[k]
                  /\ i <= Len(log[k]) - Granted(k) - Limit(k) + 1
                     => log[k][i].at + Window <= opened[k]

TablesInv == LogInv /\ DequeInv /\ CounterInv /\ WindowBound

Consumed(k, r) == \E j \in DOMAIN log[k] : log[k][j].by = r

\* Where a request is, and what it has consumed on the way there.
CheckInv(r) ==
    /\ checks[r].now <= clock
    /\ checks[r].pc \notin {"idle", "gone"} => checks[r].call \in Calls
    /\ checks[r].pc = "timed" => backend = "memory"
    /\ checks[r].pc = "idle" => checks[r].step = 1
    /\ checks[r].pc \in {"checking", "timed"} =>
          /\ checks[r].step \in DOMAIN KeysOf(checks[r].call)
          /\ \A i \in DOMAIN KeysOf(checks[r].call) :
                i < checks[r].step => Consumed(KeysOf(checks[r].call)[i], r)
    /\ checks[r].pc \in {"denying", "denied"} =>
          \E i \in DOMAIN KeysOf(checks[r].call) :
             Reached(KeysOf(checks[r].call)[i], checks[r].now)
    /\ checks[r].pc = "admitted" /\ backend # "off" =>
          \A i \in DOMAIN KeysOf(checks[r].call) :
             Consumed(KeysOf(checks[r].call)[i], r)

ChecksInv == \A r \in Requests : CheckInv(r)

RateInv == RateTypeOK /\ TablesInv /\ ChecksInv

-----------------------------------------------------------------------------
\* No consumption is forgotten or altered.
LogGrows ==
    \A k \in Keys : \A i \in DOMAIN log[k] :
        i \in DOMAIN log'[k] /\ log'[k][i] = log[k][i]

(***************************************************************************)
(* What one consumption does to the log.                                   *)
(***************************************************************************)
LEMMA ConsumeAppends ==
    ASSUME RateTypeOK, NEW r \in Requests, NEW k \in Keys, NEW t \in Nat,
           Consume(r, k, t)
    PROVE  /\ log' \in [Keys -> Seq(Consumptions)]
           /\ \A q \in Keys \ {k} : log'[q] = log[q]
           /\ Len(log'[k]) = Len(log[k]) + 1
           /\ DOMAIN log'[k] = 1..(Len(log[k]) + 1)
           /\ \A i \in 1..Len(log[k]) : log'[k][i] = log[k][i]
           /\ log'[k][Len(log[k]) + 1] = [by |-> r, read |-> t, at |-> clock]
<1> DEFINE e == [by |-> r, read |-> t, at |-> clock]
<1>1. e \in Consumptions /\ log[k] \in Seq(Consumptions)
  BY DEF RateTypeOK, Consumptions
<1>2. log'[k] = Append(log[k], e) /\ \A q \in Keys \ {k} : log'[q] = log[q]
  BY DEF Consume, RateTypeOK
<1>3. log' \in [Keys -> Seq(Consumptions)]
  BY <1>1, <1>2 DEF Consume, RateTypeOK
<1> QED BY <1>1, <1>2, <1>3

LEMMA ConsumeGrows ==
    ASSUME RateTypeOK, NEW r \in Requests, NEW k \in Keys, NEW t \in Nat,
           Consume(r, k, t)
    PROVE  LogGrows /\ Consumed(k, r)'
<1>1. /\ \A q \in Keys \ {k} : log'[q] = log[q]
      /\ DOMAIN log'[k] = 1..(Len(log[k]) + 1)
      /\ \A i \in 1..Len(log[k]) : log'[k][i] = log[k][i]
      /\ log'[k][Len(log[k]) + 1] = [by |-> r, read |-> t, at |-> clock]
  BY ConsumeAppends
<1>2. DOMAIN log[k] = 1..Len(log[k]) /\ Len(log[k]) \in Nat
  BY DEF RateTypeOK
<1>3. \A i \in DOMAIN log[k] : i \in DOMAIN log'[k] /\ log'[k][i] = log[k][i]
  BY <1>1, <1>2
<1>4. LogGrows
  BY <1>1, <1>3 DEF LogGrows
<1>5. Len(log[k]) + 1 \in DOMAIN log'[k] /\ log'[k][Len(log[k]) + 1].by = r
  BY <1>1, <1>2
<1> QED BY <1>4, <1>5 DEF Consumed

(***************************************************************************)
(* A request that has its answer, or waits for the next one, keeps it when *)
(* the log grows and time passes.                                          *)
(***************************************************************************)
LEMMA CheckKept ==
    ASSUME RateTypeOK, NEW r \in Requests, CheckInv(r), LogGrows,
           checks'[r] = checks[r], backend' = backend,
           clock' \in Nat, clock' >= clock
    PROVE  CheckInv(r)'
<1>1. \A k \in Keys : Consumed(k, r) => Consumed(k, r)'
  BY DEF Consumed, LogGrows
<1>2. ASSUME NEW k \in Keys, NEW t, Reached(k, t)
      PROVE  Reached(k, t)'
  <2>1. PICK i \in DOMAIN log[k] : \A j \in i..(i + Limit(k) - 1) :
            j \in DOMAIN log[k] /\ log[k][j].at > t - Window
    BY <1>2 DEF Reached
  <2>2. \A j \in i..(i + Limit(k) - 1) :
            j \in DOMAIN log'[k] /\ log'[k][j].at > t - Window
    BY <2>1 DEF LogGrows
  <2>3. i \in DOMAIN log'[k]
    BY <2>1 DEF LogGrows
  <2> QED BY <2>2, <2>3 DEF Reached, Limit
<1>3. checks[r] \in CheckStates /\ clock \in Nat
  BY DEF RateTypeOK
<1>4. checks[r].now \in Nat
  BY <1>3 DEF CheckStates
<1> DEFINE c == checks[r].call
<1>5. checks[r].pc \notin {"idle", "gone"} =>
         \A i \in DOMAIN KeysOf(c) : KeysOf(c)[i] \in Keys
  BY KeyShape DEF CheckInv
<1>6. checks'[r].now <= clock'
  BY <1>3, <1>4 DEF CheckInv
<1>7. checks[r].pc \in {"checking", "timed"} =>
         \A i \in DOMAIN KeysOf(c) : i < checks[r].step => Consumed(KeysOf(c)[i], r)'
  BY <1>1, <1>5 DEF CheckInv
<1>8. checks[r].pc \in {"denying", "denied"} =>
         \E i \in DOMAIN KeysOf(c) : Reached(KeysOf(c)[i], checks[r].now)'
  BY <1>2, <1>5 DEF CheckInv
<1>9. checks[r].pc = "admitted" /\ backend # "off" =>
         \A i \in DOMAIN KeysOf(c) : Consumed(KeysOf(c)[i], r)'
  BY <1>1, <1>5 DEF CheckInv
<1> QED BY <1>6, <1>7, <1>8, <1>9 DEF CheckInv, Consumed, Reached

-----------------------------------------------------------------------------
(***************************************************************************)
(* A check of a key on the deque, and of one on the counter of Redis, as   *)
(* far as the tables go.                                                   *)
(***************************************************************************)
LEMMA MemoryTables ==
    ASSUME RateTypeOK, TablesInv, NEW r \in Requests, NEW k \in Keys,
           NEW t \in Nat, t <= clock, NEW h \in 0..Len(log[k]),
           backend = "memory", PoppedAt(k, t, h), head' = [head EXCEPT ![k] = h],
           \/ Len(log[k]) - h >= Limit(k) /\ UNCHANGED log
           \/ Len(log[k]) - h < Limit(k) /\ Consume(r, k, t),
           UNCHANGED <<backend, clock, count, opened>>
    PROVE  TablesInv'
<1>1. /\ clock \in Nat /\ Window \in Nat /\ h \in Nat
      /\ Limit(k) \in Nat /\ Limit(k) >= 1
      /\ log[k] \in Seq(Consumptions) /\ Len(log[k]) \in Nat
      /\ DOMAIN log[k] = 1..Len(log[k]) /\ head[k] \in Nat
  BY LimitIsPositive, RateAssumption DEF RateTypeOK
<1>2. \A i \in 1..Len(log[k]) : log[k][i].read \in Nat /\ log[k][i].at \in Nat
  <2>1. \A i \in 1..Len(log[k]) : log[k][i] \in Consumptions
    BY <1>1
  <2> QED BY <2>1 DEF Consumptions
<1>3. \A i \in 1..h : log[k][i].read + Window <= clock
  <2> SUFFICES ASSUME NEW i \in 1..h PROVE log[k][i].read + Window <= clock
    OBVIOUS
  <2>1. CASE i <= head[k]
    BY <2>1, <1>1 DEF TablesInv, DequeInv
  <2>2. CASE i > head[k]
    <3>1. log[k][i].read <= t - Window
      BY <2>2, <1>1 DEF PoppedAt
    <3>2. i \in 1..Len(log[k]) /\ log[k][i].read \in Nat
      BY <1>1, <1>2
    <3> QED BY <3>1, <3>2, <1>1
  <2> QED BY <2>1, <2>2, <1>1
<1>4. \A q \in Keys \ {k} : log'[q] = log[q] /\ head'[q] = head[q]
  BY ConsumeAppends DEF RateTypeOK
<1>5. head'[k] = h
  BY DEF RateTypeOK
<1>6. CASE UNCHANGED log
  <2>1. LogInv' /\ WindowBound' /\ CounterInv'
    BY <1>6 DEF TablesInv, LogInv, WindowBound, CounterInv, Burst, Limit, Granted
  <2>2. DequeInv'
    BY <1>1, <1>3, <1>4, <1>5, <1>6 DEF TablesInv, DequeInv
  <2> QED BY <2>1, <2>2 DEF TablesInv
<1>7. CASE Len(log[k]) - h < Limit(k) /\ Consume(r, k, t)
  <2> DEFINE n == Len(log[k])
  <2>1. /\ Len(log'[k]) = n + 1 /\ DOMAIN log'[k] = 1..(n + 1)
        /\ \A i \in 1..n : log'[k][i] = log[k][i]
        /\ log'[k][n + 1] = [by |-> r, read |-> t, at |-> clock]
    BY <1>7, ConsumeAppends
  <2>a. /\ \A i \in 1..n : /\ log'[k][i].read = log[k][i].read
                           /\ log'[k][i].at = log[k][i].at
        /\ log'[k][n + 1].read = t /\ log'[k][n + 1].at = clock
    BY <2>1
  <2>2. LogInv'
    <3> SUFFICES ASSUME NEW q \in Keys
                 PROVE  /\ \A i \in DOMAIN log'[q] :
                              log'[q][i].read <= log'[q][i].at /\ log'[q][i].at <= clock
                        /\ \A i, j \in DOMAIN log'[q] :
                              i <= j => log'[q][i].at <= log'[q][j].at
      BY DEF LogInv
    <3>1. CASE q # k
      BY <3>1, <1>4 DEF TablesInv, LogInv
    <3>2. CASE q = k
      <4>1. /\ \A i \in 1..n : log[k][i].read <= log[k][i].at /\ log[k][i].at <= clock
            /\ \A i, j \in 1..n : i <= j => log[k][i].at <= log[k][j].at
        BY <1>1 DEF TablesInv, LogInv
      <4>2. \A i \in 1..(n + 1) : i \in 1..n \/ i = n + 1
        BY <1>1
      <4>3. \A i \in 1..(n + 1) :
                log'[k][i].read <= log'[k][i].at /\ log'[k][i].at <= clock
        <5>1. \A i \in 1..n :
                 log'[k][i].read <= log'[k][i].at /\ log'[k][i].at <= clock
          BY <4>1, <2>a
        <5>2. log'[k][n + 1].read <= log'[k][n + 1].at /\ log'[k][n + 1].at <= clock
          BY <2>a, <1>1
        <5> QED BY <5>1, <5>2, <4>2
      <4>4. \A i, j \in 1..(n + 1) : i <= j => log'[k][i].at <= log'[k][j].at
        <5> SUFFICES ASSUME NEW i \in 1..(n + 1), NEW j \in 1..(n + 1), i <= j
                     PROVE  log'[k][i].at <= log'[k][j].at
          OBVIOUS
        <5>1. CASE j \in 1..n
          <6>1. i \in 1..n
            BY <5>1, <1>1
          <6> QED BY <5>1, <6>1, <4>1, <2>a
        <5>2. CASE j = n + 1
          BY <5>2, <4>3, <2>a
        <5> QED BY <5>1, <5>2, <4>2
      <4> QED BY <4>3, <4>4, <3>2, <2>1
    <3> QED BY <3>1, <3>2
  <2>3. DequeInv'
    <3>1. h <= Len(log'[k]) /\ \A i \in 1..h : log'[k][i].read + Window <= clock
      <4>1. \A i \in 1..h : i \in 1..n
        BY <1>1
      <4>2. \A i \in 1..h : log'[k][i].read + Window <= clock
        BY <4>1, <2>a, <1>3
      <4>3. h <= Len(log'[k])
        BY <2>1, <1>1
      <4> QED BY <4>2, <4>3
    <3> QED BY <3>1, <1>4, <1>5 DEF TablesInv, DequeInv
  <2>4. WindowBound'
    <3> SUFFICES ASSUME NEW q \in Keys, NEW i \in DOMAIN log'[q],
                        i + Limit(q) \in DOMAIN log'[q]
                 PROVE  log'[q][i + Limit(q)].at >= log'[q][i].read + Window
      BY DEF WindowBound, Burst, Limit
    <3>1. CASE q # k
      BY <3>1, <1>4 DEF TablesInv, WindowBound, Burst
    <3>2. CASE q = k /\ i + Limit(k) <= n
      <4>1. i \in 1..n /\ i + Limit(k) \in 1..n
        BY <3>2, <2>1, <1>1
      <4>2. log[k][i + Limit(k)].at >= log[k][i].read + Window
        BY <4>1, <1>1 DEF TablesInv, WindowBound, Burst
      <4> QED BY <4>1, <4>2, <2>a, <3>2
    <3>3. CASE q = k /\ i + Limit(k) = n + 1
      <4>1. i \in 1..h /\ i \in 1..n
        BY <3>3, <2>1, <1>1, <1>7
      <4>2. log[k][i].read + Window <= clock /\ log[k][i].read \in Nat
        BY <4>1, <1>2, <1>3
      <4>3. log'[k][i + Limit(k)].at = clock /\ log'[k][i].read = log[k][i].read
        BY <4>1, <3>3, <2>a
      <4> QED BY <4>2, <4>3, <3>3, <1>1
    <3> QED BY <3>1, <3>2, <3>3, <2>1, <1>1
  <2>5. CounterInv'
    BY DEF CounterInv
  <2> QED BY <2>2, <2>3, <2>4, <2>5 DEF TablesInv
<1> QED BY <1>6, <1>7

LEMMA RedisTables ==
    ASSUME RateTypeOK, TablesInv, NEW r \in Requests, NEW k \in Keys,
           backend = "redis", CountOne(k),
           \/ count'[k] > Limit(k) /\ UNCHANGED log
           \/ count'[k] <= Limit(k) /\ Consume(r, k, clock),
           UNCHANGED <<backend, clock, head>>
    PROVE  /\ TablesInv'
           /\ count'[k] > Limit(k) => Reached(k, clock)'
<1> DEFINE n == Len(log[k])
<1>1. /\ clock \in Nat /\ Window \in Nat /\ Window >= 1 /\ count[k] \in Nat
      /\ Limit(k) \in Nat /\ Limit(k) >= 1 /\ opened[k] \in Nat
      /\ log[k] \in Seq(Consumptions) /\ n \in Nat
      /\ DOMAIN log[k] = 1..n
  BY LimitIsPositive, RateAssumption DEF RateTypeOK
<1>2. \A i \in 1..n : /\ log[k][i].read \in Nat /\ log[k][i].at \in Nat
                      /\ log[k][i].read <= log[k][i].at /\ log[k][i].at <= clock
  <2>1. \A i \in 1..n : log[k][i] \in Consumptions
    BY <1>1
  <2>2. \A i \in 1..n : log[k][i].read <= log[k][i].at /\ log[k][i].at <= clock
    BY <1>1 DEF TablesInv, LogInv
  <2> QED BY <2>1, <2>2 DEF Consumptions
<1>3. /\ Granted(k) \in Nat /\ Granted(k) <= n /\ Granted(k) <= Limit(k)
      /\ opened[k] <= clock
      /\ \A i \in 1..n :
            /\ i <= n - Granted(k) + 1 => log[k][i].at <= opened[k]
            /\ i > n - Granted(k) => log[k][i].at >= opened[k]
            /\ i <= n - Granted(k) - Limit(k) + 1 => log[k][i].at + Window <= opened[k]
  BY <1>1 DEF TablesInv, CounterInv, Granted
<1>4. \A q \in Keys \ {k} :
         log'[q] = log[q] /\ count'[q] = count[q] /\ opened'[q] = opened[q]
  BY ConsumeAppends, <1>1 DEF RateTypeOK, CountOne
<1>5. /\ count'[k] = IF Live(k) THEN count[k] + 1 ELSE 1
      /\ opened'[k] = IF Live(k) THEN opened[k] ELSE clock
  BY DEF RateTypeOK, CountOne
<1>6. DequeInv'
  BY DEF DequeInv
<1>7. CASE count'[k] > Limit(k) /\ UNCHANGED log
  <2>1. Live(k) /\ count[k] >= Limit(k) /\ opened'[k] = opened[k] /\ count[k] >= 1
    BY <1>1, <1>5, <1>7 DEF Live
  <2>2. Granted(k) = Limit(k) /\ Granted(k)' = Granted(k)
    BY <2>1, <1>1, <1>5 DEF Granted, Limit
  <2>3. Reached(k, clock)'
    <3> DEFINE i == n - Limit(k) + 1
    <3>1. i \in 1..n
      BY <2>2, <1>1, <1>3
    <3>2. \A j \in i..(i + Limit(k) - 1) :
             j \in DOMAIN log[k] /\ log[k][j].at > clock - Window
      <4> SUFFICES ASSUME NEW j \in i..(i + Limit(k) - 1)
                   PROVE  j \in DOMAIN log[k] /\ log[k][j].at > clock - Window
        OBVIOUS
      <4>1. j \in 1..n /\ j > n - Granted(k)
        BY <3>1, <2>2, <1>1
      <4>2. log[k][j].at >= opened[k] /\ log[k][j].at \in Nat
        BY <4>1, <1>2, <1>3
      <4>3. opened[k] > clock - Window
        BY <2>1, <1>1 DEF Live
      <4> QED BY <4>1, <4>2, <4>3, <1>1
    <3> QED BY <3>1, <3>2, <1>1, <1>7 DEF Reached, Limit
  <2>4. LogInv' /\ WindowBound'
    BY <1>7 DEF TablesInv, LogInv, WindowBound, Burst, Limit
  <2>5. CounterInv'
    <3> SUFFICES ASSUME NEW q \in Keys
                 PROVE  /\ Granted(q)' <= Len(log[q])
                        /\ opened'[q] <= clock
                        /\ \A i \in DOMAIN log[q] :
                              /\ i <= Len(log[q]) - Granted(q)' + 1 => log[q][i].at <= opened'[q]
                              /\ i > Len(log[q]) - Granted(q)' => log[q][i].at >= opened'[q]
                              /\ i <= Len(log[q]) - Granted(q)' - Limit(q) + 1
                                 => log[q][i].at + Window <= opened'[q]
      BY <1>7 DEF CounterInv, Limit
    <3>1. Granted(q)' = Granted(q) /\ opened'[q] = opened[q]
      BY <2>1, <2>2, <1>4 DEF Granted, Limit
    <3> QED BY <3>1 DEF TablesInv, CounterInv
  <2> QED BY <2>3, <2>4, <2>5, <1>6 DEF TablesInv
<1>8. CASE count'[k] <= Limit(k) /\ Consume(r, k, clock)
  <2>1. /\ Len(log'[k]) = n + 1 /\ DOMAIN log'[k] = 1..(n + 1)
        /\ \A i \in 1..n : log'[k][i] = log[k][i]
        /\ log'[k][n + 1] = [by |-> r, read |-> clock, at |-> clock]
    BY <1>8, <1>1, ConsumeAppends
  <2>2. /\ \A i \in 1..n : /\ log'[k][i].read = log[k][i].read
                           /\ log'[k][i].at = log[k][i].at
        /\ log'[k][n + 1].read = clock /\ log'[k][n + 1].at = clock
    BY <2>1
  <2>3. \A i \in 1..(n + 1) : i \in 1..n \/ i = n + 1
    BY <1>1
  <2>4. LogInv'
    <3>1. /\ \A i \in 1..(n + 1) :
                log'[k][i].read <= log'[k][i].at /\ log'[k][i].at <= clock
      <4>1. \A i \in 1..n :
               log'[k][i].read <= log'[k][i].at /\ log'[k][i].at <= clock
        BY <1>2, <2>2
      <4>2. log'[k][n + 1].read <= log'[k][n + 1].at /\ log'[k][n + 1].at <= clock
        BY <2>2, <1>1
      <4> QED BY <4>1, <4>2, <2>3
    <3>2. \A i, j \in 1..(n + 1) : i <= j => log'[k][i].at <= log'[k][j].at
      <4> SUFFICES ASSUME NEW i \in 1..(n + 1), NEW j \in 1..(n + 1), i <= j
                   PROVE  log'[k][i].at <= log'[k][j].at
        OBVIOUS
      <4>1. CASE j \in 1..n
        <5>1. i \in 1..n
          BY <4>1, <1>1
        <5>2. log[k][i].at <= log[k][j].at
          BY <4>1, <5>1, <1>1 DEF TablesInv, LogInv
        <5> QED BY <4>1, <5>1, <5>2, <2>2
      <4>2. CASE j = n + 1
        BY <4>2, <3>1, <2>2
      <4> QED BY <4>1, <4>2, <2>3
    <3>3. \A q \in Keys \ {k} :
             /\ \A i \in DOMAIN log'[q] :
                   log'[q][i].read <= log'[q][i].at /\ log'[q][i].at <= clock
             /\ \A i, j \in DOMAIN log'[q] : i <= j => log'[q][i].at <= log'[q][j].at
      BY <1>4 DEF TablesInv, LogInv
    <3> QED BY <3>1, <3>2, <3>3, <2>1 DEF LogInv
  <2>5. /\ Granted(k)' = IF Live(k) THEN Granted(k) + 1 ELSE 1
        /\ Live(k) => Granted(k) < Limit(k)
        /\ ~Live(k) => Granted(k) = 0 \/ clock >= opened[k] + Window
    BY <1>1, <1>5, <1>8 DEF Granted, Live, Limit
  <2>6. \A i \in 1..n : ~Live(k) /\ i <= n - Limit(k) + 1 => log[k][i].at + Window <= clock
    <3> SUFFICES ASSUME NEW i \in 1..n, ~Live(k), i <= n - Limit(k) + 1
                 PROVE  log[k][i].at + Window <= clock
      OBVIOUS
    <3>1. CASE Granted(k) = 0
      <4>1. i <= n - Granted(k) - Limit(k) + 1
        BY <3>1, <1>1
      <4>2. log[k][i].at + Window <= opened[k]
        BY <4>1, <1>3
      <4> QED BY <4>2, <1>1, <1>2, <1>3
    <3>2. CASE clock >= opened[k] + Window
      <4>1. i <= n - Granted(k) + 1
        BY <1>1, <1>3
      <4>2. log[k][i].at <= opened[k]
        BY <4>1, <1>3
      <4> QED BY <4>2, <3>2, <1>1, <1>2
    <3> QED BY <3>1, <3>2, <2>5
  <2>7. CounterInv'
    <3> DEFINE g == IF Live(k) THEN Granted(k) + 1 ELSE 1
               o == IF Live(k) THEN opened[k] ELSE clock
    <3>1. g <= n + 1 /\ o <= clock /\ g \in Nat /\ g >= 1
      BY <1>1, <1>3
    <3>2. \A i \in 1..n :
             /\ i <= n + 2 - g => log[k][i].at <= o
             /\ i > n + 1 - g => log[k][i].at >= o
             /\ i <= n + 2 - g - Limit(k) => log[k][i].at + Window <= o
      <4> SUFFICES ASSUME NEW i \in 1..n
                   PROVE  /\ i <= n + 2 - g => log[k][i].at <= o
                          /\ i > n + 1 - g => log[k][i].at >= o
                          /\ i <= n + 2 - g - Limit(k) => log[k][i].at + Window <= o
        OBVIOUS
      <4>1. CASE Live(k)
        <5>1. /\ n + 1 - g = n - Granted(k) /\ n + 2 - g = n - Granted(k) + 1
              /\ o = opened[k]
          BY <4>1, <1>1, <1>3
        <5>2. n + 2 - g - Limit(k) = n - Granted(k) - Limit(k) + 1
          BY <4>1, <1>1, <1>3
        <5> HIDE DEF g, o
        <5> QED BY <5>1, <5>2, <1>3
      <4>2. CASE ~Live(k)
        <5>1. n + 1 - g = n /\ n + 2 - g = n + 1
          BY <4>2, <1>1
        <5>2. i <= n /\ log[k][i].at <= clock
          BY <1>1, <1>2
        <5> QED BY <4>2, <5>1, <5>2, <2>6, <1>1
      <4> QED BY <4>1, <4>2
    <3>3. \A i \in 1..(n + 1) :
             /\ i <= n + 2 - g => log'[k][i].at <= o
             /\ i > n + 1 - g => log'[k][i].at >= o
             /\ i <= n + 2 - g - Limit(k) => log'[k][i].at + Window <= o
      <4>1. \A i \in 1..n :
               /\ i <= n + 2 - g => log'[k][i].at <= o
               /\ i > n + 1 - g => log'[k][i].at >= o
               /\ i <= n + 2 - g - Limit(k) => log'[k][i].at + Window <= o
        BY <3>2, <2>2
      <4>2. CASE Live(k)
        <5>1. g >= 2
          BY <4>2, <1>1, <1>3 DEF Live, Granted
        <5>2. clock >= o
          BY <3>1
        <5>3. /\ ~(n + 1 <= n + 2 - g) /\ ~(n + 1 <= n + 2 - g - Limit(k))
              /\ n + 1 > n + 1 - g
          BY <5>1, <3>1, <1>1
        <5> HIDE DEF g, o
        <5> QED BY <4>1, <5>2, <5>3, <2>2, <2>3
      <4>3. CASE ~Live(k)
        <5>1. g = 1 /\ o = clock /\ ~(n + 1 <= n + 2 - g - Limit(k))
          BY <4>3, <1>1
        <5> HIDE DEF g, o
        <5> QED BY <4>1, <5>1, <2>2, <2>3, <1>1
      <4> QED BY <4>2, <4>3
    <3>4. ASSUME NEW q \in Keys \ {k}
          PROVE  /\ Granted(q)' <= Len(log'[q])
                 /\ opened'[q] <= clock
                 /\ \A i \in DOMAIN log'[q] :
                       /\ i <= Len(log'[q]) - Granted(q)' + 1 => log'[q][i].at <= opened'[q]
                       /\ i > Len(log'[q]) - Granted(q)' => log'[q][i].at >= opened'[q]
                       /\ i <= Len(log'[q]) - Granted(q)' - Limit(q) + 1
                          => log'[q][i].at + Window <= opened'[q]
      <4>1. Granted(q)' = Granted(q)
        BY <1>4 DEF Granted, Limit
      <4> QED BY <4>1, <1>4 DEF TablesInv, CounterInv
    <3>5. /\ Granted(k)' <= Len(log'[k])
          /\ opened'[k] <= clock
          /\ \A i \in DOMAIN log'[k] :
                /\ i <= Len(log'[k]) - Granted(k)' + 1 => log'[k][i].at <= opened'[k]
                /\ i > Len(log'[k]) - Granted(k)' => log'[k][i].at >= opened'[k]
                /\ i <= Len(log'[k]) - Granted(k)' - Limit(k) + 1
                   => log'[k][i].at + Window <= opened'[k]
      <4>1. Granted(k)' = g /\ opened'[k] = o
        BY <1>5, <2>5
      <4>2. /\ g <= Len(log'[k]) /\ Len(log'[k]) = n + 1 /\ o <= clock
            /\ \A i \in DOMAIN log'[k] :
                  /\ i <= n + 2 - g => log'[k][i].at <= o
                  /\ i > n + 1 - g => log'[k][i].at >= o
                  /\ i <= n + 2 - g - Limit(k) => log'[k][i].at + Window <= o
        BY <3>1, <3>3, <2>1
      <4>3. g \in Nat /\ n \in Nat /\ Limit(k) \in Nat
        BY <3>1, <1>1
      <4> HIDE DEF g, o, n
      <4> QED BY <4>1, <4>2, <4>3
    <3> QED BY <3>4, <3>5 DEF CounterInv, Limit
  <2>8. WindowBound'
    <3> SUFFICES ASSUME NEW q \in Keys, NEW i \in DOMAIN log'[q],
                        i + 2 * Limit(q) - 1 \in DOMAIN log'[q]
                 PROVE  log'[q][i + 2 * Limit(q) - 1].at >= log'[q][i].read + Window
      BY DEF WindowBound, Burst, Limit
    <3>1. CASE q # k
      BY <3>1, <1>4 DEF TablesInv, WindowBound, Burst
    <3>2. CASE q = k /\ i + 2 * Limit(k) - 1 <= n
      <4>1. i \in 1..n /\ i + 2 * Limit(k) - 1 \in 1..n
        BY <3>2, <2>1, <1>1
      <4>2. log[k][i + 2 * Limit(k) - 1].at >= log[k][i].read + Window
        BY <4>1, <1>1 DEF TablesInv, WindowBound, Burst
      <4> QED BY <4>1, <4>2, <2>2, <3>2
    <3>3. CASE q = k /\ i + 2 * Limit(k) - 1 = n + 1
      <4>1. i \in 1..n /\ i <= n - Limit(k) + 1
        BY <3>3, <2>1, <1>1
      <4>2. log[k][i].at + Window <= clock
        <5>1. CASE Live(k)
          <6>1. i <= n - Granted(k) - Limit(k) + 1
            BY <5>1, <3>3, <2>5, <4>1, <1>1, <1>3
          <6>2. log[k][i].at + Window <= opened[k]
            BY <6>1, <4>1, <1>3
          <6> QED BY <6>2, <4>1, <1>1, <1>2, <1>3
        <5>2. CASE ~Live(k)
          BY <5>2, <4>1, <2>6
        <5> QED BY <5>1, <5>2
      <4>3. log'[k][i + 2 * Limit(k) - 1].at = clock /\ log'[k][i].read = log[k][i].read
        BY <4>1, <3>3, <2>2
      <4>4. /\ log[k][i].read \in Nat /\ log[k][i].at \in Nat
            /\ log[k][i].read <= log[k][i].at
        BY <4>1, <1>2
      <4>5. clock >= log[k][i].read + Window
        BY <4>2, <4>4, <1>1
      <4> QED BY <4>3, <4>5, <3>3
    <3>4. q = k => i + 2 * Limit(k) - 1 <= n \/ i + 2 * Limit(k) - 1 = n + 1
      BY <2>1, <1>1
    <3> QED BY <3>1, <3>2, <3>3, <3>4
  <2>9. ~(count'[k] > Limit(k))
    BY <1>1, <1>5, <1>8
  <2> QED BY <2>9, <1>6, <1>8, <2>4, <2>7, <2>8 DEF TablesInv
<1> QED BY <1>7, <1>8

-----------------------------------------------------------------------------
(***************************************************************************)
(* What the two answers of a backend make of the request that waits for    *)
(* them.                                                                   *)
(***************************************************************************)
LEMMA AllowedChecks ==
    ASSUME RateTypeOK, NEW r \in Requests, CheckInv(r),
           checks[r].pc \in {"checking", "timed"},
           LogGrows, NEW k \in Keys, k = KeyOf(r), Consumed(k, r)', Allowed(r),
           UNCHANGED <<backend, clock>>
    PROVE  checks' \in [Requests -> CheckStates] /\ CheckInv(r)'
<1>1. PICK c \in Calls, s \in Nat :
         c = checks[r].call /\ s = checks[r].step /\ s \in DOMAIN KeysOf(c)
  BY DEF RateTypeOK, CheckStates, CheckInv
<1>a. checks[r] \in CheckStates /\ checks[r].now \in Nat
  BY DEF RateTypeOK, CheckStates
<1>2. DOMAIN KeysOf(c) \in {1..1, 1..2} /\ \A i \in DOMAIN KeysOf(c) : KeysOf(c)[i] \in Keys
  BY <1>1, KeyShape
<1>3. \A i \in DOMAIN KeysOf(c) : i <= s => Consumed(KeysOf(c)[i], r)'
  <2> SUFFICES ASSUME NEW i \in DOMAIN KeysOf(c), i <= s
               PROVE  Consumed(KeysOf(c)[i], r)'
    OBVIOUS
  <2>1. CASE i = s
    BY <2>1, <1>1 DEF KeyOf
  <2>2. CASE i < s
    <3>1. Consumed(KeysOf(c)[i], r)
      BY <2>2, <1>1 DEF CheckInv
    <3>2. KeysOf(c)[i] \in Keys
      BY <1>2
    <3> QED BY <3>1, <3>2 DEF Consumed, LogGrows
  <2>3. i \in Nat
    BY <1>2
  <2> QED BY <2>1, <2>2, <2>3, <1>1
<1>4. CASE s + 1 \in DOMAIN KeysOf(c)
  <2> DEFINE row == [checks[r] EXCEPT !.pc = "checking", !.step = s + 1]
  <2>1. checks' = [checks EXCEPT ![r] = row]
    BY <1>1, <1>4 DEF Allowed
  <2>2. /\ row.pc = "checking" /\ row.step = s + 1 /\ row.now = checks[r].now
        /\ row.call = c /\ row \in CheckStates
    <3>1. s + 1 \in Nat /\ "checking" \in Unanswered
      BY DEF Unanswered
    <3> QED BY <3>1, <1>1, <1>a DEF CheckStates
  <2>3. checks'[r] = row /\ checks' \in [Requests -> CheckStates]
    BY <2>1, <2>2 DEF RateTypeOK
  <2>4. \A i \in DOMAIN KeysOf(c) : i < s + 1 => Consumed(KeysOf(c)[i], r)'
    BY <1>1, <1>2, <1>3
  <2>5. checks[r].now <= clock
    BY DEF CheckInv
  <2> HIDE DEF row
  <2> QED BY <2>2, <2>3, <2>4, <2>5, <1>1, <1>4 DEF CheckInv, Consumed
<1>5. CASE s + 1 \notin DOMAIN KeysOf(c)
  <2> DEFINE row == [checks[r] EXCEPT !.pc = "admitted"]
  <2>1. checks' = [checks EXCEPT ![r] = row]
    BY <1>1, <1>5 DEF Allowed
  <2>2. /\ row.pc = "admitted" /\ row.step = s /\ row.now = checks[r].now
        /\ row.call = c /\ row \in CheckStates
    <3>1. s + 1 \in Nat /\ "checking" \in Unanswered
      BY DEF Unanswered
    <3> QED BY <3>1, <1>1, <1>a DEF CheckStates
  <2>3. checks'[r] = row /\ checks' \in [Requests -> CheckStates]
    BY <2>1, <2>2 DEF RateTypeOK
  <2>4. \A i \in DOMAIN KeysOf(c) : Consumed(KeysOf(c)[i], r)'
    BY <1>1, <1>2, <1>3, <1>5
  <2>5. checks[r].now <= clock
    BY DEF CheckInv
  <2> HIDE DEF row
  <2> QED BY <2>2, <2>3, <2>4, <2>5, <1>1 DEF CheckInv, Consumed
<1> QED BY <1>4, <1>5

LEMMA DeniedChecks ==
    ASSUME RateTypeOK, NEW r \in Requests, CheckInv(r),
           checks[r].pc \in {"checking", "timed"},
           NEW t \in Nat, t <= clock, Denied(r, t),
           NEW k \in Keys, k = KeyOf(r), Reached(k, t)',
           UNCHANGED <<backend, clock>>
    PROVE  checks' \in [Requests -> CheckStates] /\ CheckInv(r)'
<1> DEFINE row == [checks[r] EXCEPT !.pc = "denying", !.now = t]
<1>1. PICK c \in Calls, s \in Nat :
         c = checks[r].call /\ s = checks[r].step /\ s \in DOMAIN KeysOf(c)
  BY DEF RateTypeOK, CheckStates, CheckInv
<1>a. checks[r] \in CheckStates
  BY DEF RateTypeOK
<1>2. row.pc = "denying" /\ row.now = t /\ row.call = c /\ row \in CheckStates
  BY <1>1, <1>a DEF CheckStates
<1>3. checks'[r] = row /\ checks' \in [Requests -> CheckStates]
  BY <1>2 DEF RateTypeOK, Denied
<1>4. \E i \in DOMAIN KeysOf(c) : Reached(KeysOf(c)[i], t)'
  BY <1>1 DEF KeyOf
<1> HIDE DEF row
<1> QED BY <1>1, <1>2, <1>3, <1>4 DEF CheckInv, Reached

\* A check that ends without an answer of the backend.
LEMMA UnavailableChecks ==
    ASSUME RateTypeOK, NEW r \in Requests, CheckInv(r),
           checks[r].pc = "checking",
           checks' = [checks EXCEPT ![r].pc = "unavailable"],
           UNCHANGED <<backend, clock>>
    PROVE  checks' \in [Requests -> CheckStates] /\ CheckInv(r)'
<1> DEFINE row == [checks[r] EXCEPT !.pc = "unavailable"]
<1>1. checks[r] \in CheckStates /\ checks[r].call \in Calls
  BY DEF RateTypeOK, CheckInv
<1>2. /\ row.pc = "unavailable" /\ row.now = checks[r].now
      /\ row.call = checks[r].call /\ row \in CheckStates
  BY <1>1 DEF CheckStates
<1>3. checks'[r] = row /\ checks' \in [Requests -> CheckStates]
  BY <1>2 DEF RateTypeOK
<1>4. checks[r].now <= clock
  BY DEF CheckInv
<1> HIDE DEF row
<1> QED BY <1>1, <1>2, <1>3, <1>4 DEF CheckInv

LEMMA SameLogGrows ==
    ASSUME UNCHANGED log PROVE LogGrows
BY DEF LogGrows

\* Steps that touch neither the tables nor the clock.
LEMMA SameTables ==
    ASSUME TablesInv, UNCHANGED <<backend, clock, log, head, count, opened>>
    PROVE  TablesInv'
BY DEF TablesInv, LogInv, DequeInv, CounterInv, WindowBound, Burst, Limit, Granted

-----------------------------------------------------------------------------
LEMMA InitEstablishes ==
    ASSUME RateInit PROVE RateInv
<1>1. RateTypeOK
  BY RateAssumption DEF RateInit, RateTypeOK, IdleCheck, CheckStates, Unanswered
<1>2. \A k \in Keys : log[k] = << >> /\ head[k] = 0 /\ count[k] = 0 /\ opened[k] = 0
  BY DEF RateInit
<1>3. \A k \in Keys : DOMAIN log[k] = {} /\ Len(log[k]) = 0
  BY <1>2
<1>4. clock = 0
  BY DEF RateInit
<1>5. \A k \in Keys : Granted(k) = 0
  BY <1>2, LimitIsPositive DEF Granted
<1>6. LogInv /\ WindowBound
  BY <1>3 DEF LogInv, WindowBound
<1>7. DequeInv /\ CounterInv
  BY <1>2, <1>3, <1>4, <1>5 DEF DequeInv, CounterInv
<1>8. ChecksInv
  BY <1>4 DEF RateInit, ChecksInv, CheckInv, IdleCheck
<1> QED BY <1>1, <1>6, <1>7, <1>8 DEF RateInv, TablesInv

LEMMA BeginKeeps ==
    ASSUME RateInv, NEW r \in Requests, NEW c \in Calls, Begin(r, c)
    PROVE  RateInv'
<1> DEFINE pc == CASE backend = "off" -> "admitted"
                   [] backend = "none" -> "unavailable"
                   [] OTHER -> "checking"
           row == [checks[r] EXCEPT !.call = c, !.pc = pc]
<1>1. /\ RateTypeOK /\ TablesInv /\ CheckInv(r)
      /\ checks[r] \in CheckStates /\ checks[r].pc = "idle"
  BY DEF RateInv, RateTypeOK, ChecksInv, Begin
<1>2. /\ pc \in {"admitted", "unavailable", "checking"}
      /\ pc = "admitted" => backend = "off"
  OBVIOUS
<1> HIDE DEF pc
<1>3. /\ row.pc = pc /\ row.now = checks[r].now /\ row.step = checks[r].step
      /\ row.call = c /\ row \in CheckStates
  BY <1>1, <1>2 DEF CheckStates, Unanswered
<1>4. checks' = [checks EXCEPT ![r] = row]
  BY <1>1 DEF Begin, pc, RateTypeOK
<1>5. /\ checks'[r] = row /\ checks' \in [Requests -> CheckStates]
      /\ \A s \in Requests \ {r} : checks'[s] = checks[s]
  BY <1>1, <1>3, <1>4 DEF RateTypeOK
<1>6. UNCHANGED <<backend, clock, log, head, count, opened, trail>>
  BY DEF Begin
<1>7. RateTypeOK' /\ TablesInv'
  BY <1>1, <1>5, <1>6, SameTables DEF RateTypeOK
<1>8. row.step = 1 /\ row.now <= clock
  BY <1>1, <1>3 DEF CheckInv
<1>9. 1 \in DOMAIN KeysOf(c) /\ \A i \in DOMAIN KeysOf(c) : ~(i < 1)
  BY KeyShape
<1>10. CheckInv(r)'
  <2> HIDE DEF row
  <2> QED BY <1>2, <1>3, <1>5, <1>6, <1>8, <1>9 DEF CheckInv
<1>11. \A s \in Requests \ {r} : CheckInv(s)'
  BY <1>1, <1>5, <1>6, CheckKept, SameLogGrows DEF RateInv, ChecksInv, RateTypeOK
<1> QED BY <1>7, <1>10, <1>11 DEF RateInv, ChecksInv

LEMMA ReadClockKeeps ==
    ASSUME RateInv, NEW r \in Requests, ReadClock(r)
    PROVE  RateInv'
<1> DEFINE row == [checks[r] EXCEPT !.pc = "timed", !.now = clock]
<1>1. /\ RateTypeOK /\ TablesInv /\ CheckInv(r)
      /\ checks[r] \in CheckStates /\ checks[r].pc = "checking"
  BY DEF RateInv, RateTypeOK, ChecksInv, ReadClock
<1>2. clock \in Nat /\ backend = "memory"
  BY <1>1 DEF RateTypeOK, ReadClock
<1>3. /\ row.pc = "timed" /\ row.now = clock /\ row.step = checks[r].step
      /\ row.call = checks[r].call /\ row \in CheckStates
  BY <1>1, <1>2 DEF CheckStates, Unanswered
<1>4. checks' = [checks EXCEPT ![r] = row]
  BY <1>1 DEF ReadClock, RateTypeOK
<1>5. /\ checks'[r] = row /\ checks' \in [Requests -> CheckStates]
      /\ \A s \in Requests \ {r} : checks'[s] = checks[s]
  BY <1>1, <1>3, <1>4 DEF RateTypeOK
<1>6. UNCHANGED <<backend, clock, log, head, count, opened, trail>>
  BY DEF ReadClock
<1>7. RateTypeOK' /\ TablesInv'
  BY <1>1, <1>5, <1>6, SameTables DEF RateTypeOK
<1>8. CheckInv(r)'
  <2> HIDE DEF row
  <2> QED BY <1>1, <1>2, <1>3, <1>5, <1>6 DEF CheckInv, Consumed
<1>9. \A s \in Requests \ {r} : CheckInv(s)'
  BY <1>1, <1>5, <1>6, CheckKept, SameLogGrows DEF RateInv, ChecksInv, RateTypeOK
<1> QED BY <1>7, <1>8, <1>9 DEF RateInv, ChecksInv

LEMMA RecordDenialKeeps ==
    ASSUME RateInv, NEW r \in Requests, RecordDenial(r)
    PROVE  RateInv'
<1> DEFINE row == [checks[r] EXCEPT !.pc = "denied"]
<1>1. /\ RateTypeOK /\ TablesInv /\ CheckInv(r)
      /\ checks[r] \in CheckStates /\ checks[r].pc = "denying"
  BY DEF RateInv, RateTypeOK, ChecksInv, RecordDenial
<1>2. clock \in Nat
  BY <1>1 DEF RateTypeOK
<1>3. /\ row.pc = "denied" /\ row.now = checks[r].now
      /\ row.call = checks[r].call /\ row \in CheckStates
  BY <1>1 DEF CheckStates
<1>4. /\ checks'[r] = row /\ checks' \in [Requests -> CheckStates]
      /\ \A s \in Requests \ {r} : checks'[s] = checks[s]
  BY <1>1, <1>3 DEF RateTypeOK, RecordDenial
<1>5. UNCHANGED <<backend, clock, log, head, count, opened>> /\ trail' \subseteq Requests
  BY <1>1 DEF RecordDenial, RateTypeOK
<1>6. RateTypeOK' /\ TablesInv'
  BY <1>1, <1>4, <1>5, SameTables DEF RateTypeOK
<1>7. CheckInv(r)'
  <2> HIDE DEF row
  <2> QED BY <1>1, <1>3, <1>4, <1>5 DEF CheckInv, Reached, Limit
<1>8. \A s \in Requests \ {r} : CheckInv(s)'
  BY <1>1, <1>2, <1>4, <1>5, CheckKept, SameLogGrows DEF RateInv, ChecksInv
<1> QED BY <1>6, <1>7, <1>8 DEF RateInv, ChecksInv

LEMMA RedisFailsKeeps ==
    ASSUME RateInv, NEW r \in Requests, RedisFails(r)
    PROVE  RateInv'
<1>1. /\ RateTypeOK /\ TablesInv /\ CheckInv(r) /\ checks[r].pc = "checking"
      /\ UNCHANGED <<backend, clock, log, head, count, opened, trail>>
      /\ clock \in Nat
  BY DEF RateInv, RateTypeOK, ChecksInv, RedisFails
<1>2. checks' \in [Requests -> CheckStates] /\ CheckInv(r)'
  BY <1>1, UnavailableChecks DEF RedisFails
<1>3. \A s \in Requests \ {r} : checks'[s] = checks[s]
  BY <1>1 DEF RedisFails, RateTypeOK
<1>4. RateTypeOK' /\ TablesInv'
  BY <1>1, <1>2, SameTables DEF RateTypeOK
<1>5. \A s \in Requests \ {r} : CheckInv(s)'
  BY <1>1, <1>3, CheckKept, SameLogGrows DEF RateInv, ChecksInv
<1> QED BY <1>2, <1>4, <1>5 DEF RateInv, ChecksInv

LEMMA CheckMemoryKeeps ==
    ASSUME RateInv, NEW r \in Requests, CheckMemory(r)
    PROVE  RateInv'
<1>1. /\ RateTypeOK /\ TablesInv /\ CheckInv(r)
      /\ checks[r].pc = "timed" /\ backend = "memory"
      /\ UNCHANGED <<backend, clock, count, opened, trail>>
  BY DEF RateInv, ChecksInv, CheckInv, CheckMemory
<1>2. PICK k \in Keys, t \in Nat : k = KeyOf(r) /\ t = checks[r].now /\ t <= clock
  BY <1>1, KeyShape DEF CheckInv, KeyOf, RateTypeOK, CheckStates
<1>3. PICK h \in 0..Len(log[k]) :
         /\ PoppedAt(k, t, h)
         /\ head' = [head EXCEPT ![k] = h]
         /\ IF Len(log[k]) - h >= Limit(k)
            THEN Denied(r, t) /\ UNCHANGED log
            ELSE Allowed(r) /\ Consume(r, k, t)
  BY <1>2 DEF CheckMemory
<1>4. /\ Len(log[k]) \in Nat /\ log[k] \in Seq(Consumptions)
      /\ Limit(k) \in Nat /\ Limit(k) >= 1 /\ Window \in Nat /\ clock \in Nat
  BY <1>1, LimitIsPositive, RateAssumption DEF RateTypeOK
<1>5. TablesInv'
  <2>1. \/ Len(log[k]) - h >= Limit(k) /\ UNCHANGED log
        \/ Len(log[k]) - h < Limit(k) /\ Consume(r, k, t)
    BY <1>3, <1>4
  <2> QED BY <2>1, <1>1, <1>2, <1>3, MemoryTables
<1>6. head' \in [Keys -> Nat]
  <2>1. h \in Nat
    BY <1>4
  <2> QED BY <2>1, <1>1, <1>3 DEF RateTypeOK
<1>7. \A q \in Requests \ {r} : checks'[q] = checks[q]
  BY <1>1, <1>3 DEF Allowed, Denied, RateTypeOK
<1>8. CASE Len(log[k]) - h >= Limit(k)
  <2>1. Denied(r, t) /\ UNCHANGED log
    BY <1>3, <1>8
  <2>2. Reached(k, t)
    <3>1. h + 1 \in 1..Len(log[k]) /\ h \in Nat
      BY <1>4, <1>8
    <3>2. log[k][h + 1].read > t - Window
      BY <1>3, <3>1, <1>4 DEF PoppedAt
    <3>3. log[k][h + 1] \in Consumptions
      BY <3>1, <1>4
    <3>4. /\ log[k][h + 1].read \in Nat /\ log[k][h + 1].at \in Nat
          /\ log[k][h + 1].read <= log[k][h + 1].at
      BY <3>1, <3>3, <1>1, <1>4 DEF Consumptions, TablesInv, LogInv
    <3>5. log[k][h + 1].at > t - Window
      BY <3>2, <3>4, <1>4
    <3>6. \A j \in (h + 1)..(h + 1 + Limit(k) - 1) :
             j \in DOMAIN log[k] /\ log[k][j].at > t - Window
      <4> SUFFICES ASSUME NEW j \in (h + 1)..(h + 1 + Limit(k) - 1)
                   PROVE  j \in DOMAIN log[k] /\ log[k][j].at > t - Window
        OBVIOUS
      <4>1. j \in 1..Len(log[k]) /\ h + 1 <= j
        BY <3>1, <1>4, <1>8
      <4>2. log[k][j] \in Consumptions
        BY <4>1, <1>4
      <4>3. log[k][h + 1].at <= log[k][j].at
        <5>1. DOMAIN log[k] = 1..Len(log[k])
          BY <1>4
        <5> QED BY <3>1, <4>1, <5>1, <1>1 DEF TablesInv, LogInv
      <4>4. log[k][j].at \in Nat
        BY <4>2 DEF Consumptions
      <4> QED BY <4>4, <4>1, <4>3, <3>4, <3>5, <1>4
    <3> QED BY <3>1, <3>6, <1>4 DEF Reached
  <2>3. Reached(k, t)'
    BY <2>1, <2>2 DEF Reached, Limit
  <2>4. checks' \in [Requests -> CheckStates] /\ CheckInv(r)'
    BY <2>1, <2>3, <1>1, <1>2, DeniedChecks
  <2>5. RateTypeOK'
    BY <2>1, <2>4, <1>1, <1>6 DEF RateTypeOK
  <2>6. \A q \in Requests \ {r} : CheckInv(q)'
    BY <2>1, <1>1, <1>4, <1>7, CheckKept, SameLogGrows DEF RateInv, ChecksInv
  <2> QED BY <2>4, <2>5, <2>6, <1>5 DEF RateInv, ChecksInv
<1>9. CASE ~(Len(log[k]) - h >= Limit(k))
  <2>1. Allowed(r) /\ Consume(r, k, t)
    BY <1>3, <1>9
  <2>2. LogGrows /\ Consumed(k, r)' /\ log' \in [Keys -> Seq(Consumptions)]
    BY <2>1, <1>1, ConsumeGrows, ConsumeAppends
  <2>3. checks' \in [Requests -> CheckStates] /\ CheckInv(r)'
    BY <2>1, <2>2, <1>1, <1>2, AllowedChecks
  <2>4. RateTypeOK'
    BY <2>2, <2>3, <1>1, <1>6 DEF RateTypeOK
  <2>5. \A q \in Requests \ {r} : CheckInv(q)'
    BY <2>2, <1>1, <1>4, <1>7, CheckKept DEF RateInv, ChecksInv
  <2> QED BY <2>3, <2>4, <2>5, <1>5 DEF RateInv, ChecksInv
<1> QED BY <1>8, <1>9

LEMMA CheckRedisKeeps ==
    ASSUME RateInv, NEW r \in Requests, CheckRedis(r)
    PROVE  RateInv'
<1>1. /\ RateTypeOK /\ TablesInv /\ CheckInv(r)
      /\ checks[r].pc = "checking" /\ backend = "redis"
      /\ UNCHANGED <<backend, clock, head, trail>> /\ clock \in Nat
  BY DEF RateInv, ChecksInv, CheckRedis, RateTypeOK
<1>2. PICK k \in Keys : k = KeyOf(r)
  BY <1>1, KeyShape DEF CheckInv, KeyOf
<1>3. /\ CountOne(k)
      /\ IF count'[k] <= Limit(k)
         THEN /\ Consume(r, k, clock)
              /\ Allowed(r) \/ checks' = [checks EXCEPT ![r].pc = "unavailable"]
         ELSE /\ UNCHANGED log
              /\ Denied(r, clock) \/ checks' = [checks EXCEPT ![r].pc = "unavailable"]
  BY <1>2 DEF CheckRedis
<1>4. /\ count' \in [Keys -> Nat] /\ opened' \in [Keys -> Nat]
      /\ count'[k] \in Nat /\ Limit(k) \in Nat
  <2>1. /\ (IF Live(k) THEN count[k] + 1 ELSE 1) \in Nat
        /\ (IF Live(k) THEN opened[k] ELSE clock) \in Nat
    BY <1>1 DEF RateTypeOK
  <2> QED BY <2>1, <1>1, <1>3, LimitIsPositive DEF RateTypeOK, CountOne
<1>5. TablesInv' /\ (count'[k] > Limit(k) => Reached(k, clock)')
  <2>1. \/ count'[k] > Limit(k) /\ UNCHANGED log
        \/ count'[k] <= Limit(k) /\ Consume(r, k, clock)
    BY <1>3, <1>4
  <2> QED BY <2>1, <1>1, <1>3, RedisTables
<1>6. LogGrows /\ log' \in [Keys -> Seq(Consumptions)]
  <2>1. CASE UNCHANGED log
    BY <2>1, <1>1, SameLogGrows DEF RateTypeOK
  <2>2. CASE Consume(r, k, clock)
    BY <2>2, <1>1, ConsumeGrows, ConsumeAppends
  <2> QED BY <2>1, <2>2, <1>3
<1>7. \A q \in Requests \ {r} : checks'[q] = checks[q]
  BY <1>1, <1>3 DEF Allowed, Denied, RateTypeOK
<1>8. checks' \in [Requests -> CheckStates] /\ CheckInv(r)'
  <2>1. CASE checks' = [checks EXCEPT ![r].pc = "unavailable"]
    BY <2>1, <1>1, UnavailableChecks
  <2>2. CASE count'[k] <= Limit(k) /\ Consume(r, k, clock) /\ Allowed(r)
    BY <2>2, <1>1, <1>2, ConsumeGrows, AllowedChecks
  <2>3. CASE count'[k] > Limit(k) /\ Denied(r, clock)
    BY <2>3, <1>1, <1>2, <1>5, DeniedChecks
  <2> QED BY <2>1, <2>2, <2>3, <1>3, <1>4
<1>9. RateTypeOK'
  BY <1>1, <1>4, <1>6, <1>8 DEF RateTypeOK
<1>10. \A q \in Requests \ {r} : CheckInv(q)'
  BY <1>1, <1>6, <1>7, CheckKept DEF RateInv, ChecksInv
<1> QED BY <1>5, <1>8, <1>9, <1>10 DEF RateInv, ChecksInv

LEMMA RestartKeeps ==
    ASSUME RateInv, Restart
    PROVE  RateInv'
<1> DEFINE gone == [IdleCheck EXCEPT !.pc = "gone"]
<1>1. RateTypeOK /\ TablesInv /\ clock \in Nat
  BY DEF RateInv, RateTypeOK
<1>2. gone \in CheckStates /\ gone.pc = "gone" /\ gone.now = 0
  BY DEF IdleCheck, CheckStates
<1>3. /\ checks' \in [Requests -> CheckStates]
      /\ \A r \in Requests :
            \/ checks'[r] = gone
            \/ checks[r].pc = "idle" /\ checks'[r] = checks[r]
  BY <1>1, <1>2 DEF Restart, RateTypeOK
<1>4. UNCHANGED <<backend, clock, count, opened, trail>>
  BY DEF Restart
<1>5. ChecksInv'
  <2> SUFFICES ASSUME NEW r \in Requests PROVE CheckInv(r)'
    BY DEF ChecksInv
  <2>1. CASE checks'[r] = gone
    <3> HIDE DEF gone
    <3> QED BY <2>1, <1>1, <1>2, <1>4 DEF CheckInv
  <2>2. CASE checks[r].pc = "idle" /\ checks'[r] = checks[r]
    BY <2>2, <1>4 DEF RateInv, ChecksInv, CheckInv
  <2> QED BY <2>1, <2>2, <1>3
<1>6. CASE backend = "memory"
  <2>1. log' = [k \in Keys |-> << >>] /\ head' = [k \in Keys |-> 0]
    BY <1>6 DEF Restart
  <2>2. \A k \in Keys : DOMAIN log'[k] = {} /\ Len(log'[k]) = 0 /\ head'[k] = 0
    BY <2>1
  <2>3. RateTypeOK'
    BY <2>1, <1>1, <1>3, <1>4 DEF RateTypeOK
  <2>4. LogInv' /\ WindowBound'
    BY <2>2 DEF LogInv, WindowBound
  <2>5. DequeInv' /\ CounterInv'
    BY <2>2, <1>4, <1>6 DEF DequeInv, CounterInv
  <2> QED BY <2>3, <2>4, <2>5, <1>5 DEF RateInv, TablesInv
<1>7. CASE backend # "memory"
  <2>1. UNCHANGED <<log, head>>
    BY <1>7 DEF Restart
  <2>2. RateTypeOK' /\ TablesInv'
    BY <2>1, <1>1, <1>3, <1>4, SameTables DEF RateTypeOK
  <2> QED BY <2>2, <1>5 DEF RateInv
<1> QED BY <1>6, <1>7

LEMMA TickKeeps ==
    ASSUME RateInv, Tick
    PROVE  RateInv'
<1>1. /\ RateTypeOK /\ TablesInv /\ clock \in Nat /\ Window \in Nat
      /\ clock' = clock + 1
      /\ UNCHANGED <<backend, log, head, count, opened, checks, trail>>
  BY RateAssumption DEF RateInv, RateTypeOK, Tick
<1>2. RateTypeOK'
  BY <1>1 DEF RateTypeOK
<1>3. \A k \in Keys : \A i \in DOMAIN log[k] :
         log[k][i].read \in Nat /\ log[k][i].at \in Nat
  <2>1. \A k \in Keys : log[k] \in Seq(Consumptions)
    BY <1>1 DEF RateTypeOK
  <2>2. \A k \in Keys : \A i \in DOMAIN log[k] : log[k][i] \in Consumptions
    BY <2>1
  <2> QED BY <2>2 DEF Consumptions
<1>4. LogInv'
  <2>1. \A k \in Keys : \A i \in DOMAIN log[k] : log[k][i].at <= clock + 1
    BY <1>1, <1>3 DEF TablesInv, LogInv
  <2> QED BY <2>1, <1>1 DEF TablesInv, LogInv
<1>5. DequeInv'
  <2> SUFFICES ASSUME backend = "memory", NEW k \in Keys
               PROVE  /\ head[k] <= Len(log[k])
                      /\ \A i \in 1..head[k] : log[k][i].read + Window <= clock + 1
    BY <1>1 DEF DequeInv
  <2>1. /\ head[k] <= Len(log[k])
        /\ \A i \in 1..head[k] : log[k][i].read + Window <= clock
    BY <1>1 DEF TablesInv, DequeInv
  <2>2. /\ head[k] \in Nat /\ Len(log[k]) \in Nat
        /\ DOMAIN log[k] = 1..Len(log[k])
    BY <1>1 DEF RateTypeOK
  <2>3. \A i \in 1..head[k] : log[k][i].read \in Nat
    BY <2>1, <2>2, <1>3
  <2> QED BY <2>1, <2>3, <1>1
<1>6. CounterInv'
  <2> SUFFICES ASSUME backend = "redis", NEW k \in Keys
               PROVE  opened[k] <= clock + 1
    BY <1>1 DEF TablesInv, CounterInv, Granted, Limit
  <2>1. opened[k] \in Nat /\ opened[k] <= clock
    BY <1>1 DEF TablesInv, CounterInv, RateTypeOK
  <2> QED BY <2>1, <1>1
<1>7. WindowBound'
  BY <1>1 DEF TablesInv, WindowBound, Burst, Limit
<1>8. ChecksInv'
  BY <1>1, CheckKept, SameLogGrows DEF RateInv, ChecksInv
<1> QED BY <1>2, <1>4, <1>5, <1>6, <1>7, <1>8 DEF RateInv, TablesInv

(***************************************************************************)
(* RateInv is inductive.                                                   *)
(***************************************************************************)
LEMMA NextKeeps ==
    ASSUME RateInv, [RateNext]_rateVars
    PROVE  RateInv'
<1>1. ASSUME NEW r \in Requests, NEW c \in Calls, Begin(r, c) PROVE RateInv'
  BY <1>1, BeginKeeps
<1>2. ASSUME NEW r \in Requests, ReadClock(r) PROVE RateInv'
  BY <1>2, ReadClockKeeps
<1>3. ASSUME NEW r \in Requests, CheckMemory(r) PROVE RateInv'
  BY <1>3, CheckMemoryKeeps
<1>4. ASSUME NEW r \in Requests, CheckRedis(r) PROVE RateInv'
  BY <1>4, CheckRedisKeeps
<1>5. ASSUME NEW r \in Requests, RedisFails(r) PROVE RateInv'
  BY <1>5, RedisFailsKeeps
<1>6. ASSUME NEW r \in Requests, RecordDenial(r) PROVE RateInv'
  BY <1>6, RecordDenialKeeps
<1>7. CASE Restart
  BY <1>7, RestartKeeps
<1>8. CASE Tick
  BY <1>8, TickKeeps
<1>9. CASE UNCHANGED rateVars
  <2>1. /\ RateTypeOK /\ clock \in Nat
        /\ UNCHANGED <<backend, clock, log, head, count, opened, checks, trail>>
    BY <1>9 DEF RateInv, RateTypeOK, rateVars
  <2>2. RateTypeOK' /\ TablesInv'
    BY <2>1, SameTables DEF RateInv, RateTypeOK
  <2>3. ChecksInv'
    BY <2>1, CheckKept, SameLogGrows DEF RateInv, ChecksInv
  <2> QED BY <2>2, <2>3 DEF RateInv
<1> QED BY <1>1, <1>2, <1>3, <1>4, <1>5, <1>6, <1>7, <1>8, <1>9 DEF RateNext

(***************************************************************************)
(* The state of the limiter stays well typed.                              *)
(***************************************************************************)
THEOREM RateTypeCorrect == RateSpec => []RateTypeOK
<1>1. RateInv => RateTypeOK
  BY DEF RateInv
<1> QED BY <1>1, InitEstablishes, NextKeeps, PTL DEF RateSpec

(***************************************************************************)
(* No more than the limit passes within a window, less than twice the      *)
(* limit over Redis, for any limits and any window.                        *)
(***************************************************************************)
THEOREM WindowHolds == RateSpec => []WindowBound
<1>1. RateInv => WindowBound
  BY DEF RateInv, TablesInv
<1> QED BY <1>1, InitEstablishes, NextKeeps, PTL DEF RateSpec

(***************************************************************************)
(* A denial had reached a limit; an admission has consumed all its keys.   *)
(***************************************************************************)
THEOREM AnswersHold == RateSpec => []AnswersAreEarned
<1>1. RateInv => AnswersAreEarned
  BY DEF RateInv, ChecksInv, CheckInv, Consumed, AnswersAreEarned
<1> QED BY <1>1, InitEstablishes, NextKeeps, PTL DEF RateSpec
=============================================================================
