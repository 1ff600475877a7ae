----------------------------- MODULE RateLimit -----------------------------
(***************************************************************************)
(* The rate limiter of core/rate_limit.py: requests that check one or two  *)
(* keys each against a limit, over a backend that is a deque of times in   *)
(* the process, a counter with an expiry in Redis, or missing.             *)
(*                                                                         *)
(* Request threads interleave.  The deque is edited under a lock, but the  *)
(* time it is edited with was read BEFORE the lock was taken; the script   *)
(* of Redis is atomic, but its answer may be lost.                         *)
(*                                                                         *)
(* log[k] is history: every consumption of key k, in order.  The deque of  *)
(* the process is what follows the first head[k] of them.                  *)
(***************************************************************************)
EXTENDS Integers, Sequences

CONSTANTS
    None,
    Limits,     \* *_rate_limit_attempts, by the scope they are for
    Window,     \* *_rate_limit_window_seconds
    MaxTime,    \* bound: the last value of the clock
    Backends,   \* what get_rate_limit_backend may answer in this deployment
    Requests,   \* the threads that handle a request
    Calls       \* what the requests ask, as far as keys tell them apart

VARIABLES
    backend,    \* what get_rate_limit_backend answers, "off" when disabled
    clock,      \* seconds
    log,        \* log[k]: the consumptions of key k
    head,       \* head[k]: how many of them the deque has popped
    count,      \* count[k]: the counter of Redis
    opened,     \* opened[k]: when that counter was last created
    checks,     \* checks[r]: where the check of request r is
    trail       \* the denials audit_logs knows

rateVars == <<backend, clock, log, head, count, opened, checks, trail>>

\* A call of one of the three enforce functions.  identifier is None for a
\* scope without one; shared and resource are the flags of the second.
Families == {"auth", "authenticated", "gateway"}

\* The keys of a call, in the order they are checked.
KeysOf(c) ==
    IF c.family = "auth"
    THEN IF c.identifier = None
         THEN << <<"auth", c.scope, "ip", c.ip>> >>
         ELSE << <<"auth", c.scope, "ip", c.ip>>,
                 <<"auth", c.scope, "identifier", c.identifier>> >>
    ELSE IF c.family = "authenticated"
         THEN << <<"authenticated", c.scope, c.organization,
                   IF c.shared THEN None ELSE c.actor, c.resource>> >>
         ELSE << <<"gateway", c.scope, c.organization, c.token, c.resource>> >>

\* Every key names the scope it was made for, and that has the limit.
Limit(k) == Limits[k[2]]

Keys == UNION {{KeysOf(c)[i] : i \in DOMAIN KeysOf(c)} : c \in Calls}

ASSUME RateAssumption ==
    /\ \A c \in Calls : Limits[c.scope] \in Nat \ {0}
    /\ Window \in Nat \ {0} /\ MaxTime \in Nat
    /\ Backends \subseteq {"memory", "redis", "none", "off"}
    /\ None \notin Calls
    /\ \A c \in Calls : c.family \in Families

\* read: the time the caller had read.  at: the time the consumption took
\* effect.  by: the request.
Consumptions == [by : Requests, read : Nat, at : Nat]

Unanswered == {"idle", "checking", "timed"}

CheckStates ==
    [pc : Unanswered \cup {"admitted", "denying", "denied", "unavailable", "gone"},
     call : Calls \cup {None},
     step : Nat,     \* which of the call's keys is next
     now : Nat]      \* the time read for the check, or of the denial

IdleCheck == [pc |-> "idle", call |-> None, step |-> 1, now |-> 0]

RateTypeOK ==
    /\ backend \in {"memory", "redis", "none", "off"}
    /\ clock \in Nat
    /\ log \in [Keys -> Seq(Consumptions)]
    /\ head \in [Keys -> Nat]
    /\ count \in [Keys -> Nat]
    /\ opened \in [Keys -> Nat]
    /\ checks \in [Requests -> CheckStates]
    /\ trail \subseteq Requests

\* REDIS_URL selects Redis; without it production has no backend at all.
RateInit ==
    /\ backend \in Backends
    /\ clock = 0
    /\ log = [k \in Keys |-> << >>]
    /\ head = [k \in Keys |-> 0]
    /\ count = [k \in Keys |-> 0]
    /\ opened = [k \in Keys |-> 0]
    /\ checks = [r \in Requests |-> IdleCheck]
    /\ trail = {}

KeyOf(r) == KeysOf(checks[r].call)[checks[r].step]

Begin(r, c) ==
    /\ checks[r].pc = "idle"
    /\ checks' = [checks EXCEPT ![r].call = c,
                    ![r].pc = CASE backend = "off" -> "admitted"
                                [] backend = "none" -> "unavailable"
                                [] OTHER -> "checking"]
    /\ UNCHANGED <<backend, clock, log, head, count, opened, trail>>

\* The backend has answered request r.  The keys that allowed it stay
\* consumed when a later one denies it.
Allowed(r) ==
    checks' = [checks EXCEPT ![r] =
        IF checks[r].step + 1 \in DOMAIN KeysOf(checks[r].call)
        THEN [@ EXCEPT !.pc = "checking", !.step = checks[r].step + 1]
        ELSE [@ EXCEPT !.pc = "admitted"]]

\* Variant: the denial keeps the start of its window.
DeniedSince(r, t) ==
    checks' = [checks EXCEPT ![r] = [@ EXCEPT !.pc = "denying", !.now = t - Window]]

Denied(r, t) ==
    checks' = [checks EXCEPT ![r] = [@ EXCEPT !.pc = "denying", !.now = t]]

Consume(r, k, t) ==
    log' = [log EXCEPT ![k] = Append(@, [by |-> r, read |-> t, at |-> clock])]

\* InMemoryRateLimiter.check: monotonic(), then the lock.
ReadClock(r) ==
    /\ backend = "memory" /\ checks[r].pc = "checking"
    /\ checks' = [checks EXCEPT ![r].pc = "timed", ![r].now = clock]
    /\ UNCHANGED <<backend, clock, log, head, count, opened, trail>>

\* h: how many consumptions of key k a check at time t leaves popped.
PoppedAt(k, t, h) ==
    /\ h \in head[k]..Len(log[k])
    /\ \A i \in (head[k] + 1)..h : log[k][i].read <= t - Window
    /\ h < Len(log[k]) => log[k][h + 1].read > t - Window

\* Variant: the limit itself is not reached yet.
CheckMemoryOneMore(r) ==
    /\ checks[r].pc = "timed"
    /\ \E h \in 0..Len(log[KeyOf(r)]) :
          /\ PoppedAt(KeyOf(r), checks[r].now, h)
          /\ head' = [head EXCEPT ![KeyOf(r)] = h]
          /\ IF Len(log[KeyOf(r)]) - h > Limit(KeyOf(r))
             THEN Denied(r, checks[r].now) /\ UNCHANGED log
             ELSE Allowed(r) /\ Consume(r, KeyOf(r), checks[r].now)
    /\ UNCHANGED <<backend, clock, count, opened, trail>>

CheckMemory(r) ==
    /\ checks[r].pc = "timed"
    /\ \E h \in 0..Len(log[KeyOf(r)]) :
          /\ PoppedAt(KeyOf(r), checks[r].now, h)
          /\ head' = [head EXCEPT ![KeyOf(r)] = h]
          /\ IF Len(log[KeyOf(r)]) - h >= Limit(KeyOf(r))
             THEN Denied(r, checks[r].now) /\ UNCHANGED log
             ELSE Allowed(r) /\ Consume(r, KeyOf(r), checks[r].now)
    /\ UNCHANGED <<backend, clock, count, opened, trail>>

\* Variant: the counter expires a second early.
LiveTooShort(k) == count[k] > 0 /\ clock + 1 < opened[k] + Window

\* The counter of key k exists and has not expired.
Live(k) == count[k] > 0 /\ clock < opened[k] + Window

\* Variant: every check sets the expiry again.
CountEvery(k) ==
    /\ count' = [count EXCEPT ![k] = IF Live(k) THEN @ + 1 ELSE 1]
    /\ opened' = [opened EXCEPT ![k] = clock]

\* _CHECK_SCRIPT: INCR, and EXPIRE when that created the counter.
CountOne(k) ==
    /\ count' = [count EXCEPT ![k] = IF Live(k) THEN @ + 1 ELSE 1]
    /\ opened' = [opened EXCEPT ![k] = IF Live(k) THEN @ ELSE clock]

\* The script has run, and its answer arrives or is lost: any exception of
\* the backend is answered 503, whatever the counter now says.
CheckRedis(r) ==
    /\ backend = "redis" /\ checks[r].pc = "checking"
    /\ CountOne(KeyOf(r))
    /\ IF count'[KeyOf(r)] <= Limit(KeyOf(r))
       THEN /\ Consume(r, KeyOf(r), clock)
            /\ Allowed(r) \/ checks' = [checks EXCEPT ![r].pc = "unavailable"]
       ELSE /\ UNCHANGED log
            /\ Denied(r, clock) \/ checks' = [checks EXCEPT ![r].pc = "unavailable"]
    /\ UNCHANGED <<backend, clock, head, trail>>

\* Redis is not reached at all.
RedisFails(r) ==
    /\ backend = "redis" /\ checks[r].pc = "checking"
    /\ checks' = [checks EXCEPT ![r].pc = "unavailable"]
    /\ UNCHANGED <<backend, clock, log, head, count, opened, trail>>

\* The denial is audited in a transaction of its own, then answered 429.
RecordDenial(r) ==
    /\ checks[r].pc = "denying"
    /\ trail' = trail \cup {r}
    /\ checks' = [checks EXCEPT ![r].pc = "denied"]
    /\ UNCHANGED <<backend, clock, log, head, count, opened>>

\* The process is restarted: its requests are lost, and so is its deque.
Restart ==
    /\ checks' = [r \in Requests |->
                    IF checks[r].pc = "idle" THEN checks[r]
                    ELSE [IdleCheck EXCEPT !.pc = "gone"]]
    /\ IF backend = "memory"
       THEN log' = [k \in Keys |-> << >>] /\ head' = [k \in Keys |-> 0]
       ELSE UNCHANGED <<log, head>>
    /\ UNCHANGED <<backend, clock, count, opened, trail>>

Tick ==
    /\ clock < MaxTime
    /\ clock' = clock + 1
    /\ UNCHANGED <<backend, log, head, count, opened, checks, trail>>

RateNext ==
    \/ \E r \in Requests :
          \/ \E c \in Calls : Begin(r, c)
          \/ ReadClock(r) \/ CheckMemory(r) \/ CheckRedis(r)
          \/ RedisFails(r) \/ RecordDenial(r)
    \/ Restart
    \/ Tick

RateSpec == RateInit /\ [][RateNext]_rateVars

-----------------------------------------------------------------------------
\* How many consumptions of one key may come within a window: the deque
\* slides.  Two windows of a counter may meet, the one full just before it
\* ends and the next at once; but the first consumption of a window is made
\* as it opens, so the two are never admitted whole.
Burst(k) == IF backend = "memory" THEN Limit(k) ELSE 2 * Limit(k) - 1

(***************************************************************************)
(* No key is consumed more often than its backend can be trusted to allow, *)
(* however the threads interleave between the clock and the lock, and      *)
(* whatever answers of Redis are lost after they were counted: from the    *)
(* time a caller read to the time the Burst-th caller after it took        *)
(* effect, a whole window has passed.                                      *)
(***************************************************************************)
WindowBound ==
    \A k \in Keys : \A i \in DOMAIN log[k] :
        i + Burst(k) \in DOMAIN log[k]
        => log[k][i + Burst(k)].at >= log[k][i].read + Window

\* Limit(k) consumptions of key k in a row took effect later than Window
\* before time t.
Reached(k, t) ==
    \E i \in DOMAIN log[k] :
        \A j \in i..(i + Limit(k) - 1) :
            j \in DOMAIN log[k] /\ log[k][j].at > t - Window

(***************************************************************************)
(* Every answer has been earned.  A request is denied only when one of its *)
(* keys had reached the limit within the window before it, and denials     *)
(* that were counted never prolong it.  It is admitted only when it has    *)
(* consumed every one of its keys: the limiter fails closed.               *)
(***************************************************************************)
AnswersAreEarned ==
    \A r \in Requests :
        /\ checks[r].pc \in {"denying", "denied"}
           => \E i \in DOMAIN KeysOf(checks[r].call) :
                 Reached(KeysOf(checks[r].call)[i], checks[r].now)
        /\ checks[r].pc = "admitted" /\ backend # "off"
           => \A i \in DOMAIN KeysOf(checks[r].call) :
                 \E j \in DOMAIN log[KeysOf(checks[r].call)[i]] :
                    log[KeysOf(checks[r].call)[i]][j].by = r
=============================================================================
