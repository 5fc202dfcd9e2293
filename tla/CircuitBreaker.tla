--------------------------- MODULE CircuitBreaker ---------------------------
(***************************************************************************)
(* The circuit breaker around an unreliable call, used by several callers  *)
(* at once, and the fixed-window rate limiter that may stand before it.    *)
(*                                                                         *)
(* execute reads the state before it awaits the call and writes it after,  *)
(* so calls of different times settle in any order: one that began before  *)
(* the breaker opened may end after, and several may be under way while it *)
(* is half open.                                                           *)
(***************************************************************************)
EXTENDS Naturals, FiniteSets

CONSTANTS
  Caller,        \* places for a call
  Threshold,     \* failures in a row that open the breaker
  MaxFailures,   \* bound: the counter is not followed further
  WindowLimit,   \* calls the limiter allows in a window
  WindowLength,  \* its length, in ticks
  MaxTime        \* bound: ticks of the limiter's clock

ASSUME CircuitBreakerAssumption ==
  /\ Threshold \in Nat \ {0}
  /\ MaxFailures \in Nat /\ MaxFailures >= Threshold
  /\ WindowLimit \in Nat /\ WindowLength \in Nat \ {0} /\ MaxTime \in Nat

VARIABLES
  breaker,    \* "closed", "open" or "half-open"
  failures,   \* failures since the last success or reset
  timedOut,   \* the timeout has passed since openedAt
  calling     \* callers whose call is awaited

breakerVars == <<breaker, failures, timedOut, calling>>

\* getState: a poll, or the first thing execute does.
Seen == IF breaker = "open" /\ timedOut THEN "half-open" ELSE breaker

GetState ==
  /\ breaker' = Seen
  /\ UNCHANGED <<failures, timedOut, calling>>

Begin(c) ==
  /\ c \notin calling
  /\ breaker' = Seen
  /\ calling' = IF Seen = "open" THEN calling ELSE calling \cup {c}
  /\ UNCHANGED <<failures, timedOut>>

\* Mutant: the counter is left as it is.
Succeed_Counted(c) ==
  /\ c \in calling
  /\ breaker' = "closed"
  /\ calling' = calling \ {c}
  /\ UNCHANGED <<failures, timedOut>>

Succeed(c) ==
  /\ c \in calling
  /\ breaker' = "closed" /\ failures' = 0
  /\ calling' = calling \ {c}
  /\ UNCHANGED timedOut

Fail(c) ==
  /\ c \in calling
  /\ failures' = IF failures < MaxFailures THEN failures + 1 ELSE failures
  /\ IF failures + 1 >= Threshold \/ breaker = "half-open"
     THEN breaker' = "open" /\ timedOut' = FALSE
     ELSE UNCHANGED <<breaker, timedOut>>
  /\ calling' = calling \ {c}

BreakerReset ==
  /\ breaker' = "closed" /\ failures' = 0 /\ timedOut' = TRUE
  /\ UNCHANGED calling

TimeOut == ~ timedOut /\ timedOut' = TRUE /\ UNCHANGED <<breaker, failures, calling>>

\* openedAt starts at zero, long ago.
BreakerInit ==
  breaker = "closed" /\ failures = 0 /\ timedOut = TRUE /\ calling = {}

BreakerNext ==
  \/ GetState \/ BreakerReset \/ TimeOut
  \/ \E c \in Caller : Begin(c) \/ Succeed(c) \/ Fail(c)

BreakerSpec == BreakerInit /\ [][BreakerNext]_breakerVars

-----------------------------------------------------------------------------
VARIABLES
  clock,        \* the limiter's clock
  windowStart,  \* when its window began
  count,        \* calls recorded in it
  granted       \* history: how many calls were allowed at each tick

limiterVars == <<clock, windowStart, count, granted>>

Over == clock - windowStart >= WindowLength

tryAcquire ==
  LET used == IF Over THEN 0 ELSE count
  IN  /\ windowStart' = IF Over THEN clock ELSE windowStart
      /\ IF used >= WindowLimit
         THEN count' = used /\ UNCHANGED granted
         ELSE count' = used + 1 /\ granted' = [granted EXCEPT ![clock] = @ + 1]
      /\ UNCHANGED clock

Tick == clock < MaxTime /\ clock' = clock + 1 /\ UNCHANGED <<windowStart, count, granted>>

\* A reset starts the count, and what we remember of it, afresh.
LimiterReset ==
  /\ windowStart' = clock /\ count' = 0
  /\ granted' = [t \in 0 .. MaxTime |-> 0]
  /\ UNCHANGED clock

LimiterInit ==
  clock = 0 /\ windowStart = 0 /\ count = 0 /\ granted = [t \in 0 .. MaxTime |-> 0]

LimiterNext == tryAcquire \/ LimiterReset \/ Tick

LimiterSpec == LimiterInit /\ [][LimiterNext]_limiterVars

-----------------------------------------------------------------------------
(* Properties.                                                             *)

BreakerTypeOK ==
  /\ breaker \in {"closed", "open", "half-open"}
  /\ failures \in 0 .. MaxFailures
  /\ timedOut \in BOOLEAN
  /\ calling \subseteq Caller

\* A breaker that lets everything through has seen fewer failures in a row
\* than the threshold, and one that probes has waited out its timeout, in
\* whatever order the calls of different times settle.
ClosedIsHealthy ==
  /\ breaker = "closed" => failures < Threshold
  /\ breaker = "half-open" => timedOut

\* Since its last reset, any stretch as long as a window has seen at most
\* twice the limit: the fixed window of tryAcquire leaks no more than that
\* around its boundary.
GrantedIn(from) ==
  LET Sum[t \in 0 .. MaxTime] ==
        (IF t = 0 THEN 0 ELSE Sum[t - 1])
        + (IF t \in from .. (from + WindowLength - 1) THEN granted[t] ELSE 0)
  IN  Sum[MaxTime]

AtMostTwice ==
  \A from \in 0 .. MaxTime : GrantedIn(from) <= 2 * WindowLimit

LimiterTypeOK ==
  /\ clock \in 0 .. MaxTime /\ windowStart \in 0 .. clock /\ count \in 0 .. WindowLimit
  /\ granted \in [0 .. MaxTime -> Nat] /\ AtMostTwice
=============================================================================
