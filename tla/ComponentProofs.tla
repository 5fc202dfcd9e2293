--------------------------- MODULE ComponentProofs ---------------------------
(***************************************************************************)
(* The components of MCComponents, each proved for any size: the circuit   *)
(* breaker under any number of concurrent calls, the rate limiter, the     *)
(* gate of a tool call, the continuation of a task, the pages that         *)
(* concurrent verifications open through one script file, the guard        *)
(* against handling a message twice, and the runs of a task with their     *)
(* record.  At the end they are put together, with the sessions of         *)
(* SessionsProofs and the context of ContextProofs.                        *)
(***************************************************************************)
EXTENDS MCComponents, SessionsProofs, ContextProofs,
        FiniteSetTheorems, SequenceTheorems, TLAPS

-----------------------------------------------------------------------------
(* The circuit breaker.                                                    *)

BreakerInv == BreakerTypeOK /\ ClosedIsHealthy

\* Every way a call can begin or settle keeps the state of the breaker in line
\* with its counter and its timeout.
LEMMA BreakerNextInv == BreakerInv /\ [BreakerNext]_breakerVars => BreakerInv'
<1> SUFFICES ASSUME BreakerInv, [BreakerNext]_breakerVars PROVE BreakerInv'
  OBVIOUS
<1> USE CircuitBreakerAssumption DEF BreakerInv, BreakerTypeOK, ClosedIsHealthy
<1>1. /\ Seen \in {"closed", "open", "half-open"}
      /\ Seen = "closed" => breaker = "closed"
      /\ Seen = "half-open" => timedOut
  BY DEF Seen
<1>2. CASE GetState
  BY <1>1, <1>2 DEF GetState
<1>3. ASSUME NEW c \in Caller, Begin(c) PROVE BreakerInv'
  BY <1>1, <1>3 DEF Begin
<1>4. ASSUME NEW c \in Caller, Succeed(c) PROVE BreakerInv'
  BY <1>4 DEF Succeed
<1>5. ASSUME NEW c \in Caller, Fail(c) PROVE BreakerInv'
  <2>1. /\ failures' \in 0 .. MaxFailures
        /\ failures + 1 < Threshold => failures' < Threshold
    BY <1>5 DEF Fail
  <2>2. CASE failures + 1 >= Threshold \/ breaker = "half-open"
    BY <1>5, <2>1, <2>2 DEF Fail
  <2>3. CASE ~ (failures + 1 >= Threshold \/ breaker = "half-open")
    BY <1>5, <2>1, <2>3 DEF Fail
  <2> QED
    BY <2>2, <2>3
<1>6. CASE BreakerReset
  BY <1>6 DEF BreakerReset
<1>7. CASE TimeOut
  BY <1>7 DEF TimeOut
<1>8. CASE UNCHANGED breakerVars
  BY <1>8 DEF breakerVars
<1> QED
  BY <1>2, <1>3, <1>4, <1>5, <1>6, <1>7, <1>8 DEF BreakerNext

\* A closed breaker has seen fewer failures in a row than its threshold and a
\* half-open one has waited, however many calls settle in whatever order
\* (circuit-breaker.js: execute).
THEOREM AlwaysClosedIsHealthy == BreakerSpec => []ClosedIsHealthy
<1>1. BreakerInit => BreakerInv
  BY CircuitBreakerAssumption DEF BreakerInit, BreakerInv, BreakerTypeOK, ClosedIsHealthy
<1>2. BreakerInv => ClosedIsHealthy
  BY DEF BreakerInv
<1> QED
  BY <1>1, <1>2, BreakerNextInv, PTL DEF BreakerSpec

-----------------------------------------------------------------------------
(* The rate limiter.                                                       *)

\* A sum that is run up from zero to n.
RunningSum(s, w, n) ==
  /\ s \in [0 .. n -> Nat]
  /\ \A t \in 0 .. n : s[t] = (IF t = 0 THEN 0 ELSE s[t-1]) + w[t]

LEMMA RunningExists ==
  ASSUME NEW n \in Nat, NEW w \in [0 .. n -> Nat]
  PROVE  \E s : RunningSum(s, w, n)
<1> DEFINE G == {m \in Nat : m <= n => \E s : RunningSum(s, w, m)}
<1>1. 0 \in G
  <2>1. RunningSum([t \in 0 .. 0 |-> w[0]], w, 0)
    BY DEF RunningSum
  <2> QED
    BY <2>1
<1>2. ASSUME NEW m \in Nat, m \in G PROVE m + 1 \in G
  <2> SUFFICES ASSUME m + 1 <= n PROVE \E s : RunningSum(s, w, m + 1)
    OBVIOUS
  <2>1. PICK s : RunningSum(s, w, m)
    BY <1>2
  <2> DEFINE r == [t \in 0 .. (m + 1) |-> IF t = m + 1 THEN s[m] + w[m + 1] ELSE s[t]]
  <2>2. s \in [0 .. m -> Nat] /\ s[m] \in Nat /\ w[m + 1] \in Nat
    BY <2>1 DEF RunningSum
  <2>3. r \in [0 .. (m + 1) -> Nat]
    BY <2>2
  <2>4. ASSUME NEW t \in 0 .. (m + 1) PROVE r[t] = (IF t = 0 THEN 0 ELSE r[t-1]) + w[t]
    <3>1. CASE t = m + 1
      <4>1. r[t] = s[m] + w[t] /\ t # 0 /\ t - 1 = m /\ r[t-1] = s[m]
        BY <3>1
      <4> QED
        BY <4>1
    <3>2. CASE t # m + 1
      <4>1. t \in 0 .. m /\ r[t] = s[t] /\ (t # 0 => t - 1 \in 0 .. m /\ r[t-1] = s[t-1])
        BY <3>2
      <4> QED
        BY <2>1, <4>1 DEF RunningSum
    <3> QED
      BY <3>1, <3>2
  <2>5. RunningSum(r, w, m + 1)
    <3> HIDE DEF r
    <3> QED
      BY <2>3, <2>4 DEF RunningSum
  <2> QED
    BY <2>5
<1>3. \A m \in Nat : m \in G
  <2> HIDE DEF G
  <2> QED
    BY <1>1, <1>2, SetInduction
<1> QED
  BY <1>3

LEMMA AddsUp ==
  ASSUME NEW a \in Nat, NEW b \in Nat, NEW c \in Nat, a <= b + c,
         NEW x \in Nat, NEW y \in Nat, NEW z \in Nat, x <= y + z
  PROVE  a + x <= (b + y) + (c + z)
OBVIOUS

\* What is weighed by no more than two other weights together adds up to no
\* more than they do.
LEMMA RunningBelow ==
  ASSUME NEW n \in Nat, NEW w \in [0 .. n -> Nat], NEW v \in [0 .. n -> Nat],
         NEW u \in [0 .. n -> Nat], NEW s, NEW r, NEW q,
         RunningSum(s, w, n), RunningSum(r, v, n), RunningSum(q, u, n),
         \A t \in 0 .. n : w[t] <= v[t] + u[t]
  PROVE  s[n] <= r[n] + q[n]
<1> DEFINE G == {m \in Nat : m <= n => s[m] <= r[m] + q[m]}
<1>1. /\ s \in [0 .. n -> Nat] /\ r \in [0 .. n -> Nat] /\ q \in [0 .. n -> Nat]
      /\ \A t \in 0 .. n : /\ s[t] = (IF t = 0 THEN 0 ELSE s[t-1]) + w[t]
                           /\ r[t] = (IF t = 0 THEN 0 ELSE r[t-1]) + v[t]
                           /\ q[t] = (IF t = 0 THEN 0 ELSE q[t-1]) + u[t]
  BY DEF RunningSum
<1>2. 0 \in G
  <2>1. 0 \in 0 .. n
    OBVIOUS
  <2>2. /\ w[0] \in Nat /\ v[0] \in Nat /\ u[0] \in Nat /\ w[0] <= v[0] + u[0]
        /\ s[0] = 0 + w[0] /\ r[0] = 0 + v[0] /\ q[0] = 0 + u[0]
    BY <1>1, <2>1
  <2> QED
    BY <2>2
<1>3. ASSUME NEW m \in Nat, m \in G PROVE m + 1 \in G
  <2> SUFFICES ASSUME m + 1 <= n PROVE s[m + 1] <= r[m + 1] + q[m + 1]
    OBVIOUS
  <2>1. m + 1 \in 0 .. n /\ m \in 0 .. n /\ (m + 1) - 1 = m /\ m + 1 # 0
    OBVIOUS
  <2>2. /\ s[m + 1] = s[m] + w[m + 1]
        /\ r[m + 1] = r[m] + v[m + 1]
        /\ q[m + 1] = q[m] + u[m + 1]
    BY <1>1, <2>1
  <2>3. s[m] <= r[m] + q[m]
    BY <1>3, <2>1
  <2>4. /\ s[m] \in Nat /\ r[m] \in Nat /\ q[m] \in Nat
        /\ w[m + 1] \in Nat /\ v[m + 1] \in Nat /\ u[m + 1] \in Nat
        /\ w[m + 1] <= v[m + 1] + u[m + 1]
    <3> HIDE DEF G
    <3> QED
      BY <1>1, <2>1
  <2>5. s[m] + w[m + 1] <= (r[m] + v[m + 1]) + (q[m] + u[m + 1])
    <3> HIDE DEF G
    <3> QED
      BY <2>3, <2>4, AddsUp
  <2> QED
    BY <2>2, <2>5
<1>4. \A m \in Nat : m \in G
  <2> HIDE DEF G
  <2> QED
    BY <1>2, <1>3, SetInduction
<1> QED
  BY <1>4

\* What the ticks from one to before another were granted, and its sum.
Share(f, from, to) ==
  [t \in 0 .. MaxTime |-> IF from <= t /\ t < to THEN f[t] ELSE 0]
ShareSum(f, from, to) ==
  (CHOOSE s : RunningSum(s, Share(f, from, to), MaxTime))[MaxTime]

LEMMA ShareIs ==
  ASSUME NEW f \in [0 .. MaxTime -> Nat], NEW a \in Nat, NEW b \in Nat
  PROVE  /\ Share(f, a, b) \in [0 .. MaxTime -> Nat]
         /\ \E s : /\ RunningSum(s, Share(f, a, b), MaxTime)
                   /\ ShareSum(f, a, b) = s[MaxTime]
         /\ ShareSum(f, a, b) \in Nat
<1>1. Share(f, a, b) \in [0 .. MaxTime -> Nat]
  BY DEF Share
<1>2. \E s : RunningSum(s, Share(f, a, b), MaxTime)
  BY <1>1, RunningExists, CircuitBreakerAssumption
<1>3. PICK s : /\ s = CHOOSE q : RunningSum(q, Share(f, a, b), MaxTime)
               /\ RunningSum(s, Share(f, a, b), MaxTime)
  BY <1>2
<1>4. s \in [0 .. MaxTime -> Nat]
  BY <1>3 DEF RunningSum
<1>5. s[MaxTime] \in Nat
  BY <1>4, CircuitBreakerAssumption
<1> QED
  BY <1>1, <1>3, <1>5 DEF ShareSum

\* Shares of other functions that together weigh at least as much at each tick.
LEMMA ShareBelow ==
  ASSUME NEW f \in [0 .. MaxTime -> Nat], NEW a \in Nat, NEW b \in Nat,
         NEW g \in [0 .. MaxTime -> Nat], NEW c \in Nat, NEW d \in Nat,
         NEW h \in [0 .. MaxTime -> Nat], NEW i \in Nat, NEW j \in Nat,
         \A t \in 0 .. MaxTime :
           Share(f, a, b)[t] <= Share(g, c, d)[t] + Share(h, i, j)[t]
  PROVE  ShareSum(f, a, b) <= ShareSum(g, c, d) + ShareSum(h, i, j)
<1>1. PICK s : RunningSum(s, Share(f, a, b), MaxTime) /\ ShareSum(f, a, b) = s[MaxTime]
  BY ShareIs
<1>2. PICK r : RunningSum(r, Share(g, c, d), MaxTime) /\ ShareSum(g, c, d) = r[MaxTime]
  BY ShareIs
<1>3. PICK q : RunningSum(q, Share(h, i, j), MaxTime) /\ ShareSum(h, i, j) = q[MaxTime]
  BY ShareIs
<1>4. /\ Share(f, a, b) \in [0 .. MaxTime -> Nat]
      /\ Share(g, c, d) \in [0 .. MaxTime -> Nat]
      /\ Share(h, i, j) \in [0 .. MaxTime -> Nat]
  BY ShareIs
<1>5. s[MaxTime] <= r[MaxTime] + q[MaxTime]
  BY <1>1, <1>2, <1>3, <1>4, RunningBelow, CircuitBreakerAssumption
<1> QED
  BY <1>1, <1>2, <1>3, <1>5

\* A share in which nothing was granted.
LEMMA ShareEmpty ==
  ASSUME NEW f \in [0 .. MaxTime -> Nat], NEW a \in Nat, NEW b \in Nat,
         \A t \in 0 .. MaxTime : a <= t /\ t < b => f[t] = 0
  PROVE  ShareSum(f, a, b) = 0
<1> DEFINE none == [t \in 0 .. MaxTime |-> 0]
<1>1. none \in [0 .. MaxTime -> Nat] /\ RunningSum(none, none, MaxTime)
  BY CircuitBreakerAssumption DEF RunningSum
<1>2. none[MaxTime] = 0
  BY CircuitBreakerAssumption
<1>3. \A t \in 0 .. MaxTime : Share(f, a, b)[t] <= none[t] + none[t]
  BY DEF Share
<1>4. PICK s : RunningSum(s, Share(f, a, b), MaxTime) /\ ShareSum(f, a, b) = s[MaxTime]
  BY ShareIs
<1>5. s[MaxTime] <= none[MaxTime] + none[MaxTime]
  <2> HIDE DEF none
  <2> QED
    BY <1>1, <1>3, <1>4, ShareIs, RunningBelow, CircuitBreakerAssumption
<1>6. ShareSum(f, a, b) \in Nat
  BY ShareIs
<1> QED
  BY <1>2, <1>4, <1>5, <1>6

\* Ticks granted as before, and a smaller stretch of them.
LEMMA ShareWithin ==
  ASSUME NEW f \in [0 .. MaxTime -> Nat], NEW a \in Nat, NEW b \in Nat,
         NEW g \in [0 .. MaxTime -> Nat], NEW c \in Nat, NEW d \in Nat,
         \A t \in 0 .. MaxTime : a <= t /\ t < b => c <= t /\ t < d /\ f[t] <= g[t]
  PROVE  ShareSum(f, a, b) <= ShareSum(g, c, d)
<1>1. ShareSum(g, 0, 0) = 0
  BY ShareEmpty
<1>2. \A t \in 0 .. MaxTime : Share(f, a, b)[t] <= Share(g, c, d)[t] + Share(g, 0, 0)[t]
  BY DEF Share
<1>3. ShareSum(f, a, b) <= ShareSum(g, c, d) + ShareSum(g, 0, 0)
  BY <1>2, ShareBelow
<1>4. ShareSum(g, c, d) \in Nat
  BY ShareIs
<1> QED
  BY <1>1, <1>3, <1>4

\* One more at a tick.
LEMMA ShareOneMore ==
  ASSUME NEW f \in [0 .. MaxTime -> Nat], NEW a \in Nat, NEW b \in Nat,
         NEW at1 \in 0 .. MaxTime
  PROVE  ShareSum([f EXCEPT ![at1] = @ + 1], a, b) <= ShareSum(f, a, b) + 1
<1> DEFINE g == [f EXCEPT ![at1] = @ + 1]
           one == [t \in 0 .. MaxTime |-> IF t = at1 THEN 1 ELSE 0]
           run == [t \in 0 .. MaxTime |-> IF at1 <= t THEN 1 ELSE 0]
<1>1. g \in [0 .. MaxTime -> Nat] /\ one \in [0 .. MaxTime -> Nat]
  OBVIOUS
<1>2. RunningSum(run, one, MaxTime) /\ run[MaxTime] = 1
  BY CircuitBreakerAssumption DEF RunningSum
<1>3. \A t \in 0 .. MaxTime : Share(g, a, b)[t] <= Share(f, a, b)[t] + one[t]
  BY DEF Share
<1>4. PICK s : RunningSum(s, Share(g, a, b), MaxTime) /\ ShareSum(g, a, b) = s[MaxTime]
  <2> HIDE DEF g
  <2> QED
    BY <1>1, ShareIs
<1>5. PICK r : RunningSum(r, Share(f, a, b), MaxTime) /\ ShareSum(f, a, b) = r[MaxTime]
  BY ShareIs
<1>6. s[MaxTime] <= r[MaxTime] + run[MaxTime]
  <2> HIDE DEF g, one, run
  <2>1. Share(g, a, b) \in [0 .. MaxTime -> Nat] /\ Share(f, a, b) \in [0 .. MaxTime -> Nat]
    BY <1>1, ShareIs
  <2> QED
    BY <1>1, <1>2, <1>3, <1>4, <1>5, <2>1, RunningBelow, CircuitBreakerAssumption
<1> QED
  BY <1>2, <1>4, <1>5, <1>6

LEMMA GrantedIs ==
  ASSUME granted \in [0 .. MaxTime -> Nat], NEW from \in 0 .. MaxTime
  PROVE  /\ GrantedIn(from) \in Nat
         /\ ShareSum(granted, from, from + WindowLength) \in Nat
         /\ GrantedIn(from) <= ShareSum(granted, from, from + WindowLength)
<1> DEFINE w == Share(granted, from, from + WindowLength)
           body(s) == [t \in 0 .. MaxTime |->
                         (IF t = 0 THEN 0 ELSE s[t - 1])
                         + (IF t \in from .. (from + WindowLength - 1) THEN granted[t] ELSE 0)]
           Sum == CHOOSE s : s = body(s)
<1> USE CircuitBreakerAssumption
<1>1. /\ w \in [0 .. MaxTime -> Nat]
      /\ \A t \in 0 .. MaxTime :
           w[t] = IF t \in from .. (from + WindowLength - 1) THEN granted[t] ELSE 0
  BY DEF Share
<1>2. PICK s : RunningSum(s, w, MaxTime)
  BY <1>1, RunningExists
<1>3. s = body(s)
  <2>1. s \in [0 .. MaxTime -> Nat] /\ \A t \in 0 .. MaxTime : s[t] = body(s)[t]
    BY <1>1, <1>2 DEF RunningSum
  <2> QED
    BY <2>1
<1>4. Sum = body(Sum)
  BY <1>3
<1>5. \A t \in 0 .. MaxTime : Sum[t] = (IF t = 0 THEN 0 ELSE Sum[t-1]) + w[t]
  <2> SUFFICES ASSUME NEW t \in 0 .. MaxTime
               PROVE  Sum[t] = (IF t = 0 THEN 0 ELSE Sum[t-1]) + w[t]
    OBVIOUS
  <2>1. Sum[t] = body(Sum)[t]
    BY <1>4
  <2>2. body(Sum)[t] = (IF t = 0 THEN 0 ELSE Sum[t-1])
          + (IF t \in from .. (from + WindowLength - 1) THEN granted[t] ELSE 0)
    OBVIOUS
  <2> HIDE DEF Sum, body
  <2> QED
    BY <1>1, <2>1, <2>2
<1>6. \A m \in Nat : m <= MaxTime => Sum[m] \in Nat
  <2> DEFINE G == {m \in Nat : m <= MaxTime => Sum[m] \in Nat}
  <2> HIDE DEF Sum, body, w
  <2>1. 0 \in G
    BY <1>1, <1>5
  <2>2. ASSUME NEW m \in Nat, m \in G PROVE m + 1 \in G
    <3> SUFFICES ASSUME m + 1 <= MaxTime PROVE Sum[m + 1] \in Nat
      OBVIOUS
    <3>1. m + 1 \in 0 .. MaxTime /\ m + 1 # 0 /\ (m + 1) - 1 = m
      OBVIOUS
    <3>2. Sum[m] \in Nat
      BY <2>2
    <3>3. Sum[m + 1] = Sum[m] + w[m + 1] /\ w[m + 1] \in Nat
      <4> HIDE DEF G
      <4> QED
        BY <1>1, <1>5, <3>1
    <3> QED
      BY <3>2, <3>3
  <2> HIDE DEF G
  <2>3. \A m \in Nat : m \in G
    BY <2>1, <2>2, SetInduction
  <2> QED
    BY <2>3 DEF G
<1>7. RunningSum(Sum, w, MaxTime)
  <2>1. DOMAIN Sum = 0 .. MaxTime /\ Sum = [t \in 0 .. MaxTime |-> Sum[t]]
    <3>1. DOMAIN body(Sum) = 0 .. MaxTime /\ body(Sum) = [t \in 0 .. MaxTime |-> body(Sum)[t]]
      OBVIOUS
    <3> HIDE DEF Sum, body
    <3> QED
      BY <1>4, <3>1
  <2> HIDE DEF Sum, body, w
  <2>2. Sum \in [0 .. MaxTime -> Nat]
    BY <1>6, <2>1
  <2> QED
    BY <1>5, <2>2 DEF RunningSum
<1>8. GrantedIn(from) = Sum[MaxTime]
  BY DEF GrantedIn
<1>9. PICK r : RunningSum(r, w, MaxTime)
               /\ ShareSum(granted, from, from + WindowLength) = r[MaxTime]
  <2>1. from \in Nat /\ from + WindowLength \in Nat
    OBVIOUS
  <2> QED
    BY <2>1, ShareIs
<1>10. Sum[MaxTime] <= r[MaxTime] /\ Sum[MaxTime] \in Nat /\ r[MaxTime] \in Nat
  <2> DEFINE none == [t \in 0 .. MaxTime |-> 0]
  <2>1. none \in [0 .. MaxTime -> Nat] /\ RunningSum(none, none, MaxTime) /\ none[MaxTime] = 0
    BY DEF RunningSum
  <2>2. \A t \in 0 .. MaxTime : w[t] <= w[t] + none[t]
    BY <1>1
  <2>3. r[MaxTime] \in Nat
    BY <1>9 DEF RunningSum
  <2> HIDE DEF none, Sum, w
  <2>4. Sum[MaxTime] <= r[MaxTime] + none[MaxTime]
    BY <1>1, <1>7, <1>9, <2>1, <2>2, RunningBelow
  <2> QED
    BY <1>6, <2>1, <2>3, <2>4
<1> QED
  BY <1>8, <1>9, <1>10

\* What a window was granted is what is counted; of the ticks before it, as many
\* as a window has were granted no more than a limit.
LimiterInv ==
  /\ clock \in 0 .. MaxTime /\ windowStart \in 0 .. clock /\ count \in 0 .. WindowLimit
  /\ granted \in [0 .. MaxTime -> Nat]
  /\ \A t \in 0 .. MaxTime : windowStart + WindowLength <= t => granted[t] = 0
  /\ ShareSum(granted, windowStart, MaxTime + 1) <= count
  /\ \A from \in 0 .. MaxTime :
       from + WindowLength > windowStart =>
         ShareSum(granted, from, windowStart) <= WindowLimit
  /\ \A from \in 0 .. MaxTime :
       ShareSum(granted, from, from + WindowLength) <= 2 * WindowLimit

\* A stretch that reaches into the window is part of what came before and of what
\* the window was granted.
LEMMA AcrossBoundary ==
  ASSUME NEW f \in [0 .. MaxTime -> Nat], NEW w \in Nat, NEW n \in 0 .. WindowLimit,
         ShareSum(f, w, MaxTime + 1) <= n,
         NEW from \in 0 .. MaxTime,
         from + WindowLength > w => ShareSum(f, from, w) <= WindowLimit,
         from + WindowLength > w
  PROVE  ShareSum(f, from, from + WindowLength) <= 2 * WindowLimit
<1> USE CircuitBreakerAssumption
<1>1. from \in Nat /\ from + WindowLength \in Nat /\ MaxTime + 1 \in Nat
  OBVIOUS
<1>2. \A t \in 0 .. MaxTime :
        Share(f, from, from + WindowLength)[t]
          <= Share(f, from, w)[t] + Share(f, w, MaxTime + 1)[t]
  BY DEF Share
<1>3. ShareSum(f, from, from + WindowLength)
        <= ShareSum(f, from, w) + ShareSum(f, w, MaxTime + 1)
  BY <1>1, <1>2, ShareBelow
<1>4. /\ ShareSum(f, from, from + WindowLength) \in Nat
      /\ ShareSum(f, from, w) \in Nat /\ ShareSum(f, w, MaxTime + 1) \in Nat
  BY <1>1, ShareIs
<1> QED
  BY <1>3, <1>4

\* A call that is let through, in this window or as the first of the next.
LEMMA AcquireKeeps == ASSUME LimiterInv, tryAcquire PROVE LimiterInv'
<1> USE CircuitBreakerAssumption
<1> DEFINE used == IF Over THEN 0 ELSE count
           wide == windowStart'
<1>1. /\ clock \in 0 .. MaxTime /\ windowStart \in 0 .. clock /\ count \in 0 .. WindowLimit
      /\ granted \in [0 .. MaxTime -> Nat] /\ used \in 0 .. WindowLimit
      /\ wide = IF Over THEN clock ELSE windowStart
      /\ wide \in 0 .. clock /\ wide \in Nat /\ windowStart \in Nat /\ clock \in Nat
      /\ clock' = clock /\ clock < wide + WindowLength /\ MaxTime + 1 \in Nat
  BY SMTT(60) DEF LimiterInv, tryAcquire, Over
<1> HIDE DEF wide
<1>2. ShareSum(granted, wide, MaxTime + 1) <= used
  <2>1. CASE Over
    <3>1. \A t \in 0 .. MaxTime : wide <= t /\ t < MaxTime + 1 => granted[t] = 0
      BY <1>1, <2>1 DEF LimiterInv, Over
    <3>2. ShareSum(granted, wide, MaxTime + 1) = 0
      BY <1>1, <3>1, ShareEmpty
    <3> QED
      BY <2>1, <3>2
  <2>2. CASE ~Over
    BY <1>1, <2>2 DEF LimiterInv
  <2> QED
    BY <2>1, <2>2
<1>3. ASSUME NEW from \in 0 .. MaxTime, from + WindowLength > wide
      PROVE  ShareSum(granted, from, wide) <= WindowLimit
  <2>1. CASE Over
    <3> from \in Nat
      OBVIOUS
    <3>1. \A t \in 0 .. MaxTime :
            from <= t /\ t < wide =>
              windowStart <= t /\ t < MaxTime + 1 /\ granted[t] <= granted[t]
      BY <1>1, <1>3, <2>1 DEF Over
    <3>2. ShareSum(granted, from, wide) <= ShareSum(granted, windowStart, MaxTime + 1)
      BY <1>1, <3>1, ShareWithin
    <3>3. /\ ShareSum(granted, from, wide) \in Nat
          /\ ShareSum(granted, windowStart, MaxTime + 1) \in Nat
      BY <1>1, ShareIs
    <3>4. ShareSum(granted, windowStart, MaxTime + 1) <= count
      BY DEF LimiterInv
    <3> QED
      BY <1>1, <3>2, <3>3, <3>4
  <2>2. CASE ~Over
    BY <1>1, <1>3, <2>2 DEF LimiterInv
  <2> QED
    BY <2>1, <2>2
<1>4. \A from \in 0 .. MaxTime :
        from + WindowLength <= wide =>
          ShareSum(granted, from, from + WindowLength) <= 2 * WindowLimit
  BY DEF LimiterInv
<1>5. \A t \in 0 .. MaxTime : wide + WindowLength <= t => granted[t] = 0
  BY <1>1 DEF LimiterInv
<1>6. /\ granted' \in [0 .. MaxTime -> Nat] /\ count' \in 0 .. WindowLimit
      /\ ShareSum(granted', wide, MaxTime + 1) <= count'
      /\ \A t \in 0 .. MaxTime : t # clock => granted'[t] = granted[t]
  <2>1. CASE used >= WindowLimit
    <3>1. count' = used /\ granted' = granted
      BY <2>1 DEF tryAcquire
    <3> QED
      BY <1>1, <1>2, <3>1
  <2>2. CASE ~(used >= WindowLimit)
    <3>1. count' = used + 1 /\ granted' = [granted EXCEPT ![clock] = @ + 1]
      BY <2>2 DEF tryAcquire
    <3>2. ShareSum(granted', wide, MaxTime + 1) <= ShareSum(granted, wide, MaxTime + 1) + 1
      BY <1>1, <3>1, ShareOneMore
    <3>3. granted' \in [0 .. MaxTime -> Nat]
      BY <1>1, <3>1
    <3>4. /\ ShareSum(granted, wide, MaxTime + 1) \in Nat
          /\ ShareSum(granted', wide, MaxTime + 1) \in Nat
      BY <1>1, <3>3, ShareIs
    <3>5. ShareSum(granted', wide, MaxTime + 1) <= count' /\ count' \in 0 .. WindowLimit
      BY <1>1, <1>2, <2>2, <3>1, <3>2, <3>4
    <3> QED
      BY <1>1, <3>1, <3>3, <3>5
  <2> QED
    BY <2>1, <2>2
<1>7. ASSUME NEW from \in 0 .. MaxTime, NEW to \in Nat, to <= wide
      PROVE  /\ ShareSum(granted', from, to) <= ShareSum(granted, from, to)
             /\ ShareSum(granted', from, to) \in Nat /\ ShareSum(granted, from, to) \in Nat
  <2> from \in Nat
    OBVIOUS
  <2>1. \A t \in 0 .. MaxTime :
          from <= t /\ t < to => from <= t /\ t < to /\ granted'[t] <= granted[t]
    BY <1>1, <1>6, <1>7
  <2> QED
    BY <1>1, <1>6, <2>1, ShareWithin, ShareIs
<1>8. ASSUME NEW from \in 0 .. MaxTime, from + WindowLength > wide
      PROVE  ShareSum(granted', from, wide) <= WindowLimit
  <2>1. /\ ShareSum(granted', from, wide) <= ShareSum(granted, from, wide)
        /\ ShareSum(granted', from, wide) \in Nat /\ ShareSum(granted, from, wide) \in Nat
    BY <1>1, <1>7
  <2> QED
    BY <1>3, <1>8, <2>1
<1>9. ASSUME NEW from \in 0 .. MaxTime
      PROVE  ShareSum(granted', from, from + WindowLength) <= 2 * WindowLimit
  <2>1. CASE from + WindowLength > wide
    BY <1>1, <1>6, <1>8, <2>1, AcrossBoundary
  <2>2. CASE ~(from + WindowLength > wide)
    <3>1. from + WindowLength <= wide /\ from + WindowLength \in Nat
      BY <1>1, <2>2
    <3> QED
      BY <1>4, <1>7, <3>1
  <2> QED
    BY <2>1, <2>2
<1> USE DEF wide
<1>10. \A t \in 0 .. MaxTime : windowStart' + WindowLength <= t => granted'[t] = 0
  BY <1>1, <1>5, <1>6
<1> QED
  BY <1>1, <1>6, <1>8, <1>9, <1>10 DEF LimiterInv

\* A limiter that was granted nothing.
LEMMA NothingGranted ==
  ASSUME NEW f, f = [t \in 0 .. MaxTime |-> 0], NEW a \in Nat, NEW b \in Nat
  PROVE  f \in [0 .. MaxTime -> Nat] /\ ShareSum(f, a, b) = 0
BY ShareEmpty

LEMMA LimiterStarts == LimiterInit => LimiterInv
<1> USE CircuitBreakerAssumption
<1> SUFFICES ASSUME LimiterInit PROVE LimiterInv
  OBVIOUS
<1>1. /\ clock = 0 /\ windowStart = 0 /\ count = 0
      /\ granted = [t \in 0 .. MaxTime |-> 0]
  BY DEF LimiterInit
<1>2. \A a, b \in Nat : ShareSum(granted, a, b) = 0
  BY <1>1, NothingGranted
<1>3. MaxTime + 1 \in Nat /\ \A from \in 0 .. MaxTime : from \in Nat /\ from + WindowLength \in Nat
  OBVIOUS
<1> QED
  BY <1>1, <1>2, <1>3 DEF LimiterInv

LEMMA LimiterNextKeeps == LimiterInv /\ [LimiterNext]_limiterVars => LimiterInv'
<1> SUFFICES ASSUME LimiterInv, [LimiterNext]_limiterVars PROVE LimiterInv'
  OBVIOUS
<1> USE CircuitBreakerAssumption
<1>1. CASE tryAcquire
  BY <1>1, AcquireKeeps
<1>2. CASE LimiterReset
  <2>1. /\ clock \in 0 .. MaxTime /\ clock' = clock /\ windowStart' = clock /\ count' = 0
        /\ granted' = [t \in 0 .. MaxTime |-> 0]
    BY <1>2 DEF LimiterReset, LimiterInv
  <2>2. \A a, b \in Nat : ShareSum(granted', a, b) = 0
    BY <2>1, NothingGranted
  <2>3. /\ MaxTime + 1 \in Nat /\ windowStart' \in Nat
        /\ \A from \in 0 .. MaxTime : from \in Nat /\ from + WindowLength \in Nat
    BY <2>1
  <2>4. 0 \in 0 .. WindowLimit /\ 0 <= 2 * WindowLimit /\ clock \in 0 .. clock
    BY <2>1
  <2>5. /\ granted' \in [0 .. MaxTime -> Nat]
        /\ \A t \in 0 .. MaxTime : windowStart' + WindowLength <= t => granted'[t] = 0
    BY <2>1
  <2>6. ShareSum(granted', windowStart', MaxTime + 1) <= count'
    BY <2>1, <2>2, <2>3
  <2>7. \A from \in 0 .. MaxTime :
          /\ ShareSum(granted', from, windowStart') <= WindowLimit
          /\ ShareSum(granted', from, from + WindowLength) <= 2 * WindowLimit
    BY <2>2, <2>3, <2>4
  <2> QED
    BY <2>1, <2>4, <2>5, <2>6, <2>7 DEF LimiterInv
<1>3. CASE Tick
  BY <1>3 DEF Tick, LimiterInv
<1>4. CASE UNCHANGED limiterVars
  BY <1>4 DEF limiterVars, LimiterInv
<1> QED
  BY <1>1, <1>2, <1>3, <1>4 DEF LimiterNext

\* The fixed window lets any stretch as long as it have twice its limit at most.
LEMMA LimiterTyped == LimiterInv => LimiterTypeOK
<1> SUFFICES ASSUME LimiterInv PROVE LimiterTypeOK
  OBVIOUS
<1> USE CircuitBreakerAssumption
<1>1. ASSUME NEW from \in 0 .. MaxTime PROVE GrantedIn(from) <= 2 * WindowLimit
  <2>1. /\ GrantedIn(from) \in Nat
        /\ ShareSum(granted, from, from + WindowLength) \in Nat
        /\ GrantedIn(from) <= ShareSum(granted, from, from + WindowLength)
    BY GrantedIs DEF LimiterInv
  <2>2. ShareSum(granted, from, from + WindowLength) <= 2 * WindowLimit
    BY DEF LimiterInv
  <2>3. 2 * WindowLimit \in Nat
    OBVIOUS
  <2> QED
    BY <2>1, <2>2, <2>3
<1> QED
  BY <1>1 DEF LimiterInv, LimiterTypeOK, AtMostTwice

\* Since its last reset, any stretch as long as a window has seen at most twice
\* the limit, wherever the windows began (rate-limiter.js: tryAcquire).
THEOREM AlwaysAtMostTwice == LimiterSpec => []AtMostTwice
<1>1. LimiterInv => AtMostTwice
  BY LimiterTyped DEF LimiterTypeOK
<1> QED
  BY <1>1, LimiterStarts, LimiterNextKeeps, PTL DEF LimiterSpec

-----------------------------------------------------------------------------
(* The gate of a tool call.                                                *)

\* Whatever objects or does not object before the question is looked at, the
\* call of a blocked tool does not get past it.
LEMMA GateStep ==
  ASSUME NEW c \in ToolRequest, ToolExecuteBefore(c)
  PROVE  AskingHolds'
<1> SUFFICES ASSUME gateRecord'.phase = "ASKING", gateCall'.tool \in BLOCKED_TOOLS,
                    gateVerdict'.runs
             PROVE  /\ gateCall'.command \in READONLY_GIT_RE
                    /\ gateSession'.strict => gateCall'.command \notin Destructive
  BY DEF AskingHolds
<1>1. gateCall' = c /\ gateRecord' = gateRecord /\ gateSession' = gateSession
  BY DEF ToolExecuteBefore
<1>2. CASE PolicyBlock(c)
  BY <1>2 DEF PolicyBlock
<1>3. CASE SoftGovernanceBlock(c)
  BY <1>1, <1>3 DEF SoftGovernanceBlock, enforceGovernance
<1>4. CASE NothingAsked(c)
  <2>1. c.tool = "bash" /\ RiskCommand(c) \in READONLY_GIT_RE
    BY <1>1, <1>4 DEF NothingAsked, readonlyGit
  <2>2. RiskCommand(c) = c.command
    BY <2>1, Zenon DEF RiskCommand, READONLY_GIT_RE
  <2>3. gateSession.strict => RiskCommand(c) \notin Destructive
    BY <1>4, <2>1 DEF NothingAsked, Passed, Noted, evaluateAction
  <2> QED
    BY <1>1, <2>1, <2>2, <2>3
<1>5. CASE EnforcedBlock(c)
  BY <1>5 DEF EnforcedBlock
<1>6. CASE Bridge(c)
  BY <1>1, <1>6 DEF Bridge
<1> QED
  BY <1>2, <1>3, <1>4, <1>5, <1>6 DEF ToolExecuteBefore

\* While a question is open no blocked tool runs but a command that begins like
\* git that only reads, and in strict mode nothing destructive, of every kind of
\* record, session and call (index.js: tool.execute.before).
THEOREM AlwaysAskingHolds == ToolGateSpec => []AskingHolds
<1>1. ToolGateInit => AskingHolds
  BY DEF ToolGateInit, AskingHolds
<1>2. AskingHolds /\ [ToolGateNext]_gateVars => AskingHolds'
  <2>1. CASE UNCHANGED gateVars
    BY <2>1 DEF gateVars, AskingHolds
  <2>2. CASE ToolGateNext
    BY <2>2, GateStep DEF ToolGateNext
  <2> QED
    BY <2>1, <2>2
<1> QED
  BY <1>1, <1>2, PTL DEF ToolGateSpec

-----------------------------------------------------------------------------
(* The continuation of a task.                                             *)

\* A snapshot is that of a pack.
ShotIsPacked == shot # NoShot => \E w \in packed : shot = SnapshotOf(w)

ContinuationInv ==
  world \in World /\ packed \subseteq World /\ ShotIsPacked /\ FastPathIsFresh

\* Without a signal the world agrees with the pack in all that FastPathIsFresh
\* names (checkContinuation).
LEMMA ValidIsFresh ==
  ASSUME ContinuationInv, checkContinuation = "VALID"
  PROVE  \E w \in packed :
           /\ w.task = world.task /\ w.files = world.files
           /\ w.ref = "loose" /\ world.ref = "loose" => w.commit = world.commit
<1>1. Signalled = {}
  BY DEF checkContinuation
<1>2. shot # NoShot
  BY <1>1 DEF Signalled
<1>3. PICK w \in packed : shot = SnapshotOf(w)
  BY <1>2 DEF ContinuationInv, ShotIsPacked
<1>4. /\ world.files = shot.files /\ world.task = shot.task
      /\ getGitRevision(world) = <<>> \/ shot.git = <<>> \/ getGitRevision(world) = shot.git
  BY <1>1, <1>2 DEF Signalled
<1>5. shot.git = getGitRevision(w) /\ shot.files = w.files /\ shot.task = w.task
  BY <1>3 DEF SnapshotOf
<1>6. ASSUME w.ref = "loose", world.ref = "loose" PROVE w.commit = world.commit
  <2>1. getGitRevision(w) = <<"at", w.commit>> /\ getGitRevision(world) = <<"at", world.commit>>
    BY <1>6 DEF getGitRevision
  <2> QED
    BY <1>4, <1>5, <2>1
<1> QED
  BY <1>4, <1>5, <1>6

LEMMA ContinuationNextInv ==
  ContinuationInv /\ [ContinuationNext]_continuationVars => ContinuationInv'
<1> SUFFICES ASSUME ContinuationInv, [ContinuationNext]_continuationVars
             PROVE  ContinuationInv'
  OBVIOUS
<1> USE ContinuationAssumption
<1>1. CASE Continue
  <2>1. /\ UNCHANGED <<world, shot, packed>>
        /\ answer'.status = checkContinuation /\ answer'.seen = world
    BY <1>1 DEF Continue
  <2>2. FastPathIsFresh'
    BY <2>1, ValidIsFresh DEF FastPathIsFresh
  <2> QED
    BY <2>1, <2>2 DEF ContinuationInv, ShotIsPacked
<1>2. CASE AnalyseMessage
  <2>1. /\ UNCHANGED world /\ packed' = packed \cup {world}
        /\ shot' \in {SnapshotOf(world), shot, NoShot}
        /\ answer'.status = "analysed"
    BY <1>2 DEF AnalyseMessage
  <2>2. ShotIsPacked'
    BY <2>1 DEF ContinuationInv, ShotIsPacked
  <2>3. FastPathIsFresh'
    BY <2>1 DEF FastPathIsFresh
  <2>4. world' \in World /\ packed' \subseteq World
    BY <2>1 DEF ContinuationInv
  <2> QED
    BY <2>2, <2>3, <2>4 DEF ContinuationInv
<1>3. CASE WorldMoves
  <2>1. UNCHANGED <<shot, packed, answer>>
    BY <1>3 DEF WorldMoves
  <2>2. world' \in World
    <3>0. world \in World
      BY DEF ContinuationInv
    <3>1. CASE CommitWork
      <4> DEFINE r == IF world.ref = "none" THEN "none" ELSE "loose"
      <4>1. world.commit + 1 \in 0 .. MaxWorld
        BY <3>0, <3>1 DEF CommitWork, World
      <4>2. world' = [commit |-> world.commit + 1, ref |-> r, files |-> world.files,
                      task |-> world.task]
        BY <3>0, <3>1 DEF CommitWork, World
      <4>3. r \in {"loose", "packed", "none"}
        OBVIOUS
      <4> QED
        BY <3>0, <4>1, <4>2, <4>3 DEF World
    <3>2. CASE PackRefs
      BY <3>0, <3>2 DEF PackRefs, World
    <3>3. CASE EditFile
      BY <3>0, <3>3 DEF EditFile, World
    <3>4. CASE TaskMoves
      BY <3>0, <3>4 DEF TaskMoves, World
    <3> QED
      BY <1>3, <3>1, <3>2, <3>3, <3>4 DEF WorldMoves
  <2> QED
    BY <2>1, <2>2 DEF ContinuationInv, ShotIsPacked, FastPathIsFresh
<1>4. CASE UNCHANGED continuationVars
  BY <1>4 DEF continuationVars, ContinuationInv, ShotIsPacked, FastPathIsFresh
<1> QED
  BY <1>1, <1>2, <1>3, <1>4 DEF ContinuationNext

\* The fast path is taken only where a pack was made of the same task and files
\* and, of a branch that was a file both times, of the same commit.
THEOREM AlwaysFastPathIsFresh == ContinuationSpec => []FastPathIsFresh
<1>1. ContinuationInit => ContinuationInv
  BY ContinuationAssumption
  DEF ContinuationInit, ContinuationInv, World, ShotIsPacked, FastPathIsFresh
<1>2. ContinuationInv => FastPathIsFresh
  BY DEF ContinuationInv
<1> QED
  BY <1>1, <1>2, ContinuationNextInv, PTL DEF ContinuationSpec
-----------------------------------------------------------------------------
(* Pages behind one script file.                                           *)

Position == [status: Outcome, page: Verifier \X Nat \cup {NoScript}, shared: BOOLEAN, seen: Nat]

\* The parts of the type invariant that the argument needs.
VerifyTyped ==
  /\ head \in Nat /\ cached \in Nat
  /\ script \in Verifier \X Nat \cup {NoScript} /\ trial \in [Verifier -> AtCheck]
  /\ \A v \in Verifier : results[v] \in Seq(Position)

\* Two pages under way at the same time know it.
SharedTogether ==
  \A u, v \in Verifier : u # v /\ OnPage(u) /\ OnPage(v) => trial[v].shared

\* A page alone has its script in the file until it is loaded, and loads it.
AloneOnItsPage ==
  \A v \in Verifier :
    /\ OnPage(v) => Check(v).type = "e2e"
    /\ trial[v].at = "running" => Check(v).type # "e2e"
    /\ trial[v].at = "loading" /\ ~trial[v].shared => script = <<v, Number(v)>>
    /\ trial[v].at = "open" /\ ~trial[v].shared => trial[v].page = <<v, Number(v)>>

VerifyInv ==
  VerifyTyped /\ results \in [Verifier -> Seq(Position)] /\ SharedTogether /\ AloneOnItsPage
  /\ PassedOnItsPage

\* A result that is no pass of another's page, added to those of a call, keeps
\* what was said of the results.
LEMMA ConcludeLemma ==
  ASSUME VerifyInv, NEW v \in Verifier, NEW status \in Outcome, Concluded(v, status),
         trial[v].at \in {"running", "open"},
         Check(v).type = "e2e" /\ status = "PASS" =>
           trial[v].page = <<v, Number(v)>> \/ trial[v].shared
  PROVE  /\ results' \in [Verifier -> Seq(Position)]
         /\ trial' \in [Verifier -> AtCheck]
         /\ PassedOnItsPage'
         /\ ~OnPage(v)' /\ trial'[v].at # "running"
         /\ \A w \in Verifier : w # v => trial'[w] = trial[w] /\ results'[w] = results[w]
<1> DEFINE outcome == [status |-> status, page |-> trial[v].page,
                       shared |-> trial[v].shared, seen |-> trial[v].seen]
           outcomes == Append(results[v], outcome)
<1>1. /\ trial \in [Verifier -> AtCheck] /\ results \in [Verifier -> Seq(Position)]
      /\ PassedOnItsPage
  BY DEF VerifyInv, VerifyTyped
<1>2. outcome \in Position
  BY <1>1 DEF Position, AtCheck
<1>3. /\ outcomes \in Seq(Position) /\ Len(outcomes) = Number(v) /\ Number(v) \in Nat
      /\ \A n \in 1 .. Len(results[v]) : outcomes[n] = results[v][n]
      /\ outcomes[Number(v)] = outcome
  BY <1>1, <1>2 DEF Number
<1>4. results' = [results EXCEPT ![v] = outcomes]
  BY DEF Concluded
<1>5. PICK s \in {"idle", "VERIFIED", "VERIFYING"} :
        trial' = [trial EXCEPT ![v] = [NotBegun EXCEPT !.at = s]]
  BY DEF Concluded
<1> HIDE DEF outcomes
<1>6. results' \in [Verifier -> Seq(Position)]
  BY <1>1, <1>3, <1>4
<1>7. [NotBegun EXCEPT !.at = s] \in AtCheck
  BY DEF NotBegun, AtCheck
<1>8. /\ trial' \in [Verifier -> AtCheck]
      /\ trial'[v].at = s
      /\ \A w \in Verifier : w # v => trial'[w] = trial[w] /\ results'[w] = results[w]
  BY <1>1, <1>4, <1>5, <1>7 DEF NotBegun
<1>9. PassedOnItsPage'
  <2> SUFFICES ASSUME NEW w \in Verifier, NEW n \in 1 .. Len(results'[w]),
                      ChecksOf[w][n].type = "e2e", results'[w][n].status = "PASS"
               PROVE  results'[w][n].page = <<w, n>> \/ results'[w][n].shared
    BY DEF PassedOnItsPage
  <2>1. CASE w # v
    BY <1>1, <1>8, <2>1 DEF PassedOnItsPage
  <2>2. CASE w = v /\ n # Number(v)
    <3>1. n \in 1 .. Len(results[v]) /\ results'[v] = outcomes
      BY <1>1, <1>3, <1>4, <2>2 DEF Number
    <3>2. results'[w][n] = results[v][n]
      BY <1>3, <2>2, <3>1
    <3> QED
      BY <1>1, <2>2, <3>1, <3>2 DEF PassedOnItsPage
  <2>3. CASE w = v /\ n = Number(v)
    <3>1. results'[w][n] = outcome
      BY <1>1, <1>3, <1>4, <2>3
    <3>2. ChecksOf[w][n] = Check(v)
      BY <2>3 DEF Check
    <3> QED
      BY <2>3, <3>1, <3>2
  <2> QED
    BY <2>1, <2>2, <2>3
<1> QED
  BY <1>6, <1>8, <1>9 DEF OnPage

LEMMA VerifyInitInv == VerifyInit => VerifyInv
<1> SUFFICES ASSUME VerifyInit PROVE VerifyInv
  OBVIOUS
<1>1. NotBegun \in AtCheck /\ NotBegun.at = "idle"
  BY DEF NotBegun, AtCheck
<1>2. \A v \in Verifier : trial[v] = NotBegun /\ results[v] = << >>
  BY DEF VerifyInit
<1> QED
  BY <1>1, <1>2 DEF VerifyInit, VerifyInv, VerifyTyped, SharedTogether, AloneOnItsPage,
     PassedOnItsPage, OnPage

LEMMA VerifyNextInv == VerifyInv /\ [VerifyNext]_verifyVars => VerifyInv'
<1> SUFFICES ASSUME VerifyInv, [VerifyNext]_verifyVars PROVE VerifyInv'
  OBVIOUS
<1>0. /\ head \in Nat /\ cached \in Nat
      /\ script \in Verifier \X Nat \cup {NoScript} /\ trial \in [Verifier -> AtCheck]
      /\ results \in [Verifier -> Seq(Position)]
      /\ SharedTogether /\ AloneOnItsPage /\ PassedOnItsPage
  BY DEF VerifyInv, VerifyTyped
<1>1. ASSUME NEW v \in Verifier, BeginCheck(v) PROVE VerifyInv'
  <2> DEFINE page == Check(v).type = "e2e"
             mine == [at |-> IF page THEN "loading" ELSE "running",
                      seen |-> captureRepositoryState, page |-> NoScript,
                      shared |-> page /\ \E u \in Verifier : OnPage(u)]
             others(w) == [trial[w] EXCEPT !.shared = @ \/ (OnPage(w) /\ page)]
  <2>1. /\ trial[v].at = "idle" /\ cached' = captureRepositoryState
        /\ script' = IF page THEN <<v, Number(v)>> ELSE script
        /\ UNCHANGED <<head, results>>
    BY <1>1 DEF BeginCheck, Written
  <2>2. trial' = [w \in Verifier |-> IF w = v THEN mine ELSE others(w)]
    BY <1>1 DEF BeginCheck
  <2>3. captureRepositoryState \in Nat
    BY <1>0 DEF captureRepositoryState
  <2>4. mine \in AtCheck
    BY <2>3 DEF AtCheck
  <2>5. \A w \in Verifier :
          /\ others(w) \in AtCheck /\ others(w).at = trial[w].at
          /\ others(w).page = trial[w].page
          /\ others(w).shared = (trial[w].shared \/ (OnPage(w) /\ page))
    BY <1>0 DEF AtCheck
  <2>6. /\ trial'[v] = mine /\ \A w \in Verifier : w # v => trial'[w] = others(w)
        /\ mine.at = IF page THEN "loading" ELSE "running"
        /\ mine.shared = (page /\ \E u \in Verifier : OnPage(u))
    BY <2>2
  <2> HIDE DEF mine, others
  <2>7. trial' \in [Verifier -> AtCheck]
    BY <2>2, <2>4, <2>5
  <2>8. Number(v) \in Nat /\ \A w \in Verifier : Number(w)' = Number(w) /\ Check(w)' = Check(w)
    BY <1>0, <2>1 DEF Number, Check
  <2>9. VerifyTyped' /\ results' \in [Verifier -> Seq(Position)]
    BY <1>0, <2>1, <2>3, <2>7, <2>8 DEF VerifyTyped
  <2>10. /\ OnPage(v)' <=> page
         /\ \A w \in Verifier : w # v => (OnPage(w)' <=> OnPage(w))
    BY <2>5, <2>6 DEF OnPage
  <2>11. SharedTogether'
    <3> SUFFICES ASSUME NEW u \in Verifier, NEW w \in Verifier, u # w, OnPage(u)', OnPage(w)'
                 PROVE  trial'[w].shared
      BY DEF SharedTogether
    <3>1. CASE w = v
      BY <2>6, <2>10, <3>1
    <3>2. CASE w # v /\ u = v
      BY <2>5, <2>6, <2>10, <3>2
    <3>3. CASE w # v /\ u # v
      BY <1>0, <2>5, <2>6, <2>10, <3>3 DEF SharedTogether
    <3> QED
      BY <3>1, <3>2, <3>3
  <2>12. AloneOnItsPage'
    <3> SUFFICES ASSUME NEW w \in Verifier
                 PROVE  /\ OnPage(w)' => Check(w).type = "e2e"
                        /\ trial'[w].at = "running" => Check(w).type # "e2e"
                        /\ trial'[w].at = "loading" /\ ~trial'[w].shared =>
                             script' = <<w, Number(w)>>
                        /\ trial'[w].at = "open" /\ ~trial'[w].shared =>
                             trial'[w].page = <<w, Number(w)>>
      BY <2>8 DEF AloneOnItsPage
    <3>1. CASE w = v
      BY <2>1, <2>6, <2>10, <3>1
    <3>2. CASE w # v
      <4>1. /\ trial'[w].at = trial[w].at /\ trial'[w].page = trial[w].page
            /\ trial'[w].shared = (trial[w].shared \/ (OnPage(w) /\ page))
        BY <2>5, <2>6, <3>2
      <4>2. trial'[w].at = "loading" /\ ~trial'[w].shared => script' = script
        BY <2>1, <4>1 DEF OnPage
      <4> QED
        BY <1>0, <2>10, <3>2, <4>1, <4>2 DEF AloneOnItsPage
    <3> QED
      BY <3>1, <3>2
  <2>13. PassedOnItsPage'
    BY <1>0, <2>1 DEF PassedOnItsPage
  <2> QED
    BY <2>9, <2>11, <2>12, <2>13 DEF VerifyInv
<1>2. ASSUME NEW v \in Verifier, LoadScript(v) PROVE VerifyInv'
  <2>1. /\ trial[v].at = "loading"
        /\ trial' = [trial EXCEPT ![v].at = "open", ![v].page = script]
        /\ UNCHANGED <<head, cached, script, results>>
    BY <1>2 DEF LoadScript
  <2>2. /\ trial' \in [Verifier -> AtCheck]
        /\ trial'[v].at = "open" /\ trial'[v].page = script
        /\ \A w \in Verifier : trial'[w].shared = trial[w].shared
        /\ \A w \in Verifier : w # v => trial'[w] = trial[w]
    BY <1>0, <2>1, ZenonT(60) DEF AtCheck
  <2>3. \A w \in Verifier : Number(w)' = Number(w) /\ Check(w)' = Check(w)
    BY <2>1 DEF Number, Check
  <2>4. \A w \in Verifier : OnPage(w)' <=> OnPage(w)
    BY <2>1, <2>2 DEF OnPage
  <2>5. SharedTogether'
    BY <1>0, <2>2, <2>4 DEF SharedTogether
  <2>6. AloneOnItsPage'
    <3> SUFFICES ASSUME NEW w \in Verifier
                 PROVE  /\ OnPage(w)' => Check(w).type = "e2e"
                        /\ trial'[w].at = "running" => Check(w).type # "e2e"
                        /\ trial'[w].at = "loading" /\ ~trial'[w].shared =>
                             script' = <<w, Number(w)>>
                        /\ trial'[w].at = "open" /\ ~trial'[w].shared =>
                             trial'[w].page = <<w, Number(w)>>
      BY <2>3 DEF AloneOnItsPage
    <3>1. CASE w = v
      BY <1>0, <2>1, <2>2, <2>4, <3>1 DEF AloneOnItsPage
    <3>2. CASE w # v
      BY <1>0, <2>1, <2>2, <2>4, <3>2 DEF AloneOnItsPage
    <3> QED
      BY <3>1, <3>2
  <2>7. VerifyTyped' /\ PassedOnItsPage'
    BY <1>0, <2>1, <2>2 DEF VerifyTyped, PassedOnItsPage
  <2> QED
    BY <1>0, <2>1, <2>5, <2>6, <2>7 DEF VerifyInv
<1>3. ASSUME NEW v \in Verifier, NEW status \in Outcome, Concluded(v, status),
             trial[v].at \in {"running", "open"},
             Check(v).type = "e2e" /\ status = "PASS" =>
               trial[v].page = <<v, Number(v)>> \/ trial[v].shared,
             script' = script \/ (script' = NoScript /\ trial[v].at = "open"),
             UNCHANGED <<head, cached>>
      PROVE  VerifyInv'
  <2>1. /\ results' \in [Verifier -> Seq(Position)]
        /\ trial' \in [Verifier -> AtCheck]
        /\ PassedOnItsPage'
        /\ ~OnPage(v)' /\ trial'[v].at # "running"
        /\ \A w \in Verifier : w # v => trial'[w] = trial[w] /\ results'[w] = results[w]
    BY <1>3, ConcludeLemma
  <2>2. \A w \in Verifier : w # v => Number(w)' = Number(w) /\ Check(w)' = Check(w)
    BY <2>1 DEF Number, Check
  <2>3. \A w \in Verifier : OnPage(w)' => w # v /\ OnPage(w)
    BY <2>1 DEF OnPage
  <2>4. SharedTogether'
    BY <1>0, <2>1, <2>3 DEF SharedTogether
  <2>5. AloneOnItsPage'
    <3> SUFFICES ASSUME NEW w \in Verifier
                 PROVE  /\ OnPage(w)' => Check(w)'.type = "e2e"
                        /\ trial'[w].at = "running" => Check(w)'.type # "e2e"
                        /\ trial'[w].at = "loading" /\ ~trial'[w].shared =>
                             script' = <<w, Number(w)'>>
                        /\ trial'[w].at = "open" /\ ~trial'[w].shared =>
                             trial'[w].page = <<w, Number(w)'>>
      BY DEF AloneOnItsPage
    <3>1. CASE w = v
      BY <2>1, <3>1 DEF OnPage
    <3>2. CASE w # v
      <4>1. trial[w].at = "loading" /\ ~trial[w].shared => script' = script
        BY <1>0, <1>3, <3>2 DEF SharedTogether, OnPage
      <4> QED
        BY <1>0, <2>1, <2>2, <2>3, <3>2, <4>1 DEF AloneOnItsPage
    <3> QED
      BY <3>1, <3>2
  <2>6. VerifyTyped'
    BY <1>0, <1>3, <2>1 DEF VerifyTyped
  <2> QED
    BY <2>1, <2>4, <2>5, <2>6 DEF VerifyInv
<1>4. ASSUME NEW v \in Verifier, CheckEnds(v) PROVE VerifyInv'
  <2>1. PICK status \in Outcome : Concluded(v, status)
    BY <1>4 DEF CheckEnds, Outcome
  <2>2. trial[v].at = "running" /\ UNCHANGED <<head, cached, script>>
    BY <1>4 DEF CheckEnds
  <2>3. Check(v).type # "e2e"
    BY <1>0, <2>2 DEF AloneOnItsPage
  <2> QED
    BY <1>3, <2>1, <2>2, <2>3
<1>5. ASSUME NEW v \in Verifier, PageEnds(v) PROVE VerifyInv'
  <2>1. PICK status \in Outcome : Concluded(v, status)
    BY <1>5 DEF PageEnds, Outcome
  <2>2. trial[v].at = "open" /\ script' = NoScript /\ UNCHANGED <<head, cached>>
    BY <1>5 DEF PageEnds
  <2>3. trial[v].page = <<v, Number(v)>> \/ trial[v].shared
    BY <1>0, <2>2 DEF AloneOnItsPage
  <2> QED
    BY <1>3, <2>1, <2>2, <2>3
<1>6. ASSUME NEW v \in Verifier, AskAgain(v) PROVE VerifyInv'
  <2>1. /\ trial' = [trial EXCEPT ![v] = NotBegun] /\ results' = [results EXCEPT ![v] = <<>>]
        /\ UNCHANGED <<head, cached, script>>
    BY <1>6 DEF AskAgain
  <2>2. NotBegun \in AtCheck /\ NotBegun.at = "idle"
    BY DEF NotBegun, AtCheck
  <2>3. /\ trial' \in [Verifier -> AtCheck] /\ results' \in [Verifier -> Seq(Position)]
        /\ trial'[v].at = "idle" /\ results'[v] = << >>
        /\ \A w \in Verifier : w # v => trial'[w] = trial[w] /\ results'[w] = results[w]
    BY <1>0, <2>1, <2>2
  <2>4. /\ \A w \in Verifier : w # v => Number(w)' = Number(w) /\ Check(w)' = Check(w)
        /\ \A w \in Verifier : OnPage(w)' => w # v /\ OnPage(w)
    BY <2>3 DEF Number, Check, OnPage
  <2>5. VerifyTyped' /\ SharedTogether'
    BY <1>0, <2>1, <2>3, <2>4 DEF VerifyTyped, SharedTogether
  <2>6. AloneOnItsPage'
    <3> SUFFICES ASSUME NEW w \in Verifier
                 PROVE  /\ OnPage(w)' => Check(w)'.type = "e2e"
                        /\ trial'[w].at = "running" => Check(w)'.type # "e2e"
                        /\ trial'[w].at = "loading" /\ ~trial'[w].shared =>
                             script' = <<w, Number(w)'>>
                        /\ trial'[w].at = "open" /\ ~trial'[w].shared =>
                             trial'[w].page = <<w, Number(w)'>>
      BY DEF AloneOnItsPage
    <3>1. CASE w = v
      BY <2>3, <3>1 DEF OnPage
    <3>2. CASE w # v
      BY <1>0, <2>1, <2>3, <2>4, <3>2 DEF AloneOnItsPage
    <3> QED
      BY <3>1, <3>2
  <2>7. PassedOnItsPage'
    <3> SUFFICES ASSUME NEW w \in Verifier, NEW n \in 1 .. Len(results'[w]),
                        ChecksOf[w][n].type = "e2e", results'[w][n].status = "PASS"
                 PROVE  results'[w][n].page = <<w, n>> \/ results'[w][n].shared
      BY DEF PassedOnItsPage
    <3>1. w # v
      BY <2>3
    <3> QED
      BY <1>0, <2>3, <3>1 DEF PassedOnItsPage
  <2> QED
    BY <2>3, <2>5, <2>6, <2>7 DEF VerifyInv
<1>7. CASE VerifierCrash
  <2>1. /\ trial' = [v \in Verifier |-> NotBegun] /\ results' = [v \in Verifier |-> <<>>]
        /\ cached' = 0 /\ UNCHANGED <<head, script>>
    BY <1>7 DEF VerifierCrash
  <2>2. NotBegun \in AtCheck /\ NotBegun.at = "idle"
    BY DEF NotBegun, AtCheck
  <2>3. \A v \in Verifier : trial'[v] = NotBegun /\ results'[v] = << >>
    BY <2>1
  <2>4. VerifyTyped' /\ results' \in [Verifier -> Seq(Position)]
    BY <1>0, <2>1, <2>2 DEF VerifyTyped
  <2> QED
    BY <2>2, <2>3, <2>4
    DEF VerifyInv, SharedTogether, AloneOnItsPage, PassedOnItsPage, OnPage
<1>8. ASSUME head' \in Nat, cached' \in Nat, UNCHANGED <<script, trial, results>>
      PROVE  VerifyInv'
  <2>1. VerifyTyped' /\ SharedTogether' /\ PassedOnItsPage'
    BY <1>0, <1>8 DEF VerifyTyped, SharedTogether, PassedOnItsPage, OnPage
  <2>2. AloneOnItsPage'
    BY <1>0, <1>8 DEF AloneOnItsPage, OnPage, Check, Number
  <2> QED
    BY <1>0, <1>8, <2>1, <2>2 DEF VerifyInv
<1>9. CASE Commit \/ CacheExpires \/ UNCHANGED verifyVars
  BY <1>0, <1>8, <1>9 DEF Commit, CacheExpires, verifyVars
<1> QED
  BY <1>1, <1>2, <1>4, <1>5, <1>6, <1>7, <1>9 DEF VerifyNext

\* A page passes on its own script unless another page was under way at the
\* same time, for any number of calls and checks (verification.js: executeCheck).
THEOREM AlwaysPassedOnItsPage == VerifySpec => []PassedOnItsPage
<1>1. VerifyInv => PassedOnItsPage
  BY DEF VerifyInv
<1> QED
  BY <1>1, VerifyInitInv, VerifyNextInv, PTL DEF VerifySpec

-----------------------------------------------------------------------------
(***************************************************************************)
(* The guard of the messages.  For any number of messages and any size of  *)
(* the table a message is handled again only after as many others as the   *)
(* table holds.                                                            *)
(*                                                                         *)
(* The table is always the end of what was handled, as long as the table   *)
(* is or shorter (Recent), and holds no message twice (Distinct).  A       *)
(* message that gets past it was therefore handled before all of that.     *)
(***************************************************************************)

\* The table is the end of what was handled.
Recent ==
  /\ Len(table) = IF Len(handled) <= TableLimit THEN Len(handled) ELSE TableLimit
  /\ \A i \in 1 .. Len(table) : table[i] = handled[Len(handled) - Len(table) + i]

\* No message is in the table twice.
Distinct == \A i, j \in 1 .. Len(table) : table[i] = table[j] => i = j

GuardInv == GuardTypeOK /\ Recent /\ Distinct /\ HandledOnceInAWhile

-----------------------------------------------------------------------------
\* A new entry at the end of the table, the oldest leaving if it is full
\* (markProcessed).
LEMMA MarkLemma ==
  ASSUME GuardTypeOK, NEW m \in MessageId, markProcessed(m)
  PROVE  LET k == Len(table)
         IN  \/ /\ k + 1 <= TableLimit
                /\ table' \in Seq(MessageId) /\ Len(table') = k + 1
                /\ \A i \in 1 .. k : table'[i] = table[i]
                /\ table'[k + 1] = m
             \/ /\ k = TableLimit
                /\ table' \in Seq(MessageId) /\ Len(table') = k
                /\ \A i \in 1 .. k : table'[i] = IF i = k THEN m ELSE table[i + 1]
<1> DEFINE k == Len(table)
           grown == Append(table, m)
<1>1. /\ table \in Seq(MessageId) /\ k \in Nat /\ k <= TableLimit
      /\ grown \in Seq(MessageId) /\ Len(grown) = k + 1
      /\ \A i \in 1 .. k : grown[i] = table[i]
      /\ grown[k + 1] = m
  BY DEF GuardTypeOK
<1>2. CASE k + 1 > TableLimit
  <2>1. table' = Tail(grown) /\ grown # << >>
    BY <1>1, <1>2 DEF markProcessed
  <2>2. /\ table' \in Seq(MessageId) /\ Len(table') = k
        /\ \A i \in 1 .. k : table'[i] = grown[i + 1]
    BY <1>1, <2>1, HeadTailProperties
  <2>3. k = TableLimit
    BY <1>1, <1>2, MessageGuardAssumption
  <2> HIDE DEF grown
  <2>4. \A i \in 1 .. k : table'[i] = IF i = k THEN m ELSE table[i + 1]
    BY <1>1, <2>2
  <2> QED
    BY <2>2, <2>3, <2>4
<1>3. CASE k + 1 <= TableLimit
  <2>1. table' = grown
    BY <1>1, <1>3, MessageGuardAssumption DEF markProcessed
  <2> QED
    BY <1>1, <1>3, <2>1
<1> QED
  BY <1>1, <1>2, <1>3, MessageGuardAssumption

\* As many places that hold different messages, as many messages.
LEMMA ManyOthers ==
  ASSUME GuardInv, NEW i \in 1 .. Len(handled), i <= Len(handled) - Len(table)
  PROVE  LET between == {handled[x] : x \in (i + 1) .. Len(handled)}
         IN  IsFiniteSet(between) /\ Cardinality(between) >= Len(table)
<1> DEFINE n == Len(handled)
           k == Len(table)
           between == {handled[x] : x \in (i + 1) .. n}
           all == [x \in (i + 1) .. n |-> handled[x]]
           kept == [y \in 1 .. k |-> table[y]]
<1>1. n \in Nat /\ k \in Nat /\ k <= n
  BY DEF GuardInv, GuardTypeOK
<1>2. IsFiniteSet((i + 1) .. n)
  BY <1>1, FS_Interval
<1>3. all \in Surjection((i + 1) .. n, between)
  BY DEF Surjection
<1>4. IsFiniteSet(between)
  BY <1>2, <1>3, FS_Surjection
<1>5. \A y \in 1 .. k : table[y] = handled[n - k + y] /\ n - k + y \in (i + 1) .. n
  BY <1>1 DEF GuardInv, Recent
<1>6. kept \in [1 .. k -> between]
  BY <1>5
<1>7. kept \in Injection(1 .. k, between)
  BY <1>6 DEF Injection, IsInjective, GuardInv, Distinct
<1>8. Cardinality(1 .. k) <= Cardinality(between)
  BY <1>4, <1>7, FS_Injection
<1>9. Cardinality(1 .. k) = k
  <2>1. 1 \in Int /\ k \in Int
    BY <1>1
  <2> HIDE DEF k
  <2>2. Cardinality(1 .. k) = IF 1 > k THEN 0 ELSE k - 1 + 1
    BY <2>1, FS_Interval
  <2> QED
    BY <1>1, <2>2
<1>10. Cardinality(between) \in Nat
  BY <1>4, FS_CardinalityType
<1> QED
  BY <1>1, <1>4, <1>8, <1>9, <1>10

\* Where nothing is delivered the properties of the table stay.
LEMMA Unhandled ==
  ASSUME GuardInv, table' = table, handled' = handled
  PROVE  Recent' /\ Distinct' /\ HandledOnceInAWhile'
<1>1. Recent'
  BY Zenon DEF GuardInv, Recent
<1>2. Distinct'
  BY Zenon DEF GuardInv, Distinct
<1>3. HandledOnceInAWhile'
  <2>1. \A i, j \in Nat :
          {handled'[x] : x \in (i + 1) .. (j - 1)} = {handled[x] : x \in (i + 1) .. (j - 1)}
    OBVIOUS
  <2>2. Len(handled) \in Nat
    BY DEF GuardInv, GuardTypeOK
  <2> QED
    BY <2>1, <2>2 DEF GuardInv, HandledOnceInAWhile
<1> QED
  BY <1>1, <1>2, <1>3

LEMMA GuardInitInv == GuardInit => GuardInv
<1> SUFFICES ASSUME GuardInit PROVE GuardInv
  OBVIOUS
<1>1. GuardTypeOK
  BY MessageGuardAssumption DEF GuardInit, GuardTypeOK
<1>2. Recent /\ Distinct /\ HandledOnceInAWhile
  BY MessageGuardAssumption DEF GuardInit, Recent, Distinct, HandledOnceInAWhile
<1> QED
  BY <1>1, <1>2 DEF GuardInv

LEMMA GuardNextInv == GuardInv /\ [GuardNext]_guardVars => GuardInv'
<1> SUFFICES ASSUME GuardInv, [GuardNext]_guardVars PROVE GuardInv'
  OBVIOUS
<1> USE MessageGuardAssumption
<1>0. GuardTypeOK /\ Recent /\ Distinct /\ HandledOnceInAWhile
  BY DEF GuardInv
<1>1. ASSUME NEW m \in MessageId, Deliver(m) PROVE GuardInv'
  <2> DEFINE n == Len(handled)
             k == Len(table)
  <2>1. /\ n \in Nat /\ k \in Nat /\ n < MaxHandled /\ k <= n
        /\ handled \in Seq(MessageId) /\ table \in Seq(MessageId)
        /\ handled' = Append(handled, m) /\ markProcessed(m)
    BY <1>0, <1>1 DEF GuardTypeOK, Recent, Deliver
  <2>2. /\ handled' \in Seq(MessageId) /\ Len(handled') = n + 1
        /\ \A i \in 1 .. n : handled'[i] = handled[i]
        /\ handled'[n + 1] = m
    BY <2>1
  <2>3. \A i \in 1 .. k : table[i] # m
    BY <1>1 DEF Deliver, isMessageAlreadyProcessed, Contains
  <2>4. \/ /\ k + 1 <= TableLimit
           /\ table' \in Seq(MessageId) /\ Len(table') = k + 1
           /\ \A i \in 1 .. k : table'[i] = table[i]
           /\ table'[k + 1] = m
        \/ /\ k = TableLimit
           /\ table' \in Seq(MessageId) /\ Len(table') = k
           /\ \A i \in 1 .. k : table'[i] = IF i = k THEN m ELSE table[i + 1]
    BY <1>0, <2>1, MarkLemma
  <2>5. GuardTypeOK'
    BY <1>0, <1>1, <2>1, <2>2, <2>4 DEF GuardTypeOK, Deliver
  <2>6. Recent'
    <3>1. CASE k + 1 <= TableLimit /\ Len(table') = k + 1
      <4>1. k = n
        <5>1. k = IF n <= TableLimit THEN n ELSE TableLimit
          BY <1>0 DEF Recent
        <5>2. n \in Nat /\ k \in Nat /\ k + 1 <= TableLimit /\ TableLimit \in Nat
          BY <2>1, <3>1
        <5> HIDE DEF n, k
        <5>3. CASE n <= TableLimit
          BY <5>1, <5>3
        <5>4. CASE ~(n <= TableLimit)
          BY <5>1, <5>2, <5>4
        <5> QED
          BY <5>3, <5>4
      <4>2. Len(table') = n + 1 /\ n + 1 <= TableLimit
        BY <3>1, <4>1
      <4>3. ASSUME NEW i \in 1 .. k PROVE table[i] = handled[i]
        <5>1. table[i] = handled[n - k + i]
          BY <1>0 DEF Recent
        <5>2. n - k + i = i
          BY <2>1, <4>1
        <5> QED
          BY <5>1, <5>2
      <4>4. \A i \in 1 .. (n + 1) : table'[i] = handled'[i]
        <5>1. /\ \A i \in 1 .. n : table'[i] = table[i]
              /\ table'[n + 1] = m
          BY <2>1, <2>4, <3>1, <4>1
        <5> QED
          BY <2>1, <2>2, <4>1, <4>3, <5>1
      <4>5. Len(handled') - Len(table') = 0 /\ Len(table') = n + 1 /\ Len(handled') = n + 1
        BY <2>1, <2>2, <4>2
      <4>6. \A i \in 1 .. Len(table') : table'[i] = handled'[Len(handled') - Len(table') + i]
        BY <4>4, <4>5
      <4> QED
        BY <4>2, <4>5, <4>6 DEF Recent
    <3>2. CASE k = TableLimit /\ Len(table') = k
      <4>1. \A i \in 1 .. k : table[i] = handled[n - k + i]
        BY <1>0 DEF Recent
      <4>2. \A i \in 1 .. k : table'[i] = IF i = k THEN m ELSE table[i + 1]
        BY <2>1, <2>4, <3>2
      <4>3. ASSUME NEW i \in 1 .. k
            PROVE  table'[i] = handled'[n + 1 - k + i]
        <5>1. CASE i = k
          BY <2>1, <2>2, <4>2, <5>1
        <5>2. CASE i # k
          <6>1. i + 1 \in 1 .. k /\ n - k + (i + 1) \in 1 .. n
            BY <2>1, <5>2
          <6>2. table'[i] = handled[n - k + (i + 1)]
            BY <4>1, <4>2, <5>2, <6>1
          <6>3. n - k + (i + 1) = n + 1 - k + i
            BY <2>1
          <6> QED
            BY <2>2, <6>1, <6>2, <6>3
        <5> QED
          BY <5>1, <5>2
      <4> QED
        <5>1. Len(handled') = n + 1 /\ Len(table') = k /\ ~ (n + 1 <= TableLimit)
          BY <2>1, <2>2, <3>2
        <5>2. \A i \in 1 .. Len(table') : table'[i] = handled'[Len(handled') - Len(table') + i]
          BY <4>3, <5>1
        <5>3. Len(table') = IF Len(handled') <= TableLimit THEN Len(handled') ELSE TableLimit
          BY <3>2, <5>1
        <5> QED
          BY <5>2, <5>3, Zenon DEF Recent
    <3> QED
      BY <2>4, <3>1, <3>2
  <2>7. Distinct'
    <3>1. \A i, j \in 1 .. k : table[i] = table[j] => i = j
      BY <1>0 DEF Distinct
    <3>2. CASE k + 1 <= TableLimit /\ Len(table') = k + 1
      BY <2>1, <2>3, <2>4, <3>1, <3>2, SMTT(30) DEF Distinct
    <3>3. CASE k = TableLimit /\ Len(table') = k
      <4>1. \A i \in 1 .. k : table'[i] = IF i = k THEN m ELSE table[i + 1]
        BY <2>1, <2>4, <3>3
      <4>2. ASSUME NEW i \in 1 .. k, NEW j \in 1 .. k, table'[i] = table'[j], i # j
            PROVE  FALSE
        <5>1. CASE i # k /\ j # k
          <6>1. i + 1 \in 1 .. k /\ j + 1 \in 1 .. k /\ table[i + 1] = table[j + 1]
            BY <2>1, <4>1, <4>2, <5>1
          <6> QED
            BY <2>1, <3>1, <4>2, <6>1
        <5>2. CASE i = k /\ j # k
          <6>1. j + 1 \in 1 .. k /\ table[j + 1] = m
            BY <2>1, <4>1, <4>2, <5>2
          <6> QED
            BY <2>3, <6>1
        <5>3. CASE i # k /\ j = k
          <6>1. i + 1 \in 1 .. k /\ table[i + 1] = m
            BY <2>1, <4>1, <4>2, <5>3
          <6> QED
            BY <2>3, <6>1
        <5> QED
          BY <4>2, <5>1, <5>2, <5>3
      <4> QED
        BY <3>3, <4>2 DEF Distinct
    <3> QED
      BY <2>4, <3>2, <3>3
  <2>8. HandledOnceInAWhile'
    <3> SUFFICES ASSUME NEW i \in 1 .. (n + 1), NEW j \in 1 .. (n + 1), i < j,
                        handled'[i] = handled'[j]
                 PROVE  Cardinality({handled'[x] : x \in (i + 1) .. (j - 1)}) >= TableLimit
      BY <2>2 DEF HandledOnceInAWhile
    <3>1. {handled'[x] : x \in (i + 1) .. (j - 1)} = {handled[x] : x \in (i + 1) .. (j - 1)}
      BY <2>1, <2>2
    <3>2. CASE j # n + 1
      <4>0. i \in 1 .. n /\ j \in 1 .. n
        <5>1. n \in Nat
          BY <2>1
        <5> HIDE DEF n
        <5> QED
          BY <3>2, <5>1
      <4>1. i \in 1 .. n /\ j \in 1 .. n /\ handled[i] = handled[j]
        BY <2>2, <4>0
      <4> QED
        BY <1>0, <3>1, <4>1 DEF HandledOnceInAWhile
    <3>3. CASE j = n + 1
      <4>1. i \in 1 .. n /\ handled[i] = m
        BY <2>1, <2>2, <3>3
      <4>2. i <= n - k
        <5>1. SUFFICES ASSUME i > n - k PROVE FALSE
          BY <2>1
        <5>2. i - (n - k) \in 1 .. k /\ n - k + (i - (n - k)) = i
          BY <2>1, <4>1, <5>1
        <5>3. table[i - (n - k)] = handled[i]
          BY <1>0, <5>2 DEF Recent
        <5> QED
          BY <2>3, <4>1, <5>2, <5>3
      <4>3. k = TableLimit
        BY <1>0, <2>1, <4>1, <4>2 DEF Recent
      <4>4. j - 1 = n
        BY <2>1, <3>3
      <4>5. Cardinality({handled[x] : x \in (i + 1) .. n}) >= k
        BY <4>1, <4>2, ManyOthers
      <4> QED
        BY <3>1, <4>3, <4>4, <4>5
    <3> QED
      BY <3>2, <3>3
  <2> QED
    BY <2>5, <2>6, <2>7, <2>8 DEF GuardInv
<1>2. ASSUME NEW m \in MessageId, Handled(m) PROVE GuardInv'
  <2>1. UNCHANGED <<table, handled>>
    BY <1>2 DEF Handled
  <2>2. GuardTypeOK'
    BY <1>0, <1>2 DEF Handled, GuardTypeOK
  <2>3. Recent' /\ Distinct' /\ HandledOnceInAWhile'
    BY <2>1, Unhandled
  <2> QED
    BY <2>2, <2>3 DEF GuardInv
<1>3. CASE UNCHANGED guardVars
  <2>1. GuardTypeOK'
    BY <1>0, <1>3 DEF guardVars, GuardTypeOK
  <2>2. Recent' /\ Distinct' /\ HandledOnceInAWhile'
    BY <1>3, Unhandled DEF guardVars
  <2> QED
    BY <2>1, <2>2 DEF GuardInv
<1> QED
  BY <1>1, <1>2, <1>3 DEF GuardNext

-----------------------------------------------------------------------------
LEMMA AlwaysGuardInv == GuardSpec => []GuardInv
  BY GuardInitInv, GuardNextInv, PTL DEF GuardSpec

\* However deliveries and their handling interleave, a message is handled again
\* only after as many others as the table holds (isMessageAlreadyProcessed and
\* markMessageProcessed, with no await in between).
THEOREM AlwaysHandledOnceInAWhile == GuardSpec => []HandledOnceInAWhile
<1>1. GuardInv => HandledOnceInAWhile
  BY DEF GuardInv
<1> QED
  BY <1>1, AlwaysGuardInv, PTL

-----------------------------------------------------------------------------
(* Task runs and their record. *)

\* Numbers in use do not exceed the count of the files.
WithinCount == \A r \in Present \cap (1 .. MaxRuns) : r <= Cardinality(Present)

\* What a function under way still has to write agrees with the files.
Honest ==
  job # AtRest =>
    /\ job.do = "enter" => record # Lost /\ runFile[job.run] # Absent
    /\ job.do = "migrate" =>
         /\ record # Lost /\ job.todo \cap Readable = {}
         /\ \A e \in Legacy : e \in job.todo \/ runFile[e] # Absent \/ e \notin record.executions

RunsInv == RunsTypeOK /\ RecordFitsRuns /\ WithinCount /\ Honest

-----------------------------------------------------------------------------
\* There are finitely many files.
LEMMA PresentFinite == IsFiniteSet(Present) /\ Cardinality(Present) \in Nat
<1>1. IsFiniteSet(1 .. MaxRuns)
  BY FS_Interval, TaskRunsAssumption
<1>2. IsFiniteSet(RunId)
  BY <1>1, FS_Union, TaskRunsAssumption DEF RunId
<1>3. Present \in SUBSET RunId
  BY DEF Present
<1>4. IsFiniteSet(Present)
  BY <1>2, <1>3, FS_Subset
<1> QED
  BY <1>4, FS_CardinalityType

\* The number of the next run belongs to none (getNextRunIndex).
LEMMA NextIsFree ==
  ASSUME WithinCount, getNextRunIndex \in 1 .. MaxRuns
  PROVE  getNextRunIndex \notin Present
  BY PresentFinite DEF WithinCount, getNextRunIndex

\* A file more, under the next number or that of an execution, or a file
\* written anew keeps the numbers within the count.
LEMMA WithinCountStep ==
  ASSUME WithinCount, NEW i \in RunId,
         Present' = Present \cup {i},
         i \in Legacy \/ i \in Present \/ i = getNextRunIndex
  PROVE  WithinCount'
<1>1. IsFiniteSet(Present) /\ Cardinality(Present) \in Nat
  BY PresentFinite
<1>2. Cardinality(Present') = IF i \in Present THEN Cardinality(Present)
                              ELSE Cardinality(Present) + 1
  BY <1>1, FS_AddElement
<1>3. ASSUME NEW r \in Present' \cap (1 .. MaxRuns)
      PROVE  r <= Cardinality(Present')
  <2>1. CASE r \in Present
    BY <1>1, <1>2, <2>1 DEF WithinCount
  <2>2. CASE r \notin Present
    <3>1. r = i /\ r \notin Legacy
      BY <2>2, TaskRunsAssumption
    <3> QED
      BY <1>1, <1>2, <2>2, <3>1 DEF getNextRunIndex
  <2> QED
    BY <2>1, <2>2
<1> QED
  BY <1>3 DEF WithinCount

\* A write of a run, whole or torn, leaves every other file alone, and there is
\* a file afterwards.
LEMMA WriteLemma ==
  ASSUME RunsTypeOK, NEW i \in RunId, NEW c \in Run \cup {Torn}, Write(i, c)
  PROVE  /\ runFile' \in [RunId -> Run \cup {Absent, Torn}]
         /\ Present' = Present \cup {i}
         /\ runFile'[i] = c
         /\ \A r \in RunId : r # i => runFile'[r] = runFile[r]
         /\ \A r \in RunId : runFile[r] # Absent => runFile'[r] # Absent
  BY FileAssumption DEF RunsTypeOK, Write, Present

\* A readable file holds a run.
LEMMA ReadableRun ==
  ASSUME RunsTypeOK, NEW r \in Readable
  PROVE  r \in RunId /\ r \in Present /\ runFile[r] \in Run
  BY DEF RunsTypeOK, Readable, Present

-----------------------------------------------------------------------------
\* A write at rest, or one that ends what was under way, keeps the invariant if
\* the function it begins is honest.
LEMMA WriteStep ==
  ASSUME RunsInv, NEW i \in RunId, NEW c \in Run \cup {Torn}, Write(i, c),
         i \in Legacy \/ i \in Present \/ i = getNextRunIndex,
         UNCHANGED record, job' \in Job, Honest'
  PROVE  RunsInv'
<1>1. RunsTypeOK'
  BY WriteLemma DEF RunsInv, RunsTypeOK
<1>2. RecordFitsRuns'
  BY WriteLemma, TaskRunsAssumption DEF RunsInv, RunsTypeOK, RecordFitsRuns, RunId
<1>3. WithinCount'
  BY WriteLemma, WithinCountStep DEF RunsInv
<1> QED
  BY <1>1, <1>2, <1>3 DEF RunsInv

LEMMA RunsInitInv == RunsInit => RunsInv
<1> SUFFICES ASSUME RunsInit PROVE RunsInv
  OBVIOUS
<1> USE TaskRunsAssumption DEF RunsInit
<1>1. RunsTypeOK
  BY DEF RunsTypeOK, Job
<1>2. RecordFitsRuns
  BY DEF RecordFitsRuns
<1>3. Present = {}
  BY DEF Present
<1>4. WithinCount /\ Honest
  BY <1>3 DEF WithinCount, Honest
<1> QED
  BY <1>1, <1>2, <1>4 DEF RunsInv

LEMMA RunsNextInv == RunsInv /\ [RunsNext]_runsVars => RunsInv'
<1> SUFFICES ASSUME RunsInv, [RunsNext]_runsVars PROVE RunsInv'
  OBVIOUS
<1> USE TaskRunsAssumption, FileAssumption
<1>0. RunsTypeOK /\ RecordFitsRuns /\ WithinCount /\ Honest
  BY DEF RunsInv
<1>1. CASE StartRun
  <2> DEFINE i == getNextRunIndex
             c == [status |-> "active", entries |-> 0]
  <2>1. i \in RunId /\ c \in Run /\ Write(i, c)
    BY <1>1 DEF StartRun, RunId, Run, RunStatus
  <2>2. UNCHANGED record /\ job' = [do |-> "enter", run |-> i] /\ record # Lost
    BY <1>1 DEF StartRun
  <2>3. job' \in Job
    BY <2>1, <2>2 DEF Job
  <2>4. Honest'
    BY <1>0, <2>1, <2>2, WriteLemma DEF Honest
  <2> QED
    BY <2>1, <2>2, <2>3, <2>4, WriteStep
<1>2. CASE EnterRun
  <2>1. /\ record' = [record EXCEPT !.current = job.run]
        /\ job' = AtRest /\ UNCHANGED runFile /\ job # AtRest /\ job.do = "enter"
    BY <1>2 DEF EnterRun
  <2>2. job.run \in RunId /\ runFile[job.run] # Absent /\ record # Lost
    BY <1>0, <2>1 DEF RunsTypeOK, Job, Honest
  <2>3. /\ record \in [current: RunId \cup {NoRun}, executions: SUBSET Legacy]
    BY <1>0, <2>2 DEF RunsTypeOK
  <2>4. RunsTypeOK' /\ RecordFitsRuns'
    BY <1>0, <2>1, <2>2, <2>3 DEF RunsTypeOK, RecordFitsRuns, Job
  <2>5. WithinCount' /\ Honest'
    BY <1>0, <2>1 DEF WithinCount, Honest, Present
  <2> QED
    BY <2>4, <2>5 DEF RunsInv
<1>3. CASE LeaveRun
  <2>1. /\ record' = IF record # Lost /\ record.current = job.run
                     THEN [record EXCEPT !.current = NoRun] ELSE record
        /\ job' = AtRest /\ UNCHANGED runFile
    BY <1>3 DEF LeaveRun
  <2>2. RunsTypeOK' /\ RecordFitsRuns'
    BY <1>0, <2>1 DEF RunsTypeOK, RecordFitsRuns, Job
  <2>3. WithinCount' /\ Honest'
    BY <1>0, <2>1 DEF WithinCount, Honest, Present
  <2> QED
    BY <2>2, <2>3 DEF RunsInv
<1>4. ASSUME NEW r \in RunId, CloseRun(r) PROVE RunsInv'
  <2>1. PICK s \in RunStatus : Write(r, [runFile[r] EXCEPT !.status = s])
    BY <1>4 DEF CloseRun
  <2>2. r \in Present /\ [runFile[r] EXCEPT !.status = s] \in Run
    BY <1>0, <1>4, ReadableRun DEF CloseRun, Run
  <2>3. UNCHANGED record /\ job' = [do |-> "leave", run |-> r] /\ job' \in Job
    BY <1>4 DEF CloseRun, Job
  <2>4. Honest'
    BY <2>3 DEF Honest
  <2> QED
    BY <2>1, <2>2, <2>3, <2>4, WriteStep
<1>5. ASSUME NEW r \in RunId, AddEntry(r) PROVE RunsInv'
  <2>1. /\ Write(r, [runFile[r] EXCEPT !.entries = @ + 1])
        /\ UNCHANGED <<record, job>> /\ job = AtRest
    BY <1>5 DEF AddEntry
  <2>2. r \in Present /\ [runFile[r] EXCEPT !.entries = @ + 1] \in Run
    BY <1>0, <1>5, ReadableRun DEF AddEntry, Run
  <2>3. job' \in Job /\ Honest'
    BY <2>1 DEF Honest, Job
  <2> QED
    BY <2>1, <2>2, <2>3, WriteStep
<1>6. ASSUME NEW r \in RunId, UpdateRun(r) PROVE RunsInv'
  <2>1. PICK s \in RunStatus : Write(r, [runFile[r] EXCEPT !.status = s])
    BY <1>6 DEF UpdateRun
  <2>2. r \in Present /\ [runFile[r] EXCEPT !.status = s] \in Run
    BY <1>0, <1>6, ReadableRun DEF UpdateRun, Run
  <2>3. UNCHANGED <<record, job>> /\ job' \in Job /\ Honest'
    BY <1>6 DEF UpdateRun, Honest, Job
  <2> QED
    BY <2>1, <2>2, <2>3, WriteStep
<1>7. CASE BeginMigration
  <2>1. /\ job' = [do |-> "migrate", todo |-> record.executions \ Readable]
        /\ UNCHANGED <<runFile, record>> /\ record # Lost
    BY <1>7 DEF BeginMigration
  <2>2. record.executions \in SUBSET Legacy
    BY <1>0, <2>1 DEF RunsTypeOK
  <2>3. RunsTypeOK'
    BY <1>0, <2>1, <2>2 DEF RunsTypeOK, Job
  <2>4. RecordFitsRuns' /\ WithinCount'
    BY <1>0, <2>1 DEF RecordFitsRuns, WithinCount, Present
  <2>5. Honest'
    BY <1>0, <2>1, <2>2 DEF Honest, Readable
  <2> QED
    BY <2>3, <2>4, <2>5 DEF RunsInv
<1>8. CASE MigrateExecution
  <2> DEFINE c == [status |-> "closed", entries |-> 1]
  <2>1. PICK e \in job.todo :
          /\ Write(e, c) /\ job' = [job EXCEPT !.todo = @ \ {e}]
    BY <1>8 DEF MigrateExecution
  <2>2. UNCHANGED record /\ job # AtRest /\ job.do = "migrate"
    BY <1>8 DEF MigrateExecution
  <2>3. job \in [do: {"migrate"}, todo: SUBSET Legacy]
    BY <1>0, <2>2 DEF RunsTypeOK, Job
  <2>4. e \in Legacy /\ e \in RunId /\ c \in Run
    BY <2>1, <2>3 DEF RunId, Run, RunStatus
  <2>5. job' \in Job /\ job'.do = "migrate" /\ job'.todo = job.todo \ {e}
    BY <2>1, <2>3 DEF Job
  <2>6. /\ runFile'[e] # Absent
        /\ \A r \in RunId : r # e => runFile'[r] = runFile[r]
        /\ \A r \in RunId : runFile[r] # Absent => runFile'[r] # Absent
    BY <1>0, <2>1, <2>4, WriteLemma
  <2>7. job'.todo \cap Readable' = {}
    BY <1>0, <2>2, <2>3, <2>5, <2>6 DEF Honest, Readable
  <2>8. Honest'
    BY <1>0, <2>2, <2>3, <2>5, <2>6, <2>7 DEF Honest, RunId
  <2> QED
    BY <2>1, <2>2, <2>4, <2>5, <2>8, WriteStep
<1>9. CASE FinishMigration
  <2>1. /\ job # AtRest /\ job.do = "migrate" /\ job.todo = {}
        /\ record' = [record EXCEPT !.executions = {}]
        /\ job' = AtRest /\ UNCHANGED runFile
    BY <1>9 DEF FinishMigration
  <2>2. record # Lost /\ \A e \in Legacy : runFile[e] # Absent \/ e \notin record.executions
    BY <1>0, <2>1 DEF Honest
  <2>3. record \in [current: RunId \cup {NoRun}, executions: SUBSET Legacy]
    BY <1>0, <2>2 DEF RunsTypeOK
  <2>4. RunsTypeOK' /\ RecordFitsRuns'
    BY <1>0, <2>1, <2>2, <2>3 DEF RunsTypeOK, RecordFitsRuns, Job
  <2>5. WithinCount' /\ Honest'
    BY <1>0, <2>1 DEF WithinCount, Honest, Present
  <2> QED
    BY <2>4, <2>5 DEF RunsInv
<1>10. CASE RunsCrash
  BY <1>0, <1>10 DEF RunsCrash, RunsInv, RunsTypeOK, Job, RecordFitsRuns, WithinCount, Present,
                     Honest
<1>11. CASE CrashTearsRun
  <2>1. PICK r \in BeingWritten : Write(r, Torn)
    BY <1>11 DEF CrashTearsRun
  <2>2. UNCHANGED record /\ job' = AtRest /\ job' \in Job /\ Honest'
    BY <1>11 DEF CrashTearsRun, Honest, Job
  <2>3. r \in RunId /\ (r \in Legacy \/ r \in Present \/ r = getNextRunIndex)
    <3>1. CASE job = AtRest
      BY <1>0, <3>1, ReadableRun DEF BeingWritten, RunId
    <3>2. CASE job # AtRest
      BY <1>0, <3>2 DEF BeingWritten, RunsTypeOK, Job, RunId
    <3> QED
      BY <3>1, <3>2
  <2> QED
    BY <2>1, <2>2, <2>3, WriteStep
<1>12. CASE CrashTearsRecord
  BY <1>0, <1>12 DEF CrashTearsRecord, RunsInv, RunsTypeOK, Job, RecordFitsRuns, WithinCount,
                     Present, Honest
<1>13. CASE UNCHANGED runsVars
  BY <1>0, <1>13 DEF runsVars, RunsInv, RunsTypeOK, RecordFitsRuns, WithinCount, Present, Honest,
                     Readable
<1> QED
  BY <1>1, <1>2, <1>3, <1>4, <1>5, <1>6, <1>7, <1>8, <1>9, <1>10, <1>11, <1>12, <1>13
  DEF RunsNext

-----------------------------------------------------------------------------
LEMMA AlwaysRunsInv == RunsSpec => []RunsInv
  BY RunsInitInv, RunsNextInv, PTL DEF RunsSpec

\* Files, record and the function under way keep their types.
THEOREM AlwaysRunsTypeOK == RunsSpec => []RunsTypeOK
<1>1. RunsInv => RunsTypeOK
  BY DEF RunsInv
<1> QED
  BY <1>1, AlwaysRunsInv, PTL

\* Wherever a crash falls, the record names a run that was written and every
\* execution is in the record or in a file (startRun, migrateLegacyExecutions).
THEOREM AlwaysRecordFitsRuns == RunsSpec => []RecordFitsRuns
<1>1. RunsInv => RecordFitsRuns
  BY DEF RunsInv
<1> QED
  BY <1>1, AlwaysRunsInv, PTL

\* One step takes nothing from a run that can be read before and after it.
LEMMA EntriesStep ==
  ASSUME RunsInv, [RunsNext]_runsVars, NEW r \in Readable, r \in Readable'
  PROVE  runFile'[r].entries >= runFile[r].entries
<1> USE TaskRunsAssumption, FileAssumption
<1>0. /\ RunsTypeOK /\ WithinCount /\ Honest
      /\ r \in RunId /\ r \in Present /\ runFile[r] \in Run
  BY ReadableRun DEF RunsInv
<1>1. runFile[r].entries \in Nat
  BY <1>0 DEF Run
<1>2. CASE runFile'[r] = runFile[r]
  BY <1>1, <1>2
<1>3. CASE StartRun
  <2>1. r # getNextRunIndex
    BY <1>0, <1>3, NextIsFree DEF StartRun
  <2>2. runFile'[r] = runFile[r]
    BY <1>0, <1>3, <2>1 DEF StartRun, Write, RunsTypeOK
  <2> QED
    BY <1>2, <2>2
<1>4. ASSUME NEW q \in RunId, CloseRun(q) \/ UpdateRun(q)
      PROVE  runFile'[r].entries = runFile[r].entries
  BY <1>0, <1>4 DEF CloseRun, UpdateRun, Write, RunsTypeOK, Run
<1>5. ASSUME NEW q \in RunId, AddEntry(q)
      PROVE  runFile'[r].entries >= runFile[r].entries
  BY <1>0, <1>5 DEF AddEntry, Write, RunsTypeOK, Run
<1>6. CASE MigrateExecution
  <2>1. PICK e \in job.todo : Write(e, [status |-> "closed", entries |-> 1])
    BY <1>6 DEF MigrateExecution
  <2>2. e # r
    BY <1>0, <1>6 DEF MigrateExecution, Honest
  <2>3. runFile'[r] = runFile[r]
    BY <1>0, <2>1, <2>2 DEF Write, RunsTypeOK
  <2> QED
    BY <1>2, <2>3
<1>7. CASE CrashTearsRun
  <2>1. PICK q \in BeingWritten : Write(q, Torn)
    BY <1>7 DEF CrashTearsRun
  <2>2. q # r
    BY <1>0, <2>1 DEF Write, RunsTypeOK, Readable
  <2>3. runFile'[r] = runFile[r]
    BY <1>0, <2>1, <2>2 DEF Write, RunsTypeOK
  <2> QED
    BY <1>2, <2>3
<1>8. CASE \/ EnterRun \/ LeaveRun \/ BeginMigration \/ FinishMigration
           \/ RunsCrash \/ CrashTearsRecord \/ UNCHANGED runsVars
  BY <1>2, <1>8 DEF EnterRun, LeaveRun, BeginMigration, FinishMigration, RunsCrash,
                    CrashTearsRecord, runsVars
<1> QED
  BY <1>1, <1>3, <1>4, <1>5, <1>6, <1>7, <1>8 DEF RunsNext

\* What was added to a run stays while its file can be read: no later run takes
\* its number and no second migration overwrites it.
THEOREM AlwaysEntriesStay == RunsSpec => EntriesStay
<1>1. RunsInv /\ [RunsNext]_runsVars =>
        [\A r \in RunId : r \in Readable /\ r \in Readable' =>
           runFile'[r].entries >= runFile[r].entries]_runsVars
  BY EntriesStep
<1> QED
  BY <1>1, AlwaysRunsInv, PTL DEF RunsSpec, EntriesStay

-----------------------------------------------------------------------------
(* All of them: each component keeps its own invariant and leaves the      *)
(* others where they are.                                                  *)

LEMMA GateTyped == ToolGateTypeOK /\ [ToolGateNext]_gateVars => ToolGateTypeOK'
<1> SUFFICES ASSUME ToolGateTypeOK, [ToolGateNext]_gateVars PROVE ToolGateTypeOK'
  OBVIOUS
<1>1. CASE UNCHANGED gateVars
  BY <1>1 DEF gateVars, ToolGateTypeOK
<1>2. ASSUME NEW c \in ToolRequest, ToolExecuteBefore(c) PROVE ToolGateTypeOK'
  <2>1. gateCall' = c /\ gateRecord' = gateRecord /\ gateSession' = gateSession
    BY <1>2 DEF ToolExecuteBefore
  <2>2. Noted(c) \in BOOLEAN
    BY DEF Noted, StrategyRefuses, evaluateAction
  <2>3. \E r, n, b \in BOOLEAN : gateVerdict' = [runs |-> r, noted |-> n, bound |-> b]
    BY <1>2, <2>2
    DEF ToolExecuteBefore, PolicyBlock, SoftGovernanceBlock, NothingAsked, EnforcedBlock, Bridge
  <2> QED
    BY <2>1, <2>3 DEF ToolGateTypeOK
<1> QED
  BY <1>1, <1>2 DEF ToolGateNext

\* The revisions a verification sees are those there have been.
RevisionsSeen == head \in 1 .. MaxCommits /\ cached \in 0 .. MaxCommits

LEMMA RevisionsStart == VerifyInit => RevisionsSeen
BY VerificationAssumption DEF VerifyInit, RevisionsSeen

LEMMA RevisionsKeep == RevisionsSeen /\ [VerifyNext]_verifyVars => RevisionsSeen'
<1> SUFFICES ASSUME RevisionsSeen, [VerifyNext]_verifyVars PROVE RevisionsSeen'
  OBVIOUS
<1> USE VerificationAssumption DEF RevisionsSeen
<1>1. ASSUME NEW v \in Verifier, BeginCheck(v) PROVE RevisionsSeen'
  BY <1>1 DEF BeginCheck, captureRepositoryState
<1>2. ASSUME NEW v \in Verifier, LoadScript(v) \/ CheckEnds(v) \/ PageEnds(v) \/ AskAgain(v)
      PROVE  RevisionsSeen'
  BY <1>2 DEF LoadScript, CheckEnds, PageEnds, AskAgain
<1>3. CASE Commit
  BY <1>3 DEF Commit
<1>4. CASE CacheExpires \/ VerifierCrash
  BY <1>4 DEF CacheExpires, VerifierCrash
<1>5. CASE UNCHANGED verifyVars
  BY <1>5 DEF verifyVars
<1> QED
  BY <1>1, <1>2, <1>3, <1>4, <1>5 DEF VerifyNext

\* An answer is one there is, about a world there can be.
AnswerTyped == world \in World /\ answer \in Answer

LEMMA AnswerStarts == ContinuationInit => AnswerTyped /\ ContinuationInv
BY ContinuationAssumption
DEF ContinuationInit, ContinuationInv, World, ShotIsPacked, FastPathIsFresh, AnswerTyped, Answer

LEMMA AnswerKeeps ==
  ContinuationInv /\ AnswerTyped /\ [ContinuationNext]_continuationVars => AnswerTyped'
<1> SUFFICES ASSUME ContinuationInv, AnswerTyped, [ContinuationNext]_continuationVars
             PROVE  AnswerTyped'
  OBVIOUS
<1>1. world' \in World
  BY ContinuationNextInv DEF ContinuationInv
<1>2. CASE Continue
  <2>1. checkContinuation \in {"VALID", "INVALID", "STALE"}
    BY DEF checkContinuation
  <2> QED
    BY <1>1, <1>2, <2>1 DEF Continue, AnswerTyped, Answer
<1>3. CASE AnalyseMessage
  BY <1>1, <1>3 DEF AnalyseMessage, AnswerTyped, Answer
<1>4. CASE WorldMoves
  BY <1>1, <1>4 DEF WorldMoves, AnswerTyped
<1>5. CASE UNCHANGED continuationVars
  BY <1>1, <1>5 DEF continuationVars, AnswerTyped
<1> QED
  BY <1>2, <1>3, <1>4, <1>5 DEF ContinuationNext

ComponentsInv ==
  /\ focus = "runs" => RunsInv
  /\ focus = "breaker" => BreakerInv
  /\ focus = "limiter" => LimiterInv
  /\ focus = "guard" => GuardInv
  /\ focus = "sessions" => SessionsInv
  /\ focus = "items" => ContextTypeOK
  /\ focus = "graph" => GraphInv
  /\ focus = "assembly" => BudgetInv
  /\ focus = "capsules" => SelectionInv
  /\ focus = "gate" => ToolGateTypeOK
  /\ focus = "verify" => VerifyInv /\ RevisionsSeen
  /\ focus = "continuation" => ContinuationInv /\ AnswerTyped

LEMMA ComponentsStart == Init => ComponentsInv
<1> SUFFICES ASSUME Init PROVE ComponentsInv
  OBVIOUS
<1>1. BreakerInv
  BY CircuitBreakerAssumption
  DEF Init, BreakerInit, BreakerInv, BreakerTypeOK, ClosedIsHealthy
<1>2. GraphInv
  BY DEF Init, GraphInit, EmptyGraph, GoodGraph, GraphInv
<1>3. ToolGateTypeOK
  BY DEF Init, ToolGateInit, ToolGateTypeOK
<1> QED
  BY <1>1, <1>2, <1>3, RunsInitInv, LimiterStarts, GuardInitInv, InitInv, ItemsInit, BudgetInit,
     SelectionInit, VerifyInitInv, RevisionsStart, AnswerStarts
  DEF Init, ComponentsInv

LEMMA ComponentsNext == ComponentsInv /\ [Next]_allVars => ComponentsInv'
<1> SUFFICES ASSUME ComponentsInv, [Next]_allVars PROVE ComponentsInv'
  OBVIOUS
<1>1. CASE OnRuns(RunsNext)
  BY <1>1, RunsNextInv DEF OnRuns, ComponentsInv
<1>2. CASE OnBreaker(BreakerNext)
  BY <1>2, BreakerNextInv DEF OnBreaker, ComponentsInv
<1>3. CASE OnLimiter(LimiterNext)
  BY <1>3, LimiterNextKeeps DEF OnLimiter, ComponentsInv
<1>4. CASE OnGuard(GuardNext)
  BY <1>4, GuardNextInv DEF OnGuard, ComponentsInv
<1>5. CASE OnSessions(SessionsNext)
  BY <1>5, NextInv DEF OnSessions, ComponentsInv
<1>6. CASE OnItems(ContextNext)
  BY <1>6, ItemsNext DEF OnItems, ComponentsInv
<1>7. CASE OnGraph(GraphNext)
  BY <1>7, GraphNextKeeps DEF OnGraph, ComponentsInv, GraphInv
<1>8. CASE OnAssembly(AssemblyNext)
  BY <1>8, BudgetNext DEF OnAssembly, ComponentsInv
<1>9. CASE OnCapsules(CapsuleNext)
  BY <1>9, SelectionNext DEF OnCapsules, ComponentsInv
<1>10. CASE OnGate(ToolGateNext)
  BY <1>10, GateTyped DEF OnGate, ComponentsInv
<1>11. CASE OnVerify(VerifyNext)
  BY <1>11, VerifyNextInv, RevisionsKeep DEF OnVerify, ComponentsInv
<1>12. CASE OnContinuation(ContinuationNext)
  BY <1>12, ContinuationNextInv, AnswerKeeps DEF OnContinuation, ComponentsInv
<1>13. CASE UNCHANGED allVars
  <2>1. /\ UNCHANGED <<focus, runsVars, breakerVars, limiterVars, guardVars, sessionsVars>>
        /\ UNCHANGED <<contextVars, graphVars, assemblyVars, capsuleVars>>
        /\ UNCHANGED <<gateVars, verifyVars, continuationVars>>
    BY <1>13 DEF allVars
  <2> QED
    BY <2>1, RunsNextInv, BreakerNextInv, LimiterNextKeeps, GuardNextInv, NextInv, ItemsNext,
       GraphNextKeeps, BudgetNext, SelectionNext, GateTyped, VerifyNextInv,
       RevisionsKeep, ContinuationNextInv, AnswerKeeps
    DEF ComponentsInv, GraphInv
<1> QED
  BY <1>1, <1>2, <1>3, <1>4, <1>5, <1>6, <1>7, <1>8, <1>9, <1>10, <1>11, <1>12, <1>13
  DEF Next

\* Whichever component moves, it keeps its type, for every size of all of them;
\* of the limiter this includes that no stretch is granted more than twice its
\* limit.
THEOREM ComponentsTypeCorrect == Spec => []TypeOK
<1>1. ComponentsInv => TypeOK
  <2> SUFFICES ASSUME ComponentsInv PROVE TypeOK
    OBVIOUS
  <2>1. focus = "graph" => GraphTypeOK
    BY DEF ComponentsInv, GraphInv, GoodGraph, GraphTypeOK, EdgesMirror
  <2>2. focus = "verify" => VerifyTypeOK
    BY DEF ComponentsInv, VerifyInv, VerifyTyped, Position, RevisionsSeen, VerifyTypeOK
  <2>3. focus = "continuation" => ContinuationTypeOK
    <3> SUFFICES ASSUME ContinuationInv, AnswerTyped PROVE ContinuationTypeOK
      BY DEF ComponentsInv
    <3>1. shot \in {SnapshotOf(w) : w \in World} \cup {NoShot}
      BY DEF ContinuationInv, ShotIsPacked
    <3> QED
      BY <3>1 DEF ContinuationInv, AnswerTyped, ContinuationTypeOK
  <2> QED
    BY <2>1, <2>2, <2>3, LimiterTyped
    DEF ComponentsInv, TypeOK, RunsInv, BreakerInv, GuardInv, SessionsInv, BudgetInv, SelectionInv
<1> QED
  BY <1>1, ComponentsStart, ComponentsNext, PTL DEF Spec
=============================================================================
