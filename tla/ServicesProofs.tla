---------------------------- MODULE ServicesProofs ----------------------------
(***************************************************************************)
(* The components of MCServices, each proved for any size, and all of them *)
(* together.                                                               *)
(*                                                                         *)
(* Much of what they promise is of an order or of a sum.  An order without *)
(* ties counts what comes before: the members of a finite set then stand   *)
(* at 0, 1, 2... (Orders, RanksAre), so that putting them in order, or     *)
(* taking the first few, needs no induction over sequences.  A sum is a    *)
(* recursive function; what it adds up to is shown by induction on a set   *)
(* of numbers (Sums, SetInduction).                                        *)
(***************************************************************************)
EXTENDS MCServices, WatchProofs, TLAPS

-----------------------------------------------------------------------------
(* The lifecycle manager.                                                  *)

LEMMA ManagerStarts == ManagerInit => ManagerTypeOK
  BY DEF ManagerInit, ManagerTypeOK

LEMMA ManagerKeeps == ManagerTypeOK /\ [ManagerNext]_managerVars => ManagerTypeOK'
<1> SUFFICES ASSUME ManagerTypeOK, [ManagerNext]_managerVars PROVE ManagerTypeOK'
  OBVIOUS
<1> USE LifecycleManagerAssumption
<1> DEFINE Places == [op: {"start", "stop"}, at: 0 .. (Components + 1)] \cup {Ended}
<1>1. walk \in [Call -> Places] /\ up \subseteq 1 .. Components /\ thrown \in BOOLEAN
  BY DEF ManagerTypeOK
<1>2. ASSUME NEW c \in Call, NEW op \in {"start", "stop"}, NEW k \in 0 .. (Components + 1),
             WalkTo(c, op, k)
      PROVE  walk' \in [Call -> Places]
  BY <1>1, <1>2 DEF WalkTo
<1>3. ASSUME NEW c \in Call, EndCall(c) PROVE walk' \in [Call -> Places]
  BY <1>1, <1>3 DEF EndCall
<1>4. ASSUME NEW c \in Call, start(c) \/ stop(c) PROVE ManagerTypeOK'
  <2>1. CASE start(c)
    <3>1. 1 \in 0 .. (Components + 1) /\ WalkTo(c, "start", 1) /\ state' = "starting"
      BY <2>1 DEF start, Begins
    <3> QED
      BY <1>1, <1>2, <2>1, <3>1 DEF start, ManagerTypeOK
  <2>2. CASE stop(c)
    <3>1. Components \in 0 .. (Components + 1) /\ WalkTo(c, "stop", Components) /\ state' = "stopping"
      BY <2>2 DEF stop, Begins
    <3> QED
      BY <1>1, <1>2, <2>2, <3>1 DEF stop, ManagerTypeOK
  <2> QED
    BY <1>4, <2>1, <2>2
<1>5. ASSUME NEW c \in Call, HookReturns(c) PROVE ManagerTypeOK'
  <2>1. walk[c].at \in 1 .. Components
    BY <1>5 DEF HookReturns
  <2>2. walk[c].at + 1 \in 0 .. (Components + 1) /\ walk[c].at - 1 \in 0 .. (Components + 1)
    BY <2>1
  <2>3. walk' \in [Call -> Places]
    BY <1>2, <1>5, <2>2 DEF HookReturns
  <2>4. up' \subseteq 1 .. Components
    BY <1>1, <1>5, <2>1 DEF HookReturns
  <2> QED
    BY <1>1, <1>5, <2>3, <2>4 DEF HookReturns, ManagerTypeOK
<1>6. ASSUME NEW c \in Call, HookThrows(c) \/ FinishWalk(c) PROVE ManagerTypeOK'
  <2>1. walk' \in [Call -> Places]
    BY <1>3, <1>6 DEF HookThrows, FinishWalk
  <2> QED
    BY <1>1, <1>6, <2>1 DEF HookThrows, FinishWalk, ManagerTypeOK
<1>7. CASE UNCHANGED managerVars
  BY <1>7 DEF managerVars, ManagerTypeOK
<1> QED
  BY <1>4, <1>5, <1>6, <1>7 DEF ManagerNext

\* However the calls of start and stop overlap and whichever hooks throw, no walk
\* leaves the list of components (lifecycle-manager.js: start, stop).
THEOREM AlwaysManagerTyped == ManagerSpec => []ManagerTypeOK
  BY ManagerStarts, ManagerKeeps, PTL DEF ManagerSpec

-----------------------------------------------------------------------------
(* The canary.                                                             *)

CanaryTyped ==
  /\ ticks \in 0 .. Deadline
  /\ canary \in {"checking", "sleeping", "advanced", "aborted"}
  /\ bad \in BOOLEAN
  /\ canary = "advanced" => ~ bad
  /\ bad => canary = "aborted"

LEMMA CanaryStarts == CanaryInit => CanaryTyped
<1> SUFFICES ASSUME CanaryInit PROVE CanaryTyped
  OBVIOUS
<1>1. ticks \in 0 .. Deadline /\ canary = "checking" /\ bad = FALSE
  BY RollbackManagerAssumption DEF CanaryInit
<1> QED
  BY <1>1 DEF CanaryTyped

LEMMA CanaryKeeps == CanaryTyped /\ [CanaryNext]_canaryVars => CanaryTyped'
<1> SUFFICES ASSUME CanaryTyped, [CanaryNext]_canaryVars PROVE CanaryTyped'
  OBVIOUS
<1>1. CASE HealthCheck
  <2>1. canary = "checking" /\ bad = FALSE /\ ticks' = ticks
    BY <1>1 DEF HealthCheck, CanaryTyped
  <2>2. PICK healthy \in BOOLEAN :
          /\ bad' = (bad \/ ~ healthy)
          /\ canary' = IF ~ healthy THEN "aborted"
                       ELSE IF ticks >= Deadline THEN "advanced" ELSE "sleeping"
    BY <1>1 DEF HealthCheck
  <2>3. CASE healthy = TRUE
    <3>1. bad' = FALSE /\ canary' \in {"advanced", "sleeping"}
      BY <2>1, <2>2, <2>3
    <3> QED
      BY <2>1, <3>1 DEF CanaryTyped
  <2>4. CASE healthy = FALSE
    <3>1. bad' = TRUE /\ canary' = "aborted"
      BY <2>1, <2>2, <2>4
    <3> QED
      BY <2>1, <3>1 DEF CanaryTyped
  <2> QED
    BY <2>3, <2>4
<1>2. CASE Wake
  <2>1. canary = "sleeping" /\ canary' = "checking" /\ bad' = bad
    BY <1>2 DEF Wake
  <2>2. bad = FALSE
    BY <2>1 DEF CanaryTyped
  <2>3. ticks' \in 0 .. Deadline
    BY <1>2, RollbackManagerAssumption DEF Wake, Pass, CanaryTyped
  <2> QED
    BY <2>1, <2>2, <2>3 DEF CanaryTyped
<1>3. CASE UNCHANGED canaryVars
  BY <1>3 DEF canaryVars, CanaryTyped
<1> QED
  BY <1>1, <1>2, <1>3 DEF CanaryNext

\* A canary never advances a release that an answer spoke against: the safety half
\* of what it promises (rollback-manager.js: canary).
THEOREM AlwaysCanaryTyped == CanarySpec => []CanaryTyped
  BY CanaryStarts, CanaryKeeps, PTL DEF CanarySpec

\* What the rollback says of itself, and that no undo both returned and threw.
Told ==
  /\ saved \in {"no", "saved", "changed", "committed"}
  /\ outcome \in {"none", "refused", "succeeded", "restored"}
  /\ undone \cap refused = {}

LEMMA ToldStarts == RollbackInit => Told
  BY DEF RollbackInit, Told

LEMMA ToldKeeps == RollbackInv /\ Told /\ [RollbackNext]_rollbackVars => Told'
<1> SUFFICES ASSUME RollbackInv, Told, [RollbackNext]_rollbackVars PROVE Told'
  OBVIOUS
<1>1. CASE SaveSnapshot \/ RunStep \/ Commit \/ Restore
  BY <1>1 DEF SaveSnapshot, RunStep, Commit, Restore, Told
<1>2. CASE UndoNext
  <2>1. undo + 1 \in 1 .. Len(executed) /\ executed[undo + 1] = undo + 1
    BY <1>2 DEF UndoNext, RollbackInv, RollbackTyped, Tried
  <2>2. undo + 1 \notin undone \cup refused
    BY <2>1 DEF RollbackInv, RollbackTyped, Tried
  <2> QED
    BY <1>2, <2>1, <2>2 DEF UndoNext, Told
<1>3. CASE UNCHANGED rollbackVars
  BY <1>3 DEF rollbackVars, Told
<1> QED
  BY <1>1, <1>2, <1>3 DEF RollbackNext

LEMMA RollbackWhole == RollbackInv /\ Told /\ CanaryTyped => RollbackTypeOK
<1> SUFFICES ASSUME RollbackInv, Told, CanaryTyped PROVE RollbackTypeOK
  OBVIOUS
<1>1. Kept = 1 .. Len(executed)
  BY KeptLemma DEF RollbackInv
<1>2. undone \cup refused \subseteq 1 .. Len(executed)
  BY DEF RollbackInv, RollbackTyped, Tried
<1>3. bad \in BOOLEAN /\ ticks \in 0 .. Deadline
      /\ canary \in {"checking", "sleeping", "advanced", "aborted"}
  BY Zenon DEF CanaryTyped
<1>4. /\ at \in {"begin", "run", "restore", "end"}
      /\ kind \in [1 .. Steps -> StepKind]
      /\ executed \in Seq(1 .. Steps) /\ Len(executed) <= Steps
      /\ undo \in 0 .. Len(executed)
  BY DEF RollbackInv, RollbackTyped
<1>5. undone \subseteq Kept /\ refused \subseteq Kept \ undone
  BY <1>1, <1>2 DEF Told
<1> QED
  BY <1>3, <1>4, <1>5 DEF Told, RollbackTypeOK

-----------------------------------------------------------------------------
(* Numbers and orders.                                                     *)

LEMMA IntervalSize ==
  ASSUME NEW n \in Nat
  PROVE  IsFiniteSet(1..n) /\ Cardinality(1..n) = n
<1>1. /\ IsFiniteSet(1..n)
      /\ Cardinality(1..n) = IF 1 > n THEN 0 ELSE n - 1 + 1
  BY FS_Interval
<1> QED
  BY <1>1

LEMMA Members ==
  ASSUME NEW A, NEW s \in Seq(A), NEW k \in DOMAIN s
  PROVE  s[k] \in A /\ s[k] \in Range(s)
BY DEF Range

LEMMA FirstOfBoth ==
  ASSUME NEW A, NEW s \in Seq(A), NEW t \in Seq(A), Len(s) > 0
  PROVE  (s \o t)[1] = s[1]
<1>1. Len(s) \in Nat /\ Len(t) \in Nat /\ 1 \in 1..(Len(s) + Len(t)) /\ 1 <= Len(s)
  OBVIOUS
<1> QED
  BY <1>1

LEMMA FunctionIsSeq ==
  ASSUME NEW A, NEW n \in Nat, NEW f \in [1..n -> A]
  PROVE  f \in Seq(A) /\ Len(f) = n /\ DOMAIN f = 1..n
<1>1. f \in Seq(A) /\ DOMAIN f = 1..n
  BY SeqDef
<1> QED
  BY <1>1, LenProperties

LEMMA RangeAppended ==
  ASSUME NEW A, NEW s \in Seq(A), NEW a \in A
  PROVE  Range(Append(s, a)) = Range(s) \cup {a}
<1>1. /\ Len(s) \in Nat /\ DOMAIN s = 1..Len(s)
      /\ DOMAIN Append(s, a) = 1..(Len(s) + 1) /\ Append(s, a)[Len(s) + 1] = a
      /\ \A k \in 1..Len(s) : Append(s, a)[k] = s[k]
  OBVIOUS
<1>2. ASSUME NEW k \in 1..(Len(s) + 1) PROVE k \in 1..Len(s) \/ k = Len(s) + 1
  BY <1>1
<1>3. ASSUME NEW k \in 1..Len(s) PROVE k \in 1..(Len(s) + 1)
  BY <1>1
<1>4. Len(s) + 1 \in 1..(Len(s) + 1)
  BY <1>1
<1> QED
  BY <1>1, <1>2, <1>3, <1>4 DEF Range

\* Of some numbers with a bound there is a greatest.
LEMMA Greatest ==
  ASSUME NEW S \in SUBSET Nat, S # {}, NEW b \in Nat, \A x \in S : x <= b
  PROVE  Max(S) \in S /\ \A y \in S : y <= Max(S)
<1> DEFINE D == {d \in Nat : b - d \in S}
<1>1. PICK x \in S : TRUE
  OBVIOUS
<1>2. b - x \in Nat /\ b - (b - x) = x
  OBVIOUS
<1>3. D # {} /\ D \in SUBSET Nat
  BY <1>2
<1>4. Min(D) \in D /\ \A y \in D : Min(D) <= y
  <2> HIDE DEF D
  <2> QED
    BY <1>3, Least
<1>5. \A y \in S : b - y \in D
  OBVIOUS
<1>6. b - Min(D) \in S
  BY <1>4
<1>7. Min(D) \in Nat /\ \A y \in S : Min(D) <= b - y
  BY <1>4, <1>5
<1> HIDE DEF D
<1>8. \A y \in S : b - Min(D) >= y
  BY <1>7
<1>9. \E z \in S : \A y \in S : z >= y
  BY <1>6, <1>8
<1> QED
  BY <1>9 DEF Max

\* Below gives of every member those that come before it: a strict and total order.
Orders(Below, S) ==
  /\ Below \in [S -> SUBSET S]
  /\ \A k \in S : k \notin Below[k]
  /\ \A j, k \in S : j # k => j \in Below[k] \/ k \in Below[j]
  /\ \A i, j, k \in S : i \in Below[j] /\ j \in Below[k] => i \in Below[k]

LEMMA RankStep ==
  ASSUME NEW S, IsFiniteSet(S), NEW Below, Orders(Below, S)
  PROVE  /\ \A k \in S : /\ Cardinality(Below[k]) \in Nat
                         /\ Cardinality(Below[k]) < Cardinality(S)
         /\ \A j, k \in S : j \in Below[k] => Cardinality(Below[j]) < Cardinality(Below[k])
<1>1. ASSUME NEW T \in SUBSET S, NEW U \in SUBSET T, NEW x \in T, x \notin U
      PROVE  /\ Cardinality(U) \in Nat /\ Cardinality(T) \in Nat
             /\ Cardinality(U) < Cardinality(T)
  <2>1. IsFiniteSet(T)
    BY FS_Subset
  <2>2. IsFiniteSet(U) /\ Cardinality(U) <= Cardinality(T) /\ Cardinality(U) # Cardinality(T)
    BY <1>1, <2>1, FS_Subset
  <2> QED
    BY <2>1, <2>2, FS_CardinalityType
<1>2. ASSUME NEW k \in S
      PROVE  Cardinality(Below[k]) \in Nat /\ Cardinality(Below[k]) < Cardinality(S)
  <2>1. Below[k] \in SUBSET S /\ k \notin Below[k] /\ S \in SUBSET S
    BY DEF Orders
  <2> QED
    BY <1>1, <2>1
<1>3. ASSUME NEW j \in S, NEW k \in S, j \in Below[k]
      PROVE  Cardinality(Below[j]) < Cardinality(Below[k])
  <2>1. Below[k] \in SUBSET S /\ Below[j] \in SUBSET Below[k] /\ j \notin Below[j]
    BY <1>3 DEF Orders
  <2> QED
    BY <1>1, <1>3, <2>1
<1> QED
  BY <1>2, <1>3

\* Every number below the size of the set is the rank of one member, of one only.
LEMMA RanksAre ==
  ASSUME NEW S, IsFiniteSet(S), NEW Below, Orders(Below, S)
  PROVE  /\ Cardinality(S) \in Nat
         /\ \A k \in S : Cardinality(Below[k]) \in 0..(Cardinality(S) - 1)
         /\ \A j, k \in S : Cardinality(Below[j]) = Cardinality(Below[k]) => j = k
         /\ \A n \in 0..(Cardinality(S) - 1) : \E k \in S : Cardinality(Below[k]) = n
<1> DEFINE N0 == Cardinality(S)
           rank == [k \in S |-> Cardinality(Below[k]) + 1]
<1>1. N0 \in Nat
  BY FS_CardinalityType
<1>2. \A k \in S : Cardinality(Below[k]) \in Nat /\ Cardinality(Below[k]) < N0
  BY RankStep
<1>3. ASSUME NEW j \in S, NEW k \in S, Cardinality(Below[j]) = Cardinality(Below[k])
      PROVE  j = k
  <2>1. j \notin Below[k] /\ k \notin Below[j]
    BY <1>2, <1>3, RankStep
  <2> QED
    BY <2>1 DEF Orders
<1>4. rank \in [S -> 1..N0]
  BY <1>1, <1>2
<1>5. rank \in Injection(S, 1..N0)
  <2>1. \A j, k \in S : rank[j] = rank[k] => j = k
    BY <1>2, <1>3
  <2> QED
    BY <1>4, <2>1 DEF Injection, IsInjective
<1>6. IsFiniteSet(1..N0) /\ Cardinality(1..N0) = N0
  BY <1>1, IntervalSize
<1>7. rank \in Surjection(S, 1..N0)
  BY <1>5, <1>6, FS_Injection
<1>8. ASSUME NEW n \in 0..(N0 - 1) PROVE \E k \in S : Cardinality(Below[k]) = n
  <2>1. n + 1 \in 1..N0
    BY <1>1
  <2>2. PICK k \in S : rank[k] = n + 1
    BY <1>7, <2>1 DEF Surjection
  <2> QED
    BY <1>2, <2>2
<1> QED
  BY <1>1, <1>2, <1>3, <1>8

\* The members in their order.
LEMMA InOrder ==
  ASSUME NEW S, IsFiniteSet(S), NEW Below, Orders(Below, S),
         NEW f, f = [n \in 1..Cardinality(S) |-> f[n]],
         \A n \in 1..Cardinality(S) : \A k \in S :
           Cardinality(Below[k]) = n - 1 => f[n] \in S /\ Cardinality(Below[f[n]]) = n - 1
  PROVE  /\ Cardinality(S) \in Nat
         /\ f \in [1..Cardinality(S) -> S]
         /\ \A m, n \in 1..Cardinality(S) : f[m] = f[n] => m = n
         /\ \A k \in S : \E n \in 1..Cardinality(S) : f[n] = k
         /\ \A m, n \in 1..Cardinality(S) : m < n => f[m] \in Below[f[n]]
<1> DEFINE N0 == Cardinality(S)
<1>0. /\ N0 \in Nat
      /\ \A k \in S : Cardinality(Below[k]) \in 0..(N0 - 1)
      /\ \A j, k \in S : Cardinality(Below[j]) = Cardinality(Below[k]) => j = k
      /\ \A n \in 0..(N0 - 1) : \E k \in S : Cardinality(Below[k]) = n
  BY RanksAre
<1> HIDE DEF N0
<1>1. \A n \in 1..N0 : f[n] \in S /\ Cardinality(Below[f[n]]) = n - 1
  <2> TAKE n \in 1..N0
  <2>1. n - 1 \in 0..(N0 - 1)
    BY <1>0
  <2>2. \E k \in S : Cardinality(Below[k]) = n - 1
    BY <1>0, <2>1
  <2> QED
    BY <2>2 DEF N0
<1>2. f \in [1..N0 -> S]
  <2>1. f = [n \in 1..N0 |-> f[n]]
    BY DEF N0
  <2> QED
    BY <1>1, <2>1
<1>3. ASSUME NEW m \in 1..N0, NEW n \in 1..N0, f[m] = f[n] PROVE m = n
  <2>1. m - 1 = n - 1
    BY <1>1, <1>3, Zenon
  <2> QED
    BY <2>1
<1>4. ASSUME NEW k \in S PROVE \E n \in 1..N0 : f[n] = k
  <2>1. Cardinality(Below[k]) \in 0..(N0 - 1)
    BY <1>0
  <2>2. Cardinality(Below[k]) + 1 \in 1..N0
    BY <1>0, <2>1
  <2>3. Cardinality(Below[f[Cardinality(Below[k]) + 1]]) = Cardinality(Below[k])
    BY <1>1, <2>1, <2>2
  <2> QED
    BY <1>0, <1>1, <2>2, <2>3
<1>5. ASSUME NEW m \in 1..N0, NEW n \in 1..N0, m < n PROVE f[m] \in Below[f[n]]
  <2>1. f[m] \in S /\ f[n] \in S /\ f[m] # f[n]
    BY <1>1, <1>3, <1>5
  <2>2. f[n] \notin Below[f[m]]
    <3>1. f[n] \in Below[f[m]] => Cardinality(Below[f[n]]) < Cardinality(Below[f[m]])
      BY <2>1, RankStep
    <3>2. Cardinality(Below[f[n]]) = n - 1 /\ Cardinality(Below[f[m]]) = m - 1
      BY <1>1, Zenon
    <3>3. ~(n - 1 < m - 1)
      BY <1>5
    <3> QED
      BY <3>1, <3>2, <3>3, Zenon
  <2> QED
    BY <2>1, <2>2 DEF Orders
<1> QED
  BY <1>0, <1>2, <1>3, <1>4, <1>5 DEF N0

-----------------------------------------------------------------------------
(* Conflicts in the context.                                               *)

LEMMA AuthorityIs ==
  ASSUME NEW node
  PROVE  /\ getAuthorityType(node) \in {Precedence[k] : k \in 1..6}
         /\ Standing(getAuthorityType(node)) \in 1..6
<1> DEFINE fits == {k \in DOMAIN Precedence :
                      Precedence[k] \in node.words \cup {node.type, "unknown"}}
<1>1. DOMAIN Precedence = 1..6 /\ Precedence[6] = "unknown"
  BY DEF Precedence
<1>2. fits \in SUBSET Nat /\ 6 \in fits
  BY <1>1
<1>3. Min(fits) \in fits
  <2> HIDE DEF fits
  <2> QED
    BY <1>2, Least
<1>4. Min(fits) \in 1..6 /\ getAuthorityType(node) = Precedence[Min(fits)]
  BY <1>1, <1>3 DEF getAuthorityType
<1> HIDE DEF fits
<1>5. \E k \in DOMAIN Precedence : Precedence[k] = getAuthorityType(node)
  BY <1>1, <1>4
<1>6. Standing(getAuthorityType(node)) \in DOMAIN Precedence
  BY <1>5 DEF Standing
<1> QED
  BY <1>1, <1>4, <1>6

LEMMA ContradictionsStart == ContradictionsInit => ContradictionsTypeOK
  BY DEF ContradictionsInit, ContradictionsTypeOK

LEMMA ContradictionsKeep ==
  ContradictionsTypeOK /\ [ContradictionsNext]_contradictionVars => ContradictionsTypeOK'
<1> SUFFICES ASSUME ContradictionsTypeOK, [ContradictionsNext]_contradictionVars
             PROVE  ContradictionsTypeOK'
  OBVIOUS
<1>1. ASSUME NEW a \in Claim, NEW b \in Claim, createConflict(a, b)
      PROVE  ContradictionsTypeOK'
  <2>1. /\ conflict' = [nodeA |-> a, nodeB |-> b, status |-> "UNRESOLVED", winner |-> Gone,
                        authorityA |-> getAuthorityType(graphNodes[a]),
                        authorityB |-> getAuthorityType(graphNodes[b])]
        /\ a # b /\ graphNodes' = graphNodes
    BY <1>1 DEF createConflict
  <2>2. conflict'.nodeA = a /\ conflict'.nodeB = b /\ conflict'.status = "UNRESOLVED"
    BY <2>1
  <2> QED
    BY <2>1, <2>2 DEF ContradictionsTypeOK, shouldBlock
<1>2. CASE resolveConflict
  <2> DEFINE a == graphNodes[conflict.nodeA]
             b == graphNodes[conflict.nodeB]
             first == getAuthorityType(a)
             second == getAuthorityType(b)
  <2>1. /\ conflict # Gone /\ graphNodes' = graphNodes
        /\ conflict.nodeA \in Claim /\ conflict.nodeB \in Claim \ {conflict.nodeA}
    BY <1>2 DEF resolveConflict, ContradictionsTypeOK
  <2>2. CASE Gone \in {a, b}
    <3>1. conflict' = [conflict EXCEPT !.status = "UNRESOLVED"]
      BY <1>2, <2>2 DEF resolveConflict
    <3> QED
      BY <2>1, <3>1 DEF ContradictionsTypeOK, shouldBlock
  <2>3. CASE Gone \notin {a, b}
    <3>1. conflict' = [conflict EXCEPT
                         !.authorityA = first, !.authorityB = second,
                         !.winner = IF compareAuthority(first, second) = first
                                    THEN conflict.nodeA ELSE conflict.nodeB,
                         !.status = "RESOLVED"]
      BY <1>2, <2>3 DEF resolveConflict
    <3>2. Standing(first) \in 1..6 /\ Standing(second) \in 1..6
      BY AuthorityIs
    <3> HIDE DEF first, second, a, b
    <3>3. (compareAuthority(first, second) = first) <=> ~ (Standing(second) < Standing(first))
      <4>1. CASE Standing(second) < Standing(first)
        <5>1. second # first
          BY <3>2, <4>1
        <5> QED
          BY <4>1, <5>1 DEF compareAuthority
      <4>2. CASE ~ (Standing(second) < Standing(first))
        BY <4>2 DEF compareAuthority
      <4> QED
        BY <4>1, <4>2
    <3> QED
      BY <2>1, <3>1, <3>3 DEF ContradictionsTypeOK, shouldBlock
  <2> QED
    BY <2>2, <2>3
<1>3. ASSUME NEW n \in Claim, NEW node \in ContextNode \cup {Gone}, Reword(n, node)
      PROVE  ContradictionsTypeOK'
  BY <1>3 DEF Reword, ContradictionsTypeOK, shouldBlock
<1>4. CASE UNCHANGED contradictionVars
  BY <1>4 DEF contradictionVars, ContradictionsTypeOK, shouldBlock
<1> QED
  BY <1>1, <1>2, <1>3, <1>4 DEF ContradictionsNext

\* Whatever becomes of the nodes in the meantime, a resolved conflict was won by a
\* node no weaker than the other (contradiction-resolution.js: resolveConflict).
THEOREM AlwaysContradictionsTyped == ContradictionsSpec => []ContradictionsTypeOK
  BY ContradictionsStart, ContradictionsKeep, PTL DEF ContradictionsSpec

-----------------------------------------------------------------------------
(* The release.                                                            *)

LEMMA OneMoreSigner ==
  ASSUME NEW s, s \in Seq(Range(s)), NEW x, x \notin Range(s),
         Cardinality(Range(s)) = Len(s)
  PROVE  /\ Range(Append(s, x)) = Range(s) \cup {x}
         /\ Cardinality(Range(Append(s, x))) = Len(Append(s, x))
         /\ Append(s, x) \in Seq(Range(Append(s, x)))
<1>1. Len(s) \in Nat /\ DOMAIN s = 1..Len(s) /\ \A k \in 1..Len(s) : s[k] \in Range(s)
  BY DEF Range
<1>2. Append(s, x) \in Seq(Range(s) \cup {x}) /\ Len(Append(s, x)) = Len(s) + 1
      /\ \A k \in 1..(Len(s) + 1) : Append(s, x)[k] = IF k = Len(s) + 1 THEN x ELSE s[k]
  OBVIOUS
<1>3. DOMAIN Append(s, x) = 1..(Len(s) + 1)
  BY <1>1, <1>2
<1>4. Range(Append(s, x)) = Range(s) \cup {x}
  <2> DEFINE t == Append(s, x)
  <2>1. DOMAIN t = 1..(Len(s) + 1) /\ \A k \in 1..(Len(s) + 1) : t[k] = IF k = Len(s) + 1 THEN x ELSE s[k]
    BY <1>2, <1>3
  <2> HIDE DEF t
  <2>2. ASSUME NEW v \in Range(t) PROVE v \in Range(s) \cup {x}
    <3>1. PICK k \in 1..(Len(s) + 1) : v = t[k]
      BY <2>1 DEF Range
    <3> QED
      BY <1>1, <2>1, <3>1
  <2>3. ASSUME NEW v \in Range(s) PROVE v \in Range(t)
    <3>1. PICK k \in 1..Len(s) : v = s[k]
      BY <1>1 DEF Range
    <3>2. k \in 1..(Len(s) + 1) /\ t[k] = s[k]
      BY <1>1, <2>1
    <3> QED
      BY <2>1, <3>1, <3>2 DEF Range
  <2>4. x \in Range(t)
    <3>1. Len(s) + 1 \in 1..(Len(s) + 1) /\ t[Len(s) + 1] = x
      BY <1>1, <2>1
    <3> QED
      BY <2>1, <3>1 DEF Range
  <2>5. Range(t) = Range(s) \cup {x}
    BY <2>2, <2>3, <2>4
  <2> QED
    BY <2>5 DEF t
<1>5. IsFiniteSet(Range(s))
  <2>1. IsFiniteSet(1..Len(s))
    BY <1>1, IntervalSize
  <2>2. s \in [1..Len(s) -> Range(s)]
    <3>1. s = [k \in 1..Len(s) |-> s[k]]
      OBVIOUS
    <3> QED
      BY <1>1, <3>1
  <2>3. \A v \in Range(s) : \E k \in 1..Len(s) : s[k] = v
    BY <1>1 DEF Range
  <2>4. s \in Surjection(1..Len(s), Range(s))
    BY <2>2, <2>3 DEF Surjection
  <2> QED
    BY <2>1, <2>4, FS_Surjection
<1>6. Cardinality(Range(s) \cup {x}) = Len(s) + 1
  BY <1>5, FS_AddElement
<1> QED
  BY <1>2, <1>4, <1>6

\* What every tally is.
Tally(s) ==
  /\ s \in Seq(Range(s)) /\ Cardinality(Range(s)) = Len(s)
  /\ Range(s) \subseteq Range(signers)

ReleaseInv ==
  /\ released \in BOOLEAN /\ signers \in Seq(Signer) /\ required \in 0..Len(signers)
  /\ tallies = [c \in ChangeSet |-> tallies[c]]
  /\ \A c \in ChangeSet : Tally(tallies[c])

LEMMA NoTally == Tally(<<>>)
<1>1. Range(<<>>) = {} /\ <<>> \in Seq({}) /\ Len(<<>>) = 0
  BY DEF Range
<1>2. Cardinality(Range(<<>>)) = 0
  BY <1>1, FS_EmptySet
<1> QED
  BY <1>1, <1>2 DEF Tally

LEMMA ReleaseTyped == ReleaseInv => ReleaseTypeOK
<1> SUFFICES ASSUME ReleaseInv PROVE ReleaseTypeOK
  OBVIOUS
<1>1. \A c \in ChangeSet : Tally(tallies[c])
  BY DEF ReleaseInv
<1>2. ASSUME NEW c \in ChangeSet
      PROVE  /\ Range(tallies[c]) \subseteq Range(signers)
             /\ Cardinality(Range(tallies[c])) = Len(tallies[c])
             /\ satisfied(c) /\ signers # <<>> => Cardinality(Range(tallies[c])) >= required
  BY <1>1 DEF Tally, satisfied
<1>3. released \in BOOLEAN /\ required \in 0..Len(signers)
  BY Zenon DEF ReleaseInv
<1> QED
  BY <1>2, <1>3, Zenon DEF ReleaseTypeOK

LEMMA ReleaseStarts == ReleaseInit => ReleaseInv
<1> SUFFICES ASSUME ReleaseInit PROVE ReleaseInv
  OBVIOUS
<1>1. /\ released = FALSE /\ signers = <<>> /\ required = 0
      /\ tallies = [c \in ChangeSet |-> <<>>]
  BY DEF ReleaseInit
<1>2. signers \in Seq(Signer) /\ required \in 0..Len(signers) /\ released \in BOOLEAN
  <2>1. Len(signers) = 0 /\ signers \in Seq(Signer)
    BY <1>1
  <2>2. required \in 0..Len(signers)
    BY <1>1, <2>1
  <2> QED
    BY <1>1, <2>1, <2>2
<1>3. \A c \in ChangeSet : tallies[c] = <<>>
  BY <1>1
<1>4. tallies = [c \in ChangeSet |-> tallies[c]]
  BY <1>1
<1> QED
  BY <1>2, <1>3, <1>4, NoTally DEF ReleaseInv

LEMMA GateLeaves == ReleaseInv /\ ReleaseGateNext => ReleaseInv'
<1> SUFFICES ASSUME ReleaseInv, ReleaseGateNext PROVE ReleaseInv'
  OBVIOUS
<1>1. signers' = signers /\ required' = required /\ tallies' = tallies
  BY DEF ReleaseGateNext, evaluateRelease, Prepare, signerVars
<1>2. released' \in BOOLEAN
  <2>1. CASE evaluateRelease
    <3>1. released' = (\A gate \in SUB_GATES : evaluateSubGate(gate))
      BY <2>1 DEF evaluateRelease
    <3> QED
      BY <3>1
  <2>2. CASE \E f \in Fields : \E given \in Payloads[f] : Prepare(f, given)
    BY <2>2 DEF Prepare, ReleaseInv
  <2> QED
    BY <2>1, <2>2 DEF ReleaseGateNext
<1>3. \A c \in ChangeSet : Tally(tallies[c])'
  BY <1>1 DEF ReleaseInv, Tally
<1> QED
  BY <1>1, <1>2, <1>3 DEF ReleaseInv

LEMMA SignersKeep == ReleaseInv /\ SignerNext => ReleaseInv'
<1> SUFFICES ASSUME ReleaseInv, SignerNext PROVE ReleaseInv'
  OBVIOUS
<1>0. /\ released \in BOOLEAN /\ signers \in Seq(Signer) /\ required \in 0..Len(signers)
      /\ tallies = [c \in ChangeSet |-> tallies[c]]
      /\ \A c \in ChangeSet : Tally(tallies[c])
  BY DEF ReleaseInv
<1>1. ASSUME NEW pool \in Pools, NEW mode \in {"strict", "majority", "any"},
             NEW explicit \in {NoQuorum} \cup 1..3, normalizeConfig(pool, mode, explicit)
      PROVE  ReleaseInv'
  <2>1. pool \in Seq(Signer) /\ Len(pool) \in Nat \ {0}
    BY <1>1, ReleaseAssumption DEF normalizeConfig
  <2>2. required' \in 0..Len(pool)
    BY <1>1, <2>1 DEF normalizeConfig
  <2>3. /\ signers' = pool /\ released' = released
        /\ tallies' = [c \in ChangeSet |-> <<>>]
    BY <1>1 DEF normalizeConfig, gateVarsOfRelease
  <2>4. \A c \in ChangeSet : tallies'[c] = <<>>
    BY <2>3
  <2>5. ASSUME NEW c \in ChangeSet PROVE Tally(tallies[c])'
    <3>1. /\ tallies'[c] \in Seq(Range(tallies'[c]))
          /\ Cardinality(Range(tallies'[c])) = Len(tallies'[c])
      BY <2>4, NoTally DEF Tally
    <3>2. Range(tallies'[c]) = {}
      BY <2>4 DEF Range
    <3> QED
      BY <3>1, <3>2 DEF Tally
  <2>6. tallies' = [c \in ChangeSet |-> tallies'[c]]
    BY <2>3
  <2> QED
    BY <1>0, <2>1, <2>2, <2>3, <2>5, <2>6 DEF ReleaseInv
<1>2. ASSUME NEW c \in ChangeSet, NEW s \in Signer, approve(c, s) PROVE ReleaseInv'
  <2>1. /\ s \in Range(signers) /\ s \notin Range(tallies[c])
        /\ tallies' = [tallies EXCEPT ![c] = Append(tallies[c], s)]
        /\ signers' = signers /\ required' = required /\ released' = released
    BY <1>2 DEF approve, gateVarsOfRelease
  <2>2. Tally(tallies[c])
    BY <1>0
  <2>3. /\ Range(Append(tallies[c], s)) = Range(tallies[c]) \cup {s}
        /\ Cardinality(Range(Append(tallies[c], s))) = Len(Append(tallies[c], s))
        /\ Append(tallies[c], s) \in Seq(Range(Append(tallies[c], s)))
    BY <2>1, <2>2, OneMoreSigner DEF Tally
  <2>4. Tally(Append(tallies[c], s))
    BY <2>1, <2>2, <2>3 DEF Tally
  <2>5. \A d \in ChangeSet : tallies'[d] = IF d = c THEN Append(tallies[c], s) ELSE tallies[d]
    BY <1>0, <2>1
  <2>6. \A d \in ChangeSet : Tally(tallies'[d])
    BY <1>0, <2>4, <2>5
  <2>7. \A d \in ChangeSet : Tally(tallies[d])'
    BY <2>1, <2>6 DEF Tally
  <2>8. tallies' = [d \in ChangeSet |-> tallies'[d]]
    BY <1>0, <2>1
  <2> QED
    BY <1>0, <2>1, <2>7, <2>8 DEF ReleaseInv
<1>3. ASSUME NEW cleared, resetTally(cleared) PROVE ReleaseInv'
  <2>1. /\ tallies' = [c \in ChangeSet |-> IF c \in cleared THEN <<>> ELSE tallies[c]]
        /\ signers' = signers /\ required' = required /\ released' = released
    BY <1>3 DEF resetTally, gateVarsOfRelease
  <2>2. \A d \in ChangeSet : Tally(tallies'[d])
    BY <1>0, <2>1, NoTally
  <2>3. \A d \in ChangeSet : Tally(tallies[d])'
    BY <2>1, <2>2 DEF Tally
  <2>4. tallies' = [d \in ChangeSet |-> tallies'[d]]
    BY <2>1
  <2> QED
    BY <1>0, <2>1, <2>3, <2>4 DEF ReleaseInv
<1> QED
  BY <1>1, <1>2, <1>3 DEF SignerNext

LEMMA ReleaseKeeps == ReleaseInv /\ [ReleaseNext]_releaseVars => ReleaseInv'
<1> SUFFICES ASSUME ReleaseInv, UNCHANGED releaseVars PROVE ReleaseInv'
  BY GateLeaves, SignersKeep DEF ReleaseNext
<1>1. signers' = signers /\ required' = required /\ tallies' = tallies /\ released' = released
  BY DEF releaseVars
<1>2. \A c \in ChangeSet : Tally(tallies[c])'
  BY <1>1 DEF ReleaseInv, Tally
<1> QED
  BY <1>1, <1>2 DEF ReleaseInv

\* Whatever list is configured and whoever signs, a quorum is that many people of
\* the list, and is never more than the list is long (multi-signer.js: approve,
\* status).
THEOREM AlwaysReleaseTyped == ReleaseSpec => []ReleaseTypeOK
  BY ReleaseStarts, ReleaseKeeps, ReleaseTyped, PTL DEF ReleaseSpec

-----------------------------------------------------------------------------
(* The lineage of evidence.                                                *)

LineageFile ==
  [requirement: Required, hypothesis: Hypothesis, link: {"none", "whole", "part"},
   status: {"unverified", "valid", "insufficient", "stale", "superseded", "invalidated"},
   passes: BOOLEAN]

\* A file that can be read says what it may say.
Attested(ev) ==
  /\ ev \in LineageFile
  /\ ev.status = "valid" => ev.link = "whole" /\ ev.passes = TRUE

LineageInv ==
  /\ lineageDir = [e \in Evidence |-> lineageDir[e]]
  /\ \A e \in Readable : Attested(lineageDir[e])
  /\ stated \subseteq Required /\ flagged \subseteq Required
  /\ claims \in Seq([requirement: Required, strength: Strength, supports: BOOLEAN])

\* What files change into, the others staying.
LEMMA FilesStay ==
  ASSUME LineageInv, NEW e \in Evidence, NEW ev,
         ev \notin {NoFile, Shorn} => Attested(ev),
         lineageDir' = [lineageDir EXCEPT ![e] = ev]
  PROVE  /\ lineageDir' = [d \in Evidence |-> lineageDir'[d]]
         /\ (\A d \in Readable : Attested(lineageDir[d]))'
<1>1. \A d \in Evidence : lineageDir'[d] = IF d = e THEN ev ELSE lineageDir[d]
  BY DEF LineageInv
<1>2. lineageDir' = [d \in Evidence |-> lineageDir'[d]]
  BY DEF LineageInv
<1>3. ASSUME NEW d \in Evidence, lineageDir'[d] \notin {NoFile, Shorn}
      PROVE  Attested(lineageDir'[d])
  BY <1>1, <1>3 DEF LineageInv, Readable
<1> QED
  BY <1>2, <1>3 DEF Readable, Attested, LineageFile

LEMMA LineageStarts == LineageInit => LineageInv
<1> SUFFICES ASSUME LineageInit PROVE LineageInv
  OBVIOUS
<1>1. Readable = {}
  BY DEF LineageInit, Readable
<1> QED
  BY <1>1 DEF LineageInit, LineageInv

\* What verifying makes of a file.
LEMMA VerifiedIs ==
  ASSUME NEW was, Attested(was), NEW result \in {"PASS", "PARTIAL", "FAIL"}, NEW ev,
         ev = [was EXCEPT
                 !.passes = @ \/ result = "PASS",
                 !.status = CASE result = "PASS" /\ was.link = "whole" -> "valid"
                              [] result = "PASS" /\ ~(was.link = "whole") -> "insufficient"
                              [] result = "PARTIAL" -> "insufficient"
                              [] result = "FAIL" -> @]
  PROVE  Attested(ev)
<1>1. was \in LineageFile /\ (was.status = "valid" => was.link = "whole" /\ was.passes = TRUE)
  BY DEF Attested
<1>2. CASE result = "PASS" /\ was.link = "whole"
  <2>1. ev = [was EXCEPT !.passes = TRUE, !.status = "valid"]
    BY <1>2
  <2> QED
    BY <1>1, <1>2, <2>1 DEF Attested, LineageFile
<1>3. CASE result = "PASS" /\ was.link # "whole"
  <2>1. ev = [was EXCEPT !.passes = TRUE, !.status = "insufficient"]
    BY <1>3
  <2> QED
    BY <1>1, <2>1 DEF Attested, LineageFile
<1>4. CASE result # "PASS"
  <2>1. (was.passes \/ result = "PASS") = was.passes
    BY <1>1, <1>4, Zenon DEF LineageFile
  <2>2. CASE result = "PARTIAL"
    <3>1. ev = [was EXCEPT !.passes = was.passes, !.status = "insufficient"]
      BY <2>1, <2>2
    <3> QED
      BY <1>1, <3>1 DEF Attested, LineageFile
  <2>3. CASE result = "FAIL"
    <3>1. ev = [was EXCEPT !.passes = was.passes, !.status = was.status]
      BY <2>1, <2>3
    <3> QED
      BY <1>1, <3>1 DEF Attested, LineageFile
  <2> QED
    BY <1>4, <2>2, <2>3
<1> QED
  BY <1>2, <1>3, <1>4

LEMMA EvidenceKeeps == LineageInv /\ EvidenceNext => LineageInv'
<1> SUFFICES ASSUME LineageInv, EvidenceNext PROVE LineageInv'
  OBVIOUS
<1>0. ASSUME NEW e \in Evidence, NEW ev, ev \notin {NoFile, Shorn} => Attested(ev),
             lineageDir' = [lineageDir EXCEPT ![e] = ev],
             stated' \subseteq Required, flagged' \subseteq Required, claims' = claims
      PROVE  LineageInv'
  BY <1>0, FilesStay DEF LineageInv
<1>1. ASSUME NEW e \in Evidence, NEW r \in Required, NEW h \in Hypothesis, createEvidence(e, r, h)
      PROVE  LineageInv'
  <2> DEFINE ev == [requirement |-> r, hypothesis |-> h,
                    link |-> "none", status |-> "unverified", passes |-> FALSE]
  <2>1. Attested(ev)
    BY DEF Attested, LineageFile
  <2>2. lineageDir' = [lineageDir EXCEPT ![e] = ev] /\ stated' = stated /\ flagged' = flagged
        /\ claims' = claims
    BY <1>1 DEF createEvidence, Rewrite
  <2> HIDE DEF ev
  <2> QED
    BY <1>0, <2>1, <2>2 DEF LineageInv
<1>2. ASSUME NEW e \in Evidence, NEW link \in {"whole", "part"}, linkEvidenceToRequirement(e, link)
      PROVE  LineageInv'
  <2> DEFINE ev == [lineageDir[e] EXCEPT !.link = link]
  <2>0. Attested(lineageDir[e]) /\ lineageDir[e].status = "unverified"
    BY <1>2 DEF linkEvidenceToRequirement, LineageInv
  <2>1. Attested(ev)
    BY <2>0 DEF Attested, LineageFile
  <2>2. lineageDir' = [lineageDir EXCEPT ![e] = ev] /\ stated' = stated /\ flagged' = flagged
        /\ claims' = claims
    BY <1>2 DEF linkEvidenceToRequirement, Rewrite
  <2> HIDE DEF ev
  <2> QED
    BY <1>0, <2>1, <2>2 DEF LineageInv
<1>3. ASSUME NEW e \in Evidence, NEW result \in {"PASS", "PARTIAL", "FAIL"}, verifyEvidence(e, result)
      PROVE  LineageInv'
  <2> DEFINE ev == [lineageDir[e] EXCEPT
                 !.passes = @ \/ result = "PASS",
                 !.status = CASE result = "PASS" /\ lineageDir[e].link = "whole" -> "valid"
                              [] result = "PASS" /\ ~(lineageDir[e].link = "whole") -> "insufficient"
                              [] result = "PARTIAL" -> "insufficient"
                              [] result = "FAIL" -> @]
  <2>0. Attested(lineageDir[e])
    BY <1>3 DEF verifyEvidence, LineageInv
  <2>1. Attested(ev)
    BY <2>0, VerifiedIs
  <2>2. lineageDir' = [lineageDir EXCEPT ![e] = ev] /\ stated' = stated /\ flagged' = flagged
        /\ claims' = claims
    BY <1>3, Zenon DEF verifyEvidence, Rewrite, hasCompleteLineage
  <2> HIDE DEF ev
  <2> QED
    BY <1>0, <2>1, <2>2 DEF LineageInv
<1>4. ASSUME NEW e \in Evidence, supersedeEvidence(e) \/ invalidateEvidence(e) PROVE LineageInv'
  <2>1. PICK status \in {"superseded", "invalidated"} :
          lineageDir' = [lineageDir EXCEPT ![e] = [lineageDir[e] EXCEPT !.status = status]]
    BY <1>4 DEF supersedeEvidence, invalidateEvidence, Rewrite
  <2>2. Attested(lineageDir[e])
    BY <1>4 DEF supersedeEvidence, invalidateEvidence, LineageInv
  <2> DEFINE ev == [lineageDir[e] EXCEPT !.status = status]
  <2>3. Attested(ev)
    BY <2>2 DEF Attested, LineageFile
  <2>4. stated' = stated /\ flagged' \subseteq flagged /\ claims' = claims
    BY <1>4 DEF supersedeEvidence, invalidateEvidence, Rewrite
  <2> HIDE DEF ev
  <2> QED
    BY <1>0, <2>1, <2>3, <2>4 DEF LineageInv, ev
<1>5. ASSUME NEW e \in Evidence, TearEvidence(e) PROVE LineageInv'
  BY <1>0, <1>5 DEF TearEvidence, LineageInv
<1>6. ASSUME NEW id, invalidateDependentEvidence(id) PROVE LineageInv'
  <2>1. \A e \in Evidence :
          lineageDir'[e] = IF e \in Readable /\ id \in {lineageDir[e].hypothesis, lineageDir[e].requirement}
                           THEN [lineageDir[e] EXCEPT !.status = "stale"] ELSE lineageDir[e]
    BY <1>6 DEF invalidateDependentEvidence
  <2>2. lineageDir' = [e \in Evidence |-> lineageDir'[e]]
    BY <1>6 DEF invalidateDependentEvidence
  <2>3. ASSUME NEW e \in Evidence, lineageDir'[e] \notin {NoFile, Shorn}
        PROVE  Attested(lineageDir'[e])
    <3>1. CASE e \in Readable /\ id \in {lineageDir[e].hypothesis, lineageDir[e].requirement}
      <4>1. lineageDir'[e] = [lineageDir[e] EXCEPT !.status = "stale"] /\ Attested(lineageDir[e])
        BY <2>1, <3>1 DEF LineageInv
      <4> QED
        BY <4>1 DEF Attested, LineageFile
    <3>2. CASE ~(e \in Readable /\ id \in {lineageDir[e].hypothesis, lineageDir[e].requirement})
      <4>1. lineageDir'[e] = lineageDir[e]
        BY <2>1, <3>2
      <4>2. e \in Readable
        BY <2>3, <4>1 DEF Readable
      <4> QED
        BY <4>1, <4>2 DEF LineageInv
    <3> QED
      BY <3>1, <3>2
  <2>4. (\A d \in Readable : Attested(lineageDir[d]))'
    BY <2>3 DEF Readable, Attested, LineageFile
  <2>5. stated' = stated /\ flagged' = flagged /\ claims' = claims
    BY <1>6 DEF invalidateDependentEvidence
  <2> QED
    BY <2>2, <2>4, <2>5 DEF LineageInv
<1>7. ASSUME NEW rs \in SUBSET Required, Restate(rs) PROVE LineageInv'
  BY <1>7 DEF Restate, LineageInv, Readable, Attested, LineageFile
<1> QED
  BY <1>1, <1>2, <1>3, <1>4, <1>5, <1>6, <1>7 DEF EvidenceNext

LEMMA ClaimsKeep == LineageInv /\ ClaimNext => LineageInv'
<1> SUFFICES ASSUME LineageInv, NEW r \in Required, NEW s \in Strength, NEW for \in BOOLEAN,
                    createClaim(r, s, for)
             PROVE  LineageInv'
  BY DEF ClaimNext
<1>1. claims' \in Seq([requirement: Required, strength: Strength, supports: BOOLEAN])
  BY DEF createClaim, LineageInv
<1>2. lineageDir' = lineageDir /\ stated' = stated /\ flagged' = flagged
  BY DEF createClaim, fileVars
<1> QED
  BY <1>1, <1>2 DEF LineageInv, Readable, Attested, LineageFile

LEMMA LineageKeeps == LineageInv /\ [LineageNext]_lineageVars => LineageInv'
<1> SUFFICES ASSUME LineageInv, UNCHANGED lineageVars PROVE LineageInv'
  BY EvidenceKeeps, ClaimsKeep DEF LineageNext
<1> QED
  BY DEF lineageVars, LineageInv, Readable, Attested, LineageFile

LEMMA LineageTyped == LineageInv => LineageTypeOK
<1> SUFFICES ASSUME LineageInv PROVE LineageTypeOK
  OBVIOUS
<1>1. \A e \in Readable :
        lineageDir[e].status = "valid" => hasCompleteLineage(lineageDir[e]) /\ lineageDir[e].passes
  BY DEF LineageInv, Attested, hasCompleteLineage
<1>2. ASSUME canComplete, NEW r \in stated
      PROVE  \E e \in Evidence : <<e, r>> \in supports /\ lineageDir[e].passes
  <2>1. PICK e \in getValidEvidence(r) : TRUE
    BY <1>2 DEF canComplete, getUnsatisfiedRequirements
  <2>2. e \in Readable /\ lineageDir[e].requirement = r /\ lineageDir[e].status = "valid"
    BY <2>1 DEF getValidEvidence, getEvidenceForRequirement
  <2>3. <<e, r>> \in supports
    BY <2>2 DEF supports
  <2> QED
    BY <1>1, <2>2, <2>3 DEF Readable
<1>3. ASSUME NEW r \in Required, hasStaleEvidence(r), deriveVerification(r)
      PROVE  getValidEvidence(r) # {}
  BY <1>3 DEF hasStaleEvidence, deriveVerification, getValidEvidence
<1>4. ASSUME NEW r \in Required, canCloseRequirement(r)
      PROVE  /\ r \notin findConflicts
             /\ ~\E j, k \in DOMAIN claims : /\ claims[j].requirement = r
                                              /\ detectEvidenceConflict(claims[j], claims[k])
  <2>1. ASSUME NEW j \in DOMAIN claims
        PROVE  claims[j].supports \in BOOLEAN /\ claims[j] \in Range(claims)
    <3>1. claims \in Seq([requirement: Required, strength: Strength, supports: BOOLEAN])
      BY DEF LineageInv
    <3>2. claims[j] \in [requirement: Required, strength: Strength, supports: BOOLEAN]
      BY <3>1, Members, Zenon
    <3>3. claims[j].supports \in BOOLEAN
      BY <3>2, Zenon
    <3>4. claims[j] \in Range(claims)
      BY DEF Range
    <3> QED
      BY <3>3, <3>4
  <2>2. \A c \in Of(r) : c.supports /\ c.supports \in BOOLEAN
    BY <1>4, <2>1 DEF canCloseRequirement, Of, Range
  <2>3. \A c \in Of(r) : c.supports = TRUE
    BY <2>2, Zenon
  <2>4. r \notin findConflicts
    <3>1. FALSE \notin {c.supports : c \in Of(r)}
      BY <2>3
    <3> QED
      BY <3>1 DEF findConflicts
  <2>5. ASSUME NEW j \in DOMAIN claims, NEW k \in DOMAIN claims, claims[j].requirement = r,
               detectEvidenceConflict(claims[j], claims[k])
        PROVE  FALSE
    <3>1. claims[j] \in Of(r) /\ claims[k] \in Of(r)
      BY <2>1, <2>5 DEF Of, detectEvidenceConflict
    <3>2. claims[j].supports = TRUE /\ claims[k].supports = TRUE
      BY <2>3, <3>1
    <3>3. claims[j].supports # claims[k].supports
      BY <2>5, Zenon DEF detectEvidenceConflict
    <3> QED
      BY <3>2, <3>3, Zenon
  <2> QED
    BY <2>4, <2>5
<1> QED
  BY <1>1, <1>2, <1>3, <1>4 DEF LineageTypeOK, LineageInv

\* Whatever is verified, superseded, torn or removed, in any order: evidence is
\* valid only with its whole lineage and a verification that passed, a task that can
\* complete has such evidence of every requirement it lists, and no requirement is
\* closed while two of its claims conflict (evidence-lineage.js: verifyEvidence,
\* getCompletionStatus; evidence.js: canCloseRequirement).
THEOREM AlwaysLineageTyped == LineageSpec => []LineageTypeOK
  BY LineageStarts, LineageKeeps, LineageTyped, PTL DEF LineageSpec

-----------------------------------------------------------------------------
(* The trail of decisions.                                                 *)

DecisionInv ==
  /\ answers \in Seq(BOOLEAN)
  /\ trace = NoTask \/ trace = <<"TECHNICAL_DECISION">> \/ trace[1] = "CONCEPT_EXTRACTION"
  /\ (trace = <<"TECHNICAL_DECISION">>) => (TRUE \in Range(answers))
  /\ decisions \in Seq([id: Nat, status: Status, confidence: ConfidenceIn])
  /\ \A k \in DOMAIN decisions : decisions[k].id = k
  /\ \A t \in TaskId :
       tasks[t] # NoTask =>
         tasks[t] \in [summary: Summary, phase: {"ACTIVE", "DONE"},
                       offered: {NoTask} \cup (TaskId \ {t})]
  /\ tasks = [t \in TaskId |-> tasks[t]]
  /\ today \in Nat \ {0} /\ history \subseteq (1..today) \X TaskId

LEMMA DecisionStarts == DecisionInit => DecisionInv
<1> SUFFICES ASSUME DecisionInit PROVE DecisionInv
  OBVIOUS
<1>1. trace = NoTask /\ trace # <<"TECHNICAL_DECISION">>
  BY DecisionAssumption DEF DecisionInit
<1>2. /\ answers = <<>> /\ decisions = <<>> /\ history = {} /\ today = 1
      /\ tasks = [t \in TaskId |-> NoTask]
  BY DEF DecisionInit
<1>3. answers \in Seq(BOOLEAN)
  BY <1>2
<1>4. decisions \in Seq([id: Nat, status: Status, confidence: ConfidenceIn]) /\ DOMAIN decisions = {}
  BY <1>2
<1>5. tasks = [t \in TaskId |-> tasks[t]] /\ \A t \in TaskId : tasks[t] = NoTask
  BY <1>2
<1>6. today \in Nat \ {0} /\ history \subseteq (1..today) \X TaskId
  BY <1>2
<1> QED
  BY <1>1, <1>3, <1>4, <1>5, <1>6 DEF DecisionInv

LEMMA Traced == DecisionInv /\ TraceNext => DecisionInv'
<1> SUFFICES ASSUME DecisionInv, TraceNext PROVE DecisionInv'
  OBVIOUS
<1>0. /\ answers \in Seq(BOOLEAN) /\ UNCHANGED <<decisions, tasks, history, today>>
      /\ trace = NoTask \/ trace = <<"TECHNICAL_DECISION">> \/ trace[1] = "CONCEPT_EXTRACTION"
      /\ (trace = <<"TECHNICAL_DECISION">>) => (TRUE \in Range(answers))
  BY DEF DecisionInv, TraceNext, logArchitecturalDecision, TraceRouting, Obstruct, taskVars
<1>1. ASSUME NEW b \in BOOLEAN
      PROVE  /\ Append(answers, b) \in Seq(BOOLEAN)
             /\ Range(Append(answers, b)) = Range(answers) \cup {b}
  <2>1. Range(Append(answers, b)) = Range(answers) \cup {b}
    BY <1>0, RangeAppended, Zenon
  <2>2. Append(answers, b) \in Seq(BOOLEAN)
    BY <1>0
  <2> QED
    BY <2>1, <2>2
<1>2. ASSUME NEW a \in 0..1, NEW e \in 0..1, logArchitecturalDecision(a, e)
      PROVE  DecisionInv'
  <2> DEFINE complete == a # 0 /\ e # 0
  <2>1. /\ answers' = Append(answers, complete)
        /\ IF complete THEN Persist(<<"TECHNICAL_DECISION">>) ELSE UNCHANGED trace
    BY <1>2 DEF logArchitecturalDecision
  <2>2. complete \in BOOLEAN
    OBVIOUS
  <2> HIDE DEF complete
  <2>3. CASE complete = TRUE
    <3>1. trace' \in {trace, <<"TECHNICAL_DECISION">>}
      BY <2>1, <2>3 DEF Persist
    <3>2. answers' \in Seq(BOOLEAN) /\ Range(answers') = Range(answers) \cup {TRUE}
      BY <1>1, <2>1, <2>3
    <3> QED
      BY <1>0, <3>1, <3>2 DEF DecisionInv
  <2>4. CASE complete = FALSE
    <3>1. trace' = trace
      BY <2>1, <2>4
    <3>2. answers' \in Seq(BOOLEAN) /\ Range(answers') = Range(answers) \cup {FALSE}
      BY <1>1, <2>1, <2>4
    <3> QED
      BY <1>0, <3>1, <3>2 DEF DecisionInv
  <2> QED
    BY <2>2, <2>3, <2>4
<1>3. ASSUME NEW n \in 0..1, TraceRouting(n) PROVE DecisionInv'
  <2> DEFINE Logged == {"CONCEPT_EXTRACTION", "CANDIDATE_RETRIEVAL", "SELECTION_DECISION"}
             head == <<"CONCEPT_EXTRACTION", "CANDIDATE_RETRIEVAL">>
             rest == [k \in 1..n |-> "SELECTION_DECISION"]
  <2>1. trace' = IF writable THEN head \o rest ELSE trace
    BY <1>3 DEF TraceRouting, Persist
  <2>2. /\ rest \in Seq(Logged) /\ head \in Seq(Logged) /\ Len(head) = 2
        /\ head[1] = "CONCEPT_EXTRACTION"
    <3>1. rest \in [1..n -> Logged] /\ n \in Nat
      OBVIOUS
    <3>2. rest \in Seq(Logged)
      <4> HIDE DEF rest, Logged
      <4> QED
        BY <3>1, SeqDef
    <3>3. head \in Seq(Logged) /\ Len(head) = 2 /\ head[1] = "CONCEPT_EXTRACTION"
      OBVIOUS
    <3> QED
      BY <3>2, <3>3
  <2>3. (head \o rest)[1] = "CONCEPT_EXTRACTION"
    <3> HIDE DEF head, rest, Logged
    <3> QED
      BY <2>2, FirstOfBoth
  <2>4. head \o rest # <<"TECHNICAL_DECISION">>
    BY <2>3
  <2> HIDE DEF head, rest
  <2>5. answers' = answers
    BY <1>3 DEF TraceRouting
  <2>6. CASE trace' = head \o rest
    BY <1>0, <2>3, <2>4, <2>5, <2>6 DEF DecisionInv
  <2>7. CASE trace' = trace
    BY <1>0, <2>5, <2>7 DEF DecisionInv
  <2> QED
    BY <2>1, <2>6, <2>7
<1>4. CASE Obstruct
  BY <1>0, <1>4 DEF Obstruct, DecisionInv
<1> QED
  BY <1>2, <1>3, <1>4 DEF TraceNext

LEMMA Audited == DecisionInv /\ AuditNext => DecisionInv'
<1> SUFFICES ASSUME DecisionInv, NEW s \in Status, NEW c \in ConfidenceIn,
                    auditDecision(s, c) \/ \E id \in 1..MaxLogged : resolveDecision(id, s, c)
             PROVE  DecisionInv'
  BY DEF AuditNext
<1> DEFINE Audit == [id: Nat, status: Status, confidence: ConfidenceIn]
<1>0. decisions \in Seq(Audit) /\ \A k \in DOMAIN decisions : decisions[k].id = k
  BY DEF DecisionInv
<1>1. UNCHANGED <<trace, answers, tasks, history, today>>
  <2>1. CASE auditDecision(s, c)
    BY <2>1 DEF auditDecision, taskVars
  <2>2. ASSUME NEW id \in 1..MaxLogged, resolveDecision(id, s, c)
        PROVE  UNCHANGED <<trace, answers, tasks, history, today>>
    BY <2>2, Zenon DEF resolveDecision, taskVars
  <2> QED
    BY <2>1, <2>2
<1>2. decisions' \in Seq(Audit) /\ \A k \in DOMAIN decisions' : decisions'[k].id = k
  <2>1. CASE auditDecision(s, c)
    <3> DEFINE d == [id |-> Len(decisions) + 1, status |-> s, confidence |-> c]
    <3>1. decisions' = Append(decisions, d)
      BY <2>1 DEF auditDecision
    <3>2. d \in Audit /\ d.id = Len(decisions) + 1
      BY <1>0
    <3> HIDE DEF d, Audit
    <3> QED
      BY <1>0, <3>1, <3>2
  <2>2. ASSUME NEW k \in DOMAIN decisions,
               decisions' = [decisions EXCEPT ![k] =
                 [decisions[k] EXCEPT !.status = s, !.confidence = c]]
        PROVE  decisions' \in Seq(Audit) /\ \A j \in DOMAIN decisions' : decisions'[j].id = j
    <3> DEFINE d == [decisions[k] EXCEPT !.status = s, !.confidence = c]
    <3>1. decisions[k] \in Audit
      BY <1>0, Members, Zenon
    <3>2. d \in Audit /\ d.id = k
      BY <1>0, <3>1
    <3>3. decisions' = [decisions EXCEPT ![k] = d]
      BY <2>2, <3>1
    <3> HIDE DEF d, Audit
    <3> QED
      BY <1>0, <3>2, <3>3
  <2>3. ASSUME NEW id \in 1..MaxLogged, resolveDecision(id, s, c)
        PROVE  decisions' \in Seq(Audit) /\ \A j \in DOMAIN decisions' : decisions'[j].id = j
    <3> HIDE DEF Audit
    <3>1. PICK k \in DOMAIN decisions :
             decisions' = [decisions EXCEPT ![k] =
                             [decisions[k] EXCEPT !.status = s, !.confidence = c]]
      BY <2>3, Zenon DEF resolveDecision
    <3> QED
      BY <2>2, <3>1, Zenon
  <2> HIDE DEF Audit
  <2> QED
    BY <2>1, <2>3
<1> QED
  BY <1>1, <1>2 DEF DecisionInv

LEMMA Archived == DecisionInv /\ ArchiveNext => DecisionInv'
<1> SUFFICES ASSUME DecisionInv, ArchiveNext PROVE DecisionInv'
  OBVIOUS
<1> DEFINE Is(t, v) == v # NoTask =>
             v \in [summary: Summary, phase: {"ACTIVE", "DONE"},
                    offered: {NoTask} \cup (TaskId \ {t})]
<1>1. UNCHANGED <<trace, answers, decisions>>
  BY DEF ArchiveNext, TakePrompt, EndTask, archiveTaskSession, NextDay, trailVars
<1>2. /\ tasks = [t \in TaskId |-> tasks[t]]
      /\ \A t \in TaskId : Is(t, tasks[t])
      /\ today \in Nat \ {0} /\ history \subseteq (1..today) \X TaskId
  BY DEF DecisionInv
<1>3. ASSUME \A t \in TaskId : Is(t, tasks'[t]), tasks' = [t \in TaskId |-> tasks'[t]],
             today' \in Nat \ {0}, history' \subseteq (1..today') \X TaskId
      PROVE  DecisionInv'
  BY <1>1, <1>3 DEF DecisionInv
<1>4. ASSUME NEW t \in TaskId, NEW v, tasks' = [tasks EXCEPT ![t] = v], Is(t, v)
      PROVE  (\A u \in TaskId : Is(u, tasks'[u])) /\ tasks' = [u \in TaskId |-> tasks'[u]]
  BY <1>2, <1>4
<1> HIDE DEF Is
<1>5. ASSUME NEW t \in TaskId, NEW s \in Summary, TakePrompt(t, s) PROVE DecisionInv'
  <2> DEFINE same == {u \in TaskId : Active(u) /\ tasks[u].summary = s}
  <2>1. findDuplicateTask(s) \in {NoTask} \cup TaskId
    <3>1. CASE same = {}
      BY <3>1 DEF findDuplicateTask
    <3>2. CASE same # {}
      <4>1. same \in SUBSET Nat
        BY DecisionAssumption
      <4>2. \E u \in same : \A v \in same : u <= v
        <5> HIDE DEF same
        <5> QED
          BY <3>2, <4>1, Least
      <4>3. findDuplicateTask(s) = CHOOSE u \in same : \A v \in same : u <= v
        BY <3>2 DEF findDuplicateTask
      <4>4. findDuplicateTask(s) \in same
        <5> HIDE DEF same
        <5> QED
          BY <4>2, <4>3
      <4> QED
        BY <4>4
    <3> QED
      BY <3>1, <3>2
  <2>2. /\ tasks' = [tasks EXCEPT ![t] = [summary |-> s, phase |-> "ACTIVE",
                       offered |-> IF findDuplicateTask(s) = t THEN NoTask
                                   ELSE findDuplicateTask(s)]]
        /\ history' = history /\ today' = today
    BY <1>5 DEF TakePrompt
  <2> QED
    BY <1>2, <1>3, <1>4, <2>1, <2>2 DEF Is
<1>6. ASSUME NEW t \in TaskId, EndTask(t) PROVE DecisionInv'
  <2>1. /\ tasks[t] # NoTask /\ history' = history /\ today' = today
        /\ tasks' = [tasks EXCEPT ![t].phase = "DONE"]
    BY <1>6 DEF EndTask, Active
  <2>2. tasks' = [tasks EXCEPT ![t] = [tasks[t] EXCEPT !.phase = "DONE"]]
    BY <2>1
  <2>3. Is(t, [tasks[t] EXCEPT !.phase = "DONE"])
    BY <1>2, <2>1 DEF Is
  <2> QED
    BY <1>2, <1>3, <1>4, <2>1, <2>2, <2>3
<1>7. ASSUME NEW t \in TaskId, archiveTaskSession(t) PROVE DecisionInv'
  <2>1. CASE <<today, t>> \in history
    BY <1>2, <1>3, <1>7, <2>1 DEF archiveTaskSession
  <2>2. CASE <<today, t>> \notin history
    <3>1. /\ tasks' = [tasks EXCEPT ![t] = NoTask] /\ today' = today
          /\ history' = history \cup {<<today, t>>} /\ tasks[t] # NoTask
      BY <1>7, <2>2 DEF archiveTaskSession
    <3>2. <<today, t>> \in (1..today) \X TaskId
      BY <1>2
    <3> QED
      BY <1>2, <1>3, <1>4, <3>1, <3>2 DEF Is
  <2> QED
    BY <2>1, <2>2
<1>8. CASE NextDay
  <2>1. today' = today + 1 /\ tasks' = tasks /\ history' = history
    BY <1>8 DEF NextDay
  <2>2. today' \in Nat \ {0} /\ 1..today \subseteq 1..today'
    BY <1>2, <2>1
  <2>3. history' \subseteq (1..today') \X TaskId
    BY <1>2, <2>1, <2>2
  <2>4. (\A t \in TaskId : Is(t, tasks'[t])) /\ tasks' = [t \in TaskId |-> tasks'[t]]
    <3>1. tasks' = [t \in TaskId |-> tasks'[t]]
      <4>1. tasks = [t \in TaskId |-> tasks[t]]
        BY <1>2
      <4> QED
        BY <2>1, <4>1, Zenon
    <3>2. ASSUME NEW t \in TaskId PROVE Is(t, tasks'[t])
      BY <1>2, <2>1 DEF Is
    <3> QED
      BY <3>1, <3>2
  <2> QED
    BY <1>3, <2>2, <2>3, <2>4
<1> QED
  BY <1>5, <1>6, <1>7, <1>8 DEF ArchiveNext

LEMMA DecisionKeeps == DecisionInv /\ [DecisionNext]_decisionVars => DecisionInv'
<1> SUFFICES ASSUME DecisionInv, UNCHANGED decisionVars PROVE DecisionInv'
  BY Traced, Audited, Archived DEF DecisionNext
<1> QED
  BY DEF decisionVars, DecisionInv, Range

LEMMA DecisionTyped == DecisionInv => DecisionTypeOK
<1> SUFFICES ASSUME DecisionInv PROVE DecisionTypeOK
  OBVIOUS
<1>1. ASSUME auditGate, NEW k \in DOMAIN decisions
      PROVE  decisions[k].status \in {"accepted", "rejected"}
  <2>1. decisions \in Seq([id: Nat, status: Status, confidence: ConfidenceIn])
    BY DEF DecisionInv
  <2>3. /\ decisions[k] \in Range(decisions)
        /\ decisions[k] \in [id: Nat, status: Status, confidence: ConfidenceIn]
    BY <2>1, Members, Zenon
  <2>2. decisions[k].status # "provisional"
    BY <1>1, <2>3 DEF auditGate, blocking
  <2> QED
    BY <2>2, <2>3 DEF Status
<1> QED
  BY <1>1 DEF DecisionTypeOK, DecisionInv

\* Whoever traces, audits, resolves or archives, in any order: what was told of the
\* trace is in it, every audited decision can be found by its id, and no task is
\* offered itself (context-decision-audit.js; engine.js: findDuplicateTask,
\* archiveTaskSession).
THEOREM AlwaysDecisionTyped == DecisionSpec => []DecisionTypeOK
  BY DecisionStarts, DecisionKeeps, DecisionTyped, PTL DEF DecisionSpec

-----------------------------------------------------------------------------
(* Observations and where they come from.                                  *)

Observation == [source: Source, parent: {Unset} \cup Nat, confidence: Int]

\* What is derived is later, no more certain than its parent and never more than
\* its source allows.
Derived(k) ==
  LET p == made[k].parent
  IN  p # Unset => /\ p \in 1..(k - 1)
                   /\ made[k].confidence <= made[p].confidence
                   /\ made[k].confidence <= 10
                   /\ made[p].confidence >= 0 => made[k].confidence >= 0

\* Only the last line of the file may be torn.
TornLast ==
  /\ obsFile \in Seq(0..MaxObserved)
  /\ \A k \in 1..(Len(obsFile) - 1) : obsFile[k] # Partial

ProvenanceInv ==
  /\ made \in Seq(Observation) /\ \A k \in DOMAIN made : Derived(k)
  /\ TornLast /\ cuts \in 0..MaxCuts

LEMMA ProvenanceStarts == ProvenanceInit => ProvenanceInv
  BY ProvenanceAssumption DEF ProvenanceInit, ProvenanceInv, TornLast

LEMMA LeastOfTwo ==
  ASSUME NEW a \in Int, NEW b \in Int
  PROVE  Min({a, b}) \in {a, b} /\ Min({a, b}) <= a /\ Min({a, b}) <= b
<1>1. \E x \in {a, b} : \A y \in {a, b} : x <= y
  OBVIOUS
<1>2. Min({a, b}) \in {a, b} /\ \A y \in {a, b} : Min({a, b}) <= y
  BY <1>1 DEF Min
<1> QED
  BY <1>2

LEMMA DefaultIs ==
  ASSUME NEW s \in Source
  PROVE  DEFAULT_CONFIDENCE[s] \in Int /\ DEFAULT_CONFIDENCE[s] \in 0..10
BY DEF DEFAULT_CONFIDENCE, Source

\* One more, that is as it should be of those before it.
LEMMA OneMade ==
  ASSUME ProvenanceInv, NEW o \in Observation, made' = Append(made, o),
         o.parent # Unset =>
           /\ o.parent \in DOMAIN made /\ o.confidence <= made[o.parent].confidence
           /\ o.confidence <= 10
           /\ made[o.parent].confidence >= 0 => o.confidence >= 0,
         UNCHANGED <<obsFile, cuts>>
  PROVE  ProvenanceInv'
<1>1. /\ made \in Seq(Observation) /\ Len(made) \in Nat /\ DOMAIN made = 1..Len(made)
      /\ \A k \in DOMAIN made : Derived(k)
  BY DEF ProvenanceInv
<1> HIDE DEF Observation
<1>2. /\ made' \in Seq(Observation) /\ DOMAIN made' = 1..(Len(made) + 1)
      /\ \A k \in 1..Len(made) : made'[k] = made[k]
      /\ made'[Len(made) + 1] = o
  BY <1>1
<1>3. ASSUME NEW k \in 1..Len(made) PROVE Derived(k)'
  <2>1. Derived(k) /\ made'[k] = made[k]
    BY <1>1, <1>2
  <2>2. made[k].parent # Unset => made[k].parent \in 1..Len(made)
    BY <1>1, <2>1 DEF Derived
  <2>3. made[k].parent # Unset => made'[made[k].parent] = made[made[k].parent]
    BY <1>2, <2>2
  <2> QED
    BY <2>1, <2>3 DEF Derived
<1>4. ASSUME NEW k, k = Len(made) + 1 PROVE Derived(k)'
  <2>1. o.parent # Unset => o.parent \in 1..Len(made) /\ made'[o.parent] = made[o.parent]
    BY <1>1, <1>2
  <2>2. made'[k] = o /\ k \in Nat /\ Len(made) = k - 1
    BY <1>1, <1>2, <1>4
  <2> QED
    BY <1>1, <1>2, <2>1, <2>2 DEF Derived
<1>5. \A k \in 1..(Len(made) + 1) : k \in 1..Len(made) \/ k = Len(made) + 1
  BY <1>1
<1>6. ASSUME NEW k \in DOMAIN made' PROVE Derived(k)'
  <2>1. k \in 1..Len(made) \/ k = Len(made) + 1
    BY <1>2, <1>5
  <2> QED
    BY <2>1, <1>3, <1>4
<1>7. TornLast' /\ cuts' \in 0..MaxCuts
  BY DEF ProvenanceInv, TornLast
<1> QED
  BY <1>2, <1>6, <1>7 DEF ProvenanceInv, Observation

LEMMA ObserveKeeps == ProvenanceInv /\ ObserveNext => ProvenanceInv'
<1> SUFFICES ASSUME ProvenanceInv, ObserveNext PROVE ProvenanceInv'
  OBVIOUS
<1>1. ASSUME NEW s \in Source, NEW c \in Confidence \cup {Unset}, createObservation(s, c, Unset)
      PROVE  ProvenanceInv'
  <2> DEFINE o == [source |-> s, parent |-> Unset,
                   confidence |-> IF c = Unset THEN DEFAULT_CONFIDENCE[s] ELSE c]
  <2>1. o \in Observation /\ o.parent = Unset
    BY DefaultIs, ProvenanceAssumption DEF Observation
  <2>2. made' = Append(made, o) /\ UNCHANGED <<obsFile, cuts>>
    BY <1>1 DEF createObservation
  <2> HIDE DEF o
  <2> QED
    BY <2>1, <2>2, OneMade
<1>2. ASSUME NEW p \in DOMAIN made, NEW s \in Source, deriveObservation(p, s)
      PROVE  ProvenanceInv'
  <2> DEFINE least == Min({made[p].confidence, DEFAULT_CONFIDENCE[s]})
             o == [source |-> s, parent |-> p, confidence |-> least]
  <2>1. made \in Seq(Observation)
    BY DEF ProvenanceInv
  <2>2. made[p] \in Observation /\ p \in Nat
    <3>1. made[p] \in Observation
      BY <2>1, Members, Zenon
    <3>2. p \in 1..Len(made) /\ Len(made) \in Nat
      BY <2>1
    <3> QED
      BY <3>1, <3>2
  <2>3. made[p].confidence \in Int
    BY <2>2 DEF Observation
  <2>4. /\ least \in {made[p].confidence, DEFAULT_CONFIDENCE[s]}
        /\ least <= made[p].confidence /\ least <= DEFAULT_CONFIDENCE[s]
    BY <2>3, DefaultIs, LeastOfTwo
  <2>5. made' = Append(made, [source |-> s, parent |-> p,
                              confidence |-> IF least = Unset THEN DEFAULT_CONFIDENCE[s]
                                             ELSE least])
        /\ UNCHANGED <<obsFile, cuts>>
    BY <1>2 DEF deriveObservation, createObservation
  <2> HIDE DEF least
  <2>6. least \in Int /\ least # Unset
    BY <2>3, <2>4, DefaultIs, ProvenanceAssumption
  <2>7. made' = Append(made, o)
    BY <2>5, <2>6
  <2>8. o \in Observation /\ o.parent = p /\ o.confidence = least
    BY <2>2, <2>6 DEF Observation
  <2>9. least <= 10 /\ (made[p].confidence >= 0 => least >= 0)
    BY <2>3, <2>4, DefaultIs
  <2> HIDE DEF o
  <2> QED
    BY <2>4, <2>5, <2>7, <2>8, <2>9, OneMade
<1> QED
  BY <1>1, <1>2 DEF ObserveNext

LEMMA Numbers ==
  ASSUME NEW n \in 0..MaxObserved
  PROVE  /\ [k \in 1..n |-> k] \in Seq(1..MaxObserved) /\ Len([k \in 1..n |-> k]) = n
<1>1. [k \in 1..n |-> k] \in [1..n -> 1..MaxObserved] /\ n \in Nat
  BY ProvenanceAssumption
<1> DEFINE s == [k \in 1..n |-> k]
<1>2. DOMAIN s = 1..n
  OBVIOUS
<1> HIDE DEF s
<1>3. s \in Seq(1..MaxObserved)
  BY <1>1, SeqDef DEF s
<1>4. Len(s) = n
  BY <1>1, <1>2, <1>3, LenProperties
<1> QED
  BY <1>3, <1>4 DEF s

LEMMA LineAdded ==
  ASSUME NEW s \in Seq(1..MaxObserved), NEW line \in 0..MaxObserved
  PROVE  /\ Append(s, line) \in Seq(0..MaxObserved)
         /\ \A k \in 1..(Len(Append(s, line)) - 1) : Append(s, line)[k] # Partial
<1>1. /\ s \in Seq(0..MaxObserved) /\ Len(s) \in Nat
      /\ \A k \in 1..Len(s) : s[k] \in 1..MaxObserved
  <2>1. 1..MaxObserved \subseteq 0..MaxObserved
    BY ProvenanceAssumption
  <2>2. s \in Seq(0..MaxObserved)
    BY <2>1, Widened, Zenon
  <2>3. Len(s) \in Nat /\ DOMAIN s = 1..Len(s)
    OBVIOUS
  <2>4. \A k \in DOMAIN s : s[k] \in 1..MaxObserved
    BY Members, Zenon
  <2> QED
    BY <2>2, <2>3, <2>4
<1>2. /\ Append(s, line) \in Seq(0..MaxObserved) /\ Len(Append(s, line)) = Len(s) + 1
      /\ \A k \in 1..Len(s) : Append(s, line)[k] = s[k]
  BY <1>1
<1> QED
  BY <1>1, <1>2 DEF Partial

LEMMA ExtendedIs ==
  ASSUME TornLast, NEW line \in 0..MaxObserved
  PROVE  /\ Extended(line) \in Seq(0..MaxObserved)
         /\ \A k \in 1..(Len(Extended(line)) - 1) : Extended(line)[k] # Partial
<1>1. /\ obsFile \in Seq(0..MaxObserved) /\ Len(obsFile) \in Nat /\ DOMAIN obsFile = 1..Len(obsFile)
      /\ \A k \in 1..(Len(obsFile) - 1) : obsFile[k] # Partial
  BY DEF TornLast
<1>2. CASE obsFile # <<>> /\ Last(obsFile) = Partial
  BY <1>1, <1>2 DEF Extended
<1>3. CASE ~(obsFile # <<>> /\ Last(obsFile) = Partial)
  <2>1. Extended(line) = Append(obsFile, line)
    BY <1>3 DEF Extended
  <2>2. ASSUME NEW k \in 1..Len(obsFile) PROVE obsFile[k] \in 1..MaxObserved
    <3>1. obsFile[k] # Partial
      <4>1. CASE k = Len(obsFile)
        BY <1>1, <1>3, <4>1 DEF Last
      <4>2. CASE k # Len(obsFile)
        <5>0. Len(obsFile) \in Nat
          BY <1>1
        <5>1. k \in 1..(Len(obsFile) - 1)
          BY <4>2, <5>0
        <5> QED
          BY <1>1, <5>1
      <4> QED
        BY <4>1, <4>2
    <3> QED
      BY <1>1, <3>1, ProvenanceAssumption DEF Partial
  <2>3. obsFile \in Seq(1..MaxObserved)
    <3>1. obsFile \in [1..Len(obsFile) -> 1..MaxObserved]
      BY <1>1, <2>2
    <3> QED
      BY <1>1, <3>1, FunctionIsSeq, Zenon
  <2> QED
    BY <2>1, <2>3, LineAdded
<1> QED
  BY <1>2, <1>3

LEMMA ObsFileKeeps == ProvenanceInv /\ ObsFileNext => ProvenanceInv'
<1> SUFFICES ASSUME ProvenanceInv, ObsFileNext PROVE ProvenanceInv'
  OBVIOUS
<1> USE ProvenanceAssumption
<1>1. made' = made
  BY DEF ObsFileNext, appendObservation, saveObservations, TearFile
<1>2. TornLast /\ cuts \in 0..MaxCuts
  BY DEF ProvenanceInv
<1>3. ASSUME TornLast', cuts' \in 0..MaxCuts PROVE ProvenanceInv'
  BY <1>1, <1>3 DEF ProvenanceInv, Derived
<1>4. ASSUME NEW k \in Observed \ Range(obsFile), appendObservation(k) PROVE ProvenanceInv'
  <2>1. k \in 0..MaxObserved /\ obsFile' = Extended(k) /\ cuts' = cuts
    BY <1>4 DEF Observed, appendObservation
  <2>2. TornLast'
    BY <1>2, <2>1, ExtendedIs DEF TornLast
  <2> QED
    BY <1>2, <1>3, <2>1, <2>2
<1>5. ASSUME NEW n \in Observed, saveObservations([k \in 1..n |-> k]) PROVE ProvenanceInv'
  <2>1. n \in 0..MaxObserved /\ obsFile' = [k \in 1..n |-> k] /\ cuts' = cuts
    BY <1>5 DEF Observed, saveObservations
  <2>2. obsFile' \in Seq(1..MaxObserved)
    BY <2>1, Numbers
  <2>3. 1..MaxObserved \subseteq 0..MaxObserved /\ \A k \in 1..MaxObserved : k # Partial
    BY DEF Partial
  <2>4. obsFile' \in Seq(0..MaxObserved)
    BY <2>2, <2>3, Widened
  <2>5. \A k \in 1..(Len(obsFile') - 1) : obsFile'[k] # Partial
    BY <2>2, <2>3
  <2> QED
    BY <1>2, <1>3, <2>1, <2>4, <2>5 DEF TornLast
<1>6. CASE TearFile
  <2>1. cuts' \in 0..MaxCuts
    BY <1>2, <1>6 DEF TearFile
  <2>2. TornLast'
    <3>1. CASE obsFile' = Extended(Partial)
      <4>1. Partial \in 0..MaxObserved
        BY DEF Partial
      <4> QED
        BY <1>2, <3>1, <4>1, ExtendedIs DEF TornLast
    <3>2. ASSUME NEW n \in {0} \cup Observed, obsFile' = Append([k \in 1..n |-> k], Partial)
          PROVE  TornLast'
      <4>1. n \in 0..MaxObserved /\ Partial \in 0..MaxObserved
        BY DEF Observed, Partial
      <4>2. [k \in 1..n |-> k] \in Seq(1..MaxObserved)
        BY <4>1, Numbers
      <4> QED
        BY <3>2, <4>1, <4>2, LineAdded DEF TornLast
    <3> QED
      BY <1>6, <3>1, <3>2 DEF TearFile
  <2> QED
    BY <1>3, <2>1, <2>2
<1> QED
  BY <1>4, <1>5, <1>6 DEF ObsFileNext

LEMMA ProvenanceKeeps == ProvenanceInv /\ [ProvenanceNext]_provenanceVars => ProvenanceInv'
<1> SUFFICES ASSUME ProvenanceInv, UNCHANGED provenanceVars PROVE ProvenanceInv'
  BY ObserveKeeps, ObsFileKeeps DEF ProvenanceNext
<1> QED
  BY DEF provenanceVars, ProvenanceInv, Derived, TornLast

\* A family of those no less certain holds its parents.
LEMMA DescentIs ==
  ASSUME ProvenanceInv, NEW k \in DOMAIN made
  PROVE  /\ \A a \in Descent(k) : made[k].confidence <= made[a].confidence
         /\ made[k].parent # Unset => made[k].parent \in Descent(k)
<1> DEFINE family == {a \in DOMAIN made : made[k].confidence <= made[a].confidence}
<1>1. /\ made \in Seq(Observation) /\ Len(made) \in Nat /\ DOMAIN made = 1..Len(made)
      /\ \A j \in DOMAIN made : Derived(j)
  BY DEF ProvenanceInv
<1>2. ASSUME NEW j \in DOMAIN made PROVE made[j].confidence \in Int
  <2>1. made[j] \in Observation
    BY <1>1, Members, Zenon
  <2> QED
    BY <2>1 DEF Observation
<1>3. ASSUME NEW j \in {k} \cup family, made[j].parent # Unset
      PROVE  made[j].parent \in family
  <2>1. j \in DOMAIN made /\ made[k].confidence <= made[j].confidence
    BY <1>2
  <2>2. made[j].parent \in 1..(j - 1) /\ made[j].confidence <= made[made[j].parent].confidence
    BY <1>1, <1>3, <2>1 DEF Derived
  <2>3. made[j].parent \in DOMAIN made
    BY <1>1, <2>1, <2>2
  <2>4. made[k].confidence <= made[made[j].parent].confidence
    BY <1>2, <2>1, <2>2, <2>3
  <2> QED
    BY <2>3, <2>4
<1>4. {made[j].parent : j \in {k} \cup family} \subseteq family \cup {Unset}
  BY <1>3
<1>5. ASSUME NEW a \in Descent(k) PROVE made[k].confidence <= made[a].confidence
  <2>1. family \in SUBSET DOMAIN made
    OBVIOUS
  <2>2. a \in family
    <3> HIDE DEF family
    <3> QED
      BY <1>4, <2>1 DEF Descent
  <2> QED
    BY <2>2
<1>6. ASSUME made[k].parent # Unset PROVE made[k].parent \in Descent(k)
  <2>1. made[k].parent \in DOMAIN made
    BY <1>1, <1>6 DEF Derived
  <2>2. ASSUME NEW f \in SUBSET DOMAIN made,
               {made[j].parent : j \in {k} \cup f} \subseteq f \cup {Unset}
        PROVE  made[k].parent \in f
    BY <1>6, <2>2
  <2> QED
    BY <2>1, <2>2 DEF Descent
<1> QED
  BY <1>5, <1>6

LEMMA LoadedAre ==
  ASSUME TornLast
  PROVE  Cardinality(loadObservations) + 1 >= Len(obsFile)
<1>1. /\ Len(obsFile) \in Nat /\ DOMAIN obsFile = 1..Len(obsFile)
      /\ \A k \in 1..(Len(obsFile) - 1) : obsFile[k] # Partial
  BY DEF TornLast
<1>2. IsFiniteSet(DOMAIN obsFile)
  BY <1>1, IntervalSize
<1>3. IsFiniteSet(loadObservations)
  <2>1. loadObservations \subseteq DOMAIN obsFile
    BY DEF loadObservations
  <2> QED
    BY <1>2, <2>1, FS_Subset
<1>4. Cardinality(loadObservations) \in Nat
  BY <1>3, FS_CardinalityType
<1>5. CASE Len(obsFile) = 0
  BY <1>4, <1>5
<1>6. CASE Len(obsFile) # 0
  <2>1. Len(obsFile) - 1 \in Nat
    BY <1>1, <1>6
  <2>2. 1..(Len(obsFile) - 1) \subseteq loadObservations
    BY <1>1 DEF loadObservations
  <2>3. Cardinality(1..(Len(obsFile) - 1)) = Len(obsFile) - 1
    BY <2>1, IntervalSize
  <2>4. Cardinality(1..(Len(obsFile) - 1)) <= Cardinality(loadObservations)
    BY <1>3, <2>2, FS_Subset
  <2> QED
    BY <1>1, <1>4, <2>3, <2>4
<1> QED
  BY <1>5, <1>6

LEMMA ProvenanceTyped == ProvenanceInv => ProvenanceTypeOK
<1> SUFFICES ASSUME ProvenanceInv PROVE ProvenanceTypeOK
  OBVIOUS
<1>1. /\ made \in Seq(Observation) /\ Len(made) \in Nat /\ DOMAIN made = 1..Len(made)
      /\ TornLast /\ cuts \in 0..MaxCuts /\ \A k \in DOMAIN made : Derived(k)
  BY DEF ProvenanceInv
<1>2. \A k \in DOMAIN made : made[k] \in Observation
  BY <1>1, Members
<1>3. ASSUME NEW k \in DOMAIN made
      PROVE  /\ made[k].source \in Source
             /\ made[k].parent \in {Unset} \cup 1..(k - 1)
             /\ made[k].parent # Unset /\ (\A a \in Descent(k) : made[a].confidence >= 0) =>
                  validateObservation(made[k])
             /\ \A a \in Descent(k) :
                  /\ made[k].confidence <= made[a].confidence
                  /\ canPromoteObservation(made[k], "L1") => made[a].confidence >= 6
  <2>1. made[k].source \in Source /\ made[k].parent \in {Unset} \cup 1..(k - 1)
    BY <1>1, <1>2 DEF Derived, Observation
  <2>2. ASSUME NEW a \in Descent(k)
        PROVE  /\ made[k].confidence <= made[a].confidence
               /\ canPromoteObservation(made[k], "L1") => made[a].confidence >= 6
    <3>1. made[k].confidence <= made[a].confidence
      BY DescentIs
    <3>2. made[k].confidence \in Int /\ made[a].confidence \in Int
      BY <1>2 DEF Observation, Descent
    <3> QED
      BY <3>1, <3>2 DEF canPromoteObservation
  <2>3. ASSUME made[k].parent # Unset, \A a \in Descent(k) : made[a].confidence >= 0
        PROVE  validateObservation(made[k])
    <3>1. made[made[k].parent].confidence >= 0
      BY <2>3, DescentIs
    <3>2. made[k].confidence \in Int /\ made[k].confidence <= 10 /\ made[k].confidence >= 0
      BY <1>1, <1>2, <2>3, <3>1 DEF Derived, Observation
    <3> QED
      BY <3>2 DEF validateObservation
  <2> QED
    BY <2>1, <2>2, <2>3
<1>4. \A k \in DOMAIN obsFile :
        obsFile[k] \in Observed \cup (IF k = Len(obsFile) THEN {Partial} ELSE {})
  BY <1>1, ProvenanceAssumption DEF TornLast, Observed, Partial
<1> QED
  BY <1>1, <1>3, <1>4, LoadedAre DEF ProvenanceTypeOK

\* Whatever is observed, derived, relabelled, appended and torn: certainty never
\* grows along a descent, so that L1 is out of reach of what began below it, and a
\* file that was torn keeps all that stands before the tear
\* (observation-provenance.js).
THEOREM AlwaysProvenanceTyped == ProvenanceSpec => []ProvenanceTypeOK
  BY ProvenanceStarts, ProvenanceKeeps, ProvenanceTyped, PTL DEF ProvenanceSpec

-----------------------------------------------------------------------------
(* Loops.                                                                  *)

LEMMA LastPart ==
  ASSUME NEW A, NEW s \in Seq(A), NEW m \in 1..(Len(s) + 1)
  PROVE  /\ SubSeq(s, m, Len(s)) \in Seq(A)
         /\ Len(SubSeq(s, m, Len(s))) = Len(s) - m + 1
         /\ \A k \in DOMAIN SubSeq(s, m, Len(s)) :
              k + m - 1 \in DOMAIN s /\ SubSeq(s, m, Len(s))[k] = s[k + m - 1]
<1>1. Len(s) \in Nat /\ DOMAIN s = 1..Len(s) /\ m \in Nat
  OBVIOUS
<1>2. SubSeq(s, m, Len(s)) = [k \in 1..(Len(s) - m + 1) |-> s[k + m - 1]]
  <2>1. SubSeq(s, m, Len(s)) = [k \in 1..(1 + Len(s) - m) |-> s[k + m - 1]]
    BY <1>1
  <2> QED
    BY <1>1, <2>1
<1>3. Len(s) - m + 1 \in Nat
  BY <1>1
<1>4. \A k \in 1..(Len(s) - m + 1) : k + m - 1 \in DOMAIN s /\ s[k + m - 1] \in A
  BY <1>1
<1>5. [k \in 1..(Len(s) - m + 1) |-> s[k + m - 1]] \in [1..(Len(s) - m + 1) -> A]
  BY <1>4
<1>6. /\ SubSeq(s, m, Len(s)) \in Seq(A) /\ Len(SubSeq(s, m, Len(s))) = Len(s) - m + 1
      /\ DOMAIN SubSeq(s, m, Len(s)) = 1..(Len(s) - m + 1)
  BY <1>2, <1>3, <1>5, FunctionIsSeq, Zenon
<1> QED
  BY <1>2, <1>4, <1>6

\* The places of a sequence at which something holds are no more than it has.
LEMMA SomePlaces ==
  ASSUME NEW A, NEW s \in Seq(A), NEW P \in SUBSET DOMAIN s
  PROVE  IsFiniteSet(P) /\ Cardinality(P) \in Nat /\ Cardinality(P) <= Len(s)
<1>1. Len(s) \in Nat /\ DOMAIN s = 1..Len(s)
  OBVIOUS
<1>2. IsFiniteSet(1..Len(s)) /\ Cardinality(1..Len(s)) = Len(s)
  BY <1>1, IntervalSize
<1>3. P \in SUBSET (1..Len(s))
  BY <1>1
<1>4. IsFiniteSet(P) /\ Cardinality(P) <= Cardinality(1..Len(s))
  BY <1>2, <1>3, FS_Subset
<1> QED
  BY <1>2, <1>4, FS_CardinalityType

Occurrence == [fp: Fingerprint, times: Seq(Nat)]

\* An entry of the index is of records that were made, in their order, up to now.
Dated(entry, often, time) ==
  /\ Len(entry.times) <= often[entry.fp]
  /\ \A i \in DOMAIN entry.times : entry.times[i] <= time
  /\ \A i, j \in DOMAIN entry.times : i < j => entry.times[i] <= entry.times[j]

Indexed(index, often, time) ==
  /\ index \in Seq(Occurrence)
  /\ \A j, k \in DOMAIN index : index[j].fp = index[k].fp => j = k
  /\ \A k \in DOMAIN index : Dated(index[k], often, time)

Reported == {NoLoop} \cup minOccurrences..MaxRecords

LoopInv ==
  /\ now \in Nat /\ records \in 0..MaxRecords
  /\ recorded \in Seq(Fingerprint) /\ Len(recorded) <= maxEvents
  /\ Indexed(occurrence, repeats, now) /\ Len(occurrence) <= maxUniqueItems
  /\ repeats \in [Fingerprint -> Nat] /\ \A fp \in Fingerprint : repeats[fp] <= records
  /\ approved \in Seq(Strategy) /\ Len(approved) <= records
  /\ detection \in Reported

LEMMA LoopStarts == LoopInit => LoopInv
<1> SUFFICES ASSUME LoopInit PROVE LoopInv
  OBVIOUS
<1>1. Indexed(<<>>, repeats, now)
  BY DEF Indexed
<1> QED
  BY <1>1, LoopAssumption DEF LoopInit, LoopInv, Reported

\* As the times grow by the present, so do the records.
LEMMA OneMoreTime ==
  ASSUME NEW entry \in Occurrence, NEW often \in [Fingerprint -> Nat], NEW time \in Nat,
         Dated(entry, often, time)
  PROVE  /\ [entry EXCEPT !.times = Append(@, time)] \in Occurrence
         /\ Dated([entry EXCEPT !.times = Append(@, time)],
                  [often EXCEPT ![entry.fp] = @ + 1], time)
<1> DEFINE s == entry.times
           grown == [entry EXCEPT !.times = Append(@, time)]
           more == [often EXCEPT ![entry.fp] = @ + 1]
<1>1. s \in Seq(Nat) /\ entry.fp \in Fingerprint
  BY DEF Occurrence
<1>2. grown.times = Append(s, time) /\ grown.fp = entry.fp /\ grown \in Occurrence
  <2>1. Append(s, time) \in Seq(Nat)
    BY <1>1
  <2>2. grown = [entry EXCEPT !.times = Append(s, time)]
    BY DEF Occurrence
  <2> HIDE DEF s, grown
  <2> QED
    BY <2>1, <2>2 DEF Occurrence
<1>3. more[entry.fp] = often[entry.fp] + 1 /\ often[entry.fp] \in Nat
  BY <1>1
<1>4. /\ Len(s) <= often[entry.fp] /\ \A i \in DOMAIN s : s[i] <= time
      /\ \A i, j \in DOMAIN s : i < j => s[i] <= s[j]
  BY DEF Dated
<1> DEFINE t == Append(s, time)
<1> HIDE DEF s, grown, more
<1>5. /\ Len(s) \in Nat /\ DOMAIN s = 1..Len(s) /\ Len(t) = Len(s) + 1
      /\ DOMAIN t = 1..(Len(s) + 1) /\ t[Len(s) + 1] = time
      /\ \A i \in 1..Len(s) : t[i] = s[i]
  BY <1>1
<1> HIDE DEF t
<1>6. \A i \in 1..(Len(s) + 1) : i \in 1..Len(s) \/ i = Len(s) + 1
  BY <1>5
<1>7. \A i \in DOMAIN t : t[i] <= time
  BY <1>4, <1>5, <1>6
<1>8. ASSUME NEW i \in DOMAIN t, NEW j \in DOMAIN t, i < j PROVE t[i] <= t[j]
  <2>1. i \in 1..Len(s)
    BY <1>5, <1>8
  <2>2. CASE j = Len(s) + 1
    BY <1>5, <1>7, <2>2
  <2>3. CASE j \in 1..Len(s)
    BY <1>4, <1>5, <1>8, <2>1, <2>3
  <2> QED
    BY <1>5, <1>6, <2>2, <2>3
<1>9. Len(t) <= more[entry.fp]
  BY <1>3, <1>4, <1>5
<1>10. Dated(grown, more, time)
  BY <1>2, <1>7, <1>8, <1>9 DEF Dated, t
<1> QED
  BY <1>2, <1>10 DEF grown, more

LEMMA EntersRight ==
  ASSUME LoopInv, NEW fp \in Fingerprint
  PROVE  /\ Indexed(Entered(fp), [repeats EXCEPT ![fp] = @ + 1], now)
         /\ Len(Entered(fp)) <= maxUniqueItems
<1> DEFINE more == [repeats EXCEPT ![fp] = @ + 1]
           seen == \E k \in DOMAIN occurrence : occurrence[k].fp = fp
           longer(k) == IF occurrence[k].fp = fp
                        THEN [occurrence[k] EXCEPT !.times = Append(@, now)]
                        ELSE occurrence[k]
           grown == IF seen THEN [k \in DOMAIN occurrence |-> longer(k)]
                    ELSE Append(occurrence, [fp |-> fp, times |-> <<now>>])
           N0 == Len(occurrence)
<1>1. /\ occurrence \in Seq(Occurrence) /\ N0 \in Nat /\ DOMAIN occurrence = 1..N0
      /\ \A j, k \in 1..N0 : occurrence[j].fp = occurrence[k].fp => j = k
      /\ \A k \in 1..N0 : Dated(occurrence[k], repeats, now)
      /\ N0 <= maxUniqueItems /\ now \in Nat /\ repeats \in [Fingerprint -> Nat]
  BY DEF LoopInv, Indexed
<1>2. ASSUME NEW k \in 1..N0 PROVE occurrence[k] \in Occurrence
  BY <1>1, Members, Zenon
<1>3. more \in [Fingerprint -> Nat] /\ more[fp] = repeats[fp] + 1
      /\ \A g \in Fingerprint : g # fp => more[g] = repeats[g]
  BY <1>1
<1>4. ASSUME NEW k \in 1..N0
      PROVE  longer(k) \in Occurrence /\ longer(k).fp = occurrence[k].fp
             /\ Dated(longer(k), more, now)
  <2>1. CASE occurrence[k].fp = fp
    <3>1. longer(k) = [occurrence[k] EXCEPT !.times = Append(@, now)]
      BY <2>1
    <3>2. longer(k).fp = occurrence[k].fp
      BY <3>1, <1>2 DEF Occurrence
    <3> QED
      BY <1>1, <1>2, <2>1, <3>1, <3>2, OneMoreTime
  <2>2. CASE occurrence[k].fp # fp
    <3>1. more[occurrence[k].fp] = repeats[occurrence[k].fp]
      BY <1>2, <1>3, <2>2 DEF Occurrence
    <3> QED
      BY <1>1, <1>2, <2>2, <3>1 DEF Dated
  <2> QED
    BY <2>1, <2>2
<1> HIDE DEF longer
<1>5. Indexed(grown, more, now) /\ Len(grown) \in Nat /\ Len(grown) <= maxUniqueItems + 1
  <2>1. CASE seen
    <3>1. grown = [k \in 1..N0 |-> longer(k)]
      BY <1>1, <2>1, Zenon
    <3>2. grown \in [1..N0 -> Occurrence]
      BY <1>4, <3>1
    <3>3. grown \in Seq(Occurrence) /\ Len(grown) = N0 /\ DOMAIN grown = 1..N0
      <4> HIDE DEF grown, N0
      <4> QED
        BY <1>1, <3>2, FunctionIsSeq
    <3>4. \A k \in 1..N0 : grown[k] = longer(k)
      BY <3>1
    <3> HIDE DEF grown, N0, more
    <3> QED
      BY <1>1, <1>4, <3>3, <3>4, LoopAssumption DEF Indexed
  <2>2. CASE ~seen
    <3> DEFINE entry == [fp |-> fp, times |-> <<now>>]
    <3>1. entry \in Occurrence /\ entry.fp = fp /\ entry.times = <<now>>
      BY <1>1 DEF Occurrence
    <3>2. Dated(entry, more, now)
      <4>1. Len(<<now>>) = 1 /\ DOMAIN <<now>> = {1} /\ <<now>>[1] = now
        OBVIOUS
      <4>2. more[fp] \in Nat /\ more[fp] >= 1
        BY <1>1, <1>3
      <4> QED
        BY <1>1, <3>1, <4>1, <4>2 DEF Dated
    <3>3. grown = Append(occurrence, entry)
      BY <2>2
    <3> HIDE DEF entry, grown
    <3>4. /\ grown \in Seq(Occurrence) /\ DOMAIN grown = 1..(N0 + 1) /\ Len(grown) = N0 + 1
          /\ \A k \in 1..N0 : grown[k] = occurrence[k]
          /\ grown[N0 + 1] = entry
      BY <1>1, <3>1, <3>3
    <3>5. \A k \in 1..N0 : occurrence[k].fp # fp
      BY <1>1, <2>2
    <3> HIDE DEF N0
    <3>6. ASSUME NEW k \in 1..(N0 + 1)
          PROVE  /\ Dated(grown[k], more, now)
                 /\ k \in 1..N0 \/ k = N0 + 1
                 /\ k \in 1..N0 => grown[k].fp = occurrence[k].fp /\ grown[k].fp # fp
                 /\ k = N0 + 1 => grown[k].fp = fp
      <4>1. CASE k \in 1..N0
        <5>1. longer(k) = occurrence[k]
          BY <3>5, <4>1 DEF longer
        <5>2. k # N0 + 1
          BY <1>1, <4>1
        <5> QED
          BY <1>4, <3>4, <3>5, <4>1, <5>1, <5>2
      <4>2. CASE k = N0 + 1
        <5>1. k \notin 1..N0
          BY <1>1, <4>2
        <5> QED
          BY <3>1, <3>2, <3>4, <4>2, <5>1
      <4> QED
        BY <1>1, <4>1, <4>2
    <3>7. \A j, k \in 1..(N0 + 1) : grown[j].fp = grown[k].fp => j = k
      BY <1>1, <3>6
    <3>8. Len(grown) \in Nat /\ Len(grown) <= maxUniqueItems + 1
      BY <1>1, <3>4, LoopAssumption
    <3> QED
      BY <3>4, <3>6, <3>7, <3>8 DEF Indexed
  <2> QED
    BY <2>1, <2>2
<1>6. Entered(fp) = IF Len(grown) > maxUniqueItems
                    THEN SubSeq(grown, maxUniqueItems \div 2 + 1, Len(grown)) ELSE grown
  BY DEF Entered, longer
<1> HIDE DEF grown, more
<1>7. CASE Len(grown) > maxUniqueItems
  <2> DEFINE m == maxUniqueItems \div 2 + 1
             rest == SubSeq(grown, m, Len(grown))
  <2>1. maxUniqueItems \div 2 \in 1..maxUniqueItems
    BY LoopAssumption
  <2>2. m \in 2..(maxUniqueItems + 1) /\ Len(grown) = maxUniqueItems + 1
    BY <1>5, <1>7, <2>1, LoopAssumption
  <2>3. m \in 1..(Len(grown) + 1)
    BY <2>2, LoopAssumption
  <2> HIDE DEF m
  <2>4. /\ rest \in Seq(Occurrence) /\ Len(rest) = Len(grown) - m + 1
        /\ \A k \in DOMAIN rest : k + m - 1 \in DOMAIN grown /\ rest[k] = grown[k + m - 1]
    <3>1. grown \in Seq(Occurrence)
      BY <1>5 DEF Indexed
    <3> QED
      BY <2>3, <3>1, LastPart
  <2>5. Len(rest) <= maxUniqueItems
    BY <2>2, <2>4, LoopAssumption
  <2>6. DOMAIN rest \subseteq Nat /\ m \in Nat
    BY <2>2, <2>4, LoopAssumption
  <2> HIDE DEF rest
  <2>7. ASSUME NEW j \in DOMAIN rest, NEW k \in DOMAIN rest, rest[j].fp = rest[k].fp PROVE j = k
    <3>1. j + m - 1 = k + m - 1
      BY <1>5, <2>4, <2>7 DEF Indexed
    <3> QED
      BY <2>6, <3>1
  <2>8. \A k \in DOMAIN rest : Dated(rest[k], more, now)
    BY <1>5, <2>4 DEF Indexed
  <2> QED
    BY <1>6, <1>7, <2>4, <2>5, <2>7, <2>8 DEF Indexed, rest, more, m
<1>8. CASE ~(Len(grown) > maxUniqueItems)
  BY <1>5, <1>6, <1>8, LoopAssumption DEF more
<1> QED
  BY <1>7, <1>8

\* What is reported is no more than was recorded.
LEMMA ChecksRight ==
  ASSUME NEW index, NEW often \in [Fingerprint -> Nat], NEW time, Indexed(index, often, time),
         \A g \in Fingerprint : often[g] <= MaxRecords, NEW fp
  PROVE  check(index, fp) \in Reported
<1> DEFINE places == {k \in DOMAIN index : index[k].fp = fp}
           times == Times(index, fp)
<1>1. times \in Seq(Nat) /\ Len(times) <= MaxRecords
  <2>1. CASE places = {}
    <3>1. times = <<>>
      BY <2>1 DEF Times
    <3> QED
      BY <3>1, LoopAssumption
  <2>2. CASE places # {}
    <3>1. index \in Seq(Occurrence)
      BY DEF Indexed
    <3>2. places \in SUBSET Nat
      BY <3>1
    <3>3. Min(places) \in places
      <4> HIDE DEF places
      <4> QED
        BY <2>2, <3>2, Least
    <3> DEFINE k == Min(places)
    <3>4. k \in DOMAIN index /\ times = index[k].times
      BY <2>2, <3>3 DEF Times
    <3> HIDE DEF k, times, places
    <3>5. index[k] \in Occurrence
      BY <3>1, <3>4, Members, Zenon
    <3>6. /\ index[k].times \in Seq(Nat) /\ index[k].fp \in Fingerprint
          /\ Len(index[k].times) <= often[index[k].fp]
      BY <3>4, <3>5 DEF Indexed, Dated, Occurrence
    <3>7. often[index[k].fp] \in Nat /\ often[index[k].fp] <= MaxRecords
          /\ Len(index[k].times) \in Nat
      BY <3>6
    <3> QED
      BY <3>4, <3>6, <3>7, LoopAssumption
  <2> QED
    BY <2>1, <2>2
<1> HIDE DEF times
<1> DEFINE late == {k \in DOMAIN times : times[k] + windowMs >= now}
<1>2. Cardinality(late) \in Nat /\ Cardinality(late) <= Len(times)
  <2>1. late \in SUBSET DOMAIN times
    OBVIOUS
  <2> HIDE DEF late
  <2> QED
    BY <1>1, <2>1, SomePlaces
<1>3. check(index, fp) = IF Cardinality(late) < minOccurrences THEN NoLoop ELSE Cardinality(late)
  BY DEF check, times
<1>4. Len(times) \in Nat
  BY <1>1
<1> HIDE DEF late
<1> QED
  BY <1>1, <1>2, <1>3, <1>4, LoopAssumption DEF Reported

LEMMA LoopRecords ==
  ASSUME LoopInv, NEW fp \in Fingerprint, record(fp), NEW g,
         detection' = check(occurrence', g), UNCHANGED <<now, approved>>
  PROVE  LoopInv'
<1> DEFINE longer == Append(recorded, fp)
<1>1. /\ records' = records + 1 /\ records' \in 0..MaxRecords /\ records \in Nat
      /\ repeats' = [repeats EXCEPT ![fp] = @ + 1]
      /\ occurrence' = Entered(fp)
      /\ recorded' = SubSeq(longer, IF Len(longer) > maxEvents THEN 2 ELSE 1, Len(longer))
  BY LoopAssumption DEF LoopInv, record
<1>2. Indexed(occurrence, repeats, now)' /\ Len(occurrence') <= maxUniqueItems
  BY <1>1, EntersRight DEF Indexed, Dated
<1>3. /\ repeats' \in [Fingerprint -> Nat] /\ \A h \in Fingerprint : repeats'[h] <= records'
      /\ \A h \in Fingerprint : repeats'[h] <= MaxRecords
  <2>1. repeats \in [Fingerprint -> Nat] /\ \A h \in Fingerprint : repeats[h] <= records
    BY DEF LoopInv
  <2>2. repeats' \in [Fingerprint -> Nat] /\ \A h \in Fingerprint : repeats'[h] <= records'
    BY <1>1, <2>1
  <2> QED
    BY <1>1, <2>2, LoopAssumption
<1>4. recorded' \in Seq(Fingerprint) /\ Len(recorded') <= maxEvents
  <2>1. /\ recorded \in Seq(Fingerprint) /\ Len(recorded) \in Nat /\ Len(recorded) <= maxEvents
    BY DEF LoopInv
  <2>2. longer \in Seq(Fingerprint) /\ Len(longer) = Len(recorded) + 1
    BY <2>1
  <2> HIDE DEF longer
  <2> DEFINE m == IF Len(longer) > maxEvents THEN 2 ELSE 1
  <2>3. m \in 1..(Len(longer) + 1) /\ Len(longer) - m + 1 <= maxEvents
    BY <2>1, <2>2, LoopAssumption
  <2>4. recorded' = SubSeq(longer, m, Len(longer))
    BY <1>1 DEF longer
  <2> HIDE DEF m
  <2> QED
    BY <2>2, <2>3, <2>4, LastPart
<1>5. detection' \in Reported
  <2>1. Indexed(occurrence', repeats', now)
    BY <1>2 DEF Indexed, Dated
  <2> QED
    BY <1>3, <2>1, ChecksRight
<1>6. /\ approved' \in Seq(Strategy) /\ Len(approved') <= records' /\ now' \in Nat
  BY <1>1 DEF LoopInv
<1> QED
  BY <1>1, <1>2, <1>3, <1>4, <1>5, <1>6 DEF LoopInv

\* Of some reports the greatest is one.
LEMMA GreatestReport ==
  ASSUME NEW S \in SUBSET (minOccurrences..MaxRecords), S # {}
  PROVE  Max(S) \in minOccurrences..MaxRecords
<1>1. S \in SUBSET Nat /\ \A x \in S : x <= MaxRecords
  BY LoopAssumption
<1> QED
  BY <1>1, Greatest, LoopAssumption

LEMMA RepetitionIs ==
  ASSUME NEW s \in Seq(Strategy), Len(s) <= MaxRecords
  PROVE  detectStrategyRepetition(s) \in Reported
<1> DEFINE Count(h) == Cardinality({k \in DOMAIN s : hashStrategy(s[k]) = h})
           hashes == {hashStrategy(p) : p \in Range(s)} \ {NoLoop}
           most == IF hashes = {} THEN 0 ELSE Max({Count(h) : h \in hashes})
<1>1. \A h : Count(h) \in Nat /\ Count(h) <= Len(s)
  <2> TAKE h
  <2>1. {k \in DOMAIN s : hashStrategy(s[k]) = h} \in SUBSET DOMAIN s
    OBVIOUS
  <2> QED
    BY <2>1, SomePlaces
<1>2. detectStrategyRepetition(s) = IF most >= minOccurrences THEN most ELSE NoLoop
  BY DEF detectStrategyRepetition
<1> HIDE DEF hashes, Count
<1>3. Len(s) \in Nat
  OBVIOUS
<1>4. most \in 0..MaxRecords
  <2>1. CASE hashes = {}
    BY <2>1, LoopAssumption
  <2>2. CASE hashes # {}
    <3> DEFINE T == {Count(h) : h \in hashes}
    <3>1. T \in SUBSET Nat /\ T # {} /\ \A x \in T : x <= Len(s)
      BY <1>1, <2>2
    <3>2. most = Max(T)
      BY <2>2
    <3> HIDE DEF T, most
    <3>3. Max(T) \in T
      BY <1>3, <3>1, Greatest
    <3>4. most \in Nat /\ most <= Len(s)
      BY <3>1, <3>2, <3>3
    <3> QED
      BY <1>3, <3>4, LoopAssumption
  <2> QED
    BY <2>1, <2>2
<1> HIDE DEF most
<1> QED
  BY <1>2, <1>4, LoopAssumption DEF Reported

LEMMA LoopKeeps == LoopInv /\ [LoopNext]_loopVars => LoopInv'
<1> SUFFICES ASSUME LoopInv, [LoopNext]_loopVars PROVE LoopInv'
  OBVIOUS
<1>1. ASSUME NEW t \in Thing, recordQuery(t) PROVE LoopInv'
  <2>1. <<"query", t>> \in Fingerprint
    BY DEF Fingerprint, Kind
  <2> QED
    BY <1>1, <2>1, LoopRecords DEF recordQuery
<1>2. ASSUME NEW t \in Thing, recordDecisionSequence(t) PROVE LoopInv'
  <2>1. <<"dec", t>> \in Fingerprint
    BY DEF Fingerprint, Kind
  <2> QED
    BY <1>2, <2>1, LoopRecords DEF recordDecisionSequence
<1>3. CASE checkAll
  <2> DEFINE loops == {k \in DOMAIN occurrence : check(occurrence, occurrence[k].fp) # NoLoop}
             found == {check(occurrence, occurrence[k].fp) : k \in loops}
  <2>1. /\ detection' = IF loops = {} THEN NoLoop ELSE Max(found)
        /\ UNCHANGED <<now, recorded, occurrence, approved, records, repeats>>
    BY <1>3 DEF checkAll
  <2>2. ASSUME NEW k \in DOMAIN occurrence PROVE check(occurrence, occurrence[k].fp) \in Reported
    <3>1. /\ repeats \in [Fingerprint -> Nat] /\ Indexed(occurrence, repeats, now)
          /\ \A g \in Fingerprint : repeats[g] <= records
          /\ records \in 0..MaxRecords
      BY DEF LoopInv
    <3>2. \A g \in Fingerprint : repeats[g] <= MaxRecords
      BY <3>1, LoopAssumption
    <3> QED
      BY <3>1, <3>2, ChecksRight
  <2>3. found \in SUBSET (minOccurrences..MaxRecords) /\ (loops # {} => found # {})
    BY <2>2 DEF Reported
  <2>4. detection' \in Reported
    <3> HIDE DEF loops, found
    <3> QED
      BY <2>1, <2>3, GreatestReport DEF Reported
  <2> QED
    BY <2>1, <2>4 DEF LoopInv, Indexed, Dated
<1>4. CASE reset
  <2>1. /\ recorded' = <<>> /\ occurrence' = <<>> /\ repeats' = [fp \in Fingerprint |-> 0]
        /\ detection' = NoLoop /\ now' = now /\ approved' = approved /\ records' = records
    BY <1>4 DEF reset
  <2>2. Indexed(occurrence, repeats, now)'
    BY <2>1 DEF Indexed
  <2> QED
    BY <2>1, <2>2, LoopAssumption DEF LoopInv, Reported
<1>5. CASE Tick
  <2>1. /\ now' = now + 1 /\ now \in Nat
        /\ UNCHANGED <<recorded, occurrence, approved, detection, records, repeats>>
    BY <1>5 DEF Tick, LoopInv
  <2>2. Indexed(occurrence, repeats, now)'
    <3>1. Indexed(occurrence, repeats, now)
      BY DEF LoopInv
    <3>2. ASSUME NEW k \in DOMAIN occurrence PROVE Dated(occurrence[k], repeats, now + 1)
      <4>1. occurrence[k] \in Occurrence
        BY <3>1, Members, Zenon DEF Indexed
      <4>2. occurrence[k].times \in Seq(Nat) /\ Dated(occurrence[k], repeats, now)
        BY <3>1, <4>1 DEF Occurrence, Indexed
      <4>3. \A i \in DOMAIN occurrence[k].times : occurrence[k].times[i] \in Nat
        BY <4>2
      <4> QED
        BY <2>1, <4>2, <4>3 DEF Dated
    <3> QED
      BY <2>1, <3>1, <3>2 DEF Indexed, Dated
  <2> QED
    BY <2>1, <2>2 DEF LoopInv
<1>6. ASSUME NEW p \in Strategy, Approve(p) PROVE LoopInv'
  <2>1. /\ records' = records + 1 /\ records' \in 0..MaxRecords
        /\ approved' = Append(approved, p) /\ detection' = detectStrategyRepetition(approved')
        /\ UNCHANGED <<now, recorded, occurrence, repeats>>
    BY <1>6, LoopAssumption DEF Approve, LoopInv
  <2>2. approved' \in Seq(Strategy) /\ Len(approved') <= records'
    BY <2>1 DEF LoopInv
  <2>3. detection' \in Reported
    <3>1. Len(approved') <= MaxRecords
      BY <2>1, <2>2, LoopAssumption
    <3> QED
      BY <2>1, <2>2, <3>1, RepetitionIs
  <2>4. \A fp \in Fingerprint : repeats'[fp] <= records'
    <3>1. \A fp \in Fingerprint : repeats[fp] <= records /\ repeats[fp] \in Nat
      BY DEF LoopInv
    <3>2. records \in Nat
      BY DEF LoopInv
    <3> QED
      BY <2>1, <3>1, <3>2
  <2> QED
    BY <2>1, <2>2, <2>3, <2>4 DEF LoopInv, Indexed, Dated
<1>7. CASE UNCHANGED loopVars
  BY <1>7 DEF loopVars, LoopInv, Indexed, Dated
<1> QED
  BY <1>1, <1>2, <1>3, <1>4, <1>5, <1>6, <1>7 DEF LoopNext

LEMMA LoopTyped == LoopInv => LoopTypeOK
<1> SUFFICES ASSUME LoopInv PROVE LoopTypeOK
  OBVIOUS
<1>1. ASSUME NEW k \in DOMAIN occurrence PROVE occurrence[k].fp \in Fingerprint
  <2>1. occurrence \in Seq(Occurrence)
    BY DEF LoopInv, Indexed
  <2>2. occurrence[k] \in Occurrence
    BY <2>1, Members, Zenon
  <2> QED
    BY <2>2 DEF Occurrence
<1> QED
  BY <1>1 DEF LoopTypeOK, LoopInv, Indexed, Dated, Reported

\* However the calls, the resets and the clock interleave: the index is within its
\* limit, without a key twice, of records made since the last reset and in their
\* order, so that no loop is reported that was not recorded
\* (context-loop-prevention.js: record, check, checkAll, reset).
THEOREM AlwaysLoopTyped == LoopSpec => []LoopTypeOK
  BY LoopStarts, LoopKeeps, LoopTyped, PTL DEF LoopSpec

-----------------------------------------------------------------------------
(* Sums.                                                                   *)

\* What w adds up to, from the first to the n-th.
Sums(f, w, n) == f = [t \in 0..n |-> IF t = 0 THEN 0 ELSE f[t - 1] + w[t]]

LEMMA SumExists ==
  ASSUME NEW n \in Nat, NEW w
  PROVE  \E f : Sums(f, w, n)
<1> DEFINE Upto(f, m) == /\ f = [t \in 0..m |-> f[t]] /\ f[0] = 0
                         /\ \A t \in 1..m : f[t] = f[t - 1] + w[t]
           G == {m \in Nat : \E f : Upto(f, m)}
<1>1. 0 \in G
  <2>1. Upto([t \in 0..0 |-> 0], 0)
    OBVIOUS
  <2> HIDE DEF Upto
  <2> QED
    BY <2>1
<1>2. ASSUME NEW m \in Nat, m \in G PROVE m + 1 \in G
  <2>1. PICK f : Upto(f, m)
    BY <1>2
  <2> DEFINE g == [t \in 0..(m + 1) |-> IF t = m + 1 THEN f[m] + w[m + 1] ELSE f[t]]
  <2>2. g = [t \in 0..(m + 1) |-> g[t]] /\ g[0] = 0
    BY <2>1
  <2>3. ASSUME NEW t \in 1..(m + 1) PROVE g[t] = g[t - 1] + w[t]
    <3>1. CASE t = m + 1
      <4>1. t - 1 = m /\ t - 1 \in 0..(m + 1) /\ t - 1 # m + 1
        BY <3>1
      <4> QED
        BY <3>1, <4>1
    <3>2. CASE t # m + 1
      <4>1. t \in 1..m /\ t - 1 \in 0..(m + 1) /\ t - 1 # m + 1 /\ t \in 0..(m + 1)
        BY <3>2
      <4>2. g[t] = f[t] /\ g[t - 1] = f[t - 1]
        BY <3>2, <4>1
      <4> QED
        BY <2>1, <4>1, <4>2
    <3> QED
      BY <3>1, <3>2
  <2>4. Upto(g, m + 1)
    <3> HIDE DEF g
    <3> QED
      BY <2>2, <2>3
  <2> HIDE DEF Upto
  <2> QED
    BY <2>4
<1>3. n \in G
  <2> HIDE DEF G
  <2> QED
    BY <1>1, <1>2, SetInduction
<1>4. PICK f : Upto(f, n)
  BY <1>3
<1>5. ASSUME NEW t \in 0..n PROVE f[t] = IF t = 0 THEN 0 ELSE f[t - 1] + w[t]
  <2>1. t # 0 => t \in 1..n
    OBVIOUS
  <2> QED
    BY <1>4, <2>1
<1>6. Sums(f, w, n)
  BY <1>4, <1>5 DEF Sums
<1> QED
  BY <1>6

LEMMA SumSteps ==
  ASSUME NEW n \in Nat, NEW w, NEW f, Sums(f, w, n)
  PROVE  f[0] = 0 /\ \A t \in 1..n : f[t] = f[t - 1] + w[t]
<1>1. ASSUME NEW t \in 0..n PROVE f[t] = IF t = 0 THEN 0 ELSE f[t - 1] + w[t]
  BY Zenon DEF Sums
<1>2. 0 \in 0..n /\ \A t \in 1..n : t \in 0..n /\ t # 0
  OBVIOUS
<1> QED
  BY <1>1, <1>2

LEMMA SumIsNatural ==
  ASSUME NEW n \in Nat, NEW w, NEW f, Sums(f, w, n), \A t \in 1..n : w[t] \in Nat
  PROVE  f[n] \in Nat /\ ((\A t \in 1..n : w[t] = 0) => f[n] = 0)
<1> DEFINE none == \A t \in 1..n : w[t] = 0
           Good(m) == f[m] \in Nat /\ (none => f[m] = 0)
           G == {m \in Nat : m <= n => Good(m)}
<1>1. f[0] = 0 /\ \A t \in 1..n : f[t] = f[t - 1] + w[t]
  BY SumSteps
<1>2. 0 \in G
  BY <1>1
<1>3. ASSUME NEW m \in Nat, m \in G PROVE m + 1 \in G
  <2>1. CASE m + 1 <= n
    <3>1. m + 1 \in 1..n /\ m <= n /\ (m + 1) - 1 = m
      BY <2>1
    <3>2. f[m + 1] = f[m] + w[m + 1] /\ w[m + 1] \in Nat
      BY <1>1, <3>1
    <3>3. f[m] \in Nat /\ (none => f[m] = 0)
      BY <1>3, <3>1
    <3>4. none => w[m + 1] = 0
      BY <3>1
    <3> HIDE DEF none
    <3>5. Good(m + 1)
      BY <3>2, <3>3, <3>4
    <3> QED
      BY <3>5
  <2> QED
    BY <2>1
<1>4. n \in G
  <2> HIDE DEF G
  <2> QED
    BY <1>2, <1>3, SetInduction
<1>5. n <= n
  OBVIOUS
<1> QED
  BY <1>4, <1>5

-----------------------------------------------------------------------------
(* What is retrieved.                                                      *)

Event == [item: Piece, origin: Origin, useful: BOOLEAN]
Stats == [total: Nat, useful: Nat, lastUsed: Nat]

UsefulOf(of, events) == {k \in of : events[k].useful}

\* The statistics of events at some places.
Measured(stats, of, events) ==
  IF stats = Absent THEN of = {}
  ELSE /\ stats \in Stats
       /\ stats.total = Cardinality(of) /\ stats.useful = Cardinality(UsefulOf(of, events))
       /\ stats.lastUsed \in of /\ \A k \in of : k <= stats.lastUsed

OfItem(p) == {k \in DOMAIN feedback : feedback[k].item = p}
OfOrigin(o) == {k \in DOMAIN feedback : feedback[k].origin = o}

FeedbackInv ==
  /\ feedback \in Seq(Event)
  /\ itemStats = [p \in Piece |-> itemStats[p]]
  /\ \A p \in Piece : Measured(itemStats[p], OfItem(p), feedback)
  /\ sourceStats = [o \in Origin |-> sourceStats[o]]
  /\ \A o \in Origin : Measured(sourceStats[o], OfOrigin(o), feedback)

LEMMA NothingMeasured ==
  ASSUME feedback = <<>>, itemStats = [p \in Piece |-> Absent],
         sourceStats = [o \in Origin |-> Absent]
  PROVE  FeedbackInv
<1>1. DOMAIN feedback = {} /\ feedback \in Seq(Event)
  OBVIOUS
<1>2. \A p : OfItem(p) = {} /\ OfOrigin(p) = {}
  BY <1>1 DEF OfItem, OfOrigin
<1>3. \A p \in Piece : itemStats[p] = Absent
  OBVIOUS
<1>4. \A o \in Origin : sourceStats[o] = Absent
  OBVIOUS
<1> QED
  BY <1>1, <1>2, <1>3, <1>4 DEF FeedbackInv, Measured

LEMMA FeedbackStarts == RetrievalInit => FeedbackInv
  BY NothingMeasured DEF RetrievalInit

\* One event more, of what is counted.
LEMMA OneMoreEvent ==
  ASSUME NEW of, NEW more, NEW stats, NEW events \in Seq(Event), NEW later, NEW n \in Nat,
         Measured(stats, of, events), IsFiniteSet(of), of \in SUBSET (1..(n - 1)), NEW e \in Event,
         Len(events) = n - 1, later = Append(events, e), more = of \cup {n}
  PROVE  Measured(Counted(stats, e.useful, n), more, later)
<1> DEFINE was == IF stats = Absent THEN [total |-> 0, useful |-> 0, lastUsed |-> 0] ELSE stats
<1>1. was.total = Cardinality(of) /\ was.useful = Cardinality(UsefulOf(of, events)) /\ was \in Stats
  <2>1. CASE stats = Absent
    <3>1. of = {} /\ UsefulOf(of, events) = {}
      BY <2>1 DEF Measured, UsefulOf
    <3> QED
      BY <2>1, <3>1, FS_EmptySet DEF Stats
  <2>2. CASE stats # Absent
    BY <2>2 DEF Measured
  <2> QED
    BY <2>1, <2>2
<1>2. Counted(stats, e.useful, n) =
        [total |-> was.total + 1, useful |-> was.useful + IF e.useful THEN 1 ELSE 0,
         lastUsed |-> n]
  BY DEF Counted
<1> HIDE DEF was
<1> DEFINE counted == Counted(stats, e.useful, n)
<1>3. e.useful \in BOOLEAN
  BY DEF Event
<1>4. /\ counted \in Stats /\ counted # Absent /\ counted.total = was.total + 1
      /\ counted.lastUsed = n
      /\ e.useful = TRUE => counted.useful = was.useful + 1
      /\ e.useful = FALSE => counted.useful = was.useful
  <2>1. was.total \in Nat /\ was.useful \in Nat
    BY <1>1 DEF Stats
  <2>2. was.useful + (IF e.useful THEN 1 ELSE 0) \in Nat
    BY <2>1
  <2>3. counted \in Stats
    BY <1>2, <2>1, <2>2 DEF Stats
  <2>4. counted # Absent
    BY <2>3, RetrievalAssumption DEF Stats
  <2>5. e.useful = TRUE => counted.useful = was.useful + 1
    BY <1>2
  <2>6. e.useful = FALSE => counted.useful = was.useful
    BY <1>2, <2>1
  <2> QED
    BY <1>2, <2>3, <2>4, <2>5, <2>6
<1>5. /\ \A k \in 1..(n - 1) : later[k] = events[k]
      /\ later[n] = e
  <2> HIDE DEF Event
  <2> QED
    OBVIOUS
<1>6. n \notin of
  OBVIOUS
<1>7. Cardinality(more) = Cardinality(of) + 1
  BY <1>6, FS_AddElement
<1>8. UsefulOf(of, events) \subseteq of /\ IsFiniteSet(UsefulOf(of, events)) /\ n \notin UsefulOf(of, events)
  <2>1. UsefulOf(of, events) \subseteq of
    BY DEF UsefulOf
  <2> QED
    BY <1>6, <2>1, FS_Subset
<1>9. /\ e.useful = TRUE => UsefulOf(more, later) = UsefulOf(of, events) \cup {n}
      /\ e.useful = FALSE => UsefulOf(more, later) = UsefulOf(of, events)
  <2>1. \A k \in of : later[k] = events[k]
    BY <1>5
  <2> QED
    BY <1>5, <2>1 DEF UsefulOf
<1>10. counted.useful = Cardinality(UsefulOf(more, later))
  <2>1. CASE e.useful = TRUE
    <3>1. Cardinality(UsefulOf(of, events) \cup {n}) = Cardinality(UsefulOf(of, events)) + 1
      BY <1>8, FS_AddElement
    <3> QED
      BY <1>1, <1>4, <1>9, <2>1, <3>1
  <2>2. CASE e.useful = FALSE
    BY <1>1, <1>4, <1>9, <2>2
  <2> QED
    BY <1>3, <2>1, <2>2
<1>11. \A k \in more : k <= n
  OBVIOUS
<1> HIDE DEF counted
<1>12. counted # Absent /\ counted \in Stats /\ counted.total = Cardinality(more)
       /\ counted.lastUsed \in more /\ \A k \in more : k <= counted.lastUsed
  BY <1>1, <1>4, <1>7, <1>11
<1> QED
  BY <1>10, <1>12 DEF Measured, counted

LEMMA FedRight ==
  ASSUME FeedbackInv, NEW p \in Piece, NEW o \in Origin, NEW useful \in BOOLEAN,
         Feed(p, o, useful)
  PROVE  FeedbackInv'
<1> DEFINE n == Len(feedback) + 1
           e == [item |-> p, origin |-> o, useful |-> useful]
<1>1. /\ feedback \in Seq(Event) /\ Len(feedback) \in Nat /\ DOMAIN feedback = 1..Len(feedback)
      /\ itemStats = [q \in Piece |-> itemStats[q]]
      /\ sourceStats = [q \in Origin |-> sourceStats[q]]
  BY DEF FeedbackInv
<1>2. /\ feedback' = Append(feedback, e)
      /\ itemStats' = [itemStats EXCEPT ![p] = Counted(@, useful, n)]
      /\ sourceStats' = [sourceStats EXCEPT ![o] = Counted(@, useful, n)]
  BY DEF Feed
<1>3. e \in Event /\ e.useful = useful /\ e.item = p /\ e.origin = o
  BY DEF Event
<1> HIDE DEF e
<1>4. /\ feedback' \in Seq(Event) /\ DOMAIN feedback' = 1..n /\ n \in Nat /\ n - 1 = Len(feedback)
      /\ \A k \in 1..(n - 1) : feedback'[k] = feedback[k]
      /\ feedback'[n] = e
  <2> HIDE DEF Event
  <2> QED
    BY <1>1, <1>2, <1>3
<1> HIDE DEF n
<1>5. \A k \in 1..n : k \in 1..(n - 1) \/ k = n
  BY <1>4
<1>6. ASSUME NEW S \in SUBSET DOMAIN feedback
      PROVE  /\ IsFiniteSet(S) /\ S \in SUBSET (1..(n - 1))
             /\ UsefulOf(S, feedback') = UsefulOf(S, feedback)
  <2>1. IsFiniteSet(S)
    BY <1>1, SomePlaces
  <2>2. S \in SUBSET (1..(n - 1))
    BY <1>1, <1>4
  <2> QED
    BY <1>4, <2>1, <2>2 DEF UsefulOf
<1>7. ASSUME NEW S \in SUBSET DOMAIN feedback, NEW stats, Measured(stats, S, feedback)
      PROVE  /\ Measured(stats, S, feedback')
             /\ Measured(Counted(stats, useful, n), S \cup {n}, feedback')
  <2>1. Measured(stats, S, feedback')
    BY <1>6, <1>7 DEF Measured
  <2>2. Measured(Counted(stats, e.useful, n), S \cup {n}, feedback')
    BY <1>1, <1>2, <1>3, <1>4, <1>6, <1>7, OneMoreEvent
  <2> QED
    BY <1>3, <2>1, <2>2
<1>8. ASSUME NEW q \in Piece PROVE Measured(itemStats'[q], OfItem(q)', feedback')
  <2>1. OfItem(q) \in SUBSET DOMAIN feedback /\ Measured(itemStats[q], OfItem(q), feedback)
    BY DEF OfItem, FeedbackInv
  <2>2. CASE q = p
    <3>1. OfItem(q)' = OfItem(q) \cup {n}
      BY <1>1, <1>3, <1>4, <1>5, <2>2 DEF OfItem
    <3>2. itemStats'[q] = Counted(itemStats[q], useful, n)
      BY <1>1, <1>2, <2>2
    <3> QED
      BY <1>7, <2>1, <3>1, <3>2
  <2>3. CASE q # p
    <3>1. OfItem(q)' = OfItem(q)
      BY <1>1, <1>3, <1>4, <1>5, <2>3 DEF OfItem
    <3>2. itemStats'[q] = itemStats[q]
      BY <1>1, <1>2, <2>3
    <3> QED
      BY <1>7, <2>1, <3>1, <3>2
  <2> QED
    BY <2>2, <2>3
<1>9. ASSUME NEW q \in Origin PROVE Measured(sourceStats'[q], OfOrigin(q)', feedback')
  <2>1. OfOrigin(q) \in SUBSET DOMAIN feedback /\ Measured(sourceStats[q], OfOrigin(q), feedback)
    BY DEF OfOrigin, FeedbackInv
  <2>2. CASE q = o
    <3>1. OfOrigin(q)' = OfOrigin(q) \cup {n}
      BY <1>1, <1>3, <1>4, <1>5, <2>2 DEF OfOrigin
    <3>2. sourceStats'[q] = Counted(sourceStats[q], useful, n)
      BY <1>1, <1>2, <2>2
    <3> QED
      BY <1>7, <2>1, <3>1, <3>2
  <2>3. CASE q # o
    <3>1. OfOrigin(q)' = OfOrigin(q)
      BY <1>1, <1>3, <1>4, <1>5, <2>3 DEF OfOrigin
    <3>2. sourceStats'[q] = sourceStats[q]
      BY <1>1, <1>2, <2>3
    <3> QED
      BY <1>7, <2>1, <3>1, <3>2
  <2> QED
    BY <2>2, <2>3
<1>10. /\ itemStats' = [q \in Piece |-> itemStats'[q]]
       /\ sourceStats' = [q \in Origin |-> sourceStats'[q]]
  BY <1>1, <1>2
<1> QED
  BY <1>4, <1>8, <1>9, <1>10 DEF FeedbackInv

\* The best have their place by when they were used, each at a time of its own.
LEMMA TopAre ==
  ASSUME FeedbackInv
  PROVE  \A p \in Range(getTopItems) :
           p \in Piece /\ itemStats[p] # Absent /\ itemStats[p].useful = itemStats[p].total
<1> DEFINE top == {p \in Piece : itemStats[p] # Absent
                                   /\ itemStats[p].useful = itemStats[p].total}
           Later(p) == {q \in top : itemStats[q].lastUsed > itemStats[p].lastUsed}
           Below == [p \in top |-> Later(p)]
           last == [p \in top |-> itemStats[p].lastUsed]
<1>1. ASSUME NEW p \in top
      PROVE  last[p] \in Nat /\ last[p] \in OfItem(p) /\ last[p] = itemStats[p].lastUsed
  <2>1. Measured(itemStats[p], OfItem(p), feedback) /\ itemStats[p] # Absent
    BY DEF FeedbackInv
  <2> QED
    BY <2>1 DEF Measured, Stats
<1>2. /\ Len(feedback) \in Nat /\ DOMAIN feedback = 1..Len(feedback)
  BY DEF FeedbackInv
<1>3. \A p, q \in top : last[p] = last[q] => p = q
  BY <1>1 DEF OfItem
<1>4. last \in Injection(top, 1..Len(feedback))
  <2>1. last \in [top -> 1..Len(feedback)]
    BY <1>1, <1>2 DEF OfItem
  <2> HIDE DEF last, top
  <2> QED
    BY <1>3, <2>1 DEF Injection, IsInjective
<1>5. IsFiniteSet(top)
  BY <1>2, <1>4, IntervalSize, FS_Injection
<1>6. Orders(Below, top)
  <2>1. Below \in [top -> SUBSET top]
    OBVIOUS
  <2>2. \A p \in top, q \in top : q \in Below[p] <=> last[q] > last[p]
    BY <1>1
  <2> HIDE DEF Below, last, top
  <2>3. \A p \in top : p \notin Below[p]
    BY <1>1, <2>2
  <2>4. \A p, q \in top : p # q => p \in Below[q] \/ q \in Below[p]
    BY <1>1, <1>3, <2>2
  <2>5. ASSUME NEW i \in top, NEW j \in top, NEW k \in top, i \in Below[j], j \in Below[k]
        PROVE  i \in Below[k]
    <3>1. last[i] > last[j] /\ last[j] > last[k]
      BY <2>2, <2>5
    <3>2. last[i] > last[k]
      BY <1>1, <3>1
    <3> QED
      BY <2>2, <3>2
  <2> QED
    BY <2>1, <2>3, <2>4, <2>5 DEF Orders
<1>7. /\ getTopItems = [n \in 1..Cardinality(top) |-> getTopItems[n]]
      /\ \A n \in 1..Cardinality(top) : \A p \in top :
           Cardinality(Below[p]) = n - 1 =>
             getTopItems[n] \in top /\ Cardinality(Below[getTopItems[n]]) = n - 1
  <2>1. getTopItems = [n \in 1..Cardinality(top) |->
                         CHOOSE p \in top : Cardinality(Later(p)) = n - 1]
    BY DEF getTopItems
  <2>2. \A p \in top : Below[p] = Later(p)
    OBVIOUS
  <2> HIDE DEF Below, top, Later
  <2> QED
    BY <2>1, <2>2
<1>8. getTopItems \in [1..Cardinality(top) -> top]
  <2> HIDE DEF Below, top
  <2> QED
    BY <1>5, <1>6, <1>7, InOrder
<1>9. Range(getTopItems) \subseteq top
  <2> HIDE DEF top
  <2> QED
    BY <1>8 DEF Range
<1> QED
  BY <1>9

LEMMA LowAre ==
  ASSUME FeedbackInv, NEW o \in getLowPerformSources
  PROVE  \E k \in DOMAIN feedback : feedback[k].origin = o /\ ~feedback[k].useful
<1> SUFFICES ASSUME \A k \in OfOrigin(o) : feedback[k].useful PROVE FALSE
  BY Zenon DEF OfOrigin
<1>1. /\ o \in Origin /\ sourceStats[o] # Absent /\ sourceStats[o].total >= 2
      /\ 5 * sourceStats[o].useful < sourceStats[o].total
  BY DEF getLowPerformSources
<1>2. UsefulOf(OfOrigin(o), feedback) = OfOrigin(o)
  BY DEF UsefulOf
<1>3. Measured(sourceStats[o], OfOrigin(o), feedback)
  BY <1>1 DEF FeedbackInv
<1>4. sourceStats[o].useful = sourceStats[o].total /\ sourceStats[o] \in Stats
  BY <1>1, <1>2, <1>3 DEF Measured
<1> QED
  BY <1>1, <1>4 DEF Stats

\* What the statistics say of the events and of the best and the worst.
LEMMA FeedbackTells ==
  ASSUME FeedbackInv
  PROVE  /\ \A p \in Piece :
              LET of == {k \in DOMAIN feedback : feedback[k].item = p}
              IN  IF itemStats[p] = Absent THEN of = {}
                  ELSE /\ itemStats[p].total = Cardinality(of)
                       /\ itemStats[p].useful = Cardinality({k \in of : feedback[k].useful})
                       /\ itemStats[p].lastUsed \in of /\ \A k \in of : k <= itemStats[p].lastUsed
         /\ \A o \in getLowPerformSources : \E k \in DOMAIN feedback :
              feedback[k].origin = o /\ ~feedback[k].useful
         /\ Range(getTopItems) \cap getUselessItems(1) = {}
<1>1. ASSUME NEW p \in Range(getTopItems) PROVE p \notin getUselessItems(1)
  <2>1. p \in Piece /\ itemStats[p] # Absent /\ itemStats[p].useful = itemStats[p].total
    BY TopAre
  <2>2. itemStats[p] \in Stats
    BY <2>1 DEF FeedbackInv, Measured
  <2> QED
    BY <2>1, <2>2 DEF getUselessItems, Stats
<1>2. ASSUME NEW p \in Piece
      PROVE  LET of == {k \in DOMAIN feedback : feedback[k].item = p}
             IN  IF itemStats[p] = Absent THEN of = {}
                 ELSE /\ itemStats[p].total = Cardinality(of)
                      /\ itemStats[p].useful = Cardinality({k \in of : feedback[k].useful})
                      /\ itemStats[p].lastUsed \in of /\ \A k \in of : k <= itemStats[p].lastUsed
  <2>1. Measured(itemStats[p], OfItem(p), feedback)
    BY DEF FeedbackInv
  <2> QED
    BY <2>1, Zenon DEF Measured, OfItem, UsefulOf
<1> QED
  BY <1>1, <1>2, LowAre

FaultInv ==
  /\ faults \in Seq([item: Piece, tokens: Nat])
  /\ omissions \in [Piece -> Nat \cup {Absent}]
  /\ \A k \in DOMAIN faults : omissions[faults[k].item] # Absent

LEMMA FaultsKeep == FaultInv /\ FaultNext => FaultInv'
<1> SUFFICES ASSUME FaultInv, FaultNext PROVE FaultInv'
  OBVIOUS
<1> DEFINE Fault == [item: Piece, tokens: Nat]
<1>0. faults \in Seq(Fault) /\ omissions \in [Piece -> Nat \cup {Absent}]
      /\ \A k \in DOMAIN faults : faults[k].item \in Piece /\ omissions[faults[k].item] # Absent
  <2>1. faults \in Seq(Fault)
    BY DEF FaultInv
  <2>2. \A k \in DOMAIN faults : faults[k] \in Fault
    BY <2>1, Members, Zenon
  <2>3. \A k \in DOMAIN faults : faults[k].item \in Piece
    BY <2>2
  <2> QED
    BY <2>1, <2>3 DEF FaultInv
<1>1. ASSUME NEW p \in Piece, recordFetch(p) PROVE FaultInv'
  <2> DEFINE fault == [item |-> p, tokens |-> omissions[p]]
  <2>1. /\ faults' = Append(faults, fault) /\ omissions' = omissions /\ omissions[p] # Absent
    BY <1>1 DEF recordFetch
  <2>2. fault \in Fault /\ fault.item = p
    BY <1>0, <2>1
  <2> HIDE DEF fault, Fault
  <2>3. /\ faults' \in Seq(Fault) /\ Len(faults) \in Nat /\ DOMAIN faults = 1..Len(faults)
        /\ DOMAIN faults' = 1..(Len(faults) + 1)
        /\ \A k \in 1..Len(faults) : faults'[k] = faults[k]
        /\ faults'[Len(faults) + 1] = fault
    BY <1>0, <2>1, <2>2
  <2>4. \A k \in DOMAIN faults' : k \in DOMAIN faults \/ faults'[k] = fault
    BY <2>3
  <2>5. \A k \in DOMAIN faults' : omissions'[faults'[k].item] # Absent
    BY <1>0, <2>1, <2>2, <2>3, <2>4
  <2> QED
    BY <1>0, <2>1, <2>3, <2>5 DEF FaultInv, Fault
<1>2. ASSUME NEW p \in Piece, NEW n \in Price, recordOmission(p, n) PROVE FaultInv'
  <2>1. n \in Nat /\ n # Absent
    BY RetrievalAssumption
  <2>2. omissions' = [omissions EXCEPT ![p] = n] /\ faults' = faults
    BY <1>2 DEF recordOmission
  <2>3. omissions' \in [Piece -> Nat \cup {Absent}]
        /\ \A q \in Piece : omissions[q] # Absent => omissions'[q] # Absent
    BY <1>0, <2>1, <2>2
  <2> QED
    BY <1>0, <2>2, <2>3 DEF FaultInv
<1>3. CASE resetFaults
  <2>1. omissions' = [p \in Piece |-> Absent] /\ faults' = <<>>
    BY <1>3 DEF resetFaults
  <2>2. DOMAIN faults' = {} /\ faults' \in Seq(Fault)
    BY <2>1
  <2> QED
    BY <2>1, <2>2 DEF FaultInv
<1> QED
  BY <1>1, <1>2, <1>3 DEF FaultNext

Tracked == [item: Piece, layer: BudgetLayer, tokens: Nat]

BudgetInv ==
  /\ budgets \in [BudgetLayer -> Nat] /\ \A l \in BudgetLayer : budgets[l] >= Minimum[l]
  /\ tracked \in Seq(Tracked)
  /\ \A j, k \in DOMAIN tracked : tracked[j].item = tracked[k].item => j = k

\* What remains are the others, in their order.
LEMMA WithoutIs ==
  ASSUME BudgetInv, NEW p
  PROVE  /\ Without(p) \in Seq(Tracked)
         /\ \A j, k \in DOMAIN Without(p) :
              Without(p)[j].item = Without(p)[k].item => j = k
<1> DEFINE T == {n \in DOMAIN tracked : tracked[n].item # p}
           Is(f) == f = [n \in 0..Len(tracked) |->
                           IF n = 0 THEN <<>>
                           ELSE IF tracked[n].item # p THEN Append(f[n-1], tracked[n])
                           ELSE f[n-1]]
<1>1. Without(p) = (CHOOSE f : Is(f))[Len(tracked)]
  BY DEF Without
<1>2. tracked \in Seq(Tracked) /\ Len(tracked) \in Nat /\ DOMAIN tracked = 1..Len(tracked)
  BY DEF BudgetInv
<1>3. ASSUME NEW f PROVE Is(f) <=> Passes(f, tracked, T)
  <2>1. \A n \in 0..Len(tracked) : n # 0 => (n \in T <=> tracked[n].item # p)
    BY <1>2
  <2> HIDE DEF T
  <2> QED
    BY <2>1 DEF Passes
<1>4. \E f : Is(f)
  <2> HIDE DEF Is, T
  <2> QED
    BY <1>2, <1>3, PassingExists
<1>5. PICK f : Is(f) /\ Without(p) = f[Len(tracked)]
  <2> HIDE DEF Is
  <2> QED
    BY <1>1, <1>4
<1> DEFINE r == Without(p)
<1>6. r \in Seq(Tracked) /\ Picks(r, tracked, T)
  <2>1. Passes(f, tracked, T)
    BY <1>3, <1>5
  <2> HIDE DEF T, Is
  <2>2. f[Len(tracked)] \in Seq(Tracked) /\ Picks(f[Len(tracked)], tracked, T)
    BY <1>2, <2>1, PassingPicks, Zenon
  <2> QED
    BY <1>5, <2>2
<1> HIDE DEF r, Is, T
<1>7. ASSUME NEW j \in DOMAIN r, NEW k \in DOMAIN r, r[j].item = r[k].item PROVE j = k
  <2>1. PICK a \in T \cap DOMAIN tracked : r[j] = tracked[a]
    BY <1>6, Zenon DEF Picks
  <2>2. PICK b \in T \cap DOMAIN tracked : r[k] = tracked[b]
    BY <1>6, Zenon DEF Picks
  <2>3. a = b
    BY <1>7, <2>1, <2>2 DEF BudgetInv
  <2>4. \A c, d \in DOMAIN tracked : tracked[c] = tracked[d] => c = d
    BY Zenon DEF BudgetInv
  <2> QED
    BY <1>6, <2>1, <2>2, <2>3, <2>4, Zenon DEF Picks
<1> QED
  BY <1>6, <1>7 DEF r

LEMMA BudgetsKeep == BudgetInv /\ BudgetNext => BudgetInv'
<1> SUFFICES ASSUME BudgetInv, BudgetNext PROVE BudgetInv'
  OBVIOUS
<1> DEFINE N0 == Len(tracked)
<1>0. /\ tracked \in Seq(Tracked) /\ N0 \in Nat /\ DOMAIN tracked = 1..N0
      /\ \A j, k \in 1..N0 : tracked[j].item = tracked[k].item => j = k
      /\ budgets \in [BudgetLayer -> Nat] /\ \A l \in BudgetLayer : budgets[l] >= Minimum[l]
  BY DEF BudgetInv
<1>1. ASSUME NEW l \in BudgetLayer, NEW n \in Allowance, setBudget(l, n) PROVE BudgetInv'
  <2>1. n >= Minimum[l] /\ budgets' = [budgets EXCEPT ![l] = n] /\ tracked' = tracked /\ n \in Nat
    BY <1>1, RetrievalAssumption DEF setBudget
  <2>2. budgets' \in [BudgetLayer -> Nat] /\ \A m \in BudgetLayer : budgets'[m] >= Minimum[m]
    BY <1>0, <2>1
  <2> QED
    BY <1>0, <2>1, <2>2 DEF BudgetInv
<1>2. ASSUME NEW l \in BudgetLayer, NEW p \in Piece, NEW c \in Price, addItem(l, p, c)
      PROVE  BudgetInv'
  <2> DEFINE entry == [item |-> p, layer |-> l, tokens |-> c]
             seen == \E k \in DOMAIN tracked : tracked[k].item = p
             placed(k) == IF tracked[k].item = p THEN entry ELSE tracked[k]
  <2>1. /\ tracked' = IF seen THEN [k \in DOMAIN tracked |-> placed(k)] ELSE Append(tracked, entry)
        /\ budgets' = budgets
    BY <1>2 DEF addItem
  <2>2. entry \in Tracked /\ entry.item = p
    BY RetrievalAssumption DEF Tracked
  <2>3. \A k \in 1..N0 : tracked[k] \in Tracked
    BY <1>0, Members, Zenon
  <2> HIDE DEF entry
  <2>4. CASE seen
    <3>1. tracked' = [k \in 1..N0 |-> placed(k)]
      BY <1>0, <2>1, <2>4, Zenon
    <3>2. \A k \in 1..N0 : placed(k) \in Tracked /\ placed(k).item = tracked[k].item
      BY <2>2, <2>3
    <3> HIDE DEF placed, N0
    <3>3. tracked' \in [1..N0 -> Tracked]
      BY <3>1, <3>2
    <3>4. tracked' \in Seq(Tracked) /\ DOMAIN tracked' = 1..N0
      BY <1>0, <3>3, FunctionIsSeq, Zenon
    <3>5. \A j, k \in 1..N0 : tracked'[j].item = tracked'[k].item => j = k
      BY <1>0, <3>1, <3>2
    <3> QED
      BY <1>0, <2>1, <3>4, <3>5 DEF BudgetInv
  <2>5. CASE ~seen
    <3>1. tracked' = Append(tracked, entry)
      BY <2>1, <2>5
    <3>2. /\ tracked' \in Seq(Tracked) /\ DOMAIN tracked' = 1..(N0 + 1)
          /\ \A k \in 1..N0 : tracked'[k] = tracked[k]
          /\ tracked'[N0 + 1] = entry
      <4> HIDE DEF Tracked
      <4> QED
        BY <1>0, <2>2, <3>1
    <3>3. \A k \in 1..N0 : tracked[k].item # p
      BY <1>0, <2>5
    <3> HIDE DEF N0
    <3>4. ASSUME NEW k \in 1..(N0 + 1)
          PROVE  \/ k \in 1..N0 /\ tracked'[k].item = tracked[k].item /\ tracked'[k].item # p
                 \/ k = N0 + 1 /\ tracked'[k].item = p
      <4>1. k \in 1..N0 \/ k = N0 + 1
        BY <1>0
      <4> QED
        BY <2>2, <3>2, <3>3, <4>1
    <3>5. \A j, k \in 1..(N0 + 1) : tracked'[j].item = tracked'[k].item => j = k
      BY <1>0, <3>4
    <3> QED
      BY <1>0, <2>1, <3>2, <3>5 DEF BudgetInv
  <2> QED
    BY <2>4, <2>5
<1>3. ASSUME NEW p \in Piece, removeItem(p) PROVE BudgetInv'
  <2>1. tracked' = Without(p) /\ budgets' = budgets
    BY <1>3 DEF removeItem
  <2> QED
    BY <1>0, <2>1, WithoutIs DEF BudgetInv
<1> QED
  BY <1>1, <1>2, <1>3 DEF BudgetNext

LEMMA TokensAre ==
  ASSUME BudgetInv, NEW items
  PROVE  TokensOf(items) \in Nat /\ (items = {} => TokensOf(items) = 0)
<1> DEFINE w == [n \in 1..Len(tracked) |-> IF n \in items THEN tracked[n].tokens ELSE 0]
           Is(f) == f = [n \in 0..Len(tracked) |->
                           IF n = 0 THEN 0
                           ELSE f[n - 1] + IF n \in items THEN tracked[n].tokens ELSE 0]
<1>1. TokensOf(items) = (CHOOSE f : Is(f))[Len(tracked)]
  BY DEF TokensOf
<1>2. tracked \in Seq(Tracked) /\ Len(tracked) \in Nat /\ DOMAIN tracked = 1..Len(tracked)
  BY DEF BudgetInv
<1>3. \A n \in 1..Len(tracked) : tracked[n] \in Tracked
  BY <1>2, Members, Zenon
<1>4. \A n \in 1..Len(tracked) : w[n] \in Nat
  BY <1>3 DEF Tracked
<1>5. ASSUME NEW f PROVE Is(f) <=> Sums(f, w, Len(tracked))
  <2>1. \A n \in 0..Len(tracked) :
          n # 0 => w[n] = IF n \in items THEN tracked[n].tokens ELSE 0
    BY <1>2
  <2> HIDE DEF w
  <2> QED
    BY <2>1 DEF Sums
<1>6. PICK f : Is(f) /\ TokensOf(items) = f[Len(tracked)]
  <2>1. \E f : Is(f)
    <3> HIDE DEF Is, w
    <3> QED
      BY <1>2, <1>5, SumExists
  <2> HIDE DEF Is
  <2> QED
    BY <1>1, <2>1
<1>7. Sums(f, w, Len(tracked))
  BY <1>5, <1>6
<1>8. items = {} => \A n \in 1..Len(tracked) : w[n] = 0
  OBVIOUS
<1> HIDE DEF w, Is
<1> QED
  BY <1>2, <1>4, <1>6, <1>7, <1>8, SumIsNatural

\* What is suggested is enough, and nothing when nothing is needed.
LEMMA EvictionIs ==
  ASSUME BudgetInv, NEW l \in BudgetLayer
  PROVE  LET out == suggestEviction(l)
         IN  /\ Used(l) - TokensOf(out) <= budgets[l]
             /\ (out # {}) <=> l \in checkViolations
<1> DEFINE Higher(k) == {j \in InLayer(l) :
                           \/ tracked[j].tokens < tracked[k].tokens
                           \/ tracked[j].tokens = tracked[k].tokens /\ j < k}
           Cheapest(n) == {k \in InLayer(l) : Cardinality(Higher(k)) < n}
           enough == {n \in 0..Len(tracked) : TokensOf(Cheapest(n)) + budgets[l] >= Used(l)}
           out == suggestEviction(l)
           m == Min(enough)
<1>1. out = Cheapest(m)
  BY DEF suggestEviction
<1>2. /\ tracked \in Seq(Tracked) /\ Len(tracked) \in Nat /\ DOMAIN tracked = 1..Len(tracked)
      /\ budgets[l] \in Nat
  BY DEF BudgetInv
<1>3. ASSUME NEW k \in InLayer(l)
      PROVE  Cardinality(Higher(k)) \in Nat /\ Cardinality(Higher(k)) < Len(tracked)
  <2>1. k \in DOMAIN tracked /\ tracked[k] \in Tracked
    <3>1. k \in DOMAIN tracked
      BY DEF InLayer
    <3> QED
      BY <1>2, <3>1, Members, Zenon
  <2>2. k \notin Higher(k)
    BY <1>2, <2>1 DEF Tracked
  <2>3. Higher(k) \in SUBSET DOMAIN tracked
    BY DEF InLayer
  <2> DEFINE B == Higher(k)
  <2> HIDE DEF B
  <2>4. /\ IsFiniteSet(B) /\ Cardinality(B) \in Nat
        /\ Cardinality(B \cup {k}) <= Len(tracked)
    <3>1. B \cup {k} \in SUBSET DOMAIN tracked /\ B \in SUBSET DOMAIN tracked
      BY <2>1, <2>3 DEF B
    <3> QED
      BY <1>2, <3>1, SomePlaces
  <2>5. Cardinality(B \cup {k}) = Cardinality(B) + 1
    BY <2>2, <2>4, FS_AddElement DEF B
  <2> QED
    BY <1>2, <2>4, <2>5 DEF B
<1> HIDE DEF Higher
<1>4. Cheapest(Len(tracked)) = InLayer(l)
  BY <1>3
<1>5. Cheapest(0) = {}
  BY <1>3
<1>6. /\ \A n : TokensOf(Cheapest(n)) \in Nat
      /\ Used(l) \in Nat /\ Used(l) = TokensOf(InLayer(l))
      /\ TokensOf({}) = 0
  BY TokensAre DEF Used
<1> HIDE DEF Cheapest
<1>7. Len(tracked) \in enough
  BY <1>2, <1>4, <1>6
<1>8. m \in enough /\ \A n \in enough : m <= n
  <2>1. enough \in SUBSET Nat
    OBVIOUS
  <2> HIDE DEF enough
  <2> QED
    BY <1>7, <2>1, Least
<1> HIDE DEF m, out
<1>9. TokensOf(out) + budgets[l] >= Used(l) /\ TokensOf(out) \in Nat
  BY <1>1, <1>6, <1>8
<1>10. Used(l) - TokensOf(out) <= budgets[l]
  BY <1>2, <1>6, <1>9
<1>11. ASSUME out = {} PROVE l \notin checkViolations
  BY <1>2, <1>6, <1>9, <1>11 DEF checkViolations
<1>12. ASSUME out # {} PROVE l \in checkViolations
  <2> SUFFICES ASSUME Used(l) <= budgets[l] PROVE FALSE
    BY <1>2, <1>6 DEF checkViolations
  <2>1. 0 \in enough
    BY <1>2, <1>5, <1>6
  <2>2. m = 0
    BY <1>8, <2>1
  <2> QED
    BY <1>1, <1>5, <1>12, <2>2
<1> QED
  BY <1>10, <1>11, <1>12 DEF out

RetrievalInv == FeedbackInv /\ FaultInv /\ BudgetInv

LEMMA RetrievalStarts == RetrievalInit => RetrievalInv
<1> SUFFICES ASSUME RetrievalInit PROVE RetrievalInv
  OBVIOUS
<1>1. FaultInv
  BY DEF RetrievalInit, FaultInv
<1>2. BudgetInv
  <2>1. \A l \in BudgetLayer : Minimum[l] \in Nat
    BY RetrievalAssumption
  <2> QED
    BY <2>1, RetrievalAssumption DEF RetrievalInit, BudgetInv
<1> QED
  BY <1>1, <1>2, FeedbackStarts DEF RetrievalInv

LEMMA RetrievalKeeps == RetrievalInv /\ [RetrievalNext]_retrievalVars => RetrievalInv'
<1> SUFFICES ASSUME RetrievalInv, [RetrievalNext]_retrievalVars PROVE RetrievalInv'
  OBVIOUS
<1>1. ASSUME UNCHANGED feedbackVars PROVE FeedbackInv'
  <2>1. feedback' = feedback /\ itemStats' = itemStats /\ sourceStats' = sourceStats
    BY <1>1 DEF feedbackVars
  <2>2. FeedbackInv
    BY DEF RetrievalInv
  <2>3. /\ \A p \in Piece : Measured(itemStats'[p], OfItem(p)', feedback')
        /\ \A o \in Origin : Measured(sourceStats'[o], OfOrigin(o)', feedback')
    BY <2>1, <2>2 DEF FeedbackInv, OfItem, OfOrigin
  <2>4. /\ feedback' \in Seq(Event) /\ itemStats' = [p \in Piece |-> itemStats'[p]]
        /\ sourceStats' = [o \in Origin |-> sourceStats'[o]]
    BY <2>1, <2>2, Zenon DEF FeedbackInv
  <2> QED
    BY <2>3, <2>4, Zenon DEF FeedbackInv
<1>2. ASSUME UNCHANGED faultVars PROVE FaultInv'
  BY <1>2 DEF faultVars, RetrievalInv, FaultInv
<1>3. ASSUME UNCHANGED budgetVars PROVE BudgetInv'
  BY <1>3 DEF budgetVars, RetrievalInv, BudgetInv
<1>4. CASE FeedbackNext
  <2>1. UNCHANGED <<faultVars, budgetVars>>
    BY <1>4 DEF FeedbackNext, Feed, resetFeedback
  <2>2. FeedbackInv'
    <3>1. CASE resetFeedback
      <4>1. /\ feedback' = <<>> /\ itemStats' = [p \in Piece |-> Absent]
            /\ sourceStats' = [o \in Origin |-> Absent]
        BY <3>1 DEF resetFeedback
      <4>2. DOMAIN feedback' = {} /\ feedback' \in Seq(Event)
        BY <4>1
      <4> QED
        BY <4>1, <4>2 DEF FeedbackInv, Measured, OfItem, OfOrigin
    <3> QED
      BY <1>4, <3>1, FedRight DEF FeedbackNext, RetrievalInv
  <2> QED
    BY <1>2, <1>3, <2>1, <2>2 DEF RetrievalInv
<1>5. CASE FaultNext
  <2>1. UNCHANGED <<feedbackVars, budgetVars>>
    BY <1>5 DEF FaultNext, recordFetch, recordOmission, resetFaults
  <2> QED
    BY <1>1, <1>3, <1>5, <2>1, FaultsKeep DEF RetrievalInv
<1>6. CASE BudgetNext
  <2>1. UNCHANGED <<feedbackVars, faultVars>>
    BY <1>6 DEF BudgetNext, setBudget, addItem, removeItem
  <2> QED
    BY <1>1, <1>2, <1>6, <2>1, BudgetsKeep DEF RetrievalInv
<1>7. CASE UNCHANGED retrievalVars
  BY <1>1, <1>2, <1>3, <1>7 DEF retrievalVars, feedbackVars, faultVars, budgetVars, RetrievalInv
<1> QED
  BY <1>4, <1>5, <1>6, <1>7 DEF RetrievalNext

LEMMA RetrievalTyped == RetrievalInv => RetrievalTypeOK
<1> SUFFICES ASSUME RetrievalInv PROVE RetrievalTypeOK
  OBVIOUS
<1>1. ASSUME NEW k \in DOMAIN faults PROVE omissions[faults[k].item] # Absent /\ faultRate = 1
  <2>1. Len(faults) \in Nat \ {0} /\ faults # <<>>
    BY DEF RetrievalInv, FaultInv
  <2>2. Len(faults) \div Len(faults) = 1
    BY <2>1
  <2> QED
    BY <2>1, <2>2 DEF RetrievalInv, FaultInv, faultRate
<1>2. ASSUME NEW l \in BudgetLayer
      PROVE  /\ budgets[l] >= Minimum[l]
             /\ LET out == suggestEviction(l)
                IN  /\ Used(l) - TokensOf(out) <= budgets[l]
                    /\ (out # {}) <=> l \in checkViolations
  BY EvictionIs DEF RetrievalInv, BudgetInv
<1>3. \A j, k \in DOMAIN tracked : tracked[j].item = tracked[k].item => j = k
  BY DEF RetrievalInv, BudgetInv
<1>4. FeedbackInv
  BY DEF RetrievalInv
<1> QED
  BY <1>1, <1>2, <1>3, <1>4, FeedbackTells DEF RetrievalTypeOK

\* Whatever is fed back, left out, fetched, tracked and moved: the statistics are
\* those of the events, the best were never useless, and what is suggested for
\* eviction is enough and only when needed (context-feedback-loop.js,
\* page-fault-tracker.js, context-budget-manager.js).
THEOREM AlwaysRetrievalTyped == RetrievalSpec => []RetrievalTypeOK
  BY RetrievalStarts, RetrievalKeeps, RetrievalTyped, PTL DEF RetrievalSpec

-----------------------------------------------------------------------------
(* Diagnosis.                                                              *)

\* By weight, and of the same weight by number.
LEMMA HeaviestFirst ==
  ASSUME NEW S \in SUBSET Nat, NEW w \in [S -> Int], NEW Below,
         Below = [k \in S |-> {j \in S : w[j] > w[k] \/ (w[j] = w[k] /\ j < k)}]
  PROVE  Orders(Below, S)
<1>1. Below \in [S -> SUBSET S]
  OBVIOUS
<1>2. \A j, k \in S : j \in Below[k] <=> w[j] > w[k] \/ (w[j] = w[k] /\ j < k)
  OBVIOUS
<1>3. \A k \in S : w[k] \in Int /\ k \in Int
  OBVIOUS
<1>4. \A k \in S : k \notin Below[k]
  BY <1>2, <1>3
<1>5. ASSUME NEW j \in S, NEW k \in S, j # k PROVE j \in Below[k] \/ k \in Below[j]
  <2>1. /\ w[j] > w[k] \/ w[k] > w[j] \/ (w[j] = w[k] /\ w[k] = w[j])
        /\ j < k \/ k < j
    BY <1>3, <1>5
  <2>2. /\ j \in Below[k] <=> w[j] > w[k] \/ (w[j] = w[k] /\ j < k)
        /\ k \in Below[j] <=> w[k] > w[j] \/ (w[k] = w[j] /\ k < j)
    BY <1>2
  <2> QED
    BY <2>1, <2>2
<1>6. ASSUME NEW i \in S, NEW j \in S, NEW k \in S, i \in Below[j], j \in Below[k]
      PROVE  i \in Below[k]
  BY <1>2, <1>3, <1>6
<1> QED
  BY <1>1, <1>4, <1>5, <1>6 DEF Orders

PossibleCause == [id: CauseId, prior: Nat]

LEMMA OneOf == ASSUME NEW A, NEW a \in A PROVE <<a>> \in Seq(A) /\ <<a>> # <<>>
OBVIOUS

LEMMA TwoOf ==
  ASSUME NEW A, NEW a \in A, NEW b \in A PROVE <<a, b>> \in Seq(A) /\ <<a, b>> # <<>>
OBVIOUS

LEMMA ThreeOf ==
  ASSUME NEW A, NEW a \in A, NEW b \in A, NEW c \in A
  PROVE  <<a, b, c>> \in Seq(A) /\ <<a, b, c>> # <<>>
OBVIOUS

LEMMA CausesAre ==
  ASSUME NEW class \in FailureClass
  PROVE  /\ generateCandidateCauses(class) \in Seq(PossibleCause)
         /\ generateCandidateCauses(class) # <<>>
         /\ antiBotSupport(class) = "SUPPORTED" =>
              \A k \in DOMAIN generateCandidateCauses(class) :
                generateCandidateCauses(class)[k].id \in {"WAF_BLOCK", "GEO_BLOCK"}
<1> DEFINE causes == generateCandidateCauses(class)
           Ids == {"UNCLASSIFIED", "MISSING_EXECUTABLE", "WRONG_EXECUTABLE_PATH", "WAF_BLOCK",
                   "GEO_BLOCK", "REQUESTS_THROTTLED", "INVALID_CREDENTIALS", "EXPIRED_TOKEN",
                   "DNS_FAILURE", "CONNECTION_REFUSED", "TLS_ERROR", "LAUNCH_FAILED",
                   "PAGE_CRASH", "NAVIGATION_TIMEOUT", "BAD_CONFIG"}
<1>1. class \in {"UNKNOWN", "MISSING_EXECUTABLE", "ANTI_BOT", "RATE_LIMIT", "AUTH",
                 "NETWORK_ERROR", "BROWSER_RUNTIME", "CONFIGURATION"}
  BY DEF FailureClass, ClassificationRules, Range
<1>2. causes \in Seq([id: Ids, prior: Nat]) /\ causes # <<>>
  <2> DEFINE R == [id: Ids, prior: Nat]
  <2> HIDE DEF R
  <2>1. CASE class = "UNKNOWN"
    <3>1. causes = <<Cause("UNCLASSIFIED", 10)>>
      BY <2>1 DEF generateCandidateCauses
    <3> HIDE DEF causes
    <3>2. Cause("UNCLASSIFIED", 10) \in R
      BY DEF R, Cause, Ids
    <3>3. causes \in Seq(R) /\ causes # <<>>
      BY <3>1, <3>2, OneOf, Zenon
    <3> QED
      BY <3>3 DEF R
  <2>2. CASE class = "MISSING_EXECUTABLE"
    <3>1. causes = <<Cause("MISSING_EXECUTABLE", 9), Cause("WRONG_EXECUTABLE_PATH", 2)>>
      BY <2>2 DEF generateCandidateCauses
    <3> HIDE DEF causes
    <3>2. Cause("MISSING_EXECUTABLE", 9) \in R /\ Cause("WRONG_EXECUTABLE_PATH", 2) \in R
      BY DEF R, Cause, Ids
    <3>3. causes \in Seq(R) /\ causes # <<>>
      BY <3>1, <3>2, TwoOf, Zenon
    <3> QED
      BY <3>3 DEF R
  <2>3. CASE class = "ANTI_BOT"
    <3>1. causes = <<Cause("WAF_BLOCK", 7), Cause("GEO_BLOCK", 2)>>
      BY <2>3 DEF generateCandidateCauses
    <3> HIDE DEF causes
    <3>2. Cause("WAF_BLOCK", 7) \in R /\ Cause("GEO_BLOCK", 2) \in R
      BY DEF R, Cause, Ids
    <3>3. causes \in Seq(R) /\ causes # <<>>
      BY <3>1, <3>2, TwoOf, Zenon
    <3> QED
      BY <3>3 DEF R
  <2>4. CASE class = "RATE_LIMIT"
    <3>1. causes = <<Cause("REQUESTS_THROTTLED", 9)>>
      BY <2>4 DEF generateCandidateCauses
    <3> HIDE DEF causes
    <3>2. Cause("REQUESTS_THROTTLED", 9) \in R
      BY DEF R, Cause, Ids
    <3>3. causes \in Seq(R) /\ causes # <<>>
      BY <3>1, <3>2, OneOf, Zenon
    <3> QED
      BY <3>3 DEF R
  <2>5. CASE class = "AUTH"
    <3>1. causes = <<Cause("INVALID_CREDENTIALS", 8), Cause("EXPIRED_TOKEN", 4)>>
      BY <2>5 DEF generateCandidateCauses
    <3> HIDE DEF causes
    <3>2. Cause("INVALID_CREDENTIALS", 8) \in R /\ Cause("EXPIRED_TOKEN", 4) \in R
      BY DEF R, Cause, Ids
    <3>3. causes \in Seq(R) /\ causes # <<>>
      BY <3>1, <3>2, TwoOf, Zenon
    <3> QED
      BY <3>3 DEF R
  <2>6. CASE class = "NETWORK_ERROR"
    <3>1. causes = <<Cause("DNS_FAILURE", 4), Cause("CONNECTION_REFUSED", 4),
                  Cause("TLS_ERROR", 2)>>
      BY <2>6 DEF generateCandidateCauses
    <3> HIDE DEF causes
    <3>2. Cause("DNS_FAILURE", 4) \in R /\ Cause("CONNECTION_REFUSED", 4) \in R /\
          Cause("TLS_ERROR", 2) \in R
      BY DEF R, Cause, Ids
    <3>3. causes \in Seq(R) /\ causes # <<>>
      BY <3>1, <3>2, ThreeOf, Zenon
    <3> QED
      BY <3>3 DEF R
  <2>7. CASE class = "BROWSER_RUNTIME"
    <3>1. causes = <<Cause("LAUNCH_FAILED", 7), Cause("PAGE_CRASH", 3),
                  Cause("NAVIGATION_TIMEOUT", 3)>>
      BY <2>7 DEF generateCandidateCauses
    <3> HIDE DEF causes
    <3>2. Cause("LAUNCH_FAILED", 7) \in R /\ Cause("PAGE_CRASH", 3) \in R /\
          Cause("NAVIGATION_TIMEOUT", 3) \in R
      BY DEF R, Cause, Ids
    <3>3. causes \in Seq(R) /\ causes # <<>>
      BY <3>1, <3>2, ThreeOf, Zenon
    <3> QED
      BY <3>3 DEF R
  <2>8. CASE class = "CONFIGURATION"
    <3>1. causes = <<Cause("BAD_CONFIG", 9)>>
      BY <2>8 DEF generateCandidateCauses
    <3> HIDE DEF causes
    <3>2. Cause("BAD_CONFIG", 9) \in R
      BY DEF R, Cause, Ids
    <3>3. causes \in Seq(R) /\ causes # <<>>
      BY <3>1, <3>2, OneOf, Zenon
    <3> QED
      BY <3>3 DEF R
  <2> QED
    BY <1>1, <2>1, <2>2, <2>3, <2>4, <2>5, <2>6, <2>7, <2>8 DEF R
<1> HIDE DEF Ids
<1>3. \A k \in DOMAIN causes : causes[k].id \in CauseId
  <2> DEFINE ids(c) == {generateCandidateCauses(c)[k].id : k \in DOMAIN generateCandidateCauses(c)}
  <2>1. CauseId = UNION {ids(c) : c \in FailureClass}
    BY DEF CauseId
  <2>2. \A k \in DOMAIN causes : causes[k].id \in ids(class)
    BY Zenon
  <2> HIDE DEF ids
  <2> QED
    BY <2>1, <2>2
<1>4. causes \in Seq(PossibleCause)
  <2>1. \A k \in DOMAIN causes : causes[k] \in [id: Ids, prior: Nat]
    BY <1>2, Members, Zenon
  <2>2. \A k \in 1..Len(causes) : causes[k] \in PossibleCause
    <3>1. DOMAIN causes = 1..Len(causes)
      BY <1>2
    <3> QED
      BY <1>3, <2>1, <3>1 DEF PossibleCause
  <2>3. Len(causes) \in Nat /\ causes = [k \in 1..Len(causes) |-> causes[k]]
    BY <1>2
  <2> HIDE DEF causes
  <2>4. causes \in [1..Len(causes) -> PossibleCause]
    BY <2>2, <2>3
  <2> QED
    BY <2>3, <2>4, FunctionIsSeq
<1>5. ASSUME antiBotSupport(class) = "SUPPORTED", NEW k \in DOMAIN causes
      PROVE  causes[k].id \in {"WAF_BLOCK", "GEO_BLOCK"}
  <2>1. class = "ANTI_BOT"
    BY <1>1, <1>5 DEF antiBotSupport
  <2>2. causes = <<Cause("WAF_BLOCK", 7), Cause("GEO_BLOCK", 2)>>
    BY <2>1 DEF generateCandidateCauses
  <2> QED
    BY <2>2 DEF Cause
<1> QED
  BY <1>2, <1>4, <1>5

\* The causes in the order of what is held of them, none of them lost or new.
LEMMA RankedAre ==
  ASSUME NEW candidates \in Seq(PossibleCause), candidates # <<>>,
         NEW previous \in {NoReport} \cup Report,
         NEW ranked, ranked = rankCandidates(candidates, previous)
  PROVE  /\ ranked \in Seq(PossibleCause) /\ Len(ranked) > 0
         /\ \A k \in DOMAIN ranked : ranked[k].prior <= ranked[1].prior
         /\ \A k \in DOMAIN ranked : \E j \in DOMAIN candidates :
              ranked[k].id = candidates[j].id
<1> DEFINE Earlier(id) ==
             IF previous = NoReport THEN {}
             ELSE {k \in DOMAIN previous.candidates : previous.candidates[k].id = id}
           gain(k) == IF Earlier(candidates[k].id) = {} THEN 0
                      ELSE previous.candidates[CHOOSE j \in Earlier(candidates[k].id) : TRUE].prior
           weighed == [k \in DOMAIN candidates |->
                         [candidates[k] EXCEPT !.prior = @ + gain(k)]]
           Higher(k) == {j \in DOMAIN candidates :
                           \/ weighed[j].prior > weighed[k].prior
                           \/ weighed[j].prior = weighed[k].prior /\ j < k}
           S == DOMAIN candidates
           w == [k \in S |-> weighed[k].prior]
           Below == [k \in S |-> {j \in S : w[j] > w[k] \/ (w[j] = w[k] /\ j < k)}]
           first(n) == CHOOSE k \in DOMAIN candidates : Cardinality(Higher(k)) = n - 1
           order == [n \in 1..Cardinality(S) |-> first(n)]
<1>1. ranked = [n \in DOMAIN candidates |-> weighed[first(n)]]
  BY Zenon DEF rankCandidates
<1>2. ASSUME NEW k \in S PROVE gain(k) \in Nat
  <2>1. CASE Earlier(candidates[k].id) = {}
    BY <2>1
  <2>2. CASE Earlier(candidates[k].id) # {}
    <3>1. previous \in Report
      BY <2>2
    <3> DEFINE j == CHOOSE i \in Earlier(candidates[k].id) : TRUE
    <3>2. j \in Earlier(candidates[k].id)
      BY <2>2
    <3>3. j \in DOMAIN previous.candidates /\ previous.candidates \in Seq(PossibleCause)
      BY <3>1, <3>2 DEF Report, PossibleCause
    <3>4. previous.candidates[j] \in PossibleCause
      BY <3>3, Members, Zenon
    <3> QED
      BY <2>2, <3>4 DEF PossibleCause
  <2> QED
    BY <2>1, <2>2
<1> HIDE DEF gain
<1>3. ASSUME NEW k \in S
      PROVE  weighed[k] \in PossibleCause /\ weighed[k].id = candidates[k].id
  <2>1. candidates[k] \in PossibleCause
    BY Members, Zenon
  <2> QED
    BY <1>2, <2>1 DEF PossibleCause
<1>4. S = 1..Len(candidates) /\ Len(candidates) \in Nat /\ Len(candidates) > 0
  OBVIOUS
<1>5. IsFiniteSet(S) /\ Cardinality(S) = Len(candidates)
  BY <1>4, IntervalSize
<1> HIDE DEF weighed, S
<1>6. w \in [S -> Int] /\ S \in SUBSET Nat
  BY <1>3, <1>4 DEF PossibleCause
<1>7. Orders(Below, S)
  <2> HIDE DEF w
  <2> QED
    BY <1>6, HeaviestFirst
<1>8. ASSUME NEW k \in S PROVE Below[k] = Higher(k)
  <2>1. \A j \in S : w[j] = weighed[j].prior
    OBVIOUS
  <2>2. Below[k] = {j \in S : w[j] > w[k] \/ (w[j] = w[k] /\ j < k)}
    OBVIOUS
  <2>3. Higher(k) = {j \in S : \/ weighed[j].prior > weighed[k].prior
                               \/ weighed[j].prior = weighed[k].prior /\ j < k}
    BY Zenon DEF S
  <2> HIDE DEF w, Below, Higher
  <2> QED
    BY <2>1, <2>2, <2>3
<1>9. \A j, k \in S : j \in Below[k] => weighed[j].prior >= weighed[k].prior
  BY <1>3 DEF PossibleCause
<1> HIDE DEF Below, Higher
<1>10. /\ order = [n \in 1..Cardinality(S) |-> order[n]]
       /\ \A n \in 1..Cardinality(S) : \A k \in S :
            Cardinality(Below[k]) = n - 1 => order[n] \in S /\ Cardinality(Below[order[n]]) = n - 1
  BY <1>8 DEF S
<1> HIDE DEF order, first
<1>11. /\ order \in [1..Cardinality(S) -> S]
       /\ \A m, n \in 1..Cardinality(S) : m < n => order[m] \in Below[order[n]]
  BY <1>5, <1>7, <1>10, InOrder
<1>12. ranked = [n \in 1..Len(candidates) |-> weighed[order[n]]]
  BY <1>1, <1>4, <1>5 DEF order, S
<1>13. \A n \in 1..Len(candidates) : order[n] \in S
  BY <1>5, <1>11
<1>14. ranked \in [1..Len(candidates) -> PossibleCause]
  BY <1>3, <1>12, <1>13
<1>15. ranked \in Seq(PossibleCause) /\ DOMAIN ranked = 1..Len(candidates) /\ Len(ranked) > 0
  BY <1>4, <1>14, FunctionIsSeq
<1>16. ASSUME NEW k \in DOMAIN ranked PROVE ranked[k].prior <= ranked[1].prior
  <2>1. 1 \in 1..Len(candidates) /\ k \in 1..Len(candidates) /\ (k = 1 \/ 1 < k)
    BY <1>4, <1>15
  <2>2. /\ ranked[k] = weighed[order[k]] /\ ranked[1] = weighed[order[1]]
        /\ order[1] \in S /\ order[k] \in S
    BY <1>12, <1>13, <2>1
  <2>3. k = 1 \/ order[1] \in Below[order[k]]
    BY <1>5, <1>11, <2>1
  <2>4. k = 1 \/ weighed[order[1]].prior >= weighed[order[k]].prior
    BY <1>9, <2>2, <2>3
  <2> QED
    BY <1>3, <2>2, <2>4 DEF PossibleCause
<1>17. ASSUME NEW k \in DOMAIN ranked
       PROVE  \E j \in DOMAIN candidates : ranked[k].id = candidates[j].id
  <2>1. ranked[k] = weighed[order[k]] /\ order[k] \in S
    BY <1>12, <1>13, <1>15
  <2> QED
    BY <1>3, <2>1 DEF S
<1> QED
  BY <1>15, <1>16, <1>17

LEMMA ClassIs ==
  ASSUME NEW status, NEW text
  PROVE  classifyObservation(status, text) \in FailureClass
<1> DEFINE claiming == {k \in DOMAIN ClassificationRules : status \in StatusCodes(ClassificationRules[k])}
           matching == {k \in DOMAIN ClassificationRules : ClassificationRules[k] \in text}
<1>1. ASSUME NEW T \in SUBSET DOMAIN ClassificationRules, T # {}
      PROVE  ClassificationRules[Min(T)] \in FailureClass
  <2>1. T \in SUBSET Nat
    BY DEF ClassificationRules
  <2>2. Min(T) \in T
    BY <1>1, <2>1, Least
  <2> QED
    BY <2>2 DEF FailureClass, Range
<1>2. claiming \in SUBSET DOMAIN ClassificationRules /\ matching \in SUBSET DOMAIN ClassificationRules
  OBVIOUS
<1> HIDE DEF claiming, matching
<1> QED
  BY <1>1, <1>2 DEF classifyObservation, FailureClass, claiming, matching

LEMMA DiagnosisStarts == DiagnosisInit => DiagnosisTypeOK
  BY DiagnosisAssumption DEF DiagnosisInit, DiagnosisTypeOK

LEMMA DiagnosisKeeps == DiagnosisTypeOK /\ [DiagnosisNext]_diagnosisVars => DiagnosisTypeOK'
<1> SUFFICES ASSUME DiagnosisTypeOK, [DiagnosisNext]_diagnosisVars PROVE DiagnosisTypeOK'
  OBVIOUS
<1>1. ASSUME NEW status \in StatusCode, NEW text \in Symptoms,
             NEW previous \in {NoReport, diagnosis}, diagnose(status, text, previous)
      PROVE  DiagnosisTypeOK'
  <2> DEFINE class == classifyObservation(status, text)
             candidates == generateCandidateCauses(class)
             ranked == rankCandidates(candidates, previous)
  <2>1. class \in FailureClass
    BY ClassIs
  <2>2. /\ candidates \in Seq(PossibleCause) /\ candidates # <<>>
        /\ antiBotSupport(class) = "SUPPORTED" =>
             \A k \in DOMAIN candidates : candidates[k].id \in {"WAF_BLOCK", "GEO_BLOCK"}
    BY <2>1, CausesAre
  <2>3. previous \in {NoReport} \cup Report
    BY DEF DiagnosisTypeOK
  <2>4. /\ diagnosis' = [class |-> class, candidates |-> ranked, experiment |-> Head(ranked).id]
        /\ observed' = NoReport /\ verdict' = NoReport /\ rounds' = rounds + 1
        /\ rounds < MaxRounds
    BY <1>1 DEF diagnose
  <2> HIDE DEF class, candidates
  <2>5. /\ ranked \in Seq(PossibleCause) /\ Len(ranked) > 0
        /\ \A k \in DOMAIN ranked : ranked[k].prior <= ranked[1].prior
        /\ \A k \in DOMAIN ranked : \E j \in DOMAIN candidates : ranked[k].id = candidates[j].id
    BY <2>2, <2>3, RankedAre
  <2> HIDE DEF ranked
  <2>6. Head(ranked) = ranked[1] /\ 1 \in DOMAIN ranked
    BY <2>5
  <2>7. ranked[1] \in PossibleCause
    BY <2>5, <2>6, Members, Zenon
  <2>8. diagnosis' \in Report /\ diagnosis'.experiment = diagnosis'.candidates[1].id
    BY <2>1, <2>4, <2>5, <2>6, <2>7 DEF Report, PossibleCause
  <2>9. \A k \in DOMAIN diagnosis'.candidates :
          diagnosis'.candidates[k].prior <= diagnosis'.candidates[1].prior
    BY <2>4, <2>5
  <2>10. ASSUME antiBotSupport(diagnosis'.class) = "SUPPORTED"
         PROVE  diagnosis'.experiment \in {"WAF_BLOCK", "GEO_BLOCK"}
    <3>1. antiBotSupport(class) = "SUPPORTED"
      BY <2>4, <2>10
    <3>2. PICK j \in DOMAIN candidates : ranked[1].id = candidates[j].id
      BY <2>5, <2>6
    <3> QED
      BY <2>2, <2>4, <2>6, <3>1, <3>2
  <2>11. rounds' \in 0..MaxRounds
    BY <2>4, DiagnosisAssumption DEF DiagnosisTypeOK
  <2> QED
    BY <2>4, <2>8, <2>9, <2>10, <2>11 DEF DiagnosisTypeOK
<1>2. ASSUME NEW shown \in Outcome \cup {NoReport}, Probe(shown) PROVE DiagnosisTypeOK'
  <2>1. assessCause(diagnosis.experiment, shown)
          \in {"SUPPORTED", "CONTRADICTED", "INCONCLUSIVE"}
    BY DEF assessCause
  <2>2. /\ observed' = shown /\ verdict' \in {"SUPPORTED", "CONTRADICTED", "INCONCLUSIVE"}
        /\ diagnosis' = diagnosis /\ rounds' = rounds
    BY <1>2, <2>1 DEF Probe
  <2> QED
    BY <2>2, Zenon DEF DiagnosisTypeOK
<1>3. CASE UNCHANGED diagnosisVars
  BY <1>3, Zenon DEF diagnosisVars, DiagnosisTypeOK
<1> QED
  BY <1>1, <1>2, <1>3 DEF DiagnosisNext

\* However often a failure is diagnosed, afresh or in the light of what was found
\* before, the experiment is that of a cause which no other outweighs and stealth
\* is advised for none but what blocks robots (diagnostic-engine.js).
THEOREM AlwaysDiagnosisTyped == DiagnosisSpec => []DiagnosisTypeOK
  BY DiagnosisStarts, DiagnosisKeeps, PTL DEF DiagnosisSpec

-----------------------------------------------------------------------------
(* Drift.                                                                  *)

Distinct(s) == \A j, k \in DOMAIN s : s[j] = s[k] => j = k

LEMMA RangeSize ==
  ASSUME NEW A, NEW s \in Seq(A), Distinct(s)
  PROVE  Cardinality(Range(s)) = Len(s)
<1>1. Len(s) \in Nat /\ DOMAIN s = 1..Len(s) /\ s = [k \in 1..Len(s) |-> s[k]]
  OBVIOUS
<1>2. IsFiniteSet(1..Len(s)) /\ Cardinality(1..Len(s)) = Len(s)
  BY <1>1, IntervalSize
<1>3. s \in [1..Len(s) -> Range(s)]
  BY <1>1 DEF Range
<1>4. s \in Bijection(1..Len(s), Range(s))
  <2>1. \A y \in Range(s) : \E k \in 1..Len(s) : s[k] = y
    BY <1>1 DEF Range
  <2>2. \A j, k \in 1..Len(s) : s[j] = s[k] => j = k
    BY <1>1 DEF Distinct
  <2> QED
    BY <1>3, <2>1, <2>2 DEF Bijection, Injection, Surjection, IsInjective
<1>5. Cardinality(1..Len(s)) = Cardinality(Range(s))
  BY <1>2, <1>4, FS_Bijection DEF ExistsBijection
<1> QED
  BY <1>2, <1>5

LEMMA LesserOfTwo ==
  ASSUME NEW a \in Nat, NEW b \in Nat
  PROVE  Min({a, b}) \in {a, b} /\ Min({a, b}) <= a /\ Min({a, b}) <= b /\ Min({a, b}) \in Nat
<1>1. Min({a, b}) \in {a, b} /\ Min({a, b}) <= a /\ Min({a, b}) <= b
  BY LeastOfTwo
<1> QED
  BY <1>1

LEMMA FirstOfIs ==
  ASSUME NEW A, NEW s \in Seq(A), NEW n \in Nat, NEW r, r = FirstOf(s, n)
  PROVE  /\ r \in Seq(A) /\ Len(r) <= n
         /\ \A k \in DOMAIN r : k \in DOMAIN s /\ r[k] = s[k]
         /\ Distinct(s) => Distinct(r)
<1> DEFINE m == Min({n, Len(s)})
<1>1. Len(s) \in Nat /\ DOMAIN s = 1..Len(s)
  OBVIOUS
<1>2. m \in Nat /\ m <= n /\ m <= Len(s)
  BY <1>1, LesserOfTwo, Zenon
<1> HIDE DEF m
<1>3. r = SubSeq(s, 1, m)
  BY DEF FirstOf, m
<1>4. r \in Seq(A) /\ Len(r) = m /\ \A k \in 1..m : r[k] = s[k]
  BY <1>1, <1>2, <1>3
<1>6. DOMAIN r = 1..m
  BY <1>4
<1>7. \A k \in DOMAIN r : k \in DOMAIN s /\ r[k] = s[k]
  BY <1>1, <1>2, <1>4, <1>6
<1>8. Distinct(s) => Distinct(r)
  BY <1>7 DEF Distinct
<1> QED
  BY <1>2, <1>4, <1>7, <1>8

\* The things at some places, each at a place of its own.
PlacesOf(r, s, places) ==
  \E order \in [DOMAIN r -> places] :
    /\ \A n \in DOMAIN r : r[n] = s[order[n]]
    /\ Distinct(order)
    /\ \A k \in places : \E n \in DOMAIN r : order[n] = k

LEMMA LatestAre ==
  ASSUME NEW A, NEW s \in Seq(A), NEW places \in SUBSET DOMAIN s,
         \A k \in DOMAIN s : s[k].at \in Nat,
         NEW r, r = LatestFirst(s, places)
  PROVE  r \in Seq(A) /\ Len(r) = Cardinality(places) /\ PlacesOf(r, s, places)
<1> DEFINE w == [k \in places |-> s[k].at]
           Higher(k) == {j \in places : \/ s[j].at > s[k].at
                                        \/ s[j].at = s[k].at /\ j < k}
           Below == [k \in places |-> {j \in places : w[j] > w[k] \/ (w[j] = w[k] /\ j < k)}]
           first(n) == CHOOSE k \in places : Cardinality(Higher(k)) = n - 1
           order == [n \in 1..Cardinality(places) |-> first(n)]
<1>1. r = [n \in 1..Cardinality(places) |-> s[first(n)]]
  BY Zenon DEF LatestFirst
<1>2. places \in SUBSET Nat /\ IsFiniteSet(places) /\ Cardinality(places) \in Nat
  <2>1. DOMAIN s \in SUBSET Nat
    OBVIOUS
  <2> QED
    BY <2>1, SomePlaces
<1>3. w \in [places -> Int]
  OBVIOUS
<1>4. Orders(Below, places)
  <2> HIDE DEF w
  <2> QED
    BY <1>2, <1>3, HeaviestFirst
<1>5. ASSUME NEW k \in places PROVE Below[k] = Higher(k)
  <2>1. \A j \in places : w[j] = s[j].at
    OBVIOUS
  <2>2. Below[k] = {j \in places : w[j] > w[k] \/ (w[j] = w[k] /\ j < k)}
    OBVIOUS
  <2> HIDE DEF w, Below
  <2> QED
    BY <2>1, <2>2
<1> HIDE DEF Below, Higher
<1>6. /\ order = [n \in 1..Cardinality(places) |-> order[n]]
      /\ \A n \in 1..Cardinality(places) : \A k \in places :
           Cardinality(Below[k]) = n - 1 =>
             order[n] \in places /\ Cardinality(Below[order[n]]) = n - 1
  BY <1>5
<1>7. \A n \in 1..Cardinality(places) : order[n] = first(n)
  OBVIOUS
<1> HIDE DEF order, first
<1>8. /\ Cardinality(places) \in Nat
      /\ order \in [1..Cardinality(places) -> places]
      /\ \A m, n \in 1..Cardinality(places) : order[m] = order[n] => m = n
      /\ \A k \in places : \E n \in 1..Cardinality(places) : order[n] = k
      /\ \A m, n \in 1..Cardinality(places) : m < n => order[m] \in Below[order[n]]
  <2>1. IsFiniteSet(places)
    BY <1>2
  <2> QED
    BY <2>1, <1>4, <1>6, InOrder
<1>9. \A n \in 1..Cardinality(places) : r[n] = s[order[n]] /\ s[order[n]] \in A
  BY <1>1, <1>7, <1>8
<1>10. r \in [1..Cardinality(places) -> A]
  BY <1>1, <1>7, <1>9
<1>11. r \in Seq(A) /\ Len(r) = Cardinality(places) /\ DOMAIN r = 1..Cardinality(places)
  BY <1>2, <1>10, FunctionIsSeq
<1>12. Distinct(order)
  BY <1>8 DEF Distinct
<1>13. /\ order \in [DOMAIN r -> places] /\ \A n \in DOMAIN r : r[n] = s[order[n]]
       /\ \A k \in places : \E n \in DOMAIN r : order[n] = k
  BY <1>8, <1>9, <1>11, Zenon
<1> QED
  BY <1>11, <1>12, <1>13, Zenon DEF PlacesOf

\* One of each in turn gives everything once.
LEMMA TurnsFit ==
  ASSUME NEW a \in Nat, NEW b \in Nat, NEW m \in {a, b}, m <= a, m <= b,
         NEW n \in 1..(a + b), NEW p \in Nat \ {0}, n = 2 * p \/ n = 2 * p - 1
  PROVE  /\ n > 2 * m => IF a > m THEN n - m \in 1..a ELSE n - m \in 1..b
         /\ ~(n > 2 * m) => p \in 1..a /\ p \in 1..b
OBVIOUS

LEMMA BlendedAre ==
  ASSUME NEW A, NEW s \in Seq(A), NEW t \in Seq(A), Distinct(s), Distinct(t),
         \A i \in DOMAIN s, j \in DOMAIN t : s[i] # t[j],
         NEW r, r = Blended(s, t)
  PROVE  r \in Seq(A) /\ Distinct(r) /\ \A n \in DOMAIN r : r[n] \in Range(s) \cup Range(t)
<1> DEFINE both == Min({Len(s), Len(t)})
           size == Len(s) + Len(t)
           Pair(n) == (n + 1) \div 2
           Left(n) == IF n > 2 * both THEN Len(s) > both ELSE n # 2 * Pair(n)
           At(n) == IF n > 2 * both THEN n - both ELSE Pair(n)
<1>1. /\ Len(s) \in Nat /\ DOMAIN s = 1..Len(s) /\ Len(t) \in Nat /\ DOMAIN t = 1..Len(t)
      /\ size \in Nat
  OBVIOUS
<1>2. both \in {Len(s), Len(t)} /\ both <= Len(s) /\ both <= Len(t) /\ both \in Nat
  BY <1>1, LesserOfTwo, Zenon
<1>3. ASSUME NEW n \in Nat \ {0}
      PROVE  Pair(n) \in Nat \ {0} /\ (n = 2 * Pair(n) \/ n = 2 * Pair(n) - 1)
  OBVIOUS
<1>4. r = [n \in 1..size |-> IF Left(n) THEN s[At(n)] ELSE t[At(n)]]
  <2>1. r = [n \in 1..size |->
               IF n > 2 * both THEN IF Len(s) > both THEN s[n - both] ELSE t[n - both]
               ELSE IF n = 2 * Pair(n) THEN t[Pair(n)] ELSE s[Pair(n)]]
    BY Zenon DEF Blended
  <2> HIDE DEF both, Pair, size
  <2> QED
    BY <2>1
<1> HIDE DEF both
<1>5. ASSUME NEW n \in 1..size
      PROVE  /\ Left(n) => At(n) \in DOMAIN s
             /\ ~Left(n) => At(n) \in DOMAIN t
  <2>1. n \in Nat \ {0} /\ n <= Len(s) + Len(t)
    BY <1>1
  <2>2. Pair(n) \in Nat \ {0} /\ (n = 2 * Pair(n) \/ n = 2 * Pair(n) - 1)
    BY <1>3, <2>1
  <2> HIDE DEF Pair
  <2>3. /\ n > 2 * both => IF Len(s) > both THEN n - both \in 1..Len(s) ELSE n - both \in 1..Len(t)
        /\ ~(n > 2 * both) => Pair(n) \in 1..Len(s) /\ Pair(n) \in 1..Len(t)
    BY <1>1, <1>2, <2>2, TurnsFit, ZenonT(60)
  <2> QED
    BY <1>1, <2>3, Zenon
<1>6. ASSUME NEW m \in 1..size, NEW n \in 1..size, Left(m) <=> Left(n), At(m) = At(n)
      PROVE  m = n
  <2>1. m \in Nat \ {0} /\ n \in Nat \ {0}
    BY <1>1
  <2>2. /\ Pair(n) \in Nat \ {0} /\ (n = 2 * Pair(n) \/ n = 2 * Pair(n) - 1)
        /\ Pair(m) \in Nat \ {0} /\ (m = 2 * Pair(m) \/ m = 2 * Pair(m) - 1)
    BY <1>3, <2>1
  <2> HIDE DEF Pair
  <2>3. CASE m > 2 * both /\ n > 2 * both
    BY <1>2, <1>6, <2>1, <2>3
  <2>4. CASE m <= 2 * both /\ n <= 2 * both
    BY <1>2, <1>6, <2>1, <2>2, <2>4
  <2>5. CASE m > 2 * both /\ n <= 2 * both
    <3>1. At(m) > both /\ At(n) <= both
      BY <1>2, <2>1, <2>2, <2>5
    <3> QED
      BY <1>2, <1>6, <2>1, <2>2, <2>5, <3>1
  <2>6. CASE m <= 2 * both /\ n > 2 * both
    <3>1. At(n) > both /\ At(m) <= both
      BY <1>2, <2>1, <2>2, <2>6
    <3> QED
      BY <1>2, <1>6, <2>1, <2>2, <2>6, <3>1
  <2> QED
    BY <1>2, <2>1, <2>3, <2>4, <2>5, <2>6
<1> HIDE DEF Left, At, size
<1>7. \A n \in 1..size : r[n] = IF Left(n) THEN s[At(n)] ELSE t[At(n)]
  BY <1>4
<1>8. ASSUME NEW n \in 1..size PROVE r[n] \in A /\ r[n] \in Range(s) \cup Range(t)
  BY <1>5, <1>7, Members
<1>9. r \in Seq(A) /\ DOMAIN r = 1..size
  <2>1. r \in [1..size -> A]
    BY <1>4, <1>7, <1>8
  <2> QED
    BY <1>1, <2>1, FunctionIsSeq
<1>10. ASSUME NEW m \in 1..size, NEW n \in 1..size, r[m] = r[n] PROVE m = n
  <2>1. Left(m) <=> Left(n)
    BY <1>5, <1>7, <1>10
  <2>2. At(m) = At(n)
    BY <1>5, <1>7, <1>10, <2>1 DEF Distinct
  <2> QED
    BY <1>6, <2>1, <2>2
<1> QED
  BY <1>8, <1>9, <1>10 DEF Distinct

Acts == [deed: Deed, at: Nat]
Sights == [words: Sight, at: Nat]

\* No two things were done or seen at a time, all of them before now.
Timed(acts, sights) ==
  /\ acts \in Seq(Acts) /\ sights \in Seq(Sights)
  /\ \A j, k \in DOMAIN acts : acts[j].at = acts[k].at => j = k
  /\ \A j, k \in DOMAIN sights : sights[j].at = sights[k].at => j = k
  /\ \A j \in DOMAIN acts, k \in DOMAIN sights : acts[j].at # sights[k].at
  /\ \A j \in DOMAIN acts : acts[j].at < Len(acts) + Len(sights)
  /\ \A k \in DOMAIN sights : sights[k].at < Len(acts) + Len(sights)

Relevant(sights) == {o \in Range(sights) : relatesToGoal(o.words)}

DriftInv ==
  /\ Timed(acted, sighted) /\ Seen <= MaxSeen /\ adrift \in BOOLEAN
  /\ packet \in Seq(Acts \cup Sights) /\ Len(packet) <= MaxPacket /\ Distinct(packet)
  /\ Range(packet) \subseteq Range(acted) \cup Relevant(sighted)

LEMMA DriftStarts == DriftInit => DriftInv
<1> SUFFICES ASSUME DriftInit PROVE DriftInv
  OBVIOUS
<1>1. /\ acted = <<>> /\ sighted = <<>> /\ packet = <<>> /\ adrift = FALSE
      /\ Range(<<>>) = {} /\ \A S : <<>> \in Seq(S)
  BY DEF DriftInit, Range
<1>2. DOMAIN acted = {} /\ DOMAIN sighted = {} /\ DOMAIN packet = {}
  BY <1>1
<1>3. Len(acted) = 0 /\ Len(sighted) = 0 /\ Len(packet) = 0 /\ Seen = 0
  BY <1>1 DEF Seen
<1>4. Timed(acted, sighted)
  BY <1>1, <1>2, Zenon DEF Timed
<1>5. Distinct(packet) /\ packet \in Seq(Acts \cup Sights) /\ Range(packet) = {}
  BY <1>1, <1>2, Zenon DEF Distinct
<1>6. Seen <= MaxSeen /\ Len(packet) <= MaxPacket
  BY <1>3, DriftAssumption
<1> QED
  BY <1>1, <1>4, <1>5, <1>6 DEF DriftInv

LEMMA Performed ==
  ASSUME DriftInv, NEW deed \in Deed, Perform(deed)
  PROVE  DriftInv'
<1> DEFINE act == [deed |-> deed, at |-> Seen]
<1>1. /\ Seen < MaxSeen /\ acted' = Append(acted, act) /\ sighted' = sighted
      /\ packet' = packet /\ adrift' = adrift
  BY DEF Perform
<1>2. /\ acted \in Seq(Acts) /\ sighted \in Seq(Sights) /\ Len(acted) \in Nat /\ Len(sighted) \in Nat
      /\ Seen \in Nat /\ Seen = Len(acted) + Len(sighted)
      /\ DOMAIN acted = 1..Len(acted) /\ DOMAIN sighted = 1..Len(sighted)
  BY DEF DriftInv, Timed, Seen
<1>3. act \in Acts /\ act.at = Seen
  BY <1>2 DEF Acts
<1> HIDE DEF act
<1>4. /\ acted' \in Seq(Acts) /\ Len(acted') = Len(acted) + 1
      /\ DOMAIN acted' = 1..(Len(acted) + 1) /\ acted'[Len(acted) + 1] = act
      /\ \A k \in 1..Len(acted) : acted'[k] = acted[k]
  BY <1>1, <1>2, <1>3
<1>5. \A k \in 1..(Len(acted) + 1) : k \in 1..Len(acted) \/ k = Len(acted) + 1
  BY <1>2
<1>6. /\ \A k \in DOMAIN acted : acted[k].at < Seen /\ acted[k].at # Seen
      /\ \A k \in DOMAIN sighted : sighted[k].at < Seen /\ sighted[k].at # Seen
  <2>1. /\ \A k \in DOMAIN acted : acted[k].at \in Nat /\ acted[k].at < Seen
        /\ \A k \in DOMAIN sighted : sighted[k].at \in Nat /\ sighted[k].at < Seen
    <3>1. \A k \in DOMAIN acted : acted[k] \in Acts
      BY <1>2, Members, Zenon
    <3>2. \A k \in DOMAIN sighted : sighted[k] \in Sights
      BY <1>2, Members, Zenon
    <3> QED
      BY <1>2, <3>1, <3>2 DEF DriftInv, Timed, Acts, Sights
  <2> QED
    BY <1>2, <2>1
<1>7. \A j, k \in DOMAIN acted' : acted'[j].at = acted'[k].at => j = k
  BY <1>2, <1>3, <1>4, <1>5, <1>6, ZenonT(60) DEF DriftInv, Timed
<1>8. ASSUME NEW j \in DOMAIN acted', NEW k \in DOMAIN sighted'
      PROVE  acted'[j].at # sighted'[k].at
  <2>1. k \in DOMAIN sighted /\ sighted'[k] = sighted[k]
    BY <1>1
  <2>2. CASE j \in 1..Len(acted)
    <3>1. acted[j].at # sighted[k].at
      BY <1>2, <2>1, <2>2, Zenon DEF DriftInv, Timed
    <3>2. acted'[j] = acted[j]
      BY <1>4, <2>2
    <3> QED
      BY <2>1, <3>1, <3>2
  <2>3. CASE j = Len(acted) + 1
    BY <1>3, <1>4, <1>6, <2>1, <2>3
  <2> QED
    BY <1>4, <1>5, <2>2, <2>3, Zenon
<1>9. /\ \A k \in DOMAIN acted' : acted'[k].at < Seen + 1
      /\ \A k \in DOMAIN sighted : sighted[k].at < Seen + 1
  <2>1. /\ \A k \in DOMAIN acted : acted[k].at \in Nat /\ acted[k].at < Seen
        /\ \A k \in DOMAIN sighted : sighted[k].at \in Nat /\ sighted[k].at < Seen
    <3>1. \A k \in DOMAIN acted : acted[k] \in Acts
      BY <1>2, Members, Zenon
    <3>2. \A k \in DOMAIN sighted : sighted[k] \in Sights
      BY <1>2, Members, Zenon
    <3> QED
      BY <1>6, <3>1, <3>2 DEF Acts, Sights
  <2>2. /\ \A k \in DOMAIN acted : acted[k].at < Seen + 1
        /\ \A k \in DOMAIN sighted : sighted[k].at < Seen + 1
        /\ act.at < Seen + 1
    BY <1>2, <1>3, <2>1
  <2> QED
    BY <1>2, <1>4, <1>5, <2>2, Zenon
<1>10. Seen' = Seen + 1 /\ Len(acted') + Len(sighted') = Seen + 1
  BY <1>1, <1>2, <1>4 DEF Seen
<1>11. Timed(acted', sighted')
  <2>1. \A j, k \in DOMAIN sighted' : sighted'[j].at = sighted'[k].at => j = k
    BY <1>1, Zenon DEF DriftInv, Timed
  <2> QED
    BY <1>1, <1>2, <1>4, <1>7, <1>8, <1>9, <1>10, <2>1, Zenon DEF Timed
<1>12. Range(acted') = Range(acted) \cup {act}
  BY <1>1, <1>2, <1>3, RangeAppended
<1>13. Seen' <= MaxSeen
  BY <1>1, <1>2, <1>10, DriftAssumption
<1>14. Range(packet') \subseteq Range(acted') \cup Relevant(sighted')
  BY <1>1, <1>12 DEF DriftInv
<1> QED
  BY <1>1, <1>11, <1>13, <1>14, Zenon DEF DriftInv

LEMMA Sighted ==
  ASSUME DriftInv, NEW words \in Sight, Sees(words)
  PROVE  DriftInv'
<1> DEFINE sight == [words |-> words, at |-> Seen]
<1>1. /\ Seen < MaxSeen /\ sighted' = Append(sighted, sight) /\ acted' = acted
      /\ packet' = packet /\ adrift' = adrift
  BY DEF Sees
<1>2. /\ acted \in Seq(Acts) /\ sighted \in Seq(Sights) /\ Len(acted) \in Nat /\ Len(sighted) \in Nat
      /\ Seen \in Nat /\ Seen = Len(acted) + Len(sighted)
      /\ DOMAIN acted = 1..Len(acted) /\ DOMAIN sighted = 1..Len(sighted)
  BY DEF DriftInv, Timed, Seen
<1>3. sight \in Sights /\ sight.at = Seen
  BY <1>2 DEF Sights
<1> HIDE DEF sight
<1>4. /\ sighted' \in Seq(Sights) /\ Len(sighted') = Len(sighted) + 1
      /\ DOMAIN sighted' = 1..(Len(sighted) + 1) /\ sighted'[Len(sighted) + 1] = sight
      /\ \A k \in 1..Len(sighted) : sighted'[k] = sighted[k]
  BY <1>1, <1>2, <1>3
<1>5. \A k \in 1..(Len(sighted) + 1) : k \in 1..Len(sighted) \/ k = Len(sighted) + 1
  BY <1>2
<1>6. /\ \A k \in DOMAIN acted : /\ acted[k].at < Seen + 1
                                 /\ acted[k].at # Seen
      /\ \A k \in DOMAIN sighted : /\ sighted[k].at < Seen + 1
                                   /\ sighted[k].at # Seen
  <2>1. \A k \in DOMAIN acted : acted[k] \in Acts
    BY <1>2, Members, Zenon
  <2>2. \A k \in DOMAIN sighted : sighted[k] \in Sights
    BY <1>2, Members, Zenon
  <2>3. /\ \A k \in DOMAIN acted : acted[k].at \in Nat /\ acted[k].at < Seen
        /\ \A k \in DOMAIN sighted : sighted[k].at \in Nat /\ sighted[k].at < Seen
    BY <1>2, <2>1, <2>2 DEF DriftInv, Timed, Acts, Sights
  <2> QED
    BY <1>2, <2>3
<1>7. \A j, k \in DOMAIN sighted' : sighted'[j].at = sighted'[k].at => j = k
  BY <1>2, <1>3, <1>4, <1>5, <1>6, ZenonT(60) DEF DriftInv, Timed
<1>8. ASSUME NEW j \in DOMAIN acted', NEW k \in DOMAIN sighted'
      PROVE  acted'[j].at # sighted'[k].at
  <2>1. j \in DOMAIN acted /\ acted'[j] = acted[j]
    BY <1>1
  <2>2. CASE k \in 1..Len(sighted)
    BY <1>2, <1>4, <2>1, <2>2, ZenonT(60) DEF DriftInv, Timed
  <2>3. CASE k = Len(sighted) + 1
    BY <1>3, <1>4, <1>6, <2>1, <2>3
  <2> QED
    BY <1>4, <1>5, <2>2, <2>3, Zenon
<1>9. \A k \in DOMAIN sighted' : sighted'[k].at < Seen + 1
  <2>1. sight.at < Seen + 1
    BY <1>2, <1>3
  <2> QED
    BY <1>2, <1>4, <1>5, <1>6, <2>1, Zenon
<1>10. Seen' = Seen + 1 /\ Len(acted') + Len(sighted') = Seen + 1
  BY <1>1, <1>2, <1>4 DEF Seen
<1>11. Timed(acted', sighted')
  <2>1. \A j, k \in DOMAIN acted' : acted'[j].at = acted'[k].at => j = k
    BY <1>1, Zenon DEF DriftInv, Timed
  <2>2. acted' \in Seq(Acts) /\ \A k \in DOMAIN acted' : acted'[k].at < Seen + 1
    BY <1>1, <1>2, <1>6
  <2> QED
    BY <1>4, <1>7, <1>8, <1>9, <1>10, <2>1, <2>2, Zenon DEF Timed
<1>12. Range(sighted') = Range(sighted) \cup {sight}
  BY <1>1, <1>2, <1>3, RangeAppended
<1>13. Seen' <= MaxSeen
  BY <1>1, <1>2, <1>10, DriftAssumption
<1>14. Range(packet') \subseteq Range(acted') \cup Relevant(sighted')
  BY <1>1, <1>12 DEF DriftInv, Relevant
<1> QED
  BY <1>1, <1>11, <1>13, <1>14, Zenon DEF DriftInv

\* Sorting loses none of them and makes none.
LEMMA SortedAre ==
  ASSUME Timed(acted, sighted), NEW sorted, sorted = LatestFirst(acted, DOMAIN acted)
  PROVE  /\ Timed(sorted, sighted) /\ Len(sorted) = Len(acted)
         /\ Range(sorted) = Range(acted) /\ Distinct(sorted)
<1>1. /\ acted \in Seq(Acts) /\ sighted \in Seq(Sights) /\ Len(acted) \in Nat
      /\ DOMAIN acted = 1..Len(acted)
  BY DEF Timed
<1>2. \A k \in DOMAIN acted : acted[k] \in Acts /\ acted[k].at \in Nat
  <2>1. \A k \in DOMAIN acted : acted[k] \in Acts
    BY <1>1, Members, Zenon
  <2> QED
    BY <2>1 DEF Acts
<1>3. /\ sorted \in Seq(Acts) /\ Len(sorted) = Cardinality(DOMAIN acted)
      /\ PlacesOf(sorted, acted, DOMAIN acted)
  <2>1. acted \in Seq(Acts) /\ DOMAIN acted \in SUBSET DOMAIN acted
    BY <1>1
  <2>2. \A k \in DOMAIN acted : acted[k].at \in Nat
    BY <1>2
  <2> QED
    BY <2>1, <2>2, LatestAre
<1>4. PICK order \in [DOMAIN sorted -> DOMAIN acted] :
        /\ \A n \in DOMAIN sorted : sorted[n] = acted[order[n]]
        /\ Distinct(order)
        /\ \A k \in DOMAIN acted : \E n \in DOMAIN sorted : order[n] = k
  BY <1>3 DEF PlacesOf
<1>5. Len(sorted) = Len(acted)
  BY <1>1, <1>3, IntervalSize
<1>6. \A n \in DOMAIN sorted : order[n] \in DOMAIN acted
  OBVIOUS
<1>7. \A j, k \in DOMAIN sorted : order[j] = order[k] => j = k
  BY <1>4 DEF Distinct
<1>8. ASSUME NEW j \in DOMAIN sorted, NEW k \in DOMAIN sorted, sorted[j].at = sorted[k].at
      PROVE  j = k
  <2>1. acted[order[j]].at = acted[order[k]].at
    BY <1>4, <1>8
  <2>2. order[j] = order[k]
    BY <1>6, <2>1, Zenon DEF Timed
  <2> QED
    BY <1>7, <2>2
<1>9. Range(sorted) = Range(acted)
  BY <1>4, <1>6 DEF Range
<1>10. \A j \in DOMAIN sorted, k \in DOMAIN sighted : sorted[j].at # sighted[k].at
  BY <1>4, <1>6 DEF Timed
<1>11. \A j \in DOMAIN sorted : sorted[j].at < Len(sorted) + Len(sighted)
  BY <1>4, <1>5, <1>6 DEF Timed
<1>12. Timed(sorted, sighted)
  BY <1>3, <1>5, <1>8, <1>10, <1>11, Zenon DEF Timed
<1>13. Distinct(sorted)
  BY <1>8, Zenon DEF Distinct
<1> QED
  BY <1>5, <1>9, <1>12, <1>13

\* What was seen that has to do with the goal.
LEMMA RelevantAre ==
  ASSUME Timed(acted, sighted), NEW relevant,
         relevant = FirstOf(LatestFirst(sighted, {k \in DOMAIN sighted :
                                                    relatesToGoal(sighted[k].words)}), MaxPacket)
  PROVE  /\ relevant \in Seq(Sights) /\ Len(relevant) <= MaxPacket /\ Distinct(relevant)
         /\ Range(relevant) \subseteq Relevant(sighted)
<1> DEFINE about == {k \in DOMAIN sighted : relatesToGoal(sighted[k].words)}
           all == LatestFirst(sighted, about)
<1>1. sighted \in Seq(Sights) /\ about \in SUBSET DOMAIN sighted
  BY DEF Timed
<1>2. \A k \in DOMAIN sighted : sighted[k] \in Sights /\ sighted[k].at \in Nat
  <2>1. \A k \in DOMAIN sighted : sighted[k] \in Sights
    BY <1>1, Members, Zenon
  <2> QED
    BY <2>1 DEF Sights
<1>3. \A k \in about : k \in DOMAIN sighted /\ relatesToGoal(sighted[k].words)
  OBVIOUS
<1>4. relevant = FirstOf(all, MaxPacket)
  OBVIOUS
<1> HIDE DEF about
<1>5. all \in Seq(Sights) /\ PlacesOf(all, sighted, about)
  <2>1. \A k \in DOMAIN sighted : sighted[k].at \in Nat
    BY <1>2
  <2>2. all = LatestFirst(sighted, about)
    OBVIOUS
  <2> HIDE DEF all
  <2> QED
    BY <1>1, <2>1, <2>2, LatestAre
<1> HIDE DEF all
<1>6. PICK order \in [DOMAIN all -> about] :
        /\ \A n \in DOMAIN all : all[n] = sighted[order[n]]
        /\ Distinct(order)
  BY <1>5 DEF PlacesOf
<1>7. \A n \in DOMAIN all : order[n] \in about /\ order[n] \in DOMAIN sighted
  BY <1>3, <1>6
<1>8. Distinct(all)
  <2>1. \A j, k \in DOMAIN all : order[j] = order[k] => j = k
    BY <1>6 DEF Distinct
  <2>2. ASSUME NEW j \in DOMAIN all, NEW k \in DOMAIN all, all[j] = all[k] PROVE j = k
    <3>1. sighted[order[j]].at = sighted[order[k]].at
      BY <1>6, <2>2
    <3>2. order[j] = order[k]
      BY <1>7, <3>1, Zenon DEF Timed
    <3> QED
      BY <2>1, <3>2
  <2> QED
    BY <2>2 DEF Distinct
<1>9. /\ relevant \in Seq(Sights) /\ Len(relevant) <= MaxPacket /\ Distinct(relevant)
      /\ \A k \in DOMAIN relevant : k \in DOMAIN all /\ relevant[k] = all[k]
  <2>1. MaxPacket \in Nat /\ all \in Seq(Sights)
    BY <1>5, DriftAssumption
  <2> QED
    BY <1>4, <1>8, <2>1, FirstOfIs
<1>10. \A n \in DOMAIN relevant :
         relevant[n] = sighted[order[n]] /\ order[n] \in about /\ order[n] \in DOMAIN sighted
  BY <1>6, <1>7, <1>9
<1>11. \A n \in DOMAIN relevant : relevant[n] \in Relevant(sighted)
  BY <1>3, <1>10 DEF Relevant, Range
<1>12. Range(relevant) \subseteq Relevant(sighted)
  BY <1>11 DEF Range
<1> QED
  BY <1>9, <1>12

LEMMA Recovered ==
  ASSUME DriftInv, reconstruct, sighted' = sighted, adrift' = adrift
  PROVE  DriftInv'
<1> DEFINE about == {k \in DOMAIN sighted : relatesToGoal(sighted[k].words)}
           relevant == FirstOf(LatestFirst(sighted, about), MaxPacket)
           sorted == LatestFirst(acted, DOMAIN acted)
           room == Max({1, MaxPacket - Len(relevant)})
           recent == FirstOf(sorted, room)
           blend == Blended(relevant, recent)
<1>1. \/ packet' = FirstOf(blend, MaxPacket) /\ acted' = sorted
      \/ packet' = relevant /\ acted' = acted
  BY Zenon DEF reconstruct
<1>2. Timed(acted, sighted) /\ Seen <= MaxSeen /\ adrift \in BOOLEAN
  BY DEF DriftInv
<1>3. /\ relevant \in Seq(Sights) /\ Len(relevant) <= MaxPacket /\ Distinct(relevant)
      /\ Range(relevant) \subseteq Relevant(sighted)
  BY <1>2, RelevantAre, Zenon
<1>4. /\ Timed(sorted, sighted) /\ Len(sorted) = Len(acted)
      /\ Range(sorted) = Range(acted) /\ Distinct(sorted)
  BY <1>2, SortedAre, Zenon
<1>5. sorted \in Seq(Acts)
  BY <1>4, Zenon DEF Timed
<1> HIDE DEF relevant, sorted
<1>6. room \in Nat
  <2>1. Len(relevant) \in Nat /\ MaxPacket \in Nat /\ MaxPacket - Len(relevant) \in Nat
    BY <1>3, DriftAssumption
  <2>2. {1, MaxPacket - Len(relevant)} \in SUBSET Nat /\ {1, MaxPacket - Len(relevant)} # {}
    BY <2>1
  <2>3. \A x \in {1, MaxPacket - Len(relevant)} : x <= MaxPacket
    BY <2>1, <1>3, DriftAssumption
  <2>4. room \in {1, MaxPacket - Len(relevant)}
    BY <2>1, <2>2, <2>3, Greatest
  <2> QED
    BY <2>2, <2>4
<1> HIDE DEF room
<1>7. /\ recent \in Seq(Acts) /\ Distinct(recent)
      /\ \A k \in DOMAIN recent : k \in DOMAIN sorted /\ recent[k] = sorted[k]
  BY <1>4, <1>5, <1>6, FirstOfIs
<1> HIDE DEF recent
<1>8. CASE packet' = relevant /\ acted' = acted
  <2>1. relevant \in Seq(Acts \cup Sights)
    BY <1>3
  <2>2. Range(packet') \subseteq Range(acted') \cup Relevant(sighted')
    BY <1>3, <1>8
  <2>3. Timed(acted', sighted') /\ Seen' <= MaxSeen /\ adrift' \in BOOLEAN
    BY <1>2, <1>8 DEF Seen
  <2> QED
    BY <1>3, <1>8, <2>1, <2>2, <2>3, Zenon DEF DriftInv
<1>9. CASE packet' = FirstOf(blend, MaxPacket) /\ acted' = sorted
  <2> DEFINE All == Acts \cup Sights
  <2>1. relevant \in Seq(All) /\ recent \in Seq(All)
    BY <1>3, <1>7
  <2>2. ASSUME NEW i \in DOMAIN relevant, NEW j \in DOMAIN recent PROVE relevant[i] # recent[j]
    <3>1. relevant[i] \in Relevant(sighted)
      BY <1>3 DEF Range
    <3>2. PICK k \in DOMAIN sighted : relevant[i] = sighted[k]
      BY <3>1 DEF Relevant, Range
    <3>3. j \in DOMAIN sorted /\ recent[j] = sorted[j]
      BY <1>7
    <3>4. sorted[j].at # sighted[k].at
      BY <1>4, <3>3, Zenon DEF Timed
    <3> QED
      BY <3>2, <3>3, <3>4
  <2> HIDE DEF All
  <2>3. /\ blend \in Seq(All) /\ Distinct(blend)
        /\ \A n \in DOMAIN blend : blend[n] \in Range(relevant) \cup Range(recent)
    BY <1>3, <1>7, <2>1, <2>2, BlendedAre
  <2> HIDE DEF blend
  <2>4. /\ packet' \in Seq(All) /\ Len(packet') <= MaxPacket /\ Distinct(packet')
        /\ \A k \in DOMAIN packet' : k \in DOMAIN blend /\ packet'[k] = blend[k]
    <3>1. MaxPacket \in Nat
      BY DriftAssumption
    <3> QED
      BY <1>9, <2>3, <3>1, FirstOfIs
  <2>5. Range(recent) \subseteq Range(acted')
    BY <1>7, <1>9 DEF Range
  <2>6. \A k \in DOMAIN packet' : packet'[k] \in Range(acted') \cup Relevant(sighted')
    BY <1>3, <2>3, <2>4, <2>5
  <2>7. Range(packet') \subseteq Range(acted') \cup Relevant(sighted')
    BY <2>6 DEF Range
  <2>8. Timed(acted', sighted') /\ Seen' <= MaxSeen /\ adrift' \in BOOLEAN
    BY <1>2, <1>4, <1>9 DEF Seen
  <2> QED
    BY <2>4, <2>7, <2>8, Zenon DEF DriftInv, All
<1> QED
  BY <1>1, <1>8, <1>9

LEMMA DriftKeeps == DriftInv /\ [DriftNext]_driftVars => DriftInv'
<1> SUFFICES ASSUME DriftInv, [DriftNext]_driftVars PROVE DriftInv'
  OBVIOUS
<1>1. CASE Watch
  <2>1. /\ trackDriftPattern \in BOOLEAN
        /\ detectActionDrift(Last(acted).deed) \in BOOLEAN
        /\ \A h : detectContextDrift(Last(acted).deed, recencyScore(h)) \in BOOLEAN
    BY DEF trackDriftPattern, detectActionDrift, detectContextDrift
  <2>2. /\ acted' = acted /\ sighted' = sighted /\ packet' = packet
        /\ adrift' \in {trackDriftPattern, detectActionDrift(Last(acted).deed)}
             \cup {detectContextDrift(Last(acted).deed, recencyScore(h)) : h \in Hours}
    BY <1>1, Zenon DEF Watch
  <2>3. adrift' \in BOOLEAN
    BY <2>1, <2>2, Zenon
  <2>4. Seen' = Seen
    BY <2>2 DEF Seen
  <2> QED
    BY <2>2, <2>3, <2>4, Zenon DEF DriftInv
<1>2. CASE Recover
  BY <1>2, Recovered, Zenon DEF Recover
<1>3. CASE UNCHANGED driftVars
  <2>1. acted' = acted /\ sighted' = sighted /\ packet' = packet /\ adrift' = adrift
    BY <1>3 DEF driftVars
  <2> QED
    BY <2>1, Zenon DEF DriftInv, Seen
<1> QED
  BY <1>1, <1>2, <1>3, Performed, Sighted DEF DriftNext

LEMMA SafeNeverDrifts ==
  ASSUME DriftInv, \A a \in Range(acted) : a.deed.kind = "safe"
  PROVE  ~trackDriftPattern
<1> DEFINE drifting == {k \in DOMAIN acted : detectContextDrift(acted[k].deed, NoTime)}
<1>1. acted \in Seq(Acts) /\ Len(acted) \in Nat
  BY DEF DriftInv, Timed
<1>2. ASSUME NEW k \in DOMAIN acted PROVE ~detectContextDrift(acted[k].deed, NoTime)
  <2>1. acted[k] \in Acts /\ acted[k] \in Range(acted)
    BY <1>1, Members, Zenon
  <2> DEFINE deed == acted[k].deed
             union == Cardinality(GoalWords \cup deed.words)
             shared == Cardinality(GoalWords \cap deed.words)
  <2>2. deed \in Deed /\ deed.kind = "safe"
    BY <2>1 DEF Acts
  <2>3. IsFiniteSet(deed.words) /\ IsFiniteSet(GoalWords)
    BY <2>2, DriftAssumption
  <2>4. IsFiniteSet(GoalWords \cup deed.words) /\ IsFiniteSet(GoalWords \cap deed.words)
    BY <2>3, FS_Union, FS_Intersection
  <2>5. union \in Nat /\ shared \in Nat
    BY <2>4, FS_CardinalityType
  <2>6. typeScore(deed.kind) = 27
    BY <2>2 DEF typeScore
  <2> HIDE DEF union, shared
  <2>7. ~(40 * shared + union * (27 + 15) < 40 * union)
    BY <2>5
  <2> QED
    BY <2>6, <2>7 DEF detectContextDrift, NoTime, union, shared
<1>3. drifting = {}
  BY <1>2
<1>4. Cardinality(drifting) = 0
  BY <1>3, FS_EmptySet
<1> HIDE DEF drifting
<1>5. trackDriftPattern => 2 * Cardinality(drifting) >= Len(acted) /\ Len(acted) >= 3
  BY DEF trackDriftPattern, drifting
<1> QED
  BY <1>1, <1>4, <1>5

LEMMA DriftTyped == DriftInv => DriftTypeOK
<1> SUFFICES ASSUME DriftInv PROVE DriftTypeOK
  OBVIOUS
<1>1. /\ acted \in Seq(Acts) /\ sighted \in Seq(Sights)
      /\ Len(acted) \in Nat /\ DOMAIN acted = 1..Len(acted)
      /\ Len(sighted) \in Nat /\ DOMAIN sighted = 1..Len(sighted)
  BY DEF DriftInv, Timed
<1>2. Cardinality(Range(packet)) = Len(packet)
  BY RangeSize DEF DriftInv
<1> DEFINE n == Len(acted)
           size == Len(acted) + Len(sighted)
           times == [k \in 1..size |-> IF k <= n THEN acted[k].at ELSE sighted[k - n].at]
           ats == {e.at : e \in Range(acted) \cup Range(sighted)}
<1>3. ASSUME NEW k \in 1..size
      PROVE  \/ k \in DOMAIN acted /\ times[k] = acted[k].at
             \/ k - n \in DOMAIN sighted /\ times[k] = sighted[k - n].at
  <2>1. CASE k <= n
    BY <1>1, <2>1
  <2>2. CASE ~(k <= n)
    BY <1>1, <2>2
  <2> QED
    BY <2>1, <2>2
<1>4. \A k \in DOMAIN acted : k \in 1..size /\ times[k] = acted[k].at
  BY <1>1
<1>5. \A k \in DOMAIN sighted : n + k \in 1..size /\ times[n + k] = sighted[k].at
  BY <1>1
<1>6. ASSUME NEW j \in 1..size, NEW k \in 1..size, times[j] = times[k] PROVE j = k
  <2>1. \A i \in DOMAIN acted, m \in DOMAIN sighted : acted[i].at # sighted[m].at
    BY DEF DriftInv, Timed
  <2> HIDE DEF times, n
  <2>2. CASE j \in DOMAIN acted /\ times[j] = acted[j].at
    <3>1. k \in DOMAIN acted /\ times[k] = acted[k].at
      BY <1>3, <1>6, <2>1, <2>2
    <3> QED
      BY <1>6, <2>2, <3>1, Zenon DEF DriftInv, Timed
  <2>3. CASE j - n \in DOMAIN sighted /\ times[j] = sighted[j - n].at
    <3>1. k - n \in DOMAIN sighted /\ times[k] = sighted[k - n].at
      BY <1>3, <1>6, <2>1, <2>3
    <3>2. j - n = k - n
      BY <1>6, <2>3, <3>1, Zenon DEF DriftInv, Timed
    <3> QED
      BY <1>1, <3>2 DEF n, size
  <2> QED
    BY <1>3, <2>2, <2>3
<1>7. Range(times) = ats
  <2>1. DOMAIN times = 1..size
    OBVIOUS
  <2> HIDE DEF times, n, size
  <2>2. ASSUME NEW x \in Range(times) PROVE x \in ats
    <3>1. PICK k \in 1..size : x = times[k]
      BY <2>1 DEF Range
    <3> QED
      BY <1>3, <3>1 DEF Range
  <2>3. ASSUME NEW x \in ats PROVE x \in Range(times)
    <3>1. \/ \E k \in DOMAIN acted : x = acted[k].at
          \/ \E k \in DOMAIN sighted : x = sighted[k].at
      BY DEF Range
    <3> QED
      BY <1>4, <1>5, <2>1, <3>1 DEF Range
  <2> HIDE DEF ats
  <2> QED
    BY <2>2, <2>3
<1>8. times \in Seq(Nat) /\ Len(times) = size /\ DOMAIN times = 1..size
  <2>1. \A k \in DOMAIN acted : acted[k].at \in Nat
    <3>1. \A k \in DOMAIN acted : acted[k] \in Acts
      BY <1>1, Members, Zenon
    <3> QED
      BY <3>1 DEF Acts
  <2>2. \A k \in DOMAIN sighted : sighted[k].at \in Nat
    <3>1. \A k \in DOMAIN sighted : sighted[k] \in Sights
      BY <1>1, Members, Zenon
    <3> QED
      BY <3>1 DEF Sights
  <2>3. times = [k \in 1..size |-> times[k]] /\ size \in Nat
    BY <1>1
  <2>4. \A k \in 1..size : times[k] \in Nat
    BY <1>3, <2>1, <2>2, Zenon
  <2> HIDE DEF times, size
  <2>5. times \in [1..size -> Nat]
    BY <2>3, <2>4
  <2> QED
    BY <2>3, <2>5, FunctionIsSeq
<1> HIDE DEF times, ats
<1>9. Cardinality(ats) = size
  <2>1. Distinct(times)
    BY <1>6, <1>8 DEF Distinct
  <2>2. Cardinality(Range(times)) = Len(times)
    BY <1>8, <2>1, RangeSize
  <2> QED
    BY <1>7, <1>8, <2>2
<1>10. (\A a \in Range(acted) : a.deed.kind = "safe") => ~trackDriftPattern
  BY SafeNeverDrifts
<1> QED
  BY <1>2, <1>9, <1>10, Zenon DEF DriftInv, DriftTypeOK, Seen, ats, Relevant

\* Whatever is done, seen and recovered: a packet holds nothing twice and nothing
\* that was not done or has nothing to do with the goal, sorting loses no action
\* of the caller's, and safe actions never make a pattern
\* (context-drift-detection.js, context-recovery.js).
THEOREM AlwaysDriftTyped == DriftSpec => []DriftTypeOK
  BY DriftStarts, DriftKeeps, DriftTyped, PTL DEF DriftSpec

-----------------------------------------------------------------------------
(* The plan of skills and what may go together.                            *)

LEMMA RoutedAre ==
  ASSUME NEW candidates \in Seq(Capability), NEW layers
  PROVE  routeWithConstraints(candidates, layers) \in SUBSET Capability
<1> DEFINE Step(f, t) == f[t - 1] \cup {c \in {candidates[t]} : MayJoin(f[t - 1], c, layers)}
           Is(f) == f = [t \in 0..Len(candidates) |-> IF t = 0 THEN {} ELSE Step(f, t)]
           Upto(f, m) == /\ f = [t \in 0..m |-> f[t]] /\ f[0] = {}
                         /\ \A t \in 1..m : f[t] = Step(f, t)
           G == {m \in Nat : \E f : Upto(f, m)}
<1>1. Len(candidates) \in Nat /\ DOMAIN candidates = 1..Len(candidates)
  OBVIOUS
<1>2. 0 \in G
  <2>1. Upto([t \in 0..0 |-> {}], 0)
    OBVIOUS
  <2> HIDE DEF Upto
  <2> QED
    BY <2>1
<1>3. ASSUME NEW m \in Nat, m \in G PROVE m + 1 \in G
  <2>1. PICK f : Upto(f, m)
    BY <1>3
  <2> DEFINE next == Step(f, m + 1)
  <2> HIDE DEF next
  <2> DEFINE g == [t \in 0..(m + 1) |-> IF t = m + 1 THEN next ELSE f[t]]
  <2>2. g = [t \in 0..(m + 1) |-> g[t]] /\ g[0] = {}
    BY <2>1
  <2>3. ASSUME NEW t \in 1..(m + 1) PROVE g[t] = Step(g, t)
    <3>1. CASE t = m + 1
      <4>1. /\ t - 1 = m /\ t - 1 \in 0..(m + 1) /\ t - 1 # m + 1
            /\ t \in 0..(m + 1)
        BY <3>1
      <4>2. g[t] = next /\ g[t - 1] = f[t - 1]
        BY <3>1, <4>1
      <4> HIDE DEF g
      <4> QED
        BY <3>1, <4>2 DEF next
    <3>2. CASE t # m + 1
      <4>1. t \in 1..m /\ t - 1 \in 0..(m + 1) /\ t - 1 # m + 1 /\ t \in 0..(m + 1)
        BY <3>2
      <4>2. g[t] = f[t] /\ g[t - 1] = f[t - 1]
        BY <3>2, <4>1
      <4> HIDE DEF g
      <4>3. f[t] = Step(f, t)
        BY <2>1, <4>1
      <4> QED
        BY <4>2, <4>3
    <3> QED
      BY <3>1, <3>2
  <2>4. Upto(g, m + 1)
    <3> HIDE DEF g, Step
    <3> QED
      BY <2>2, <2>3
  <2> HIDE DEF Upto
  <2> QED
    BY <2>4
<1>4. Len(candidates) \in G
  <2> HIDE DEF G
  <2> QED
    BY <1>1, <1>2, <1>3, SetInduction
<1>5. PICK f : Upto(f, Len(candidates))
  BY <1>4
<1>6. Is(f)
  <2>1. ASSUME NEW t \in 0..Len(candidates) PROVE f[t] = IF t = 0 THEN {} ELSE Step(f, t)
    <3>1. t # 0 => t \in 1..Len(candidates)
      BY <1>1
    <3> HIDE DEF Step
    <3> QED
      BY <1>5, <3>1
  <2> HIDE DEF Step
  <2> QED
    BY <1>5, <2>1
<1> DEFINE h == CHOOSE f_1 : Is(f_1)
<1>7. routeWithConstraints(candidates, layers) = h[Len(candidates)]
  BY Zenon DEF routeWithConstraints
<1>8. Is(h)
  <2> HIDE DEF Is
  <2> QED
    BY <1>6
<1> HIDE DEF h
<1>9. h[0] = {} /\ \A t \in 1..Len(candidates) : h[t] = Step(h, t)
  <2>1. ASSUME NEW t \in 0..Len(candidates) PROVE h[t] = IF t = 0 THEN {} ELSE Step(h, t)
    <3> HIDE DEF Step
    <3> QED
      BY <1>8, Zenon
  <2>2. 0 \in 0..Len(candidates) /\ \A t \in 1..Len(candidates) : t \in 0..Len(candidates) /\ t # 0
    BY <1>1
  <2> HIDE DEF Step
  <2> QED
    BY <2>1, <2>2
<1> DEFINE H == {m \in Nat : m <= Len(candidates) => h[m] \in SUBSET Capability}
<1>10. 0 \in H
  BY <1>9
<1>11. ASSUME NEW m \in Nat, m \in H PROVE m + 1 \in H
  <2>1. CASE m + 1 <= Len(candidates)
    <3>1. m + 1 \in 1..Len(candidates) /\ m <= Len(candidates) /\ (m + 1) - 1 = m
      BY <1>1, <2>1
    <3>2. h[m] \in SUBSET Capability /\ candidates[m + 1] \in Capability
      BY <1>1, <1>11, <3>1
    <3>3. h[m + 1] = Step(h, m + 1)
      BY <1>9, <3>1
    <3>4. h[m + 1] \in SUBSET Capability
      BY <3>1, <3>2, <3>3
    <3> QED
      BY <3>4
  <2> QED
    BY <2>1
<1>12. Len(candidates) \in H
  <2> HIDE DEF H
  <2> QED
    BY <1>1, <1>10, <1>11, SetInduction
<1>13. Len(candidates) <= Len(candidates)
  BY <1>1
<1> QED
  BY <1>7, <1>12, <1>13

PlanInv ==
  /\ PlanIsCurrent /\ produced \subseteq Needed
  /\ graphFile = NoPlan \/ graphFile \in Seq(Capability)
  /\ trail \in Seq(Capability)
  /\ layered \in [allowed: SUBSET Capability, layers: SUBSET Layer]

LEMMA PlanStarts == PlanInit => PlanInv
  BY DEF PlanInit, PlanInv, PlanIsCurrent, RequiresTyped

LEMMA PlanKeeps == PlanInv /\ [PlanNext]_planVars => PlanInv'
<1> SUFFICES ASSUME PlanInv, [PlanNext]_planVars PROVE PlanInv'
  OBVIOUS
<1>1. PlanIsCurrent'
  BY PlanNextKeeps DEF PlanInv
<1>2. CASE Declare
  <2>1. produced' = produced /\ graphFile' = graphFile /\ trail' = trail /\ layered' = layered
    BY <1>2 DEF Declare
  <2> QED
    BY <1>1, <2>1, Zenon DEF PlanInv
<1>3. CASE PlanNow
  <2>1. produced' = produced /\ graphFile' = graphFile /\ trail' = trail /\ layered' = layered
    BY <1>3 DEF PlanNow
  <2> QED
    BY <1>1, <2>1, Zenon DEF PlanInv
<1>4. CASE preserveStateAcrossTransition
  <2>1. PICK c \in Capability : /\ trail' = Append(trail, c)
                                /\ produced' = produced \cup {c} \cup Makes[c]
                                /\ graphFile' = graphFile /\ layered' = layered
    BY <1>4 DEF preserveStateAcrossTransition
  <2>2. Makes[c] \subseteq Product
    BY PlanAssumption
  <2>3. produced' \subseteq Needed
    BY <2>1, <2>2 DEF PlanInv, Needed
  <2>4. trail' \in Seq(Capability)
    BY <2>1 DEF PlanInv
  <2> QED
    BY <1>1, <2>1, <2>3, <2>4, Zenon DEF PlanInv
<1>5. CASE recordExecutedGraph
  <2>1. /\ graphFile' \in {trail, NoPlan} /\ produced' = produced /\ trail' = trail
        /\ layered' = layered
    BY <1>5 DEF recordExecutedGraph
  <2>2. graphFile' = NoPlan \/ graphFile' \in Seq(Capability)
    BY <2>1 DEF PlanInv
  <2> QED
    BY <1>1, <2>1, <2>2, Zenon DEF PlanInv
<1>6. CASE RouteLayers
  <2>1. PICK candidates \in SetToAllKPermutations(Capability), layers \in SUBSET Layer :
          /\ layered' = [allowed |-> routeWithConstraints(candidates, layers), layers |-> layers]
          /\ produced' = produced /\ graphFile' = graphFile /\ trail' = trail
    BY <1>6 DEF RouteLayers
  <2>2. PICK S \in SUBSET Capability : candidates \in SetToSeqs(S)
    BY DEF SetToAllKPermutations
  <2>3. IsFiniteSet(S) /\ Cardinality(S) \in Nat
    BY FS_Subset, FS_CardinalityType, PlanAssumption
  <2>4. candidates \in [1..Cardinality(S) -> Capability]
    BY <2>2 DEF SetToSeqs
  <2>5. candidates \in Seq(Capability)
    BY <2>3, <2>4, FunctionIsSeq
  <2>6. layered' \in [allowed: SUBSET Capability, layers: SUBSET Layer]
    BY <2>1, <2>5, RoutedAre
  <2> QED
    BY <1>1, <2>1, <2>6, Zenon DEF PlanInv
<1>7. CASE UNCHANGED planVars
  <2>1. produced' = produced /\ graphFile' = graphFile /\ trail' = trail /\ layered' = layered
    BY <1>7 DEF planVars
  <2> QED
    BY <1>1, <2>1, Zenon DEF PlanInv
<1> QED
  BY <1>2, <1>3, <1>4, <1>5, <1>6, <1>7 DEF PlanNext, PlanningNext

LEMMA PlanTyped == PlanInv => PlanTypeOK
<1> SUFFICES ASSUME PlanInv PROVE PlanTypeOK
  OBVIOUS
<1>1. RequiresTyped /\ (plan = NoPlan \/ plan = planExecution)
  BY DEF PlanInv, PlanIsCurrent
<1>2. planExecution \in Plan
  <2> DEFINE edges == buildSkillGraph
  <2>1. edges \in Edges /\ \A c \in Capability : edges[c] = requires[c] \cap Capability
    BY <1>1, GraphTyped
  <2>2. topoSort(edges) \in Seq(Capability)
    <3>1. CASE detectCycle(edges)
      BY <3>1 DEF topoSort
    <3>2. CASE ~detectCycle(edges)
      <4>1. Sorted(topoSort(edges), edges, Cardinality(Capability))
        BY <2>1, <3>2, TopoSorted DEF N
      <4> QED
        BY <4>1 DEF Sorted
    <3> QED
      BY <3>1, <3>2
  <2>3. ASSUME NEW c \in Capability PROVE UNION {Makes[d] : d \in edges[c]} \in SUBSET Product
    <3>1. edges[c] \subseteq Capability
      BY <2>1
    <3>2. \A d \in Capability : Makes[d] \subseteq Product
      BY PlanAssumption
    <3> HIDE DEF edges
    <3> QED
      BY <3>1, <3>2
  <2>4. (IF detectCycle(edges) THEN [c \in Capability |-> {}]
         ELSE [c \in Capability |-> UNION {Makes[d] : d \in edges[c]}])
          \in [Capability -> SUBSET Product]
    <3> HIDE DEF edges
    <3> QED
      BY <2>3
  <2>5. validateActivation \in SUBSET Capability
    BY DEF validateActivation
  <2> DEFINE missing == \E c \in Capability : ~(requires[c] \subseteq Capability \cup produced)
             received == IF detectCycle(edges) THEN [c \in Capability |-> {}]
                         ELSE [c \in Capability |-> UNION {Makes[d] : d \in edges[c]}]
             ok == ~missing /\ ~detectCycle(edges)
  <2>6. planExecution = [ok |-> ok, waiting |-> validateActivation, order |-> topoSort(edges),
                         received |-> received]
    BY Zenon DEF planExecution
  <2>7. ok \in BOOLEAN
    OBVIOUS
  <2>8. received \in [Capability -> SUBSET Product]
    BY <2>4
  <2> HIDE DEF ok, received, edges
  <2> QED
    BY <2>2, <2>5, <2>6, <2>7, <2>8 DEF Plan
<1> QED
  BY <1>1, <1>2 DEF PlanInv, PlanTypeOK, RequiresTyped

\* Whatever is declared, planned, noted and routed, what is planned, written and
\* chosen is of the skills that are there (skill-composition.js).
THEOREM AlwaysPlanTyped == PlanSpec => []PlanTypeOK
  BY PlanStarts, PlanKeeps, PlanTyped, PTL DEF PlanSpec

-----------------------------------------------------------------------------
(* Criteria of tasks and their weights.                                    *)

LEMMA SumsAgree ==
  ASSUME NEW n \in Nat, NEW m \in Nat, n <= m, NEW w, NEW v, NEW f, NEW g,
         Sums(f, w, n), Sums(g, v, m), \A t \in 1..n : w[t] = v[t]
  PROVE  f[n] = g[n]
<1> DEFINE G == {k \in Nat : k <= n => f[k] = g[k]}
<1>1. /\ f[0] = 0 /\ \A t \in 1..n : f[t] = f[t - 1] + w[t]
      /\ g[0] = 0 /\ \A t \in 1..m : g[t] = g[t - 1] + v[t]
  BY SumSteps
<1>2. 0 \in G
  BY <1>1
<1>3. ASSUME NEW k \in Nat, k \in G PROVE k + 1 \in G
  <2>1. CASE k + 1 <= n
    <3>1. k + 1 \in 1..n /\ k + 1 \in 1..m /\ (k + 1) - 1 = k /\ k <= n
      BY <2>1
    <3>2. f[k + 1] = f[k] + w[k + 1] /\ g[k + 1] = g[k] + v[k + 1] /\ w[k + 1] = v[k + 1]
      BY <1>1, <3>1
    <3>3. f[k] = g[k]
      BY <1>3, <3>1
    <3> QED
      BY <3>2, <3>3
  <2> QED
    BY <2>1
<1>4. n \in G
  <2> HIDE DEF G
  <2> QED
    BY <1>2, <1>3, SetInduction
<1>5. n <= n
  OBVIOUS
<1> QED
  BY <1>4, <1>5

\* Nothing but one adds up to that one.
LEMMA SumOfOne ==
  ASSUME NEW n \in Nat, NEW w, NEW f, Sums(f, w, n), NEW k \in 1..n, w[k] \in Nat,
         \A t \in 1..n : t # k => w[t] = 0
  PROVE  f[n] = w[k]
<1> DEFINE Good(m) == f[m] = IF m < k THEN 0 ELSE w[k]
           G == {m \in Nat : m <= n => Good(m)}
<1>1. f[0] = 0 /\ \A t \in 1..n : f[t] = f[t - 1] + w[t]
  BY SumSteps
<1>2. 0 \in G
  BY <1>1
<1>3. ASSUME NEW m \in Nat, m \in G PROVE m + 1 \in G
  <2>1. CASE m + 1 <= n
    <3>1. m + 1 \in 1..n /\ m <= n /\ (m + 1) - 1 = m
      BY <2>1
    <3>2. f[m + 1] = f[m] + w[m + 1]
      BY <1>1, <3>1
    <3>3. f[m] = IF m < k THEN 0 ELSE w[k]
      BY <1>3, <3>1
    <3>4. m + 1 # k => w[m + 1] = 0
      BY <3>1
    <3>5. Good(m + 1)
      <4>1. CASE m + 1 = k
        BY <3>2, <3>3, <4>1
      <4>2. CASE m + 1 # k
        <5>1. m < k <=> m + 1 < k
          BY <4>2
        <5>2. f[m + 1] = f[m]
          BY <3>2, <3>3, <3>4, <4>2
        <5> QED
          BY <3>3, <5>1, <5>2
      <4> QED
        BY <4>1, <4>2
    <3> QED
      BY <3>5
  <2> QED
    BY <2>1
<1>4. n \in G
  <2> HIDE DEF G
  <2> QED
    BY <1>2, <1>3, SetInduction
<1>5. n <= n /\ ~(n < k)
  OBVIOUS
<1> QED
  BY <1>4, <1>5

LEMMA SumOfBoth ==
  ASSUME NEW n \in Nat, NEW w, NEW v, NEW u, NEW f, NEW g, NEW h,
         Sums(f, w, n), Sums(g, v, n), Sums(h, u, n),
         \A t \in 1..n : w[t] \in Nat /\ v[t] \in Nat /\ u[t] = w[t] + v[t]
  PROVE  h[n] = f[n] + g[n]
<1> DEFINE Good(m) == h[m] = f[m] + g[m] /\ f[m] \in Nat /\ g[m] \in Nat
           G == {m \in Nat : m <= n => Good(m)}
<1>1. /\ f[0] = 0 /\ \A t \in 1..n : f[t] = f[t - 1] + w[t]
      /\ g[0] = 0 /\ \A t \in 1..n : g[t] = g[t - 1] + v[t]
      /\ h[0] = 0 /\ \A t \in 1..n : h[t] = h[t - 1] + u[t]
  BY SumSteps
<1>2. 0 \in G
  BY <1>1
<1>3. ASSUME NEW m \in Nat, m \in G PROVE m + 1 \in G
  <2>1. CASE m + 1 <= n
    <3>1. m + 1 \in 1..n /\ m <= n /\ (m + 1) - 1 = m
      BY <2>1
    <3>2. /\ f[m + 1] = f[m] + w[m + 1] /\ g[m + 1] = g[m] + v[m + 1]
          /\ h[m + 1] = h[m] + u[m + 1]
          /\ w[m + 1] \in Nat /\ v[m + 1] \in Nat /\ u[m + 1] = w[m + 1] + v[m + 1]
      BY <1>1, <3>1
    <3>3. Good(m)
      BY <1>3, <3>1
    <3>4. Good(m + 1)
      BY <3>2, <3>3
    <3> QED
      BY <3>4
  <2> QED
    BY <2>1
<1>4. n \in G
  <2> HIDE DEF G
  <2> QED
    BY <1>2, <1>3, SetInduction
<1>5. n <= n
  OBVIOUS
<1> QED
  BY <1>4, <1>5

\* One for each of some places adds up to how many they are.
LEMMA SumCounts ==
  ASSUME NEW n \in Nat, NEW P \in SUBSET (1..n), NEW w, NEW f, Sums(f, w, n),
         \A t \in 1..n : w[t] = IF t \in P THEN 1 ELSE 0
  PROVE  f[n] = Cardinality(P)
<1> DEFINE Good(m) == f[m] = Cardinality(P \cap (1..m))
           G == {m \in Nat : m <= n => Good(m)}
<1>1. f[0] = 0 /\ \A t \in 1..n : f[t] = f[t - 1] + w[t]
  BY SumSteps
<1>2. 0 \in G
  <2>1. P \cap (1..0) = {}
    OBVIOUS
  <2> QED
    BY <1>1, <2>1, FS_EmptySet
<1>3. ASSUME NEW m \in Nat, m \in G PROVE m + 1 \in G
  <2>1. CASE m + 1 <= n
    <3>1. m + 1 \in 1..n /\ m <= n /\ (m + 1) - 1 = m
      BY <2>1
    <3> DEFINE old == P \cap (1..m)
    <3>2. f[m + 1] = f[m] + w[m + 1]
      BY <1>1, <3>1
    <3>3. f[m] = Cardinality(old)
      BY <1>3, <3>1
    <3>4. IsFiniteSet(old) /\ Cardinality(old) \in Nat
      <4>1. IsFiniteSet(1..m)
        BY IntervalSize
      <4>2. old \in SUBSET (1..m)
        OBVIOUS
      <4> QED
        BY <4>1, <4>2, FS_Subset, FS_CardinalityType
    <3>5. CASE m + 1 \in P
      <4>1. P \cap (1..(m + 1)) = old \cup {m + 1} /\ m + 1 \notin old
        BY <3>5
      <4>2. Cardinality(old \cup {m + 1}) = Cardinality(old) + 1
        BY <3>4, <4>1, FS_AddElement
      <4>3. w[m + 1] = 1
        BY <3>1, <3>5
      <4> HIDE DEF old
      <4> QED
        BY <3>2, <3>3, <4>1, <4>2, <4>3
    <3>6. CASE m + 1 \notin P
      <4>1. P \cap (1..(m + 1)) = old
        BY <3>6
      <4>2. w[m + 1] = 0
        BY <3>1, <3>6
      <4> HIDE DEF old
      <4> QED
        BY <3>2, <3>3, <3>4, <4>1, <4>2
    <3> QED
      BY <3>5, <3>6
  <2> QED
    BY <2>1
<1>4. n \in G
  <2> HIDE DEF G
  <2> QED
    BY <1>2, <1>3, SetInduction
<1>5. P \cap (1..n) = P
  OBVIOUS
<1>6. n <= n
  OBVIOUS
<1> QED
  BY <1>4, <1>5, <1>6

LEMMA Spread == ASSUME NEW a \in Nat, NEW b \in Nat, NEW c \in Nat
                PROVE  a * (b + c) = a * b + a * c /\ a * b = b * a /\ a * b \in Nat
OBVIOUS

LEMMA Divided ==
  ASSUME NEW a \in Nat, NEW d \in Nat \ {0}
  PROVE  /\ a \div d \in Nat /\ a % d \in Nat /\ a % d < d
         /\ a = d * (a \div d) + (a % d)
OBVIOUS

LEMMA Grows ==
  ASSUME NEW a \in Nat, NEW b \in Nat, NEW c \in Nat, b <= c
  PROVE  a * b <= a * c
OBVIOUS

\* What flooring leaves of the scale is less than there are weights.
LEMMA Flooring ==
  ASSUME NEW n \in Nat \ {0}, NEW w, \A t \in 1..n : w[t] \in Nat,
         NEW f, Sums(f, w, n), NEW total \in Nat \ {0}, total = f[n],
         NEW q, \A t \in 1..n : q[t] = (w[t] * SCALE) \div total,
         NEW g, Sums(g, q, n)
  PROVE  g[n] \in Nat /\ g[n] <= SCALE /\ SCALE - g[n] < n
<1> DEFINE rem == [t \in 1..n |-> (w[t] * SCALE) % total]
<1>1. PICK h : Sums(h, rem, n)
  BY SumExists
<1>2. /\ f[0] = 0 /\ \A t \in 1..n : f[t] = f[t - 1] + w[t]
      /\ g[0] = 0 /\ \A t \in 1..n : g[t] = g[t - 1] + q[t]
      /\ h[0] = 0 /\ \A t \in 1..n : h[t] = h[t - 1] + rem[t]
  <2> HIDE DEF rem
  <2>1. n \in Nat
    OBVIOUS
  <2>2. f[0] = 0 /\ \A t \in 1..n : f[t] = f[t - 1] + w[t]
    BY <2>1, SumSteps
  <2>3. g[0] = 0 /\ \A t \in 1..n : g[t] = g[t - 1] + q[t]
    BY <2>1, SumSteps
  <2>4. h[0] = 0 /\ \A t \in 1..n : h[t] = h[t - 1] + rem[t]
    BY <1>1, <2>1, SumSteps
  <2> QED
    BY <2>2, <2>3, <2>4
<1>3. SCALE \in Nat
  BY DEF SCALE
<1>4. ASSUME NEW t \in 1..n
      PROVE  /\ q[t] \in Nat /\ rem[t] \in Nat /\ rem[t] < total
             /\ SCALE * w[t] = (total * q[t]) + rem[t]
  <2>1. w[t] \in Nat /\ w[t] * SCALE \in Nat /\ w[t] * SCALE = SCALE * w[t]
    BY <1>3, Spread
  <2> DEFINE a == w[t] * SCALE
  <2>2. q[t] = a \div total /\ rem[t] = a % total
    OBVIOUS
  <2> HIDE DEF a, rem
  <2>3. a \div total \in Nat /\ a % total \in Nat /\ a % total < total
        /\ a = total * (a \div total) + (a % total)
    BY <2>1, Divided DEF a
  <2> QED
    BY <2>1, <2>2, <2>3 DEF a
<1> HIDE DEF rem
<1> DEFINE Good(m) == /\ f[m] \in Nat /\ g[m] \in Nat /\ h[m] \in Nat
                      /\ SCALE * f[m] = (total * g[m]) + h[m]
                      /\ h[m] + m <= total * m
           G == {m \in Nat : m <= n => Good(m)}
<1>5. 0 \in G
  <2>1. total * 0 = 0 /\ SCALE * 0 = 0
    BY <1>3
  <2> QED
    BY <1>2, <2>1
<1>6. ASSUME NEW m \in Nat, m \in G PROVE m + 1 \in G
  <2>1. CASE m + 1 <= n
    <3>1. m + 1 \in 1..n /\ m <= n /\ (m + 1) - 1 = m
      BY <2>1
    <3>2. /\ f[m + 1] = f[m] + w[m + 1] /\ g[m + 1] = g[m] + q[m + 1]
          /\ h[m + 1] = h[m] + rem[m + 1]
      BY <1>2, <3>1
    <3>3. Good(m)
      BY <1>6, <3>1
    <3>4. /\ w[m + 1] \in Nat /\ q[m + 1] \in Nat /\ rem[m + 1] \in Nat /\ rem[m + 1] < total
          /\ SCALE * w[m + 1] = (total * q[m + 1]) + rem[m + 1]
      BY <1>4, <3>1
    <3>5. SCALE * (f[m] + w[m + 1]) = (SCALE * f[m]) + (SCALE * w[m + 1])
      BY <1>3, <3>3, <3>4, Spread
    <3>6. total * (g[m] + q[m + 1]) = (total * g[m]) + (total * q[m + 1])
      BY <3>3, <3>4, Spread
    <3>7. total * (m + 1) = (total * m) + total
      BY Spread
    <3>8. /\ total * g[m] \in Nat /\ total * q[m + 1] \in Nat /\ total * m \in Nat
      BY <3>3, <3>4, Spread
    <3>9. SCALE * f[m + 1] = (total * g[m + 1]) + h[m + 1]
      BY <3>2, <3>3, <3>4, <3>5, <3>6, <3>8
    <3>10. h[m + 1] + (m + 1) <= total * (m + 1)
      BY <3>2, <3>3, <3>4, <3>7, <3>8
    <3>11. f[m + 1] \in Nat /\ g[m + 1] \in Nat /\ h[m + 1] \in Nat
      BY <3>2, <3>3, <3>4
    <3>12. Good(m + 1)
      BY <3>9, <3>10, <3>11
    <3> QED
      BY <3>12
  <2> QED
    BY <2>1
<1>7. n \in G
  <2> HIDE DEF G
  <2> QED
    BY <1>5, <1>6, SetInduction
<1>8. /\ g[n] \in Nat /\ h[n] \in Nat
      /\ SCALE * total = (total * g[n]) + h[n] /\ h[n] + n <= total * n
  <2>1. n <= n
    OBVIOUS
  <2> QED
    BY <1>7, <2>1
<1>9. SCALE * total = total * SCALE
  BY <1>3, Spread
<1>10. ASSUME g[n] >= SCALE + 1 PROVE FALSE
  <2>1. total * (SCALE + 1) <= total * g[n]
    <3>1. total \in Nat /\ SCALE + 1 \in Nat /\ g[n] \in Nat /\ SCALE + 1 <= g[n]
      BY <1>3, <1>8, <1>10
    <3> QED
      BY <3>1, Grows, Zenon
  <2>2. total * (SCALE + 1) = (total * SCALE) + (total * 1) /\ total * 1 = total
    BY <1>3, Spread
  <2>3. total * SCALE \in Nat /\ total * g[n] \in Nat
    BY <1>3, <1>8, Spread
  <2> QED
    BY <1>8, <1>9, <2>1, <2>2, <2>3
<1>11. ASSUME SCALE >= g[n] + n PROVE FALSE
  <2>1. total * (g[n] + n) <= total * SCALE
    BY <1>3, <1>8, <1>11, Grows
  <2>2. total * (g[n] + n) = (total * g[n]) + (total * n)
    BY <1>8, Spread
  <2>3. total * g[n] \in Nat /\ total * n \in Nat /\ total * SCALE \in Nat
    BY <1>3, <1>8, Spread
  <2> QED
    BY <1>8, <1>9, <2>1, <2>2, <2>3
<1>12. g[n] <= SCALE
  BY <1>3, <1>8, <1>10
<1>13. SCALE - g[n] < n
  BY <1>3, <1>8, <1>11
<1> QED
  BY <1>8, <1>12, <1>13

\* As many come first as one asks for.
LEMMA FirstOnes ==
  ASSUME NEW S, IsFiniteSet(S), NEW Below, Orders(Below, S),
         NEW d \in Nat, d <= Cardinality(S)
  PROVE  Cardinality({k \in S : Cardinality(Below[k]) < d}) = d
<1> DEFINE T == {k \in S : Cardinality(Below[k]) < d}
           rank == [k \in T |-> Cardinality(Below[k]) + 1]
<1>1. /\ Cardinality(S) \in Nat
      /\ \A k \in S : Cardinality(Below[k]) \in 0..(Cardinality(S) - 1)
      /\ \A j, k \in S : Cardinality(Below[j]) = Cardinality(Below[k]) => j = k
      /\ \A n \in 0..(Cardinality(S) - 1) : \E k \in S : Cardinality(Below[k]) = n
  BY RanksAre
<1>2. \A k \in T : k \in S /\ Cardinality(Below[k]) \in Nat /\ Cardinality(Below[k]) < d
  BY <1>1
<1>3. \A n \in 1..d : \E k \in T : Cardinality(Below[k]) = n - 1
  <2> TAKE n \in 1..d
  <2>1. n - 1 \in 0..(Cardinality(S) - 1) /\ n - 1 < d
    BY <1>1
  <2> QED
    BY <1>1, <2>1
<1> HIDE DEF T
<1>4. rank \in [T -> 1..d]
  BY <1>2
<1>5. \A j, k \in T : rank[j] = rank[k] => j = k
  BY <1>1, <1>2
<1>6. \A n \in 1..d : \E k \in T : rank[k] = n
  <2> TAKE n \in 1..d
  <2>1. PICK k \in T : Cardinality(Below[k]) = n - 1
    BY <1>3
  <2>2. rank[k] = n
    BY <2>1
  <2> QED
    BY <2>2
<1> HIDE DEF rank
<1>7. rank \in Bijection(T, 1..d)
  BY <1>4, <1>5, <1>6 DEF Bijection, Injection, Surjection, IsInjective
<1>8. IsFiniteSet(T)
  <2>1. T \in SUBSET S
    BY DEF T
  <2> QED
    BY <2>1, FS_Subset
<1>9. Cardinality(1..d) = Cardinality(T)
  BY <1>7, <1>8, FS_Bijection DEF ExistsBijection
<1> QED
  BY <1>9, IntervalSize DEF T

CriterionType == {"VALIDATION", "LOCAL_SERVICE_CHECK", "DATA_REVIEW", "MONITORING",
                  "ROLLBACK_PLAN", "DOCUMENTATION"}
Weighed == [type: CriterionType, weight: Nat]

\* The weights of those at some places, and none of the others.
WeightsAt(criteria, places) ==
  [n \in 1..Len(criteria) |-> IF n \in places THEN criteria[n].weight ELSE 0]

LEMMA WeightIs ==
  ASSUME NEW criteria \in Seq(Weighed), NEW places
  PROVE  /\ \A n \in 1..Len(criteria) : WeightsAt(criteria, places)[n] \in Nat
         /\ Weight(criteria, places) \in Nat
         /\ \E f : /\ Sums(f, WeightsAt(criteria, places), Len(criteria))
                   /\ Weight(criteria, places) = f[Len(criteria)]
<1> DEFINE w == WeightsAt(criteria, places)
           Is(f) == f = [n \in 0..Len(criteria) |->
                           IF n = 0 THEN 0
                           ELSE f[n - 1] + IF n \in places THEN criteria[n].weight ELSE 0]
<1>1. Weight(criteria, places) = (CHOOSE f : Is(f))[Len(criteria)]
  BY DEF Weight
<1>2. Len(criteria) \in Nat /\ DOMAIN criteria = 1..Len(criteria)
  OBVIOUS
<1>3. \A n \in 1..Len(criteria) : criteria[n] \in Weighed
  BY <1>2, Members, Zenon
<1>4. \A n \in 1..Len(criteria) : w[n] \in Nat
  BY <1>3 DEF Weighed, WeightsAt
<1>5. ASSUME NEW f PROVE Is(f) <=> Sums(f, w, Len(criteria))
  <2>1. \A n \in 0..Len(criteria) :
          n # 0 => w[n] = IF n \in places THEN criteria[n].weight ELSE 0
    BY <1>2 DEF WeightsAt
  <2> HIDE DEF w
  <2> QED
    BY <2>1 DEF Sums
<1>6. PICK f : Is(f) /\ Weight(criteria, places) = f[Len(criteria)]
  <2>1. \E f : Is(f)
    <3> HIDE DEF Is, w
    <3> QED
      BY <1>2, <1>5, SumExists
  <2> HIDE DEF Is
  <2> QED
    BY <1>1, <2>1
<1>7. Sums(f, w, Len(criteria))
  BY <1>5, <1>6
<1> HIDE DEF w, Is
<1>8. f[Len(criteria)] \in Nat
  BY <1>2, <1>4, <1>7, SumIsNatural
<1> QED
  BY <1>4, <1>6, <1>7, <1>8 DEF w

LEMMA NoWeight ==
  ASSUME NEW criteria \in Seq(Weighed)
  PROVE  Weight(criteria, {}) = 0
<1> DEFINE w == WeightsAt(criteria, {})
<1>1. PICK f : Sums(f, w, Len(criteria)) /\ Weight(criteria, {}) = f[Len(criteria)]
  BY WeightIs
<1>2. Len(criteria) \in Nat /\ \A n \in 1..Len(criteria) : w[n] = 0 /\ w[n] \in Nat
  BY DEF WeightsAt
<1> HIDE DEF w
<1> QED
  BY <1>1, <1>2, SumIsNatural

LEMMA WeightOfOne ==
  ASSUME NEW criteria \in Seq(Weighed), NEW k \in DOMAIN criteria
  PROVE  Weight(criteria, {k}) = criteria[k].weight
<1> DEFINE w == WeightsAt(criteria, {k})
<1>1. PICK f : Sums(f, w, Len(criteria)) /\ Weight(criteria, {k}) = f[Len(criteria)]
  BY WeightIs
<1>2. Len(criteria) \in Nat /\ k \in 1..Len(criteria)
  OBVIOUS
<1>3. \A n \in 1..Len(criteria) : w[n] \in Nat
  BY WeightIs
<1>4. w[k] = criteria[k].weight /\ \A n \in 1..Len(criteria) : n # k => w[n] = 0
  BY <1>2 DEF WeightsAt
<1> HIDE DEF w
<1>5. f[Len(criteria)] = w[k]
  BY <1>1, <1>2, <1>3, <1>4, SumOfOne
<1> QED
  BY <1>1, <1>4, <1>5

\* One criterion more adds its weight.
LEMMA TotalGrows ==
  ASSUME NEW criteria \in Seq(Weighed), NEW c \in Weighed
  PROVE  Total(Append(criteria, c)) = Total(criteria) + c.weight
<1> DEFINE more == Append(criteria, c)
           n == Len(criteria)
           w == WeightsAt(criteria, DOMAIN criteria)
           v == WeightsAt(more, DOMAIN more)
<1>1. /\ more \in Seq(Weighed) /\ n \in Nat /\ Len(more) = n + 1
      /\ DOMAIN more = 1..(n + 1) /\ DOMAIN criteria = 1..n
      /\ more[n + 1] = c /\ \A k \in 1..n : more[k] = criteria[k]
  OBVIOUS
<1>2. PICK f : Sums(f, w, n) /\ Total(criteria) = f[n]
  BY WeightIs DEF Total
<1>3. PICK g : Sums(g, v, n + 1) /\ Total(more) = g[n + 1]
  <2> HIDE DEF more
  <2>1. PICK g : Sums(g, v, Len(more)) /\ Total(more) = g[Len(more)]
    BY <1>1, WeightIs DEF Total
  <2> QED
    BY <1>1, <2>1
<1>4. \A k \in 1..n : k \in 1..(n + 1)
  BY <1>1
<1>5. v[n + 1] = c.weight /\ \A k \in 1..n : w[k] = v[k]
  <2>1. n + 1 \in 1..(n + 1)
    BY <1>1
  <2> HIDE DEF more
  <2> QED
    BY <1>1, <1>4, <2>1 DEF WeightsAt
<1> HIDE DEF w, v, more, n
<1>6. f[n] = g[n]
  <2>1. n + 1 \in Nat /\ n <= n + 1
    BY <1>1
  <2> QED
    BY <1>1, <1>2, <1>3, <1>5, <2>1, SumsAgree
<1>7. g[n + 1] = g[n] + v[n + 1]
  <2>1. n + 1 \in Nat /\ n + 1 \in 1..(n + 1) /\ (n + 1) - 1 = n
    BY <1>1
  <2> QED
    BY <1>3, <2>1, SumSteps
<1> QED
  BY <1>2, <1>3, <1>5, <1>6, <1>7 DEF more

\* Normalised weights are the whole scale, to the last unit, each no further than
\* one from its share.
LEMMA NormalizedAre ==
  ASSUME NEW L \in Seq(Weighed), L # <<>>, Total(L) > 0, NEW r, r = normalizeWeights(L)
  PROVE  /\ r \in Seq(Weighed) /\ DOMAIN r = DOMAIN L /\ Total(r) = SCALE
         /\ \A k \in DOMAIN L :
              /\ r[k].type = L[k].type
              /\ LET share == (L[k].weight * SCALE) \div Total(L)
                 IN  share \in Nat /\ r[k].weight \in {share, share + 1}
<1> DEFINE n == Len(L)
           total == Total(L)
           Exact(k) == L[k].weight * SCALE
           S == DOMAIN L
           Higher(k) == {j \in S : \/ Exact(j) % total > Exact(k) % total
                                   \/ Exact(j) % total = Exact(k) % total /\ j < k}
           floors == [k \in S |-> Criterion(L[k].type, Exact(k) \div total)]
           d == SCALE - Total(floors)
           raised == {k \in S : Cardinality(Higher(k)) < d}
           w == [k \in S |-> Exact(k) % total]
           Below == [k \in S |-> {j \in S : w[j] > w[k] \/ (w[j] = w[k] /\ j < k)}]
<1>1. r = [k \in S |-> IF k \in raised THEN [floors[k] EXCEPT !.weight = @ + 1] ELSE floors[k]]
  BY Zenon DEF normalizeWeights
<1>2. /\ n \in Nat \ {0} /\ S = 1..n /\ SCALE \in Nat /\ S \in SUBSET Nat
      /\ IsFiniteSet(S) /\ Cardinality(S) = n
  <2>1. n \in Nat \ {0} /\ S = 1..n /\ SCALE \in Nat
    BY DEF SCALE
  <2> QED
    BY <2>1, IntervalSize
<1>3. total \in Nat \ {0}
  <2>1. total \in Nat
    BY WeightIs DEF Total
  <2> QED
    BY <2>1
<1>4. ASSUME NEW k \in S
      PROVE  /\ L[k] \in Weighed /\ L[k].weight \in Nat /\ L[k].type \in CriterionType
             /\ Exact(k) \in Nat /\ Exact(k) \div total \in Nat /\ Exact(k) % total \in Nat
  <2>1. L[k] \in Weighed
    BY Members, Zenon
  <2>2. L[k].weight \in Nat /\ L[k].type \in CriterionType
    BY <2>1 DEF Weighed
  <2>3. Exact(k) \in Nat
    BY <1>2, <2>2, Spread
  <2> HIDE DEF Exact, total
  <2> QED
    BY <1>3, <2>1, <2>2, <2>3, Divided
<1> HIDE DEF total, Exact, S, n
<1>5. ASSUME NEW k \in S
      PROVE  /\ floors[k] = [type |-> L[k].type, weight |-> Exact(k) \div total]
             /\ floors[k] \in Weighed /\ floors[k].weight = Exact(k) \div total
  <2> DEFINE x == Exact(k) \div total
  <2>1. floors[k] = [type |-> L[k].type, weight |-> x]
    BY DEF Criterion
  <2>2. x \in Nat
    BY <1>4
  <2> HIDE DEF x, floors
  <2>3. floors[k] \in Weighed /\ floors[k].weight = x
    BY <1>4, <2>1, <2>2 DEF Weighed
  <2> QED
    BY <2>1, <2>3 DEF x
<1>6. floors \in Seq(Weighed) /\ Len(floors) = n /\ DOMAIN floors = 1..n
  <2>1. floors \in [1..n -> Weighed]
    BY <1>2, <1>5
  <2> HIDE DEF floors
  <2> QED
    BY <1>2, <2>1, FunctionIsSeq
<1> HIDE DEF floors
<1>7. PICK f : Sums(f, WeightsAt(L, DOMAIN L), n) /\ total = f[n]
  BY WeightIs DEF Total, total, n
<1>8. PICK g : Sums(g, WeightsAt(floors, DOMAIN floors), n) /\ Total(floors) = g[n]
  <2>1. PICK g : Sums(g, WeightsAt(floors, DOMAIN floors), Len(floors)) /\ Total(floors) = g[Len(floors)]
    BY <1>6, WeightIs DEF Total
  <2> QED
    BY <1>6, <2>1
<1>9. /\ \A k \in 1..n : WeightsAt(L, DOMAIN L)[k] = L[k].weight
      /\ \A k \in 1..n : WeightsAt(floors, DOMAIN floors)[k] = floors[k].weight
  BY <1>2, <1>6 DEF WeightsAt, n, S
<1>10. Total(floors) \in Nat /\ Total(floors) <= SCALE /\ SCALE - Total(floors) < n
  <2> DEFINE u == WeightsAt(L, DOMAIN L)
             q == WeightsAt(floors, DOMAIN floors)
  <2>1. \A t \in 1..n : u[t] \in Nat
    BY <1>2, <1>4, <1>9
  <2>2. \A t \in 1..n : q[t] = (u[t] * SCALE) \div total
    <3> TAKE t \in 1..n
    <3>1. t \in S
      BY <1>2
    <3>2. u[t] = L[t].weight /\ q[t] = floors[t].weight
      BY <1>9
    <3>3. floors[t].weight = Exact(t) \div total
      BY <1>5, <3>1
    <3>4. Exact(t) = L[t].weight * SCALE
      BY DEF Exact
    <3> HIDE DEF u, q
    <3> QED
      BY <3>2, <3>3, <3>4, Zenon
  <2> HIDE DEF u, q
  <2>3. Sums(f, u, n) /\ Sums(g, q, n) /\ total = f[n]
    BY <1>7, <1>8 DEF u, q
  <2>4. g[n] \in Nat /\ g[n] <= SCALE /\ SCALE - g[n] < n
    BY <1>2, <1>3, <2>1, <2>2, <2>3, Flooring
  <2> QED
    BY <1>8, <2>4
<1>11. d \in Nat /\ d <= n /\ SCALE = Total(floors) + d
  BY <1>2, <1>10
<1> HIDE DEF d
<1>12. w \in [S -> Int]
  BY <1>4
<1>13. Orders(Below, S)
  <2> HIDE DEF w
  <2> QED
    BY <1>2, <1>12, HeaviestFirst
<1>14. ASSUME NEW k \in S PROVE Below[k] = Higher(k)
  <2>1. \A j \in S : w[j] = Exact(j) % total
    OBVIOUS
  <2>2. Below[k] = {j \in S : w[j] > w[k] \/ (w[j] = w[k] /\ j < k)}
    OBVIOUS
  <2>3. Higher(k) = {j \in S : \/ Exact(j) % total > Exact(k) % total
                               \/ Exact(j) % total = Exact(k) % total /\ j < k}
    OBVIOUS
  <2> HIDE DEF w, Below, Higher
  <2> QED
    BY <2>1, <2>2, <2>3
<1> HIDE DEF Below, Higher
<1>15. Cardinality(raised) = d
  <2>1. raised = {k \in S : Cardinality(Below[k]) < d}
    BY <1>14
  <2>2. Cardinality({k \in S : Cardinality(Below[k]) < d}) = d
    <3>1. IsFiniteSet(S) /\ d \in Nat /\ d <= Cardinality(S)
      BY <1>2, <1>11
    <3> HIDE DEF w, raised
    <3> QED
      BY <1>13, <3>1, FirstOnes, SMTT(60)
  <2> QED
    BY <2>1, <2>2
<1>16. raised \in SUBSET (1..n)
  BY <1>2
<1> HIDE DEF raised
<1>17. ASSUME NEW k \in S
       PROVE  /\ r[k] \in Weighed /\ r[k].type = L[k].type
              /\ r[k].weight = (Exact(k) \div total) + IF k \in raised THEN 1 ELSE 0
  <2> DEFINE x == Exact(k) \div total
  <2>1. x \in Nat
    BY <1>4
  <2> HIDE DEF x
  <2>2. floors[k] = [type |-> L[k].type, weight |-> x]
    BY <1>5 DEF x
  <2>3. r[k] = IF k \in raised THEN [type |-> L[k].type, weight |-> x + 1]
               ELSE [type |-> L[k].type, weight |-> x]
    BY <1>1, <2>2
  <2> QED
    BY <1>4, <2>1, <2>3 DEF Weighed, x
<1>18. r \in Seq(Weighed) /\ Len(r) = n /\ DOMAIN r = 1..n
  <2>1. r \in [1..n -> Weighed]
    BY <1>1, <1>2, <1>17
  <2> QED
    BY <1>2, <2>1, FunctionIsSeq
<1>19. Total(r) = SCALE
  <2> DEFINE q == WeightsAt(floors, DOMAIN floors)
             ones == [t \in 1..n |-> IF t \in raised THEN 1 ELSE 0]
             u == WeightsAt(r, DOMAIN r)
  <2>1. PICK h : Sums(h, u, n) /\ Total(r) = h[n]
    <3>1. PICK h : Sums(h, u, Len(r)) /\ Total(r) = h[Len(r)]
      BY <1>18, WeightIs DEF Total
    <3> QED
      BY <1>18, <3>1
  <2>2. PICK e : Sums(e, ones, n)
    <3> HIDE DEF ones
    <3> QED
      BY <1>2, SumExists
  <2>3. e[n] = Cardinality(raised)
    <3>1. \A t \in 1..n : ones[t] = IF t \in raised THEN 1 ELSE 0
      OBVIOUS
    <3> HIDE DEF ones
    <3> QED
      BY <1>2, <1>16, <2>2, <3>1, SumCounts
  <2>4. \A t \in 1..n : q[t] \in Nat /\ ones[t] \in Nat /\ u[t] = q[t] + ones[t]
    <3> TAKE t \in 1..n
    <3>1. u[t] = r[t].weight
      BY <1>18 DEF WeightsAt
    <3>2. q[t] = Exact(t) \div total /\ q[t] \in Nat
      <4>1. t \in S
        BY <1>2
      <4>2. q[t] = floors[t].weight
        BY <1>9
      <4>3. floors[t].weight = Exact(t) \div total
        BY <1>5, <4>1
      <4>4. Exact(t) \div total \in Nat
        BY <1>4, <4>1
      <4> HIDE DEF q
      <4> QED
        BY <4>2, <4>3, <4>4, Zenon
    <3>3. r[t].weight = (Exact(t) \div total) + IF t \in raised THEN 1 ELSE 0
      BY <1>2, <1>17
    <3> HIDE DEF q, u
    <3> QED
      BY <3>1, <3>2, <3>3
  <2>5. Sums(g, q, n)
    BY <1>8
  <2> HIDE DEF q, ones, u
  <2>6. h[n] = g[n] + e[n]
    <3>1. n \in Nat
      BY <1>2
    <3>2. \A t \in 1..n : q[t] \in Nat
      BY <2>4, Zenon
    <3>3. \A t \in 1..n : ones[t] \in Nat
      BY <2>4, Zenon
    <3>4. \A t \in 1..n : u[t] = q[t] + ones[t]
      BY <2>4, Zenon
    <3>5. Sums(h, u, n)
      BY <2>1
    <3> QED
      BY <2>2, <2>5, <3>1, <3>2, <3>3, <3>4, <3>5, SumOfBoth
  <2> QED
    BY <1>8, <1>11, <1>15, <2>1, <2>3, <2>6
<1>20. ASSUME NEW k \in S
       PROVE  LET share == (L[k].weight * SCALE) \div Total(L)
              IN  share \in Nat /\ r[k].weight \in {share, share + 1}
  <2> DEFINE share == Exact(k) \div total
  <2>1. share \in Nat /\ r[k].weight = share + IF k \in raised THEN 1 ELSE 0
    BY <1>4, <1>17
  <2>2. share = (L[k].weight * SCALE) \div Total(L)
    BY DEF Exact, total
  <2> HIDE DEF share
  <2>3. r[k].weight \in {share, share + 1}
    BY <2>1
  <2> QED
    BY <2>1, <2>2, <2>3
<1> QED
  BY <1>2, <1>17, <1>18, <1>19, <1>20 DEF S

\* The criteria of a list, no two of one type, and the sum of their weights.
Listed(L, C, sum) ==
  /\ L \in Seq(Weighed) /\ Total(L) = sum
  /\ \A k \in DOMAIN L : L[k] \in C
  /\ \A c \in C : \E k \in DOMAIN L : L[k] = c
  /\ \A j, k \in DOMAIN L : L[j].type = L[k].type => j = k

LEMMA NothingListed == Listed(<<>>, {}, 0)
<1>1. <<>> \in Seq(Weighed) /\ DOMAIN <<>> = {}
  OBVIOUS
<1>2. Total(<<>>) = 0
  <2>1. Weight(<<>>, {}) = 0
    BY <1>1, NoWeight
  <2> QED
    BY <1>1, <2>1 DEF Total
<1> QED
  BY <1>1, <1>2 DEF Listed

LEMMA OneListed ==
  ASSUME NEW L, NEW C, NEW sum, Listed(L, C, sum), NEW c \in Weighed,
         \A x \in C : x.type # c.type
  PROVE  Listed(L \o <<c>>, C \cup {c}, sum + c.weight)
<1> DEFINE more == Append(L, c)
           n == Len(L)
<1>1. /\ L \in Seq(Weighed) /\ Total(L) = sum
      /\ \A k \in DOMAIN L : L[k] \in C
      /\ \A x \in C : \E k \in DOMAIN L : L[k] = x
      /\ \A j, k \in DOMAIN L : L[j].type = L[k].type => j = k
  BY DEF Listed
<1>2. more = L \o <<c>> /\ more \in Seq(Weighed)
  BY <1>1
<1>3. /\ n \in Nat /\ DOMAIN L = 1..n /\ DOMAIN more = 1..(n + 1)
      /\ more[n + 1] = c /\ \A k \in 1..n : more[k] = L[k]
  BY <1>1
<1>4. Total(more) = sum + c.weight
  BY <1>1, TotalGrows
<1> HIDE DEF more, n
<1>5. \A k \in DOMAIN more : k \in 1..n \/ k = n + 1
  BY <1>3
<1>6. \A k \in DOMAIN more : more[k] \in C \cup {c}
  BY <1>1, <1>3, <1>5
<1>7. \A x \in C \cup {c} : \E k \in DOMAIN more : more[k] = x
  <2>1. 1..n \in SUBSET DOMAIN more /\ n + 1 \in DOMAIN more
    BY <1>3
  <2> QED
    BY <1>1, <1>3, <2>1
<1>8. ASSUME NEW j \in DOMAIN more, NEW k \in DOMAIN more, more[j].type = more[k].type
      PROVE  j = k
  <2>1. \A i \in 1..n : more[i].type # c.type
    BY <1>1, <1>3
  <2>2. CASE j \in 1..n /\ k \in 1..n
    BY <1>1, <1>3, <1>8, <2>2
  <2>3. CASE j \in 1..n /\ k = n + 1
    BY <1>3, <1>8, <2>1, <2>3
  <2>4. CASE j = n + 1 /\ k \in 1..n
    BY <1>3, <1>8, <2>1, <2>4
  <2>5. CASE j = n + 1 /\ k = n + 1
    BY <2>5
  <2> QED
    BY <1>5, <2>2, <2>3, <2>4, <2>5
<1>9. Listed(more, C \cup {c}, sum + c.weight)
  BY <1>2, <1>4, <1>6, <1>7, <1>8 DEF Listed
<1> QED
  BY <1>2, <1>9

\* One that a flag calls for or not.
LEMMA PerhapsListed ==
  ASSUME NEW L, NEW C, NEW sum \in Nat, Listed(L, C, sum), NEW c \in Weighed,
         \A x \in C : x.type # c.type, NEW b \in BOOLEAN
  PROVE  Listed(L \o (IF b THEN <<c>> ELSE <<>>), C \cup (IF b THEN {c} ELSE {}),
                sum + (IF b THEN c.weight ELSE 0))
<1>1. CASE b
  <2>1. Listed(L \o <<c>>, C \cup {c}, sum + c.weight)
    BY OneListed
  <2> QED
    BY <1>1, <2>1
<1>2. CASE ~b
  <2>1. L \o <<>> = L /\ C \cup {} = C /\ sum + 0 = sum
    BY DEF Listed
  <2> QED
    BY <1>2, <2>1
<1> QED
  BY <1>1, <1>2

\* What is normalised where every weight is at least three of thirty.
LEMMA SharesOf ==
  ASSUME NEW L, NEW C, NEW sum \in 1..30, Listed(L, C, sum), \A c \in C : c.weight >= 3,
         NEW r, r = normalizeWeights(L)
  PROVE  /\ r \in Seq(Weighed) /\ DOMAIN r = DOMAIN L /\ Total(r) = SCALE
         /\ \A k \in DOMAIN r :
              /\ r[k].type = L[k].type /\ r[k].weight > 0
              /\ \E share \in Nat : /\ sum * share <= L[k].weight * SCALE
                                    /\ r[k].weight \in {share, share + 1}
<1>1. /\ L \in Seq(Weighed) /\ Total(L) = sum /\ sum \in Nat \ {0}
      /\ \A k \in DOMAIN L : L[k] \in C
  <2>1. sum \in Nat \ {0}
    OBVIOUS
  <2> QED
    BY <2>1, Zenon DEF Listed
<1>2. L # <<>>
  <2>1. ASSUME L = <<>> PROVE FALSE
    <3>1. <<>> \in Seq(Weighed) /\ DOMAIN <<>> = {}
      OBVIOUS
    <3>2. Weight(<<>>, {}) = 0
      BY <3>1, NoWeight
    <3>3. Total(<<>>) = 0
      BY <3>1, <3>2 DEF Total
    <3> QED
      BY <1>1, <2>1, <3>3
  <2> QED
    BY <2>1
<1>3. /\ r \in Seq(Weighed) /\ DOMAIN r = DOMAIN L /\ Total(r) = SCALE
      /\ \A k \in DOMAIN L :
           /\ r[k].type = L[k].type
           /\ LET share == (L[k].weight * SCALE) \div Total(L)
              IN  share \in Nat /\ r[k].weight \in {share, share + 1}
  <2>1. Total(L) > 0
    BY <1>1
  <2> QED
    BY <1>1, <1>2, <2>1, NormalizedAre
<1>4. ASSUME NEW k \in DOMAIN L
      PROVE  /\ r[k].weight > 0
             /\ \E share \in Nat : /\ sum * share <= L[k].weight * SCALE
                                   /\ r[k].weight \in {share, share + 1}
  <2> DEFINE a == L[k].weight * SCALE
             share == a \div sum
  <2>1. L[k].weight \in Nat /\ L[k].weight >= 3
    <3>1. L[k] \in Weighed /\ L[k] \in C
      BY <1>1
    <3> QED
      BY <3>1 DEF Weighed
  <2>2. a \in Nat /\ a >= 30000
    BY <2>1 DEF SCALE
  <2>3. share \in Nat /\ r[k].weight \in {share, share + 1}
    BY <1>1, <1>3
  <2> HIDE DEF a
  <2>4. a \div sum \in Nat /\ a % sum \in Nat /\ a % sum < sum
        /\ a = sum * (a \div sum) + (a % sum)
    BY <1>1, <2>2, Divided
  <2> DEFINE rem == a % sum
  <2>5. rem \in Nat /\ rem < sum /\ a = (sum * share) + rem /\ sum * share \in Nat
    <3> HIDE DEF share, rem
    <3>1. rem \in Nat /\ rem < sum /\ a = (sum * share) + rem
      BY <2>4 DEF share, rem
    <3>2. sum * share \in Nat
      BY <1>1, <2>3, Spread
    <3> QED
      BY <3>1, <3>2
  <2> HIDE DEF share, rem
  <2>6. sum * share <= a
    BY <2>2, <2>5
  <2>7. share # 0
    <3>1. ASSUME share = 0 PROVE FALSE
      <4>1. sum * share = 0
        BY <3>1
      <4> QED
        BY <2>2, <2>5, <4>1
    <3> QED
      BY <3>1
  <2>8. r[k].weight > 0
    BY <2>3, <2>7
  <2> QED
    BY <2>3, <2>6, <2>8 DEF a
<1> QED
  BY <1>3, <1>4

\* What generateCompletionCriteria normalises, with what calls for each.
DataReview == [type |-> "DATA_REVIEW", weight |-> 4]
ServiceCheck == [type |-> "LOCAL_SERVICE_CHECK", weight |-> 4]
RollbackPlan == [type |-> "ROLLBACK_PLAN", weight |-> 6]
Documents == [type |-> "DOCUMENTATION", weight |-> 5]
Validation == [type |-> "VALIDATION", weight |-> 3]

OnlyIf(b, c) == IF b THEN {c} ELSE {}
Wants(flags) == OnlyIf("dataIntensive" \in flags, DataReview)
                \cup OnlyIf("isService" \in flags, ServiceCheck)
                \cup OnlyIf("deploy" \in flags, RollbackPlan)
                \cup OnlyIf("public" \in flags, Documents) \cup {Validation}
WantSum(flags) == ((((IF "dataIntensive" \in flags THEN 4 ELSE 0)
                      + (IF "isService" \in flags THEN 4 ELSE 0))
                     + (IF "deploy" \in flags THEN 6 ELSE 0))
                    + (IF "public" \in flags THEN 5 ELSE 0)) + 3

LEMMA KindsWeighed ==
  /\ DataReview \in Weighed /\ ServiceCheck \in Weighed /\ RollbackPlan \in Weighed
  /\ Documents \in Weighed /\ Validation \in Weighed
BY DEF DataReview, ServiceCheck, RollbackPlan, Documents, Validation, Weighed, CriterionType

LEMMA RawAre ==
  ASSUME NEW flags
  PROVE  \E L : Listed(L, Wants(flags), WantSum(flags))
                /\ generateCompletionCriteria(flags) = normalizeWeights(L)
<1> DEFINE d == "dataIntensive" \in flags
           s == "isService" \in flags
           p == "deploy" \in flags
           u == "public" \in flags
           L1 == IF d THEN <<DataReview>> ELSE <<>>
           L2 == L1 \o (IF s THEN <<ServiceCheck>> ELSE <<>>)
           L3 == L2 \o (IF p THEN <<RollbackPlan>> ELSE <<>>)
           L4 == L3 \o (IF u THEN <<Documents>> ELSE <<>>)
           L5 == L4 \o <<Validation>>
           C1 == OnlyIf(d, DataReview)
           C2 == C1 \cup OnlyIf(s, ServiceCheck)
           C3 == C2 \cup OnlyIf(p, RollbackPlan)
           C4 == C3 \cup OnlyIf(u, Documents)
           S1 == IF d THEN 4 ELSE 0
           S2 == S1 + (IF s THEN 4 ELSE 0)
           S3 == S2 + (IF p THEN 6 ELSE 0)
           S4 == S3 + (IF u THEN 5 ELSE 0)
<1>1. generateCompletionCriteria(flags) = normalizeWeights(L5)
  BY Zenon DEF generateCompletionCriteria, Criterion, DataReview, ServiceCheck, RollbackPlan,
     Documents, Validation
<1>2. /\ S1 \in Nat /\ S2 \in Nat /\ S3 \in Nat /\ S4 \in Nat
      /\ d \in BOOLEAN /\ s \in BOOLEAN /\ p \in BOOLEAN /\ u \in BOOLEAN
  OBVIOUS
<1>3. /\ DataReview.weight = 4 /\ ServiceCheck.weight = 4 /\ RollbackPlan.weight = 6
      /\ Documents.weight = 5 /\ Validation.weight = 3
      /\ DataReview.type = "DATA_REVIEW" /\ ServiceCheck.type = "LOCAL_SERVICE_CHECK"
      /\ RollbackPlan.type = "ROLLBACK_PLAN" /\ Documents.type = "DOCUMENTATION"
      /\ Validation.type = "VALIDATION"
  BY DEF DataReview, ServiceCheck, RollbackPlan, Documents, Validation
<1>4. /\ \A x \in C1 : x = DataReview
      /\ \A x \in C2 : x \in {DataReview, ServiceCheck}
      /\ \A x \in C3 : x \in {DataReview, ServiceCheck, RollbackPlan}
      /\ \A x \in C4 : x \in {DataReview, ServiceCheck, RollbackPlan, Documents}
  BY DEF OnlyIf
<1> HIDE DEF d, s, p, u
<1>5. Listed(L1, C1, S1)
  <2>1. Listed(<<>>, {}, 0)
    BY NothingListed
  <2>2. Listed(<<>> \o (IF d THEN <<DataReview>> ELSE <<>>), {} \cup (IF d THEN {DataReview} ELSE {}),
               0 + (IF d THEN DataReview.weight ELSE 0))
    <3>1. \A x \in {} : x.type # DataReview.type
      OBVIOUS
    <3>2. 0 \in Nat
      OBVIOUS
    <3> QED
      BY <1>2, <2>1, <3>1, <3>2, KindsWeighed, PerhapsListed
  <2>3. <<>> \o (IF d THEN <<DataReview>> ELSE <<>>) = L1
    OBVIOUS
  <2>4. {} \cup (IF d THEN {DataReview} ELSE {}) = C1
    BY DEF OnlyIf
  <2>5. 0 + (IF d THEN DataReview.weight ELSE 0) = S1
    BY <1>3
  <2> QED
    BY <2>2, <2>3, <2>4, <2>5
<1> HIDE DEF L1, C1, S1
<1>6. Listed(L2, C2, S2)
  <2>1. \A x \in C1 : x.type # ServiceCheck.type
    BY <1>3, <1>4
  <2>2. Listed(L2, C1 \cup (IF s THEN {ServiceCheck} ELSE {}),
               S1 + (IF s THEN ServiceCheck.weight ELSE 0))
    BY <1>2, <1>5, <2>1, KindsWeighed, PerhapsListed
  <2>3. S1 + (IF s THEN ServiceCheck.weight ELSE 0) = S2
    BY <1>3
  <2> QED
    BY <2>2, <2>3 DEF OnlyIf
<1> HIDE DEF L2, C2, S2
<1>7. Listed(L3, C3, S3)
  <2>1. \A x \in C2 : x.type # RollbackPlan.type
    BY <1>3, <1>4
  <2>2. Listed(L3, C2 \cup (IF p THEN {RollbackPlan} ELSE {}),
               S2 + (IF p THEN RollbackPlan.weight ELSE 0))
    BY <1>2, <1>6, <2>1, KindsWeighed, PerhapsListed
  <2>3. S2 + (IF p THEN RollbackPlan.weight ELSE 0) = S3
    BY <1>3
  <2> QED
    BY <2>2, <2>3 DEF OnlyIf
<1> HIDE DEF L3, C3, S3
<1>8. Listed(L4, C4, S4)
  <2>1. \A x \in C3 : x.type # Documents.type
    BY <1>3, <1>4
  <2>2. Listed(L4, C3 \cup (IF u THEN {Documents} ELSE {}),
               S3 + (IF u THEN Documents.weight ELSE 0))
    BY <1>2, <1>7, <2>1, KindsWeighed, PerhapsListed
  <2>3. S3 + (IF u THEN Documents.weight ELSE 0) = S4
    BY <1>3
  <2> QED
    BY <2>2, <2>3 DEF OnlyIf
<1> HIDE DEF L4, C4, S4
<1>9. Listed(L5, C4 \cup {Validation}, S4 + Validation.weight)
  <2>1. \A x \in C4 : x.type # Validation.type
    BY <1>3, <1>4
  <2> QED
    BY <1>8, <2>1, KindsWeighed, OneListed
<1>10. C4 \cup {Validation} = Wants(flags)
  BY Zenon DEF Wants, C1, C2, C3, C4, d, s, p, u
<1>11. S4 + Validation.weight = WantSum(flags)
  <2>1. S4 + 3 = WantSum(flags)
    BY Zenon DEF WantSum, S1, S2, S3, S4, d, s, p, u
  <2> QED
    BY <1>3, <2>1
<1> QED
  BY <1>1, <1>9, <1>10, <1>11

\* The sum of what is asked for, and the weight of each kind against it.
LEMMA WantedAre ==
  ASSUME NEW flags
  PROVE  /\ WantSum(flags) \in 1..30
         /\ \A c \in Wants(flags) : c \in Weighed /\ c.weight >= 3 /\ c.weight <= 6
         /\ Validation \in Wants(flags)
         /\ \A c \in Wants(flags) : \/ c = Validation \/ (c = DataReview /\ "dataIntensive" \in flags)
                                    \/ (c = ServiceCheck /\ "isService" \in flags)
                                    \/ (c = RollbackPlan /\ "deploy" \in flags)
                                    \/ (c = Documents /\ "public" \in flags)
         /\ flags \cap {"dataIntensive", "isService"} # {} =>
              \A c \in Wants(flags) : 7 * c.weight <= 4 * WantSum(flags)
<1> DEFINE d == "dataIntensive" \in flags
           s == "isService" \in flags
           p == "deploy" \in flags
           u == "public" \in flags
           S == WantSum(flags)
<1>1. S = ((((IF d THEN 4 ELSE 0) + (IF s THEN 4 ELSE 0)) + (IF p THEN 6 ELSE 0))
           + (IF u THEN 5 ELSE 0)) + 3
  BY Zenon DEF WantSum
<1>2. \A c \in Wants(flags) : \/ c = Validation \/ (c = DataReview /\ d) \/ (c = ServiceCheck /\ s)
                              \/ (c = RollbackPlan /\ p) \/ (c = Documents /\ u)
  BY DEF Wants, OnlyIf
<1>3. flags \cap {"dataIntensive", "isService"} # {} => d \/ s
  OBVIOUS
<1>4. /\ DataReview.weight = 4 /\ ServiceCheck.weight = 4 /\ RollbackPlan.weight = 6
      /\ Documents.weight = 5 /\ Validation.weight = 3
  BY DEF DataReview, ServiceCheck, RollbackPlan, Documents, Validation
<1>5. Validation \in Wants(flags)
  BY DEF Wants
<1> HIDE DEF d, s, p, u, S
<1>6. S \in 1..30
  BY <1>1
<1>7. \A c \in Wants(flags) : c \in Weighed /\ c.weight >= 3 /\ c.weight <= 6
  BY <1>2, <1>4, KindsWeighed
<1>8. d \/ s => \A c \in Wants(flags) : 7 * c.weight <= 4 * S
  BY <1>1, <1>2, <1>4
<1> QED
  BY <1>2, <1>3, <1>5, <1>6, <1>7, <1>8 DEF d, s, p, u, S

\* A template of verification lists something, with weights of three and more.
LEMMA TemplatesListed ==
  ASSUME NEW f \in Flag
  PROVE  \E C, sum : /\ Listed(VERIFICATION_TEMPLATES[f], C, sum) /\ sum \in 1..30
                     /\ \A c \in C : c.weight >= 3
<1>1. ASSUME NEW a \in CriterionType, NEW v \in Nat, v >= 3, v <= 10
      PROVE  Listed(<<Criterion(a, v)>>, {Criterion(a, v)}, v)
  <2> DEFINE c == Criterion(a, v)
  <2>1. c \in Weighed /\ c.weight = v
    BY DEF Criterion, Weighed
  <2> HIDE DEF c
  <2>2. Listed(<<>>, {}, 0) /\ \A x \in {} : x.type # c.type
    BY NothingListed
  <2>3. Listed(<<>> \o <<c>>, {} \cup {c}, 0 + c.weight)
    BY <2>1, <2>2, OneListed
  <2>4. <<>> \o <<c>> = <<c>> /\ {} \cup {c} = {c} /\ 0 + c.weight = v
    BY <2>1
  <2>5. Listed(<<c>>, {c}, v)
    BY <2>3, <2>4
  <2> QED
    BY <2>5 DEF c
<1>2. ASSUME NEW a \in CriterionType, NEW v \in Nat, v >= 3, v <= 10
      PROVE  \E C, sum : /\ Listed(<<Criterion(a, v)>>, C, sum) /\ sum \in 1..30
                         /\ \A c \in C : c.weight >= 3
  <2>1. Listed(<<Criterion(a, v)>>, {Criterion(a, v)}, v)
    BY <1>1, <1>2
  <2>2. v \in 1..30 /\ \A c \in {Criterion(a, v)} : c.weight >= 3
    BY <1>2 DEF Criterion
  <2> QED
    BY <2>1, <2>2
<1>3. ASSUME NEW a \in CriterionType, NEW v \in Nat, v >= 3, v <= 10,
             NEW b \in CriterionType, NEW u \in Nat, u >= 3, u <= 10, a # b
      PROVE  \E C, sum : /\ Listed(<<Criterion(a, v), Criterion(b, u)>>, C, sum) /\ sum \in 1..30
                         /\ \A c \in C : c.weight >= 3
  <2> DEFINE c == Criterion(a, v)
             e == Criterion(b, u)
  <2>1. Listed(<<c>>, {c}, v)
    BY <1>1, <1>3
  <2>2. /\ e \in Weighed /\ e.weight = u /\ c.type # e.type /\ c.weight = v
    BY <1>3 DEF Criterion, Weighed
  <2> HIDE DEF c, e
  <2>3. \A x \in {c} : x.type # e.type
    BY <2>2
  <2>4. Listed(<<c>> \o <<e>>, {c} \cup {e}, v + e.weight)
    BY <2>1, <2>2, <2>3, OneListed
  <2>5. <<c>> \o <<e>> = <<c, e>>
    <3>1. Append(<<c>>, e) = <<c, e>>
      <4> DEFINE x == Append(<<c>>, e)
                 y == <<c, e>>
      <4>1. /\ x \in Seq({c, e}) /\ Len(x) = 2 /\ x[1] = c /\ x[2] = e
        OBVIOUS
      <4>2. /\ y \in Seq({c, e}) /\ Len(y) = 2 /\ y[1] = c /\ y[2] = e
        OBVIOUS
      <4> HIDE DEF x, y
      <4>3. x \in [1..2 -> {c, e}] /\ y \in [1..2 -> {c, e}]
        BY <4>1, <4>2
      <4>4. x = y
        BY <4>1, <4>2, <4>3
      <4> QED
        BY <4>4 DEF x, y
    <3>2. <<c>> \o <<e>> = Append(<<c>>, e)
      <4> DEFINE q == <<c>>
      <4>1. q \in Seq({c, e})
        OBVIOUS
      <4> HIDE DEF q
      <4>2. q \o <<e>> = Append(q, e)
        BY <4>1
      <4> QED
        BY <4>2 DEF q
    <3> QED
      BY <3>1, <3>2
  <2>6. v + e.weight \in 1..30 /\ \A x \in {c} \cup {e} : x.weight >= 3
    BY <1>3, <2>2
  <2>7. \E C, sum : /\ Listed(<<c, e>>, C, sum) /\ sum \in 1..30
                    /\ \A x \in C : x.weight >= 3
    BY <2>4, <2>5, <2>6
  <2> QED
    BY <2>7 DEF c, e
<1> DEFINE Fine(L) == \E C, sum : /\ Listed(L, C, sum) /\ sum \in 1..30
                                  /\ \A c \in C : c.weight >= 3
<1>4. /\ "VALIDATION" \in CriterionType /\ "LOCAL_SERVICE_CHECK" \in CriterionType
      /\ "DATA_REVIEW" \in CriterionType /\ "MONITORING" \in CriterionType
      /\ "ROLLBACK_PLAN" \in CriterionType /\ "DOCUMENTATION" \in CriterionType
      /\ "VALIDATION" # "LOCAL_SERVICE_CHECK" /\ "DATA_REVIEW" # "VALIDATION"
      /\ "MONITORING" # "LOCAL_SERVICE_CHECK"
  BY DEF CriterionType
<1>5. /\ 3 \in Nat /\ 4 \in Nat /\ 5 \in Nat /\ 6 \in Nat /\ 3 >= 3 /\ 4 >= 3 /\ 5 >= 3 /\ 6 >= 3
      /\ 3 <= 10 /\ 4 <= 10 /\ 5 <= 10 /\ 6 <= 10
  OBVIOUS
<1>6. Fine(<<Criterion("VALIDATION", 5), Criterion("LOCAL_SERVICE_CHECK", 3)>>)
  BY <1>3, <1>4, <1>5
<1>7. Fine(<<Criterion("DATA_REVIEW", 4), Criterion("VALIDATION", 4)>>)
  BY <1>3, <1>4, <1>5
<1>8. Fine(<<Criterion("MONITORING", 5), Criterion("LOCAL_SERVICE_CHECK", 3)>>)
  BY <1>3, <1>4, <1>5
<1>9. Fine(<<Criterion("ROLLBACK_PLAN", 6)>>) /\ Fine(<<Criterion("DOCUMENTATION", 5)>>)
  BY <1>2, <1>4, <1>5
<1> HIDE DEF Fine
<1>10. CASE f = "requiresVerification"
  <2>1. VERIFICATION_TEMPLATES[f] = <<Criterion("VALIDATION", 5), Criterion("LOCAL_SERVICE_CHECK", 3)>>
    BY <1>10 DEF VERIFICATION_TEMPLATES
  <2> QED
    BY <1>6, <2>1 DEF Fine
<1>11. CASE f = "dataIntensive"
  <2>1. VERIFICATION_TEMPLATES[f] = <<Criterion("DATA_REVIEW", 4), Criterion("VALIDATION", 4)>>
    BY <1>11 DEF VERIFICATION_TEMPLATES
  <2> QED
    BY <1>7, <2>1 DEF Fine
<1>12. CASE f = "isService"
  <2>1. VERIFICATION_TEMPLATES[f] = <<Criterion("MONITORING", 5), Criterion("LOCAL_SERVICE_CHECK", 3)>>
    BY <1>12 DEF VERIFICATION_TEMPLATES
  <2> QED
    BY <1>8, <2>1 DEF Fine
<1>13. CASE f = "deploy"
  <2>1. VERIFICATION_TEMPLATES[f] = <<Criterion("ROLLBACK_PLAN", 6)>>
    BY <1>13 DEF VERIFICATION_TEMPLATES
  <2> QED
    BY <1>9, <2>1 DEF Fine
<1>14. CASE f = "public"
  <2>1. VERIFICATION_TEMPLATES[f] = <<Criterion("DOCUMENTATION", 5)>>
    BY <1>14 DEF VERIFICATION_TEMPLATES
  <2> QED
    BY <1>9, <2>1 DEF Fine
<1> QED
  BY <1>10, <1>11, <1>12, <1>13, <1>14 DEF Flag

\* The suffix of what is planned.
Own == ""
InferredId == [base: PlannedTask, suffix: {Own} \cup Range(Suffix), flags: SUBSET Flag]

LEMMA SuffixesAre ==
  /\ DOMAIN Suffix = Flag /\ Range(Suffix) = {Suffix[f] : f \in Flag}
  /\ \A f \in Flag : Suffix[f] # Own
<1>1. DOMAIN Suffix = Flag
  BY DEF Suffix
<1>2. Range(Suffix) = {Suffix[f] : f \in Flag}
  BY <1>1 DEF Range
<1>3. ASSUME NEW f \in Flag
      PROVE  Suffix[f] \in {"-verify", "-review", "-monitor", "-rollback", "-docs"}
  BY DEF Suffix, Flag
<1>4. Own \notin {"-verify", "-review", "-monitor", "-rollback", "-docs"}
  BY Zenon DEF Own
<1> QED
  BY <1>1, <1>2, <1>3, <1>4

LEMMA CriteriaOfIs ==
  ASSUME NEW t
  PROVE  CriteriaOf(t) = IF t.suffix = Own THEN generateCompletionCriteria(t.flags)
                         ELSE normalizeWeights(VERIFICATION_TEMPLATES[CHOOSE f \in Flag : Suffix[f] = t.suffix])
BY Zenon DEF CriteriaOf, Own

LEMMA SharedOut ==
  ASSUME NEW L, NEW C, NEW sum \in 1..30, Listed(L, C, sum), \A c \in C : c.weight >= 3,
         NEW r, r = normalizeWeights(L)
  PROVE  /\ r \in Seq(Weighed) /\ Total(r) = SCALE
         /\ \A k \in DOMAIN r : r[k].weight > 0
BY SharesOf

\* Whatever a task is to meet, its weights are the whole scale and none is nothing.
LEMMA CriteriaAre ==
  ASSUME NEW t \in InferredId
  PROVE  /\ CriteriaOf(t) \in Seq(Weighed) /\ Total(CriteriaOf(t)) = SCALE
         /\ \A k \in DOMAIN CriteriaOf(t) : CriteriaOf(t)[k].weight > 0
<1>1. ASSUME NEW L, NEW C, NEW sum, Listed(L, C, sum), sum \in 1..30, \A c \in C : c.weight >= 3,
             CriteriaOf(t) = normalizeWeights(L)
      PROVE  /\ CriteriaOf(t) \in Seq(Weighed) /\ Total(CriteriaOf(t)) = SCALE
             /\ \A k \in DOMAIN CriteriaOf(t) : CriteriaOf(t)[k].weight > 0
  <2>1. Listed(L, C, sum) /\ sum \in 1..30
    BY <1>1
  <2>2. \A c \in C : c.weight >= 3
    BY <1>1
  <2>3. CriteriaOf(t) = normalizeWeights(L)
    BY <1>1
  <2> QED
    BY <2>1, <2>2, <2>3, SharedOut
<1>2. CASE t.suffix = Own
  <2>1. CriteriaOf(t) = generateCompletionCriteria(t.flags)
    BY <1>2, CriteriaOfIs
  <2>2. PICK L : Listed(L, Wants(t.flags), WantSum(t.flags))
                 /\ generateCompletionCriteria(t.flags) = normalizeWeights(L)
    BY RawAre
  <2>3. WantSum(t.flags) \in 1..30 /\ \A c \in Wants(t.flags) : c.weight >= 3
    BY WantedAre
  <2> QED
    BY <1>1, <2>1, <2>2, <2>3
<1>3. CASE t.suffix # Own
  <2>1. \E f \in Flag : Suffix[f] = t.suffix
    <3>1. t.suffix \in Range(Suffix)
      BY <1>3 DEF InferredId
    <3> QED
      BY <3>1, SuffixesAre
  <2>2. PICK f \in Flag : f = CHOOSE g \in Flag : Suffix[g] = t.suffix
    BY <2>1
  <2>3. CriteriaOf(t) = normalizeWeights(VERIFICATION_TEMPLATES[f])
    BY <1>3, <2>2, CriteriaOfIs
  <2>4. PICK C, sum : /\ Listed(VERIFICATION_TEMPLATES[f], C, sum) /\ sum \in 1..30
                      /\ \A c \in C : c.weight >= 3
    BY TemplatesListed
  <2> QED
    BY <1>1, <2>3, <2>4
<1> QED
  BY <1>2, <1>3

\* The types of what a planned task is to meet, each of one criterion.
LEMMA PlannedCriteria ==
  ASSUME NEW flags, NEW r, r = generateCompletionCriteria(flags)
  PROVE  /\ r \in Seq(Weighed)
         /\ \A j, k \in DOMAIN r : r[j].type = r[k].type => j = k
         /\ \E k \in DOMAIN r : r[k].type = "VALIDATION"
         /\ \A k \in DOMAIN r : \/ r[k].type = "VALIDATION"
                                \/ (r[k].type = "DATA_REVIEW" /\ "dataIntensive" \in flags)
                                \/ (r[k].type = "LOCAL_SERVICE_CHECK" /\ "isService" \in flags)
                                \/ (r[k].type = "ROLLBACK_PLAN" /\ "deploy" \in flags)
                                \/ (r[k].type = "DOCUMENTATION" /\ "public" \in flags)
         /\ flags \cap {"dataIntensive", "isService"} # {} =>
              \A k \in DOMAIN r : r[k].weight < minCompletionWeight
<1>1. PICK L : Listed(L, Wants(flags), WantSum(flags))
               /\ generateCompletionCriteria(flags) = normalizeWeights(L)
  BY RawAre
<1> DEFINE S == WantSum(flags)
           C == Wants(flags)
<1>2. /\ S \in 1..30
      /\ \A c \in C : c \in Weighed /\ c.weight >= 3 /\ c.weight <= 6
      /\ Validation \in C
      /\ \A c \in C : \/ c = Validation \/ (c = DataReview /\ "dataIntensive" \in flags)
                      \/ (c = ServiceCheck /\ "isService" \in flags)
                      \/ (c = RollbackPlan /\ "deploy" \in flags)
                      \/ (c = Documents /\ "public" \in flags)
      /\ flags \cap {"dataIntensive", "isService"} # {} =>
           \A c \in C : 7 * c.weight <= 4 * S
  BY WantedAre
<1> HIDE DEF S, C
<1>3. Listed(L, C, S) /\ r = normalizeWeights(L)
  BY <1>1 DEF S, C
<1>4. /\ \A k \in DOMAIN L : L[k] \in C
      /\ \A c \in C : \E k \in DOMAIN L : L[k] = c
      /\ \A j, k \in DOMAIN L : L[j].type = L[k].type => j = k
  BY <1>3 DEF Listed
<1>5. /\ r \in Seq(Weighed) /\ DOMAIN r = DOMAIN L /\ Total(r) = SCALE
      /\ \A k \in DOMAIN r :
            /\ r[k].type = L[k].type /\ r[k].weight > 0
            /\ \E share \in Nat : /\ S * share <= L[k].weight * SCALE
                                  /\ r[k].weight \in {share, share + 1}
  <2>1. \A c \in C : c.weight >= 3
    BY <1>2
  <2> QED
    BY <1>2, <1>3, <2>1, SharesOf
<1>6. /\ DataReview.type = "DATA_REVIEW" /\ ServiceCheck.type = "LOCAL_SERVICE_CHECK"
      /\ RollbackPlan.type = "ROLLBACK_PLAN" /\ Documents.type = "DOCUMENTATION"
      /\ Validation.type = "VALIDATION"
  BY DEF DataReview, ServiceCheck, RollbackPlan, Documents, Validation
<1>7. \A j, k \in DOMAIN r : r[j].type = r[k].type => j = k
  BY <1>4, <1>5
<1>8. \E k \in DOMAIN r : r[k].type = "VALIDATION"
  BY <1>2, <1>4, <1>5, <1>6
<1>9. ASSUME NEW k \in DOMAIN r
      PROVE  \/ r[k].type = "VALIDATION"
             \/ (r[k].type = "DATA_REVIEW" /\ "dataIntensive" \in flags)
             \/ (r[k].type = "LOCAL_SERVICE_CHECK" /\ "isService" \in flags)
             \/ (r[k].type = "ROLLBACK_PLAN" /\ "deploy" \in flags)
             \/ (r[k].type = "DOCUMENTATION" /\ "public" \in flags)
  <2>1. L[k] \in C /\ r[k].type = L[k].type
    BY <1>4, <1>5
  <2> QED
    BY <1>2, <1>6, <2>1
<1>10. ASSUME flags \cap {"dataIntensive", "isService"} # {}, NEW k \in DOMAIN r
       PROVE  r[k].weight < minCompletionWeight
  <2>1. L[k] \in C
    BY <1>4, <1>5
  <2>2. /\ L[k] \in Weighed /\ L[k].weight >= 3 /\ L[k].weight <= 6 /\ 7 * L[k].weight <= 4 * S
    BY <1>2, <1>10, <2>1
  <2>3. PICK share \in Nat : /\ S * share <= L[k].weight * SCALE
                             /\ r[k].weight \in {share, share + 1}
    BY <1>5
  <2> DEFINE x == L[k].weight
  <2>4. x \in Nat /\ 7 * x <= 4 * S /\ S * share <= x * 10000 /\ S \in Nat \ {0}
    BY <1>2, <2>2, <2>3 DEF SCALE, Weighed
  <2> HIDE DEF x
  <2>5. S * share \in Nat
    BY <2>4, Spread
  <2>6. 7 * (S * share) <= 40000 * S
    BY <2>4, <2>5
  <2>7. ASSUME share >= 5998 PROVE FALSE
    <3>1. S * 5998 <= S * share
      BY <2>4, <2>7, Grows
    <3> QED
      BY <2>4, <2>5, <2>6, <3>1
  <2> QED
    BY <2>3, <2>7 DEF minCompletionWeight
<1> QED
  BY <1>5, <1>7, <1>8, <1>9, <1>10

-----------------------------------------------------------------------------
(* Inference: what passed is of a planned task and among its criteria.      *)

InferenceSuffixes == {Own} \cup Range(Suffix)
Ids == PlannedTask \X InferenceSuffixes
TypesOf(t) == {CriteriaOf(t)[k].type : k \in DOMAIN CriteriaOf(t)}

PassedIsPlanned ==
  \A b \in PlannedTask, s \in InferenceSuffixes :
    passed[<<b, s>>] # {} => \E t \in planned : t.base = b /\ t.suffix = s

InferenceInv ==
  /\ planned \subseteq InferredId
  /\ \A t \in planned : t.suffix # Own => t.flags = {}
  /\ \A t, u \in planned : t.base = u.base /\ t.suffix = u.suffix => t = u
  /\ passed \in [Ids -> SUBSET CriterionType]
  /\ \A t \in planned : passed[<<t.base, t.suffix>>] \subseteq TypesOf(t)
  /\ PassedIsPlanned

LEMMA InferenceStarts == InferenceInit => InferenceInv
<1> SUFFICES ASSUME InferenceInit PROVE InferenceInv
  OBVIOUS
<1>1. planned = {} /\ passed = [id \in Ids |-> {}]
  BY Zenon DEF InferenceInit, Ids, InferenceSuffixes, Own
<1>2. \A b \in PlannedTask, s \in InferenceSuffixes : <<b, s>> \in Ids
  BY DEF Ids
<1> QED
  BY <1>1, <1>2 DEF InferenceInv, PassedIsPlanned

LEMMA InferredAre ==
  ASSUME NEW list, NEW x
  PROVE  x \in Inferred(list) <=>
           \E t \in list : \E f \in t.flags :
             /\ t.suffix = Own /\ ~\E u \in list : u.base = t.base /\ u.suffix = Suffix[f]
             /\ x = [base |-> t.base, suffix |-> Suffix[f], flags |-> {}]
<1>1. Inferred(list) =
        UNION {{[base |-> t.base, suffix |-> Suffix[f], flags |-> {}] :
                  f \in {g \in t.flags : ~\E u \in list : u.base = t.base /\ u.suffix = Suffix[g]}} :
               t \in {u \in list : u.suffix = Own}}
  BY Zenon DEF Inferred, Own
<1> QED
  BY <1>1

\* What follows is new, one for each flag of one that was planned.
LEMMA InferredTasks ==
  ASSUME InferenceInv, NEW x \in Inferred(planned)
  PROVE  /\ x \in InferredId /\ x.flags = {} /\ x.suffix # Own
         /\ \A u \in planned : ~(u.base = x.base /\ u.suffix = x.suffix)
<1>1. PICK t \in planned : \E f \in t.flags :
             /\ t.suffix = Own /\ ~\E u \in planned : u.base = t.base /\ u.suffix = Suffix[f]
             /\ x = [base |-> t.base, suffix |-> Suffix[f], flags |-> {}]
  BY InferredAre
<1>2. PICK f \in t.flags :
             /\ t.suffix = Own /\ ~\E u \in planned : u.base = t.base /\ u.suffix = Suffix[f]
             /\ x = [base |-> t.base, suffix |-> Suffix[f], flags |-> {}]
  BY <1>1
<1>3. t \in InferredId
  BY DEF InferenceInv
<1>4. f \in Flag /\ t.base \in PlannedTask
  BY <1>3 DEF InferredId
<1>5. Suffix[f] \in Range(Suffix) /\ Suffix[f] # Own
  BY <1>4, SuffixesAre
<1> QED
  BY <1>2, <1>4, <1>5 DEF InferredId

LEMMA PlanTaskIs ==
  ASSUME NEW b, NEW flags, PlanTask(b, flags)
  PROVE  /\ ~\E t \in planned : t.base = b /\ t.suffix = Own
         /\ planned' = planned \cup {[base |-> b, suffix |-> Own, flags |-> flags]}
         /\ passed' = passed
BY Zenon DEF PlanTask, Own

LEMMA NewlyPlanned ==
  ASSUME InferenceInv, NEW new \in SUBSET InferredId, planned' = planned \cup new,
         passed' = passed,
         \A x \in new : /\ x.suffix # Own => x.flags = {}
                        /\ \A u \in planned : ~(u.base = x.base /\ u.suffix = x.suffix),
         \A x, y \in new : x.base = y.base /\ x.suffix = y.suffix => x = y
  PROVE  InferenceInv'
<1>1. planned' \subseteq InferredId
  BY DEF InferenceInv
<1>2. \A t \in planned' : t.suffix # Own => t.flags = {}
  BY DEF InferenceInv
<1>3. \A t, u \in planned' : t.base = u.base /\ t.suffix = u.suffix => t = u
  BY DEF InferenceInv
<1>4. \A t \in planned' : passed[<<t.base, t.suffix>>] \subseteq TypesOf(t)
  <2> TAKE t \in planned'
  <2>1. CASE t \in planned
    BY <2>1 DEF InferenceInv
  <2>2. CASE t \in new
    <3>1. t.base \in PlannedTask /\ t.suffix \in InferenceSuffixes
      BY <2>2 DEF InferredId, InferenceSuffixes
    <3>2. PassedIsPlanned
      BY DEF InferenceInv
    <3>3. passed[<<t.base, t.suffix>>] = {}
      BY <2>2, <3>1, <3>2 DEF PassedIsPlanned
    <3> QED
      BY <3>3
  <2> QED
    BY <2>1, <2>2
<1>5. PassedIsPlanned'
  <2>1. PassedIsPlanned /\ \A t \in planned : t \in planned'
    BY DEF InferenceInv
  <2> QED
    BY <2>1 DEF PassedIsPlanned
<1>6. passed \in [Ids -> SUBSET CriterionType]
  BY DEF InferenceInv
<1> QED
  BY <1>1, <1>2, <1>3, <1>4, <1>5, <1>6 DEF InferenceInv

LEMMA InferenceKeeps == InferenceInv /\ [InferenceNext]_inferenceVars => InferenceInv'
<1> SUFFICES ASSUME InferenceInv, [InferenceNext]_inferenceVars PROVE InferenceInv'
  OBVIOUS
<1>1. ASSUME NEW b \in PlannedTask, NEW flags \in SUBSET Flag, PlanTask(b, flags)
      PROVE  InferenceInv'
  <2> DEFINE x == [base |-> b, suffix |-> Own, flags |-> flags]
  <2>1. /\ ~\E t \in planned : t.base = b /\ t.suffix = Own
        /\ planned' = planned \cup {x} /\ passed' = passed
    BY <1>1, PlanTaskIs
  <2>2. x \in InferredId /\ x.base = b /\ x.suffix = Own
    BY DEF InferredId
  <2> HIDE DEF x
  <2>3. \A y \in {x} : /\ y.suffix # Own => y.flags = {}
                       /\ \A u \in planned : ~(u.base = y.base /\ u.suffix = y.suffix)
    BY <2>1, <2>2
  <2>4. \A y, z \in {x} : y.base = z.base /\ y.suffix = z.suffix => y = z
    OBVIOUS
  <2>5. {x} \in SUBSET InferredId
    BY <2>2
  <2> QED
    BY <2>1, <2>3, <2>4, <2>5, NewlyPlanned
<1>2. CASE inferNextTasks
  <2> DEFINE new == Inferred(planned)
  <2>1. planned' = planned \cup new /\ passed' = passed
    BY <1>2 DEF inferNextTasks
  <2>2. \A x \in new : /\ x \in InferredId /\ x.flags = {} /\ x.suffix # Own
                       /\ \A u \in planned : ~(u.base = x.base /\ u.suffix = x.suffix)
    BY InferredTasks
  <2> HIDE DEF new
  <2>3. \A x, y \in new : x.base = y.base /\ x.suffix = y.suffix => x = y
    BY <2>2 DEF InferredId
  <2>4. \A x \in new : /\ x.suffix # Own => x.flags = {}
                       /\ \A u \in planned : ~(u.base = x.base /\ u.suffix = x.suffix)
    BY <2>2
  <2>5. new \in SUBSET InferredId
    BY <2>2
  <2> QED
    BY <2>1, <2>3, <2>4, <2>5, NewlyPlanned
<1>3. ASSUME NEW t \in planned, NEW c \in Range(CriteriaOf(t)), PassCriterion(t, c)
      PROVE  InferenceInv'
  <2>1. /\ planned' = planned
        /\ passed' = [passed EXCEPT ![<<t.base, t.suffix>>] = @ \cup {c.type}]
    BY <1>3 DEF PassCriterion
  <2>2. t \in InferredId /\ <<t.base, t.suffix>> \in Ids
    BY DEF InferenceInv, InferredId, Ids, InferenceSuffixes
  <2>3. PICK k \in DOMAIN CriteriaOf(t) : c = CriteriaOf(t)[k]
    BY DEF Range
  <2>4. c.type \in TypesOf(t)
    BY <2>3 DEF TypesOf
  <2>5. c.type \in CriterionType
    <3> DEFINE r == CriteriaOf(t)
    <3>1. r \in Seq(Weighed)
      BY <2>2, CriteriaAre
    <3>2. k \in DOMAIN r /\ c = r[k]
      BY <2>3
    <3> HIDE DEF r
    <3>3. c \in Weighed
      BY <3>1, <3>2
    <3> QED
      BY <3>3 DEF Weighed
  <2>6. passed \in [Ids -> SUBSET CriterionType]
    BY DEF InferenceInv
  <2>7. passed' \in [Ids -> SUBSET CriterionType]
    BY <2>1, <2>2, <2>5, <2>6
  <2>8. /\ passed'[<<t.base, t.suffix>>] = passed[<<t.base, t.suffix>>] \cup {c.type}
        /\ \A id \in Ids : id # <<t.base, t.suffix>> => passed'[id] = passed[id]
    BY <2>1, <2>2, <2>6
  <2>9. \A u \in planned : <<u.base, u.suffix>> \in Ids
    BY DEF InferenceInv, InferredId, Ids, InferenceSuffixes
  <2>10. \A u \in planned : passed'[<<u.base, u.suffix>>] \subseteq TypesOf(u)
    <3> TAKE u \in planned
    <3>1. CASE u = t
      BY <2>4, <2>8, <3>1 DEF InferenceInv
    <3>2. CASE u # t
      <4>1. ~(u.base = t.base /\ u.suffix = t.suffix)
        BY <3>2 DEF InferenceInv
      <4>2. <<u.base, u.suffix>> # <<t.base, t.suffix>>
        BY <4>1
      <4> QED
        BY <2>8, <2>9, <4>2 DEF InferenceInv
    <3> QED
      BY <3>1, <3>2
  <2>11. PassedIsPlanned'
    <3> SUFFICES ASSUME NEW b \in PlannedTask, NEW s \in InferenceSuffixes, passed'[<<b, s>>] # {}
                 PROVE  \E u \in planned' : u.base = b /\ u.suffix = s
      BY DEF PassedIsPlanned
    <3>1. <<b, s>> \in Ids
      BY DEF Ids
    <3>2. CASE <<b, s>> = <<t.base, t.suffix>>
      BY <2>1, <3>2
    <3>3. CASE <<b, s>> # <<t.base, t.suffix>>
      <4>1. passed[<<b, s>>] # {}
        BY <2>8, <3>1, <3>3
      <4>2. PassedIsPlanned
        BY DEF InferenceInv
      <4> QED
        BY <2>1, <4>1, <4>2 DEF PassedIsPlanned
    <3> QED
      BY <3>2, <3>3
  <2>12. /\ planned' \subseteq InferredId
         /\ \A u \in planned' : u.suffix # Own => u.flags = {}
         /\ \A u, v \in planned' : u.base = v.base /\ u.suffix = v.suffix => u = v
         /\ \A u \in planned' : passed'[<<u.base, u.suffix>>] \subseteq TypesOf(u)
    <3>1. /\ planned \subseteq InferredId
          /\ \A u \in planned : u.suffix # Own => u.flags = {}
          /\ \A u, v \in planned : u.base = v.base /\ u.suffix = v.suffix => u = v
      BY DEF InferenceInv
    <3> QED
      BY <2>1, <2>10, <3>1, Zenon
  <2> QED
    BY <2>7, <2>11, <2>12 DEF InferenceInv
<1>4. CASE UNCHANGED inferenceVars
  <2>1. planned' = planned /\ passed' = passed
    BY <1>4 DEF inferenceVars
  <2> QED
    BY <2>1, ZenonT(60) DEF InferenceInv, PassedIsPlanned
<1> QED
  BY <1>1, <1>2, <1>3, <1>4, Zenon DEF InferenceNext

\* One criterion alone is not enough where data or a service is at stake.
LEMMA OneIsNotEnough ==
  ASSUME NEW flags, flags \cap {"dataIntensive", "isService"} # {},
         NEW done, \A x, y \in done : x = y
  PROVE  ~evaluateCompletion(generateCompletionCriteria(flags), done)
<1> DEFINE r == generateCompletionCriteria(flags)
           places == {k \in DOMAIN r : r[k].type \in done}
<1>1. /\ r \in Seq(Weighed)
      /\ \A j, k \in DOMAIN r : r[j].type = r[k].type => j = k
      /\ \A k \in DOMAIN r : r[k].weight < minCompletionWeight
  BY PlannedCriteria
<1>2. evaluateCompletion(r, done) <=> Weight(r, places) >= minCompletionWeight
  BY Zenon DEF evaluateCompletion
<1> HIDE DEF r
<1>3. \A j, k \in places : j = k
  BY <1>1
<1>4. CASE places = {}
  <2>1. Weight(r, places) = 0
    BY <1>1, <1>4, NoWeight
  <2> QED
    BY <1>2, <2>1 DEF r, minCompletionWeight
<1>5. CASE places # {}
  <2>1. PICK k \in places : TRUE
    BY <1>5
  <2>2. places = {k} /\ k \in DOMAIN r
    BY <1>3, <2>1
  <2> HIDE DEF places
  <2>3. Weight(r, places) = r[k].weight
    BY <1>1, <2>2, WeightOfOne
  <2>4. r[k].weight \in Nat /\ r[k].weight < 6000
    <3>1. r[k] \in Weighed /\ r[k].weight < minCompletionWeight
      BY <1>1, <2>2
    <3> QED
      BY <3>1 DEF Weighed, minCompletionWeight
  <2>5. ~(Weight(r, places) >= minCompletionWeight)
    BY <2>3, <2>4 DEF minCompletionWeight
  <2> QED
    BY <1>2, <2>5 DEF r
<1> QED
  BY <1>4, <1>5

\* Who may be claimed complete without a validation, or with one criterion.
RightlyDone(flags, types, done) ==
  /\ \/ "VALIDATION" \in done \/ types \ done = {"VALIDATION"}
     \/ flags \cap {"deploy", "public"} # {}
  /\ Cardinality(done) = 1 => flags \cap {"dataIntensive", "isService"} = {}

LEMMA CompletedIs ==
  ASSUME NEW flags, NEW r, r = generateCompletionCriteria(flags),
         NEW types, types = {r[k].type : k \in DOMAIN r},
         NEW done \in SUBSET types, evaluateCompletion(r, done)
  PROVE  RightlyDone(flags, types, done)
<1>1. /\ \E k \in DOMAIN r : r[k].type = "VALIDATION"
      /\ \A k \in DOMAIN r : \/ r[k].type = "VALIDATION"
                             \/ (r[k].type = "DATA_REVIEW" /\ "dataIntensive" \in flags)
                             \/ (r[k].type = "LOCAL_SERVICE_CHECK" /\ "isService" \in flags)
                             \/ (r[k].type = "ROLLBACK_PLAN" /\ "deploy" \in flags)
                             \/ (r[k].type = "DOCUMENTATION" /\ "public" \in flags)
  BY PlannedCriteria
<1>2. /\ "VALIDATION" \in types
      /\ \A x \in types : \/ x = "VALIDATION"
                          \/ (x = "DATA_REVIEW" /\ "dataIntensive" \in flags)
                          \/ (x = "LOCAL_SERVICE_CHECK" /\ "isService" \in flags)
                          \/ (x = "ROLLBACK_PLAN" /\ "deploy" \in flags)
                          \/ (x = "DOCUMENTATION" /\ "public" \in flags)
  BY <1>1
<1>3. ASSUME flags \cap {"dataIntensive", "isService"} # {}, \A x, y \in done : x = y
      PROVE  FALSE
  BY <1>3, OneIsNotEnough
<1>4. ASSUME "VALIDATION" \notin done, types \ done # {"VALIDATION"},
             flags \cap {"deploy", "public"} = {}
      PROVE  FALSE
  <2>1. PICK x \in types \ done : x # "VALIDATION"
    BY <1>2, <1>4
  <2>2. "deploy" \notin flags /\ "public" \notin flags
    BY <1>4
  <2>3. \A y \in types : y \in {"VALIDATION", "DATA_REVIEW", "LOCAL_SERVICE_CHECK"}
    BY <1>2, <2>2
  <2>4. \A y, z \in done : y = z
    BY <1>4, <2>1, <2>3
  <2>5. flags \cap {"dataIntensive", "isService"} # {}
    BY <1>2, <2>1, <2>2
  <2> QED
    BY <1>3, <2>4, <2>5
<1>5. ASSUME Cardinality(done) = 1, flags \cap {"dataIntensive", "isService"} # {}
      PROVE  FALSE
  <2>1. IsFiniteSet(done)
    <3>1. done \in SUBSET {"VALIDATION", "DATA_REVIEW", "LOCAL_SERVICE_CHECK", "ROLLBACK_PLAN",
                           "DOCUMENTATION"}
      BY <1>2
    <3>2. IsFiniteSet({"VALIDATION", "DATA_REVIEW", "LOCAL_SERVICE_CHECK", "ROLLBACK_PLAN",
                       "DOCUMENTATION"})
      <4> DEFINE A == {"VALIDATION"} \cup {"DATA_REVIEW"}
                 B == A \cup {"LOCAL_SERVICE_CHECK"}
                 C == B \cup {"ROLLBACK_PLAN"}
                 D == C \cup {"DOCUMENTATION"}
      <4>1. IsFiniteSet(A)
        BY FS_Singleton, FS_Union
      <4>2. IsFiniteSet(B)
        <5> HIDE DEF A
        <5> QED
          BY <4>1, FS_Singleton, FS_Union
      <4>3. IsFiniteSet(C)
        <5> HIDE DEF B
        <5> QED
          BY <4>2, FS_Singleton, FS_Union
      <4>4. IsFiniteSet(D)
        <5> HIDE DEF C
        <5> QED
          BY <4>3, FS_Singleton, FS_Union
      <4>5. D = {"VALIDATION", "DATA_REVIEW", "LOCAL_SERVICE_CHECK", "ROLLBACK_PLAN", "DOCUMENTATION"}
        OBVIOUS
      <4> HIDE DEF D
      <4> QED
        BY <4>4, <4>5
    <3> QED
      BY <3>1, <3>2, FS_Subset
  <2>2. PICK x : done = {x}
    BY <1>5, <2>1, FS_Singleton
  <2> QED
    BY <1>3, <1>5, <2>2
<1> QED
  BY <1>4, <1>5 DEF RightlyDone

LEMMA InferenceTyped == InferenceInv => InferenceTypeOK
<1> SUFFICES ASSUME InferenceInv PROVE InferenceTypeOK
  OBVIOUS
<1>1. ASSUME NEW t \in planned
      PROVE  LET criteria == CriteriaOf(t)
                 done == passed[<<t.base, t.suffix>>]
                 types == {c.type : c \in Range(criteria)}
             IN  /\ Total(criteria) = SCALE /\ \A c \in Range(criteria) : c.weight > 0
                 /\ done \subseteq types
                 /\ evaluateCompletion(criteria, done) /\ t.suffix = "" =>
                      /\ \/ "VALIDATION" \in done \/ types \ done = {"VALIDATION"}
                         \/ t.flags \cap {"deploy", "public"} # {}
                      /\ Cardinality(done) = 1 => t.flags \cap {"dataIntensive", "isService"} = {}
  <2> DEFINE criteria == CriteriaOf(t)
             done == passed[<<t.base, t.suffix>>]
             types == {c.type : c \in Range(criteria)}
  <2>1. t \in InferredId /\ done \subseteq TypesOf(t)
    BY DEF InferenceInv
  <2>2. types = TypesOf(t) /\ types = {criteria[k].type : k \in DOMAIN criteria}
    BY DEF TypesOf, Range
  <2>3. Total(criteria) = SCALE /\ \A c \in Range(criteria) : c.weight > 0
    BY <2>1, CriteriaAre DEF Range
  <2>4. ASSUME t.suffix = Own, evaluateCompletion(criteria, done)
        PROVE  /\ \/ "VALIDATION" \in done \/ types \ done = {"VALIDATION"}
                  \/ t.flags \cap {"deploy", "public"} # {}
               /\ Cardinality(done) = 1 => t.flags \cap {"dataIntensive", "isService"} = {}
    <3>1. criteria = generateCompletionCriteria(t.flags)
      BY <2>4, CriteriaOfIs
    <3>2. done \in SUBSET types
      BY <2>1, <2>2
    <3>3. types = {criteria[k].type : k \in DOMAIN criteria}
      BY <2>2
    <3>4. evaluateCompletion(criteria, done)
      BY <2>4
    <3> HIDE DEF criteria, done, types
    <3>5. RightlyDone(t.flags, types, done)
      BY <3>1, <3>2, <3>3, <3>4, CompletedIs
    <3> QED
      BY <3>5 DEF RightlyDone
  <2>5. done \subseteq types
    BY <2>1, <2>2
  <2> HIDE DEF criteria, done, types
  <2>6. /\ Total(criteria) = SCALE /\ \A c \in Range(criteria) : c.weight > 0
        /\ done \subseteq types
        /\ evaluateCompletion(criteria, done) /\ t.suffix = Own =>
             /\ \/ "VALIDATION" \in done \/ types \ done = {"VALIDATION"}
                \/ t.flags \cap {"deploy", "public"} # {}
             /\ Cardinality(done) = 1 => t.flags \cap {"dataIntensive", "isService"} = {}
    BY <2>3, <2>4, <2>5, Zenon
  <2> QED
    BY <2>6, Zenon DEF Own, criteria, done, types
<1>2. Inferred(planned \cup Inferred(planned)) = {}
  <2> DEFINE list == planned \cup Inferred(planned)
  <2>1. ASSUME NEW x \in Inferred(list) PROVE FALSE
    <3>1. PICK t \in list : \E f \in t.flags :
             /\ t.suffix = Own /\ ~\E u \in list : u.base = t.base /\ u.suffix = Suffix[f]
             /\ x = [base |-> t.base, suffix |-> Suffix[f], flags |-> {}]
      <4> HIDE DEF list
      <4> QED
        BY <2>1, InferredAre
    <3>2. t \in planned
      BY <3>1, InferredTasks
    <3>3. PICK f \in t.flags :
             /\ t.suffix = Own /\ ~\E u \in list : u.base = t.base /\ u.suffix = Suffix[f]
             /\ x = [base |-> t.base, suffix |-> Suffix[f], flags |-> {}]
      BY <3>1
    <3>4. x.base = t.base /\ x.suffix = Suffix[f]
      BY <3>3
    <3>5. x \in Inferred(planned)
      BY <3>2, <3>3, InferredAre
    <3> QED
      BY <3>3, <3>4, <3>5
  <2> QED
    BY <2>1
<1>3. \A t, u \in planned : t.base = u.base /\ t.suffix = u.suffix => t = u
  BY DEF InferenceInv
<1> QED
  BY <1>1, <1>2, <1>3, Zenon DEF InferenceTypeOK

\* The weights of every task are the whole scale to the last unit, nothing is
\* inferred twice, and no one criterion completes a task of data or of a service
\* (task-inference-engine.js).
THEOREM AlwaysInferenceTyped == InferenceSpec => []InferenceTypeOK
  BY InferenceStarts, InferenceKeeps, InferenceTyped, PTL DEF InferenceSpec

-----------------------------------------------------------------------------
(* The refresh of evidence.                                                *)

Artifacts == UNION {[fs -> Content \cup {Missing}] : fs \in SUBSET SourceFile}
Refresh == [at: {"invalidating"}, environment: Environment, artifacts: Artifacts,
            affected: SUBSET Nat, stamped: SUBSET Nat]
StateFile == [reads: BOOLEAN, environment: Environment \cup {Missing},
               files: (SUBSET SourceFile) \cup {Missing}]

FreshTyped ==
  /\ surroundings \in [environment: Environment,
                       files: [SourceFile -> Content \cup {Missing}]]
  /\ lineage \in Seq(EvidenceFile)
  /\ carried \in Seq(SUBSET Environment) /\ Len(carried) = Len(lineage)
  /\ known \in StateFile /\ held \in StateFile
  /\ refresh \in Refresh \cup {NoRefresh}

\* Valid evidence was carried through the recorded environment or none, since
\* that was last lost or changed back.
CarriedIsKnown ==
  \A k \in Numbered \ shaken :
    lineage[k].status = "valid" => \A e \in carried[k] : e = known.environment

\* A refresh in another environment than the recorded one has still to
\* invalidate whatever is in force.
DriftIsPending ==
  refresh # NoRefresh /\ known.environment \notin {Missing, refresh.environment} =>
    InForce \subseteq refresh.affected

AffectedAreThere == refresh # NoRefresh => refresh.affected \subseteq Numbered

FreshInv == FreshTyped /\ CarriedIsKnown /\ DriftIsPending /\ AffectedAreThere

\* What a refresh looks at are files, and what it sees of them contents.
LEMMA RelevantFiles ==
  ASSUME FreshTyped
  PROVE  resolveRelevantFiles \subseteq SourceFile
<1>1. \A k \in Numbered : DOMAIN lineage[k].hashes \subseteq SourceFile
  <2> SUFFICES ASSUME NEW k \in Numbered PROVE DOMAIN lineage[k].hashes \subseteq SourceFile
    OBVIOUS
  <2>0. lineage[k] \in EvidenceFile
    BY ElementOfSeq DEF FreshTyped, Numbered
  <2>1. lineage[k].hashes \in Fingerprints
    BY <2>0 DEF EvidenceFile
  <2>2. PICK fs \in SUBSET SourceFile : lineage[k].hashes \in [fs -> Content]
    BY <2>1 DEF Fingerprints
  <2> QED
    BY <2>2
<1>2. known.files \in (SUBSET SourceFile) \cup {Missing}
  BY DEF FreshTyped, StateFile
<1>3. CASE known.files \notin {Missing, {}}
  <2>1. resolveRelevantFiles = known.files
    BY <1>3 DEF resolveRelevantFiles
  <2>2. known.files # Missing
    BY <1>3
  <2>3. known.files \in SUBSET SourceFile
    BY <1>2, <2>2
  <2> QED
    BY <2>1, <2>3
<1>4. CASE known.files \in {Missing, {}}
  <2>1. resolveRelevantFiles = UNION {DOMAIN lineage[k].hashes : k \in Numbered}
    BY <1>4 DEF resolveRelevantFiles
  <2> QED
    BY <1>1, <2>1
<1> QED
  BY <1>3, <1>4

LEMMA CurrentArtifacts ==
  ASSUME FreshTyped
  PROVE  fingerprintArtifacts(resolveRelevantFiles) \in Artifacts
<1>1. fingerprintArtifacts(resolveRelevantFiles)
        \in [resolveRelevantFiles -> Content \cup {Missing}]
  BY RelevantFiles DEF fingerprintArtifacts, FreshTyped
<1> QED
  BY <1>1, RelevantFiles DEF Artifacts

\* A change of one piece of evidence between refreshes.
LEMMA AltersLemma ==
  ASSUME FreshInv, NEW k \in Numbered, NEW piece \in EvidenceFile,
         Alters([lineage EXCEPT ![k] = piece]),
         \/ journeys' = journeys /\ (piece.status = "valid" => lineage[k].status = "valid")
         \/ carried' = [carried EXCEPT ![k] = {}] /\ shaken' = shaken \ {k}
  PROVE  FreshInv'
<1>1. /\ refresh = NoRefresh /\ UNCHANGED <<surroundings, known, held, refresh>>
      /\ lineage' = [lineage EXCEPT ![k] = piece]
  BY DEF Alters
<1>2. /\ lineage' \in Seq(EvidenceFile) /\ Len(lineage') = Len(lineage)
      /\ \A j \in Numbered : lineage'[j] = IF j = k THEN piece ELSE lineage[j]
  BY <1>1, ExceptSeq DEF FreshInv, FreshTyped, Numbered
<1>3. /\ carried' \in Seq(SUBSET Environment) /\ Len(carried') = Len(carried)
      /\ \A j \in Numbered : carried'[j] = carried[j] \/ (j = k /\ carried'[j] = {})
  <2>1. carried \in Seq(SUBSET Environment) /\ Numbered = 1 .. Len(carried)
    BY DEF FreshInv, FreshTyped, Numbered
  <2>2. CASE journeys' = journeys
    BY <2>1, <2>2 DEF journeys
  <2>3. CASE carried' = [carried EXCEPT ![k] = {}]
    <3>1. {} \in SUBSET Environment
      OBVIOUS
    <3> QED
      BY <2>1, <2>3, <3>1, ExceptSeq
  <2> QED
    BY <2>2, <2>3
<1>4. FreshTyped'
  BY <1>1, <1>2, <1>3 DEF FreshInv, FreshTyped
<1>5. CarriedIsKnown'
  <2> SUFFICES ASSUME NEW j \in Numbered, j \notin shaken', lineage'[j].status = "valid",
                      NEW e \in carried'[j]
               PROVE  e = known.environment
    BY <1>1, <1>2 DEF CarriedIsKnown, Numbered
  <2>1. CASE j = k
    <3>1. carried' = carried /\ shaken' = shaken /\ lineage[j].status = "valid"
      BY <1>2, <1>3, <2>1 DEF FreshInv, FreshTyped, Numbered, journeys
    <3> QED
      BY <3>1 DEF FreshInv, CarriedIsKnown
  <2>2. CASE j # k
    BY <1>2, <1>3, <2>2 DEF FreshInv, CarriedIsKnown, journeys
  <2> QED
    BY <2>1, <2>2
<1>6. DriftIsPending'
  BY <1>1 DEF DriftIsPending
<1>7. AffectedAreThere'
  BY <1>1 DEF AffectedAreThere
<1> QED
  BY <1>4, <1>5, <1>6, <1>7 DEF FreshInv

LEMMA FreshInitInv == FreshnessInit => FreshInv
<1> SUFFICES ASSUME FreshnessInit PROVE FreshInv
  OBVIOUS
<1>1. lineage \in Seq(EvidenceFile) /\ carried \in Seq(SUBSET Environment)
      /\ Len(lineage) = 0 /\ Len(carried) = 0 /\ refresh = NoRefresh
  BY DEF FreshnessInit
<1>2. surroundings \in [environment: Environment,
                        files: [SourceFile -> Content \cup {Missing}]]
  BY DEF FreshnessInit
<1>3. known \in StateFile /\ held \in StateFile
  BY DEF FreshnessInit, StateFile, NoState
<1> QED
  BY <1>1, <1>2, <1>3
     DEF FreshInv, FreshTyped, CarriedIsKnown, DriftIsPending, AffectedAreThere, Numbered

LEMMA ChangeKeeps ==
  ASSUME FreshInv, NEW after, Drift(after),
         after \in [environment: Environment, files: [SourceFile -> Content \cup {Missing}]]
  PROVE  FreshInv'
  BY DEF Drift, FreshInv, FreshTyped, CarriedIsKnown, DriftIsPending, AffectedAreThere,
         Numbered, InForce, Legible, journeys

\* Evidence is never in two places of the lineage, so creating it moves none.
LEMMA CreateKeeps == ASSUME FreshInv, CreateEvidence PROVE FreshInv'
<1>1. PICK n \in Need, linked \in BOOLEAN :
        /\ Alters(Append(lineage, [need |-> n, status |-> "unverified",
                                   linked |-> linked, hashes |-> NoHashes]))
        /\ carried' = Append(carried, {}) /\ UNCHANGED shaken
  BY DEF CreateEvidence
<1> DEFINE piece == [need |-> n, status |-> "unverified", linked |-> linked,
                     hashes |-> NoHashes]
<1>2. piece \in EvidenceFile
  <2>1. NoHashes \in [{} -> Content] /\ {} \in SUBSET SourceFile
    BY DEF NoHashes
  <2>2. NoHashes \in Fingerprints
    BY <2>1 DEF Fingerprints
  <2> QED
    BY <2>2 DEF EvidenceFile, EvidenceStatus
<1>3. /\ refresh = NoRefresh /\ UNCHANGED <<surroundings, known, held, refresh, shaken>>
      /\ lineage' = Append(lineage, piece) /\ carried' = Append(carried, {})
  BY <1>1 DEF Alters
<1> HIDE DEF piece
<1>4. /\ lineage \in Seq(EvidenceFile) /\ carried \in Seq(SUBSET Environment)
      /\ Len(carried) = Len(lineage) /\ {} \in SUBSET Environment
  BY DEF FreshInv, FreshTyped
<1>5. /\ lineage' \in Seq(EvidenceFile) /\ carried' \in Seq(SUBSET Environment)
      /\ Len(lineage') = Len(lineage) + 1 /\ Len(carried') = Len(carried) + 1
  BY <1>2, <1>3, <1>4, AppendProperties
<1>6. \A k \in 1 .. Len(lineage') :
        \/ carried'[k] = {}
        \/ k \in Numbered /\ lineage'[k] = lineage[k] /\ carried'[k] = carried[k]
  BY <1>2, <1>3, <1>4, <1>5, AppendProperties DEF Numbered
<1>7. FreshTyped'
  BY <1>3, <1>4, <1>5 DEF FreshInv, FreshTyped
<1>8. CarriedIsKnown'
  BY <1>3, <1>6 DEF FreshInv, CarriedIsKnown, Numbered
<1>9. DriftIsPending' /\ AffectedAreThere'
  BY <1>3 DEF DriftIsPending, AffectedAreThere
<1> QED
  BY <1>7, <1>8, <1>9 DEF FreshInv

LEMMA StatusKeeps ==
  ASSUME FreshInv, NEW k \in Numbered, NEW status \in EvidenceStatus,
         Alters([lineage EXCEPT ![k].status = status]),
         \/ journeys' = journeys /\ (status = "valid" => lineage[k].status = "valid")
         \/ carried' = [carried EXCEPT ![k] = {}] /\ shaken' = shaken \ {k}
  PROVE  FreshInv'
<1> DEFINE piece == [lineage[k] EXCEPT !.status = status]
<1>1. lineage[k] \in EvidenceFile
  BY ElementOfSeq DEF FreshInv, FreshTyped, Numbered
<1>2. piece \in EvidenceFile /\ piece.status = status
  BY <1>1 DEF EvidenceFile
<1>3. [lineage EXCEPT ![k].status = status] = [lineage EXCEPT ![k] = piece]
  OBVIOUS
<1> HIDE DEF piece
<1> QED
  BY <1>2, <1>3, AltersLemma

LEMMA StoreKeeps == ASSUME FreshInv, NEW k \in Nat, StoreHashes(k) PROVE FreshInv'
<1>1. PICK files \in SUBSET {f \in SourceFile : surroundings.files[f] # Missing} :
        Alters([lineage EXCEPT ![k].hashes = fingerprintArtifacts(files)])
  BY DEF StoreHashes
<1> DEFINE hashes == fingerprintArtifacts(files)
           piece == [lineage[k] EXCEPT !.hashes = hashes]
<1>2. k \in Numbered /\ journeys' = journeys
  BY DEF StoreHashes, InForce, Legible
<1>3. lineage[k] \in EvidenceFile
  BY <1>2, ElementOfSeq DEF FreshInv, FreshTyped, Numbered
<1>4. hashes \in Fingerprints
  <2>1. hashes \in [files -> Content] /\ files \in SUBSET SourceFile
    BY DEF FreshInv, FreshTyped, fingerprintArtifacts
  <2> HIDE DEF hashes
  <2> QED
    BY <2>1 DEF Fingerprints
<1> HIDE DEF hashes
<1>5. piece \in EvidenceFile /\ piece.status = lineage[k].status
  BY <1>3, <1>4 DEF EvidenceFile
<1>6. Alters([lineage EXCEPT ![k] = piece])
  BY <1>1 DEF hashes
<1> HIDE DEF piece
<1> QED
  BY <1>2, <1>5, <1>6, AltersLemma

LEMMA VerifyKeeps == ASSUME FreshInv, NEW k \in Nat, VerifyEvidence(k) PROVE FreshInv'
<1>1. k \in Numbered
  BY DEF VerifyEvidence, Legible
<1>2. CASE /\ Alters([lineage EXCEPT ![k].status =
                        IF lineage[k].linked THEN "valid" ELSE "insufficient"])
           /\ carried' = [carried EXCEPT ![k] = {}] /\ shaken' = shaken \ {k}
  <2>1. (IF lineage[k].linked THEN "valid" ELSE "insufficient") \in EvidenceStatus
    BY DEF EvidenceStatus
  <2> QED
    BY <1>1, <1>2, <2>1, StatusKeeps
<1>3. CASE /\ Alters([lineage EXCEPT ![k].status = "insufficient"])
           /\ UNCHANGED journeys
  BY <1>1, <1>3, StatusKeeps DEF EvidenceStatus
<1> QED
  BY <1>2, <1>3 DEF VerifyEvidence

LEMMA SupersedeKeeps == ASSUME FreshInv, NEW k \in Nat, SupersedeEvidence(k) PROVE FreshInv'
  BY StatusKeeps DEF SupersedeEvidence, EvidenceStatus, Legible

\* What is in force when a refresh finds another environment is all affected.
LEMMA BeginKeeps == ASSUME FreshInv, BeginRefresh PROVE FreshInv'
<1> DEFINE current == fingerprintArtifacts(resolveRelevantFiles)
           drifted == isEnvironmentDrifted(surroundings.environment)
           affected == Affected(drifted, diffArtifacts(current))
<1>1. /\ refresh' = [at |-> "invalidating", environment |-> surroundings.environment,
                     artifacts |-> current, affected |-> affected, stamped |-> {}]
      /\ UNCHANGED <<surroundings, lineage, known, held, journeys>>
  BY DEF BeginRefresh
<1>2. current \in Artifacts
  BY CurrentArtifacts DEF FreshInv
<1>3. affected \subseteq InForce /\ (drifted => affected = InForce)
  BY DEF Affected
<1>4. known.environment \notin {Missing, surroundings.environment} => drifted
  BY DEF isEnvironmentDrifted
<1> HIDE DEF current, drifted, affected
<1>5. InForce \subseteq Numbered /\ Numbered \subseteq Nat
  BY DEF InForce, Legible, Numbered
<1>6. /\ refresh' \in Refresh /\ refresh'.environment = surroundings.environment
      /\ refresh'.affected = affected
  BY <1>1, <1>2, <1>3, <1>5 DEF FreshInv, FreshTyped, Refresh
<1>7. InForce' = InForce /\ Numbered' = Numbered
  BY <1>1 DEF InForce, Legible, Numbered
<1>8. FreshTyped' /\ CarriedIsKnown'
  BY <1>1, <1>6 DEF FreshInv, FreshTyped, CarriedIsKnown, Numbered, journeys
<1>9. DriftIsPending' /\ AffectedAreThere'
  BY <1>1, <1>3, <1>4, <1>5, <1>6, <1>7 DEF DriftIsPending, AffectedAreThere
<1> QED
  BY <1>8, <1>9 DEF FreshInv

LEMMA InvalidateKeeps == ASSUME FreshInv, InvalidateEvidence PROVE FreshInv'
<1>1. PICK k \in refresh.affected :
        /\ lineage' = [lineage EXCEPT ![k].status = "invalidated"]
        /\ refresh' = [refresh EXCEPT !.affected = @ \ {k}]
        /\ UNCHANGED <<surroundings, known, held, journeys>> /\ refresh.at = "invalidating"
  BY DEF InvalidateEvidence
<1>2. refresh \in Refresh /\ refresh # NoRefresh
  BY <1>1 DEF FreshInv, FreshTyped, NoRefresh
<1>3. k \in Numbered
  BY <1>2 DEF FreshInv, AffectedAreThere
<1> DEFINE piece == [lineage[k] EXCEPT !.status = "invalidated"]
<1>4. lineage[k] \in EvidenceFile
  BY <1>3, ElementOfSeq DEF FreshInv, FreshTyped, Numbered
<1>5. piece \in EvidenceFile /\ piece.status = "invalidated"
  BY <1>4 DEF EvidenceFile, EvidenceStatus
<1>6. lineage' = [lineage EXCEPT ![k] = piece]
  BY <1>1
<1> HIDE DEF piece
<1>7. /\ lineage' \in Seq(EvidenceFile) /\ Len(lineage') = Len(lineage)
      /\ \A j \in Numbered : lineage'[j] = IF j = k THEN piece ELSE lineage[j]
  BY <1>3, <1>5, <1>6, ExceptSeq DEF FreshInv, FreshTyped, Numbered
<1>8. /\ refresh' \in Refresh /\ refresh'.affected = refresh.affected \ {k}
      /\ refresh'.environment = refresh.environment
  BY <1>1, <1>2 DEF Refresh
<1>9. FreshTyped'
  BY <1>1, <1>7, <1>8 DEF FreshInv, FreshTyped, journeys
<1>10. CarriedIsKnown'
  BY <1>1, <1>5, <1>7 DEF FreshInv, CarriedIsKnown, Numbered, journeys
<1>11. InForce' \subseteq InForce \ {k}
  BY <1>5, <1>7 DEF InForce, Legible, Numbered
<1>12. DriftIsPending' /\ AffectedAreThere'
  BY <1>1, <1>2, <1>7, <1>8, <1>11 DEF FreshInv, DriftIsPending, AffectedAreThere, Numbered
<1> QED
  BY <1>9, <1>10, <1>12 DEF FreshInv

\* Stamping evidence with the hashes of the files that are there leaves its
\* status, so what a refresh still owes does not change.
LEMMA StampKeeps == ASSUME FreshInv, StampEvidenceMetadata PROVE FreshInv'
<1> DEFINE present == {f \in DOMAIN refresh.artifacts : refresh.artifacts[f] # Missing}
           hashes == [f \in present |-> refresh.artifacts[f]]
<1>1. PICK k \in InForce :
        /\ lineage' = [lineage EXCEPT ![k].hashes = hashes]
        /\ refresh' = [refresh EXCEPT !.stamped = @ \cup {k}]
        /\ UNCHANGED <<surroundings, known, held, journeys>> /\ refresh.at = "invalidating"
  BY DEF StampEvidenceMetadata
<1>2. refresh \in Refresh /\ refresh # NoRefresh
  BY <1>1 DEF FreshInv, FreshTyped, NoRefresh
<1>3. hashes \in Fingerprints
  <2>1. refresh.artifacts \in Artifacts
    BY <1>2 DEF Refresh
  <2>2. PICK fs \in SUBSET SourceFile : refresh.artifacts \in [fs -> Content \cup {Missing}]
    BY <2>1 DEF Artifacts
  <2>3. hashes \in [present -> Content] /\ present \in SUBSET SourceFile
    BY <2>2
  <2> HIDE DEF hashes, present
  <2> QED
    BY <2>3 DEF Fingerprints
<1> HIDE DEF hashes
<1> DEFINE piece == [lineage[k] EXCEPT !.hashes = hashes]
<1>4. lineage[k] \in EvidenceFile /\ k \in Numbered /\ k \in Nat
  BY <1>1, ElementOfSeq DEF FreshInv, FreshTyped, Numbered, InForce, Legible
<1>5. piece \in EvidenceFile /\ piece.status = lineage[k].status
  BY <1>3, <1>4 DEF EvidenceFile
<1>6. lineage' = [lineage EXCEPT ![k] = piece]
  BY <1>1
<1> HIDE DEF piece
<1>7. /\ lineage' \in Seq(EvidenceFile) /\ Len(lineage') = Len(lineage)
      /\ \A j \in Numbered : lineage'[j] = IF j = k THEN piece ELSE lineage[j]
  BY <1>4, <1>5, <1>6, ExceptSeq DEF FreshInv, FreshTyped, Numbered
<1>8. /\ refresh' \in Refresh /\ refresh'.affected = refresh.affected
      /\ refresh'.environment = refresh.environment
  BY <1>1, <1>2, <1>4 DEF Refresh
<1>9. \A j \in Numbered : lineage'[j].status = lineage[j].status
  BY <1>5, <1>7
<1>10. FreshTyped'
  BY <1>1, <1>7, <1>8 DEF FreshInv, FreshTyped, journeys
<1>11. CarriedIsKnown'
  BY <1>1, <1>7, <1>9 DEF FreshInv, CarriedIsKnown, Numbered, journeys
<1>12. InForce' = InForce
  BY <1>7, <1>9 DEF InForce, Legible, Numbered
<1>13. DriftIsPending' /\ AffectedAreThere'
  BY <1>1, <1>2, <1>7, <1>8, <1>12 DEF FreshInv, DriftIsPending, AffectedAreThere, Numbered
<1> QED
  BY <1>10, <1>11, <1>13 DEF FreshInv

\* The environment is recorded once nothing is left to invalidate: evidence that
\* is valid then was carried through no other.
LEMMA SaveKeeps == ASSUME FreshInv, SaveRefresh PROVE FreshInv'
<1>1. /\ refresh.at = "invalidating" /\ refresh.affected = {}
      /\ known' = [reads |-> TRUE, environment |-> refresh.environment,
                   files |-> IF known.files = Missing THEN DOMAIN refresh.artifacts
                             ELSE known.files]
      /\ refresh' = NoRefresh /\ UNCHANGED <<surroundings, lineage, held, shaken>>
  BY DEF SaveRefresh
<1>2. carried' = [k \in Numbered |-> IF lineage[k].status = "valid"
                                     THEN carried[k] \cup {refresh.environment}
                                     ELSE carried[k]]
  BY DEF SaveRefresh
<1>3. refresh \in Refresh /\ refresh # NoRefresh
  BY <1>1 DEF FreshInv, FreshTyped, NoRefresh
<1>4. refresh.environment \in Environment /\ refresh.artifacts \in Artifacts
  BY <1>3 DEF Refresh
<1>5. DOMAIN refresh.artifacts \in SUBSET SourceFile
  <2>1. PICK fs \in SUBSET SourceFile : refresh.artifacts \in [fs -> Content \cup {Missing}]
    BY <1>4 DEF Artifacts
  <2> QED
    BY <2>1
<1>6. known' \in StateFile /\ known'.environment = refresh.environment
  BY <1>1, <1>4, <1>5 DEF FreshInv, FreshTyped, StateFile
<1>7. \A k \in Numbered : carried[k] \in SUBSET Environment
  BY ElementOfSeq DEF FreshInv, FreshTyped, Numbered
<1>8. carried' \in [1 .. Len(lineage) -> SUBSET Environment] /\ Len(lineage) \in Nat
  BY <1>2, <1>4, <1>7, LenProperties DEF FreshInv, FreshTyped, Numbered
<1>9. carried' \in Seq(SUBSET Environment) /\ Len(carried') = Len(lineage)
  BY <1>8, SeqDef, LenProperties
<1>10. FreshTyped'
  BY <1>1, <1>6, <1>9 DEF FreshInv, FreshTyped
<1>11. CarriedIsKnown'
  <2> SUFFICES ASSUME NEW k \in Numbered \ shaken, lineage[k].status = "valid",
                      NEW e \in carried'[k]
               PROVE  e = refresh.environment
    BY <1>1, <1>6 DEF CarriedIsKnown, Numbered
  <2>1. e = refresh.environment \/ e \in carried[k]
    BY <1>2
  <2>2. CASE e \in carried[k]
    <3>1. e = known.environment /\ e \in Environment
      BY <1>7, <2>2 DEF FreshInv, CarriedIsKnown
    <3>2. k \in InForce
      BY DEF InForce, Legible
    <3> QED
      BY <1>1, <1>3, <3>1, <3>2, FreshnessAssumption DEF FreshInv, DriftIsPending
  <2> QED
    BY <2>1, <2>2
<1>12. DriftIsPending' /\ AffectedAreThere'
  BY <1>1 DEF DriftIsPending, AffectedAreThere
<1> QED
  BY <1>10, <1>11, <1>12 DEF FreshInv

\* Where another environment comes to be recorded, all evidence is shaken.
LEMMA RecordKeeps ==
  ASSUME FreshInv, refresh' = NoRefresh, known' \in StateFile, held' \in StateFile,
         \/ known'.environment = known.environment /\ shaken' = shaken
         \/ shaken' = Numbered,
         UNCHANGED <<surroundings, lineage, carried>>
  PROVE  FreshInv'
<1>1. FreshTyped'
  BY DEF FreshInv, FreshTyped
<1>2. CarriedIsKnown'
  BY DEF FreshInv, CarriedIsKnown, Numbered
<1>3. DriftIsPending' /\ AffectedAreThere'
  BY DEF DriftIsPending, AffectedAreThere
<1> QED
  BY <1>1, <1>2, <1>3 DEF FreshInv

LEMMA RecordsKeep ==
  ASSUME FreshInv, ReadRecord \/ WriteBack \/ RebuildRecord \/ CrashInRefresh \/ CrashTearsState
  PROVE  FreshInv'
<1>1. NoState \in StateFile
  BY DEF NoState, StateFile
<1>2. known \in StateFile /\ held \in StateFile
  BY DEF FreshInv, FreshTyped
<1>3. CASE ReadRecord
  BY <1>2, <1>3, RecordKeeps DEF ReadRecord, journeys
<1>4. CASE WriteBack
  BY <1>1, <1>2, <1>4, RecordKeeps DEF WriteBack, Shaken
<1>5. CASE RebuildRecord
  <2>1. [known EXCEPT !.reads = TRUE] \in StateFile
    BY <1>2 DEF StateFile
  <2>2. [known EXCEPT !.reads = TRUE].environment = known.environment
    BY <1>2 DEF StateFile
  <2> QED
    BY <1>2, <1>5, <2>1, <2>2, RecordKeeps DEF RebuildRecord, journeys
<1>6. CASE CrashInRefresh
  BY <1>1, <1>2, <1>6, RecordKeeps DEF CrashInRefresh, Dies
<1>7. CASE CrashTearsState
  BY <1>1, <1>7, RecordKeeps DEF CrashTearsState, Dies, Shaken
<1> QED
  BY <1>3, <1>4, <1>5, <1>6, <1>7

\* A torn piece of evidence is not valid.
LEMMA TearKeeps == ASSUME FreshInv, CrashTearsEvidence PROVE FreshInv'
<1>1. PICK k \in NextWritten :
        lineage' = [lineage EXCEPT ![k].status = "torn", ![k].hashes = NoHashes]
  BY DEF CrashTearsEvidence
<1>2. /\ refresh' = NoRefresh /\ held' = NoState
      /\ UNCHANGED <<surroundings, carried, known, shaken>>
  BY DEF CrashTearsEvidence, Dies
<1>3. k \in Numbered
  <2>1. refresh # NoRefresh => refresh.affected \subseteq Numbered
    BY DEF FreshInv, AffectedAreThere
  <2>2. Legible \subseteq Numbered /\ InForce \subseteq Numbered
    BY DEF Legible, InForce
  <2> QED
    BY <1>1, <2>1, <2>2 DEF NextWritten
<1> DEFINE piece == [lineage[k] EXCEPT !.status = "torn", !.hashes = NoHashes]
<1>4. lineage[k] \in EvidenceFile
  BY <1>3, ElementOfSeq DEF FreshInv, FreshTyped, Numbered
<1>5. piece \in EvidenceFile /\ piece.status = "torn"
  <2>1. NoHashes \in [{} -> Content] /\ {} \in SUBSET SourceFile
    BY DEF NoHashes
  <2>2. NoHashes \in Fingerprints
    BY <2>1 DEF Fingerprints
  <2> QED
    BY <1>4, <2>2 DEF EvidenceFile, EvidenceStatus
<1>6. lineage' = [lineage EXCEPT ![k] = piece]
  BY <1>1
<1> HIDE DEF piece
<1>7. /\ lineage' \in Seq(EvidenceFile) /\ Len(lineage') = Len(lineage)
      /\ \A j \in Numbered : lineage'[j] = IF j = k THEN piece ELSE lineage[j]
  BY <1>3, <1>5, <1>6, ExceptSeq DEF FreshInv, FreshTyped, Numbered
<1>8. NoState \in StateFile
  BY DEF NoState, StateFile
<1>9. FreshTyped'
  BY <1>2, <1>7, <1>8 DEF FreshInv, FreshTyped
<1>10. CarriedIsKnown'
  BY <1>2, <1>5, <1>7 DEF FreshInv, CarriedIsKnown, Numbered
<1>11. DriftIsPending' /\ AffectedAreThere'
  BY <1>2 DEF DriftIsPending, AffectedAreThere
<1> QED
  BY <1>9, <1>10, <1>11 DEF FreshInv

LEMMA FreshNextInv == FreshInv /\ [FreshnessNext]_freshnessVars => FreshInv'
<1> SUFFICES ASSUME FreshInv, [FreshnessNext]_freshnessVars PROVE FreshInv'
  OBVIOUS
<1>0. surroundings \in [environment: Environment, files: [SourceFile -> Content \cup {Missing}]]
  BY DEF FreshInv, FreshTyped
<1>1. CASE Checkout
  <2>1. PICK e \in Environment : Drift([surroundings EXCEPT !.environment = e])
    BY <1>1 DEF Checkout
  <2>2. [surroundings EXCEPT !.environment = e] \in
          [environment: Environment, files: [SourceFile -> Content \cup {Missing}]]
    BY <1>0
  <2> QED
    BY <2>1, <2>2, ChangeKeeps
<1>2. CASE Edit
  <2>1. PICK f \in SourceFile, c \in Content \cup {Missing} :
          Drift([surroundings EXCEPT !.files[f] = c])
    BY <1>2 DEF Edit
  <2>2. [surroundings EXCEPT !.files[f] = c] \in
          [environment: Environment, files: [SourceFile -> Content \cup {Missing}]]
    BY <1>0
  <2> QED
    BY <2>1, <2>2, ChangeKeeps
<1>3. CASE CreateEvidence
  BY <1>3, CreateKeeps
<1>4. CASE \E k \in 1 .. MaxLineage :
             StoreHashes(k) \/ VerifyEvidence(k) \/ SupersedeEvidence(k)
  BY <1>4, StoreKeeps, VerifyKeeps, SupersedeKeeps, FreshnessAssumption
<1>5. CASE BeginRefresh
  BY <1>5, BeginKeeps
<1>6. CASE InvalidateEvidence
  BY <1>6, InvalidateKeeps
<1>7. CASE StampEvidenceMetadata
  BY <1>7, StampKeeps
<1>8. CASE SaveRefresh
  BY <1>8, SaveKeeps
<1>9. CASE ReadRecord \/ WriteBack \/ RebuildRecord \/ CrashInRefresh \/ CrashTearsState
  BY <1>9, RecordsKeep
<1>10. CASE CrashTearsEvidence
  BY <1>10, TearKeeps
<1>11. CASE UNCHANGED freshnessVars
  BY <1>11 DEF freshnessVars, journeys, FreshInv, FreshTyped, CarriedIsKnown, DriftIsPending,
               AffectedAreThere, Numbered, InForce, Legible
<1> QED
  BY <1>1, <1>2, <1>3, <1>4, <1>5, <1>6, <1>7, <1>8, <1>9, <1>10, <1>11 DEF FreshnessNext

\* Whatever drifts and wherever a refresh is cut off, evidence that is valid was
\* carried through one recorded environment at most, unless a torn or stale record
\* lost that environment since its verification (evidence-freshness.js:
\* refreshEvidenceValidity records the environment after every invalidation).
THEOREM AlwaysSurvivesOneEnvironment == FreshnessSpec => []SurvivesOneEnvironment
<1>1. FreshInv => SurvivesOneEnvironment
  <2> SUFFICES ASSUME FreshInv, NEW k \in Numbered \ shaken, lineage[k].status = "valid"
               PROVE  Cardinality(carried[k]) <= 1
    BY DEF SurvivesOneEnvironment
  <2>1. carried[k] = {} \/ carried[k] = {known.environment}
    BY DEF FreshInv, CarriedIsKnown
  <2>2. Cardinality({}) = 0 /\ Cardinality({known.environment}) = 1
    BY FS_EmptySet, FS_Singleton
  <2> QED
    BY <2>1, <2>2
<1> QED
  BY <1>1, FreshInitInv, FreshNextInv, PTL DEF FreshnessSpec

ShakenTyped == shaken \subseteq Nat

LEMMA ShakenKeeps == ShakenTyped /\ [FreshnessNext]_freshnessVars => ShakenTyped'
<1> SUFFICES ASSUME ShakenTyped, [FreshnessNext]_freshnessVars PROVE ShakenTyped'
  OBVIOUS
<1>1. \/ shaken' = shaken
      \/ \E k \in 1..MaxLineage : shaken' = shaken \ {k}
      \/ \E s \in StateFile \cup {held, NoState} : shaken' = Shaken(s)
  <2>1. CASE Checkout \/ Edit \/ CreateEvidence \/ CrashInRefresh \/ CrashTearsEvidence
    BY <2>1 DEF Checkout, Edit, Drift, CreateEvidence, CrashInRefresh, CrashTearsEvidence, journeys
  <2>2. ASSUME NEW k \in 1..MaxLineage,
               StoreHashes(k) \/ VerifyEvidence(k) \/ SupersedeEvidence(k)
        PROVE  shaken' = shaken \/ shaken' = shaken \ {k}
    BY <2>2 DEF StoreHashes, VerifyEvidence, SupersedeEvidence, journeys
  <2>3. CASE BeginRefresh \/ InvalidateEvidence \/ StampEvidenceMetadata \/ SaveRefresh
    BY <2>3 DEF BeginRefresh, InvalidateEvidence, StampEvidenceMetadata, SaveRefresh, journeys
  <2>4. CASE ReadRecord \/ WriteBack \/ RebuildRecord \/ CrashTearsState
    BY <2>4 DEF ReadRecord, WriteBack, RebuildRecord, CrashTearsState, journeys
  <2>5. CASE UNCHANGED freshnessVars
    BY <2>5 DEF freshnessVars, journeys
  <2> QED
    BY <2>1, <2>2, <2>3, <2>4, <2>5 DEF FreshnessNext
<1>2. Numbered \subseteq Nat
  BY DEF Numbered
<1> QED
  BY <1>1, <1>2 DEF ShakenTyped, Shaken

\* The state of the world, of the evidence and of the record keeps its types.
LEMMA FreshnessTyped == FreshInv /\ ShakenTyped => FreshnessTypeOK
<1> SUFFICES ASSUME FreshInv, ShakenTyped PROVE FreshnessTypeOK
  OBVIOUS
<1>1. \A k \in Numbered : lineage[k] \in EvidenceFile /\ carried[k] \subseteq Environment
  BY ElementOfSeq DEF FreshInv, FreshTyped, Numbered
<1> QED
  BY <1>1 DEF FreshInv, FreshTyped, ShakenTyped, FreshnessTypeOK, StateFile

-----------------------------------------------------------------------------
(* The components together.                                                *)

ServicesInv ==
  /\ focus = "manager" => ManagerTypeOK
  /\ focus \in {"rollback", "canary"} => RollbackInv /\ Told /\ CanaryTyped
  /\ focus \in {"skills", "handover"} => SkillsTypeOK /\ RoutingInv
  /\ focus \in {"plan", "layers"} => PlanInv
  /\ focus = "preflight" => ContractInv /\ ReportInv
  /\ focus = "memory" => Documented
  /\ focus = "diagnosis" => DiagnosisTypeOK
  /\ focus = "contradictions" => ContradictionsTypeOK
  /\ focus = "loops" => LoopInv
  /\ focus \in {"feedback", "faults", "budgets"} => RetrievalInv
  /\ focus = "drift" => DriftInv
  /\ focus \in {"release", "signers"} => ReleaseInv
  /\ focus \in {"observations", "obsfile"} => ProvenanceInv
  /\ focus \in {"lineage", "claims"} => LineageInv
  /\ focus = "freshness" => FreshInv /\ ShakenTyped
  /\ focus = "inference" => InferenceInv
  /\ focus \in {"trace", "audit", "archive"} => DecisionInv

LEMMA ServicesStart == Init => ServicesInv
  BY ManagerStarts, RollbackInitInv, ToldStarts, CanaryStarts, SkillsStart, PlanStarts,
     PreflightStarts, MemoryStarts, DiagnosisStarts, ContradictionsStart, LoopStarts,
     RetrievalStarts, DriftStarts, ReleaseStarts, ProvenanceStarts, LineageStarts,
     FreshInitInv, InferenceStarts, DecisionStarts
  DEF Init, FreshnessInit, ShakenTyped, ServicesInv

LEMMA ServicesNext == ServicesInv /\ [Next]_allVars => ServicesInv'
<1> SUFFICES ASSUME ServicesInv, [Next]_allVars PROVE ServicesInv'
  OBVIOUS
<1>1. CASE OnManager(ManagerNext)
  BY <1>1, ManagerKeeps DEF OnManager, ServicesInv
<1>2. CASE OnRollback(RollbackNext)
  BY <1>2, RollbackNextInv, ToldKeeps, CanaryKeeps DEF OnRollback, ServicesInv
<1>3. CASE OnCanary(CanaryNext)
  BY <1>3, RollbackNextInv, ToldKeeps, CanaryKeeps DEF OnCanary, ServicesInv
<1>4. CASE OnSkills(RoutingNext)
  BY <1>4, SkillsNextKeeps, SkillsStepTyped DEF OnSkills, ServicesInv, SkillsNext
<1>5. CASE OnHandover(HandOverNext)
  BY <1>5, SkillsNextKeeps, SkillsStepTyped DEF OnHandover, ServicesInv, SkillsNext
<1>6. CASE OnPlan(PlanningNext)
  BY <1>6, PlanKeeps DEF OnPlan, ServicesInv, PlanNext
<1>7. CASE OnLayers(RouteLayers)
  BY <1>7, PlanKeeps DEF OnLayers, ServicesInv, PlanNext
<1>8. CASE OnPreflight(PreflightNext)
  BY <1>8, PreflightNextKeeps DEF OnPreflight, ServicesInv
<1>9. CASE OnMemory(MemoryNext)
  BY <1>9, MemoryNextKeeps DEF OnMemory, ServicesInv
<1>10. CASE OnDiagnosis(DiagnosisNext)
  BY <1>10, DiagnosisKeeps DEF OnDiagnosis, ServicesInv
<1>11. CASE OnContradictions(ContradictionsNext)
  BY <1>11, ContradictionsKeep DEF OnContradictions, ServicesInv
<1>12. CASE OnLoops(LoopNext)
  BY <1>12, LoopKeeps DEF OnLoops, ServicesInv
<1>13. CASE OnFeedback(FeedbackNext)
  BY <1>13, RetrievalKeeps DEF OnFeedback, ServicesInv, RetrievalNext
<1>14. CASE OnFaults(FaultNext)
  BY <1>14, RetrievalKeeps DEF OnFaults, ServicesInv, RetrievalNext
<1>15. CASE OnBudgets(BudgetNext)
  BY <1>15, RetrievalKeeps DEF OnBudgets, ServicesInv, RetrievalNext
<1>16. CASE OnDrift(DriftNext)
  BY <1>16, DriftKeeps DEF OnDrift, ServicesInv
<1>17. CASE OnRelease(ReleaseGateNext)
  BY <1>17, ReleaseKeeps DEF OnRelease, ServicesInv, ReleaseNext
<1>18. CASE OnSigners(SignerNext)
  BY <1>18, ReleaseKeeps DEF OnSigners, ServicesInv, ReleaseNext
<1>19. CASE OnObservations(ObserveNext)
  BY <1>19, ProvenanceKeeps DEF OnObservations, ServicesInv, ProvenanceNext
<1>20. CASE OnObsfile(ObsFileNext)
  BY <1>20, ProvenanceKeeps DEF OnObsfile, ServicesInv, ProvenanceNext
<1>21. CASE OnLineage(EvidenceNext)
  BY <1>21, LineageKeeps DEF OnLineage, ServicesInv, LineageNext
<1>22. CASE OnClaims(ClaimNext)
  BY <1>22, LineageKeeps DEF OnClaims, ServicesInv, LineageNext
<1>23. CASE OnFreshness(FreshnessNext)
  BY <1>23, FreshNextInv, ShakenKeeps DEF OnFreshness, ServicesInv
<1>24. CASE OnInference(InferenceNext)
  BY <1>24, InferenceKeeps DEF OnInference, ServicesInv
<1>25. CASE OnTrace(TraceNext)
  BY <1>25, DecisionKeeps DEF OnTrace, ServicesInv, DecisionNext
<1>26. CASE OnAudit(AuditNext)
  BY <1>26, DecisionKeeps DEF OnAudit, ServicesInv, DecisionNext
<1>27. CASE OnArchive(ArchiveNext)
  BY <1>27, DecisionKeeps DEF OnArchive, ServicesInv, DecisionNext
<1>28. CASE UNCHANGED allVars
  <2>1. /\ UNCHANGED <<focus, managerVars, rollbackVars, canaryVars, skillVars, planVars>>
        /\ UNCHANGED <<preflightVars, memoryVars, diagnosisVars, contradictionVars, loopVars>>
        /\ UNCHANGED <<retrievalVars, driftVars, releaseVars, provenanceVars, lineageVars>>
        /\ UNCHANGED <<freshnessVars, inferenceVars, decisionVars>>
    BY <1>28 DEF allVars
  <2> QED
    BY <2>1, ManagerKeeps, RollbackNextInv, ToldKeeps, CanaryKeeps, SkillsNextKeeps,
       SkillsStepTyped, PlanKeeps, PreflightNextKeeps, MemoryNextKeeps, DiagnosisKeeps,
       ContradictionsKeep, LoopKeeps, RetrievalKeeps, DriftKeeps, ReleaseKeeps,
       ProvenanceKeeps, LineageKeeps, FreshNextInv, ShakenKeeps,
       InferenceKeeps, DecisionKeeps
    DEF ServicesInv
<1> QED
  BY <1>1, <1>2, <1>3, <1>4, <1>5, <1>6, <1>7, <1>8, <1>9, <1>10, <1>11, <1>12, <1>13,
     <1>14, <1>15, <1>16, <1>17, <1>18, <1>19, <1>20, <1>21, <1>22, <1>23, <1>24, <1>25,
     <1>26, <1>27, <1>28
  DEF Next

\* Whichever component moves, it keeps its type, and with it what it promises of
\* its records, for every size of all of them.
THEOREM ServicesTypeCorrect == Spec => []TypeOK
<1>1. ServicesInv => TypeOK
  <2> SUFFICES ASSUME ServicesInv PROVE TypeOK
    OBVIOUS
  <2>1. focus = "preflight" => PreflightTypeOK
    BY DEF ServicesInv, ContractInv, ReportInv, Sound, Contract, RequirementCount, PreflightTypeOK
  <2>2. focus = "memory" => MemoryTypeOK
    BY Noted DEF ServicesInv, Documented, Page, MemoryTypeOK, Entries
  <2> QED
    BY <2>1, <2>2, RollbackWhole, PlanTyped, LoopTyped, RetrievalTyped, DriftTyped, ReleaseTyped,
       ProvenanceTyped, LineageTyped, FreshnessTyped, InferenceTyped, DecisionTyped
    DEF ServicesInv, TypeOK
<1> QED
  BY <1>1, ServicesStart, ServicesNext, PTL DEF Spec
=============================================================================
