------------------------------ MODULE WatchProofs ------------------------------
(***************************************************************************)
(* What advises the work and what watches over it, proved for any size:    *)
(* the rollback, any of whose steps and undos may fail; the plan of        *)
(* skills; the contract of a prompt, through every answer, piece of        *)
(* evidence and escalation; the memory's documents, of which a crash may   *)
(* leave a beginning; and the skills a prompt is given.                    *)
(***************************************************************************)
EXTENDS RollbackManager, SkillPlan, SkillRouting, Preflight, Memory,
        FiniteSetTheorems, SequenceTheorems, WellFoundedInduction, TLAPS

-----------------------------------------------------------------------------
(* The rollback.                                                           *)

\* The variables of the rollback alone.
RollbackTyped ==
  /\ at \in {"begin", "run", "restore", "end"}
  /\ kind \in [1 .. Steps -> StepKind]
  /\ executed \in Seq(1 .. Steps) /\ Len(executed) <= Steps
  /\ undo \in 0 .. Len(executed)
  /\ undone \subseteq Nat /\ refused \subseteq Nat

\* The steps are kept in the order they ran, and restore has tried exactly those
\* it has been through.
Tried ==
  /\ \A i \in 1 .. Len(executed) : executed[i] = i
  /\ undone \cup refused = {i \in 1 .. undo : kind[i] = "undoable"}
  /\ at \in {"begin", "run"} => undo = 0
  /\ at # "end" => outcome = "none"

RollbackInv == RollbackTyped /\ Tried /\ TurnsBackWhole

LEMMA KeptLemma == RollbackTyped /\ Tried => Kept = 1 .. Len(executed)
  BY DEF RollbackTyped, Tried, Kept

LEMMA RollbackInitInv == RollbackInit => RollbackInv
<1> SUFFICES ASSUME RollbackInit PROVE RollbackInv
  OBVIOUS
<1>1. executed = << >> /\ Len(executed) = 0 /\ executed \in Seq(1 .. Steps)
  BY DEF RollbackInit
<1>2. RollbackTyped
  BY <1>1, RollbackManagerAssumption DEF RollbackInit, RollbackTyped, StepKind
<1>3. Tried /\ TurnsBackWhole
  BY <1>1 DEF RollbackInit, Tried, TurnsBackWhole
<1> QED
  BY <1>2, <1>3 DEF RollbackInv

LEMMA RollbackNextInv == RollbackInv /\ [RollbackNext]_rollbackVars => RollbackInv'
<1> SUFFICES ASSUME RollbackInv, [RollbackNext]_rollbackVars PROVE RollbackInv'
  OBVIOUS
<1> USE RollbackManagerAssumption
<1>0. RollbackTyped /\ Tried /\ TurnsBackWhole /\ Kept = 1 .. Len(executed)
  BY KeptLemma DEF RollbackInv
<1>1. CASE SaveSnapshot
  BY <1>0, <1>1 DEF SaveSnapshot, RollbackInv, RollbackTyped, Tried, TurnsBackWhole
<1>2. CASE RunStep
  <2>1. NextStep \in 1 .. Steps /\ at = "run" /\ undo = 0 /\ outcome = "none"
    BY <1>0, <1>2 DEF RunStep, NextStep, RollbackTyped, Tried
  <2>2. kind' \in [1 .. Steps -> StepKind] /\ at' \in {"run", "restore"}
    BY <1>0, <1>2, <2>1 DEF RunStep, RollbackTyped
  <2>3. /\ executed' \in Seq(1 .. Steps) /\ Len(executed') <= Steps
        /\ Len(executed') >= Len(executed)
        /\ \A i \in 1 .. Len(executed') : executed'[i] = i
    <3>1. CASE executed' = executed
      BY <1>0, <3>1 DEF RollbackTyped, Tried
    <3>2. CASE executed' = Append(executed, NextStep)
      BY <1>0, <2>1, <3>2 DEF RollbackTyped, Tried, NextStep
    <3> QED
      BY <1>2, <3>1, <3>2 DEF RunStep
  <2>4. UNCHANGED <<undo, undone, refused, outcome>>
    BY <1>2 DEF RunStep
  <2>5. RollbackTyped'
    BY <1>0, <2>1, <2>2, <2>3, <2>4 DEF RollbackTyped
  <2>6. Tried'
    BY <1>0, <2>1, <2>2, <2>3, <2>4 DEF Tried
  <2> QED
    BY <2>1, <2>4, <2>5, <2>6 DEF RollbackInv, TurnsBackWhole
<1>3. CASE Commit
  <2>1. Len(executed) = Steps /\ undo = 0 /\ undone \cup refused = {}
    BY <1>0, <1>3 DEF Commit, NextStep, RollbackTyped, Tried
  <2>2. UNCHANGED <<kind, executed, undo, undone, refused>> /\ Kept' = Kept
    BY <1>3 DEF Commit, Kept
  <2>3. RollbackTyped' /\ Tried'
    BY <1>0, <1>3, <2>1, <2>2 DEF Commit, RollbackTyped, Tried
  <2>4. TurnsBackWhole'
    BY <1>0, <1>3, <2>1, <2>2 DEF Commit, TurnsBackWhole, Tried
  <2> QED
    BY <2>3, <2>4 DEF RollbackInv
<1>4. CASE UndoNext
  <2>1. /\ undo' = undo + 1 /\ undo + 1 \in 1 .. Len(executed)
        /\ executed[undo + 1] = undo + 1 /\ at = "restore"
        /\ UNCHANGED <<at, kind, executed, saved, outcome>>
    BY <1>0, <1>4 DEF UndoNext, RollbackTyped, Tried
  <2>2. undone' \cup refused' =
          (undone \cup refused) \cup {i \in {undo + 1} : kind[i] = "undoable"}
    BY <1>4, <2>1 DEF UndoNext
  <2>3. {i \in 1 .. undo' : kind[i] = "undoable"} =
          {i \in 1 .. undo : kind[i] = "undoable"}
            \cup {i \in {undo + 1} : kind[i] = "undoable"}
    BY <1>0, <2>1 DEF RollbackTyped
  <2>4. RollbackTyped'
    <3>1. undone' \subseteq Nat /\ refused' \subseteq Nat
      <4>1. \/ UNCHANGED <<undone, refused>>
            \/ undone' = undone \cup {undo + 1} /\ UNCHANGED refused
            \/ refused' = refused \cup {undo + 1} /\ UNCHANGED undone
        BY <1>4, <2>1 DEF UndoNext
      <4>2. undo + 1 \in Nat /\ undone \subseteq Nat /\ refused \subseteq Nat
        BY <1>0, <2>1 DEF RollbackTyped
      <4> QED
        BY <4>1, <4>2
    <3> QED
      BY <1>0, <2>1, <3>1 DEF RollbackTyped
  <2>5. Tried'
    BY <1>0, <2>1, <2>2, <2>3 DEF Tried
  <2> QED
    BY <1>0, <2>1, <2>4, <2>5 DEF RollbackInv, TurnsBackWhole, Tried
<1>5. CASE Restore
  <2>1. /\ undo = Len(executed) /\ outcome' = "restored" /\ at' = "end"
        /\ UNCHANGED <<kind, executed, undo, undone, refused>>
    BY <1>5 DEF Restore
  <2>2. Undoable' = Undoable /\ Kept' = Kept
    BY <2>1 DEF Undoable, Kept
  <2>3. undone \cup refused = Undoable \cap Kept
    BY <1>0, <2>1 DEF Tried, Undoable, RollbackTyped
  <2>4. RollbackTyped' /\ Tried'
    BY <1>0, <2>1 DEF RollbackTyped, Tried
  <2> QED
    BY <2>1, <2>2, <2>3, <2>4 DEF RollbackInv, TurnsBackWhole
<1>6. CASE UNCHANGED rollbackVars
  BY <1>0, <1>6 DEF rollbackVars, RollbackInv, RollbackTyped, Tried, TurnsBackWhole,
                    Kept, Undoable
<1> QED
  BY <1>1, <1>2, <1>3, <1>4, <1>5, <1>6 DEF RollbackNext

\* However many steps and whichever of them or of their undos fail, a rollback
\* that turned back has tried every undo it kept, and one that reports success
\* ran and committed every step (rollback-manager.js: rollback, restore).
THEOREM AlwaysTurnsBackWhole == RollbackSpec => []TurnsBackWhole
<1>1. RollbackInv => TurnsBackWhole
  BY DEF RollbackInv
<1> QED
  BY <1>1, RollbackInitInv, RollbackNextInv, PTL DEF RollbackSpec

-----------------------------------------------------------------------------
(* Numbers.                                                                *)

\* Induction, on a set rather than a predicate.
LEMMA SetInduction ==
  ASSUME NEW G, 0 \in G, \A n \in Nat : n \in G => n + 1 \in G
  PROVE  \A n \in Nat : n \in G
<1> SUFFICES ASSUME NEW m \in Nat, m \notin G PROVE FALSE
  OBVIOUS
<1> DEFINE missed == {n \in Nat : n \notin G}
<1>1. \E k \in missed : \A j \in missed : ~ (<<j, k>> \in OpToRel(<, Nat))
  BY WFMin, NatLessThanWellFounded
<1>2. PICK k \in missed : \A j \in missed : ~ (j < k)
  BY <1>1 DEF OpToRel
<1>3. k # 0 /\ k - 1 \in Nat
  OBVIOUS
<1>4. k - 1 \in G
  BY <1>2, <1>3
<1>5. (k - 1) + 1 \in G
  BY <1>3, <1>4
<1> QED
  BY <1>5

\* Of some numbers there is a least.
LEMMA Least ==
  ASSUME NEW S \in SUBSET Nat, S # {}
  PROVE  /\ Min(S) \in S /\ \A y \in S : Min(S) <= y
<1>1. \E x \in S : \A y \in S : ~ (<<y, x>> \in OpToRel(<, Nat))
  BY WFMin, NatLessThanWellFounded
<1>2. PICK x \in S : \A y \in S : ~ (y < x)
  BY <1>1 DEF OpToRel
<1>3. \A y \in S : x <= y
  BY <1>2
<1> QED
  BY <1>3 DEF Min

\* f is what comes of a when h is taken again and again.
Iterates(f, h, a, T, D) ==
  /\ f \in [D -> T]
  /\ \A k \in D : f[k] = IF k = 0 THEN a ELSE h[f[k-1]]

\* There is such an f, as far as one likes.
LEMMA Iteration ==
  ASSUME NEW T, NEW a \in T, NEW h \in [T -> T], NEW n \in Nat
  PROVE  \E f : Iterates(f, h, a, T, 0..n)
<1> DEFINE G == {m \in Nat : \E f : Iterates(f, h, a, T, 0..m)}
<1>1. 0 \in G
  <2>1. Iterates([k \in 0..0 |-> a], h, a, T, 0..0)
    BY DEF Iterates
  <2> QED
    BY <2>1
<1>2. ASSUME NEW m \in Nat, m \in G PROVE m + 1 \in G
  <2>1. PICK f : Iterates(f, h, a, T, 0..m)
    BY <1>2
  <2> DEFINE g == [k \in 0..(m + 1) |-> IF k = m + 1 THEN h[f[m]] ELSE f[k]]
  <2>2. f[m] \in T /\ \A k \in 0..m : f[k] \in T
    BY <2>1 DEF Iterates
  <2>3. g \in [0..(m + 1) -> T]
    BY <2>2
  <2>4. ASSUME NEW k \in 0..(m + 1) PROVE g[k] = IF k = 0 THEN a ELSE h[g[k-1]]
    <3>1. CASE k = m + 1
      <4>1. g[k] = h[f[m]] /\ k - 1 = m /\ k - 1 \in 0..(m + 1) /\ k # 0 /\ k - 1 # m + 1
        BY <3>1
      <4> QED
        BY <4>1
    <3>2. CASE k # m + 1
      <4>1. k \in 0..m /\ g[k] = f[k]
        BY <3>2
      <4>2. k # 0 => k - 1 \in 0..(m + 1) /\ k - 1 # m + 1
        BY <3>2
      <4> QED
        BY <2>1, <4>1, <4>2 DEF Iterates
    <3> QED
      BY <3>1, <3>2
  <2>5. Iterates(g, h, a, T, 0..(m + 1))
    <3> HIDE DEF g
    <3> QED
      BY <2>3, <2>4 DEF Iterates
  <2> QED
    BY <2>5
<1>3. \A m \in Nat : m \in G
  <2> HIDE DEF G
  <2> QED
    BY <1>1, <1>2, SetInduction
<1> QED
  BY <1>3

-----------------------------------------------------------------------------
(* What a skill comes after, and how skills are put in order.              *)

Edges == [Capability -> SUBSET Capability]
N == Cardinality(Capability)

Further(edges, reach) ==
  [c \in Capability |-> reach[c] \cup UNION {edges[d] : d \in reach[c]}]

Reaches(reach, edges) ==
  reach = [n \in 0..N |-> IF n = 0 THEN edges ELSE Further(edges, reach[n-1])]

LEMMA CountIs == N \in Nat /\ \A S \in SUBSET Capability :
                   IsFiniteSet(S) /\ Cardinality(S) \in Nat /\ Cardinality(S) <= N
  BY PlanAssumption, FS_CardinalityType, FS_Subset DEF N

\* The ancestors are the last of the functions that get them.
LEMMA AncestorsAre ==
  ASSUME NEW edges \in Edges
  PROVE  \E reach : /\ reach \in [0..N -> Edges]
                    /\ \A n \in 0..N :
                         reach[n] = IF n = 0 THEN edges ELSE Further(edges, reach[n-1])
                    /\ Ancestors(edges) = reach[N]
<1> DEFINE h == [r \in Edges |-> Further(edges, r)]
<1>0. N \in Nat
  BY CountIs
<1>1. h \in [Edges -> Edges]
  BY DEF Edges, Further
<1>2. PICK f : Iterates(f, h, edges, Edges, 0..N)
  <2> HIDE DEF h
  <2> QED
    BY <1>0, <1>1, Iteration
<1>3. /\ f \in [0..N -> Edges]
      /\ \A k \in 0..N : f[k] = IF k = 0 THEN edges ELSE h[f[k-1]]
  BY <1>2 DEF Iterates
<1>4. \A k \in 0..N : k # 0 => h[f[k-1]] = Further(edges, f[k-1])
  BY <1>0, <1>3
<1> HIDE DEF h
<1>5. Reaches(f, edges)
  BY <1>3, <1>4 DEF Reaches
<1>6. Ancestors(edges) = (CHOOSE r : Reaches(r, edges))[N]
  BY DEF Ancestors, Reaches, N, Further
<1> DEFINE g == CHOOSE r : Reaches(r, edges)
<1>7. Reaches(g, edges)
  BY <1>5
<1> HIDE DEF g
<1>8. /\ DOMAIN g = 0..N
      /\ \A n \in 0..N : g[n] = IF n = 0 THEN edges ELSE Further(edges, g[n-1])
      /\ g = [n \in 0..N |-> g[n]]
  BY <1>7 DEF Reaches
<1> DEFINE G == {n \in Nat : n <= N => g[n] \in Edges}
<1>9. 0 \in G
  <2>1. 0 \in 0..N
    BY <1>0
  <2>2. g[0] = edges
    BY <1>8, <2>1
  <2>3. g[0] \in Edges
    BY <2>2
  <2> QED
    BY <2>3
<1>10. ASSUME NEW n \in Nat, n \in G PROVE n + 1 \in G
  <2> SUFFICES ASSUME n + 1 <= N PROVE g[n + 1] \in Edges
    OBVIOUS
  <2>1. n + 1 \in 0..N /\ n + 1 # 0 /\ (n + 1) - 1 = n /\ g[n] \in Edges
    BY <1>0, <1>10
  <2>2. g[n + 1] = Further(edges, g[n])
    BY <1>8, <2>1
  <2> QED
    BY <2>1, <2>2 DEF Edges, Further
<1>11. \A n \in Nat : n \in G
  <2> HIDE DEF G
  <2> QED
    BY <1>9, <1>10, SetInduction
<1>12. g \in [0..N -> Edges]
  BY <1>0, <1>8, <1>11
<1> QED
  BY <1>6, <1>8, <1>12 DEF g

\* The ancestors of a skill are closed, because a step that finds something new
\* finds at least one more skill, and they are the least such set.
LEMMA AncestorsClosed ==
  ASSUME NEW edges \in Edges, NEW c \in Capability
  PROVE  /\ Ancestors(edges)[c] \subseteq Capability
         /\ edges[c] \subseteq Ancestors(edges)[c]
         /\ \A d \in Ancestors(edges)[c] : edges[d] \subseteq Ancestors(edges)[c]
<1>0. N \in Nat
  BY CountIs
<1>1. PICK reach : /\ reach \in [0..N -> Edges]
                   /\ \A n \in 0..N :
                        reach[n] = IF n = 0 THEN edges ELSE Further(edges, reach[n-1])
                   /\ Ancestors(edges) = reach[N]
  BY AncestorsAre
<1> DEFINE Closed(S) == \A d \in S : edges[d] \subseteq S
           G == {n \in Nat : n <= N =>
                   /\ edges[c] \subseteq reach[n][c]
                   /\ Closed(reach[n][c]) \/ Cardinality(reach[n][c]) >= n + 1}
<1>2. \A n \in 0..N : reach[n][c] \in SUBSET Capability
  BY <1>1 DEF Edges
<1>3. \A n \in 0..N : /\ IsFiniteSet(reach[n][c])
                      /\ Cardinality(reach[n][c]) \in Nat /\ Cardinality(reach[n][c]) <= N
  BY <1>2, CountIs
<1>4. 0 \in G
  <2>1. reach[0][c] = edges[c] /\ 0 \in 0..N
    BY <1>0, <1>1
  <2>2. Closed(reach[0][c]) \/ reach[0][c] # {}
    OBVIOUS
  <2>3. reach[0][c] # {} => Cardinality(reach[0][c]) >= 0 + 1
    <3>1. reach[0][c] # {} => Cardinality(reach[0][c]) # 0
      BY <1>3, <2>1, FS_EmptySet
    <3> QED
      BY <1>3, <2>1, <3>1
  <2> QED
    BY <2>1, <2>2, <2>3
<1>5. ASSUME NEW n \in Nat, n \in G PROVE n + 1 \in G
  <2> SUFFICES ASSUME n + 1 <= N
               PROVE  /\ edges[c] \subseteq reach[n + 1][c]
                      /\ Closed(reach[n + 1][c]) \/ Cardinality(reach[n + 1][c]) >= (n + 1) + 1
    OBVIOUS
  <2>1. n \in 0..N /\ n + 1 \in 0..N /\ n + 1 # 0 /\ (n + 1) - 1 = n
    BY <1>0
  <2> DEFINE A == reach[n][c]
             B == reach[n + 1][c]
  <2>2. B = A \cup UNION {edges[d] : d \in A}
    BY <1>1, <2>1 DEF Further
  <2>3. edges[c] \subseteq A /\ (Closed(A) \/ Cardinality(A) >= n + 1)
    BY <1>0, <1>5, <2>1
  <2>4. /\ IsFiniteSet(A) /\ Cardinality(A) \in Nat
        /\ IsFiniteSet(B) /\ Cardinality(B) \in Nat
    BY <1>3, <2>1
  <2> HIDE DEF A, B
  <2>5. edges[c] \subseteq B
    BY <2>2, <2>3
  <2>6. CASE Closed(A)
    <3>1. B = A
      BY <2>2, <2>6
    <3> QED
      BY <2>5, <2>6, <3>1 DEF B
  <2>7. CASE ~Closed(A)
    <3>1. PICK x \in B : x \notin A
      BY <2>2, <2>7
    <3>2. A \in SUBSET (B \ {x})
      BY <2>2, <3>1
    <3>3. IsFiniteSet(B \ {x}) /\ Cardinality(B \ {x}) = Cardinality(B) - 1
      BY <2>4, <3>1, FS_RemoveElement, Zenon
    <3>4. Cardinality(A) <= Cardinality(B \ {x})
      BY <3>2, <3>3, FS_Subset
    <3>5. Cardinality(B) >= (n + 1) + 1
      BY <2>3, <2>4, <2>7, <3>3, <3>4
    <3> QED
      BY <2>5, <3>5 DEF B
  <2> QED
    BY <2>6, <2>7
<1>6. \A n \in Nat : n \in G
  <2> HIDE DEF G
  <2> QED
    BY <1>4, <1>5, SetInduction
<1>7. N \in G /\ N \in 0..N
  BY <1>0, <1>6
<1> QED
  BY <1>0, <1>1, <1>2, <1>3, <1>7

\* Whatever closed set holds the required holds the ancestors.
LEMMA AncestorsLeast ==
  ASSUME NEW edges \in Edges, NEW c \in Capability,
         NEW S, edges[c] \subseteq S, \A d \in S : edges[d] \subseteq S
  PROVE  Ancestors(edges)[c] \subseteq S
<1>0. N \in Nat
  BY CountIs
<1>1. PICK reach : /\ reach \in [0..N -> Edges]
                   /\ \A n \in 0..N :
                        reach[n] = IF n = 0 THEN edges ELSE Further(edges, reach[n-1])
                   /\ Ancestors(edges) = reach[N]
  BY AncestorsAre
<1> DEFINE G == {n \in Nat : n <= N => reach[n][c] \subseteq S}
<1>2. 0 \in G
  <2>1. reach[0] = edges
    BY <1>0, <1>1
  <2> QED
    BY <2>1
<1>3. ASSUME NEW n \in Nat, n \in G PROVE n + 1 \in G
  <2> SUFFICES ASSUME n + 1 <= N PROVE reach[n + 1][c] \subseteq S
    OBVIOUS
  <2>1. n \in 0..N /\ n + 1 \in 0..N /\ n + 1 # 0 /\ (n + 1) - 1 = n /\ reach[n][c] \subseteq S
    BY <1>0, <1>3
  <2>2. reach[n + 1][c] = reach[n][c] \cup UNION {edges[d] : d \in reach[n][c]}
    BY <1>1, <2>1 DEF Further
  <2> QED
    BY <2>1, <2>2
<1>4. \A n \in Nat : n \in G
  <2> HIDE DEF G
  <2> QED
    BY <1>2, <1>3, SetInduction
<1> QED
  BY <1>0, <1>1, <1>4

\* Where no skill comes after itself one of any that are left may run: one with
\* the fewest ancestors.
LEMMA SomeReady ==
  ASSUME NEW edges \in Edges, ~detectCycle(edges), NEW done, ~(Capability \subseteq done)
  PROVE  Ready(edges, done) # {}
<1> DEFINE Left == Capability \ done
           A(c) == Ancestors(edges)[c]
           Sizes == {Cardinality(A(c)) : c \in Left}
<1>1. \A c \in Capability : /\ A(c) \in SUBSET Capability
                            /\ IsFiniteSet(A(c)) /\ Cardinality(A(c)) \in Nat
  BY AncestorsClosed, CountIs
<1>2. Sizes \in SUBSET Nat /\ Sizes # {}
  BY <1>1
<1>3. Min(Sizes) \in Sizes /\ \A y \in Sizes : Min(Sizes) <= y
  BY <1>2, Least
<1>4. PICK c \in Left : \A d \in Left : Cardinality(A(c)) <= Cardinality(A(d))
  BY <1>3
<1>5. c \in Capability /\ c \notin done
  OBVIOUS
<1> HIDE DEF Sizes
<1>6. SUFFICES ASSUME NEW d \in edges[c], d \notin done PROVE FALSE
  BY <1>5 DEF Ready
<1>7. d \in Left /\ d \in Capability /\ d \in A(c)
  BY <1>5, <1>6, AncestorsClosed DEF Edges
<1>8. /\ \A e \in A(c) : edges[e] \subseteq A(c)
      /\ edges[d] \subseteq A(c)
  BY <1>5, <1>7, AncestorsClosed
<1>9. A(d) \subseteq A(c)
  BY <1>7, <1>8, AncestorsLeast
<1>10. d \notin A(d)
  BY <1>7 DEF detectCycle
<1>11. /\ IsFiniteSet(A(c)) /\ Cardinality(A(c)) \in Nat /\ Cardinality(A(d)) \in Nat
       /\ Cardinality(A(c)) <= Cardinality(A(d))
  BY <1>1, <1>4, <1>5, <1>7
<1> HIDE DEF A
<1>12. /\ A(d) \in SUBSET A(c) /\ A(d) # A(c)
  BY <1>7, <1>9, <1>10
<1>13. Cardinality(A(d)) <= Cardinality(A(c)) /\ (Cardinality(A(c)) = Cardinality(A(d)) => A(c) = A(d))
  BY <1>11, <1>12, FS_Subset
<1> QED
  BY <1>11, <1>12, <1>13

Onward(edges, s) == Append(s, Min(Ready(edges, ToSet(s))))

\* n skills in an order, each after those it needs.
Sorted(s, edges, n) ==
  /\ s \in Seq(Capability) /\ Len(s) = n /\ Cardinality(ToSet(s)) = n
  /\ \A i \in 1..n : edges[s[i]] \subseteq {s[j] : j \in 1..(i - 1)}

\* The order grows by the least ready skill.
LEMMA OrderIs ==
  ASSUME NEW edges \in Edges, ~detectCycle(edges)
  PROVE  \E order : /\ order[0] = <<>>
                    /\ \A n \in Nat : n + 1 <= N => order[n + 1] = Onward(edges, order[n])
                    /\ topoSort(edges) = order[N]
<1> DEFINE T == Seq(Capability \cup {Min({})})
           h == [s \in T |-> Onward(edges, s)]
           Is(f) == f = [n \in 0..N |-> IF n = 0 THEN <<>> ELSE Onward(edges, f[n-1])]
<1>0. N \in Nat
  BY CountIs
<1>1. h \in [T -> T] /\ <<>> \in T
  <2>1. ASSUME NEW s \in T PROVE Onward(edges, s) \in T
    <3>1. Ready(edges, ToSet(s)) \in SUBSET Capability /\ Capability \in SUBSET Nat
      BY PlanAssumption DEF Ready
    <3>2. Min(Ready(edges, ToSet(s))) \in Capability \cup {Min({})}
      BY <3>1, Least
    <3> QED
      BY <3>2 DEF Onward
  <2> HIDE DEF T
  <2>2. h \in [T -> T]
    BY <2>1
  <2>3. <<>> \in T
    BY DEF T
  <2> QED
    BY <2>2, <2>3
<1>2. PICK f : Iterates(f, h, <<>>, T, 0..N)
  <2> HIDE DEF h, T
  <2> QED
    BY <1>0, <1>1, Iteration
<1> HIDE DEF T
<1>3. /\ f \in [0..N -> T]
      /\ \A k \in 0..N : f[k] = IF k = 0 THEN <<>> ELSE h[f[k-1]]
  BY <1>2 DEF Iterates
<1>4. \A k \in 0..N : k # 0 => h[f[k-1]] = Onward(edges, f[k-1])
  BY <1>0, <1>3
<1> HIDE DEF h
<1>5. Is(f)
  BY <1>3, <1>4
<1>6. topoSort(edges) = (CHOOSE g : Is(g))[N]
  BY DEF topoSort, Onward, N
<1> DEFINE g == CHOOSE r : Is(r)
<1>7. Is(g)
  BY <1>5
<1> HIDE DEF g
<1>8. \A n \in 0..N : g[n] = IF n = 0 THEN <<>> ELSE Onward(edges, g[n-1])
  BY <1>7
<1>9. ASSUME NEW n \in Nat, n + 1 <= N PROVE g[n + 1] = Onward(edges, g[n])
  <2>1. n + 1 \in 0..N /\ n + 1 # 0 /\ (n + 1) - 1 = n
    BY <1>0, <1>9
  <2> QED
    BY <1>8, <2>1
<1>10. g[0] = <<>>
  <2>1. 0 \in 0..N
    BY <1>0
  <2> QED
    BY <1>8, <2>1
<1> QED
  BY <1>6, <1>9, <1>10 DEF g

\* One more skill, and it is still in order.
LEMMA OneMore ==
  ASSUME NEW edges \in Edges, ~detectCycle(edges), NEW n \in Nat, n + 1 <= N,
         NEW s, Sorted(s, edges, n)
  PROVE  Sorted(Onward(edges, s), edges, n + 1)
<1> DEFINE c == Min(Ready(edges, ToSet(s)))
           t == Append(s, c)
<1>0. N \in Nat /\ Capability \in SUBSET Nat
  BY CountIs, PlanAssumption
<1>1. /\ s \in Seq(Capability) /\ Len(s) = n /\ Cardinality(ToSet(s)) = n
      /\ \A i \in 1..n : edges[s[i]] \subseteq {s[j] : j \in 1..(i - 1)}
  BY DEF Sorted
<1>2. ToSet(s) = {s[j] : j \in 1..n} /\ ToSet(s) \in SUBSET Capability
  BY <1>1 DEF ToSet
<1>3. IsFiniteSet(ToSet(s)) /\ ~(Capability \subseteq ToSet(s))
  <2>1. IsFiniteSet(ToSet(s))
    BY <1>2, CountIs
  <2>2. ToSet(s) # Capability
    BY <1>0, <1>1 DEF N
  <2> QED
    BY <1>2, <2>1, <2>2
<1>4. Ready(edges, ToSet(s)) # {} /\ Ready(edges, ToSet(s)) \in SUBSET Nat
  BY <1>0, <1>3, SomeReady DEF Ready
<1>5. c \in Ready(edges, ToSet(s))
  BY <1>4, Least
<1>6. c \in Capability /\ c \notin ToSet(s) /\ edges[c] \subseteq ToSet(s)
  BY <1>5 DEF Ready
<1> HIDE DEF c
<1>7. t \in Seq(Capability) /\ Len(t) = n + 1 /\ t[n + 1] = c /\ \A i \in 1..n : t[i] = s[i]
  BY <1>1, <1>6
<1> HIDE DEF t
<1>8. ToSet(t) = ToSet(s) \cup {c}
  <2>1. ToSet(t) = {t[j] : j \in 1..(n + 1)}
    BY <1>7 DEF ToSet
  <2>2. \A j \in 1..(n + 1) : j \in 1..n \/ j = n + 1
    OBVIOUS
  <2>3. n + 1 \in 1..(n + 1) /\ \A j \in 1..n : j \in 1..(n + 1)
    OBVIOUS
  <2> QED
    BY <1>2, <1>7, <2>1, <2>2, <2>3
<1>9. Cardinality(ToSet(t)) = n + 1
  <2>1. Cardinality(ToSet(s) \cup {c}) = Cardinality(ToSet(s)) + 1
    BY <1>3, <1>6, FS_AddElement, ZenonT(60)
  <2> QED
    BY <1>1, <1>8, <2>1
<1>10. ASSUME NEW i \in 1..(n + 1)
       PROVE  edges[t[i]] \subseteq {t[j] : j \in 1..(i - 1)}
  <2>1. CASE i = n + 1
    <3>1. t[i] = c /\ i - 1 = n
      BY <1>7, <2>1
    <3>2. {t[j] : j \in 1..n} = ToSet(s)
      BY <1>2, <1>7
    <3> QED
      BY <1>6, <3>1, <3>2
  <2>2. CASE i # n + 1
    <3>1. i \in 1..n /\ t[i] = s[i]
      BY <1>7, <2>2
    <3>2. \A j \in 1..(i - 1) : j \in 1..n
      BY <3>1
    <3>3. {t[j] : j \in 1..(i - 1)} = {s[j] : j \in 1..(i - 1)}
      BY <1>7, <3>2
    <3> QED
      BY <1>1, <3>1, <3>3
  <2> QED
    BY <2>1, <2>2
<1>11. Onward(edges, s) = t
  BY DEF Onward, t, c
<1> QED
  BY <1>7, <1>9, <1>10, <1>11 DEF Sorted

\* Without a circle the order has every skill after those it needs.
LEMMA TopoSorted ==
  ASSUME NEW edges \in Edges, ~detectCycle(edges)
  PROVE  Sorted(topoSort(edges), edges, N)
<1>0. N \in Nat
  BY CountIs
<1>1. PICK order : /\ order[0] = <<>>
                   /\ \A n \in Nat : n + 1 <= N => order[n + 1] = Onward(edges, order[n])
                   /\ topoSort(edges) = order[N]
  BY OrderIs
<1> DEFINE G == {n \in Nat : n <= N => Sorted(order[n], edges, n)}
<1>2. 0 \in G
  <2>1. ToSet(<<>>) = {}
    BY DEF ToSet
  <2>2. Cardinality({}) = 0
    BY FS_EmptySet
  <2>3. <<>> \in Seq(Capability) /\ Len(<<>>) = 0 /\ \A i \in 1..0 : FALSE
    OBVIOUS
  <2>4. Sorted(<<>>, edges, 0)
    BY <2>1, <2>2, <2>3, Zenon DEF Sorted
  <2> QED
    BY <1>1, <2>4
<1>3. ASSUME NEW n \in Nat, n \in G PROVE n + 1 \in G
  <2> SUFFICES ASSUME n + 1 <= N PROVE Sorted(order[n + 1], edges, n + 1)
    OBVIOUS
  <2>1. Sorted(order[n], edges, n)
    BY <1>0, <1>3
  <2>2. Sorted(Onward(edges, order[n]), edges, n + 1)
    BY <2>1, OneMore
  <2> QED
    BY <1>1, <2>2
<1>4. \A n \in Nat : n \in G
  <2> HIDE DEF G
  <2> QED
    BY <1>2, <1>3, SetInduction
<1> QED
  BY <1>0, <1>1, <1>4

-----------------------------------------------------------------------------
(* The plan of skills.                                                     *)

Fits(order) ==
  /\ ToSet(order) = Capability /\ Len(order) = Cardinality(Capability)
  /\ \A n \in DOMAIN order :
       requires[order[n]] \cap Capability \subseteq ToSet(SubSeq(order, 1, n - 1))

RequiresTyped == requires \in [Capability -> SUBSET Needed]

LEMMA EarlierIs ==
  ASSUME NEW order \in Seq(Capability), NEW n \in DOMAIN order
  PROVE  ToSet(SubSeq(order, 1, n - 1)) = {order[j] : j \in 1..(n - 1)}
<1> DEFINE s == SubSeq(order, 1, n - 1)
<1>1. n \in Nat /\ n >= 1 /\ n <= Len(order) /\ n - 1 \in Nat
  OBVIOUS
<1>2. s \in Seq(Capability) /\ Len(s) = n - 1 /\ \A j \in 1..(n - 1) : s[j] = order[j]
  BY <1>1
<1> HIDE DEF s
<1>3. DOMAIN s = 1..(n - 1)
  BY <1>2
<1>4. ToSet(s) = {order[j] : j \in 1..(n - 1)}
  BY <1>2, <1>3 DEF ToSet
<1> QED
  BY <1>4 DEF s

LEMMA GraphTyped ==
  ASSUME RequiresTyped
  PROVE  buildSkillGraph \in Edges /\ \A c \in Capability : buildSkillGraph[c] = requires[c] \cap Capability
  BY DEF RequiresTyped, buildSkillGraph, Edges

\* An order without a circle fits what the skills require.
LEMMA SortFits ==
  ASSUME RequiresTyped, ~detectCycle(buildSkillGraph)
  PROVE  Fits(topoSort(buildSkillGraph))
<1> DEFINE edges == buildSkillGraph
           s == topoSort(edges)
<1>1. edges \in Edges /\ \A c \in Capability : edges[c] = requires[c] \cap Capability
  BY GraphTyped
<1>2. Sorted(s, edges, N)
  BY <1>1, TopoSorted
<1> HIDE DEF s, edges
<1>3. /\ s \in Seq(Capability) /\ Len(s) = N /\ Cardinality(ToSet(s)) = N /\ N \in Nat
      /\ \A i \in 1..N : edges[s[i]] \subseteq {s[j] : j \in 1..(i - 1)}
  BY <1>2, CountIs DEF Sorted
<1>4. ToSet(s) \in SUBSET Capability
  BY <1>3 DEF ToSet
<1>5. ToSet(s) = Capability
  BY <1>3, <1>4, FS_Subset, PlanAssumption DEF N
<1>6. ASSUME NEW n \in DOMAIN s
      PROVE  requires[s[n]] \cap Capability \subseteq ToSet(SubSeq(s, 1, n - 1))
  <2>1. n \in 1..N /\ s[n] \in Capability
    BY <1>3
  <2>2. ToSet(SubSeq(s, 1, n - 1)) = {s[j] : j \in 1..(n - 1)}
    BY <1>3, EarlierIs
  <2> QED
    BY <1>1, <1>3, <2>1, <2>2
<1>7. Fits(s)
  BY <1>3, <1>5, <1>6 DEF Fits, N
<1> QED
  BY <1>7 DEF s, edges

\* Where some order fits there is no circle: what a skill comes after is before
\* it in that order.
LEMMA FitsNoCircle ==
  ASSUME RequiresTyped, NEW order \in SetToSeqs(Capability), Fits(order)
  PROVE  ~detectCycle(buildSkillGraph)
<1> DEFINE edges == buildSkillGraph
<1>1. edges \in Edges /\ \A c \in Capability : edges[c] = requires[c] \cap Capability
  BY GraphTyped
<1> HIDE DEF edges
<1>2. SUFFICES ASSUME NEW c \in Capability, c \in Ancestors(edges)[c] PROVE FALSE
  BY DEF detectCycle, edges
<1>3. /\ N \in Nat /\ order \in [1..N -> Capability]
      /\ \A i, j \in 1..N : i # j => order[i] # order[j]
  BY CountIs DEF SetToSeqs, N
<1>4. order \in Seq(Capability) /\ DOMAIN order = 1..N
  BY <1>3
<1>5. ToSet(order) = Capability
  BY DEF Fits
<1>6. PICK p \in 1..N : order[p] = c
  BY <1>3, <1>5 DEF ToSet
<1>7. \A n \in 1..N : edges[order[n]] \subseteq {order[j] : j \in 1..(n - 1)}
  <2> TAKE n \in 1..N
  <2>1. requires[order[n]] \cap Capability \subseteq ToSet(SubSeq(order, 1, n - 1))
    BY <1>4 DEF Fits
  <2>2. ToSet(SubSeq(order, 1, n - 1)) = {order[j] : j \in 1..(n - 1)}
    BY <1>4, EarlierIs
  <2> QED
    BY <1>1, <1>3, <2>1, <2>2
<1> DEFINE S == {order[j] : j \in 1..(p - 1)}
<1>8. edges[c] \subseteq S
  BY <1>6, <1>7
<1>9. ASSUME NEW d \in S PROVE edges[d] \subseteq S
  <2>1. PICK j \in 1..(p - 1) : d = order[j]
    OBVIOUS
  <2>2. j \in 1..N /\ \A k \in 1..(j - 1) : k \in 1..(p - 1)
    BY <1>3
  <2> QED
    BY <1>7, <2>1, <2>2
<1> HIDE DEF S
<1>10. c \in S
  BY <1>1, <1>2, <1>8, <1>9, AncestorsLeast
<1>11. PICK j \in 1..(p - 1) : c = order[j]
  BY <1>10 DEF S
<1>12. j \in 1..N /\ j # p
  BY <1>3
<1> QED
  BY <1>3, <1>6, <1>11, <1>12

\* A plan was made of what the skills require and what is produced now.
PlanIsCurrent == RequiresTyped /\ (plan = NoPlan \/ plan = planExecution)

LEMMA PlanNextKeeps == PlanIsCurrent /\ [PlanNext]_planVars => PlanIsCurrent'
<1> SUFFICES ASSUME PlanIsCurrent, [PlanNext]_planVars PROVE PlanIsCurrent'
  OBVIOUS
<1> USE DEF PlanIsCurrent, RequiresTyped
<1>1. CASE Declare
  <2>1. PICK c \in Capability : \E needs \in SUBSET MayRequire[c] :
           requires' = [requires EXCEPT ![c] = needs] /\ plan' = NoPlan
    BY <1>1 DEF Declare
  <2>2. MayRequire[c] \subseteq Needed
    BY PlanAssumption DEF Needed
  <2> QED
    BY <2>1, <2>2
<1>2. CASE PlanNow
  <2>1. requires' = requires /\ produced' = produced /\ plan' = planExecution
    BY <1>2 DEF PlanNow
  <2>2. planExecution' = planExecution
    BY <2>1 DEF planExecution, buildSkillGraph, validateActivation
  <2> QED
    BY <2>1, <2>2
<1>3. CASE preserveStateAcrossTransition
  BY <1>3 DEF preserveStateAcrossTransition
<1>4. CASE recordExecutedGraph \/ RouteLayers \/ UNCHANGED planVars
  <2>1. requires' = requires /\ produced' = produced /\ plan' = plan
    BY <1>4 DEF recordExecutedGraph, RouteLayers, planVars
  <2>2. planExecution' = planExecution
    BY <2>1 DEF planExecution, buildSkillGraph, validateActivation
  <2> QED
    BY <2>1, <2>2
<1> QED
  BY <1>1, <1>2, <1>3, <1>4 DEF PlanNext, PlanningNext

LEMMA CurrentIsOrdered == PlanIsCurrent => PlanIsOrdered
<1> SUFFICES ASSUME PlanIsCurrent, plan # NoPlan
             PROVE  /\ plan.ok => \A c \in Capability : requires[c] \subseteq Capability \cup produced
                    /\ (plan.ok \/ \E order \in SetToSeqs(Capability) : Fits(order)) => Fits(plan.order)
  BY DEF PlanIsOrdered, Fits
<1>1. RequiresTyped /\ plan = planExecution
  BY DEF PlanIsCurrent
<1>2. /\ plan.ok = (/\ ~ \E c \in Capability : ~(requires[c] \subseteq Capability \cup produced)
                    /\ ~detectCycle(buildSkillGraph))
      /\ plan.order = topoSort(buildSkillGraph)
  BY <1>1 DEF planExecution
<1>3. ~detectCycle(buildSkillGraph) => Fits(plan.order)
  BY <1>1, <1>2, SortFits
<1>4. (\E order \in SetToSeqs(Capability) : Fits(order)) => ~detectCycle(buildSkillGraph)
  BY <1>1, FitsNoCircle
<1> QED
  BY <1>2, <1>3, <1>4

\* Every plan that is said to work has each skill once, after those it
\* requires, and wherever such an order exists planExecution finds one.
THEOREM AlwaysPlanIsOrdered == PlanSpec => []PlanIsOrdered
<1>1. PlanInit => PlanIsCurrent
  BY DEF PlanInit, PlanIsCurrent, RequiresTyped
<1> QED
  BY <1>1, PlanNextKeeps, CurrentIsOrdered, PTL DEF PlanSpec

-----------------------------------------------------------------------------
(* What passes a test.                                                     *)

Passes(f, s, T) ==
  f = [n \in 0..Len(s) |-> IF n = 0 THEN <<>>
                           ELSE IF n \in T THEN Append(f[n-1], s[n]) ELSE f[n-1]]

\* Of s, the members at the places in T, each once if s has it once.
Picks(r, s, T) ==
  /\ \A k \in DOMAIN r : \E i \in T \cap DOMAIN s : r[k] = s[i]
  /\ \A i \in T \cap DOMAIN s : \E k \in DOMAIN r : r[k] = s[i]
  /\ (\A i, j \in DOMAIN s : s[i] = s[j] => i = j)
       => \A k, l \in DOMAIN r : r[k] = r[l] => k = l

\* Passing is some function that does it place by place.
LEMMA PassingExists ==
  ASSUME NEW A, NEW s \in Seq(A), NEW T
  PROVE  \E f : Passes(f, s, T)
<1> DEFINE Run(f, m) ==
             /\ f \in [0..m -> Seq(A)]
             /\ \A n \in 0..m : f[n] = IF n = 0 THEN <<>>
                  ELSE IF n \in T THEN Append(f[n-1], s[n]) ELSE f[n-1]
           G == {m \in Nat : m <= Len(s) => \E f : Run(f, m)}
<1>0. Len(s) \in Nat /\ \A n \in 1..Len(s) : s[n] \in A
  OBVIOUS
<1>1. 0 \in G
  <2> DEFINE f == [n \in 0..0 |-> <<>>]
  <2>1. /\ f \in [0..0 -> Seq(A)]
        /\ \A n \in 0..0 : n = 0 /\ f[n] = <<>>
    OBVIOUS
  <2> HIDE DEF f
  <2>2. Run(f, 0)
    BY <2>1
  <2> HIDE DEF Run
  <2> QED
    BY <2>2
<1>2. ASSUME NEW m \in Nat, m \in G PROVE m + 1 \in G
  <2> SUFFICES ASSUME m + 1 <= Len(s)
               PROVE  \E f : Run(f, m + 1)
    OBVIOUS
  <2>0. \E f : Run(f, m)
    <3> HIDE DEF Run
    <3> QED
      BY <1>0, <1>2
  <2>1. PICK f : Run(f, m)
    BY <2>0
  <2> DEFINE last == IF m + 1 \in T THEN Append(f[m], s[m + 1]) ELSE f[m]
             g == [n \in 0..(m + 1) |-> IF n = m + 1 THEN last ELSE f[n]]
  <2>2. f[m] \in Seq(A) /\ s[m + 1] \in A
    BY <1>0, <2>1
  <2>3. last \in Seq(A)
    BY <2>2
  <2> HIDE DEF last
  <2>4. g \in [0..(m + 1) -> Seq(A)]
    BY <2>1, <2>3
  <2>5. /\ g[m + 1] = last /\ \A n \in 0..m : g[n] = f[n]
    OBVIOUS
  <2> HIDE DEF g
  <2>6. ASSUME NEW n \in 0..(m + 1)
        PROVE  g[n] = IF n = 0 THEN <<>>
                      ELSE IF n \in T THEN Append(g[n-1], s[n]) ELSE g[n-1]
    <3>1. CASE n = m + 1
      <4>1. n - 1 = m /\ n # 0 /\ m \in 0..m
        BY <3>1
      <4> QED
        BY <2>5, <3>1, <4>1 DEF last
    <3>2. CASE n # m + 1
      <4>1. n \in 0..m /\ (n # 0 => n - 1 \in 0..m)
        BY <3>2
      <4> QED
        BY <2>1, <2>5, <4>1
    <3> QED
      BY <3>1, <3>2
  <2>7. Run(g, m + 1)
    BY <2>4, <2>6
  <2> HIDE DEF Run
  <2> QED
    BY <2>7
<1>3. \A m \in Nat : m \in G
  <2> HIDE DEF G
  <2> QED
    BY <1>1, <1>2, SetInduction
<1>4. Len(s) \in G
  BY <1>0, <1>3
<1>5. PICK f : Run(f, Len(s))
  BY <1>0, <1>4
<1>6. Passes(f, s, T)
  BY <1>5 DEF Passes
<1> QED
  BY <1>6

\* It picks what passes and nothing else, once each.
LEMMA PassingPicks ==
  ASSUME NEW A, NEW s \in Seq(A), NEW T, NEW f, Passes(f, s, T)
  PROVE  f[Len(s)] \in Seq(A) /\ Picks(f[Len(s)], s, T)
<1>0. /\ Len(s) \in Nat /\ \A n \in 1..Len(s) : s[n] \in A
      /\ DOMAIN s = 1..Len(s)
  OBVIOUS
<1>1. \A n \in 0..Len(s) : f[n] = IF n = 0 THEN <<>>
        ELSE IF n \in T THEN Append(f[n-1], s[n]) ELSE f[n-1]
  BY DEF Passes
<1> DEFINE once == \A i, j \in DOMAIN s : s[i] = s[j] => i = j
           Good(r, m) ==
             /\ r \in Seq(A)
             /\ \A k \in DOMAIN r : \E i \in T \cap 1..m : r[k] = s[i]
             /\ \A i \in T \cap 1..m : \E k \in DOMAIN r : r[k] = s[i]
             /\ once => \A k, l \in DOMAIN r : r[k] = r[l] => k = l
           G == {m \in Nat : m <= Len(s) => Good(f[m], m)}
<1>2. 0 \in G
  <2>1. f[0] = <<>>
    BY <1>0, <1>1
  <2>2. Good(<<>>, 0)
    <3>1. <<>> \in Seq(A) /\ DOMAIN <<>> = {} /\ 1..0 = {}
      OBVIOUS
    <3> QED
      BY <3>1, Zenon
  <2> HIDE DEF Good
  <2> QED
    BY <2>1, <2>2
<1>3. ASSUME NEW m \in Nat, m \in G PROVE m + 1 \in G
  <2> SUFFICES ASSUME m + 1 <= Len(s) PROVE Good(f[m + 1], m + 1)
    OBVIOUS
  <2>1. m + 1 \in 0..Len(s) /\ m + 1 # 0 /\ (m + 1) - 1 = m /\ m + 1 \in DOMAIN s
    BY <1>0
  <2>2. Good(f[m], m)
    BY <1>0, <1>3
  <2>3. f[m + 1] = IF m + 1 \in T THEN Append(f[m], s[m + 1]) ELSE f[m]
    BY <1>1, <2>1
  <2>4. \A i \in 1..(m + 1) : i \in 1..m \/ i = m + 1
    OBVIOUS
  <2>5. \A i \in 1..m : i \in 1..(m + 1) /\ i # m + 1 /\ i \in DOMAIN s
    BY <1>0
  <2>6. CASE m + 1 \notin T
    <3>1. \A i : i \in T \cap 1..m <=> i \in T \cap 1..(m + 1)
      BY <2>4, <2>5, <2>6
    <3>2. T \cap 1..m = T \cap 1..(m + 1)
      BY <3>1
    <3> QED
      BY <2>2, <2>3, <2>6, <3>2
  <2>7. CASE m + 1 \in T
    <3> DEFINE r == f[m]
               t == Append(r, s[m + 1])
    <3>1. f[m + 1] = t /\ r \in Seq(A) /\ s[m + 1] \in A
      BY <1>0, <2>1, <2>2, <2>3, <2>7
    <3>2. /\ \A k \in DOMAIN r : \E i \in T \cap 1..m : r[k] = s[i]
          /\ \A i \in T \cap 1..m : \E k \in DOMAIN r : r[k] = s[i]
          /\ once => \A k, l \in DOMAIN r : r[k] = r[l] => k = l
      BY <2>2
    <3> HIDE DEF r
    <3>3. /\ t \in Seq(A) /\ DOMAIN t = 1..(Len(r) + 1) /\ Len(r) \in Nat /\ DOMAIN r = 1..Len(r)
          /\ t[Len(r) + 1] = s[m + 1] /\ \A k \in 1..Len(r) : t[k] = r[k]
      BY <3>1
    <3> HIDE DEF t, G
    <3>4. \A k \in DOMAIN t : k \in DOMAIN r \/ k = Len(r) + 1
      BY <3>3
    <3>5. Len(r) + 1 \in DOMAIN t /\ \A k \in DOMAIN r : k \in DOMAIN t
      BY <3>3
    <3>6. m + 1 \in 1..(m + 1)
      OBVIOUS
    <3>7. ASSUME NEW k \in DOMAIN t PROVE \E i \in T \cap 1..(m + 1) : t[k] = s[i]
      <4>1. CASE k = Len(r) + 1
        BY <2>7, <3>3, <3>6, <4>1
      <4>2. CASE k \in DOMAIN r
        <5>1. PICK i \in T \cap 1..m : r[k] = s[i]
          BY <3>2, <4>2
        <5> QED
          BY <2>5, <3>3, <4>2, <5>1
      <4> QED
        BY <3>4, <4>1, <4>2
    <3>8. ASSUME NEW i \in T \cap 1..(m + 1) PROVE \E k \in DOMAIN t : t[k] = s[i]
      <4>1. CASE i = m + 1
        BY <3>3, <3>5, <4>1
      <4>2. CASE i # m + 1
        <5>1. i \in T \cap 1..m
          BY <2>4, <4>2
        <5>2. PICK k \in DOMAIN r : r[k] = s[i]
          BY <3>2, <5>1
        <5> QED
          BY <3>3, <3>5, <5>2
      <4> QED
        BY <4>1, <4>2
    <3>9. ASSUME once, NEW k \in DOMAIN r PROVE r[k] # s[m + 1]
      <4>1. PICK i \in T \cap 1..m : r[k] = s[i]
        BY <3>2
      <4>2. i \in DOMAIN s /\ i # m + 1
        BY <2>5
      <4> QED
        BY <2>1, <3>9, <4>1, <4>2
    <3>10. ASSUME once, NEW k \in DOMAIN t, NEW l \in DOMAIN t, t[k] = t[l] PROVE k = l
      <4>1. CASE k \in DOMAIN r /\ l \in DOMAIN r
        BY <3>2, <3>3, <3>10, <4>1
      <4>2. CASE k \in DOMAIN r /\ l = Len(r) + 1
        BY <3>3, <3>9, <3>10, <4>2
      <4>3. CASE l \in DOMAIN r /\ k = Len(r) + 1
        BY <3>3, <3>9, <3>10, <4>3
      <4> QED
        BY <3>4, <4>1, <4>2, <4>3
    <3>11. Good(t, m + 1)
      BY <3>3, <3>7, <3>8, <3>10
    <3> QED
      BY <3>1, <3>11
  <2> QED
    BY <2>6, <2>7
<1>4. \A m \in Nat : m \in G
  <2> HIDE DEF G
  <2> QED
    BY <1>2, <1>3, SetInduction
<1>5. Good(f[Len(s)], Len(s))
  BY <1>0, <1>4
<1> QED
  BY <1>0, <1>5 DEF Picks

-----------------------------------------------------------------------------
(* What is taken for granted, and what is asked.                           *)

\* All that a prompt may take for granted.
Granted == <<"adds", "performance", "authentication", "cache", "nest-auth", "angular-service">>
Uncertain == [id: Nat, text: Statement, critical: BOOLEAN]

LEMMA GrantedIs ==
  /\ Granted \in Seq(Statement) /\ Len(Granted) = 6 /\ DOMAIN Granted = 1..6
  /\ \A i, j \in 1..6 : Granted[i] = Granted[j] => i = j
<1>1. Granted \in Seq(Statement) /\ Len(Granted) = 6
  BY DEF Granted, Statement
<1>2. /\ Granted[1] = "adds" /\ Granted[2] = "performance" /\ Granted[3] = "authentication"
      /\ Granted[4] = "cache" /\ Granted[5] = "nest-auth" /\ Granted[6] = "angular-service"
  BY DEF Granted
<1>3. \A i \in 1..6 : i = 1 \/ i = 2 \/ i = 3 \/ i = 4 \/ i = 5 \/ i = 6
  OBVIOUS
<1> QED
  BY <1>1, <1>2, <1>3

\* The assumptions of a prompt are statements, each once.
LEMMA AuditIs ==
  ASSUME NEW words
  PROVE  /\ auditAssumptions(words) \in Seq(Statement)
         /\ \A k, l \in DOMAIN auditAssumptions(words) :
              auditAssumptions(words)[k] = auditAssumptions(words)[l] => k = l
<1> DEFINE Holds(s) == CASE s = "adds" -> "add" \in words /\ "already" \notin words
                         [] s = "nest-auth" -> inspectProject.nest /\ "auth" \in words
                         [] s = "angular-service" -> inspectProject.angular /\ "service" \in words
                         [] OTHER -> s \in words
           T == {n \in 1..6 : Holds(Granted[n])}
           Is(f) == f = [n \in 0..Len(Granted) |->
                           IF n = 0 THEN <<>>
                           ELSE IF Holds(Granted[n]) THEN Append(f[n-1], Granted[n]) ELSE f[n-1]]
<1>1. auditAssumptions(words) = (CHOOSE f : Is(f))[Len(Granted)]
  BY DEF auditAssumptions, Passing, Granted
<1> HIDE DEF Holds
<1>2. ASSUME NEW f PROVE Is(f) <=> Passes(f, Granted, T)
  <2>1. \A n \in 0..Len(Granted) : n # 0 => (n \in T <=> Holds(Granted[n]))
    BY GrantedIs
  <2> HIDE DEF T
  <2> QED
    BY <2>1 DEF Passes
<1>3. \E f : Is(f)
  BY <1>2, GrantedIs, PassingExists
<1>4. PICK f : Is(f) /\ auditAssumptions(words) = f[Len(Granted)]
  BY <1>1, <1>3
<1>5. Passes(f, Granted, T)
  BY <1>2, <1>4
<1>6. auditAssumptions(words) \in Seq(Statement) /\ Picks(auditAssumptions(words), Granted, T)
  <2> HIDE DEF T
  <2>1. Granted \in Seq(Statement)
    BY GrantedIs
  <2>2. f[Len(Granted)] \in Seq(Statement) /\ Picks(f[Len(Granted)], Granted, T)
    BY <1>5, <2>1, PassingPicks
  <2> QED
    BY <1>4, <2>2
<1> QED
  BY <1>6, GrantedIs DEF Picks

\* The uncertainties start with the assumptions, in their places.
LEMMA UncertaintiesAre ==
  ASSUME NEW words
  PROVE  /\ uncertainties(words) \in Seq(Uncertain)
         /\ \A m \in DOMAIN auditAssumptions(words) :
              /\ m \in DOMAIN uncertainties(words)
              /\ uncertainties(words)[m].text = auditAssumptions(words)[m]
              /\ classifyUncertainty(auditAssumptions(words)[m]) => uncertainties(words)[m].critical
<1> DEFINE a == auditAssumptions(words)
           l == IF inspectProject.known < 3 THEN <<"little-known">> ELSE <<>>
           x == extractPromptCriticalUncertainties(words)
           t == a \o l \o x
           Critical(n) == classifyUncertainty(t[n]) \/ t[n] \in ToSet(x)
           u == [n \in DOMAIN t |-> [id |-> n, text |-> t[n], critical |-> Critical(n)]]
<1>1. a \in Seq(Statement)
  BY AuditIs
<1>2. l \in Seq(Statement)
  <2>1. <<>> \in Seq(Statement) /\ <<"little-known">> \in Seq(Statement)
    BY DEF Statement
  <2> QED
    BY <2>1
<1>3. x \in Seq(Statement)
  <2>1. <<"migrate-or-delete">> \in Seq(Statement)
    BY DEF Statement
  <2>2. <<"how-to-delete">> \in Seq(Statement) /\ <<>> \in Seq(Statement)
    BY DEF Statement
  <2>3. x = <<"migrate-or-delete">> \/ x = <<"how-to-delete">> \/ x = <<>>
    BY DEF extractPromptCriticalUncertainties
  <2> QED
    BY <2>1, <2>2, <2>3
<1>4. uncertainties(words) = u
  BY DEF uncertainties
<1> HIDE DEF a, l, x
<1>5. /\ t \in Seq(Statement) /\ \A m \in DOMAIN a : m \in DOMAIN t /\ t[m] = a[m]
      /\ DOMAIN t = 1..Len(t) /\ Len(t) \in Nat
  BY <1>1, <1>2, <1>3
<1>6. \A n \in DOMAIN t : Critical(n) \in BOOLEAN
  BY DEF classifyUncertainty
<1> HIDE DEF t
<1>7. \A n \in DOMAIN t : u[n] \in Uncertain
  <2> HIDE DEF Critical
  <2> TAKE n \in DOMAIN t
  <2>1. n \in Nat /\ t[n] \in Statement
    BY <1>5
  <2> QED
    BY <1>6, <2>1 DEF Uncertain
<1>8. u \in Seq(Uncertain) /\ DOMAIN u = DOMAIN t
  BY <1>5, <1>7
<1>9. ASSUME NEW m \in DOMAIN a
      PROVE  /\ m \in DOMAIN u /\ u[m].text = a[m]
             /\ classifyUncertainty(a[m]) => u[m].critical
  BY <1>5, <1>9
<1> QED
  BY <1>4, <1>8, <1>9 DEF a

\* What is critical among them blocks.
LEMMA BlockingIs ==
  ASSUME NEW words
  PROVE  /\ Blocking(words) \in Seq(Uncertain)
         /\ \A n \in DOMAIN uncertainties(words) :
              uncertainties(words)[n].critical =>
                \E k \in DOMAIN Blocking(words) : Blocking(words)[k] = uncertainties(words)[n]
<1> DEFINE u == uncertainties(words)
           T == {n \in 1..Len(u) : u[n].critical}
           Is(f) == f = [n \in 0..Len(u) |->
                           IF n = 0 THEN <<>>
                           ELSE IF u[n].critical THEN Append(f[n-1], u[n]) ELSE f[n-1]]
<1>1. Blocking(words) = (CHOOSE f : Is(f))[Len(u)]
  BY DEF Blocking, Passing
<1>2. u \in Seq(Uncertain)
  BY UncertaintiesAre
<1> HIDE DEF u
<1>3. DOMAIN u = 1..Len(u) /\ Len(u) \in Nat
  BY <1>2
<1>4. ASSUME NEW f PROVE Is(f) <=> Passes(f, u, T)
  <2>1. \A n \in 0..Len(u) : n # 0 => (n \in T <=> u[n].critical)
    BY <1>3
  <2> HIDE DEF T
  <2> QED
    BY <2>1 DEF Passes
<1>5. \E f : Is(f)
  BY <1>2, <1>4, PassingExists
<1>6. PICK f : Is(f) /\ Blocking(words) = f[Len(u)]
  BY <1>1, <1>5
<1>7. Passes(f, u, T)
  BY <1>4, <1>6
<1>8. Blocking(words) \in Seq(Uncertain) /\ Picks(Blocking(words), u, T)
  BY <1>2, <1>6, <1>7, PassingPicks
<1>9. ASSUME NEW n \in DOMAIN u, u[n].critical
      PROVE  \E k \in DOMAIN Blocking(words) : Blocking(words)[k] = u[n]
  <2>1. n \in T \cap DOMAIN u
    BY <1>3, <1>9
  <2> QED
    BY <1>8, <2>1 DEF Picks
<1> QED
  BY <1>8, <1>9 DEF u

-----------------------------------------------------------------------------
(* The contract.                                                           *)

RequirementCount == 1 .. MaxRequirements \cup {2, 3}
Contract == [requirements: RequirementCount, unknowns: Seq(Asked), assumptions: Seq(Assumed)]

\* Question n is about assumption m.
About(c, n, m) ==
  \/ c.unknowns[n].text = c.assumptions[m].text
  \/ c.unknowns[n].status = "blocking" /\ c.unknowns[n].covers = c.assumptions[m].id

\* An assumption keeps its number, and only one is about adding something.
Sound(c) ==
  /\ c \in Contract
  /\ \A m \in DOMAIN c.assumptions : c.assumptions[m].id = m
  /\ \A m, k \in DOMAIN c.assumptions :
       c.assumptions[m].text = "adds" /\ c.assumptions[k].text = "adds" => m = k
  /\ \A m \in DOMAIN c.assumptions :
       c.assumptions[m].critical => \E n \in DOMAIN c.unknowns : About(c, n, m)

ContractInv == proposal = NoContract \/ Sound(proposal)

LEMMA MinOf == ASSUME NEW a \in Nat, NEW b \in Nat
               PROVE  Min({a, b}) \in Nat /\ Min({a, b}) <= b
<1>1. Min({a, b}) \in {a, b} /\ \A y \in {a, b} : Min({a, b}) <= y
  BY Least
<1> QED
  BY <1>1

\* The requirements stay within their limit.
LEMMA RequirementsCounted ==
  ASSUME NEW words, NEW clauses \in Nat
  PROVE  requirements(words, clauses) \in RequirementCount
<1> DEFINE long == {"long", "spec"} \subseteq words
           asked == IF long THEN {"test", "auth"} ELSE {"test", "migrate-or-delete", "auth"}
           begun == IF long THEN 1 ELSE Min({clauses, MaxRequirements})
           found == Cardinality(asked \cap words)
           limit == IF long THEN 3 ELSE MaxRequirements
           all == Min({begun + found, limit})
<1>1. MaxRequirements \in Nat \ {0}
  BY PreflightAssumption
<1>2. begun \in Nat
  BY <1>1, MinOf
<1>3. found \in Nat
  <2>1. asked \in SUBSET {"test", "migrate-or-delete", "auth"}
    OBVIOUS
  <2>2. IsFiniteSet({"test"}) /\ IsFiniteSet({"test"} \cup {"migrate-or-delete"})
    BY FS_Singleton, FS_AddElement
  <2>3. IsFiniteSet(({"test"} \cup {"migrate-or-delete"}) \cup {"auth"})
    BY <2>2, FS_AddElement
  <2>4. asked \cap words \in SUBSET (({"test"} \cup {"migrate-or-delete"}) \cup {"auth"})
    BY <2>1
  <2> HIDE DEF asked
  <2>5. IsFiniteSet(asked \cap words)
    BY <2>3, <2>4, FS_Subset
  <2> QED
    BY <2>5, FS_CardinalityType
<1> HIDE DEF begun, found
<1>4. limit \in Nat /\ (limit = 3 \/ limit = MaxRequirements)
  BY <1>1
<1> HIDE DEF limit
<1>5. begun + found \in Nat
  BY <1>2, <1>3
<1>6. all \in Nat /\ all <= limit
  BY <1>4, <1>5, MinOf
<1>7. requirements(words, clauses) = IF all = 0 THEN 2 ELSE all
  BY DEF requirements, begun, found, limit
<1> HIDE DEF all
<1>8. all = 0 \/ all \in 1..MaxRequirements \/ all \in {1, 2, 3}
  BY <1>1, <1>4, <1>6
<1>9. 1 \in 1..MaxRequirements
  BY <1>1
<1> QED
  BY <1>7, <1>8, <1>9 DEF RequirementCount

\* What is critical of a new contract is asked from the start.
LEMMA NewContract ==
  ASSUME NEW words, NEW clauses \in Nat
  PROVE  Sound(synthesizeContract(words, clauses))
<1> DEFINE a == auditAssumptions(words)
           b == Blocking(words)
           assumed == [n \in DOMAIN a |-> [id |-> n, text |-> a[n], status |-> "active",
                                           critical |-> classifyAssumption(a[n])]]
           asked == [n \in DOMAIN b |-> [id |-> b[n].id, text |-> b[n].text,
                                         status |-> "blocking", covers |-> 0]]
           c == [requirements |-> requirements(words, clauses),
                 unknowns |-> asked, assumptions |-> assumed]
<1>1. c = synthesizeContract(words, clauses)
  BY DEF synthesizeContract, buildAssumptions
<1>2. a \in Seq(Statement) /\ \A k, l \in DOMAIN a : a[k] = a[l] => k = l
  BY AuditIs
<1>3. b \in Seq(Uncertain)
  BY BlockingIs
<1>4. ASSUME NEW m \in DOMAIN a, a[m] = "nest-auth"
      PROVE  \E n \in DOMAIN b : b[n].text = a[m]
  <2>1. /\ m \in DOMAIN uncertainties(words) /\ uncertainties(words)[m].text = a[m]
        /\ uncertainties(words)[m].critical
    BY <1>4, UncertaintiesAre DEF classifyUncertainty
  <2>2. PICK n \in DOMAIN b : b[n] = uncertainties(words)[m]
    BY <2>1, BlockingIs
  <2> QED
    BY <2>1, <2>2
<1> HIDE DEF a, b
<1>5. assumed \in Seq(Assumed)
  <2>1. \A n \in DOMAIN a : n \in Nat /\ a[n] \in Statement /\ classifyAssumption(a[n]) \in BOOLEAN
    BY <1>2 DEF classifyAssumption
  <2>2. \A n \in DOMAIN a : assumed[n] \in Assumed
    BY <2>1 DEF Assumed
  <2>3. DOMAIN a = 1..Len(a) /\ Len(a) \in Nat /\ DOMAIN assumed = DOMAIN a
    BY <1>2
  <2> HIDE DEF assumed
  <2>4. assumed \in [1..Len(a) -> Assumed]
    BY <2>2, <2>3 DEF assumed
  <2> QED
    BY <2>3, <2>4
<1>6. asked \in Seq(Asked)
  <2>0. \A n \in DOMAIN b : b[n] \in Uncertain
    BY <1>3
  <2>1. \A n \in DOMAIN b : b[n].id \in Nat /\ b[n].text \in Statement
    BY <2>0 DEF Uncertain
  <2>2. \A n \in DOMAIN b : asked[n] \in Asked
    BY <2>1 DEF Asked
  <2>3. DOMAIN b = 1..Len(b) /\ Len(b) \in Nat /\ DOMAIN asked = DOMAIN b
    BY <1>3
  <2>4. asked \in [1..Len(b) -> Asked]
    BY <2>2, <2>3
  <2> QED
    BY <2>3, <2>4
<1>7. /\ DOMAIN assumed = DOMAIN a /\ DOMAIN asked = DOMAIN b
      /\ \A m \in DOMAIN a : /\ assumed[m].id = m /\ assumed[m].text = a[m]
                             /\ assumed[m].critical => a[m] = "nest-auth"
      /\ \A n \in DOMAIN b : asked[n].text = b[n].text
  BY DEF classifyAssumption
<1>8. /\ c.requirements = requirements(words, clauses)
      /\ c.unknowns = asked /\ c.assumptions = assumed
  OBVIOUS
<1> HIDE DEF assumed, asked
<1>9. c \in Contract
  BY <1>5, <1>6, RequirementsCounted DEF Contract
<1> HIDE DEF c
<1>10. ASSUME NEW m \in DOMAIN assumed, assumed[m].critical
       PROVE  \E n \in DOMAIN asked : About(c, n, m)
  <2>1. PICK n \in DOMAIN b : b[n].text = a[m]
    BY <1>4, <1>7, <1>10
  <2> QED
    BY <1>7, <1>8, <2>1 DEF About
<1>11. Sound(c)
  BY <1>2, <1>7, <1>8, <1>9, <1>10 DEF Sound
<1> QED
  BY <1>1, <1>11

\* What another member does to a sequence.
LEMMA Appended ==
  ASSUME NEW A, NEW s \in Seq(A), NEW x \in A
  PROVE  /\ Append(s, x) \in Seq(A) /\ Len(s) \in Nat
         /\ DOMAIN Append(s, x) = 1..(Len(s) + 1) /\ Append(s, x)[Len(s) + 1] = x
         /\ \A n \in 1..Len(s) : Append(s, x)[n] = s[n]
  OBVIOUS

\* An assumption in another status is still that assumption.
LEMMA Marked ==
  ASSUME NEW a \in Assumed, NEW b,
         \/ b = [a EXCEPT !.critical = TRUE, !.status = "blocking"]
         \/ b = [a EXCEPT !.status = "resolved", !.critical = FALSE]
  PROVE  /\ b \in Assumed /\ b.id = a.id /\ b.text = a.text
         /\ b.status = "resolved" => ~b.critical
  BY DEF Assumed

\* An escalation asks about what it makes critical: only one assumption is about
\* adding something.
LEMMA EscalationKeeps ==
  ASSUME NEW c, Sound(c), NEW words
  PROVE  Sound(escalateAssumptions(c, words))
<1> DEFINE M == DOMAIN c.assumptions
           chosen == {n \in M : /\ c.assumptions[n].text = "adds"
                                /\ c.assumptions[n].status = "active"
                                /\ words \cap Consequence # {}}
           open == {n \in DOMAIN c.unknowns :
                      c.unknowns[n].status = "blocking" /\ c.unknowns[n].covers = 0}
           escalated == [n \in M |->
                           IF n \in chosen
                           THEN [c.assumptions[n] EXCEPT !.critical = TRUE, !.status = "blocking"]
                           ELSE c.assumptions[n]]
           added == [id |-> Len(c.unknowns) + 1, text |-> "adds", status |-> "blocking",
                     covers |-> c.assumptions[Min(chosen)].id]
           asked == IF open = {} THEN Append(c.unknowns, added)
                    ELSE [c.unknowns EXCEPT ![Min(open)].covers = added.covers]
           e == [c EXCEPT !.assumptions = escalated, !.unknowns = asked]
<1>1. escalateAssumptions(c, words) = IF chosen = {} THEN c ELSE e
  BY DEF escalateAssumptions
<1>2. SUFFICES ASSUME chosen # {} PROVE Sound(e)
  BY <1>1
<1>3. /\ c \in Contract /\ c.unknowns \in Seq(Asked) /\ c.assumptions \in Seq(Assumed)
      /\ c.requirements \in RequirementCount
      /\ \A m \in M : c.assumptions[m].id = m
      /\ \A m, k \in M :
           c.assumptions[m].text = "adds" /\ c.assumptions[k].text = "adds" => m = k
      /\ \A m \in M : c.assumptions[m].critical => \E n \in DOMAIN c.unknowns : About(c, n, m)
  BY DEF Sound, Contract
<1>4. PICK w \in M : chosen = {w} /\ c.assumptions[w].text = "adds"
  <2>1. PICK w \in M : w \in chosen
    BY <1>2
  <2> QED
    BY <1>3, <2>1
<1>5. /\ w \in Nat \ {0} /\ Min(chosen) = w /\ M = 1..Len(c.assumptions)
      /\ Len(c.assumptions) \in Nat
  <2>1. M = 1..Len(c.assumptions) /\ Len(c.assumptions) \in Nat
    BY <1>3
  <2>2. {w} \in SUBSET Nat /\ w \in Nat \ {0}
    BY <2>1
  <2>3. Min({w}) \in {w}
    BY <2>2, Least
  <2> QED
    BY <1>4, <2>1, <2>2, <2>3
<1>6. added \in Asked /\ added.covers = w /\ added.text = "adds"
  <2>1. Len(c.unknowns) + 1 \in Nat
    BY <1>3
  <2> QED
    BY <1>3, <1>4, <1>5, <2>1 DEF Asked, Statement
<1>7. open # {} => Min(open) \in open
  <2>1. open \in SUBSET Nat
    BY <1>3
  <2> HIDE DEF open
  <2> QED
    BY <2>1, Least
<1> HIDE DEF added
\* The questions.
<1>8. /\ asked \in Seq(Asked)
      /\ \A n \in DOMAIN c.unknowns :
           /\ n \in DOMAIN asked /\ asked[n].text = c.unknowns[n].text
           /\ asked[n].status = c.unknowns[n].status
           /\ c.unknowns[n].covers # 0 => asked[n].covers = c.unknowns[n].covers
      /\ \E n \in DOMAIN asked : \/ asked[n].text = "adds"
                                 \/ asked[n].status = "blocking" /\ asked[n].covers = w
  <2>1. CASE open = {}
    <3>1. asked = Append(c.unknowns, added)
      BY <2>1
    <3> HIDE DEF asked, open
    <3>2. /\ asked \in Seq(Asked) /\ DOMAIN asked = 1..(Len(c.unknowns) + 1)
          /\ asked[Len(c.unknowns) + 1] = added /\ Len(c.unknowns) \in Nat
          /\ \A n \in 1..Len(c.unknowns) : asked[n] = c.unknowns[n]
      BY <1>3, <1>6, <3>1, Appended
    <3>3. DOMAIN c.unknowns = 1..Len(c.unknowns)
      BY <1>3
    <3>4. Len(c.unknowns) + 1 \in DOMAIN asked /\ \A n \in 1..Len(c.unknowns) : n \in DOMAIN asked
      BY <3>2
    <3> QED
      BY <1>6, <3>2, <3>3, <3>4
  <2>2. CASE open # {}
    <3> DEFINE i == Min(open)
    <3>1. asked = [c.unknowns EXCEPT ![i].covers = w]
      BY <1>6, <2>2
    <3>2. i \in DOMAIN c.unknowns /\ c.unknowns[i].status = "blocking" /\ c.unknowns[i].covers = 0
      BY <1>7, <2>2
    <3> HIDE DEF i, asked, open
    <3>3. \A n \in DOMAIN c.unknowns : c.unknowns[n] \in Asked
      BY <1>3
    <3>4. /\ DOMAIN asked = DOMAIN c.unknowns
          /\ asked[i] = [c.unknowns[i] EXCEPT !.covers = w]
          /\ \A n \in DOMAIN c.unknowns : n # i => asked[n] = c.unknowns[n]
      BY <3>1, <3>2
    <3>5. /\ asked[i] \in Asked /\ asked[i].covers = w /\ asked[i].status = "blocking"
          /\ asked[i].text = c.unknowns[i].text
      BY <1>5, <3>2, <3>3, <3>4 DEF Asked
    <3>6. \A n \in DOMAIN asked : asked[n] \in Asked
      BY <3>3, <3>4, <3>5
    <3>7. asked \in Seq(Asked)
      <4>1. DOMAIN c.unknowns = 1..Len(c.unknowns) /\ Len(c.unknowns) \in Nat
        BY <1>3
      <4>2. asked = [n \in 1..Len(c.unknowns) |-> asked[n]]
        BY <3>1, <4>1
      <4>3. asked \in [1..Len(c.unknowns) -> Asked]
        BY <3>4, <3>6, <4>1, <4>2
      <4> QED
        BY <4>1, <4>3
    <3>8. /\ \A n \in DOMAIN c.unknowns :
                /\ n \in DOMAIN asked /\ asked[n].text = c.unknowns[n].text
                /\ asked[n].status = c.unknowns[n].status
      <4>1. SUFFICES ASSUME NEW n \in DOMAIN c.unknowns
                     PROVE  /\ n \in DOMAIN asked /\ asked[n].text = c.unknowns[n].text
                            /\ asked[n].status = c.unknowns[n].status
        OBVIOUS
      <4>2. CASE n = i
        BY <3>2, <3>4, <3>5, <4>2, Zenon
      <4>3. CASE n # i
        BY <3>4, <4>3, Zenon
      <4> QED
        BY <4>2, <4>3
    <3>9. \A n \in DOMAIN c.unknowns :
            c.unknowns[n].covers # 0 => asked[n].covers = c.unknowns[n].covers
      BY <3>2, <3>4, Zenon
    <3>10. \E n \in DOMAIN asked : asked[n].status = "blocking" /\ asked[n].covers = w
      BY <3>2, <3>4, <3>5, Zenon
    <3> QED
      BY <3>7, <3>8, <3>9, <3>10, Zenon
  <2> QED
    BY <2>1, <2>2
\* The assumptions.
<1>9. /\ escalated \in Seq(Assumed) /\ DOMAIN escalated = M
      /\ \A m \in M : /\ escalated[m].id = c.assumptions[m].id
                      /\ escalated[m].text = c.assumptions[m].text
                      /\ m # w => escalated[m].critical = c.assumptions[m].critical
  <2>1. \A m \in M : c.assumptions[m] \in Assumed
    BY <1>3
  <2>2. \A m \in M : escalated[m] = IF m = w THEN [c.assumptions[m] EXCEPT !.critical = TRUE, !.status = "blocking"]
                                    ELSE c.assumptions[m]
    BY <1>4
  <2>3. DOMAIN escalated = M /\ escalated = [m \in M |-> escalated[m]]
    OBVIOUS
  <2> HIDE DEF escalated, M
  <2>4. ASSUME NEW m \in M
        PROVE  /\ escalated[m] \in Assumed
               /\ escalated[m].id = c.assumptions[m].id
               /\ escalated[m].text = c.assumptions[m].text
               /\ m # w => escalated[m].critical = c.assumptions[m].critical
    <3>1. CASE m = w
      <4> DEFINE a == c.assumptions[m]
      <4>1. a \in Assumed /\ escalated[m] = [a EXCEPT !.critical = TRUE, !.status = "blocking"]
        BY <2>1, <2>2, <3>1
      <4> HIDE DEF a
      <4>2. /\ escalated[m] \in Assumed
            /\ escalated[m].id = a.id /\ escalated[m].text = a.text
        BY <4>1, Marked
      <4> QED
        BY <3>1, <4>2 DEF a
    <3>2. CASE m # w
      BY <2>1, <2>2, <3>2
    <3> QED
      BY <3>1, <3>2
  <2>5. escalated \in [1..Len(c.assumptions) -> Assumed]
    BY <1>5, <2>3, <2>4
  <2> QED
    BY <1>5, <2>3, <2>4, <2>5
<1>10. /\ e.unknowns = asked /\ e.assumptions = escalated /\ e \in Contract
  <2> HIDE DEF asked, escalated
  <2> QED
    BY <1>3, <1>8, <1>9 DEF Contract
<1> HIDE DEF asked, escalated, e, chosen, open
<1>11. ASSUME NEW m \in M, escalated[m].critical
       PROVE  \E n \in DOMAIN asked : About(e, n, m)
  <2>1. CASE m = w
    <3>1. escalated[m].text = "adds" /\ escalated[m].id = w
      BY <1>3, <1>4, <1>9, <2>1
    <3>2. PICK n \in DOMAIN asked : \/ asked[n].text = "adds"
                                    \/ asked[n].status = "blocking" /\ asked[n].covers = w
      BY <1>8, Zenon
    <3>3. About(e, n, m)
      BY <1>10, <2>1, <3>1, <3>2 DEF About
    <3> QED
      BY <3>3
  <2>2. CASE m # w
    <3>1. PICK n \in DOMAIN c.unknowns : About(c, n, m)
      BY <1>3, <1>9, <1>11, <2>2
    <3>2. c.assumptions[m].id # 0
      BY <1>3, <1>5
    <3> QED
      BY <1>8, <1>9, <1>10, <3>1, <3>2 DEF About
  <2> QED
    BY <2>1, <2>2
<1> QED
  BY <1>3, <1>9, <1>10, <1>11 DEF Sound

\* An answered question covers none but a resolved assumption, or none at all.
LEMMA SettledKeeps ==
  ASSUME NEW c, Sound(c), NEW answered, NEW resolved,
         \A n \in answered, m \in DOMAIN c.assumptions :
           c.unknowns[n].covers = c.assumptions[m].id => m \in resolved
  PROVE  Sound(Settled(c, answered, resolved))
<1> DEFINE M == DOMAIN c.assumptions
           U == DOMAIN c.unknowns
           settled(m) == m \in resolved
           asked == [n \in U |-> IF n \in answered
                                 THEN [c.unknowns[n] EXCEPT !.status = "answered"]
                                 ELSE c.unknowns[n]]
           assumed == [m \in M |-> IF settled(m)
                                   THEN [c.assumptions[m] EXCEPT !.status = "resolved", !.critical = FALSE]
                                   ELSE c.assumptions[m]]
           e == [c EXCEPT !.unknowns = asked, !.assumptions = assumed]
<1>1. Settled(c, answered, resolved) = e
  BY DEF Settled
<1>2. /\ c \in Contract /\ c.unknowns \in Seq(Asked) /\ c.assumptions \in Seq(Assumed)
      /\ \A m \in M : c.assumptions[m].id = m
      /\ \A m, k \in M :
           c.assumptions[m].text = "adds" /\ c.assumptions[k].text = "adds" => m = k
      /\ \A m \in M : c.assumptions[m].critical => \E n \in U : About(c, n, m)
  BY DEF Sound, Contract
<1>3. /\ U = 1..Len(c.unknowns) /\ Len(c.unknowns) \in Nat /\ \A n \in U : c.unknowns[n] \in Asked
      /\ M = 1..Len(c.assumptions) /\ Len(c.assumptions) \in Nat
      /\ \A m \in M : c.assumptions[m] \in Assumed
  BY <1>2
<1>4. /\ asked \in Seq(Asked) /\ DOMAIN asked = U
      /\ \A n \in U : /\ asked[n].text = c.unknowns[n].text /\ asked[n].covers = c.unknowns[n].covers
                      /\ n \notin answered => asked[n].status = c.unknowns[n].status
  <2>1. \A n \in U : asked[n] \in Asked
    BY <1>3 DEF Asked
  <2>2. asked \in [1..Len(c.unknowns) -> Asked]
    BY <1>3, <2>1
  <2>3. asked \in Seq(Asked)
    <3> HIDE DEF asked
    <3> QED
      BY <1>3, <2>2
  <2>4. \A n \in U : /\ asked[n].text = c.unknowns[n].text /\ asked[n].covers = c.unknowns[n].covers
                     /\ n \notin answered => asked[n].status = c.unknowns[n].status
    BY <1>3 DEF Asked
  <2> QED
    BY <2>3, <2>4
<1>5. /\ assumed \in Seq(Assumed) /\ DOMAIN assumed = M
      /\ \A m \in M : /\ assumed[m].id = c.assumptions[m].id
                      /\ assumed[m].text = c.assumptions[m].text
                      /\ assumed[m].critical => ~settled(m) /\ c.assumptions[m].critical
  <2>0. \A m \in M : assumed[m] = IF settled(m)
                                   THEN [c.assumptions[m] EXCEPT !.status = "resolved", !.critical = FALSE]
                                   ELSE c.assumptions[m]
    OBVIOUS
  <2>1. DOMAIN assumed = M /\ assumed = [m \in M |-> assumed[m]]
    OBVIOUS
  <2> HIDE DEF assumed, settled, M
  <2>2. ASSUME NEW m \in M
        PROVE  /\ assumed[m] \in Assumed
               /\ assumed[m].id = c.assumptions[m].id
               /\ assumed[m].text = c.assumptions[m].text
               /\ assumed[m].critical => ~settled(m) /\ c.assumptions[m].critical
    <3>1. c.assumptions[m] \in Assumed
      BY <1>3
    <3>2. CASE settled(m)
      <4> DEFINE a == c.assumptions[m]
      <4>1. a \in Assumed /\ assumed[m] = [a EXCEPT !.status = "resolved", !.critical = FALSE]
        BY <2>0, <3>1, <3>2
      <4> HIDE DEF a
      <4>2. /\ assumed[m] \in Assumed /\ (assumed[m].status = "resolved" => ~assumed[m].critical)
            /\ assumed[m].id = a.id /\ assumed[m].text = a.text
        BY <4>1, Marked
      <4>3. assumed[m].status = "resolved"
        BY <4>1 DEF Assumed
      <4> QED
        BY <4>2, <4>3 DEF a
    <3>3. CASE ~settled(m)
      BY <2>0, <3>1, <3>3
    <3> QED
      BY <3>2, <3>3
  <2>3. assumed \in [1..Len(c.assumptions) -> Assumed]
    BY <1>3, <2>1, <2>2
  <2>4. assumed \in Seq(Assumed)
    BY <1>3, <2>3
  <2> QED
    BY <2>1, <2>2, <2>4, Zenon
<1>6. /\ e.unknowns = asked /\ e.assumptions = assumed /\ e \in Contract
  <2> HIDE DEF asked, assumed
  <2> QED
    BY <1>2, <1>4, <1>5 DEF Contract
<1> HIDE DEF asked, assumed, e
<1>7. ASSUME NEW m \in M, assumed[m].critical
      PROVE  \E n \in U : About(e, n, m)
  <2>1. ~settled(m)
    BY <1>5, <1>7
  <2>2. PICK n \in U : About(c, n, m)
    BY <1>2, <1>5, <1>7
  <2>3. n \in answered => c.unknowns[n].covers # c.assumptions[m].id
    BY <2>1
  <2> QED
    BY <1>4, <1>5, <1>6, <2>1, <2>2, <2>3 DEF About
<1> QED
  BY <1>1, <1>2, <1>4, <1>5, <1>6, <1>7, SMTT(60) DEF Sound

LEMMA AnswerKeeps ==
  ASSUME NEW c, Sound(c), NEW answered
  PROVE  Sound(AnswerTo(c, answered))
  BY SettledKeeps DEF AnswerTo

LEMMA ResolutionKeeps ==
  ASSUME NEW c, Sound(c), NEW m \in DOMAIN c.assumptions, NEW covering,
         covering = {n \in DOMAIN c.unknowns :
                       /\ c.unknowns[n].status = "blocking"
                       /\ c.unknowns[n].covers = c.assumptions[m].id}
  PROVE  Sound(Settled(c, IF covering = {} THEN {} ELSE {Min(covering)}, {m}))
<1> DEFINE answered == IF covering = {} THEN {} ELSE {Min(covering)}
<1>1. covering \in SUBSET Nat
  BY DEF Sound, Contract
<1>2. answered \subseteq covering
  BY <1>1, Least
<1> HIDE DEF answered
<1>3. ASSUME NEW n \in answered, NEW k \in DOMAIN c.assumptions,
             c.unknowns[n].covers = c.assumptions[k].id
      PROVE  k \in {m}
  <2>1. c.assumptions[k].id = c.assumptions[m].id
    BY <1>2, <1>3
  <2> QED
    BY <2>1 DEF Sound
<1>4. Sound(Settled(c, answered, {m}))
  BY <1>3, SettledKeeps
<1> QED
  BY <1>4 DEF answered

-----------------------------------------------------------------------------
(* Every step of the preflight.                                            *)

ReportInv == folder \in Folder /\ report.mode \in Mode

LEMMA PreflightStarts == PreflightInit => ContractInv /\ ReportInv
  BY DEF PreflightInit, ContractInv, ReportInv, Folder, Analysis, determineMode, Mode,
         classifyRequest, Architectural

\* No step unsettles the contract.
LEMMA PreflightNextKeeps ==
  ContractInv /\ ReportInv /\ [PreflightNext]_preflightVars => (ContractInv /\ ReportInv)'
<1> SUFFICES ASSUME ContractInv, ReportInv, [PreflightNext]_preflightVars
             PROVE  ContractInv' /\ ReportInv'
  OBVIOUS
<1>1. CASE Analyze
  <2>1. PICK words \in UNION {kSubset(n, Word) : n \in 0..MaxWords}, clauses \in 0..MaxClauses :
          /\ report' = Analysis(words)
          /\ proposal' = escalateAssumptions(buildPersistedContract(words, clauses), words)
          /\ UNCHANGED folder
    BY <1>1 DEF Analyze
  <2>2. clauses \in Nat
    BY PreflightAssumption
  <2>3. Sound(buildPersistedContract(words, clauses))
    BY <2>2, NewContract DEF buildPersistedContract, ContractInv
  <2>4. Sound(proposal')
    BY <2>1, <2>3, EscalationKeeps
  <2>5. report'.mode \in Mode
    BY <2>1 DEF Analysis, determineMode, Mode
  <2> QED
    BY <2>1, <2>4, <2>5 DEF ContractInv, ReportInv
<1>2. CASE answerQuestion
  <2>1. /\ proposal # NoContract /\ UNCHANGED <<folder, report>>
        /\ \E answered : proposal' = AnswerTo(proposal, answered)
    BY <1>2 DEF answerQuestion
  <2>2. Sound(proposal')
    BY <2>1, AnswerKeeps DEF ContractInv
  <2> QED
    BY <2>1, <2>2 DEF ContractInv, ReportInv
<1>3. CASE answerFromMessage
  <2>1. /\ proposal # NoContract /\ UNCHANGED <<folder, report>>
        /\ \E answered : proposal' = AnswerTo(proposal, answered)
    BY <1>3 DEF answerFromMessage
  <2>2. Sound(proposal')
    BY <2>1, AnswerKeeps DEF ContractInv
  <2> QED
    BY <2>1, <2>2 DEF ContractInv, ReportInv
<1>4. CASE resolveAssumption
  <2> DEFINE covering(m) == {n \in DOMAIN proposal.unknowns :
                               /\ proposal.unknowns[n].status = "blocking"
                               /\ proposal.unknowns[n].covers = proposal.assumptions[m].id}
  <2>1. Sound(proposal) /\ UNCHANGED <<folder, report>>
    BY <1>4 DEF resolveAssumption, ContractInv
  <2>2. PICK m \in DOMAIN proposal.assumptions :
          proposal' = Settled(proposal, IF covering(m) = {} THEN {} ELSE {Min(covering(m))}, {m})
    BY <1>4 DEF resolveAssumption
  <2>3. Sound(proposal')
    <3> DEFINE found == covering(m)
    <3>1. Sound(Settled(proposal, IF found = {} THEN {} ELSE {Min(found)}, {m}))
      BY <2>1, ResolutionKeeps
    <3> QED
      BY <2>2, <3>1
  <2> QED
    BY <2>1, <2>3 DEF ContractInv, ReportInv
<1>5. CASE ChangeFolder \/ BeginTask
  BY <1>5 DEF ChangeFolder, BeginTask, ContractInv, ReportInv
<1>6. CASE UNCHANGED preflightVars
  BY <1>6 DEF preflightVars, ContractInv, ReportInv
<1> QED
  BY <1>1, <1>2, <1>3, <1>4, <1>5, <1>6 DEF PreflightNext

\* What critical a contract takes for granted and nobody has resolved is asked,
\* whichever messages, answers, evidence and escalations there were.
THEOREM AlwaysCriticalIsAsked == PreflightSpec => []CriticalIsAsked
<1>1. ContractInv => CriticalIsAsked
  BY DEF ContractInv, Sound, CriticalIsAsked, About
<1> QED
  BY <1>1, PreflightStarts, PreflightNextKeeps, PTL DEF PreflightSpec

\* Contracts keep their types, and their requirements the limit.
THEOREM AlwaysPreflightTyped == PreflightSpec => []PreflightTypeOK
<1>1. ContractInv /\ ReportInv => PreflightTypeOK
  BY DEF ContractInv, ReportInv, Sound, Contract, RequirementCount, PreflightTypeOK
<1> QED
  BY <1>1, PreflightStarts, PreflightNextKeeps, PTL DEF PreflightSpec

-----------------------------------------------------------------------------
(* The documents of the memory.                                            *)

Once(notes) == \A n, m \in DOMAIN notes : notes[n].key = notes[m].key => n = m

\* What a write cut short leaves.
LEMMA CutLeaves ==
  ASSUME NEW K, NEW entries \in Seq([key: K, source: Sources]), NEW status \in DocStatus,
         NEW left \in Cut(status, entries)
  PROVE  /\ DOMAIN left = {"status", "entries"}
         /\ left = [status |-> left.status, entries |-> left.entries]
         /\ left.status \in DocStatus
         /\ left.entries \in Seq([key: K, source: Sources])
         /\ Once(entries) => Once(left.entries)
<1>1. CASE left = [status |-> "unknown", entries |-> <<>>]
  <2>1. <<>> \in Seq([key: K, source: Sources]) /\ DOMAIN <<>> = {}
    OBVIOUS
  <2> QED
    BY <1>1, <2>1 DEF DocStatus, Once
<1>2. ASSUME NEW n \in 0..Len(entries)
      PROVE  /\ SubSeq(entries, 1, n) \in Seq([key: K, source: Sources])
             /\ DOMAIN SubSeq(entries, 1, n) = 1..n
             /\ \A k \in 1..n : k \in DOMAIN entries /\ SubSeq(entries, 1, n)[k] = entries[k]
             /\ Once(entries) => Once(SubSeq(entries, 1, n))
  <2>1. SubSeq(entries, 1, n) \in Seq([key: K, source: Sources])
    <3> DEFINE A == [key: K, source: Sources]
    <3>1. entries \in Seq(A)
      OBVIOUS
    <3> HIDE DEF A
    <3>2. SubSeq(entries, 1, n) \in Seq(A)
      BY <3>1
    <3> QED
      BY <3>2 DEF A
  <2>2. DOMAIN SubSeq(entries, 1, n) = 1..n
    OBVIOUS
  <2>3. \A k \in 1..n : k \in DOMAIN entries /\ SubSeq(entries, 1, n)[k] = entries[k]
    OBVIOUS
  <2> QED
    BY <2>1, <2>2, <2>3 DEF Once
<1>3. ASSUME NEW n \in 0..Len(entries),
             left = [status |-> status, entries |-> SubSeq(entries, 1, n)]
      PROVE  /\ DOMAIN left = {"status", "entries"}
             /\ left = [status |-> left.status, entries |-> left.entries]
             /\ left.status \in DocStatus
             /\ left.entries \in Seq([key: K, source: Sources])
             /\ Once(entries) => Once(left.entries)
  BY <1>2, <1>3
<1>4. ASSUME NEW n \in 1..Len(entries),
             left = [status |-> status,
                     entries |-> [SubSeq(entries, 1, n) EXCEPT ![n].source = "inferred"]]
      PROVE  /\ DOMAIN left = {"status", "entries"}
             /\ left = [status |-> left.status, entries |-> left.entries]
             /\ left.status \in DocStatus
             /\ left.entries \in Seq([key: K, source: Sources])
             /\ Once(entries) => Once(left.entries)
  <2> DEFINE s == SubSeq(entries, 1, n)
             t == [s EXCEPT ![n].source = "inferred"]
  <2>1. n \in 0..Len(entries) /\ n \in 1..n
    OBVIOUS
  <2>2. /\ s \in Seq([key: K, source: Sources]) /\ DOMAIN s = 1..n
        /\ Once(entries) => Once(s)
    BY <1>2, <2>1
  <2>3. left.entries = t /\ left.status = status /\ DOMAIN left = {"status", "entries"}
        /\ left = [status |-> left.status, entries |-> left.entries]
    BY <1>4
  <2> HIDE DEF s
  <2>4. \A k \in 1..n : s[k] \in [key: K, source: Sources]
    <3> DEFINE A == [key: K, source: Sources]
    <3>1. s \in Seq(A) /\ DOMAIN s = 1..n
      BY <2>2
    <3> HIDE DEF A
    <3>2. \A k \in 1..n : s[k] \in A
      BY <3>1
    <3> QED
      BY <3>2 DEF A
  <2>5. DOMAIN t = 1..n /\ t = [k \in 1..n |-> t[k]]
        /\ t[n] = [s[n] EXCEPT !.source = "inferred"] /\ \A k \in 1..n : k # n => t[k] = s[k]
    BY <2>1, <2>2
  <2> HIDE DEF t
  <2>6. t[n] \in [key: K, source: Sources] /\ t[n].key = s[n].key
    BY <2>1, <2>4, <2>5 DEF Sources
  <2>7. \A k \in 1..n : t[k] \in [key: K, source: Sources] /\ t[k].key = s[k].key
    BY <2>4, <2>5, <2>6
  <2>8. t \in Seq([key: K, source: Sources])
    <3>1. t \in [1..n -> [key: K, source: Sources]]
      BY <2>5, <2>7
    <3> QED
      BY <3>1
  <2>9. Once(s) => Once(t)
    BY <2>2, <2>5, <2>7 DEF Once
  <2> QED
    BY <2>2, <2>3, <2>8, <2>9
<1> QED
  BY <1>1, <1>3, <1>4 DEF Cut

\* What recordDecision keeps.
LEMMA OthersAre ==
  ASSUME NEW topic, NEW K, Entries("decisions") \in Seq([key: K, source: Sources])
  PROVE  /\ Others(topic) \in Seq([key: K, source: Sources])
         /\ \A k \in DOMAIN Others(topic) : Others(topic)[k].key # topic
         /\ \A n \in DOMAIN Entries("decisions") :
              Entries("decisions")[n].key # topic =>
                \E k \in DOMAIN Others(topic) : Others(topic)[k] = Entries("decisions")[n]
         /\ Once(Entries("decisions")) => Once(Others(topic))
<1> DEFINE A == [key: K, source: Sources]
           e == Entries("decisions")
           T == {n \in 1..Len(e) : e[n].key # topic}
           Is(f) == f = [n \in 0..Len(e) |->
                           IF n = 0 THEN <<>>
                           ELSE IF e[n].key # topic THEN Append(f[n-1], e[n]) ELSE f[n-1]]
           o == Others(topic)
<1>1. o = (CHOOSE f : Is(f))[Len(e)]
  BY DEF Others
<1>2. e \in Seq(A)
  OBVIOUS
<1> HIDE DEF e, A, o
<1>3. DOMAIN e = 1..Len(e) /\ Len(e) \in Nat
  BY <1>2
<1>4. ASSUME NEW f PROVE Is(f) <=> Passes(f, e, T)
  <2>1. \A n \in 0..Len(e) : n # 0 => (n \in T <=> e[n].key # topic)
    BY <1>3
  <2> HIDE DEF T
  <2> QED
    BY <2>1 DEF Passes
<1>5. \E f : Is(f)
  BY <1>2, <1>4, PassingExists
<1>6. PICK f : Is(f) /\ o = f[Len(e)]
  BY <1>1, <1>5
<1>7. Passes(f, e, T)
  BY <1>4, <1>6
<1>8. o \in Seq(A) /\ Picks(o, e, T)
  BY <1>2, <1>6, <1>7, PassingPicks
<1>9. /\ \A k \in DOMAIN o : \E i \in T \cap DOMAIN e : o[k] = e[i]
      /\ \A i \in T \cap DOMAIN e : \E k \in DOMAIN o : o[k] = e[i]
      /\ (\A i, j \in DOMAIN e : e[i] = e[j] => i = j) => \A k, l \in DOMAIN o : o[k] = o[l] => k = l
  BY <1>8 DEF Picks
<1>10. \A n \in DOMAIN e : n \in T \cap DOMAIN e <=> e[n].key # topic
  BY <1>3
<1> HIDE DEF T
<1>11. ASSUME Once(e), NEW k \in DOMAIN o, NEW l \in DOMAIN o, o[k].key = o[l].key
       PROVE  k = l
  <2>1. PICK i \in T \cap DOMAIN e : o[k] = e[i]
    BY <1>9
  <2>2. PICK j \in T \cap DOMAIN e : o[l] = e[j]
    BY <1>9
  <2>3. i = j
    BY <1>11, <2>1, <2>2 DEF Once
  <2>4. \A p, q \in DOMAIN e : e[p] = e[q] => p = q
    BY <1>11 DEF Once
  <2> QED
    BY <1>9, <2>1, <2>2, <2>3, <2>4
<1>12. /\ \A k \in DOMAIN o : o[k].key # topic
       /\ \A n \in DOMAIN e : e[n].key # topic => \E k \in DOMAIN o : o[k] = e[n]
  BY <1>9, <1>10
<1>13. Once(e) => Once(o)
  BY <1>11 DEF Once
<1> QED
  BY <1>8, <1>12, <1>13 DEF A, e, o

\* The keys of a document.
KeyOf(doc) ==
  CASE doc \in {"decisions", "constraints"} -> Topic
    [] doc = "recentChanges" -> Heading [] doc = "project" -> Memo

Page(doc) == [status: DocStatus, entries: Seq([key: KeyOf(doc), source: Sources])]

\* Every document has its type, and no decision is stated twice.
Documented ==
  /\ pages = [doc \in DocName |-> pages[doc]]
  /\ \A doc \in DocName : pages[doc] \in Page(doc)
  /\ Once(Entries("decisions"))
  /\ tears \in 0..MaxTears

LEMMA Noted == \A doc \in DocName : Note(doc) = [key: KeyOf(doc), source: Sources]
  BY DEF Note, KeyOf, DocName

\* A document that was written, to its end or not, is one again.
LEMMA WriteKeeps ==
  ASSUME Documented, NEW doc \in DocName, NEW status \in DocStatus,
         NEW entries \in Seq([key: KeyOf(doc), source: Sources]),
         doc = "decisions" => Once(entries),
         WriteDoc(doc, status, entries)
  PROVE  /\ Documented'
         /\ \A d \in DocName : d # doc => pages'[d] = pages[d]
         /\ tears' = tears => pages'[doc].entries = entries
<1>1. PICK left : /\ pages' = [pages EXCEPT ![doc] = left]
                  /\ left \in Page(doc)
                  /\ Once(entries) => Once(left.entries)
                  /\ tears' \in 0..MaxTears
                  /\ tears' = tears => left.entries = entries
  <2>1. CASE pages' = [pages EXCEPT ![doc] = [status |-> status, entries |-> entries]] /\ UNCHANGED tears
    <3> DEFINE whole == [status |-> status, entries |-> entries]
    <3>1. /\ whole \in Page(doc)
          /\ whole.entries = entries
      BY DEF Page
    <3>2. /\ pages' = [pages EXCEPT ![doc] = whole]
          /\ tears' = tears
      BY <2>1
    <3>3. tears' \in 0..MaxTears
      BY <3>2 DEF Documented
    <3> HIDE DEF whole
    <3>4. Once(entries) => Once(whole.entries)
      BY <3>1
    <3> QED
      BY <3>1, <3>2, <3>3, <3>4
  <2>2. CASE /\ tears < MaxTears /\ tears' = tears + 1
             /\ \E left \in Cut(status, entries) : pages' = [pages EXCEPT ![doc] = left]
    <3>1. PICK left \in Cut(status, entries) : pages' = [pages EXCEPT ![doc] = left]
      BY <2>2
    <3>2. /\ left = [status |-> left.status, entries |-> left.entries]
          /\ left.status \in DocStatus
          /\ left.entries \in Seq([key: KeyOf(doc), source: Sources])
          /\ Once(entries) => Once(left.entries)
      BY CutLeaves
    <3>3. left \in Page(doc)
      BY <3>2 DEF Page
    <3>4. tears' \in 0..MaxTears /\ tears' # tears
      BY <2>2, MemoryAssumption DEF Documented
    <3> QED
      BY <3>1, <3>2, <3>3, <3>4
  <2> QED
    BY <2>1, <2>2 DEF WriteDoc
<1>2. /\ pages' = [d \in DocName |-> pages'[d]]
      /\ pages'[doc] = left /\ \A d \in DocName : d # doc => pages'[d] = pages[d]
  BY <1>1 DEF Documented
<1>3. \A d \in DocName : pages'[d] \in Page(d)
  BY <1>1, <1>2 DEF Documented
<1>4. Once(pages'["decisions"].entries)
  BY <1>1, <1>2 DEF Documented, Entries, DocName
<1> QED
  BY <1>1, <1>2, <1>3, <1>4 DEF Documented, Entries

\* What one step does to the decisions.
Stands ==
  tears' = tears =>
    UserDecided(Entries("decisions")) \subseteq UserDecided(pages'["decisions"].entries)

LEMMA SameStands ==
  ASSUME pages'["decisions"].entries = Entries("decisions")
  PROVE  Stands
  BY DEF Stands

LEMMA RecordStands ==
  ASSUME Documented, NEW topic \in Topic, NEW source \in Sources, recordDecision(topic, source)
  PROVE  Documented' /\ Stands
<1> DEFINE A == [key: Topic, source: Sources]
           e == Entries("decisions")
           o == Others(topic)
           new == [key |-> topic, source |-> source]
           s == Append(o, new)
<1>1. KeyOf("decisions") = Topic /\ "decisions" \in DocName /\ "current" \in DocStatus
  BY DEF KeyOf, DocName, DocStatus
<1>2. e \in Seq(A) /\ Once(e)
  BY <1>1 DEF Documented, Page, Entries
<1>3. /\ o \in Seq(A) /\ \A k \in DOMAIN o : o[k].key # topic
      /\ \A n \in DOMAIN e : e[n].key # topic => \E k \in DOMAIN o : o[k] = e[n]
      /\ Once(o)
  BY <1>2, OthersAre
<1>4. new \in A
  OBVIOUS
<1> HIDE DEF A, o
<1>5. /\ s \in Seq(A) /\ DOMAIN s = 1..(Len(o) + 1) /\ s[Len(o) + 1] = new
      /\ DOMAIN o = 1..Len(o) /\ Len(o) \in Nat /\ \A k \in DOMAIN o : s[k] = o[k]
  BY <1>3, <1>4
<1> HIDE DEF s
<1>6. \A k \in DOMAIN s : k \in DOMAIN o \/ k = Len(o) + 1
  BY <1>5
<1>7. Len(o) + 1 \in DOMAIN s /\ \A k \in DOMAIN o : k \in DOMAIN s
  BY <1>5
<1>8. Once(s)
  <2> SUFFICES ASSUME NEW k \in DOMAIN s, NEW l \in DOMAIN s, s[k].key = s[l].key
               PROVE  k = l
    BY DEF Once
  <2>1. CASE k \in DOMAIN o /\ l \in DOMAIN o
    BY <1>3, <1>5, <2>1 DEF Once
  <2>2. CASE k \in DOMAIN o /\ l = Len(o) + 1
    BY <1>3, <1>5, <2>2
  <2>3. CASE l \in DOMAIN o /\ k = Len(o) + 1
    BY <1>3, <1>5, <2>3
  <2> QED
    BY <1>6, <2>1, <2>2, <2>3
<1>9. WriteDoc("decisions", "current", s) /\ ~Outranked(topic, source)
  BY DEF recordDecision, updateContext, s, o
<1>10. Documented' /\ (tears' = tears => pages'["decisions"].entries = s)
  BY <1>1, <1>5, <1>8, <1>9, WriteKeeps DEF A
<1>11. ASSUME NEW n \in DOMAIN e, e[n].source = "user-decided"
       PROVE  \E k \in DOMAIN s : s[k].key = e[n].key /\ s[k].source = "user-decided"
  <2>1. CASE e[n].key # topic
    BY <1>3, <1>5, <1>7, <1>11, <2>1
  <2>2. CASE e[n].key = topic
    <3>1. n \in Prior(topic) /\ Prior(topic) \in SUBSET Nat
      <4>1. DOMAIN e \in SUBSET Nat
        BY <1>2
      <4> QED
        BY <2>2, <4>1 DEF Prior
    <3>2. Min(Prior(topic)) \in Prior(topic)
      BY <3>1, Least
    <3>3. Min(Prior(topic)) = n
      BY <1>2, <2>2, <3>2 DEF Prior, Once
    <3>4. source = "user-decided"
      BY <1>9, <1>11, <3>1, <3>3 DEF Outranked
    <3> QED
      BY <1>5, <1>7, <2>2, <3>4
  <2> QED
    BY <2>1, <2>2
<1>12. UserDecided(e) \subseteq UserDecided(s)
  BY <1>11 DEF UserDecided, ToSet
<1> QED
  BY <1>10, <1>12 DEF Stands

\* Any other write leaves the decisions, or is of them as they are.
LEMMA OtherStands ==
  ASSUME Documented, NEW doc \in DocName, NEW status \in DocStatus,
         NEW entries \in Seq([key: KeyOf(doc), source: Sources]),
         doc = "decisions" => entries = Entries("decisions"),
         WriteDoc(doc, status, entries)
  PROVE  Documented' /\ Stands
<1>1. doc = "decisions" => Once(entries)
  BY DEF Documented
<1>2. /\ Documented'
      /\ \A d \in DocName : d # doc => pages'[d] = pages[d]
      /\ tears' = tears => pages'[doc].entries = entries
  BY <1>1, WriteKeeps
<1>3. tears' = tears => pages'["decisions"].entries = Entries("decisions")
  BY <1>2 DEF Entries, DocName
<1> QED
  BY <1>2, <1>3 DEF Stands

LEMMA MemoryNextKeeps == Documented /\ [MemoryNext]_memoryVars => Documented' /\ Stands
<1> SUFFICES ASSUME Documented, [MemoryNext]_memoryVars PROVE Documented' /\ Stands
  OBVIOUS
<1>0. /\ \A doc \in DocName : Entries(doc) \in Seq([key: KeyOf(doc), source: Sources])
      /\ \A doc \in DocName : pages[doc].status \in DocStatus
      /\ KeyOf("constraints") = Topic /\ KeyOf("recentChanges") = Heading /\ KeyOf("project") = Memo
      /\ {"constraints", "recentChanges", "project", "decisions"} \subseteq DocName
      /\ {"current", "stale"} \subseteq DocStatus /\ "observed" \in Sources
  BY DEF Documented, Page, Entries, KeyOf, DocName, DocStatus, Sources
<1>1. ASSUME NEW topic \in Topic, NEW source \in Sources, recordDecision(topic, source)
      PROVE  Documented' /\ Stands
  BY <1>1, RecordStands
<1>2. ASSUME NEW text \in Topic, NEW source \in Sources, addConstraint(text, source)
      PROVE  Documented' /\ Stands
  <2> DEFINE A == [key: Topic, source: Sources]
             s == Append(Entries("constraints"), [key |-> text, source |-> source])
  <2>1. Entries("constraints") \in Seq(A) /\ [key |-> text, source |-> source] \in A
    BY <1>0
  <2>2. s \in Seq(A)
    <3> HIDE DEF A
    <3> QED
      BY <2>1
  <2>3. WriteDoc("constraints", "current", s)
    BY <1>2 DEF addConstraint, updateContext
  <2> HIDE DEF s
  <2> QED
    BY <1>0, <2>2, <2>3, OtherStands
<1>3. ASSUME NEW day \in Day, NEW scope \in Topic \cup {"none"}, addRecentChange(day, scope)
      PROVE  Documented' /\ Stands
  <2> DEFINE A == [key: Heading, source: Sources]
             new == [key |-> [day |-> day, scope |-> scope], source |-> "observed"]
             s == <<new>> \o Entries("recentChanges")
  <2>1. Entries("recentChanges") \in Seq(A) /\ new \in A
    BY <1>0 DEF Heading
  <2>2. WriteDoc("recentChanges", "current", s)
    BY <1>3 DEF addRecentChange, updateContext
  <2> HIDE DEF A, new
  <2>3. s \in Seq(A)
    BY <2>1
  <2> HIDE DEF s
  <2> QED
    BY <1>0, <2>2, <2>3, OtherStands DEF A
<1>4. ASSUME NEW memo \in Memo, updateProjectMemo(memo)
      PROVE  Documented' /\ Stands
  <2> DEFINE A == [key: Memo, source: Sources]
             new == [key |-> memo, source |-> "observed"]
             s == <<new>>
  <2>1. new \in A
    BY <1>0
  <2>2. WriteDoc("project", "current", s)
    BY <1>4 DEF updateProjectMemo, updateContext
  <2> HIDE DEF A, new
  <2>3. s \in Seq(A)
    BY <2>1
  <2> HIDE DEF s
  <2> QED
    BY <1>0, <2>2, <2>3, OtherStands DEF A
<1>5. ASSUME NEW doc \in DocName, markStale(doc)
      PROVE  Documented' /\ Stands
  <2>1. WriteDoc(doc, "stale", Entries(doc))
    BY <1>5 DEF markStale
  <2> QED
    BY <1>0, <2>1, OtherStands
<1>6. CASE compactDecisions
  <2>1. WriteDoc("decisions", "current", Entries("decisions"))
    BY <1>6 DEF compactDecisions, updateContext
  <2> QED
    BY <1>0, <2>1, OtherStands
<1>7. CASE UNCHANGED memoryVars
  <2>1. pages' = pages /\ tears' = tears
    BY <1>7 DEF memoryVars
  <2>2. Documented'
    BY <2>1 DEF Documented, Entries
  <2>3. pages'["decisions"].entries = Entries("decisions")
    BY <2>1 DEF Entries
  <2> QED
    BY <2>2, <2>3, SameStands
<1> QED
  BY <1>1, <1>2, <1>3, <1>4, <1>5, <1>6, <1>7 DEF MemoryNext

LEMMA MemoryStarts == MemoryInit => Documented
<1> SUFFICES ASSUME MemoryInit PROVE Documented
  OBVIOUS
<1>1. pages = [doc \in DocName |-> [status |-> "none", entries |-> <<>>]] /\ tears = 0
  BY DEF MemoryInit
<1>2. \A doc \in DocName : pages[doc] \in Page(doc)
  BY <1>1 DEF Page, DocStatus
<1>3. Once(<<>>) /\ Entries("decisions") = <<>>
  <2>1. DOMAIN <<>> = {}
    OBVIOUS
  <2> QED
    BY <1>1, <2>1 DEF Once, Entries, DocName
<1> QED
  BY <1>1, <1>2, <1>3, MemoryAssumption DEF Documented

\* The documents of the memory keep their types, cut short or not.
THEOREM AlwaysMemoryTyped == MemorySpec => []MemoryTypeOK
<1>1. Documented => MemoryTypeOK
  BY Noted DEF Documented, Page, MemoryTypeOK, Entries
<1> QED
  BY <1>1, MemoryStarts, MemoryNextKeeps, PTL DEF MemorySpec

\* Only a write cut short takes a decision from the user; nothing of less
\* authority does, and no decision is stated twice.
THEOREM AlwaysUserDecisionStands == MemorySpec => UserDecisionStands
<1>1. Documented /\ Documented' /\ Stands =>
        /\ tears' = tears =>
             UserDecided(Entries("decisions")) \subseteq UserDecided(pages'["decisions"].entries)
        /\ \A n, m \in DOMAIN pages'["decisions"].entries :
             pages'["decisions"].entries[n].key = pages'["decisions"].entries[m].key => n = m
  BY DEF Documented, Stands, Once, Entries
<1> QED
  BY <1>1, MemoryStarts, MemoryNextKeeps, PTL DEF MemorySpec, UserDecisionStands

-----------------------------------------------------------------------------
(* The skills a prompt is given.                                           *)

\* Of some skills with scores one is the best.
LEMMA BestIs ==
  ASSUME NEW some \in SUBSET Skill, some # {},
         NEW score, \A s \in some : score[s] \in 0 .. MaxScore
  PROVE  /\ Best(score, some) \in some
         /\ \A t \in some \ {Best(score, some)} : Before(score, Best(score, some), t)
<1> DEFINE Short == {MaxScore - score[s] : s \in some}
           low == Min(Short)
<1>0. MaxScore \in Nat /\ Skill \subseteq Nat
  BY SkillAssumption
<1>1. Short \in SUBSET Nat /\ Short # {}
  <2>1. \A s \in some : MaxScore - score[s] \in Nat
    BY <1>0
  <2> QED
    BY <2>1
<1>2. low \in Short /\ \A y \in Short : low <= y
  <2> HIDE DEF Short
  <2> QED
    BY <1>1, Least
<1>3. PICK top \in some : low = MaxScore - score[top]
  BY <1>2
<1>4. \A s \in some : score[s] <= score[top]
  <2> SUFFICES ASSUME NEW s \in some PROVE score[s] <= score[top]
    OBVIOUS
  <2>1. MaxScore - score[s] \in Short
    OBVIOUS
  <2> HIDE DEF Short, low
  <2>2. MaxScore - score[top] <= MaxScore - score[s]
    BY <1>2, <1>3, <2>1
  <2> QED
    BY <1>0, <2>2
<1> HIDE DEF Short, low
<1> DEFINE Tops == {s \in some : score[s] = score[top]}
           first == Min(Tops)
<1>5. first \in Tops /\ \A s \in Tops : first <= s
  <2>1. Tops \in SUBSET Nat /\ Tops # {}
    BY <1>0
  <2> HIDE DEF Tops
  <2> QED
    BY <2>1, Least
<1>6. first \in some /\ score[first] = score[top]
  BY <1>5
<1>7. \A t \in some \ {first} : Before(score, first, t)
  <2> SUFFICES ASSUME NEW t \in some, t # first PROVE Before(score, first, t)
    OBVIOUS
  <2>1. CASE score[t] = score[top]
    <3>1. t \in Tops
      BY <2>1
    <3>2. first <= t /\ first \in Nat /\ t \in Nat
      BY <1>0, <1>5, <1>6, <3>1
    <3> QED
      BY <1>6, <2>1, <3>2 DEF Before
  <2>2. CASE score[t] # score[top]
    <3>1. score[t] < score[top]
      BY <1>0, <1>4, <2>2
    <3> QED
      BY <1>6, <3>1 DEF Before
  <2> QED
    BY <2>1, <2>2
<1> HIDE DEF first
<1> QED
  BY <1>6, <1>7 DEF Best

\* One more of them, the best that is left.
Longer(score, some, s) == Append(s, Best(score, some \ ToSet(s)))

\* The first n places have n of them, each better than all that are not before it.
Ranks(s, score, some, n) ==
  /\ s \in Seq(some) /\ Len(s) = n
  /\ \A k \in 0..n : Cardinality({s[j] : j \in 1..k}) = k
  /\ \A k \in 1..n : \A t \in some \ {s[j] : j \in 1..k} : Before(score, s[k], t)

\* The order grows by the best that is left.
LEMMA OrderedIs ==
  ASSUME NEW some \in SUBSET Skill, NEW score
  PROVE  \E order : /\ order[0] = <<>>
                    /\ \A n \in Nat : n + 1 <= Cardinality(some) =>
                         order[n + 1] = Longer(score, some, order[n])
                    /\ Ordered(score, some) = order[Cardinality(some)]
<1> DEFINE C == Cardinality(some)
           V == Seq(some \cup {Best(score, rest) : rest \in SUBSET some})
           h == [s \in V |-> Longer(score, some, s)]
           Is(f) == f = [n \in 0..C |-> IF n = 0 THEN <<>> ELSE Longer(score, some, f[n-1])]
<1>0. C \in Nat
  BY SkillAssumption, FS_Subset, FS_CardinalityType
<1>1. h \in [V -> V] /\ <<>> \in V
  <2> DEFINE W == some \cup {Best(score, rest) : rest \in SUBSET some}
  <2>1. ASSUME NEW s \in Seq(W) PROVE Longer(score, some, s) \in Seq(W)
    <3>1. Best(score, some \ ToSet(s)) \in W
      OBVIOUS
    <3> HIDE DEF W
    <3> QED
      BY <3>1 DEF Longer
  <2>2. V = Seq(W)
    OBVIOUS
  <2> HIDE DEF W, V
  <2>3. h \in [V -> V]
    BY <2>1, <2>2
  <2>4. <<>> \in V
    BY <2>2
  <2> QED
    BY <2>3, <2>4
<1> HIDE DEF C, V
<1>2. PICK f : Iterates(f, h, <<>>, V, 0..C)
  <2> HIDE DEF h
  <2> QED
    BY <1>0, <1>1, Iteration
<1>3. /\ f \in [0..C -> V]
      /\ \A k \in 0..C : f[k] = IF k = 0 THEN <<>> ELSE h[f[k-1]]
  BY <1>2 DEF Iterates
<1>4. \A k \in 0..C : k # 0 => h[f[k-1]] = Longer(score, some, f[k-1])
  BY <1>0, <1>3
<1> HIDE DEF h
<1>5. Is(f)
  BY <1>3, <1>4
<1>6. Ordered(score, some) = (CHOOSE g : Is(g))[C]
  BY DEF Ordered, Longer, C
<1> DEFINE g == CHOOSE r : Is(r)
<1>7. Is(g)
  BY <1>5
<1> HIDE DEF g
<1>8. \A n \in 0..C : g[n] = IF n = 0 THEN <<>> ELSE Longer(score, some, g[n-1])
  BY <1>7
<1>9. ASSUME NEW n \in Nat, n + 1 <= C PROVE g[n + 1] = Longer(score, some, g[n])
  <2>1. n + 1 \in 0..C /\ n + 1 # 0 /\ (n + 1) - 1 = n
    BY <1>0, <1>9
  <2> QED
    BY <1>8, <2>1
<1>10. g[0] = <<>>
  <2>1. 0 \in 0..C
    BY <1>0
  <2> QED
    BY <1>8, <2>1
<1> QED
  BY <1>6, <1>9, <1>10 DEF g, C

\* One more of them, and the best still come first.
LEMMA OneMoreRanked ==
  ASSUME NEW some \in SUBSET Skill, NEW score, \A s \in some : score[s] \in 0 .. MaxScore,
         NEW n \in Nat, n + 1 <= Cardinality(some), NEW s, Ranks(s, score, some, n)
  PROVE  Ranks(Longer(score, some, s), score, some, n + 1)
<1> DEFINE c == Best(score, some \ ToSet(s))
           t == Append(s, c)
<1>0. IsFiniteSet(some)
  BY SkillAssumption, FS_Subset
<1>1. /\ s \in Seq(some) /\ Len(s) = n
      /\ \A k \in 0..n : Cardinality({s[j] : j \in 1..k}) = k
      /\ \A k \in 1..n : \A u \in some \ {s[j] : j \in 1..k} : Before(score, s[k], u)
  BY DEF Ranks
<1>2. ToSet(s) = {s[j] : j \in 1..n} /\ ToSet(s) \in SUBSET some
  BY <1>1 DEF ToSet
<1>3. some \ ToSet(s) # {} /\ Cardinality(ToSet(s)) = n /\ IsFiniteSet(ToSet(s))
  <2>1. n \in 0..n
    OBVIOUS
  <2>2. Cardinality(ToSet(s)) = n
    BY <1>1, <1>2, <2>1
  <2>3. ToSet(s) # some
    BY <2>2
  <2>4. IsFiniteSet(ToSet(s))
    BY <1>0, <1>2, FS_Subset
  <2> QED
    BY <1>2, <2>2, <2>3, <2>4
<1>4. /\ c \in some \ ToSet(s)
      /\ \A u \in (some \ ToSet(s)) \ {c} : Before(score, c, u)
  <2> DEFINE rest == some \ ToSet(s)
  <2>1. rest \in SUBSET Skill /\ rest # {} /\ \A u \in rest : score[u] \in 0 .. MaxScore
    BY <1>3
  <2> HIDE DEF rest
  <2>2. /\ Best(score, rest) \in rest
        /\ \A u \in rest \ {Best(score, rest)} : Before(score, Best(score, rest), u)
    BY <2>1, BestIs
  <2> QED
    BY <2>2 DEF rest
<1> HIDE DEF c
<1>5. /\ t \in Seq(some) /\ Len(t) = n + 1 /\ t[n + 1] = c
      /\ \A i \in 1..n : t[i] = s[i]
  BY <1>1, <1>4
<1> HIDE DEF t
<1>6. \A k \in 0..n : {t[j] : j \in 1..k} = {s[j] : j \in 1..k}
  <2> SUFFICES ASSUME NEW k \in 0..n PROVE {t[j] : j \in 1..k} = {s[j] : j \in 1..k}
    OBVIOUS
  <2>1. \A j \in 1..k : j \in 1..n
    OBVIOUS
  <2> QED
    BY <1>5, <2>1
<1>7. {t[j] : j \in 1..(n + 1)} = ToSet(s) \cup {c}
  <2>1. \A j \in 1..(n + 1) : j \in 1..n \/ j = n + 1
    OBVIOUS
  <2>2. n + 1 \in 1..(n + 1) /\ \A j \in 1..n : j \in 1..(n + 1)
    OBVIOUS
  <2> QED
    BY <1>2, <1>5, <2>1, <2>2
<1>8. ASSUME NEW k \in 0..(n + 1) PROVE Cardinality({t[j] : j \in 1..k}) = k
  <2>1. CASE k \in 0..n
    BY <1>1, <1>6, <2>1
  <2>2. CASE k = n + 1
    <3>1. Cardinality(ToSet(s) \cup {c}) = Cardinality(ToSet(s)) + 1
      BY <1>3, <1>4, FS_AddElement, Zenon
    <3> QED
      BY <1>3, <1>7, <2>2, <3>1
  <2> QED
    BY <2>1, <2>2
<1>9. ASSUME NEW k \in 1..(n + 1), NEW u \in some \ {t[j] : j \in 1..k}
      PROVE  Before(score, t[k], u)
  <2>1. CASE k \in 1..n
    <3>1. k \in 0..n /\ t[k] = s[k]
      BY <1>5, <2>1
    <3>2. u \in some \ {s[j] : j \in 1..k}
      BY <1>6, <3>1
    <3> QED
      BY <1>1, <2>1, <3>1, <3>2
  <2>2. CASE k = n + 1
    <3>1. u \in (some \ ToSet(s)) \ {c}
      BY <1>7, <2>2
    <3> QED
      BY <1>4, <1>5, <2>2, <3>1
  <2> QED
    BY <2>1, <2>2
<1>10. Longer(score, some, s) = t
  BY DEF Longer, t, c
<1> QED
  BY <1>5, <1>8, <1>9, <1>10, ZenonT(60) DEF Ranks

\* So all of them are put in order.
LEMMA OrderedRanks ==
  ASSUME NEW some \in SUBSET Skill, NEW score, \A s \in some : score[s] \in 0 .. MaxScore
  PROVE  /\ Cardinality(some) \in Nat
         /\ Ranks(Ordered(score, some), score, some, Cardinality(some))
<1> DEFINE C == Cardinality(some)
<1>0. C \in Nat
  BY SkillAssumption, FS_Subset, FS_CardinalityType
<1>1. PICK order : /\ order[0] = <<>>
                   /\ \A n \in Nat : n + 1 <= C => order[n + 1] = Longer(score, some, order[n])
                   /\ Ordered(score, some) = order[C]
  BY OrderedIs
<1> DEFINE G == {n \in Nat : n <= C => Ranks(order[n], score, some, n)}
<1>2. 0 \in G
  <2>1. \A k \in 0..0 : {<<>>[j] : j \in 1..k} = {} /\ k = 0
    OBVIOUS
  <2>2. Cardinality({}) = 0
    BY FS_EmptySet
  <2>3. <<>> \in Seq(some) /\ Len(<<>>) = 0 /\ \A k \in 1..0 : FALSE
    OBVIOUS
  <2>4. Ranks(<<>>, score, some, 0)
    BY <2>1, <2>2, <2>3, Zenon DEF Ranks
  <2> QED
    BY <1>1, <2>4
<1>3. ASSUME NEW n \in Nat, n \in G PROVE n + 1 \in G
  <2> SUFFICES ASSUME n + 1 <= C PROVE Ranks(order[n + 1], score, some, n + 1)
    OBVIOUS
  <2>1. Ranks(order[n], score, some, n)
    BY <1>0, <1>3
  <2>2. Ranks(Longer(score, some, order[n]), score, some, n + 1)
    BY <2>1, OneMoreRanked
  <2> QED
    BY <1>1, <2>2
<1>4. \A n \in Nat : n \in G
  <2> HIDE DEF G
  <2> QED
    BY <1>2, <1>3, SetInduction
<1> QED
  BY <1>0, <1>1, <1>4

-----------------------------------------------------------------------------
(* The registry and the slots.                                             *)

RoutingInv == routing \in Choice /\ SelectionIsRanked

\* The registry has skills, and which are of base strategy is their own affair.
LEMMA RegistryIs ==
  /\ DOMAIN buildRegistry \in SUBSET Skill
  /\ \A s \in DOMAIN buildRegistry : buildRegistry[s].base = (s \in BaseSkill)
  BY DEF buildRegistry, discoverSkills, loadBundledRegistry

\* A sequence over some members is one over more.
LEMMA Widened == ASSUME NEW A, NEW B, A \subseteq B, NEW s \in Seq(A) PROVE s \in Seq(B)
<1>1. Len(s) \in Nat /\ DOMAIN s = 1..Len(s) /\ \A n \in 1..Len(s) : s[n] \in B
  OBVIOUS
<1>2. s = [n \in 1..Len(s) |-> s[n]]
  OBVIOUS
<1>3. s \in [1..Len(s) -> B]
  BY <1>1, <1>2
<1> QED
  BY <1>1, <1>3

\* What joining two sequences does.
LEMMA Joined ==
  ASSUME NEW A, NEW p \in Seq(A), NEW q \in Seq(A)
  PROVE  /\ p \o q \in Seq(A) /\ Len(p \o q) = Len(p) + Len(q)
         /\ ToSet(p \o q) = ToSet(p) \cup ToSet(q)
<1> DEFINE s == p \o q
<1>1. /\ s \in Seq(A) /\ Len(s) = Len(p) + Len(q) /\ Len(p) \in Nat /\ Len(q) \in Nat
      /\ \A j \in 1..(Len(p) + Len(q)) : s[j] = IF j <= Len(p) THEN p[j] ELSE q[j - Len(p)]
  OBVIOUS
<1> HIDE DEF s
<1>2. /\ ToSet(s) = {s[j] : j \in 1..(Len(p) + Len(q))}
      /\ ToSet(p) = {p[j] : j \in 1..Len(p)} /\ ToSet(q) = {q[j] : j \in 1..Len(q)}
  <2>1. DOMAIN s = 1..(Len(p) + Len(q)) /\ DOMAIN p = 1..Len(p) /\ DOMAIN q = 1..Len(q)
    BY <1>1
  <2> QED
    BY <2>1 DEF ToSet
<1>3. ASSUME NEW j \in 1..(Len(p) + Len(q)) PROVE s[j] \in ToSet(p) \cup ToSet(q)
  <2>1. CASE j <= Len(p)
    BY <1>1, <1>2, <2>1
  <2>2. CASE ~(j <= Len(p))
    <3>1. j - Len(p) \in 1..Len(q) /\ s[j] = q[j - Len(p)]
      BY <1>1, <2>2
    <3> QED
      BY <1>2, <3>1
  <2> QED
    BY <2>1, <2>2
<1>4. ASSUME NEW j \in 1..Len(p) PROVE p[j] \in ToSet(s)
  <2>1. j \in 1..(Len(p) + Len(q)) /\ s[j] = p[j]
    BY <1>1
  <2> QED
    BY <1>2, <2>1
<1>5. ASSUME NEW j \in 1..Len(q) PROVE q[j] \in ToSet(s)
  <2>1. Len(p) + j \in 1..(Len(p) + Len(q)) /\ ~(Len(p) + j <= Len(p)) /\ (Len(p) + j) - Len(p) = j
    BY <1>1
  <2>2. s[Len(p) + j] = q[j]
    BY <1>1, <2>1
  <2> QED
    BY <1>2, <2>1, <2>2
<1>6. ToSet(s) = ToSet(p) \cup ToSet(q)
  BY <1>2, <1>3, <1>4, <1>5
<1> QED
  BY <1>1, <1>6 DEF s

\* The slots of a mode go to the best, whatever the scores.
LEMMA ChoiceIs ==
  ASSUME NEW score \in [Skill \ BaseSkill -> 0 .. MaxScore], NEW mode \in DOMAIN Slots,
         NEW r, r = buildRegistry, NEW choice, choice = routeSkillsV2(r, score, mode)
  PROVE  /\ choice \in Choice
         /\ LET selected == ToSet(choice.selected)
            IN  /\ choice.base \subseteq selected
                /\ Cardinality(selected) = Len(choice.selected)
                /\ Cardinality(selected \ choice.base) <= Slots[choice.mode]
                /\ \A s \in selected \ choice.base, t \in choice.registry \ selected :
                     choice.score[t] <= choice.score[s]
<1> DEFINE zero == [s \in Skill |-> 0]
           basic == {s \in DOMAIN r : r[s].base}
           wanted == {s \in DOMAIN r : ~r[s].base /\ score[s] > 0}
           base == Ordered(zero, basic)
           best == Ordered(score, wanted)
           spare == IF Len(base) > Slots[mode] THEN 0 ELSE Slots[mode] - Len(base)
           k == IF Slots[mode] < Len(best) THEN Slots[mode] ELSE Len(best)
           taken == SubSeq(best, 1, k)
           left == SubSeq(best, spare + 1, Len(best))
<1>0. /\ Skill \subseteq Nat /\ IsFiniteSet(Skill) /\ MaxScore \in Nat
      /\ Slots \in [{"FAST", "NORMAL", "STRICT"} -> Nat]
  BY SkillAssumption
<1>1. /\ basic \in SUBSET Skill /\ basic \subseteq BaseSkill
      /\ wanted \in SUBSET (Skill \ BaseSkill)
      /\ \A s \in DOMAIN r : s \notin basic /\ s \notin wanted => ~(score[s] > 0)
      /\ DOMAIN r \in SUBSET Skill /\ \A s \in DOMAIN r : s \notin basic => s \in Skill \ BaseSkill
  BY RegistryIs
<1>2. choice = [selected |-> base \o taken, exceeded |-> left, score |-> score, mode |-> mode,
                registry |-> DOMAIN r, base |-> ToSet(base)]
  BY DEF routeSkillsV2, Ranked
<1> HIDE DEF basic, wanted
<1>3. Ranks(base, zero, basic, Cardinality(basic)) /\ Cardinality(basic) \in Nat
  <2>1. \A s \in basic : zero[s] \in 0 .. MaxScore
    BY <1>0, <1>1
  <2> HIDE DEF zero
  <2> QED
    BY <1>1, <2>1, OrderedRanks
<1>4. Ranks(best, score, wanted, Cardinality(wanted)) /\ Cardinality(wanted) \in Nat
  <2>1. \A s \in wanted : score[s] \in 0 .. MaxScore
    BY <1>1
  <2> QED
    BY <1>1, <2>1, OrderedRanks
<1> HIDE DEF base, best, zero
<1>5. /\ base \in Seq(basic) /\ Len(base) \in Nat /\ ToSet(base) = {base[j] : j \in 1..Len(base)}
      /\ ToSet(base) \subseteq basic /\ Cardinality(ToSet(base)) = Len(base)
      /\ IsFiniteSet(ToSet(base))
  <2>1. base \in Seq(basic) /\ Len(base) = Cardinality(basic)
    BY <1>3 DEF Ranks
  <2>2. ToSet(base) = {base[j] : j \in 1..Len(base)} /\ ToSet(base) \subseteq basic
    BY <2>1 DEF ToSet
  <2>3. Cardinality({base[j] : j \in 1..Len(base)}) = Len(base)
    BY <1>3, <2>1 DEF Ranks
  <2>4. IsFiniteSet(ToSet(base))
    BY <1>0, <1>1, <2>2, FS_Subset
  <2> QED
    BY <1>3, <2>1, <2>2, <2>3, <2>4
<1>6. ToSet(base) = basic
  BY <1>0, <1>1, <1>3, <1>5, FS_Subset DEF Ranks
<1>7. /\ best \in Seq(wanted) /\ Len(best) = Cardinality(wanted) /\ Len(best) \in Nat
      /\ \A i \in 1..Len(best) :
           \A t \in wanted \ {best[j] : j \in 1..i} : Before(score, best[i], t)
      /\ \A i \in 0..Len(best) : Cardinality({best[j] : j \in 1..i}) = i
  BY <1>4 DEF Ranks
<1>8. Slots[mode] \in Nat /\ k \in 0..Len(best) /\ k <= Slots[mode] /\ spare \in Nat
  <2>1. Slots[mode] \in Nat
    BY <1>0
  <2>2. Len(best) \in Nat /\ Len(base) \in Nat
    BY <1>5, <1>7
  <2>3. k \in 0..Len(best) /\ k <= Slots[mode]
    BY <2>1, <2>2
  <2>4. spare \in Nat
    BY <2>1, <2>2
  <2> QED
    BY <2>1, <2>3, <2>4
<1> HIDE DEF k, spare
<1>8a. k \in Nat /\ \A j \in 1..k : j \in 1..Len(best)
  BY <1>7, <1>8
<1>9. /\ taken \in Seq(wanted) /\ Len(taken) = k /\ \A j \in 1..k : taken[j] = best[j]
      /\ left \in Seq(wanted)
  BY <1>7, <1>8
<1> HIDE DEF taken, left
<1> DEFINE all == base \o taken
           first == {best[j] : j \in 1..k}
<1>10. /\ all \in Seq(Skill) /\ left \in Seq(Skill)
       /\ Len(all) = Len(base) + k
       /\ ToSet(all) = ToSet(base) \cup ToSet(taken)
  <2>1. basic \subseteq Skill /\ wanted \subseteq Skill
    BY <1>1
  <2>2. base \in Seq(Skill) /\ taken \in Seq(Skill) /\ left \in Seq(Skill)
    BY <1>5, <1>9, <2>1, Widened
  <2>3. /\ base \o taken \in Seq(Skill) /\ Len(base \o taken) = Len(base) + Len(taken)
        /\ ToSet(base \o taken) = ToSet(base) \cup ToSet(taken)
    BY <2>2, Joined, ZenonT(60)
  <2>4. Len(taken) = k
    BY <1>9
  <2> QED
    BY <2>2, <2>3, <2>4, Zenon
<1>11. ToSet(all) = basic \cup first
  <2>1. ToSet(taken) = {taken[j] : j \in 1..k}
    <3>1. DOMAIN taken = 1..k
      BY <1>9
    <3> QED
      BY <3>1, Zenon DEF ToSet
  <2>2. {taken[j] : j \in 1..k} = first
    BY <1>9
  <2> HIDE DEF all, first
  <2> QED
    BY <1>6, <1>10, <2>1, <2>2, Zenon
<1>12. first \subseteq wanted /\ basic \cap first = {} /\ Cardinality(first) = k
  <2>1. \A j \in 1..k : best[j] \in wanted
    BY <1>7, <1>8
  <2> QED
    BY <1>1, <1>7, <1>8, <2>1, SMTT(60)
<1>13. Cardinality(ToSet(all)) = Len(all)
  <2>1. IsFiniteSet(basic) /\ IsFiniteSet(first) /\ Cardinality(basic) = Len(base)
    BY <1>0, <1>1, <1>5, <1>6, <1>12, FS_Subset
  <2>2. Cardinality(basic \cup first) = Cardinality(basic) + Cardinality(first) - Cardinality(basic \cap first)
    BY <2>1, FS_Union
  <2>3. Cardinality(basic \cap first) = 0
    BY <1>12, FS_EmptySet
  <2> HIDE DEF first, all
  <2>4. ToSet(all) = basic \cup first /\ Len(all) = Len(base) + k
    BY <1>10, <1>11
  <2>5. Cardinality(basic \cup first) = Len(base) + k - 0
    BY <1>12, <2>1, <2>2, <2>3
  <2>6. Cardinality(ToSet(all)) = Cardinality(basic \cup first)
    BY <2>4, Zenon
  <2>7. Len(base) \in Nat /\ k \in Nat
    BY <1>5, <1>8a
  <2>8. Len(base) + k - 0 = Len(base) + k
    BY <2>7
  <2> QED
    BY <2>4, <2>5, <2>6, <2>8, Zenon
<1>14. ToSet(all) \ basic = first
  BY <1>11, <1>12
<1>15. ASSUME NEW s \in first, NEW t \in DOMAIN r, t \notin ToSet(all)
       PROVE  score[t] <= score[s]
  <2>1. PICK i \in 1..k : s = best[i]
    BY <1>15
  <2>2. t \notin basic /\ t \notin first /\ t \in Skill \ BaseSkill /\ s \in Skill \ BaseSkill
    BY <1>1, <1>11, <1>12, <1>15
  <2>3. score[t] \in 0 .. MaxScore /\ score[s] \in 0 .. MaxScore
    BY <2>2
  <2>4. CASE t \notin wanted
    <3>1. ~(score[t] > 0)
      BY <1>1, <2>2, <2>4
    <3> QED
      BY <1>0, <2>3, <3>1
  <2>5. CASE t \in wanted
    <3>1. i \in 1..Len(best) /\ \A j \in 1..i : j \in 1..k
      BY <1>8
    <3>2. t \in wanted \ {best[j] : j \in 1..i}
      BY <2>2, <2>5, <3>1
    <3>3. Before(score, s, t)
      BY <1>7, <2>1, <3>1, <3>2
    <3> QED
      BY <1>0, <2>3, <3>3 DEF Before
  <2> QED
    BY <2>4, <2>5
<1> HIDE DEF all, first
<1>16. /\ choice.selected = all /\ choice.exceeded = left /\ choice.score = score
       /\ choice.mode = mode /\ choice.registry = DOMAIN r /\ choice.base = basic
  BY <1>2, <1>6 DEF all
<1>17. choice \in Choice
  <2>1. mode \in DOMAIN Slots \cup {"none"}
    OBVIOUS
  <2> QED
    BY <1>1, <1>2, <1>6, <1>10, <2>1 DEF Choice, all
<1> QED
  BY <1>8, <1>10, <1>11, <1>12, <1>13, <1>14, <1>15, <1>16, <1>17, ZenonT(60)

\* A prompt makes the choice whole, and nothing else touches it.
LEMMA SkillsNextKeeps == RoutingInv /\ [SkillsNext]_skillVars => RoutingInv'
<1> SUFFICES ASSUME RoutingInv, [SkillsNext]_skillVars PROVE RoutingInv'
  OBVIOUS
<1>1. CASE RoutePrompt
  <2>1. PICK score \in [Skill \ BaseSkill -> 0 .. MaxScore], mode \in DOMAIN Slots :
          routing' = routeSkillsV2(buildRegistry, score, mode)
    BY <1>1 DEF RoutePrompt
  <2>2. /\ routing' \in Choice
        /\ LET selected == ToSet(routing'.selected)
           IN  /\ routing'.base \subseteq selected
               /\ Cardinality(selected) = Len(routing'.selected)
               /\ Cardinality(selected \ routing'.base) <= Slots[routing'.mode]
               /\ \A s \in selected \ routing'.base, t \in routing'.registry \ selected :
                    routing'.score[t] <= routing'.score[s]
    BY <2>1, ChoiceIs
  <2> QED
    BY <2>2 DEF RoutingInv, SelectionIsRanked
<1>2. CASE RouteNothing
  <2>1. /\ routing' = [routing EXCEPT !.mode = "none", !.selected = <<>>,
                          !.exceeded = <<>>, !.registry = {}, !.base = {}]
        /\ routing \in Choice
    BY <1>2 DEF RouteNothing, RoutingInv
  <2>2. <<>> \in Seq(Skill)
    OBVIOUS
  <2>3. routing'.mode = "none" /\ routing' \in Choice
    BY <2>1, <2>2 DEF Choice
  <2> QED
    BY <2>3 DEF RoutingInv, SelectionIsRanked
<1>3. CASE UNCHANGED routing
  BY <1>3 DEF RoutingInv, SelectionIsRanked
<1>4. CASE InstallSkill \/ UpgradePlugin \/ loadSkillOnDemand
  BY <1>3, <1>4 DEF InstallSkill, UpgradePlugin, loadSkillOnDemand
<1>5. CASE UNCHANGED skillVars
  BY <1>3, <1>5 DEF skillVars
<1> QED
  BY <1>1, <1>2, <1>4, <1>5 DEF SkillsNext, RoutingNext, HandOverNext

\* A skill on disk has a text.
LEMMA LocalIs ==
  ASSUME SkillsTypeOK, NEW s \in Skill, Found(s) # {}
  PROVE  Local(s) \in Text
<1> DEFINE T == Found(s)
           t == CHOOSE t \in T : \A u \in T : t <= u
<1>1. T \in SUBSET Nat /\ T # {}
  <2>1. Cardinality(Tier) \in Nat
    BY SkillAssumption, FS_CardinalityType
  <2>2. T \subseteq 1 .. Cardinality(Tier)
    BY SkillAssumption DEF Found
  <2> QED
    BY <2>1, <2>2
<1>2. PICK x \in T : \A y \in T : x <= y
  <2> HIDE DEF T
  <2> QED
    BY <1>1, Least
<1>3. t \in T
  <2> HIDE DEF T
  <2> QED
    BY <1>2
<1>4. Local(s) = installed[t][s]
  BY DEF Local
<1> HIDE DEF t
<1>5. t \in Tier /\ installed[t][s] # NoSkill /\ installed[t] \in [Skill -> Text \cup {NoSkill}]
  BY <1>3 DEF Found, SkillsTypeOK
<1> QED
  BY <1>4, <1>5

\* So has every entry of the registry.
LEMMA ContentIs ==
  ASSUME SkillsTypeOK, NEW s \in DOMAIN buildRegistry
  PROVE  s \in Skill /\ buildRegistry[s].content \in Text
<1>1. s \in Skill /\ s \in discoverSkills \cup loadBundledRegistry
  BY RegistryIs DEF buildRegistry
<1>2. buildRegistry[s].content = IF s \in discoverSkills THEN Local(s) ELSE catalogue[s]
  BY <1>1 DEF buildRegistry
<1>3. CASE s \in discoverSkills
  <2>1. Found(s) # {}
    BY <1>3 DEF discoverSkills
  <2> QED
    BY <1>1, <1>2, <1>3, <2>1, LocalIs
<1>4. CASE s \notin discoverSkills
  <2>1. catalogue[s] # NoSkill /\ catalogue \in [Skill -> Text \cup {NoSkill}]
    BY <1>1, <1>4 DEF loadBundledRegistry, SkillsTypeOK
  <2> QED
    BY <1>1, <1>2, <1>4, <2>1
<1> QED
  BY <1>3, <1>4

LEMMA SkillsStepTyped ==
  SkillsTypeOK /\ RoutingInv /\ RoutingInv' /\ [SkillsNext]_skillVars => SkillsTypeOK'
<1> SUFFICES ASSUME SkillsTypeOK, RoutingInv, RoutingInv', [SkillsNext]_skillVars
             PROVE  SkillsTypeOK'
  OBVIOUS
<1>0. /\ MaxUses \in Nat /\ MaxChanged \in Nat /\ routing' \in Choice
      /\ \A t \in Tier : installed[t] \in [Skill -> Text \cup {NoSkill}]
      /\ changes \in 0 .. MaxChanged
      /\ catalogue \in [Skill -> Text \cup {NoSkill}]
      /\ corpus \in [Skill -> Text \cup {NoSkill}]
      /\ usage \in 0 .. MaxUses \cup {Garbled}
  BY SkillAssumption DEF RoutingInv, SkillsTypeOK
<1>1. CASE RoutePrompt
  <2>1. PICK score \in [Skill \ BaseSkill -> 0 .. MaxScore], mode \in DOMAIN Slots :
          LET choice == routeSkillsV2(buildRegistry, score, mode)
          IN  /\ routing' = choice
              /\ \/ usage' = recordSkillUsage(usage, Len(choice.selected))
                 \/ usage' = Garbled /\ choice.selected # <<>>
              /\ UNCHANGED <<installed, catalogue, corpus, changes>>
    BY <1>1 DEF RoutePrompt
  <2>2. \/ usage' = recordSkillUsage(usage, Len(routing'.selected))
        \/ usage' = Garbled
    BY <2>1
  <2>3. Len(routing'.selected) \in Nat
    BY <1>0 DEF Choice
  <2>4. ASSUME NEW uses \in Nat PROVE recordSkillUsage(usage, uses) \in 0 .. MaxUses
    <3> DEFINE log == IF usage = Garbled THEN 0 ELSE usage
    <3>1. log \in Nat /\ MaxUses \in Nat
      BY <1>0
    <3> HIDE DEF log
    <3>2. (IF log + uses > MaxUses THEN MaxUses ELSE log + uses) \in 0 .. MaxUses
      BY <3>1
    <3> QED
      BY <3>2 DEF recordSkillUsage, log
  <2>5. usage' \in 0 .. MaxUses \cup {Garbled}
    BY <2>2, <2>3, <2>4
  <2> QED
    BY <1>0, <2>1, <2>5 DEF SkillsTypeOK
<1>2. CASE RouteNothing
  BY <1>0, <1>2 DEF RouteNothing, SkillsTypeOK
<1>3. CASE InstallSkill
  <2>1. PICK t \in Tier, s \in Skill, text \in Text \cup {NoSkill} :
          /\ changes < MaxChanged /\ changes' = changes + 1
          /\ installed' = [installed EXCEPT ![t][s] = text]
          /\ UNCHANGED <<catalogue, corpus, usage, routing>>
    BY <1>3 DEF InstallSkill
  <2>2. ASSUME NEW u \in Tier PROVE installed'[u] \in [Skill -> Text \cup {NoSkill}]
    <3>1. installed'[u] = installed[u] \/ installed'[u] = [installed[t] EXCEPT ![s] = text]
      BY <2>1
    <3>2. installed[u] \in [Skill -> Text \cup {NoSkill}]
      BY <1>0
    <3>3. [installed[t] EXCEPT ![s] = text] \in [Skill -> Text \cup {NoSkill}]
      BY <1>0
    <3> QED
      BY <3>1, <3>2, <3>3
  <2>3. changes' \in 0 .. MaxChanged
    BY <1>0, <2>1
  <2> QED
    BY <1>0, <2>1, <2>2, <2>3 DEF SkillsTypeOK
<1>4. CASE UpgradePlugin
  <2>1. PICK s \in Skill, text \in Text \cup {NoSkill} :
          /\ changes < MaxChanged /\ changes' = changes + 1
          /\ catalogue' = [catalogue EXCEPT ![s] = text]
          /\ UNCHANGED <<installed, corpus, usage, routing>>
    BY <1>4 DEF UpgradePlugin
  <2>2. changes' \in 0 .. MaxChanged /\ catalogue' \in [Skill -> Text \cup {NoSkill}]
    BY <1>0, <2>1
  <2> QED
    BY <1>0, <2>1, <2>2 DEF SkillsTypeOK
<1>5. CASE loadSkillOnDemand
  <2>1. PICK s \in DOMAIN buildRegistry :
          /\ corpus' = [corpus EXCEPT ![s] = IF @ = NoSkill THEN buildRegistry[s].content ELSE @]
          /\ UNCHANGED <<installed, catalogue, usage, changes, routing>>
    BY <1>5 DEF loadSkillOnDemand
  <2>2. s \in Skill /\ buildRegistry[s].content \in Text
    BY ContentIs
  <2>3. corpus' \in [Skill -> Text \cup {NoSkill}]
    BY <1>0, <2>1, <2>2
  <2> QED
    BY <1>0, <2>1, <2>3 DEF SkillsTypeOK
<1>6. CASE UNCHANGED skillVars
  BY <1>0, <1>6 DEF skillVars, SkillsTypeOK
<1> QED
  BY <1>1, <1>2, <1>3, <1>4, <1>5, <1>6 DEF SkillsNext, RoutingNext, HandOverNext

LEMMA SkillsStart == SkillsInit => SkillsTypeOK /\ RoutingInv
<1> SUFFICES ASSUME SkillsInit PROVE SkillsTypeOK /\ RoutingInv
  OBVIOUS
<1>1. [s \in Skill \ BaseSkill |-> 0] \in [Skill \ BaseSkill -> 0 .. MaxScore]
  BY SkillAssumption
<1>2. <<>> \in Seq(Skill)
  OBVIOUS
<1>3. routing.mode = "none" /\ routing \in Choice
  BY <1>1, <1>2 DEF SkillsInit, Choice
<1>4. /\ usage \in 0 .. MaxUses /\ changes \in 0 .. MaxChanged
      /\ \A t \in Tier : installed[t] \in [Skill -> Text \cup {NoSkill}]
      /\ corpus \in [Skill -> Text \cup {NoSkill}]
  BY SkillAssumption DEF SkillsInit
<1>5. catalogue \in [Skill -> Text \cup {NoSkill}]
  BY SkillAssumption DEF SkillsInit, Text
<1> QED
  BY <1>3, <1>4, <1>5 DEF RoutingInv, SelectionIsRanked, SkillsTypeOK

\* The skills' files, the log of their uses and the choice keep their types.
THEOREM AlwaysSkillsTyped == SkillsSpec => []SkillsTypeOK
  BY SkillsStart, SkillsNextKeeps, SkillsStepTyped, PTL DEF SkillsSpec

\* Every prompt gets the base and the best of the rest, whichever skills are
\* installed, changed or released meanwhile.
THEOREM AlwaysSelectionIsRanked == SkillsSpec => []SelectionIsRanked
<1>1. RoutingInv => SelectionIsRanked
  BY DEF RoutingInv
<1> QED
  BY <1>1, SkillsStart, SkillsNextKeeps, PTL DEF SkillsSpec
=============================================================================
