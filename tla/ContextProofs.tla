----------------------------- MODULE ContextProofs -----------------------------
(***************************************************************************)
(* What a prompt is made of: of the graph, that it keeps both ends of      *)
(* every edge and that a complete answer leaves nothing out; of the        *)
(* assembly, that it keeps its budget; of capsules, that a selection is    *)
(* closed; of memory layers, that an eviction is fair.                     *)
(*                                                                         *)
(* Sums over sets and levels of a search are recursive functions.  What    *)
(* they are is shown by an induction on sets of numbers: a solution of the *)
(* recursion is built size by size, or level by level, and only then does  *)
(* the CHOOSE in its definition name one.                                  *)
(***************************************************************************)
EXTENDS ContextAssembly, Capsules, ContextItems, FiniteSetTheorems, WellFoundedInduction,
        TLAPS

(***************************************************************************)
(* Induction over the natural numbers, for a set: a number that is not in  *)
(* G would have a least one below it.                                      *)
(***************************************************************************)
LEMMA SetInduction ==
  ASSUME NEW G, 0 \in G, \A n \in Nat : n \in G => n + 1 \in G
  PROVE  \A n \in Nat : n \in G
<1> SUFFICES ASSUME NEW m \in Nat, m \notin G PROVE FALSE
  OBVIOUS
<1> DEFINE bad == {n \in Nat : n \notin G}
<1>1. \E k \in bad : \A j \in bad : ~ (<<j, k>> \in OpToRel(<, Nat))
  BY WFMin, NatLessThanWellFounded
<1>2. PICK k \in bad : \A j \in bad : ~ (j < k)
  BY <1>1 DEF OpToRel
<1>3. k # 0 /\ k - 1 \in Nat
  OBVIOUS
<1>4. k - 1 \in G
  BY <1>2, <1>3
<1>5. (k - 1) + 1 \in G
  BY <1>3, <1>4
<1> QED
  BY <1>5

(***************************************************************************)
(* The sum of the weights of a set, which both the router (Cost) and the   *)
(* selection of capsules reckon.                                           *)
(***************************************************************************)
Total(w, S) == MapThenSumSet(LAMBDA x : w[x], S)

First(s) == CHOOSE x \in s : TRUE

Summed(w, sum, s) == IF s = {} THEN 0 ELSE w[First(s)] + sum[s \ {First(s)}]

LEMMA TotalIs ==
  ASSUME NEW w, NEW S
  PROVE  Total(w, S) = (CHOOSE sum : sum = [s \in SUBSET S |-> Summed(w, sum, s)])[S]
BY DEF Total, MapThenSumSet, MapThenFoldSet, Summed, First

LEMMA Smaller ==
  ASSUME NEW S, IsFiniteSet(S), NEW s \in SUBSET S
  PROVE  /\ IsFiniteSet(s) /\ Cardinality(s) \in Nat
         /\ Cardinality(s) <= Cardinality(S)
         /\ Cardinality(s) = 0 <=> s = {}
         /\ \A x \in s : Cardinality(s \ {x}) = Cardinality(s) - 1
         /\ s # {} => First(s) \in s
<1>1. IsFiniteSet(s) /\ Cardinality(s) <= Cardinality(S)
  BY FS_Subset
<1>2. Cardinality(s) \in Nat /\ (Cardinality(s) = 0 <=> s = {})
  BY <1>1, FS_CardinalityType, FS_EmptySet
<1>3. \A x \in s : Cardinality(s \ {x}) = Cardinality(s) - 1
  BY <1>1, FS_RemoveElement
<1>4. s # {} => First(s) \in s
  BY DEF First
<1> QED
  BY <1>1, <1>2, <1>3, <1>4

\* The recursion has a solution: each size of subset extends the one below it.
LEMMA SumExists ==
  ASSUME NEW w, NEW S, IsFiniteSet(S)
  PROVE  \E sum : sum = [s \in SUBSET S |-> Summed(w, sum, s)]
<1> DEFINE Below(n) == {s \in SUBSET S : Cardinality(s) <= n}
           G == {n \in Nat : \E g : g = [s \in Below(n) |-> Summed(w, g, s)]}
<1>1. 0 \in G
  <2> DEFINE g == [s \in Below(0) |-> 0]
  <2>1. \A s \in Below(0) : s = {}
    BY Smaller
  <2>2. g = [s \in Below(0) |-> Summed(w, g, s)]
    BY <2>1 DEF Summed
  <2> QED
    BY <2>2
<1>2. ASSUME NEW n \in Nat, n \in G PROVE n + 1 \in G
  <2>1. PICK g : g = [s \in Below(n) |-> Summed(w, g, s)]
    BY <1>2
  <2> DEFINE h == [s \in Below(n + 1) |-> Summed(w, g, s)]
  <2>2. ASSUME NEW s \in Below(n + 1), s # {}
        PROVE  h[s \ {First(s)}] = g[s \ {First(s)}]
    <3>1. s \ {First(s)} \in Below(n) /\ s \ {First(s)} \in Below(n + 1)
      BY <2>2, Smaller
    <3>2. g[s \ {First(s)}] = Summed(w, g, s \ {First(s)})
      BY <2>1, <3>1
    <3> QED
      BY <3>1, <3>2
  <2>3. h = [s \in Below(n + 1) |-> Summed(w, g, s)]
    OBVIOUS
  <2> HIDE DEF h
  <2>4. ASSUME NEW s \in Below(n + 1) PROVE Summed(w, h, s) = Summed(w, g, s)
    BY <2>2, <2>4 DEF Summed
  <2>5. h = [s \in Below(n + 1) |-> Summed(w, h, s)]
    BY <2>3, <2>4
  <2> HIDE DEF Below
  <2>6. \E f : f = [s \in Below(n + 1) |-> Summed(w, f, s)]
    BY <2>5
  <2> QED
    BY <2>6
<1>3. \A n \in Nat : n \in G
  <2> HIDE DEF G
  <2> QED
    BY <1>1, <1>2, SetInduction
<1>4. Cardinality(S) \in G
  BY <1>3, FS_CardinalityType
<1>5. Below(Cardinality(S)) = SUBSET S
  BY Smaller
<1> QED
  BY <1>4, <1>5

\* The solution, over all subsets of S.
Sums(w, S) == CHOOSE sum : sum = [s \in SUBSET S |-> Summed(w, sum, s)]

LEMMA SumsAre ==
  ASSUME NEW w, NEW S, IsFiniteSet(S)
  PROVE  \A s \in SUBSET S : Sums(w, S)[s] = Summed(w, Sums(w, S), s)
<1>1. Sums(w, S) = [s \in SUBSET S |-> Summed(w, Sums(w, S), s)]
  BY SumExists DEF Sums
<1> QED
  BY <1>1

\* What holds of every finite set if it holds of a set whenever it holds of all
\* smaller ones: the induction on the size of a subset.
LEMMA SumsAgree ==
  ASSUME NEW w, NEW S, IsFiniteSet(S), NEW T \in SUBSET S
  PROVE  Sums(w, T)[T] = Sums(w, S)[T]
<1> DEFINE f == Sums(w, T)
           g == Sums(w, S)
           G == {n \in Nat : \A s \in SUBSET T : Cardinality(s) = n => f[s] = g[s]}
<1>0. IsFiniteSet(T)
  BY FS_Subset
<1>1. \A s \in SUBSET T : f[s] = Summed(w, f, s) /\ g[s] = Summed(w, g, s)
  BY <1>0, SumsAre
<1> HIDE DEF f, g
<1>2. 0 \in G
  BY <1>0, <1>1, Smaller DEF Summed
<1>3. ASSUME NEW n \in Nat, n \in G PROVE n + 1 \in G
  <2> SUFFICES ASSUME NEW s \in SUBSET T, Cardinality(s) = n + 1 PROVE f[s] = g[s]
    OBVIOUS
  <2>1. s # {} /\ s \ {First(s)} \in SUBSET T /\ Cardinality(s \ {First(s)}) = n
    BY <1>0, Smaller, SMTT(60)
  <2>2. f[s \ {First(s)}] = g[s \ {First(s)}]
    BY <1>3, <2>1
  <2> QED
    BY <1>1, <2>1, <2>2 DEF Summed
<1>4. \A n \in Nat : n \in G
  <2> HIDE DEF G
  <2> QED
    BY <1>2, <1>3, SetInduction
<1>5. Cardinality(T) \in G
  BY <1>0, <1>4, FS_CardinalityType
<1> QED
  BY <1>5 DEF f, g

LEMMA SumsNat ==
  ASSUME NEW w, NEW S, IsFiniteSet(S), \A x \in S : w[x] \in Nat
  PROVE  \A s \in SUBSET S : Sums(w, S)[s] \in Nat
<1> DEFINE g == Sums(w, S)
           G == {n \in Nat : \A s \in SUBSET S : Cardinality(s) = n => g[s] \in Nat}
<1>1. \A s \in SUBSET S : g[s] = Summed(w, g, s)
  BY SumsAre
<1> HIDE DEF g
<1>2. 0 \in G
  <2>1. \A s \in SUBSET S : Cardinality(s) = 0 => g[s] = 0
    BY <1>1, Smaller DEF Summed
  <2> QED
    BY <2>1
<1>3. ASSUME NEW n \in Nat, n \in G PROVE n + 1 \in G
  <2> SUFFICES ASSUME NEW s \in SUBSET S, Cardinality(s) = n + 1 PROVE g[s] \in Nat
    OBVIOUS
  <2>1. s # {} /\ First(s) \in S
        /\ s \ {First(s)} \in SUBSET S /\ Cardinality(s \ {First(s)}) = n
    BY Smaller
  <2>2. g[s \ {First(s)}] \in Nat
    BY <1>3, <2>1
  <2> QED
    BY <1>1, <2>1, <2>2, SMTT(60) DEF Summed
<1>4. \A n \in Nat : n \in G
  <2> HIDE DEF G
  <2> QED
    BY <1>2, <1>3, SetInduction
<1>5. \A s \in SUBSET S : Cardinality(s) \in G
  BY <1>4, Smaller
<1> QED
  BY <1>5 DEF g

\* Whichever element is counted first.
LEMMA SumsAnyFirst ==
  ASSUME NEW w, NEW S, IsFiniteSet(S), \A x \in S : w[x] \in Nat
  PROVE  \A s \in SUBSET S : \A x \in s : Sums(w, S)[s] = w[x] + Sums(w, S)[s \ {x}]
<1> DEFINE g == Sums(w, S)
           G == {n \in Nat : \A s \in SUBSET S : \A x \in s :
                               Cardinality(s) = n => g[s] = w[x] + g[s \ {x}]}
<1>1. \A s \in SUBSET S : g[s] = Summed(w, g, s) /\ g[s] \in Nat
  BY SumsAre, SumsNat
<1> HIDE DEF g
<1>2. 0 \in G
  BY Smaller
<1>3. ASSUME NEW n \in Nat, n \in G PROVE n + 1 \in G
  <2> SUFFICES ASSUME NEW s \in SUBSET S, NEW x \in s, Cardinality(s) = n + 1
               PROVE  g[s] = w[x] + g[s \ {x}]
    OBVIOUS
  <2> DEFINE y == First(s)
  <2>1. y \in s /\ g[s] = w[y] + g[s \ {y}]
    BY <1>1, Smaller DEF Summed
  <2>2. Cardinality(s \ {y}) = n /\ Cardinality(s \ {x}) = n
    BY <2>1, Smaller
  <2> HIDE DEF y
  <2>3. CASE x = y
    BY <2>1, <2>3
  <2>4. CASE x # y
    <3>1. g[s \ {y}] = w[x] + g[(s \ {y}) \ {x}]
      BY <1>3, <2>1, <2>2, <2>4
    <3>2. g[s \ {x}] = w[y] + g[(s \ {x}) \ {y}]
      BY <1>3, <2>1, <2>2, <2>4
    <3>3. (s \ {y}) \ {x} = (s \ {x}) \ {y} /\ (s \ {x}) \ {y} \in SUBSET S
      OBVIOUS
    <3> DEFINE rest == g[(s \ {x}) \ {y}]
    <3>4. w[x] \in Nat /\ w[y] \in Nat /\ rest \in Nat
      BY <1>1, <2>1, <3>3
    <3>5. g[s] = w[y] + (w[x] + rest) /\ g[s \ {x}] = w[y] + rest
      BY <2>1, <3>1, <3>2, <3>3
    <3> HIDE DEF rest
    <3> QED
      BY <3>4, <3>5
  <2> QED
    BY <2>3, <2>4
<1>4. \A n \in Nat : n \in G
  <2> HIDE DEF G
  <2> QED
    BY <1>2, <1>3, SetInduction
<1>5. \A s \in SUBSET S : Cardinality(s) \in G
  BY <1>4, Smaller
<1> QED
  BY <1>5 DEF g

\* The sum of a finite set of natural numbers, element by element.
LEMMA TotalSums ==
  ASSUME NEW w, NEW S, IsFiniteSet(S), \A x \in S : w[x] \in Nat
  PROVE  /\ Total(w, S) \in Nat
         /\ S = {} => Total(w, S) = 0
         /\ \A x \in S : Total(w, S) = w[x] + Total(w, S \ {x})
<1>1. ASSUME NEW T \in SUBSET S PROVE Total(w, T) = Sums(w, S)[T]
  <2>1. Total(w, T) = Sums(w, T)[T]
    BY TotalIs DEF Sums
  <2> QED
    BY <2>1, SumsAgree
<1>2. /\ Sums(w, S)[S] \in Nat
      /\ \A x \in S : Sums(w, S)[S] = w[x] + Sums(w, S)[S \ {x}]
  BY SumsNat, SumsAnyFirst
<1>3. S = {} => Sums(w, S)[S] = 0
  BY SumsAre DEF Summed
<1> QED
  BY <1>1, <1>2, <1>3

-----------------------------------------------------------------------------
(* The router.                                                             *)

RequiredIn(g, upstream, relevant) == Required(g, upstream, relevant) \cap Nodes(g)
MandatoryIn(g, upstream, relevant) == {n \in RequiredIn(g, upstream, relevant) : Mandatory(g, n)}
ConditionalIn(g, upstream, relevant) == {n \in RequiredIn(g, upstream, relevant) : Conditional(g, n)}
ConflictIn(g, upstream, relevant) ==
  \E n \in RequiredIn(g, upstream, relevant) :
    getContradicting(g, n) \cap RequiredIn(g, upstream, relevant) # {}
BadIn(g, upstream, budget, relevant) ==
  \/ Required(g, upstream, relevant) \ Nodes(g) # {}
  \/ Cost(MandatoryIn(g, upstream, relevant)) > budget

\* What an answer of the router says, whatever it took and left.
LEMMA AnswerSays ==
  ASSUME NEW g, NEW upstream, NEW budget, NEW relevant,
         NEW answer \in AnswersFrom(g, upstream, budget, relevant)
  PROVE  /\ answer.nodes \subseteq RequiredIn(g, upstream, relevant)
         /\ answer.sufficient = (~ConflictIn(g, upstream, relevant) /\ ~BadIn(g, upstream, budget, relevant))
         /\ answer.status = "COMPLETE" =>
              ~ConflictIn(g, upstream, relevant) /\ answer.nodes = RequiredIn(g, upstream, relevant)
<1> DEFINE required == RequiredIn(g, upstream, relevant)
           mandatory == MandatoryIn(g, upstream, relevant)
           conditional == ConditionalIn(g, upstream, relevant)
           conflict == ConflictIn(g, upstream, relevant)
           bad == BadIn(g, upstream, budget, relevant)
           Answer(S) ==
             [nodes |-> S,
              status |-> CASE conflict -> "CONFLICTED" [] ~conflict /\ bad -> "INSUFFICIENT"
                           [] OTHER -> IF S # required THEN "PARTIAL" ELSE "COMPLETE",
              sufficient |-> ~conflict /\ ~bad]
           AnswersWith(C) ==
             {Answer(mandatory \cup C \cup O) :
                O \in Fillings(mandatory \cup C, required \ (mandatory \cup conditional), budget)}
<1>1. AnswersFrom(g, upstream, budget, relevant)
        = UNION {AnswersWith(C) : C \in Fillings(mandatory, conditional, budget)}
  BY Zenon DEF AnswersFrom, RequiredIn, MandatoryIn, ConditionalIn, ConflictIn, BadIn
<1> HIDE DEF required, mandatory, conditional, conflict, bad
<1>2. PICK C \in Fillings(mandatory, conditional, budget) : answer \in AnswersWith(C)
  BY <1>1
<1>a. PICK O \in Fillings(mandatory \cup C, required \ (mandatory \cup conditional), budget) :
        answer = Answer(mandatory \cup C \cup O)
  BY <1>2
<1>b. mandatory \cup C \cup O \subseteq required
  BY DEF Fillings, mandatory, conditional, MandatoryIn, ConditionalIn, required
<1>3. PICK S \in SUBSET required : answer = Answer(S)
  BY <1>a, <1>b
<1>4. answer.sufficient = (~conflict /\ ~bad)
  BY <1>3
<1>5. answer.status = "COMPLETE" => ~conflict /\ answer.nodes = required
  BY <1>3
<1>6. answer.nodes \subseteq required
  BY <1>3
<1> QED
  BY <1>4, <1>5, <1>6 DEF conflict, bad, required

(***************************************************************************)
(* What a search finds.                                                    *)
(***************************************************************************)
Places(nodes, n, depth) == [nodes \ {n} -> Distances(nodes, depth)]

Away(n, at, m) == IF m = n THEN 0 ELSE at[m]

ExpandedAt(nodes, next, n, depth, at) ==
  \A m \in nodes \ {n} :
    /\ at[m] < depth => \E u \in nodes : m \in next[u] /\ at[m] = Away(n, at, u) + 1
    /\ (\E u \in nodes : m \in next[u] /\ Away(n, at, u) + 1 < depth) => at[m] < depth

Nearer(nodes, n, depth, at) == {m \in nodes : Away(n, at, m) < depth}

FoundBy(nodes, next, n, depth, at) ==
  (UNION {next[u] : u \in Nearer(nodes, n, depth, at)}) \ {n}

Explains(nodes, next, n, depth, found, at) ==
  /\ at \in Places(nodes, n, depth)
  /\ ExpandedAt(nodes, next, n, depth, at)
  /\ found = FoundBy(nodes, next, n, depth, at)

\* c is a chain of k links from n to m, of nodes expanded one nearer each.
ChainTo(nodes, next, n, at, k, m, c) ==
  /\ c \in [0..k -> nodes] /\ c[0] = n /\ c[k] = m
  /\ \A i \in 0..k : Away(n, at, c[i]) = i
  /\ \A i \in 0..(k-1) : c[i+1] \in next[c[i]]

\* c is a chain of k links from n over different nodes.
SimpleChain(nodes, next, n, k, c) ==
  /\ c \in [0..k -> nodes] /\ c[0] = n
  /\ \A i \in 0..(k-1) : c[i+1] \in next[c[i]]
  /\ \A i, j \in 0..k : c[i] = c[j] => i = j

LEMMA SearchFinds ==
  ASSUME NEW nodes, NEW next, NEW n, NEW depth, NEW found \in Search(nodes, next, n, depth)
  PROVE  \E at : Explains(nodes, next, n, depth, found, at)
BY Zenon DEF Search, Explains, ExpandedAt, FoundBy, Nearer, Away, Places

LEMMA FoundHas ==
  ASSUME NEW nodes, NEW next, NEW n, NEW depth, NEW at, NEW u \in nodes, Away(n, at, u) < depth
  PROVE  next[u] \subseteq {n} \cup FoundBy(nodes, next, n, depth, at)
<1> SUFFICES ASSUME NEW x \in next[u], x # n PROVE x \in FoundBy(nodes, next, n, depth, at)
  OBVIOUS
<1>1. u \in Nearer(nodes, n, depth, at)
  BY DEF Nearer
<1> QED
  BY <1>1 DEF FoundBy

LEMMA SearchStays ==
  ASSUME NEW nodes, NEW next, NEW n, NEW depth, NEW found \in Search(nodes, next, n, depth),
         \A u \in nodes : next[u] \subseteq nodes
  PROVE  found \subseteq nodes
<1>1. PICK at : Explains(nodes, next, n, depth, found, at)
  BY SearchFinds
<1> QED
  BY <1>1 DEF Explains, FoundBy, Nearer

\* Two links from its start a search always finds all there is: what the start
\* leads to is expanded.
LEMMA SearchNear ==
  ASSUME NEW nodes, NEW next, NEW n \in nodes, NEW depth \in Nat \ {0, 1},
         NEW found \in Search(nodes, next, n, depth),
         \A u \in nodes : next[u] \subseteq nodes,
         NEW m \in next[n]
  PROVE  {m} \cup next[m] \subseteq {n} \cup found
<1>0. PICK at : Explains(nodes, next, n, depth, found, at)
  BY SearchFinds
<1>1. /\ at \in Places(nodes, n, depth)
      /\ ExpandedAt(nodes, next, n, depth, at)
      /\ found = FoundBy(nodes, next, n, depth, at)
  BY <1>0 DEF Explains
<1>2. Away(n, at, n) = 0 /\ 0 < depth /\ Away(n, at, n) + 1 < depth /\ m \in nodes
  BY DEF Away, Places
<1>3. Away(n, at, m) < depth
  BY <1>1, <1>2 DEF ExpandedAt, Away, Places
<1>4. \A u \in nodes : Away(n, at, u) < depth => next[u] \subseteq {n} \cup found
  BY <1>1, FoundHas
<1> QED
  BY <1>2, <1>3, <1>4

\* A node that is expanded k links away has a chain of k links before it, of
\* nodes expanded one nearer each.
LEMMA ChainBefore ==
  ASSUME NEW nodes, NEW next, NEW n \in nodes, NEW depth \in Nat \ {0},
         NEW at \in Places(nodes, n, depth), ExpandedAt(nodes, next, n, depth, at)
  PROVE  \A k \in Nat : \A m \in nodes :
           k < depth /\ Away(n, at, m) = k => \E c : ChainTo(nodes, next, n, at, k, m, c)
<1> DEFINE IsTo(c, k, m) == ChainTo(nodes, next, n, at, k, m, c)
           G == {k \in Nat : \A m \in nodes :
                   k < depth /\ Away(n, at, m) = k => \E c : IsTo(c, k, m)}
<1>1. \A m \in nodes : Away(n, at, m) \in Nat /\ (Away(n, at, m) = 0 <=> m = n)
  BY DEF Away, Places, Distances
<1>2. 0 \in G
  <2> SUFFICES ASSUME NEW m \in nodes, Away(n, at, m) = 0
               PROVE  \E c : IsTo(c, 0, m)
    OBVIOUS
  <2>1. m = n
    BY <1>1
  <2>2. IsTo([i \in 0..0 |-> n], 0, m)
    BY <2>1 DEF ChainTo
  <2> QED
    BY <2>2
<1>3. ASSUME NEW k \in Nat, k \in G PROVE k + 1 \in G
  <2> SUFFICES ASSUME NEW m \in nodes, k + 1 < depth, Away(n, at, m) = k + 1
               PROVE  \E c : IsTo(c, k + 1, m)
    OBVIOUS
  <2>1. m # n /\ at[m] = k + 1
    BY <1>1 DEF Away, Places
  <2>2. PICK u \in nodes : m \in next[u] /\ at[m] = Away(n, at, u) + 1
    BY <2>1 DEF ExpandedAt
  <2>3. Away(n, at, u) = k /\ k < depth
    <3>1. Away(n, at, u) \in Nat
      BY <1>1, <2>2
    <3>2. k + 1 = Away(n, at, u) + 1 /\ k + 1 < depth
      BY <2>1, <2>2
    <3> QED
      BY <3>1, <3>2
  <2>4. PICK c : IsTo(c, k, u)
    BY <1>3, <2>3
  <2>a. /\ c \in [0..k -> nodes] /\ c[0] = n /\ c[k] = u
        /\ \A i \in 0..k : Away(n, at, c[i]) = i
        /\ \A i \in 0..(k-1) : c[i+1] \in next[c[i]]
    BY <2>4 DEF ChainTo
  <2> DEFINE d == [i \in 0..(k+1) |-> IF i = k + 1 THEN m ELSE c[i]]
  <2>5. d \in [0..(k+1) -> nodes] /\ d[k+1] = m /\ \A i \in 0..k : d[i] = c[i]
    BY <2>a
  <2> HIDE DEF d
  <2>6. d[0] = n
    BY <2>a, <2>5
  <2>7. ASSUME NEW i \in 0..(k+1) PROVE Away(n, at, d[i]) = i
    <3>1. i = k + 1 \/ i \in 0..k
      OBVIOUS
    <3> QED
      BY <2>a, <2>5, <3>1
  <2>8. ASSUME NEW i \in 0..((k+1)-1) PROVE d[i+1] \in next[d[i]]
    <3>1. CASE i = k
      BY <2>2, <2>a, <2>5, <3>1
    <3>2. CASE i # k
      <4>1. i \in 0..(k-1) /\ i \in 0..k /\ i + 1 \in 0..k
        BY <3>2
      <4> QED
        BY <2>a, <2>5, <4>1
    <3> QED
      BY <3>1, <3>2
  <2>9. IsTo(d, k + 1, m)
    BY <2>5, <2>6, <2>7, <2>8 DEF ChainTo
  <2> QED
    BY <2>9
<1>4. \A k \in Nat : k \in G
  <2> HIDE DEF G
  <2> QED
    BY <1>2, <1>3, SetInduction
<1> QED
  BY <1>4

\* What leads out of what a search found lies behind a chain of different nodes
\* longer than the search goes.
LEMMA SearchLeaves ==
  ASSUME NEW nodes, NEW next, NEW n \in nodes, NEW depth \in Nat \ {0},
         NEW found \in Search(nodes, next, n, depth),
         \A u \in nodes : next[u] \subseteq nodes,
         NEW e \in {n} \cup found, NEW x \in next[e], x \notin {n} \cup found
  PROVE  \E c : SimpleChain(nodes, next, n, depth + 1, c)
<1>0. PICK at : Explains(nodes, next, n, depth, found, at)
  BY SearchFinds
<1>1. /\ at \in Places(nodes, n, depth)
      /\ ExpandedAt(nodes, next, n, depth, at)
      /\ found = FoundBy(nodes, next, n, depth, at)
  BY <1>0 DEF Explains
<1>2. found \subseteq nodes /\ e \in nodes /\ x \in nodes
  BY SearchStays
<1>3. \A m \in nodes : Away(n, at, m) \in 0..depth /\ (Away(n, at, m) = 0 <=> m = n)
  <2> TAKE m \in nodes
  <2>1. m # n => at[m] \in 1..depth
    BY <1>1 DEF Places, Distances
  <2> QED
    BY <2>1 DEF Away
<1>4. \A m \in nodes : Away(n, at, m) < depth => next[m] \subseteq {n} \cup found
  BY <1>1, FoundHas
<1>5. Away(n, at, e) = depth /\ e # n /\ e \in found
  BY <1>2, <1>3, <1>4
<1>6. PICK u \in nodes : e \in next[u] /\ Away(n, at, u) < depth
  BY <1>1, <1>5 DEF FoundBy, Nearer
<1>7. Away(n, at, u) = depth - 1
  <2>1. ~(Away(n, at, u) + 1 < depth)
    BY <1>1, <1>2, <1>5, <1>6 DEF ExpandedAt, Away, Places
  <2> QED
    BY <1>3, <1>6, <2>1
<1> DEFINE k == depth - 1
<1>a. k \in Nat /\ k < depth
  OBVIOUS
<1>b. PICK c : ChainTo(nodes, next, n, at, k, u, c)
  <2> HIDE DEF k
  <2>1. Away(n, at, u) = k
    BY <1>7 DEF k
  <2> QED
    BY <1>1, <1>a, <2>1, ChainBefore
<1>8. /\ c \in [0..k -> nodes] /\ c[0] = n /\ c[k] = u
      /\ \A i \in 0..k : Away(n, at, c[i]) = i
      /\ \A i \in 0..(k-1) : c[i+1] \in next[c[i]]
  BY <1>b DEF ChainTo
\* Of the found nodes that lead away only those are expanded.
<1>9. \A i \in 0..k : c[i] # e /\ c[i] # x
  <2> TAKE i \in 0..k
  <2>1. c[i] \in nodes /\ Away(n, at, c[i]) < depth
    BY <1>8
  <2>2. c[i] # e
    BY <1>5, <2>1
  <2>3. c[i] = n \/ c[i] \in found
    <3>1. CASE i = 0
      BY <1>8, <3>1
    <3>2. CASE i # 0
      <4>1. i - 1 \in 0..(k-1) /\ i - 1 \in 0..k /\ (i - 1) + 1 = i
        BY <3>2
      <4>2. c[i] \in next[c[i-1]] /\ c[i-1] \in nodes /\ Away(n, at, c[i-1]) < depth
        BY <1>8, <4>1
      <4> QED
        BY <1>4, <4>2
    <3> QED
      BY <3>1, <3>2
  <2> QED
    BY <2>2, <2>3
<1>10. e # x
  OBVIOUS
<1> DEFINE d == [i \in 0..(depth+1) |-> IF i = depth + 1 THEN x ELSE IF i = depth THEN e ELSE c[i]]
<1>11. /\ d \in [0..(depth+1) -> nodes] /\ d[depth+1] = x /\ d[depth] = e
       /\ \A i \in 0..k : d[i] = c[i]
  BY <1>2, <1>8
<1> HIDE DEF d
<1>12. d[0] = n
  BY <1>8, <1>11
<1>13. ASSUME NEW i \in 0..depth PROVE d[i+1] \in next[d[i]]
  <2>1. CASE i = depth
    BY <1>11, <2>1
  <2>2. CASE i = depth - 1
    BY <1>6, <1>8, <1>11, <2>2
  <2>3. CASE i # depth /\ i # depth - 1
    <3>1. i \in 0..(k-1) /\ i \in 0..k /\ i + 1 \in 0..k
      BY <2>3
    <3> QED
      BY <1>8, <1>11, <3>1
  <2> QED
    BY <2>1, <2>2, <2>3
<1>14. \A i, j \in 0..k : d[i] = d[j] => i = j
  BY <1>8, <1>11
<1>15. \A i \in 0..k : d[i] # d[depth] /\ d[i] # d[depth+1]
  BY <1>9, <1>11
<1>16. d[depth] # d[depth+1]
  BY <1>10, <1>11
<1>17. \A i, j \in 0..(depth+1) : d[i] = d[j] => i = j
  <2>1. \A i \in 0..(depth+1) : i \in 0..k \/ i = depth \/ i = depth + 1
    OBVIOUS
  <2> HIDE DEF k
  <2> QED
    BY <1>14, <1>15, <1>16, <2>1
<1>18. (depth + 1) - 1 = depth
  OBVIOUS
<1>19. SimpleChain(nodes, next, n, depth + 1, d)
  BY <1>11, <1>12, <1>13, <1>17, <1>18, Zenon DEF SimpleChain
<1> QED
  BY <1>19

LEMMA AheadStays ==
  ASSUME NEW g
  PROVE  \A u \in Nodes(g) : Ahead(g)[u] \subseteq Nodes(g) /\ Behind(g)[u] \subseteq Nodes(g)
BY DEF Nodes, Ahead, Behind

(***************************************************************************)
(* The graph keeps its types, and every edge both its ends.                *)
(***************************************************************************)
GoodGraph(g) ==
  /\ DOMAIN g = {"node", "from", "to"}
  /\ g.node \in [Node -> NodeEntry \cup {NoNode}]
  /\ g.from = g.to /\ g.from \subseteq Node \X EDGE_TYPES \X Node
  /\ \A e \in g.from : e[1] \in Nodes(g) /\ e[3] \in Nodes(g)
  /\ g = [node |-> g.node, from |-> g.from, to |-> g.to]

LEMMA PlainIs == \A n \in Node : Plain(Kind[n]) \in NodeEntry /\ Plain("task") \in NodeEntry
BY GraphAssumption DEF Plain, NodeEntry, NODE_TYPES

LEMMA NodeAdded ==
  ASSUME NEW g, GoodGraph(g), NEW n \in Node, NEW entry \in NodeEntry
  PROVE  /\ GoodGraph(addNode(g, n, entry))
         /\ Nodes(addNode(g, n, entry)) = Nodes(g) \cup {n}
         /\ addNode(g, n, entry).from = g.from
<1> DEFINE h == addNode(g, n, entry)
<1>1. /\ h.node = [g.node EXCEPT ![n] = entry] /\ h.from = g.from /\ h.to = g.to
      /\ h = [node |-> [g.node EXCEPT ![n] = entry], from |-> g.from, to |-> g.to]
  BY DEF addNode, GoodGraph
<1> HIDE DEF h
<1>2. h.node \in [Node -> NodeEntry \cup {NoNode}] /\ Nodes(h) = Nodes(g) \cup {n}
  BY <1>1, GraphAssumption DEF GoodGraph, Nodes
<1>3. DOMAIN h = {"node", "from", "to"} /\ h = [node |-> h.node, from |-> h.from, to |-> h.to]
  BY <1>1
<1> QED
  BY <1>1, <1>2, <1>3 DEF GoodGraph, h

LEMMA EdgesAdded ==
  ASSUME NEW g, GoodGraph(g), NEW E \in SUBSET (Nodes(g) \X EDGE_TYPES \X Nodes(g)),
         NEW h, h = [g EXCEPT !.from = @ \cup E, !.to = @ \cup E]
  PROVE  GoodGraph(h)
<1>1. /\ h.node = g.node /\ h.from = g.from \cup E /\ h.to = g.to \cup E
      /\ h = [node |-> g.node, from |-> g.from \cup E, to |-> g.to \cup E]
  BY DEF GoodGraph
<1>2. Nodes(h) = Nodes(g) /\ Nodes(g) \subseteq Node
  BY <1>1 DEF Nodes
<1>3. h.from \subseteq Node \X EDGE_TYPES \X Node
  BY <1>1, <1>2 DEF GoodGraph
<1>4. \A e \in h.from : e[1] \in Nodes(h) /\ e[3] \in Nodes(h)
  BY <1>1, <1>2 DEF GoodGraph
<1>5. DOMAIN h = {"node", "from", "to"} /\ h = [node |-> h.node, from |-> h.from, to |-> h.to]
  BY <1>1
<1> QED
  BY <1>1, <1>3, <1>4, <1>5 DEF GoodGraph

LEMMA EdgeAdded ==
  ASSUME NEW g, GoodGraph(g), NEW e \in Node \X EDGE_TYPES \X Node,
         e[1] \in Nodes(g), e[3] \in Nodes(g)
  PROVE  GoodGraph(addEdge(g, e))
<1>1. {e} \in SUBSET (Nodes(g) \X EDGE_TYPES \X Nodes(g))
  OBVIOUS
<1> QED
  BY <1>1, EdgesAdded DEF addEdge

LEMMA TaskAdded ==
  ASSUME NEW g, GoodGraph(g), NEW n \in Node
  PROVE  /\ GoodGraph(TaskIn(g, n))
         /\ Nodes(TaskIn(g, n)) = Nodes(g) \cup {n}
BY NodeAdded, PlainIs DEF TaskIn

LEMMA NodeRemoved ==
  ASSUME NEW g, GoodGraph(g), NEW n \in Node
  PROVE  GoodGraph(removeNode(g, n))
<1> DEFINE gone == EdgesFrom(g, n) \cup EdgesTo(g, n)
           h == removeNode(g, n)
<1>1. h = [node |-> [g.node EXCEPT ![n] = NoNode], from |-> g.from \ gone, to |-> g.to \ gone]
  BY DEF removeNode
<1> HIDE DEF h, gone
<1>2. /\ h.node = [g.node EXCEPT ![n] = NoNode]
      /\ h.from = g.from \ gone /\ h.to = g.to \ gone
      /\ h = [node |-> h.node, from |-> h.from, to |-> h.to] /\ DOMAIN h = {"node", "from", "to"}
  BY <1>1
<1>3. h.node \in [Node -> NodeEntry \cup {NoNode}] /\ Nodes(g) \ {n} \subseteq Nodes(h)
  BY <1>2 DEF GoodGraph, Nodes
<1>4. \A e \in h.from : e[1] # n /\ e[3] # n
  BY <1>2 DEF gone, EdgesFrom, EdgesTo, GoodGraph
<1> QED
  BY <1>2, <1>3, <1>4 DEF GoodGraph, h

\* The flags of a node's entry, one after the other.
LEMMA FlagsSet ==
  ASSUME NEW g, GoodGraph(g), NEW o \in Node,
         NEW f, f = [g EXCEPT !.node[o].verified = FALSE, !.node[o].invalidated = TRUE]
  PROVE  f = addNode(g, o, [[g.node[o] EXCEPT !.verified = FALSE] EXCEPT !.invalidated = TRUE])
<1> DEFINE once == [g EXCEPT !.node[o].verified = FALSE]
           c == [g.node[o] EXCEPT !.verified = FALSE]
           d == [c EXCEPT !.invalidated = TRUE]
<1>1. f = [once EXCEPT !.node[o].invalidated = TRUE]
  OBVIOUS
<1>2. once.from = g.from /\ once.to = g.to /\ DOMAIN once = {"node", "from", "to"}
  BY DEF GoodGraph
<1>3. once.node = [g.node EXCEPT ![o] = c]
  BY DEF GoodGraph
<1> HIDE DEF once
<1>4. /\ f.from = g.from /\ f.to = g.to /\ DOMAIN f = {"node", "from", "to"}
      /\ f = [node |-> f.node, from |-> f.from, to |-> f.to]
  BY <1>1, <1>2
<1>5. f.node = [once.node EXCEPT ![o] = [once.node[o] EXCEPT !.invalidated = TRUE]]
  BY <1>1, <1>2
<1>6. once.node[o] = c
  <2> HIDE DEF c
  <2> QED
    BY <1>3 DEF GoodGraph
<1>7. f.node = [once.node EXCEPT ![o] = d]
  BY <1>5, <1>6
<1> HIDE DEF c, d
<1>8. [once.node EXCEPT ![o] = d] = [g.node EXCEPT ![o] = d]
  BY <1>3
<1>9. addNode(g, o, d)
        = [node |-> [g.node EXCEPT ![o] = d], from |-> g.from, to |-> g.to]
  BY DEF addNode, GoodGraph
<1> QED
  BY <1>4, <1>7, <1>8, <1>9, ZenonT(60) DEF c, d

LEMMA OutputInvalidated ==
  ASSUME GoodGraph(graph), invalidateOutput
  PROVE  GoodGraph(graph')
<1>1. PICK output \in Nodes(graph) :
        \E downstream \in getDownstream(graph, output, 10) :
        LET flagged == [graph EXCEPT !.node[output].verified = FALSE,
                                     !.node[output].invalidated = TRUE]
            marks == {<<output, "invalidates", d>> : d \in downstream}
        IN  graph' = [flagged EXCEPT !.from = @ \cup marks, !.to = @ \cup marks]
  BY DEF invalidateOutput
<1>3. PICK downstream \in getDownstream(graph, output, 10) :
        LET flagged == [graph EXCEPT !.node[output].verified = FALSE,
                                     !.node[output].invalidated = TRUE]
            marks == {<<output, "invalidates", d>> : d \in downstream}
        IN  graph' = [flagged EXCEPT !.from = @ \cup marks, !.to = @ \cup marks]
  BY <1>1
<1> DEFINE flagged == [graph EXCEPT !.node[output].verified = FALSE,
                                    !.node[output].invalidated = TRUE]
           marks == {<<output, "invalidates", d>> : d \in downstream}
<1>2. output \in Node /\ graph.node[output] \in NodeEntry
  BY DEF Nodes, GoodGraph
<1>7. marks \in SUBSET (Nodes(graph) \X EDGE_TYPES \X Nodes(graph))
  <2>1. downstream \subseteq Nodes(graph)
    BY AheadStays, SearchStays DEF getDownstream
  <2>2. ASSUME NEW d \in downstream
        PROVE  <<output, "invalidates", d>> \in Nodes(graph) \X EDGE_TYPES \X Nodes(graph)
    <3>1. d \in Nodes(graph) /\ output \in Nodes(graph)
      BY <2>1
    <3> HIDE DEF marks, flagged
    <3> QED
      BY <3>1 DEF EDGE_TYPES
  <2> QED
    BY <2>2
<1> DEFINE entry == [[graph.node[output] EXCEPT !.verified = FALSE] EXCEPT !.invalidated = TRUE]
<1>8. entry \in NodeEntry
  BY <1>2 DEF NodeEntry
<1>9. flagged = addNode(graph, output, entry)
  <2>1. flagged = [graph EXCEPT !.node[output].verified = FALSE,
                                !.node[output].invalidated = TRUE]
    OBVIOUS
  <2> HIDE DEF flagged, entry
  <2>2. flagged = addNode(graph, output,
                    [[graph.node[output] EXCEPT !.verified = FALSE] EXCEPT !.invalidated = TRUE])
    BY <1>2, <2>1, FlagsSet
  <2> QED
    BY <2>2 DEF entry
<1>10. graph' = [flagged EXCEPT !.from = @ \cup marks, !.to = @ \cup marks]
  BY <1>3
<1> HIDE DEF flagged, marks, entry
<1>11. GoodGraph(flagged) /\ Nodes(flagged) = Nodes(graph)
  <2>1. /\ GoodGraph(addNode(graph, output, entry))
        /\ Nodes(addNode(graph, output, entry)) = Nodes(graph) \cup {output}
    BY <1>2, <1>8, NodeAdded, Zenon
  <2> QED
    BY <1>9, <2>1
<1> QED
  BY <1>7, <1>10, <1>11, EdgesAdded

LEMMA GraphNextKeeps == GoodGraph(graph) /\ [GraphNext]_graphVars => GoodGraph(graph')
<1> SUFFICES ASSUME GoodGraph(graph), [GraphNext]_graphVars PROVE GoodGraph(graph')
  OBVIOUS
<1>1. CASE AddNode
  BY <1>1, NodeAdded, PlainIs DEF AddNode
<1>2. CASE AddEdge
  <2>1. PICK e \in Candidate : CanAdd(graph, e) /\ graph' = addEdge(graph, e)
    BY <1>2 DEF AddEdge
  <2> QED
    BY <2>1, GraphAssumption, EdgeAdded DEF CanAdd
<1>3. CASE RemoveNode
  BY <1>3, NodeRemoved DEF RemoveNode, Nodes
<1>4. CASE registerOutput
  <2>1. PICK n \in Node, output \in Node, verified \in BOOLEAN :
          graph' = addEdge(TaskIn(addNode(graph, output,
                                    [Plain("output") EXCEPT !.verified = verified]), n),
                           <<n, "produces", output>>)
    BY <1>4 DEF registerOutput
  <2> DEFINE entry == [Plain("output") EXCEPT !.verified = verified]
             one == addNode(graph, output, entry)
             two == TaskIn(one, n)
             e == <<n, "produces", output>>
  <2>2. entry \in NodeEntry
    BY DEF Plain, NodeEntry, NODE_TYPES
  <2>3. GoodGraph(one) /\ output \in Nodes(one)
    BY <2>2, NodeAdded
  <2>4. GoodGraph(two) /\ {output, n} \subseteq Nodes(two)
    BY <2>3, TaskAdded
  <2>5. graph' = addEdge(two, e)
    BY <2>1, Zenon
  <2> HIDE DEF two
  <2>6. e \in Node \X EDGE_TYPES \X Node /\ e[1] \in Nodes(two) /\ e[3] \in Nodes(two)
    BY <2>4 DEF EDGE_TYPES
  <2> HIDE DEF e
  <2> QED
    BY <2>4, <2>5, <2>6, EdgeAdded
<1>5. CASE addDependency
  <2>1. PICK e \in Candidate : graph' = addEdge(TaskIn(TaskIn(graph, e[1]), e[3]), e)
    BY <1>5 DEF addDependency
  <2>2. e \in Node \X EDGE_TYPES \X Node /\ e[1] \in Node /\ e[3] \in Node
    BY GraphAssumption
  <2> DEFINE one == TaskIn(graph, e[1])
             two == TaskIn(one, e[3])
  <2>3. GoodGraph(one) /\ e[1] \in Nodes(one)
    BY <2>2, TaskAdded
  <2>4. GoodGraph(two) /\ {e[1], e[3]} \subseteq Nodes(two)
    BY <2>2, <2>3, TaskAdded
  <2> HIDE DEF one, two
  <2> QED
    BY <2>1, <2>2, <2>4, EdgeAdded DEF one, two
<1>6. CASE invalidateOutput
  BY <1>6, OutputInvalidated
<1>7. CASE CrashTearsGraph
  BY <1>7 DEF CrashTearsGraph, EmptyGraph, GoodGraph
<1>8. CASE UNCHANGED graphVars
  BY <1>8 DEF graphVars
<1> QED
  BY <1>1, <1>2, <1>3, <1>4, <1>5, <1>6, <1>7, <1>8 DEF GraphNext

GraphInv == GoodGraph(graph)

LEMMA GraphAlwaysGood == GraphSpec => []GraphInv
<1>1. GraphInit => GraphInv
  BY DEF GraphInit, EmptyGraph, GoodGraph, GraphInv
<1>2. GraphInv /\ [GraphNext]_graphVars => GraphInv'
  BY GraphNextKeeps DEF GraphInv
<1> QED
  BY <1>1, <1>2, PTL DEF GraphSpec

\* The graph keeps its types, and every edge is found from both its ends.
THEOREM AlwaysGraphTyped == GraphSpec => []GraphTypeOK
<1>1. GraphInv => GraphTypeOK
  BY DEF GraphInv, GoodGraph, GraphTypeOK, EdgesMirror
<1> QED
  BY <1>1, GraphAlwaysGood, PTL

\* Where no chain leads further than the search goes, what the task depends on
\* is what the search finds.
LEMMA DependsWithin ==
  ASSUME NEW g, GoodGraph(g), PromptTask \in Nodes(g),
         NEW upstream \in getUpstream(g, PromptTask, UpstreamDepth),
         ~Chain(Ahead(g), UpstreamDepth + 1), NEW n \in Needed(g)
  PROVE  n \in {PromptTask} \cup upstream
<1> DEFINE T == {PromptTask} \cup upstream
<1>1. /\ UpstreamDepth \in Nat \ {0} /\ (UpstreamDepth + 1) - 1 = UpstreamDepth
      /\ upstream \in Search(Nodes(g), Ahead(g), PromptTask, UpstreamDepth)
  BY AssemblyAssumption DEF getUpstream
<1>2. Nodes(g) \subseteq Node /\ \A u \in Nodes(g) : Ahead(g)[u] \subseteq Nodes(g)
  BY AheadStays DEF Nodes
<1>3. T \in SUBSET Nodes(g)
  BY <1>1, <1>2, SearchStays
<1>4. ASSUME NEW e \in T, NEW x \in Ahead(g)[e], x \notin T PROVE FALSE
  <2>1. PICK c : SimpleChain(Nodes(g), Ahead(g), PromptTask, UpstreamDepth + 1, c)
    BY <1>1, <1>2, <1>4, SearchLeaves
  <2>2. c \in [0..(UpstreamDepth+1) -> Node]
    BY <1>2, <2>1 DEF SimpleChain
  <2> QED
    BY <2>1, <2>2 DEF Chain, SimpleChain
<1>5. NeedsNoMore(g, T)
  <2> SUFFICES ASSUME NEW e \in g.from, e[1] \in T, e[2] \in DEPENDENCY_TYPES
               PROVE  e[3] \in T
    BY DEF NeedsNoMore
  <2>1. e[1] \in Node /\ e[3] \in Nodes(g)
    BY DEF GoodGraph
  <2>2. e[3] \in getDependencies(g, e[1])
    BY <2>1 DEF getDependencies, EdgesFrom
  <2>3. e[3] \in Ahead(g)[e[1]]
    BY <2>1, <2>2 DEF Ahead
  <2> QED
    BY <1>4, <2>3
<1> QED
  BY <1>2, <1>3, <1>5 DEF Needed

LEMMA CompleteClosed == GraphInv => CompleteIsClosed
<1> SUFFICES ASSUME GraphInv, PromptTask \in Nodes(graph), NEW answer \in CompleteAnswers
             PROVE  /\ \A m \in Ahead(graph)[PromptTask] :
                         {m} \cup Ahead(graph)[m] \subseteq answer.nodes
                    /\ ~Chain(Ahead(graph), UpstreamDepth + 1) =>
                         Needed(graph) \subseteq answer.nodes
                    /\ \A e \in graph.from :
                         e[2] = "contradicts" => {e[1], e[3]} \ answer.nodes # {}
  BY DEF CompleteIsClosed
<1>1. PICK b \in Budgets, relevant \in SUBSET Attached(graph) :
        answer \in resolveContext(graph, b, relevant)
  BY DEF CompleteAnswers
<1>2. PICK upstream \in getUpstream(graph, PromptTask, UpstreamDepth) :
        answer \in AnswersFrom(graph, upstream, b, relevant)
  BY <1>1 DEF resolveContext
<1>3. answer.status = "COMPLETE"
  BY DEF CompleteAnswers
<1>4. /\ ~ConflictIn(graph, upstream, relevant)
      /\ answer.nodes = RequiredIn(graph, upstream, relevant)
  BY <1>2, <1>3, AnswerSays
<1>5. \A u \in Nodes(graph) : Ahead(graph)[u] \subseteq Nodes(graph)
  BY AheadStays
<1>6. {PromptTask} \cup upstream \subseteq answer.nodes
  <2>1. {PromptTask} \cup upstream \subseteq Nodes(graph)
    BY <1>5, SearchStays DEF getUpstream
  <2>2. {PromptTask} \cup upstream \subseteq Required(graph, upstream, relevant)
    BY DEF Required, Causal
  <2> QED
    BY <1>4, <2>1, <2>2 DEF RequiredIn
<1>7. ASSUME NEW m \in Ahead(graph)[PromptTask]
      PROVE  {m} \cup Ahead(graph)[m] \subseteq answer.nodes
  <2>1. {m} \cup Ahead(graph)[m] \subseteq {PromptTask} \cup upstream
    BY <1>5, AssemblyAssumption, SearchNear DEF getUpstream
  <2> QED
    BY <1>6, <2>1
<1>8. ~Chain(Ahead(graph), UpstreamDepth + 1) => Needed(graph) \subseteq answer.nodes
  BY <1>6, DependsWithin DEF GraphInv
<1>9. ASSUME NEW e \in graph.from, e[2] = "contradicts", {e[1], e[3]} \subseteq answer.nodes
      PROVE  FALSE
  <2>1. e[3] \in getContradicting(graph, e[1])
    BY <1>9 DEF getContradicting, EdgesFrom
  <2> QED
    BY <1>4, <1>9, <2>1 DEF ConflictIn
<1> QED
  BY <1>7, <1>8, <1>9

\* An answer that calls itself complete has all the task depends on as far as
\* the search goes, and no contradiction in it.
THEOREM AlwaysCompleteIsClosed == GraphSpec => []CompleteIsClosed
BY GraphAlwaysGood, CompleteClosed, PTL

-----------------------------------------------------------------------------
(***************************************************************************)
(* The budget of a prompt.                                                 *)
(***************************************************************************)

\* Either there is room for what may still come, or nothing may come any more
\* and only mandatory lines have been emitted.
Room == spent + flex <= limit \/ (flex = 0 /\ spent <= fixed)

BudgetInv ==
  /\ AssemblyTypeOK
  /\ Room
  /\ stage \in {"begin", "project"} => verdict = "none" /\ fixed <= spent
  /\ verdict = "ok" => fixed <= limit
  /\ stage = "done" /\ verdict = "sufficient" => fixed <= limit

LEMMA BudgetInit == AssemblyInit => BudgetInv
BY AssemblyAssumption DEF AssemblyInit, BudgetInv, AssemblyTypeOK, Room

\* A line takes its tokens out of the room that is left.
LEMMA SpentWithin ==
  ASSUME BudgetInv, NEW cost \in Costs, SpendTokens(cost)
  PROVE  /\ flex' \in Nat /\ spent' \in Nat /\ spent <= spent'
         /\ spent' + flex' <= limit \/ (flex' = 0 /\ spent' <= fixed)
BY AssemblyAssumption DEF SpendTokens, BudgetInv, AssemblyTypeOK, Room

\* The router calls an answer sufficient only if the task itself has room.
LEMMA SufficientHasRoom ==
  ASSUME NEW g, PromptTask \in Nodes(g), NEW budget \in Nat, NEW relevant,
         NEW answer \in resolveContext(g, budget, relevant), answer.sufficient
  PROVE  budget > 0
<1>0. PICK upstream : answer \in AnswersFrom(g, upstream, budget, relevant)
  BY DEF resolveContext
<1> DEFINE mandatory == MandatoryIn(g, upstream, relevant)
<1>1. ~ (Cost(mandatory) > budget)
  BY <1>0, AnswerSays DEF BadIn
<1>2. PromptTask \in mandatory /\ mandatory \subseteq Node
  BY DEF MandatoryIn, RequiredIn, Required, Causal, Mandatory, Nodes
<1>3. IsFiniteSet(mandatory) /\ \A n \in mandatory : Tokens[n] \in Nat \ {0}
  BY <1>2, GraphAssumption, AssemblyAssumption, FS_Subset
<1>4. Cost(mandatory) = Total(Tokens, mandatory)
  BY DEF Cost, Total
<1> HIDE DEF mandatory
<1>5. /\ Total(Tokens, mandatory) \in Nat
      /\ Total(Tokens, mandatory) = Tokens[PromptTask] + Total(Tokens, mandatory \ {PromptTask})
  BY <1>2, <1>3, TotalSums
<1>6. Total(Tokens, mandatory \ {PromptTask}) \in Nat
  <2>1. IsFiniteSet(mandatory \ {PromptTask})
    BY <1>3, FS_Subset
  <2> QED
    BY <1>3, <2>1, TotalSums
<1> QED
  BY <1>1, <1>2, <1>3, <1>4, <1>5, <1>6

LEMMA TwoFifths == ASSUME NEW n \in Nat PROVE (2 * n) \div 5 \in Nat
OBVIOUS

LEMMA BudgetNext == BudgetInv /\ [AssemblyNext]_assemblyVars => BudgetInv'
<1> SUFFICES ASSUME BudgetInv, [AssemblyNext]_assemblyVars PROVE BudgetInv'
  OBVIOUS
<1>0. limit \in Nat /\ flex \in Nat /\ spent \in Nat /\ fixed \in Nat
  BY AssemblyAssumption DEF BudgetInv, AssemblyTypeOK
<1>1. CASE BeginPrompt
  <2>1. PICK head \in Costs, cognition \in Costs \cup {0} :
          Reserve(head, cognition) /\ fixed' = head
    BY <1>1 DEF BeginPrompt
  <2>2. head \in Nat /\ cognition \in Nat
    BY AssemblyAssumption
  <2>3. /\ spent' \in Nat /\ flex' \in Nat /\ fixed' \in Nat /\ fixed' <= spent'
        /\ spent' + flex' <= limit \/ (flex' = 0 /\ spent' <= fixed')
    BY <1>0, <2>1, <2>2 DEF Reserve
  <2>4. /\ stage = "begin" /\ stage' \in {"project", "finish"}
        /\ UNCHANGED <<limit, todo, lines, skillBudget, verdict>>
    BY <1>1 DEF BeginPrompt
  <2>5. verdict # "ok"
    BY <2>4 DEF BudgetInv
  <2> QED
    BY <2>3, <2>4, <2>5 DEF BudgetInv, AssemblyTypeOK, Room
<1>2. CASE ProjectLine
  BY <1>0, <1>2, SpentWithin DEF ProjectLine, BudgetInv, AssemblyTypeOK, Room
<1>3. CASE SkipRouting
  BY <1>3 DEF SkipRouting, BudgetInv, AssemblyTypeOK, Room
<1>4. CASE Route
  <2>1. UNCHANGED <<limit, flex, spent, fixed, skillBudget>> /\ lines' = MaxLines
        /\ stage = "project"
    BY <1>4 DEF Route
  <2>2. CASE stage' = "thrown" /\ UNCHANGED <<todo, verdict>>
    BY <2>1, <2>2, AssemblyAssumption DEF BudgetInv, AssemblyTypeOK, Room
  <2>3. CASE \E g, relevant : \E answer \in resolveContext(g, flex, relevant) :
               /\ PromptTask \in Nodes(g) /\ stage' = "session"
               /\ todo' = AdaptedNodes(answer) /\ verdict' = AdaptedVerdict(answer)
    <3>1. PICK g, relevant : \E answer \in resolveContext(g, flex, relevant) :
               /\ PromptTask \in Nodes(g) /\ stage' = "session"
               /\ todo' = AdaptedNodes(answer) /\ verdict' = AdaptedVerdict(answer)
      BY <2>3
    <3>2. PICK answer \in resolveContext(g, flex, relevant) :
               /\ PromptTask \in Nodes(g) /\ stage' = "session"
               /\ todo' = AdaptedNodes(answer) /\ verdict' = AdaptedVerdict(answer)
      BY <3>1
    <3>3. todo' \subseteq Node
      BY <3>2, AnswerSays DEF resolveContext, AdaptedNodes, RequiredIn, Nodes
    <3>4. verdict' = "ok" => flex > 0
      BY <1>0, <3>2, SufficientHasRoom DEF AdaptedVerdict
    <3>5. verdict' = "ok" => fixed <= limit
      BY <1>0, <2>1, <3>4 DEF BudgetInv, Room
    <3>6. verdict' \in {"ok", "insufficient"}
      BY <3>2 DEF AdaptedVerdict
    <3> QED
      BY <2>1, <3>2, <3>3, <3>5, <3>6, AssemblyAssumption DEF BudgetInv, AssemblyTypeOK, Room
  <2>4. ASSUME NEW others \in SUBSET (Node \ {PromptTask}), NEW target
        PROVE  PromptTask \in Nodes(BuiltGraph(others \cup {PromptTask}, target))
    <3>0. Plain("task") \in NodeEntry
      BY DEF Plain, NodeEntry, NODE_TYPES
    <3>1. Plain(Kind[PromptTask]) # NoNode
      BY <3>0, AssemblyAssumption, GraphAssumption
    <3> QED
      BY <3>1, AssemblyAssumption DEF BuiltGraph, Nodes
  <2>5. PICK others \in SUBSET (Node \ {PromptTask}) :
          \E target \in [others -> {n \in Node : Kind[n] \in {"task", "requirement"}}],
             relevant \in SUBSET {n \in others : Kind[n] \in Category} :
            LET placed == others \cup {PromptTask}
                g == BuiltGraph(placed, target)
            IN  IF \E e \in g.from : {e[1], e[3]} \ placed # {}
                THEN stage' = "thrown" /\ UNCHANGED <<built, todo, verdict>>
                ELSE \E answer \in resolveContext(g, flex, relevant) :
                       /\ built' = g /\ stage' = "session"
                       /\ todo' = AdaptedNodes(answer)
                       /\ verdict' = AdaptedVerdict(answer)
    BY <1>4 DEF Route
  <2>6. PICK target, relevant :
          \/ stage' = "thrown" /\ UNCHANGED <<todo, verdict>>
          \/ \E answer \in resolveContext(BuiltGraph(others \cup {PromptTask}, target),
                                         flex, relevant) :
               /\ stage' = "session"
               /\ todo' = AdaptedNodes(answer) /\ verdict' = AdaptedVerdict(answer)
    BY <2>5
  <2> QED
    BY <2>2, <2>3, <2>4, <2>6
<1>5. CASE SessionLine
  BY <1>0, <1>5, SpentWithin DEF SessionLine, BudgetInv, AssemblyTypeOK, Room
<1>6. CASE EndSession
  <2>1. /\ stage = "session" /\ stage' = "skills" /\ lines' = MaxLines
        /\ skillBudget' = (2 * flex') \div 5 /\ UNCHANGED <<limit, todo, verdict>>
    BY <1>6 DEF EndSession
  <2>2. CASE verdict = "insufficient"
    <3>1. PICK cost \in Costs : SpendTokens(cost) /\ fixed' = fixed + cost
      BY <1>6, <2>2 DEF EndSession
    <3>2. /\ flex' \in Nat /\ spent' \in Nat /\ fixed' \in Nat
          /\ spent' + flex' <= limit \/ (flex' = 0 /\ spent' <= fixed')
      BY <1>0, <3>1, SpentWithin, AssemblyAssumption
    <3>3. skillBudget' \in Nat
      BY <2>1, <3>2, TwoFifths
    <3> QED
      BY <2>1, <2>2, <3>2, <3>3, AssemblyAssumption DEF BudgetInv, AssemblyTypeOK, Room
  <2>3. CASE verdict # "insufficient"
    <3>1. UNCHANGED <<flex, spent, fixed>>
      BY <1>6, <2>3 DEF EndSession
    <3>2. skillBudget' \in Nat
      BY <1>0, <2>1, <3>1, TwoFifths
    <3> QED
      BY <2>1, <3>1, <3>2, AssemblyAssumption DEF BudgetInv, AssemblyTypeOK, Room
  <2> QED
    BY <2>2, <2>3
<1>7. CASE SkillLine
  <2>1. PICK cost \in Costs :
          /\ SpendTokens(cost)
          /\ skillBudget' = IF cost > flex THEN skillBudget
                            ELSE IF cost >= skillBudget THEN 0 ELSE skillBudget - cost
    BY <1>7 DEF SkillLine
  <2>2. /\ flex' \in Nat /\ spent' \in Nat
        /\ spent' + flex' <= limit \/ (flex' = 0 /\ spent' <= fixed)
    BY <2>1, SpentWithin
  <2>3. /\ stage = "skills" /\ stage' = stage /\ lines > 0 /\ lines' = lines - 1
        /\ UNCHANGED <<limit, fixed, todo, verdict>>
    BY <1>7 DEF SkillLine
  <2>4. cost \in Nat /\ skillBudget \in Nat /\ lines \in Nat
    BY AssemblyAssumption DEF BudgetInv, AssemblyTypeOK
  <2>5. skillBudget' \in Nat /\ lines' \in Nat
    BY <2>1, <2>3, <2>4
  <2> QED
    BY <2>2, <2>3, <2>5 DEF BudgetInv, AssemblyTypeOK, Room
<1>8. CASE EndSkills
  BY <1>8 DEF EndSkills, BudgetInv, AssemblyTypeOK, Room
<1>9. CASE Finish
  BY <1>0, <1>9 DEF Finish, BudgetInv, AssemblyTypeOK, Room
<1>10. CASE UNCHANGED assemblyVars
  BY <1>10 DEF assemblyVars, BudgetInv, AssemblyTypeOK, Room
<1> QED
  BY <1>1, <1>2, <1>3, <1>4, <1>5, <1>6, <1>7, <1>8, <1>9, <1>10 DEF AssemblyNext

\* Whatever asks for room, a prompt exceeds its budget only by its mandatory
\* lines, and a verdict of sufficient means those fit.
THEOREM AlwaysBudgetIsKept == AssemblySpec => []BudgetIsKept
<1>1. BudgetInv => BudgetIsKept
  BY AssemblyAssumption DEF BudgetInv, AssemblyTypeOK, Room, BudgetIsKept
<1> QED
  BY <1>1, BudgetInit, BudgetNext, PTL DEF AssemblySpec

-----------------------------------------------------------------------------
(* The selection of capsules.                                              *)

\* While the selection runs, what it took is usable, counted once, and within
\* the budget; what it has still to look at is not taken yet; and whatever a
\* capsule it took needs is taken, out of reach or in the queue.
SelectionInv ==
  /\ CapsuleTypeOK
  /\ pass = "none" => selected = {} /\ left = {} /\ queue = {} /\ tokensUsed = 0
  /\ selected \subseteq Usable
  /\ Total(Weight, selected) = tokensUsed
  /\ pass # "none" => tokensUsed <= room
  /\ pass = "base" => \A c \in selected \cup left : capsules[c].level = "L1"
  /\ pass \in {"base", "utility"} => left \subseteq Usable \ selected
  /\ pass \in {"dependencies", "done"} =>
       \A c \in selected : \A d \in Needs[c] :
         d \in selected \/ d \notin Usable \/ ~Fits(d) \/ d \in queue
  /\ pass = "done" => queue = {}

LEMMA SelectionInit == CapsuleInit => SelectionInv
<1> SUFFICES ASSUME CapsuleInit PROVE SelectionInv
  OBVIOUS
<1>1. Total(Weight, {}) = 0
  BY TotalSums, FS_EmptySet
<1>2. CapsuleTypeOK
  BY DEF CapsuleInit, CapsuleTypeOK, CapsuleFile, LEVELS, LIFECYCLE
<1> QED
  BY <1>1, <1>2 DEF CapsuleInit, SelectionInv

\* Before the selection the files may change in any way of the module.
LEMMA ChangedKeeps ==
  ASSUME SelectionInv, NEW files \in [Capsule -> CapsuleFile \cup {NoCapsule}], Changed(files)
  PROVE  SelectionInv'
<1>1. /\ pass = "none" /\ changes' = changes + 1 /\ capsules' = files
      /\ UNCHANGED <<pass, selected, tokensUsed, left, queue, room>>
  BY DEF Changed, selectionVars
<1>2. CapsuleTypeOK'
  BY <1>1 DEF SelectionInv, CapsuleTypeOK
<1> QED
  BY <1>1, <1>2 DEF SelectionInv

LEMMA CapsuleChanges ==
  ASSUME SelectionInv, NEW c \in Capsule,
         CreateCapsule(c) \/ UpdateCapsule(c) \/ SupersedeCapsule(c)
           \/ PromoteCapsule(c) \/ LoseCapsule(c)
  PROVE  SelectionInv'
<1>0. capsules \in [Capsule -> CapsuleFile \cup {NoCapsule}]
  BY DEF SelectionInv, CapsuleTypeOK
<1>1. \A d \in Stored : capsules[d] \in CapsuleFile
  BY <1>0 DEF Stored
<1>2. CASE CreateCapsule(c)
  <2>1. PICK level \in LEVELS, life \in LIFECYCLE, old \in Capsule \cup {NoCapsule} :
          LET files == [capsules EXCEPT
                          ![c] = [level |-> level, lifecycle |-> life, by |-> NoCapsule]]
          IN  \/ Changed(files)
              \/ old # NoCapsule /\ Changed(Superseded(files, old, c))
    BY <1>2 DEF CreateCapsule
  <2> DEFINE files == [capsules EXCEPT
                         ![c] = [level |-> level, lifecycle |-> life, by |-> NoCapsule]]
  <2>2. files \in [Capsule -> CapsuleFile \cup {NoCapsule}]
    BY <1>0 DEF CapsuleFile
  <2> HIDE DEF files
  <2>3. Superseded(files, old, c) \in [Capsule -> CapsuleFile \cup {NoCapsule}]
    BY <2>2 DEF Superseded, CapsuleFile, LIFECYCLE
  <2>4. Changed(files) \/ Changed(Superseded(files, old, c))
    BY <2>1 DEF files
  <2> QED
    BY <2>2, <2>3, <2>4, ChangedKeeps
<1>3. CASE UpdateCapsule(c)
  <2>1. PICK level \in LEVELS, life \in LIFECYCLE :
          c \in Stored /\ Changed([capsules EXCEPT ![c].level = level, ![c].lifecycle = life])
    BY <1>3 DEF UpdateCapsule
  <2>2. [capsules EXCEPT ![c].level = level, ![c].lifecycle = life]
          \in [Capsule -> CapsuleFile \cup {NoCapsule}]
    BY <1>0, <1>1, <2>1 DEF CapsuleFile
  <2> QED
    BY <2>1, <2>2, ChangedKeeps
<1>4. CASE SupersedeCapsule(c)
  <2>1. PICK new \in Capsule :
          c \in Stored
            /\ Changed([capsules EXCEPT ![c].lifecycle = "superseded", ![c].by = new])
    BY <1>4 DEF SupersedeCapsule
  <2>2. [capsules EXCEPT ![c].lifecycle = "superseded", ![c].by = new]
          \in [Capsule -> CapsuleFile \cup {NoCapsule}]
    BY <1>0, <1>1, <2>1 DEF CapsuleFile, LIFECYCLE
  <2> QED
    BY <2>1, <2>2, ChangedKeeps
<1>5. CASE PromoteCapsule(c)
  <2>1. PICK level \in LEVELS :
          c \in Stored
            /\ Changed([capsules EXCEPT ![c].level = level, ![c].lifecycle = "active"])
    BY <1>5 DEF PromoteCapsule
  <2>2. [capsules EXCEPT ![c].level = level, ![c].lifecycle = "active"]
          \in [Capsule -> CapsuleFile \cup {NoCapsule}]
    BY <1>0, <1>1, <2>1 DEF CapsuleFile, LIFECYCLE
  <2> QED
    BY <2>1, <2>2, ChangedKeeps
<1>6. CASE LoseCapsule(c)
  <2>1. [capsules EXCEPT ![c] = NoCapsule] \in [Capsule -> CapsuleFile \cup {NoCapsule}]
    BY <1>0
  <2> QED
    BY <1>6, <2>1, ChangedKeeps DEF LoseCapsule
<1> QED
  BY <1>2, <1>3, <1>4, <1>5, <1>6

\* Taking a capsule that fits and is not taken yet counts it once; what did not
\* fit before does not fit now.
LEMMA Taken ==
  ASSUME SelectionInv, pass # "none", NEW c \in Usable \ selected, Fits(c), Take(c),
         UNCHANGED <<capsules, room>>
  PROVE  /\ selected' = selected \cup {c} /\ selected' \subseteq Usable
         /\ Usable' = Usable
         /\ Total(Weight, selected') = tokensUsed'
         /\ tokensUsed' \in Nat /\ tokensUsed' <= room
         /\ \A d \in Capsule : ~Fits(d) => ~Fits(d)'
<1>1. /\ c \in Capsule /\ selected \subseteq Capsule
      /\ Weight \in [Capsule -> Nat \ {0}] /\ IsFiniteSet(Capsule)
      /\ tokensUsed \in Nat /\ room \in Nat
  BY CapsuleAssumption DEF SelectionInv, CapsuleTypeOK, Usable, Stored
<1>2. selected' = selected \cup {c} /\ tokensUsed' = tokensUsed + Weight[c]
  BY DEF Take
<1>3. IsFiniteSet(selected') /\ \A x \in selected' : Weight[x] \in Nat
  BY <1>1, <1>2, FS_Subset
<1>4. Total(Weight, selected') = Weight[c] + Total(Weight, selected' \ {c})
  BY <1>2, <1>3, TotalSums
<1>5. selected' \ {c} = selected
  BY <1>2
<1>6. Total(Weight, selected') = tokensUsed'
  BY <1>1, <1>2, <1>4, <1>5 DEF SelectionInv
<1>7. tokensUsed' \in Nat /\ tokensUsed' <= room
  BY <1>1, <1>2 DEF Fits
<1>8. \A d \in Capsule : ~Fits(d) => ~Fits(d)'
  BY <1>1, <1>2 DEF Fits
<1>9. Usable' = Usable /\ selected' \subseteq Usable
  BY <1>2 DEF Usable, Stored, SelectionInv
<1> QED
  BY <1>2, <1>6, <1>7, <1>8, <1>9

LEMMA SelectionNext == SelectionInv /\ [CapsuleNext]_capsuleVars => SelectionInv'
<1> SUFFICES ASSUME SelectionInv, [CapsuleNext]_capsuleVars PROVE SelectionInv'
  OBVIOUS
<1>0. /\ selected \subseteq Capsule /\ left \subseteq Capsule /\ queue \subseteq Capsule
      /\ tokensUsed \in Nat /\ room \in Nat
      /\ Usable \subseteq Capsule
  BY DEF SelectionInv, CapsuleTypeOK, Usable, Stored
<1>1. CASE BeginSelection
  <2>1. /\ pass = "none" /\ pass' = "base" /\ room' \in CapsuleBudgets
        /\ left' = {c \in Usable : capsules[c].level = "L1"}
        /\ UNCHANGED <<capsules, changes, selected, tokensUsed, queue>>
    BY <1>1 DEF BeginSelection
  <2>2. room' \in Nat /\ Usable' = Usable
    BY <2>1, CapsuleAssumption DEF Usable, Stored
  <2> QED
    BY <1>0, <2>1, <2>2 DEF SelectionInv, CapsuleTypeOK
<1>2. ASSUME NEW c \in Capsule, SelectBase(c) PROVE SelectionInv'
  <2>1. /\ pass = "base" /\ c \in left /\ left' = left \ {c}
        /\ c \in Usable \ selected
        /\ UNCHANGED <<capsules, changes, pass, queue, room>>
    BY <1>2 DEF SelectBase, SelectionInv
  <2>2. CASE Fits(c) /\ Take(c)
    <3>1. /\ selected' = selected \cup {c} /\ selected' \subseteq Usable
          /\ Usable' = Usable /\ Total(Weight, selected') = tokensUsed'
          /\ tokensUsed' \in Nat /\ tokensUsed' <= room
      BY <2>1, <2>2, Taken
    <3>2. capsules[c].level = "L1"
      BY <2>1 DEF SelectionInv
    <3> QED
      BY <1>0, <2>1, <3>1, <3>2 DEF SelectionInv, CapsuleTypeOK
  <2>3. CASE UNCHANGED <<selected, tokensUsed>>
    BY <2>1, <2>3 DEF SelectionInv, CapsuleTypeOK, Usable, Stored
  <2> QED
    BY <1>2, <2>2, <2>3 DEF SelectBase
<1>3. CASE EndBase
  <2>1. /\ pass = "base" /\ pass' = "utility"
        /\ left' \subseteq {c \in Usable : capsules[c].level \in {"L2", "L3"}}
        /\ UNCHANGED <<capsules, changes, selected, tokensUsed, queue, room>>
    BY <1>3 DEF EndBase
  <2>2. Usable' = Usable
    BY <2>1 DEF Usable, Stored
  <2> QED
    BY <1>0, <2>1, <2>2 DEF SelectionInv, CapsuleTypeOK
<1>4. ASSUME NEW c \in Capsule, SelectByUtility(c) PROVE SelectionInv'
  <2>1. /\ pass = "utility" /\ c \in left /\ left' = left \ {c}
        /\ c \in Usable \ selected
        /\ UNCHANGED <<capsules, changes, pass, queue, room>>
    BY <1>4 DEF SelectByUtility, SelectionInv
  <2>2. CASE Fits(c) /\ Take(c)
    <3>1. /\ selected' = selected \cup {c} /\ selected' \subseteq Usable
          /\ Usable' = Usable /\ Total(Weight, selected') = tokensUsed'
          /\ tokensUsed' \in Nat /\ tokensUsed' <= room
      BY <2>1, <2>2, Taken
    <3> QED
      BY <1>0, <2>1, <3>1 DEF SelectionInv, CapsuleTypeOK
  <2>3. CASE UNCHANGED <<selected, tokensUsed>>
    BY <2>1, <2>3 DEF SelectionInv, CapsuleTypeOK, Usable, Stored
  <2> QED
    BY <1>4, <2>2, <2>3 DEF SelectByUtility
<1>5. CASE EndUtility
  <2>1. /\ pass = "utility" /\ pass' = "dependencies"
        /\ queue' = UNION {Needs[c] : c \in selected}
        /\ UNCHANGED <<capsules, changes, selected, tokensUsed, left, room>>
    BY <1>5 DEF EndUtility
  <2>2. Usable' = Usable
    BY <2>1 DEF Usable, Stored
  <2>3. queue' \subseteq Capsule /\ \A c \in selected : Needs[c] \subseteq queue'
    BY <1>0, <2>1, CapsuleAssumption
  <2> QED
    BY <1>0, <2>1, <2>2, <2>3 DEF SelectionInv, CapsuleTypeOK
<1>6. ASSUME NEW c \in Capsule, FollowDependency(c) PROVE SelectionInv'
  <2>1. /\ pass = "dependencies" /\ c \in queue
        /\ UNCHANGED <<capsules, changes, pass, left, room>>
    BY <1>6 DEF FollowDependency
  <2>2. CASE c \in Usable \ selected /\ Fits(c)
    <3>1. Take(c) /\ queue' = (queue \ {c}) \cup Needs[c]
      BY <1>6, <2>2 DEF FollowDependency
    <3>2. /\ selected' = selected \cup {c} /\ selected' \subseteq Usable
          /\ Usable' = Usable /\ Total(Weight, selected') = tokensUsed'
          /\ tokensUsed' \in Nat /\ tokensUsed' <= room
          /\ \A d \in Capsule : ~Fits(d) => ~Fits(d)'
      BY <2>1, <2>2, <3>1, Taken
    <3>3. queue' \subseteq Capsule
      BY <1>0, <3>1, CapsuleAssumption
    <3>4. ASSUME NEW e \in selected', NEW d \in Needs[e]
          PROVE  d \in selected' \/ d \notin Usable \/ ~Fits(d)' \/ d \in queue'
      <4>1. CASE e = c
        BY <3>1, <3>4, <4>1
      <4>2. CASE e \in selected
        <5>1. d \in selected \/ d \notin Usable \/ ~Fits(d) \/ d \in queue
          BY <2>1, <3>4, <4>2 DEF SelectionInv
        <5>2. d \in Usable => d \in Capsule
          BY <1>0
        <5> QED
          BY <3>1, <3>2, <5>1, <5>2
      <4> QED
        BY <3>2, <4>1, <4>2
    <3> QED
      BY <1>0, <2>1, <3>2, <3>3, <3>4 DEF SelectionInv, CapsuleTypeOK
  <2>3. CASE ~ (c \in Usable \ selected /\ Fits(c))
    <3>1. queue' = queue \ {c} /\ UNCHANGED <<selected, tokensUsed>>
      BY <1>6, <2>3 DEF FollowDependency
    <3>2. Usable' = Usable /\ \A d : Fits(d)' = Fits(d)
      BY <2>1, <3>1 DEF Usable, Stored, Fits
    <3>3. \A e \in selected : \A d \in Needs[e] :
            d \in selected \/ d \notin Usable \/ ~Fits(d) \/ d \in queue'
      BY <2>1, <2>3, <3>1 DEF SelectionInv
    <3> QED
      BY <1>0, <2>1, <3>1, <3>2, <3>3 DEF SelectionInv, CapsuleTypeOK
  <2> QED
    BY <2>2, <2>3
<1>7. CASE EndSelection
  <2>1. /\ pass = "dependencies" /\ queue = {} /\ pass' = "done"
        /\ UNCHANGED <<capsules, changes, selected, tokensUsed, left, queue, room>>
    BY <1>7 DEF EndSelection
  <2>2. Usable' = Usable /\ \A d : Fits(d)' = Fits(d)
    BY <2>1 DEF Usable, Stored, Fits
  <2> QED
    BY <2>1, <2>2 DEF SelectionInv, CapsuleTypeOK
<1>8. CASE UNCHANGED capsuleVars
  <2>1. UNCHANGED <<capsules, changes, pass, selected, tokensUsed, left, queue, room>>
    BY <1>8 DEF capsuleVars, selectionVars
  <2>2. Usable' = Usable /\ \A d : Fits(d)' = Fits(d)
    BY <2>1 DEF Usable, Stored, Fits
  <2> QED
    BY <2>1, <2>2 DEF SelectionInv, CapsuleTypeOK
<1> QED
  BY <1>1, <1>2, <1>3, <1>4, <1>5, <1>6, <1>7, <1>8, CapsuleChanges DEF CapsuleNext

\* A finished selection fits its budget, is usable, and is closed under needs up
\* to what cannot be used or does not fit beside the rest.
THEOREM AlwaysSelectionIsClosed == CapsuleSpec => []SelectionIsClosed
<1>1. SelectionInv => SelectionIsClosed
  BY DEF SelectionInv, SelectionIsClosed, Total
<1> QED
  BY <1>1, SelectionInit, SelectionNext, PTL DEF CapsuleSpec

-----------------------------------------------------------------------------
(* The items of the context manager.                                       *)

LEMMA ItemsInit == ContextInit => ContextTypeOK
BY DEF ContextInit, ContextTypeOK

LEMMA ItemsNext == ContextTypeOK /\ [ContextNext]_contextVars => ContextTypeOK'
<1> SUFFICES ASSUME ContextTypeOK, [ContextNext]_contextVars PROVE ContextTypeOK'
  OBVIOUS
<1> USE DEF ContextTypeOK
<1>0. \A i \in Registered : items[i] \in ContextItem
  BY DEF Registered
<1>1. ASSUME NEW i \in Item, Register(i) PROVE ContextTypeOK'
  <2>1. PICK layer \in WORKING_LAYERS :
          items' = [items EXCEPT ![i] = [lifecycle |-> "CREATED", layer |-> layer]]
    BY <1>1 DEF Register
  <2>2. [lifecycle |-> "CREATED", layer |-> layer] \in ContextItem
    BY DEF ContextItem, LIFECYCLE_STATES, MEMORY_LAYERS
  <2> QED
    BY <2>1, <2>2
<1>2. ASSUME NEW i \in Item, Unregister(i) PROVE ContextTypeOK'
  BY <1>2 DEF Unregister
\* Every other action changes registered items only, to others of their type.
<1>3. ASSUME NEW S \in SUBSET Registered, NEW f,
             \A i \in S : f[i] \in ContextItem,
             items' = [i \in Item |-> IF i \in S THEN f[i] ELSE items[i]]
      PROVE  ContextTypeOK'
  BY <1>3
<1>4. ASSUME NEW S \in SUBSET Registered, NEW state \in LIFECYCLE_STATES, Turned(S, state)
      PROVE  ContextTypeOK'
  BY <1>0, <1>4 DEF Turned, Change, ContextItem
<1>5. ASSUME NEW i \in Item, TransitionItem(i) PROVE ContextTypeOK'
  <2>1. PICK next \in LIFECYCLE_STATES : i \in Registered /\ Turned({i}, next)
    BY <1>5 DEF TransitionItem
  <2> QED
    BY <1>4, <2>1
<1>6. ASSUME NEW i \in Item, SetLayer(i) \/ PromoteItem(i) \/ DemoteItem(i)
      PROVE  ContextTypeOK'
  <2>1. i \in Registered /\ items[i] \in ContextItem
    BY <1>0, <1>6 DEF SetLayer, PromoteItem, DemoteItem
  <2>2. \E x \in ContextItem : items' = [j \in Item |-> IF j \in {i} THEN x ELSE items[j]]
    <3>1. CASE SetLayer(i)
      <4>1. PICK layer \in MEMORY_LAYERS :
              Change({i}, LAMBDA x : [x EXCEPT !.layer = layer])
        BY <3>1 DEF SetLayer
      <4>2. [items[i] EXCEPT !.layer = layer] \in ContextItem
        BY <2>1 DEF ContextItem
      <4> QED
        BY <4>1, <4>2 DEF Change
    <3>2. CASE PromoteItem(i)
      <4>1. PICK layer \in WORKING_LAYERS :
              Change({i}, LAMBDA x :
                [x EXCEPT !.layer = layer,
                          !.lifecycle = IF @ = "COMPRESSED" THEN "ACTIVE" ELSE @])
        BY <3>2 DEF PromoteItem
      <4>2. [items[i] EXCEPT !.layer = layer,
                             !.lifecycle = IF @ = "COMPRESSED" THEN "ACTIVE" ELSE @]
              \in ContextItem
        BY <2>1 DEF ContextItem, LIFECYCLE_STATES, MEMORY_LAYERS
      <4> DEFINE f == [j \in Item |->
                         [items[j] EXCEPT !.layer = layer,
                                          !.lifecycle = IF @ = "COMPRESSED" THEN "ACTIVE" ELSE @]]
      <4>3. items' = [j \in Item |-> IF j \in {i} THEN f[j] ELSE items[j]]
        BY <4>1 DEF Change
      <4>4. f[i] \in ContextItem
        BY <4>2
      <4> HIDE DEF f
      <4>5. items' = [j \in Item |-> IF j \in {i} THEN f[i] ELSE items[j]]
        BY <4>3
      <4> QED
        BY <4>4, <4>5
    <3>3. CASE DemoteItem(i)
      <4>1. PICK layer \in MEMORY_LAYERS :
              Change({i}, LAMBDA x :
                [x EXCEPT !.layer = layer,
                          !.lifecycle = IF layer = "ARCHIVE" /\ canTransition(@, "COMPRESSED")
                                        THEN "COMPRESSED" ELSE @])
        BY <3>3 DEF DemoteItem
      <4>2. [items[i] EXCEPT !.layer = layer,
                             !.lifecycle = IF layer = "ARCHIVE" /\ canTransition(@, "COMPRESSED")
                                           THEN "COMPRESSED" ELSE @]
              \in ContextItem
        BY <2>1 DEF ContextItem, LIFECYCLE_STATES
      <4> QED
        BY <4>1, <4>2 DEF Change
    <3> QED
      BY <1>6, <3>1, <3>2, <3>3
  <2> QED
    BY <2>2
<1>7. CASE SweepStale
  <2>1. PICK S \in SUBSET Registered : Turned(S, "STALE")
    BY <1>7 DEF SweepStale
  <2> QED
    BY <1>4, <2>1 DEF LIFECYCLE_STATES
<1>8. CASE PromoteArchive
  BY <1>0, <1>8 DEF PromoteArchive, Change, ContextItem, MEMORY_LAYERS
<1>9. CASE EvictForCapacity
  <2>1. PICK D \in SUBSET Registered :
          Change(D, LAMBDA x : [x EXCEPT !.lifecycle = "COMPRESSED", !.layer = "ARCHIVE"])
    BY <1>9 DEF EvictForCapacity
  <2> DEFINE f == [i \in D |-> [items[i] EXCEPT !.lifecycle = "COMPRESSED", !.layer = "ARCHIVE"]]
  <2>2. \A i \in D : f[i] \in ContextItem
    BY <1>0 DEF ContextItem, MEMORY_LAYERS, LIFECYCLE_STATES
  <2>3. items' = [i \in Item |-> IF i \in D THEN f[i] ELSE items[i]]
    BY <2>1 DEF Change
  <2> HIDE DEF f
  <2> QED
    BY <1>3, <2>2, <2>3
<1>10. CASE ApplyInvalidation
  <2>1. PICK S \in SUBSET Registered : Turned(S, "INVALIDATED")
    BY <1>10 DEF ApplyInvalidation
  <2> QED
    BY <1>4, <2>1 DEF LIFECYCLE_STATES
<1>11. CASE UNCHANGED contextVars
  BY <1>11 DEF contextVars
<1> QED
  BY <1>1, <1>2, <1>5, <1>6, <1>7, <1>8, <1>9, <1>10, <1>11 DEF ContextNext

LEMMA ItemsTyped == ContextSpec => []ContextTypeOK
BY ItemsInit, ItemsNext, PTL DEF ContextSpec

\* Two layers of one priority are one layer.
LEMMA PriorityOrders ==
  /\ \A l \in MEMORY_LAYERS : Priority[l] \in Nat
  /\ \A l, m \in MEMORY_LAYERS : Priority[l] = Priority[m] => l = m
  /\ "ARCHIVE" \notin WORKING_LAYERS
BY ContextAssumption DEF Priority, MEMORY_LAYERS

\* An eviction, whether or not it throws on the way, moves what is no more
\* important than what it leaves, and enough of it unless it throws.
LEMMA EvictionFair ==
  ASSUME ContextTypeOK, EvictForCapacity, NEW layer \in WORKING_LAYERS
  PROVE  /\ \A i \in In(layer) \ In(layer)', j \in In(layer) \cap In(layer)' :
              Importance[i] <= Importance[j]
         /\ Cardinality(In(layer)') > Capacity[layer] =>
              \E i \in Registered : ~Evictable(i) /\ items[i].layer \in WORKING_LAYERS
<1>1. PICK E \in Selections, D \in SUBSET Registered :
        /\ D \subseteq E /\ Evicts(E, D)
        /\ Change(D, LAMBDA x : [x EXCEPT !.lifecycle = "COMPRESSED", !.layer = "ARCHIVE"])
  BY DEF EvictForCapacity
<1>2. /\ E \subseteq Registered
      /\ \A i \in E : items[i].layer \in WORKING_LAYERS
      /\ Cardinality(E \cap In(layer)) = Surplus(layer)
      /\ \A i \in E \cap In(layer), j \in In(layer) \ E : ~EvictedBefore(j, i)
  BY DEF Selections
<1>3. \A i \in Registered : /\ i \in Item /\ items[i] \in ContextItem
                            /\ items[i].layer \in MEMORY_LAYERS
                            /\ Importance[i] \in Nat
  BY ContextAssumption DEF Registered, ContextTypeOK, ContextItem
<1>4. /\ \A i \in Item \ D : items'[i] = items[i]
      /\ \A i \in D : items'[i].layer = "ARCHIVE"
  <2>1. \A i \in Item :
          items'[i] = IF i \in D
                        THEN [items[i] EXCEPT !.lifecycle = "COMPRESSED", !.layer = "ARCHIVE"]
                        ELSE items[i]
    BY <1>1 DEF Change
  <2> QED
    BY <1>3, <2>1 DEF ContextItem
<1>5. In(layer)' = In(layer) \ D
  BY <1>3, <1>4, PriorityOrders DEF In, Registered
<1>6. ASSUME NEW i \in In(layer), i \in D, NEW j \in In(layer), j \notin D
      PROVE  Importance[i] <= Importance[j]
  <2>0. /\ i \in Registered /\ j \in Registered
        /\ items[i].layer = layer /\ items[j].layer = layer
        /\ Importance[i] \in Nat /\ Importance[j] \in Nat
    BY <1>3 DEF In
  <2>1. CASE j \notin E
    BY <1>1, <1>2, <1>6, <2>0, <2>1 DEF EvictedBefore
  <2>2. CASE j \in E
    <3>1. PICK c \in E \ D : /\ \A k \in D : ~Precedes(c, k)
                             /\ \A k \in E \ D : ~Precedes(k, c)
      BY <1>1, <1>6, <2>2 DEF Evicts
    <3>2. ~Precedes(c, i) /\ ~Precedes(j, c)
      BY <1>6, <2>2, <3>1
    <3>3. c \in Registered /\ items[c].layer \in MEMORY_LAYERS /\ Importance[c] \in Nat
      BY <1>2, <1>3
    <3>4. layer \in MEMORY_LAYERS
      BY DEF MEMORY_LAYERS
    <3>5. items[c].layer = layer
      BY <2>0, <3>2, <3>3, <3>4, PriorityOrders DEF Precedes
    <3> QED
      BY <2>0, <3>2, <3>3, <3>5 DEF Precedes, EvictedBefore
  <2> QED
    BY <2>1, <2>2
<1>7. ASSUME Cardinality(In(layer)') > Capacity[layer]
      PROVE  \E i \in Registered : ~Evictable(i) /\ items[i].layer \in WORKING_LAYERS
  <2>1. CASE D = E
    <3>1. In(layer)' = In(layer) \ (E \cap In(layer))
      BY <1>5, <2>1
    <3>2. IsFiniteSet(In(layer)) /\ Cardinality(In(layer)) \in Nat
      BY <1>3, ContextAssumption, FS_Subset, FS_CardinalityType DEF In
    <3>3. \A S, T : IsFiniteSet(S) =>
            Cardinality(S \ T) = Cardinality(S) - Cardinality(S \cap T)
      BY FS_Difference
    <3>4. /\ Cardinality(In(layer)')
               = Cardinality(In(layer)) - Cardinality(In(layer) \cap (E \cap In(layer)))
          /\ In(layer) \cap (E \cap In(layer)) = E \cap In(layer)
      BY <3>1, <3>2, <3>3, Zenon
    <3>5. Capacity[layer] \in Nat
      BY ContextAssumption
    <3>6. Cardinality(E \cap In(layer)) = Surplus(layer)
      BY <1>2
    <3>7. Cardinality(In(layer)') = Cardinality(In(layer)) - Surplus(layer)
      BY <3>4, <3>6, Zenon
    <3> QED
      BY <1>7, <3>2, <3>5, <3>6, <3>7 DEF Surplus
  <2>2. CASE D # E
    BY <1>1, <1>2, <2>2 DEF Evicts
  <2> QED
    BY <2>1, <2>2
<1> QED
  BY <1>5, <1>6, <1>7

\* An eviction is fair, and leaves a layer over its capacity only behind an item
\* that cannot be compressed.
THEOREM AlwaysEvictionIsFair == ContextSpec => EvictionIsFair
<1>1. ContextTypeOK /\ [ContextNext]_contextVars =>
        (Compresses /\ EvictForCapacity =>
           \A layer \in WORKING_LAYERS :
             /\ \A i \in In(layer) \ In(layer)', j \in In(layer) \cap In(layer)' :
                  Importance[i] <= Importance[j]
             /\ Cardinality(In(layer)') > Capacity[layer] =>
                  \E i \in Registered : ~Evictable(i) /\ items[i].layer \in WORKING_LAYERS)
  BY EvictionFair
<1> QED
  BY <1>1, ItemsTyped, PTL DEF ContextSpec, EvictionIsFair
=============================================================================
