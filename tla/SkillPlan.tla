------------------------------ MODULE SkillPlan -------------------------------
(***************************************************************************)
(* Skills that build on one another: their contracts, the order in which   *)
(* they may run, the record of a run, and which of them may go together on *)
(* some files.                                                             *)
(* Code: src/src/skills/skill-composition.js, skill-routing.js.            *)
(*                                                                         *)
(* Skills are numbered in the order of their names; a contract is read     *)
(* from the front of SKILL.md, whose grammar is left out.                  *)
(***************************************************************************)
EXTENDS Naturals, Sequences, FiniteSets, FiniteSetsExt, SequencesExt, Functions

CONSTANTS Capability,  \* the skills, numbers
          Product,     \* what skills make, numbers too
          MayRequire,  \* what each may say it needs: a bound
          Makes,       \* what each makes
          Layer,       \* of the code
          Rules,       \* of each skill: [layers, dependsOn, conflicts]
          MaxTrail,    \* the bound on skills noted as run
          NoPlan       \* nothing answered or recorded yet, or a file cut short

ASSUME PlanAssumption ==
  /\ Capability \subseteq Nat /\ IsFiniteSet(Capability) /\ MaxTrail \in Nat
  /\ MayRequire \in [Capability -> SUBSET (Capability \cup Product)]
  /\ Makes \in [Capability -> SUBSET Product]
  /\ Rules \in [Capability -> [layers: SUBSET Layer, dependsOn: SUBSET Capability,
                               conflicts: SUBSET Capability]]

VARIABLES requires, \* what each skill must have before it
          produced, \* what is there already
          plan,     \* the last plan made of these
          graphFile, \* the file skill-graph.json
          trail,    \* the skills noted as run in the task's state
          layered   \* the last choice of skills for some files

planVars == <<requires, produced, plan, graphFile, trail, layered>>

Needed == Capability \cup Product
Plan == [ok: BOOLEAN, waiting: SUBSET Capability, order: Seq(Capability),
         received: [Capability -> SUBSET Product]]

\* An edge for each required skill that is there; what else is required may be
\* a product.
buildSkillGraph == [c \in Capability |-> requires[c] \cap Capability]

\* The skills a skill comes after, at any distance.
Ancestors(edges) ==
  LET Reach[n \in 0 .. Cardinality(Capability)] ==
        IF n = 0 THEN edges
        ELSE [c \in Capability |-> Reach[n - 1][c] \cup UNION {edges[d] : d \in Reach[n - 1][c]}]
  IN  Reach[Cardinality(Capability)]
detectCycle(edges) == \E c \in Capability : c \in Ancestors(edges)[c]

\* Mutant: a skill is ready once one of its skills has run.
Ready_Any(edges, done) ==
  {c \in Capability \ done : edges[c] = {} \/ edges[c] \cap done # {}}

Ready(edges, done) == {c \in Capability \ done : edges[c] \subseteq done}

\* Of those that are ready, the first by name.
topoSort(edges) ==
  LET Order[n \in 0 .. Cardinality(Capability)] ==
        IF n = 0 THEN <<>>
        ELSE Append(Order[n - 1], Min(Ready(edges, ToSet(Order[n - 1]))))
  IN  IF detectCycle(edges) THEN <<>> ELSE Order[Cardinality(Capability)]

\* The skills that cannot begin now: here even a skill must have been produced.
validateActivation == {c \in Capability : ~(requires[c] \subseteq produced)}

\* Nothing may be missing that no skill here is and nobody produced; a circle
\* has no order.
planExecution ==
  LET edges == buildSkillGraph
      missing == \E c \in Capability : ~(requires[c] \subseteq Capability \cup produced)
  IN  [ok |-> ~missing /\ ~detectCycle(edges), waiting |-> validateActivation,
       order |-> topoSort(edges),
       received |-> IF detectCycle(edges) THEN [c \in Capability |-> {}]
                    ELSE [c \in Capability |-> UNION {Makes[d] : d \in edges[c]}]]

\* A layer that some skill may not touch or a skill already refused or taken
\* decides: the candidates are looked at in their order.
MayJoin(allowed, c, layers) ==
  /\ layers \subseteq Rules[c].layers
  /\ Rules[c].dependsOn \subseteq allowed
  /\ Rules[c].conflicts \cap allowed = {}

routeWithConstraints(candidates, layers) ==
  LET allowed[n \in 0 .. Len(candidates)] ==
        IF n = 0 THEN {}
        ELSE allowed[n - 1] \cup {c \in {candidates[n]} : MayJoin(allowed[n - 1], c, layers)}
  IN  allowed[Len(candidates)]

\* The skills' files are read before one runs.
Declare ==
  \E c \in Capability : \E needs \in SUBSET MayRequire[c] :
    /\ trail = <<>> /\ requires' = [requires EXCEPT ![c] = needs] /\ plan' = NoPlan
    /\ UNCHANGED <<produced, graphFile, trail, layered>>
PlanNow == plan' = planExecution /\ UNCHANGED <<requires, produced, graphFile, trail, layered>>

\* The state goes over from one skill to the next with a note of what ran.
preserveStateAcrossTransition ==
  \E c \in Capability :
    /\ Len(trail) < MaxTrail
    /\ trail' = Append(trail, c) /\ produced' = produced \cup {c} \cup Makes[c]
    /\ plan' = NoPlan /\ UNCHANGED <<requires, graphFile, layered>>

\* The order that ran is written over the one before, to the end or not.
recordExecutedGraph ==
  /\ graphFile' \in {trail, NoPlan}
  /\ UNCHANGED <<requires, produced, plan, trail, layered>>

RouteLayers ==
  \E candidates \in SetToAllKPermutations(Capability), layers \in SUBSET Layer :
    /\ layered' = [allowed |-> routeWithConstraints(candidates, layers), layers |-> layers]
    /\ UNCHANGED <<requires, produced, plan, graphFile, trail>>

PlanInit ==
  /\ requires = [c \in Capability |-> {}] /\ produced = {}
  /\ plan = NoPlan /\ graphFile = NoPlan /\ trail = <<>>
  /\ layered = [allowed |-> {}, layers |-> {}]

\* The choice by layers reads none of what a plan is made of.
PlanningNext ==
  Declare \/ PlanNow \/ preserveStateAcrossTransition \/ recordExecutedGraph
PlanNext == PlanningNext \/ RouteLayers
PlanSpec == PlanInit /\ [][PlanNext]_planVars

PlanTypeOK ==
  /\ requires \in [Capability -> SUBSET Needed] /\ produced \subseteq Needed
  /\ plan = NoPlan \/ plan \in Plan
  /\ graphFile = NoPlan \/ graphFile \in Seq(Capability)
  /\ trail \in Seq(Capability)
  /\ layered \in [allowed: SUBSET Capability, layers: SUBSET Layer]

\* A plan that is said to work lacks nothing and has every skill once, after
\* the skills it requires; and where there is such an order one is found.
PlanIsOrdered ==
  plan # NoPlan =>
    LET Fits(order) ==
          /\ ToSet(order) = Capability /\ Len(order) = Cardinality(Capability)
          /\ \A n \in DOMAIN order :
               requires[order[n]] \cap Capability \subseteq ToSet(SubSeq(order, 1, n - 1))
    IN  /\ plan.ok => \A c \in Capability : requires[c] \subseteq Capability \cup produced
        /\ plan.ok \/ (\E order \in SetToSeqs(Capability) : Fits(order)) => Fits(plan.order)
=============================================================================
