------------------------------ MODULE TaskInference ------------------------------
(***************************************************************************)
(* Tasks that follow from those that are planned, and the weighed criteria *)
(* by which one is claimed complete.                                       *)
(* Code: src/src/cognition/task-inference-engine.js.                       *)
(*                                                                         *)
(* An id is the planned task and the suffix of the template, none for what *)
(* is planned; a task is its flags.  Raw weights are in tenths, normalised *)
(* ones out of SCALE.                                                      *)
(***************************************************************************)
EXTENDS Naturals, Sequences, SequencesExt, FiniteSets

CONSTANT PlannedTask \* the tasks that may be planned

VARIABLES planned, \* the ids in the list and the flags of each
          passed   \* task -> the types of its criteria that passed

inferenceVars == <<planned, passed>>

SCALE == 10000
minCompletionWeight == 6000

Flag == {"requiresVerification", "dataIntensive", "isService", "deploy", "public"}
Criterion(type, weight) == [type |-> type, weight |-> weight]

\* VERIFICATION_TEMPLATES: the suffix and the criteria that a flag calls for.
Suffix == [f \in Flag |-> CASE f = "requiresVerification" -> "-verify"
                            [] f = "dataIntensive" -> "-review"
                            [] f = "isService" -> "-monitor"
                            [] f = "deploy" -> "-rollback"
                            [] f = "public" -> "-docs"]
VERIFICATION_TEMPLATES ==
  [f \in Flag |->
     CASE f = "requiresVerification" ->
            <<Criterion("VALIDATION", 5), Criterion("LOCAL_SERVICE_CHECK", 3)>>
       [] f = "dataIntensive" -> <<Criterion("DATA_REVIEW", 4), Criterion("VALIDATION", 4)>>
       [] f = "isService" -> <<Criterion("MONITORING", 5), Criterion("LOCAL_SERVICE_CHECK", 3)>>
       [] f = "deploy" -> <<Criterion("ROLLBACK_PLAN", 6)>>
       [] f = "public" -> <<Criterion("DOCUMENTATION", 5)>>]

-----------------------------------------------------------------------------
\* The weights of those at some places, together.
Weight(criteria, places) ==
  LET sum[n \in 0..Len(criteria)] ==
        IF n = 0 THEN 0
        ELSE sum[n - 1] + IF n \in places THEN criteria[n].weight ELSE 0
  IN  sum[Len(criteria)]
Total(criteria) == Weight(criteria, DOMAIN criteria)

\* Largest remainder: what flooring leaves of the scale goes, one each, to the
\* weights that lost most; the order of the criteria breaks ties.
normalizeWeights(criteria) ==
  LET Exact(k) == criteria[k].weight * SCALE
      total == Total(criteria)
      Before(k) == {j \in DOMAIN criteria :
                      \/ Exact(j) % total > Exact(k) % total
                      \/ Exact(j) % total = Exact(k) % total /\ j < k}
      floors == [k \in DOMAIN criteria |->
                   Criterion(criteria[k].type, Exact(k) \div total)]
      raised == {k \in DOMAIN criteria : Cardinality(Before(k)) < SCALE - Total(floors)}
  IN  [k \in DOMAIN criteria |->
         IF k \in raised THEN [floors[k] EXCEPT !.weight = @ + 1] ELSE floors[k]]

\* One task for every flag, unless something has its id, whatever that is.
Inferred(list) ==
  UNION {{[base |-> t.base, suffix |-> Suffix[f], flags |-> {}] :
            f \in {g \in t.flags : ~\E u \in list : u.base = t.base /\ u.suffix = Suffix[g]}} :
         t \in {u \in list : u.suffix = ""}}

\* A pass of validation is always among them.
generateCompletionCriteria(flags) ==
  normalizeWeights(
    (IF "dataIntensive" \in flags THEN <<Criterion("DATA_REVIEW", 4)>> ELSE <<>>)
    \o (IF "isService" \in flags THEN <<Criterion("LOCAL_SERVICE_CHECK", 4)>> ELSE <<>>)
    \o (IF "deploy" \in flags THEN <<Criterion("ROLLBACK_PLAN", 6)>> ELSE <<>>)
    \o (IF "public" \in flags THEN <<Criterion("DOCUMENTATION", 5)>> ELSE <<>>)
    \o <<Criterion("VALIDATION", 3)>>)

CriteriaOf(t) ==
  IF t.suffix = "" THEN generateCompletionCriteria(t.flags)
  ELSE normalizeWeights(VERIFICATION_TEMPLATES[CHOOSE f \in Flag : Suffix[f] = t.suffix])

\* The validation may be among what is missing.
evaluateCompletion(criteria, types) ==
  Weight(criteria, {k \in DOMAIN criteria : criteria[k].type \in types}) >= minCompletionWeight

-----------------------------------------------------------------------------
PlanTask(b, flags) ==
  /\ ~\E t \in planned : t.base = b /\ t.suffix = ""
  /\ planned' = planned \cup {[base |-> b, suffix |-> "", flags |-> flags]}
  /\ UNCHANGED passed

inferNextTasks ==
  /\ Inferred(planned) # {}
  /\ planned' = planned \cup Inferred(planned)
  /\ UNCHANGED passed

\* Only one of the planned tasks is followed.
PassCriterion(t, c) ==
  /\ t \in planned /\ c.type \notin passed[<<t.base, t.suffix>>]
  /\ \A id \in DOMAIN passed : id # <<t.base, t.suffix>> => passed[id] = {}
  /\ passed' = [passed EXCEPT ![<<t.base, t.suffix>>] = @ \cup {c.type}]
  /\ UNCHANGED planned

InferenceInit ==
  /\ planned = {}
  /\ passed = [id \in PlannedTask \X ({""} \cup Range(Suffix)) |-> {}]

InferenceNext ==
  \/ \E b \in PlannedTask, flags \in SUBSET Flag : PlanTask(b, flags)
  \/ inferNextTasks
  \/ \E t \in planned : \E c \in Range(CriteriaOf(t)) : PassCriterion(t, c)

InferenceSpec == InferenceInit /\ [][InferenceNext]_inferenceVars

-----------------------------------------------------------------------------
\* The weights of every task are the whole scale, to the last unit; inferring again
\* adds nothing, and nothing follows from what was inferred; a task is claimed
\* complete without its validation only for a plan to roll back, for documentation
\* or with all the rest done; and one criterion alone never completes a task that
\* is about data or a service.
InferenceTypeOK ==
  /\ \A t \in planned :
       LET criteria == CriteriaOf(t)
           done == passed[<<t.base, t.suffix>>]
           types == {c.type : c \in Range(criteria)}
       IN  /\ Total(criteria) = SCALE /\ \A c \in Range(criteria) : c.weight > 0
           /\ done \subseteq types
           /\ evaluateCompletion(criteria, done) /\ t.suffix = "" =>
                /\ \/ "VALIDATION" \in done \/ types \ done = {"VALIDATION"}
                   \/ t.flags \cap {"deploy", "public"} # {}
                /\ Cardinality(done) = 1 => t.flags \cap {"dataIntensive", "isService"} = {}
  /\ Inferred(planned \cup Inferred(planned)) = {}
  /\ \A t, u \in planned : t.base = u.base /\ t.suffix = u.suffix => t = u
=============================================================================
