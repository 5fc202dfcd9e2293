---------------------------- MODULE MCServices ------------------------------
(***************************************************************************)
(* What advises the work and what watches over it, and the components with *)
(* something that must end, each on its own as in MCComponents, under the  *)
(* fairness their modules state.                                           *)
(***************************************************************************)
EXTENDS LifecycleManager, RollbackManager, SkillRouting, SkillPlan,
        Preflight, Memory, Diagnosis, Contradictions, LoopDetector,
        Retrieval, Drift, Release, Provenance, Lineage, Freshness,
        TaskInference, DecisionTrail

VARIABLE focus

MCSlots ==
  [m \in {"FAST", "NORMAL", "STRICT"} |->
     CASE m = "FAST" -> 0 [] m = "NORMAL" -> 1 [] m = "STRICT" -> 2]

\* Skills that may need each other in a circle, one making what another needs.
MCMayRequire ==
  [c \in Capability |-> CASE c = 1 -> {2, 3, 9} [] c = 2 -> {3} [] c = 3 -> {1, 2}]
MCMakes == [c \in Capability |-> IF c = 2 THEN {9} ELSE {}]
MCRules ==
  [c \in Capability |->
     CASE c = 1 -> [layers |-> {"fe", "be"}, dependsOn |-> {}, conflicts |-> {}]
       [] c = 2 -> [layers |-> {"fe"}, dependsOn |-> {1}, conflicts |-> {3}]
       [] c = 3 -> [layers |-> {"be"}, dependsOn |-> {}, conflicts |-> {2}]]

\* Texts that two rules match, and one.
MCSymptoms ==
  {{}, {"ANTI_BOT", "BROWSER_RUNTIME"}, {"NETWORK_ERROR"}, {"RATE_LIMIT", "CONFIGURATION"},
   {"MISSING_EXECUTABLE", "BROWSER_RUNTIME"}, {"BROWSER_RUNTIME"}}
MCOutcome ==
  {{"errorCode:ENOENT"}, {"errorCode:PRESENT"}, {"statusCode:200"}, {"statusCode:403"},
   {"errorCode:OK"}}
MCContextNode ==
  {[type |-> "decision", words |-> {"user_decided", "decision"}],
   [type |-> "decision", words |-> {"constraint"}],
   [type |-> "constraint", words |-> {}],
   [type |-> "task", words |-> {}]}
MCStrategy ==
  {[steps |-> <<"a", "b">>, stamp |-> 1], [steps |-> <<"b", "a">>, stamp |-> 2],
   [steps |-> <<>>, stamp |-> 1]}
MCMinimum == [l \in BudgetLayer |-> 1]

\* Words of the goal, none of them, and an action of a safe type.
MCDeed ==
  {[words |-> {"add", "tests"}, kind |-> "other", echoes |-> TRUE, lost |-> FALSE],
   [words |-> {"idle"}, kind |-> "drift", echoes |-> FALSE, lost |-> TRUE],
   [words |-> {"read", "code"}, kind |-> "safe", echoes |-> FALSE, lost |-> FALSE]}
MCSight == {{"add", "tests", "pass"}, {"idle"}}
MCPayloads ==
  [f \in Fields |->
    {NoPayload, {{}}} \cup
    CASE f = "tasks" -> {{}, {{"stale"}, {}}, {{"out of scope"}}, {{"not VERIFIED"}}}
      [] f \in {"manifest", "durableState"} -> {{{"no snapshot"}}}
      [] OTHER -> {{}, {{"stale"}}}]
\* Certain, more than certain, and less than nothing.
MCConfidence == {9, 12, -1}
MCPools == {<<"a", "a", "b">>, <<"a", "b">>, <<"b">>}

allVars ==
  <<focus, managerVars, rollbackVars, canaryVars, skillVars, planVars,
    preflightVars, memoryVars, diagnosisVars, contradictionVars, loopVars,
    retrievalVars, driftVars, releaseVars, provenanceVars, lineageVars,
    freshnessVars, inferenceVars, decisionVars>>

Init ==
  /\ focus \in {"manager", "rollback", "canary", "skills", "handover",
                "plan", "layers", "preflight", "memory", "diagnosis",
                "contradictions", "loops", "feedback", "faults", "budgets",
                "drift", "release", "signers", "observations", "obsfile",
                "lineage", "claims", "freshness", "inference", "trace",
                "audit", "archive"}
  /\ ManagerInit /\ RollbackInit /\ CanaryInit /\ SkillsInit
  /\ PlanInit /\ PreflightInit /\ MemoryInit /\ DiagnosisInit
  /\ ContradictionsInit /\ LoopInit /\ RetrievalInit /\ DriftInit
  /\ ReleaseInit /\ ProvenanceInit /\ LineageInit /\ FreshnessInit
  /\ InferenceInit /\ DecisionInit
  \* One of the beginnings for a component that stays there.
  /\ focus = "lineage" \/ flagged = {}
  /\ surroundings.environment = "v1"
  /\ focus = "freshness" \/ known.files = Missing

OnManager(A) ==
  /\ focus = "manager" /\ A
  /\ UNCHANGED <<focus, rollbackVars, canaryVars, skillVars, planVars,
                 preflightVars, memoryVars, diagnosisVars,
                 contradictionVars, loopVars, retrievalVars, driftVars,
                 releaseVars, provenanceVars, lineageVars,
                 freshnessVars, inferenceVars, decisionVars>>

OnRollback(A) ==
  /\ focus = "rollback" /\ A
  /\ UNCHANGED <<focus, managerVars, canaryVars, skillVars, planVars,
                 preflightVars, memoryVars, diagnosisVars,
                 contradictionVars, loopVars, retrievalVars, driftVars,
                 releaseVars, provenanceVars, lineageVars,
                 freshnessVars, inferenceVars, decisionVars>>

OnCanary(A) ==
  /\ focus = "canary" /\ A
  /\ UNCHANGED <<focus, managerVars, rollbackVars, skillVars, planVars,
                 preflightVars, memoryVars, diagnosisVars,
                 contradictionVars, loopVars, retrievalVars, driftVars,
                 releaseVars, provenanceVars, lineageVars,
                 freshnessVars, inferenceVars, decisionVars>>

OnSkills(A) ==
  /\ focus = "skills" /\ A
  /\ UNCHANGED <<focus, managerVars, rollbackVars, canaryVars,
                 planVars, preflightVars, memoryVars, diagnosisVars,
                 contradictionVars, loopVars, retrievalVars, driftVars,
                 releaseVars, provenanceVars, lineageVars,
                 freshnessVars, inferenceVars, decisionVars>>

OnHandover(A) ==
  /\ focus = "handover" /\ A
  /\ UNCHANGED <<focus, managerVars, rollbackVars, canaryVars,
                 planVars, preflightVars, memoryVars, diagnosisVars,
                 contradictionVars, loopVars, retrievalVars, driftVars,
                 releaseVars, provenanceVars, lineageVars,
                 freshnessVars, inferenceVars, decisionVars>>

OnPlan(A) ==
  /\ focus = "plan" /\ A
  /\ UNCHANGED <<focus, managerVars, rollbackVars, canaryVars,
                 skillVars, preflightVars, memoryVars, diagnosisVars,
                 contradictionVars, loopVars, retrievalVars, driftVars,
                 releaseVars, provenanceVars, lineageVars,
                 freshnessVars, inferenceVars, decisionVars>>

OnLayers(A) ==
  /\ focus = "layers" /\ A
  /\ UNCHANGED <<focus, managerVars, rollbackVars, canaryVars,
                 skillVars, preflightVars, memoryVars, diagnosisVars,
                 contradictionVars, loopVars, retrievalVars, driftVars,
                 releaseVars, provenanceVars, lineageVars,
                 freshnessVars, inferenceVars, decisionVars>>

OnPreflight(A) ==
  /\ focus = "preflight" /\ A
  /\ UNCHANGED <<focus, managerVars, rollbackVars, canaryVars,
                 skillVars, planVars, memoryVars, diagnosisVars,
                 contradictionVars, loopVars, retrievalVars, driftVars,
                 releaseVars, provenanceVars, lineageVars,
                 freshnessVars, inferenceVars, decisionVars>>

OnMemory(A) ==
  /\ focus = "memory" /\ A
  /\ UNCHANGED <<focus, managerVars, rollbackVars, canaryVars,
                 skillVars, planVars, preflightVars, diagnosisVars,
                 contradictionVars, loopVars, retrievalVars, driftVars,
                 releaseVars, provenanceVars, lineageVars,
                 freshnessVars, inferenceVars, decisionVars>>

OnDiagnosis(A) ==
  /\ focus = "diagnosis" /\ A
  /\ UNCHANGED <<focus, managerVars, rollbackVars, canaryVars,
                 skillVars, planVars, preflightVars, memoryVars,
                 contradictionVars, loopVars, retrievalVars, driftVars,
                 releaseVars, provenanceVars, lineageVars,
                 freshnessVars, inferenceVars, decisionVars>>

OnContradictions(A) ==
  /\ focus = "contradictions" /\ A
  /\ UNCHANGED <<focus, managerVars, rollbackVars, canaryVars,
                 skillVars, planVars, preflightVars, memoryVars,
                 diagnosisVars, loopVars, retrievalVars, driftVars,
                 releaseVars, provenanceVars, lineageVars,
                 freshnessVars, inferenceVars, decisionVars>>

OnLoops(A) ==
  /\ focus = "loops" /\ A
  /\ UNCHANGED <<focus, managerVars, rollbackVars, canaryVars,
                 skillVars, planVars, preflightVars, memoryVars,
                 diagnosisVars, contradictionVars, retrievalVars,
                 driftVars, releaseVars, provenanceVars, lineageVars,
                 freshnessVars, inferenceVars, decisionVars>>

OnFeedback(A) ==
  /\ focus = "feedback" /\ A
  /\ UNCHANGED <<focus, managerVars, rollbackVars, canaryVars,
                 skillVars, planVars, preflightVars, memoryVars,
                 diagnosisVars, contradictionVars, loopVars, driftVars,
                 releaseVars, provenanceVars, lineageVars,
                 freshnessVars, inferenceVars, decisionVars>>

OnFaults(A) ==
  /\ focus = "faults" /\ A
  /\ UNCHANGED <<focus, managerVars, rollbackVars, canaryVars,
                 skillVars, planVars, preflightVars, memoryVars,
                 diagnosisVars, contradictionVars, loopVars, driftVars,
                 releaseVars, provenanceVars, lineageVars,
                 freshnessVars, inferenceVars, decisionVars>>

OnBudgets(A) ==
  /\ focus = "budgets" /\ A
  /\ UNCHANGED <<focus, managerVars, rollbackVars, canaryVars,
                 skillVars, planVars, preflightVars, memoryVars,
                 diagnosisVars, contradictionVars, loopVars, driftVars,
                 releaseVars, provenanceVars, lineageVars,
                 freshnessVars, inferenceVars, decisionVars>>

OnDrift(A) ==
  /\ focus = "drift" /\ A
  /\ UNCHANGED <<focus, managerVars, rollbackVars, canaryVars,
                 skillVars, planVars, preflightVars, memoryVars,
                 diagnosisVars, contradictionVars, loopVars,
                 retrievalVars, releaseVars, provenanceVars,
                 lineageVars, freshnessVars, inferenceVars,
                 decisionVars>>

OnRelease(A) ==
  /\ focus = "release" /\ A
  /\ UNCHANGED <<focus, managerVars, rollbackVars, canaryVars,
                 skillVars, planVars, preflightVars, memoryVars,
                 diagnosisVars, contradictionVars, loopVars,
                 retrievalVars, driftVars, provenanceVars, lineageVars,
                 freshnessVars, inferenceVars, decisionVars>>

OnSigners(A) ==
  /\ focus = "signers" /\ A
  /\ UNCHANGED <<focus, managerVars, rollbackVars, canaryVars,
                 skillVars, planVars, preflightVars, memoryVars,
                 diagnosisVars, contradictionVars, loopVars,
                 retrievalVars, driftVars, provenanceVars, lineageVars,
                 freshnessVars, inferenceVars, decisionVars>>

OnObservations(A) ==
  /\ focus = "observations" /\ A
  /\ UNCHANGED <<focus, managerVars, rollbackVars, canaryVars,
                 skillVars, planVars, preflightVars, memoryVars,
                 diagnosisVars, contradictionVars, loopVars,
                 retrievalVars, driftVars, releaseVars, lineageVars,
                 freshnessVars, inferenceVars, decisionVars>>

OnObsfile(A) ==
  /\ focus = "obsfile" /\ A
  /\ UNCHANGED <<focus, managerVars, rollbackVars, canaryVars,
                 skillVars, planVars, preflightVars, memoryVars,
                 diagnosisVars, contradictionVars, loopVars,
                 retrievalVars, driftVars, releaseVars, lineageVars,
                 freshnessVars, inferenceVars, decisionVars>>

OnLineage(A) ==
  /\ focus = "lineage" /\ A
  /\ UNCHANGED <<focus, managerVars, rollbackVars, canaryVars,
                 skillVars, planVars, preflightVars, memoryVars,
                 diagnosisVars, contradictionVars, loopVars,
                 retrievalVars, driftVars, releaseVars, provenanceVars,
                 freshnessVars, inferenceVars, decisionVars>>

OnClaims(A) ==
  /\ focus = "claims" /\ A
  /\ UNCHANGED <<focus, managerVars, rollbackVars, canaryVars,
                 skillVars, planVars, preflightVars, memoryVars,
                 diagnosisVars, contradictionVars, loopVars,
                 retrievalVars, driftVars, releaseVars, provenanceVars,
                 freshnessVars, inferenceVars, decisionVars>>

OnFreshness(A) ==
  /\ focus = "freshness" /\ A
  /\ UNCHANGED <<focus, managerVars, rollbackVars, canaryVars, skillVars,
                 planVars, preflightVars, memoryVars, diagnosisVars,
                 contradictionVars, loopVars, retrievalVars, driftVars,
                 releaseVars, provenanceVars, lineageVars, inferenceVars,
                 decisionVars>>

OnInference(A) ==
  /\ focus = "inference" /\ A
  /\ UNCHANGED <<focus, managerVars, rollbackVars, canaryVars,
                 skillVars, planVars, preflightVars, memoryVars,
                 diagnosisVars, contradictionVars, loopVars,
                 retrievalVars, driftVars, releaseVars, provenanceVars,
                 lineageVars, freshnessVars, decisionVars>>

OnTrace(A) ==
  /\ focus = "trace" /\ A
  /\ UNCHANGED <<focus, managerVars, rollbackVars, canaryVars,
                 skillVars, planVars, preflightVars, memoryVars,
                 diagnosisVars, contradictionVars, loopVars,
                 retrievalVars, driftVars, releaseVars, provenanceVars,
                 lineageVars, freshnessVars, inferenceVars>>

OnAudit(A) ==
  /\ focus = "audit" /\ A
  /\ UNCHANGED <<focus, managerVars, rollbackVars, canaryVars,
                 skillVars, planVars, preflightVars, memoryVars,
                 diagnosisVars, contradictionVars, loopVars,
                 retrievalVars, driftVars, releaseVars, provenanceVars,
                 lineageVars, freshnessVars, inferenceVars>>

OnArchive(A) ==
  /\ focus = "archive" /\ A
  /\ UNCHANGED <<focus, managerVars, rollbackVars, canaryVars,
                 skillVars, planVars, preflightVars, memoryVars,
                 diagnosisVars, contradictionVars, loopVars,
                 retrievalVars, driftVars, releaseVars, provenanceVars,
                 lineageVars, freshnessVars, inferenceVars>>

Next ==
  \/ OnManager(ManagerNext)
  \/ OnRollback(RollbackNext)
  \/ OnCanary(CanaryNext)
  \/ OnSkills(RoutingNext)
  \/ OnHandover(HandOverNext)
  \/ OnPlan(PlanningNext)
  \/ OnLayers(RouteLayers)
  \/ OnPreflight(PreflightNext)
  \/ OnMemory(MemoryNext)
  \/ OnDiagnosis(DiagnosisNext)
  \/ OnContradictions(ContradictionsNext)
  \/ OnLoops(LoopNext)
  \/ OnFeedback(FeedbackNext)
  \/ OnFaults(FaultNext)
  \/ OnBudgets(BudgetNext)
  \/ OnDrift(DriftNext)
  \/ OnRelease(ReleaseGateNext)
  \/ OnSigners(SignerNext)
  \/ OnObservations(ObserveNext)
  \/ OnObsfile(ObsFileNext)
  \/ OnLineage(EvidenceNext)
  \/ OnClaims(ClaimNext)
  \/ OnFreshness(FreshnessNext)
  \/ OnInference(InferenceNext)
  \/ OnTrace(TraceNext)
  \/ OnAudit(AuditNext)
  \/ OnArchive(ArchiveNext)

\* The fairness of ManagerSpec, RollbackSpec and CanarySpec.
Spec ==
  /\ Init /\ [][Next]_allVars
  /\ \A c \in Call : WF_allVars(OnManager(WalkOn(c)))
  /\ WF_allVars(OnRollback(RollbackNext))
  /\ WF_allVars(OnCanary(CanaryNext))

\* The type invariant of the component that moves.
TypeOK ==
  /\ focus = "manager" => ManagerTypeOK
  /\ focus \in {"rollback", "canary"} => RollbackTypeOK
  /\ focus \in {"skills", "handover"} => SkillsTypeOK
  /\ focus \in {"plan", "layers"} => PlanTypeOK
  /\ focus = "preflight" => PreflightTypeOK
  /\ focus = "memory" => MemoryTypeOK
  /\ focus = "diagnosis" => DiagnosisTypeOK
  /\ focus = "contradictions" => ContradictionsTypeOK
  /\ focus = "loops" => LoopTypeOK
  /\ focus \in {"feedback", "faults", "budgets"} => RetrievalTypeOK
  /\ focus = "drift" => DriftTypeOK
  /\ focus \in {"release", "signers"} => ReleaseTypeOK
  /\ focus \in {"observations", "obsfile"} => ProvenanceTypeOK
  /\ focus \in {"lineage", "claims"} => LineageTypeOK
  /\ focus = "freshness" => FreshnessTypeOK
  /\ focus = "inference" => InferenceTypeOK
  /\ focus \in {"trace", "audit", "archive"} => DecisionTypeOK

\* What the canary promises, of the behaviours that run it.
CanaryEnds == focus = "canary" => CanaryDecides
=============================================================================
