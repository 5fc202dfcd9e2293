--------------------------- MODULE MCComponents -----------------------------
(***************************************************************************)
(* The components beside the task's own record, checked in one run.  They  *)
(* share no state, so a behaviour moves one of them, chosen at the start   *)
(* and never changed, and the others stay where they began: the sizes of   *)
(* their state spaces add up and do not multiply.                          *)
(***************************************************************************)
EXTENDS TaskRuns, CircuitBreaker, MessageGuard, Sessions, ContextItems,
        ContextAssembly, Capsules, ToolGate, Verification, Continuation

VARIABLE focus

MCCapacity == [l \in WORKING_LAYERS |-> 1]
MCImportance == [i \in Item |-> IF i = "i1" THEN 1 ELSE 2]

\* A requirement, an output and a decision about the task t.
MCKind ==
  [n \in Node |-> CASE n = "t" -> "task" [] n = "r" -> "requirement"
                    [] n = "o" -> "output" [] n = "d" -> "decision"]
MCCandidate ==
  {<<"t", "requires_completion", "r">>, <<"r", "requires_output", "o">>,
   <<"o", "depends_on_artifact", "d">>, <<"d", "supports", "t">>,
   <<"d", "contradicts", "o">>}
MCTokens == [n \in Node |-> IF n = "d" THEN 2 ELSE 1]

\* Capsules that need each other in a circle, two of the same content.
MCNeeds ==
  [c \in Capsule |-> CASE c = "k1" -> {"k2"} [] c = "k2" -> {"k3"} [] c = "k3" -> {"k1"}]
MCWeight == [c \in Capsule |-> 1]
MCGist == [c \in Capsule |-> IF c = "k3" THEN "k1" ELSE c]

MCLocated == [s \in Session |-> IF s \in Worker THEN "repo" ELSE "ws"]
MCNested == [r \in Root |-> IF r = "ws" THEN {"repo"} ELSE {}]
\* The repository was another directory when the record was made.
MCForeign == {<<"repo", "s1">>}

\* A command before a page, a page before a request, and a check of no known
\* form.
MCChecks ==
  [v \in Verifier |->
     CASE v = "p" -> <<[type |-> "command", id |-> 1], [type |-> "e2e", id |-> 2]>>
       [] v = "q" -> <<[type |-> "e2e", id |-> 1], [type |-> "service", id |-> 1]>>
       [] v = "u" -> <<[type |-> "invalid", id |-> 1]>>]

allVars ==
  <<focus, runsVars, breakerVars, limiterVars, guardVars, sessionsVars,
    contextVars, graphVars, assemblyVars, capsuleVars, gateVars,
    verifyVars, continuationVars>>

Init ==
  /\ focus \in {"runs", "breaker", "limiter", "guard", "sessions", "items",
                "graph", "assembly", "capsules", "gate", "verify", "continuation"}
  \* One beginning for a component that stays there.
  /\ focus = "assembly" \/ limit = 3
  /\ focus = "gate" \/ /\ gateRecord = NoRecord
                       /\ gateSession = [worker |-> FALSE, strict |-> TRUE, enforced |-> TRUE]
  /\ RunsInit /\ BreakerInit /\ LimiterInit /\ GuardInit
  /\ SessionsInit /\ ContextInit /\ GraphInit /\ AssemblyInit
  /\ CapsuleInit /\ ToolGateInit /\ VerifyInit
  /\ ContinuationInit
  \* A question is open there; an answer or a command leaves any other phase.
  /\ \A r \in Foreign : phase[r] = "ASKING"
  /\ focus = "capsules" \/ Stored = {}
  /\ focus = "continuation" \/ world.ref = "loose"

OnRuns(A) ==
  /\ focus = "runs" /\ A
  /\ UNCHANGED <<focus, breakerVars, limiterVars, guardVars, sessionsVars,
                 contextVars, graphVars, assemblyVars, capsuleVars,
                 gateVars, verifyVars, continuationVars>>

OnBreaker(A) ==
  /\ focus = "breaker" /\ A
  /\ UNCHANGED <<focus, runsVars, limiterVars, guardVars, sessionsVars,
                 contextVars, graphVars, assemblyVars, capsuleVars,
                 gateVars, verifyVars, continuationVars>>

OnLimiter(A) ==
  /\ focus = "limiter" /\ A
  /\ UNCHANGED <<focus, runsVars, breakerVars, guardVars, sessionsVars,
                 contextVars, graphVars, assemblyVars, capsuleVars,
                 gateVars, verifyVars, continuationVars>>

OnGuard(A) ==
  /\ focus = "guard" /\ A
  /\ UNCHANGED <<focus, runsVars, breakerVars, limiterVars, sessionsVars,
                 contextVars, graphVars, assemblyVars, capsuleVars,
                 gateVars, verifyVars, continuationVars>>

OnSessions(A) ==
  /\ focus = "sessions" /\ A
  /\ UNCHANGED <<focus, runsVars, breakerVars, limiterVars, guardVars,
                 contextVars, graphVars, assemblyVars, capsuleVars,
                 gateVars, verifyVars, continuationVars>>

OnItems(A) ==
  /\ focus = "items" /\ A
  /\ UNCHANGED <<focus, runsVars, breakerVars, limiterVars, guardVars,
                 sessionsVars, graphVars, assemblyVars, capsuleVars,
                 gateVars, verifyVars, continuationVars>>

OnGraph(A) ==
  /\ focus = "graph" /\ A
  /\ UNCHANGED <<focus, runsVars, breakerVars, limiterVars, guardVars,
                 sessionsVars, contextVars, assemblyVars, capsuleVars,
                 gateVars, verifyVars, continuationVars>>

OnAssembly(A) ==
  /\ focus = "assembly" /\ A
  /\ UNCHANGED <<focus, runsVars, breakerVars, limiterVars, guardVars,
                 sessionsVars, contextVars, graphVars, capsuleVars,
                 gateVars, verifyVars, continuationVars>>

OnCapsules(A) ==
  /\ focus = "capsules" /\ A
  /\ UNCHANGED <<focus, runsVars, breakerVars, limiterVars, guardVars,
                 sessionsVars, contextVars, graphVars, assemblyVars,
                 gateVars, verifyVars, continuationVars>>

OnGate(A) ==
  /\ focus = "gate" /\ A
  /\ UNCHANGED <<focus, runsVars, breakerVars, limiterVars, guardVars,
                 sessionsVars, contextVars, graphVars, assemblyVars,
                 capsuleVars, verifyVars, continuationVars>>

OnVerify(A) ==
  /\ focus = "verify" /\ A
  /\ UNCHANGED <<focus, runsVars, breakerVars, limiterVars, guardVars,
                 sessionsVars, contextVars, graphVars, assemblyVars,
                 capsuleVars, gateVars, continuationVars>>

OnContinuation(A) ==
  /\ focus = "continuation" /\ A
  /\ UNCHANGED <<focus, runsVars, breakerVars, limiterVars, guardVars,
                 sessionsVars, contextVars, graphVars, assemblyVars,
                 capsuleVars, gateVars, verifyVars>>

Next ==
  \/ OnRuns(RunsNext)
  \/ OnBreaker(BreakerNext)
  \/ OnLimiter(LimiterNext)
  \/ OnGuard(GuardNext)
  \/ OnSessions(SessionsNext)
  \/ OnItems(ContextNext)
  \/ OnGraph(GraphNext)
  \/ OnAssembly(AssemblyNext)
  \/ OnCapsules(CapsuleNext)
  \/ OnGate(ToolGateNext)
  \/ OnVerify(VerifyNext)
  \/ OnContinuation(ContinuationNext)

Spec == Init /\ [][Next]_allVars

\* The type invariant of the component that moves.
TypeOK ==
  /\ focus = "runs" => RunsTypeOK
  /\ focus = "breaker" => BreakerTypeOK
  /\ focus = "limiter" => LimiterTypeOK
  /\ focus = "guard" => GuardTypeOK
  /\ focus = "sessions" => SessionsTypeOK
  /\ focus = "items" => ContextTypeOK
  /\ focus = "graph" => GraphTypeOK
  /\ focus = "assembly" => AssemblyTypeOK
  /\ focus = "capsules" => CapsuleTypeOK
  /\ focus = "gate" => ToolGateTypeOK
  /\ focus = "verify" => VerifyTypeOK
  /\ focus = "continuation" => ContinuationTypeOK
=============================================================================
