\* Two requirements, two tool calls, two successes noted, any number of
\* failures and crashes.
SPECIFICATION Spec
CONSTANTS
  Req = {r1, r2}
  Trial = {t1, t2}
  Unbound = Unbound
  NoReq = NoReq
  MaxNotes = 2
  Curated = {1}
  Idle = Idle
  NoEvidence = NoEvidence
  Crashes = TRUE
SYMMETRY Symmetry
INVARIANTS TypeOK CitedIsTraceable RestsOnSound FailureEnds TestedHasExperiment
PROPERTIES RequirementMoves
