\* Three runs and one old execution; three calls through a breaker of
\* threshold two; four messages and a table of two; two sessions, one of them a
\* worker, and three messages or commands; two or three context items, nodes and
\* capsules; three calls of verifyRequirement.
SPECIFICATION Spec
CONSTANTS
  MaxRuns = 3
  MaxEntries = 2
  Legacy = {e1}
  NoRun = NoRun
  Absent = Absent
  Torn = Torn
  Lost = Lost
  AtRest = AtRest
  Caller = {c1, c2, c3}
  Threshold = 2
  MaxFailures = 4
  WindowLimit = 2
  WindowLength = 2
  MaxTime = 4
  MessageId = {m1, m2, m3, m4}
  TableLimit = 2
  MaxHandled = 5
  Session = {"s1", "s2"}
  Named = {"t1"}
  Root = {"ws", "repo"}
  Cwd = "ws"
  Null = Null
  MaxEvents = 3
  Located <- MCLocated
  Nested <- MCNested
  Worker = {"s2"}
  Foreign <- MCForeign
  Item = {"i1", "i2", "i3"}
  WORKING_LAYERS = {"N1", "N3"}
  Capacity <- MCCapacity
  Importance <- MCImportance
  NoItem = NoItem
  Node = {"t", "r", "o", "d"}
  Kind <- MCKind
  Candidate <- MCCandidate
  NoNode = NoNode
  PromptTask = "t"
  UpstreamDepth = 2
  Tokens <- MCTokens
  Budgets = {3, 8}
  Costs = {1, 3}
  MaxLines = 1
  Capsule = {"k1", "k2", "k3"}
  Needs <- MCNeeds
  Weight <- MCWeight
  Gist <- MCGist
  Inferred = {"k1"}
  CapsuleBudgets = {2, 3}
  MaxChanges = 1
  NoCapsule = NoCapsule
  Verifier = {"p", "q", "u"}
  ChecksOf <- MCChecks
  MaxCommits = 2
  NoScript = NoScript
  MaxWorld = 1
  MaxPacks = 2
  NoShot = NoShot
INVARIANTS TypeOK AskingHolds RecordFitsRuns ClosedIsHealthy HandledOnceInAWhile CompleteIsClosed BudgetIsKept SelectionIsClosed PassedOnItsPage FastPathIsFresh GateHeedsMessage PrivateIsPrivate
PROPERTIES EntriesStay EvictionIsFair
CHECK_DEADLOCK FALSE
