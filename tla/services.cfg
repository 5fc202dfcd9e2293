\* Two components, one of them faulty, and three calls of start and stop; three
\* rollback steps; a watch of two time units; one piece of evidence, about one
\* file, in two environments.  Two or three of everything else, and a few steps
\* more than it takes to come back to where one was.
SPECIFICATION Spec
CONSTANTS
  Components = 2
  Call = {d1, d2, d3}
  Faulty = {2}
  Ended = Ended
  Steps = 3
  Deadline = 2
  Word = {"architecture", "trivial", "add", "performance", "auth", "delete", "migrate-or-delete", "long", "spec"}
  MaxWords = 2
  MaxClauses = 1
  MaxRequirements = 3
  MaxQuestions = 2
  NoContract = NoContract
  Topic = {"a", "b"}
  Day = {"d1"}
  Memo = {"p1"}
  MaxNotes = 3
  MaxTears = 1
  Skill = {1, 2, 3}
  BaseSkill = {1}
  Tier = {1, 2}
  Slots <- MCSlots
  MaxVersion = 1
  MaxScore = 2
  MaxUses = 1
  MaxChanged = 1
  NoSkill = NoSkill
  Garbled = Garbled
  Capability = {1, 2, 3}
  Product = {9}
  Layer = {"fe", "be"}
  MayRequire <- MCMayRequire
  Makes <- MCMakes
  Rules <- MCRules
  MaxTrail = 1
  NoPlan = NoPlan
  Symptoms <- MCSymptoms
  Outcome <- MCOutcome
  MaxRounds = 3
  NoReport = NoReport
  Claim = {"a", "b"}
  ContextNode <- MCContextNode
  Gone = Gone
  Thing = {"x", "y"}
  Strategy <- MCStrategy
  minOccurrences = 2
  windowMs = 0
  maxUniqueItems = 2
  maxEvents = 2
  MaxRecords = 4
  MaxNow = 1
  NoLoop = NoLoop
  Piece = {"p", "q"}
  Origin = {"o"}
  BudgetLayer = {"N0", "N2"}
  Minimum <- MCMinimum
  Price = {1, 2}
  Allowance = {0, 1, 3}
  MaxFeedback = 4
  Absent = Absent
  GoalWords = {"add", "tests"}
  Deed <- MCDeed
  Sight <- MCSight
  Hours = {0, 48}
  MaxPacket = 2
  MaxSeen = 4
  Signer = {"a", "b", "z"}
  Pools <- MCPools
  ChangeSet = {"c1", "c2"}
  Payloads <- MCPayloads
  NoPayload = NoPayload
  NoQuorum = NoQuorum
  Confidence <- MCConfidence
  MaxObserved = 3
  MaxCuts = 1
  Unset = Unset
  Evidence = {"e1", "e2"}
  Required = {"r1"}
  Hypothesis = {"h1", "h2"}
  Strength = {"L1_INFERENCE", "L3_DIRECT"}
  MaxClaims = 3
  NoFile = NoFile
  Shorn = Shorn
  Environment = {"v1", "v2"}
  SourceFile = {"sf"}
  Content = {"x"}
  Need = {"n1"}
  MaxLineage = 1
  MaxDrift = 2
  Missing = Missing
  PlannedTask = {"b"}
  TaskId = {1, 2}
  Summary = {"fix", "add"}
  MaxLogged = 2
  MaxDays = 2
  NoTask = NoTask
INVARIANTS TypeOK CriticalIsAsked PlanIsOrdered TurnsBackWhole SurvivesOneEnvironment
PROPERTIES UserDecisionStands Settles CanaryEnds
CHECK_DEADLOCK FALSE
