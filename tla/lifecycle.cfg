\* Two requirements, a question and two assumptions, one message and one tool
\* call in flight; no record has checks, so no verification awaits any.
CONSTANTS
  MaxReq = 2
  q1 = q1
  a1 = a1
  a2 = a2
  PromptQuestion <- MCPromptQuestion
  Assumption <- TwoAssumptions
  NoAssumption = NoAssumption
  NoTask = NoTask
  Idle = Idle
  Prompt <- MCPrompt
  Decided <- OneDecided
  Imported = {}
  Session = {s1}
  Verifier = {}
  Call = {c1}
SPECIFICATION Spec
INVARIANTS TypeOK EvidenceBacked AskingIsAnswerable
PROPERTIES ClarificationStands AskingNeverResumesExecution
