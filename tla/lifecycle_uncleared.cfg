\* One message at a time, and no recorded decision: the trace needs only a crash.
CONSTANTS
  MaxReq = 1
  q1 = q1
  a1 = a1
  a2 = a2
  PromptQuestion <- MCPromptQuestion
  Assumption <- OneAssumption
  NoAssumption = NoAssumption
  NoTask = NoTask
  Idle = Idle
  Prompt <- MCPrompt
  Decided <- NothingDecided
  Imported = {}
  Session = {s1}
  Verifier = {}
  Call = {c1}
SPECIFICATION Spec
INVARIANT ExecutionIsCleared
