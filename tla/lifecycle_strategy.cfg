\* One message at a time: the claim of completion that approves is enough.
CONSTANTS
  MaxReq = 1
  q1 = q1
  a1 = a1
  a2 = a2
  PromptQuestion <- MCPromptQuestion
  Assumption <- OneAssumption
  NoAssumption = NoAssumption
  NoTask = NoTask
  Idle = Idle
  Prompt <- MCPrompt
  Decided <- NothingDecided
  Imported = {}
  Session = {s1}
  Verifier = {}
  Call = {c1}
SPECIFICATION Spec
INVARIANT ApprovedHasStrategy
