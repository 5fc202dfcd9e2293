\* Two messages and one verification in flight, starting from a record whose
\* requirement has a check.
CONSTANTS
  MaxReq = 1
  q1 = q1
  a1 = a1
  a2 = a2
  PromptQuestion <- MCPromptQuestion
  Assumption <- OneAssumption
  NoAssumption = NoAssumption
  NoTask = NoTask
  Idle = Idle
  Prompt <- FewPrompts
  Decided <- NothingDecided
  Imported <- MCImported
  Session = {s1, s2}
  Verifier = {v1}
  Call = {}
SPECIFICATION Spec
INVARIANT ExecutionIsApproved
PROPERTIES CompletionIsGated ExecutionStartsCleared
