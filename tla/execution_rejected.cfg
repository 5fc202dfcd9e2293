\* No crash: the disagreement is one of the code alone.
SPECIFICATION Spec
CONSTANTS
  Req = {r1, r2}
  Trial = {t1, t2}
  Unbound = Unbound
  NoReq = NoReq
  MaxNotes = 2
  Curated = {}
  Idle = Idle
  NoEvidence = NoEvidence
  Crashes = FALSE
INVARIANT RejectedIsStale
