------------------------ MODULE ExecutionLoopProofs ------------------------
(***************************************************************************)
(* Requirements rest on traceable evidence, for any number of              *)
(* requirements, tool calls, outcomes and crashes.                         *)
(*                                                                         *)
(* None of the properties is inductive, because they look at what is on    *)
(* disk, and some of them only between handlers.  OnItsTrial and Recording *)
(* say what the handler under way has written so far, TakingBack what a    *)
(* contradiction has still to stale and to reopen; Resting and Ending are  *)
(* RestsOnSound and FailureEnds with the handler under way taken into      *)
(* account.                                                                *)
(***************************************************************************)
EXTENDS ExecutionLoop, TLAPS, WellFoundedInduction

OnTrial == {"test", "complete", "fail", "judge", "archive", "stale", "reopen"}
Succeeding == {"complete", "create", "observe", "conclude", "link", "settle"}
Recorded == {"observe", "conclude", "link", "settle"}
Contradicting == {"stale", "reopen"}

\* The trial of the handler under way, and the state of its experiment.
OnItsTrial ==
  job # Idle =>
    /\ job.pc \in OnTrial => job.trial \in Trial
    /\ job.trial = Unbound => job.verdict = "inconclusive"
    /\ job.trial \in Trial =>
         /\ experiment[job.trial] # "none"
         /\ job.pc = "test" => experiment[job.trial] = "proposed"
         /\ job.pc \in (Recorded \cup {"create"} \cup Contradicting) =>
              experiment[job.trial] = "completed"

\* The evidence a success leaves, write by write.
Recording ==
  job # Idle =>
    /\ job.pc \in Succeeding => job.req \in Req /\ job.note \in Note
    /\ job.pc \in {"complete", "create"} => evidence[job.note] = NoEvidence
    /\ job.pc \in Recorded =>
         /\ evidence[job.note] # NoEvidence
         /\ evidence[job.note].trial = job.trial
         /\ evidence[job.note].req = job.req
         /\ evidence[job.note].status = "unverified"
    /\ job.pc \in {"conclude", "link", "settle"} => job.note \in observed
    /\ job.pc = "settle" => evidence[job.note].linked
    /\ job.pc \in {"link", "settle"} /\ job.verdict = "supported" =>
         hypothesis[job.trial] = "supported"

\* What a contradiction has still to stale belongs to its hypothesis and to a
\* requirement it will reopen; and it reopens no other.
TakingBack ==
  job # Idle /\ job.pc \in Contradicting =>
    /\ \A n \in job.todo : /\ evidence[n] # NoEvidence
                           /\ evidence[n].trial = job.trial
                           /\ evidence[n].req \in job.reopen
    /\ \A r \in job.reopen : \E n \in Note :
         /\ evidence[n] # NoEvidence
         /\ evidence[n].req = r
         /\ evidence[n].status = "stale" \/ n \in job.todo
    /\ job.pc = "reopen" => job.todo = {}

\* A hypothesis is there before its experiment.
Founded ==
  \A t \in Trial :
    /\ hypothesis[t] = "none" => experiment[t] = "none"
    /\ t \in guarding => hypothesis[t] # "none"

Reopening(r, n) ==
  /\ job # Idle
  /\ job.pc \in Contradicting
  /\ r \in job.reopen
  /\ evidence[n].trial = job.trial

Resting ==
  \A r \in Req :
    status[r] = "verified" =>
      \E n \in cites[r] :
        Sound(n) \/ evidence[n].trial \in interrupted \/ Reopening(r, n)

Ending ==
  \A t \in Trial \ interrupted :
    experiment[t] = "failed" =>
      hypothesis[t] \notin {"proposed", "testing"} \/ (job # Idle /\ job.trial = t)

Inv ==
  /\ TypeOK
  /\ OnItsTrial /\ Recording /\ TakingBack /\ Founded
  /\ CitedIsTraceable /\ ValidIsTraceable /\ TestedHasExperiment
  /\ Resting /\ Ending

-----------------------------------------------------------------------------

\* Among the notes not used yet there is a least one.
LEMMA FirstFresh ==
  ASSUME Fresh # {}
  PROVE  (CHOOSE n \in Fresh : \A m \in Fresh : n <= m) \in Fresh
<1>1. Fresh \subseteq Nat
  BY NotesAssumption DEF Fresh, Note
<1>2. \E n \in Fresh : \A m \in Fresh : ~ (<<m, n>> \in OpToRel(<, Nat))
  BY <1>1, WFMin, NatLessThanWellFounded
<1>3. \A n \in Fresh, m \in Fresh : ~ (<<m, n>> \in OpToRel(<, Nat)) => n <= m
  BY <1>1 DEF OpToRel
<1> QED
  BY <1>2, <1>3

LEMMA InvInit == Init => Inv
<1> SUFFICES ASSUME Init PROVE Inv
  OBVIOUS
<1>1. TypeOK
  BY DEF Init, TypeOK, HypothesisStatus, ExperimentStatus
<1>2. OnItsTrial /\ Recording /\ TakingBack /\ Founded
  BY DEF Init, OnItsTrial, Recording, TakingBack, Founded
<1>3. CitedIsTraceable /\ ValidIsTraceable /\ TestedHasExperiment
  BY DEF Init, CitedIsTraceable, ValidIsTraceable, TestedHasExperiment
<1>4. Resting /\ Ending
  BY DEF Init, Resting, Ending
<1> QED
  BY <1>1, <1>2, <1>3, <1>4 DEF Inv

\* A job is idle or has the fields of a job.
LEMMA JobType ==
  ASSUME TypeOK, job # Idle
  PROVE  job \in Job
BY DEF TypeOK

-----------------------------------------------------------------------------
(* startExperiment *)

\* The evidence and what is cited of it stay as they are in these steps, so the
\* lineage is untouched.
LEMMA SameEvidence ==
  ASSUME CitedIsTraceable, ValidIsTraceable, UNCHANGED <<evidence, cites>>,
         observed \subseteq observed'
  PROVE  CitedIsTraceable' /\ ValidIsTraceable'
BY DEF CitedIsTraceable, ValidIsTraceable, Traceable

LEMMA ProposeInv ==
  ASSUME Inv, NEW t \in Trial, Propose(t)
  PROVE  Inv'
<1> USE DEF Propose
<1>1. TypeOK'
  BY DEF Inv, TypeOK, HypothesisStatus
<1>2. OnItsTrial' /\ Recording' /\ TakingBack'
  BY DEF OnItsTrial, Recording, TakingBack
<1>3. Founded' /\ TestedHasExperiment'
  BY DEF Inv, TypeOK, Founded, TestedHasExperiment
<1>4. CitedIsTraceable' /\ ValidIsTraceable'
  BY SameEvidence DEF Inv
<1>5. Resting'
  BY DEF Inv, Resting, Sound, Reopening
<1>6. Ending'
  BY DEF Inv, TypeOK, Founded, Ending
<1> QED
  BY <1>1, <1>2, <1>3, <1>4, <1>5, <1>6 DEF Inv

LEMMA RefuseInv ==
  ASSUME Inv, NEW t \in Trial, Refuse(t)
  PROVE  Inv'
<1> USE DEF Refuse
<1>1. TypeOK'
  BY DEF Inv, TypeOK, HypothesisStatus
<1>2. OnItsTrial' /\ Recording' /\ TakingBack'
  BY DEF OnItsTrial, Recording, TakingBack
<1>3. Founded' /\ TestedHasExperiment'
  BY DEF Inv, TypeOK, Founded, TestedHasExperiment
<1>4. CitedIsTraceable' /\ ValidIsTraceable'
  BY SameEvidence DEF Inv
<1>5. Resting'
  BY DEF Inv, Resting, Sound, Reopening
<1>6. Ending'
  BY DEF Inv, TypeOK, Ending
<1> QED
  BY <1>1, <1>2, <1>3, <1>4, <1>5, <1>6 DEF Inv

\* A job that leaves no evidence has the type of a job.
LEMMA JobOnType ==
  ASSUME NEW t \in Trial, NEW pc \in Step, NEW v \in Verdict
  PROVE  /\ JobOn(t, pc, v) \in Job
         /\ JobOn(t, pc, v) # Idle
         /\ JobOn(t, pc, v).pc = pc
         /\ JobOn(t, pc, v).trial = t
<1>1. JobOn(t, pc, v) \in Job
  BY DEF JobOn, Job
<1> QED
  BY <1>1, IdleAssumption DEF JobOn

LEMMA CreateExperimentInv ==
  ASSUME Inv, NEW t \in Trial, CreateExperiment(t)
  PROVE  Inv'
<1> USE DEF CreateExperiment
<1>0. /\ job' \in Job /\ job' # Idle
      /\ job'.pc = "test" /\ job'.trial = t
  BY JobOnType DEF Step, Verdict
<1>1. TypeOK'
  BY <1>0 DEF Inv, TypeOK, ExperimentStatus
<1>2. OnItsTrial' /\ Recording' /\ TakingBack'
  BY <1>0, UnboundAssumption
     DEF Inv, TypeOK, OnItsTrial, Recording, TakingBack, Succeeding, Recorded, Contradicting
<1>3. Founded' /\ TestedHasExperiment'
  BY DEF Inv, TypeOK, Founded, TestedHasExperiment
<1>4. CitedIsTraceable' /\ ValidIsTraceable'
  BY SameEvidence DEF Inv
<1>5. Resting'
  BY DEF Inv, Resting, Sound, Reopening
<1>6. Ending'
  BY <1>0 DEF Inv, TypeOK, Ending
<1> QED
  BY <1>1, <1>2, <1>3, <1>4, <1>5, <1>6 DEF Inv

LEMMA TestInv ==
  ASSUME Inv, Test
  PROVE  Inv'
<1> USE DEF Test, At
<1>0. job.trial \in Trial /\ experiment[job.trial] = "proposed"
  BY DEF Inv, OnItsTrial, OnTrial
<1>1. TypeOK'
  BY <1>0 DEF Inv, TypeOK, HypothesisStatus
<1>2. OnItsTrial' /\ Recording' /\ TakingBack'
  BY DEF OnItsTrial, Recording, TakingBack
<1>3. Founded' /\ TestedHasExperiment'
  BY <1>0 DEF Inv, TypeOK, Founded, TestedHasExperiment
<1>4. CitedIsTraceable' /\ ValidIsTraceable'
  BY SameEvidence DEF Inv
<1>5. Resting'
  BY DEF Inv, Resting, Sound, Reopening, Contradicting
<1>6. Ending'
  BY <1>0 DEF Inv, TypeOK, Ending
<1> QED
  BY <1>1, <1>2, <1>3, <1>4, <1>5, <1>6 DEF Inv

-----------------------------------------------------------------------------
(* noteSuccess *)

LEMMA BeginSuccessInv ==
  ASSUME Inv, NEW t \in Trial \cup {Unbound}, NEW r \in Req, NEW v \in Verdict,
         BeginSuccess(t, r, v)
  PROVE  Inv'
<1> USE DEF BeginSuccess, Store
<1> DEFINE first == CHOOSE n \in Fresh : \A m \in Fresh : n <= m
<1>1. first \in Note /\ evidence[first] = NoEvidence
  BY FirstFresh DEF Fresh
<1> HIDE DEF first
<1>2. /\ job' \in Job /\ job' # Idle
      /\ job'.pc = IF t = Unbound THEN "create" ELSE "complete"
      /\ job'.trial = t /\ job'.req = r /\ job'.verdict = v /\ job'.note = first
  <2> DEFINE begun == IF t = Unbound THEN "create" ELSE "complete"
  <2>1. begun \in Step
    BY DEF Step
  <2>2. job' = [pc |-> begun, trial |-> t, req |-> r, verdict |-> v, note |-> first,
                todo |-> {}, reopen |-> {}]
    BY DEF first
  <2> HIDE DEF begun
  <2> HIDE DEF BeginSuccess
  <2>3. job' \in Job
    BY <1>1, <2>1, <2>2 DEF Job
  <2>4. job' # Idle
    BY <2>3, IdleAssumption
  <2> QED
    BY <2>2, <2>3, <2>4 DEF begun
<1>3. TypeOK'
  BY <1>2 DEF Inv, TypeOK
<1>4. OnItsTrial'
  BY <1>2, UnboundAssumption DEF OnItsTrial, OnTrial, Recorded, Contradicting
<1>5. Recording' /\ TakingBack'
  BY <1>1, <1>2 DEF Recording, TakingBack, Succeeding, Recorded, Contradicting
<1>6. Founded' /\ TestedHasExperiment'
  BY DEF Inv, Founded, TestedHasExperiment
<1>7. CitedIsTraceable' /\ ValidIsTraceable'
  BY SameEvidence DEF Inv
<1>8. Resting' /\ Ending'
  BY DEF Inv, Resting, Sound, Reopening, Ending
<1> QED
  BY <1>3, <1>4, <1>5, <1>6, <1>7, <1>8 DEF Inv

\* What a job under way becomes when it goes on to another write.
LEMMA GotoType ==
  ASSUME TypeOK, job # Idle, NEW pc \in Step, Goto(pc)
  PROVE  /\ job' \in Job /\ job' # Idle
         /\ job'.pc = pc
         /\ job'.trial = job.trial /\ job'.req = job.req /\ job'.verdict = job.verdict
         /\ job'.note = job.note
<1>1. job' = [job EXCEPT !.pc = pc] /\ job \in Job
  BY DEF Goto, TypeOK
<1>2. job' \in Job
  BY <1>1 DEF Job
<1> QED
  BY <1>1, <1>2, IdleAssumption DEF Job

LEMMA CompleteExperimentInv ==
  ASSUME Inv, CompleteExperiment
  PROVE  Inv'
<1> USE DEF CompleteExperiment, At
<1>1. /\ job.trial \in Trial /\ experiment[job.trial] # "none"
      /\ job.req \in Req /\ job.note \in Note /\ evidence[job.note] = NoEvidence
  BY DEF Inv, OnItsTrial, OnTrial, Recording, Succeeding
<1>2. /\ job' \in Job /\ job' # Idle
      /\ job'.pc = "create"
      /\ job'.trial = job.trial /\ job'.req = job.req /\ job'.verdict = job.verdict
      /\ job'.note = job.note
  BY GotoType DEF Inv, Following, Step
<1>3. TypeOK'
  BY <1>1, <1>2 DEF Inv, TypeOK, ExperimentStatus
<1>4. OnItsTrial'
  BY <1>1, <1>2 DEF Inv, TypeOK, OnItsTrial, OnTrial
<1>5. Recording' /\ TakingBack'
  BY <1>1, <1>2 DEF Recording, TakingBack, Succeeding, Recorded, Contradicting
<1>6. Founded' /\ TestedHasExperiment'
  BY <1>1 DEF Inv, TypeOK, Founded, TestedHasExperiment
<1>7. CitedIsTraceable' /\ ValidIsTraceable'
  BY SameEvidence DEF Inv
<1>8. Resting'
  BY DEF Inv, Resting, Sound, Reopening, Contradicting
<1>9. Ending'
  BY <1>1, <1>2 DEF Inv, TypeOK, Ending
<1> QED
  BY <1>3, <1>4, <1>5, <1>6, <1>7, <1>8, <1>9 DEF Inv

LEMMA CreateEvidenceInv ==
  ASSUME Inv, CreateEvidence
  PROVE  Inv'
<1> USE DEF CreateEvidence, At
<1> DEFINE new == [trial |-> job.trial, req |-> job.req, status |-> "unverified",
                   linked |-> FALSE]
<1>1. job.req \in Req /\ job.note \in Note /\ evidence[job.note] = NoEvidence
  BY DEF Inv, Recording, Succeeding
<1>2. /\ job' \in Job /\ job' # Idle
      /\ job'.pc = "observe"
      /\ job'.trial = job.trial /\ job'.req = job.req /\ job'.verdict = job.verdict
      /\ job'.note = job.note
  BY GotoType DEF Inv, Following, Step
<1>3. new \in Evidence /\ new # NoEvidence
  <2>1. job.trial \in Trial \cup {Unbound}
    BY JobType DEF Inv, Job
  <2>2. new \in Evidence
    BY <1>1, <2>1 DEF Evidence, EvidenceStatus
  <2> QED
    BY <2>2, NoEvidenceAssumption
<1>4. /\ evidence'[job.note] = new
      /\ \A n \in Note : n # job.note => evidence'[n] = evidence[n]
  BY <1>1 DEF Inv, TypeOK
<1>5. TypeOK'
  BY <1>1, <1>2, <1>3 DEF Inv, TypeOK
<1>6. OnItsTrial'
  BY <1>2 DEF Inv, OnItsTrial, OnTrial, Recorded
<1>7. Recording' /\ TakingBack'
  BY <1>1, <1>2, <1>3, <1>4 DEF Recording, TakingBack, Succeeding, Contradicting
<1>8. Founded' /\ TestedHasExperiment'
  BY DEF Inv, Founded, TestedHasExperiment
<1>9. CitedIsTraceable'
  BY <1>1, <1>4 DEF Inv, TypeOK, CitedIsTraceable, Traceable
<1>10. ValidIsTraceable'
  BY <1>1, <1>4 DEF Inv, ValidIsTraceable, Traceable
<1>11. Resting'
  BY <1>1, <1>4 DEF Inv, TypeOK, Resting, Sound, Reopening, Contradicting, CitedIsTraceable
<1>12. Ending'
  BY <1>2 DEF Inv, Ending
<1> QED
  BY <1>5, <1>6, <1>7, <1>8, <1>9, <1>10, <1>11, <1>12 DEF Inv

LEMMA RecordObservationInv ==
  ASSUME Inv, RecordObservation
  PROVE  Inv'
<1> USE DEF RecordObservation, At
<1>1. job.req \in Req /\ job.note \in Note
  BY DEF Inv, Recording, Succeeding
<1>2. /\ job' \in Job /\ job' # Idle
      /\ job'.pc = "conclude"
      /\ job'.trial = job.trial /\ job'.req = job.req /\ job'.verdict = job.verdict
      /\ job'.note = job.note
  BY GotoType DEF Inv, Following, Step
<1>3. TypeOK'
  BY <1>1, <1>2 DEF Inv, TypeOK
<1>4. OnItsTrial'
  BY <1>2 DEF Inv, OnItsTrial, OnTrial, Recorded
<1>5. Recording' /\ TakingBack'
  BY <1>1, <1>2 DEF Inv, Recording, Recorded, TakingBack, Succeeding, Contradicting
<1>6. Founded' /\ TestedHasExperiment'
  BY DEF Inv, Founded, TestedHasExperiment
<1>7. CitedIsTraceable' /\ ValidIsTraceable'
  BY SameEvidence DEF Inv
<1>8. Resting'
  BY DEF Inv, Resting, Sound, Reopening, Contradicting
<1>9. Ending'
  BY <1>2 DEF Inv, Ending
<1> QED
  BY <1>3, <1>4, <1>5, <1>6, <1>7, <1>8, <1>9 DEF Inv

LEMMA ConcludeInv ==
  ASSUME Inv, Conclude
  PROVE  Inv'
<1> USE DEF Conclude, At
<1>1. /\ job.req \in Req /\ job.note \in Note
      /\ job.trial \in Trial => experiment[job.trial] = "completed"
      /\ job.trial \in Trial \cup {Unbound} /\ job.verdict \in Verdict
  BY JobType DEF Inv, OnItsTrial, Recording, Succeeding, Recorded, Job
<1>2. /\ job' \in Job /\ job' # Idle
      /\ job'.pc = "link"
      /\ job'.trial = job.trial /\ job'.req = job.req /\ job'.verdict = job.verdict
      /\ job'.note = job.note
  BY GotoType DEF Inv, Following, Step
<1>3. \A t \in Trial : hypothesis'[t] =
        IF t = job.trial THEN Concluded(job.verdict) ELSE hypothesis[t]
  BY UnboundAssumption DEF Inv, TypeOK, Bound
<1>4. Concluded(job.verdict) \in {"supported", "rejected", "testing"}
  BY DEF Concluded
<1>5. TypeOK'
  BY <1>1, <1>2, <1>4 DEF Inv, TypeOK, Bound, HypothesisStatus
<1>6. OnItsTrial'
  BY <1>2 DEF Inv, OnItsTrial, OnTrial, Recorded
<1>7. Recording' /\ TakingBack'
  <2>1. job.verdict = "supported" => job.trial \in Trial
    BY <1>1 DEF Inv, OnItsTrial
  <2>2. job.verdict = "supported" => hypothesis'[job.trial] = "supported"
    BY <1>3, <2>1 DEF Concluded
  <2> QED
    BY <1>1, <1>2, <2>2 DEF Inv, Recording, Recorded, TakingBack, Succeeding, Contradicting
<1>8. Founded' /\ TestedHasExperiment'
  BY <1>1, <1>3, <1>4 DEF Inv, Founded, TestedHasExperiment
<1>9. CitedIsTraceable' /\ ValidIsTraceable'
  BY SameEvidence DEF Inv
<1>10. Resting'
  BY DEF Inv, Resting, Sound, Reopening, Contradicting
<1>11. Ending'
  BY <1>2, <1>3 DEF Inv, Ending
<1> QED
  BY <1>5, <1>6, <1>7, <1>8, <1>9, <1>10, <1>11 DEF Inv

\* Rewriting the status of a piece of evidence leaves the rest of it alone.
LEMMA StatusRewritten ==
  ASSUME TypeOK, NEW n \in Note, evidence[n] # NoEvidence, NEW s \in EvidenceStatus,
         evidence' = [evidence EXCEPT ![n].status = s]
  PROVE  /\ evidence' \in [Note -> Evidence \cup {NoEvidence}]
         /\ evidence'[n] # NoEvidence
         /\ evidence'[n].status = s
         /\ evidence'[n].trial = evidence[n].trial
         /\ evidence'[n].req = evidence[n].req
         /\ evidence'[n].linked = evidence[n].linked
         /\ \A m \in Note : m # n => evidence'[m] = evidence[m]
<1>1. evidence[n] \in Evidence
  BY DEF TypeOK
<1>2. evidence'[n] = [evidence[n] EXCEPT !.status = s]
  BY DEF TypeOK
<1>3. evidence'[n] \in Evidence
  BY <1>1, <1>2 DEF Evidence
<1>4. evidence'[n] # NoEvidence
  BY <1>3, NoEvidenceAssumption
<1>5. \A m \in Note : m # n => evidence'[m] = evidence[m]
  BY DEF TypeOK
<1>6. evidence' \in [Note -> Evidence \cup {NoEvidence}]
  BY <1>3, <1>5 DEF TypeOK
<1> QED
  BY <1>1, <1>2, <1>4, <1>5, <1>6 DEF Evidence

LEMMA LinkInv ==
  ASSUME Inv, Link
  PROVE  Inv'
<1> USE DEF Link, At
<1>1. /\ job.req \in Req /\ job.note \in Note
      /\ evidence[job.note] # NoEvidence /\ evidence[job.note] \in Evidence
  BY DEF Inv, TypeOK, Recording, Succeeding, Recorded
<1>2. /\ job' \in Job /\ job' # Idle
      /\ job'.pc = "settle"
      /\ job'.trial = job.trial /\ job'.req = job.req /\ job'.verdict = job.verdict
      /\ job'.note = job.note
  BY GotoType DEF Inv, Following, Step
<1>3. /\ evidence'[job.note] = [evidence[job.note] EXCEPT !.linked = TRUE]
      /\ \A n \in Note : n # job.note => evidence'[n] = evidence[n]
  BY <1>1 DEF Inv, TypeOK
<1> HIDE DEF Link
<1>4. evidence'[job.note] \in Evidence
  BY <1>1, <1>3 DEF Evidence
<1>5. /\ evidence'[job.note] # NoEvidence
      /\ evidence'[job.note].linked
      /\ evidence'[job.note].trial = evidence[job.note].trial
      /\ evidence'[job.note].req = evidence[job.note].req
      /\ evidence'[job.note].status = evidence[job.note].status
  BY <1>1, <1>3, <1>4, NoEvidenceAssumption DEF Evidence
<1> USE DEF Link
<1>6. TypeOK'
  BY <1>1, <1>2, <1>4 DEF Inv, TypeOK
<1>7. OnItsTrial'
  BY <1>2 DEF Inv, OnItsTrial, OnTrial, Recorded
<1>8. Recording' /\ TakingBack'
  BY <1>1, <1>2, <1>5 DEF Inv, Recording, Recorded, TakingBack, Succeeding, Contradicting
<1>9. Founded' /\ TestedHasExperiment'
  BY DEF Inv, Founded, TestedHasExperiment
<1>10. CitedIsTraceable'
  BY <1>1, <1>3, <1>5 DEF Inv, TypeOK, CitedIsTraceable, Traceable
<1>11. ValidIsTraceable'
  BY <1>1, <1>3, <1>5 DEF Inv, ValidIsTraceable, Traceable
<1>12. Resting'
  BY <1>1, <1>3, <1>5 DEF Inv, TypeOK, Resting, Sound, Reopening, Contradicting
<1>13. Ending'
  BY <1>2 DEF Inv, Ending
<1> QED
  BY <1>6, <1>7, <1>8, <1>9, <1>10, <1>11, <1>12, <1>13 DEF Inv

\* The outcome that supports its hypothesis cites the evidence it has linked.
LEMMA SettleSupportedInv ==
  ASSUME Inv, Settle, Supports(job.verdict)
  PROVE  Inv'
<1> USE DEF Settle, At, Supports
<1>1. /\ job.req \in Req /\ job.note \in Note
      /\ evidence[job.note] # NoEvidence
      /\ evidence[job.note].req = job.req
      /\ evidence[job.note].trial = job.trial
      /\ evidence[job.note].status = "unverified"
      /\ evidence[job.note].linked
      /\ job.note \in observed
      /\ job.trial # Unbound
  BY DEF Inv, OnItsTrial, Recording, Succeeding, Recorded
<1>2. /\ job' = Idle
      /\ \A r \in Req : r # job.req => status'[r] = status[r] /\ cites'[r] = cites[r]
      /\ cites'[job.req] = cites[job.req] \cup {job.note}
      /\ UNCHANGED <<hypothesis, experiment, guarding, evidence, observed, interrupted>>
  BY <1>1 DEF Inv, TypeOK
<1>3. TypeOK'
  BY <1>1 DEF Inv, TypeOK
<1>4. OnItsTrial' /\ Recording' /\ TakingBack'
  BY <1>2 DEF OnItsTrial, Recording, TakingBack
<1>5. Founded' /\ TestedHasExperiment' /\ ValidIsTraceable'
  BY <1>2 DEF Inv, Founded, TestedHasExperiment, ValidIsTraceable, Traceable
<1>6. CitedIsTraceable'
  BY <1>1, <1>2 DEF Inv, CitedIsTraceable, Traceable
<1>7. Resting'
  BY <1>1, <1>2 DEF Inv, Resting, Sound, Reopening, Contradicting
<1>8. Ending'
  <2>1. job.trial \in Trial => experiment[job.trial] = "completed"
    BY DEF Inv, OnItsTrial, Recorded
  <2> QED
    BY <1>2, <2>1 DEF Inv, Ending
<1> QED
  BY <1>3, <1>4, <1>5, <1>6, <1>7, <1>8 DEF Inv

\* Any other outcome changes nothing yet; a contradiction starts to take back.
LEMMA SettleOtherInv ==
  ASSUME Inv, Settle, ~Supports(job.verdict)
  PROVE  Inv'
<1> USE DEF Settle, At
<1> DEFINE dependent == Dependent(job.trial)
<1>1. /\ dependent \subseteq Note
      /\ \A n \in dependent : evidence[n] # NoEvidence /\ evidence[n].trial = job.trial
  BY DEF Dependent
<1>2. Affected(dependent) \subseteq Req
  BY <1>1 DEF Affected, Inv, TypeOK, Evidence
<1>3. /\ job.trial \in Trial => experiment[job.trial] = "completed"
      /\ job.trial = Unbound => job.verdict = "inconclusive"
      /\ job \in Job
  BY JobType DEF Inv, OnItsTrial, Recorded
<1>4. UNCHANGED Store /\ UNCHANGED <<guarding, interrupted>>
  BY DEF Store
<1>5. CASE job' = Idle
  <2>1. TypeOK'
    BY <1>4, <1>5 DEF Inv, TypeOK, Store
  <2>2. OnItsTrial' /\ Recording' /\ TakingBack'
    BY <1>5 DEF OnItsTrial, Recording, TakingBack
  <2>3. /\ Founded' /\ TestedHasExperiment'
        /\ CitedIsTraceable' /\ ValidIsTraceable'
    BY <1>4, SameEvidence DEF Inv, Founded, TestedHasExperiment, Store
  <2>4. Resting'
    BY <1>4, <1>5 DEF Inv, Resting, Sound, Reopening, Contradicting, Store
  <2>5. Ending'
    BY <1>3, <1>4, <1>5 DEF Inv, Ending, Store
  <2> QED
    BY <2>1, <2>2, <2>3, <2>4, <2>5 DEF Inv
<1>6. CASE job' # Idle
  <2>1. /\ job' = [job EXCEPT !.pc = "stale", !.todo = dependent,
                              !.reopen = Affected(dependent)]
        /\ job.verdict # "inconclusive"
    BY <1>6
  <2> HIDE DEF dependent, Settle
  <2>2. job' \in Job
    BY <1>1, <1>2, <1>3, <2>1 DEF Job, Step
  <2>3. /\ job'.pc = "stale" /\ job'.trial = job.trial /\ job'.verdict = job.verdict
        /\ job'.todo = dependent /\ job'.reopen = Affected(dependent)
    BY <1>3, <2>1 DEF Job
  <2>4. job.trial \in Trial
    BY <1>3, <2>1 DEF Job
  <2>5. TypeOK'
    BY <1>4, <2>2 DEF Inv, TypeOK, Store
  <2>6. OnItsTrial' /\ Recording'
    BY <1>3, <1>4, <2>3, <2>4, UnboundAssumption
       DEF OnItsTrial, OnTrial, Recording, Recorded, Succeeding, Store
  <2>7. TakingBack'
    BY <1>1, <1>4, <2>3 DEF TakingBack, Affected, Store
  <2>8. /\ Founded' /\ TestedHasExperiment'
        /\ CitedIsTraceable' /\ ValidIsTraceable'
    BY <1>4, SameEvidence DEF Inv, Founded, TestedHasExperiment, Store
  <2>9. Resting'
    BY <1>4 DEF Inv, Resting, Sound, Reopening, Contradicting, Store, Settle
  <2>10. Ending'
    BY <1>4, <1>6, <2>3 DEF Inv, Ending, Store
  <2> QED
    BY <2>5, <2>6, <2>7, <2>8, <2>9, <2>10 DEF Inv
<1> QED
  BY <1>5, <1>6

LEMMA StaleInv ==
  ASSUME Inv, NEW n \in Note, Stale(n)
  PROVE  Inv'
<1> USE DEF Stale, At
<1>1. /\ evidence[n] # NoEvidence
      /\ evidence[n].trial = job.trial
      /\ evidence[n].req \in job.reopen
      /\ job.trial \in Trial
      /\ experiment[job.trial] = "completed"
  BY DEF Inv, TakingBack, Contradicting, OnItsTrial, OnTrial
<1>2. /\ evidence' \in [Note -> Evidence \cup {NoEvidence}]
      /\ evidence'[n] # NoEvidence
      /\ evidence'[n].status = "stale"
      /\ evidence'[n].trial = evidence[n].trial
      /\ evidence'[n].req = evidence[n].req
      /\ evidence'[n].linked = evidence[n].linked
      /\ \A m \in Note : m # n => evidence'[m] = evidence[m]
  BY <1>1, StatusRewritten DEF Inv, EvidenceStatus
<1>3. /\ job' \in Job /\ job' # Idle
      /\ job'.pc \in Contradicting
      /\ job'.pc = "reopen" => job'.todo = {}
      /\ job'.todo = job.todo \ {n} /\ job'.reopen = job.reopen
      /\ job'.trial = job.trial /\ job'.verdict = job.verdict
  <2> DEFINE next == IF job.todo = {n} THEN "reopen" ELSE "stale"
  <2>1. job \in Job
    BY JobType DEF Inv
  <2>2. job' = [job EXCEPT !.todo = job.todo \ {n}, !.pc = next]
    BY <2>1 DEF Job
  <2>3. next \in Step /\ next \in Contradicting /\ (next = "reopen" => job.todo \ {n} = {})
    BY DEF Step, Contradicting
  <2> HIDE DEF next, Stale
  <2>4. job' \in Job
    BY <2>1, <2>2, <2>3 DEF Job
  <2>5. job' # Idle
    BY <2>4, IdleAssumption
  <2> QED
    BY <2>1, <2>2, <2>3, <2>5, <2>4 DEF Job
<1>4. UNCHANGED <<hypothesis, experiment, guarding, observed, status, cites, interrupted>>
  OBVIOUS
<1>5. TakingBack /\ job # Idle /\ job.pc = "stale"
  BY DEF Inv
<1> HIDE DEF Stale
<1>6. TypeOK'
  BY <1>2, <1>3, <1>4 DEF Inv, TypeOK
<1>7. OnItsTrial' /\ Recording'
  BY <1>1, <1>3, <1>4, UnboundAssumption
     DEF OnItsTrial, OnTrial, Recording, Recorded, Succeeding, Contradicting
<1>8. TakingBack'
  <2>1. \A m \in job'.todo : /\ evidence'[m] # NoEvidence
                             /\ evidence'[m].trial = job'.trial
                             /\ evidence'[m].req \in job'.reopen
    BY <1>2, <1>3, <1>5, JobType DEF TakingBack, Contradicting, Job, Inv
  <2>2. ASSUME NEW r \in job'.reopen
        PROVE  \E m \in Note : /\ evidence'[m] # NoEvidence
                               /\ evidence'[m].req = r
                               /\ evidence'[m].status = "stale" \/ m \in job'.todo
    <3>1. PICK m \in Note : /\ evidence[m] # NoEvidence
                            /\ evidence[m].req = r
                            /\ evidence[m].status = "stale" \/ m \in job.todo
      BY <1>3, <1>5, <2>2 DEF TakingBack, Contradicting, Inv
    <3>2. CASE m = n
      BY <1>2, <3>1, <3>2
    <3>3. CASE m # n
      BY <1>2, <1>3, <3>1, <3>3
    <3> QED
      BY <3>2, <3>3
  <2> QED
    BY <1>3, <2>1, <2>2 DEF TakingBack
<1>9. Founded' /\ TestedHasExperiment'
  BY <1>4 DEF Inv, Founded, TestedHasExperiment
<1>10. CitedIsTraceable'
  BY <1>2, <1>4 DEF Inv, TypeOK, CitedIsTraceable, Traceable
<1>11. ValidIsTraceable'
  BY <1>2 DEF Inv, ValidIsTraceable, Traceable
<1>12. Resting'
  <2> SUFFICES ASSUME NEW r \in Req, status[r] = "verified"
               PROVE  \E m \in cites[r] : (Sound(m) \/ evidence[m].trial \in interrupted
                                             \/ Reopening(r, m))'
    BY <1>4 DEF Resting
  <2>1. PICK m \in cites[r] : Sound(m) \/ evidence[m].trial \in interrupted
                                \/ Reopening(r, m)
    BY DEF Inv, Resting
  <2>2. m \in Note /\ evidence[m].req = r
    BY <2>1 DEF Inv, TypeOK, CitedIsTraceable
  <2>3. CASE m = n
    <3>1. Reopening(r, m)'
      BY <1>1, <1>2, <1>3, <2>2, <2>3 DEF Reopening
    <3> QED
      BY <1>4, <2>1, <3>1
  <2>4. CASE m # n
    <3>1. evidence'[m] = evidence[m]
      BY <1>2, <2>2, <2>4
    <3> QED
      BY <1>3, <1>4, <2>1, <3>1 DEF Sound, Reopening
  <2> QED
    BY <2>3, <2>4
<1>13. Ending'
  BY <1>3, <1>4 DEF Inv, Ending, Contradicting
<1> QED
  BY <1>6, <1>7, <1>8, <1>9, <1>10, <1>11, <1>12, <1>13 DEF Inv

LEMMA ReopenInv ==
  ASSUME Inv, Reopen
  PROVE  Inv'
<1> USE DEF Reopen, At
<1>1. /\ job.trial \in Trial
      /\ experiment[job.trial] = "completed"
  BY DEF Inv, OnItsTrial, OnTrial, Contradicting
<1>2. TypeOK'
  BY DEF Inv, TypeOK
<1>3. OnItsTrial' /\ Recording' /\ TakingBack'
  BY DEF OnItsTrial, Recording, TakingBack
<1>4. Founded' /\ TestedHasExperiment'
  BY DEF Inv, Founded, TestedHasExperiment
<1>5. CitedIsTraceable' /\ ValidIsTraceable'
  BY SameEvidence DEF Inv
<1>6. Resting'
  BY DEF Inv, TypeOK, Resting, Sound, Reopening
<1>7. Ending'
  BY <1>1 DEF Inv, Ending
<1> QED
  BY <1>2, <1>3, <1>4, <1>5, <1>6, <1>7 DEF Inv

LEMMA NoteSuccessInv ==
  ASSUME Inv, NoteSuccess
  PROVE  Inv'
BY BeginSuccessInv, CompleteExperimentInv, CreateEvidenceInv, RecordObservationInv,
   ConcludeInv, LinkInv, SettleSupportedInv, SettleOtherInv, StaleInv, ReopenInv
   DEF NoteSuccess

-----------------------------------------------------------------------------
(* noteFailure *)

LEMMA BeginFailureInv ==
  ASSUME Inv, NEW t \in Trial, NEW v \in Verdict, BeginFailure(t, v)
  PROVE  Inv'
<1> USE DEF BeginFailure, Store
<1>1. /\ job' \in Job /\ job' # Idle
      /\ job'.pc = "fail" /\ job'.trial = t
  BY JobOnType DEF Step
<1>2. TypeOK'
  BY <1>1 DEF Inv, TypeOK
<1>3. OnItsTrial' /\ Recording' /\ TakingBack'
  BY <1>1, UnboundAssumption
     DEF OnItsTrial, Recording, TakingBack, Succeeding, Recorded, Contradicting
<1>4. Founded' /\ TestedHasExperiment'
  BY DEF Inv, Founded, TestedHasExperiment
<1>5. CitedIsTraceable' /\ ValidIsTraceable'
  BY SameEvidence DEF Inv
<1>6. Resting'
  BY DEF Inv, Resting, Sound, Reopening
<1>7. Ending'
  BY DEF Inv, Ending
<1> QED
  BY <1>2, <1>3, <1>4, <1>5, <1>6, <1>7 DEF Inv

LEMMA FailExperimentInv ==
  ASSUME Inv, FailExperiment
  PROVE  Inv'
<1> USE DEF FailExperiment, At
<1>1. job.trial \in Trial /\ experiment[job.trial] # "none"
  BY DEF Inv, OnItsTrial, OnTrial
<1>2. /\ job' \in Job /\ job' # Idle
      /\ job'.pc = "judge" /\ job'.trial = job.trial
  BY GotoType DEF Inv, Step
<1>3. \A t \in Trial : experiment'[t] = IF t = job.trial THEN "failed" ELSE experiment[t]
  BY DEF Inv, TypeOK
<1>4. TypeOK'
  BY <1>2 DEF Inv, TypeOK, ExperimentStatus
<1>5. OnItsTrial' /\ Recording' /\ TakingBack'
  BY <1>1, <1>2, <1>3, UnboundAssumption
     DEF OnItsTrial, Recording, TakingBack, Succeeding, Recorded, Contradicting
<1>6. Founded' /\ TestedHasExperiment'
  BY <1>1, <1>3 DEF Inv, Founded, TestedHasExperiment
<1>7. CitedIsTraceable' /\ ValidIsTraceable'
  BY SameEvidence DEF Inv
<1>8. Resting'
  BY DEF Inv, Resting, Sound, Reopening, Contradicting
<1>9. Ending'
  BY <1>2, <1>3 DEF Inv, Ending
<1> QED
  BY <1>4, <1>5, <1>6, <1>7, <1>8, <1>9 DEF Inv

LEMMA JudgeInv ==
  ASSUME Inv, Judge
  PROVE  Inv'
<1> USE DEF Judge, At
<1>1. job.trial \in Trial /\ experiment[job.trial] # "none"
  BY DEF Inv, OnItsTrial, OnTrial
<1>2. \A t \in Trial : hypothesis'[t] =
        IF t = job.trial THEN Concluded(job.verdict) ELSE hypothesis[t]
  BY DEF Inv, TypeOK
<1>3. Concluded(job.verdict) \in {"supported", "rejected", "testing"}
  BY DEF Concluded
<1>4. IF Archives(job.verdict)
        THEN /\ job' \in Job /\ job' # Idle
             /\ job'.pc = "archive" /\ job'.trial = job.trial
        ELSE job' = Idle
  BY GotoType DEF Inv, Step
<1>5. TypeOK'
  BY <1>3, <1>4 DEF Inv, TypeOK, HypothesisStatus
<1>6. OnItsTrial' /\ Recording' /\ TakingBack'
  BY <1>1, <1>4, UnboundAssumption
     DEF OnItsTrial, Recording, TakingBack, Succeeding, Recorded, Contradicting
<1>7. Founded' /\ TestedHasExperiment'
  BY <1>1, <1>2, <1>3 DEF Inv, Founded, TestedHasExperiment
<1>8. CitedIsTraceable' /\ ValidIsTraceable'
  BY SameEvidence DEF Inv
<1>9. Resting'
  BY DEF Inv, Resting, Sound, Reopening, Contradicting
<1>10. Ending'
  BY <1>2, <1>3, <1>4 DEF Inv, Ending, Archives
<1> QED
  BY <1>5, <1>6, <1>7, <1>8, <1>9, <1>10 DEF Inv

LEMMA ArchiveInv ==
  ASSUME Inv, Archive
  PROVE  Inv'
<1> USE DEF Archive, At
<1>1. job.trial \in Trial /\ experiment[job.trial] # "none"
  BY DEF Inv, OnItsTrial, OnTrial
<1>2. \A t \in Trial : hypothesis'[t] = IF t = job.trial THEN "archived" ELSE hypothesis[t]
  BY DEF Inv, TypeOK
<1>3. TypeOK'
  BY DEF Inv, TypeOK, HypothesisStatus
<1>4. OnItsTrial' /\ Recording' /\ TakingBack'
  BY DEF OnItsTrial, Recording, TakingBack
<1>5. Founded' /\ TestedHasExperiment'
  BY <1>2 DEF Inv, Founded, TestedHasExperiment
<1>6. CitedIsTraceable' /\ ValidIsTraceable'
  BY SameEvidence DEF Inv
<1>7. Resting'
  BY DEF Inv, Resting, Sound, Reopening, Contradicting
<1>8. Ending'
  BY <1>2 DEF Inv, Ending
<1> QED
  BY <1>3, <1>4, <1>5, <1>6, <1>7, <1>8 DEF Inv

-----------------------------------------------------------------------------
(* Evidence lineage *)

\* What verifies, supersedes or invalidates evidence leaves it sound, and valid
\* only when it is traceable.
LEMMA CurateInv ==
  ASSUME Inv, Curate
  PROVE  Inv'
<1>1. PICK n \in Curated : WithdrawEvidence(n)
                           \/ \E result \in {"PASS", "PARTIAL"} : VerifyEvidence(n, result)
  BY DEF Curate
<1>2. n \in Note /\ evidence[n] # NoEvidence /\ job = Idle
  BY <1>1, NotesAssumption DEF WithdrawEvidence, VerifyEvidence, Readable
<1>3. PICK s \in {"valid", "insufficient", "withdrawn"} :
        /\ evidence' = [evidence EXCEPT ![n].status = s]
        /\ s = "valid" => Traceable(n)
  BY <1>1 DEF WithdrawEvidence, VerifyEvidence, Verified
<1>4. UNCHANGED <<hypothesis, experiment, guarding, observed, status, cites, job,
                  interrupted>>
  BY <1>1 DEF WithdrawEvidence, VerifyEvidence
<1>5. /\ evidence' \in [Note -> Evidence \cup {NoEvidence}]
      /\ evidence'[n] # NoEvidence
      /\ evidence'[n].status = s
      /\ evidence'[n].trial = evidence[n].trial
      /\ evidence'[n].req = evidence[n].req
      /\ evidence'[n].linked = evidence[n].linked
      /\ \A m \in Note : m # n => evidence'[m] = evidence[m]
  BY <1>2, <1>3, StatusRewritten DEF Inv, EvidenceStatus
<1>6. TypeOK'
  BY <1>4, <1>5 DEF Inv, TypeOK
<1>7. OnItsTrial' /\ Recording' /\ TakingBack'
  BY <1>2, <1>4 DEF OnItsTrial, Recording, TakingBack
<1>8. Founded' /\ TestedHasExperiment'
  BY <1>4 DEF Inv, Founded, TestedHasExperiment
<1>9. CitedIsTraceable'
  BY <1>4, <1>5 DEF Inv, TypeOK, CitedIsTraceable, Traceable
<1>10. ValidIsTraceable'
  BY <1>3, <1>5 DEF Inv, ValidIsTraceable, Traceable
<1>11. Resting'
  <2> SUFFICES ASSUME NEW r \in Req, status[r] = "verified"
               PROVE  \E m \in cites[r] : (Sound(m) \/ evidence[m].trial \in interrupted
                                             \/ Reopening(r, m))'
    BY <1>4 DEF Resting
  <2>1. PICK m \in cites[r] : Sound(m) \/ evidence[m].trial \in interrupted
    BY <1>2 DEF Inv, Resting, Reopening
  <2>2. m \in Note
    BY <2>1 DEF Inv, TypeOK
  <2>3. CASE m = n
    BY <1>4, <1>5, <2>1, <2>3 DEF Sound
  <2>4. CASE m # n
    <3>1. evidence'[m] = evidence[m]
      BY <1>5, <2>2, <2>4
    <3> QED
      BY <1>4, <2>1, <3>1 DEF Sound
  <2> QED
    BY <2>3, <2>4
<1>12. Ending'
  BY <1>2, <1>4 DEF Inv, Ending
<1> QED
  BY <1>6, <1>7, <1>8, <1>9, <1>10, <1>11, <1>12 DEF Inv

-----------------------------------------------------------------------------
(* Crashes *)

\* A crash may leave one file unreadable, that of the trial it interrupts, and
\* takes the handler away.
LEMMA CrashInv ==
  ASSUME Inv, Crash
  PROVE  Inv'
<1> USE DEF Crash
<1>1. job' = Idle
  OBVIOUS
<1>2. UNCHANGED <<hypothesis, experiment, observed, status, cites>>
  OBVIOUS
<1>3. /\ interrupted \subseteq interrupted' /\ interrupted' \subseteq Trial
      /\ guarding' = {}
      /\ job # Idle /\ job.trial \in Trial => job.trial \in interrupted'
  BY DEF Inv, TypeOK
<1>4. /\ evidence' \in [Note -> Evidence \cup {NoEvidence}]
      /\ \A m \in Note :
           \/ evidence'[m] = evidence[m]
           \/ /\ job # Idle /\ evidence[m].trial = job.trial
              /\ evidence[m] # NoEvidence /\ evidence'[m] # NoEvidence
              /\ evidence'[m].status = "unreadable"
              /\ evidence'[m].trial = evidence[m].trial
              /\ evidence'[m].req = evidence[m].req
              /\ evidence'[m].linked = evidence[m].linked
  <2>1. CASE UNCHANGED evidence
    BY <2>1 DEF Inv, TypeOK
  <2>2. ASSUME NEW n \in BeingRewritten,
               evidence' = [evidence EXCEPT ![n].status = "unreadable"]
        PROVE  /\ evidence' \in [Note -> Evidence \cup {NoEvidence}]
               /\ \A m \in Note :
                    \/ evidence'[m] = evidence[m]
                    \/ /\ job # Idle /\ evidence[m].trial = job.trial
                       /\ evidence[m] # NoEvidence /\ evidence'[m] # NoEvidence
                       /\ evidence'[m].status = "unreadable"
                       /\ evidence'[m].trial = evidence[m].trial
                       /\ evidence'[m].req = evidence[m].req
                       /\ evidence'[m].linked = evidence[m].linked
    <3> HIDE DEF Crash
    <3>1. /\ job # Idle
          /\ \/ job.pc = "link" /\ n = job.note
             \/ job.pc = "stale" /\ n \in job.todo
      BY <2>2 DEF BeingRewritten, At
    <3>2. n \in Note /\ evidence[n] # NoEvidence /\ evidence[n].trial = job.trial
      BY <3>1, JobType
         DEF Inv, Recording, TakingBack, Succeeding, Recorded, Contradicting, Job
    <3> QED
      BY <2>2, <3>1, <3>2, StatusRewritten DEF Inv, EvidenceStatus
  <2> QED
    BY <2>1, <2>2
<1> HIDE DEF Crash
<1>5. TypeOK'
  BY <1>1, <1>2, <1>3, <1>4 DEF Inv, TypeOK
<1>6. OnItsTrial' /\ Recording' /\ TakingBack'
  BY <1>1 DEF OnItsTrial, Recording, TakingBack
<1>7. Founded' /\ TestedHasExperiment'
  BY <1>2, <1>3 DEF Inv, Founded, TestedHasExperiment
<1>8. CitedIsTraceable'
  BY <1>2, <1>4 DEF Inv, TypeOK, CitedIsTraceable, Traceable
<1>9. ValidIsTraceable'
  BY <1>4 DEF Inv, ValidIsTraceable, Traceable
<1>10. Resting'
  <2> SUFFICES ASSUME NEW r \in Req, status[r] = "verified"
               PROVE  \E m \in cites[r] : Sound(m)' \/ evidence'[m].trial \in interrupted'
    BY <1>2 DEF Resting
  <2>1. PICK m \in cites[r] : Sound(m) \/ evidence[m].trial \in interrupted
                                \/ Reopening(r, m)
    BY DEF Inv, Resting
  <2>2. m \in Note /\ evidence[m] # NoEvidence /\ evidence[m].trial # Unbound
    BY <2>1 DEF Inv, TypeOK, CitedIsTraceable, Traceable
  <2>3. evidence[m].trial \in Trial
    BY <2>2 DEF Inv, TypeOK, Evidence
  <2>4. evidence'[m].trial = evidence[m].trial
    BY <1>4, <2>2
  <2>5. CASE job # Idle /\ evidence[m].trial = job.trial
    BY <1>3, <2>1, <2>3, <2>4, <2>5
  <2>6. CASE ~ (job # Idle /\ evidence[m].trial = job.trial)
    <3>1. evidence'[m] = evidence[m]
      BY <1>4, <2>2, <2>6
    <3> QED
      BY <1>3, <2>1, <2>6, <3>1 DEF Sound, Reopening
  <2> QED
    BY <2>5, <2>6
<1>11. Ending'
  BY <1>2, <1>3 DEF Inv, Ending
<1> QED
  BY <1>5, <1>6, <1>7, <1>8, <1>9, <1>10, <1>11 DEF Inv

-----------------------------------------------------------------------------

LEMMA InvNext == Inv /\ [Next]_vars => Inv'
<1> SUFFICES ASSUME Inv, [Next]_vars PROVE Inv'
  OBVIOUS
<1>1. CASE Start
  BY <1>1, TestInv, ProposeInv, RefuseInv, CreateExperimentInv DEF Start
<1>2. CASE NoteSuccess
  BY <1>2, NoteSuccessInv
<1>3. CASE NoteFailure
  BY <1>3, BeginFailureInv, FailExperimentInv, JudgeInv, ArchiveInv DEF NoteFailure
<1>4. CASE Curate
  BY <1>4, CurateInv
<1>5. CASE Crash
  BY <1>5, CrashInv
<1>6. CASE UNCHANGED vars
  <2> USE <1>6 DEF vars
  <2>1. TypeOK' /\ OnItsTrial' /\ Recording' /\ TakingBack' /\ Founded'
    BY DEF Inv, TypeOK, OnItsTrial, Recording, TakingBack, Founded
  <2>2. CitedIsTraceable' /\ ValidIsTraceable' /\ TestedHasExperiment'
    BY DEF Inv, CitedIsTraceable, ValidIsTraceable, TestedHasExperiment, Traceable
  <2>3. Resting' /\ Ending'
    BY DEF Inv, Resting, Sound, Reopening, Ending
  <2> QED
    BY <2>1, <2>2, <2>3 DEF Inv
<1> QED
  BY <1>1, <1>2, <1>3, <1>4, <1>5, <1>6 DEF Next

\* Every reachable state satisfies the inductive invariant: what is on disk, and
\* what the handler under way has written of it.
THEOREM Invariance == Spec => []Inv
BY InvInit, InvNext, PTL DEF Spec

\* The records the handlers keep have their types, whatever the number of
\* requirements, tool calls and outcomes.
THEOREM LoopTypeCorrect == Spec => []TypeOK
<1>1. Inv => TypeOK
  BY DEF Inv
<1> QED
  BY Invariance, <1>1, PTL

\* Whatever a requirement cites is traceable evidence for it, wherever a crash
\* falls: noteSuccess observes and links before markRequirementVerified cites.
THEOREM AlwaysTraceable == Spec => []CitedIsTraceable
<1>1. Inv => CitedIsTraceable
  BY DEF Inv
<1> QED
  BY Invariance, <1>1, PTL

\* Between handlers a verified requirement rests on evidence that is not stale,
\* or on that of a trial a crash cut off: noteContradiction reopens every
\* requirement whose evidence it stales.
THEOREM AlwaysRestsOnSound == Spec => []RestsOnSound
<1>1. Inv => RestsOnSound
  BY DEF Inv, Resting, Reopening, RestsOnSound
<1> QED
  BY Invariance, <1>1, PTL

\* After noteFailure, unless a crash cut it off, the hypothesis is no longer
\* under test.
THEOREM AlwaysFailureEnds == Spec => []FailureEnds
<1>1. Inv => FailureEnds
  BY DEF Inv, Ending, FailureEnds
<1> QED
  BY Invariance, <1>1, PTL

\* A hypothesis is under test, or beyond it, only with an experiment, wherever a
\* crash parts the two files of startExperiment.
THEOREM AlwaysTested == Spec => []TestedHasExperiment
<1>1. Inv => TestedHasExperiment
  BY DEF Inv
<1> QED
  BY Invariance, <1>1, PTL

\* verifyEvidence makes evidence valid only with its full lineage, and nothing
\* takes that lineage away.
THEOREM AlwaysValidTraceable == Spec => []ValidIsTraceable
<1>1. Inv => ValidIsTraceable
  BY DEF Inv
<1> QED
  BY Invariance, <1>1, PTL

\* Only Settle verifies a requirement, and only Reopen takes one back.
LEMMA StatusMoves ==
  ASSUME Inv, [Next]_vars, NEW r \in Req, status'[r] # status[r]
  PROVE  \/ /\ status[r] = "verified"
            /\ Reopen
         \/ /\ status'[r] = "verified"
            /\ Settle /\ r = job.req /\ job.verdict = "supported"
<1>1. [Settle \/ Reopen]_status
  BY DEF Next, vars, Start, NoteSuccess, NoteFailure, Curate, Crash, Store, Propose,
         Refuse, CreateExperiment, Test, BeginSuccess, CompleteExperiment,
         CreateEvidence, RecordObservation, Conclude, Link, Stale, BeginFailure,
         FailExperiment, Judge, Archive, VerifyEvidence, WithdrawEvidence
<1>2. CASE Settle
  BY <1>2 DEF Inv, TypeOK, Settle, Supports
<1>3. CASE Reopen
  BY <1>3 DEF Inv, TypeOK, Reopen
<1> QED
  BY <1>1, <1>2, <1>3

\* A requirement becomes verified only by noteSuccess with a supported
\* hypothesis, and is taken back only by noteContradiction, once evidence for it
\* has gone stale.
THEOREM RequirementMovesOnEvidence == Spec => RequirementMoves
<1> DEFINE Moves(r) ==
      /\ status[r] = "pending" /\ status'[r] = "verified" =>
           \E n \in cites'[r] :
             Sound(n) /\ Traceable(n) /\ hypothesis[evidence[n].trial] = "supported"
      /\ status[r] = "verified" /\ status'[r] = "pending" =>
           \E n \in Note : evidence[n] # NoEvidence /\ evidence[n].req = r
                           /\ evidence[n].status = "stale"
<1>1. ASSUME Inv, [Next]_vars, NEW r \in Req
      PROVE  Moves(r)
  <2>1. CASE status[r] = "pending" /\ status'[r] = "verified"
    <3>1. Settle /\ r = job.req /\ job.verdict = "supported"
      BY <1>1, <2>1, StatusMoves
    <3>2. /\ job.note \in Note
          /\ evidence[job.note].status = "unverified" /\ evidence[job.note].linked
          /\ evidence[job.note].trial = job.trial /\ job.trial # Unbound
          /\ hypothesis[job.trial] = "supported"
      BY <1>1, <3>1 DEF Inv, Settle, At, Recording, Succeeding, Recorded, OnItsTrial
    <3>3. job.note \in cites'[r]
      BY <1>1, <3>1 DEF Inv, TypeOK, Settle, Supports
    <3> QED
      BY <2>1, <3>2, <3>3 DEF Sound, Traceable
  <2>2. CASE status[r] = "verified" /\ status'[r] = "pending"
    <3>1. Reopen
      BY <1>1, <2>2, StatusMoves
    <3>2. r \in job.reopen /\ job # Idle /\ job.pc = "reopen"
      BY <2>2, <3>1 DEF Reopen, At
    <3> QED
      BY <1>1, <2>2, <3>2 DEF Inv, TakingBack, Contradicting
  <2> QED
    BY <2>1, <2>2
<1>2. Inv /\ [Next]_vars => [\A r \in Req : Moves(r)]_vars
  BY <1>1
<1> QED
  BY Invariance, <1>2, PTL DEF Spec, RequirementMoves

=============================================================================
