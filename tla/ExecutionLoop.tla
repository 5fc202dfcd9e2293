--------------------------- MODULE ExecutionLoop ---------------------------
(***************************************************************************)
(* The hypothesis-experiment loop of one task and the files it leaves.     *)
(*                                                                         *)
(* Before a tool runs, startExperiment records a hypothesis and, once the  *)
(* guard has let the action pass, an experiment; the hypothesis and the    *)
(* experiment of one call are a trial.  When the tool has run, noteSuccess *)
(* or noteFailure records what it showed, and the outcome moves the        *)
(* hypothesis, leaves evidence, and verifies a requirement or, when the    *)
(* outcome contradicts the hypothesis, stales its evidence and reopens the *)
(* requirements that evidence was for.                                     *)
(*                                                                         *)
(* Each handler is one callback, so no other handler runs between its      *)
(* writes (startExperiment awaits its guard); but every write is a file of *)
(* its own or a line of its own, so a crash can part any two of them.  One *)
(* action is one write.  An outcome names its trial, hypothesis and        *)
(* experiment both, from the call's binding or, after a restart too, from  *)
(* ids in its input; and it may be noted more than once, by the message    *)
(* hook and by the after hook.                                             *)
(***************************************************************************)
EXTENDS Naturals

CONSTANTS
  Req,        \* requirements of the task
  Trial,      \* tool calls, with their hypothesis and experiment
  Unbound,    \* the trial of an outcome that names none
  NoReq,
  MaxNotes,   \* bound: the successes noted
  Curated,    \* bound: the evidence others verify, supersede or invalidate
  Idle,       \* no handler runs
  NoEvidence,
  Crashes     \* whether the process may stop

Note == 1 .. MaxNotes

ASSUME UnboundAssumption == Unbound \notin Trial
ASSUME NoReqAssumption == NoReq \notin Req
ASSUME NotesAssumption == MaxNotes \in Nat /\ Curated \subseteq Note
ASSUME CrashesAssumption == Crashes \in BOOLEAN

\* How an outcome compares with what its experiment expected.  A contradiction
\* is low when as many fields agree as disagree.
Verdict == {"supported", "inconclusive", "high", "low"}

HypothesisStatus == {"none", "proposed", "testing", "supported", "rejected", "archived"}
ExperimentStatus == {"none", "proposed", "completed", "failed"}

\* "withdrawn" is superseded or invalidated, which nothing here tells apart;
\* "unreadable" a file whose rewriting was cut off.
EvidenceStatus == {"unverified", "valid", "insufficient", "withdrawn", "stale",
                   "unreadable"}

\* linked: experimentId and observationId are there too.
Evidence == [trial : Trial \cup {Unbound}, req : Req, status : EvidenceStatus,
             linked : BOOLEAN]
ASSUME NoEvidenceAssumption == NoEvidence \notin Evidence

VARIABLES
  hypothesis,  \* the status in the last line of each hypothesis
  experiment,  \* and of each experiment
  guarding,    \* trials whose startExperiment awaits its guard
  evidence,    \* the files of lineage/, one per success noted
  observed,    \* successes whose observation is recorded
  status,      \* the status of each requirement
  cites,       \* requirement.evidence
  job,         \* the handler that runs
  interrupted  \* history: trials whose handler a crash cut off

vars == <<hypothesis, experiment, guarding, evidence, observed, status, cites,
          job, interrupted>>

Step == {"test", "complete", "create", "observe", "conclude", "link", "settle",
         "stale", "reopen", "fail", "judge", "archive"}

Job == [pc : Step, trial : Trial \cup {Unbound}, req : Req \cup {NoReq}, verdict : Verdict,
        note : Note \cup {0}, todo : SUBSET Note, reopen : SUBSET Req]
ASSUME IdleAssumption == Idle \notin Job

TypeOK ==
  /\ hypothesis \in [Trial -> HypothesisStatus]
  /\ experiment \in [Trial -> ExperimentStatus]
  /\ guarding \subseteq Trial
  /\ evidence \in [Note -> Evidence \cup {NoEvidence}]
  /\ observed \subseteq Note
  /\ status \in [Req -> {"pending", "verified"}]
  /\ cites \in [Req -> SUBSET Note]
  /\ job \in Job \cup {Idle}
  /\ interrupted \subseteq Trial

Init ==
  /\ hypothesis = [t \in Trial |-> "none"]
  /\ experiment = [t \in Trial |-> "none"]
  /\ guarding = {}
  /\ evidence = [n \in Note |-> NoEvidence]
  /\ observed = {}
  /\ status = [r \in Req |-> "pending"]
  /\ cites = [r \in Req |-> {}]
  /\ job = Idle
  /\ interrupted = {}

Store == <<hypothesis, experiment, evidence, observed, status, cites>>

At(pc) == job # Idle /\ job.pc = pc
Goto(pc) == job' = [job EXCEPT !.pc = pc]
Bound == job.trial # Unbound

-----------------------------------------------------------------------------
(* startExperiment *)

Propose(t) ==
  /\ job = Idle
  /\ hypothesis[t] = "none"
  /\ hypothesis' = [hypothesis EXCEPT ![t] = "proposed"]
  /\ guarding' = guarding \cup {t}
  /\ UNCHANGED <<experiment, evidence, observed, status, cites, job, interrupted>>

\* The guard blocks the action.  It also compares with earlier failures of the
\* same hypothesis, which a new hypothesis does not have.
Refuse(t) ==
  /\ job = Idle
  /\ t \in guarding
  /\ hypothesis' = [hypothesis EXCEPT ![t] = "archived"]
  /\ guarding' = guarding \ {t}
  /\ UNCHANGED <<experiment, evidence, observed, status, cites, job, interrupted>>

\* A handler that leaves no evidence.
JobOn(t, pc, v) ==
  [pc |-> pc, trial |-> t, req |-> NoReq, verdict |-> v, note |-> 0,
   todo |-> {}, reopen |-> {}]

\* Wrong: the hypothesis is under test before its experiment is recorded.
CreateExperiment_Tested(t) ==
  /\ job = Idle
  /\ t \in guarding
  /\ hypothesis' = [hypothesis EXCEPT ![t] = "testing"]
  /\ guarding' = guarding \ {t}
  /\ UNCHANGED <<experiment, evidence, observed, status, cites, job, interrupted>>

CreateExperiment(t) ==
  /\ job = Idle
  /\ t \in guarding
  /\ experiment' = [experiment EXCEPT ![t] = "proposed"]
  /\ guarding' = guarding \ {t}
  /\ job' = JobOn(t, "test", "inconclusive")
  /\ UNCHANGED <<hypothesis, evidence, observed, status, cites, interrupted>>

Test ==
  /\ At("test")
  /\ hypothesis' = [hypothesis EXCEPT ![job.trial] = "testing"]
  /\ job' = Idle
  /\ UNCHANGED <<experiment, guarding, evidence, observed, status, cites, interrupted>>

-----------------------------------------------------------------------------
(* Outcomes *)

\* Wrong: the name handleContradiction has for it.
Concluded_Contradicted(v) ==
  CASE v = "supported" -> "supported"
    [] v = "high" -> "contradicted"
    [] OTHER -> "testing"

\* deriveHypothesisStatus, whatever the status was.
Concluded(v) ==
  CASE v = "supported" -> "supported"
    [] v = "high" -> "rejected"
    [] OTHER -> "testing"

Fresh == {n \in Note : evidence[n] = NoEvidence}

\* An outcome that names no trial has no experiment to compare with.
BeginSuccess(t, r, v) ==
  /\ job = Idle
  /\ Fresh # {}
  /\ IF t = Unbound THEN v = "inconclusive" ELSE experiment[t] # "none"
  /\ job' = [pc |-> IF t = Unbound THEN "create" ELSE "complete", trial |-> t, req |-> r,
             verdict |-> v, note |-> CHOOSE n \in Fresh : \A m \in Fresh : n <= m,
             todo |-> {}, reopen |-> {}]
  /\ UNCHANGED <<Store, guarding, interrupted>>

\* Wrong: the requirement is verified before its evidence is linked.
Following_Unlinked(pc) ==
  CASE pc = "complete" -> "create"
    [] pc = "create"   -> "observe"
    [] pc = "observe"  -> "conclude"
    [] pc = "conclude" -> "settle"
    [] pc = "settle"   -> "link"

\* The order of noteSuccess.
Following(pc) ==
  CASE pc = "complete" -> "create"
    [] pc = "create"   -> "observe"
    [] pc = "observe"  -> "conclude"
    [] pc = "conclude" -> "link"
    [] pc = "link"     -> "settle"

CompleteExperiment ==
  /\ At("complete")
  /\ experiment' = [experiment EXCEPT ![job.trial] = "completed"]
  /\ Goto(Following("complete"))
  /\ UNCHANGED <<hypothesis, guarding, evidence, observed, status, cites, interrupted>>

CreateEvidence ==
  /\ At("create")
  /\ evidence' = [evidence EXCEPT ![job.note] =
                    [trial |-> job.trial, req |-> job.req, status |-> "unverified",
                     linked |-> FALSE]]
  /\ Goto(Following("create"))
  /\ UNCHANGED <<hypothesis, experiment, guarding, observed, status, cites, interrupted>>

RecordObservation ==
  /\ At("observe")
  /\ observed' = observed \cup {job.note}
  /\ Goto(Following("observe"))
  /\ UNCHANGED <<hypothesis, experiment, guarding, evidence, status, cites, interrupted>>

Conclude ==
  /\ At("conclude")
  /\ hypothesis' = IF Bound
                     THEN [hypothesis EXCEPT ![job.trial] = Concluded(job.verdict)]
                     ELSE hypothesis
  /\ Goto(Following("conclude"))
  /\ UNCHANGED <<experiment, guarding, evidence, observed, status, cites, interrupted>>

Link ==
  /\ At("link")
  /\ evidence' = [evidence EXCEPT ![job.note].linked = TRUE]
  /\ Goto(Following("link"))
  /\ UNCHANGED <<hypothesis, experiment, guarding, observed, status, cites, interrupted>>

\* Wrong: what does not contradict supports.
Supports_Inconclusive(v) == v \in {"supported", "inconclusive"}

Supports(v) == v = "supported"

\* The evidence produced under the hypothesis that is not stale yet.
Dependent(t) ==
  {n \in Note : /\ evidence[n] # NoEvidence
                /\ evidence[n].trial = t
                /\ evidence[n].status \notin {"stale", "unreadable"}}

\* Wrong: only the requirement of this outcome.
Affected_Own(dependent) == {job.req}

Affected(dependent) == {evidence[n].req : n \in dependent}

\* markRequirementVerified, or noteContradiction up to its first write.
Settle ==
  /\ At("settle")
  /\ IF Supports(job.verdict)
       THEN /\ status' = [status EXCEPT ![job.req] = "verified"]
            /\ cites' = [cites EXCEPT ![job.req] = @ \cup {job.note}]
            /\ job' = Idle
       ELSE /\ UNCHANGED <<status, cites>>
            /\ job' = IF job.verdict = "inconclusive" THEN Idle
                      ELSE [job EXCEPT !.pc = "stale",
                                       !.todo = Dependent(job.trial),
                                       !.reopen = Affected(Dependent(job.trial))]
  /\ UNCHANGED <<hypothesis, experiment, guarding, evidence, observed, interrupted>>

Stale(n) ==
  /\ At("stale")
  /\ n \in job.todo
  /\ evidence' = [evidence EXCEPT ![n].status = "stale"]
  /\ job' = [job EXCEPT !.todo = @ \ {n},
                        !.pc = IF job.todo = {n} THEN "reopen" ELSE @]
  /\ UNCHANGED <<hypothesis, experiment, guarding, observed, status, cites, interrupted>>

\* The evidence of the requirement stays where it is.
Reopen ==
  /\ At("reopen")
  /\ status' = [r \in Req |-> IF r \in job.reopen THEN "pending" ELSE status[r]]
  /\ job' = Idle
  /\ UNCHANGED <<hypothesis, experiment, guarding, evidence, observed, cites, interrupted>>

\* A failure that names no trial leaves an observation nothing reads.
BeginFailure(t, v) ==
  /\ job = Idle
  /\ experiment[t] # "none"
  /\ job' = JobOn(t, "fail", v)
  /\ UNCHANGED <<Store, guarding, interrupted>>

FailExperiment ==
  /\ At("fail")
  /\ experiment' = [experiment EXCEPT ![job.trial] = "failed"]
  /\ Goto("judge")
  /\ UNCHANGED <<hypothesis, guarding, evidence, observed, status, cites, interrupted>>

\* Wrong: a low contradiction is left to be tested again.
Archives_Inconclusive(v) == v = "inconclusive"

Archives(v) == Concluded(v) \notin {"supported", "rejected"}

Judge ==
  /\ At("judge")
  /\ hypothesis' = [hypothesis EXCEPT ![job.trial] = Concluded(job.verdict)]
  /\ IF Archives(job.verdict) THEN Goto("archive") ELSE job' = Idle
  /\ UNCHANGED <<experiment, guarding, evidence, observed, status, cites, interrupted>>

Archive ==
  /\ At("archive")
  /\ hypothesis' = [hypothesis EXCEPT ![job.trial] = "archived"]
  /\ job' = Idle
  /\ UNCHANGED <<experiment, guarding, evidence, observed, status, cites, interrupted>>

-----------------------------------------------------------------------------
(* Evidence lineage: what its callers may do with a piece of evidence *)

Traceable(n) == evidence[n].linked /\ evidence[n].trial # Unbound

Readable(n) == evidence[n] # NoEvidence /\ evidence[n].status # "unreadable"

Verified(n, result) ==
  IF result = "PASS" /\ Traceable(n) THEN "valid" ELSE "insufficient"

\* A FAIL changes no status.
VerifyEvidence(n, result) ==
  /\ job = Idle
  /\ Readable(n)
  /\ evidence' = [evidence EXCEPT ![n].status = Verified(n, result)]
  /\ UNCHANGED <<hypothesis, experiment, guarding, observed, status, cites, job,
                 interrupted>>

\* supersedeEvidence and invalidateEvidence.
WithdrawEvidence(n) ==
  /\ job = Idle
  /\ Readable(n)
  /\ evidence' = [evidence EXCEPT ![n].status = "withdrawn"]
  /\ UNCHANGED <<hypothesis, experiment, guarding, observed, status, cites, job,
                 interrupted>>

-----------------------------------------------------------------------------

\* The evidence files whose rewriting a crash would cut off.
BeingRewritten ==
  IF At("link") THEN {job.note} ELSE IF At("stale") THEN job.todo ELSE {}

\* The process stops between two writes, or amid the writing of an evidence
\* file, which is not replaced as a whole.
Crash ==
  /\ Crashes
  /\ \/ UNCHANGED evidence
     \/ \E n \in BeingRewritten :
          evidence' = [evidence EXCEPT ![n].status = "unreadable"]
  /\ job' = Idle
  /\ guarding' = {}
  /\ interrupted' = IF job # Idle THEN interrupted \cup ({job.trial} \cap Trial)
                    ELSE interrupted
  /\ UNCHANGED <<hypothesis, experiment, observed, status, cites>>

Start == Test \/ \E t \in Trial : Propose(t) \/ Refuse(t) \/ CreateExperiment(t)

NoteSuccess ==
  \/ \E t \in Trial \cup {Unbound}, r \in Req, v \in Verdict : BeginSuccess(t, r, v)
  \/ CompleteExperiment \/ CreateEvidence \/ RecordObservation \/ Conclude \/ Link
  \/ Settle \/ Reopen
  \/ \E n \in Note : Stale(n)

NoteFailure ==
  \/ \E t \in Trial, v \in Verdict : BeginFailure(t, v)
  \/ FailExperiment \/ Judge \/ Archive

Curate ==
  \E n \in Curated :
    \/ WithdrawEvidence(n)
    \/ \E result \in {"PASS", "PARTIAL"} : VerifyEvidence(n, result)

Next == Start \/ NoteSuccess \/ NoteFailure \/ Curate \/ Crash

Spec == Init /\ [][Next]_vars

-----------------------------------------------------------------------------
(* Properties *)

\* What a requirement cites can be traced: it is evidence for that requirement,
\* from a trial, with its observation recorded and linked, at every point where
\* a crash can fall (noteSuccess links before markRequirementVerified).
CitedIsTraceable ==
  \A r \in Req : \A n \in cites[r] :
    /\ evidence[n] # NoEvidence
    /\ evidence[n].req = r
    /\ Traceable(n)
    /\ n \in observed

\* A verified requirement rests on evidence that is not stale, unless a handler
\* is at work on it or a crash cut one off: a contradiction reopens every
\* requirement whose evidence it stales (noteContradiction).
Sound(n) == evidence[n].status \notin {"stale", "unreadable"}

RestsOnSound ==
  job = Idle =>
    \A r \in Req :
      status[r] = "verified" =>
        \E n \in cites[r] : Sound(n) \/ evidence[n].trial \in interrupted

\* After a failure nobody finds the hypothesis still under test
\* (noteFailure's comment, execution-engine.js:154-162).
FailureEnds ==
  job = Idle =>
    \A t \in Trial \ interrupted :
      experiment[t] = "failed" => hypothesis[t] \notin {"proposed", "testing"}

\* A hypothesis is under test, or beyond it, only with an experiment, even when
\* a crash parts the two writes.
TestedHasExperiment ==
  \A t \in Trial :
    hypothesis[t] \in {"testing", "supported", "rejected"} => experiment[t] # "none"

\* A requirement becomes verified only by an outcome that supports its
\* hypothesis, and is reopened only when evidence for it has gone stale.
RequirementMoves ==
  [][\A r \in Req :
       /\ status[r] = "pending" /\ status'[r] = "verified" =>
            \E n \in cites'[r] :
              Sound(n) /\ Traceable(n) /\ hypothesis[evidence[n].trial] = "supported"
       /\ status[r] = "verified" /\ status'[r] = "pending" =>
            \E n \in Note : evidence[n] # NoEvidence /\ evidence[n].req = r
                            /\ evidence[n].status = "stale"]_vars

\* Evidence is valid only with its full lineage
\* (evidence-lineage.js:424, "cannot be marked `valid` until all four
\* identifiers are present").
ValidIsTraceable ==
  \A n \in Note :
    evidence[n] # NoEvidence /\ evidence[n].status = "valid" => Traceable(n)

(***************************************************************************)
(* What the code does not keep: hypothesis-manager.js:10 says "When a      *)
(* hypothesis is rejected, dependent evidence is marked STALE so the       *)
(* linked requirement returns to PENDING".                                 *)
(***************************************************************************)
RejectedIsStale ==
  job = Idle =>
    \A n \in Note :
      evidence[n] # NoEvidence /\ evidence[n].trial # Unbound
        /\ hypothesis[evidence[n].trial] = "rejected"
      => evidence[n].status = "stale"
=============================================================================
