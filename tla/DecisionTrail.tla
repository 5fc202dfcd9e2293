------------------------------ MODULE DecisionTrail ------------------------------
(***************************************************************************)
(* The trail a task's decisions leave: the trace of its routing and of its *)
(* architectural decisions, the decisions its contract audits, what is put *)
(* off, and what becomes of a task that is finished or asked for again.    *)
(* Code: src/src/context/context-decision-audit.js and the tracing, back-  *)
(* log and archive of src/src/skills/engine.js.                            *)
(*                                                                         *)
(* The trace of a task is one file and everybody who traces begins a       *)
(* ledger of their own.  Synchronous calls are one step each.              *)
(***************************************************************************)
EXTENDS Naturals, Sequences, SequencesExt, FiniteSets

CONSTANTS TaskId,     \* tasks of the root
          Summary,    \* what a task is for, as normalizeText leaves it
          MaxLogged,  \* the bound on what is traced and on what is audited
          MaxDays,    \* the bound on the calendar
          NoTask      \* no such task, no candidate

ASSUME DecisionAssumption == TaskId \subseteq Nat /\ NoTask # <<"TECHNICAL_DECISION">>

VARIABLES trace,     \* the file of the task: its entries, or NoTask
          writable,  \* whether .wam/traces can be written
          answers,   \* what callers of the decision gate were told: ok
          decisions, \* contract.contextDecisions
          tasks,     \* the directories of tasks: summary and phase, or NoTask
          history,   \* the directories of history: the day and the task
          today

trailVars == <<trace, writable, answers, decisions>>
taskVars == <<tasks, history, today>>
decisionVars == <<trace, writable, answers, decisions, tasks, history, today>>

-----------------------------------------------------------------------------
(* The trace.                                                               *)

\* A ledger holds what its own tracer logged and is written whole at every entry;
\* a failure to write is logged and forgotten.
Persist(ledger) == trace' = IF writable THEN ledger ELSE trace

\* One call of the decision gate, which says ok whatever became of the file.
logArchitecturalDecision(alternatives, evidence) ==
  /\ Len(answers) < MaxLogged
  /\ LET complete == alternatives # 0 /\ evidence # 0
     IN  /\ answers' = Append(answers, complete)
         /\ IF complete THEN Persist(<<"TECHNICAL_DECISION">>) ELSE UNCHANGED trace
  /\ UNCHANGED <<writable, decisions, taskVars>>

\* Routing a prompt of the same task: the concept, the candidates and one entry
\* for each skill considered.
TraceRouting(n) ==
  /\ Persist(<<"CONCEPT_EXTRACTION", "CANDIDATE_RETRIEVAL">>
               \o [k \in 1..n |-> "SELECTION_DECISION"])
  /\ UNCHANGED <<writable, answers, decisions, taskVars>>

Obstruct ==
  /\ writable' = ~writable /\ UNCHANGED <<trace, answers, decisions, taskVars>>

-----------------------------------------------------------------------------
(* The decisions that a contract audits.                                    *)

Status == {"accepted", "rejected", "provisional"}
ConfidenceIn == {"high", "medium", "low"}

auditDecision(status, confidence) ==
  /\ Len(decisions) < MaxLogged
  /\ decisions' = Append(decisions, [id |-> Len(decisions) + 1, status |-> status,
                                     confidence |-> confidence])
  /\ UNCHANGED <<trace, writable, answers, taskVars>>

blocking ==
  {d \in Range(decisions) :
     \/ d.status = "provisional"
     \/ d.status = "accepted" /\ d.confidence = "low"}
auditGate == blocking = {}

\* The first of that id, whatever it was: what was rejected may be accepted.
resolveDecision(id, status, confidence) ==
  /\ \E k \in DOMAIN decisions :
       /\ decisions[k].id = id
       /\ \A j \in 1..(k - 1) : decisions[j].id # id
       /\ decisions' = [decisions EXCEPT ![k] =
                         [decisions[k] EXCEPT !.status = status, !.confidence = confidence]]
  /\ UNCHANGED <<trace, writable, answers, taskVars>>

-----------------------------------------------------------------------------
(* The directories.  Their names are in an order, the least first.          *)

Active(t) == tasks[t] # NoTask /\ tasks[t].phase = "ACTIVE"

\* The first that is at work on the same; the message only names it.
findDuplicateTask(summary) ==
  LET same == {t \in TaskId : Active(t) /\ tasks[t].summary = summary}
  IN  IF same = {} THEN NoTask ELSE CHOOSE t \in same : \A u \in same : t <= u

\* The prompt is the task's last action, by which the next one is compared with it.
TakePrompt(t, summary) ==
  /\ tasks[t] = NoTask \/ Active(t)
  /\ tasks' = [tasks EXCEPT ![t] = [summary |-> summary, phase |-> "ACTIVE",
                 offered |-> IF findDuplicateTask(summary) = t THEN NoTask
                             ELSE findDuplicateTask(summary)]]
  /\ UNCHANGED <<history, today, trailVars>>

EndTask(t) ==
  /\ Active(t)
  /\ tasks' = [tasks EXCEPT ![t].phase = "DONE"]
  /\ UNCHANGED <<history, today, trailVars>>

\* A directory of that task and day is not written over: the rename fails, which
\* is logged, and the task stays where it is.
archiveTaskSession(t) ==
  /\ tasks[t] # NoTask
  /\ IF <<today, t>> \in history THEN UNCHANGED <<tasks, history>>
     ELSE /\ history' = history \cup {<<today, t>>}
          /\ tasks' = [tasks EXCEPT ![t] = NoTask]
  /\ UNCHANGED <<today, trailVars>>

NextDay ==
  /\ today < MaxDays /\ today' = today + 1 /\ UNCHANGED <<tasks, history, trailVars>>

DecisionInit ==
  /\ trace = NoTask /\ writable = TRUE /\ answers = <<>> /\ decisions = <<>>
  /\ tasks = [t \in TaskId |-> NoTask] /\ history = {} /\ today = 1

TraceNext ==
  \/ \E a, e \in 0..1 : logArchitecturalDecision(a, e)
  \/ \E n \in 0..1 : TraceRouting(n)
  \/ Obstruct
AuditNext ==
  \E s \in Status, c \in ConfidenceIn :
    auditDecision(s, c) \/ \E id \in 1..MaxLogged : resolveDecision(id, s, c)
ArchiveNext ==
  \/ \E t \in TaskId : \/ \E s \in Summary : TakePrompt(t, s)
                       \/ EndTask(t) \/ archiveTaskSession(t)
  \/ NextDay
DecisionNext == TraceNext \/ AuditNext \/ ArchiveNext

DecisionSpec == DecisionInit /\ [][DecisionNext]_decisionVars

-----------------------------------------------------------------------------
\* A trace holds one ledger, of the gate or of a routing and never of both; the
\* ids of audited decisions tell them apart, so that each can be resolved; a task
\* is never offered itself; and nothing is archived on a day to come.
DecisionTypeOK ==
  /\ trace = NoTask \/ trace = <<"TECHNICAL_DECISION">> \/ trace[1] = "CONCEPT_EXTRACTION"
  /\ (trace = <<"TECHNICAL_DECISION">>) => (TRUE \in Range(answers))
  /\ \A k \in DOMAIN decisions : decisions[k].id = k
  /\ auditGate => \A k \in DOMAIN decisions :
       decisions[k].status \in {"accepted", "rejected"}
  /\ \A t \in TaskId :
       tasks[t] # NoTask =>
         /\ tasks[t].phase \in {"ACTIVE", "DONE"} /\ tasks[t].summary \in Summary
         /\ tasks[t].offered \in {NoTask} \cup (TaskId \ {t})
  /\ history \subseteq (1..today) \X TaskId
=============================================================================
